---------------------------------- MODULE Logs --------------------------------
(***************************************************************************)
(* Logs of records that have a kind: journals, event streams, frames, and  *)
(* what is left of a sequence when some of it is left out.                 *)
(***************************************************************************)
EXTENDS Naturals, Sequences, Functions

\* What of a sequence is in a set, in order.  A recursive function rather than a filter
\* by a predicate, so that it can be proved about.
OnlyIn(seq, set) ==
  LET upTo[i \in 0 .. Len(seq)] ==
        IF i = 0 THEN <<>>
        ELSE IF seq[i] \in set THEN Append(upTo[i - 1], seq[i])
        ELSE upTo[i - 1]
  IN  upTo[Len(seq)]

\* What of a log is of some kinds, in order.
OfKinds(log, kinds) == OnlyIn(log, {entry \in Range(log) : entry.kind \in kinds})

\* The numbers up to n that are in a set, in ascending order.
Ascending(n, set) ==
  LET upTo[i \in 0 .. n] ==
        IF i = 0 THEN <<>>
        ELSE IF i \in set THEN Append(upTo[i - 1], i)
        ELSE upTo[i - 1]
  IN  upTo[n]
================================================================================
