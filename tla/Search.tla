---------------------------------- MODULE Search -------------------------------
(***************************************************************************)
(* Finding a tool by a pattern (frey-context/src/search.rs): the small     *)
(* subset of regular expressions that a query may use, matched as the code *)
(* matches it and as "re.search" defines it.                               *)
(*                                                                         *)
(* Text is a sequence of characters.  The code finds a chunk at a position *)
(* counted in characters and slices what is left at a position counted in  *)
(* bytes, so a character has a width.                                      *)
(***************************************************************************)
EXTENDS Naturals, Sequences, SequencesExt, FiniteSetsExt

CONSTANTS
  Letters,      \* characters of one byte
  WideLetters   \* characters of two bytes

Width(char) == IF char \in WideLetters THEN 2 ELSE 1
Bytes(text) == SumFunction([i \in DOMAIN text |-> Width(text[i])])

Mismatch == [found |-> FALSE, panicked |-> FALSE]
Match == [found |-> TRUE, panicked |-> FALSE]
Panic == [found |-> FALSE, panicked |-> TRUE]

\* "." stands for any character.
FitsAt(text, chunk, start) ==
  /\ start + Len(chunk) <= Len(text)
  /\ \A i \in DOMAIN chunk : chunk[i] \in {".", text[start + i]}

\* find_with_dots: the characters before the first fit, 0 for an empty chunk.
Fits(text, chunk) == {start \in 0 .. Len(text) : FitsAt(text, chunk, start)}

\* &haystack[cursor..], which panics inside a character.
CanSlice(text, cursor) == \E k \in 0 .. Len(text) : Bytes(SubSeq(text, 1, k)) = cursor
SliceFrom(text, cursor) ==
  LET k == CHOOSE k \in 0 .. Len(text) : Bytes(SubSeq(text, 1, k)) = cursor
  IN  SubSeq(text, k + 1, Len(text))

\* Fault: the search goes on where the chunk was found, not after it.
NextCursorAt(cursor, at, chunk) == cursor + at
NextCursor(cursor, at, chunk) == cursor + at + Bytes(chunk)

\* One chunk after the others, from where the last one ended.
Step(text, state, chunk) ==
  IF state.result # Match \/ chunk = <<>> THEN state
  ELSE IF ~CanSlice(text, state.cursor) THEN [state EXCEPT !.result = Panic]
  ELSE LET fits == Fits(SliceFrom(text, state.cursor), chunk)
       IN  IF fits = {} THEN [state EXCEPT !.result = Mismatch]
           ELSE [state EXCEPT !.cursor = NextCursor(@, Min(fits), chunk)]

Start == [result |-> Match, cursor |-> 0]

\* matches: a pattern is the chunks between its ".*".
Matches(pattern, text) ==
  LET after[n \in 0 .. Len(pattern)] ==
        IF n = 0 THEN Start ELSE Step(text, after[n - 1], pattern[n])
  IN  after[Len(pattern)].result

\* RegexSearch::search of one entry: any alternative will do, tried in order.
Searches(alternatives, text) ==
  LET after[n \in 0 .. Len(alternatives)] ==
        IF n = 0 THEN Mismatch
        ELSE IF after[n - 1] = Mismatch THEN Matches(alternatives[n], text) ELSE after[n - 1]
  IN  after[Len(alternatives)]

\* re.search: somewhere in the text, each chunk fits, after the one before it.
ReSearch(pattern, text) ==
  \E at \in [DOMAIN pattern -> 0 .. Len(text)] :
    /\ \A i \in DOMAIN pattern : FitsAt(text, pattern[i], at[i])
    /\ \A i, j \in DOMAIN pattern : i < j => at[i] + Len(pattern[i]) <= at[j]
================================================================================
