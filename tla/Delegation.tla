------------------------------- MODULE Delegation ------------------------------
(***************************************************************************)
(* A task handed to a vendor's command line (frey-providers/src/           *)
(* agent_cli.rs, AgentCli::delegate): a child process, its output line by  *)
(* line, one deadline for the whole task, and the stream of agent events   *)
(* (Yielder).                                                              *)
(*                                                                         *)
(* The child, the clock and the consumer interleave freely.  A line is     *)
(* what parse_event makes of it.  A producer that returns, or is dropped   *)
(* with its stream, drops the child, which is killed if it still runs      *)
(* (kill_on_drop).                                                         *)
(***************************************************************************)
EXTENDS Naturals, Yielder

CONSTANT MaxLines   \* bound: lines a child writes

ASSUME DelegationAssumption == MaxLines \in Nat

LineKinds == {"chatter", "says", "result", "error"}

VARIABLES
  step,       \* "idle", "spawned", "reading", "reaping" or "over"
  lines,      \* what the child has written: the kind of each line
  read,       \* how many of them were read
  stdout,     \* "open" or "closed"
  child,      \* "none", "running", "exited" or "killed"
  expired,    \* the deadline has passed
  finished    \* a result line was seen

process == <<lines, stdout, child>>
cliVars == <<step, process, read, expired, finished>>

Failed == 0   \* the event Frey adds of its own; the others are lines
--------------------------------------------------------------------------------
CliInit ==
  /\ step = "idle"
  /\ lines = <<>> /\ read = 0
  /\ stdout = "closed" /\ child = "none"
  /\ expired = FALSE /\ finished = FALSE

Spawn ==
  /\ step = "idle"
  /\ step' = "spawned"
  /\ stdout' = "open" /\ child' = "running"
  /\ Open
  /\ UNCHANGED <<lines, read, expired, finished>>

\* The program is not there.
SpawnFails ==
  /\ step = "idle"
  /\ step' = "over"
  /\ UNCHANGED <<process, read, expired, finished, stream>>

\* The child.
WriteLine ==
  /\ child = "running" /\ stdout = "open" /\ Len(lines) < MaxLines
  /\ \E kind \in LineKinds : lines' = Append(lines, kind)
  /\ UNCHANGED <<step, read, stdout, child, expired, finished, stream>>

CloseStdout ==
  /\ child = "running" /\ stdout = "open"
  /\ stdout' = "closed"
  /\ UNCHANGED <<step, lines, read, child, expired, finished, stream>>

Exit ==
  /\ child = "running"
  /\ child' = "exited" /\ stdout' = "closed"
  /\ UNCHANGED <<step, lines, read, expired, finished, stream>>

\* The clock.
Expire ==
  /\ step \in {"reading", "reaping"} /\ ~expired
  /\ expired' = TRUE
  /\ UNCHANGED <<step, process, read, finished, stream>>

\* The producer.  Its first poll starts the clock, not the child's start.
Begin ==
  /\ step = "spawned" /\ consumer = "polling"
  /\ step' = "reading"
  /\ UNCHANGED <<process, read, expired, finished, stream>>

\* A line that is there is read whatever the clock says.
\* Fault: nothing kills the child.
KillForgotten == UNCHANGED child
Kill == child' = IF child = "running" THEN "killed" ELSE child
Events(k) == IF lines[k] = "chatter" THEN <<>> ELSE <<k>>

ReadLine ==
  /\ step = "reading" /\ read < Len(lines)
  /\ Push(Events(read + 1))
  /\ read' = read + 1
  /\ finished' = (finished \/ lines[read + 1] = "result")
  /\ UNCHANGED <<step, process, expired>>

\* A line that is not text.
ReadBroken ==
  /\ step = "reading" /\ read < Len(lines)
  /\ Return(<<Failed>>)
  /\ Kill
  /\ UNCHANGED <<step, lines, read, stdout, expired, finished>>

TimeOut ==
  /\ step = "reading" /\ read = Len(lines) /\ stdout = "open" /\ expired
  /\ Return(<<Failed>>)
  /\ Kill
  /\ UNCHANGED <<step, lines, read, stdout, expired, finished>>

\* Fault: the end of the output is taken for the end of the task.
EndOfOutputTrusted ==
  /\ step = "reading" /\ read = Len(lines) /\ stdout = "closed"
  /\ Return(<<>>)
  /\ Kill
  /\ UNCHANGED <<step, lines, read, stdout, expired, finished>>

\* The end of the output: with a result that is all, without one the exit status
\* is awaited, with no deadline.
EndOfOutput ==
  /\ step = "reading" /\ read = Len(lines) /\ stdout = "closed"
  /\ \/ /\ finished
        /\ Return(<<>>)
        /\ Kill
        /\ UNCHANGED step
     \/ /\ ~finished
        /\ step' = "reaping"
        /\ UNCHANGED <<child, stream>>
  /\ consumer = "polling" /\ alive
  /\ UNCHANGED <<lines, read, stdout, expired, finished>>

Reap ==
  /\ step = "reaping" /\ child = "exited"
  /\ Return(<<Failed>>)
  /\ UNCHANGED cliVars

\* The consumer drops the stream at any time, before its first poll included.
Abandon ==
  /\ step \in {"spawned", "reading", "reaping"}
  /\ Drop
  /\ Kill
  /\ UNCHANGED <<step, lines, read, stdout, expired, finished>>

\* What the producer's await is woken by.
Stirs ==
  \/ step = "reading" /\ (read < Len(lines) \/ stdout = "closed" \/ expired)
  \/ step = "reaping" /\ child = "exited"

CliWaits == step # "spawned" /\ ~Stirs /\ Suspend /\ UNCHANGED cliVars
CliWakes == Stirs /\ Wake /\ UNCHANGED cliVars

Child == WriteLine \/ CloseStdout \/ Exit
Frey ==
  \/ Spawn \/ SpawnFails \/ Begin
  \/ ReadLine \/ ReadBroken \/ TimeOut \/ EndOfOutput \/ Reap
  \/ CliWaits \/ CliWakes
  \/ step \in {"spawned", "reading", "reaping"} /\ Polls /\ UNCHANGED cliVars

CliNext == Child \/ Expire \/ Frey \/ Abandon

\* A child that has closed its output goes on to exit.
ChildIsDone == stdout = "closed" /\ Exit
--------------------------------------------------------------------------------
CliTypeOK ==
  /\ step \in {"idle", "spawned", "reading", "reaping", "over"}
  /\ lines \in Seq(LineKinds)
  /\ read \in 0 .. Len(lines)
  /\ stdout \in {"open", "closed"}
  /\ child \in {"none", "running", "exited", "killed"}
  /\ expired \in BOOLEAN /\ finished \in BOOLEAN

\* "Saying so beats a truncated transcript that looks complete": the stream of a
\* delegated task never ends without a line that says how it ended, the agent's or
\* Frey's own.
EndsWithVerdict ==
  step \in {"reading", "reaping"} /\ consumer = "ended" =>
    \E i \in DOMAIN got :
      \/ got[i] = Failed
      \/ lines[got[i]] \in {"result", "error"}

\* "An abandoned agent process keeps spending the user's subscription": once the
\* stream has ended, or was dropped, no child is left running.
NoChildOutlivesItsStream ==
  consumer \in {"ended", "dropped"} => child # "running"

\* "How long to wait before giving up" (DelegatedTask::timeout_ms): once the
\* deadline has passed the stream ends, unless its consumer has dropped it.
DeadlineEndsTask == expired ~> consumer \in {"ended", "dropped"}
================================================================================
