----------------------------- MODULE ToolProtocol -----------------------------
(***************************************************************************)
(* What a run promises to the model and to the tool host, with everything  *)
(* about prompts, money, warnings and journals left out.  A call is the    *)
(* pair of the request whose answer asked for it and its place in that     *)
(* answer.  The run                                                        *)
(*   - consults the model at most MaxAsks times;                           *)
(*   - hands the host one call at a time, each at most once, and only the  *)
(*     first Cap calls of an answer;                                       *)
(*   - settles every call of an answer, in the order they were asked for,  *)
(*     before it consults the model again or ends.  An answer the run      *)
(*     takes as final ends it, and the calls it may hold are nobody's.     *)
(***************************************************************************)
EXTENDS Naturals

CONSTANTS
  MaxAsks,   \* how often a run may consult the model
  Cap,       \* how many calls of one answer may run
  Lengths    \* how many calls an answer that is not final may hold

VARIABLES
  phase,     \* "idle", "asked", "settling" or "over"
  asked,     \* how often the model has been consulted
  owed,      \* the calls of the current answer that have no result yet
  running    \* the call the host is executing, if any

vars == <<phase, asked, owed, running>>

Init ==
  /\ phase = "idle"
  /\ asked = 0
  /\ owed = {}
  /\ running = {}

Ask ==
  /\ phase = "idle"
  /\ asked < MaxAsks
  /\ phase' = "asked"
  /\ asked' = asked + 1
  /\ UNCHANGED <<owed, running>>

Answer ==
  /\ phase = "asked"
  /\ \E n \in Lengths : owed' = {asked} \X (1 .. n)
  /\ phase' = "settling"
  /\ UNCHANGED <<asked, running>>

Run ==
  /\ phase = "settling"
  /\ running = {}
  /\ \E call \in owed : call[2] <= Cap /\ running' = {call}
  /\ UNCHANGED <<phase, asked, owed>>

Settle ==
  /\ phase = "settling"
  /\ \E call \in owed :
       /\ \A other \in owed : call[2] <= other[2]
       /\ running \subseteq {call}
       /\ owed' = owed \ {call}
  /\ running' = {}
  /\ UNCHANGED <<phase, asked>>

Resume ==
  /\ phase = "settling"
  /\ owed = {}
  /\ phase' = "idle"
  /\ UNCHANGED <<asked, owed, running>>

Stop ==
  /\ phase \in {"idle", "asked"}
  /\ phase' = "over"
  /\ UNCHANGED <<asked, owed, running>>

Next == Ask \/ Answer \/ Run \/ Settle \/ Resume \/ Stop

Spec == Init /\ [][Next]_vars
================================================================================
