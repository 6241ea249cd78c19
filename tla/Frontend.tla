-------------------------------- MODULE Frontend -------------------------------
(***************************************************************************)
(* What a person sees of a run: the events of several agents are fanned in *)
(* under pressure (frey-agent/src/multi.rs), and projected onto the frames *)
(* of a frontend under pressure again (frey-harness/src/agui.rs), with the *)
(* kinds of frey-core/src/event.rs.                                        *)
(*                                                                         *)
(* An event is its kind and its position; a frame keeps the position of    *)
(* the event it shows.  "produced" is a history.  How often a caller       *)
(* flushes, and how little room it has each time, is up to the caller.     *)
(***************************************************************************)
EXTENDS Naturals, Sequences, SequencesExt, FiniteSets, Logs

CONSTANTS
  Emitted,      \* the kinds of events the agents emit
  Capacities,   \* rooms a caller may have
  MaxEvents     \* bound: events ever produced

VARIABLES produced, pending, frames, dropped

frontendVars == <<produced, pending, frames, dropped>>
--------------------------------------------------------------------------------
Presentation == {"TextDelta", "ReasoningDelta"}
Bookkeeping == {"TurnStarted", "TurnFinished", "UsageUpdated", "Discovered"}
Rendered == {"RunStarted", "ToolCallStarted", "ToolCallFinished", "ToolCallFailed",
             "NeedsInput", "StateDelta", "Warned", "RunFinished"}
EventKind == Presentation \cup Bookkeeping \cup Rendered

ASSUME FrontendAssumption ==
  /\ Emitted \subseteq EventKind
  /\ Capacities \subseteq Nat
  /\ MaxEvents \in Nat

\* Event::is_droppable, droppable_under_pressure
IsDroppable(event) == event.kind \in Presentation

\* What is no delta, and what agui::project gives some frame for.
Semantic == EventKind \ Presentation
Projected == EventKind \ Bookkeeping

\* Fault: once there is no room left, there is no room for anything.
KeepsIfRoom(room, event) == room
Keeps(room, event) == room \/ ~IsDroppable(event)

\* The loop of both: what survives of a list, in order, and how many did not.
Squeezing(out, event, capacity) ==
  IF Keeps(Len(out.kept) < capacity, event)
  THEN [kept |-> Append(out.kept, event), dropped |-> out.dropped]
  ELSE [kept |-> out.kept, dropped |-> out.dropped + 1]
Squeezed(events, capacity) ==
  LET upTo[i \in 0 .. Len(events)] ==
        IF i = 0 THEN [kept |-> <<>>, dropped |-> 0]
        ELSE Squeezing(upTo[i - 1], events[i], capacity)
  IN  upTo[Len(events)]

\* apply_backpressure leaves a list that fits alone.  In project_stream only what
\* projects takes room.
ApplyBackpressure(events, capacity) ==
  IF Len(events) <= capacity THEN [kept |-> events, dropped |-> 0]
  ELSE Squeezed(events, capacity)
ProjectStream(events, capacity) == Squeezed(OfKinds(events, Projected), capacity)

FrontendInit ==
  /\ produced = <<>>
  /\ pending = <<>>
  /\ frames = <<>>
  /\ dropped = 0

Emit(kind) ==
  LET event == [kind |-> kind, seq |-> Len(produced) + 1] IN
  /\ Len(produced) < MaxEvents
  /\ produced' = Append(produced, event)
  /\ pending' = Append(pending, event)
  /\ UNCHANGED <<frames, dropped>>

FanIn(capacity) ==
  LET out == ApplyBackpressure(pending, capacity) IN
  /\ pending # <<>>
  /\ pending' = out.kept
  /\ dropped' = dropped + out.dropped
  /\ UNCHANGED <<produced, frames>>

Flush(capacity) ==
  LET out == ProjectStream(pending, capacity) IN
  /\ pending # <<>>
  /\ pending' = <<>>
  /\ frames' = frames \o out.kept
  /\ dropped' = dropped + out.dropped
  /\ UNCHANGED produced

FrontendNext ==
  \/ \E kind \in Emitted : Emit(kind)
  \/ \E capacity \in Capacities : FanIn(capacity) \/ Flush(capacity)

FrontendSpec == FrontendInit /\ [][FrontendNext]_frontendVars
--------------------------------------------------------------------------------
\* "A dropped delta makes a UI stutter, and a dropped tool call makes the transcript a
\* lie": however often the stream is squeezed, by whoever, every event that means
\* something reaches the frontend, once and in the order it happened, and what did not
\* reach it is exactly what was counted, because "the UI looked laggy" should be
\* diagnosable from a number.
Shown == frames \o OfKinds(pending, Projected)
OnlyDeltasAreLost ==
  /\ OfKinds(Shown, Semantic) = OfKinds(OfKinds(produced, Projected), Semantic)
  /\ \A i, j \in DOMAIN Shown : i < j => Shown[i].seq < Shown[j].seq
  /\ Len(Shown) + dropped = Len(OfKinds(produced, Projected))
================================================================================
