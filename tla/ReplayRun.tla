------------------------------- MODULE ReplayRun ------------------------------
(***************************************************************************)
(* Replay (frey-agent/src/journal.rs, Replay and Replaying): a recorded    *)
(* run, and then a second run of the same loop whose provider answers from *)
(* the first one's journal.  The tools run for real both times, and the    *)
(* caller may start the second run from another prompt.                    *)
(*                                                                         *)
(* Replaying is an ordinary provider: a replay that cannot answer is a     *)
(* Protocol error, which the loop returns like any provider failure.       *)
(*                                                                         *)
(* The journal may go through a file in between.  A file may have been cut *)
(* at the end of any line, and one written by an earlier version holds     *)
(* effects only, whose requests carry no hash of what the prompt said.     *)
(***************************************************************************)
EXTENDS AgentRun

CONSTANT ReplayRoute   \* what a replayed response names as its provider:model

ASSUME ReplayRouteAssumption == ReplayRoute \in Routes

VARIABLES
  mode,      \* "recording" or "replaying"
  script,    \* Replay::journal: the entries being fed back
  cursor,    \* Replay::next: how many of them were consumed
  hashed     \* RequestFingerprint::content: whether the requests in it carry a hash

replay == <<mode, script, cursor, hashed>>

ReplayInit ==
  Init /\ mode = "recording" /\ script = <<>> /\ cursor = 0 /\ hashed = TRUE

Recording == mode = "recording" /\ Next /\ UNCHANGED replay

\* Journal::to_jsonl, from_jsonl: one line for every effect and, after them, for every
\* event; a line is an event when it says so.
LinesOf(kind, log) == [i \in DOMAIN log |-> [kind |-> kind, of |-> log[i]]]
ToJsonl(journal) == LinesOf("Effect", journal.entries) \o LinesOf("Event", journal.events)
Parsed(lines) == [i \in DOMAIN lines |-> lines[i].of]
FromJsonl(file) ==
  [entries |-> Parsed(OfKinds(file, {"Effect"})), events |-> Parsed(OfKinds(file, {"Event"}))]

Journal == [entries |-> entries, events |-> events]
Cut(file, n) == SubSeq(file, 1, n)

\* RunOutput::journal, RunError::into_journal.
KeepsJournal(how) == how \in {"Ok"} \cup RunErrors

\* The journal of a finished run, however it ended, is handed to a fresh agent.
Restart ==
  /\ mode = "recording" /\ pc = "Done" /\ KeepsJournal(outcome)
  /\ mode' = "replaying" /\ cursor' = 0
  /\ \E n \in 0 .. Len(ToJsonl(Journal)), old \in BOOLEAN :
       /\ script' = FromJsonl(Cut(ToJsonl(Journal), n)).entries
       /\ hashed' = ~old
  /\ pc' = "Listing" /\ turn' = 0 /\ catalog' = {}
  /\ \E task \in Sizes, system \in BOOLEAN : turns' = Opening(task, system)
  /\ previous' = <<>> /\ request' = NoRequest
  /\ calls' = <<>> /\ next' = 1 /\ results' = NoResults
  /\ servedBy' = NoRoute /\ totals' = EmptyTotals
  /\ entries' = <<>>
  /\ events' = <<[kind |-> "RunStarted", turn |-> 0]>>
  /\ outcome' = "running"

SameShape(recorded, asked) ==
  /\ recorded.tools = asked.tools
  /\ Cardinality(recorded.content) = Cardinality(asked.content)

\* Fault: only the shape of the prompt is compared, as before content hashing.
DivergenceOfShape(recorded, asked) == IF SameShape(recorded, asked) THEN "None" ELSE "Shape"
\* diverges_from.  The model is the agent's and is the same both times.
Divergence(recorded, asked) ==
  CASE ~SameShape(recorded, asked) -> "Shape"
    [] SameShape(recorded, asked) /\ ~hashed -> "Unknown"
    [] OTHER -> IF recorded.content = asked.content THEN "None" ELSE "Content"

\* The next entry must be a model response, and to this very request as far as the
\* journal can tell.
Matches ==
  /\ cursor < Len(script)
  /\ script[cursor + 1].kind = "ModelResponse"
  /\ Divergence(script[cursor + 1].request, Fingerprint) \in {"None", "Unknown"}

Recorded(e) ==
  [calls |-> e.calls, stop |-> e.stop, size |-> e.size, counted |-> e.counted,
   cost |-> e.cost, route |-> ReplayRoute]

Consume == cursor' = cursor + 1

ReplayResponse ==
  /\ Matches
  /\ \E r \in {Recorded(script[cursor + 1])} : FinalAnswer(r) \/ CallsAnswer(r)
  /\ Consume

\* Exhausted or Diverged: nothing is consumed, and the run ends.
ReplayFails == ~Matches /\ ProviderFails /\ UNCHANGED cursor

\* Everything in the second run but the provider.
RealTools ==
  /\ \/ Loop \/ ListTools \/ ListFails
     \/ \E answered \in HostOutcomes, size \in Sizes : HostAnswers(answered, size)
     \/ Over
  /\ UNCHANGED cursor

Replaying ==
  /\ mode = "replaying"
  /\ RealTools \/ ReplayResponse \/ ReplayFails
  /\ UNCHANGED <<mode, script, hashed>>

ReplayNext == Recording \/ Restart \/ Replaying

ReplaySpec == ReplayInit /\ [][ReplayNext]_<<vars, replay>>
--------------------------------------------------------------------------------
\* A replay never improvises: every response the second run journals is the one the first
\* run recorded at that place, and answers the request that one answered; where the
\* journal is too old to tell, a request of the same shape.
Script == OfKinds(script, {"ModelResponse"})
Answered(e) == [calls |-> e.calls, stop |-> e.stop, size |-> e.size, cost |-> e.cost]
ReplayNeverInvents ==
  mode = "replaying" =>
    /\ Len(Responses) <= Len(Script)
    /\ \A i \in DOMAIN Responses :
         /\ Answered(Responses[i]) = Answered(Script[i])
         /\ SameShape(Script[i].request, Responses[i].request)
         /\ hashed => Responses[i] = Script[i]

\* "A replay that ends with responses left over reproduced a prefix of the run":
\* one that ends well has consumed the whole journal, and it was the journal of a
\* run that ended well.
FinishedReplayIsWhole ==
  mode = "replaying" /\ outcome = "Ok" =>
    /\ cursor = Len(script)
    /\ IsFinal(script[Len(script)])

\* "It now compares the whole journal": nothing of a run is lost in a file.
FileIsWhole == pc = "Done" => FromJsonl(ToJsonl(Journal)) = Journal

\* A replay is the recorded run again, through a file or not, as far as the record goes,
\* and it says how far that was.
ReplayIsFaithful == ReplayNeverInvents /\ FinishedReplayIsWhole /\ FileIsWhole

\* What docs/testing.md and README.md say, "a recorded run replays exactly": while
\* the second run has done just what was recorded, and asks just what was asked
\* next, it is not refused.
NextRecorded ==
  OfKinds(SubSeq(script, Len(entries) + 1, Len(script)), {"ModelResponse"})
RecordedRunReplays ==
  mode = "replaying" /\ outcome = "Provider" /\ hashed /\ IsPrefix(entries, script) =>
    \/ NextRecorded = <<>>
    \/ NextRecorded[1].request # Fingerprint
================================================================================
