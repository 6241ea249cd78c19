-------------------------------- MODULE Doubles --------------------------------
(***************************************************************************)
(* What stands in for a provider and for tools in a test                   *)
(* (frey-testkit/src/scripted.rs, toolset.rs): a model that plays a script *)
(* and remembers what it was shown, shared by its clones, and a toolset    *)
(* that misbehaves on request and remembers what it was asked.             *)
(*                                                                         *)
(* A call of the model records the request under one lock and takes its    *)
(* turn under two others, so that calls of several agents cross in         *)
(* between.  A call beyond the script panics while it holds the two, which *)
(* poisons them.  "given" is a history: who was given which turn.          *)
(***************************************************************************)
EXTENDS Naturals, Sequences, SequencesExt, FiniteSets, Functions

CONSTANTS
  Scripts,    \* turns a test may write
  Testers,    \* agents that share one scripted model
  FakeTools,  \* tools of a toolset
  NoTurn,     \* a call that has not been answered,
  Panicked,   \* or never will be
  MaxCalls    \* bound: calls of the model, and of the toolset

\* Turn: the items of a reply, or a failure.
PlayedTurn == [fails : BOOLEAN, items : Seq(STRING)]
ASSUME DoublesAssumption ==
  /\ Scripts \subseteq Seq(PlayedTurn)
  /\ IsFiniteSet(FakeTools)
  /\ NoTurn \notin Nat /\ Panicked \notin Nat /\ NoTurn # Panicked

VARIABLES script, next, poisoned, witnessed, given, hostile, fakes, listings, lists, invoked

doublesVars == <<script, next, poisoned, witnessed, given, hostile, fakes, listings, lists, invoked>>
--------------------------------------------------------------------------------
Reply(items) == [fails |-> FALSE, items |-> items]
Fail == [fails |-> TRUE, items |-> <<>>]

\* Hostility
Hostility == [reorder : BOOLEAN, inject : BOOLEAN, fail : BOOLEAN]
Friendly == [reorder |-> FALSE, inject |-> FALSE, fail |-> FALSE]

DoublesInit ==
  /\ script \in Scripts
  /\ next = 1 /\ poisoned = FALSE
  /\ witnessed = <<>> /\ given = <<>>
  /\ hostile \in Hostility
  /\ fakes \in {SetToSeq(tools) : tools \in SUBSET FakeTools}
  /\ listings = 0 /\ lists = <<>> /\ invoked = [t \in FakeTools |-> 0]

\* Every call of an agent waits for the one before it.
Waiting(tester) == \E i \in DOMAIN witnessed : witnessed[i] = tester /\ given[i] = NoTurn
Fakes == <<hostile, fakes, listings, lists, invoked>>

\* record_and_take: the request is recorded
RecordRequest(tester) ==
  /\ Len(witnessed) < MaxCalls
  /\ ~Waiting(tester)
  /\ witnessed' = Append(witnessed, tester)
  /\ given' = Append(given, NoTurn)
  /\ UNCHANGED <<script, next, poisoned, Fakes>>

\* Fault: a failure is not a turn that was played.
AdvancesOnReply(turn) == IF turn.fails THEN 0 ELSE 1
Advances(turn) == 1

\* and answered: with the next turn, unless there is none, or somebody found none before.
Take(call) ==
  /\ given[call] = NoTurn
  /\ IF poisoned \/ next > Len(script)
     THEN /\ given' = [given EXCEPT ![call] = Panicked]
          /\ poisoned' = TRUE /\ next' = next
     ELSE /\ given' = [given EXCEPT ![call] = next]
          /\ next' = next + Advances(script[next])
          /\ poisoned' = FALSE
  /\ UNCHANGED <<script, witnessed, Fakes>>

\* stream: the items one by one, then all of them.
StreamOf(turn) ==
  IF turn.fails THEN <<>>
  ELSE [i \in DOMAIN turn.items |-> [done |-> FALSE, items |-> <<turn.items[i]>>]]
       \o <<[done |-> TRUE, items |-> turn.items]>>

\* saw, call_count, script_exhausted
CallCount == Len(witnessed)
ScriptExhausted == next > Len(script)
--------------------------------------------------------------------------------
\* FakeToolset::definitions: every second listing is the other way round.
ListingOf(count) ==
  LET described == [i \in DOMAIN fakes |-> [name |-> fakes[i], injected |-> hostile.inject]]
  IN IF hostile.reorder /\ count % 2 = 0 THEN Reverse(described) ELSE described

ListFakes ==
  /\ listings + Len(witnessed) < MaxCalls
  /\ listings' = listings + 1
  /\ lists' = IF hostile.fail THEN lists ELSE Append(lists, ListingOf(listings + 1))
  /\ UNCHANGED <<script, next, poisoned, witnessed, given, hostile, fakes, invoked>>

\* FakeToolset::call: the tool of that name records that it was called, before it answers.
Invoke(tool) ==
  /\ invoked[tool] < 1
  /\ invoked' = [invoked EXCEPT ![tool] = IF \E i \in DOMAIN fakes : fakes[i] = tool
                                          THEN @ + 1 ELSE @]
  /\ UNCHANGED <<script, next, poisoned, witnessed, given, hostile, fakes, listings, lists>>

DoublesNext ==
  \/ \E tester \in Testers : RecordRequest(tester)
  \/ \E call \in DOMAIN given : Take(call)
  \/ ListFakes
  \/ \E tool \in FakeTools : Invoke(tool)

DoublesSpec == DoublesInit /\ [][DoublesNext]_doublesVars
--------------------------------------------------------------------------------
Answered == {i \in DOMAIN given : given[i] \notin {NoTurn, Panicked}}

\* "A copy handed to an agent still reports back to the test that made it": whatever the
\* order in which agents ask, no turn is played twice, none is skipped, the turns that were
\* played are those that the test is told were used, and a test that reads off a request
\* what the model was shown finds one for each; a call beyond the script is never answered,
\* and nor is any after it.  What is streamed adds up to what is complete.  A toolset that
\* reorders never lists two or more tools the same way twice in a row, and always the same
\* tools.  (Which request a turn answered is not told: two that cross are answered in
\* either order.)
DoublesTellTheTruth ==
  /\ {given[i] : i \in Answered} = 1 .. (next - 1)
  /\ Cardinality(Answered) = next - 1 /\ next - 1 <= CallCount
  /\ poisoned => ScriptExhausted
  /\ \A i \in DOMAIN given : given[i] = Panicked => Cardinality(Answered) = Len(script)
  /\ \A i \in Answered :
       LET streamed == StreamOf(script[given[i]]) IN
         streamed # <<>> =>
           /\ Last(streamed).done
           /\ FlattenSeq([k \in 1 .. (Len(streamed) - 1) |-> streamed[k].items])
                = Last(streamed).items
  /\ \A i \in DOMAIN lists : {lists[i][k].name : k \in DOMAIN lists[i]} = Range(fakes)
  /\ \A i \in 2 .. Len(lists) :
       hostile.reorder /\ Len(fakes) > 1 <=> lists[i] # lists[i - 1]
================================================================================
