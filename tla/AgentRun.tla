------------------------------- MODULE AgentRun -------------------------------
(***************************************************************************)
(* The agent loop (frey-agent/src/run.rs, Agent::run) with the journal it  *)
(* writes (frey-agent/src/journal.rs).                                     *)
(*                                                                         *)
(* The loop is sequential: what interleaves with it are the answers to its *)
(* three awaits, so one action is the code between two awaits, and every   *)
(* answer a provider or a tool host can give is a choice of the            *)
(* environment.  Everything the loop keeps is local to the future; the     *)
(* journal is what leaves it, with the result or inside the error.         *)
(*                                                                         *)
(* A call id is <<turn, place in the answer>>, because the provider mints  *)
(* a fresh id per call.  A warning batch is one "Warned" event holding the *)
(* warnings raised together, and the caller's summary list is what those   *)
(* events hold, since warn() always writes both.  The journal's dropped    *)
(* counter stays zero: the loop emits no presentation delta.               *)
(***************************************************************************)
EXTENDS Integers, Sequences, SequencesExt, Budget, CachePlan, Logs

CONSTANTS
  Catalogs,        \* the sets of tools a host may list
  Forbidden,       \* tools that need a capability the loop does not grant
  Requests,        \* the calls a model may ask for: [tool, valid]
  MaxCalls,        \* bound: calls in one answer
  Stops,           \* the stop reasons an answer may carry
  HostOutcomes,    \* what the tool host may answer
  Sizes,           \* bound: token estimates of a task, an answer, a result
  Counts,          \* bound: prompt tokens the provider may count; 0 = not told
  Routes,          \* the provider:model pairs that may serve a request, as numbers
  Currencies,      \* the currencies a call may be priced in
  Costs,           \* bound: what a call may report: Money or NoCost
  NoCost,          \* the call reported no cost
  NoRoute,         \* no request has been served yet
  MaxTurns,        \* Agent::max_turns
  MaxToolCalls,    \* Agent::max_tool_calls_per_turn
  LookbackBlocks,  \* LOOKBACK_BLOCKS
  Ceiling,         \* ContextBudget::prompt_ceiling
  RecentHistory,   \* Floors::recent_history
  DefSize,         \* bound: tokens of one tool definition
  Caps             \* the provider's cache capability

Money == [currency : Currencies, amount : Nat]
Outcomes == {"Ok", "Failed", "Denied", "NeedsInput"}
\* The RunError variants the loop returns, each with the journal so far; NeedsInput,
\* the one that would carry none, is declared and never made.
RunErrors == {"ToolCatalog", "Budget", "Provider", "TurnLimit"}
StopReasons == {"EndTurn", "ToolUse", "MaxTokens", "StopSequence", "Refusal", "Other"}
Request == [tool : UNION Catalogs \cup {r.tool : r \in Requests}, valid : BOOLEAN]

ASSUME CatalogAssumption == Catalogs # {} /\ \A c \in Catalogs : IsFiniteSet(c)
ASSUME RequestAssumption == Requests \subseteq Request
ASSUME LimitAssumption ==
  /\ MaxTurns \in Nat
  /\ MaxToolCalls \in Nat
  /\ MaxCalls \in Nat
  /\ LookbackBlocks \in Nat
  /\ RecentHistory \in Nat
\* The loop takes Floors::default, which is four.
ASSUME FloorAssumption == RecentHistory % 2 = 0
ASSUME SizeAssumption ==
  Sizes \subseteq Nat /\ Counts \subseteq Nat /\ DefSize \in Nat /\ Ceiling \in Nat
ASSUME CostAssumption == Costs \subseteq Money \cup {NoCost} /\ NoCost \notin Money
ASSUME RouteAssumption == Routes \subseteq Nat /\ IsFiniteSet(Routes) /\ NoRoute \notin Routes
ASSUME AnswerAssumption == Stops \subseteq StopReasons /\ HostOutcomes \subseteq Outcomes

VARIABLES
  pc,        \* which await or loop head the run is at
  turn,      \* turn_index, and max_turns after the loop
  catalog,   \* definitions
  turns,     \* the conversation so far
  previous,  \* PreviousPrompt: the hashes of the last prompt that was kept
  request,   \* the last Request handed to the provider, and its estimate
  calls,     \* the calls of the current answer
  next,      \* the place of the next call to settle
  results,   \* the turn of results being assembled for this answer
  servedBy,  \* which provider:model served the last request
  totals,    \* UsageTotals
  entries,   \* journal.entries
  events,    \* journal.events
  outcome    \* how the run ended: "running", "ok" or the RunError variant

vars == <<pc, turn, catalog, turns, previous, request, calls, next, results,
          servedBy, totals, entries, events, outcome>>

\* What one answer leaves behind.
answer == <<calls, next, results>>
\* What the loop carries from turn to turn besides the conversation.
context == <<catalog, previous, request>>
ledger == <<servedBy, totals>>
--------------------------------------------------------------------------------
(* Turns and the prompt they render to.  A turn says its text, and carries *)
(* the ids of the calls it asks for and of the results it brings.          *)

CallId == Nat \X Nat
Note(content) == [content |-> content]

Says(role, text, size) ==
  [role |-> role, text |-> text, calls |-> <<>>, results |-> <<>>, size |-> size]
AssistantTurn(ids, asked, size) ==
  [role |-> "Assistant", text |-> asked, calls |-> ids, results |-> <<>>, size |-> size]
NoResults == Says("User", <<>>, 0)
WithResult(t, id, content, size) ==
  [role |-> t.role, text |-> Append(t.text, Note(content)), calls |-> t.calls,
   results |-> Append(t.results, id), size |-> t.size + size]

CallIds(asked) == [i \in DOMAIN asked |-> <<turn, i>>]

\* The tool block takes segment 0 when there is one; each turn is the segment
\* after it.
Offset == IF catalog = {} THEN 0 ELSE 1
SegmentOf(position) == position - 1 + Offset

\* Fault: a clock in the system prompt.
TurnSegmentWithClock(t) ==
  [kind      |-> IF t.role = "System" THEN "System" ELSE "History",
   stability |-> IF t.role = "System" THEN "Static" ELSE "Volatile",
   hash      |-> IF t.role = "System" THEN <<t.text, turn>> ELSE <<t.text, t.size>>,
   tokens    |-> t.size]
\* Fault: history is taken for stable, so breakpoints move into it.
TurnSegmentAllSlow(t) ==
  [kind      |-> IF t.role = "System" THEN "System" ELSE "History",
   stability |-> "Slow",
   hash      |-> <<t.text, t.size>>,
   tokens    |-> t.size]
TurnSegment(t) ==
  [kind      |-> IF t.role = "System" THEN "System" ELSE "History",
   stability |-> IF t.role = "System" THEN "Static" ELSE "Volatile",
   hash      |-> <<t.text, t.size>>,
   tokens    |-> t.size]

ToolSegment ==
  [kind |-> "Tools", stability |-> "Static", hash |-> catalog,
   tokens |-> DefSize * Cardinality(catalog)]

BuildSegments ==
  [id \in {0 : c \in catalog} \cup {SegmentOf(p) : p \in DOMAIN turns} |->
     IF id < Offset THEN ToolSegment ELSE TurnSegment(turns[id + 1 - Offset])]

\* Fault: the whole conversation is sent whatever the budgeter decided.
SendEverything(keep) == DOMAIN turns
\* Fault: a filter and nothing more, so results outlive their calls.
FilterOnly(keep) == {p \in DOMAIN turns : SegmentOf(p) \in DOMAIN keep}
\* The positions a plan keeps, minus the leading results turns whose calls went.
\* The scan starts after the system turn.
EvictFromTurns(keep) ==
  LET kept    == {p \in DOMAIN turns : SegmentOf(p) \in DOMAIN keep}
      talk    == {p \in kept : turns[p].role # "System"}
      orphans == {p \in talk : \A q \in talk : q <= p => turns[q].results # <<>>}
  IN  kept \ orphans
\* mark_placement: a dialect resolves a mark by counting the turns it was sent.
OnTools(mark) == catalog # {} /\ mark.at = 0
LandsAt(mark) ==
  {p \in DOMAIN request.turns :
     Cardinality({q \in DOMAIN request.turns : q < p}) + Offset = mark.at}
--------------------------------------------------------------------------------
(* The journal.                                                            *)

TurnEvent(kind) == [kind |-> kind, turn |-> turn]
CallEvent(kind, i) == [kind |-> kind, turn |-> turn, call |-> <<turn, i>>]
Warned(batch) ==
  IF batch = {} THEN <<>>
  ELSE <<[kind |-> "Warned", turn |-> turn, warnings |-> batch]>>

\* What replay compares: which tools, and what every turn says.
Fingerprint ==
  [tools   |-> catalog,
   content |-> {<<p, request.turns[p].role, request.turns[p].text,
                  request.turns[p].size>> : p \in DOMAIN request.turns}]
ResponseEntry(r) ==
  [kind |-> "ModelResponse", request |-> Fingerprint, calls |-> r.calls,
   stop |-> r.stop, size |-> r.size, counted |-> r.counted, cost |-> r.cost]
ResultEntry(i, content, isError) ==
  [kind |-> "ToolResult", tool |-> calls[i].tool, content |-> content,
   isError |-> isError]

\* finish(): every exit closes the stream with the totals so far.
Finished(sums) == [kind |-> "RunFinished", turn |-> turn, totals |-> sums]
--------------------------------------------------------------------------------
(* Usage (frey-core/src/usage.rs, UsageTotals::record).                    *)

NothingPriced == [cost |-> NoCost, unmetered |-> 0]
EmptyTotals ==
  [byModel |-> [route \in Routes |-> 0], cost |-> NoCost, unmetered |-> 0]

Mismatch(sums, cost) ==
  sums.cost # NoCost /\ cost # NoCost /\ sums.cost.currency # cost.currency

\* Fault: amounts are added whatever they are amounts of.
AddAnyCost(sums, cost) ==
  IF sums.cost = NoCost THEN cost
  ELSE IF cost = NoCost THEN sums.cost
  ELSE [currency |-> sums.cost.currency, amount |-> sums.cost.amount + cost.amount]
\* A mismatched currency leaves the running cost alone and is not unmetered.
AddCost(sums, cost) ==
  IF sums.cost = NoCost THEN cost
  ELSE IF cost = NoCost \/ Mismatch(sums, cost) THEN sums.cost
  ELSE [currency |-> cost.currency, amount |-> sums.cost.amount + cost.amount]

Unmetered(sums, cost) == IF cost = NoCost THEN sums.unmetered + 1 ELSE sums.unmetered

RecordUsage(sums, route, cost) ==
  [byModel   |-> [sums.byModel EXCEPT ![route] = @ + 1],
   cost      |-> AddCost(sums, cost),
   unmetered |-> Unmetered(sums, cost)]

IsComplete(sums) == sums.unmetered = 0

\* What a reader of the journal recomputes: one key, mismatches swallowed.
Responses == OfKinds(entries, {"ModelResponse"})
Counting(sums, r) ==
  [cost |-> AddCost(sums, r.cost), unmetered |-> Unmetered(sums, r.cost)]
TotalsOf(responses) ==
  LET upTo[i \in 0 .. Len(responses)] ==
        IF i = 0 THEN NothingPriced ELSE Counting(upTo[i - 1], responses[i])
  IN  upTo[Len(responses)]
JournalTotals == TotalsOf(Responses)
--------------------------------------------------------------------------------
(* What the loop warns about once an answer is in.                         *)

\* More than a quarter off, in whole percents rounded toward zero.
EstimateIsOff(estimated, counted) ==
  /\ counted > 0
  /\ LET gap == IF estimated > counted THEN estimated - counted
                ELSE counted - estimated
     IN  (gap * 100) \div counted > 25

ArrivalWarnings(r) ==
     (IF EstimateIsOff(request.estimated, r.counted)
      THEN {Degraded("token-estimate")} ELSE {})
  \cup
     (IF servedBy # NoRoute /\ servedBy # r.route
      THEN {[kind |-> "RouteChanged", from |-> servedBy, to |-> r.route]} ELSE {})
  \cup
     (IF Mismatch(totals, r.cost) THEN {Degraded("cost-accounting")} ELSE {})

\* An answer is one text block and its calls, and each call will add a result.
BlocksAdded(r) == 1 + 2 * Len(r.calls)

AnswerWarnings(r) ==
     (IF r.stop = "MaxTokens" THEN {Degraded("output-length")} ELSE {})
  \cup
     CheckLookback(BlocksAdded(r), LookbackBlocks)

CapWarnings(r) ==
  IF Len(r.calls) > MaxToolCalls
  THEN {[kind |-> "ToolCallsCapped", requested |-> Len(r.calls)]} ELSE {}

\* An answer with no calls ends the run, and so does one that says it is final.
IsFinal(r) == r.calls = <<>> \/ r.stop = "EndTurn"
--------------------------------------------------------------------------------
(* What becomes of a call, decided before any tool runs.  The order is the *)
(* code's: the cap, the catalog, the policy, and only then the arguments.  *)

\* Fault: the cap is compared with an index that starts at zero.
OverCapByOne(i) == i > MaxToolCalls + 1
OverCap(i) == i > MaxToolCalls

Verdict(i) ==
  CASE OverCap(i) -> "OverCap"
    [] ~OverCap(i) /\ calls[i].tool \notin catalog -> "NotFound"
    [] ~OverCap(i) /\ calls[i].tool \in catalog \cap Forbidden -> "Forbidden"
    [] ~OverCap(i) /\ calls[i].tool \in catalog \ Forbidden /\ ~calls[i].valid -> "Invalid"
    [] OTHER -> "Run"

\* What the loop makes of an outcome: whether the event says the call failed, and
\* whether the model is told it was an error.
ReportsFailure(answered) == answered \in {"Failed", "Denied"}
RendersAsError(answered) == answered # "Ok"

\* The fixed text of a refusal weighs something; one token stands for it.
RefusalSize == 1
--------------------------------------------------------------------------------
Answers ==
  [calls : BoundedSeq(Requests, MaxCalls), stop : Stops, size : Sizes,
   counted : Counts, cost : Costs, route : Routes]

\* The conversation a run starts from.
Opening(task, system) ==
  (IF system THEN <<Says("System", <<Note("system")>>, 1)>> ELSE <<>>)
    \o <<Says("User", <<Note("task")>>, task)>>

NoRequest == [turns |-> <<>>, marks |-> {}, estimated |-> 0]

Init ==
  /\ pc = "Listing"
  /\ turn = 0
  /\ catalog = {}
  /\ \E task \in Sizes, system \in BOOLEAN : turns = Opening(task, system)
  /\ previous = <<>>
  /\ request = NoRequest
  /\ calls = <<>>
  /\ next = 1
  /\ results = NoResults
  /\ servedBy = NoRoute
  /\ totals = EmptyTotals
  /\ entries = <<>>
  /\ events = <<[kind |-> "RunStarted", turn |-> 0]>>
  /\ outcome = "running"

\* Every exit: the stream is closed, and the run is over.
End(how, last, sums) ==
  /\ pc' = "Done"
  /\ outcome' = how
  /\ events' = events \o last \o <<Finished(sums)>>

ListTools ==
  /\ pc = "Listing"
  /\ catalog' \in Catalogs
  /\ events' = events \o
       Warned(IF catalog' = {} THEN {Degraded("tool-catalog")} ELSE {})
  /\ pc' = "Turn"
  /\ UNCHANGED <<turn, turns, previous, request, answer, ledger, entries, outcome>>

ListFails ==
  /\ pc = "Listing"
  /\ End("ToolCatalog", <<>>, totals)
  /\ UNCHANGED <<turn, turns, context, answer, ledger, entries>>

\* Fault: the range of turns includes its end.
MoreTurnsInclusive == turn <= MaxTurns
MoreTurns == turn < MaxTurns
\* Fault: the turn closes with its last call still to run.
AlmostSettled == next >= Len(calls)
AllSettled == next = Len(calls) + 1

\* Segment, budget, plan, and hand the surviving turns to the provider.
Send(fitted, plan) ==
  /\ previous' = FromSegments(fitted.keep)
  /\ request' = [turns     |-> Restrict(turns, EvictFromTurns(fitted.keep)),
                 marks     |-> plan.marks,
                 estimated |-> Tokens(fitted.keep)]
  /\ events' = Append(events, TurnEvent("TurnStarted"))
                 \o Warned(PressureWarnings(fitted)) \o Warned(plan.warnings)

Ask ==
  /\ pc = "Turn"
  /\ MoreTurns
  /\ \E prompt \in {BuildSegments} :
     \E fitted \in {Fit(prompt, Ceiling, RecentHistory)} :
       /\ fitted.fits
       /\ \E plan \in {Plan(fitted.keep, previous, Caps)} : Send(fitted, plan)
  /\ pc' = "Model"
  /\ UNCHANGED <<turn, catalog, turns, answer, ledger, entries, outcome>>

DoesNotFit ==
  /\ pc = "Turn"
  /\ MoreTurns
  /\ ~Fit(BuildSegments, Ceiling, RecentHistory).fits
  /\ End("Budget", <<TurnEvent("TurnStarted")>>, totals)
  /\ UNCHANGED <<turn, turns, context, answer, ledger, entries>>

\* Fault: an exit that forgets to close the stream.
TurnLimitUnclosed ==
  /\ pc = "Turn"
  /\ ~MoreTurns
  /\ pc' = "Done"
  /\ outcome' = "TurnLimit"
  /\ UNCHANGED <<turn, turns, context, answer, ledger, entries, events>>

TurnLimit ==
  /\ pc = "Turn"
  /\ ~MoreTurns
  /\ End("TurnLimit", <<>>, totals)
  /\ UNCHANGED <<turn, turns, context, answer, ledger, entries>>

ProviderFails ==
  /\ pc = "Model"
  /\ End("Provider", <<>>, totals)
  /\ UNCHANGED <<turn, turns, context, answer, ledger, entries>>

\* The effect is journalled first; then the diagnostics, the ledger, the turn.
RecordAnswer(r) ==
  /\ pc = "Model"
  /\ entries' = Append(entries, ResponseEntry(r))
  /\ servedBy' = r.route
  /\ totals' = RecordUsage(totals, r.route, r.cost)
  /\ calls' = r.calls
  /\ next' = 1
  /\ results' = NoResults
  /\ turns' = Append(turns, AssistantTurn(CallIds(r.calls), r.calls, r.size))
  /\ UNCHANGED <<turn, context>>

AnswerEvents(r) ==
  Warned(ArrivalWarnings(r)) \o <<TurnEvent("UsageUpdated")>> \o Warned(AnswerWarnings(r))

FinalAnswer(r) ==
  /\ RecordAnswer(r)
  /\ IsFinal(r)
  /\ End("Ok", AnswerEvents(r) \o <<TurnEvent("TurnFinished")>>, totals')

CallsAnswer(r) ==
  /\ RecordAnswer(r)
  /\ ~IsFinal(r)
  /\ events' = events \o AnswerEvents(r) \o Warned(CapWarnings(r))
  /\ pc' = "Tools"
  /\ UNCHANGED outcome

\* Fault: only a call that ran gets an effect in the journal.
RefuseCallUnjournalled ==
  /\ pc = "Tools"
  /\ next \in DOMAIN calls
  /\ Verdict(next) # "Run"
  /\ events' = events \o <<CallEvent("ToolCallStarted", next),
                           CallEvent("ToolCallFailed", next)>>
  /\ results' = WithResult(results, <<turn, next>>, Verdict(next), RefusalSize)
  /\ next' = next + 1
  /\ UNCHANGED <<pc, turn, turns, context, calls, ledger, entries, outcome>>

\* A call the loop refuses is announced and settled like any other.
RefuseCall ==
  /\ pc = "Tools"
  /\ next \in DOMAIN calls
  /\ Verdict(next) # "Run"
  /\ events' = events \o <<CallEvent("ToolCallStarted", next),
                           CallEvent("ToolCallFailed", next)>>
  /\ entries' = Append(entries, ResultEntry(next, Verdict(next), TRUE))
  /\ results' = WithResult(results, <<turn, next>>, Verdict(next), RefusalSize)
  /\ next' = next + 1
  /\ UNCHANGED <<pc, turn, turns, context, calls, ledger, outcome>>

\* Fault: a call is announced only once it has run.
CallToolUnannounced ==
  /\ pc = "Tools"
  /\ next \in DOMAIN calls
  /\ Verdict(next) = "Run"
  /\ pc' = "Host"
  /\ UNCHANGED <<turn, turns, context, answer, ledger, entries, events, outcome>>

\* Announced before it runs, not after.
CallTool ==
  /\ pc = "Tools"
  /\ next \in DOMAIN calls
  /\ Verdict(next) = "Run"
  /\ events' = Append(events, CallEvent("ToolCallStarted", next))
  /\ pc' = "Host"
  /\ UNCHANGED <<turn, turns, context, answer, ledger, entries, outcome>>

\* Fault: the loop parks for input that nothing in it can supply.
HostAnswersOrParks(answered, size) ==
  /\ pc = "Host"
  /\ pc' = IF answered = "NeedsInput" THEN "Input" ELSE "Tools"
  /\ events' = Append(events,
       CallEvent(IF ReportsFailure(answered) THEN "ToolCallFailed"
                 ELSE "ToolCallFinished", next))
  /\ entries' = Append(entries, ResultEntry(next, answered, RendersAsError(answered)))
  /\ results' = WithResult(results, <<turn, next>>, answered, size)
  /\ next' = next + 1
  /\ UNCHANGED <<turn, turns, context, calls, ledger, outcome>>

HostAnswers(answered, size) ==
  /\ pc = "Host"
  /\ events' = Append(events,
       CallEvent(IF ReportsFailure(answered) THEN "ToolCallFailed"
                 ELSE "ToolCallFinished", next))
  /\ entries' = Append(entries, ResultEntry(next, answered, RendersAsError(answered)))
  /\ results' = WithResult(results, <<turn, next>>, answered, size)
  /\ next' = next + 1
  /\ pc' = "Tools"
  /\ UNCHANGED <<turn, turns, context, calls, ledger, outcome>>

CloseTurn ==
  /\ pc = "Tools"
  /\ AllSettled
  /\ turns' = Append(turns, results)
  /\ events' = Append(events, TurnEvent("TurnFinished"))
  /\ turn' = turn + 1
  /\ pc' = "Turn"
  /\ UNCHANGED <<context, answer, ledger, entries, outcome>>

\* The journal has left with the result.
Over == pc = "Done" /\ UNCHANGED vars

Environment ==
  \/ ListTools
  \/ ListFails
  \/ ProviderFails
  \/ \E r \in Answers : FinalAnswer(r)
  \/ \E r \in Answers : CallsAnswer(r)
  \/ \E answered \in HostOutcomes, size \in Sizes : HostAnswers(answered, size)

Loop == Ask \/ DoesNotFit \/ TurnLimit \/ RefuseCall \/ CallTool \/ CloseTurn

Next == Environment \/ Loop \/ Over

Spec == Init /\ [][Next]_vars

\* The loop runs whenever it is not awaiting anything, and every await is
\* answered: the HTTP client carries a read timeout (frey-providers/src/http.rs),
\* and a tool that never returns is the one thing the loop does not bound.
FairSpec == Spec /\ WF_vars(Loop) /\ WF_vars(Environment)
--------------------------------------------------------------------------------
(* What the run must keep.                                                 *)

Roles == {"System", "User", "Assistant"}
Refusals == {"OverCap", "NotFound", "Forbidden", "Invalid"}
Contents == Outcomes \cup Refusals
Text == Request \cup [content : Contents \cup {"system", "task"}]
Turn == [role : Roles, text : Seq(Text), calls : Seq(CallId), results : Seq(CallId),
         size : Nat]
Totals == [byModel : [Routes -> Nat], cost : Money \cup {NoCost}, unmetered : Nat]
Marks == [at : Nat, ttl : {"Long", "Short"}]
Imprint == [tools   : Catalogs \cup {{}},
          content : SUBSET (Nat \X Roles \X Seq(Text) \X Nat)]
Entry ==
  [kind : {"ModelResponse"}, request : Imprint, calls : Seq(Requests), stop : Stops,
   size : Sizes, counted : Counts, cost : Costs]
  \cup
  [kind : {"ToolResult"}, tool : {r.tool : r \in Requests}, content : Contents,
   isError : BOOLEAN]
Degradations ==
  {"tool-catalog", "token-estimate", "cost-accounting", "output-length",
   "no-prompt-cache", "nothing-stable", "cache-breakpoints"}
Warning ==
  [kind : {"Degraded"}, what : Degradations]
  \cup [kind : {"BelowMinPrefix"}]
  \cup [kind : {"CacheChurn"}, segment : Nat]
  \cup [kind : {"BudgetPressure"}, evicted : SUBSET Nat]
  \cup [kind : {"RouteChanged"}, from : Routes, to : Routes]
  \cup [kind : {"LookbackExceeded"}, blocks : Nat]
  \cup [kind : {"ToolCallsCapped"}, requested : Nat]
Event ==
  [kind : {"RunStarted", "TurnStarted", "UsageUpdated", "TurnFinished"}, turn : Nat]
  \cup [kind : {"ToolCallStarted", "ToolCallFinished", "ToolCallFailed"},
        turn : Nat, call : CallId]
  \cup [kind : {"Warned"}, turn : Nat, warnings : SUBSET Warning]
  \cup [kind : {"RunFinished"}, turn : Nat, totals : Totals]

\* The type invariant; it also ties the cursor over the calls of an answer to the
\* results assembled for them, keeps the turn counter within max_turns, and says
\* that a request only ever carries turns of the conversation.
TypeOK ==
  /\ pc \in {"Listing", "Turn", "Model", "Tools", "Host", "Done"}
  /\ turn \in 0 .. MaxTurns
  /\ pc \in {"Model", "Tools", "Host"} => turn < MaxTurns
  /\ catalog \in Catalogs \cup {{}}
  /\ turns \in Seq(Turn)
  /\ DOMAIN previous \subseteq Nat
  /\ DOMAIN request.turns \subseteq DOMAIN turns
  /\ \A p \in DOMAIN request.turns : request.turns[p] = turns[p]
  /\ request.marks \subseteq Marks
  /\ calls \in Seq(Requests)
  /\ next \in 1 .. Len(calls) + 1
  /\ pc = "Host" => next \in DOMAIN calls
  /\ results \in Turn
  /\ Len(results.results) = next - 1
  /\ servedBy \in Routes \cup {NoRoute}
  /\ totals \in Totals
  /\ entries \in Seq(Entry)
  /\ events \in Seq(Event)
  /\ outcome \in {"running", "Ok"} \cup RunErrors

\* Every exit closes the stream exactly once, and nothing follows: a consumer can
\* tell "still running" from "died" (finish() on each return of Agent::run).
Open(log) == \A i \in DOMAIN log : log[i].kind # "RunFinished"
Closed(log) ==
  /\ log # <<>>
  /\ log[Len(log)].kind = "RunFinished"
  /\ \A i \in DOMAIN log : log[i].kind = "RunFinished" => i = Len(log)
StreamIsClosedOnce == IF pc = "Done" THEN Closed(events) ELSE Open(events)

\* The host is only ever handed a listed tool that the policy allows, with
\* arguments that passed the schema, within the fan-out cap; in particular the
\* empty grant set keeps every tool that needs a capability away from it.
HostOnlySeesVettedCalls ==
  pc = "Host" => /\ calls[next].tool \in catalog \ Forbidden
                 /\ calls[next].valid
                 /\ next <= MaxToolCalls

\* The calls that the answers so far asked for and that the run owes a result,
\* in order, with the tool each one named.  The calls of a final answer are not
\* owed: the run returns them to the caller.
AskedBy(r, place) ==
  [j \in DOMAIN r.calls |-> [call |-> <<place, j>>, tool |-> r.calls[j].tool]]
OwedBy(responses) ==
  LET upTo[i \in 0 .. Len(responses)] ==
        IF i = 0 THEN <<>>
        ELSE IF IsFinal(responses[i]) THEN upTo[i - 1]
        ELSE upTo[i - 1] \o AskedBy(responses[i], i - 1)
  IN  upTo[Len(responses)]
OwedCalls == OwedBy(Responses)
Announced == OfKinds(events, {"ToolCallStarted"})
Settled == OfKinds(events, {"ToolCallFinished", "ToolCallFailed"})
ResultEntries == OfKinds(entries, {"ToolResult"})
CallsOf(log) == [i \in DOMAIN log |-> log[i].call]

\* The transcript shows every owed call announced before it is settled, in the
\* order asked for, one at a time; none is left out once the tools of the turn are
\* done, the refused ones included.
TranscriptFollowsAnswers ==
  /\ IsPrefix(CallsOf(Announced), CallsOf(OwedCalls))
  /\ IsPrefix(CallsOf(Settled), CallsOf(Announced))
  /\ Len(Announced) - Len(Settled) = IF pc = "Host" THEN 1 ELSE 0
  /\ pc \in {"Turn", "Model", "Done"} => Len(Announced) = Len(OwedCalls)

\* A ToolResult effect carries no call id, so the journal attributes a result by
\* its position: the i-th result must be the i-th owed call's, and a call the
\* transcript shows as failed must be an error in the journal.
ResultsAreAttributable ==
  /\ Len(ResultEntries) = Len(Settled)
  /\ \A i \in DOMAIN ResultEntries :
       /\ ResultEntries[i].tool = OwedCalls[i].tool
       /\ Settled[i].kind = "ToolCallFailed" => ResultEntries[i].isError

\* What event.rs says of ToolCallFinished, "a tool call finished successfully", and
\* the test of run.rs, "a call that did not happen must not read as one that did":
\* a result the model is told is an error is not shown as finished.
UnrunCallsReadAsFailed ==
  \A i \in DOMAIN ResultEntries :
    ResultEntries[i].isError => Settled[i].kind = "ToolCallFailed"

\* No provider is ever sent answers to questions nobody asked, nor questions left
\* unanswered: in a request, a turn of calls is followed at once by the turn that
\* answers exactly those calls, whatever eviction took (evict_from_turns).
Adjacent(sent, p, q) == p < q /\ ~\E m \in sent : p < m /\ m < q
PromptIsPaired ==
  LET sent == DOMAIN request.turns
  IN  \A p \in sent :
        /\ request.turns[p].calls # <<>> =>
             \E q \in sent : /\ Adjacent(sent, p, q)
                             /\ request.turns[q].results = request.turns[p].calls
        /\ request.turns[p].results # <<>> =>
             \E q \in sent : /\ Adjacent(sent, q, p)
                             /\ request.turns[q].calls = request.turns[p].results

\* "How many of the most recent history segments always survive" (budget.rs): the
\* floor holds for what is sent, after the orphan scan too.
RecentTailIsSent ==
  LET history == {p \in DOMAIN turns : turns[p].role # "System"}
  IN  pc = "Model" =>
        \A p \in history :
          Cardinality({q \in history : q > p}) < RecentHistory
            => p \in DOMAIN request.turns

WarningsOf(t) ==
  UNION {events[i].warnings :
           i \in {j \in DOMAIN events : events[j].kind = "Warned" /\ events[j].turn = t}}

\* Eviction is never silent and never a false statement: turns are missing from a request
\* exactly when a warning of its turn says so, what it names is missing, and all that is
\* missing beside is the results of calls it names, which the orphan scan takes when the
\* warning is already written.  What is sent with the tool block fits the ceiling.
OrphansOf(named) ==
  {SegmentOf(p) : p \in {q \in DOMAIN turns : /\ turns[q].results # <<>>
                                             /\ SegmentOf(q - 1) \in named}}
EvictionIsHonest ==
  LET gone == {SegmentOf(p) : p \in DOMAIN turns \ DOMAIN request.turns}
      told == {w \in WarningsOf(turn) : w.kind = "BudgetPressure"}
  IN  pc = "Model" =>
        /\ told = {} => gone = {}
        /\ \A w \in told : w.evicted # {} /\ gone = w.evicted \cup OrphansOf(w.evicted)
        /\ SumFunction([p \in DOMAIN request.turns |-> request.turns[p].size])
             + DefSize * Cardinality(catalog) <= Ceiling

\* A breakpoint is planned against segments and placed by counting the turns that
\* were sent: both must name the same place, although eviction renumbers turns, and the
\* order of their lifetimes, which a release build does not check, must stand.
MarksLandWherePlanned ==
  /\ \A mark \in request.marks :
       OnTools(mark) \/ \E p \in DOMAIN request.turns :
                           LandsAt(mark) = {p} /\ SegmentOf(p) = mark.at
  /\ TtlsAreCorrectlyOrdered(request.marks)

\* Tools are listed once and segment ids survive eviction, so a run never churns
\* its own prefix and never says it does.
PrefixNeverChurns ==
  \A t \in 0 .. turn : \A w \in WarningsOf(t) : w.kind # "CacheChurn"

\* The totals the stream closes with are the ones a reader recomputes from the
\* journal, on every exit, and every response is counted under some model.
ClosingLedger ==
  pc = "Done" =>
    LET closing == events[Len(events)].totals
    IN  /\ closing.cost = JournalTotals.cost
        /\ closing.unmetered = JournalTotals.unmetered
        /\ SumFunction(closing.byModel) = Len(Responses)

\* The running cost is exactly the sum of what was reported in its currency, the
\* calls that reported nothing are counted, and a call priced in another currency
\* is announced in its turn: the total may understate, never silently.
LedgerIsExact ==
  LET priced == {i \in DOMAIN Responses : Responses[i].cost # NoCost}
      covered == {i \in priced : Responses[i].cost.currency = totals.cost.currency}
  IN  /\ totals.unmetered = Len(Responses) - Cardinality(priced)
      /\ totals.cost = NoCost <=> priced = {}
      /\ priced # {} =>
           totals.cost.amount = SumFunction([i \in covered |-> Responses[i].cost.amount])
      /\ \A i \in priced :
           i \notin covered => Degraded("cost-accounting") \in WarningsOf(i - 1)

\* The spend that is told, as the run goes and when it closes, is the spend there was.
LedgerIsTrue == LedgerIsExact /\ ClosingLedger

\* What usage.rs says of is_complete: when it does not say the total understates
\* spend, every reported cost is in the total.
CompleteMeansPriced ==
  pc = "Done" /\ IsComplete(totals) =>
    \A i \in DOMAIN Responses : Responses[i].cost # NoCost =>
      Responses[i].cost.currency = totals.cost.currency

\* Every run ends: within max_turns, by an answer, a refusal or a failure.
Terminates == <>(pc = "Done")

\* The loop implements the protocol it promises to the model and the host.  The
\* last request counts as asked once it is sent.
AsksSoFar ==
  IF pc \in {"Model", "Tools", "Host"} \/ outcome \in {"Ok", "Provider"}
  THEN turn + 1 ELSE turn
Phase ==
  CASE pc \in {"Listing", "Turn"} -> "idle"
    [] pc = "Model" -> "asked"
    [] pc \in {"Tools", "Host"} -> "settling"
    [] pc = "Done" -> "over"
OwedNow ==
  IF pc \in {"Tools", "Host"} THEN {AsksSoFar} \X (next .. Len(calls)) ELSE {}
RunningNow == IF pc = "Host" THEN {<<AsksSoFar, next>>} ELSE {}
Protocol == INSTANCE ToolProtocol WITH
  MaxAsks <- MaxTurns,
  Cap     <- MaxToolCalls,
  Lengths <- 1 .. MaxCalls,
  phase   <- Phase,
  asked   <- AsksSoFar,
  owed    <- OwedNow,
  running <- RunningNow
KeepsProtocol == Protocol!Spec
================================================================================
