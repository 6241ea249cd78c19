---------------------------- MODULE AgentRunProofs ----------------------------
(***************************************************************************)
(* Proofs about AgentRun for every value of its constants.                 *)
(***************************************************************************)
EXTENDS AgentRun, SequenceTheorems, TLAPS
--------------------------------------------------------------------------------
(* What the helpers return.                                                *)

\* The events other than the one that closes the stream.
LoopEvent == {e \in Event : e.kind # "RunFinished"}

\* An answer holds a sequence of requests, at most MaxCalls of them.
LEMMA AnswerType ==
  ASSUME NEW r \in Answers
  PROVE  /\ r.calls \in Seq(Requests)
         /\ Len(r.calls) \in 0 .. MaxCalls
         /\ r.stop \in Stops
         /\ r.size \in Nat
         /\ r.counted \in Nat
         /\ r.cost \in Costs
         /\ r.route \in Routes
<1>1. r.calls \in BoundedSeq(Requests, MaxCalls)
  BY DEF Answers
<1>2. PICK n \in 0 .. MaxCalls : r.calls \in [1 .. n -> Requests]
  BY <1>1 DEF BoundedSeq, SeqOf
<1>3. r.calls \in Seq(Requests) /\ Len(r.calls) = n
  BY <1>2, LimitAssumption
<1> QED
  BY <1>2, <1>3, SizeAssumption DEF Answers

\* A batch of warnings is at most one event.
LEMMA WarnedType ==
  ASSUME NEW batch \in SUBSET Warning, turn \in Nat
  PROVE  Warned(batch) \in Seq(LoopEvent)
<1>1. CASE batch = {}
  BY <1>1 DEF Warned
<1>2. CASE batch # {}
  <2>1. [kind |-> "Warned", turn |-> turn, warnings |-> batch] \in LoopEvent
    BY DEF Event, LoopEvent
  <2> QED
    BY <1>2, <2>1 DEF Warned
<1> QED
  BY <1>1, <1>2

\* The other events the loop emits.
LEMMA EventType ==
  ASSUME turn \in Nat
  PROVE  /\ \A kind \in {"TurnStarted", "UsageUpdated", "TurnFinished"} :
              TurnEvent(kind) \in LoopEvent
         /\ \A kind \in {"ToolCallStarted", "ToolCallFinished", "ToolCallFailed"},
               i \in Nat : CallEvent(kind, i) \in LoopEvent
<1>1. \A kind \in {"TurnStarted", "UsageUpdated", "TurnFinished"} :
        TurnEvent(kind) \in LoopEvent
  BY DEF TurnEvent, Event, LoopEvent
<1>2. \A i \in Nat : <<turn, i>> \in CallId
  BY DEF CallId
<1>3. \A kind \in {"ToolCallStarted", "ToolCallFinished", "ToolCallFailed"}, i \in Nat :
        CallEvent(kind, i) \in LoopEvent
  BY <1>2 DEF CallEvent, Event, LoopEvent
<1> QED
  BY <1>1, <1>3

\* A prompt is numbered by natural numbers.
LEMMA PromptIds ==
  ASSUME turns \in Seq(Turn)
  PROVE  DOMAIN BuildSegments \subseteq Nat
BY DEF BuildSegments, SegmentOf, Offset

\* Fitting only takes segments away, and names the ones it took.
LEMMA FitShrinks ==
  ASSUME NEW prompt, NEW ceiling, NEW recent
  PROVE  /\ DOMAIN Fit(prompt, ceiling, recent).keep \subseteq DOMAIN prompt
         /\ Fit(prompt, ceiling, recent).evicted \subseteq DOMAIN prompt
<1> DEFINE gone == Evict(prompt, ceiling, recent)
<1>1. \A p, e, c : EvictWhile(p, e, c) \subseteq e
  BY DEF EvictWhile
<1>2. \A p, ids : DOMAIN Without(p, ids) \subseteq DOMAIN p
  BY DEF Without, Restrict
<1>3. \A p, k : OfKind(p, k) \subseteq DOMAIN p
  BY DEF OfKind
<1>4. \A p, n : AboveFloor(p, n) \subseteq DOMAIN p
  BY <1>3 DEF AboveFloor
<1>5. gone \subseteq DOMAIN prompt
  BY <1>1, <1>2, <1>3, <1>4 DEF Evict
<1> QED
  BY <1>2, <1>5 DEF Fit
\* Breakpoints sit on segments of the prompt, and the diagnostics are warnings.
LEMMA PlanType ==
  ASSUME NEW prompt, NEW before, NEW caps, DOMAIN prompt \subseteq Nat
  PROVE  /\ Plan(prompt, before, caps).marks \subseteq Marks
         /\ Plan(prompt, before, caps).warnings \subseteq Warning
<1>1. Usable(before, prompt, caps) \subseteq Nat
  BY DEF Usable, StableRunEnds, Stable
<1>2. \A ids, n : Covering(prompt, ids, n) \subseteq ids
  BY DEF Covering
<1>3. \A ids \in SUBSET Nat : MarksAt(prompt, ids, caps) \subseteq Marks
  BY DEF MarksAt, Marks
<1>4. Plan(prompt, before, caps).marks \subseteq Marks
  BY <1>1, <1>2, <1>3 DEF Plan
<1>5. \A what \in Degradations : Degraded(what) \in Warning
  BY DEF Degraded, Warning
<1>6. BelowMinPrefix \in Warning
  BY DEF BelowMinPrefix, Warning
<1>7. ChurnWarnings(before, prompt) \subseteq Warning
  BY DEF ChurnWarnings, Churned, Warning
<1>8. AutomaticWarnings(before, prompt, caps) \subseteq Warning
  BY <1>5, <1>6 DEF AutomaticWarnings, Degradations
<1>9. PlanWarnings(before, prompt, caps) \subseteq Warning
  BY <1>5, <1>6, <1>7, <1>8 DEF PlanWarnings, Degradations
<1> QED
  BY <1>4, <1>9 DEF Plan

\* Folding one call in keeps the ledger a ledger.
LEMMA UsageType ==
  ASSUME NEW sums \in Totals, NEW route \in Routes, NEW cost \in Costs
  PROVE  RecordUsage(sums, route, cost) \in Totals
<1>1. cost \in Money \cup {NoCost} /\ sums.cost \in Money \cup {NoCost}
  BY CostAssumption DEF Totals
<1>2. AddCost(sums, cost) \in Money \cup {NoCost}
  BY <1>1 DEF AddCost, Money
<1>3. Unmetered(sums, cost) \in Nat
  BY DEF Unmetered, Totals
<1>4. [sums.byModel EXCEPT ![route] = @ + 1] \in [Routes -> Nat]
  BY DEF Totals
<1> QED
  BY <1>2, <1>3, <1>4 DEF RecordUsage, Totals

\* What an answer may be warned about.
LEMMA AnswerWarningsType ==
  ASSUME NEW r \in Answers, TypeOK
  PROVE  /\ ArrivalWarnings(r) \in SUBSET Warning
         /\ AnswerWarnings(r) \in SUBSET Warning
         /\ CapWarnings(r) \in SUBSET Warning
<1>1. r.route \in Routes /\ Len(r.calls) \in Nat
  BY AnswerType
<1>2. \A what \in Degradations : Degraded(what) \in Warning
  BY DEF Degraded, Warning
<1>3. ArrivalWarnings(r) \in SUBSET Warning
  <2>1. servedBy # NoRoute =>
          [kind |-> "RouteChanged", from |-> servedBy, to |-> r.route] \in Warning
    BY <1>1 DEF TypeOK, Warning
  <2> QED
    BY <1>2, <2>1 DEF ArrivalWarnings, Degradations
<1>4. AnswerWarnings(r) \in SUBSET Warning
  <2>1. [kind |-> "LookbackExceeded", blocks |-> BlocksAdded(r)] \in Warning
    BY <1>1 DEF BlocksAdded, Warning
  <2> QED
    BY <1>2, <2>1 DEF AnswerWarnings, CheckLookback, Degradations
<1>5. CapWarnings(r) \in SUBSET Warning
  BY <1>1 DEF CapWarnings, Warning
<1> QED
  BY <1>3, <1>4, <1>5

\* Everything the loop says once an answer is in is an event.
LEMMA AnswerEventsType ==
  ASSUME NEW r \in Answers, TypeOK
  PROVE  AnswerEvents(r) \in Seq(LoopEvent)
<1>1. turn \in Nat
  BY LimitAssumption DEF TypeOK
<1>2. <<TurnEvent("UsageUpdated")>> \in Seq(LoopEvent)
  BY <1>1, EventType
<1>3. /\ Warned(ArrivalWarnings(r)) \in Seq(LoopEvent)
      /\ Warned(AnswerWarnings(r)) \in Seq(LoopEvent)
  BY <1>1, AnswerWarningsType, WarnedType
<1> QED
  BY <1>2, <1>3, ConcatProperties DEF AnswerEvents
\* The turn an answer adds to the conversation.
LEMMA AssistantTurnType ==
  ASSUME NEW r \in Answers, turn \in Nat
  PROVE  AssistantTurn(CallIds(r.calls), r.calls, r.size) \in Turn
<1>1. r.calls \in Seq(Requests) /\ r.size \in Nat
  BY AnswerType
<1>2. r.calls \in Seq(Text)
  <2>1. Requests \subseteq Text
    BY RequestAssumption DEF Text
  <2> QED
    BY <1>1, <2>1
<1>3. CallIds(r.calls) \in Seq(CallId)
  <2>1. DOMAIN r.calls = 1 .. Len(r.calls) /\ Len(r.calls) \in Nat
    BY <1>1, LenProperties
  <2>2. CallIds(r.calls) \in [1 .. Len(r.calls) -> CallId]
    BY <2>1 DEF CallIds, CallId
  <2> QED
    BY <2>1, <2>2, IsASeq
<1> QED
  BY <1>1, <1>2, <1>3 DEF AssistantTurn, Turn, Roles

\* The turn of results grows by one result.
LEMMA WithResultType ==
  ASSUME NEW t \in Turn, NEW id \in CallId, NEW content \in Contents, NEW size \in Nat
  PROVE  /\ WithResult(t, id, content, size) \in Turn
         /\ Len(WithResult(t, id, content, size).results) = Len(t.results) + 1
<1>1. Append(t.results, id) \in Seq(CallId) /\ Len(Append(t.results, id)) = Len(t.results) + 1
  BY AppendProperties DEF Turn
<1>2. Note(content) \in Text
  BY DEF Note, Text
<1>3. Append(t.text, Note(content)) \in Seq(Text)
  BY <1>2, AppendProperties DEF Turn
<1>4. t.size + size \in Nat
  BY DEF Turn
<1> QED
  BY <1>1, <1>3, <1>4 DEF WithResult, Turn

\* What the journal keeps of an answer.
LEMMA ResponseEntryType ==
  ASSUME NEW r \in Answers, TypeOK
  PROVE  ResponseEntry(r) \in Entry
<1>1. \A p \in DOMAIN request.turns :
        p \in Nat /\ request.turns[p] \in Turn
  BY DEF TypeOK
<1>2. Fingerprint.content \subseteq Nat \X Roles \X Seq(Text) \X Nat
  BY <1>1 DEF Fingerprint, Turn
<1>3. Fingerprint \in Imprint
  BY <1>2 DEF Fingerprint, Imprint, TypeOK
<1>4. r.size \in Sizes /\ r.counted \in Counts
  BY DEF Answers
<1> QED
  BY <1>3, <1>4, AnswerType DEF ResponseEntry, Entry
\* Recording an answer keeps everything but the event stream and the program
\* counter, which the caller sets, well typed.
LEMMA RecordAnswerType ==
  ASSUME NEW r \in Answers, TypeOK, RecordAnswer(r)
  PROVE  /\ turns' \in Seq(Turn)
         /\ DOMAIN request'.turns \subseteq DOMAIN turns'
         /\ \A p \in DOMAIN request'.turns : request'.turns[p] = turns'[p]
         /\ calls' \in Seq(Requests)
         /\ next' \in 1 .. Len(calls') + 1
         /\ results' \in Turn
         /\ Len(results'.results) = next' - 1
         /\ servedBy' \in Routes
         /\ totals' \in Totals
         /\ entries' \in Seq(Entry)
         /\ turn \in Nat
<1>1. turn \in Nat
  BY LimitAssumption DEF TypeOK
<1>2. /\ turns' \in Seq(Turn)
      /\ Len(turns') = Len(turns) + 1
      /\ \A p \in DOMAIN turns : turns'[p] = turns[p]
  <2>1. AssistantTurn(CallIds(r.calls), r.calls, r.size) \in Turn
    BY <1>1, AssistantTurnType
  <2> QED
    BY <2>1, AppendProperties DEF RecordAnswer, TypeOK
<1>3. DOMAIN turns \subseteq DOMAIN turns'
  BY <1>2, LenProperties DEF TypeOK
<1>4. request' = request
  BY DEF RecordAnswer, context
<1>5. results' \in Turn /\ Len(results'.results) = next' - 1 /\ next' = 1
  BY DEF RecordAnswer, NoResults, Says, Turn, Roles
<1>6. calls' \in Seq(Requests) /\ next' \in 1 .. Len(calls') + 1
  BY <1>5, AnswerType, LenProperties DEF RecordAnswer
<1>7. servedBy' \in Routes /\ totals' \in Totals
  BY AnswerType, UsageType DEF RecordAnswer, TypeOK
<1>8. entries' \in Seq(Entry)
  BY ResponseEntryType, AppendProperties DEF RecordAnswer, TypeOK
<1> QED
  BY <1>1, <1>2, <1>3, <1>4, <1>5, <1>6, <1>7, <1>8 DEF TypeOK

--------------------------------------------------------------------------------
(* How the event stream grows.                                             *)

\* While the run goes on, a step only appends events of the loop.
Grows ==
  /\ pc # "Done" /\ pc' # "Done"
  /\ \E more \in Seq(LoopEvent) : events' = events \o more

\* The step that ends the run appends the closing event last.
Closes ==
  /\ pc # "Done" /\ pc' = "Done"
  /\ \E more \in Seq(LoopEvent), sums \in Totals :
       events' = (events \o more) \o <<Finished(sums)>>

\* Appending one event is concatenating a sequence of one.
LEMMA AppendsOne ==
  ASSUME NEW e \in LoopEvent, TypeOK, events' = Append(events, e)
  PROVE  \E more \in Seq(LoopEvent) : events' = events \o more
<1>1. <<e>> \in Seq(LoopEvent) /\ events \in Seq(Event) /\ e \in Event
  BY DEF TypeOK, LoopEvent
<1> QED
  BY <1>1, AppendIsConcat

\* Three batches appended in turn are one batch.
LEMMA AppendsThree ==
  ASSUME NEW a \in Seq(LoopEvent), NEW b \in Seq(LoopEvent), NEW c \in Seq(LoopEvent),
         TypeOK, events' = ((events \o a) \o b) \o c
  PROVE  \E more \in Seq(LoopEvent) : events' = events \o more
<1>0. LoopEvent \subseteq Event
  BY DEF LoopEvent
<1>1. a \in Seq(Event) /\ b \in Seq(Event) /\ c \in Seq(Event) /\ events \in Seq(Event)
  BY <1>0 DEF TypeOK
<1>2. b \o c \in Seq(Event) /\ events \o a \in Seq(Event)
  BY <1>1, ConcatProperties
<1>3. \A x, y, z \in Seq(Event) : (x \o y) \o z = x \o (y \o z)
  <2> TAKE x, y, z \in Seq(Event)
  <2> QED
    BY ONLY x \in Seq(Event), y \in Seq(Event), z \in Seq(Event), SMTT(60)
<1>4. ((events \o a) \o b) \o c = (events \o a) \o (b \o c)
  <2>1. \A y, z \in Seq(Event) : ((events \o a) \o y) \o z = (events \o a) \o (y \o z)
    BY <1>2, <1>3, Zenon
  <2> QED
    BY <1>1, <2>1, Zenon
<1>5. (events \o a) \o (b \o c) = events \o (a \o (b \o c))
  <2>1. \A z \in Seq(Event) : (events \o a) \o z = events \o (a \o z)
    BY <1>1, <1>3, Zenon
  <2> QED
    BY <1>2, <2>1, Zenon
<1>6. a \o (b \o c) \in Seq(LoopEvent)
  <2>1. b \o c \in Seq(LoopEvent)
    BY ConcatProperties
  <2> QED
    BY <2>1, ConcatProperties, Zenon
<1> QED
  BY <1>4, <1>5, <1>6, Zenon

\* No step rewrites or drops an event, and the only step that closes the stream
\* is the one that ends the run.
LEMMA EventsGrow == TypeOK /\ [Next]_vars => Grows \/ Closes \/ UNCHANGED <<pc, events>>
<1> SUFFICES ASSUME TypeOK, [Next]_vars
             PROVE  Grows \/ Closes \/ UNCHANGED <<pc, events>>
  OBVIOUS
<1>0. turn \in Nat /\ totals \in Totals /\ next \in Nat /\ events \in Seq(Event)
      /\ <<>> \in Seq(LoopEvent)
  BY LimitAssumption, LenProperties, EmptySeq DEF TypeOK
<1>1. ASSUME NEW how, NEW last \in Seq(LoopEvent), NEW sums \in Totals,
             pc # "Done", End(how, last, sums)
      PROVE  Closes
  <2>1. <<Finished(sums)>> \in Seq(Event) /\ last \in Seq(Event)
    <3>1. Finished(sums) \in Event
      BY <1>0 DEF Finished, Event
    <3> QED
      BY <3>1 DEF LoopEvent
  <2>2. events' = (events \o last) \o <<Finished(sums)>>
    BY <1>0, <1>1, <2>1, ConcatAssociative DEF End
  <2> QED
    BY <1>1, <2>2 DEF Closes, End
<1>2. CASE ListTools
  <2>1. Warned(IF catalog' = {} THEN {Degraded("tool-catalog")} ELSE {}) \in Seq(LoopEvent)
    <3>1. Degraded("tool-catalog") \in Warning
      BY DEF Degraded, Warning, Degradations
    <3> QED
      BY <1>0, <3>1, WarnedType
  <2> QED
    BY <1>2, <2>1 DEF ListTools, Grows
<1>3. CASE ListFails
  BY <1>0, <1>1, <1>3 DEF ListFails
<1>4. CASE Ask
  <2>1. PICK prompt \in {BuildSegments} :
        \E fitted \in {Fit(prompt, Ceiling, RecentHistory)} :
          \E plan \in {Plan(fitted.keep, previous, Caps)} : Send(fitted, plan)
    BY <1>4 DEF Ask
  <2>2. PICK fitted \in {Fit(prompt, Ceiling, RecentHistory)} :
          \E plan \in {Plan(fitted.keep, previous, Caps)} : Send(fitted, plan)
    BY <2>1
  <2>3. PICK plan \in {Plan(fitted.keep, previous, Caps)} : Send(fitted, plan)
    BY <2>2
  <2>4. DOMAIN fitted.keep \subseteq Nat /\ fitted.evicted \subseteq Nat
    <3>1. DOMAIN prompt \subseteq Nat
      BY <2>1, PromptIds DEF TypeOK
    <3> QED
      BY <3>1, FitShrinks
  <2>5. plan.warnings \subseteq Warning
    BY <2>4, PlanType
  <2>6. PressureWarnings(fitted) \subseteq Warning
    BY <2>4 DEF PressureWarnings, Warning
  <2> DEFINE began    == <<TurnEvent("TurnStarted")>>
             pressure == Warned(PressureWarnings(fitted))
             planned  == Warned(plan.warnings)
  <2>7. began \in Seq(LoopEvent) /\ pressure \in Seq(LoopEvent) /\ planned \in Seq(LoopEvent)
    BY <1>0, <2>5, <2>6, WarnedType, EventType
  <2>8. events' = ((events \o began) \o pressure) \o planned
    <3>1. TurnEvent("TurnStarted") \in Event
      BY <1>0, EventType DEF LoopEvent
    <3>2. Append(events, TurnEvent("TurnStarted")) = events \o began
      BY <1>0, <3>1, AppendIsConcat
    <3> QED
      BY <2>3, <3>2 DEF Send
  <2>9. \E more \in Seq(LoopEvent) : events' = events \o more
    <3> HIDE DEF began, pressure, planned
    <3> QED
      BY <2>7, <2>8, AppendsThree
  <2> QED
    BY <1>4, <2>9 DEF Ask, Grows
<1>5. CASE DoesNotFit
  <2>1. <<TurnEvent("TurnStarted")>> \in Seq(LoopEvent)
    BY <1>0, EventType
  <2> QED
    BY <1>0, <1>1, <1>5, <2>1 DEF DoesNotFit
<1>6. CASE TurnLimit
  BY <1>0, <1>1, <1>6 DEF TurnLimit
<1>7. CASE ProviderFails
  BY <1>0, <1>1, <1>7 DEF ProviderFails
<1>8. ASSUME NEW r \in Answers, FinalAnswer(r) PROVE Closes
  <2>1. RecordAnswer(r) /\ pc # "Done"
    BY <1>8 DEF FinalAnswer, RecordAnswer
  <2>2. <<TurnEvent("TurnFinished")>> \in Seq(LoopEvent)
    BY <1>0, EventType
  <2>3. AnswerEvents(r) \o <<TurnEvent("TurnFinished")>> \in Seq(LoopEvent)
    BY <2>2, AnswerEventsType, ConcatProperties
  <2>4. totals' \in Totals
    BY <2>1, RecordAnswerType
  <2> QED
    BY <1>1, <1>8, <2>1, <2>3, <2>4 DEF FinalAnswer
<1>9. ASSUME NEW r \in Answers, CallsAnswer(r) PROVE Grows
  <2>1. CapWarnings(r) \subseteq Warning
    BY AnswerWarningsType
  <2>2. Warned(CapWarnings(r)) \in Seq(LoopEvent) /\ AnswerEvents(r) \in Seq(LoopEvent)
    BY <1>0, <2>1, WarnedType, AnswerEventsType
  <2>3. AnswerEvents(r) \o Warned(CapWarnings(r)) \in Seq(LoopEvent)
    BY <2>2, ConcatProperties
  <2>4. events' = events \o (AnswerEvents(r) \o Warned(CapWarnings(r)))
    <3>1. Warned(CapWarnings(r)) \in Seq(Event) /\ AnswerEvents(r) \in Seq(Event)
      BY <2>2 DEF LoopEvent
    <3> QED
      BY <1>0, <1>9, <3>1, ConcatAssociative DEF CallsAnswer
  <2> QED
    BY <1>9, <2>3, <2>4 DEF CallsAnswer, RecordAnswer, Grows
<1>10. CASE RefuseCall
  <2>1. <<CallEvent("ToolCallStarted", next), CallEvent("ToolCallFailed", next)>>
          \in Seq(LoopEvent)
    BY <1>0, EventType
  <2> QED
    BY <1>10, <2>1 DEF RefuseCall, Grows
<1>11. CASE CallTool
  <2>1. CallEvent("ToolCallStarted", next) \in LoopEvent
    BY <1>0, EventType
  <2> QED
    BY <1>11, <2>1, AppendsOne DEF CallTool, Grows
<1>12. ASSUME NEW answered, NEW size, HostAnswers(answered, size) PROVE Grows
  <2>1. CallEvent(IF ReportsFailure(answered) THEN "ToolCallFailed"
                  ELSE "ToolCallFinished", next) \in LoopEvent
    BY <1>0, EventType
  <2> QED
    BY <1>12, <2>1, AppendsOne DEF HostAnswers, Grows
<1>13. CASE CloseTurn
  <2>1. TurnEvent("TurnFinished") \in LoopEvent
    BY <1>0, EventType
  <2> QED
    BY <1>13, <2>1, AppendsOne DEF CloseTurn, Grows
<1>14. CASE Over \/ UNCHANGED vars
  BY <1>14 DEF Over, vars
<1> QED
  BY <1>2, <1>3, <1>4, <1>5, <1>6, <1>7, <1>8, <1>9, <1>10, <1>11, <1>12, <1>13, <1>14
  DEF Next, Environment, Loop

\* So the stream stays a sequence of events.
LEMMA StepEvents ==
  ASSUME TypeOK, [Next]_vars
  PROVE  events' \in Seq(Event)
<1>1. events \in Seq(Event)
  BY DEF TypeOK
<1>2. \A more \in Seq(LoopEvent) : more \in Seq(Event)
  BY DEF LoopEvent
<1>3. \A sums \in Totals : turn \in Nat => <<Finished(sums)>> \in Seq(Event)
  BY DEF Finished, Event
<1>4. turn \in Nat
  BY LimitAssumption DEF TypeOK
<1>5. CASE Grows
  BY <1>1, <1>2, <1>5, ConcatProperties DEF Grows
<1>6. CASE Closes
  <2>1. PICK more \in Seq(LoopEvent), sums \in Totals :
          events' = (events \o more) \o <<Finished(sums)>>
    BY <1>6 DEF Closes
  <2>2. events \o more \in Seq(Event)
    BY <1>1, <1>2, ConcatProperties
  <2> QED
    BY <1>3, <1>4, <2>1, <2>2, ConcatProperties
<1> QED
  BY <1>1, <1>5, <1>6, EventsGrow
--------------------------------------------------------------------------------
(* Type correctness.                                                       *)

LEMMA InitTypeOK == Init => TypeOK
<1> SUFFICES ASSUME Init PROVE TypeOK
  OBVIOUS
<1>1. turns \in Seq(Turn)
  <2>1. PICK task \in Sizes, system \in BOOLEAN :
          turns = (IF system THEN <<Says("System", <<Note("system")>>, 1)>> ELSE <<>>)
                    \o <<Says("User", <<Note("task")>>, task)>>
    BY DEF Init, Opening
  <2>2. Note("system") \in Text /\ Note("task") \in Text
    BY DEF Note, Text
  <2>3. /\ Says("System", <<Note("system")>>, 1) \in Turn
        /\ Says("User", <<Note("task")>>, task) \in Turn
    BY <2>2, SizeAssumption DEF Says, Turn, Roles
  <2> QED
    BY <2>1, <2>3, ConcatProperties
<1>2. results \in Turn /\ Len(results.results) = 0
  BY DEF Init, NoResults, Says, Turn, Roles
<1>3. totals \in Totals
  BY DEF Init, EmptyTotals, Totals
<1>4. events \in Seq(Event)
  BY DEF Init, Event
<1>5. DOMAIN previous \subseteq Nat /\ DOMAIN request.turns \subseteq DOMAIN turns
      /\ request.marks \subseteq Marks
      /\ \A p \in DOMAIN request.turns : request.turns[p] = turns[p]
  BY DEF Init, NoRequest
<1> QED
  BY <1>1, <1>2, <1>3, <1>4, <1>5, LimitAssumption DEF Init, RunErrors, TypeOK

\* Every step keeps the types.
LEMMA StepTypeOK == TypeOK /\ [Next]_vars => TypeOK'
<1> SUFFICES ASSUME TypeOK, [Next]_vars PROVE TypeOK'
  OBVIOUS
<1> USE LimitAssumption
<1>0. turn \in Nat /\ events' \in Seq(Event)
  BY StepEvents DEF TypeOK
<1>1. ASSUME NEW how \in {"ToolCatalog", "Budget", "Provider", "TurnLimit"},
             NEW last, End(how, last, totals),
             UNCHANGED <<turn, turns, context, answer, ledger, entries>>
      PROVE  TypeOK'
  BY <1>0, <1>1 DEF RunErrors, TypeOK, End, context, answer, ledger
<1>2. CASE ListTools
  BY <1>0, <1>2 DEF TypeOK, ListTools, answer, ledger
<1>3. CASE ListFails
  BY <1>1, <1>3 DEF ListFails
<1>4. CASE Ask
  <2>1. PICK prompt \in {BuildSegments} :
        \E fitted \in {Fit(prompt, Ceiling, RecentHistory)} :
          \E plan \in {Plan(fitted.keep, previous, Caps)} : Send(fitted, plan)
    BY <1>4 DEF Ask
  <2>2. PICK fitted \in {Fit(prompt, Ceiling, RecentHistory)} :
          \E plan \in {Plan(fitted.keep, previous, Caps)} : Send(fitted, plan)
    BY <2>1
  <2>3. PICK plan \in {Plan(fitted.keep, previous, Caps)} : Send(fitted, plan)
    BY <2>2
  <2>4. DOMAIN fitted.keep \subseteq Nat
    <3>1. DOMAIN prompt \subseteq Nat
      BY <2>1, PromptIds DEF TypeOK
    <3> QED
      BY <3>1, FitShrinks
  <2>5. plan.marks \subseteq Marks
    BY <2>4, PlanType
  <2>6. DOMAIN previous' \subseteq Nat
    BY <2>3, <2>4 DEF Send, FromSegments
  <2>7. /\ DOMAIN request'.turns \subseteq DOMAIN turns
        /\ \A p \in DOMAIN request'.turns : request'.turns[p] = turns[p]
        /\ request'.marks \subseteq Marks
    <3>1. EvictFromTurns(fitted.keep) \subseteq DOMAIN turns
      BY DEF EvictFromTurns
    <3> QED
      BY <2>3, <2>5, <3>1 DEF Send, Restrict
  <2>8. pc' = "Model" /\ turn < MaxTurns
    BY <1>4 DEF Ask, MoreTurns
  <2>9. UNCHANGED <<turn, catalog, turns, calls, next, results, servedBy, totals,
                     entries, outcome>>
    BY <1>4 DEF Ask, answer, ledger
  <2> QED
    BY <1>0, <2>6, <2>7, <2>8, <2>9 DEF TypeOK
<1>5. CASE DoesNotFit
  BY <1>1, <1>5 DEF DoesNotFit
<1>6. CASE TurnLimit
  BY <1>1, <1>6 DEF TurnLimit
<1>7. CASE ProviderFails
  BY <1>1, <1>7 DEF ProviderFails
<1>8. ASSUME NEW r \in Answers, FinalAnswer(r) PROVE TypeOK'
  <2>1. RecordAnswer(r)
    BY <1>8 DEF FinalAnswer
  <2>2. pc' = "Done" /\ outcome' = "Ok"
    BY <1>8 DEF FinalAnswer, End
  <2>3. UNCHANGED <<turn, catalog, previous, request>>
    BY <2>1 DEF RecordAnswer, context
  <2> QED
    BY <1>0, <2>1, <2>2, <2>3, RecordAnswerType DEF TypeOK
<1>9. ASSUME NEW r \in Answers, CallsAnswer(r) PROVE TypeOK'
  <2>1. RecordAnswer(r)
    BY <1>9 DEF CallsAnswer
  <2>2. pc' = "Tools" /\ outcome' = outcome /\ turn < MaxTurns
    BY <1>9, <2>1 DEF CallsAnswer, RecordAnswer, TypeOK
  <2>3. UNCHANGED <<turn, catalog, previous, request>>
    BY <2>1 DEF RecordAnswer, context
  <2> QED
    BY <1>0, <2>1, <2>2, <2>3, RecordAnswerType DEF TypeOK
<1>10. ASSUME pc \in {"Tools", "Host"}, next \in DOMAIN calls,
              NEW content \in Contents, NEW size \in Nat, NEW isError \in BOOLEAN,
              results' = WithResult(results, <<turn, next>>, content, size),
              entries' = Append(entries, ResultEntry(next, content, isError)),
              next' = next + 1, pc' = "Tools",
              UNCHANGED <<turn, turns, context, calls, ledger, outcome>>
       PROVE  TypeOK'
  <2>1. <<turn, next>> \in CallId
    BY <1>0 DEF CallId, TypeOK
  <2>2. results' \in Turn /\ Len(results'.results) = next' - 1
    <3>1. results \in Turn /\ Len(results.results) = next - 1 /\ next \in Nat
      BY <1>10, LenProperties DEF TypeOK
    <3>2. /\ WithResult(results, <<turn, next>>, content, size) \in Turn
          /\ Len(WithResult(results, <<turn, next>>, content, size).results)
               = Len(results.results) + 1
      BY <1>10, <2>1, <3>1, WithResultType
    <3> QED
      BY <1>10, <3>1, <3>2
  <2>3. calls[next] \in Requests
    <3>1. calls \in Seq(Requests) /\ next \in 1 .. Len(calls)
      BY <1>10, LenProperties DEF TypeOK
    <3> QED
      BY <3>1, ElementOfSeq
  <2>4. ResultEntry(next, content, isError) \in Entry
    BY <1>10, <2>3 DEF ResultEntry, Entry
  <2>5. entries' \in Seq(Entry)
    BY <1>10, <2>4, AppendProperties DEF TypeOK
  <2>6. next' \in 1 .. Len(calls') + 1
    <3>1. Len(calls) \in Nat /\ DOMAIN calls = 1 .. Len(calls)
      BY LenProperties DEF TypeOK
    <3>2. next \in 1 .. Len(calls)
      BY <1>10, <3>1
    <3>3. next + 1 \in 1 .. Len(calls) + 1
      BY <3>1, <3>2
    <3> QED
      BY <1>10, <3>3
  <2> QED
    BY <1>0, <1>10, <2>2, <2>5, <2>6 DEF TypeOK, context, ledger
<1>11. CASE RefuseCall
  <2>1. Verdict(next) \in Contents
    BY <1>11 DEF RefuseCall, Verdict, Contents, Refusals
  <2> QED
    BY <1>10, <1>11, <2>1 DEF RefuseCall, RefusalSize
<1>12. CASE CallTool
  BY <1>0, <1>12 DEF CallTool, TypeOK, context, answer, ledger
<1>13. ASSUME NEW answered \in HostOutcomes, NEW size \in Sizes, HostAnswers(answered, size)
       PROVE  TypeOK'
  <2>1. answered \in Contents /\ size \in Nat
    BY AnswerAssumption, SizeAssumption DEF Contents
  <2>2. RendersAsError(answered) \in BOOLEAN
    BY DEF RendersAsError
  <2> QED
    BY <1>10, <1>13, <2>1, <2>2 DEF HostAnswers, TypeOK
<1>14. CASE CloseTurn
  <2>1. /\ turns' \in Seq(Turn)
        /\ Len(turns') = Len(turns) + 1
        /\ \A p \in DOMAIN turns : turns'[p] = turns[p]
    BY <1>14, AppendProperties DEF CloseTurn, TypeOK
  <2>2. DOMAIN turns \subseteq DOMAIN turns'
    <3>1. /\ DOMAIN turns = 1 .. Len(turns) /\ Len(turns) \in Nat
          /\ DOMAIN turns' = 1 .. Len(turns') /\ Len(turns') \in Nat
      BY <2>1, LenProperties DEF TypeOK
    <3> QED
      BY <2>1, <3>1
  <2>3. turn' \in 0 .. MaxTurns /\ pc' = "Turn"
    BY <1>14 DEF CloseTurn, TypeOK
  <2> QED
    BY <1>0, <1>14, <2>1, <2>2, <2>3 DEF CloseTurn, TypeOK, context, answer, ledger
<1>15. CASE Over \/ UNCHANGED vars
  BY <1>15 DEF Over, vars, TypeOK
<1> QED
  BY <1>2, <1>3, <1>4, <1>5, <1>6, <1>7, <1>8, <1>9, <1>11, <1>12, <1>13, <1>14, <1>15
  DEF Next, Environment, Loop

\* Every behaviour is well typed: the cursor over the calls never leaves them, there
\* is one result per settled call, the turn counter stays within max_turns, and a
\* request carries only turns of the conversation.
THEOREM TypeCorrect == Spec => []TypeOK
<1> QED
  BY InitTypeOK, StepTypeOK, PTL DEF Spec
--------------------------------------------------------------------------------
(* The stream is closed exactly once.                                      *)

LEMMA OpenConcat ==
  ASSUME NEW a \in Seq(Event), NEW b \in Seq(Event), Open(a), Open(b)
  PROVE  Open(a \o b)
<1> SUFFICES ASSUME NEW i \in DOMAIN (a \o b) PROVE (a \o b)[i].kind # "RunFinished"
  BY DEF Open
<1>1. i \in 1 .. Len(a) + Len(b)
  BY ConcatProperties, LenProperties
<1>2. CASE i <= Len(a)
  BY <1>1, <1>2, ConcatProperties, LenProperties DEF Open
<1>3. CASE i > Len(a)
  <2>1. i - Len(a) \in DOMAIN b /\ (a \o b)[i] = b[i - Len(a)]
    BY <1>1, <1>3, ConcatProperties, LenProperties
  <2> QED
    BY <2>1 DEF Open
<1> QED
  BY <1>1, <1>2, <1>3, LenProperties

LEMMA ClosedByLast ==
  ASSUME NEW a \in Seq(Event), Open(a), NEW e \in Event, e.kind = "RunFinished"
  PROVE  Closed(a \o <<e>>)
<1>1. /\ a \o <<e>> \in Seq(Event)
      /\ Len(a \o <<e>>) = Len(a) + 1
      /\ DOMAIN (a \o <<e>>) = 1 .. Len(a) + 1
      /\ (a \o <<e>>)[Len(a) + 1] = e
      /\ \A i \in 1 .. Len(a) : (a \o <<e>>)[i] = a[i]
  BY ConcatProperties, LenProperties
<1>2. \A i \in 1 .. Len(a) : a[i].kind # "RunFinished"
  BY LenProperties DEF Open
<1>3. Len(a) \in Nat
  BY LenProperties
<1> QED
  BY <1>1, <1>2, <1>3 DEF Closed

\* A run of loop events leaves the stream open.
LEMMA LoopEventsAreOpen ==
  ASSUME NEW more \in Seq(LoopEvent)
  PROVE  more \in Seq(Event) /\ Open(more)
<1>1. more \in Seq(Event)
  BY DEF LoopEvent
<1>2. \A i \in DOMAIN more : more[i] \in LoopEvent
  BY ElementOfSeq, LenProperties
<1> QED
  BY <1>1, <1>2 DEF Open, LoopEvent

\* Every step keeps the stream open until it closes it, once.
LEMMA StepStream ==
  TypeOK /\ StreamIsClosedOnce /\ [Next]_vars => StreamIsClosedOnce'
<1> SUFFICES ASSUME TypeOK, StreamIsClosedOnce, [Next]_vars PROVE StreamIsClosedOnce'
  OBVIOUS
<1>1. events \in Seq(Event) /\ turn \in Nat
  BY LimitAssumption DEF TypeOK
<1>2. CASE Grows
  <2>1. PICK more \in Seq(LoopEvent) : events' = events \o more
    BY <1>2 DEF Grows
  <2>2. more \in Seq(Event) /\ Open(more) /\ Open(events)
    BY <1>2, LoopEventsAreOpen DEF Grows, StreamIsClosedOnce
  <2>3. Open(events')
    BY <1>1, <2>1, <2>2, OpenConcat
  <2> QED
    BY <1>2, <2>3 DEF Grows, StreamIsClosedOnce
<1>3. CASE Closes
  <2>1. PICK more \in Seq(LoopEvent), sums \in Totals :
          events' = (events \o more) \o <<Finished(sums)>>
    BY <1>3 DEF Closes
  <2>2. more \in Seq(Event) /\ Open(more) /\ Open(events)
    BY <1>3, LoopEventsAreOpen DEF Closes, StreamIsClosedOnce
  <2>3. events \o more \in Seq(Event) /\ Open(events \o more)
    BY <1>1, <2>2, OpenConcat, ConcatProperties
  <2>4. Finished(sums) \in Event /\ Finished(sums).kind = "RunFinished"
    BY <1>1 DEF Finished, Event
  <2>5. Closed(events')
    BY <2>1, <2>3, <2>4, ClosedByLast
  <2> QED
    BY <1>3, <2>5 DEF Closes, StreamIsClosedOnce
<1>4. CASE UNCHANGED <<pc, events>>
  BY <1>4 DEF StreamIsClosedOnce
<1> QED
  BY <1>2, <1>3, <1>4, EventsGrow

\* Whatever the provider, the host and the sizes do, the stream is closed exactly
\* once, by the last event, and only when the run is over.
THEOREM StreamClosesOnce == Spec => []StreamIsClosedOnce
<1>1. Init => StreamIsClosedOnce
  BY DEF Init, StreamIsClosedOnce, Open
<1> QED
  BY <1>1, StepStream, TypeCorrect, PTL DEF Spec

LEMMA StepAppends ==
  TypeOK /\ [Next]_vars => [\E more \in Seq(Event) : events' = events \o more]_events
<1> SUFFICES ASSUME TypeOK, [Next]_vars
             PROVE  [\E more \in Seq(Event) : events' = events \o more]_events
  OBVIOUS
<1>1. events \in Seq(Event) /\ turn \in Nat
  BY LimitAssumption DEF TypeOK
<1>2. CASE Grows
  BY <1>2, LoopEventsAreOpen DEF Grows
<1>3. CASE Closes
  <2>1. PICK more \in Seq(LoopEvent), sums \in Totals :
          events' = (events \o more) \o <<Finished(sums)>>
    BY <1>3 DEF Closes
  <2>2. more \in Seq(Event) /\ <<Finished(sums)>> \in Seq(Event)
    BY <1>1, LoopEventsAreOpen DEF Finished, Event
  <2>3. more \o <<Finished(sums)>> \in Seq(Event)
        /\ events' = events \o (more \o <<Finished(sums)>>)
    BY <1>1, <2>1, <2>2, ConcatAssociative, ConcatProperties
  <2> QED
    BY <2>3
<1> QED
  BY <1>2, <1>3, EventsGrow

\* Nothing already in the stream is rewritten: every step keeps it as a prefix.
EventsOnlyGrow == [][\E more \in Seq(Event) : events' = events \o more]_events
THEOREM TranscriptIsAppendOnly == Spec => EventsOnlyGrow
<1> QED
  BY StepAppends, TypeCorrect, PTL DEF Spec, EventsOnlyGrow
--------------------------------------------------------------------------------
(* What reaches the host.                                                  *)

LEMMA StepVetted ==
  TypeOK /\ HostOnlySeesVettedCalls /\ [Next]_vars => HostOnlySeesVettedCalls'
<1> SUFFICES ASSUME TypeOK, HostOnlySeesVettedCalls, [Next]_vars
             PROVE  HostOnlySeesVettedCalls'
  OBVIOUS
<1>1. CASE CallTool
  <2>1. Verdict(next) = "Run" /\ UNCHANGED <<calls, next, catalog>>
    BY <1>1 DEF CallTool, answer, context
  <2>2. next \in Nat
    BY LenProperties DEF TypeOK
  <2>3. /\ calls[next].tool \in catalog \ Forbidden
        /\ calls[next].valid
        /\ next <= MaxToolCalls
    BY <2>1, <2>2, LimitAssumption DEF Verdict, OverCap
  <2> QED
    BY <2>1, <2>3 DEF HostOnlySeesVettedCalls
<1>2. CASE UNCHANGED vars
  BY <1>2 DEF HostOnlySeesVettedCalls, vars
<1>3. CASE pc' # "Host"
  BY <1>3 DEF HostOnlySeesVettedCalls
<1> QED
  BY <1>1, <1>2, <1>3
  DEF Next, Environment, Loop, Over, ListTools, ListFails, Ask, DoesNotFit, TurnLimit,
      ProviderFails, FinalAnswer, CallsAnswer, RefuseCall, HostAnswers, CloseTurn, End,
      vars

\* A tool that is not listed, is forbidden, has arguments the schema refuses or is
\* past the cap never reaches the host, for any catalog, cap and answer.
THEOREM HostIsGuarded == Spec => []HostOnlySeesVettedCalls
<1>1. Init => HostOnlySeesVettedCalls
  BY DEF Init, HostOnlySeesVettedCalls
<1> QED
  BY <1>1, StepVetted, TypeCorrect, PTL DEF Spec
--------------------------------------------------------------------------------
(* The agent loop implements ToolProtocol: under the mapping at the end of *)
(* AgentRun, its initial state is one of the protocol's and each of its    *)
(* steps is a step of the protocol or leaves the protocol's state alone.   *)

\* What the mapping needs of the outcome: it is set by the step that ends the run.
Undecided == pc # "Done" => outcome = "running"

LEMMA StepUndecided == Undecided /\ [Next]_vars => Undecided'
<1> SUFFICES ASSUME Undecided, [Next]_vars PROVE Undecided'
  OBVIOUS
<1>1. CASE pc' = "Done"
  BY <1>1 DEF Undecided
<1>2. CASE UNCHANGED <<pc, outcome>>
  BY <1>2 DEF Undecided
<1>3. CASE UNCHANGED outcome /\ pc # "Done"
  BY <1>3 DEF Undecided
<1> QED
  BY <1>1, <1>2, <1>3
  DEF Next, Environment, Loop, Over, ListTools, ListFails, Ask, DoesNotFit, TurnLimit,
      ProviderFails, FinalAnswer, CallsAnswer, RecordAnswer, RefuseCall, CallTool,
      HostAnswers, CloseTurn, End, vars

\* Settling the first of the calls a .. n that are owed leaves the others.
LEMMA SettleFirst ==
  ASSUME NEW k, NEW i \in Nat, NEW n \in Nat, i <= n
  PROVE  /\ ({k} \X (i .. n)) \ {<<k, i>>} = {k} \X (i + 1 .. n)
         /\ <<k, i>> \in {k} \X (i .. n)
         /\ \A other \in {k} \X (i .. n) : i <= other[2]
<1>1. (i .. n) = {i} \cup (i + 1 .. n) /\ i \notin i + 1 .. n
  OBVIOUS
<1> QED
  BY <1>1

\* The steps that leave the protocol where it is.
LEMMA QuietStep ==
  ASSUME Undecided, UNCHANGED <<turn, calls, next, outcome>>,
         \/ pc' = pc
         \/ pc = "Listing" /\ pc' = "Turn"
  PROVE  UNCHANGED Protocol!vars
BY DEF Protocol!vars, Phase, OwedNow, RunningNow, AsksSoFar

\* A run that ends where the protocol may stop.
LEMMA StopStep ==
  ASSUME TypeOK, Undecided, UNCHANGED turn, pc' = "Done",
         \/ pc \in {"Listing", "Turn"} /\ outcome' \in {"ToolCatalog", "Budget", "TurnLimit"}
         \/ pc = "Model" /\ outcome' \in {"Ok", "Provider"}
  PROVE  Protocol!Stop
BY DEF Protocol!Stop, Phase, OwedNow, RunningNow, AsksSoFar, Undecided

LEMMA AskStep ==
  ASSUME TypeOK, Undecided, Ask
  PROVE  Protocol!Ask
<1>1. turn \in Nat /\ turn < MaxTurns /\ MaxTurns \in Nat
  BY LimitAssumption DEF Ask, MoreTurns, TypeOK
<1> QED
  BY <1>1 DEF Protocol!Ask, Ask, answer, Undecided, Phase, OwedNow, RunningNow, AsksSoFar

LEMMA AnswerStep ==
  ASSUME TypeOK, NEW r \in Answers, CallsAnswer(r)
  PROVE  Protocol!Answer
<1>1. /\ pc = "Model" /\ pc' = "Tools" /\ turn' = turn
      /\ calls' = r.calls /\ next' = 1 /\ r.calls # <<>>
  BY DEF CallsAnswer, RecordAnswer, IsFinal
<1>2. Len(r.calls) \in 1 .. MaxCalls
  BY <1>1, AnswerType, LimitAssumption, EmptySeq, LenProperties
<1>3. OwedNow' = {AsksSoFar} \X (1 .. Len(r.calls))
  BY <1>1 DEF OwedNow, AsksSoFar
<1>4. AsksSoFar' = AsksSoFar /\ RunningNow' = RunningNow
  BY <1>1 DEF AsksSoFar, RunningNow
<1> QED
  BY <1>1, <1>2, <1>3, <1>4 DEF Protocol!Answer, Phase

LEMMA RunStep ==
  ASSUME TypeOK, CallTool
  PROVE  Protocol!Run
<1>1. /\ pc = "Tools" /\ pc' = "Host" /\ Verdict(next) = "Run"
      /\ UNCHANGED <<turn, calls, next>>
  BY DEF CallTool, answer
<1>2. next \in Nat /\ Len(calls) \in Nat /\ next <= Len(calls)
  BY LenProperties DEF CallTool, TypeOK
<1>3. next <= MaxToolCalls
  BY <1>1, <1>2, LimitAssumption DEF Verdict, OverCap
<1>4. <<AsksSoFar, next>> \in OwedNow
  BY <1>1, <1>2, SettleFirst DEF OwedNow
<1>5. AsksSoFar' = AsksSoFar /\ OwedNow' = OwedNow
  BY <1>1 DEF AsksSoFar, OwedNow
<1>6. RunningNow = {} /\ RunningNow' = {<<AsksSoFar, next>>}
  BY <1>1, <1>5 DEF RunningNow
<1> QED
  BY <1>1, <1>3, <1>4, <1>5, <1>6 DEF Protocol!Run, Phase

\* A refusal and an answer of the host settle the call the cursor is at.
LEMMA SettleStep ==
  ASSUME TypeOK, pc \in {"Tools", "Host"}, next \in DOMAIN calls,
         next' = next + 1, pc' = "Tools", UNCHANGED <<turn, calls>>
  PROVE  Protocol!Settle
<1> DEFINE call == <<AsksSoFar, next>>
<1>1. next \in Nat /\ Len(calls) \in Nat /\ next <= Len(calls)
  BY LenProperties DEF TypeOK
<1>2. AsksSoFar' = AsksSoFar
  BY DEF AsksSoFar
<1>3. OwedNow = {AsksSoFar} \X (next .. Len(calls))
  BY DEF OwedNow
<1>4. OwedNow' = {AsksSoFar} \X (next + 1 .. Len(calls))
  BY <1>2 DEF OwedNow
<1>5. /\ call \in OwedNow
      /\ \A other \in OwedNow : next <= other[2]
      /\ OwedNow' = OwedNow \ {call}
  BY <1>1, <1>3, <1>4, SettleFirst
<1>6. RunningNow \subseteq {call} /\ RunningNow' = {}
  BY DEF RunningNow
<1> QED
  BY <1>2, <1>5, <1>6 DEF Protocol!Settle, Phase

LEMMA ResumeStep ==
  ASSUME TypeOK, Undecided, CloseTurn
  PROVE  Protocol!Resume
<1>1. /\ pc = "Tools" /\ pc' = "Turn" /\ next = Len(calls) + 1
      /\ turn' = turn + 1 /\ outcome' = "running" /\ Len(calls) \in Nat
  BY LenProperties DEF CloseTurn, AllSettled, Undecided, TypeOK
<1>2. OwedNow = {}
  BY <1>1 DEF OwedNow
<1> QED
  BY <1>1, <1>2 DEF Protocol!Resume, Phase, OwedNow, RunningNow, AsksSoFar

\* Every step of the loop is one of the protocol's, or none.
LEMMA StepImplements ==
  TypeOK /\ Undecided /\ [Next]_vars => [Protocol!Next]_(Protocol!vars)
<1> SUFFICES ASSUME TypeOK, Undecided, [Next]_vars
             PROVE  Protocol!Next \/ UNCHANGED Protocol!vars
  OBVIOUS
<1>1. CASE ListTools
  BY <1>1, QuietStep DEF ListTools, answer
<1>2. CASE ListFails \/ DoesNotFit \/ TurnLimit \/ ProviderFails
  BY <1>2, StopStep
  DEF ListFails, DoesNotFit, TurnLimit, ProviderFails, End, Protocol!Next
<1>3. CASE Ask
  BY <1>3, AskStep DEF Protocol!Next
<1>4. ASSUME NEW r \in Answers, FinalAnswer(r) PROVE Protocol!Next
  BY <1>4, StopStep DEF FinalAnswer, RecordAnswer, End, Protocol!Next
<1>5. ASSUME NEW r \in Answers, CallsAnswer(r) PROVE Protocol!Next
  BY <1>5, AnswerStep DEF Protocol!Next
<1>6. CASE RefuseCall
  BY <1>6, SettleStep DEF RefuseCall, Protocol!Next
<1>7. CASE CallTool
  BY <1>7, RunStep DEF Protocol!Next
<1>8. ASSUME NEW answered \in HostOutcomes, NEW size \in Sizes, HostAnswers(answered, size)
      PROVE  Protocol!Next
  BY <1>8, SettleStep DEF HostAnswers, TypeOK, Protocol!Next
<1>9. CASE CloseTurn
  BY <1>9, ResumeStep DEF Protocol!Next
<1>10. CASE UNCHANGED vars
  BY <1>10, QuietStep DEF vars
<1> QED
  BY <1>1, <1>2, <1>3, <1>4, <1>5, <1>6, <1>7, <1>8, <1>9, <1>10
  DEF Next, Environment, Loop, Over

\* For any catalog, answers, limits and sizes the loop keeps the tool protocol: at
\* most MaxTurns requests, one call at a time and each at most once, only the first
\* MaxToolCalls of an answer, and every call settled before the model is asked again.
THEOREM ImplementsProtocol == Spec => KeepsProtocol
<1>1. Init => Protocol!Init
  BY DEF Init, Protocol!Init, Phase, OwedNow, RunningNow, AsksSoFar
<1>2. Init => Undecided
  BY DEF Init, Undecided
<1> QED
  BY <1>1, <1>2, StepUndecided, StepImplements, TypeCorrect, PTL
  DEF Spec, KeepsProtocol, Protocol!Spec
================================================================================
