--------------------------- MODULE TranscriptProofs ----------------------------
(***************************************************************************)
(* What the agent loop tells of a run (AgentRun): that the stream and the  *)
(* journal follow the answers, call by call, that the ledger adds up, and  *)
(* that a replay is the recorded run again (ReplayRun), from any journal a *)
(* run can leave, cut at any line.                                         *)
(***************************************************************************)
EXTENDS ReplayRun, AgentRunProofs, FoldProofs
--------------------------------------------------------------------------------
(* The calls that a series of answers owes, and what it cost.              *)

Response == OfSorts(Entry, {"ModelResponse"})
OwedCall == [call : CallId, tool : {r.tool : r \in Requests}]
Sums == [cost : Money \cup {NoCost}, unmetered : Nat]

LEMMA ResponseType ==
  ASSUME NEW e \in Response
  PROVE  /\ e \in Entry /\ e.kind = "ModelResponse"
         /\ e.calls \in Seq(Requests) /\ e.cost \in Money \cup {NoCost}
BY CostAssumption DEF Response, OfSorts, Entry

LEMMA AskedType ==
  ASSUME NEW e \in Response, NEW place \in Nat
  PROVE  /\ AskedBy(e, place) \in Seq(OwedCall)
         /\ Len(AskedBy(e, place)) = Len(e.calls)
         /\ \A j \in 1 .. Len(e.calls) :
              AskedBy(e, place)[j] = [call |-> <<place, j>>, tool |-> e.calls[j].tool]
<1>1. e.calls \in Seq(Requests)
  BY ResponseType
<1>2. Len(e.calls) \in Nat /\ DOMAIN e.calls = 1 .. Len(e.calls)
  BY <1>1
<1>3. AskedBy(e, place) \in [1 .. Len(e.calls) -> OwedCall]
  BY <1>1, <1>2 DEF AskedBy, OwedCall, CallId
<1>4. AskedBy(e, place) \in Seq(OwedCall) /\ Len(AskedBy(e, place)) = Len(e.calls)
  BY <1>2, <1>3
<1> QED
  BY <1>2, <1>4 DEF AskedBy

Owing(log) ==
  [i \in 1 .. Len(log) |->
     [a \in Seq(OwedCall) |->
        IF IsFinal(log[i]) THEN a ELSE a \o AskedBy(log[i], i - 1)]]

LEMMA OwingType ==
  ASSUME NEW log \in Seq(Response)
  PROVE  /\ Owing(log) \in [1 .. Len(log) -> [Seq(OwedCall) -> Seq(OwedCall)]]
         /\ <<>> \in Seq(OwedCall)
<1>1. ASSUME NEW i \in 1 .. Len(log), NEW a \in Seq(OwedCall)
      PROVE  (IF IsFinal(log[i]) THEN a ELSE a \o AskedBy(log[i], i - 1)) \in Seq(OwedCall)
  <2>1. AskedBy(log[i], i - 1) \in Seq(OwedCall)
    <3>1. log[i] \in Response /\ i - 1 \in Nat
      OBVIOUS
    <3> QED
      BY <3>1, AskedType
  <2> QED
    BY <2>1, ConcatProperties
<1> QED
  BY <1>1, EmptySeq DEF Owing

LEMMA OwedFollows ==
  ASSUME NEW log \in Seq(Response)
  PROVE  \E f \in [0 .. Len(log) -> Seq(OwedCall)] :
           /\ Follows(f, Len(log), Seq(OwedCall), <<>>, Owing(log))
           /\ OwedBy(log) = f[Len(log)]
<1> DEFINE A == Seq(OwedCall)
           n == Len(log)
           step == Owing(log)
           Run(f) == f = [i \in 0 .. n |-> IF i = 0 THEN <<>>
                            ELSE IF IsFinal(log[i]) THEN f[i - 1]
                            ELSE f[i - 1] \o AskedBy(log[i], i - 1)]
           g == CHOOSE f : Run(f)
<1>1. n \in Nat /\ DOMAIN log = 1 .. n /\ \A i \in 1 .. n : log[i] \in Response
  OBVIOUS
<1>2. step \in [1 .. n -> [A -> A]] /\ <<>> \in A
  BY OwingType
<1>3. PICK h \in [0 .. n -> A] : Follows(h, n, A, <<>>, step)
  <2> HIDE DEF n, step
  <2> QED
    BY <1>1, <1>2, RunExists
<1>4. \A i \in 1 .. n : i - 1 \in 0 .. n /\ i \in 0 .. n /\ i # 0
  BY <1>1
<1>5. \A i \in 1 .. n : \A a \in A :
        step[i][a] = IF IsFinal(log[i]) THEN a ELSE a \o AskedBy(log[i], i - 1)
  BY DEF Owing
<1>6. Run(h)
  <2>1. ASSUME NEW i \in 0 .. n
        PROVE  h[i] = IF i = 0 THEN <<>>
                      ELSE IF IsFinal(log[i]) THEN h[i - 1]
                      ELSE h[i - 1] \o AskedBy(log[i], i - 1)
    <3>1. CASE i = 0
      BY <1>3, <3>1 DEF Follows
    <3>2. CASE i # 0
      <4>1. i \in 1 .. n /\ h[i - 1] \in A
        BY <1>1, <1>3, <3>2
      <4>2. h[i] = step[i][h[i - 1]]
        BY <1>3, <4>1 DEF Follows
      <4> HIDE DEF step
      <4> QED
        BY <1>5, <3>2, <4>1, <4>2
    <3> QED
      BY <3>1, <3>2
  <2> QED
    BY <1>3, <2>1
<1>7. Run(g)
  BY <1>6
<1>8. Follows(g, n, A, <<>>, step)
  <2>1. g[0] = <<>>
    <3>1. 0 \in 0 .. n
      BY <1>1
    <3> HIDE DEF g
    <3> QED
      BY <1>7, <3>1
  <2>2. ASSUME NEW i \in 1 .. n, g[i - 1] \in A
        PROVE  g[i] = step[i][g[i - 1]]
    <3>1. g[i] = IF IsFinal(log[i]) THEN g[i - 1]
               ELSE g[i - 1] \o AskedBy(log[i], i - 1)
      <4> HIDE DEF g
      <4> QED
        BY <1>4, <1>7
    <3> HIDE DEF step, g
    <3> QED
      BY <1>5, <2>2, <3>1
  <2> HIDE DEF g
  <2> QED
    BY <2>1, <2>2 DEF Follows
<1>9. OwedBy(log) = g[n]
  BY DEF OwedBy
<1>10. g[n] = h[n]
  <2>1. n \in 0 .. n
    BY <1>1
  <2> HIDE DEF n, step, g, A
  <2> QED
    BY <1>1, <1>2, <1>3, <1>8, <2>1, RunsAgree
<1> QED
  BY <1>3, <1>9, <1>10

\* An answer that is not the last adds its calls to what is owed.
LEMMA OwedGrows ==
  ASSUME NEW log \in Seq(Response), NEW e \in Response
  PROVE  /\ OwedBy(log) \in Seq(OwedCall)
         /\ OwedBy(Append(log, e)) = IF IsFinal(e) THEN OwedBy(log)
                                     ELSE OwedBy(log) \o AskedBy(e, Len(log))
<1> DEFINE A == Seq(OwedCall)
           n == Len(log)
           more == Append(log, e)
           s == Owing(log)
           t == Owing(more)
<1>1. /\ more \in Seq(Response) /\ Len(more) = n + 1 /\ n \in Nat
      /\ more[n + 1] = e /\ \A i \in 1 .. n : more[i] = log[i]
  BY AppendProperties
<1>2. PICK f \in [0 .. n -> A] :
        Follows(f, n, A, <<>>, s) /\ OwedBy(log) = f[n]
  BY OwedFollows
<1>3. PICK g : Follows(g, n + 1, A, <<>>, t) /\ OwedBy(more) = g[n + 1]
  <2>1. \E g \in [0 .. Len(more) -> A] :
          Follows(g, Len(more), A, <<>>, t) /\ OwedBy(more) = g[Len(more)]
    <3> HIDE DEF more
    <3> QED
      BY <1>1, OwedFollows
  <2> HIDE DEF t, more
  <2> QED
    BY <1>1, <2>1
<1>4. \A i \in 1 .. n : t[i] = s[i]
  BY <1>1 DEF Owing
<1>5. s \in [1 .. n -> [A -> A]] /\ <<>> \in A
  BY OwingType
<1>6. f[n] \in A /\ g[n + 1] = t[n + 1][f[n]]
  <2>1. n \in Nat /\ <<>> \in A /\ s \in [1 .. n -> [A -> A]]
    BY <1>1, <1>5
  <2>2. Follows(f, n, A, <<>>, s) /\ Follows(g, n + 1, A, <<>>, t)
    BY <1>2, <1>3
  <2> HIDE DEF n, s, t, A, more
  <2> QED
    BY ONLY <1>4, <2>1, <2>2, RunGrows
<1>7. \A a \in A : t[n + 1][a] = IF IsFinal(e) THEN a ELSE a \o AskedBy(e, n)
  BY <1>1 DEF Owing
<1> HIDE DEF t, more
<1> QED
  BY <1>2, <1>3, <1>6, <1>7 DEF more

LEMMA OwedOfNothing == OwedBy(<<>>) = <<>>
<1>1. <<>> \in Seq(Response) /\ Len(<<>>) = 0
  OBVIOUS
<1>2. PICK f : /\ Follows(f, Len(<<>>), Seq(OwedCall), <<>>, Owing(<<>>))
               /\ OwedBy(<<>>) = f[Len(<<>>)]
  BY <1>1, OwedFollows
<1> QED
  BY <1>1, <1>2 DEF Follows

Adding(log) == [i \in 1 .. Len(log) |-> [a \in Sums |-> Counting(a, log[i])]]

LEMMA AddingType ==
  ASSUME NEW log \in Seq(Response)
  PROVE  /\ Adding(log) \in [1 .. Len(log) -> [Sums -> Sums]]
         /\ NothingPriced \in Sums
<1>1. ASSUME NEW a \in Sums, NEW e \in Response PROVE Counting(a, e) \in Sums
  <2>1. e.cost \in Money \cup {NoCost} /\ a.cost \in Money \cup {NoCost} /\ a.unmetered \in Nat
    BY ResponseType DEF Sums
  <2>2. AddCost(a, e.cost) \in Money \cup {NoCost}
    BY <2>1 DEF AddCost, Mismatch, Money
  <2>3. Unmetered(a, e.cost) \in Nat
    BY <2>1 DEF Unmetered
  <2> QED
    BY <2>2, <2>3 DEF Counting, Sums
<1>2. \A i \in 1 .. Len(log) : log[i] \in Response
  OBVIOUS
<1>3. NothingPriced \in Sums
  BY DEF NothingPriced, Sums
<1> QED
  BY <1>1, <1>2, <1>3 DEF Adding

LEMMA TotalsFollows ==
  ASSUME NEW log \in Seq(Response)
  PROVE  \E f \in [0 .. Len(log) -> Sums] :
           /\ Follows(f, Len(log), Sums, NothingPriced, Adding(log))
           /\ TotalsOf(log) = f[Len(log)]
<1> DEFINE n == Len(log)
           step == Adding(log)
           Run(f) == f = [i \in 0 .. n |-> IF i = 0 THEN NothingPriced ELSE Counting(f[i - 1], log[i])]
           g == CHOOSE f : Run(f)
<1>1. n \in Nat /\ DOMAIN log = 1 .. n /\ \A i \in 1 .. n : log[i] \in Response
  OBVIOUS
<1>2. step \in [1 .. n -> [Sums -> Sums]] /\ NothingPriced \in Sums
  BY AddingType
<1>3. PICK h \in [0 .. n -> Sums] : Follows(h, n, Sums, NothingPriced, step)
  <2> HIDE DEF n, step
  <2> QED
    BY <1>1, <1>2, RunExists
<1>4. \A i \in 1 .. n : i - 1 \in 0 .. n /\ i \in 0 .. n /\ i # 0
  BY <1>1
<1>5. \A i \in 1 .. n : \A a \in Sums :
        step[i][a] = Counting(a, log[i])
  BY DEF Adding
<1>6. Run(h)
  <2>1. ASSUME NEW i \in 0 .. n
        PROVE  h[i] = IF i = 0 THEN NothingPriced ELSE Counting(h[i - 1], log[i])
    <3>1. CASE i = 0
      BY <1>3, <3>1 DEF Follows
    <3>2. CASE i # 0
      <4>1. i \in 1 .. n /\ h[i - 1] \in Sums
        BY <1>1, <1>3, <3>2
      <4>2. h[i] = step[i][h[i - 1]]
        BY <1>3, <4>1 DEF Follows
      <4> HIDE DEF step
      <4> QED
        BY <1>5, <3>2, <4>1, <4>2
    <3> QED
      BY <3>1, <3>2
  <2> QED
    BY <1>3, <2>1
<1>7. Run(g)
  BY <1>6
<1>8. Follows(g, n, Sums, NothingPriced, step)
  <2>1. g[0] = NothingPriced
    <3>1. 0 \in 0 .. n
      BY <1>1
    <3> HIDE DEF g
    <3> QED
      BY <1>7, <3>1
  <2>2. ASSUME NEW i \in 1 .. n, g[i - 1] \in Sums
        PROVE  g[i] = step[i][g[i - 1]]
    <3>1. g[i] = Counting(g[i - 1], log[i])
      <4> HIDE DEF g
      <4> QED
        BY <1>4, <1>7
    <3> HIDE DEF step, g
    <3> QED
      BY <1>5, <2>2, <3>1
  <2> HIDE DEF g
  <2> QED
    BY <2>1, <2>2 DEF Follows
<1>9. TotalsOf(log) = g[n]
  BY DEF TotalsOf
<1>10. g[n] = h[n]
  <2>1. n \in 0 .. n
    BY <1>1
  <2> HIDE DEF n, step, g
  <2> QED
    BY <1>1, <1>2, <1>3, <1>8, <2>1, RunsAgree
<1> QED
  BY <1>3, <1>9, <1>10

\* An answer is counted into the totals of those before it.
LEMMA TotalsGrows ==
  ASSUME NEW log \in Seq(Response), NEW e \in Response
  PROVE  /\ TotalsOf(log) \in Sums
         /\ TotalsOf(Append(log, e)) = Counting(TotalsOf(log), e)
<1> DEFINE A == Sums
           base == NothingPriced
           n == Len(log)
           more == Append(log, e)
           s == Adding(log)
           t == Adding(more)
<1>1. /\ more \in Seq(Response) /\ Len(more) = n + 1 /\ n \in Nat
      /\ more[n + 1] = e /\ \A i \in 1 .. n : more[i] = log[i]
  BY AppendProperties
<1>2. PICK f \in [0 .. n -> A] :
        Follows(f, n, A, base, s) /\ TotalsOf(log) = f[n]
  BY TotalsFollows
<1>3. PICK g : Follows(g, n + 1, A, base, t) /\ TotalsOf(more) = g[n + 1]
  <2>1. \E g \in [0 .. Len(more) -> A] :
          Follows(g, Len(more), A, base, t) /\ TotalsOf(more) = g[Len(more)]
    <3> HIDE DEF more
    <3> QED
      BY <1>1, TotalsFollows
  <2> HIDE DEF t, more
  <2> QED
    BY <1>1, <2>1
<1>4. \A i \in 1 .. n : t[i] = s[i]
  BY <1>1 DEF Adding
<1>5. s \in [1 .. n -> [A -> A]] /\ base \in A
  BY AddingType
<1>6. f[n] \in A /\ g[n + 1] = t[n + 1][f[n]]
  <2>1. n \in Nat /\ base \in A /\ s \in [1 .. n -> [A -> A]]
    BY <1>1, <1>5
  <2>2. Follows(f, n, A, base, s) /\ Follows(g, n + 1, A, base, t)
    BY <1>2, <1>3
  <2> HIDE DEF n, s, t, A, base, more
  <2> QED
    BY <1>4, <2>1, <2>2, RunGrows
<1>7. \A a \in A : t[n + 1][a] = Counting(a, e)
  BY <1>1 DEF Adding
<1> HIDE DEF t, more
<1> QED
  BY <1>2, <1>3, <1>6, <1>7 DEF more

LEMMA TotalsOfNothing == TotalsOf(<<>>) = NothingPriced
<1>1. <<>> \in Seq(Response) /\ Len(<<>>) = 0
  OBVIOUS
<1>2. PICK f : /\ Follows(f, Len(<<>>), Sums, NothingPriced, Adding(<<>>))
               /\ TotalsOf(<<>>) = f[Len(<<>>)]
  BY <1>1, TotalsFollows
<1> QED
  BY <1>1, <1>2 DEF Follows

--------------------------------------------------------------------------------
(* How the logs grow.                                                      *)

CallKinds == {"ToolCallStarted", "ToolCallFinished", "ToolCallFailed"}
SettledKinds == {"ToolCallFinished", "ToolCallFailed"}
SideEvent == Others(Event, CallKinds)

\* A step in which no call is announced or settled.
NoCalls == Announced' = Announced /\ Settled' = Settled

\* A log that shows the calls the stream shows so far.
SameCalls(log) ==
  /\ log \in Seq(Event)
  /\ OfKinds(log, {"ToolCallStarted"}) = Announced
  /\ OfKinds(log, SettledKinds) = Settled

LEMMA SameCallsMore ==
  ASSUME NEW log, SameCalls(log), NEW more \in Seq(SideEvent)
  PROVE  SameCalls(log \o more)
<1>1. log \in Seq(Event)
  BY DEF SameCalls
<1>2. /\ more \in Seq(Others(Event, {"ToolCallStarted"}))
      /\ more \in Seq(Others(Event, SettledKinds))
      /\ more \in Seq(Event)
  <2>1. /\ SideEvent \subseteq Others(Event, {"ToolCallStarted"})
        /\ SideEvent \subseteq Others(Event, SettledKinds)
        /\ SideEvent \subseteq Event
    BY DEF SideEvent, Others, CallKinds, SettledKinds
  <2> QED
    BY <2>1
<1>3. OfKinds(log \o more, {"ToolCallStarted"}) = OfKinds(log, {"ToolCallStarted"})
  BY <1>1, <1>2, OfKindsSkips
<1>4. OfKinds(log \o more, SettledKinds) = OfKinds(log, SettledKinds)
  BY <1>1, <1>2, OfKindsSkips
<1>5. log \o more \in Seq(Event)
  BY <1>1, <1>2, ConcatProperties
<1> QED
  BY <1>3, <1>4, <1>5 DEF SameCalls

LEMMA SideWarned ==
  ASSUME turn \in Nat, NEW batch \in SUBSET Warning
  PROVE  Warned(batch) \in Seq(SideEvent)
<1>1. CASE batch = {}
  BY <1>1 DEF Warned
<1>2. CASE batch # {}
  <2>1. [kind |-> "Warned", turn |-> turn, warnings |-> batch] \in SideEvent
    BY DEF Event, SideEvent, Others, CallKinds
  <2> QED
    BY <1>2, <2>1 DEF Warned
<1> QED
  BY <1>1, <1>2

LEMMA SideEvents ==
  ASSUME turn \in Nat
  PROVE  /\ \A kind \in {"TurnStarted", "UsageUpdated", "TurnFinished"} :
              TurnEvent(kind) \in SideEvent
         /\ \A sums \in Totals : Finished(sums) \in SideEvent
BY DEF SideEvent, Others, CallKinds, Event, TurnEvent, Finished

LEMMA SideAnswer ==
  ASSUME TypeOK, NEW r \in Answers
  PROVE  /\ AnswerEvents(r) \in Seq(SideEvent)
         /\ Warned(CapWarnings(r)) \in Seq(SideEvent)
<1>1. turn \in Nat
  BY LimitAssumption DEF TypeOK
<1>2. <<TurnEvent("UsageUpdated")>> \in Seq(SideEvent)
  BY <1>1, SideEvents
<1>3. /\ Warned(ArrivalWarnings(r)) \in Seq(SideEvent)
      /\ Warned(AnswerWarnings(r)) \in Seq(SideEvent)
      /\ Warned(CapWarnings(r)) \in Seq(SideEvent)
  BY <1>1, AnswerWarningsType, SideWarned
<1> QED
  BY <1>2, <1>3, ConcatProperties DEF AnswerEvents

\* Calls are announced and settled by the three steps that are about a call, and by
\* no other.
HostStep == \E answered \in HostOutcomes, size \in Sizes : HostAnswers(answered, size)

LEMMA StepNoCalls ==
  ASSUME TypeOK, [Next]_vars, ~RefuseCall, ~CallTool, ~HostStep
  PROVE  NoCalls
<1> SUFFICES SameCalls(events')
  BY DEF SameCalls, NoCalls, Announced, Settled, SettledKinds
<1>0. turn \in Nat /\ totals \in Totals /\ events \in Seq(Event)
      /\ SideEvent \subseteq Event
  BY LimitAssumption DEF TypeOK, SideEvent, Others
<1>1. SameCalls(events)
  BY <1>0 DEF SameCalls, Announced, Settled, SettledKinds
<1>2. ASSUME NEW how, NEW last \in Seq(SideEvent), NEW sums \in Totals, End(how, last, sums)
      PROVE  SameCalls(events')
  <2>1. <<Finished(sums)>> \in Seq(SideEvent)
    BY <1>0, SideEvents
  <2>2. last \o <<Finished(sums)>> \in Seq(SideEvent)
    BY <2>1, ConcatProperties
  <2>3. events' = events \o (last \o <<Finished(sums)>>)
    <3>1. last \in Seq(Event) /\ <<Finished(sums)>> \in Seq(Event)
      BY <1>0, <2>1
    <3> QED
      BY <1>0, <1>2, <3>1, ConcatAssociative DEF End
  <2> QED
    BY <1>1, <2>2, <2>3, SameCallsMore
<1>3. ASSUME NEW e \in SideEvent, events' = Append(events, e)
      PROVE  SameCalls(events')
  <2>1. events' = events \o <<e>> /\ <<e>> \in Seq(SideEvent)
    BY <1>0, <1>3, AppendIsConcat
  <2> QED
    BY <1>1, <2>1, SameCallsMore
<1>4. CASE ListTools
  <2>1. (IF catalog' = {} THEN {Degraded("tool-catalog")} ELSE {}) \in SUBSET Warning
    BY DEF Degraded, Warning, Degradations
  <2> QED
    BY <1>0, <1>1, <1>4, <2>1, SideWarned, SameCallsMore DEF ListTools
<1>5. CASE ListFails \/ TurnLimit \/ ProviderFails
  <2>1. <<>> \in Seq(SideEvent)
    BY EmptySeq
  <2> QED
    BY <1>0, <1>2, <1>5, <2>1 DEF ListFails, TurnLimit, ProviderFails
<1>6. CASE DoesNotFit
  <2>1. <<TurnEvent("TurnStarted")>> \in Seq(SideEvent)
    BY <1>0, SideEvents
  <2> QED
    BY <1>0, <1>2, <1>6, <2>1 DEF DoesNotFit
<1>7. CASE Ask
  <2>1. PICK prompt \in {BuildSegments} :
        \E fitted \in {Fit(prompt, Ceiling, RecentHistory)} :
          \E plan \in {Plan(fitted.keep, previous, Caps)} : Send(fitted, plan)
    BY <1>7 DEF Ask
  <2>2. PICK fitted \in {Fit(prompt, Ceiling, RecentHistory)} :
          \E plan \in {Plan(fitted.keep, previous, Caps)} : Send(fitted, plan)
    BY <2>1
  <2>3. PICK plan \in {Plan(fitted.keep, previous, Caps)} : Send(fitted, plan)
    BY <2>2
  <2>4. DOMAIN fitted.keep \subseteq Nat /\ fitted.evicted \subseteq Nat
    <3>1. DOMAIN prompt \subseteq Nat
      BY <2>1, PromptIds DEF TypeOK
    <3> QED
      BY <3>1, FitShrinks
  <2>5. plan.warnings \in SUBSET Warning
    BY <2>4, PlanType
  <2>6. PressureWarnings(fitted) \in SUBSET Warning
    BY <2>4 DEF PressureWarnings, Warning
  <2>7. Warned(plan.warnings) \in Seq(SideEvent)
        /\ Warned(PressureWarnings(fitted)) \in Seq(SideEvent)
    BY <1>0, <2>5, <2>6, SideWarned
  <2>8. TurnEvent("TurnStarted") \in SideEvent
    BY <1>0, SideEvents
  <2>9. SameCalls(Append(events, TurnEvent("TurnStarted")))
    <3>1. Append(events, TurnEvent("TurnStarted")) = events \o <<TurnEvent("TurnStarted")>>
      BY <1>0, <2>8, AppendIsConcat
    <3>2. <<TurnEvent("TurnStarted")>> \in Seq(SideEvent)
      BY <2>8
    <3> QED
      BY <1>1, <3>1, <3>2, SameCallsMore
  <2>10. SameCalls(Append(events, TurnEvent("TurnStarted")) \o Warned(PressureWarnings(fitted)))
    BY <2>7, <2>9, SameCallsMore
  <2> QED
    BY <2>3, <2>7, <2>10, SameCallsMore DEF Send
<1>8. ASSUME NEW r \in Answers, FinalAnswer(r) PROVE SameCalls(events')
  <2>1. AnswerEvents(r) \o <<TurnEvent("TurnFinished")>> \in Seq(SideEvent)
    <3>1. <<TurnEvent("TurnFinished")>> \in Seq(SideEvent)
      BY <1>0, SideEvents
    <3> QED
      BY <3>1, SideAnswer, ConcatProperties
  <2>2. totals' \in Totals
    BY <1>8, RecordAnswerType DEF FinalAnswer
  <2> QED
    BY <1>2, <1>8, <2>1, <2>2 DEF FinalAnswer
<1>9. ASSUME NEW r \in Answers, CallsAnswer(r) PROVE SameCalls(events')
  <2>1. SameCalls(events \o AnswerEvents(r))
    BY <1>1, SideAnswer, SameCallsMore
  <2>2. SameCalls((events \o AnswerEvents(r)) \o Warned(CapWarnings(r)))
    BY <2>1, SideAnswer, SameCallsMore
  <2> QED
    BY <1>9, <2>2 DEF CallsAnswer
<1>10. CASE CloseTurn
  BY <1>0, <1>3, <1>10, SideEvents DEF CloseTurn
<1>11. CASE Over \/ UNCHANGED vars
  BY <1>1, <1>11 DEF Over, vars
<1> QED
  BY <1>4, <1>5, <1>6, <1>7, <1>8, <1>9, <1>10, <1>11 DEF Next, Environment, Loop, HostStep

--------------------------------------------------------------------------------
(* What a step does to the logs.                                           *)

Start == OfSorts(Event, {"ToolCallStarted"})
Settling == OfSorts(Event, SettledKinds)
Result == OfSorts(Entry, {"ToolResult"})

LEMMA LogTypes ==
  ASSUME TypeOK
  PROVE  /\ Announced \in Seq(Start) /\ Settled \in Seq(Settling)
         /\ Responses \in Seq(Response) /\ ResultEntries \in Seq(Result)
         /\ OwedCalls \in Seq(OwedCall)
<1>1. events \in Seq(Event) /\ entries \in Seq(Entry)
  BY DEF TypeOK
<1>2. Announced \in Seq(Start) /\ Settled \in Seq(Settling)
  BY <1>1, OfKindsType DEF Announced, Settled, Start, Settling, SettledKinds
<1>3. Responses \in Seq(Response) /\ ResultEntries \in Seq(Result)
  BY <1>1, OfKindsType DEF Responses, ResultEntries, Response, Result
<1>4. OwedBy(Responses) \in Seq(OwedCall)
  <2>1. PICK f \in [0 .. Len(Responses) -> Seq(OwedCall)] : OwedBy(Responses) = f[Len(Responses)]
    BY <1>3, OwedFollows
  <2>2. Len(Responses) \in 0 .. Len(Responses)
    BY <1>3
  <2> QED
    BY <2>1, <2>2
<1> QED
  BY <1>2, <1>3, <1>4 DEF OwedCalls

\* An answer adds one response, and the calls it owes unless it is the last.
LEMMA AnswerLogs ==
  ASSUME TypeOK, NEW r \in Answers, RecordAnswer(r)
  PROVE  /\ ResponseEntry(r) \in Response
         /\ Responses' = Append(Responses, ResponseEntry(r))
         /\ ResultEntries' = ResultEntries
         /\ OwedCalls' = IF IsFinal(r) THEN OwedCalls
                         ELSE OwedCalls \o AskedBy(ResponseEntry(r), Len(Responses))
<1>1. entries \in Seq(Entry) /\ entries' = Append(entries, ResponseEntry(r))
      /\ ResponseEntry(r) \in Entry
  BY ResponseEntryType DEF TypeOK, RecordAnswer
<1>2. ResponseEntry(r).kind = "ModelResponse"
  BY DEF ResponseEntry
<1>3. ResponseEntry(r) \in Response
  BY <1>1, <1>2 DEF Response, OfSorts
<1>4. OfKinds(Append(entries, ResponseEntry(r)), {"ModelResponse"})
        = Append(OfKinds(entries, {"ModelResponse"}), ResponseEntry(r))
  BY <1>1, <1>2, OfKindsGrows
<1>5. OfKinds(Append(entries, ResponseEntry(r)), {"ToolResult"}) = OfKinds(entries, {"ToolResult"})
  BY <1>1, <1>2, OfKindsGrows
<1>6. Responses' = Append(Responses, ResponseEntry(r)) /\ ResultEntries' = ResultEntries
  BY <1>1, <1>4, <1>5 DEF Responses, ResultEntries
<1>7. IsFinal(ResponseEntry(r)) = IsFinal(r)
  BY DEF IsFinal, ResponseEntry
<1>8. OwedBy(Append(Responses, ResponseEntry(r)))
        = IF IsFinal(r) THEN OwedBy(Responses)
          ELSE OwedBy(Responses) \o AskedBy(ResponseEntry(r), Len(Responses))
  BY <1>3, <1>7, LogTypes, OwedGrows
<1> QED
  BY <1>3, <1>6, <1>8 DEF OwedCalls

\* A settled call adds its result.
LEMMA ResultLogs ==
  ASSUME TypeOK, next \in DOMAIN calls, NEW content \in Contents, NEW isError \in BOOLEAN,
         entries' = Append(entries, ResultEntry(next, content, isError))
  PROVE  /\ ResultEntry(next, content, isError) \in Result
         /\ ResultEntries' = Append(ResultEntries, ResultEntry(next, content, isError))
         /\ Responses' = Responses
         /\ OwedCalls' = OwedCalls
<1>1. calls[next] \in Requests
  <2>1. calls \in Seq(Requests) /\ next \in 1 .. Len(calls)
    BY LenProperties DEF TypeOK
  <2> QED
    BY <2>1, ElementOfSeq
<1> DEFINE e == ResultEntry(next, content, isError)
<1>2. e \in Entry /\ e.kind = "ToolResult"
  BY <1>1 DEF ResultEntry, Entry
<1>3. entries \in Seq(Entry) /\ entries' = Append(entries, e)
  BY DEF TypeOK
<1> HIDE DEF e
<1>4. OfKinds(Append(entries, e), {"ModelResponse"}) = OfKinds(entries, {"ModelResponse"})
  BY <1>2, <1>3, OfKindsGrows
<1>5. OfKinds(Append(entries, e), {"ToolResult"}) = Append(OfKinds(entries, {"ToolResult"}), e)
  BY <1>2, <1>3, OfKindsGrows
<1>6. e \in Result
  BY <1>2 DEF Result, OfSorts
<1>7. Responses' = Responses /\ ResultEntries' = Append(ResultEntries, e)
  BY <1>3, <1>4, <1>5 DEF Responses, ResultEntries
<1> QED
  BY <1>6, <1>7 DEF OwedCalls, e

LEMMA NoEntryLogs ==
  ASSUME UNCHANGED entries
  PROVE  UNCHANGED <<Responses, ResultEntries, OwedCalls>>
BY DEF Responses, ResultEntries, OwedCalls

\* A call event adds itself to the announced or to the settled calls.
LEMMA CallLogs ==
  ASSUME NEW log \in Seq(Event), turn \in Nat, NEW i \in Nat, NEW kind \in CallKinds
  PROVE  /\ Append(log, CallEvent(kind, i)) \in Seq(Event)
         /\ OfKinds(Append(log, CallEvent(kind, i)), {"ToolCallStarted"})
              = IF kind = "ToolCallStarted"
                THEN Append(OfKinds(log, {"ToolCallStarted"}), CallEvent(kind, i))
                ELSE OfKinds(log, {"ToolCallStarted"})
         /\ OfKinds(Append(log, CallEvent(kind, i)), SettledKinds)
              = IF kind = "ToolCallStarted" THEN OfKinds(log, SettledKinds)
                ELSE Append(OfKinds(log, SettledKinds), CallEvent(kind, i))
<1> DEFINE e == CallEvent(kind, i)
<1>1. e \in Event /\ e.kind = kind
  BY EventType DEF LoopEvent, CallKinds, CallEvent
<1> HIDE DEF e
<1>2. /\ kind \in {"ToolCallStarted"} <=> kind = "ToolCallStarted"
      /\ kind \in SettledKinds <=> kind # "ToolCallStarted"
  BY DEF CallKinds, SettledKinds
<1>3. OfKinds(Append(log, e), {"ToolCallStarted"})
        = IF e.kind \in {"ToolCallStarted"} THEN Append(OfKinds(log, {"ToolCallStarted"}), e)
          ELSE OfKinds(log, {"ToolCallStarted"})
  BY <1>1, OfKindsGrows
<1>4. OfKinds(Append(log, e), SettledKinds)
        = IF e.kind \in SettledKinds THEN Append(OfKinds(log, SettledKinds), e)
          ELSE OfKinds(log, SettledKinds)
  BY <1>1, OfKindsGrows
<1>5. Append(log, e) \in Seq(Event)
  BY <1>1, AppendProperties
<1> QED
  BY <1>1, <1>2, <1>3, <1>4, <1>5 DEF e

LEMMA StartLogs ==
  ASSUME TypeOK, next \in DOMAIN calls, events' = Append(events, CallEvent("ToolCallStarted", next))
  PROVE  /\ Announced' = Append(Announced, CallEvent("ToolCallStarted", next))
         /\ Settled' = Settled
<1>1. events \in Seq(Event) /\ turn \in Nat /\ next \in Nat /\ "ToolCallStarted" \in CallKinds
  BY LimitAssumption, LenProperties DEF TypeOK, CallKinds
<1> QED
  BY <1>1, CallLogs DEF Announced, Settled, SettledKinds

LEMMA SettleLogs ==
  ASSUME TypeOK, next \in DOMAIN calls, NEW kind \in SettledKinds,
         events' = Append(events, CallEvent(kind, next))
  PROVE  /\ Announced' = Announced
         /\ Settled' = Append(Settled, CallEvent(kind, next))
<1>1. events \in Seq(Event) /\ turn \in Nat /\ next \in Nat
  BY LimitAssumption, LenProperties DEF TypeOK
<1>2. kind \in CallKinds /\ kind # "ToolCallStarted"
  BY DEF CallKinds, SettledKinds
<1> QED
  BY <1>1, <1>2, CallLogs DEF Announced, Settled, SettledKinds

LEMMA RefuseLogs ==
  ASSUME TypeOK, RefuseCall
  PROVE  /\ Announced' = Append(Announced, CallEvent("ToolCallStarted", next))
         /\ Settled' = Append(Settled, CallEvent("ToolCallFailed", next))
<1>1. /\ events \in Seq(Event) /\ turn \in Nat /\ next \in Nat
      /\ "ToolCallStarted" \in CallKinds /\ "ToolCallFailed" \in CallKinds
  BY LimitAssumption, LenProperties DEF TypeOK, CallKinds
<1> DEFINE start == CallEvent("ToolCallStarted", next)
           fail == CallEvent("ToolCallFailed", next)
<1>2. Append(events, start) \in Seq(Event) /\ start \in Event /\ fail \in Event
  BY <1>1, CallLogs, EventType DEF LoopEvent
<1>3. events' = events \o <<start, fail>>
  BY DEF RefuseCall
<1> HIDE DEF start, fail
<1>4. events' = Append(Append(events, start), fail)
  <2>1. Append(events, start) = events \o <<start>>
    BY <1>1, <1>2, AppendIsConcat
  <2>2. Append(Append(events, start), fail) = Append(events, start) \o <<fail>>
    BY <1>2, AppendIsConcat
  <2>3. (events \o <<start>>) \o <<fail>> = events \o (<<start>> \o <<fail>>)
    <3>1. <<start>> \in Seq(Event) /\ <<fail>> \in Seq(Event)
      BY <1>2
    <3> QED
      BY <1>1, <3>1, ConcatAssociative
  <2>4. <<start>> \o <<fail>> = <<start, fail>>
    <3>1. <<start>> \in Seq(Event) /\ <<fail>> \in Seq(Event) /\ <<start, fail>> \in Seq(Event)
      BY <1>2
    <3>2. <<start, fail>> = Append(<<start>>, fail)
      OBVIOUS
    <3> QED
      BY <1>2, <3>1, <3>2, AppendIsConcat
  <2> QED
    BY <1>3, <2>1, <2>2, <2>3, <2>4
<1>5. /\ OfKinds(Append(events, start), {"ToolCallStarted"}) = Append(Announced, start)
      /\ OfKinds(Append(events, start), SettledKinds) = Settled
  BY <1>1, CallLogs DEF Announced, Settled, SettledKinds, start
<1>6. /\ OfKinds(Append(Append(events, start), fail), {"ToolCallStarted"})
           = OfKinds(Append(events, start), {"ToolCallStarted"})
      /\ OfKinds(Append(Append(events, start), fail), SettledKinds)
           = Append(OfKinds(Append(events, start), SettledKinds), fail)
  <2> DEFINE log == Append(events, start)
  <2>1. log \in Seq(Event)
    BY <1>2
  <2> HIDE DEF log
  <2>2. /\ OfKinds(Append(log, fail), {"ToolCallStarted"}) = OfKinds(log, {"ToolCallStarted"})
        /\ OfKinds(Append(log, fail), SettledKinds) = Append(OfKinds(log, SettledKinds), fail)
    BY <1>1, <2>1, CallLogs DEF fail
  <2> QED
    BY <2>2 DEF log
<1> QED
  BY <1>4, <1>5, <1>6 DEF Announced, Settled, SettledKinds, start, fail

--------------------------------------------------------------------------------
(* The transcript and the answers.                                         *)

Settles == pc \in {"Tools", "Host"}

\* There is a response for every turn so far; while the calls of an answer are being
\* settled they are the last ones owed, and the cursor stands at the first of them
\* that is not settled; otherwise all that is owed is settled.  What is announced is
\* one ahead while the host has a call.
InStep ==
  /\ pc # "Done" => Len(Responses) = turn + (IF Settles THEN 1 ELSE 0)
  /\ Settles =>
       /\ Len(calls) <= Len(OwedCalls)
       /\ Len(Settled) = (Len(OwedCalls) - Len(calls)) + (next - 1)
       /\ \A j \in 1 .. Len(calls) :
            OwedCalls[(Len(OwedCalls) - Len(calls)) + j]
              = [call |-> <<turn, j>>, tool |-> calls[j].tool]
  /\ ~Settles => Len(Settled) = Len(OwedCalls)
  /\ Len(Announced) = Len(Settled) + (IF pc = "Host" THEN 1 ELSE 0)
  /\ Len(ResultEntries) = Len(Settled)
  /\ \A i \in 1 .. Len(Announced) : Announced[i].call = OwedCalls[i].call
  /\ \A i \in 1 .. Len(Settled) :
       /\ Settled[i].call = OwedCalls[i].call
       /\ ResultEntries[i].tool = OwedCalls[i].tool
       /\ Settled[i].kind = "ToolCallFailed" => ResultEntries[i].isError

LEMMA InitLogs ==
  ASSUME Init
  PROVE  /\ Responses = <<>> /\ ResultEntries = <<>> /\ OwedCalls = <<>>
         /\ Announced = <<>> /\ Settled = <<>>
<1>1. entries = <<>> /\ events = <<[kind |-> "RunStarted", turn |-> 0]>>
  BY DEF Init
<1>2. Responses = <<>> /\ ResultEntries = <<>>
  BY <1>1, OfKindsOfNothing DEF Responses, ResultEntries
<1>3. OwedCalls = <<>>
  BY <1>2, OwedOfNothing DEF OwedCalls
<1>4. ASSUME NEW kinds, "RunStarted" \notin kinds
      PROVE  OfKinds(events, kinds) = <<>>
  <2> DEFINE first == [kind |-> "RunStarted", turn |-> 0]
  <2>1. first \in Event /\ first.kind = "RunStarted"
    BY DEF Event
  <2>2. events = Append(<<>>, first) /\ <<>> \in Seq(Event)
    BY <1>1, EmptySeq
  <2> DEFINE empty == <<>>
  <2> HIDE DEF first, empty
  <2>3. empty \in Seq(Event)
    BY <2>2 DEF empty
  <2>4. OfKinds(Append(empty, first), kinds)
          = IF first.kind \in kinds THEN Append(OfKinds(empty, kinds), first) ELSE OfKinds(empty, kinds)
    BY <2>1, <2>3, OfKindsGrows
  <2>5. OfKinds(Append(empty, first), kinds) = OfKinds(empty, kinds)
    BY <1>4, <2>1, <2>4
  <2> QED
    BY <2>2, <2>5, OfKindsOfNothing DEF empty
<1>5. Announced = <<>> /\ Settled = <<>>
  BY <1>4 DEF Announced, Settled
<1> QED
  BY <1>2, <1>3, <1>5

LEMMA InitInStep == Init => InStep
<1> SUFFICES ASSUME Init PROVE InStep
  OBVIOUS
<1>1. /\ Len(Responses) = 0 /\ Len(ResultEntries) = 0 /\ Len(OwedCalls) = 0
      /\ Len(Announced) = 0 /\ Len(Settled) = 0
  BY InitLogs
<1>2. pc = "Listing" /\ turn = 0
  BY DEF Init
<1> QED
  BY <1>1, <1>2 DEF InStep, Settles

\* A call that is announced or settled is the next one owed.
LEMMA NextOwed ==
  ASSUME TypeOK, InStep, Settles, next \in DOMAIN calls
  PROVE  /\ Len(Settled) + 1 \in 1 .. Len(OwedCalls)
         /\ OwedCalls[Len(Settled) + 1].call = <<turn, next>>
         /\ OwedCalls[Len(Settled) + 1].tool = calls[next].tool
<1>1. /\ calls \in Seq(Requests) /\ Len(calls) \in Nat /\ next \in 1 .. Len(calls)
      /\ Len(OwedCalls) \in Nat /\ Len(Settled) \in Nat
  BY LogTypes, LenProperties DEF TypeOK
<1>2. /\ Len(calls) <= Len(OwedCalls)
      /\ Len(Settled) = (Len(OwedCalls) - Len(calls)) + (next - 1)
      /\ OwedCalls[(Len(OwedCalls) - Len(calls)) + next]
           = [call |-> <<turn, next>>, tool |-> calls[next].tool]
  BY <1>1 DEF InStep
<1>3. (Len(OwedCalls) - Len(calls)) + next = Len(Settled) + 1
  BY <1>1, <1>2
<1> QED
  BY <1>1, <1>2, <1>3

\* Settling the next call, whether it was announced before or is announced with it.
LEMMA SettleInStep ==
  ASSUME TypeOK, InStep, Settles, next \in DOMAIN calls, turn \in Nat,
         Announced' = (IF pc = "Host" THEN Announced
                       ELSE Append(Announced, CallEvent("ToolCallStarted", next))),
         NEW kind \in SettledKinds, Settled' = Append(Settled, CallEvent(kind, next)),
         NEW content, NEW isError, kind = "ToolCallFailed" => isError,
         ResultEntry(next, content, isError) \in Result,
         ResultEntries' = Append(ResultEntries, ResultEntry(next, content, isError)),
         UNCHANGED <<Responses, OwedCalls, calls, turn>>, pc' = "Tools", next' = next + 1
  PROVE  InStep'
<1> DEFINE n == Len(Settled)
           settled == CallEvent(kind, next)
           started == CallEvent("ToolCallStarted", next)
           result == ResultEntry(next, content, isError)
<1>1. /\ n + 1 \in 1 .. Len(OwedCalls) /\ OwedCalls[n + 1].call = <<turn, next>>
      /\ OwedCalls[n + 1].tool = calls[next].tool
  BY NextOwed
<1>2. /\ n \in Nat /\ Len(OwedCalls) \in Nat /\ Len(calls) \in Nat /\ next \in 1 .. Len(calls)
      /\ Len(Announced) \in Nat /\ Len(ResultEntries) = n
      /\ Len(Announced) = n + (IF pc = "Host" THEN 1 ELSE 0)
  BY LogTypes, LenProperties DEF TypeOK, InStep
<1>3. settled.call = <<turn, next>> /\ settled.kind = kind /\ started.call = <<turn, next>>
  BY DEF CallEvent
<1>4. result.tool = calls[next].tool /\ result.isError = isError
  BY DEF ResultEntry
<1>5. settled \in Settling /\ started \in Start
  <2>1. next \in Nat
    BY <1>2
  <2> QED
    BY <2>1, EventType DEF CallEvent, LoopEvent, Settling, Start, OfSorts, SettledKinds
<1> HIDE DEF settled, started, result
<1>6. /\ Len(Settled') = n + 1 /\ Settled'[n + 1] = settled
      /\ \A i \in 1 .. n : Settled'[i] = Settled[i]
  BY <1>5, LogTypes, AppendProperties DEF settled
<1>7. /\ Len(ResultEntries') = n + 1 /\ ResultEntries'[n + 1] = result
      /\ \A i \in 1 .. n : ResultEntries'[i] = ResultEntries[i]
  BY <1>2, LogTypes, AppendProperties DEF result
<1>8. /\ Len(Announced') = n + 1
      /\ \A i \in 1 .. n + 1 : Announced'[i].call = OwedCalls[i].call
  <2>1. CASE pc = "Host"
    <3>1. Announced' = Announced /\ Len(Announced) = n + 1
      BY <1>2, <2>1
    <3>2. \A i \in 1 .. Len(Announced) : Announced[i].call = OwedCalls[i].call
      BY DEF InStep
    <3> QED
      BY <3>1, <3>2
  <2>2. CASE pc # "Host"
    <3>0. Announced \in Seq(Start) /\ Announced' = Append(Announced, started) /\ Len(Announced) = n
      BY <1>2, <2>2, LogTypes DEF started
    <3>1. /\ Len(Announced') = n + 1 /\ Announced'[n + 1] = started
          /\ \A i \in 1 .. n : Announced'[i] = Announced[i]
      BY <1>5, <3>0, AppendProperties
    <3>2. \A i \in 1 .. n : Announced[i].call = OwedCalls[i].call
      BY <3>0 DEF InStep
    <3> HIDE DEF n
    <3>3. ASSUME NEW i \in 1 .. n + 1 PROVE Announced'[i].call = OwedCalls[i].call
      <4>1. CASE i = n + 1
        BY <1>1, <1>3, <3>1, <4>1
      <4>2. CASE i # n + 1
        <5>1. i \in 1 .. n
          BY <1>2, <4>2
        <5> QED
          BY <3>1, <3>2, <5>1
      <4> QED
        BY <4>1, <4>2
    <3> QED
      BY <3>1, <3>3
  <2> QED
    BY <2>1, <2>2
<1>9. ASSUME NEW i \in 1 .. n + 1
      PROVE  /\ Settled'[i].call = OwedCalls[i].call
             /\ ResultEntries'[i].tool = OwedCalls[i].tool
             /\ Settled'[i].kind = "ToolCallFailed" => ResultEntries'[i].isError
  <2>1. CASE i = n + 1
    BY <1>1, <1>3, <1>4, <1>6, <1>7, <2>1
  <2>2. CASE i # n + 1
    <3>1. i \in 1 .. n
      BY <1>2, <2>2
    <3> QED
      BY <1>6, <1>7, <3>1 DEF InStep
  <2> QED
    BY <2>1, <2>2
<1>10. Settles' /\ pc' # "Host" /\ pc # "Done" /\ Settles
  BY DEF Settles
<1>11. /\ OwedCalls' = OwedCalls /\ calls' = calls /\ turn' = turn /\ Responses' = Responses
       /\ next' = next + 1
  OBVIOUS
<1>12. /\ n = (Len(OwedCalls) - Len(calls)) + (next - 1)
       /\ Len(calls) <= Len(OwedCalls) /\ Len(Responses) = turn + 1
       /\ \A j \in 1 .. Len(calls) :
            OwedCalls[(Len(OwedCalls) - Len(calls)) + j]
              = [call |-> <<turn, j>>, tool |-> calls[j].tool]
  BY <1>10 DEF InStep
<1> HIDE DEF n
<1>13. n + 1 = (Len(OwedCalls') - Len(calls')) + (next' - 1)
  <2>1. PICK a, b : a = Len(OwedCalls) /\ b = Len(calls)
    OBVIOUS
  <2>2. a \in Nat /\ b \in Nat /\ next \in Nat /\ n = (a - b) + (next - 1)
    <3>1. a \in Nat /\ b \in Nat /\ next \in 1 .. b
      BY <1>2, <2>1
    <3>2. n = (a - b) + (next - 1)
      BY <1>12, <2>1
    <3> QED
      BY ONLY <3>1, <3>2
  <2>3. n + 1 = (a - b) + ((next + 1) - 1)
    BY ONLY <2>2
  <2> QED
    BY <1>11, <2>1, <2>3
<1>14. /\ Len(calls') <= Len(OwedCalls') /\ Len(Responses') = turn' + 1
       /\ \A j \in 1 .. Len(calls') :
            OwedCalls'[(Len(OwedCalls') - Len(calls')) + j]
              = [call |-> <<turn', j>>, tool |-> calls'[j].tool]
  BY <1>11, <1>12
<1>15. /\ \A i \in 1 .. n + 1 : Announced'[i].call = OwedCalls'[i].call
       /\ \A i \in 1 .. n + 1 :
            /\ Settled'[i].call = OwedCalls'[i].call
            /\ ResultEntries'[i].tool = OwedCalls'[i].tool
            /\ Settled'[i].kind = "ToolCallFailed" => ResultEntries'[i].isError
  BY <1>8, <1>9, <1>11
<1>16. /\ Len(Settled') = (Len(OwedCalls') - Len(calls')) + (next' - 1)
       /\ Len(Settled') = n + 1 /\ Len(Announced') = n + 1 /\ Len(ResultEntries') = n + 1
  BY <1>6, <1>7, <1>8, <1>13
<1>17. n + 1 = (n + 1) + (IF pc' = "Host" THEN 1 ELSE 0)
  BY <1>2, <1>10
<1> QED
  BY <1>10, <1>14, <1>15, <1>16, <1>17 DEF InStep

\* A step that is about no call and no answer leaves the logs alone.
LEMMA IdleInStep ==
  ASSUME InStep, NoCalls, UNCHANGED <<Responses, ResultEntries, OwedCalls>>, ~Settles, ~Settles',
         pc' # "Done" => pc # "Done" /\ turn' = turn
  PROVE  InStep'
<1>1. pc # "Host" /\ pc' # "Host"
  BY DEF Settles
<1> QED
  BY <1>1 DEF InStep, NoCalls

\* An answer whose calls are to be settled: they are the last ones owed.
LEMMA AnswerInStep ==
  ASSUME TypeOK, InStep, NEW r \in Answers, CallsAnswer(r), NoCalls
  PROVE  InStep'
<1>1. RecordAnswer(r) /\ ~IsFinal(r) /\ pc' = "Tools" /\ pc = "Model"
  BY DEF CallsAnswer, RecordAnswer
<1>2. calls' = r.calls /\ next' = 1 /\ turn' = turn /\ turn \in Nat
  BY <1>1, LimitAssumption DEF RecordAnswer, TypeOK
<1> DEFINE R == ResponseEntry(r)
           asked == AskedBy(R, Len(Responses))
<1>3. /\ R \in Response /\ R.calls = r.calls
      /\ Responses' = Append(Responses, R) /\ ResultEntries' = ResultEntries
      /\ OwedCalls' = OwedCalls \o asked
  BY <1>1, AnswerLogs DEF ResponseEntry
<1>4. Len(Responses) = turn /\ Responses \in Seq(Response) /\ Len(Settled) = Len(OwedCalls)
  <2>1. ~Settles /\ pc # "Done"
    BY <1>1 DEF Settles
  <2>2. Len(Responses) = turn + 0 /\ Len(Settled) = Len(OwedCalls)
    BY <2>1 DEF InStep
  <2> QED
    BY <1>2, <2>2, LogTypes
<1>5. /\ asked \in Seq(OwedCall) /\ Len(asked) = Len(r.calls)
      /\ \A j \in 1 .. Len(r.calls) : asked[j] = [call |-> <<turn, j>>, tool |-> r.calls[j].tool]
  <2> HIDE DEF R
  <2> QED
    BY <1>2, <1>3, <1>4, AskedType
<1> HIDE DEF asked, R
<1>6. OwedCalls \in Seq(OwedCall) /\ Len(OwedCalls) \in Nat /\ Len(r.calls) \in Nat
  BY <1>5, LogTypes, AnswerType
<1>7. /\ Len(OwedCalls') = Len(OwedCalls) + Len(r.calls)
      /\ \A i \in 1 .. Len(OwedCalls) : OwedCalls'[i] = OwedCalls[i]
      /\ \A j \in 1 .. Len(r.calls) : OwedCalls'[Len(OwedCalls) + j] = asked[j]
  <2>1. /\ Len(OwedCalls') = Len(OwedCalls) + Len(r.calls)
        /\ \A i \in 1 .. Len(OwedCalls) + Len(r.calls) : OwedCalls'[i] =
             IF i <= Len(OwedCalls) THEN OwedCalls[i] ELSE asked[i - Len(OwedCalls)]
    <3>1. /\ Len(OwedCalls \o asked) = Len(OwedCalls) + Len(asked)
          /\ \A i \in 1 .. Len(OwedCalls) + Len(asked) : (OwedCalls \o asked)[i] =
               IF i <= Len(OwedCalls) THEN OwedCalls[i] ELSE asked[i - Len(OwedCalls)]
      <4>1. OwedCalls \in Seq(OwedCall) /\ asked \in Seq(OwedCall)
        BY <1>5, <1>6
      <4> QED
        BY ONLY <4>1, ConcatProperties
    <3>2. Len(asked) = Len(r.calls) /\ OwedCalls' = OwedCalls \o asked
      BY <1>3, <1>5
    <3> QED
      BY <3>1, <3>2
  <2>2. ASSUME NEW j \in 1 .. Len(r.calls)
        PROVE  OwedCalls'[Len(OwedCalls) + j] = asked[j]
    <3>1. /\ Len(OwedCalls) + j \in 1 .. Len(OwedCalls) + Len(r.calls)
          /\ ~(Len(OwedCalls) + j <= Len(OwedCalls))
          /\ (Len(OwedCalls) + j) - Len(OwedCalls) = j
      BY <1>6
    <3> QED
      BY <2>1, <3>1
  <2> QED
    BY <1>6, <2>1, <2>2
<1>8. (Len(OwedCalls') - Len(calls')) = Len(OwedCalls) /\ Len(calls') <= Len(OwedCalls')
  BY <1>2, <1>6, <1>7
<1>9. Len(Responses') = turn' + 1
  BY <1>2, <1>3, <1>4, AppendProperties
<1>10. /\ Announced' = Announced /\ Settled' = Settled
       /\ Len(Announced) = Len(OwedCalls) /\ Len(ResultEntries) = Len(OwedCalls)
       /\ \A i \in 1 .. Len(OwedCalls) :
            /\ Announced[i].call = OwedCalls[i].call
            /\ Settled[i].call = OwedCalls[i].call
            /\ ResultEntries[i].tool = OwedCalls[i].tool
            /\ Settled[i].kind = "ToolCallFailed" => ResultEntries[i].isError
  <2>1. Len(Announced) = Len(OwedCalls) /\ Len(ResultEntries) = Len(OwedCalls)
    BY <1>1, <1>4, <1>6 DEF InStep
  <2> QED
    BY <1>4, <2>1 DEF InStep, NoCalls
<1>11. Settles' /\ pc' # "Host" /\ pc' # "Done"
  BY <1>1 DEF Settles
<1>12. Len(Settled') = (Len(OwedCalls') - Len(calls')) + (next' - 1)
  BY <1>2, <1>4, <1>6, <1>8, <1>10
<1>13. /\ Len(Settled') = Len(OwedCalls) /\ Len(Announced') = Len(OwedCalls)
       /\ Len(ResultEntries') = Len(OwedCalls)
       /\ Len(OwedCalls) = Len(OwedCalls) + (IF pc' = "Host" THEN 1 ELSE 0)
  BY <1>3, <1>4, <1>6, <1>10, <1>11
<1>14. \A i \in 1 .. Len(OwedCalls) :
            /\ Announced'[i].call = OwedCalls'[i].call
            /\ Settled'[i].call = OwedCalls'[i].call
            /\ ResultEntries'[i].tool = OwedCalls'[i].tool
            /\ Settled'[i].kind = "ToolCallFailed" => ResultEntries'[i].isError
  BY <1>3, <1>7, <1>10
<1>15. \A j \in 1 .. Len(calls') :
         OwedCalls'[(Len(OwedCalls') - Len(calls')) + j]
           = [call |-> <<turn', j>>, tool |-> calls'[j].tool]
  BY <1>2, <1>5, <1>7, <1>8
<1> QED
  BY <1>8, <1>9, <1>11, <1>12, <1>13, <1>14, <1>15 DEF InStep

LEMMA StepInStep == TypeOK /\ InStep /\ [Next]_vars => InStep'
<1> SUFFICES ASSUME TypeOK, InStep, [Next]_vars PROVE InStep'
  OBVIOUS
<1>0. turn \in Nat /\ calls \in Seq(Requests) /\ next \in 1 .. Len(calls) + 1
  BY LimitAssumption DEF TypeOK
<1>1. CASE RefuseCall
  <2>1. /\ pc = "Tools" /\ next \in DOMAIN calls /\ Verdict(next) \in Contents
        /\ entries' = Append(entries, ResultEntry(next, Verdict(next), TRUE))
        /\ pc' = "Tools" /\ next' = next + 1 /\ calls' = calls /\ turn' = turn
    BY <1>1 DEF RefuseCall, Verdict, Contents, Refusals
  <2>2. /\ Announced' = Append(Announced, CallEvent("ToolCallStarted", next))
        /\ Settled' = Append(Settled, CallEvent("ToolCallFailed", next))
    BY <1>1, RefuseLogs
  <2>3. /\ ResultEntry(next, Verdict(next), TRUE) \in Result
        /\ ResultEntries' = Append(ResultEntries, ResultEntry(next, Verdict(next), TRUE))
        /\ Responses' = Responses /\ OwedCalls' = OwedCalls
    BY <2>1, ResultLogs
  <2>4. Settles /\ "ToolCallFailed" \in SettledKinds
    BY <2>1 DEF Settles, SettledKinds
  <2>5. UNCHANGED <<Responses, OwedCalls, calls, turn>>
        /\ Announced' = (IF pc = "Host" THEN Announced
                         ELSE Append(Announced, CallEvent("ToolCallStarted", next)))
    BY <2>1, <2>2, <2>3
  <2> QED
    BY <1>0, <2>1, <2>2, <2>3, <2>4, <2>5, SettleInStep
<1>2. CASE CallTool
  <2>1. /\ pc = "Tools" /\ pc' = "Host" /\ next \in DOMAIN calls
        /\ events' = Append(events, CallEvent("ToolCallStarted", next))
        /\ UNCHANGED entries /\ calls' = calls /\ next' = next /\ turn' = turn
    BY <1>2 DEF CallTool, answer
  <2>2. Responses' = Responses /\ ResultEntries' = ResultEntries /\ OwedCalls' = OwedCalls
    BY <2>1, NoEntryLogs
  <2> DEFINE started == CallEvent("ToolCallStarted", next)
             n == Len(Settled)
  <2>3. Announced' = Append(Announced, started) /\ Settled' = Settled
    BY <2>1, StartLogs
  <2>4. Settles /\ Settles' /\ pc' # "Done" /\ pc # "Done"
    BY <2>1 DEF Settles
  <2>5. n + 1 \in 1 .. Len(OwedCalls) /\ OwedCalls[n + 1].call = <<turn, next>>
    BY <2>1, <2>4, NextOwed
  <2>6. started.call = <<turn, next>> /\ started \in Start
    <3>1. next \in Nat
      BY <1>0
    <3> QED
      BY <1>0, <3>1, EventType DEF CallEvent, LoopEvent, Start, OfSorts
  <2>7. Announced \in Seq(Start) /\ Len(Announced) = n /\ n \in Nat
    BY <2>1, LogTypes DEF InStep
  <2> HIDE DEF started
  <2>8. /\ Len(Announced') = n + 1 /\ Announced'[n + 1] = started
        /\ \A i \in 1 .. n : Announced'[i] = Announced[i]
    BY <2>3, <2>6, <2>7, AppendProperties
  <2>9. \A i \in 1 .. n : Announced[i].call = OwedCalls[i].call
    BY <2>7 DEF InStep
  <2>10. ASSUME NEW i \in 1 .. n + 1 PROVE Announced'[i].call = OwedCalls[i].call
    <3>1. CASE i = n + 1
      BY <2>5, <2>6, <2>8, <3>1
    <3>2. CASE i # n + 1
      <4>1. i \in 1 .. n
        BY <2>7, <3>2
      <4> QED
        BY <2>8, <2>9, <4>1
    <3> QED
      BY <3>1, <3>2
  <2>11. n + 1 = n + (IF pc' = "Host" THEN 1 ELSE 0)
    BY <2>1
  <2> QED
    BY <2>1, <2>2, <2>3, <2>4, <2>8, <2>10, <2>11 DEF InStep
<1>3. CASE HostStep
  <2>1. PICK answered \in HostOutcomes, size \in Sizes : HostAnswers(answered, size)
    BY <1>3 DEF HostStep
  <2> DEFINE kind == IF ReportsFailure(answered) THEN "ToolCallFailed" ELSE "ToolCallFinished"
             isError == RendersAsError(answered)
  <2>2. /\ pc = "Host" /\ next \in DOMAIN calls /\ answered \in Contents
        /\ events' = Append(events, CallEvent(kind, next))
        /\ entries' = Append(entries, ResultEntry(next, answered, isError))
        /\ pc' = "Tools" /\ next' = next + 1 /\ calls' = calls /\ turn' = turn
    BY <2>1, AnswerAssumption DEF HostAnswers, TypeOK, Contents
  <2>3. kind \in SettledKinds /\ isError \in BOOLEAN /\ (kind = "ToolCallFailed" => isError)
    BY DEF SettledKinds, ReportsFailure, RendersAsError
  <2> HIDE DEF kind, isError
  <2>4. Announced' = Announced /\ Settled' = Append(Settled, CallEvent(kind, next))
    BY <2>2, <2>3, SettleLogs
  <2>5. /\ ResultEntry(next, answered, isError) \in Result
        /\ ResultEntries' = Append(ResultEntries, ResultEntry(next, answered, isError))
        /\ Responses' = Responses /\ OwedCalls' = OwedCalls
    BY <2>2, <2>3, ResultLogs
  <2>6. /\ Settles
        /\ UNCHANGED <<Responses, OwedCalls, calls, turn>>
        /\ Announced' = (IF pc = "Host" THEN Announced
                         ELSE Append(Announced, CallEvent("ToolCallStarted", next)))
    BY <2>2, <2>4, <2>5 DEF Settles
  <2> QED
    BY <1>0, <2>2, <2>3, <2>4, <2>5, <2>6, SettleInStep
<1>4. CASE ~RefuseCall /\ ~CallTool /\ ~HostStep
  <2>0. NoCalls
    BY <1>4, StepNoCalls
  <2>1. ASSUME NEW r \in Answers, CallsAnswer(r) PROVE InStep'
    BY <2>0, <2>1, AnswerInStep
  <2>2. ASSUME NEW r \in Answers, FinalAnswer(r) PROVE InStep'
    <3>1. RecordAnswer(r) /\ IsFinal(r) /\ pc = "Model" /\ pc' = "Done"
      BY <2>2 DEF FinalAnswer, RecordAnswer, End
    <3>2. ResultEntries' = ResultEntries /\ OwedCalls' = OwedCalls
      BY <3>1, AnswerLogs
    <3>3. ~Settles /\ ~Settles' /\ pc # "Host" /\ pc' # "Host"
      BY <3>1 DEF Settles
    <3> QED
      BY <2>0, <3>1, <3>2, <3>3 DEF InStep, NoCalls
  <2>3. CASE CloseTurn
    <3>1. /\ pc = "Tools" /\ pc' = "Turn" /\ next = Len(calls) + 1 /\ turn' = turn + 1
          /\ UNCHANGED entries
      BY <2>3 DEF CloseTurn, AllSettled
    <3>2. Responses' = Responses /\ ResultEntries' = ResultEntries /\ OwedCalls' = OwedCalls
      BY <3>1, NoEntryLogs
    <3>3. Settles /\ ~Settles' /\ pc # "Host" /\ pc' # "Host" /\ pc # "Done" /\ pc' # "Done"
      BY <3>1 DEF Settles
    <3>4. Len(Settled) = Len(OwedCalls)
      <4>1. Len(OwedCalls) \in Nat /\ Len(calls) \in Nat
        BY <1>0, LogTypes
      <4>2. Len(Settled) = (Len(OwedCalls) - Len(calls)) + (next - 1)
        BY <3>3 DEF InStep
      <4> QED
        BY <3>1, <4>1, <4>2
    <3>5. Len(Responses') = turn' + 0
      <4>1. Len(Responses) = turn + 1
        BY <3>3 DEF InStep
      <4> QED
        BY <1>0, <3>1, <3>2, <4>1
    <3> QED
      BY <2>0, <3>2, <3>3, <3>4, <3>5 DEF InStep, NoCalls
  <2>4. CASE ListTools \/ ListFails \/ ProviderFails \/ Ask \/ DoesNotFit \/ TurnLimit
    <3>1. /\ pc \in {"Listing", "Model", "Turn"} /\ pc' \in {"Turn", "Model", "Done"}
          /\ UNCHANGED entries /\ turn' = turn
      BY <2>4 DEF ListTools, ListFails, ProviderFails, Ask, DoesNotFit, TurnLimit, End
    <3>2. UNCHANGED <<Responses, ResultEntries, OwedCalls>>
      BY <3>1, NoEntryLogs
    <3>3. ~Settles /\ ~Settles' /\ pc # "Done"
      BY <3>1 DEF Settles
    <3> QED
      BY <2>0, <3>1, <3>2, <3>3, IdleInStep
  <2>5. CASE Over \/ UNCHANGED vars
    <3>1. UNCHANGED vars
      BY <2>5 DEF Over
    <3>2. UNCHANGED <<pc, turn, calls, next, entries>>
      BY <3>1 DEF vars
    <3>3. Responses' = Responses /\ ResultEntries' = ResultEntries /\ OwedCalls' = OwedCalls
      BY <3>2, NoEntryLogs
    <3>4. Settles' = Settles
      BY <3>2 DEF Settles
    <3> QED
      BY <2>0, <3>2, <3>3, <3>4 DEF InStep, NoCalls
  <2> QED
    BY <1>4, <2>1, <2>2, <2>3, <2>4, <2>5 DEF Next, Environment, Loop, HostStep
<1> QED
  BY <1>1, <1>2, <1>3, <1>4

LEMMA RunInStep == Spec => [](TypeOK /\ InStep)
<1>1. Init => TypeOK /\ InStep
  BY InitTypeOK, InitInStep
<1>2. TypeOK /\ InStep /\ [Next]_vars => (TypeOK /\ InStep)'
  BY StepTypeOK, StepInStep
<1> QED
  BY <1>1, <1>2, PTL DEF Spec

LEMMA CallsAreAPrefix ==
  ASSUME NEW S, NEW T, NEW s \in Seq(S), NEW t \in Seq(T), Len(s) <= Len(t),
         \A i \in 1 .. Len(s) : s[i].call = t[i].call
  PROVE  IsPrefix(CallsOf(s), CallsOf(t))
<1> DEFINE a == CallsOf(s)
           b == CallsOf(t)
           n == Len(s)
<1>1. /\ DOMAIN s = 1 .. n /\ n \in Nat /\ DOMAIN t = 1 .. Len(t) /\ Len(t) \in Nat
  OBVIOUS
<1>2. a = [i \in 1 .. n |-> s[i].call] /\ b = [i \in 1 .. Len(t) |-> t[i].call]
  BY <1>1 DEF CallsOf
<1> DEFINE V == {s[i].call : i \in 1 .. n} \cup {t[i].call : i \in 1 .. Len(t)}
<1>3. a \in Seq(V) /\ b \in Seq(V) /\ Len(a) = n /\ Len(b) = Len(t)
  <2>1. /\ \A i \in 1 .. n : s[i].call \in V
        /\ \A i \in 1 .. Len(t) : t[i].call \in V
    OBVIOUS
  <2> HIDE DEF V, a, b, n
  <2>2. a \in [1 .. n -> V] /\ b \in [1 .. Len(t) -> V]
    BY <1>2, <2>1
  <2> QED
    BY <1>1, <2>2
<1>4. \A i \in 1 .. n : a[i] = b[i] /\ a[i] \in V /\ b[i] \in V
  <2>1. \A i \in 1 .. n : i \in 1 .. Len(t)
    BY <1>1
  <2> QED
    BY <1>2, <2>1
<1> HIDE DEF a, b, V, n
<1>5. /\ SubSeq(a, 1, n) \in Seq(V) /\ Len(SubSeq(a, 1, n)) = n
      /\ \A i \in 1 .. n : SubSeq(a, 1, n)[i] = a[i]
  BY <1>1, <1>3, <1>4
<1>6. /\ SubSeq(b, 1, n) \in Seq(V) /\ Len(SubSeq(b, 1, n)) = n
      /\ \A i \in 1 .. n : SubSeq(b, 1, n)[i] = b[i]
  BY <1>1, <1>3, <1>4
<1>7. SubSeq(a, 1, n) = SubSeq(b, 1, n)
  BY <1>4, <1>5, <1>6, SeqEqual
<1> QED
  BY <1>3, <1>7 DEF IsPrefix, a, b, n

\* Every owed call is announced, then settled, in the order asked for and one at a
\* time, and none is left out, the refused ones included: for any answers, catalog
\* and limits (the dispatch loop of Agent::run).
THEOREM CallsAreShownInOrder == Spec => []TranscriptFollowsAnswers
<1>1. ASSUME TypeOK, InStep PROVE TranscriptFollowsAnswers
  <2>1. /\ Announced \in Seq(Start) /\ Settled \in Seq(Settling) /\ OwedCalls \in Seq(OwedCall)
        /\ Len(Announced) \in Nat /\ Len(Settled) \in Nat /\ Len(OwedCalls) \in Nat
    BY <1>1, LogTypes
  <2>2. Len(Announced) = Len(Settled) + (IF pc = "Host" THEN 1 ELSE 0)
    BY <1>1 DEF InStep
  <2>3. Len(Announced) <= Len(OwedCalls)
    <3>1. CASE Settles
      <4>1. /\ Len(calls) \in Nat /\ next \in 1 .. Len(calls) + 1
            /\ pc = "Host" => next \in 1 .. Len(calls)
        BY <1>1, LenProperties DEF TypeOK
      <4>2. Len(Settled) = (Len(OwedCalls) - Len(calls)) + (next - 1)
        BY <1>1, <3>1 DEF InStep
      <4> QED
        BY <2>1, <2>2, <4>1, <4>2
    <3>2. CASE ~Settles
      BY <1>1, <2>1, <2>2, <3>2 DEF InStep, Settles
    <3> QED
      BY <3>1, <3>2
  <2>4. \A i \in 1 .. Len(Announced) : Announced[i].call = OwedCalls[i].call
    BY <1>1 DEF InStep
  <2>5. IsPrefix(CallsOf(Announced), CallsOf(OwedCalls))
    BY <2>1, <2>3, <2>4, CallsAreAPrefix
  <2>6. Len(Settled) <= Len(Announced)
        /\ \A i \in 1 .. Len(Settled) : Settled[i].call = Announced[i].call
    <3>1. Len(Settled) <= Len(Announced)
      BY <2>1, <2>2
    <3>2. \A i \in 1 .. Len(Settled) : i \in 1 .. Len(Announced)
      BY <2>1, <3>1
    <3>3. \A i \in 1 .. Len(Settled) : Settled[i].call = OwedCalls[i].call
      BY <1>1 DEF InStep
    <3> QED
      BY <2>4, <3>1, <3>2, <3>3
  <2>7. IsPrefix(CallsOf(Settled), CallsOf(Announced))
    BY <2>1, <2>6, CallsAreAPrefix
  <2>8. pc \in {"Turn", "Model", "Done"} => Len(Announced) = Len(OwedCalls)
    BY <1>1, <2>1, <2>2 DEF InStep, Settles
  <2>9. Len(Announced) - Len(Settled) = IF pc = "Host" THEN 1 ELSE 0
    BY <2>1, <2>2
  <2> QED
    BY <2>5, <2>7, <2>8, <2>9 DEF TranscriptFollowsAnswers
<1> QED
  BY <1>1, RunInStep, PTL

\* The i-th result of the journal is the i-th owed call's, whatever refusals came
\* between, and a call the transcript shows as failed is an error in the journal: a
\* reader may attribute results by position (journal.rs, ToolResult).
THEOREM ResultsAreInOrder == Spec => []ResultsAreAttributable
<1>1. ASSUME TypeOK, InStep PROVE ResultsAreAttributable
  <2>1. ResultEntries \in Seq(Result)
    BY <1>1, LogTypes
  <2>2. DOMAIN ResultEntries = 1 .. Len(Settled)
    BY <1>1, <2>1 DEF InStep
  <2> QED
    BY <1>1, <2>2 DEF InStep, ResultsAreAttributable
<1> QED
  BY <1>1, RunInStep, PTL

--------------------------------------------------------------------------------
(* The ledger.                                                             *)

Priced(log) == {i \in DOMAIN log : log[i].cost # NoCost}
Covered(log, cost) == {i \in Priced(log) : log[i].cost.currency = cost.currency}
Spent(log, cost) == [i \in Covered(log, cost) |-> log[i].cost.amount]

\* The totals of a log say what it cost in their currency, and how many of its answers
\* reported nothing.
AddsUp(log, sums) ==
  /\ sums.unmetered = Len(log) - Cardinality(Priced(log))
  /\ sums.cost = NoCost <=> Priced(log) = {}
  /\ Priced(log) # {} => sums.cost.amount = SumFunction(Spent(log, sums.cost))

LEMMA CountingCost ==
  ASSUME NEW sums \in Sums, NEW e \in Response
  PROVE  /\ e.cost = NoCost => Counting(sums, e).cost = sums.cost
                               /\ Counting(sums, e).unmetered = sums.unmetered + 1
         /\ e.cost # NoCost =>
              /\ Counting(sums, e).cost # NoCost
              /\ Counting(sums, e).unmetered = sums.unmetered
              /\ sums.cost = NoCost => Counting(sums, e).cost = e.cost
              /\ sums.cost # NoCost =>
                   /\ Counting(sums, e).cost.currency = sums.cost.currency
                   /\ Counting(sums, e).cost.amount =
                        IF e.cost.currency = sums.cost.currency
                        THEN sums.cost.amount + e.cost.amount ELSE sums.cost.amount
<1>1. sums.cost \in Money \cup {NoCost} /\ sums.unmetered \in Nat /\ e.cost \in Money \cup {NoCost}
  BY ResponseType DEF Sums
<1>2. Counting(sums, e).cost = AddCost(sums, e.cost)
      /\ Counting(sums, e).unmetered = Unmetered(sums, e.cost)
  BY DEF Counting
<1>3. NoCost \notin Money
  BY CostAssumption
<1>4. CASE e.cost = NoCost
  BY <1>1, <1>2, <1>4 DEF AddCost, Unmetered
<1>5. CASE e.cost # NoCost /\ sums.cost = NoCost
  BY <1>1, <1>2, <1>5 DEF AddCost, Unmetered
<1>6. CASE e.cost # NoCost /\ sums.cost # NoCost
  <2>1. e.cost \in Money /\ sums.cost \in Money
    BY <1>1, <1>6
  <2>2. AddCost(sums, e.cost) =
          IF e.cost.currency = sums.cost.currency
          THEN [currency |-> e.cost.currency, amount |-> sums.cost.amount + e.cost.amount]
          ELSE sums.cost
    BY <1>6 DEF AddCost, Mismatch
  <2>3. AddCost(sums, e.cost) \in Money
    BY <2>1, <2>2 DEF Money
  <2>4. Unmetered(sums, e.cost) = sums.unmetered
    BY <1>6 DEF Unmetered
  <2> QED
    BY <1>2, <1>3, <1>6, <2>2, <2>3, <2>4
<1> QED
  BY <1>4, <1>5, <1>6

\* What is spent in one more place is spent.
OneMore(f, g, U, y) ==
  /\ IsFiniteSet(U) /\ y \notin U
  /\ f \in [U -> Nat] /\ g \in [U \cup {y} -> Nat]
  /\ \A x \in U : g[x] = f[x]

LEMMA SpendsMore ==
  ASSUME NEW U, NEW y, NEW f, NEW g, OneMore(f, g, U, y)
  PROVE  SumFunction(g) = g[y] + SumFunction(f)
<1> DEFINE V == U \cup {y}
<1>1. IsFiniteSet(V) /\ y \in V /\ V \ {y} = U
  BY FS_AddElement DEF OneMore
<1> HIDE DEF V
<1>2. SumFunction(g) = g[y] + SumFunction(Restrict(g, V \ {y}))
  <2>1. g \in [V -> Nat]
    BY DEF V, OneMore
  <2> QED
    BY <1>1, <2>1, SumSplits
<1>3. Restrict(g, U) = f
  BY DEF Restrict, OneMore
<1> QED
  BY <1>1, <1>2, <1>3

LEMMA AddsUpMore ==
  ASSUME NEW log \in Seq(Response), NEW sums \in Sums, AddsUp(log, sums), NEW e \in Response
  PROVE  AddsUp(Append(log, e), Counting(sums, e))
<1> DEFINE n == Len(log)
           more == Append(log, e)
           after == Counting(sums, e)
           P == Priced(log)
<1>1. /\ n \in Nat /\ Len(more) = n + 1 /\ DOMAIN log = 1 .. n /\ DOMAIN more = 1 .. n + 1
      /\ more[n + 1] = e /\ \A i \in 1 .. n : more[i] = log[i] /\ log[i] \in Response
      /\ \A i \in 1 .. n + 1 : i \in 1 .. n \/ i = n + 1
  BY AppendProperties
<1>2. /\ IsFiniteSet(P) /\ P \subseteq 1 .. n /\ n + 1 \notin P /\ Cardinality(P) \in Nat
      /\ Cardinality(P \cup {n + 1}) = Cardinality(P) + 1
  <2>1. P \subseteq 1 .. n /\ n + 1 \notin P
    BY <1>1 DEF Priced
  <2>2. IsFiniteSet(1 .. n)
    BY <1>1, FS_Interval
  <2>3. IsFiniteSet(P)
    BY <2>1, <2>2, FS_Subset
  <2> QED
    BY <2>1, <2>3, FS_AddElement, FS_CardinalityType
<1>3. /\ sums.unmetered = n - Cardinality(P) /\ sums.unmetered \in Nat
      /\ (sums.cost = NoCost <=> P = {})
      /\ P # {} => sums.cost.amount = SumFunction(Spent(log, sums.cost))
  BY DEF AddsUp, Sums
<1>4. \A i \in P : log[i].cost \in Money /\ log[i].cost.amount \in Nat
  <2>1. \A i \in 1 .. n : log[i].cost \in Money \cup {NoCost}
    BY <1>1, ResponseType
  <2> QED
    BY <1>1, <2>1 DEF Priced, Money
<1> HIDE DEF more, after
<1>5. CASE e.cost = NoCost
  <2>1. Priced(more) = P
    BY <1>1, <1>5 DEF Priced
  <2>2. after.cost = sums.cost /\ after.unmetered = sums.unmetered + 1
    BY <1>5, CountingCost DEF after
  <2>3. Spent(more, after.cost) = Spent(log, sums.cost)
    <3>1. Covered(more, after.cost) = Covered(log, sums.cost)
      BY <1>1, <2>1, <2>2, <1>2 DEF Covered
    <3>2. \A i \in Covered(log, sums.cost) : more[i] = log[i]
      BY <1>1, <1>2 DEF Covered
    <3> QED
      BY <3>1, <3>2 DEF Spent
  <2>4. after.unmetered = Len(more) - Cardinality(Priced(more))
    BY <1>1, <1>2, <1>3, <2>1, <2>2
  <2> QED
    BY <1>3, <2>1, <2>2, <2>3, <2>4 DEF AddsUp, more, after
<1>6. CASE e.cost # NoCost
  <2>0. e.cost \in Money /\ e.cost.amount \in Nat
    BY <1>6, ResponseType DEF Money
  <2>1. Priced(more) = P \cup {n + 1}
    BY <1>1, <1>6 DEF Priced
  <2>2. after.cost # NoCost /\ after.unmetered = sums.unmetered
    BY <1>6, CountingCost DEF after
  <2>3. after.unmetered = Len(more) - Cardinality(Priced(more))
    BY <1>1, <1>2, <1>3, <2>1, <2>2
  <2>4. after.cost.amount = SumFunction(Spent(more, after.cost))
    <3> DEFINE C == Covered(log, sums.cost)
    <3>1. CASE sums.cost = NoCost
      <4>1. P = {} /\ after.cost = e.cost
        BY <1>3, <1>6, <3>1, CountingCost DEF after
      <4>2. Covered(more, after.cost) = {n + 1}
        BY <1>1, <2>1, <4>1 DEF Covered
      <4> DEFINE g == Spent(more, after.cost)
                 f == [i \in {} |-> 0]
      <4>3. /\ g \in [{} \cup {n + 1} -> Nat] /\ g[n + 1] = e.cost.amount
            /\ f \in [{} -> Nat]
        BY <1>1, <2>0, <4>2 DEF Spent
      <4>4. SumFunction(g) = g[n + 1] + SumFunction(f)
        <5> DEFINE U == {}
                   y == n + 1
        <5>1. IsFiniteSet(U) /\ y \notin U /\ \A x \in U : g[x] = f[x]
          BY FS_EmptySet
        <5>2. g \in [U \cup {y} -> Nat] /\ f \in [U -> Nat]
          BY <4>3
        <5> HIDE DEF g, f, U, y
        <5>3. OneMore(f, g, U, y)
          BY <5>1, <5>2 DEF OneMore
        <5>4. SumFunction(g) = g[y] + SumFunction(f)
          BY <5>3, SpendsMore
        <5> QED
          BY <5>4 DEF y
      <4>5. SumFunction(f) = 0
        <5> HIDE DEF f
        <5> QED
          BY <4>3, SumOfNothing
      <4> QED
        BY <2>0, <4>1, <4>3, <4>4, <4>5
    <3>2. CASE sums.cost # NoCost /\ e.cost.currency # sums.cost.currency
      <4>1. after.cost.currency = sums.cost.currency /\ after.cost.amount = sums.cost.amount
        BY <1>6, <3>2, CountingCost DEF after
      <4>2. Covered(more, after.cost) = C
        BY <1>1, <1>2, <2>1, <3>2, <4>1 DEF Covered
      <4>3. \A i \in C : more[i] = log[i]
        BY <1>1, <1>2 DEF Covered
      <4>4. Spent(more, after.cost) = Spent(log, sums.cost)
        BY <4>2, <4>3 DEF Spent
      <4> QED
        BY <1>3, <3>2, <4>1, <4>4
    <3>3. CASE sums.cost # NoCost /\ e.cost.currency = sums.cost.currency
      <4>1. /\ after.cost.currency = sums.cost.currency
            /\ after.cost.amount = sums.cost.amount + e.cost.amount
        BY <1>6, <3>3, CountingCost DEF after
      <4>2. Covered(more, after.cost) = C \cup {n + 1}
        BY <1>1, <1>2, <2>1, <3>3, <4>1 DEF Covered
      <4>3. /\ \A i \in C : more[i] = log[i] /\ log[i].cost.amount \in Nat
            /\ n + 1 \notin C /\ C \subseteq P
        BY <1>1, <1>2, <1>4 DEF Covered
      <4>4. IsFiniteSet(C)
        BY <1>2, <4>3, FS_Subset
      <4> DEFINE g == Spent(more, after.cost)
                 f == Spent(log, sums.cost)
      <4>5. /\ g \in [C \cup {n + 1} -> Nat] /\ g[n + 1] = e.cost.amount
            /\ f \in [C -> Nat] /\ \A i \in C : g[i] = f[i]
        BY <1>1, <2>0, <4>2, <4>3 DEF Spent
      <4>6. SumFunction(g) = g[n + 1] + SumFunction(f)
        <5> DEFINE y == n + 1
        <5>1. y \notin C /\ g \in [C \cup {y} -> Nat] /\ f \in [C -> Nat]
              /\ \A i \in C : g[i] = f[i]
          BY <4>3, <4>5
        <5> HIDE DEF g, f, C, y
        <5>2. OneMore(f, g, C, y)
          BY <4>4, <5>1 DEF OneMore
        <5>3. SumFunction(g) = g[y] + SumFunction(f)
          BY <5>2, SpendsMore
        <5> QED
          BY <5>3 DEF y
      <4>7. SumFunction(f) = sums.cost.amount /\ SumFunction(f) \in Nat
        <5>1. SumFunction(f) \in Nat
          <6> HIDE DEF f, C
          <6> QED
            BY <4>4, <4>5, SumIsNumber
        <5> QED
          BY <1>3, <3>3, <5>1
      <4> QED
        BY <2>0, <4>1, <4>5, <4>6, <4>7
    <3> QED
      BY <3>1, <3>2, <3>3
  <2>5. Priced(more) # {}
    BY <2>1
  <2> QED
    BY <2>2, <2>3, <2>4, <2>5 DEF AddsUp, more, after
<1> QED
  BY <1>5, <1>6

\* The running totals are the journal's; every response is counted under one route;
\* the journal's totals add up; an answer left out of the cost was told of in its turn;
\* and the stream closes with the totals.
Told(i) == Degraded("cost-accounting") \in WarningsOf(i - 1)
Balanced ==
  /\ totals.cost = JournalTotals.cost /\ totals.unmetered = JournalTotals.unmetered
  /\ SumFunction(totals.byModel) = Len(Responses)
  /\ AddsUp(Responses, JournalTotals)
  /\ \A i \in Priced(Responses) : i \notin Covered(Responses, totals.cost) => Told(i)
  /\ pc = "Done" => events[Len(events)].totals = totals

LEMMA JournalTotalsType == ASSUME TypeOK PROVE JournalTotals \in Sums
<1>1. Responses \in Seq(Response)
  BY LogTypes
<1>2. PICK f \in [0 .. Len(Responses) -> Sums] : TotalsOf(Responses) = f[Len(Responses)]
  BY <1>1, TotalsFollows
<1>3. Len(Responses) \in 0 .. Len(Responses)
  BY <1>1
<1> QED
  BY <1>2, <1>3 DEF JournalTotals

LEMMA InitBalanced == Init => Balanced
<1> SUFFICES ASSUME Init PROVE Balanced
  OBVIOUS
<1>1. Responses = <<>> /\ totals = EmptyTotals /\ pc = "Listing"
  BY InitLogs DEF Init
<1>2. JournalTotals = NothingPriced
  BY <1>1, TotalsOfNothing DEF JournalTotals
<1>3. SumFunction(totals.byModel) = 0
  <2> DEFINE f == [route \in Routes |-> 0]
  <2>1. totals.byModel = f /\ f \in [Routes -> Nat] /\ \A x \in Routes : f[x] = 0
    BY <1>1 DEF EmptyTotals
  <2>2. IsFiniteSet(Routes)
    BY RouteAssumption
  <2> HIDE DEF f
  <2> QED
    BY <2>1, <2>2, SumOfZeros
<1>4. Priced(Responses) = {} /\ Len(Responses) = 0
  BY <1>1 DEF Priced
<1>5. Cardinality({}) = 0
  BY FS_EmptySet
<1>6. AddsUp(Responses, JournalTotals)
  BY <1>2, <1>4, <1>5 DEF AddsUp, NothingPriced
<1> QED
  BY <1>1, <1>2, <1>3, <1>4, <1>6 DEF Balanced, EmptyTotals, NothingPriced

\* What was told is still there.
LEMMA WarningsStay ==
  ASSUME TypeOK, [Next]_vars, NEW t
  PROVE  WarningsOf(t) \subseteq WarningsOf(t)'
<1>1. events \in Seq(Event)
  BY DEF TypeOK
<1>2. \A i \in DOMAIN events : i \in DOMAIN events' /\ events'[i] = events[i]
  <2>1. CASE UNCHANGED events
    BY <2>1
  <2>2. CASE \E more \in Seq(Event) : events' = events \o more
    BY <1>1, <2>2, ConcatProperties
  <2> QED
    BY <2>1, <2>2, StepAppends
<1> QED
  BY <1>2 DEF WarningsOf

\* A run that ends closes with its totals.
LEMMA EndsBalanced ==
  ASSUME TypeOK, NEW how, NEW last \in Seq(Event), NEW sums \in Totals, End(how, last, sums)
  PROVE  events'[Len(events')].totals = sums
<1>1. turn \in Nat /\ events \in Seq(Event)
  BY LimitAssumption DEF TypeOK
<1> DEFINE closing == Finished(sums)
           before == events \o last
<1>2. closing \in Event /\ closing.totals = sums
  BY <1>1 DEF Finished, Event
<1>3. before \in Seq(Event) /\ events' = before \o <<closing>>
  BY <1>1, ConcatProperties DEF End
<1> HIDE DEF closing, before
<1>4. events' = Append(before, closing)
  BY <1>2, <1>3, AppendIsConcat
<1>5. Len(events') = Len(before) + 1 /\ events'[Len(before) + 1] = closing
  BY <1>2, <1>3, <1>4, AppendProperties
<1> QED
  BY <1>2, <1>5

LEMMA AnswerEventsAreEvents ==
  ASSUME TypeOK, NEW r \in Answers
  PROVE  AnswerEvents(r) \in Seq(Event) /\ Warned(CapWarnings(r)) \in Seq(Event)
         /\ <<TurnEvent("TurnFinished")>> \in Seq(Event)
<1>1. SideEvent \subseteq Event /\ turn \in Nat
  BY LimitAssumption DEF SideEvent, Others, TypeOK
<1>2. <<TurnEvent("TurnFinished")>> \in Seq(SideEvent)
  BY <1>1, SideEvents
<1> QED
  BY <1>1, <1>2, SideAnswer

\* An answer in another currency is told of in its turn.
LEMMA MismatchIsTold ==
  ASSUME TypeOK, NEW r \in Answers, Mismatch(totals, r.cost), NEW t, t = turn,
         NEW last \in Seq(Event), events' = (events \o AnswerEvents(r)) \o last
  PROVE  Degraded("cost-accounting") \in WarningsOf(t)'
<1> DEFINE told == [kind |-> "Warned", turn |-> turn, warnings |-> ArrivalWarnings(r)]
           usage == TurnEvent("UsageUpdated")
           late == Warned(AnswerWarnings(r))
           said == AnswerEvents(r)
           n == Len(events)
<1>1. turn \in Nat /\ events \in Seq(Event) /\ said \in Seq(Event) /\ n \in Nat
  BY AnswerEventsAreEvents, LimitAssumption DEF TypeOK
<1>2. Degraded("cost-accounting") \in ArrivalWarnings(r)
  BY DEF ArrivalWarnings
<1>3. Warned(ArrivalWarnings(r)) = <<told>>
  BY <1>2 DEF Warned
<1>4. told \in Event /\ usage \in Event /\ late \in Seq(Event)
  <2>1. late \in Seq(SideEvent) /\ usage \in SideEvent /\ SideEvent \subseteq Event
    BY <1>1, AnswerWarningsType, SideWarned, SideEvents DEF SideEvent, Others
  <2>2. told \in Event
    BY <1>1, AnswerWarningsType DEF Event
  <2> QED
    BY <2>1, <2>2
<1>5. said = (<<told>> \o <<usage>>) \o late
  BY <1>3 DEF AnswerEvents
<1>6. Len(said) \in Nat \ {0} /\ said[1] = told
  <2> DEFINE head == <<told>> \o <<usage>>
  <2> HIDE DEF told, usage, late, said
  <2>1. head \in Seq(Event) /\ Len(head) = 2 /\ head[1] = told
    BY <1>4
  <2> HIDE DEF head
  <2>2. said = head \o late
    BY <1>5 DEF head
  <2>3. /\ Len(head \o late) = Len(head) + Len(late) /\ Len(late) \in Nat
        /\ \A i \in 1 .. Len(head) + Len(late) :
             (head \o late)[i] = IF i <= Len(head) THEN head[i] ELSE late[i - Len(head)]
    <3>1. head \in Seq(Event) /\ late \in Seq(Event)
      BY <1>4, <2>1
    <3> QED
      BY ONLY <3>1, ConcatProperties
  <2> QED
    BY <2>1, <2>2, <2>3
<1> HIDE DEF said, n
<1>7. Len(events \o said) = n + Len(said) /\ (events \o said)[n + 1] = told
      /\ events \o said \in Seq(Event)
  BY <1>1, <1>6, ConcatProperties DEF n
<1>8. n + 1 \in DOMAIN events' /\ events'[n + 1] = told
  <2> DEFINE before == events \o said
  <2>1. before \in Seq(Event) /\ n + 1 \in 1 .. Len(before) /\ before[n + 1] = told
    BY <1>1, <1>6, <1>7
  <2>2. events' = before \o last
    BY DEF said
  <2> HIDE DEF before, told
  <2> QED
    BY <1>1, <2>1, <2>2, ConcatProperties
<1>9. told.kind = "Warned" /\ told.turn = t /\ told.warnings = ArrivalWarnings(r)
  OBVIOUS
<1> HIDE DEF told
<1> QED
  BY <1>2, <1>8, <1>9 DEF WarningsOf

LEMMA AnswerBalanced ==
  ASSUME TypeOK, InStep, Balanced, [Next]_vars, NEW r \in Answers, RecordAnswer(r),
         NEW last \in Seq(Event), events' = (events \o AnswerEvents(r)) \o last,
         pc' = "Done" => events'[Len(events')].totals = totals'
  PROVE  Balanced'
<1> DEFINE e == ResponseEntry(r)
           n == Len(Responses)
<1>1. /\ Responses \in Seq(Response) /\ n \in Nat /\ e \in Response /\ e.cost = r.cost
      /\ Responses' = Append(Responses, e)
  <2>1. Responses \in Seq(Response)
    BY LogTypes
  <2>2. n \in Nat
    BY <2>1, LenProperties
  <2>3. e \in Response /\ Responses' = Append(Responses, e)
    BY AnswerLogs
  <2>4. e.cost = r.cost
    BY DEF ResponseEntry
  <2> QED
    BY <2>1, <2>2, <2>3, <2>4
<1>2. turn = n
  <2>1. pc # "Done" /\ ~Settles
    BY DEF RecordAnswer, Settles
  <2>2. Len(Responses) = turn + 0 /\ turn \in Nat
    BY <2>1, LimitAssumption DEF InStep, TypeOK
  <2> QED
    BY <2>2
<1> HIDE DEF e
<1>3. /\ Len(Responses') = n + 1 /\ Responses'[n + 1] = e
      /\ DOMAIN Responses = 1 .. n /\ DOMAIN Responses' = 1 .. n + 1
      /\ \A i \in 1 .. n : Responses'[i] = Responses[i]
      /\ \A i \in 1 .. n + 1 : i \in 1 .. n \/ i = n + 1
  BY <1>1, AppendProperties
<1>4. JournalTotals' = Counting(JournalTotals, e) /\ JournalTotals \in Sums
  BY <1>1, JournalTotalsType, TotalsGrows DEF JournalTotals
<1>5. AddsUp(Responses', JournalTotals')
  BY <1>1, <1>4, AddsUpMore DEF Balanced
<1>6. totals' = RecordUsage(totals, r.route, r.cost) /\ r.route \in Routes /\ totals \in Totals
  BY AnswerType DEF RecordAnswer, TypeOK
<1>7. totals.cost = JournalTotals.cost /\ totals.unmetered = JournalTotals.unmetered
  BY DEF Balanced
<1>8. /\ totals'.cost = AddCost(JournalTotals, e.cost)
      /\ totals'.unmetered = Unmetered(JournalTotals, e.cost)
      /\ totals'.byModel = [totals.byModel EXCEPT ![r.route] = @ + 1]
  BY <1>1, <1>6, <1>7 DEF RecordUsage, AddCost, Unmetered, Mismatch
<1>9. totals'.cost = JournalTotals'.cost /\ totals'.unmetered = JournalTotals'.unmetered
  BY <1>4, <1>8 DEF Counting
<1>10. SumFunction(totals'.byModel) = n + 1
  <2> DEFINE f == totals.byModel
             g == totals'.byModel
             y == r.route
  <2>1. /\ f \in [Routes -> Nat] /\ y \in Routes /\ IsFiniteSet(Routes)
        /\ g \in [Routes -> Nat] /\ g[y] = f[y] + 1
        /\ \A x \in Routes \ {y} : g[x] = f[x]
    <3>1. f \in [Routes -> Nat] /\ y \in Routes /\ IsFiniteSet(Routes)
      BY <1>6, RouteAssumption DEF Totals
    <3>2. g = [f EXCEPT ![y] = f[y] + 1]
      BY <1>8
    <3> HIDE DEF f, g, y
    <3> QED
      BY <3>1, <3>2
  <2>2. SumFunction(f) = n
    BY DEF Balanced
  <2> HIDE DEF f, g, y
  <2>3. Restrict(g, Routes \ {y}) = Restrict(f, Routes \ {y})
    BY <2>1 DEF Restrict
  <2>4. SumFunction(g) = g[y] + SumFunction(Restrict(g, Routes \ {y}))
    BY <2>1, SumSplits
  <2>5. SumFunction(f) = f[y] + SumFunction(Restrict(f, Routes \ {y}))
    BY <2>1, SumSplits
  <2>6. SumFunction(Restrict(f, Routes \ {y})) \in Nat
    <3> DEFINE V == Routes \ {y}
               h == Restrict(f, V)
    <3>1. IsFiniteSet(V) /\ h \in [V -> Nat]
      BY <2>1, FS_RemoveElement DEF Restrict
    <3> HIDE DEF V, h
    <3>2. SumFunction(h) \in Nat
      BY <3>1, SumIsNumber
    <3> QED
      BY <3>2 DEF h, V
  <2>7. f[y] \in Nat
    BY <2>1
  <2>8. SumFunction(g) = n + 1
    BY <1>1, <2>1, <2>2, <2>3, <2>4, <2>5, <2>6, <2>7
  <2> QED
    BY <2>8 DEF g
<1>11. ASSUME NEW i \in Priced(Responses'), i \notin Covered(Responses', totals'.cost)
       PROVE  Told(i)'
  <2>1. CASE i = n + 1
    <3>1. e.cost # NoCost /\ e.cost.currency # totals'.cost.currency
      BY <1>3, <1>11, <2>1 DEF Priced, Covered
    <3>2. totals.cost # NoCost /\ totals.cost.currency = totals'.cost.currency
      BY <1>1, <1>4, <1>7, <1>9, <3>1, CountingCost
    <3>3. Mismatch(totals, r.cost)
      BY <1>1, <3>1, <3>2 DEF Mismatch
    <3>4. i - 1 = turn
      BY <1>1, <1>2, <2>1
    <3>5. Degraded("cost-accounting") \in WarningsOf(i - 1)'
      BY <3>3, <3>4, MismatchIsTold
    <3> QED
      BY <3>5 DEF Told
  <2>2. CASE i # n + 1
    <3>1. i \in 1 .. n /\ Responses'[i] = Responses[i] /\ i \in Priced(Responses)
      BY <1>3, <2>2 DEF Priced
    <3>2. totals.cost # NoCost
      BY <1>7, <3>1 DEF Balanced, AddsUp
    <3>3. totals'.cost.currency = totals.cost.currency
      <4>1. CASE e.cost = NoCost
        BY <1>1, <1>4, <1>7, <1>9, <4>1, CountingCost
      <4>2. CASE e.cost # NoCost
        BY <1>1, <1>4, <1>7, <1>9, <3>2, <4>2, CountingCost
      <4> QED
        BY <4>1, <4>2
    <3>4. i \notin Covered(Responses, totals.cost)
      BY <1>11, <3>1, <3>3 DEF Covered
    <3>5. Degraded("cost-accounting") \in WarningsOf(i - 1)
      BY <3>1, <3>4 DEF Balanced, Told
    <3>6. WarningsOf(i - 1) \subseteq WarningsOf(i - 1)'
      BY WarningsStay
    <3> QED
      BY <3>5, <3>6 DEF Told
  <2> QED
    BY <2>1, <2>2
<1> HIDE DEF n
<1> QED
  BY <1>3, <1>5, <1>9, <1>10, <1>11 DEF Balanced

LEMMA StepBalanced == TypeOK /\ InStep /\ Balanced /\ [Next]_vars => Balanced'
<1> SUFFICES ASSUME TypeOK, InStep, Balanced, [Next]_vars PROVE Balanced'
  OBVIOUS
<1>1. totals \in Totals /\ <<>> \in Seq(Event)
  BY EmptySeq DEF TypeOK
<1>2. ASSUME UNCHANGED <<entries, totals>>,
             pc' = "Done" => events'[Len(events')].totals = totals
      PROVE  Balanced'
  <2>1. Responses' = Responses /\ JournalTotals' = JournalTotals /\ totals' = totals
    BY <1>2 DEF Responses, JournalTotals
  <2>2. ASSUME NEW i, Told(i) PROVE Told(i)'
    BY <2>2, WarningsStay DEF Told
  <2> QED
    BY <1>2, <2>1, <2>2 DEF Balanced
<1>3. ASSUME NEW how, NEW last \in Seq(Event), End(how, last, totals), UNCHANGED <<entries, totals>>
      PROVE  Balanced'
  BY <1>1, <1>2, <1>3, EndsBalanced
<1>4. CASE ListFails \/ TurnLimit \/ ProviderFails
  BY <1>1, <1>3, <1>4 DEF ListFails, TurnLimit, ProviderFails, ledger
<1>5. CASE DoesNotFit
  <2>1. <<TurnEvent("TurnStarted")>> \in Seq(Event)
    BY EventType, LimitAssumption DEF TypeOK, LoopEvent
  <2> QED
    BY <1>3, <1>5, <2>1 DEF DoesNotFit, ledger
<1>6. ASSUME NEW r \in Answers, FinalAnswer(r) PROVE Balanced'
  <2> DEFINE said == AnswerEvents(r)
             end == <<TurnEvent("TurnFinished")>>
             close == <<Finished(totals')>>
  <2>1. RecordAnswer(r) /\ End("Ok", said \o end, totals')
    BY <1>6 DEF FinalAnswer
  <2>2. said \in Seq(Event) /\ end \in Seq(Event) /\ totals' \in Totals /\ events \in Seq(Event)
    BY <2>1, AnswerEventsAreEvents, RecordAnswerType DEF TypeOK
  <2>3. close \in Seq(Event)
    BY <2>2, LimitAssumption DEF Finished, Event, TypeOK
  <2>4. events' = (events \o (said \o end)) \o close
    BY <2>1 DEF End
  <2>5. events'[Len(events')].totals = totals'
    <3>1. said \o end \in Seq(Event)
      BY <2>2, ConcatProperties
    <3> HIDE DEF said, end
    <3> QED
      BY <2>1, <2>2, <3>1, EndsBalanced
  <2> HIDE DEF said, end, close
  <2>6. events' = (events \o said) \o (end \o close) /\ end \o close \in Seq(Event)
    <3>5. \A s, t, u \in Seq(Event) : (s \o t) \o u = s \o (t \o u)
      BY ONLY ConcatAssociative
    <3>1. events \o (said \o end) = (events \o said) \o end
      BY ONLY <2>2, <3>5
    <3>2. events \o said \in Seq(Event)
      BY <2>2, ConcatProperties
    <3>3. ((events \o said) \o end) \o close = (events \o said) \o (end \o close)
      BY ONLY <2>2, <2>3, <3>2, <3>5
    <3>4. end \o close \in Seq(Event)
      BY <2>2, <2>3, ConcatProperties
    <3> QED
      BY <2>4, <3>1, <3>3, <3>4
  <2> QED
    BY <2>1, <2>5, <2>6, AnswerBalanced DEF said
<1>7. ASSUME NEW r \in Answers, CallsAnswer(r) PROVE Balanced'
  <2>1. RecordAnswer(r) /\ pc' # "Done"
    BY <1>7 DEF CallsAnswer
  <2>2. events' = (events \o AnswerEvents(r)) \o Warned(CapWarnings(r))
        /\ Warned(CapWarnings(r)) \in Seq(Event)
    BY <1>7, AnswerEventsAreEvents DEF CallsAnswer
  <2> QED
    BY <2>1, <2>2, AnswerBalanced
<1>8. CASE ListTools \/ Ask \/ RefuseCall \/ CallTool \/ CloseTurn \/ HostStep
  <2>1. pc' # "Done" /\ UNCHANGED totals
    BY <1>8 DEF ListTools, Ask, RefuseCall, CallTool, CloseTurn, HostStep, HostAnswers, ledger
  <2>2. Responses' = Responses
    <3>1. CASE RefuseCall \/ HostStep
      <4>1. next \in DOMAIN calls
            /\ \E content \in Contents, isError \in BOOLEAN :
                 entries' = Append(entries, ResultEntry(next, content, isError))
        BY <3>1, AnswerAssumption
        DEF RefuseCall, HostStep, HostAnswers, TypeOK, Verdict, Contents, Refusals, RendersAsError
      <4> QED
        BY <4>1, ResultLogs
    <3>2. CASE ~(RefuseCall \/ HostStep)
      <4>1. UNCHANGED entries
        BY <1>8, <3>2 DEF ListTools, Ask, CallTool, CloseTurn
      <4> QED
        BY <4>1, NoEntryLogs
    <3> QED
      BY <3>1, <3>2
  <2>3. JournalTotals' = JournalTotals
    BY <2>2 DEF JournalTotals
  <2>4. ASSUME NEW i, Told(i) PROVE Told(i)'
    BY <2>4, WarningsStay DEF Told
  <2> QED
    BY <2>1, <2>2, <2>3, <2>4 DEF Balanced
<1>9. CASE Over \/ UNCHANGED vars
  <2>1. UNCHANGED <<pc, entries, totals, events>>
    BY <1>9 DEF Over, vars
  <2> QED
    BY <1>2, <2>1 DEF Balanced
<1> QED
  BY <1>4, <1>5, <1>6, <1>7, <1>8, <1>9 DEF Next, Environment, Loop, HostStep

\* The spend that is told is the spend there was: at every step the running cost is the
\* sum of what was reported in its currency, an answer priced in another is announced
\* in its turn, and every exit closes with the totals a reader recomputes from the
\* journal (UsageTotals::record, Journal::totals, finish()).
THEOREM SpendIsTrue == Spec => []LedgerIsTrue
<1> DEFINE I == TypeOK /\ InStep /\ Balanced
<1>1. Init => I
  BY InitTypeOK, InitInStep, InitBalanced
<1>2. I /\ [Next]_vars => I'
  BY StepTypeOK, StepInStep, StepBalanced
<1>3. ASSUME TypeOK, Balanced PROVE LedgerIsTrue
  <2>1. /\ totals.cost = JournalTotals.cost /\ totals.unmetered = JournalTotals.unmetered
        /\ AddsUp(Responses, JournalTotals)
        /\ SumFunction(totals.byModel) = Len(Responses)
        /\ \A i \in Priced(Responses) : i \notin Covered(Responses, totals.cost) => Told(i)
        /\ pc = "Done" => events[Len(events)].totals = totals
    BY <1>3 DEF Balanced
  <2>2. ClosingLedger
    BY <2>1 DEF ClosingLedger
  <2>3. /\ totals.unmetered = Len(Responses) - Cardinality(Priced(Responses))
        /\ totals.cost = NoCost <=> Priced(Responses) = {}
        /\ Priced(Responses) # {} =>
             totals.cost.amount = SumFunction(Spent(Responses, totals.cost))
    BY <2>1 DEF AddsUp
  <2>4. LedgerIsExact
    BY <2>1, <2>3 DEF LedgerIsExact, Priced, Covered, Spent, Told
  <2> QED
    BY <2>2, <2>4 DEF LedgerIsTrue
<1> QED
  BY <1>1, <1>2, <1>3, PTL DEF Spec
--------------------------------------------------------------------------------
(* What is read back from a file, whole or cut.                            *)

Lines(kind, E) == [kind : {kind}, of : E]
FileLines == Lines("Effect", Entry) \cup Lines("Event", Event)

LEMMA LinesType ==
  ASSUME NEW E, NEW log \in Seq(E), NEW kind
  PROVE  /\ LinesOf(kind, log) \in Seq(Lines(kind, E))
         /\ Len(LinesOf(kind, log)) = Len(log)
         /\ \A i \in 1 .. Len(log) : LinesOf(kind, log)[i].of = log[i]
<1>1. Len(log) \in Nat /\ DOMAIN log = 1 .. Len(log) /\ \A i \in 1 .. Len(log) : log[i] \in E
  BY LenProperties, ElementOfSeq
<1>2. LinesOf(kind, log) \in [1 .. Len(log) -> Lines(kind, E)]
  BY <1>1 DEF LinesOf, Lines
<1>3. LinesOf(kind, log) \in Seq(Lines(kind, E)) /\ Len(LinesOf(kind, log)) = Len(log)
  <2> DEFINE s == LinesOf(kind, log)
             T == Lines(kind, E)
  <2> HIDE DEF s, T
  <2>1. s \in [1 .. Len(log) -> T]
    BY <1>2 DEF s, T
  <2>2. s \in Seq(T) /\ Len(s) = Len(log)
    BY <1>1, <2>1
  <2> QED
    BY <2>2 DEF s, T
<1> QED
  BY <1>1, <1>3 DEF LinesOf

\* Parsing the first lines gives back the first entries.
LEMMA ParsedLines ==
  ASSUME NEW E, NEW log \in Seq(E), NEW kind, NEW n \in 0 .. Len(log)
  PROVE  Parsed(SubSeq(LinesOf(kind, log), 1, n)) = SubSeq(log, 1, n)
<1> DEFINE x == LinesOf(kind, log)
           T == Lines(kind, E)
           cut == SubSeq(x, 1, n)
           front == SubSeq(log, 1, n)
<1>1. x \in Seq(T) /\ Len(x) = Len(log) /\ \A i \in 1 .. Len(log) : x[i].of = log[i]
  BY LinesType
<1>2. Len(log) \in Nat /\ n \in Nat
  BY LenProperties
<1>3. cut \in Seq(T) /\ Len(cut) = n /\ \A i \in 1 .. n : cut[i] = x[i]
  <2> HIDE DEF x, T
  <2> QED
    BY <1>1, <1>2
<1>4. front \in Seq(E) /\ Len(front) = n /\ \A i \in 1 .. n : front[i] = log[i]
  BY <1>2
<1>5. DOMAIN cut = 1 .. n /\ DOMAIN front = 1 .. n
  <2> HIDE DEF cut, front, T
  <2> QED
    BY <1>3, <1>4, LenProperties
<1>6. \A i \in 1 .. n : cut[i].of = front[i]
  <2> HIDE DEF cut, front, x
  <2> QED
    BY <1>1, <1>2, <1>3, <1>4
<1>7. front = [i \in 1 .. n |-> front[i]]
  <2> HIDE DEF front
  <2> QED
    BY <1>4, <1>5, LenProperties
<1> HIDE DEF cut, front
<1>8. Parsed(cut) = [i \in 1 .. n |-> front[i]]
  BY <1>5, <1>6 DEF Parsed
<1> QED
  BY <1>7, <1>8 DEF cut, front

LEMMA ParsedWhole ==
  ASSUME NEW E, NEW log \in Seq(E), NEW kind
  PROVE  Parsed(LinesOf(kind, log)) = log
<1> DEFINE x == LinesOf(kind, log)
           n == Len(log)
<1>1. n \in 0 .. Len(log) /\ Len(x) = n
  BY LinesType, LenProperties
<1>2. SubSeq(x, 1, Len(x)) = x /\ SubSeq(log, 1, n) = log
  <2>1. x \in Seq(Lines(kind, E))
    BY LinesType
  <2> QED
    BY <2>1, SubSeqFull
<1>3. Parsed(SubSeq(x, 1, n)) = SubSeq(log, 1, n)
  <2> HIDE DEF n
  <2> QED
    BY <1>1, ParsedLines
<1> QED
  BY <1>1, <1>2, <1>3

\* Lines of one kind hold nothing of the other, and everything of their own.
LEMMA LinesAreOfOneKind ==
  ASSUME NEW a \in Seq(Lines("Effect", Entry)), NEW b \in Seq(Lines("Event", Event))
  PROVE  /\ OfKinds(a \o b, {"Effect"}) = a
         /\ OfKinds(a \o b, {"Event"}) = b
<1>1. a \in Seq(FileLines) /\ b \in Seq(FileLines)
  BY SeqMonotonic DEF FileLines
<1>2. Lines("Effect", Entry) = OfSorts(FileLines, {"Effect"})
  BY DEF Lines, FileLines, OfSorts
<1>3. Lines("Event", Event) = OfSorts(FileLines, {"Event"})
  BY DEF Lines, FileLines, OfSorts
<1>4. Lines("Effect", Entry) = Others(FileLines, {"Event"})
  BY DEF Lines, FileLines, Others
<1>5. Lines("Event", Event) = Others(FileLines, {"Effect"})
  BY DEF Lines, FileLines, Others
<1>6. OfKinds(a, {"Effect"}) = a
  BY <1>2, OfKindsKeeps
<1>7. OfKinds(b, {"Event"}) = b
  BY <1>3, OfKindsKeeps
<1>8. OfKinds(a \o b, {"Effect"}) = OfKinds(a, {"Effect"})
  BY <1>1, <1>5, OfKindsSkips
<1>9. OfKinds(<<>> \o a, {"Event"}) = OfKinds(<<>>, {"Event"})
  <2> DEFINE none == <<>>
  <2>1. none \in Seq(FileLines) /\ a \in Seq(Others(FileLines, {"Event"}))
    BY <1>4, EmptySeq
  <2> HIDE DEF none
  <2>2. OfKinds(none \o a, {"Event"}) = OfKinds(none, {"Event"})
    BY <2>1, OfKindsSkips
  <2> QED
    BY <2>2 DEF none
<1>10. <<>> \o a = a /\ <<>> \o b = b
  BY ConcatEmptySeq
<1>11. OfKinds(a \o b, {"Event"}) = OfKinds(a, {"Event"}) \o OfKinds(b, {"Event"})
  BY <1>1, OfKindsSplits
<1> QED
  BY <1>6, <1>7, <1>8, <1>9, <1>10, <1>11, OfKindsOfNothing

\* A whole file is the journal that was written, whatever the journal.
LEMMA WholeFileReads ==
  ASSUME TypeOK
  PROVE  FromJsonl(ToJsonl(Journal)) = Journal
<1> DEFINE a == LinesOf("Effect", entries)
           b == LinesOf("Event", events)
<1>1. entries \in Seq(Entry) /\ events \in Seq(Event)
  BY DEF TypeOK
<1>2. a \in Seq(Lines("Effect", Entry)) /\ b \in Seq(Lines("Event", Event))
  BY <1>1, LinesType
<1>3. Parsed(a) = entries /\ Parsed(b) = events
  BY <1>1, ParsedWhole
<1>4. ToJsonl(Journal) = a \o b
  BY DEF ToJsonl, Journal
<1> HIDE DEF a, b
<1>5. OfKinds(a \o b, {"Effect"}) = a /\ OfKinds(a \o b, {"Event"}) = b
  BY <1>2, LinesAreOfOneKind
<1> QED
  BY <1>3, <1>4, <1>5 DEF FromJsonl, Journal

\* A cut file holds the effects up to some place.
LEMMA CutFileReads ==
  ASSUME TypeOK, NEW n \in 0 .. Len(ToJsonl(Journal))
  PROVE  \E k \in 0 .. Len(entries) :
           FromJsonl(Cut(ToJsonl(Journal), n)).entries = SubSeq(entries, 1, k)
<1> DEFINE a == LinesOf("Effect", entries)
           b == LinesOf("Event", events)
           A == Lines("Effect", Entry)
           B == Lines("Event", Event)
<1>1. entries \in Seq(Entry) /\ events \in Seq(Event)
  BY DEF TypeOK
<1>2. a \in Seq(A) /\ b \in Seq(B) /\ Len(a) = Len(entries)
  BY <1>1, LinesType
<1>3. ToJsonl(Journal) = a \o b
  BY DEF ToJsonl, Journal
<1>4. Len(a \o b) = Len(a) + Len(b) /\ Len(a) \in Nat /\ Len(b) \in Nat
  <2>1. a \in Seq(A \cup B) /\ b \in Seq(A \cup B)
    BY <1>2, SeqMonotonic
  <2> HIDE DEF a, b, A, B
  <2> QED
    BY <2>1
<1> DEFINE file == a \o b
           effects(c) == OfKinds(c, {"Effect"})
<1>5. FromJsonl(Cut(file, n)).entries = Parsed(effects(SubSeq(file, 1, n)))
  BY DEF FromJsonl, Cut
<1>6. CASE n <= Len(a)
  <2> DEFINE cut == SubSeq(a, 1, n)
  <2>1. SubSeq(file, 1, n) = cut /\ cut \in Seq(A)
    <3>1. a \in Seq(A \cup B) /\ b \in Seq(A \cup B) /\ n \in Nat
      BY <1>2, SeqMonotonic
    <3> HIDE DEF a, b, A, B
    <3>2. CASE n = 0
      BY <1>2, <3>2, SubSeqEmpty, EmptySeq
    <3>3. CASE n # 0
      <4>1. 1 \in 1 .. Len(a) /\ n \in 1 .. Len(a)
        BY <1>4, <1>6, <3>1, <3>3
      <4>2. SubSeq(a \o b, 1, n) = SubSeq(a, 1, n)
        BY <3>1, <4>1, SubSeqOfConcat1
      <4>3. cut \in Seq(A)
        BY <1>2, <1>6, <3>1
      <4> QED
        BY <4>2, <4>3
    <3> QED
      BY <3>2, <3>3
  <2>2. effects(cut) = cut
    <3>1. <<>> \in Seq(B)
      BY EmptySeq
    <3>2. cut \o <<>> = cut
      <4> HIDE DEF cut, A
      <4> QED
        BY <2>1, ConcatEmptySeq
    <3>3. OfKinds(cut \o <<>>, {"Effect"}) = cut
      <4> HIDE DEF cut
      <4> QED
        BY <2>1, <3>1, LinesAreOfOneKind
    <3> QED
      BY <3>2, <3>3
  <2>3. n \in 0 .. Len(entries)
    BY <1>2, <1>4, <1>6
  <2>4. Parsed(cut) = SubSeq(entries, 1, n)
    BY <1>1, <2>3, ParsedLines
  <2> HIDE DEF cut
  <2> QED
    BY <1>3, <1>5, <2>1, <2>2, <2>3, <2>4
<1>7. CASE n > Len(a)
  <2> DEFINE cut == SubSeq(b, 1, n - Len(a))
  <2>0. n \in Nat /\ n <= Len(a) + Len(b)
    BY <1>3, <1>4
  <2>1. cut \in Seq(B)
    <3> HIDE DEF a, b, A, B
    <3> QED
      BY <1>2, <1>4, <1>7, <2>0
  <2>2. SubSeq(file, 1, n) = a \o cut
    <3> DEFINE U == A \cup B
    <3>1. a \in Seq(U) /\ b \in Seq(U)
      BY <1>2, SeqMonotonic
    <3> HIDE DEF a, b, A, B, U
    <3>2. file \in Seq(U) /\ \A i \in 1 .. Len(a) + Len(b) :
             file[i] = IF i <= Len(a) THEN a[i] ELSE b[i - Len(a)]
      BY <3>1, ConcatProperties
    <3>3. cut \in Seq(U) /\ Len(cut) = n - Len(a) /\ \A i \in 1 .. n - Len(a) : cut[i] = b[i]
      BY <1>4, <1>7, <2>0, <3>1
    <3> HIDE DEF cut, file
    <3>4. a \o cut \in Seq(U) /\ Len(a \o cut) = Len(a) + Len(cut)
          /\ \A i \in 1 .. Len(a) + Len(cut) :
               (a \o cut)[i] = IF i <= Len(a) THEN a[i] ELSE cut[i - Len(a)]
      BY ONLY <3>1, <3>3, ConcatProperties
    <3>5. Len(file) = Len(a) + Len(b)
      BY <1>4 DEF file
    <3> DEFINE s == SubSeq(file, 1, n)
               t == a \o cut
    <3>6. s \in Seq(U) /\ Len(s) = n /\ \A i \in 1 .. n : s[i] = file[i]
      BY <2>0, <3>2, <3>5
    <3>7. Len(t) = n
      BY <1>4, <2>0, <3>3, <3>4
    <3>8. ASSUME NEW i \in 1 .. n PROVE s[i] = t[i]
      <4>1. i \in 1 .. Len(a) + Len(b) /\ i \in 1 .. Len(a) + Len(cut)
        BY <1>4, <2>0, <3>3
      <4>2. CASE i <= Len(a)
        BY <3>2, <3>4, <3>6, <4>1, <4>2
      <4>3. CASE ~(i <= Len(a))
        <5>1. i - Len(a) \in 1 .. n - Len(a)
          BY <1>4, <2>0, <4>3
        <5> QED
          BY <3>2, <3>3, <3>4, <3>6, <4>1, <4>3, <5>1
      <4> QED
        BY <4>2, <4>3
    <3> HIDE DEF s, t
    <3>9. t \in Seq(U)
      BY <3>4 DEF t
    <3>10. s = t
      BY <3>6, <3>7, <3>8, <3>9, SeqEqual
    <3> QED
      BY <3>10 DEF s, t, file
  <2>3. OfKinds(a \o cut, {"Effect"}) = a
    <3> HIDE DEF a, cut
    <3> QED
      BY <1>2, <2>1, LinesAreOfOneKind
  <2>4. Parsed(a) = entries /\ SubSeq(entries, 1, Len(entries)) = entries
    BY <1>1, ParsedWhole, SubSeqFull
  <2>5. Len(entries) \in 0 .. Len(entries)
    BY <1>1, LenProperties
  <2> HIDE DEF a, b, cut
  <2> QED
    BY <1>3, <1>5, <2>2, <2>3, <2>4, <2>5
<1> QED
  BY <1>3, <1>4, <1>6, <1>7

--------------------------------------------------------------------------------
(* How far a replay has come, and along what.                              *)

\* The answers of a journal could be given again, and one that ends a run is its last.
Answerable(log) ==
  \A i \in DOMAIN log : log[i].kind = "ModelResponse" =>
    /\ log[i].calls \in BoundedSeq(Requests, MaxCalls)
    /\ IsFinal(log[i]) => i = Len(log)
\* An entry that repeats a recorded one.
Repeats(e, recorded) ==
  /\ recorded.kind = "ModelResponse"
  /\ Answered(e) = Answered(recorded)
  /\ SameShape(recorded.request, e.request)
  /\ hashed => e = recorded

\* A recording says nothing yet; a replay has answered with the first entries of its
\* script, all of them responses, one by one.
FollowsScript ==
  /\ cursor = Len(Responses)
  /\ cursor <= Len(script)
  /\ \A i \in 1 .. cursor : Repeats(Responses[i], script[i])
  /\ outcome = "Ok" => cursor > 0 /\ IsFinal(script[cursor])
ReplayInv ==
  /\ mode \in {"recording", "replaying"}
  /\ hashed \in BOOLEAN
  /\ script \in Seq(Entry)
  /\ Answerable(entries) /\ Answerable(script)
  /\ pc # "Done" => \A i \in DOMAIN entries :
                      entries[i].kind = "ModelResponse" => ~IsFinal(entries[i])
  /\ mode = "replaying" => FollowsScript

\* What every step but an answer does to the journal.
Keeps == UNCHANGED entries /\ (pc = "Done" => pc' = "Done") /\ (outcome' = "Ok" => outcome = "Ok")
Adds ==
  /\ pc # "Done" /\ pc' # "Done" /\ outcome' = outcome
  /\ \E e \in Result : entries' = Append(entries, e)
  /\ UNCHANGED Responses

LEMMA OtherSteps ==
  ASSUME TypeOK, Loop \/ ListTools \/ ListFails \/ HostStep \/ ProviderFails \/ UNCHANGED vars
  PROVE  Keeps \/ Adds
<1>1. \A content \in Contents, isError \in BOOLEAN :
        next \in DOMAIN calls /\ entries' = Append(entries, ResultEntry(next, content, isError))
          => ResultEntry(next, content, isError) \in Result /\ Responses' = Responses
  BY ResultLogs
<1>2. CASE RefuseCall
  <2>1. Verdict(next) \in Contents
    BY <1>2 DEF RefuseCall, Verdict, Contents, Refusals
  <2>2. next \in DOMAIN calls /\ entries' = Append(entries, ResultEntry(next, Verdict(next), TRUE))
    BY <1>2 DEF RefuseCall
  <2>3. ResultEntry(next, Verdict(next), TRUE) \in Result /\ Responses' = Responses
    BY <1>1, <2>1, <2>2
  <2> QED
    BY <1>2, <2>2, <2>3 DEF RefuseCall, Adds
<1>3. CASE HostStep
  <2>1. PICK answered \in HostOutcomes, size \in Sizes : HostAnswers(answered, size)
    BY <1>3 DEF HostStep
  <2>2. answered \in Contents /\ RendersAsError(answered) \in BOOLEAN
    BY AnswerAssumption DEF Contents, RendersAsError
  <2>3. next \in DOMAIN calls
    BY <2>1 DEF HostAnswers, TypeOK
  <2>4. entries' = Append(entries, ResultEntry(next, answered, RendersAsError(answered)))
    BY <2>1 DEF HostAnswers
  <2>5. ResultEntry(next, answered, RendersAsError(answered)) \in Result /\ Responses' = Responses
    BY <1>1, <2>2, <2>3, <2>4
  <2> QED
    BY <2>1, <2>4, <2>5 DEF HostAnswers, Adds
<1>4. CASE Loop /\ ~RefuseCall
  BY <1>4 DEF Loop, Ask, DoesNotFit, TurnLimit, CallTool, CloseTurn, End, Keeps
<1>5. CASE ListTools \/ ListFails \/ ProviderFails
  BY <1>5 DEF ListTools, ListFails, ProviderFails, End, Keeps
<1>6. CASE UNCHANGED vars
  BY <1>6 DEF vars, Keeps
<1> QED
  BY <1>2, <1>3, <1>4, <1>5, <1>6 DEF Loop

\* Those steps leave a replay where it was in its script.
LEMMA OtherStepsKeepReplay ==
  ASSUME TypeOK, ReplayInv, Keeps \/ Adds, UNCHANGED replay
  PROVE  ReplayInv'
<1>1. UNCHANGED <<mode, script, cursor, hashed, Responses>> /\ (outcome' = "Ok" => outcome = "Ok")
  BY NoEntryLogs DEF Keeps, Adds, replay
<1>2. FollowsScript => FollowsScript'
  BY <1>1 DEF FollowsScript, Repeats
<1>3. CASE Keeps
  BY <1>1, <1>2, <1>3 DEF ReplayInv, Keeps, Answerable
<1>4. CASE Adds
  <2>1. PICK e \in Result : entries' = Append(entries, e)
    BY <1>4 DEF Adds
  <2>2. entries \in Seq(Entry) /\ e \in Entry /\ e.kind # "ModelResponse"
    BY DEF TypeOK, Result, OfSorts
  <2>3. /\ Len(entries') = Len(entries) + 1 /\ Len(entries) \in Nat
        /\ DOMAIN entries' = 1 .. Len(entries) + 1 /\ DOMAIN entries = 1 .. Len(entries)
        /\ entries'[Len(entries) + 1] = e
        /\ \A i \in 1 .. Len(entries) : entries'[i] = entries[i]
    BY <2>1, <2>2, AppendProperties, LenProperties
  <2>4. \A i \in DOMAIN entries' : entries'[i].kind = "ModelResponse" =>
          i \in DOMAIN entries /\ entries'[i] = entries[i]
    BY <2>2, <2>3
  <2>5. \A i \in DOMAIN entries : entries[i].kind = "ModelResponse" => ~IsFinal(entries[i])
    BY <1>4 DEF Adds, ReplayInv
  <2>6. Answerable(entries)'
    BY <2>4, <2>5 DEF Answerable, ReplayInv
  <2>7. \A i \in DOMAIN entries' : entries'[i].kind = "ModelResponse" => ~IsFinal(entries'[i])
    BY <2>4, <2>5
  <2>8. Answerable(script)'
    BY <1>1 DEF Answerable, ReplayInv
  <2> QED
    BY <1>1, <1>2, <2>6, <2>7, <2>8 DEF ReplayInv
<1> QED
  BY <1>3, <1>4

\* An answer is journalled at the end; if it ends the run, nothing follows it.
LEMMA AnswerIsAnswerable ==
  ASSUME TypeOK, ReplayInv, NEW r \in Answers, FinalAnswer(r) \/ CallsAnswer(r)
  PROVE  /\ Answerable(entries)'
         /\ pc' # "Done" => \A i \in DOMAIN entries' :
              entries'[i].kind = "ModelResponse" => ~IsFinal(entries'[i])
         /\ Responses' = Append(Responses, ResponseEntry(r))
<1> DEFINE e == ResponseEntry(r)
<1>1. RecordAnswer(r) /\ pc = "Model" /\ (pc' # "Done" => ~IsFinal(r))
  BY DEF FinalAnswer, CallsAnswer, RecordAnswer, End
<1>2. entries \in Seq(Entry) /\ e \in Entry /\ entries' = Append(entries, e)
  BY <1>1, ResponseEntryType DEF TypeOK, RecordAnswer
<1>3. /\ Len(entries') = Len(entries) + 1 /\ Len(entries) \in Nat
      /\ DOMAIN entries' = 1 .. Len(entries) + 1 /\ DOMAIN entries = 1 .. Len(entries)
      /\ entries'[Len(entries) + 1] = e
      /\ \A i \in 1 .. Len(entries) : entries'[i] = entries[i]
  <2> HIDE DEF e
  <2> QED
    BY <1>2, AppendProperties, LenProperties
<1>4. e.calls = r.calls /\ e.stop = r.stop /\ r.calls \in BoundedSeq(Requests, MaxCalls)
  BY DEF ResponseEntry, Answers
<1>5. IsFinal(e) <=> IsFinal(r)
  BY <1>4 DEF IsFinal
<1>6. \A i \in DOMAIN entries : entries[i].kind = "ModelResponse" =>
         ~IsFinal(entries[i]) /\ entries[i].calls \in BoundedSeq(Requests, MaxCalls)
  BY <1>1 DEF ReplayInv, Answerable
<1>7. \A i \in DOMAIN entries' :
        \/ i \in DOMAIN entries /\ entries'[i] = entries[i]
        \/ i = Len(entries') /\ entries'[i] = e
  <2> HIDE DEF e
  <2> QED
    BY <1>3
<1>8. Answerable(entries)'
  <2> SUFFICES ASSUME NEW i \in DOMAIN entries', entries'[i].kind = "ModelResponse"
               PROVE  /\ entries'[i].calls \in BoundedSeq(Requests, MaxCalls)
                      /\ IsFinal(entries'[i]) => i = Len(entries')
    BY DEF Answerable
  <2> HIDE DEF e
  <2> QED
    BY <1>4, <1>6, <1>7
<1>9. pc' # "Done" => \A i \in DOMAIN entries' :
        entries'[i].kind = "ModelResponse" => ~IsFinal(entries'[i])
  <2> HIDE DEF e
  <2> QED
    BY <1>1, <1>5, <1>6, <1>7
<1> QED
  BY <1>1, <1>8, <1>9, AnswerLogs

LEMMA RecordingKeepsReplay ==
  ASSUME TypeOK, ReplayInv, Recording
  PROVE  ReplayInv'
<1>1. CASE Loop \/ ListTools \/ ListFails \/ HostStep \/ ProviderFails \/ UNCHANGED vars
  BY <1>1, OtherSteps, OtherStepsKeepReplay DEF Recording
<1>2. ASSUME NEW r \in Answers, FinalAnswer(r) \/ CallsAnswer(r) PROVE ReplayInv'
  <2>1. /\ Answerable(entries)'
        /\ pc' # "Done" => \A i \in DOMAIN entries' :
             entries'[i].kind = "ModelResponse" => ~IsFinal(entries'[i])
    BY <1>2, AnswerIsAnswerable
  <2>2. UNCHANGED <<mode, script, hashed>> /\ mode = "recording"
    BY DEF Recording, replay
  <2> QED
    BY <2>1, <2>2 DEF ReplayInv, Answerable
<1> QED
  BY <1>1, <1>2 DEF Recording, Next, Environment, Over, HostStep

\* The next entry of the script is an answer, and records as the entry it repeats.
LEMMA ScriptAnswers ==
  ASSUME TypeOK, ReplayInv, Matches, cursor \in Nat,
         NEW r, r = Recorded(script[cursor + 1])
  PROVE  /\ r \in Answers
         /\ IsFinal(r) <=> IsFinal(script[cursor + 1])
         /\ Repeats(ResponseEntry(r), script[cursor + 1])
<1> DEFINE old == script[cursor + 1]
<1>1. /\ cursor + 1 \in DOMAIN script /\ old \in Entry /\ old.kind = "ModelResponse"
  <2>1. script \in Seq(Entry) /\ cursor + 1 \in 1 .. Len(script)
    BY LenProperties DEF ReplayInv, Matches
  <2> QED
    BY <2>1, ElementOfSeq, LenProperties DEF Matches
<1>2. old.calls \in BoundedSeq(Requests, MaxCalls)
  BY <1>1 DEF ReplayInv, Answerable
<1>3. old \in [kind : {"ModelResponse"}, request : Imprint, calls : Seq(Requests),
               stop : Stops, size : Sizes, counted : Counts, cost : Costs]
  BY <1>1 DEF Entry
<1>4. Divergence(old.request, Fingerprint) \in {"None", "Unknown"}
  BY DEF Matches
<1> HIDE DEF old
<1>5. r = Recorded(old)
  BY DEF old
<1>6. r \in Answers
  BY <1>2, <1>3, <1>5, ReplayRouteAssumption DEF Answers, Recorded
<1>7. r.calls = old.calls /\ r.stop = old.stop /\ r.size = old.size /\ r.counted = old.counted
      /\ r.cost = old.cost
  BY <1>5 DEF Recorded
<1>8. SameShape(old.request, Fingerprint)
  BY <1>4 DEF Divergence
<1>9. Answered(ResponseEntry(r)) = Answered(old) /\ ResponseEntry(r).request = Fingerprint
  BY <1>7 DEF Answered, ResponseEntry
<1>10. hashed => ResponseEntry(r) = old
  <2> SUFFICES ASSUME hashed PROVE ResponseEntry(r) = old
    OBVIOUS
  <2>1. old.request.content = Fingerprint.content /\ old.request.tools = Fingerprint.tools
    BY <1>4, <1>8 DEF Divergence, SameShape
  <2>2. old.request = [tools |-> old.request.tools, content |-> old.request.content]
    BY <1>3 DEF Imprint
  <2>3. old.request = Fingerprint
    BY <2>1, <2>2 DEF Fingerprint
  <2>4. old = [kind |-> "ModelResponse", request |-> old.request, calls |-> old.calls,
               stop |-> old.stop, size |-> old.size, counted |-> old.counted,
               cost |-> old.cost]
    BY <1>3
  <2> QED
    BY <1>7, <2>3, <2>4 DEF ResponseEntry
<1>11. Repeats(ResponseEntry(r), old)
  BY <1>1, <1>8, <1>9, <1>10 DEF Repeats, old
<1> QED
  BY <1>6, <1>7, <1>11 DEF IsFinal, old

LEMMA AnswerKeepsReplay ==
  ASSUME TypeOK, Undecided, ReplayInv, mode = "replaying", ReplayResponse,
         UNCHANGED <<mode, script, hashed>>
  PROVE  ReplayInv' /\ Next
<1>0. FollowsScript /\ Responses \in Seq(Response) /\ script \in Seq(Entry)
  BY LogTypes DEF ReplayInv
<1>1. cursor = Len(Responses) /\ cursor \in Nat /\ cursor' = cursor + 1 /\ Matches
  BY <1>0, LenProperties DEF FollowsScript, ReplayResponse, Consume
<1>2. PICK r : r = Recorded(script[cursor + 1]) /\ (FinalAnswer(r) \/ CallsAnswer(r))
  BY DEF ReplayResponse
<1>3. /\ r \in Answers
      /\ IsFinal(r) <=> IsFinal(script[cursor + 1])
      /\ Repeats(ResponseEntry(r), script[cursor + 1])
  BY <1>1, <1>2, ScriptAnswers
<1>4. /\ Answerable(entries)'
      /\ pc' # "Done" => \A i \in DOMAIN entries' :
           entries'[i].kind = "ModelResponse" => ~IsFinal(entries'[i])
      /\ Responses' = Append(Responses, ResponseEntry(r))
  BY <1>2, <1>3, AnswerIsAnswerable
<1>5. Next
  BY <1>2, <1>3 DEF Next, Environment
<1>6. FollowsScript'
  <2>1. ResponseEntry(r) \in Response
    BY <1>2, <1>3, AnswerLogs DEF FinalAnswer, CallsAnswer
  <2>2. Len(Responses') = cursor + 1 /\ Responses'[cursor + 1] = ResponseEntry(r)
        /\ \A i \in 1 .. cursor : Responses'[i] = Responses[i]
    BY <1>0, <1>1, <1>4, <2>1, AppendProperties
  <2>3. cursor + 1 <= Len(script)
    <3>1. Len(script) \in Nat /\ cursor < Len(script)
      BY <1>0, <1>1, LenProperties DEF Matches
    <3> QED
      BY <1>1, <3>1
  <2>4. ASSUME NEW i \in 1 .. cursor + 1 PROVE Repeats(Responses'[i], script[i])
    <3>1. CASE i = cursor + 1
      BY <1>3, <2>2, <3>1
    <3>2. CASE i # cursor + 1
      <4>1. i \in 1 .. cursor
        BY <1>1, <3>2
      <4> QED
        BY <1>0, <2>2, <4>1 DEF FollowsScript
    <3> QED
      BY <3>1, <3>2
  <2>5. outcome' = "Ok" => IsFinal(script[cursor + 1])
    <3>1. pc = "Model"
      BY <1>2 DEF FinalAnswer, CallsAnswer, RecordAnswer
    <3>2. outcome = "running"
      BY <3>1 DEF Undecided
    <3>3. CASE FinalAnswer(r)
      BY <1>3, <3>3 DEF FinalAnswer
    <3>4. CASE CallsAnswer(r)
      BY <3>2, <3>4 DEF CallsAnswer
    <3> QED
      BY <1>2, <3>3, <3>4
  <2>6. \A e, o : Repeats(e, o)' <=> Repeats(e, o)
    BY DEF Repeats
  <2>7. \A i \in 1 .. cursor + 1 : Repeats(Responses[i], script[i])'
    BY <2>4 DEF Repeats
  <2> QED
    BY <1>1, <2>2, <2>3, <2>5, <2>7 DEF FollowsScript
<1> QED
  BY <1>4, <1>5, <1>6 DEF ReplayInv, Answerable

LEMMA ReplayingKeepsReplay ==
  ASSUME TypeOK, Undecided, ReplayInv, Replaying
  PROVE  ReplayInv' /\ [Next]_vars
<1>1. mode = "replaying" /\ UNCHANGED <<mode, script, hashed>>
  BY DEF Replaying
<1>2. CASE ReplayResponse
  BY <1>1, <1>2, AnswerKeepsReplay
<1>3. CASE RealTools \/ ReplayFails
  <2>1. UNCHANGED replay
    BY <1>1, <1>3 DEF replay, RealTools, ReplayFails
  <2>2. Loop \/ ListTools \/ ListFails \/ HostStep \/ ProviderFails \/ UNCHANGED vars
    BY <1>3 DEF RealTools, ReplayFails, HostStep, Over
  <2>3. ReplayInv'
    BY <2>1, <2>2, OtherSteps, OtherStepsKeepReplay
  <2>4. [Next]_vars
    BY <2>2 DEF Next, Environment, HostStep
  <2> QED
    BY <2>3, <2>4
<1> QED
  BY <1>2, <1>3 DEF Replaying

\* A second run starts as the first did, with what was kept of its journal.
LEMMA RestartKeepsReplay ==
  ASSUME TypeOK, ReplayInv, Restart
  PROVE  ReplayInv' /\ Init'
<1>1. Init'
  BY DEF Restart, Init
<1>2. PICK n \in 0 .. Len(ToJsonl(Journal)) :
        script' = FromJsonl(Cut(ToJsonl(Journal), n)).entries
  BY DEF Restart
<1>3. PICK k \in 0 .. Len(entries) : script' = SubSeq(entries, 1, k)
  BY <1>2, CutFileReads
<1>4. entries \in Seq(Entry) /\ Len(entries) \in Nat /\ DOMAIN entries = 1 .. Len(entries)
  BY LenProperties DEF TypeOK
<1>5. /\ script' \in Seq(Entry) /\ Len(script') = k /\ DOMAIN script' = 1 .. k
      /\ \A i \in 1 .. k : script'[i] = entries[i]
  BY <1>3, <1>4
<1>6. Answerable(script)'
  BY <1>4, <1>5 DEF ReplayInv, Answerable
<1>7. entries' = <<>> /\ cursor' = 0 /\ outcome' = "running" /\ mode' = "replaying"
      /\ hashed' \in BOOLEAN
  BY DEF Restart
<1>8. Responses' = <<>>
  BY <1>7, OfKindsOfNothing DEF Responses
<1>9. FollowsScript'
  BY <1>5, <1>7, <1>8 DEF FollowsScript
<1> QED
  BY <1>1, <1>5, <1>6, <1>7, <1>9 DEF ReplayInv, Answerable

LEMMA StepReplay ==
  TypeOK /\ Undecided /\ ReplayInv /\ [ReplayNext]_<<vars, replay>>
    => ReplayInv' /\ ([Next]_vars \/ Init')
<1> SUFFICES ASSUME TypeOK, Undecided, ReplayInv, [ReplayNext]_<<vars, replay>>
             PROVE  ReplayInv' /\ ([Next]_vars \/ Init')
  OBVIOUS
<1>1. CASE Recording
  BY <1>1, RecordingKeepsReplay DEF Recording
<1>2. CASE Replaying
  BY <1>2, ReplayingKeepsReplay
<1>3. CASE Restart
  BY <1>3, RestartKeepsReplay
<1>4. CASE UNCHANGED <<vars, replay>>
  BY <1>4, OtherSteps, OtherStepsKeepReplay
<1> QED
  BY <1>1, <1>2, <1>3, <1>4 DEF ReplayNext

\* Every run of the two, recorded or replayed, is a run of the loop from its start.
LEMMA BothRunsKeep == ReplaySpec => [](TypeOK /\ Undecided /\ ReplayInv)
<1>1. ReplayInit => TypeOK /\ Undecided /\ ReplayInv
  <2> SUFFICES ASSUME ReplayInit PROVE TypeOK /\ Undecided /\ ReplayInv
    OBVIOUS
  <2>1. TypeOK /\ Undecided
    BY InitTypeOK DEF ReplayInit, Init, Undecided
  <2>2. entries = <<>> /\ script = <<>> /\ mode = "recording" /\ hashed = TRUE
    BY DEF ReplayInit, Init
  <2> QED
    BY <2>1, <2>2, EmptySeq DEF ReplayInv, Answerable
<1>2. (Init => TypeOK /\ Undecided)'
  <2>1. Init => TypeOK /\ Undecided
    BY InitTypeOK DEF Init, Undecided
  <2> QED
    BY <2>1, PTL
<1>3. TypeOK /\ Undecided /\ ReplayInv /\ [ReplayNext]_<<vars, replay>>
        => (TypeOK /\ Undecided /\ ReplayInv)'
  BY <1>2, StepReplay, StepTypeOK, StepUndecided
<1> QED
  BY <1>1, <1>3, PTL DEF ReplaySpec

\* Whatever a run leaves behind, in memory or in a file that lost its end, a replay of it
\* answers only what was recorded there, in order, to requests of the same shape and,
\* unless the journal is too old to tell, to the same requests; it ends well only at the
\* end of a run that did; and a file that is whole loses nothing of the journal.
THEOREM ReplaysAreFaithful == ReplaySpec => []ReplayIsFaithful
<1>1. TypeOK /\ ReplayInv => ReplayIsFaithful
  <2> SUFFICES ASSUME TypeOK, ReplayInv PROVE ReplayIsFaithful
    OBVIOUS
  <2>1. FileIsWhole
    BY WholeFileReads DEF FileIsWhole
  <2>2. ASSUME mode = "replaying" PROVE FollowsScript /\ script \in Seq(Entry)
    BY <2>2 DEF ReplayInv
  <2>3. ReplayNeverInvents
    <3> SUFFICES ASSUME mode = "replaying"
                 PROVE  /\ Len(Responses) <= Len(Script)
                        /\ \A i \in DOMAIN Responses :
                             /\ Answered(Responses[i]) = Answered(Script[i])
                             /\ SameShape(Script[i].request, Responses[i].request)
                             /\ hashed => Responses[i] = Script[i]
      BY DEF ReplayNeverInvents
    <3>1. Responses \in Seq(Response)
      BY LogTypes
    <3>2. DOMAIN Responses = 1 .. cursor /\ cursor = Len(Responses) /\ cursor \in Nat
      BY <2>2, <3>1, LenProperties DEF FollowsScript
    <3>3. cursor \in 0 .. Len(script) /\ \A i \in 1 .. cursor : script[i].kind \in {"ModelResponse"}
      BY <2>2, <3>2, LenProperties DEF FollowsScript, Repeats
    <3>4. cursor <= Len(Script) /\ \A i \in 1 .. cursor : Script[i] = script[i]
      BY <2>2, <3>3, OfKindsBegins DEF Script
    <3> QED
      BY <2>2, <3>2, <3>4 DEF FollowsScript, Repeats
  <2>4. FinishedReplayIsWhole
    <3> SUFFICES ASSUME mode = "replaying", outcome = "Ok"
                 PROVE  cursor = Len(script) /\ IsFinal(script[Len(script)])
      BY DEF FinishedReplayIsWhole
    <3>1. cursor > 0 /\ IsFinal(script[cursor]) /\ cursor = Len(Responses) /\ cursor <= Len(script)
      BY <2>2 DEF FollowsScript
    <3>2. cursor \in 1 .. Len(script) /\ DOMAIN script = 1 .. Len(script)
      <4>1. cursor \in Nat
        BY <3>1, LogTypes, LenProperties
      <4> QED
        BY <2>2, <3>1, <4>1, LenProperties
    <3>3. script[cursor].kind = "ModelResponse"
      <4>1. cursor \in 1 .. cursor
        BY <3>2
      <4> QED
        BY <2>2, <4>1 DEF FollowsScript, Repeats
    <3>4. Answerable(script)
      BY DEF ReplayInv
    <3>5. cursor = Len(script)
      BY <3>1, <3>2, <3>3, <3>4 DEF Answerable
    <3> QED
      BY <3>1, <3>5
  <2> QED
    BY <2>1, <2>3, <2>4 DEF ReplayIsFaithful
<1> QED
  BY <1>1, BothRunsKeep, PTL
================================================================================
