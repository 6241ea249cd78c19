------------------------------ MODULE PromptProofs -----------------------------
(***************************************************************************)
(* What the agent loop sends (AgentRun, with Budget and CachePlan): which  *)
(* turns survive eviction, that calls and their results survive together,  *)
(* where cache marks land, and that the prefix stays what it was.          *)
(***************************************************************************)
EXTENDS AgentRunProofs, FoldProofs
--------------------------------------------------------------------------------
(* Eviction.                                                               *)

Weighed(prompt) ==
  /\ IsFiniteSet(DOMAIN prompt)
  /\ DOMAIN prompt \subseteq Nat
  /\ \A i \in DOMAIN prompt : prompt[i].tokens \in Nat

\* A prompt that is short of more segments weighs no more.
LEMMA LessIsLighter ==
  ASSUME NEW prompt, Weighed(prompt), NEW X, NEW Y, X \subseteq Y
  PROVE  /\ Tokens(Without(prompt, X)) \in Nat
         /\ Tokens(Without(prompt, Y)) \in Nat
         /\ Tokens(Without(prompt, Y)) <= Tokens(Without(prompt, X))
<1> DEFINE U == DOMAIN prompt
           f == [i \in U |-> prompt[i].tokens]
           fx == [i \in U \ X |-> prompt[i].tokens]
           fy == [i \in U \ Y |-> prompt[i].tokens]
<1>1. Tokens(Without(prompt, X)) = SumFunction(fx)
  BY DEF Tokens, Without, Restrict
<1>2. Tokens(Without(prompt, Y)) = SumFunction(fy)
  BY DEF Tokens, Without, Restrict
<1>3. fy = Restrict(fx, U \ Y)
  BY DEF Restrict
<1>4. fx \in [U \ X -> Nat] /\ fy \in [U \ Y -> Nat]
  BY DEF Weighed
<1>5. IsFiniteSet(U \ X) /\ IsFiniteSet(U \ Y) /\ U \ Y \in SUBSET (U \ X)
  BY FS_Difference DEF Weighed
<1> HIDE DEF U, fx, fy
<1>6. SumFunction(fx) \in Nat /\ SumFunction(fy) \in Nat
  BY <1>4, <1>5, SumIsNumber
<1>7. SumFunction(Restrict(fx, U \ Y)) <= SumFunction(fx)
  BY <1>4, <1>5, SumIsMonotone
<1> QED
  BY <1>1, <1>2, <1>3, <1>6, <1>7

\* What goes of the eligible segments is the first of them.
LEMMA EvictTakesTheFirst ==
  ASSUME NEW prompt, Weighed(prompt), NEW E \in SUBSET Nat, NEW ceiling \in Nat,
         NEW v \in EvictWhile(prompt, E, ceiling), NEW u \in E, u < v
  PROVE  u \in EvictWhile(prompt, E, ceiling)
<1> DEFINE X == {e \in E : e < u}
           Y == {e \in E : e < v}
<1>1. X \subseteq Y
  <2>1. v \in E
    BY DEF EvictWhile
  <2>2. u \in Nat /\ v \in Nat
    BY <2>1
  <2>3. \A e \in Nat : e < u => e < v
    BY <2>2
  <2> QED
    BY <2>3
<1>2. Tokens(Without(prompt, Y)) > ceiling
  BY DEF EvictWhile
<1> HIDE DEF X, Y
<1>3. /\ Tokens(Without(prompt, X)) \in Nat
      /\ Tokens(Without(prompt, Y)) \in Nat
      /\ Tokens(Without(prompt, Y)) <= Tokens(Without(prompt, X))
  BY <1>1, LessIsLighter
<1>4. Tokens(Without(prompt, X)) > ceiling
  BY <1>2, <1>3
<1> QED
  BY <1>4 DEF EvictWhile, X

--------------------------------------------------------------------------------
(* The conversation.                                                       *)

Said == {p \in DOMAIN turns : turns[p].role # "System"}

\* The system turn comes first and alone.  A turn of calls is followed by the turn that
\* answers them, unless it is the last; a turn of results follows the turn that asked,
\* and an even number of turns follows it once its turn is over.
Conversation ==
  /\ turns # <<>>
  /\ \A p \in DOMAIN turns :
       /\ turns[p].role = "System" =>
            p = 1 /\ turns[p].calls = <<>> /\ turns[p].results = <<>>
       /\ turns[p].calls = <<>> \/ turns[p].results = <<>>
       /\ turns[p].calls # <<>> /\ p < Len(turns) => turns[p + 1].results = turns[p].calls
       /\ turns[p].results # <<>> => p > 1 /\ turns[p - 1].calls = turns[p].results
       /\ turns[p].results # <<>> /\ pc \in {"Listing", "Turn", "Model"} =>
            (Len(turns) - p) % 2 = 0
       /\ turns[p].results # <<>> /\ pc \in {"Tools", "Host"} =>
            (Len(turns) - p) % 2 = 1
  /\ pc \in {"Listing", "Turn", "Model"} => turns[Len(turns)].calls = <<>>
  /\ pc \in {"Tools", "Host"} =>
       /\ turns[Len(turns)].calls = CallIds(calls)
       /\ results.role = "User" /\ results.calls = <<>>
       /\ results.results = [i \in 1 .. next - 1 |-> <<turn, i>>]

LEMMA InitConversation == Init => Conversation
<1> SUFFICES ASSUME Init PROVE Conversation
  OBVIOUS
<1>1. PICK task \in Sizes, system \in BOOLEAN : turns = Opening(task, system)
  BY DEF Init
<1>2. CASE system
  <2> DEFINE first  == Says("System", <<Note("system")>>, 1)
             second == Says("User", <<Note("task")>>, task)
  <2>1. turns = <<first>> \o <<second>>
    BY <1>1, <1>2 DEF Opening
  <2>2. first.role = "System" /\ first.calls = <<>> /\ first.results = <<>>
    BY DEF Says
  <2>3. second.role = "User" /\ second.calls = <<>> /\ second.results = <<>>
    BY DEF Says
  <2> HIDE DEF first, second
  <2>4. /\ Len(turns) = 2 /\ DOMAIN turns = 1 .. 2
        /\ turns[1] = first /\ turns[2] = second
    BY <2>1
  <2> QED
    BY <2>2, <2>3, <2>4 DEF Conversation, Init
<1>3. CASE ~system
  <2>1. turns = <<Says("User", <<Note("task")>>, task)>>
    BY <1>1, <1>3 DEF Opening
  <2> QED
    BY <2>1 DEF Conversation, Says, Init
<1> QED
  BY <1>2, <1>3

\* One turn more leaves the others where they are.
LEMMA TurnAppended ==
  ASSUME turns \in Seq(Turn), NEW t \in Turn, turns' = Append(turns, t)
  PROVE  /\ Len(turns') = Len(turns) + 1 /\ Len(turns) \in Nat
         /\ DOMAIN turns = 1 .. Len(turns) /\ DOMAIN turns' = 1 .. Len(turns) + 1
         /\ \A p \in 1 .. Len(turns) : turns'[p] = turns[p]
         /\ turns'[Len(turns) + 1] = t
BY AppendProperties

LEMMA AnswerKeepsConversation ==
  ASSUME TypeOK, Conversation, NEW r \in Answers, RecordAnswer(r),
         pc' \in {"Tools", "Done"}
  PROVE  Conversation'
<1> DEFINE t == AssistantTurn(CallIds(r.calls), r.calls, r.size)
           n == Len(turns)
<1>1. turn \in Nat /\ turns \in Seq(Turn)
  BY LimitAssumption DEF TypeOK
<1>2. t \in Turn
  BY <1>1, AssistantTurnType
<1>3. turns' = Append(turns, t) /\ calls' = r.calls /\ UNCHANGED turn
  BY DEF RecordAnswer
<1>4. next' = 1 /\ results' = NoResults /\ pc = "Model"
  BY DEF RecordAnswer
<1>5. t.calls = CallIds(r.calls) /\ t.results = <<>> /\ t.role = "Assistant"
  BY DEF AssistantTurn
<1>6. CallIds(r.calls) = CallIds(calls)'
  BY <1>3 DEF CallIds
<1>7. results'.role = "User" /\ results'.calls = <<>> /\ results'.results = <<>>
  BY <1>4 DEF NoResults, Says
<1> HIDE DEF t
<1>8. /\ Len(turns') = n + 1 /\ n \in Nat
      /\ DOMAIN turns = 1 .. n /\ DOMAIN turns' = 1 .. n + 1
      /\ \A p \in 1 .. n : turns'[p] = turns[p]
      /\ turns'[n + 1] = t
  BY <1>1, <1>2, <1>3, TurnAppended
<1>9. n >= 1 /\ turns[n].calls = <<>>
  BY <1>1, <1>4, <1>8 DEF Conversation
<1>10. [i \in 1 .. next' - 1 |-> <<turn', i>>] = <<>>
  BY <1>4
<1>11. ASSUME NEW p \in 1 .. n + 1
       PROVE  /\ turns'[p].role = "System" =>
                   p = 1 /\ turns'[p].calls = <<>> /\ turns'[p].results = <<>>
              /\ turns'[p].calls = <<>> \/ turns'[p].results = <<>>
              /\ turns'[p].calls # <<>> /\ p < n + 1 =>
                   turns'[p + 1].results = turns'[p].calls
              /\ turns'[p].results # <<>> => p > 1 /\ turns'[p - 1].calls = turns'[p].results
              /\ turns'[p].results # <<>> => (n + 1 - p) % 2 = 1
  <2>1. CASE p = n + 1
    BY <1>5, <1>8, <2>1
  <2>2. CASE p \in 1 .. n
    <3>1. turns'[p] = turns[p]
      BY <1>8, <2>2
    <3>2. turns[p].calls # <<>> => p < n /\ turns'[p + 1] = turns[p + 1]
      BY <1>8, <1>9, <2>2
    <3>3. turns[p].results # <<>> => p > 1 /\ turns'[p - 1] = turns[p - 1]
      BY <1>8, <2>2 DEF Conversation
    <3>4. turns[p].results # <<>> => (n - p) % 2 = 0
      BY <1>4, <1>8, <2>2 DEF Conversation
    <3>5. (n - p) % 2 = 0 => (n + 1 - p) % 2 = 1
      BY <1>8, <2>2
    <3> QED
      BY <1>8, <2>2, <3>1, <3>2, <3>3, <3>4, <3>5 DEF Conversation
  <2> QED
    BY <1>8, <2>1, <2>2
<1> HIDE DEF n
<1>12. turns' # <<>> /\ turns'[Len(turns')].calls = CallIds(calls)'
  BY <1>5, <1>6, <1>8, <1>9
<1>13. results'.results = [i \in 1 .. next' - 1 |-> <<turn', i>>]
  BY <1>7, <1>10
<1>14. DOMAIN turns' = 1 .. n + 1 /\ Len(turns') = n + 1 /\ n \in Nat
  BY ONLY <1>8
<1>15. pc' \notin {"Listing", "Turn", "Model"}
  OBVIOUS
<1>16. \A p \in DOMAIN turns' :
         /\ turns'[p].role = "System" =>
              p = 1 /\ turns'[p].calls = <<>> /\ turns'[p].results = <<>>
         /\ turns'[p].calls = <<>> \/ turns'[p].results = <<>>
         /\ turns'[p].calls # <<>> /\ p < Len(turns') => turns'[p + 1].results = turns'[p].calls
         /\ turns'[p].results # <<>> => p > 1 /\ turns'[p - 1].calls = turns'[p].results
         /\ turns'[p].results # <<>> /\ pc' \in {"Tools", "Host"} => (Len(turns') - p) % 2 = 1
  <2> TAKE p \in DOMAIN turns'
  <2>1. p \in 1 .. n + 1
    BY ONLY <1>14, p \in DOMAIN turns'
  <2>2. /\ turns'[p].role = "System" =>
              p = 1 /\ turns'[p].calls = <<>> /\ turns'[p].results = <<>>
        /\ turns'[p].calls = <<>> \/ turns'[p].results = <<>>
        /\ turns'[p].calls # <<>> /\ p < n + 1 => turns'[p + 1].results = turns'[p].calls
        /\ turns'[p].results # <<>> => p > 1 /\ turns'[p - 1].calls = turns'[p].results
        /\ turns'[p].results # <<>> => (n + 1 - p) % 2 = 1
    BY ONLY <1>11, <2>1, Zenon
  <2> QED
    BY ONLY <1>14, <2>2
<1> QED
  BY ONLY <1>7, <1>12, <1>13, <1>15, <1>16, Zenon DEF Conversation

LEMMA CloseKeepsConversation ==
  ASSUME TypeOK, Conversation, CloseTurn
  PROVE  Conversation'
<1> DEFINE n == Len(turns)
<1>1. turns \in Seq(Turn) /\ results \in Turn
  BY DEF TypeOK
<1>2. turns' = Append(turns, results) /\ pc = "Tools" /\ pc' = "Turn"
  BY DEF CloseTurn
<1>3. /\ Len(turns') = n + 1 /\ n \in Nat
      /\ DOMAIN turns = 1 .. n /\ DOMAIN turns' = 1 .. n + 1
      /\ \A p \in 1 .. n : turns'[p] = turns[p]
      /\ turns'[n + 1] = results
  BY <1>1, <1>2, TurnAppended
<1>4. n >= 1
  BY <1>1, <1>3 DEF Conversation
<1>5. results.calls = <<>> /\ results.role = "User" /\ results.results = turns[n].calls
  <2>1. next - 1 = Len(calls) /\ DOMAIN calls = 1 .. Len(calls)
    BY DEF CloseTurn, AllSettled, TypeOK
  <2>2. CallIds(calls) = [i \in 1 .. next - 1 |-> <<turn, i>>]
    BY <2>1 DEF CallIds
  <2> QED
    BY <1>2, <2>2 DEF Conversation
<1>6. ASSUME NEW p \in 1 .. n + 1
      PROVE  /\ turns'[p].role = "System" =>
                  p = 1 /\ turns'[p].calls = <<>> /\ turns'[p].results = <<>>
             /\ turns'[p].calls = <<>> \/ turns'[p].results = <<>>
             /\ turns'[p].calls # <<>> /\ p < n + 1 =>
                  turns'[p + 1].results = turns'[p].calls
             /\ turns'[p].results # <<>> => p > 1 /\ turns'[p - 1].calls = turns'[p].results
             /\ turns'[p].results # <<>> => (n + 1 - p) % 2 = 0
  <2>1. CASE p = n + 1
    <3>1. turns'[p] = results /\ turns'[p - 1] = turns[n]
      BY <1>3, <1>4, <2>1
    <3>2. p > 1 /\ ~(p < n + 1) /\ (n + 1 - p) % 2 = 0
      BY <1>3, <1>4, <2>1
    <3> QED
      BY <1>5, <3>1, <3>2
  <2>2. CASE p \in 1 .. n
    <3>1. turns'[p] = turns[p]
      BY <1>3, <2>2
    <3>2. CASE p = n
      <4>1. turns[p].results = <<>>
        <5>1. (n - p) % 2 # 1
          BY <1>3, <3>2
        <5> QED
          BY <1>2, <1>3, <2>2, <5>1 DEF Conversation
      <4>2. turns'[p + 1] = results /\ turns[p].calls = turns[n].calls
        BY <1>3, <3>2
      <4>3. turns[p].role = "System" => p = 1 /\ turns[p].calls = <<>>
        BY <1>3, <2>2 DEF Conversation
      <4> QED
        BY <1>5, <3>1, <4>1, <4>2, <4>3
    <3>3. CASE p < n
      <4>1. turns'[p + 1] = turns[p + 1]
        BY <1>3, <2>2, <3>3
      <4>2. turns[p].results # <<>> => p > 1 /\ turns'[p - 1] = turns[p - 1]
        BY <1>3, <2>2 DEF Conversation
      <4>3. turns[p].results # <<>> => (n - p) % 2 = 1
        BY <1>2, <1>3, <2>2 DEF Conversation
      <4>4. (n - p) % 2 = 1 => (n + 1 - p) % 2 = 0
        BY <1>3, <2>2
      <4>5. /\ turns[p].role = "System" =>
                 p = 1 /\ turns[p].calls = <<>> /\ turns[p].results = <<>>
            /\ turns[p].calls = <<>> \/ turns[p].results = <<>>
            /\ turns[p].calls # <<>> => turns[p + 1].results = turns[p].calls
            /\ turns[p].results # <<>> => turns[p - 1].calls = turns[p].results
        BY <1>3, <2>2, <3>3 DEF Conversation
      <4> QED
        BY ONLY <3>1, <4>1, <4>2, <4>3, <4>4, <4>5
    <3>4. p = n \/ p < n
      <4>1. n \in Nat
        BY <1>3
      <4> HIDE DEF n
      <4> QED
        BY ONLY <4>1, <2>2
    <3> QED
      BY <3>2, <3>3, <3>4
  <2>3. p = n + 1 \/ p \in 1 .. n
    BY <1>3
  <2> QED
    BY <2>1, <2>2, <2>3
<1> HIDE DEF n
<1> QED
  BY <1>2, <1>3, <1>4, <1>5, <1>6 DEF Conversation

\* A settled call adds its result to the turn that is assembled.
LEMMA SettleKeepsConversation ==
  ASSUME TypeOK, Conversation, pc \in {"Tools", "Host"}, pc' \in {"Tools", "Host"},
         UNCHANGED <<turn, turns, calls>>, next' = next + 1,
         NEW content, NEW size, results' = WithResult(results, <<turn, next>>, content, size)
  PROVE  Conversation'
<1>1. /\ results'.role = results.role /\ results'.calls = results.calls
      /\ results'.results = Append(results.results, <<turn, next>>)
  BY DEF WithResult
<1>2. results.results = [i \in 1 .. next - 1 |-> <<turn, i>>] /\ next \in Nat /\ next >= 1
  BY DEF Conversation, TypeOK
<1>3. Append(results.results, <<turn, next>>) = [i \in 1 .. next |-> <<turn, i>>]
  BY <1>2
<1>4. next' - 1 = next
  BY <1>2
<1>5. CallIds(calls)' = CallIds(calls)
  BY DEF CallIds
<1>6. results'.role = "User" /\ results'.calls = <<>>
      /\ results'.results = [i \in 1 .. next' - 1 |-> <<turn', i>>]
  BY <1>1, <1>3, <1>4 DEF Conversation
<1> QED
  BY <1>5, <1>6 DEF Conversation

LEMMA NextKeepsConversation ==
  TypeOK /\ Conversation /\ [Next]_vars => Conversation'
<1> SUFFICES ASSUME TypeOK, Conversation, [Next]_vars PROVE Conversation'
  OBVIOUS
<1>1. ASSUME UNCHANGED turns, pc' = "Done" \/ (pc \in {"Listing", "Turn"} /\ pc' \in {"Turn", "Model"})
      PROVE  Conversation'
  BY <1>1 DEF Conversation
<1>2. CASE CallTool \/ UNCHANGED vars
  <2>1. UNCHANGED <<turn, turns, calls, next, results>>
    BY <1>2 DEF CallTool, answer, vars
  <2>2. pc' = pc \/ (pc = "Tools" /\ pc' = "Host")
    BY <1>2 DEF CallTool, vars
  <2>3. UNCHANGED CallIds(calls)
    BY <2>1 DEF CallIds
  <2> QED
    BY <2>1, <2>2, <2>3 DEF Conversation
<1>3. CASE RefuseCall
  BY <1>3, SettleKeepsConversation DEF RefuseCall
<1>4. CASE \E answered \in HostOutcomes, size \in Sizes : HostAnswers(answered, size)
  BY <1>4, SettleKeepsConversation DEF HostAnswers
<1>5. CASE CloseTurn
  BY <1>5, CloseKeepsConversation
<1>6. CASE \E r \in Answers : FinalAnswer(r) \/ CallsAnswer(r)
  BY <1>6, AnswerKeepsConversation DEF FinalAnswer, CallsAnswer, End
<1>7. CASE ListTools \/ ListFails \/ Ask \/ DoesNotFit \/ TurnLimit \/ ProviderFails
  BY <1>1, <1>7 DEF ListTools, ListFails, Ask, DoesNotFit, TurnLimit, ProviderFails, End
<1> QED
  BY <1>2, <1>3, <1>4, <1>5, <1>6, <1>7 DEF Next, Environment, Loop, Over

--------------------------------------------------------------------------------
(* What is sent of it.                                                     *)

\* The prompt is the tool block and the turns, and history is what was said.
LEMMA PromptShape ==
  ASSUME TypeOK, Conversation
  PROVE  /\ Weighed(BuildSegments)
         /\ \A p \in DOMAIN turns :
              /\ SegmentOf(p) \in DOMAIN BuildSegments
              /\ BuildSegments[SegmentOf(p)] = TurnSegment(turns[p])
         /\ OfKind(BuildSegments, "Discovered") = {}
         /\ OfKind(BuildSegments, "History") = {SegmentOf(p) : p \in Said}
         /\ catalog # {} => 0 \in DOMAIN BuildSegments /\ BuildSegments[0] = ToolSegment
         /\ DOMAIN BuildSegments = {0 : c \in catalog} \cup {SegmentOf(p) : p \in DOMAIN turns}
<1> DEFINE n == Len(turns)
           D == {0 : c \in catalog} \cup {SegmentOf(p) : p \in DOMAIN turns}
<1>1. turns \in Seq(Turn) /\ n \in Nat /\ DOMAIN turns = 1 .. n
  BY DEF TypeOK
<1>2. DOMAIN BuildSegments = D
  BY DEF BuildSegments
<1>3. Offset \in {0, 1} /\ (Offset = 1 <=> catalog # {})
  BY DEF Offset
<1>4. \A p \in DOMAIN turns : SegmentOf(p) \in Nat /\ SegmentOf(p) + 1 - Offset = p
                              /\ SegmentOf(p) >= Offset /\ SegmentOf(p) <= n
  BY <1>1, <1>3 DEF SegmentOf
<1>5. \A i \in D : (i = 0 /\ catalog # {}) \/ \E p \in DOMAIN turns : i = SegmentOf(p)
  OBVIOUS
<1>6. \A i \in D : i \in Nat /\ i <= n
  BY <1>1, <1>4, <1>5
<1>7. IsFiniteSet(D)
  <2> HIDE DEF D
  <2> QED
    BY <1>1, <1>6, FS_BoundedSetOfNaturals
<1>8. \A p \in DOMAIN turns : BuildSegments[SegmentOf(p)] = TurnSegment(turns[p])
  <2> TAKE p \in DOMAIN turns
  <2>1. SegmentOf(p) \in D /\ ~(SegmentOf(p) < Offset) /\ SegmentOf(p) + 1 - Offset = p
    BY <1>3, <1>4
  <2> QED
    BY <2>1 DEF BuildSegments
<1>9. catalog # {} => 0 \in D /\ BuildSegments[0] = ToolSegment
  BY <1>3 DEF BuildSegments
<1>10. \A p \in DOMAIN turns :
         /\ TurnSegment(turns[p]).kind = IF p \in Said THEN "History" ELSE "System"
         /\ TurnSegment(turns[p]).tokens \in Nat
  <2> TAKE p \in DOMAIN turns
  <2>1. turns[p] \in Turn
    BY <1>1
  <2>2. turns[p].size \in Nat
    BY <2>1 DEF Turn
  <2>3. p \in Said <=> turns[p].role # "System"
    BY DEF Said
  <2>4. /\ TurnSegment(turns[p]).kind = IF turns[p].role = "System" THEN "System" ELSE "History"
        /\ TurnSegment(turns[p]).tokens = turns[p].size
    BY DEF TurnSegment
  <2> QED
    BY <2>2, <2>3, <2>4
<1>11. ToolSegment.kind = "Tools" /\ ToolSegment.tokens \in Nat
  <2>1. IsFiniteSet(catalog)
    BY CatalogAssumption, FS_EmptySet DEF TypeOK
  <2>2. DefSize * Cardinality(catalog) \in Nat
    <3>1. Cardinality(catalog) \in Nat /\ DefSize \in Nat
      BY <2>1, FS_CardinalityType, SizeAssumption
    <3> QED
      BY <3>1
  <2> QED
    BY <2>2 DEF ToolSegment
<1>12. \A i \in D : BuildSegments[i].tokens \in Nat
  BY <1>5, <1>8, <1>9, <1>10, <1>11
<1>13. \A i \in D : BuildSegments[i].kind \in {"Tools", "System", "History"}
  BY <1>5, <1>8, <1>9, <1>10, <1>11
<1>14. \A i \in D : BuildSegments[i].kind = "History" <=> \E p \in Said : i = SegmentOf(p)
  <2> TAKE i \in D
  <2>1. ASSUME NEW p \in Said, i = SegmentOf(p) PROVE BuildSegments[i].kind = "History"
    BY <1>8, <1>10, <2>1 DEF Said
  <2>2. ASSUME BuildSegments[i].kind = "History" PROVE \E p \in Said : i = SegmentOf(p)
    <3>1. PICK p \in DOMAIN turns : i = SegmentOf(p)
      BY <1>5, <1>9, <1>11, <2>2
    <3> QED
      BY <1>8, <1>10, <2>2, <3>1
  <2> QED
    BY <2>1, <2>2
<1>15. \A p \in Said : SegmentOf(p) \in D
  BY DEF Said
<1> HIDE DEF D
<1>16. OfKind(BuildSegments, "Discovered") = {}
  BY <1>2, <1>13 DEF OfKind
<1>17. OfKind(BuildSegments, "History") = {SegmentOf(p) : p \in Said}
  BY <1>2, <1>14, <1>15 DEF OfKind
<1>18. \A p \in DOMAIN turns : SegmentOf(p) \in D
  BY DEF D
<1>19. Weighed(BuildSegments)
  BY <1>2, <1>6, <1>7, <1>12 DEF Weighed
<1> QED
  BY <1>2, <1>8, <1>9, <1>16, <1>17, <1>18, <1>19 DEF D

\* What goes is the oldest history, and nothing within the floor.
GivesUpOldest(prompt, fitted) ==
  /\ fitted.keep = Without(prompt, fitted.evicted)
  /\ fitted.evicted \subseteq OfKind(prompt, "History")
  /\ \A v \in fitted.evicted : \A u \in OfKind(prompt, "History") :
       u < v => u \in fitted.evicted
  /\ \A v \in fitted.evicted :
       Cardinality({g \in OfKind(prompt, "History") : g > v}) >= RecentHistory
  /\ fitted.fits => Tokens(fitted.keep) <= Ceiling

LEMMA FitGivesUpOldest ==
  ASSUME NEW prompt, Weighed(prompt), prompt = [i \in DOMAIN prompt |-> prompt[i]],
         OfKind(prompt, "Discovered") = {}
  PROVE  GivesUpOldest(prompt, Fit(prompt, Ceiling, RecentHistory))
<1> DEFINE history == OfKind(prompt, "History")
           E == AboveFloor(prompt, RecentHistory)
           old == EvictWhile(prompt, E, Ceiling)
<1>1. history \subseteq DOMAIN prompt /\ history \subseteq Nat /\ IsFiniteSet(history)
  BY FS_Subset DEF OfKind, Weighed
<1>2. E = {h \in history : Cardinality({g \in history : g > h}) >= RecentHistory}
  BY DEF AboveFloor
<1>3. Without(prompt, {}) = prompt
  BY DEF Without, Restrict
<1>4. CASE Tokens(prompt) <= Ceiling
  <2>1. Fit(prompt, Ceiling, RecentHistory) = [keep |-> prompt, evicted |-> {}, fits |-> TRUE]
    BY <1>4 DEF Fit
  <2> DEFINE fitted == Fit(prompt, Ceiling, RecentHistory)
  <2>2. fitted.keep = prompt /\ fitted.evicted = {}
    BY <2>1
  <2> HIDE DEF fitted, history
  <2>3. GivesUpOldest(prompt, fitted)
    BY <1>3, <1>4, <2>2 DEF GivesUpOldest
  <2> QED
    BY <2>3 DEF fitted
<1>5. CASE ~(Tokens(prompt) <= Ceiling)
  <2>1. EvictWhile(prompt, {}, Ceiling) = {}
    BY DEF EvictWhile
  <2>2. Evict(prompt, Ceiling, RecentHistory) = old
    BY <1>3, <2>1 DEF Evict
  <2>3. Fit(prompt, Ceiling, RecentHistory) =
          [keep |-> Without(prompt, old), evicted |-> old,
           fits |-> Tokens(Without(prompt, old)) <= Ceiling]
    BY <1>5, <2>2 DEF Fit
  <2>4. old \subseteq E /\ E \subseteq history
    BY <1>2 DEF EvictWhile
  <2>5. ASSUME NEW v \in old, NEW u \in history, u < v
        PROVE  u \in old
    <3> DEFINE newer(h) == {g \in history : g > h}
    <3>1. v \in Nat /\ u \in Nat /\ v \in history
      BY <1>1, <2>4
    <3>2. newer(v) \subseteq newer(u)
      BY <1>1, <2>5, <3>1
    <3>3. IsFiniteSet(newer(u)) /\ newer(u) \subseteq history
      BY <1>1, FS_Subset
    <3>4. IsFiniteSet(newer(v))
      BY <3>2, <3>3, FS_Subset
    <3>5. /\ Cardinality(newer(v)) \in Nat /\ Cardinality(newer(u)) \in Nat
          /\ Cardinality(newer(v)) <= Cardinality(newer(u))
      BY <3>2, <3>3, <3>4, FS_Subset, FS_CardinalityType
    <3>6. Cardinality(newer(v)) >= RecentHistory
      BY <1>2, <2>4
    <3>7. Cardinality(newer(u)) >= RecentHistory
      <4> HIDE DEF newer
      <4> QED
        BY <3>5, <3>6, LimitAssumption
    <3>8. u \in E
      BY <1>2, <3>7
    <3>9. E \in SUBSET Nat
      BY <1>1, <2>4
    <3> HIDE DEF E
    <3> QED
      BY <2>5, <3>8, <3>9, EvictTakesTheFirst, SizeAssumption
  <2>6. \A v \in old : Cardinality({g \in history : g > v}) >= RecentHistory
    BY <1>2, <2>4
  <2>7. old \subseteq history
    BY <2>4
  <2> DEFINE fitted == Fit(prompt, Ceiling, RecentHistory)
  <2>8. /\ fitted.keep = Without(prompt, old) /\ fitted.evicted = old
        /\ fitted.fits = (Tokens(Without(prompt, old)) <= Ceiling)
    BY <2>3
  <2> HIDE DEF old, fitted
  <2>9. GivesUpOldest(prompt, fitted)
    BY <2>5, <2>6, <2>7, <2>8 DEF GivesUpOldest
  <2> QED
    BY <2>9 DEF fitted
<1> QED
  BY <1>4, <1>5

Kept(fitted) == {p \in DOMAIN turns : SegmentOf(p) \in DOMAIN fitted.keep}

\* What the budget keeps, as turns: the system turn, the newest of what was said, and
\* the floor.
LEMMA KeptTurns ==
  ASSUME TypeOK, Conversation, NEW fitted, GivesUpOldest(BuildSegments, fitted)
  PROVE  /\ DOMAIN turns \ Said \subseteq Kept(fitted)
         /\ \A p \in Said \cap Kept(fitted) : \A q \in DOMAIN turns :
              q > p => q \in Kept(fitted)
         /\ \A p \in Said : Len(turns) - p < RecentHistory => p \in Kept(fitted)
<1> DEFINE n == Len(turns)
           history == OfKind(BuildSegments, "History")
           gone == fitted.evicted
<1>1. n \in Nat /\ DOMAIN turns = 1 .. n /\ Offset \in Nat
  BY DEF TypeOK, Offset
<1>2. \A p, q \in DOMAIN turns : (SegmentOf(p) = SegmentOf(q) => p = q)
                                 /\ (p < q => SegmentOf(p) < SegmentOf(q))
  BY <1>1 DEF SegmentOf
<1>3. history = {SegmentOf(p) : p \in Said} /\ Said \subseteq DOMAIN turns
  BY PromptShape DEF Said
<1>4. DOMAIN fitted.keep = DOMAIN BuildSegments \ gone
  BY DEF GivesUpOldest, Without, Restrict
<1>5. \A p \in DOMAIN turns : p \in Kept(fitted) <=> SegmentOf(p) \notin gone
  BY <1>4, PromptShape DEF Kept
<1>6. gone \subseteq history
  BY DEF GivesUpOldest
<1>7. ASSUME NEW p \in DOMAIN turns \ Said PROVE p \in Kept(fitted)
  BY <1>2, <1>3, <1>5, <1>6
<1>8. ASSUME NEW p \in Said \cap Kept(fitted), NEW q \in DOMAIN turns, q > p
      PROVE  q \in Kept(fitted)
  <2>1. p \in DOMAIN turns /\ SegmentOf(p) < SegmentOf(q) /\ SegmentOf(p) \in history
    BY <1>1, <1>2, <1>3, <1>8
  <2>2. SegmentOf(p) \notin gone
    BY <1>5, <2>1
  <2>3. SegmentOf(q) \notin gone
    BY <2>1, <2>2 DEF GivesUpOldest
  <2> QED
    BY <1>5, <2>3
<1>9. ASSUME NEW p \in Said, n - p < RecentHistory
      PROVE  p \in Kept(fitted)
  <2> DEFINE newer == {g \in history : g > SegmentOf(p)}
             interval == SegmentOf(p) + 1 .. SegmentOf(n)
  <2>1. p \in 1 .. n
    BY <1>1, <1>3
  <2>2. SegmentOf(p) \in Int /\ SegmentOf(n) \in Int /\ SegmentOf(n) - SegmentOf(p) = n - p
    BY <1>1, <2>1 DEF SegmentOf
  <2>3. newer \subseteq interval
    <3>1. \A q \in Said : SegmentOf(q) \in Int /\ SegmentOf(q) <= SegmentOf(n)
      BY <1>1, <1>3 DEF SegmentOf
    <3> QED
      BY <1>3, <2>2, <3>1
  <2>4. IsFiniteSet(interval) /\ Cardinality(interval) = n - p
    <3>1. SegmentOf(p) + 1 \in Int /\ SegmentOf(n) \in Int
      BY <2>2
    <3>2. /\ IsFiniteSet(interval)
          /\ Cardinality(interval) = IF SegmentOf(p) + 1 > SegmentOf(n) THEN 0
                                     ELSE SegmentOf(n) - (SegmentOf(p) + 1) + 1
      BY <3>1, FS_Interval
    <3> QED
      BY <1>1, <2>1, <2>2, <3>2
  <2>5. Cardinality(newer) \in Nat /\ Cardinality(newer) <= n - p
    <3> HIDE DEF newer, interval
    <3> QED
      BY <2>3, <2>4, FS_Subset, FS_CardinalityType
  <2>6. ~(Cardinality(newer) >= RecentHistory)
    <3> HIDE DEF newer
    <3> QED
      BY <1>1, <1>9, <2>1, <2>5, LimitAssumption
  <2>7. SegmentOf(p) \notin gone
    BY <2>6 DEF GivesUpOldest
  <2> QED
    BY <1>3, <1>5, <2>7
<1> QED
  BY <1>7, <1>8, <1>9

\* A choice of turns that separates no results from the calls they answer.
KeepsPairs(sent) ==
  /\ sent \subseteq DOMAIN turns
  /\ DOMAIN turns \ Said \subseteq sent
  /\ \A p \in Said \cap sent : \A q \in DOMAIN turns : q > p => q \in sent
  /\ \A p \in sent : turns[p].results # <<>> => p - 1 \in sent
  /\ \A p \in Said : Len(turns) - p < RecentHistory => p \in sent

LEMMA SentKeepsPairs ==
  ASSUME TypeOK, Conversation, pc = "Turn",
         NEW fitted, GivesUpOldest(BuildSegments, fitted)
  PROVE  KeepsPairs(EvictFromTurns(fitted.keep))
<1> DEFINE n == Len(turns)
           kept == Kept(fitted)
           talk == {p \in kept : turns[p].role # "System"}
           orphans == {p \in talk : \A q \in talk : q <= p => turns[q].results # <<>>}
           sent == EvictFromTurns(fitted.keep)
<1>1. sent = kept \ orphans
  BY DEF EvictFromTurns, Kept
<1>2. n \in Nat /\ DOMAIN turns = 1 .. n
  BY DEF TypeOK
<1>3. kept \subseteq DOMAIN turns /\ talk = kept \cap Said /\ Said \subseteq DOMAIN turns
  BY DEF Kept, Said
<1>4. \A p \in DOMAIN turns : p > 1 \/ turns[p].results # <<>> \/ turns[p].calls # <<>> => p \in Said
  BY <1>2 DEF Conversation, Said
<1> HIDE DEF kept, talk
<1>5. \A p \in talk : p \in sent <=> \E q \in talk : q <= p /\ turns[q].results = <<>>
  BY <1>1, <1>3
<1>6. DOMAIN turns \ Said \subseteq sent
  BY <1>1, <1>3, KeptTurns DEF kept
<1>7. ASSUME NEW p \in Said \cap sent, NEW q \in DOMAIN turns, q > p
      PROVE  q \in sent
  <2>1. p \in talk /\ p \in 1 .. n /\ q \in 1 .. n
    BY <1>1, <1>2, <1>3
  <2>2. PICK r \in talk : r <= p /\ turns[r].results = <<>>
    BY <1>5, <2>1
  <2>3. r \in 1 .. n
    BY <1>2, <1>3
  <2>4. r <= q
    BY <1>2, <1>7, <2>1, <2>2, <2>3
  <2>5. q \in Said
    BY <1>2, <1>4, <1>7, <2>1
  <2>6. q \in kept
    BY <1>3, <1>7, <2>1, KeptTurns DEF kept
  <2> QED
    BY <1>3, <1>5, <2>2, <2>4, <2>5, <2>6
<1>8. ASSUME NEW p \in sent, turns[p].results # <<>>
      PROVE  p - 1 \in sent
  <2>1. p \in 1 .. n /\ p \in talk
    BY <1>1, <1>2, <1>3, <1>4, <1>8
  <2>2. p > 1 /\ p - 1 \in DOMAIN turns
    BY <1>2, <1>8, <2>1 DEF Conversation
  <2>3. PICK q \in talk : q <= p /\ turns[q].results = <<>>
    BY <1>5, <2>1
  <2>4. q \in Said /\ q \in 1 .. n
    BY <1>2, <1>3
  <2>5. q \in sent
    BY <1>5, <2>3, <2>4
  <2>6. q = p - 1 \/ p - 1 > q
    BY <1>2, <1>8, <2>1, <2>3, <2>4
  <2> QED
    BY <1>7, <2>2, <2>4, <2>5, <2>6
<1>9. ASSUME NEW p \in Said, n - p < RecentHistory
      PROVE  p \in sent
  <2>1. p \in kept /\ p \in talk /\ p \in 1 .. n
    BY <1>2, <1>3, <1>9, KeptTurns DEF kept
  <2>2. CASE turns[p].results = <<>>
    BY <1>2, <1>5, <2>1, <2>2
  <2>3. CASE turns[p].results # <<>>
    <3>1. p > 1 /\ turns[p - 1].calls = turns[p].results /\ p - 1 \in 1 .. n
      BY <1>2, <2>1, <2>3 DEF Conversation
    <3>2. turns[p - 1].results = <<>> /\ p - 1 \in Said
      BY <1>2, <1>4, <2>3, <3>1 DEF Conversation
    <3>3. (n - p) % 2 = 0
      BY <1>2, <2>1, <2>3 DEF Conversation
    <3>4. n - (p - 1) < RecentHistory
      BY <1>2, <1>9, <2>1, <3>3, LimitAssumption, FloorAssumption
    <3>5. p - 1 \in kept /\ p - 1 \in talk
      BY <1>3, <3>2, <3>4, KeptTurns DEF kept
    <3>6. p - 1 <= p
      BY <1>2, <2>1
    <3> QED
      BY <1>5, <2>1, <3>2, <3>5, <3>6
  <2> QED
    BY <2>2, <2>3
<1>10. sent \subseteq DOMAIN turns
  BY <1>1, <1>3
<1> HIDE DEF sent
<1>11. KeepsPairs(sent)
  BY <1>6, <1>7, <1>8, <1>9, <1>10 DEF KeepsPairs
<1> QED
  BY <1>11 DEF sent

--------------------------------------------------------------------------------
(* Sending it.                                                             *)

\* What Ask hands over: the turns that a fitted prompt keeps in pairs, and the marks of a
\* plan for that prompt.
Sends(fitted, plan) ==
  /\ GivesUpOldest(BuildSegments, fitted)
  /\ fitted.fits
  /\ plan = Plan(fitted.keep, previous, Caps)
  /\ KeepsPairs(DOMAIN request'.turns)
  /\ DOMAIN request'.turns = EvictFromTurns(fitted.keep)
  /\ \A p \in DOMAIN request'.turns : request'.turns[p] = turns[p]
  /\ request'.marks = plan.marks
  /\ previous' = FromSegments(fitted.keep)
  /\ events' = (Append(events, TurnEvent("TurnStarted")) \o Warned(PressureWarnings(fitted)))
                 \o Warned(plan.warnings)

LEMMA AskSends ==
  ASSUME TypeOK, Conversation, Ask
  PROVE  \E fitted, plan : Sends(fitted, plan)
<1> DEFINE fitted == Fit(BuildSegments, Ceiling, RecentHistory)
           plan == Plan(fitted.keep, previous, Caps)
<1>1. fitted.fits /\ Send(fitted, plan) /\ pc = "Turn"
  BY DEF Ask
<1>2. BuildSegments = [i \in DOMAIN BuildSegments |-> BuildSegments[i]]
  BY DEF BuildSegments
<1>3. GivesUpOldest(BuildSegments, fitted)
  BY <1>2, PromptShape, FitGivesUpOldest
<1>4. plan = Plan(fitted.keep, previous, Caps)
  OBVIOUS
<1> HIDE DEF fitted, plan
<1>5. KeepsPairs(EvictFromTurns(fitted.keep))
  BY <1>1, <1>3, SentKeepsPairs
<1>6. /\ request'.turns = Restrict(turns, EvictFromTurns(fitted.keep))
      /\ request'.marks = plan.marks
  BY <1>1 DEF Send
<1>7. /\ DOMAIN request'.turns = EvictFromTurns(fitted.keep)
      /\ \A p \in DOMAIN request'.turns : request'.turns[p] = turns[p]
  BY <1>6 DEF Restrict
<1>8. Sends(fitted, plan)
  BY <1>1, <1>3, <1>4, <1>5, <1>6, <1>7 DEF Sends, Send
<1> QED
  BY <1>8

\* Every other step leaves what was sent alone.
LEMMA SentStays ==
  [Next]_vars => Ask \/ UNCHANGED <<request, previous>>
BY DEF Next, Environment, Loop, Over, vars, ListTools, ListFails, DoesNotFit, TurnLimit,
   ProviderFails, FinalAnswer, CallsAnswer, RecordAnswer, RefuseCall, CallTool,
   HostAnswers, CloseTurn, context

LEMMA OnlyAskAsks ==
  [Next]_vars /\ pc' = "Model" => Ask \/ UNCHANGED vars
BY DEF Next, Environment, Loop, Over, vars, ListTools, ListFails, DoesNotFit, TurnLimit,
   ProviderFails, FinalAnswer, CallsAnswer, RecordAnswer, RefuseCall, CallTool,
   HostAnswers, CloseTurn, End

LEMMA StepPaired ==
  TypeOK /\ Conversation /\ PromptIsPaired /\ [Next]_vars => PromptIsPaired'
<1> SUFFICES ASSUME TypeOK, Conversation, PromptIsPaired, [Next]_vars
             PROVE  PromptIsPaired'
  OBVIOUS
<1>1. CASE UNCHANGED request
  BY <1>1 DEF PromptIsPaired, Adjacent
<1>2. CASE Ask
  <2> DEFINE sent == DOMAIN request'.turns
             n == Len(turns)
  <2>1. KeepsPairs(sent) /\ \A p \in sent : request'.turns[p] = turns[p]
    BY <1>2, AskSends DEF Sends
  <2>2. n \in Nat /\ DOMAIN turns = 1 .. n /\ sent \subseteq 1 .. n
    BY <2>1 DEF TypeOK, KeepsPairs
  <2>3. turns[n].calls = <<>>
    BY <1>2 DEF Ask, Conversation
  <2>4. \A p \in sent : Adjacent(sent, p, p + 1) /\ Adjacent(sent, p - 1, p)
    <3> HIDE DEF sent
    <3> QED
      BY <2>2 DEF Adjacent
  <2>5. ASSUME NEW p \in sent, turns[p].calls # <<>>
        PROVE  p + 1 \in sent /\ turns[p + 1].results = turns[p].calls
    <3>1. p \in Said
      BY <2>2, <2>5 DEF Said, Conversation
    <3>2. p < n /\ p + 1 \in DOMAIN turns
      BY <2>2, <2>3, <2>5
    <3> QED
      BY <2>1, <2>2, <2>5, <3>1, <3>2 DEF KeepsPairs, Conversation
  <2>6. ASSUME NEW p \in sent, turns[p].results # <<>>
        PROVE  p - 1 \in sent /\ turns[p - 1].calls = turns[p].results
    BY <2>1, <2>2, <2>6 DEF KeepsPairs, Conversation
  <2> HIDE DEF sent
  <2> QED
    BY <2>1, <2>4, <2>5, <2>6 DEF PromptIsPaired, sent
<1> QED
  BY <1>1, <1>2, SentStays

LEMMA StepTail ==
  TypeOK /\ Conversation /\ RecentTailIsSent /\ [Next]_vars => RecentTailIsSent'
<1> SUFFICES ASSUME TypeOK, Conversation, RecentTailIsSent, [Next]_vars, pc' = "Model"
             PROVE  RecentTailIsSent'
  BY DEF RecentTailIsSent
<1>1. CASE UNCHANGED vars
  BY <1>1 DEF RecentTailIsSent, vars, context
<1>2. CASE Ask
  <2> DEFINE sent == DOMAIN request'.turns
             n == Len(turns)
  <2>1. KeepsPairs(sent)
    BY <1>2, AskSends DEF Sends
  <2>2. n \in Nat /\ DOMAIN turns = 1 .. n /\ turns' = turns
    BY <1>2 DEF Ask, TypeOK
  <2>3. ASSUME NEW p \in Said, Cardinality({q \in Said : q > p}) < RecentHistory
        PROVE  p \in sent
    <3>1. p \in 1 .. n /\ Said \subseteq 1 .. n
      BY <2>2 DEF Said
    <3>2. \A q \in 1 .. n : q > 1 => q \in Said
      BY <2>2 DEF Said, Conversation
    <3>3. {q \in Said : q > p} = p + 1 .. n
      <4>1. n \in Nat
        BY <2>2
      <4> HIDE DEF n
      <4>2. \A q \in p + 1 .. n : q \in 1 .. n /\ q > 1 /\ q > p
        BY <3>1, <4>1
      <4>3. \A q \in Said : q > p => q \in p + 1 .. n
        BY <3>1, <4>1
      <4> QED
        BY <3>2, <4>2, <4>3
    <3>4. p + 1 \in Int /\ n \in Int
      BY <2>2, <3>1
    <3>5. Cardinality(p + 1 .. n) = IF p + 1 > n THEN 0 ELSE n - (p + 1) + 1
      BY <3>4, FS_Interval
    <3>6. n - p < RecentHistory
      <4>1. Cardinality(p + 1 .. n) < RecentHistory /\ n \in Nat
        BY <2>2, <2>3, <3>3
      <4> HIDE DEF n
      <4> QED
        BY <3>1, <3>5, <4>1, LimitAssumption
    <3> QED
      BY <2>1, <3>6 DEF KeepsPairs
  <2> QED
    BY <2>2, <2>3 DEF RecentTailIsSent, Said
<1> QED
  BY <1>1, <1>2, OnlyAskAsks

--------------------------------------------------------------------------------
(* Where the marks land.                                                   *)

\* Before the tools are listed nothing has been sent.
NothingYet ==
  pc = "Listing" =>
    request = NoRequest /\ previous = <<>>
      /\ events = <<[kind |-> "RunStarted", turn |-> 0]>>

LEMMA StepNothingYet == [Next]_vars /\ NothingYet => NothingYet'
BY DEF NothingYet, Next, Environment, Loop, Over, vars, ListTools, ListFails, DoesNotFit,
   TurnLimit, ProviderFails, FinalAnswer, CallsAnswer, RefuseCall, CallTool, Ask,
   HostAnswers, CloseTurn, End, context

\* Only the tool block and the system turn are worth a mark.
LEMMA MarksAreOnTheFront ==
  ASSUME TypeOK, Conversation, NEW fitted, NEW plan, Sends(fitted, plan),
         NEW mark \in plan.marks
  PROVE  \/ catalog # {} /\ mark.at = 0
         \/ 1 \in DOMAIN turns \ Said /\ mark.at = SegmentOf(1)
<1> DEFINE prompt == fitted.keep
<1>1. mark.at \in Usable(previous, prompt, Caps)
  <2>1. \A ids, n : Covering(prompt, ids, n) \subseteq ids
    BY DEF Covering
  <2>2. \A ids : \A m \in MarksAt(prompt, ids, Caps) : m.at \in ids
    BY DEF MarksAt
  <2>3. \E ids : plan.marks = MarksAt(prompt, ids, Caps)
                 /\ ids \subseteq Usable(previous, prompt, Caps)
    BY <2>1 DEF Plan, Sends
  <2> QED
    BY <2>2, <2>3
<1>2. mark.at \in DOMAIN prompt /\ IsCacheable(prompt[mark.at].stability)
  BY <1>1 DEF Usable, StableRunEnds, Stable
<1>3. mark.at \in DOMAIN BuildSegments /\ prompt[mark.at] = BuildSegments[mark.at]
  BY <1>2 DEF Sends, GivesUpOldest, Without, Restrict
<1>4. CASE \E c \in catalog : mark.at = 0
  BY <1>4
<1>5. CASE \E p \in DOMAIN turns : mark.at = SegmentOf(p)
  <2>1. PICK p \in DOMAIN turns : mark.at = SegmentOf(p)
    BY <1>5
  <2>2. BuildSegments[mark.at] = TurnSegment(turns[p])
    BY <2>1, PromptShape
  <2>3. turns[p].role = "System"
    BY <1>2, <1>3, <2>2 DEF TurnSegment, IsCacheable
  <2> QED
    BY <2>1, <2>3 DEF Conversation, Said
<1> QED
  BY <1>3, <1>4, <1>5, PromptShape

LEMMA PlanOrdersTtls ==
  ASSUME NEW prompt, NEW before, NEW caps, DOMAIN prompt \subseteq Nat
  PROVE  TtlsAreCorrectlyOrdered(Plan(prompt, before, caps).marks)
<1>1. \A ids, n : Covering(prompt, ids, n) \subseteq ids
  BY DEF Covering
<1>2. Usable(before, prompt, caps) \subseteq Nat
  BY DEF Usable, StableRunEnds, Stable
<1>3. PICK ids \in SUBSET Nat : Plan(prompt, before, caps).marks = MarksAt(prompt, ids, caps)
  <2>1. {} \in SUBSET Nat
    OBVIOUS
  <2> QED
    BY <1>1, <1>2, <2>1 DEF Plan
<1>4. \A i, j \in ids : i < j /\ EarnsLong(prompt, ids, j) => EarnsLong(prompt, ids, i)
  BY DEF EarnsLong
<1> QED
  BY <1>3, <1>4 DEF TtlsAreCorrectlyOrdered, MarksAt

LEMMA StepMarks ==
  TypeOK /\ Conversation /\ NothingYet /\ MarksLandWherePlanned /\ [Next]_vars
    => MarksLandWherePlanned'
<1> SUFFICES ASSUME TypeOK, Conversation, NothingYet, MarksLandWherePlanned, [Next]_vars
             PROVE  MarksLandWherePlanned'
  OBVIOUS
<1>1. CASE UNCHANGED <<request, catalog>>
  <2>1. \A mark : LandsAt(mark)' = LandsAt(mark) /\ OnTools(mark)' = OnTools(mark)
    BY <1>1 DEF LandsAt, OnTools, Offset
  <2>2. \A p : SegmentOf(p)' = SegmentOf(p)
    BY <1>1 DEF SegmentOf, Offset
  <2> QED
    BY <1>1, <2>1, <2>2 DEF MarksLandWherePlanned
<1>2. CASE ListTools
  <2>1. request' = NoRequest
    BY <1>2 DEF NothingYet, ListTools
  <2> QED
    BY <2>1 DEF NoRequest, MarksLandWherePlanned, TtlsAreCorrectlyOrdered
<1>3. CASE Ask
  <2>1. PICK fitted, plan : Sends(fitted, plan)
    BY <1>3, AskSends
  <2>2. catalog' = catalog
    BY <1>3 DEF Ask
  <2> DEFINE sent == DOMAIN request'.turns
  <2>3. DOMAIN fitted.keep \subseteq Nat
    <3>1. DOMAIN fitted.keep \subseteq DOMAIN BuildSegments
      BY <2>1 DEF Sends, GivesUpOldest, Without, Restrict
    <3> QED
      BY <3>1, PromptIds DEF TypeOK
  <2>4. TtlsAreCorrectlyOrdered(request'.marks)
    BY <2>1, <2>3, PlanOrdersTtls DEF Sends
  <2>5. ASSUME NEW mark \in request'.marks
        PROVE  \/ OnTools(mark)'
               \/ \E p \in sent : LandsAt(mark)' = {p} /\ SegmentOf(p)' = mark.at
    <3>1. mark \in plan.marks
      BY <2>1 DEF Sends
    <3>2. CASE catalog # {} /\ mark.at = 0
      BY <2>2, <3>2 DEF OnTools
    <3>3. CASE 1 \in DOMAIN turns \ Said /\ mark.at = SegmentOf(1)
      <4>1. 1 \in sent
        BY <2>1, <3>3 DEF Sends, KeepsPairs
      <4>2. sent \subseteq Nat \ {0} /\ IsFiniteSet(sent)
        <5>1. Len(turns) \in Nat /\ DOMAIN turns = 1 .. Len(turns)
          BY DEF TypeOK
        <5>2. sent \subseteq 1 .. Len(turns)
          BY <2>1, <5>1 DEF Sends, KeepsPairs
        <5>3. IsFiniteSet(1 .. Len(turns))
          BY <5>1, FS_Interval
        <5> HIDE DEF sent
        <5>4. IsFiniteSet(sent)
          BY <5>2, <5>3, FS_Subset
        <5> QED
          BY <5>2, <5>4
      <4> DEFINE below(p) == {q \in sent : q < p}
      <4>3. \A p \in sent : Cardinality(below(p)) = 0 <=> p = 1
        <5> TAKE p \in sent
        <5>1. IsFiniteSet(below(p))
          BY <4>2, FS_Subset
        <5>2. Cardinality(below(p)) = 0 <=> below(p) = {}
          <6> HIDE DEF below
          <6> QED
            BY <5>1, FS_EmptySet
        <5>3. below(p) = {} <=> p = 1
          BY <4>1, <4>2
        <5> QED
          BY <5>2, <5>3
      <4>4. \A p \in sent : Cardinality(below(p)) \in Nat
        <5> TAKE p \in sent
        <5>1. IsFiniteSet(below(p))
          BY <4>2, FS_Subset
        <5> QED
          BY <5>1, FS_CardinalityType
      <4>5. Offset' = Offset /\ Offset \in Nat /\ mark.at = Offset
        BY <2>2, <3>3 DEF Offset, SegmentOf
      <4>6. LandsAt(mark)' = {p \in sent : Cardinality(below(p)) + Offset = mark.at}
        BY <4>5 DEF LandsAt
      <4>7. LandsAt(mark)' = {1}
        <5> HIDE DEF below, sent
        <5> QED
          BY <4>1, <4>3, <4>4, <4>5, <4>6
      <4>8. SegmentOf(1)' = mark.at
        BY <3>3, <4>5 DEF SegmentOf
      <4> QED
        BY <4>1, <4>7, <4>8
    <3> QED
      BY <2>1, <3>1, <3>2, <3>3, MarksAreOnTheFront
  <2> QED
    BY <2>4, <2>5 DEF MarksLandWherePlanned
<1>4. Ask \/ ListTools \/ UNCHANGED <<request, catalog>>
  BY DEF Next, Environment, Loop, Over, vars, ListFails, DoesNotFit, TurnLimit,
     ProviderFails, FinalAnswer, CallsAnswer, RecordAnswer, RefuseCall, CallTool,
     HostAnswers, CloseTurn, context
<1> QED
  BY <1>1, <1>2, <1>3, <1>4

--------------------------------------------------------------------------------
(* What the stream is told.                                                *)

\* A batch that is about neither eviction nor churn.
Quiet(batch) ==
  batch \subseteq Warning /\ \A w \in batch : w.kind \notin {"CacheChurn", "BudgetPressure"}
QuietEvents ==
  {e \in Event : e.kind = "Warned" => e.turn = turn /\ Quiet(e.warnings)}

\* A longer log whose new events are all of one sort.
Adds(log, S) ==
  /\ log \in Seq(Event)
  /\ Len(events) <= Len(log)
  /\ \A i \in DOMAIN log :
       (i \in DOMAIN events /\ log[i] = events[i]) \/ (log[i] \in S /\ i \notin DOMAIN events)
  /\ \A i \in DOMAIN events : log[i] = events[i]

LEMMA AddsNothing ==
  ASSUME events \in Seq(Event), NEW S PROVE Adds(events, S)
BY DEF Adds

LEMMA AddsMore ==
  ASSUME events \in Seq(Event), NEW S \in SUBSET Event, NEW log, Adds(log, S),
         NEW more \in Seq(S)
  PROVE  Adds(log \o more, S)
<1>1. log \in Seq(Event) /\ more \in Seq(Event)
  BY DEF Adds
<1> DEFINE all == log \o more
<1>2. /\ all \in Seq(Event) /\ Len(all) = Len(log) + Len(more)
      /\ Len(log) \in Nat /\ Len(more) \in Nat /\ Len(events) \in Nat
      /\ DOMAIN all = 1 .. Len(log) + Len(more) /\ DOMAIN log = 1 .. Len(log)
      /\ DOMAIN more = 1 .. Len(more) /\ DOMAIN events = 1 .. Len(events)
  BY <1>1, ConcatProperties
<1>3. /\ \A i \in 1 .. Len(log) : all[i] = log[i]
      /\ \A i \in 1 .. Len(log) + Len(more) : i > Len(log) =>
           all[i] = more[i - Len(log)] /\ i - Len(log) \in 1 .. Len(more)
  BY <1>1, <1>2, ConcatProperties
<1>4. \A i \in 1 .. Len(more) : more[i] \in S
  BY <1>2
<1>5. Len(events) <= Len(log)
  BY DEF Adds
<1> HIDE DEF all
<1>6. Len(events) <= Len(all)
  BY <1>2, <1>5
<1>7. \A i \in DOMAIN events : i \in DOMAIN log /\ all[i] = events[i]
  BY <1>2, <1>3, <1>5 DEF Adds
<1>8. ASSUME NEW i \in DOMAIN all
      PROVE (i \in DOMAIN events /\ all[i] = events[i]) \/ (all[i] \in S /\ i \notin DOMAIN events)
  <2>1. CASE i <= Len(log)
    BY <1>2, <1>3, <2>1 DEF Adds
  <2>2. CASE i > Len(log)
    BY <1>2, <1>3, <1>4, <1>5, <2>2
  <2> QED
    BY <1>2, <2>1, <2>2
<1>9. Adds(all, S)
  BY <1>2, <1>6, <1>7, <1>8 DEF Adds
<1> QED
  BY <1>9 DEF all

LEMMA AddsOne ==
  ASSUME events \in Seq(Event), NEW S \in SUBSET Event, NEW log, Adds(log, S),
         NEW e \in S
  PROVE  Adds(Append(log, e), S)
<1>1. log \in Seq(Event) /\ e \in Event
  BY DEF Adds
<1>2. Append(log, e) = log \o <<e>> /\ <<e>> \in Seq(S)
  BY <1>1, AppendIsConcat
<1> QED
  BY <1>2, AddsMore

LEMMA QuietWarned ==
  ASSUME turn \in Nat, NEW batch, Quiet(batch)
  PROVE  Warned(batch) \in Seq(QuietEvents)
<1>1. CASE batch = {}
  BY <1>1 DEF Warned
<1>2. CASE batch # {}
  <2>1. [kind |-> "Warned", turn |-> turn, warnings |-> batch] \in QuietEvents
    BY DEF Event, QuietEvents, Quiet
  <2> QED
    BY <1>2, <2>1 DEF Warned
<1> QED
  BY <1>1, <1>2

LEMMA OthersAreQuiet ==
  ASSUME turn \in Nat
  PROVE  /\ \A kind \in {"TurnStarted", "UsageUpdated", "TurnFinished"} :
              TurnEvent(kind) \in QuietEvents
         /\ \A kind \in {"ToolCallStarted", "ToolCallFinished", "ToolCallFailed"},
               i \in Nat : CallEvent(kind, i) \in QuietEvents
         /\ \A sums \in Totals : Finished(sums) \in QuietEvents
<1>1. /\ \A kind \in {"TurnStarted", "UsageUpdated", "TurnFinished"} :
           TurnEvent(kind) \in Event
      /\ \A kind \in {"ToolCallStarted", "ToolCallFinished", "ToolCallFailed"},
            i \in Nat : CallEvent(kind, i) \in Event
  BY EventType DEF LoopEvent
<1>2. \A sums \in Totals : Finished(sums) \in Event
  BY DEF Finished, Event
<1> QED
  BY <1>1, <1>2 DEF QuietEvents, TurnEvent, CallEvent, Finished

LEMMA AnswersAreQuiet ==
  ASSUME TypeOK, NEW r \in Answers
  PROVE  AnswerEvents(r) \in Seq(QuietEvents)
<1>1. turn \in Nat
  BY LimitAssumption DEF TypeOK
<1>2. Quiet(ArrivalWarnings(r)) /\ Quiet(AnswerWarnings(r))
  <2>1. \A what \in Degradations : Quiet({Degraded(what)})
    BY DEF Quiet, Degraded, Warning
  <2>2. Quiet({}) /\ \A a, b : Quiet(a) /\ Quiet(b) => Quiet(a \cup b)
    BY DEF Quiet
  <2>3. servedBy # NoRoute =>
          Quiet({[kind |-> "RouteChanged", from |-> servedBy, to |-> r.route]})
    BY AnswerType DEF Quiet, Warning, TypeOK
  <2>4. BlocksAdded(r) \in Nat
    BY AnswerType DEF BlocksAdded
  <2>5. Quiet({[kind |-> "LookbackExceeded", blocks |-> BlocksAdded(r)]})
    BY <2>4 DEF Quiet, Warning
  <2>6. Quiet(ArrivalWarnings(r))
    BY <2>1, <2>2, <2>3 DEF ArrivalWarnings, Degradations
  <2>7. Quiet(AnswerWarnings(r))
    BY <2>1, <2>2, <2>5 DEF AnswerWarnings, CheckLookback, Degradations
  <2> QED
    BY <2>6, <2>7
<1>3. <<TurnEvent("UsageUpdated")>> \in Seq(QuietEvents)
  BY <1>1, OthersAreQuiet
<1>4. Warned(ArrivalWarnings(r)) \in Seq(QuietEvents) /\ Warned(AnswerWarnings(r)) \in Seq(QuietEvents)
  BY <1>1, <1>2, QuietWarned
<1> QED
  BY <1>3, <1>4, ConcatProperties DEF AnswerEvents

\* Only sending a prompt may tell of eviction or churn.
AddsQuietly == Adds(events', QuietEvents)

LEMMA StepAddsQuietly ==
  ASSUME TypeOK, [Next]_vars
  PROVE  Ask \/ AddsQuietly
<1>0. turn \in Nat /\ totals \in Totals /\ next \in Nat /\ events \in Seq(Event)
      /\ QuietEvents \subseteq Event
  BY LimitAssumption DEF TypeOK, QuietEvents
<1> DEFINE Q == QuietEvents
<1> SUFFICES ASSUME ~Ask PROVE Adds(events', Q)
  BY DEF AddsQuietly
<1>1. Adds(events, Q)
  BY <1>0, AddsNothing
<1>2. ASSUME NEW more \in Seq(Q) PROVE Adds(events \o more, Q)
  BY <1>0, <1>1, AddsMore
<1>3. ASSUME NEW e \in Q PROVE Adds(Append(events, e), Q)
  BY <1>0, <1>1, AddsOne
<1>4. ASSUME NEW how, NEW last \in Seq(Q), NEW sums \in Totals, End(how, last, sums)
      PROVE  Adds(events', Q)
  <2>1. <<Finished(sums)>> \in Seq(Q)
    BY <1>0, OthersAreQuiet
  <2>2. last \o <<Finished(sums)>> \in Seq(Q)
    BY <2>1, ConcatProperties
  <2>3. events' = events \o (last \o <<Finished(sums)>>)
    <3>1. last \in Seq(Event) /\ <<Finished(sums)>> \in Seq(Event)
      BY <1>0, <2>1
    <3> QED
      BY <1>0, <1>4, <3>1, ConcatAssociative DEF End
  <2> QED
    BY <1>2, <2>2, <2>3
<1>5. <<>> \in Seq(Q)
  BY EmptySeq
<1> HIDE DEF Q
<1>6. CASE ListTools
  <2>1. Quiet(IF catalog' = {} THEN {Degraded("tool-catalog")} ELSE {})
    BY DEF Quiet, Degraded, Warning, Degradations
  <2>2. Warned(IF catalog' = {} THEN {Degraded("tool-catalog")} ELSE {}) \in Seq(Q)
    BY <1>0, <2>1, QuietWarned DEF Q
  <2> QED
    BY <1>2, <1>6, <2>2 DEF ListTools
<1>7. CASE ListFails \/ TurnLimit \/ ProviderFails
  BY <1>0, <1>4, <1>5, <1>7 DEF ListFails, TurnLimit, ProviderFails
<1>8. CASE DoesNotFit
  <2>1. <<TurnEvent("TurnStarted")>> \in Seq(Q)
    BY <1>0, OthersAreQuiet DEF Q
  <2> QED
    BY <1>0, <1>4, <1>8, <2>1 DEF DoesNotFit
<1>9. CASE \E r \in Answers : FinalAnswer(r)
  <2>1. PICK r \in Answers : FinalAnswer(r)
    BY <1>9
  <2>2. AnswerEvents(r) \in Seq(Q) /\ <<TurnEvent("TurnFinished")>> \in Seq(Q)
    BY <1>0, AnswersAreQuiet, OthersAreQuiet DEF Q
  <2>3. AnswerEvents(r) \o <<TurnEvent("TurnFinished")>> \in Seq(Q)
    BY <2>2, ConcatProperties
  <2>4. totals' \in Totals
    BY <2>1, RecordAnswerType DEF FinalAnswer
  <2> QED
    BY <1>4, <2>1, <2>3, <2>4 DEF FinalAnswer
<1>10. CASE \E r \in Answers : CallsAnswer(r)
  <2>1. PICK r \in Answers : CallsAnswer(r)
    BY <1>10
  <2>2. Quiet(CapWarnings(r))
    BY AnswerType DEF CapWarnings, Warning, Quiet
  <2>3. AnswerEvents(r) \in Seq(Q) /\ Warned(CapWarnings(r)) \in Seq(Q)
    BY <1>0, <2>2, AnswersAreQuiet, QuietWarned DEF Q
  <2>4. Adds(events \o AnswerEvents(r), Q)
    BY <1>2, <2>3
  <2>5. Adds((events \o AnswerEvents(r)) \o Warned(CapWarnings(r)), Q)
    BY <1>0, <2>3, <2>4, AddsMore DEF Q
  <2> QED
    BY <2>1, <2>5 DEF CallsAnswer
<1>11. CASE RefuseCall
  <2>1. <<CallEvent("ToolCallStarted", next), CallEvent("ToolCallFailed", next)>> \in Seq(Q)
    BY <1>0, OthersAreQuiet DEF Q
  <2> QED
    BY <1>2, <1>11, <2>1 DEF RefuseCall
<1>12. CASE CallTool
  <2>1. CallEvent("ToolCallStarted", next) \in Q
    BY <1>0, OthersAreQuiet DEF Q
  <2> QED
    BY <1>3, <1>12, <2>1 DEF CallTool
<1>13. CASE \E answered \in HostOutcomes, size \in Sizes : HostAnswers(answered, size)
  <2>1. PICK answered \in HostOutcomes, size \in Sizes : HostAnswers(answered, size)
    BY <1>13
  <2>2. CallEvent(IF ReportsFailure(answered) THEN "ToolCallFailed"
                  ELSE "ToolCallFinished", next) \in Q
    BY <1>0, OthersAreQuiet DEF Q
  <2> QED
    BY <1>3, <2>1, <2>2 DEF HostAnswers
<1>14. CASE CloseTurn
  <2>1. TurnEvent("TurnFinished") \in Q
    BY <1>0, OthersAreQuiet DEF Q
  <2> QED
    BY <1>3, <1>14, <2>1 DEF CloseTurn
<1>15. CASE Over \/ UNCHANGED vars
  BY <1>1, <1>15 DEF Over, vars
<1> QED
  BY <1>6, <1>7, <1>8, <1>9, <1>10, <1>11, <1>12, <1>13, <1>14, <1>15
  DEF Next, Environment, Loop

--------------------------------------------------------------------------------
(* The prefix.                                                             *)

\* What was hashed last turn is still there, and what is cacheable still hashes so.
Remembers ==
  \A i \in DOMAIN previous :
    /\ i \in DOMAIN BuildSegments
    /\ IsCacheable(BuildSegments[i].stability) => previous[i] = BuildSegments[i].hash

ChurnFree == {e \in Event : e.kind = "Warned" => \A w \in e.warnings : w.kind # "CacheChurn"}
NoChurnTold == \A i \in DOMAIN events : events[i] \in ChurnFree

LEMMA PlanIsQuiet ==
  ASSUME NEW prompt, NEW before, NEW caps, DOMAIN prompt \subseteq Nat,
         Churned(before, prompt) = {}
  PROVE  Quiet(Plan(prompt, before, caps).warnings)
<1>1. ChurnWarnings(before, prompt) = {}
  BY DEF ChurnWarnings
<1>2. \A what \in Degradations : Quiet({Degraded(what)})
  BY DEF Quiet, Degraded, Warning
<1>3. Quiet({BelowMinPrefix}) /\ Quiet({})
  BY DEF Quiet, BelowMinPrefix, Warning
<1>4. Quiet(AutomaticWarnings(before, prompt, caps))
  BY <1>2, <1>3 DEF AutomaticWarnings, Degradations
<1>5. \A a : {} \cup a = a
  OBVIOUS
<1>6. Quiet(PlanWarnings(before, prompt, caps))
  BY <1>1, <1>2, <1>3, <1>4, <1>5 DEF PlanWarnings, Degradations
<1> QED
  BY <1>6 DEF Plan

LEMMA AskIsQuiet ==
  ASSUME TypeOK, Conversation, Remembers, NEW fitted, NEW plan, Sends(fitted, plan)
  PROVE  Quiet(plan.warnings) /\ DOMAIN fitted.keep \subseteq DOMAIN BuildSegments
         /\ \A i \in DOMAIN fitted.keep : fitted.keep[i] = BuildSegments[i]
<1>1. /\ DOMAIN fitted.keep \subseteq DOMAIN BuildSegments
      /\ \A i \in DOMAIN fitted.keep : fitted.keep[i] = BuildSegments[i]
  BY DEF Sends, GivesUpOldest, Without, Restrict
<1>2. DOMAIN fitted.keep \subseteq Nat
  BY <1>1, PromptIds DEF TypeOK
<1>3. Churned(previous, fitted.keep) = {}
  BY <1>1 DEF Churned, Changed, Remembers
<1> QED
  BY <1>1, <1>2, <1>3, PlanIsQuiet DEF Sends

LEMMA StepRemembers ==
  TypeOK /\ Conversation /\ NothingYet /\ Remembers /\ [Next]_vars => Remembers'
<1> SUFFICES ASSUME TypeOK, Conversation, NothingYet, Remembers, [Next]_vars
             PROVE  Remembers'
  OBVIOUS
<1>1. CASE UNCHANGED <<previous, catalog, turns>>
  <2>1. BuildSegments' = BuildSegments
    BY <1>1 DEF BuildSegments, ToolSegment, SegmentOf, Offset
  <2> QED
    BY <1>1, <2>1 DEF Remembers
<1>2. CASE ListTools
  BY <1>2 DEF NothingYet, ListTools, Remembers
<1>3. CASE Ask
  <2>1. PICK fitted, plan : Sends(fitted, plan)
    BY <1>3, AskSends
  <2>2. BuildSegments' = BuildSegments
    BY <1>3 DEF Ask, BuildSegments, ToolSegment, SegmentOf, Offset
  <2>3. previous' = [i \in DOMAIN fitted.keep |-> fitted.keep[i].hash]
    BY <2>1 DEF Sends, FromSegments
  <2> QED
    BY <2>1, <2>2, <2>3, AskIsQuiet DEF Remembers
<1>4. ASSUME UNCHANGED <<previous, catalog>>, NEW t \in Turn, turns' = Append(turns, t)
      PROVE  Remembers'
  <2>1. /\ DOMAIN turns \subseteq DOMAIN turns'
        /\ \A p \in DOMAIN turns : turns'[p] = turns[p]
    BY <1>4, TurnAppended DEF TypeOK
  <2>2. Offset' = Offset /\ ToolSegment' = ToolSegment
    BY <1>4 DEF Offset, ToolSegment
  <2>3. \A p : SegmentOf(p)' = SegmentOf(p)
    BY <2>2 DEF SegmentOf
  <2>4. /\ DOMAIN BuildSegments' = {0 : c \in catalog} \cup {SegmentOf(p) : p \in DOMAIN turns'}
        /\ DOMAIN BuildSegments = {0 : c \in catalog} \cup {SegmentOf(p) : p \in DOMAIN turns}
    BY <1>4, <2>3 DEF BuildSegments
  <2>5. DOMAIN BuildSegments \subseteq DOMAIN BuildSegments'
    BY <2>1, <2>4
  <2>6. ASSUME NEW i \in DOMAIN BuildSegments
        PROVE  BuildSegments'[i] = BuildSegments[i]
    <3>1. Len(turns) \in Nat /\ DOMAIN turns = 1 .. Len(turns) /\ Offset \in {0, 1}
      BY DEF TypeOK, Offset
    <3>2. i < Offset \/ i + 1 - Offset \in DOMAIN turns
      BY <2>4, <3>1 DEF SegmentOf, Offset
    <3>3. BuildSegments[i] = IF i < Offset THEN ToolSegment
                             ELSE TurnSegment(turns[i + 1 - Offset])
      BY DEF BuildSegments
    <3>4. BuildSegments'[i] = IF i < Offset THEN ToolSegment
                              ELSE TurnSegment(turns'[i + 1 - Offset])
      BY <2>2, <2>5 DEF BuildSegments, TurnSegment
    <3> QED
      BY <2>1, <3>2, <3>3, <3>4
  <2> QED
    BY <1>4, <2>5, <2>6 DEF Remembers
<1>5. CASE \E r \in Answers : RecordAnswer(r)
  <2>1. PICK r \in Answers : RecordAnswer(r)
    BY <1>5
  <2>2. AssistantTurn(CallIds(r.calls), r.calls, r.size) \in Turn
    BY AssistantTurnType, LimitAssumption DEF TypeOK
  <2> QED
    BY <1>4, <2>1, <2>2 DEF RecordAnswer, context
<1>6. CASE CloseTurn
  BY <1>4, <1>6 DEF CloseTurn, TypeOK, context
<1>7. \/ Ask \/ ListTools \/ CloseTurn \/ \E r \in Answers : RecordAnswer(r)
      \/ UNCHANGED <<previous, catalog, turns>>
  BY DEF Next, Environment, Loop, Over, vars, ListFails, DoesNotFit, TurnLimit,
     ProviderFails, FinalAnswer, CallsAnswer, RefuseCall, CallTool, HostAnswers, context
<1> QED
  BY <1>1, <1>2, <1>3, <1>5, <1>6, <1>7

LEMMA StepNoChurn ==
  TypeOK /\ Conversation /\ Remembers /\ NoChurnTold /\ [Next]_vars => NoChurnTold'
<1> SUFFICES ASSUME TypeOK, Conversation, Remembers, NoChurnTold, [Next]_vars
             PROVE  NoChurnTold'
  OBVIOUS
<1>1. CASE AddsQuietly
  <2>1. QuietEvents \subseteq ChurnFree
    BY DEF QuietEvents, ChurnFree, Quiet
  <2> QED
    BY <1>1, <2>1 DEF Adds, AddsQuietly, NoChurnTold
<1>2. CASE Ask
  <2>1. PICK fitted, plan : Sends(fitted, plan)
    BY <1>2, AskSends
  <2>2. turn \in Nat /\ events \in Seq(Event) /\ ChurnFree \subseteq Event
        /\ QuietEvents \subseteq ChurnFree
    BY LimitAssumption DEF TypeOK, ChurnFree, QuietEvents, Quiet
  <2>3. TurnEvent("TurnStarted") \in ChurnFree
    BY <2>2, OthersAreQuiet
  <2>4. Warned(plan.warnings) \in Seq(ChurnFree)
    BY <2>1, <2>2, AskIsQuiet, QuietWarned
  <2>5. Warned(PressureWarnings(fitted)) \in Seq(ChurnFree)
    <3>1. fitted.evicted \subseteq Nat
      <4>1. fitted.evicted \subseteq DOMAIN BuildSegments
        BY <2>1 DEF Sends, GivesUpOldest, OfKind
      <4> QED
        BY <4>1, PromptIds DEF TypeOK
    <3>2. PressureWarnings(fitted) \subseteq Warning
          /\ \A w \in PressureWarnings(fitted) : w.kind # "CacheChurn"
      BY <3>1 DEF PressureWarnings, Warning
    <3>3. [kind |-> "Warned", turn |-> turn, warnings |-> PressureWarnings(fitted)] \in ChurnFree
      BY <2>2, <3>2 DEF ChurnFree, Event
    <3> QED
      BY <3>3 DEF Warned
  <2>6. Adds(Append(events, TurnEvent("TurnStarted")), ChurnFree)
    BY <2>2, <2>3, AddsNothing, AddsOne
  <2>7. Adds(Append(events, TurnEvent("TurnStarted"))
               \o Warned(PressureWarnings(fitted)), ChurnFree)
    BY <2>2, <2>5, <2>6, AddsMore
  <2>8. Adds(events', ChurnFree)
    BY <2>1, <2>2, <2>4, <2>7, AddsMore DEF Sends
  <2> QED
    BY <2>8 DEF Adds, NoChurnTold
<1> QED
  BY <1>1, <1>2, StepAddsQuietly

--------------------------------------------------------------------------------
(* Eviction is told.                                                       *)

\* What was told of eviction was told of an earlier turn, until this one is sent.
TellsOfEviction(e) ==
  e.kind = "Warned" /\ \E w \in e.warnings : w.kind = "BudgetPressure"
PressureIsPast ==
  \A i \in DOMAIN events : TellsOfEviction(events[i]) =>
    /\ events[i].turn <= turn
    /\ pc \in {"Listing", "Turn"} => events[i].turn < turn

\* The three batches of a sent prompt, and nothing else, are new.
LEMMA AskTells ==
  ASSUME TypeOK, Conversation, Remembers, NEW fitted, NEW plan, Sends(fitted, plan)
  PROVE  /\ Adds(events', {e \in Event : e.kind = "Warned" =>
                  e.turn = turn
                  /\ (Quiet(e.warnings) \/ e.warnings = PressureWarnings(fitted))})
         /\ fitted.evicted # {} =>
              \E i \in DOMAIN events' :
                events'[i] = [kind |-> "Warned", turn |-> turn,
                              warnings |-> PressureWarnings(fitted)]
<1> DEFINE S == {e \in Event : e.kind = "Warned" =>
                  e.turn = turn
                  /\ (Quiet(e.warnings) \/ e.warnings = PressureWarnings(fitted))}
           told == [kind |-> "Warned", turn |-> turn, warnings |-> PressureWarnings(fitted)]
           began == Append(events, TurnEvent("TurnStarted"))
           pressed == began \o Warned(PressureWarnings(fitted))
<1>1. turn \in Nat /\ events \in Seq(Event) /\ S \subseteq Event /\ QuietEvents \subseteq S
  BY LimitAssumption DEF TypeOK, QuietEvents
<1>2. TurnEvent("TurnStarted") \in S
  BY <1>1, OthersAreQuiet
<1>3. Warned(plan.warnings) \in Seq(S)
  BY <1>1, AskIsQuiet, QuietWarned
<1>4. told \in S
  <2>1. fitted.evicted \subseteq Nat
    <3>1. fitted.evicted \subseteq DOMAIN BuildSegments
      BY DEF Sends, GivesUpOldest, OfKind
    <3> QED
      BY <3>1, PromptIds DEF TypeOK
  <2>2. PressureWarnings(fitted) \subseteq Warning
    BY <2>1 DEF PressureWarnings, Warning
  <2> QED
    BY <1>1, <2>2 DEF Event
<1>5. Warned(PressureWarnings(fitted)) \in Seq(S)
  <2> HIDE DEF S
  <2> QED
    BY <1>4 DEF Warned
<1>6. events' = pressed \o Warned(plan.warnings)
  BY DEF Sends
<1> HIDE DEF S
<1>7. Adds(began, S)
  BY <1>1, <1>2, AddsNothing, AddsOne
<1>8. Adds(pressed, S)
  BY <1>1, <1>5, <1>7, AddsMore
<1>9. Adds(events', S)
  BY <1>1, <1>3, <1>6, <1>8, AddsMore
<1>10. ASSUME fitted.evicted # {}
       PROVE  \E i \in DOMAIN events' : events'[i] = told
  <2>1. Warned(PressureWarnings(fitted)) = <<told>>
    BY <1>10 DEF PressureWarnings, Warned
  <2>2. began \in Seq(Event) /\ pressed \in Seq(Event) /\ Warned(plan.warnings) \in Seq(Event)
    BY <1>1, <1>3, <1>7, <1>8 DEF Adds
  <2>3. told \in Event
    BY <1>1, <1>4
  <2> HIDE DEF told, began
  <2>4. pressed = began \o <<told>> /\ Len(began) \in Nat
    BY <2>1, <2>2
  <2>5. Len(pressed) = Len(began) + 1 /\ pressed[Len(began) + 1] = told
    BY <2>2, <2>3, <2>4
  <2> HIDE DEF pressed
  <2>6. /\ Len(pressed) \in DOMAIN events'
        /\ events'[Len(pressed)] = pressed[Len(pressed)]
    BY <1>6, <2>2, <2>4, <2>5
  <2> QED
    BY <2>5, <2>6
<1> QED
  BY <1>9, <1>10 DEF S

LEMMA StepPressure ==
  TypeOK /\ Conversation /\ NothingYet /\ Remembers /\ PressureIsPast /\ [Next]_vars
    => PressureIsPast'
<1> SUFFICES ASSUME TypeOK, Conversation, NothingYet, Remembers, PressureIsPast, [Next]_vars
             PROVE  PressureIsPast'
  OBVIOUS
<1>1. turn \in Nat /\ events \in Seq(Event)
  BY LimitAssumption DEF TypeOK
<1>2. \A i \in DOMAIN events : TellsOfEviction(events[i]) => events[i].turn \in Nat
  <2>1. \A i \in DOMAIN events : events[i] \in Event
    BY <1>1
  <2> QED
    BY <2>1 DEF Event, TellsOfEviction
<1>3. CASE Ask
  <2>1. PICK fitted, plan : Sends(fitted, plan)
    BY <1>3, AskSends
  <2>2. turn' = turn /\ pc' = "Model" /\ pc = "Turn"
    BY <1>3 DEF Ask
  <2>3. \A i \in DOMAIN events' : TellsOfEviction(events'[i]) =>
          (i \in DOMAIN events /\ events'[i] = events[i]) \/ events'[i].turn = turn
    BY <2>1, AskTells DEF Adds, TellsOfEviction
  <2> QED
    BY <1>1, <1>2, <2>2, <2>3 DEF PressureIsPast, TellsOfEviction
<1>4. CASE AddsQuietly
  <2>1. \A i \in DOMAIN events' : TellsOfEviction(events'[i]) =>
          i \in DOMAIN events /\ events'[i] = events[i]
    <3>1. \A e \in QuietEvents : ~TellsOfEviction(e)
      BY DEF QuietEvents, Quiet, TellsOfEviction
    <3> QED
      BY <1>4, <3>1 DEF Adds, AddsQuietly
  <2>2. \/ turn' = turn /\ (pc' \in {"Listing", "Turn"} => pc \in {"Listing", "Turn"})
        \/ turn' = turn + 1
    BY DEF Next, Environment, Loop, Over, vars, ListTools, ListFails, DoesNotFit, TurnLimit,
       ProviderFails, FinalAnswer, CallsAnswer, RecordAnswer, RefuseCall, CallTool, Ask,
       HostAnswers, CloseTurn, End
  <2>3. \A i \in DOMAIN events' : TellsOfEviction(events'[i]) =>
          /\ events'[i].turn \in Nat /\ events'[i].turn <= turn
          /\ pc \in {"Listing", "Turn"} => events'[i].turn < turn
    BY <1>2, <2>1 DEF PressureIsPast
  <2> QED
    BY <1>1, <2>2, <2>3 DEF PressureIsPast, TellsOfEviction
<1> QED
  BY <1>3, <1>4, StepAddsQuietly

\* The turns that are sent and the tool block weigh no more than the prompt that fitted.
LEMMA SentFits ==
  ASSUME TypeOK, Conversation, NEW fitted, GivesUpOldest(BuildSegments, fitted),
         fitted.fits, NEW sent, sent = EvictFromTurns(fitted.keep)
  PROVE  SumFunction([p \in sent |-> turns[p].size]) + DefSize * Cardinality(catalog) <= Ceiling
<1> DEFINE K == DOMAIN fitted.keep
           w == [i \in K |-> fitted.keep[i].tokens]
           T == {SegmentOf(p) : p \in sent}
           sizes == [p \in sent |-> turns[p].size]
           seg == [p \in sent |-> SegmentOf(p)]
           wt == Restrict(w, T)
<1>1. K \subseteq DOMAIN BuildSegments /\ \A i \in K : fitted.keep[i] = BuildSegments[i]
  BY DEF GivesUpOldest, Without, Restrict
<1>2. IsFiniteSet(K) /\ w \in [K -> Nat]
  <2>1. IsFiniteSet(DOMAIN BuildSegments) /\ \A i \in DOMAIN BuildSegments : BuildSegments[i].tokens \in Nat
    BY PromptShape DEF Weighed
  <2>2. IsFiniteSet(K)
    BY <1>1, <2>1, FS_Subset
  <2> QED
    BY <1>1, <2>1, <2>2
<1>3. SumFunction(w) <= Ceiling /\ SumFunction(w) \in Nat
  <2>1. Tokens(fitted.keep) <= Ceiling
    BY DEF GivesUpOldest
  <2>2. Tokens(fitted.keep) = SumFunction(w)
    BY DEF Tokens
  <2> HIDE DEF w, K
  <2> QED
    BY <1>2, <2>1, <2>2, SumIsNumber
<1>4. sent \subseteq DOMAIN turns /\ T \subseteq K
  BY DEF EvictFromTurns
<1>5. Len(turns) \in Nat /\ DOMAIN turns = 1 .. Len(turns) /\ turns \in Seq(Turn)
  BY DEF TypeOK
<1>6. IsFiniteSet(sent) /\ IsFiniteSet(T)
  <2>1. IsFiniteSet(1 .. Len(turns))
    BY <1>5, FS_Interval
  <2> QED
    BY <1>2, <1>4, <1>5, <2>1, FS_Subset
<1>7. sizes \in [sent -> Nat] /\ seg \in [sent -> T] /\ wt \in [T -> Nat]
  <2>1. \A p \in DOMAIN turns : turns[p].size \in Nat
    <3>1. \A p \in DOMAIN turns : turns[p] \in Turn
      BY <1>5
    <3> QED
      BY <3>1 DEF Turn
  <2> QED
    BY <1>2, <1>4, <2>1 DEF Restrict
<1>8. \A p \in sent : wt[seg[p]] = sizes[p]
  <2> TAKE p \in sent
  <2>1. seg[p] = SegmentOf(p) /\ SegmentOf(p) \in T /\ SegmentOf(p) \in K
    BY <1>4
  <2>2. wt[SegmentOf(p)] = fitted.keep[SegmentOf(p)].tokens
    BY <2>1 DEF Restrict
  <2>3. BuildSegments[SegmentOf(p)] = TurnSegment(turns[p])
    BY <1>4, PromptShape
  <2> QED
    BY <1>1, <2>1, <2>2, <2>3 DEF TurnSegment
<1>9. \A p, q \in sent : seg[p] = seg[q] => p = q
  BY <1>4, <1>5 DEF SegmentOf, Offset
<1>10. \A i \in T : \E p \in sent : i = seg[p]
  OBVIOUS
<1>11. SumFunction(sizes) = SumFunction(wt)
  <2> HIDE DEF sizes, seg, wt, T
  <2> QED
    BY <1>6, <1>7, <1>8, <1>9, <1>10, SumIsRenamed
<1>12. SumFunction(wt) \in Nat
  <2> HIDE DEF wt, T
  <2> QED
    BY <1>6, <1>7, SumIsNumber
<1>13. CASE catalog = {}
  <2>1. DefSize * Cardinality(catalog) = 0
    BY <1>13, FS_EmptySet, SizeAssumption
  <2>2. SumFunction(wt) <= SumFunction(w)
    <3> HIDE DEF w, K, T
    <3> QED
      BY <1>2, <1>4, SumIsMonotone
  <2> HIDE DEF sizes, w, wt
  <2>3. SumFunction(sizes) + 0 <= Ceiling
    BY <1>3, <1>11, <1>12, <2>2, SizeAssumption
  <2> QED
    BY <2>1, <2>3 DEF sizes
<1>14. CASE catalog # {}
  <2> DEFINE R == K \ {0}
             wr == Restrict(w, R)
  <2>1. 0 \in K /\ w[0] = DefSize * Cardinality(catalog)
    <3>1. 0 \in DOMAIN BuildSegments /\ BuildSegments[0] = ToolSegment
      BY <1>14, PromptShape
    <3>2. 0 \notin fitted.evicted
      BY <3>1 DEF GivesUpOldest, OfKind, ToolSegment
    <3>3. 0 \in K
      BY <3>1, <3>2 DEF GivesUpOldest, Without, Restrict
    <3> QED
      BY <1>1, <3>1, <3>3 DEF ToolSegment
  <2>2. T \in SUBSET R
    BY <1>4, <1>5, <1>14 DEF SegmentOf, Offset
  <2>3. wr \in [R -> Nat] /\ IsFiniteSet(R) /\ Restrict(wr, T) = wt
    BY <1>2, <2>2, FS_RemoveElement DEF Restrict
  <2>4. w[0] \in Nat
    BY <1>2, <2>1
  <2> HIDE DEF w, wr, K, T, wt
  <2>5. SumFunction(w) = w[0] + SumFunction(wr)
    BY <1>2, <2>1, SumSplits DEF wr
  <2>6. SumFunction(wt) <= SumFunction(wr) /\ SumFunction(wr) \in Nat
    <3> HIDE DEF R
    <3> QED
      BY <2>2, <2>3, SumIsMonotone, SumIsNumber
  <2> HIDE DEF sizes
  <2>7. SumFunction(sizes) + w[0] <= Ceiling
    BY <1>3, <1>11, <1>12, <2>4, <2>5, <2>6, SizeAssumption
  <2> QED
    BY <2>1, <2>7 DEF sizes
<1> QED
  BY <1>13, <1>14

\* A turn that is not sent was given up, or answers calls that were.
LEMMA MissingIsNamed ==
  ASSUME TypeOK, Conversation, NEW fitted, GivesUpOldest(BuildSegments, fitted),
         NEW p \in DOMAIN turns, p \notin EvictFromTurns(fitted.keep)
  PROVE  SegmentOf(p) \in fitted.evicted \cup OrphansOf(fitted.evicted)
<1>1. \A q \in DOMAIN turns : SegmentOf(q) \in DOMAIN fitted.keep \/ SegmentOf(q) \in fitted.evicted
  BY PromptShape DEF GivesUpOldest, Without, Restrict
<1>2. CASE SegmentOf(p) \notin DOMAIN fitted.keep
  BY <1>1, <1>2
<1>3. CASE SegmentOf(p) \in DOMAIN fitted.keep
  <2>1. /\ turns[p].role # "System"
        /\ \A q \in DOMAIN turns :
             /\ SegmentOf(q) \in DOMAIN fitted.keep /\ turns[q].role # "System" /\ q <= p
             => turns[q].results # <<>>
    BY <1>3 DEF EvictFromTurns
  <2>2. Len(turns) \in Nat /\ DOMAIN turns = 1 .. Len(turns)
    BY DEF TypeOK
  <2>3. turns[p].results # <<>>
    BY <1>3, <2>1, <2>2
  <2>4. p - 1 \in DOMAIN turns /\ turns[p - 1].calls # <<>>
    BY <2>2, <2>3 DEF Conversation
  <2>5. turns[p - 1].role # "System" /\ turns[p - 1].results = <<>>
    BY <2>4 DEF Conversation
  <2>6. SegmentOf(p - 1) \in fitted.evicted
    BY <1>1, <2>1, <2>2, <2>4, <2>5
  <2> QED
    BY <2>3, <2>6 DEF OrphansOf
<1> QED
  BY <1>2, <1>3

\* Results whose calls were given up are not sent: all that is older went before them.
LEMMA OrphansAreMissing ==
  ASSUME TypeOK, Conversation, NEW fitted, GivesUpOldest(BuildSegments, fitted),
         NEW p \in DOMAIN turns, turns[p].results # <<>>, SegmentOf(p - 1) \in fitted.evicted
  PROVE  p \notin EvictFromTurns(fitted.keep)
<1> SUFFICES ASSUME SegmentOf(p) \in DOMAIN fitted.keep
             PROVE  p \notin EvictFromTurns(fitted.keep)
  BY DEF EvictFromTurns
<1>1. Len(turns) \in Nat /\ DOMAIN turns = 1 .. Len(turns) /\ Offset \in {0, 1}
  BY DEF TypeOK, Offset
<1>2. turns[p].role # "System"
  BY DEF Conversation
<1>3. ASSUME NEW q \in DOMAIN turns, turns[q].role # "System", q <= p,
             SegmentOf(q) \in DOMAIN fitted.keep
      PROVE  turns[q].results # <<>>
  <2>1. SegmentOf(q) \notin fitted.evicted /\ SegmentOf(q) \in OfKind(BuildSegments, "History")
    BY <1>3, PromptShape DEF GivesUpOldest, Without, Restrict, Said
  <2>2. ~(SegmentOf(q) < SegmentOf(p - 1))
    BY <2>1 DEF GivesUpOldest
  <2>3. q >= p - 1
    BY <1>1, <2>2 DEF SegmentOf
  <2>4. q # p - 1
    BY <2>1
  <2>5. q = p
    BY <1>1, <1>3, <2>3, <2>4
  <2> QED
    BY <2>5
<1> QED
  BY <1>2, <1>3 DEF EvictFromTurns

LEMMA StepHonest ==
  TypeOK /\ Conversation /\ Remembers /\ PressureIsPast /\ EvictionIsHonest /\ [Next]_vars
    => EvictionIsHonest'
<1> SUFFICES ASSUME TypeOK, Conversation, Remembers, PressureIsPast, EvictionIsHonest,
                    [Next]_vars, pc' = "Model"
             PROVE  EvictionIsHonest'
  BY DEF EvictionIsHonest
<1>1. CASE UNCHANGED vars
  <2>1. /\ \A t : WarningsOf(t)' = WarningsOf(t)
        /\ \A p : SegmentOf(p)' = SegmentOf(p)
        /\ \A v : OrphansOf(v)' = OrphansOf(v)
    BY <1>1 DEF vars, context, WarningsOf, OrphansOf, SegmentOf, Offset
  <2> QED
    BY <1>1, <2>1 DEF vars, context, EvictionIsHonest
<1>2. CASE Ask
  <2>1. PICK fitted, plan : Sends(fitted, plan)
    BY <1>2, AskSends
  <2>2. UNCHANGED <<turn, catalog, turns>> /\ pc = "Turn"
    BY <1>2 DEF Ask
  <2> DEFINE sent == DOMAIN request'.turns
             gone == {SegmentOf(p) : p \in DOMAIN turns \ sent}
             told == {w \in WarningsOf(turn)' : w.kind = "BudgetPressure"}
  <2>3. turn \in Nat /\ events \in Seq(Event) /\ events' \in Seq(Event)
    BY LimitAssumption, StepEvents DEF TypeOK
  <2>4. told = PressureWarnings(fitted)
    <3>1. ASSUME NEW w \in told PROVE w \in PressureWarnings(fitted)
      <4>1. PICK i \in DOMAIN events' :
              events'[i].kind = "Warned" /\ events'[i].turn = turn /\ w \in events'[i].warnings
        BY <2>2, <3>1 DEF WarningsOf
      <4>2. TellsOfEviction(events'[i]) /\ ~Quiet(events'[i].warnings)
        BY <3>1, <4>1 DEF TellsOfEviction, Quiet
      <4>3. ~(i \in DOMAIN events /\ events'[i] = events[i])
        BY <2>2, <2>3, <4>1, <4>2 DEF PressureIsPast
      <4> QED
        BY <2>1, <4>1, <4>2, <4>3, AskTells DEF Adds
    <3>2. ASSUME NEW w \in PressureWarnings(fitted) PROVE w \in told
      <4>1. w.kind = "BudgetPressure" /\ fitted.evicted # {}
        BY DEF PressureWarnings
      <4>2. PICK i \in DOMAIN events' :
              events'[i] = [kind |-> "Warned", turn |-> turn,
                            warnings |-> PressureWarnings(fitted)]
        BY <2>1, <4>1, AskTells
      <4>3. /\ events'[i].kind = "Warned" /\ events'[i].turn = turn
            /\ events'[i].warnings = PressureWarnings(fitted)
        BY <4>2
      <4> QED
        BY <2>2, <4>1, <4>3 DEF WarningsOf
    <3> QED
      BY <3>1, <3>2
  <2>5. fitted.evicted \subseteq gone
    <3> SUFFICES ASSUME NEW v \in fitted.evicted PROVE v \in gone
      OBVIOUS
    <3>1. PICK p \in Said : v = SegmentOf(p)
      BY <2>1, PromptShape DEF Sends, GivesUpOldest
    <3>2. SegmentOf(p) \notin DOMAIN fitted.keep
      BY <2>1, <3>1 DEF Sends, GivesUpOldest, Without, Restrict
    <3>3. p \in DOMAIN turns /\ p \notin sent
      BY <2>1, <3>2 DEF Sends, EvictFromTurns, Said
    <3> QED
      BY <3>1, <3>3
  <2>6. ASSUME fitted.evicted = {} PROVE gone = {}
    <3>1. \A p \in DOMAIN turns : SegmentOf(p) \in DOMAIN fitted.keep
      BY <2>1, <2>6, PromptShape DEF Sends, GivesUpOldest, Without, Restrict
    <3>2. \A p \in DOMAIN turns : p \in Nat
      BY DEF TypeOK
    <3>3. ASSUME NEW p \in Said PROVE \E q \in Said : q <= p /\ turns[q].results = <<>>
      <4>1. CASE turns[p].results = <<>>
        BY <3>2, <4>1 DEF Said
      <4>2. CASE turns[p].results # <<>>
        <5>1. p \in DOMAIN turns /\ Len(turns) \in Nat /\ DOMAIN turns = 1 .. Len(turns)
          BY DEF Said, TypeOK
        <5>2. p - 1 \in DOMAIN turns /\ turns[p - 1].calls # <<>>
          BY <4>2, <5>1 DEF Conversation
        <5>3. p - 1 \in Said /\ turns[p - 1].results = <<>>
          BY <5>2 DEF Conversation, Said
        <5> QED
          BY <5>1, <5>3
      <4> QED
        BY <4>1, <4>2
    <3>4. \A p \in DOMAIN turns : p \in sent
      BY <2>1, <3>1, <3>3 DEF Sends, EvictFromTurns, Said
    <3> QED
      BY <3>4
  <2>7. fitted.evicted # {} => gone = fitted.evicted \cup OrphansOf(fitted.evicted)
    <3>1. ASSUME NEW p \in DOMAIN turns, p \notin sent
          PROVE  SegmentOf(p) \in fitted.evicted \cup OrphansOf(fitted.evicted)
      BY <2>1, <3>1, MissingIsNamed DEF Sends
    <3>2. OrphansOf(fitted.evicted) \subseteq gone
      <4> SUFFICES ASSUME NEW p \in DOMAIN turns, turns[p].results # <<>>,
                          SegmentOf(p - 1) \in fitted.evicted
                   PROVE  p \notin sent
        BY DEF OrphansOf
      <4> QED
        BY <2>1, OrphansAreMissing DEF Sends
    <3> HIDE DEF sent
    <3> QED
      BY <2>5, <3>1, <3>2
  <2>8. /\ told = {} => gone = {}
        /\ \A w \in told : w.evicted # {} /\ gone = w.evicted \cup OrphansOf(w.evicted)
    <3> HIDE DEF gone, told
    <3>1. told = {} => fitted.evicted = {}
      BY <2>4 DEF PressureWarnings
    <3>2. \A w \in told : w.evicted = fitted.evicted /\ fitted.evicted # {}
      BY <2>4 DEF PressureWarnings
    <3> QED
      BY <2>6, <2>7, <3>1, <3>2
  <2>9. SumFunction([p \in sent |-> request'.turns[p].size]) + DefSize * Cardinality(catalog)
          <= Ceiling
    <3>1. [p \in sent |-> request'.turns[p].size] = [p \in sent |-> turns[p].size]
      BY <2>1 DEF Sends
    <3>2. sent = EvictFromTurns(fitted.keep) /\ GivesUpOldest(BuildSegments, fitted) /\ fitted.fits
      BY <2>1 DEF Sends
    <3> HIDE DEF sent
    <3> QED
      BY <3>1, <3>2, SentFits
  <2>10. /\ gone = {SegmentOf(p)' : p \in DOMAIN turns' \ sent}
         /\ \A v : OrphansOf(v)' = OrphansOf(v)
    BY <2>2 DEF OrphansOf, SegmentOf, Offset
  <2>11. told = {w \in WarningsOf(turn)' : w.kind = "BudgetPressure"}
    OBVIOUS
  <2> HIDE DEF gone, told
  <2> QED
    BY <2>2, <2>8, <2>9, <2>10, <2>11 DEF EvictionIsHonest
<1> QED
  BY <1>1, <1>2, OnlyAskAsks

--------------------------------------------------------------------------------
(* The theorems.                                                           *)

\* What the proofs carry from step to step.
PromptInv ==
  /\ TypeOK
  /\ Conversation
  /\ NothingYet
  /\ Remembers
  /\ NoChurnTold
  /\ PressureIsPast
  /\ PromptIsPaired
  /\ RecentTailIsSent
  /\ MarksLandWherePlanned
  /\ EvictionIsHonest

LEMMA InitPrompt == Init => PromptInv
<1> SUFFICES ASSUME Init PROVE PromptInv
  OBVIOUS
<1>1. request.turns = <<>> /\ request.marks = {} /\ DOMAIN request.turns = {}
  BY DEF Init, NoRequest
<1>2. PromptIsPaired /\ MarksLandWherePlanned
  BY <1>1 DEF PromptIsPaired, MarksLandWherePlanned, TtlsAreCorrectlyOrdered
<1>3. RecentTailIsSent /\ EvictionIsHonest
  BY DEF Init, RecentTailIsSent, EvictionIsHonest
<1>4. NothingYet /\ Remembers
  BY DEF Init, NothingYet, Remembers
<1>5. DOMAIN events = {1} /\ events[1] = [kind |-> "RunStarted", turn |-> 0]
  BY DEF Init
<1>6. NoChurnTold /\ PressureIsPast
  BY <1>5 DEF NoChurnTold, PressureIsPast, TellsOfEviction, ChurnFree, Event
<1> QED
  BY <1>2, <1>3, <1>4, <1>6, InitTypeOK, InitConversation DEF PromptInv

LEMMA StepPrompt == PromptInv /\ [Next]_vars => PromptInv'
<1> SUFFICES ASSUME PromptInv, [Next]_vars PROVE PromptInv'
  OBVIOUS
<1>1. TypeOK' /\ Conversation'
  BY StepTypeOK, NextKeepsConversation DEF PromptInv
<1>2. NothingYet' /\ Remembers' /\ NoChurnTold' /\ PressureIsPast'
  BY StepNothingYet, StepRemembers, StepNoChurn, StepPressure DEF PromptInv
<1>3. PromptIsPaired' /\ RecentTailIsSent'
  BY StepPaired, StepTail DEF PromptInv
<1>4. MarksLandWherePlanned' /\ EvictionIsHonest'
  BY StepMarks, StepHonest DEF PromptInv
<1> QED
  BY <1>1, <1>2, <1>3, <1>4 DEF PromptInv

LEMMA PromptInvariant == Spec => []PromptInv
<1> QED
  BY InitPrompt, StepPrompt, PTL DEF Spec

\* In whatever is sent, a turn of calls and the turn that answers them stand together:
\* evict_from_turns leaves neither half without the other.
THEOREM RequestsArePaired == Spec => []PromptIsPaired
<1>1. PromptInv => PromptIsPaired
  BY DEF PromptInv
<1> QED
  BY <1>1, PromptInvariant, PTL

\* The floor of Floors::recent_history holds for what is sent, after the orphan scan:
\* because a floor of whole pairs never parts one.
THEOREM FloorIsSent == Spec => []RecentTailIsSent
<1>1. PromptInv => RecentTailIsSent
  BY DEF PromptInv
<1> QED
  BY <1>1, PromptInvariant, PTL

\* A mark lands on the segment it was planned for, although eviction renumbers the turns
\* a dialect counts, because marks only ever sit in front of what eviction takes.
THEOREM MarksLand == Spec => []MarksLandWherePlanned
<1>1. PromptInv => MarksLandWherePlanned
  BY DEF PromptInv
<1> QED
  BY <1>1, PromptInvariant, PTL

\* Turns are missing from a request exactly when the stream says so; what it names is missing,
\* and beside it only the results of calls it names; and what is sent fits the ceiling.
THEOREM EvictionIsTold == Spec => []EvictionIsHonest
<1>1. PromptInv => EvictionIsHonest
  BY DEF PromptInv
<1> QED
  BY <1>1, PromptInvariant, PTL

\* No run churns its own prefix, so none warns of it.
THEOREM PrefixIsStable == Spec => []PrefixNeverChurns
<1>1. PromptInv => PrefixNeverChurns
  BY DEF PromptInv, NoChurnTold, ChurnFree, PrefixNeverChurns, WarningsOf
<1> QED
  BY <1>1, PromptInvariant, PTL
================================================================================
