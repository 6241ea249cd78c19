----------------------------- MODULE StreamsProofs -----------------------------
(***************************************************************************)
(* What holds of every call to a provider, for any number of attempts, any *)
(* statuses and bodies of any length.                                      *)
(***************************************************************************)
EXTENDS Streams, FoldProofs, SequenceTheorems, TLAPS

\* A status that passes is one the client sends again, and the other way round:
\* the taxonomy of from_status agrees with the list the documentation gives.
LEMMA PassingIsRetryable ==
  ASSUME NEW status \in Statuses \cup {Lost}, ~Accepted(status)
  PROVE  /\ IsRetryable(ErrorOf(status)) <=> status \in PassingStatuses
         /\ IsRetryable(ErrorOf(status)) => ~IsFatal(ErrorOf(status))
<1>1. Statuses \subseteq 100 .. 599
  BY TransportAssumption
<1>2. status \in Int
  BY <1>1 DEF Lost
<1> QED
  BY <1>2 DEF Accepted, ErrorOf, IsRetryable, IsFatal, PassingStatuses, Lost

LEMMA AcceptedIsNotPassing ==
  ASSUME NEW status \in Statuses, Accepted(status)
  PROVE  status \notin PassingStatuses
BY TransportAssumption DEF Accepted, PassingStatuses, Lost
--------------------------------------------------------------------------------
(* Retries.                                                                *)

Answer == [status : Statuses \cup {Lost}, retryAfter : Nat]
Trying == pc \in {"sending", "backoff"}

\* The counter of the loop is the length of the history, a call that still tries
\* has an attempt left, and one that has a body was accepted by its last answer.
RetryInv ==
  /\ pc \in {"sending", "backoff", "body", "streaming", "over"}
  /\ answers \in Seq(Answer)
  /\ attempt \in Nat
  /\ pc # "over" => attempt = Len(answers)
  /\ Trying => attempt < MaxAttempts
  /\ pc \in {"body", "streaming"} =>
       answers # <<>> /\ answers[Len(answers)].status \notin PassingStatuses
  /\ RetriesAreJustified

LEMMA InitRetry == Init => RetryInv
BY TransportAssumption
   DEF Init, HttpInit, RetryInv, Trying, RetriesAreJustified, Answer

\* One more answer, whatever the client makes of it.
LEMMA OneMoreAnswer ==
  ASSUME RetryInv, NEW status \in Statuses \cup {Lost}, NEW asked \in Nat,
         Attempt(status, asked)
  PROVE  /\ answers' \in Seq(Answer)
         /\ Len(answers') = Len(answers) + 1
         /\ attempt' = attempt + 1 /\ attempt' = Len(answers') /\ attempt' \in Nat
         /\ answers'[Len(answers')].status = status
         /\ Last(answers') = answers'[Len(answers')]
         /\ \A i \in 1 .. Len(answers) :
              answers'[i] = answers[i] /\ answers'[i].status \in PassingStatuses
         /\ answers' # <<>>
<1>1. answers \in Seq(Answer) /\ attempt = Len(answers) /\ attempt \in Nat
  BY DEF RetryInv, Attempt
<1>2. \A i \in DOMAIN answers : answers[i].status \in PassingStatuses
  BY DEF RetryInv, Attempt, RetriesAreJustified
<1>3. [status |-> status, retryAfter |-> asked] \in Answer
  BY DEF Answer
<1>4. answers' = Append(answers, [status |-> status, retryAfter |-> asked])
  BY DEF Attempt
<1>5. attempt' = attempt + 1
  BY DEF Attempt
<1> QED
  BY <1>1, <1>2, <1>3, <1>4, <1>5 DEF Last

LEMMA AcceptedKeepsRetry ==
  ASSUME RetryInv, NEW status \in Statuses, AttemptAccepted(status)
  PROVE  RetryInv'
<1>1. Attempt(status, 0) /\ Accepted(status) /\ pc' \in {"body", "streaming"}
  BY DEF AttemptAccepted
<1>2. status \notin PassingStatuses
  BY <1>1, AcceptedIsNotPassing
<1> HIDE DEF AttemptAccepted
<1> QED
  BY <1>1, <1>2, OneMoreAnswer
     DEF RetryInv, Trying, RetriesAreJustified, PassingStatuses

LEMMA RetriedKeepsRetry ==
  ASSUME RetryInv, NEW status \in Statuses \cup {Lost}, NEW asked \in Nat,
         AttemptRetried(status, asked)
  PROVE  RetryInv'
<1>1. Attempt(status, asked) /\ ~Accepted(status) /\ pc' = "backoff"
  BY DEF AttemptRetried
<1>2. IsRetryable(ErrorOf(status)) /\ ~(attempt + 1 >= MaxAttempts)
  BY DEF AttemptRetried, GivesUp
<1>3. status \in PassingStatuses
  BY <1>1, <1>2, PassingIsRetryable
<1>4. attempt' < MaxAttempts
  BY <1>1, <1>2, OneMoreAnswer, TransportAssumption
<1>5. /\ answers' \in Seq(Answer) /\ attempt' = Len(answers') /\ attempt' \in Nat
      /\ answers'[Len(answers')].status = status /\ Len(answers') = Len(answers) + 1
      /\ \A i \in 1 .. Len(answers) : answers'[i].status \in PassingStatuses
      /\ answers' # <<>> /\ Len(answers) \in Nat
  BY <1>1, OneMoreAnswer DEF RetryInv
<1>6. \A i \in 1 .. Len(answers') : answers'[i].status \in PassingStatuses
  <2> TAKE i \in 1 .. Len(answers')
  <2>1. i \in 1 .. Len(answers) \/ i = Len(answers')
    BY <1>5
  <2> QED
    BY <1>3, <1>5, <2>1
<1>7. answers' \in Seq(Answer) /\ attempt' = Len(answers') /\ attempt' \in Nat /\ answers' # <<>>
  BY ONLY <1>5
<1>8. DOMAIN answers' = 1 .. Len(answers')
  BY ONLY <1>7
<1>9. \A i \in DOMAIN answers' : answers'[i].status \in PassingStatuses
  BY ONLY <1>6, <1>8
<1>10. pc' = "backoff"
  BY <1>1
<1>11. RetriesAreJustified'
  BY ONLY <1>9, <1>10 DEF RetriesAreJustified
<1> QED
  BY ONLY <1>4, <1>7, <1>10, <1>11 DEF RetryInv, Trying

LEMMA FailsKeepsRetry ==
  ASSUME RetryInv, NEW status \in Statuses \cup {Lost}, NEW asked \in Nat,
         AttemptFails(status, asked)
  PROVE  RetryInv'
<1>1. Attempt(status, asked) /\ ~Accepted(status) /\ pc' = "over"
  BY DEF AttemptFails, Over
<1>2. GivesUp(ErrorOf(status), attempt + 1)
  BY DEF AttemptFails
<1>3. status \in PassingStatuses => attempt + 1 >= MaxAttempts
  BY <1>1, <1>2, PassingIsRetryable DEF GivesUp
<1>4. attempt < MaxAttempts
  BY <1>1 DEF RetryInv, Trying, Attempt
<1>5. Len(answers') = attempt + 1 /\ attempt \in Nat
  BY <1>1, OneMoreAnswer DEF RetryInv
<1>6. status \in PassingStatuses => Len(answers') = MaxAttempts
  BY <1>3, <1>4, <1>5, TransportAssumption
<1>7. pc' = "over"
  BY <1>1
<1>8. /\ answers' \in Seq(Answer) /\ attempt' \in Nat /\ Len(answers') = Len(answers) + 1
      /\ Last(answers').status = status
      /\ \A i \in 1 .. Len(answers) : answers'[i].status \in PassingStatuses
  BY <1>1, OneMoreAnswer
<1>9. \A i \in DOMAIN answers' : i < Len(answers') => i \in 1 .. Len(answers)
  <2>1. DOMAIN answers' = 1 .. Len(answers') /\ Len(answers) \in Nat
    BY <1>8 DEF RetryInv
  <2> QED
    BY ONLY <1>8, <2>1
<1>10. RetriesAreJustified'
  BY ONLY <1>6, <1>7, <1>8, <1>9 DEF RetriesAreJustified
<1> QED
  BY ONLY <1>7, <1>8, <1>10 DEF RetryInv, Trying

\* Every other step leaves the history alone.
LEMMA QuietKeepsRetry ==
  ASSUME RetryInv, UNCHANGED answers,
         \/ UNCHANGED <<pc, attempt>>
         \/ EncodeFails \/ KeyMissing \/ Resend \/ CompleteBody
  PROVE  RetryInv'
<1>1. CASE UNCHANGED <<pc, attempt>>
  BY <1>1 DEF RetryInv, Trying, RetriesAreJustified
<1>2. CASE EncodeFails
  BY <1>2 DEF EncodeFails, Over, RetryInv, Trying, RetriesAreJustified
<1>3. CASE KeyMissing
  BY <1>3 DEF KeyMissing, Over, RetryInv, Trying, RetriesAreJustified
<1>4. CASE Resend
  BY <1>4 DEF Resend, RetryInv, Trying, RetriesAreJustified
<1>5. CASE CompleteBody
  BY <1>5 DEF CompleteBody, Over, RetryInv, Trying, RetriesAreJustified, Last
<1> QED
  BY <1>1, <1>2, <1>3, <1>4, <1>5

LEMMA NextKeepsRetry == RetryInv /\ [Next]_streamsVars => RetryInv'
<1> SUFFICES ASSUME RetryInv, [Next]_streamsVars PROVE RetryInv'
  OBVIOUS
<1>1. CASE HttpStep
  <2>1. CASE Network
    <3>1. CASE \E status \in Statuses : AttemptAccepted(status)
      BY <3>1, AcceptedKeepsRetry
    <3>2. CASE \E status \in Statuses \cup {Lost}, asked \in RetryAfters :
                 AttemptRetried(status, asked) \/ AttemptFails(status, asked)
      BY <3>2, RetriedKeepsRetry, FailsKeepsRetry, TransportAssumption
    <3>3. CASE CompleteBody
      BY <3>3, QuietKeepsRetry DEF CompleteBody
    <3>4. CASE EndLink
      BY <3>4, QuietKeepsRetry DEF EndLink, call
    <3> QED
      BY <2>1, <3>1, <3>2, <3>3, <3>4 DEF Network
  <2>2. CASE DeliverChunk \/ AbandonRead
    BY <2>2, QuietKeepsRetry DEF DeliverChunk, AbandonRead, call
  <2>3. CASE Client
    <3>1. CASE EncodeFails \/ KeyMissing \/ Resend
      BY <3>1, QuietKeepsRetry DEF EncodeFails, KeyMissing, Resend
    <3>2. CASE UNCHANGED call
      BY <3>2, QuietKeepsRetry DEF call
    <3>3. Client => \/ EncodeFails \/ KeyMissing \/ Resend \/ UNCHANGED call
      BY DEF Client, ReadChunk, ReadFails, ReadEnds, ReadWaits, ReadWakes, httpVars
    <3> QED
      BY <2>3, <3>1, <3>2, <3>3
  <2> QED
    BY <1>1, <2>1, <2>2, <2>3 DEF HttpStep, HttpNext
<1>2. CASE CliStep \/ AtRest \/ UNCHANGED streamsVars
  BY <1>2, QuietKeepsRetry DEF CliStep, AtRest, streamsVars, httpVars, call
<1> QED
  BY <1>1, <1>2 DEF Next

\* What the provider refused for the key, the bill or the request is never sent
\* again, and what may pass is until MAX_ATTEMPTS, for any MAX_ATTEMPTS and any
\* statuses (send_with_retry).
THEOREM RetriesHold == Spec => []RetriesAreJustified
<1>1. RetryInv => RetriesAreJustified
  BY DEF RetryInv
<1> QED
  BY <1>1, InitRetry, NextKeepsRetry, PTL DEF Spec
--------------------------------------------------------------------------------
(* Children.                                                               *)

\* A running child belongs to a delegation whose producer still runs.
ChildInv ==
  /\ child = "running" => alive /\ source = "cli"
  /\ consumer \in {"ended", "dropped"} => ~alive

LEMMA InitChild == Init => ChildInv
BY DEF Init, StreamInit, CliInit, ChildInv

\* What the consumer does ends the stream only when the producer has returned.
LEMMA PollKeepsChild ==
  ASSUME ChildInv, UNCHANGED <<child, source>>, Polls \/ Suspend \/ Wake
  PROVE  ChildInv'
BY DEF ChildInv, Polls, PollQueued, PollProducer, PollSpent, LastPoll, Take,
       Suspend, Wake

LEMMA DropKeepsChild ==
  ASSUME ChildInv, Drop, child' # "running"
  PROVE  ChildInv'
BY DEF ChildInv, Drop

LEMMA HttpKeepsChild ==
  ASSUME ChildInv, HttpStep
  PROVE  ChildInv'
<1>1. source = "http" /\ UNCHANGED <<source, child>> /\ HttpNext
  BY DEF HttpStep, cliVars, process
<1>2. child # "running"
  BY <1>1 DEF ChildInv
<1>3. UNCHANGED stream => ChildInv'
  BY <1>1, <1>2 DEF stream, ChildInv
<1>4. CASE Network
  BY <1>1, <1>2, <1>3, <1>4
     DEF Network, AttemptAccepted, AttemptRetried, AttemptFails, CompleteBody, EndLink,
         Open, ChildInv
<1>5. CASE DeliverChunk
  BY <1>3, <1>5 DEF DeliverChunk
<1>6. CASE EncodeFails \/ KeyMissing \/ Resend
  BY <1>3, <1>6 DEF EncodeFails, KeyMissing, Resend
<1>7. CASE ReadChunk \/ ReadFails \/ ReadEnds
  BY <1>1, <1>2, <1>7 DEF ReadChunk, ReadFails, ReadEnds, Push, Return, ChildInv
<1>9. CASE AbandonRead
  BY <1>1, <1>2, <1>9, DropKeepsChild DEF AbandonRead
<1>8. CASE ReadWaits \/ ReadWakes \/ Polls
  BY <1>1, <1>8, PollKeepsChild DEF ReadWaits, ReadWakes
<1> QED
  BY <1>1, <1>4, <1>5, <1>6, <1>7, <1>8, <1>9 DEF HttpNext, Client

LEMMA CliKeepsChild ==
  ASSUME ChildInv, CliStep
  PROVE  ChildInv'
<1>1. source = "cli" /\ UNCHANGED source /\ CliNext
  BY DEF CliStep
<1>2. CASE Spawn \/ SpawnFails \/ Begin
  BY <1>1, <1>2 DEF Spawn, SpawnFails, Begin, Open, process, stream, ChildInv
<1>3. CASE Child \/ Expire
  BY <1>1, <1>3
     DEF Child, WriteLine, CloseStdout, Exit, Expire, process, stream, ChildInv
<1>4. CASE ReadLine
  BY <1>1, <1>4 DEF ReadLine, Push, process, ChildInv
<1>5. CASE ReadBroken \/ TimeOut \/ Reap
  BY <1>1, <1>5
     DEF ReadBroken, TimeOut, Reap, Return, Kill, cliVars, process, ChildInv
<1>6. CASE EndOfOutput
  BY <1>1, <1>6 DEF EndOfOutput, Return, Kill, stream, ChildInv
<1>8. CASE Abandon
  <2>1. child' # "running"
    BY <1>8 DEF Abandon, Kill
  <2> QED
    BY <1>8, <2>1, DropKeepsChild DEF Abandon
<1>7. CASE CliWaits \/ CliWakes \/ (Polls /\ UNCHANGED cliVars)
  BY <1>1, <1>7, PollKeepsChild DEF CliWaits, CliWakes, cliVars, process
<1> QED
  BY <1>1, <1>2, <1>3, <1>4, <1>5, <1>6, <1>7, <1>8 DEF CliNext, Frey

LEMMA NextKeepsChild == ChildInv /\ [Next]_streamsVars => ChildInv'
<1> SUFFICES ASSUME ChildInv, [Next]_streamsVars PROVE ChildInv'
  OBVIOUS
<1>1. CASE UNCHANGED streamsVars
  BY <1>1 DEF streamsVars, stream, cliVars, process, ChildInv
<1> QED
  BY <1>1, HttpKeepsChild, CliKeepsChild DEF Next, AtRest

\* No child is left running once the stream of its task has ended or was dropped,
\* however the child, the deadline and the consumer interleave (AgentCli::delegate).
THEOREM NoOrphans == Spec => []NoChildOutlivesItsStream
<1>1. ChildInv => NoChildOutlivesItsStream
  BY DEF ChildInv, NoChildOutlivesItsStream
<1> QED
  BY <1>1, InitChild, NextKeepsChild, PTL DEF Spec
--------------------------------------------------------------------------------
(* Verdicts.                                                               *)

\* Some item is a verdict, and of a line that was written.
Verdict(items) ==
  \E i \in DOMAIN items :
    \/ items[i] = Failed
    \/ items[i] \in 1 .. Len(lines) /\ lines[items[i]] \in {"result", "error"}

\* A result that was read is on its way to the consumer, and the producer of a task
\* that was begun returns only behind a verdict; a stream that was dropped is exempt,
\* for its queue went with it.
VerdictInv ==
  /\ lines \in Seq(LineKinds) /\ read \in 0 .. Len(lines)
  /\ queue \in Seq(Nat) /\ got \in Seq(Nat)
  /\ step = "spawned" => alive \/ consumer = "dropped"
  /\ step \in {"idle", "spawned"} => ~finished
  /\ consumer = "ended" => ~alive /\ queue = <<>>
  /\ consumer # "dropped" =>
       /\ finished => Verdict(got \o queue)
       /\ step \in {"reading", "reaping"} /\ ~alive => Verdict(got \o queue)

VerdictsInv == IF source = "cli" THEN VerdictInv ELSE step = "idle"

LEMMA InitVerdicts == Init => VerdictsInv
<1>1. Init => lines = <<>> /\ queue = <<>> /\ got = <<>>
  BY DEF Init, StreamInit, CliInit
<1> QED
  BY <1>1 DEF Init, StreamInit, CliInit, VerdictInv, VerdictsInv

\* What follows a verdict does not take it back, nor does what is written later.
LEMMA VerdictStays ==
  ASSUME NEW items \in Seq(Nat), NEW more \in Seq(Nat), Verdict(items)
  PROVE  Verdict(items \o more)
<1>1. PICK i \in DOMAIN items :
        \/ items[i] = Failed
        \/ items[i] \in 1 .. Len(lines) /\ lines[items[i]] \in {"result", "error"}
  BY DEF Verdict
<1>2. i \in DOMAIN (items \o more) /\ (items \o more)[i] = items[i]
  BY ONLY items \in Seq(Nat), more \in Seq(Nat), i \in DOMAIN items, ConcatProperties,
          LenProperties
<1> QED
  BY <1>1, <1>2 DEF Verdict

LEMMA VerdictOutlivesWriting ==
  ASSUME NEW items \in Seq(Nat), lines \in Seq(LineKinds), Verdict(items),
         lines' = lines \/ \E kind \in LineKinds : lines' = Append(lines, kind)
  PROVE  Verdict(items)'
BY DEF Verdict

\* What Frey says of its own is a verdict.
LEMMA FailedIsVerdict ==
  ASSUME NEW items \in Seq(Nat)
  PROVE  Verdict(items \o <<Failed>>)
<1>1. (items \o <<Failed>>)[Len(items) + 1] = Failed
  BY DEF Failed
<1>2. Len(items) + 1 \in DOMAIN (items \o <<Failed>>)
  BY DEF Failed
<1> QED
  BY <1>1, <1>2 DEF Verdict

\* Taking an item moves it, and no more.
LEMMA TakeMoves ==
  ASSUME queue \in Seq(Nat), got \in Seq(Nat), Take
  PROVE  /\ queue' \in Seq(Nat) /\ got' \in Seq(Nat)
         /\ got' \o queue' = got \o queue
<1>1. \A g, q \in Seq(Nat) : q # <<>> =>
        /\ Tail(q) \in Seq(Nat) /\ Append(g, Head(q)) \in Seq(Nat)
        /\ Append(g, Head(q)) \o Tail(q) = g \o q
  <2> TAKE g, q \in Seq(Nat)
  <2> HAVE q # <<>>
  <2>1. Tail(q) \in Seq(Nat) /\ Head(q) \in Nat
    BY SMTT(30)
  <2>2. Append(g, Head(q)) \in Seq(Nat)
    BY ONLY <2>1, g \in Seq(Nat), SMTT(30)
  <2>3. Append(g, Head(q)) \o Tail(q) = g \o q
    BY SMTT(60)
  <2> QED
    BY <2>1, <2>2, <2>3
<1>2. queue # <<>> /\ got' = Append(got, Head(queue)) /\ queue' = Tail(queue)
  BY DEF Take
<1> QED
  BY <1>1, <1>2

\* An item goes behind all that was said.
LEMMA QueuedBehind ==
  ASSUME NEW said \in Seq(Nat), NEW queued \in Seq(Nat), NEW more \in Seq(Nat)
  PROVE  /\ queued \o more \in Seq(Nat)
         /\ said \o (queued \o more) = (said \o queued) \o more
<1>1. queued \o more \in Seq(Nat)
  BY ConcatProperties
<1>2. said \o (queued \o more) = (said \o queued) \o more
  <2>1. (said \o queued) \o more = said \o (queued \o more)
    BY ConcatAssociative, SMTT(60)
  <2> QED
    BY ONLY <2>1, Zenon
<1> QED
  BY <1>1, <1>2, Zenon

LEMMA PollKeepsVerdict ==
  ASSUME VerdictInv, UNCHANGED <<cliVars, source>>, Polls \/ Suspend \/ Wake
  PROVE  VerdictInv'
<1>1. UNCHANGED <<step, lines, read, finished, source>>
  BY DEF cliVars, process
<1>2. CASE Take /\ UNCHANGED alive /\ consumer \notin {"ended", "dropped"}
  <2>1. queue' \in Seq(Nat) /\ got' \in Seq(Nat) /\ got' \o queue' = got \o queue
    BY <1>2, TakeMoves DEF VerdictInv
  <2>2. consumer' = "ready"
    BY <1>2 DEF Take
  <2>3. Verdict(got \o queue) => Verdict(got \o queue)'
    BY <1>1, <2>1 DEF Verdict
  <2> QED
    BY <1>1, <1>2, <2>1, <2>2, <2>3 DEF VerdictInv
<1>3. CASE UNCHANGED <<queue, alive, got>> /\ consumer # "dropped"
           /\ (consumer' = "ended" => queue = <<>> /\ ~alive)
           /\ (consumer = "ended" => consumer' = "ended")
  BY <1>1, <1>3 DEF VerdictInv, Verdict
<1>4. \/ Take /\ UNCHANGED alive /\ consumer \notin {"ended", "dropped"}
      \/ /\ UNCHANGED <<queue, alive, got>> /\ consumer # "dropped"
         /\ consumer' = "ended" => queue = <<>> /\ ~alive
         /\ consumer = "ended" => consumer' = "ended"
  BY DEF Polls, PollQueued, PollProducer, PollSpent, LastPoll, Suspend, Wake, Take
<1> QED
  BY <1>2, <1>3, <1>4

LEMMA ReadKeepsVerdict ==
  ASSUME VerdictInv, ReadLine, UNCHANGED source
  PROVE  VerdictInv'
<1> DEFINE k == read + 1
<1>1. k \in 1 .. Len(lines) /\ read' = k /\ UNCHANGED <<step, lines, source>>
  BY DEF VerdictInv, ReadLine, process
<1>2. Events(k) \in Seq(Nat)
  BY <1>1 DEF Events
<1>3. /\ consumer = "polling" /\ alive /\ queue' = queue \o Events(k)
      /\ UNCHANGED <<alive, consumer, got>>
  BY DEF ReadLine, Push
<1>4. queue' \in Seq(Nat) /\ got \o queue' = (got \o queue) \o Events(k)
  <2>1. queue \in Seq(Nat) /\ got \in Seq(Nat)
    BY DEF VerdictInv
  <2>2. queue' = queue \o Events(k)
    BY <1>3
  <2> QED
    BY <1>2, <2>1, <2>2, QueuedBehind
<1>5. got \o queue \in Seq(Nat)
  BY DEF VerdictInv
<1>6. finished => Verdict(got \o queue')
  BY <1>2, <1>3, <1>4, <1>5, VerdictStays DEF VerdictInv
<1>7. lines[k] = "result" => Verdict((got \o queue) \o Events(k))
  <2> SUFFICES ASSUME lines[k] = "result" PROVE Verdict((got \o queue) \o Events(k))
    OBVIOUS
  <2>1. Events(k) = <<k>>
    BY DEF Events
  <2>2. ((got \o queue) \o <<k>>)[Len(got \o queue) + 1] = k
    BY <1>5
  <2>3. Len(got \o queue) + 1 \in DOMAIN ((got \o queue) \o <<k>>)
    BY <1>1, <1>5
  <2> QED
    BY <1>1, <2>1, <2>2, <2>3 DEF Verdict
<1>8. finished' => Verdict(got \o queue')
  BY <1>4, <1>6, <1>7 DEF ReadLine
<1>9. Verdict(got \o queue') => Verdict(got \o queue)'
  BY <1>1, <1>3 DEF Verdict
<1>10. step = "reading"
  BY DEF ReadLine
<1> HIDE DEF k
<1> QED
  BY <1>1, <1>3, <1>4, <1>8, <1>9, <1>10 DEF VerdictInv

\* The producer returns: at the end of the output behind a result, else behind a word
\* of its own.
LEMMA ReturnKeepsVerdict ==
  ASSUME VerdictInv, UNCHANGED <<step, lines, read, finished, source>>,
         step \in {"reading", "reaping"},
         Return(<<Failed>>) \/ (finished /\ Return(<<>>))
  PROVE  VerdictInv'
<1> DEFINE said == got \o queue
<1>1. said \in Seq(Nat) /\ queue \in Seq(Nat) /\ got \in Seq(Nat)
  BY DEF VerdictInv
<1>2. /\ consumer = "polling" /\ UNCHANGED <<consumer, got>> /\ alive /\ ~alive'
      /\ queue' = queue \o <<Failed>> \/ (finished /\ queue' = queue \o <<>>)
  BY DEF Return
<1>3. <<Failed>> \in Seq(Nat) /\ queue \o <<>> = queue
  BY <1>1, ConcatEmptySeq DEF Failed
<1>7. queue' \in Seq(Nat)
  BY <1>1, <1>2, <1>3, ConcatProperties
<1>4. got \o queue' = said \o <<Failed>> \/ (finished /\ got \o queue' = said)
  <2>1. got \o (queue \o <<Failed>>) = (got \o queue) \o <<Failed>>
    BY <1>1, <1>3, ConcatAssociative
  <2> QED
    BY <1>2, <1>3, <2>1
<1>5. Verdict(got \o queue')
  BY <1>1, <1>2, <1>4, FailedIsVerdict DEF VerdictInv
<1>6. Verdict(got \o queue)'
  BY <1>2, <1>5 DEF Verdict
<1> QED
  BY <1>2, <1>6, <1>7 DEF VerdictInv

LEMMA CliKeepsVerdict ==
  ASSUME VerdictInv, CliStep
  PROVE  VerdictInv'
<1>1. source = "cli" /\ UNCHANGED source /\ CliNext
  BY DEF CliStep
<1>2. CASE Spawn \/ SpawnFails \/ Begin
  <2>1. UNCHANGED <<lines, read, queue, got, finished>>
    BY <1>2 DEF Spawn, SpawnFails, Begin, Open, process, stream
  <2>2. Verdict(got \o queue) => Verdict(got \o queue)'
    BY <2>1 DEF Verdict
  <2>3. /\ alive' \in {alive, TRUE} /\ consumer' \in {consumer, "ready"}
        /\ step = "idle" => step' \in {"spawned", "over"} /\ ~finished
        /\ step' = "spawned" => alive'
        /\ step' = "reading" => step = "spawned" /\ consumer = "polling"
        /\ step' \in {"spawned", "over", "reading"}
    BY <1>2 DEF Spawn, SpawnFails, Begin, Open, process, stream, VerdictInv
  <2>4. CASE Begin
    BY <1>1, <2>1, <2>4 DEF Begin, stream, VerdictInv
  <2>5. CASE Spawn \/ SpawnFails
    BY <1>1, <2>1, <2>5 DEF Spawn, SpawnFails, Open, stream, VerdictInv
  <2> QED
    BY <1>2, <2>4, <2>5
<1>3. CASE Child \/ Expire
  <2>1. UNCHANGED <<step, read, stream, finished>>
    BY <1>3 DEF Child, WriteLine, CloseStdout, Exit, Expire, process
  <2>2. \/ lines' = lines
        \/ \E kind \in LineKinds : lines' = Append(lines, kind)
    BY <1>3 DEF Child, WriteLine, CloseStdout, Exit, Expire, process
  <2>3. lines' \in Seq(LineKinds) /\ read \in 0 .. Len(lines')
    <3>1. lines \in Seq(LineKinds) /\ read \in 0 .. Len(lines)
      BY DEF VerdictInv
    <3> HIDE DEF LineKinds
    <3> QED
      BY <2>2, <3>1
  <2>4. Verdict(got \o queue) => Verdict(got \o queue)'
    <3>1. got \o queue \in Seq(Nat)
      BY DEF VerdictInv
    <3> QED
      BY <2>1, <2>2, <3>1, VerdictOutlivesWriting DEF VerdictInv, stream, Verdict
  <2> QED
    BY <1>1, <2>1, <2>3, <2>4 DEF VerdictInv, stream
<1>4. CASE ReadLine
  BY <1>1, <1>4, ReadKeepsVerdict
<1>5. CASE ReadBroken \/ TimeOut \/ Reap
  BY <1>1, <1>5, ReturnKeepsVerdict DEF ReadBroken, TimeOut, Reap, cliVars, process
<1>6. CASE EndOfOutput
  <2>1. CASE finished /\ Return(<<>>) /\ UNCHANGED step
    BY <1>1, <1>6, <2>1, ReturnKeepsVerdict DEF EndOfOutput
  <2>2. CASE ~finished /\ step' = "reaping" /\ UNCHANGED stream
    BY <1>1, <1>6, <2>2 DEF EndOfOutput, stream, VerdictInv
  <2> QED
    BY <1>6, <2>1, <2>2 DEF EndOfOutput
<1>7. CASE Abandon
  BY <1>1, <1>7 DEF Abandon, Drop, VerdictInv
<1>8. CASE CliWaits \/ CliWakes \/ (Polls /\ UNCHANGED cliVars)
  BY <1>1, <1>8, PollKeepsVerdict DEF CliWaits, CliWakes
<1> QED
  BY <1>1, <1>2, <1>3, <1>4, <1>5, <1>6, <1>7, <1>8 DEF CliNext, Frey

LEMMA NextKeepsVerdicts == VerdictsInv /\ [Next]_streamsVars => VerdictsInv'
<1> SUFFICES ASSUME VerdictsInv, [Next]_streamsVars PROVE VerdictsInv'
  OBVIOUS
<1>1. CASE HttpStep
  BY <1>1 DEF HttpStep, cliVars, VerdictsInv
<1>2. CASE CliStep
  BY <1>2, CliKeepsVerdict DEF CliStep, VerdictsInv
<1>3. CASE UNCHANGED streamsVars
  BY <1>3 DEF streamsVars, stream, cliVars, process, VerdictsInv, VerdictInv, Verdict
<1> QED
  BY <1>1, <1>2, <1>3 DEF Next, AtRest

\* A delegated task whose stream has ended has told its consumer how it ended, however
\* the child, the clock and the consumer interleave (AgentCli::delegate).
THEOREM TasksEndWithVerdict == Spec => []EndsWithVerdict
<1>1. VerdictsInv => EndsWithVerdict
  <2> SUFFICES ASSUME VerdictsInv, step \in {"reading", "reaping"}, consumer = "ended"
               PROVE  \E i \in DOMAIN got :
                        \/ got[i] = Failed
                        \/ lines[got[i]] \in {"result", "error"}
    BY DEF EndsWithVerdict
  <2>1. VerdictInv
    BY DEF VerdictsInv
  <2>2. got \o queue = got
    BY <2>1, ConcatEmptySeq DEF VerdictInv
  <2> QED
    BY <2>1, <2>2 DEF VerdictInv, Verdict
<1> QED
  BY <1>1, InitVerdicts, NextKeepsVerdicts, PTL DEF Spec
--------------------------------------------------------------------------------
(* A body is one run of tokens, however it was cut.                        *)

\* The i-th token of every body, and the stretch of tokens from one place to another.
Tok(i) == <<1 + ((i - 1) \div 4), Parts[1 + ((i - 1) % 4)]>>
Slice(s, from, to) ==
  s \in Seq(Token) /\ Len(s) = to - from /\ \A i \in 1 .. to - from : s[i] = Tok(from + i)

LEMMA TokType ==
  ASSUME NEW i \in Nat \ {0}
  PROVE  /\ Tok(i) \in Token
         /\ Tok(i)[2] = "blank" <=> i % 4 = 0
         /\ Tok(i)[2] = "half" <=> i % 4 = 2
         /\ i % 4 = 0 => Tok(i)[1] = i \div 4
<1> DEFINE r == (i - 1) % 4
           q == (i - 1) \div 4
<1>1. r \in 0 .. 3 /\ q \in Nat /\ i - 1 = 4 * q + r
  OBVIOUS
<1>2. Tok(i) = <<1 + q, Parts[1 + r]>>
  BY DEF Tok
<1>3. i % 4 = (r + 1) % 4
  BY <1>1
<1>4. i % 4 = 0 => i \div 4 = 1 + q
  BY <1>1
<1> HIDE DEF r, q
<1>5. r = 0 \/ r = 1 \/ r = 2 \/ r = 3
  BY <1>1
<1>6. /\ Parts[1 + r] \in {"head", "half", "rest", "blank"}
      /\ Parts[1 + r] = "blank" <=> r = 3
      /\ Parts[1 + r] = "half" <=> r = 1
  BY <1>5 DEF Parts
<1>7. (i % 4 = 0 <=> r = 3) /\ (i % 4 = 2 <=> r = 1)
  BY <1>3, <1>5
<1>8. Tok(i)[1] = 1 + q /\ Tok(i)[2] = Parts[1 + r]
  BY <1>2
<1> QED
  BY <1>1, <1>2, <1>4, <1>6, <1>7, <1>8 DEF Token

LEMMA SliceOfNothing ==
  ASSUME NEW a \in Nat
  PROVE  Slice(<<>>, a, a)
BY EmptySeq DEF Slice

LEMMA SlicesJoin ==
  ASSUME NEW a \in Nat, NEW b \in Nat, NEW c \in Nat, a <= b, b <= c,
         NEW x, NEW y, Slice(x, a, b), Slice(y, b, c)
  PROVE  Slice(x \o y, a, c)
<1>1. /\ x \in Seq(Token) /\ Len(x) = b - a /\ \A i \in 1 .. b - a : x[i] = Tok(a + i)
      /\ y \in Seq(Token) /\ Len(y) = c - b /\ \A i \in 1 .. c - b : y[i] = Tok(b + i)
  BY DEF Slice
<1> DEFINE z == x \o y
<1>2. z \in Seq(Token) /\ Len(z) = Len(x) + Len(y)
      /\ \A i \in 1 .. Len(x) + Len(y) : z[i] = IF i <= Len(x) THEN x[i] ELSE y[i - Len(x)]
  BY ONLY <1>1, ConcatProperties
<1> HIDE DEF z
<1>3. Len(z) = c - a
  BY <1>1, <1>2
<1>4. ASSUME NEW i \in 1 .. c - a PROVE z[i] = Tok(a + i)
  <2>1. z[i] = IF i <= b - a THEN x[i] ELSE y[i - (b - a)]
    BY <1>1, <1>2
  <2>2. CASE i <= b - a
    <3>1. i \in 1 .. b - a
      BY <2>2
    <3> QED
      BY <1>1, <2>1, <2>2, <3>1
  <2>3. CASE ~(i <= b - a)
    <3> DEFINE j == i - (b - a)
    <3>1. j \in 1 .. c - b /\ b + j = a + i
      BY <2>3
    <3> QED
      BY <1>1, <2>1, <2>3, <3>1
  <2> QED
    BY <2>2, <2>3
<1> QED
  BY <1>2, <1>3, <1>4 DEF Slice, z

LEMMA SliceCuts ==
  ASSUME NEW a \in Nat, NEW b \in Nat, NEW c \in Nat, a <= b, b <= c,
         NEW x, Slice(x, a, c)
  PROVE  /\ Slice(SubSeq(x, 1, b - a), a, b)
         /\ Slice(SubSeq(x, (b - a) + 1, Len(x)), b, c)
<1>1. x \in Seq(Token) /\ Len(x) = c - a /\ \A i \in 1 .. c - a : x[i] = Tok(a + i)
  BY DEF Slice
<1> DEFINE y == SubSeq(x, 1, b - a)
           z == SubSeq(x, (b - a) + 1, Len(x))
<1>2. y \in Seq(Token) /\ Len(y) = b - a /\ \A i \in 1 .. b - a : y[i] = x[i]
  BY <1>1
<1>3. z \in Seq(Token) /\ Len(z) = c - b /\ \A i \in 1 .. c - b : z[i] = x[(b - a) + i]
  BY <1>1
<1> HIDE DEF y, z
<1>4. \A i \in 1 .. b - a : i \in 1 .. c - a
  OBVIOUS
<1>5. \A i \in 1 .. c - b : (b - a) + i \in 1 .. c - a /\ a + ((b - a) + i) = b + i
  OBVIOUS
<1>6. Slice(y, a, b)
  BY <1>1, <1>2, <1>4 DEF Slice
<1>7. Slice(z, b, c)
  BY <1>1, <1>3, <1>5 DEF Slice
<1> QED
  BY <1>6, <1>7 DEF y, z

\* A body is a stretch from the beginning, with or without its last blank line.
Lengths(frames) ==
  IF frames = <<>> THEN {0} ELSE {4 * Len(frames), 4 * Len(frames) - 1}

LEMMA BodyIsSlice ==
  ASSUME NEW frames \in Seq(FrameKinds), NEW tidy \in BOOLEAN
  PROVE  \E L \in Lengths(frames) : Slice(WireOf(frames, tidy), 0, L)
<1> DEFINE n == 4 * Len(frames)
           all == [i \in 1 .. n |-> <<1 + ((i - 1) \div 4), Parts[1 + ((i - 1) % 4)]>>]
<1>1. n \in Nat /\ Len(frames) \in Nat
  BY LenProperties
<1>2. \A i \in 1 .. n : all[i] = Tok(i) /\ all[i] \in Token
  <2>1. \A i \in 1 .. n : all[i] = Tok(i) /\ i \in Nat \ {0}
    BY <1>1 DEF Tok
  <2> QED
    BY <2>1, TokType
<1>3. all \in Seq(Token) /\ Len(all) = n
  <2> HIDE DEF n
  <2>1. all \in [1 .. n -> Token]
    BY <1>2
  <2> DEFINE s == all
  <2> HIDE DEF s
  <2>2. s \in [1 .. n -> Token]
    BY <2>1 DEF s
  <2>3. s \in Seq(Token) /\ Len(s) = n
    BY <1>1, <2>2
  <2> QED
    BY <2>3 DEF s
<1> DEFINE o == 0
<1>4. o \in Nat /\ \A i \in 1 .. n : o + i = i
  BY <1>1
<1>5. Slice(all, o, n)
  <2> HIDE DEF n, all
  <2>1. n - o = n
    BY <1>1 DEF o
  <2> QED
    BY <1>2, <1>3, <1>4, <2>1 DEF Slice
<1>6. CASE tidy \/ frames = <<>>
  <2>1. WireOf(frames, tidy) = all
    BY <1>6 DEF WireOf
  <2>2. n \in Lengths(frames)
    BY DEF Lengths
  <2> QED
    BY <1>5, <2>1, <2>2
<1>7. CASE ~(tidy \/ frames = <<>>)
  <2>1. Len(frames) > 0 /\ frames # <<>>
    BY <1>7, EmptySeq, LenProperties
  <2>2. n - 1 \in Nat /\ n - 1 <= n /\ o <= n - 1 /\ n - 1 - o = n - 1 /\ n - 1 \in Lengths(frames)
    BY <1>1, <2>1 DEF Lengths
  <2>3. WireOf(frames, tidy) = SubSeq(all, 1, n - 1)
    <3>1. WireOf(frames, tidy) = SubSeq(all, 1, Len(all) - 1)
      BY <1>7 DEF WireOf
    <3> HIDE DEF all
    <3> QED
      BY <1>3, <3>1
  <2> DEFINE m == n - 1
  <2> HIDE DEF n, all, o, m
  <2>4. m \in Nat /\ o <= m /\ m <= n /\ m - o = m
    BY <2>2 DEF m
  <2>5. Slice(SubSeq(all, 1, m - o), o, m)
    BY <1>1, <1>4, <1>5, <2>4, SliceCuts
  <2>6. Slice(WireOf(frames, tidy), o, m)
    BY <2>3, <2>4, <2>5 DEF m
  <2> QED
    BY <2>2, <2>6 DEF m, o
<1> QED
  BY <1>6, <1>7

--------------------------------------------------------------------------------
(* What the decoder makes of a stretch that starts at a frame.             *)

LEMMA BlanksOfSlice ==
  ASSUME NEW k \in Nat, NEW b \in Nat, 4 * k <= b, NEW text, Slice(text, 4 * k, b)
  PROVE  /\ Blanks(text) = {i \in 1 .. b - 4 * k : i % 4 = 0}
         /\ \A i \in Blanks(text) : text[i][1] = k + (i \div 4)
<1>1. text \in Seq(Token) /\ Len(text) = b - 4 * k
      /\ \A i \in 1 .. b - 4 * k : text[i] = Tok(4 * k + i)
  BY DEF Slice
<1>2. DOMAIN text = 1 .. b - 4 * k
  BY <1>1, LenProperties
<1>3. ASSUME NEW i \in 1 .. b - 4 * k
      PROVE  /\ text[i][2] = "blank" <=> i % 4 = 0
             /\ i % 4 = 0 => text[i][1] = k + (i \div 4)
  <2> DEFINE j == 4 * k + i
  <2>1. j \in Nat \ {0} /\ j % 4 = i % 4
    OBVIOUS
  <2>2. i % 4 = 0 => j \div 4 = k + (i \div 4)
    OBVIOUS
  <2> HIDE DEF j
  <2>3. text[i] = Tok(j)
    BY <1>1 DEF j
  <2> QED
    BY <2>1, <2>2, <2>3, TokType
<1> QED
  BY <1>2, <1>3 DEF Blanks

LEMMA FramesOfSlice ==
  ASSUME NEW k \in Nat, NEW b \in Nat, 4 * k <= b, NEW text, Slice(text, 4 * k, b)
  PROVE  LET whole == {span \in FrameTexts(text) : Intact(text, span)}
         IN  {text[span[2]][1] : span \in whole} = k + 1 .. b \div 4
<1> DEFINE B == Blanks(text)
           whole == {span \in FrameTexts(text) : Intact(text, span)}
           q == b \div 4
<1>1. B = {i \in 1 .. b - 4 * k : i % 4 = 0} /\ \A i \in B : text[i][1] = k + (i \div 4)
  BY BlanksOfSlice
<1>2. q \in Nat /\ 4 * q <= b /\ b <= 4 * q + 3
  OBVIOUS
<1>3. \A span \in whole : span[2] \in B
  BY DEF FrameTexts
<1>4. ASSUME NEW i \in B PROVE k + (i \div 4) \in k + 1 .. q
  <2>1. i \in 1 .. b - 4 * k /\ i % 4 = 0
    BY <1>1
  <2>2. i = 4 * (i \div 4) /\ i \div 4 \in Nat
    BY <2>1
  <2> QED
    BY <1>2, <2>1, <2>2
<1>5. ASSUME NEW j \in k + 1 .. q PROVE \E span \in whole : text[span[2]][1] = j
  <2> DEFINE to == 4 * (j - k)
             from == to - 4
             span == <<from, to>>
  <2>1. to \in 1 .. b - 4 * k /\ to % 4 = 0 /\ to \div 4 = j - k
    BY <1>2
  <2>2. from = 0 \/ (from \in 1 .. b - 4 * k /\ from % 4 = 0)
    BY <1>2
  <2>3. from < to /\ to - from = 4 /\ from \in Nat /\ from % 4 = 0
    BY <2>2
  <2>4. ASSUME NEW m \in B, from < m, m < to PROVE FALSE
    <3>1. m \in Nat /\ m % 4 = 0
      BY <1>1
    <3> HIDE DEF to, from
    <3> QED
      BY <2>1, <2>3, <2>4, <3>1
  <2> HIDE DEF to, from
  <2>5. to \in B /\ from \in {0} \cup B
    BY <1>1, <2>1, <2>2
  <2>6. span \in whole
    BY <2>3, <2>4, <2>5 DEF FrameTexts, Intact
  <2>7. text[span[2]][1] = j
    <3>1. span[2] = to
      OBVIOUS
    <3>2. text[to][1] = k + (to \div 4)
      BY <1>1, <2>5
    <3> QED
      BY <2>1, <3>1, <3>2
  <2> QED
    BY <2>6, <2>7
<1> HIDE DEF whole, B, q
<1>6. \A span \in whole : text[span[2]][1] \in k + 1 .. q
  BY <1>1, <1>3, <1>4
<1>7. {text[span[2]][1] : span \in whole} = k + 1 .. q
  BY <1>5, <1>6
<1> QED
  BY <1>7 DEF whole, q

\* What is left of it starts at the next frame.
LEMMA RestOfSlice ==
  ASSUME NEW k \in Nat, NEW b \in Nat, 4 * k <= b, NEW text, Slice(text, 4 * k, b)
  PROVE  Slice(Rest(text), 4 * (b \div 4), b)
<1> DEFINE B == Blanks(text)
           q == b \div 4
           last == 4 * (q - k)
<1>1. B = {i \in 1 .. b - 4 * k : i % 4 = 0}
  BY BlanksOfSlice
<1>2. q \in Nat /\ 4 * q <= b /\ b <= 4 * q + 3 /\ k <= q
  OBVIOUS
<1>3. last \in Nat /\ last % 4 = 0 /\ last <= b - 4 * k /\ b - 4 * k <= last + 3
  BY <1>2
<1>4. last \in {0} \cup B
  <2> HIDE DEF last
  <2> QED
    BY <1>1, <1>3
<1>5. ASSUME NEW m \in B PROVE m <= last
  <2>1. m \in Nat /\ m % 4 = 0 /\ m <= b - 4 * k
    BY <1>1
  <2> HIDE DEF last
  <2> QED
    BY <1>3, <2>1
<1> HIDE DEF last
<1>6. ASSUME NEW n \in {0} \cup B, \A m \in B : m <= n PROVE n = last
  <2>1. n \in Nat
    BY <1>1
  <2>2. n <= last
    BY <1>3, <1>5, <1>6
  <2>3. last <= n
    <3>1. CASE last = 0
      BY <2>1, <3>1
    <3>2. CASE last \in B
      BY <1>6, <3>2
    <3> QED
      BY <1>4, <3>1, <3>2
  <2> QED
    BY <1>3, <2>1, <2>2, <2>3
<1>7. LastBlank(text) = last
  BY <1>4, <1>5, <1>6 DEF LastBlank
<1>8. Rest(text) = SubSeq(text, last + 1, Len(text))
  BY <1>7 DEF Rest
<1> DEFINE a == 4 * k
           c == 4 * q
<1>9. a \in Nat /\ c \in Nat /\ a <= c /\ c <= b /\ c - a = last
  BY <1>2 DEF last
<1>10. Slice(text, a, b)
  OBVIOUS
<1> HIDE DEF a, c
<1>11. Slice(SubSeq(text, (c - a) + 1, Len(text)), c, b)
  BY <1>9, <1>10, SliceCuts
<1> QED
  BY <1>8, <1>9, <1>11 DEF c

\* The frames that say something, by their numbers.
Spoken == {k \in DOMAIN script : script[k] = "payload"}

LEMMA DeliveredOfSlice ==
  ASSUME script \in Seq(FrameKinds), NEW k \in Nat, NEW b \in Nat, 4 * k <= b,
         b <= 4 * Len(script), NEW text, Slice(text, 4 * k, b)
  PROVE  /\ Ascending(k, Spoken) \o Delivered(text) = Ascending(b \div 4, Spoken)
         /\ Delivered(text) \in Seq(Nat)
<1> DEFINE n == Len(script)
           q == b \div 4
           frames == k + 1 .. q
           said == {j \in frames : script[j] = "payload"}
<1>1. n \in Nat /\ DOMAIN script = 1 .. n
  BY LenProperties
<1>2. q \in Nat /\ q <= n /\ k <= q
  BY <1>1
<1>3. Delivered(text) = Ascending(n, said)
  BY FramesOfSlice DEF Delivered
<1>4. said = Spoken \cap (k + 1 .. q)
  BY <1>1, <1>2 DEF Spoken
<1>5. Ascending(k, Spoken) \o Ascending(n, Spoken \cap (k + 1 .. q)) = Ascending(q, Spoken)
  <2> HIDE DEF q, n
  <2> QED
    BY <1>1, <1>2, AscendingJoins
<1>6. Ascending(n, said) \in Seq(Nat)
  <2> HIDE DEF said, n
  <2> QED
    BY <1>1, AscendingGrows
<1> HIDE DEF said
<1> QED
  BY <1>3, <1>4, <1>5, <1>6

\* The body ended: a last frame that only lacks its blank line is delivered too, and
\* nothing of one that is cut off before.
LEMMA DeliveredOfFlush ==
  ASSUME script \in Seq(FrameKinds), NEW k \in Nat, NEW b \in 4 * k .. 4 * k + 3,
         b <= 4 * Len(script), Slice(buffer, 4 * k, b)
  PROVE  LET q == IF b = 4 * k + 3 THEN k + 1 ELSE k
         IN  /\ Ascending(k, Spoken) \o Delivered(Flush) = Ascending(q, Spoken)
             /\ Delivered(Flush) \in Seq(Nat)
             /\ q <= Len(script)
<1> DEFINE m == b - 4 * k
           t == <<Last(buffer)[1], "blank">>
           n == Len(script)
<1>1. n \in Nat /\ b \in Nat /\ m \in 0 .. 3 /\ k <= n
  BY LenProperties
<1>2. buffer \in Seq(Token) /\ Len(buffer) = m /\ \A i \in 1 .. m : buffer[i] = Tok(4 * k + i)
  BY DEF Slice
<1>3. CASE m = 0
  <2>1. buffer = <<>>
    BY <1>2, <1>3, EmptySeq
  <2>2. Flush = buffer
    BY <2>1 DEF Flush
  <2>3. b = 4 * k /\ b \div 4 = k /\ b # 4 * k + 3
    BY <1>1, <1>3
  <2>4. Ascending(k, Spoken) \o Delivered(buffer) = Ascending(b \div 4, Spoken)
        /\ Delivered(buffer) \in Seq(Nat)
    BY <1>1, DeliveredOfSlice
  <2> QED
    BY <1>1, <2>2, <2>3, <2>4
<1>4. CASE m # 0
  <2>1. buffer # <<>> /\ Last(buffer) = Tok(b)
    BY <1>1, <1>2, <1>4 DEF Last
  <2>2. b \in Nat \ {0} /\ b % 4 # 0
    BY <1>1, <1>4
  <2>3. Tok(b) \in Token /\ Tok(b)[2] # "blank"
    BY <2>2, TokType
  <2>4. Flush = Append(buffer, t) /\ t \in Token
    BY <2>1, <2>3 DEF Flush, Token
  <2> DEFINE text == Append(buffer, t)
  <2>5. /\ text \in Seq(Token) /\ Len(text) = m + 1 /\ DOMAIN text = 1 .. m + 1
        /\ text[m + 1] = t /\ \A i \in 1 .. m : text[i] = buffer[i]
    BY <1>2, <2>4, AppendProperties, LenProperties
  <2>6. CASE m = 3
    <3> DEFINE from == 4 * k
               c == 4 * k + 4
    <3>1. Tok(b)[1] = k + 1 /\ Tok(c) = <<k + 1, "blank">>
      <4>1. b = 4 * k + 3 /\ (b - 1) \div 4 = k
        BY <1>1, <2>6
      <4>2. (c - 1) \div 4 = k /\ (c - 1) % 4 = 3
        OBVIOUS
      <4>3. Tok(b)[1] = 1 + ((b - 1) \div 4)
        BY DEF Tok
      <4>4. Tok(c) = <<1 + ((c - 1) \div 4), Parts[1 + ((c - 1) % 4)]>>
        BY DEF Tok
      <4>5. Parts[4] = "blank"
        BY DEF Parts
      <4> HIDE DEF c
      <4> QED
        BY <4>1, <4>2, <4>3, <4>4, <4>5
    <3>2. t = Tok(c)
      BY <2>1, <3>1
    <3>3. from \in Nat /\ c \in Nat /\ from <= c /\ c - from = 4 /\ c <= 4 * n /\ c \div 4 = k + 1
          /\ b = 4 * k + 3 /\ k + 1 <= n
      BY <1>1, <2>6
    <3>4. Slice(text, from, c)
      <4>1. ASSUME NEW i \in 1 .. 4 PROVE text[i] = Tok(from + i)
        <5>1. CASE i = 4
          <6>1. from + i = c /\ i = m + 1
            BY <2>6, <5>1
          <6> HIDE DEF text, c, from, t, m
          <6>2. text[m + 1] = Tok(c)
            BY <2>5, <3>2
          <6> QED
            BY <6>1, <6>2
        <5>2. CASE i # 4
          <6>1. i \in 1 .. m
            BY <2>6, <5>2
          <6>2. text[i] = buffer[i] /\ buffer[i] = Tok(4 * k + i)
            <7> HIDE DEF text, m
            <7> QED
              BY <1>2, <2>5, <6>1
          <6> QED
            BY <6>2
        <5> QED
          BY <5>1, <5>2
      <4>2. text \in Seq(Token) /\ Len(text) = 4
        BY <2>5, <2>6
      <4> HIDE DEF text, from, c
      <4> QED
        BY <3>3, <4>1, <4>2 DEF Slice
    <3> HIDE DEF text, c
    <3>5. Ascending(k, Spoken) \o Delivered(text) = Ascending(c \div 4, Spoken)
          /\ Delivered(text) \in Seq(Nat)
      BY <3>3, <3>4, DeliveredOfSlice
    <3> QED
      BY <2>4, <3>3, <3>5 DEF text
  <2>7. CASE m # 3
    <3> DEFINE whole == {span \in FrameTexts(text) : Intact(text, span)}
               none == {j \in {text[span[2]][1] : span \in whole} : script[j] = "payload"}
    <3>1. Blanks(text) \subseteq 1 .. m + 1
      BY <2>5 DEF Blanks
    <3>2. whole = {}
      <4> SUFFICES ASSUME NEW span \in whole PROVE FALSE
        OBVIOUS
      <4>1. /\ span[1] \in {0} \cup Blanks(text) /\ span[2] \in Blanks(text)
            /\ span[2] - span[1] = 4
        BY DEF FrameTexts, Intact
      <4>2. span[1] \in Nat /\ span[2] \in Nat /\ span[2] <= 3
        BY <1>1, <2>7, <3>1, <4>1
      <4> QED
        BY <4>1, <4>2
    <3>3. none = {}
      BY <3>2
    <3>4. Delivered(text) = Ascending(n, {})
      BY <3>3 DEF Delivered
    <3>5. Spoken \cap (k + 1 .. k) = {}
      OBVIOUS
    <3>6. Ascending(k, Spoken) \o Ascending(n, Spoken \cap (k + 1 .. k)) = Ascending(k, Spoken)
      <4> DEFINE q == k
      <4>1. q \in Nat /\ k <= q /\ q <= n
        BY <1>1
      <4> HIDE DEF q, n
      <4>2. Ascending(k, Spoken) \o Ascending(n, Spoken \cap (k + 1 .. q)) = Ascending(q, Spoken)
        BY <1>1, <4>1, AscendingJoins
      <4> QED
        BY <4>2 DEF q
    <3>7. Ascending(n, {}) \in Seq(Nat)
      <4> HIDE DEF n
      <4> QED
        BY <1>1, AscendingGrows
    <3>8. b # 4 * k + 3
      BY <1>1, <2>7
    <3> HIDE DEF text
    <3> QED
      BY <1>1, <2>4, <3>4, <3>5, <3>6, <3>7, <3>8 DEF text
  <2> QED
    BY <2>6, <2>7
<1> QED
  BY <1>3, <1>4

\* A chunk that comes next is decoded up to the middle of a character.
LEMMA PushedSlice ==
  ASSUME NEW a \in Nat, NEW b \in Nat, NEW c \in Nat, NEW e \in Nat,
         a <= b, b <= c, c < e, NEW chunk,
         Slice(buffer, a, b), Slice(pending, b, c), Slice(chunk, c, e)
  PROVE  \E d \in Nat :
           /\ b <= d /\ d <= e /\ e <= d + 1
           /\ e # d => Tok(e)[2] = "half"
           /\ Slice(Pushed(chunk).text, a, d) /\ Slice(Pushed(chunk).held, d, e)
<1> DEFINE all == pending \o chunk
           split == Last(all)[2] = "half"
           text == buffer \o (IF split THEN Front(all) ELSE all)
           held == IF split THEN <<Last(all)>> ELSE <<>>
<1>1. Pushed(chunk) = [text |-> text, held |-> held]
  BY DEF Pushed
<1>2. Pushed(chunk).text = text /\ Pushed(chunk).held = held
  <2> HIDE DEF text, held
  <2> QED
    BY ONLY <1>1
<1>3. Slice(all, b, e)
  BY SlicesJoin
<1> HIDE DEF all
<1>4. /\ all \in Seq(Token) /\ Len(all) = e - b /\ e - b \in Nat \ {0}
      /\ \A i \in 1 .. e - b : all[i] = Tok(b + i)
  BY <1>3 DEF Slice
<1>5. Last(all) = Tok(e) /\ Tok(e) \in Token
  <2>1. e - b \in 1 .. e - b /\ b + (e - b) = e /\ e \in Nat \ {0}
    BY <1>4
  <2>2. Last(all) = all[e - b]
    BY <1>4 DEF Last
  <2>3. all[e - b] = Tok(b + (e - b))
    BY <1>4, <2>1
  <2> QED
    BY <2>1, <2>2, <2>3, TokType
<1>6. CASE split
  <2> DEFINE d == e - 1
  <2>1. d \in Nat /\ b <= d /\ d <= e /\ e = d + 1 /\ Tok(e)[2] = "half"
    BY <1>5, <1>6
  <2>2. Slice(Front(all), b, d)
    <3>1. Front(all) = SubSeq(all, 1, d - b)
      <4>1. Len(all) - 1 = d - b
        BY <1>4
      <4> QED
        BY <4>1 DEF Front
    <3> HIDE DEF d
    <3> QED
      BY <1>3, <2>1, <3>1, SliceCuts
  <2>3. Slice(<<Last(all)>>, d, e)
    <3> DEFINE l == Last(all)
    <3>1. l \in Token /\ l = Tok(e) /\ e - d = 1
      BY <1>5
    <3> HIDE DEF l
    <3>2. <<l>> \in Seq(Token) /\ Len(<<l>>) = 1 /\ <<l>>[1] = l
      BY <3>1
    <3>3. \A i \in 1 .. e - d : <<l>>[i] = Tok(d + i)
      <4>1. \A i \in 1 .. e - d : i = 1 /\ d + i = e
        BY <2>1, <3>1
      <4> HIDE DEF d
      <4> QED
        BY <3>1, <3>2, <4>1
    <3> QED
      BY <3>1, <3>2, <3>3 DEF Slice, l
  <2> HIDE DEF d
  <2>4. Slice(buffer \o Front(all), a, d)
    BY <2>1, <2>2, SlicesJoin
  <2> QED
    BY <1>2, <1>6, <2>1, <2>3, <2>4
<1>7. CASE ~split
  <2>1. Slice(buffer \o all, a, e)
    BY <1>3, SlicesJoin
  <2>2. Slice(<<>>, e, e)
    BY SliceOfNothing
  <2> QED
    BY <1>2, <1>7, <2>1, <2>2
<1> QED
  BY <1>6, <1>7

--------------------------------------------------------------------------------
(* What a consumer was told.                                               *)

\* Every item is the one that was meant to be there, or the last one says the stream
\* has failed.
Told(items, words) ==
  \A i \in DOMAIN items :
    \/ i <= Len(words) /\ items[i] = words[i]
    \/ items[i] = Failure /\ i = Len(items) /\ ~alive

LEMMA ToldNothing ==
  ASSUME NEW words
  PROVE  Told(<<>>, words)
BY DEF Told

LEMMA ToldOnwards ==
  ASSUME NEW P, NEW k \in Nat, NEW n \in Nat, k <= n
  PROVE  Told(Ascending(k, P), Ascending(n, P))
<1> DEFINE a == Ascending(k, P)
           d == Ascending(n, P)
<1>1. a \in Seq(Nat)
  BY AscendingGrows
<1>2. Len(a) \in Nat /\ Len(d) \in Nat /\ Len(a) <= Len(d) /\ \A i \in 1 .. Len(a) : d[i] = a[i]
  BY AscendingBegins
<1> HIDE DEF a, d
<1>3. DOMAIN a = 1 .. Len(a)
  BY <1>1, LenProperties
<1>4. Told(a, d)
  BY <1>2, <1>3 DEF Told
<1> QED
  BY <1>4 DEF a, d

\* The failure comes last.
LEMMA ToldFailure ==
  ASSUME NEW P, NEW k \in Nat, NEW n \in Nat, k <= n
  PROVE  LET items == Ascending(k, P) \o <<Failure>>
             words == Ascending(n, P)
         IN  \A i \in DOMAIN items :
               \/ i <= Len(words) /\ items[i] = words[i]
               \/ items[i] = Failure /\ i = Len(items)
<1> DEFINE a == Ascending(k, P)
           d == Ascending(n, P)
           c == Append(a, Failure)
<1>1. a \in Seq(Nat)
  BY AscendingGrows
<1>2. Len(a) \in Nat /\ Len(d) \in Nat /\ Len(a) <= Len(d) /\ \A i \in 1 .. Len(a) : d[i] = a[i]
  BY AscendingBegins
<1>3. Failure \in Nat
  BY DEF Failure
<1> HIDE DEF a, d
<1>4. a \o <<Failure>> = c
  BY <1>1, <1>3, AppendIsConcat
<1>5. /\ c \in Seq(Nat) /\ Len(c) = Len(a) + 1 /\ DOMAIN c = 1 .. Len(a) + 1
      /\ c[Len(a) + 1] = Failure /\ \A i \in 1 .. Len(a) : c[i] = a[i]
  BY <1>1, <1>3, AppendProperties, LenProperties
<1> HIDE DEF c
<1>6. \A i \in DOMAIN c :
        \/ i <= Len(d) /\ c[i] = d[i]
        \/ c[i] = Failure /\ i = Len(c)
  <2> SUFFICES ASSUME NEW i \in 1 .. Len(a) + 1, i # Len(a) + 1
               PROVE  i <= Len(d) /\ c[i] = d[i]
    BY <1>5
  <2>1. i \in 1 .. Len(a)
    BY <1>2
  <2> QED
    BY <1>2, <1>5, <2>1
<1> QED
  BY <1>4, <1>6 DEF a, d

\* What was taken before the stream was dropped was told.
LEMMA ToldBefore ==
  ASSUME NEW a \in Seq(Nat), NEW b \in Seq(Nat), NEW words, Told(a \o b, words)
  PROVE  Told(a, words)
<1> DEFINE c == a \o b
           m == Len(a)
           n == Len(b)
<1>1. c \in Seq(Nat) /\ Len(c) = m + n
      /\ \A i \in 1 .. m + n : c[i] = IF i <= m THEN a[i] ELSE b[i - m]
  BY ONLY a \in Seq(Nat), b \in Seq(Nat), ConcatProperties
<1>2. m \in Nat /\ n \in Nat /\ DOMAIN a = 1 .. m
  BY LenProperties
<1> HIDE DEF c
<1>3. DOMAIN c = 1 .. m + n
  BY <1>1, LenProperties
<1> HIDE DEF m, n
<1>4. \A i \in 1 .. m : i \in 1 .. m + n /\ i <= m /\ (i = m + n => i = m)
  BY <1>2
<1>5. ASSUME NEW i \in 1 .. m
      PROVE  \/ i <= Len(words) /\ a[i] = words[i]
             \/ a[i] = Failure /\ i = m /\ ~alive
  <2>1. c[i] = a[i]
    BY <1>1, <1>4
  <2>2. \/ i <= Len(words) /\ c[i] = words[i]
        \/ c[i] = Failure /\ i = m + n /\ ~alive
    BY <1>1, <1>3, <1>4 DEF Told, c
  <2> QED
    BY <1>4, <2>1, <2>2
<1> QED
  BY <1>2, <1>5 DEF Told, m

\* What was told stays told while more is said.
LEMMA ToldStillMore ==
  ASSUME NEW items, NEW P, NEW k \in Nat, NEW n \in Nat, k <= n,
         Told(items, Ascending(k, P)), items \in Seq(Nat)
  PROVE  Told(items, Ascending(n, P))
<1> DEFINE a == Ascending(k, P)
           d == Ascending(n, P)
<1>1. Len(a) \in Nat /\ Len(d) \in Nat /\ Len(a) <= Len(d) /\ \A i \in 1 .. Len(a) : d[i] = a[i]
  BY AscendingBegins
<1>2. Told(items, a) /\ DOMAIN items = 1 .. Len(items) /\ Len(items) \in Nat
  BY LenProperties
<1> HIDE DEF a, d
<1>3. \A i \in DOMAIN items : i <= Len(a) => i \in 1 .. Len(a) /\ i <= Len(d)
  BY <1>1, <1>2
<1>4. Told(items, d)
  BY <1>1, <1>2, <1>3 DEF Told
<1> QED
  BY <1>4 DEF d

\* That is what a consumer may rely on.
LEMMA ToldIsWhatWasSent ==
  ASSUME queue \in Seq(Nat), got \in Seq(Nat), Payloads \in Seq(Nat \ {0}),
         Told(got \o queue, Payloads)
  PROVE  OnlyWhatWasSent
<1> DEFINE items == got \o queue
           words == Payloads
<1>1. items \in Seq(Nat) /\ Told(items, words) /\ words \in Seq(Nat \ {0})
  BY ConcatProperties
<1> HIDE DEF items, words
<1>2. /\ Len(items) \in Nat /\ DOMAIN items = 1 .. Len(items)
      /\ Len(words) \in Nat /\ \A i \in 1 .. Len(words) : words[i] \in Nat \ {0}
  BY <1>1, LenProperties, ElementOfSeq
<1>3. ASSUME NEW i \in DOMAIN items, items[i] = Failure PROVE i = Len(items) /\ ~alive
  <2>1. i <= Len(words) => items[i] # words[i]
    <3>1. i <= Len(words) => i \in 1 .. Len(words)
      BY <1>2
    <3> QED
      BY <1>2, <1>3, <3>1 DEF Failure
  <2> QED
    BY <1>1, <2>1 DEF Told
<1>4. ASSUME NEW n \in 0 .. Len(items), \A i \in 1 .. n : items[i] # Failure
      PROVE  IsPrefix(SubSeq(items, 1, n), words)
  <2> DEFINE front == SubSeq(items, 1, n)
  <2>1. front \in Seq(Nat) /\ Len(front) = n /\ \A i \in 1 .. n : front[i] = items[i]
    BY <1>1
  <2>2. ASSUME NEW i \in 1 .. n PROVE i <= Len(words) /\ items[i] = words[i]
    <3>1. i \in DOMAIN items /\ items[i] # Failure
      BY <1>2, <1>4
    <3> QED
      BY <1>1, <3>1 DEF Told
  <2>3. n <= Len(words)
    <3>1. CASE n = 0
      BY <1>2, <3>1
    <3>2. CASE n # 0
      <4>1. n \in 1 .. n
        BY <3>2
      <4> QED
        BY <2>2, <4>1
    <3> QED
      BY <3>1, <3>2
  <2> HIDE DEF front
  <2> DEFINE s == SubSeq(words, 1, n)
  <2>4. s \in Seq(Nat) /\ Len(s) = n /\ \A i \in 1 .. n : s[i] = words[i]
    BY <1>1, <1>2, <2>3
  <2>5. SubSeq(front, 1, n) = front
    BY <2>1, SubSeqFull
  <2> HIDE DEF s
  <2>6. front = s
    BY <2>1, <2>2, <2>4, SeqEqual
  <2>7. IsPrefix(front, words)
    BY <2>1, <2>3, <2>5, <2>6 DEF IsPrefix, s
  <2> QED
    BY <2>7 DEF front
<1>5. IsPrefix(Words(items), words)
  <2>1. CASE items # <<>> /\ Last(items) = Failure
    <3> DEFINE n == Len(items) - 1
    <3>1. n \in 0 .. Len(items)
      BY <1>1, <1>2, <2>1, EmptySeq
    <3>2. \A i \in 1 .. n : i \in DOMAIN items /\ i # Len(items)
      <4> DEFINE m == Len(items)
      <4> HIDE DEF m
      <4>1. m \in Nat /\ DOMAIN items = 1 .. m
        BY <1>2 DEF m
      <4>2. \A i \in 1 .. m - 1 : i \in 1 .. m /\ i # m
        BY <4>1
      <4> QED
        BY <4>1, <4>2 DEF m
    <3>3. \A i \in 1 .. n : items[i] # Failure
      BY <1>3, <3>2
    <3>4. Words(items) = SubSeq(items, 1, n)
      BY <2>1 DEF Words, Front
    <3> HIDE DEF n
    <3> QED
      BY <1>4, <3>1, <3>3, <3>4
  <2>2. CASE ~(items # <<>> /\ Last(items) = Failure)
    <3> DEFINE n == Len(items)
    <3>1. n \in 0 .. Len(items)
      BY <1>2
    <3>2. ASSUME NEW i \in 1 .. n PROVE items[i] # Failure
      <4>1. i \in DOMAIN items /\ items # <<>>
        BY <1>2
      <4>2. items[Len(items)] # Failure
        BY <2>2, <4>1 DEF Last
      <4> QED
        BY <1>3, <4>1, <4>2
    <3>3. Words(items) = items
      BY <2>2 DEF Words
    <3>4. SubSeq(items, 1, n) = items
      BY <1>1, SubSeqFull
    <3> HIDE DEF n
    <3> QED
      BY <1>4, <3>1, <3>2, <3>3, <3>4
  <2> QED
    BY <2>1, <2>2
<1> QED
  BY <1>3, <1>5 DEF OnlyWhatWasSent, items, words

--------------------------------------------------------------------------------
(* A body on its way.  What was not read yet is the rest of it: the text   *)
(* of a frame that is not whole, the first byte of a character, the chunks *)
(* that wait to be read, and what is on the wire, each from where the one  *)
(* before ends.  And what was said is what the frames before it say.       *)

Reading(L, k, b, c, cut) ==
  /\ b \in 4 * k .. 4 * k + 3 /\ b <= c /\ c <= b + 1
  /\ cut[0] = c /\ \A i \in 0 .. Len(inbox) : cut[i] <= L
  /\ c # b => Tok(c)[2] = "half"
  /\ Slice(buffer, 4 * k, b) /\ Slice(pending, b, c)
  /\ \A i \in 1 .. Len(inbox) : cut[i - 1] < cut[i] /\ Slice(inbox[i], cut[i - 1], cut[i])
  /\ Slice(wire, cut[Len(inbox)], L)
  /\ got \o queue = Ascending(k, Spoken)
Decoding ==
  \E L \in Lengths(script), k, b, c \in Nat, cut \in [0 .. Len(inbox) -> Nat] :
    Reading(L, k, b, c, cut)

HttpWords == Ascending(Len(script), Spoken)

DeliveryTypeOK ==
  /\ script \in Seq(FrameKinds) /\ inbox \in Seq(Seq(Token))
  /\ queue \in Seq(Nat) /\ got \in Seq(Nat)
  /\ alive \in BOOLEAN

\* A stream that is over has told all, or says that it has not.
AllTold ==
  ~alive /\ consumer \notin {"absent", "dropped"} =>
    /\ link # "open"
    /\ link = "closed" /\ wire = <<>> => got \o queue = HttpWords

HttpDelivery ==
  /\ DeliveryTypeOK
  /\ pc = "streaming" <=> consumer # "absent"
  /\ consumer = "absent" =>
       /\ got = <<>> /\ queue = <<>> /\ ~alive
       /\ script = <<>> /\ wire = <<>> /\ inbox = <<>> /\ link = "open"
       /\ buffer = <<>> /\ pending = <<>>
  /\ consumer = "ended" => queue = <<>> /\ ~alive
  /\ consumer = "dropped" => queue = <<>> /\ ~alive /\ link # "open"
  /\ alive => Decoding
  /\ Told(got \o queue, HttpWords)
  /\ AllTold

LEMMA LengthsType ==
  ASSUME NEW frames \in Seq(FrameKinds), NEW L \in Lengths(frames)
  PROVE  L \in Nat /\ L <= 4 * Len(frames) /\ 4 * Len(frames) - 1 <= L
<1>1. Len(frames) \in Nat /\ (frames # <<>> => Len(frames) > 0) /\ (frames = <<>> => Len(frames) = 0)
  BY EmptySeq, LenProperties
<1> QED
  BY <1>1 DEF Lengths

\* What makes a body on its way, of the state a step leads to.
LEMMA DecodingNext ==
  ASSUME NEW L \in Lengths(script'), NEW k \in Nat, NEW b \in Nat, NEW c \in Nat,
         NEW n \in Nat, Len(inbox') = n, NEW cut \in [0 .. n -> Nat],
         b \in 4 * k .. 4 * k + 3, b <= c, c <= b + 1,
         cut[0] = c, \A i \in 0 .. n : cut[i] <= L,
         c # b => Tok(c)[2] = "half",
         Slice(buffer', 4 * k, b), Slice(pending', b, c),
         \A i \in 1 .. n : cut[i - 1] < cut[i] /\ Slice(inbox'[i], cut[i - 1], cut[i]),
         Slice(wire', cut[n], L),
         got' \o queue' = Ascending(k, Spoken')
  PROVE  Decoding'
<1>1. Reading(L, k, b, c, cut)'
  BY DEF Reading
<1>2. cut \in [0 .. Len(inbox') -> Nat]
  OBVIOUS
<1> QED
  BY <1>1, <1>2 DEF Decoding

\* Steps that leave the body and the stream alone.
LEMMA QuietDelivery ==
  ASSUME HttpDelivery, UNCHANGED <<body, decoder, stream>>,
         pc' = "streaming" <=> pc = "streaming"
  PROVE  HttpDelivery'
<1>1. /\ UNCHANGED <<script, wire, inbox, link, buffer, pending>>
      /\ UNCHANGED <<queue, alive, consumer, got>>
  BY DEF body, decoder, stream
<1>2. Decoding' = Decoding
  BY <1>1 DEF Decoding, Reading, Spoken
<1>3. HttpWords' = HttpWords
  BY <1>1 DEF HttpWords, Spoken
<1>4. Told(got \o queue, HttpWords)' = Told(got \o queue, HttpWords)
  BY <1>1, <1>3 DEF Told
<1> QED
  BY <1>1, <1>2, <1>3, <1>4 DEF HttpDelivery, DeliveryTypeOK, AllTold

\* The consumer's part: an item is taken, the producer is let run, or nothing is left.
LEMMA PollDelivery ==
  ASSUME HttpDelivery, pc = "streaming", UNCHANGED httpVars, Polls \/ Suspend \/ Wake
  PROVE  HttpDelivery'
<1>1. UNCHANGED <<pc, script, wire, inbox, link, buffer, pending>>
  BY DEF httpVars, call, body, decoder
<1>2. queue \in Seq(Nat) /\ got \in Seq(Nat) /\ alive \in BOOLEAN /\ consumer # "absent"
  BY DEF HttpDelivery, DeliveryTypeOK
<1>3. /\ alive' = alive /\ queue' \in Seq(Nat) /\ got' \in Seq(Nat)
      /\ got' \o queue' = got \o queue
      /\ consumer \notin {"ended", "dropped"} /\ consumer' \notin {"absent", "dropped"}
      /\ consumer' = "ended" => queue' = <<>> /\ ~alive
  <2>1. CASE Take /\ consumer \notin {"ended", "dropped"}
    BY <1>2, <2>1, TakeMoves DEF Take
  <2>2. CASE /\ UNCHANGED <<queue, alive, got>> /\ consumer \notin {"ended", "dropped"}
             /\ consumer' \notin {"absent", "dropped"}
             /\ consumer' = "ended" => queue = <<>> /\ ~alive
    BY <1>2, <2>2
  <2>3. \/ Take /\ consumer \notin {"ended", "dropped"}
        \/ /\ UNCHANGED <<queue, alive, got>> /\ consumer \notin {"ended", "dropped"}
           /\ consumer' \notin {"absent", "dropped"}
           /\ consumer' = "ended" => queue = <<>> /\ ~alive
    BY DEF Polls, PollQueued, PollProducer, PollSpent, LastPoll, Suspend, Wake
  <2> QED
    BY <2>1, <2>2, <2>3
<1>4. HttpWords' = HttpWords /\ Spoken' = Spoken
  BY <1>1 DEF HttpWords, Spoken
<1>5. ASSUME Decoding PROVE Decoding'
  <2>1. PICK L \in Lengths(script), k \in Nat, b \in Nat, c \in Nat,
             cut \in [0 .. Len(inbox) -> Nat] : Reading(L, k, b, c, cut)
    BY <1>5 DEF Decoding
  <2>2. got' \o queue' = Ascending(k, Spoken')
    BY <1>3, <1>4, <2>1 DEF Reading
  <2>3. Reading(L, k, b, c, cut)'
    BY <1>1, <2>1, <2>2 DEF Reading
  <2>4. L \in Lengths(script') /\ cut \in [0 .. Len(inbox') -> Nat]
    BY <1>1
  <2> QED
    BY <2>3, <2>4 DEF Decoding
<1>6. Told(got \o queue, HttpWords)'
  BY <1>3, <1>4 DEF Told, HttpDelivery
<1>7. AllTold'
  BY <1>1, <1>2, <1>3, <1>4 DEF AllTold, HttpDelivery
<1> QED
  BY <1>1, <1>2, <1>3, <1>5, <1>6, <1>7 DEF HttpDelivery, DeliveryTypeOK

\* The answer was accepted and the stream is handed out.
LEMMA AcceptedDelivery ==
  ASSUME HttpDelivery, NEW status \in Statuses, AttemptAccepted(status)
  PROVE  HttpDelivery'
<1>1. pc = "sending" /\ consumer = "absent" /\ UNCHANGED <<inbox, link, buffer, pending>>
  BY DEF AttemptAccepted, Attempt, HttpDelivery, decoder
<1>2. CASE pc' = "body" /\ UNCHANGED <<script, wire, stream>>
  <2>1. UNCHANGED <<body, decoder, stream>>
    BY <1>1, <1>2 DEF body, decoder
  <2> QED
    BY <1>1, <1>2, <2>1, QuietDelivery
<1>3. CASE /\ pc' = "streaming" /\ Open
           /\ script' \in BoundedSeq(FrameKinds, MaxFrames)
           /\ \E tidy \in BOOLEAN : wire' = WireOf(script', tidy)
  <2>1. /\ alive' = TRUE /\ consumer' = "ready" /\ queue' = <<>> /\ got' = <<>>
        /\ inbox' = <<>> /\ buffer' = <<>> /\ pending' = <<>> /\ inbox' \in Seq(Seq(Token))
    BY <1>1, <1>3 DEF Open, HttpDelivery, DeliveryTypeOK
  <2>2. script' \in Seq(FrameKinds)
    <3>1. PICK m \in 0 .. MaxFrames : script' \in [1 .. m -> FrameKinds]
      BY <1>3 DEF BoundedSeq, SeqOf
    <3>2. m \in Nat
      BY <3>1, TransportAssumption
    <3> QED
      BY <3>1, <3>2
  <2>3. PICK L \in Lengths(script') : Slice(wire', 0, L)
    BY <1>3, <2>2, BodyIsSlice
  <2> DEFINE cut == [i \in {0} |-> 0]
             P == Spoken'
  <2>4. <<>> \o <<>> = <<>> /\ Len(<<>>) = 0 /\ 0 .. 0 = {0}
    OBVIOUS
  <2>5. L \in Nat
    BY <2>2, LengthsType
  <2>6. Slice(<<>>, 0, 0)
    BY SliceOfNothing
  <2>7. Ascending(0, P) = <<>>
    <3> HIDE DEF P
    <3> QED
      BY AscendingGrows
  <2>8. cut \in [0 .. Len(inbox') -> Nat] /\ cut[0] = 0
    BY <2>1, <2>4
  <2>9. Decoding'
    <3> HIDE DEF cut
    <3>1. \E l \in Lengths(script'), k, b, c \in Nat, v \in [0 .. Len(inbox') -> Nat] :
            /\ b \in 4 * k .. 4 * k + 3 /\ b <= c /\ c <= b + 1
            /\ v[0] = c /\ \A i \in 0 .. Len(inbox') : v[i] <= l
            /\ c # b => Tok(c)[2] = "half"
            /\ Slice(buffer', 4 * k, b) /\ Slice(pending', b, c)
            /\ \A i \in 1 .. Len(inbox') :
                 v[i - 1] < v[i] /\ Slice(inbox'[i], v[i - 1], v[i])
            /\ Slice(wire', v[Len(inbox')], l)
            /\ got' \o queue' = Ascending(k, P)
      <4>1. Len(inbox') = 0 /\ \A i \in 1 .. Len(inbox') : FALSE
        BY <2>1, <2>4
      <4>2. \A i \in 0 .. Len(inbox') : cut[i] <= L
        BY <2>4, <2>5, <2>8, <4>1
      <4>3. 4 * 0 = 0 /\ 0 \in 0 .. 3 /\ 0 <= 0 + 1
        OBVIOUS
      <4>4. got' \o queue' = Ascending(0, P)
        BY <2>1, <2>4, <2>7
      <4>5. Slice(buffer', 4 * 0, 0) /\ Slice(pending', 0, 0) /\ Slice(wire', cut[Len(inbox')], L)
        BY <2>1, <2>3, <2>6, <2>8, <4>1, <4>3
      <4> HIDE DEF P
      <4> QED
        BY <2>3, <2>8, <4>1, <4>2, <4>4, <4>5
    <3> QED
      BY <3>1 DEF Decoding, Reading
  <2>10. Told(got \o queue, HttpWords)'
    <3>1. \A i \in DOMAIN <<>> : FALSE
      OBVIOUS
    <3> QED
      BY <2>1, <2>4, <3>1 DEF Told
  <2> QED
    BY <1>1, <1>3, <2>1, <2>2, <2>9, <2>10, EmptySeq DEF HttpDelivery, DeliveryTypeOK, AllTold
<1> QED
  BY <1>2, <1>3 DEF AttemptAccepted

\* The network: a chunk arrives, or the connection ends.
LEMMA ChunkDelivery ==
  ASSUME HttpDelivery, DeliverChunk
  PROVE  HttpDelivery'
<1>1. /\ pc = "streaming" /\ link = "open" /\ UNCHANGED <<pc, script, link, buffer, pending>>
      /\ UNCHANGED <<queue, alive, consumer, got>>
  BY DEF DeliverChunk, call, decoder, stream
<1>2. PICK n \in 1 .. Len(wire) :
        /\ inbox' = Append(inbox, SubSeq(wire, 1, n))
        /\ wire' = SubSeq(wire, n + 1, Len(wire))
  BY DEF DeliverChunk
<1>3. consumer # "absent" /\ alive /\ Decoding /\ consumer # "ended" /\ consumer # "dropped"
  BY <1>1 DEF HttpDelivery, DeliveryTypeOK, AllTold
<1>4. PICK L \in Lengths(script), k \in Nat, b \in Nat, c \in Nat,
           cut \in [0 .. Len(inbox) -> Nat] : Reading(L, k, b, c, cut)
  BY <1>3 DEF Decoding
<1>5. L \in Nat
  BY LengthsType DEF HttpDelivery, DeliveryTypeOK
<1> DEFINE m == Len(inbox)
           d == cut[m]
           e == d + n
           chunk == SubSeq(wire, 1, n)
           more == Append(inbox, chunk)
           next == [i \in 0 .. m + 1 |-> IF i = m + 1 THEN e ELSE cut[i]]
<1>6. inbox \in Seq(Seq(Token)) /\ m \in Nat /\ d \in Nat /\ d <= L /\ Slice(wire, d, L)
  <2>1. inbox \in Seq(Seq(Token)) /\ m \in Nat
    BY LenProperties DEF HttpDelivery, DeliveryTypeOK
  <2>2. m \in 0 .. m
    BY <2>1
  <2> QED
    BY <1>4, <2>1, <2>2 DEF Reading
<1>7. n \in Nat /\ 1 <= n /\ e \in Nat /\ e <= L /\ d < e /\ e - d = n
  <2>1. Len(wire) = L - d
    BY <1>6 DEF Slice
  <2> HIDE DEF d
  <2> QED
    BY <1>2, <1>5, <1>6, <2>1
<1>8. Slice(chunk, d, e) /\ Slice(SubSeq(wire, n + 1, Len(wire)), e, L)
  <2> HIDE DEF d, e
  <2>1. d <= e
    BY <1>6, <1>7
  <2>2. Slice(SubSeq(wire, 1, e - d), d, e) /\ Slice(SubSeq(wire, (e - d) + 1, Len(wire)), e, L)
    BY <1>5, <1>6, <1>7, <2>1, SliceCuts
  <2> QED
    BY <1>7, <2>2
<1> HIDE DEF chunk, d, e
<1>9. /\ more \in Seq(Seq(Token)) /\ Len(more) = m + 1
      /\ more[m + 1] = chunk /\ \A i \in 1 .. m : more[i] = inbox[i]
  <2>1. chunk \in Seq(Token)
    BY <1>8 DEF Slice
  <2> QED
    BY <1>6, <2>1, AppendProperties
<1> HIDE DEF more, m
<1>10. /\ next \in [0 .. m + 1 -> Nat]
       /\ next[m + 1] = e /\ \A i \in 0 .. m : next[i] = cut[i]
  <2>1. \A i \in 0 .. m + 1 : i # m + 1 => i \in 0 .. m
    BY <1>6
  <2>2. cut \in [0 .. m -> Nat]
    BY <1>4 DEF m
  <2> QED
    BY <1>6, <1>7, <2>1, <2>2
<1> HIDE DEF next
<1>11. inbox' = more /\ Len(inbox') = m + 1 /\ Spoken' = Spoken
  BY <1>1, <1>2, <1>9 DEF more, chunk, Spoken
<1>12. /\ b \in 4 * k .. 4 * k + 3 /\ b <= c /\ c <= b + 1 /\ (c # b => Tok(c)[2] = "half")
       /\ cut[0] = c /\ Slice(buffer, 4 * k, b) /\ Slice(pending, b, c)
       /\ \A i \in 0 .. m : cut[i] <= L
       /\ \A i \in 1 .. m : cut[i - 1] < cut[i] /\ Slice(inbox[i], cut[i - 1], cut[i])
       /\ got \o queue = Ascending(k, Spoken)
  BY <1>4 DEF Reading, m
<1>13. ASSUME NEW i \in 1 .. m + 1
       PROVE  next[i - 1] < next[i] /\ Slice(more[i], next[i - 1], next[i])
  <2>1. CASE i = m + 1
    <3>1. i - 1 = m /\ m \in 0 .. m
      BY <1>6, <2>1
    <3>2. next[i - 1] = d /\ next[i] = e /\ more[i] = chunk
      BY <1>9, <1>10, <2>1, <3>1 DEF d
    <3> QED
      BY <1>7, <1>8, <3>2
  <2>2. CASE i # m + 1
    <3>1. i \in 1 .. m /\ i \in 0 .. m /\ i - 1 \in 0 .. m
      BY <1>6, <2>2
    <3> QED
      BY <1>9, <1>10, <1>12, <3>1
  <2> QED
    BY <2>1, <2>2
<1>14. ASSUME NEW i \in 0 .. m + 1 PROVE next[i] <= L
  <2>1. CASE i = m + 1
    BY <1>7, <1>10, <2>1
  <2>2. CASE i # m + 1
    <3>1. i \in 0 .. m
      BY <1>6, <2>2
    <3> QED
      BY <1>10, <1>12, <3>1
  <2> QED
    BY <2>1, <2>2
<1>15. next[0] = c /\ Slice(wire', next[Len(inbox')], L)
  <2>1. 0 \in 0 .. m
    BY <1>6
  <2> QED
    BY <1>2, <1>8, <1>10, <1>11, <1>12, <2>1
<1>16. /\ got' \o queue' = Ascending(k, Spoken') /\ L \in Lengths(script')
       /\ Slice(wire', next[m + 1], L) /\ m + 1 \in Nat
       /\ Slice(buffer', 4 * k, b) /\ Slice(pending', b, c)
       /\ \A i \in 1 .. m + 1 :
            next[i - 1] < next[i] /\ Slice(inbox'[i], next[i - 1], next[i])
  BY <1>1, <1>6, <1>11, <1>12, <1>13, <1>15
<1>17. Decoding'
  <2> DEFINE o == m + 1
  <2>1. /\ o \in Nat /\ Len(inbox') = o /\ next \in [0 .. o -> Nat]
        /\ \A i \in 0 .. o : next[i] <= L
        /\ Slice(wire', next[o], L)
        /\ \A i \in 1 .. o : next[i - 1] < next[i] /\ Slice(inbox'[i], next[i - 1], next[i])
    BY <1>10, <1>11, <1>14, <1>16
  <2> HIDE DEF o
  <2>2. /\ b \in 4 * k .. 4 * k + 3 /\ b <= c /\ c <= b + 1 /\ next[0] = c
        /\ c # b => Tok(c)[2] = "half"
    BY <1>12, <1>15
  <2> QED
    BY <1>16, <2>1, <2>2, DecodingNext
<1>18. HttpWords' = HttpWords
  BY <1>1, <1>11 DEF HttpWords
<1>19. Told(got \o queue, HttpWords)'
  BY <1>1, <1>18 DEF Told, HttpDelivery
<1> QED
  BY <1>1, <1>3, <1>9, <1>11, <1>17, <1>19 DEF HttpDelivery, DeliveryTypeOK, AllTold

LEMMA LinkDelivery ==
  ASSUME HttpDelivery, EndLink
  PROVE  HttpDelivery'
<1>1. /\ pc = "streaming" /\ link = "open" /\ link' # "open"
      /\ UNCHANGED <<pc, script, wire, inbox, buffer, pending>>
      /\ UNCHANGED <<queue, alive, consumer, got>>
  BY DEF EndLink, call, decoder, stream
<1>2. consumer # "absent" /\ alive /\ Decoding
  BY <1>1 DEF HttpDelivery, DeliveryTypeOK, AllTold
<1>3. Decoding' = Decoding
  BY <1>1 DEF Decoding, Reading, Spoken
<1>4. HttpWords' = HttpWords
  BY <1>1 DEF HttpWords, Spoken
<1>5. Told(got \o queue, HttpWords)'
  BY <1>1, <1>4 DEF Told, HttpDelivery
<1> QED
  BY <1>1, <1>2, <1>3, <1>5 DEF HttpDelivery, DeliveryTypeOK, AllTold

\* The consumer drops the stream.
LEMMA AbandonDelivery ==
  ASSUME HttpDelivery, AbandonRead
  PROVE  HttpDelivery'
<1>1. /\ pc = "streaming" /\ UNCHANGED <<pc, script, got>>
      /\ queue' = <<>> /\ alive' = FALSE /\ consumer' = "dropped"
      /\ inbox' = <<>> /\ link' = "closed"
  BY DEF AbandonRead, Drop, call
<1>2. queue \in Seq(Nat) /\ got \in Seq(Nat) /\ Told(got \o queue, HttpWords)
      /\ script \in Seq(FrameKinds)
  BY DEF HttpDelivery, DeliveryTypeOK
<1>3. Told(got, HttpWords)
  BY <1>2, ToldBefore
<1>4. got' \o queue' = got
  BY <1>1, <1>2, ConcatEmptySeq
<1>5. HttpWords' = HttpWords
  BY <1>1 DEF HttpWords, Spoken
<1>6. Told(got \o queue, HttpWords)'
  BY <1>1, <1>3, <1>4, <1>5 DEF Told
<1> QED
  BY <1>1, <1>2, <1>6, EmptySeq DEF HttpDelivery, DeliveryTypeOK, AllTold

\* A chunk is read: the text is decoded up to the last frame that is whole.
LEMMA ReadDelivery ==
  ASSUME HttpDelivery, ReadChunk
  PROVE  HttpDelivery'
<1> DEFINE text == Pushed(Head(inbox)).text
           held == Pushed(Head(inbox)).held
           m == Len(inbox)
           items == Delivered(text)
<1>1. /\ pc = "streaming" /\ consumer = "polling" /\ alive /\ inbox # <<>>
      /\ UNCHANGED <<pc, script, wire, link, alive, consumer, got>>
      /\ inbox' = Tail(inbox)
  BY DEF ReadChunk, Push, call
<1>2. queue' = queue \o items /\ buffer' = Rest(text) /\ pending' = held
  <2>1. PICK pushed \in {Pushed(Head(inbox))} :
          Push(Delivered(pushed.text)) /\ buffer' = Rest(pushed.text) /\ pending' = pushed.held
    BY DEF ReadChunk
  <2>2. pushed = Pushed(Head(inbox))
    BY <2>1
  <2> QED
    BY <2>1, <2>2 DEF Push
<1>3. /\ script \in Seq(FrameKinds) /\ inbox \in Seq(Seq(Token))
      /\ queue \in Seq(Nat) /\ got \in Seq(Nat) /\ Decoding
  BY <1>1 DEF HttpDelivery, DeliveryTypeOK
<1>4. PICK L \in Lengths(script), k \in Nat, b \in Nat, c \in Nat,
           cut \in [0 .. Len(inbox) -> Nat] : Reading(L, k, b, c, cut)
  BY <1>3 DEF Decoding
<1>5. L \in Nat /\ L <= 4 * Len(script) /\ Len(script) \in Nat
  BY <1>3, LengthsType, LenProperties
<1>6. /\ b \in 4 * k .. 4 * k + 3 /\ b <= c /\ c <= b + 1
      /\ cut[0] = c /\ Slice(buffer, 4 * k, b) /\ Slice(pending, b, c)
      /\ \A i \in 0 .. m : cut[i] <= L
      /\ \A i \in 1 .. m : cut[i - 1] < cut[i] /\ Slice(inbox[i], cut[i - 1], cut[i])
      /\ Slice(wire, cut[m], L)
      /\ got \o queue = Ascending(k, Spoken)
      /\ cut \in [0 .. m -> Nat]
  BY <1>4 DEF Reading
<1>7. /\ m \in Nat /\ m >= 1 /\ Head(inbox) = inbox[1]
      /\ Tail(inbox) \in Seq(Seq(Token)) /\ Len(Tail(inbox)) = m - 1
      /\ \A i \in 1 .. m - 1 : Tail(inbox)[i] = inbox[i + 1]
  <2>1. m \in Nat /\ m # 0
    BY <1>1, <1>3, EmptySeq, LenProperties
  <2> QED
    BY <1>1, <1>3, <2>1, HeadTailProperties
<1> HIDE DEF text, held, m, items
<1> DEFINE e == cut[1]
<1>8. e \in Nat /\ c < e /\ e <= L /\ Slice(Head(inbox), c, e)
  <2>1. 1 \in 1 .. m /\ 1 \in 0 .. m /\ 1 - 1 = 0
    BY <1>7
  <2>2. cut[1 - 1] < cut[1] /\ Slice(inbox[1], cut[1 - 1], cut[1]) /\ cut[1] <= L /\ cut[1] \in Nat
    BY <1>6, <2>1
  <2> QED
    BY <1>6, <1>7, <2>1, <2>2
<1> HIDE DEF e
<1>9. PICK d \in Nat :
        /\ b <= d /\ d <= e /\ e <= d + 1
        /\ e # d => Tok(e)[2] = "half"
        /\ Slice(text, 4 * k, d) /\ Slice(held, d, e)
  <2> DEFINE a == 4 * k
             chunk == Head(inbox)
  <2>1. a \in Nat /\ a <= b /\ Slice(buffer, a, b) /\ Slice(pending, b, c) /\ Slice(chunk, c, e)
    BY <1>6, <1>8
  <2> HIDE DEF a, chunk
  <2>2. \E d \in Nat :
          /\ b <= d /\ d <= e /\ e <= d + 1
          /\ e # d => Tok(e)[2] = "half"
          /\ Slice(Pushed(chunk).text, a, d) /\ Slice(Pushed(chunk).held, d, e)
    BY <1>6, <1>8, <2>1, PushedSlice
  <2> QED
    BY <2>2 DEF a, chunk, text, held
<1> DEFINE q == d \div 4
<1>10. /\ 4 * k <= d /\ d <= 4 * Len(script) /\ q \in Nat
       /\ d \in 4 * q .. 4 * q + 3 /\ q <= Len(script)
  <2>1. 4 * k <= d /\ d <= 4 * Len(script)
    BY <1>5, <1>6, <1>8, <1>9
  <2> DEFINE w == Len(script)
  <2>2. w \in Nat /\ d <= 4 * w
    BY <1>5, <2>1
  <2> HIDE DEF w
  <2>3. q \in Nat /\ d \in 4 * q .. 4 * q + 3 /\ q <= w
    BY <2>2
  <2> QED
    BY <2>1, <2>3 DEF w
<1>11. /\ Ascending(k, Spoken) \o items = Ascending(q, Spoken) /\ items \in Seq(Nat)
  BY <1>3, <1>9, <1>10, DeliveredOfSlice DEF items
<1>12. Slice(Rest(text), 4 * q, d)
  BY <1>9, <1>10, RestOfSlice
<1> HIDE DEF q
<1>13. queue' \in Seq(Nat) /\ got' \o queue' = Ascending(q, Spoken)
  <2>1. queue \o items \in Seq(Nat) /\ got \o (queue \o items) = (got \o queue) \o items
    BY ONLY <1>3, <1>11, QueuedBehind
  <2>2. got' \o queue' = got \o (queue \o items)
    BY <1>1, <1>2
  <2> QED
    BY <1>2, <1>6, <1>11, <2>1, <2>2
<1> DEFINE n == m - 1
           next == [i \in 0 .. n |-> cut[i + 1]]
<1>14. /\ n \in Nat /\ next \in [0 .. n -> Nat] /\ Len(inbox') = n
       /\ next[0] = e /\ \A i \in 0 .. n : next[i] <= L
       /\ Slice(wire', next[n], L)
  <2>1. n \in Nat /\ n + 1 = m /\ Len(inbox') = n
    BY <1>1, <1>7
  <2>2. \A i \in 0 .. n : i + 1 \in 0 .. m
    BY <1>7
  <2>3. next \in [0 .. n -> Nat] /\ \A i \in 0 .. n : next[i] = cut[i + 1] /\ next[i] <= L
    BY <1>6, <2>2
  <2>4. next[0] = e /\ next[n] = cut[m]
    BY <2>1, <2>3 DEF e
  <2> QED
    BY <1>1, <1>6, <2>1, <2>3, <2>4
<1>15. ASSUME NEW i \in 1 .. n
       PROVE  next[i - 1] < next[i] /\ Slice(inbox'[i], next[i - 1], next[i])
  <2>1. i + 1 \in 1 .. m /\ i - 1 \in 0 .. n /\ i \in 0 .. n /\ (i - 1) + 1 = i /\ (i + 1) - 1 = i
    BY <1>7
  <2>2. next[i - 1] = cut[i] /\ next[i] = cut[i + 1] /\ inbox'[i] = inbox[i + 1]
    BY <1>1, <1>7, <2>1
  <2>3. cut[i] < cut[i + 1] /\ Slice(inbox[i + 1], cut[i], cut[i + 1])
    BY <1>6, <2>1
  <2> QED
    BY <2>2, <2>3
<1> HIDE DEF n, next
<1>16. Spoken' = Spoken /\ HttpWords' = HttpWords
  BY <1>1 DEF Spoken, HttpWords
<1>17. Decoding'
  <2>1. /\ L \in Lengths(script') /\ Slice(buffer', 4 * q, d) /\ Slice(pending', d, e)
        /\ got' \o queue' = Ascending(q, Spoken')
    BY <1>1, <1>2, <1>9, <1>12, <1>13, <1>16
  <2> QED
    BY <1>8, <1>9, <1>10, <1>14, <1>15, <2>1, DecodingNext
<1>18. Told(got \o queue, HttpWords)'
  <2>1. Told(Ascending(q, Spoken), Ascending(Len(script), Spoken))
    <3> DEFINE P == Spoken
               w == Len(script)
    <3>1. w \in Nat /\ q <= w
      BY <1>5, <1>10
    <3> HIDE DEF P, w
    <3>2. Told(Ascending(q, P), Ascending(w, P))
      BY <1>10, <3>1, ToldOnwards
    <3> QED
      BY <3>2 DEF P, w
  <2> QED
    BY <1>1, <1>13, <1>16, <2>1 DEF Told, HttpWords
<1> QED
  BY <1>1, <1>3, <1>7, <1>13, <1>17, <1>18 DEF HttpDelivery, DeliveryTypeOK, AllTold

\* With no chunk left to read, what is not decoded is on the wire or is held.
LEMMA NothingToRead ==
  ASSUME HttpDelivery, alive, inbox = <<>>
  PROVE  \E L \in Lengths(script), k, b, c \in Nat :
           /\ b \in 4 * k .. 4 * k + 3 /\ b <= c /\ c <= b + 1 /\ c <= L
           /\ c # b => Tok(c)[2] = "half"
           /\ Slice(buffer, 4 * k, b) /\ Slice(wire, c, L)
           /\ got \o queue = Ascending(k, Spoken)
           /\ k <= Len(script) /\ b <= 4 * Len(script)
<1>1. script \in Seq(FrameKinds) /\ Decoding
  BY DEF HttpDelivery, DeliveryTypeOK
<1>2. PICK L \in Lengths(script), k \in Nat, b \in Nat, c \in Nat,
           cut \in [0 .. Len(inbox) -> Nat] : Reading(L, k, b, c, cut)
  BY <1>1 DEF Decoding
<1>3. Len(inbox) = 0 /\ 0 \in 0 .. 0
  OBVIOUS
<1>4. /\ b \in 4 * k .. 4 * k + 3 /\ b <= c /\ c <= b + 1 /\ c <= L
      /\ c # b => Tok(c)[2] = "half"
      /\ Slice(buffer, 4 * k, b) /\ Slice(wire, c, L)
      /\ got \o queue = Ascending(k, Spoken)
  BY <1>2, <1>3 DEF Reading
<1> DEFINE w == Len(script)
<1>5. L \in Nat /\ L <= 4 * w /\ w \in Nat
  BY <1>1, LengthsType, LenProperties
<1> HIDE DEF w
<1>6. k <= w /\ b <= 4 * w
  BY <1>4, <1>5
<1> QED
  BY <1>4, <1>6 DEF w

\* The producer's last step: what it says last is told, and it says all if it can.
LEMMA ReturnDelivery ==
  ASSUME HttpDelivery, pc = "streaming", link # "open", NEW items \in Seq(Nat), Return(items),
         UNCHANGED <<pc, script, wire, inbox, link>>,
         Told(got \o queue, HttpWords)',
         link = "closed" /\ wire = <<>> => got \o (queue \o items) = HttpWords
  PROVE  HttpDelivery'
<1>1. /\ consumer = "polling" /\ alive' = FALSE /\ queue' = queue \o items
      /\ UNCHANGED <<consumer, got>>
  BY DEF Return
<1>2. queue \in Seq(Nat) /\ got \in Seq(Nat)
  BY DEF HttpDelivery, DeliveryTypeOK
<1>3. queue' \in Seq(Nat)
  BY <1>1, <1>2, ConcatProperties
<1>4. HttpWords' = HttpWords
  BY DEF HttpWords, Spoken
<1> QED
  BY <1>1, <1>3, <1>4 DEF HttpDelivery, DeliveryTypeOK, AllTold

\* The connection is lost: the stream says so, and no more.
LEMMA LostDelivery ==
  ASSUME HttpDelivery, ReadFails
  PROVE  HttpDelivery'
<1>1. /\ pc = "streaming" /\ inbox = <<>> /\ link = "lost" /\ Return(<<Failure>>)
      /\ alive /\ alive' = FALSE /\ got' = got /\ queue' = queue \o <<Failure>>
      /\ UNCHANGED <<pc, script, wire, inbox, link>>
  BY DEF ReadFails, Return, httpVars, call, body
<1>2. queue \in Seq(Nat) /\ got \in Seq(Nat) /\ script \in Seq(FrameKinds)
  BY DEF HttpDelivery, DeliveryTypeOK
<1>3. PICK k \in Nat : got \o queue = Ascending(k, Spoken) /\ k <= Len(script)
  BY <1>1, NothingToRead
<1>4. Failure \in Nat /\ <<Failure>> \in Seq(Nat)
  BY DEF Failure
<1>5. got' \o queue' = Ascending(k, Spoken) \o <<Failure>>
  <2> DEFINE items == <<Failure>>
  <2>1. items \in Seq(Nat)
    BY <1>4
  <2> HIDE DEF items
  <2>2. got \o (queue \o items) = (got \o queue) \o items
    BY ONLY <1>2, <2>1, QueuedBehind
  <2>3. got' \o queue' = got \o (queue \o items)
    BY <1>1 DEF items
  <2> QED
    BY <1>3, <2>2, <2>3 DEF items
<1>6. HttpWords' = HttpWords
  BY <1>1 DEF HttpWords, Spoken
<1>7. Told(got \o queue, HttpWords)'
  <2> DEFINE P == Spoken
             w == Len(script)
             front == Ascending(k, P) \o <<Failure>>
  <2>1. w \in Nat /\ k <= w
    BY <1>2, <1>3, LenProperties
  <2>2. \A i \in DOMAIN front :
          \/ i <= Len(Ascending(w, P)) /\ front[i] = Ascending(w, P)[i]
          \/ front[i] = Failure /\ i = Len(front)
    <3> HIDE DEF P, w
    <3> QED
      BY <1>3, <2>1, ToldFailure
  <2> QED
    BY <1>1, <1>5, <1>6, <2>2 DEF Told, HttpWords
<1> QED
  BY <1>1, <1>4, <1>7, ReturnDelivery

\* A body that was delivered whole leaves no frame behind, its last blank line or not.
LEMMA WholeBody ==
  ASSUME NEW frames \in Seq(FrameKinds), NEW L \in Lengths(frames),
         NEW k \in Nat, NEW b \in 4 * k .. 4 * k + 3, b <= L, L <= b + 1,
         L # b => Tok(L)[2] = "half"
  PROVE  (IF b = 4 * k + 3 THEN k + 1 ELSE k) = Len(frames)
<1> DEFINE n == Len(frames)
<1>1. n \in Nat /\ (frames = <<>> => n = 0) /\ (frames # <<>> => n > 0)
  BY EmptySeq, LenProperties
<1>2. \/ L = 4 * n
      \/ L = 4 * n - 1 /\ n > 0
  BY <1>1 DEF Lengths
<1> HIDE DEF n
<1>3. L \in Nat /\ b \in Nat /\ L % 4 # 2
  BY <1>1, <1>2
<1>4. b = L
  <2>1. CASE L = 0
    BY <1>3, <2>1
  <2>2. CASE L # 0
    <3>1. Tok(L)[2] # "half"
      BY <1>3, <2>2, TokType
    <3> QED
      BY <3>1
  <2> QED
    BY <2>1, <2>2
<1>5. (IF b = 4 * k + 3 THEN k + 1 ELSE k) = n
  BY <1>1, <1>2, <1>4
<1> QED
  BY <1>5 DEF n

\* The connection is closed: the last frame is completed and told.
LEMMA EndDelivery ==
  ASSUME HttpDelivery, ReadEnds
  PROVE  HttpDelivery'
<1> DEFINE items == Delivered(Flush)
<1>1. /\ pc = "streaming" /\ inbox = <<>> /\ link = "closed" /\ Return(items)
      /\ alive /\ alive' = FALSE /\ got' = got /\ queue' = queue \o items
      /\ UNCHANGED <<pc, script, wire, inbox, link>>
  BY DEF ReadEnds, Return, call, body
<1>2. queue \in Seq(Nat) /\ got \in Seq(Nat) /\ script \in Seq(FrameKinds)
  BY DEF HttpDelivery, DeliveryTypeOK
<1>3. PICK L \in Lengths(script), k \in Nat, b \in Nat, c \in Nat :
        /\ b \in 4 * k .. 4 * k + 3 /\ b <= c /\ c <= b + 1 /\ c <= L
        /\ c # b => Tok(c)[2] = "half"
        /\ Slice(buffer, 4 * k, b) /\ Slice(wire, c, L)
        /\ got \o queue = Ascending(k, Spoken)
        /\ k <= Len(script) /\ b <= 4 * Len(script)
  BY <1>1, NothingToRead
<1> DEFINE q == IF b = 4 * k + 3 THEN k + 1 ELSE k
<1>4. /\ Ascending(k, Spoken) \o items = Ascending(q, Spoken) /\ items \in Seq(Nat)
      /\ q <= Len(script) /\ q \in Nat
  BY <1>2, <1>3, DeliveredOfFlush
<1> HIDE DEF items
<1>5. got \o (queue \o items) = Ascending(q, Spoken)
  <2>1. got \o (queue \o items) = (got \o queue) \o items
    BY ONLY <1>2, <1>4, QueuedBehind
  <2> QED
    BY <1>3, <1>4, <2>1
<1>6. wire = <<>> => q = Len(script)
  <2> SUFFICES ASSUME wire = <<>> PROVE q = Len(script)
    OBVIOUS
  <2>1. Len(wire) = 0 /\ Len(wire) = L - c /\ L \in Nat
    BY <1>2, <1>3, LengthsType DEF Slice
  <2>2. c = L
    BY <2>1
  <2>3. b <= L /\ L <= b + 1 /\ (L # b => Tok(L)[2] = "half")
    BY <1>3, <2>2
  <2> QED
    BY ONLY <1>2, <1>3, <2>3, WholeBody DEF q
<1> HIDE DEF q
<1>7. HttpWords' = HttpWords
  BY <1>1 DEF HttpWords, Spoken
<1>8. Told(got \o queue, HttpWords)'
  <2> DEFINE P == Spoken
             w == Len(script)
  <2>1. w \in Nat /\ q <= w
    BY <1>2, <1>4, LenProperties
  <2> HIDE DEF P, w
  <2>2. Told(Ascending(q, P), Ascending(w, P))
    BY <1>4, <2>1, ToldOnwards
  <2>3. got' \o queue' = Ascending(q, P) /\ HttpWords' = Ascending(w, P)
    BY <1>1, <1>5, <1>7 DEF P, w, HttpWords
  <2> QED
    BY <2>2, <2>3, <1>1 DEF Told
<1>9. wire = <<>> => got \o (queue \o items) = HttpWords
  BY <1>5, <1>6 DEF HttpWords
<1> QED
  BY <1>1, <1>4, <1>8, <1>9, ReturnDelivery

LEMMA HttpKeepsDelivery ==
  ASSUME HttpDelivery, HttpStep
  PROVE  HttpDelivery'
<1>1. ASSUME NEW status \in Statuses, AttemptAccepted(status) PROVE HttpDelivery'
  BY <1>1, AcceptedDelivery
<1>2. ASSUME NEW status \in Statuses \cup {Lost}, NEW asked \in RetryAfters,
             AttemptRetried(status, asked) \/ AttemptFails(status, asked)
      PROVE  HttpDelivery'
  <2>1. UNCHANGED <<body, decoder, stream>> /\ pc # "streaming" /\ pc' # "streaming"
    BY <1>2 DEF AttemptRetried, AttemptFails, Attempt, Over
  <2> QED
    BY <2>1, QuietDelivery
<1>3. ASSUME EncodeFails \/ KeyMissing \/ Resend \/ CompleteBody PROVE HttpDelivery'
  <2>1. UNCHANGED <<body, decoder, stream>> /\ pc # "streaming" /\ pc' # "streaming"
    BY <1>3 DEF EncodeFails, KeyMissing, Resend, CompleteBody, Over
  <2> QED
    BY <2>1, QuietDelivery
<1>4. ASSUME ReadWaits \/ ReadWakes \/ (pc = "streaming" /\ Polls /\ UNCHANGED httpVars)
      PROVE  HttpDelivery'
  <2>1. pc = "streaming" /\ UNCHANGED httpVars /\ (Polls \/ Suspend \/ Wake)
    BY <1>4 DEF ReadWaits, ReadWakes
  <2> QED
    BY <2>1, PollDelivery
<1> QED
  BY <1>1, <1>2, <1>3, <1>4, ChunkDelivery, LinkDelivery, AbandonDelivery, ReadDelivery,
     LostDelivery, EndDelivery
  DEF HttpStep, HttpNext, Network, Client
--------------------------------------------------------------------------------
(* A delegated task: what was read of its output is what was told.         *)

Answered == {k \in DOMAIN lines : lines[k] # "chatter"}
CliWords == Ascending(Len(lines), Answered)

CliDelivery ==
  /\ queue \in Seq(Nat) /\ got \in Seq(Nat) /\ alive \in BOOLEAN
  /\ lines \in Seq(LineKinds) /\ read \in 0 .. Len(lines)
  /\ step = "idle" => got = <<>> /\ queue = <<>> /\ read = 0 /\ ~alive
  /\ alive => got \o queue = Ascending(read, Answered)
  /\ Told(got \o queue, CliWords)

\* The child writes a line, which nobody has read.
LEMMA WriteDelivery ==
  ASSUME CliDelivery, WriteLine
  PROVE  CliDelivery'
<1>1. /\ UNCHANGED <<step, read, queue, alive, got>>
      /\ lines \in Seq(LineKinds) /\ read \in 0 .. Len(lines)
      /\ queue \in Seq(Nat) /\ got \in Seq(Nat)
  BY DEF WriteLine, stream, CliDelivery
<1>2. PICK kind \in LineKinds : lines' = Append(lines, kind)
  BY DEF WriteLine
<1> DEFINE n == Len(lines)
<1>3. /\ lines' \in Seq(LineKinds) /\ Len(lines') = n + 1 /\ n \in Nat
      /\ \A i \in 1 .. n : lines'[i] = lines[i]
      /\ DOMAIN lines = 1 .. n /\ DOMAIN lines' = 1 .. n + 1
  BY <1>1, <1>2, AppendProperties, LenProperties
<1> HIDE DEF n
<1>4. read \in Nat /\ read <= n
  BY <1>1, <1>3 DEF n
<1>5. \A i \in 1 .. n : i \in Answered <=> i \in Answered'
  BY <1>3 DEF Answered
<1> DEFINE P == Answered
           Q == Answered'
           items == got \o queue
<1>6. items \in Seq(Nat) /\ got' \o queue' = items
  BY <1>1, ConcatProperties
<1>7. Told(items, Ascending(n, P)) /\ (alive => items = Ascending(read, P))
  BY DEF CliDelivery, CliWords, n
<1>8. \A i \in 1 .. n : i \in P <=> i \in Q
  BY <1>5
<1> HIDE DEF P, Q, items
<1>9. Ascending(n, P) = Ascending(n, Q) /\ Ascending(read, P) = Ascending(read, Q)
  <2>1. \A i \in 1 .. read : i \in P <=> i \in Q
    BY <1>4, <1>8, <1>3
  <2> QED
    BY <1>3, <1>4, <1>8, <2>1, AscendingAgrees
<1>10. Told(items, Ascending(n + 1, Q))
  <2> DEFINE o == n + 1
  <2>1. o \in Nat /\ n <= o
    BY <1>3
  <2> HIDE DEF o
  <2>2. Told(items, Ascending(o, Q))
    BY <1>3, <1>6, <1>7, <1>9, <2>1, ToldStillMore
  <2> QED
    BY <2>2 DEF o
<1>11. CliWords' = Ascending(n + 1, Q)
  BY <1>3 DEF CliWords, Q
<1>12. Told(got \o queue, CliWords)'
  BY <1>1, <1>6, <1>10, <1>11 DEF Told
<1>13. alive' => got' \o queue' = Ascending(read', Answered')
  BY <1>1, <1>6, <1>7, <1>9 DEF Q
<1>14. read' \in 0 .. Len(lines')
  BY <1>1, <1>3, <1>4
<1> QED
  BY <1>1, <1>3, <1>12, <1>13, <1>14 DEF CliDelivery

\* Steps that leave the output that was read alone.
LEMMA QuietCli ==
  ASSUME CliDelivery, UNCHANGED <<lines, read>>,
         queue' \in Seq(Nat), got' \in Seq(Nat), alive' \in BOOLEAN,
         step' = "idle" => step = "idle" /\ UNCHANGED <<queue, alive, got>>,
         alive' => got' \o queue' = Ascending(read, Answered),
         Told(got \o queue, CliWords)'
  PROVE  CliDelivery'
<1>1. Answered' = Answered
  BY DEF Answered
<1> QED
  BY <1>1 DEF CliDelivery

\* The consumer takes an item, and the producer waits or is woken.
LEMMA PollKeepsCli ==
  ASSUME CliDelivery, UNCHANGED cliVars, step # "idle", Polls \/ Suspend \/ Wake
  PROVE  CliDelivery'
<1>1. UNCHANGED <<lines, read, step>>
  BY DEF cliVars, process
<1>2. queue \in Seq(Nat) /\ got \in Seq(Nat) /\ alive \in BOOLEAN
  BY DEF CliDelivery
<1>3. /\ alive' = alive /\ queue' \in Seq(Nat) /\ got' \in Seq(Nat)
      /\ got' \o queue' = got \o queue
  <2>1. CASE Take
    BY <1>2, <2>1, TakeMoves DEF Take
  <2>2. CASE UNCHANGED <<queue, alive, got>>
    BY <1>2, <2>2
  <2> QED
    BY <2>1, <2>2 DEF Polls, PollQueued, PollProducer, PollSpent, LastPoll, Suspend, Wake
<1>4. CliWords' = CliWords
  BY <1>1 DEF CliWords, Answered
<1>5. Told(got \o queue, CliWords)'
  BY <1>3, <1>4 DEF Told, CliDelivery
<1>6. alive' => got' \o queue' = Ascending(read, Answered)
  BY <1>3 DEF CliDelivery
<1> QED
  BY <1>1, <1>2, <1>3, <1>5, <1>6, QuietCli

\* The stream is handed out, or leaves with its consumer.
LEMMA OpenKeepsCli ==
  ASSUME CliDelivery, Spawn
  PROVE  CliDelivery'
<1>1. /\ got = <<>> /\ queue = <<>> /\ read = 0
      /\ UNCHANGED <<lines, read, queue, got>> /\ alive' = TRUE /\ step' = "spawned"
  BY DEF Spawn, Open, CliDelivery
<1>2. Ascending(0, Answered) = <<>>
  <2> DEFINE P == Answered
  <2> HIDE DEF P
  <2>1. Ascending(0, P) = <<>>
    BY AscendingGrows
  <2> QED
    BY <2>1 DEF P
<1>3. <<>> \o <<>> = <<>> /\ <<>> \in Seq(Nat) /\ DOMAIN <<>> = {}
  OBVIOUS
<1>4. Told(got \o queue, CliWords)'
  BY <1>1, <1>3 DEF Told
<1> QED
  BY <1>1, <1>2, <1>3, <1>4, QuietCli

LEMMA DropKeepsCli ==
  ASSUME CliDelivery, Abandon
  PROVE  CliDelivery'
<1>1. /\ UNCHANGED <<lines, read, got, step>> /\ step # "idle"
      /\ queue' = <<>> /\ alive' = FALSE
  BY DEF Abandon, Drop
<1>2. queue \in Seq(Nat) /\ got \in Seq(Nat) /\ Told(got \o queue, CliWords)
  BY DEF CliDelivery
<1>3. Told(got, CliWords)
  BY <1>2, ToldBefore
<1>4. got' \o queue' = got /\ queue' \in Seq(Nat)
  BY <1>1, <1>2, ConcatEmptySeq
<1>5. CliWords' = CliWords
  BY <1>1 DEF CliWords, Answered
<1>6. Told(got \o queue, CliWords)'
  BY <1>1, <1>3, <1>4, <1>5 DEF Told
<1> QED
  BY <1>1, <1>2, <1>4, <1>6, QuietCli

\* A line is read and told, unless it is chatter.
LEMMA LineKeepsCli ==
  ASSUME CliDelivery, ReadLine
  PROVE  CliDelivery'
<1> DEFINE items == Events(read + 1)
           next == read + 1
           n == Len(lines)
           P == Answered
<1>1. /\ alive /\ read < n /\ read' = next /\ queue' = queue \o items
      /\ UNCHANGED <<lines, step, alive, got>> /\ step # "idle"
  BY DEF ReadLine, Push, process
<1>2. /\ queue \in Seq(Nat) /\ got \in Seq(Nat) /\ got \o queue = Ascending(read, P)
      /\ read \in 0 .. n /\ n \in Nat /\ lines \in Seq(LineKinds) /\ DOMAIN lines = 1 .. n
  BY <1>1, LenProperties DEF CliDelivery
<1>3. next \in 1 .. n /\ next \in Nat /\ read \in Nat /\ next <= n
  BY <1>1, <1>2
<1>4. items = IF next \in P THEN <<next>> ELSE <<>>
  BY <1>2, <1>3 DEF Events, Answered
<1>5. Ascending(next, P) = IF next \in P THEN Append(Ascending(read, P), next)
                           ELSE Ascending(read, P)
  <2> HIDE DEF P
  <2> QED
    BY <1>3, AscendingGrows
<1> DEFINE a == Ascending(read, P)
<1>6. a \in Seq(Nat)
  <2> HIDE DEF P
  <2> QED
    BY <1>3, AscendingGrows
<1> HIDE DEF items, a, P, next, n
<1>7. items \in Seq(Nat) /\ a \o items = Ascending(next, P)
  <2>1. CASE next \in P
    <3>1. <<next>> \in Seq(Nat) /\ Append(a, next) = a \o <<next>>
      BY <1>3, <1>6, AppendIsConcat
    <3> QED
      BY <1>4, <1>5, <2>1, <3>1 DEF a
  <2>2. CASE next \notin P
    BY <1>4, <1>5, <1>6, <2>2, ConcatEmptySeq, EmptySeq DEF a
  <2> QED
    BY <2>1, <2>2
<1>8. queue' \in Seq(Nat) /\ got' \o queue' = Ascending(next, P)
  <2>1. queue \o items \in Seq(Nat) /\ got \o (queue \o items) = (got \o queue) \o items
    BY ONLY <1>2, <1>7, QueuedBehind
  <2> QED
    BY <1>1, <1>2, <1>7, <2>1 DEF a
<1>9. Told(Ascending(next, P), Ascending(n, P))
  BY <1>2, <1>3, ToldOnwards
<1>10. CliWords' = Ascending(n, P) /\ Answered' = P
  BY <1>1 DEF CliWords, Answered, n, P
<1>11. Told(got \o queue, CliWords)'
  BY <1>1, <1>8, <1>9, <1>10 DEF Told
<1>12. alive' => got' \o queue' = Ascending(read', Answered')
  BY <1>1, <1>8, <1>10
<1>13. read' \in 0 .. Len(lines')
  BY <1>1, <1>2, <1>3 DEF n
<1> QED
  BY <1>1, <1>2, <1>8, <1>11, <1>12, <1>13 DEF CliDelivery

\* The producer's last step: nothing more is told, or that the task failed.
LEMMA ReturnKeepsCli ==
  ASSUME CliDelivery, UNCHANGED <<lines, read, step>>, step # "idle",
         Return(<<Failed>>) \/ Return(<<>>)
  PROVE  CliDelivery'
<1> DEFINE P == Answered
           n == Len(lines)
           a == Ascending(read, P)
<1>1. alive /\ alive' = FALSE /\ got' = got
      /\ (queue' = queue \o <<Failed>> \/ queue' = queue \o <<>>)
  BY DEF Return
<1>2. /\ queue \in Seq(Nat) /\ got \in Seq(Nat) /\ got \o queue = a
      /\ read \in 0 .. n /\ n \in Nat
  BY <1>1, LenProperties DEF CliDelivery
<1>3. read \in Nat /\ read <= n
  BY <1>2
<1>4. CliWords' = Ascending(n, P)
  BY DEF CliWords, Answered
<1>5. CASE queue' = queue \o <<Failed>>
  <2> DEFINE items == <<Failed>>
  <2>1. items \in Seq(Nat) /\ items = <<Failure>>
    BY DEF Failed, Failure
  <2> HIDE DEF items
  <2>2. queue \o items \in Seq(Nat) /\ got \o (queue \o items) = (got \o queue) \o items
    BY ONLY <1>2, <2>1, QueuedBehind
  <2>3. queue' = queue \o items
    BY <1>5 DEF items
  <2>4. got' \o queue' = a \o <<Failure>>
    BY <1>1, <1>2, <2>1, <2>2, <2>3
  <2>5. \A i \in DOMAIN (a \o <<Failure>>) :
          \/ i <= Len(Ascending(n, P)) /\ (a \o <<Failure>>)[i] = Ascending(n, P)[i]
          \/ (a \o <<Failure>>)[i] = Failure /\ i = Len(a \o <<Failure>>)
    <3> HIDE DEF P, n
    <3> QED
      BY <1>2, <1>3, ToldFailure
  <2>6. Told(got \o queue, CliWords)'
    BY <1>1, <1>4, <2>4, <2>5 DEF Told
  <2> QED
    BY <1>1, <1>2, <2>2, <2>3, <2>6, QuietCli
<1>6. CASE queue' = queue \o <<>>
  <2>1. queue' = queue
    BY <1>2, <1>6, ConcatEmptySeq
  <2>2. Told(a, Ascending(n, P))
    <3> HIDE DEF P, n
    <3> QED
      BY <1>2, <1>3, ToldOnwards
  <2>3. Told(got \o queue, CliWords)'
    BY <1>1, <1>2, <1>4, <2>1, <2>2 DEF Told
  <2> QED
    BY <1>1, <1>2, <2>1, <2>3, QuietCli
<1> QED
  BY <1>1, <1>5, <1>6

LEMMA CliKeepsDelivery ==
  ASSUME CliDelivery, CliStep
  PROVE  CliDelivery'
<1>1. ASSUME UNCHANGED <<lines, read, stream>>, step' = "idle" => step = "idle"
      PROVE  CliDelivery'
  <2>1. UNCHANGED <<queue, alive, got>> /\ CliWords' = CliWords
    BY <1>1 DEF stream, CliWords, Answered
  <2>2. Told(got \o queue, CliWords)'
    BY <2>1 DEF Told, CliDelivery
  <2>3. /\ queue \in Seq(Nat) /\ got \in Seq(Nat) /\ alive \in BOOLEAN
        /\ alive => got \o queue = Ascending(read, Answered)
    BY DEF CliDelivery
  <2> QED
    BY <1>1, <2>1, <2>2, <2>3, QuietCli
<1>2. ASSUME SpawnFails \/ CloseStdout \/ Exit \/ Expire \/ Begin PROVE CliDelivery'
  <2>1. UNCHANGED <<lines, read, stream>> /\ (step' = "idle" => step = "idle")
    BY <1>2 DEF SpawnFails, CloseStdout, Exit, Expire, Begin, process
  <2> QED
    BY <1>1, <2>1
<1>3. ASSUME ReadBroken \/ TimeOut \/ Reap PROVE CliDelivery'
  <2>1. UNCHANGED <<lines, read, step>> /\ step # "idle" /\ Return(<<Failed>>)
    BY <1>3 DEF ReadBroken, TimeOut, Reap, cliVars, process
  <2> QED
    BY <2>1, ReturnKeepsCli
<1>4. ASSUME EndOfOutput PROVE CliDelivery'
  <2>1. CASE Return(<<>>) /\ UNCHANGED step
    <3>1. UNCHANGED <<lines, read, step>> /\ step # "idle"
      BY <1>4, <2>1 DEF EndOfOutput
    <3> QED
      BY <2>1, <3>1, ReturnKeepsCli
  <2>2. CASE step' = "reaping" /\ UNCHANGED stream
    <3>1. UNCHANGED <<lines, read, stream>> /\ (step' = "idle" => step = "idle")
      BY <1>4, <2>2 DEF EndOfOutput
    <3> QED
      BY <1>1, <3>1
  <2> QED
    BY <1>4, <2>1, <2>2 DEF EndOfOutput
<1>5. ASSUME \/ CliWaits \/ CliWakes
             \/ step \in {"spawned", "reading", "reaping"} /\ Polls /\ UNCHANGED cliVars
      PROVE  CliDelivery'
  <2>1. CASE step = "idle"
    BY <1>5, <2>1 DEF CliWaits, CliWakes, Stirs, Suspend, CliDelivery
  <2>2. CASE step # "idle"
    <3>1. UNCHANGED cliVars /\ (Polls \/ Suspend \/ Wake)
      BY <1>5 DEF CliWaits, CliWakes
    <3> QED
      BY <2>2, <3>1, PollKeepsCli
  <2> QED
    BY <2>1, <2>2
<1> QED
  BY <1>2, <1>3, <1>4, <1>5, WriteDelivery, OpenKeepsCli, LineKeepsCli, DropKeepsCli
  DEF CliStep, CliNext, Child, Frey

--------------------------------------------------------------------------------
DeliveryInv ==
  /\ source \in {"http", "cli"}
  /\ source = "http" => HttpDelivery
  /\ source = "cli" => CliDelivery

LEMMA InitDelivery == Init => DeliveryInv
<1> SUFFICES ASSUME Init PROVE DeliveryInv
  OBVIOUS
<1>1. /\ queue = <<>> /\ got = <<>> /\ alive = FALSE /\ consumer = "absent"
      /\ script = <<>> /\ wire = <<>> /\ inbox = <<>> /\ link = "open"
      /\ buffer = <<>> /\ pending = <<>> /\ pc = "sending"
      /\ lines = <<>> /\ read = 0 /\ step = "idle" /\ source \in {"http", "cli"}
  BY DEF Init, StreamInit, HttpInit, CliInit
<1>2. <<>> \in Seq(Nat) /\ <<>> \o <<>> = <<>> /\ DOMAIN <<>> = {} /\ 0 \in 0 .. Len(<<>>)
      /\ <<>> \in Seq(FrameKinds) /\ <<>> \in Seq(Seq(Token)) /\ <<>> \in Seq(LineKinds)
  OBVIOUS
<1>3. Told(got \o queue, HttpWords) /\ Told(got \o queue, CliWords)
  BY <1>1, <1>2 DEF Told
<1>4. HttpDelivery
  BY <1>1, <1>2, <1>3 DEF HttpDelivery, DeliveryTypeOK, AllTold
<1>5. CliDelivery
  BY <1>1, <1>2, <1>3 DEF CliDelivery
<1> QED
  BY <1>1, <1>4, <1>5 DEF DeliveryInv

LEMMA NextKeepsDelivery == DeliveryInv /\ [Next]_streamsVars => DeliveryInv'
<1> SUFFICES ASSUME DeliveryInv, [Next]_streamsVars PROVE DeliveryInv'
  OBVIOUS
<1>1. CASE HttpStep
  BY <1>1, HttpKeepsDelivery DEF HttpStep, DeliveryInv
<1>2. CASE CliStep
  BY <1>2, CliKeepsDelivery DEF CliStep, DeliveryInv
<1>3. CASE UNCHANGED streamsVars
  <2>1. UNCHANGED <<source, body, decoder, stream, pc, lines, read, step>>
    BY <1>3 DEF streamsVars, httpVars, cliVars, process, call
  <2>2. source = "http" => HttpDelivery'
    BY <2>1, QuietDelivery DEF DeliveryInv
  <2>3. ASSUME CliDelivery PROVE CliDelivery'
    <3>1. UNCHANGED <<queue, alive, got>> /\ CliWords' = CliWords
      BY <2>1 DEF stream, CliWords, Answered
    <3>2. Told(got \o queue, CliWords)'
      BY <2>3, <3>1 DEF Told, CliDelivery
    <3>3. /\ queue \in Seq(Nat) /\ got \in Seq(Nat) /\ alive \in BOOLEAN
          /\ alive => got \o queue = Ascending(read, Answered)
      BY <2>3 DEF CliDelivery
    <3> QED
      BY <2>1, <2>3, <3>1, <3>2, <3>3, QuietCli
  <2> QED
    BY <2>1, <2>2, <2>3 DEF DeliveryInv
<1> QED
  BY <1>1, <1>2, <1>3 DEF Next, AtRest

\* That is what a consumer may rely on.
LEMMA DeliveryIsKept == DeliveryInv => DeliversWhatWasSent
<1> SUFFICES ASSUME DeliveryInv PROVE DeliversWhatWasSent
  OBVIOUS
<1> DEFINE n == Len(script)
           m == Len(lines)
           P == Spoken
           Q == Answered
<1>1. CASE source = "http"
  <2>1. /\ HttpDelivery /\ Payloads = Ascending(n, P) /\ HttpWords = Ascending(n, P)
        /\ script \in Seq(FrameKinds) /\ queue \in Seq(Nat) /\ got \in Seq(Nat)
        /\ Told(got \o queue, Payloads)
    BY <1>1 DEF DeliveryInv, HttpDelivery, DeliveryTypeOK, Payloads, HttpWords, Spoken
  <2>2. Payloads \in Seq(Nat \ {0})
    <3>1. n \in Nat
      BY <2>1, LenProperties
    <3> HIDE DEF n, P
    <3> QED
      BY <2>1, <3>1, AscendingType
  <2>3. OnlyWhatWasSent
    BY <2>1, <2>2, ToldIsWhatWasSent
  <2>4. ASSUME consumer = "ended", link = "closed", wire = <<>> PROVE got = Payloads
    <3>1. queue = <<>> /\ got \o queue = HttpWords
      BY <2>1, <2>4 DEF HttpDelivery, AllTold
    <3> QED
      BY <2>1, <3>1, ConcatEmptySeq
  <2> QED
    BY <2>3, <2>4 DEF DeliversWhatWasSent, NothingIsLost
<1>2. CASE source = "cli"
  <2>1. /\ CliDelivery /\ Payloads = Ascending(m, Q)
        /\ lines \in Seq(LineKinds) /\ queue \in Seq(Nat) /\ got \in Seq(Nat)
        /\ Told(got \o queue, Payloads)
    BY <1>2 DEF DeliveryInv, CliDelivery, Payloads, CliWords, Answered
  <2>2. Payloads \in Seq(Nat \ {0})
    <3>1. m \in Nat
      BY <2>1, LenProperties
    <3> HIDE DEF m, Q
    <3> QED
      BY <2>1, <3>1, AscendingType
  <2>3. OnlyWhatWasSent
    BY <2>1, <2>2, ToldIsWhatWasSent
  <2> QED
    BY <1>2, <2>3 DEF DeliversWhatWasSent, NothingIsLost
<1> QED
  BY <1>1, <1>2 DEF DeliveryInv

\* However a body was cut into chunks and whenever its consumer polled, of a request
\* over HTTP and of a delegated task alike: what the consumer gets is a prefix of what
\* was sent, then at most one failure; and all of it when the stream ends without one
\* over a connection that delivered the whole body (SseDecoder, Yielder).
THEOREM StreamsDeliver == Spec => []DeliversWhatWasSent
<1>1. Init => DeliveryInv
  BY InitDelivery
<1>2. DeliveryInv /\ [Next]_streamsVars => DeliveryInv'
  BY NextKeepsDelivery
<1>3. DeliveryInv => DeliversWhatWasSent
  BY DeliveryIsKept
<1> QED
  BY <1>1, <1>2, <1>3, PTL DEF Spec
================================================================================
