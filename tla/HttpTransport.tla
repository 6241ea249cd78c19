------------------------------ MODULE HttpTransport ----------------------------
(***************************************************************************)
(* One request through HttpProvider (frey-providers/src/http.rs), as       *)
(* complete or as stream, with the decoder of its body                     *)
(* (frey-providers/src/sse.rs) and the stream it feeds (Yielder).          *)
(*                                                                         *)
(* The network is the environment: it answers a request with a status or   *)
(* loses it, cuts a body into chunks anywhere, and ends it cleanly or not. *)
(* A read timeout is a loss like any other.  Times are in units of the     *)
(* client's first back-off step.  A frame on the wire is four tokens: text *)
(* up to a character, the first byte of that character, the rest of the    *)
(* text, and the blank line.  Bodies are valid UTF-8.                      *)
(***************************************************************************)
EXTENDS Integers, FiniteSets, Yielder

CONSTANTS
  MaxAttempts,   \* MAX_ATTEMPTS
  Statuses,      \* the HTTP statuses a provider may answer with
  RetryAfters,   \* bound: what a retry-after header may ask for; 0 = none
  MaxFrames      \* bound: frames in a body

\* A comment, a [DONE] marker or something that is not JSON yields nothing; any
\* JSON payload yields an event.
FrameKinds == {"silent", "payload"}

ASSUME TransportAssumption ==
  /\ MaxAttempts \in Nat \ {0}
  /\ Statuses \subseteq 100 .. 599
  /\ RetryAfters \subseteq Nat
  /\ MaxFrames \in Nat

VARIABLES
  mode,      \* "complete" or "stream"
  pc,        \* "sending", "backoff", "body", "streaming" or "over"
  attempt,   \* send_with_retry's counter
  answers,   \* what came of each attempt: [status, retryAfter]
  waits,     \* how long each back-off lasted
  result,    \* "none", "ok" or the ProviderError variant of the call
  script,    \* the frames of the body the provider means to send
  wire,      \* the tokens not yet delivered
  inbox,     \* the chunks delivered and not yet read
  link,      \* the connection: "open", "closed" or "lost"
  buffer,    \* SseDecoder::buffer
  pending    \* SseDecoder::pending

call == <<mode, pc, attempt, answers, waits, result>>
body == <<script, wire, inbox, link>>
decoder == <<buffer, pending>>
httpVars == <<call, body, decoder>>
--------------------------------------------------------------------------------
(* Failures.                                                               *)

\* The ProviderError variants a call over HTTP ends with.
ProviderErrors ==
  {"Auth", "Billing", "RateLimit", "Overloaded", "BadRequest", "Protocol", "Network",
   "Unsupported"}

Lost == 0      \* the status of an attempt that never got an answer
Failure == 0   \* the item that says the stream failed; the others are frames

\* Fault: payment required is taken for a limit that passes.
ErrorOfLenient(status) ==
  CASE status = Lost -> "Network"
    [] status \in {401, 403} -> "Auth"
    [] status \in {402, 429} -> "RateLimit"
    [] status \in {400, 404, 405, 409, 413, 422} -> "BadRequest"
    [] status \in (500 .. 504) \cup {529} -> "Overloaded"
    [] OTHER -> "Protocol"
\* ProviderError::from_status.
ErrorOf(status) ==
  CASE status = Lost -> "Network"
    [] status \in {401, 403} -> "Auth"
    [] status = 402 -> "Billing"
    [] status = 429 -> "RateLimit"
    [] status \in {400, 404, 405, 409, 413, 422} -> "BadRequest"
    [] status \in (500 .. 504) \cup {529} -> "Overloaded"
    [] OTHER -> "Protocol"

Accepted(status) == status # Lost /\ status < 400
IsRetryable(error) == error \in {"RateLimit", "Overloaded", "Network"}
IsFatal(error) == error \in {"Auth", "Billing"}
GivesUp(error, n) == IsFatal(error) \/ ~IsRetryable(error) \/ n >= MaxAttempts

\* backoff_ms.  from_status leaves retry_after_ms empty, so the delay a provider
\* asked for is never there to be used.
Doubling == <<2, 4, 8, 16>>
Backoff(n) == Doubling[IF n < 4 THEN n ELSE 4]
--------------------------------------------------------------------------------
(* The body and its decoder.                                               *)

Parts == <<"head", "half", "rest", "blank">>
Token == Nat \X {"head", "half", "rest", "blank"}

\* A provider may leave out the blank line after its last frame.
WireOf(frames, tidy) ==
  LET all == [i \in 1 .. 4 * Len(frames) |->
                <<1 + ((i - 1) \div 4), Parts[1 + ((i - 1) % 4)]>>]
  IN  IF tidy \/ frames = <<>> THEN all ELSE SubSeq(all, 1, Len(all) - 1)

\* Fault: the first byte of a split character is thrown away.
PushedLossy(chunk) ==
  [text |-> buffer \o (IF Last(chunk)[2] = "half" THEN Front(chunk) ELSE chunk),
   held |-> <<>>]
\* SseDecoder::push: the text so far, and the bytes of a split character, which
\* wait for the next chunk.
Pushed(chunk) ==
  LET all   == pending \o chunk
      split == Last(all)[2] = "half"
  IN  [text |-> buffer \o (IF split THEN Front(all) ELSE all),
       held |-> IF split THEN <<Last(all)>> ELSE <<>>]

Blanks(text) == {i \in DOMAIN text : text[i][2] = "blank"}
\* find_frame_end: a frame is what lies between two blank lines, or before the
\* first.  take_frames drains every complete one, in order.
LastBlank(text) ==
  CHOOSE n \in {0} \cup Blanks(text) : \A m \in Blanks(text) : m <= n
FrameTexts(text) ==
  {span \in ({0} \cup Blanks(text)) \X Blanks(text) :
     span[1] < span[2] /\ ~\E m \in Blanks(text) : span[1] < m /\ m < span[2]}
\* A frame parses when its text arrived whole: no prefix of a JSON object is one.
Intact(text, span) == span[2] - span[1] = 4
Delivered(text) ==
  LET whole  == {span \in FrameTexts(text) : Intact(text, span)}
      frames == {text[span[2]][1] : span \in whole}
  IN  Ascending(Len(script), {k \in frames : script[k] = "payload"})
Rest(text) == SubSeq(text, LastBlank(text) + 1, Len(text))

\* SseDecoder::finish: a last frame without its blank line is completed; the held
\* byte of a split character is not looked at.
Flush ==
  IF buffer # <<>> /\ Last(buffer)[2] # "blank"
  THEN Append(buffer, <<Last(buffer)[1], "blank">>) ELSE buffer
--------------------------------------------------------------------------------
HttpInit ==
  /\ mode \in {"complete", "stream"}
  /\ pc = "sending"
  /\ attempt = 0
  /\ answers = <<>> /\ waits = <<>>
  /\ result = "none"
  /\ script = <<>> /\ wire = <<>> /\ inbox = <<>> /\ link = "open"
  /\ buffer = <<>> /\ pending = <<>>

Over(how) == pc' = "over" /\ result' = how

\* The dialect cannot express the request, or the key is not in the environment:
\* neither reaches the network.
EncodeFails ==
  /\ pc = "sending" /\ attempt = 0
  /\ Over("Unsupported")
  /\ UNCHANGED <<mode, attempt, answers, waits, body, decoder, stream>>

KeyMissing ==
  /\ pc = "sending" /\ attempt = 0
  /\ attempt' = 1
  /\ Over("Auth")
  /\ UNCHANGED <<mode, answers, waits, body, decoder, stream>>

\* One attempt: send, and what send_with_retry makes of its answer.
Attempt(status, asked) ==
  /\ pc = "sending"
  /\ attempt' = attempt + 1
  /\ answers' = Append(answers, [status |-> status, retryAfter |-> asked])

AttemptAccepted(status) ==
  /\ Accepted(status)
  /\ Attempt(status, 0)
  /\ \/ /\ mode = "complete"
        /\ pc' = "body"
        /\ UNCHANGED <<script, wire, stream>>
     \/ /\ mode = "stream"
        /\ pc' = "streaming"
        /\ script' \in BoundedSeq(FrameKinds, MaxFrames)
        /\ \E tidy \in BOOLEAN : wire' = WireOf(script', tidy)
        /\ Open
  /\ UNCHANGED <<mode, waits, result, inbox, link, decoder>>

AttemptRetried(status, asked) ==
  /\ ~Accepted(status)
  /\ Attempt(status, asked)
  /\ ~GivesUp(ErrorOf(status), attempt + 1)
  /\ pc' = "backoff"
  /\ waits' = Append(waits, Backoff(attempt + 1))
  /\ UNCHANGED <<mode, result, body, decoder, stream>>

AttemptFails(status, asked) ==
  /\ ~Accepted(status)
  /\ Attempt(status, asked)
  /\ GivesUp(ErrorOf(status), attempt + 1)
  /\ Over(ErrorOf(status))
  /\ UNCHANGED <<mode, waits, body, decoder, stream>>

Resend ==
  /\ pc = "backoff"
  /\ pc' = "sending"
  /\ UNCHANGED <<mode, attempt, answers, waits, result, body, decoder, stream>>

\* complete: the body is read whole, then parsed; neither failure is sent again.
CompleteBody ==
  /\ pc = "body"
  /\ \E how \in {"ok", "Network", "Protocol"} : Over(how)
  /\ UNCHANGED <<mode, attempt, answers, waits, body, decoder, stream>>

\* The network, once the stream is open.
DeliverChunk ==
  /\ pc = "streaming" /\ link = "open"
  /\ \E n \in 1 .. Len(wire) :
       /\ inbox' = Append(inbox, SubSeq(wire, 1, n))
       /\ wire' = SubSeq(wire, n + 1, Len(wire))
  /\ UNCHANGED <<call, script, link, decoder, stream>>

EndLink ==
  /\ pc = "streaming" /\ link = "open"
  /\ link' \in {"closed", "lost"}
  /\ UNCHANGED <<call, script, wire, inbox, decoder, stream>>

\* The producer, within a poll: it reads on until there is nothing to read.
ReadChunk ==
  /\ pc = "streaming" /\ inbox # <<>>
  /\ \E read \in {Pushed(Head(inbox))} :
       /\ Push(Delivered(read.text))
       /\ buffer' = Rest(read.text)
       /\ pending' = read.held
  /\ inbox' = Tail(inbox)
  /\ UNCHANGED <<call, script, wire, link>>

ReadFails ==
  /\ pc = "streaming" /\ inbox = <<>> /\ link = "lost"
  /\ Return(<<Failure>>)
  /\ UNCHANGED httpVars

ReadEnds ==
  /\ pc = "streaming" /\ inbox = <<>> /\ link = "closed"
  /\ Return(Delivered(Flush))
  /\ buffer' = Rest(Flush)
  /\ UNCHANGED <<call, body, pending>>

ReadWaits ==
  /\ pc = "streaming" /\ inbox = <<>> /\ link = "open"
  /\ Suspend
  /\ UNCHANGED httpVars

\* Fault: a reader is only woken by data.
ReadWakesOnData ==
  /\ pc = "streaming" /\ inbox # <<>>
  /\ Wake
  /\ UNCHANGED httpVars
ReadWakes ==
  /\ pc = "streaming" /\ (inbox # <<>> \/ link # "open")
  /\ Wake
  /\ UNCHANGED httpVars

\* The consumer drops the stream, and with it the connection and the decoder.
AbandonRead ==
  /\ pc = "streaming"
  /\ Drop
  /\ wire' = <<>> /\ inbox' = <<>> /\ link' = "closed"
  /\ buffer' = <<>> /\ pending' = <<>>
  /\ UNCHANGED <<call, script>>

Network ==
  \/ \E status \in Statuses : AttemptAccepted(status)
  \/ \E status \in Statuses \cup {Lost}, asked \in RetryAfters :
       AttemptRetried(status, asked) \/ AttemptFails(status, asked)
  \/ CompleteBody
  \/ EndLink

Client ==
  \/ EncodeFails \/ KeyMissing \/ Resend
  \/ ReadChunk \/ ReadFails \/ ReadEnds \/ ReadWaits \/ ReadWakes
  \/ pc = "streaming" /\ Polls /\ UNCHANGED httpVars

HttpNext == Network \/ DeliverChunk \/ Client \/ AbandonRead
--------------------------------------------------------------------------------
HttpTypeOK ==
  /\ mode \in {"complete", "stream"}
  /\ pc \in {"sending", "backoff", "body", "streaming", "over"}
  /\ attempt \in 0 .. MaxAttempts
  /\ answers \in Seq([status : Statuses \cup {Lost}, retryAfter : Nat])
  /\ waits \in Seq(Nat)
  /\ result \in {"none", "ok"} \cup ProviderErrors
  /\ script \in Seq(FrameKinds)
  /\ wire \in Seq(Token) /\ inbox \in Seq(Seq(Token))
  /\ link \in {"open", "closed", "lost"}
  /\ buffer \in Seq(Token) /\ pending \in Seq(Token)

\* docs/providers.md, "Failures that end a run": what the provider refused for the
\* key, the bill or the request is never sent again, whatever came before it; what
\* may pass is, until the attempts are used up.
PassingStatuses == (500 .. 504) \cup {429, 529, Lost}
RetriesAreJustified ==
  /\ \A i \in DOMAIN answers :
       i < Len(answers) \/ pc \in {"sending", "backoff"} =>
         answers[i].status \in PassingStatuses
  /\ pc = "over" /\ answers # <<>> /\ Last(answers).status \in PassingStatuses =>
       Len(answers) = MaxAttempts

\* docs/providers.md: "429 is retried, honouring retry-after".
RetryAfterIsHonoured ==
  \A i \in DOMAIN waits :
    answers[i].status = 429 => waits[i] >= answers[i].retryAfter
================================================================================
