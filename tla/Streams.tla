-------------------------------- MODULE Streams --------------------------------
(***************************************************************************)
(* The two users of Yielder side by side: a consumer is given the stream   *)
(* of one request over HTTP or of one delegated task, and what it may rely *)
(* on is the same.                                                         *)
(***************************************************************************)
EXTENDS HttpTransport, Delegation

VARIABLE source   \* "http" or "cli"

streamsVars == <<source, stream, httpVars, cliVars>>

Init ==
  /\ source \in {"http", "cli"}
  /\ StreamInit /\ HttpInit /\ CliInit
  /\ source = "cli" => mode = "stream"

HttpStep == source = "http" /\ HttpNext /\ UNCHANGED <<source, cliVars>>
CliStep == source = "cli" /\ CliNext /\ UNCHANGED <<source, httpVars>>

\* The call is over, or the stream it opened has told its consumer so or was dropped.
Finished ==
  pc = "over" \/ step = "over" \/ consumer \in {"ended", "dropped"}
AtRest == Finished /\ UNCHANGED streamsVars

Next == HttpStep \/ CliStep \/ AtRest

Spec == Init /\ [][Next]_streamsVars

\* The client runs while it can and its consumer keeps polling; the network answers
\* or is given up on, at the latest by the read timeout; time passes.  Nothing is
\* assumed of a child.
FairSpec ==
  /\ Spec
  /\ WF_streamsVars(source = "http" /\ Client /\ UNCHANGED <<source, cliVars>>)
  /\ WF_streamsVars(source = "http" /\ Network /\ UNCHANGED <<source, cliVars>>)
  /\ WF_streamsVars(source = "cli" /\ Frey /\ UNCHANGED <<source, httpVars>>)
  /\ WF_streamsVars(source = "cli" /\ Expire /\ UNCHANGED <<source, httpVars>>)

\* With a child that exits once it has closed its output.
FairSpecOfTidyChild ==
  FairSpec /\ WF_streamsVars(source = "cli" /\ ChildIsDone /\ UNCHANGED <<source, httpVars>>)
--------------------------------------------------------------------------------
TypeOK ==
  /\ source \in {"http", "cli"}
  /\ queue \in Seq(Nat) /\ got \in Seq(Nat)
  /\ alive \in BOOLEAN
  /\ consumer \in {"absent", "ready", "polling", "waiting", "ended", "dropped"}
  /\ HttpTypeOK /\ CliTypeOK

\* What was meant to be sent so far, as item numbers.
Payloads ==
  IF source = "http"
  THEN Ascending(Len(script), {k \in DOMAIN script : script[k] = "payload"})
  ELSE Ascending(Len(lines), {k \in DOMAIN lines : lines[k] # "chatter"})

\* However the bytes were cut and whenever the consumer polled, what it gets is a
\* prefix of what was sent, in order and nothing twice, then at most one failure,
\* which is the last item.
Words(items) ==
  IF items # <<>> /\ Last(items) = Failure THEN Front(items) ELSE items
OnlyWhatWasSent ==
  LET items == got \o queue
  IN  /\ IsPrefix(Words(items), Payloads)
      /\ \A i \in DOMAIN items : items[i] = Failure => i = Len(items) /\ ~alive

\* A stream that ends without a failure, over a connection that delivered the
\* whole body, has handed out every payload of it, a last frame without its blank
\* line included.
NothingIsLost ==
  source = "http" /\ consumer = "ended" /\ link = "closed" /\ wire = <<>> =>
    got = Payloads

\* What a consumer may rely on, of a request over HTTP and of a delegated task alike:
\* it gets what was sent and only that, and all of it when nothing says otherwise.
DeliversWhatWasSent == OnlyWhatWasSent /\ NothingIsLost

\* Every call comes to its end.
EveryCallEnds == <>Finished
================================================================================
