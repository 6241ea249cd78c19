-------------------------------- MODULE Yielder -------------------------------
(***************************************************************************)
(* The stream both providers hand out (frey-providers/src/streaming.rs): a *)
(* producer future that pushes items into a queue, and a consumer that     *)
(* takes one item per poll.  The producer only runs inside a poll, and     *)
(* Yielder::send never suspends it, so one poll may queue many items.      *)
(*                                                                         *)
(* The modules that extend this one say what the producer does while the   *)
(* consumer is "polling", and what wakes a consumer that waits.            *)
(***************************************************************************)
EXTENDS Naturals, Sequences, SequencesExt, Logs

VARIABLES
  queue,      \* Collected::items
  alive,      \* Collected::future is still there
  consumer,   \* "absent", "ready", "polling", "waiting", "ended" or "dropped"
  got         \* what the consumer has received

stream == <<queue, alive, consumer, got>>

StreamInit == queue = <<>> /\ alive = FALSE /\ consumer = "absent" /\ got = <<>>

\* The stream is handed to its consumer.
Open ==
  /\ alive' = TRUE
  /\ consumer' = "ready"
  /\ UNCHANGED <<queue, got>>

Take ==
  /\ queue # <<>>
  /\ got' = Append(got, Head(queue))
  /\ queue' = Tail(queue)
  /\ consumer' = "ready"
  /\ UNCHANGED alive

\* poll_next: what is queued first, then the producer, then the end.
PollQueued == consumer = "ready" /\ Take

PollProducer ==
  /\ consumer = "ready" /\ queue = <<>> /\ alive
  /\ consumer' = "polling"
  /\ UNCHANGED <<queue, alive, got>>

PollSpent ==
  /\ consumer = "ready" /\ queue = <<>> /\ ~alive
  /\ consumer' = "ended"
  /\ UNCHANGED <<queue, alive, got>>

\* The producer has returned: its last poll still hands out what it queued.
LastPoll ==
  /\ consumer = "polling" /\ ~alive
  /\ \/ Take
     \/ queue = <<>> /\ consumer' = "ended" /\ UNCHANGED <<queue, alive, got>>

\* The producer awaits something that is not there yet.
Suspend ==
  /\ consumer = "polling" /\ alive
  /\ \/ Take
     \/ queue = <<>> /\ consumer' = "waiting" /\ UNCHANGED <<queue, alive, got>>

\* The producer's await was woken.
Wake ==
  /\ consumer = "waiting"
  /\ consumer' = "ready"
  /\ UNCHANGED <<queue, alive, got>>

\* The consumer drops the stream: the producer and its queue go with it.
Drop ==
  /\ consumer \in {"ready", "waiting"}
  /\ consumer' = "dropped"
  /\ queue' = <<>> /\ alive' = FALSE
  /\ UNCHANGED got

Polls == PollQueued \/ PollProducer \/ PollSpent \/ LastPoll

\* The producer runs on within this poll; Return is its last step.
Push(items) ==
  /\ consumer = "polling" /\ alive
  /\ queue' = queue \o items
  /\ UNCHANGED <<alive, consumer, got>>
Return(items) ==
  /\ consumer = "polling" /\ alive
  /\ queue' = queue \o items
  /\ alive' = FALSE
  /\ UNCHANGED <<consumer, got>>
================================================================================
