---------------------------------- MODULE Peers --------------------------------
(***************************************************************************)
(* Work handed to another agent (frey-a2a): its card (card.rs), the        *)
(* approval before the work is handed over, the life of the task and the   *)
(* stream of its updates to any number of subscribers (task.rs).           *)
(*                                                                         *)
(* The peer pushes what it likes, updates after the end included.          *)
(* Subscribers are external: one asks for what follows the updates it has  *)
(* seen, keeps at most one question open, and may lose the connection with *)
(* the question or the answer on the way.  "told" is what they saw.  Every *)
(* update carries its number in its message.                               *)
(***************************************************************************)
EXTENDS Naturals, Sequences, SequencesExt

CONSTANTS
  Subscribers,
  NoCard,       \* no card was fetched yet
  MaxUpdates    \* bound: updates the peer pushes

ASSUME PeersAssumption == MaxUpdates \in Nat

VARIABLES
  card, handover, pushed,
  events, closed,   \* TaskStream
  told,
  reply,            \* of every subscriber, the answer on its way to it, if any
  waiting           \* what the host was last told to ask a person

peersVars == <<card, handover, pushed, events, closed, told, reply, waiting>>
--------------------------------------------------------------------------------
TaskState == {"Submitted", "Working", "InputRequired", "AuthRequired",
              "Completed", "Failed", "Canceled", "Rejected"}
IsTerminal(state) == state \in {"Completed", "Failed", "Canceled", "Rejected"}
IsInterrupted(state) == state \in {"InputRequired", "AuthRequired"}

\* Signature and AgentCard: whether it names itself, how it was authenticated and the
\* revision it says it speaks.
AgentCard == [named : BOOLEAN, signature : {"Verified", "Invalid", "Absent"},
              version : {"none", "0.3", "1.0"}]
IsUsable(c) == c.signature # "Invalid" /\ c.named
EffectiveVersion(c) == IF c.version = "none" THEN "0.3" ELSE c.version
SpeaksCurrentVersion(c) == EffectiveVersion(c) = "1.0"

TaskStatus == [state : TaskState, number : Nat \ {0}]

PeersInit ==
  /\ card = NoCard
  /\ handover = "none"
  /\ pushed = 0
  /\ events = <<>>
  /\ closed = FALSE
  /\ told = [s \in Subscribers |-> <<>>]
  /\ reply = [s \in Subscribers |-> {}]
  /\ waiting = "nothing"

Fetch(c) ==
  /\ card = NoCard
  /\ card' = c
  /\ UNCHANGED <<handover, pushed, events, closed, told, reply, waiting>>

\* delegation_approval: low risk goes ahead, anything above waits for a human.
NeedsDelegationApproval(risk) == risk # "Low"
Delegate(risk) ==
  /\ card # NoCard
  /\ IsUsable(card) /\ SpeaksCurrentVersion(card)
  /\ handover = "none"
  /\ handover' = IF NeedsDelegationApproval(risk) THEN "asked" ELSE "handed"
  /\ UNCHANGED <<card, pushed, events, closed, told, reply, waiting>>

ApproveDelegation ==
  /\ handover = "asked"
  /\ handover' = "handed"
  /\ UNCHANGED <<card, pushed, events, closed, told, reply, waiting>>
DenyDelegation ==
  /\ handover = "asked"
  /\ handover' = "none"
  /\ UNCHANGED <<card, pushed, events, closed, told, reply, waiting>>
--------------------------------------------------------------------------------
\* Fault: an update is appended whatever the stream has said.
TakesAlways == TRUE
Takes == ~closed

\* TaskStream::push
Push(state) ==
  /\ handover = "handed"
  /\ pushed < MaxUpdates
  /\ pushed' = pushed + 1
  /\ IF Takes
     THEN /\ events' = Append(events, [state |-> state, number |-> pushed + 1])
          /\ closed' = (closed \/ IsTerminal(state))
     ELSE UNCHANGED <<events, closed>>
  /\ UNCHANGED <<card, handover, told, reply, waiting>>

\* TaskStream::replay_from
ReplayFrom(after) ==
  LET start == IF after < Len(events) THEN after ELSE Len(events)
  IN  SubSeq(events, start + 1, Len(events))

Subscribe(s) ==
  /\ handover = "handed"
  /\ reply[s] = {}
  /\ reply' = [reply EXCEPT ![s] = {ReplayFrom(Len(told[s]))}]
  /\ UNCHANGED <<card, handover, pushed, events, closed, told, waiting>>

\* needs_input, of the newest update a subscriber was told.
NeedsInputOf(story) ==
  IF story = <<>> \/ ~IsInterrupted(Last(story).state) THEN "nothing"
  ELSE IF Last(story).state = "AuthRequired" THEN "Auth" ELSE "Choice"

Deliver(s) ==
  /\ \E news \in reply[s] : told' = [told EXCEPT ![s] = @ \o news]
  /\ reply' = [reply EXCEPT ![s] = {}]
  /\ waiting' = NeedsInputOf(told'[s])
  /\ UNCHANGED <<card, handover, pushed, events, closed>>

Disconnect(s) ==
  /\ reply[s] # {}
  /\ reply' = [reply EXCEPT ![s] = {}]
  /\ UNCHANGED <<card, handover, pushed, events, closed, told, waiting>>

PeersNext ==
  \/ \E c \in AgentCard : Fetch(c)
  \/ \E risk \in {"Low", "Medium", "High"} : Delegate(risk)
  \/ ApproveDelegation
  \/ DenyDelegation
  \/ \E state \in TaskState : Push(state)
  \/ \E s \in Subscribers : Subscribe(s) \/ Deliver(s) \/ Disconnect(s)

PeersSpec == PeersInit /\ [][PeersNext]_peersVars
--------------------------------------------------------------------------------
\* "A stream must terminate on a terminal state, events must reach every subscriber in
\* order, and closing one subscription must not disturb another": all are told the same
\* story, each as far as it got, whatever was lost on the way, and the story ends where
\* the task first ended.
EverySubscriberHearsOneStory ==
  /\ \A s \in Subscribers : IsPrefix(told[s], events)
  /\ \A s \in Subscribers : \A i \in DOMAIN told[s] :
       told[s][i].number = i /\ (IsTerminal(told[s][i].state) => i = Len(told[s]))
================================================================================
