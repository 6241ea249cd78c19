-------------------------------- MODULE AgentTree ------------------------------
(***************************************************************************)
(* Sessions (frey-harness/src/session.rs) and the agents spawned under     *)
(* them (frey-agent/src/multi.rs): who holds which grants and powers, as   *)
(* sessions are created and forked, children are spawned at any depth, and *)
(* agents meet content Frey did not author, in any order.                  *)
(*                                                                         *)
(* Agents are numbered as they are created and an agent's path names the   *)
(* agents above it and itself, so every path is fresh.  "heard" is a       *)
(* history: in whose session the outside content came in that is now part  *)
(* of an agent's context.  A summary counts as part of what it summarises. *)
(***************************************************************************)
EXTENDS Capabilities

CONSTANTS
  GrantSets,   \* the grant sets sessions and children are asked to have
  Wanted,      \* the capabilities tools declare
  MaxAgents    \* bound: agents ever created

ASSUME TreeAssumption ==
  /\ GrantSets \subseteq SUBSET Capability
  /\ Wanted \subseteq Capability
  /\ MaxAgents \in Nat

VARIABLE agents

Inheritances == {"None", "Summary", "Snapshot"}

Agent == [path : Seq(Nat \ {0}), grants : SUBSET Capability, powers : Powers,
          heard : SUBSET (Nat \ {0})]
--------------------------------------------------------------------------------
Init == agents = <<>>

Next1 == Len(agents) + 1   \* the number of the next agent
Joins(agent) == Len(agents) < MaxAgents /\ agents' = Append(agents, agent)

NewSession(grants) ==
  Joins([path |-> <<Next1>>, grants |-> grants, powers |-> FromGrants(grants),
         heard |-> {}])

\* Fault: a fork starts from its grants, as a new session does.
ForkAfresh(i) ==
  /\ Len(agents[i].path) = 1
  /\ Joins([agents[i] EXCEPT !.path = <<Next1>>, !.powers = FromGrants(agents[i].grants)])
\* A branch of a session that saw untrusted input has still seen it.
Fork(i) ==
  /\ Len(agents[i].path) = 1
  /\ Joins([agents[i] EXCEPT !.path = <<Next1>>])

Observe(i) ==
  agents' = [agents EXCEPT ![i].powers = ObservedUntrustedInput(@),
                           ![i].heard = @ \cup {i}]

\* What a child would hold: untrusted input flows down unless nothing is inherited.
ChildPowers(parent, inheritance, grants) ==
  IF parent.powers.untrustedInput /\ inheritance # "None"
  THEN ObservedUntrustedInput(FromGrants(grants)) ELSE FromGrants(grants)

\* Fault: the powers are checked before what the child inherits is counted.
AdmitsEarly(parent, inheritance, grants) ==
  /\ IsSubsetOf(grants, parent.grants)
  /\ ~AllThree(FromGrants(grants))
\* Anything else is refused, with WidensGrants or RuleOfTwo, and nothing changes.
Admits(parent, inheritance, grants) ==
  /\ IsSubsetOf(grants, parent.grants)
  /\ ~AllThree(ChildPowers(parent, inheritance, grants))

Spawn(i, inheritance, grants) ==
  /\ Admits(agents[i], inheritance, grants)
  /\ Joins([path   |-> Append(agents[i].path, Next1),
            grants |-> grants,
            powers |-> ChildPowers(agents[i], inheritance, grants),
            heard  |-> IF inheritance = "None" THEN {} ELSE agents[i].heard])

Next ==
  \/ \E grants \in GrantSets : NewSession(grants)
  \/ \E i \in DOMAIN agents :
       \/ Fork(i)
       \/ Observe(i)
       \/ \E inheritance \in Inheritances, grants \in GrantSets :
            Spawn(i, inheritance, grants)

Spec == Init /\ [][Next]_agents
--------------------------------------------------------------------------------
TypeOK ==
  /\ agents \in Seq(Agent)
  /\ \A i \in DOMAIN agents :
       /\ Last(agents[i].path) = i
       /\ agents[i].heard \subseteq 1 .. Len(agents)
       /\ \A k \in DOMAIN agents[i].path : agents[i].path[k] \in 1 .. i

\* capability.rs, "Monotonic narrowing": whatever an agent may use, every agent
\* above it may use, at any depth.
GrantsNarrow ==
  \A i \in DOMAIN agents : \A k \in DOMAIN agents[i].path : \A wanted \in Wanted :
    Permits(agents[i].grants, wanted) =>
      Permits(agents[agents[i].path[k]].grants, wanted)

\* "A parent that has read a fetched page cannot hand a child a clean slate simply
\* by summarising", and a branch of a session has still seen what it saw: the power
\* is held exactly by those whose context holds outside content.
PowersFollowContent ==
  \A i \in DOMAIN agents : agents[i].powers.untrustedInput <=> agents[i].heard # {}

\* An agent has all three powers only by what it met itself, or what the session
\* it is a branch of met: no child is born with them.
NoChildBornWithAll ==
  \A i \in DOMAIN agents :
    AllThree(agents[i].powers) /\ Len(agents[i].path) > 1 => i \in agents[i].heard
================================================================================
