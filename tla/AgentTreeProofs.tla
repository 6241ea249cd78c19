---------------------------- MODULE AgentTreeProofs ----------------------------
(***************************************************************************)
(* What holds of every tree of agents, of any depth, over any capabilities.*)
(***************************************************************************)
EXTENDS AgentTree, SequenceTheorems, TLAPS

(* The order of capabilities.                                              *)

LEMMA PrefixTransitive ==
  ASSUME NEW S, NEW r \in Seq(S), NEW s \in Seq(S), NEW t \in Seq(S),
         IsPrefix(r, s), IsPrefix(s, t)
  PROVE  IsPrefix(r, t)
<1>1. \A i \in 1 .. Len(r) : r[i] = s[i]
  BY SMT DEF IsPrefix
<1>2. \A i \in 1 .. Len(s) : s[i] = t[i]
  BY SMT DEF IsPrefix
<1>3. Len(r) <= Len(s) /\ Len(s) <= Len(t)
  BY DEF IsPrefix
<1>4. \A i \in 1 .. Len(r) : r[i] = t[i]
  BY <1>1, <1>2, <1>3
<1>5. SubSeq(r, 1, Len(r)) = SubSeq(t, 1, Len(r))
  BY <1>3, <1>4
<1> QED
  BY <1>3, <1>5 DEF IsPrefix

LEMMA PathTransitive ==
  ASSUME NEW p \in Path, NEW q \in Path, NEW r \in Path,
         CoversLexically(p, q), CoversLexically(q, r)
  PROVE  CoversLexically(p, r)
<1>1. CASE p = Filesystem
  BY <1>1 DEF CoversLexically
<1>2. CASE p # Filesystem /\ q = Filesystem
  <2>1. p.absolute = TRUE /\ IsPrefix(p.parts, <<>>) /\ p.parts \in Seq(Names)
    BY <1>2 DEF CoversLexically, Filesystem, Path
  <2>2. p.parts = <<>>
    BY <2>1 DEF IsPrefix
  <2>3. p = Filesystem
    BY <2>1, <2>2 DEF Path, Filesystem
  <2> QED
    BY <2>3, <1>2
<1>3. CASE p # Filesystem /\ q # Filesystem
  <2>1. IsPrefix(p.parts, q.parts) /\ IsPrefix(q.parts, r.parts)
    BY <1>3 DEF CoversLexically
  <2>2. p.parts \in Seq(Names) /\ q.parts \in Seq(Names) /\ r.parts \in Seq(Names)
    BY DEF Path
  <2>3. IsPrefix(p.parts, r.parts)
    BY <2>1, <2>2, PrefixTransitive
  <2> QED
    BY <1>3, <2>3 DEF CoversLexically
<1> QED
  BY <1>1, <1>2, <1>3

LEMMA PathsTransitive ==
  ASSUME NEW A \in SUBSET Path, NEW B \in SUBSET Path, NEW C \in SUBSET Path,
         PathsWithin(A, B), PathsWithin(B, C)
  PROVE  PathsWithin(A, C)
BY PathTransitive DEF PathsWithin

\* is_covered_by is transitive: with it, narrowing composes.
LEMMA CoverTransitive ==
  ASSUME NEW a \in Capability, NEW b \in Capability, NEW c \in Capability,
         IsCoveredBy(a, b), IsCoveredBy(b, c)
  PROVE  IsCoveredBy(a, c)
<1>1. CASE a.kind \in {"FsRead", "FsWrite"}
  <2>1. b.kind \in {a.kind, "FsWrite"} /\ c.kind \in {b.kind, "FsWrite"}
    BY <1>1 DEF IsCoveredBy
  <2>2. a.scope \in SUBSET Path /\ b.scope \in SUBSET Path /\ c.scope \in SUBSET Path
    BY <1>1, <2>1 DEF Capability
  <2>3. PathsWithin(a.scope, b.scope) /\ PathsWithin(b.scope, c.scope)
    BY <1>1, <2>1 DEF IsCoveredBy
  <2>4. PathsWithin(a.scope, c.scope)
    BY <2>2, <2>3, PathsTransitive
  <2> QED
    BY <1>1, <2>1, <2>4 DEF IsCoveredBy
<1>2. CASE a.kind = "Exec"
  BY <1>2 DEF IsCoveredBy
<1>3. CASE a.kind = "Spend"
  <2>1. b.kind = "Spend" /\ c.kind = "Spend" /\ a.scope <= b.scope /\ b.scope <= c.scope
    BY <1>3 DEF IsCoveredBy
  <2>2. a.scope \in Nat /\ b.scope \in Nat /\ c.scope \in Nat
    BY <1>3, <2>1 DEF Capability
  <2> QED
    BY <1>3, <2>1, <2>2 DEF IsCoveredBy
<1>4. CASE a.kind = "Mcp"
  BY <1>4 DEF IsCoveredBy, ToolsWithin
<1>5. CASE a.kind \in {"NetEgress", "Secret", "Delegate"}
  BY <1>5 DEF IsCoveredBy
<1> QED
  BY <1>1, <1>2, <1>3, <1>4, <1>5 DEF Capability

\* What a subset permits, the larger set permits (GrantSet::is_subset_of).
LEMMA SubsetPermits ==
  ASSUME NEW A \in SUBSET Capability, NEW B \in SUBSET Capability,
         NEW wanted \in Capability,
         IsSubsetOf(A, B), Permits(A, wanted)
  PROVE  Permits(B, wanted)
<1>1. PICK g \in A : IsCoveredBy(wanted, g)
  BY DEF Permits
<1>2. PICK h \in B : IsCoveredBy(g, h)
  BY DEF IsSubsetOf, Permits
<1> QED
  BY <1>1, <1>2, CoverTransitive DEF Permits
--------------------------------------------------------------------------------
(* Joining and observing.                                                  *)

TreeInv == TypeOK /\ GrantsNarrow /\ PowersFollowContent /\ NoChildBornWithAll

LEMMA PowersAreTyped ==
  /\ \A grants \in SUBSET Capability : FromGrants(grants) \in Powers
  /\ \A powers \in Powers : ObservedUntrustedInput(powers) \in Powers
BY DEF FromGrants, Powers, ObservedUntrustedInput

\* One more agent: those there are stay as they are.
LEMMA JoinIsAppend ==
  ASSUME NEW agent \in Agent, agents \in Seq(Agent), Joins(agent)
  PROVE  /\ agents' \in Seq(Agent)
         /\ Len(agents') = Len(agents) + 1
         /\ DOMAIN agents' = DOMAIN agents \cup {Next1}
         /\ \A i \in DOMAIN agents : agents'[i] = agents[i]
         /\ agents'[Next1] = agent
BY DEF Joins, Next1

\* What the newcomer must bring: its place, powers that follow its content, not all
\* of them if it is a child, and grants within those of every agent above it.
LEMMA JoinKeepsTree ==
  ASSUME TreeInv, NEW agent \in Agent, Joins(agent),
         Last(agent.path) = Next1,
         \A k \in DOMAIN agent.path : agent.path[k] \in 1 .. Next1,
         agent.heard \subseteq 1 .. Len(agents),
         agent.powers.untrustedInput <=> agent.heard # {},
         AllThree(agent.powers) => Len(agent.path) = 1,
         \A k \in DOMAIN agent.path :
           \/ agent.path[k] = Next1
           \/ /\ agent.path[k] \in DOMAIN agents
              /\ \A wanted \in Wanted :
                   Permits(agent.grants, wanted) =>
                     Permits(agents[agent.path[k]].grants, wanted)
  PROVE  TreeInv'
<1>1. agents \in Seq(Agent)
  BY DEF TreeInv, TypeOK
<1>2. /\ agents' \in Seq(Agent)
      /\ Len(agents') = Len(agents) + 1
      /\ DOMAIN agents' = DOMAIN agents \cup {Next1}
      /\ \A i \in DOMAIN agents : agents'[i] = agents[i]
      /\ agents'[Next1] = agent
  BY <1>1, JoinIsAppend
<1>3. DOMAIN agents = 1 .. Len(agents) /\ Len(agents) \in Nat
  BY <1>1
<1>4. TypeOK'
  <2>1. ASSUME NEW i \in DOMAIN agents
        PROVE  /\ Last(agents[i].path) = i
               /\ agents[i].heard \subseteq 1 .. Len(agents')
               /\ \A k \in DOMAIN agents[i].path : agents[i].path[k] \in 1 .. i
    BY <1>2, <1>3 DEF TreeInv, TypeOK
  <2>2. agent.heard \subseteq 1 .. Len(agents')
    BY <1>2, <1>3
  <2> QED
    BY <1>2, <2>1, <2>2 DEF TypeOK
<1>5. GrantsNarrow'
  <2>1. ASSUME NEW i \in DOMAIN agents, NEW k \in DOMAIN agents[i].path,
               NEW wanted \in Wanted, Permits(agents[i].grants, wanted)
        PROVE  Permits(agents'[agents[i].path[k]].grants, wanted)
    <3>1. agents[i].path[k] \in DOMAIN agents
      BY <1>3 DEF TreeInv, TypeOK
    <3>2. agents'[agents[i].path[k]] = agents[agents[i].path[k]]
      BY <1>2, <3>1
    <3>3. Permits(agents[agents[i].path[k]].grants, wanted)
      BY <2>1 DEF TreeInv, GrantsNarrow
    <3> QED
      BY <3>2, <3>3
  <2>2. ASSUME NEW k \in DOMAIN agent.path, NEW wanted \in Wanted,
               Permits(agent.grants, wanted)
        PROVE  Permits(agents'[agent.path[k]].grants, wanted)
    <3>1. CASE agent.path[k] = Next1
      <4>1. agents'[agent.path[k]] = agent
        BY <1>2, <3>1
      <4> QED
        BY <2>2, <4>1
    <3>2. CASE agent.path[k] # Next1
      <4>1. agents'[agent.path[k]] = agents[agent.path[k]]
        BY <1>2, <3>2
      <4>2. Permits(agents[agent.path[k]].grants, wanted)
        BY <2>2, <3>2
      <4> QED
        BY <4>1, <4>2
    <3> QED
      BY <3>1, <3>2
  <2> QED
    BY <1>2, <2>1, <2>2 DEF GrantsNarrow
<1>6. PowersFollowContent'
  BY <1>2 DEF TreeInv, PowersFollowContent
<1>7. NoChildBornWithAll'
  <2>1. ASSUME NEW i \in DOMAIN agents, AllThree(agents'[i].powers),
               Len(agents'[i].path) > 1
        PROVE  i \in agents'[i].heard
    <3>1. agents'[i] = agents[i]
      BY <1>2
    <3> QED
      BY <2>1, <3>1 DEF TreeInv, NoChildBornWithAll
  <2>2. ASSUME AllThree(agents'[Next1].powers), Len(agents'[Next1].path) > 1
        PROVE  FALSE
    <3>1. agents'[Next1] = agent
      BY <1>2
    <3>2. AllThree(agent.powers) /\ Len(agent.path) > 1
      BY <2>2, <3>1
    <3>3. Len(agent.path) = 1
      BY <3>2
    <3> QED
      BY <3>2, <3>3
  <2> QED
    BY <1>2, <2>1, <2>2 DEF NoChildBornWithAll
<1> QED
  BY <1>4, <1>5, <1>6, <1>7 DEF TreeInv

LEMMA NewSessionKeepsTree ==
  ASSUME TreeInv, NEW grants \in GrantSets, NewSession(grants)
  PROVE  TreeInv'
<1> DEFINE agent == [path |-> <<Next1>>, grants |-> grants,
                     powers |-> FromGrants(grants), heard |-> {}]
<1>1. Next1 \in Nat \ {0}
  BY DEF TreeInv, TypeOK, Next1
<1>2. grants \in SUBSET Capability /\ FromGrants(grants) \in Powers
  BY PowersAreTyped, TreeAssumption
<1>3. <<Next1>> \in Seq(Nat \ {0})
  BY <1>1
<1>4. agent \in Agent
  BY <1>2, <1>3 DEF Agent
<1>5. Last(agent.path) = Next1 /\ \A k \in DOMAIN agent.path : agent.path[k] = Next1
  BY DEF Last
<1>6. Joins(agent)
  BY DEF NewSession
<1>7. agent.powers.untrustedInput <=> agent.heard # {}
  BY DEF FromGrants
<1>8. agent.heard \subseteq 1 .. Len(agents) /\ Len(agent.path) = 1
  OBVIOUS
<1> HIDE DEF agent
<1> QED
  BY <1>1, <1>4, <1>5, <1>6, <1>7, <1>8, JoinKeepsTree

LEMMA ForkKeepsTree ==
  ASSUME TreeInv, NEW i \in DOMAIN agents, Fork(i)
  PROVE  TreeInv'
<1> DEFINE agent == [agents[i] EXCEPT !.path = <<Next1>>]
<1>1. Next1 \in Nat \ {0}
  BY DEF TreeInv, TypeOK, Next1
<1>2. agents[i] \in Agent
  BY DEF TreeInv, TypeOK
<1>9. agent = [path |-> <<Next1>>, grants |-> agents[i].grants,
               powers |-> agents[i].powers, heard |-> agents[i].heard]
  BY <1>2 DEF Agent
<1>10. <<Next1>> \in Seq(Nat \ {0})
  BY <1>1
<1>3. agent \in Agent
  BY <1>2, <1>9, <1>10 DEF Agent
<1>4. agent.path = <<Next1>> /\ agent.powers = agents[i].powers /\ agent.heard = agents[i].heard
  BY <1>2 DEF Agent
<1>5. Last(agent.path) = Next1 /\ \A k \in DOMAIN agent.path : agent.path[k] = Next1
  BY <1>4 DEF Last
<1>6. Joins(agent)
  BY DEF Fork
<1>7. agent.powers.untrustedInput <=> agent.heard # {}
  BY <1>4 DEF TreeInv, PowersFollowContent
<1>8. agent.heard \subseteq 1 .. Len(agents) /\ Len(agent.path) = 1
  BY <1>4 DEF TreeInv, TypeOK
<1> HIDE DEF agent
<1> QED
  BY <1>1, <1>3, <1>5, <1>6, <1>7, <1>8, JoinKeepsTree

LEMMA SpawnKeepsTree ==
  ASSUME TreeInv, NEW i \in DOMAIN agents, NEW inheritance \in Inheritances,
         NEW grants \in GrantSets, Spawn(i, inheritance, grants)
  PROVE  TreeInv'
<1> DEFINE parent == agents[i]
           agent == [path   |-> Append(agents[i].path, Next1),
                     grants |-> grants,
                     powers |-> ChildPowers(agents[i], inheritance, grants),
                     heard  |-> IF inheritance = "None" THEN {} ELSE agents[i].heard]
<1>1. Next1 \in Nat \ {0} /\ i \in 1 .. Len(agents) /\ Next1 = Len(agents) + 1
      /\ Len(agents) \in Nat
  BY DEF TreeInv, TypeOK, Next1
<1>2. /\ parent \in Agent
      /\ parent.heard \subseteq 1 .. Len(agents)
      /\ \A k \in DOMAIN parent.path : parent.path[k] \in 1 .. i
  BY DEF TreeInv, TypeOK
<1>3. grants \in SUBSET Capability
  BY TreeAssumption
<1>4. ChildPowers(parent, inheritance, grants) \in Powers
  BY <1>3, PowersAreTyped DEF ChildPowers
<1>5. parent.path \in Seq(Nat \ {0}) /\ parent.heard \in SUBSET (Nat \ {0})
      /\ parent.grants \in SUBSET Capability
  BY <1>2 DEF Agent
<1>6. /\ Append(parent.path, Next1) \in Seq(Nat \ {0})
      /\ DOMAIN Append(parent.path, Next1) = 1 .. Len(parent.path) + 1
      /\ \A k \in 1 .. Len(parent.path) : Append(parent.path, Next1)[k] = parent.path[k]
      /\ Append(parent.path, Next1)[Len(parent.path) + 1] = Next1
  BY <1>1, <1>5
<1>7. agent \in Agent
  BY <1>3, <1>4, <1>5, <1>6 DEF Agent
<1>8. Last(agent.path) = Next1
  BY <1>1, <1>5, <1>6 DEF Last
<1>9. \A k \in DOMAIN agent.path :
        agent.path[k] = Next1 \/ (k \in DOMAIN parent.path /\ agent.path[k] = parent.path[k])
  BY <1>5, <1>6
<1>10. \A k \in DOMAIN agent.path : agent.path[k] \in 1 .. Next1
  BY <1>1, <1>2, <1>9
<1>11. agent.powers.untrustedInput <=> agent.heard # {}
  <2>1. parent.powers.untrustedInput <=> parent.heard # {}
    BY DEF TreeInv, PowersFollowContent
  <2>2. parent.powers \in Powers /\ FromGrants(grants) \in Powers
    BY <1>2, <1>3, PowersAreTyped DEF Agent
  <2>3. /\ ~FromGrants(grants).untrustedInput
        /\ ObservedUntrustedInput(FromGrants(grants)).untrustedInput
    BY <2>2 DEF FromGrants, ObservedUntrustedInput, Powers
  <2> QED
    BY <2>1, <2>3 DEF ChildPowers
<1>12. agent.heard \subseteq 1 .. Len(agents)
  BY <1>2
<1>13. ASSUME NEW k \in DOMAIN agent.path, agent.path[k] # Next1
       PROVE  /\ agent.path[k] \in DOMAIN agents
              /\ \A wanted \in Wanted :
                   Permits(agent.grants, wanted) =>
                     Permits(agents[agent.path[k]].grants, wanted)
  <2>1. k \in DOMAIN parent.path /\ agent.path[k] = parent.path[k]
    BY <1>9, <1>13
  <2>2. agent.path[k] \in DOMAIN agents
    BY <1>1, <1>2, <2>1 DEF TreeInv, TypeOK
  <2>3. IsSubsetOf(grants, parent.grants)
    BY DEF Spawn, Admits
  <2>4. ASSUME NEW wanted \in Wanted, Permits(grants, wanted)
        PROVE  Permits(agents[parent.path[k]].grants, wanted)
    <3>1. wanted \in Capability
      BY TreeAssumption
    <3>2. Permits(parent.grants, wanted)
      BY <1>3, <1>5, <2>3, <2>4, <3>1, SubsetPermits
    <3> QED
      BY <2>1, <3>2 DEF TreeInv, GrantsNarrow
  <2> QED
    BY <2>1, <2>2, <2>4
<1>14. Joins(agent) /\ ~AllThree(agent.powers)
  BY DEF Spawn, Admits
<1> HIDE DEF agent
<1> QED
  BY <1>7, <1>8, <1>10, <1>11, <1>12, <1>13, <1>14, JoinKeepsTree

LEMMA ObserveKeepsTree ==
  ASSUME TreeInv, NEW i \in DOMAIN agents, Observe(i)
  PROVE  TreeInv'
<1>1. agents \in Seq(Agent) /\ i \in 1 .. Len(agents) /\ Len(agents) \in Nat
  BY DEF TreeInv, TypeOK
<1>2. agents[i] \in Agent
  BY <1>1
<1>10. agents' = [agents EXCEPT ![i] =
         [agents[i] EXCEPT !.powers = ObservedUntrustedInput(@), !.heard = @ \cup {i}]]
  BY <1>1 DEF Observe
<1>11. agents'[i] = [path   |-> agents[i].path,
                     grants |-> agents[i].grants,
                     powers |-> ObservedUntrustedInput(agents[i].powers),
                     heard  |-> agents[i].heard \cup {i}]
  BY <1>1, <1>2, <1>10 DEF Agent
<1>12. i \in Nat \ {0}
  BY <1>1
<1>3. /\ agents'[i].path = agents[i].path /\ agents'[i].grants = agents[i].grants
      /\ agents'[i].powers = ObservedUntrustedInput(agents[i].powers)
      /\ agents'[i].heard = agents[i].heard \cup {i}
      /\ agents'[i] \in Agent
  BY <1>2, <1>11, <1>12, PowersAreTyped DEF Agent
<1>4. \A j \in DOMAIN agents : j # i => agents'[j] = agents[j]
  BY DEF Observe
<1>5. /\ DOMAIN agents' = DOMAIN agents /\ Len(agents') = Len(agents)
      /\ agents' \in Seq(Agent)
  BY <1>1, <1>3, <1>10
<1>6. \A j \in DOMAIN agents :
        agents'[j].path = agents[j].path /\ agents'[j].grants = agents[j].grants
  BY <1>3, <1>4
<1>7. TypeOK'
  <2>1. \A j \in DOMAIN agents : agents'[j].heard \subseteq agents[j].heard \cup {i}
    BY <1>3, <1>4
  <2> QED
    BY <1>1, <1>5, <1>6, <2>1 DEF TreeInv, TypeOK
<1>8. GrantsNarrow'
  <2>1. \A j \in DOMAIN agents : \A k \in DOMAIN agents[j].path :
          agents[j].path[k] \in DOMAIN agents
    BY <1>1 DEF TreeInv, TypeOK
  <2> QED
    BY <1>5, <1>6, <2>1 DEF TreeInv, GrantsNarrow
<1>9. PowersFollowContent'
  <2>1. agents'[i].powers.untrustedInput
    BY <1>2, <1>3 DEF ObservedUntrustedInput, Agent, Powers
  <2> QED
    BY <1>3, <1>4, <1>5, <2>1 DEF TreeInv, PowersFollowContent
<1>13. NoChildBornWithAll'
  BY <1>3, <1>4, <1>5 DEF TreeInv, NoChildBornWithAll
<1> QED
  BY <1>7, <1>8, <1>9, <1>13 DEF TreeInv

LEMMA InitTree == Init => TreeInv
BY DEF Init, TreeInv, TypeOK, GrantsNarrow, PowersFollowContent, NoChildBornWithAll

LEMMA NextKeepsTree == TreeInv /\ [Next]_agents => TreeInv'
<1> SUFFICES ASSUME TreeInv, [Next]_agents PROVE TreeInv'
  OBVIOUS
<1>1. CASE UNCHANGED agents
  BY <1>1 DEF TreeInv, TypeOK, GrantsNarrow, PowersFollowContent, NoChildBornWithAll
<1>2. CASE Next
  BY <1>2, NewSessionKeepsTree, ForkKeepsTree, ObserveKeepsTree, SpawnKeepsTree DEF Next
<1> QED
  BY <1>1, <1>2

\* The type invariant of the tree, for any grants and any number of agents.
THEOREM TreeTypeCorrect == Spec => []TypeOK
<1>1. TreeInv => TypeOK
  BY DEF TreeInv
<1> QED
  BY <1>1, InitTree, NextKeepsTree, PTL DEF Spec

\* A child's grants are a subset of its parent's, at any depth: what an agent may
\* use, every agent above it may use (multi.rs, "capabilities only narrow").
THEOREM GrantsOnlyNarrow == Spec => []GrantsNarrow
<1>1. TreeInv => GrantsNarrow
  BY DEF TreeInv
<1> QED
  BY <1>1, InitTree, NextKeepsTree, PTL DEF Spec

\* Untrusted input flows down every inheritance and every fork, and nowhere else.
THEOREM UntrustedInputFlowsDown == Spec => []PowersFollowContent
<1>1. TreeInv => PowersFollowContent
  BY DEF TreeInv
<1> QED
  BY <1>1, InitTree, NextKeepsTree, PTL DEF Spec

\* The Rule of Two at spawn: no child starts with all three powers, and one that
\* comes to hold them has met outside content itself.
THEOREM RuleOfTwoAtBirth == Spec => []NoChildBornWithAll
<1>1. TreeInv => NoChildBornWithAll
  BY DEF TreeInv
<1> QED
  BY <1>1, InitTree, NextKeepsTree, PTL DEF Spec
================================================================================
