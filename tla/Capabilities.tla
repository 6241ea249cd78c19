------------------------------ MODULE Capabilities -----------------------------
(***************************************************************************)
(* What an agent may reach (frey-core/src/capability.rs): capabilities,    *)
(* the order in which one covers another, grant sets, and the three powers *)
(* that the Rule of Two counts.                                            *)
(*                                                                         *)
(* A path is a normalised PathScope prefix: absolute or relative to the    *)
(* workspace, and its components; "." and "/" have none.  The scope of a   *)
(* capability is a set where the code keeps a sorted vector.  Who          *)
(* authorised a grant decides nothing and is left out.                     *)
(***************************************************************************)
EXTENDS Naturals, Sequences, SequencesExt

CONSTANT Names   \* path components, programs, hosts, secrets, tools, servers, agents

Path == [absolute : BOOLEAN, parts : Seq(Names)]
Filesystem == [absolute |-> TRUE, parts |-> <<>>]

Selector == [all : BOOLEAN, names : SUBSET Names]

Capability ==
       [kind : {"FsRead", "FsWrite"}, scope : SUBSET Path]
  \cup [kind : {"NetEgress", "Secret", "Delegate"}, scope : Names]
  \cup [kind : {"Exec"}, scope : SUBSET Names]
  \cup [kind : {"Spend"}, scope : Nat]
  \cup [kind : {"Mcp"}, scope : [server : Names, tools : Selector]]

\* covers_lexically.  The root of the file system covers every path, the workspace
\* every relative one, any other prefix what continues it.
CoversLexically(prefix, path) ==
  \/ prefix = Filesystem
  \/ prefix.absolute = path.absolute /\ IsPrefix(prefix.parts, path.parts)

\* PathScope::is_subset_of and ToolSelector::is_subset_of.
PathsWithin(scope, other) ==
  \A p \in scope : \E q \in other : CoversLexically(q, p)
\* Fault: a selector of every tool is within any other.
ToolsWithinUnordered(tools, other) ==
  other.all \/ tools.all \/ tools.names \subseteq other.names
ToolsWithin(tools, other) ==
  other.all \/ (~tools.all /\ tools.names \subseteq other.names)

\* Capability::is_covered_by.  Being able to write implies being able to read.
IsCoveredBy(a, b) ==
  CASE a.kind \in {"FsRead", "FsWrite"} ->
         /\ b.kind \in {a.kind, "FsWrite"}
         /\ PathsWithin(a.scope, b.scope)
    [] a.kind = "Exec" -> b.kind = "Exec" /\ a.scope \subseteq b.scope
    [] a.kind = "Spend" -> b.kind = "Spend" /\ a.scope <= b.scope
    [] a.kind = "Mcp" ->
         /\ b.kind = "Mcp"
         /\ a.scope.server = b.scope.server
         /\ ToolsWithin(a.scope.tools, b.scope.tools)
    [] OTHER -> b.kind = a.kind /\ b.scope = a.scope

Permits(grants, wanted) == \E g \in grants : IsCoveredBy(wanted, g)
IsSubsetOf(grants, other) == \A g \in grants : Permits(other, g)

ConfidentialKinds == {"FsRead", "Secret", "Mcp"}
MutatingKinds == {"FsWrite", "NetEgress", "Exec", "Spend", "Delegate"}

Powers ==
  [untrustedInput : BOOLEAN, confidentialAccess : BOOLEAN, mutatingEgress : BOOLEAN]

FromGrants(grants) ==
  [untrustedInput     |-> FALSE,
   confidentialAccess |-> \E g \in grants : g.kind \in ConfidentialKinds,
   mutatingEgress     |-> \E g \in grants : g.kind \in MutatingKinds]
ObservedUntrustedInput(powers) == [powers EXCEPT !.untrustedInput = TRUE]
AllThree(powers) ==
  powers.untrustedInput /\ powers.confidentialAccess /\ powers.mutatingEgress
================================================================================
