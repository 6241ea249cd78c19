------------------------------- MODULE ToolLayers ------------------------------
(***************************************************************************)
(* The catalog of tools and the layers a call passes before a tool runs:   *)
(* what a tool declares (frey-core/src/tool_def.rs), how the attribute on  *)
(* it is expanded and read (frey-macros, frey-tools/src/lib.rs), the       *)
(* registry that gives every name to one tool (registry.rs), the policy    *)
(* and approval layers (layer.rs), and the bindings of a script            *)
(* (frey-context/src/codemode.rs).                                         *)
(*                                                                         *)
(* A tool name is its segments, "fs_read" being <<"fs", "read">>, so that  *)
(* a prefix is one segment more.  A capability is written as it is or not  *)
(* in a form the parser knows.  "prompts", "shown" and "executed" are the *)
(* frontend and two histories: what a human is looking at, what they       *)
(* approved, and what ran.                                                 *)
(***************************************************************************)
EXTENDS Naturals, Capabilities

CONSTANTS
  Sources,    \* where definitions come from
  Namespaces,   \* of sources whose tools are namespaced when they are registered
  Attributes, \* tools as their authors wrote them
  GrantSets,  \* what a session may have been granted
  MaxTools    \* bound: entries in the registry

VARIABLES
  registered, \* ToolRegistry::entries
  approval,   \* ApprovalPolicy
  held,       \* ToolCx::grants
  approved,   \* the names approved for the session
  prompts, shown, executed

layersVars == <<registered, approval, held, approved, prompts, shown, executed>>
--------------------------------------------------------------------------------
Risks == <<"Low", "Medium", "High">>
AtLeast(risk, threshold) ==
  \E i, j \in DOMAIN Risks : Risks[i] = risk /\ Risks[j] = threshold /\ j <= i

\* The options of #[tool(..)], in order, each with a word or a list of capabilities.
WordOptions == {"description", "cost_hint", "caller", "presentation"}
Option(key, value) == [key |-> key, value |-> value]

\* parse_options: the last word of a key counts, and every list.
CapabilitiesIn(options) == UNION {o.value : o \in {p \in Range(options) : p.key = "capabilities"}}
WordOf(options, key, default) ==
  LET last == SelectLastInSeq(options, LAMBDA o : o.key = key)
  IN  IF last = 0 THEN default ELSE options[last].value

\* expand: an option it does not know, or a tool that says nothing of itself, does not
\* compile.
Compiles(attribute) ==
  /\ \A o \in Range(attribute.options) : o.key \in WordOptions \cup {"capabilities"}
  /\ attribute.documented \/ WordOf(attribute.options, "description", "") # ""
Expand(attribute) ==
  LET options == attribute.options IN
  [name |-> attribute.name, capabilities |-> CapabilitiesIn(options),
   cost |-> WordOf(options, "cost_hint", "cheap"),
   caller |-> WordOf(options, "caller", "direct"),
   presentation |-> WordOf(options, "presentation", "deferred")]

\* build_definition and parse_capability: a word it does not know is the default, and
\* a capability it cannot parse is dropped.
OrDefault(word, known, default) == IF word \in known THEN word ELSE default
BuildDefinition(written) ==
  [name         |-> written.name,
   capabilities |-> written.capabilities \cap Capability,
   cost         |-> OrDefault(written.cost, {"pure", "expensive", "destructive"}, "cheap"),
   caller       |-> OrDefault(written.caller, {"code", "both"}, "direct"),
   presentation |-> OrDefault(written.presentation, {"always", "code_only", "hidden"},
                              "deferred")]

\* Capability::is_mutating_or_egress, ToolDefinition::needs_approval_by_default
IsMutatingOrEgress(capability) == capability.kind \in MutatingKinds
NeedsApprovalByDefault(definition) ==
  \/ definition.cost = "destructive"
  \/ \E c \in definition.capabilities : IsMutatingOrEgress(c)

\* CallerPolicy
AllowsDirect(caller) == caller \in {"direct", "both"}
AllowsCode(caller) == caller \in {"code", "both"}

LayersInit ==
  /\ registered = <<>>
  /\ approval \in {"Never", "Always"} \cup Range(Risks)
  /\ held \in GrantSets
  /\ approved = {}
  /\ prompts = {}
  /\ shown = {}
  /\ executed = {}

\* Fault: the last one registered has the name.
IsFreeAlways(name) == TRUE
\* ToolRegistry::register: a second tool of a name is refused, with DuplicateName.
IsFree(name) == name \notin DOMAIN registered

Register(source, definition) ==
  /\ Cardinality(DOMAIN registered) < MaxTools
  /\ IsFree(definition.name)
  /\ registered' = [n \in DOMAIN registered \cup {definition.name} |->
                      IF n = definition.name
                      THEN [definition |-> definition, source |-> source] ELSE registered[n]]
  /\ UNCHANGED <<approval, held, approved, prompts, shown, executed>>

RegisterPrefixed(source, prefix, definition) ==
  Register(source, [definition EXCEPT !.name = <<prefix>> \o @])
--------------------------------------------------------------------------------
\* codemode::bindings
Bindings == {n \in DOMAIN registered : AllowsCode(registered[n].definition.caller)}

\* PolicyLayer::check: the caller first, then the grants; FALSE where it denies.
PolicyAllows(definition, fromCode) ==
  /\ IF fromCode THEN AllowsCode(definition.caller) ELSE AllowsDirect(definition.caller)
  /\ \A c \in definition.capabilities : Permits(held, c)

\* risk_of
RiskOf(definition) ==
  IF definition.cost = "destructive" THEN "High"
  ELSE IF \E c \in definition.capabilities : IsMutatingOrEgress(c) THEN "Medium"
  ELSE "Low"

\* ApprovalLayer::gate: does this call wait for a human?
Gated(definition) ==
  /\ definition.name \notin approved
  /\ CASE approval = "Never" -> FALSE
       [] approval = "Always" -> TRUE
       [] OTHER -> AtLeast(RiskOf(definition), approval)

Call(name, fromCode) ==
  LET definition == registered[name].definition IN
  /\ \/ /\ ~PolicyAllows(definition, fromCode)
        /\ UNCHANGED <<prompts, executed>>
     \/ /\ PolicyAllows(definition, fromCode) /\ Gated(definition)
        /\ prompts' = prompts \cup {definition}
        /\ executed' = executed
     \/ /\ PolicyAllows(definition, fromCode) /\ ~Gated(definition)
        /\ executed' = executed \cup {[definition |-> definition, fromCode |-> fromCode]}
        /\ prompts' = prompts
  /\ UNCHANGED <<registered, approval, held, approved, shown>>

\* A human who is shown a call answers for the session: approve_for_session.
ApproveForSession(definition) ==
  /\ approved' = approved \cup {definition.name}
  /\ shown' = shown \cup {definition}
  /\ prompts' = prompts \ {definition}
  /\ UNCHANGED <<registered, approval, held, executed>>
Dismiss(definition) ==
  /\ prompts' = prompts \ {definition}
  /\ UNCHANGED <<registered, approval, held, approved, shown, executed>>

LayersNext ==
  \/ \E source \in Sources, attribute \in Attributes :
       /\ Compiles(attribute)
       /\ \/ Register(source, BuildDefinition(Expand(attribute)))
          \/ \E prefix \in Namespaces :
               RegisterPrefixed(source, prefix, BuildDefinition(Expand(attribute)))
  \/ \E name \in DOMAIN registered, fromCode \in BOOLEAN : Call(name, fromCode)
  \/ \E definition \in prompts : ApproveForSession(definition) \/ Dismiss(definition)

LayersSpec == LayersInit /\ [][LayersNext]_layersVars
--------------------------------------------------------------------------------
\* Approval is remembered by name, so it is worth what the registry's one-tool-one-name
\* rule is worth: whatever was registered and approved in whatever order, a tool that the
\* policy asks about ran only if a human was shown that very definition.  Under the
\* default policy that is every tool that needs approval by its own account, and from
\* code only a bound tool ran.
WhatRunsWasApproved ==
  \A run \in executed :
    LET definition == run.definition IN
    /\ \/ approval = "Always"
       \/ approval \in {"Low", "Medium"} /\ NeedsApprovalByDefault(definition)
       \/ approval = "High" /\ definition.cost = "destructive"
       => definition \in shown
    /\ run.fromCode => definition.name \in Bindings
    /\ \A c \in definition.capabilities : Permits(held, c)
================================================================================
