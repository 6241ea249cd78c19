------------------------------- MODULE CachePlan ------------------------------
(***************************************************************************)
(* The cache planner (frey-context/src/cache.rs): given a prompt, last     *)
(* turn's hashes and what the provider can do, where the breakpoints go.   *)
(* The provider's capability is a record                                   *)
(*   [kind, breakpoints, longTtl, minPrefix]                               *)
(* with kind "Explicit", "Automatic" (marks refused), "Switchable"         *)
(* (automatic, explicit marks available) or "None"                         *)
(* (frey-core/src/provider_caps.rs).                                       *)
(***************************************************************************)
EXTENDS Segments, FiniteSets

BreakpointBudget(caps) ==
  CASE caps.kind = "Explicit"   -> caps.breakpoints
    [] caps.kind = "Switchable" -> 1
    [] OTHER                    -> 0

SupportsLong(caps) == caps.kind = "Explicit" /\ caps.longTtl

FromSegments(prompt) == [i \in DOMAIN prompt |-> prompt[i].hash]

\* A segment absent last turn is new, not churn.
Changed(previous, prompt, i) ==
  i \in DOMAIN previous /\ previous[i] # prompt[i].hash

Churned(previous, prompt) ==
  {i \in DOMAIN prompt :
     IsCacheable(prompt[i].stability) /\ Changed(previous, prompt, i)}

\* Effective stability: a churned segment is treated as volatile.
Stable(previous, prompt) ==
  {i \in DOMAIN prompt : IsCacheable(prompt[i].stability)}
    \ Churned(previous, prompt)

\* The last segment of each maximal run of stable segments.
StableRunEnds(previous, prompt) ==
  {i \in Stable(previous, prompt) :
     \A j \in Stable(previous, prompt) :
        j > i => \E k \in DOMAIN prompt : i < k /\ k < j}

\* The longest prefix an automatic cache could reuse.
LeadingStable(previous, prompt) ==
  {i \in DOMAIN prompt :
     \A j \in DOMAIN prompt : j <= i => j \in Stable(previous, prompt)}

Cumulative(prompt, i) == Tokens(UpTo(prompt, i))

\* The n ids that cover the most tokens; among equals the earlier one wins.
Covering(prompt, ids, n) ==
  {i \in ids :
     Cardinality({j \in ids :
        \/ Cumulative(prompt, j) > Cumulative(prompt, i)
        \/ Cumulative(prompt, j) = Cumulative(prompt, i) /\ j < i}) < n}

\* Long lifetimes go to the leading run of marks that sit on tools or system.
EarnsLong(prompt, ids, i) ==
  \A j \in ids : j <= i => prompt[j].kind \in {"Tools", "System"}

MarksAt(prompt, ids, caps) ==
  {[at |-> i, ttl |-> IF SupportsLong(caps) /\ EarnsLong(prompt, ids, i)
                      THEN "Long" ELSE "Short"] : i \in ids}

Degraded(what) == [kind |-> "Degraded", what |-> what]
BelowMinPrefix == [kind |-> "BelowMinPrefix"]

ChurnWarnings(previous, prompt) ==
  {[kind |-> "CacheChurn", segment |-> i] : i \in Churned(previous, prompt)}

\* What an automatic cache will silently not do (the budget is zero).
AutomaticWarnings(previous, prompt, caps) ==
  LET leading == LeadingStable(previous, prompt)
      tokens  == Tokens(Restrict(prompt, leading))
  IN  CASE tokens = 0              -> {Degraded("nothing-stable")}
        [] 0 < tokens /\ tokens < caps.minPrefix -> {BelowMinPrefix}
        [] OTHER                   -> {}

\* The ids that get a mark, before the budget is applied.
Usable(previous, prompt, caps) ==
  {i \in StableRunEnds(previous, prompt) :
     Cumulative(prompt, i) >= caps.minPrefix}

PlanWarnings(previous, prompt, caps) ==
  LET usable == Usable(previous, prompt, caps)
  IN  CASE DOMAIN prompt = {} -> {}
        [] DOMAIN prompt # {} /\ caps.kind = "None" ->
             {Degraded("no-prompt-cache")}
        [] DOMAIN prompt # {} /\ caps.kind # "None" /\ BreakpointBudget(caps) = 0 ->
             ChurnWarnings(previous, prompt)
               \cup AutomaticWarnings(previous, prompt, caps)
        [] OTHER ->
             ChurnWarnings(previous, prompt) \cup
             CASE StableRunEnds(previous, prompt) = {} -> {Degraded("nothing-stable")}
               [] StableRunEnds(previous, prompt) # {} /\ usable = {} -> {BelowMinPrefix}
               [] Cardinality(usable) > BreakpointBudget(caps) ->
                    {Degraded("cache-breakpoints")}
               [] OTHER -> {}

Plan(prompt, previous, caps) ==
  LET chosen == IF BreakpointBudget(caps) = 0 THEN {}
                ELSE Covering(prompt, Usable(previous, prompt, caps),
                              BreakpointBudget(caps))
  IN  [marks     |-> MarksAt(prompt, chosen, caps),
       warnings  |-> PlanWarnings(previous, prompt, caps),
       cached    |-> IF chosen = {} THEN 0
                     ELSE Cumulative(prompt, CHOOSE i \in chosen :
                                               \A j \in chosen : j <= i),
       automatic |-> caps.kind \in {"Automatic", "Switchable"}]

\* check_lookback: an entry that is this far back is no longer found, with no error
\* anywhere.
CheckLookback(blocksAdded, limit) ==
  IF blocksAdded <= limit THEN {}
  ELSE {[kind |-> "LookbackExceeded", blocks |-> blocksAdded]}
================================================================================
