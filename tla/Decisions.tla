-------------------------------- MODULE Decisions ------------------------------
(***************************************************************************)
(* The pure decisions of the framework, asked one question at a time over  *)
(* bounded inputs: those of Admission, those of Lookup, and what becomes   *)
(* of a cache plan on the way to a provider.                               *)
(***************************************************************************)
EXTENDS Lookup, Survey

CONSTANT Sizes   \* tokens of a tool block or a system prompt
--------------------------------------------------------------------------------
SendFirst(d, model, tools, toolTokens, systemTokens) ==
  LET prompt == FirstPrompt(tools, toolTokens, systemTokens)
      cache == CapabilitiesOf(d, model).cache
      plan == Planner!Plan(prompt, <<>>, cache)
      stable == Planner!LeadingStable(<<>>, prompt)
  IN  asked' = [about |-> "provider", dialect |-> d, model |-> model, tools |-> tools,
                plan |-> plan, measured |-> Measure(d, model),
                advice |-> CheckCacheability(Planner!Tokens(Planner!Restrict(prompt, stable)), cache),
                realised |-> RealisedCount(EncoderFor(d, model), tools,
                                           SubSeq(Representative, 1, 2),
                                           {mark.at : mark \in plan.marks})]

Diagnose(os) == asked' = [about |-> "host", os |-> os, report |-> Doctor(os)]

DecisionsNext ==
  \/ AdmissionNext
  \/ LookupNext
  \/ /\ asked = Nothing
     /\ \/ \E d \in Surveyed \cup {"chat"}, model \in Models,
              tools \in {"none", "eager", "deferred"}, toolTokens \in Sizes,
              systemTokens \in Sizes : SendFirst(d, model, tools, toolTokens, systemTokens)
        \/ \E os \in {"linux", "macos", "windows"} : Diagnose(os)

DecisionsSpec == DecisionsInit /\ [][DecisionsNext]_decisionsVars
--------------------------------------------------------------------------------
\* "A dialect that is handed marks must emit them", "the failure this catches is invisible
\* from the provider's side": what the planner places for the capabilities an adapter
\* claims comes out of that adapter, all but the mark of a tool block that cannot carry
\* one; what the doctor says of a prefix is what the planner makes of it; its survey
\* finds every adapter honest; the profiles that are printed are what the adapters claim;
\* and it says nothing of a host that a host of that kind might not do.
ProfileOf(d, model) ==
  CASE d = "anthropic" /\ model.name = "opus-5" -> "opus5"
    [] d = "anthropic" /\ model.name = "sonnet-5" -> "sonnet5"
    [] d = "anthropic" /\ model.name = "haiku-4-5" -> "haiku45"
    [] d = "openai" -> "openai"
    [] d = "openrouter+explicit" /\ model.maker = "anthropic" -> "openrouter_explicit"
    [] d \in {"openrouter", "openrouter+explicit"} -> "openrouter_automatic"
    [] d = "chat" -> "no_cache"
    [] OTHER -> "unlisted"
AcceptedMarksReachTheWire ==
  /\ asked.about = "provider" =>
       LET caps    == CapabilitiesOf(asked.dialect, asked.model)
           lost    == {mark \in asked.plan.marks :
                         asked.tools # "none" /\ mark.at = 0
                         /\ (asked.dialect # "anthropic" \/ asked.tools = "deferred")}
           profile == ProfileOf(asked.dialect, asked.model)
       IN  /\ asked.realised = Cardinality(asked.plan.marks \ lost)
           /\ asked.advice = "Warn" <=> Planner!BelowMinPrefix \in asked.plan.warnings
           /\ caps.cache.kind = "Explicit" /\ asked.advice = "Info" => asked.plan.marks # {}
           /\ IsHonest(asked.measured) /\ asked.measured.realised <= asked.measured.planned
           /\ profile # "unlisted" => caps = Profiles[profile]
  /\ asked.about = "host" =>
       /\ Healthy(asked.report.findings)
       /\ \A host \in Hosts : host.os = asked.os =>
            asked.report.controls \subseteq AvailabilityOf(host).controls
================================================================================
