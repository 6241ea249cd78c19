--------------------------------- MODULE Survey --------------------------------
(***************************************************************************)
(* What a provider is said to do and what comes of a plan made for it: the *)
(* capabilities each adapter gives (frey-providers/src/anthropic.rs,       *)
(* openai.rs, openrouter.rs, dialect.rs) and the profiles that are printed *)
(* (frey-context/src/profiles.rs), the survey that counts the breakpoints  *)
(* on the wire (frey-providers/src/marks.rs), and the checks of the doctor *)
(* (frey-harness/src/doctor.rs) as the command asks for them (frey-cli/    *)
(* src/commands.rs).                                                       *)
(*                                                                         *)
(* Planning is CachePlan's and encoding is Wire's; both are asked about    *)
(* the same request.  A provider's limits are left out, as are the parts   *)
(* of its capabilities that no code of the repository looks at.            *)
(***************************************************************************)
EXTENDS Sandbox, FiniteSets

Planner == INSTANCE CachePlan
Encoder(d, tools, conversation) ==
  INSTANCE Wire WITH dialect <- d, toolBlock <- tools, turns <- conversation, sent <- {},
                     stopped <- {}, Replies <- <<>>, Words <- {}, NoCarry <- "none", MaxTurns <- 0

Explicit(minPrefix) ==
  [kind |-> "Explicit", breakpoints |-> 4, longTtl |-> TRUE, minPrefix |-> minPrefix]
Automatic(minPrefix) ==
  [kind |-> "Automatic", breakpoints |-> 0, longTtl |-> FALSE, minPrefix |-> minPrefix]
NoCache == [kind |-> "None", breakpoints |-> 0, longTtl |-> FALSE, minPrefix |-> 0]

Offering(cache, search, reasoning, strict, reportsCost) ==
  [cache |-> cache, search |-> search, reasoning |-> reasoning, strict |-> strict,
   reportsCost |-> reportsCost]
Minimal == Offering(NoCache, "None", "None", "None", FALSE)

\* profiles::all
AnthropicBase(minPrefix) == Offering(Explicit(minPrefix), "Native", "Plain", "Always", FALSE)
OpenRouterWith(cache) == Offering(cache, "None", "Plain", "None", TRUE)
Profiles ==
  [opus5 |-> AnthropicBase(512),
   sonnet5 |-> AnthropicBase(1024),
   haiku45 |-> AnthropicBase(4096),
   openai |-> Offering(Automatic(1024), "Native", "Encrypted", "Attempted", FALSE),
   openrouter_automatic |-> OpenRouterWith(Automatic(1024)),
   openrouter_explicit |-> OpenRouterWith(Explicit(1024)),
   no_cache |-> Minimal]
--------------------------------------------------------------------------------
\* A model is who makes it and what it is called.
Models == [maker : {"anthropic", "other"},
           name : {"opus-5", "sonnet-5", "haiku-4-5", "opus-4-7", "unheard-of"}]

\* min_prefix_for
MinPrefixFor(name) ==
  CASE name = "opus-5" -> 512
    [] name = "haiku-4-5" -> 4096
    [] name = "opus-4-7" -> 2048
    [] OTHER -> 1024

\* Fault: the automatic cache is said to take a breakpoint.
ResponsesSwitchable ==
  Offering([Automatic(1024) EXCEPT !.kind = "Switchable"], "Native", "Encrypted",
           "Attempted", FALSE)
ResponsesCapabilities == Offering(Automatic(1024), "Native", "Encrypted", "Attempted", FALSE)

\* upstream_takes_breakpoints, for a router that was made with explicit caching.
UpstreamTakesBreakpoints(model) == model.maker = "anthropic"

\* Dialect::capabilities of each adapter.
MessagesCapabilities(model) ==
  Offering(Explicit(MinPrefixFor(model.name)), "Native", "Plain", "Always", FALSE)
RouterCapabilities(explicitCache, model) ==
  OpenRouterWith(IF explicitCache /\ UpstreamTakesBreakpoints(model)
                 THEN Explicit(1024) ELSE Automatic(1024))
\* A service that copies Chat Completions does what its configuration says it does, and
\* nothing where that says nothing.
EffectiveCapabilities(configured) ==
  IF configured = {} THEN Minimal ELSE CHOOSE c \in configured : TRUE

CapabilitiesOf(d, model) ==
  CASE d = "anthropic" -> MessagesCapabilities(model)
    [] d = "openai" -> ResponsesCapabilities
    [] d = "chat" -> EffectiveCapabilities({})
    [] OTHER -> RouterCapabilities(d = "openrouter+explicit", model)

\* The encoder that is at work: breakpoints are an option of the router that other
\* upstreams and services do not have.
EncoderFor(d, model) ==
  CASE d = "chat" -> "openrouter"
    [] d = "openrouter+explicit" /\ ~UpstreamTakesBreakpoints(model) -> "openrouter"
    [] OTHER -> d
--------------------------------------------------------------------------------
\* representative: a system prompt, a question and a call, behind a tool that is loaded.
Says(role, kind) ==
  [role |-> role, said |-> {}, items |-> <<[kind |-> kind, id |-> "c1", data |-> "words",
                                             carry |-> "none"]>>]
Representative ==
  <<Says("system", "Text"), Says("user", "Text"), Says("assistant", "ToolCall")>>

\* How many breakpoints a set of marks becomes: count_cache_control.
RealisedCount(d, tools, conversation, marks) ==
  LET shape == Encoder(d, tools, conversation)!Shape(d)
      places == Encoder(d, tools, conversation)!Places(shape, conversation)
  IN  Cardinality(Encoder(d, tools, conversation)!Realised(d, places, marks))
        + (IF Encoder(d, tools, conversation)!ToolsMarked(d, marks) THEN 1 ELSE 0)

\* measure: the four marks of the request, as many as the budget allows.
Measure(d, model) ==
  LET cache == CapabilitiesOf(d, model).cache
      budget == Planner!BreakpointBudget(cache)
      marks == {segment \in 0 .. 3 : segment < budget}
  IN  [budget |-> budget, planned |-> Cardinality(marks),
       realised |-> RealisedCount(EncoderFor(d, model), "eager", Representative, marks),
       automatic |-> cache.kind \in {"Automatic", "Switchable"}]

\* survey
Surveyed == {"anthropic", "openai", "openrouter", "openrouter+explicit"}
Survey == {Measure(d, [maker |-> "anthropic", name |-> "opus-5"]) : d \in Surveyed}
IsHonest(measured) == measured.planned = 0 \/ measured.realised > 0
--------------------------------------------------------------------------------
CheckCacheability(prefixTokens, cache) ==
  CASE cache.kind = "None" -> "Info"
    [] cache.kind # "None" /\ prefixTokens < cache.minPrefix -> "Warn"
    [] OTHER -> "Info"

CheckCacheMarks(measured) ==
  CASE measured.budget > 0 /\ measured.realised = 0 -> "Error"
    [] measured.budget = 0 /\ ~measured.automatic -> "Warn"
    [] OTHER -> "Info"

CheckCostReporting(offering) == IF offering.reportsCost THEN "Info" ELSE "Warn"
CheckSandbox(availability) == IF availability.usable THEN "Info" ELSE "Error"

\* commands::doctor takes the least a host of its kind may have.
DoctorsHost(os) ==
  CASE os = "linux" -> [os |-> "linux", abi |-> 0, lsm |-> FALSE]
    [] os = "macos" -> [os |-> "macos"]
    [] OTHER -> [os |-> "windows", elevated |-> FALSE]
Doctor(os) ==
  LET availability == AvailabilityOf(DoctorsHost(os))
  IN  [controls |-> availability.controls,
       findings |-> {CheckSandbox(availability), CheckCostReporting(Profiles.opus5)}
                    \cup {CheckCacheMarks(measured) : measured \in Survey}]
\* Report::is_healthy
Healthy(findings) == "Error" \notin findings

\* The first request of a conversation, as build_segments cuts it up: the tools, if there
\* are any, the system prompt and what the user says.
FirstPrompt(tools, toolTokens, systemTokens) ==
  LET segment(kind, stability, tokens) ==
        [kind |-> kind, stability |-> stability, hash |-> kind, tokens |-> tokens]
      turns == <<segment("System", "Static", systemTokens), segment("History", "Volatile", 1)>>
  IN  IF tools = "none" THEN [i \in 0 .. 1 |-> turns[i + 1]]
      ELSE [i \in 0 .. 2 |-> IF i = 0 THEN segment("Tools", "Static", toolTokens)
                             ELSE turns[i]]
================================================================================
