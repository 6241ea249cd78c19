------------------------------ MODULE MCAgentRun ------------------------------
(***************************************************************************)
(* Values for the constants of AgentRun, one group per question.           *)
(***************************************************************************)
EXTENDS AgentRun

\* Dispatch: three calls that between them meet every verdict.  "spend" is listed
\* but needs a capability, and its arguments are wrong as well, so the order of
\* the policy and the schema shows; with the empty catalog no tool exists.
DispatchCatalogs == {{}, {"read", "spend"}}
DispatchRequests == {[tool |-> "read", valid |-> TRUE],
                     [tool |-> "read", valid |-> FALSE],
                     [tool |-> "spend", valid |-> FALSE]}
NeedsCapability == {"spend"}

\* Context: long conversations of one call per answer, with heavy and light turns,
\* with and without a tool block in front of them.
ContextCatalogs == {{}, {"read"}}
ContextRequests == {[tool |-> "read", valid |-> TRUE]}

\* Ledger: two currencies, and calls that report nothing.
LedgerCatalogs == {{"read"}}
LedgerCosts == {NoCost, [currency |-> "USD", amount |-> 1],
                [currency |-> "EUR", amount |-> 4]}
Free == {NoCost}

\* A window of 20 tokens of which an answer may take 4, and one in which all fits.
SmallCeiling == PromptCeiling(ContextBudget(20, 4))
LargeCeiling == PromptCeiling(ContextBudget(153, 38))
Recent == DefaultFloors.recentHistory

Opus == [kind |-> "Explicit", breakpoints |-> 2, longTtl |-> TRUE, minPrefix |-> 2]
Router == [kind |-> "Automatic", breakpoints |-> 0, longTtl |-> FALSE, minPrefix |-> 2]
================================================================================
