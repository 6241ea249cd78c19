------------------------------ MODULE MCReplayRun -----------------------------
(***************************************************************************)
(* Values for the constants of ReplayRun: one tool, which may be listed or *)
(* not in either run, and two prompts of one shape.                        *)
(***************************************************************************)
EXTENDS ReplayRun

ReplayCatalogs == {{}, {"read"}}
ReplayRequests == {[tool |-> "read", valid |-> TRUE]}
Free == {NoCost}

\* A window of 10 tokens, in which a long task does not fit, and one in which all does.
SmallCeiling == PromptCeiling(ContextBudget(10, 2))
LargeCeiling == PromptCeiling(ContextBudget(153, 38))
Recent == DefaultFloors.recentHistory
NoCache == [kind |-> "None", breakpoints |-> 0, longTtl |-> FALSE, minPrefix |-> 0]
================================================================================
