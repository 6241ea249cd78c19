-------------------------------- MODULE Budget --------------------------------
(***************************************************************************)
(* Fitting a prompt into the window (frey-context/src/budget.rs).  Pure:   *)
(* Fit is one operator on prompts, and its result says what was kept, what *)
(* went, and whether the rest fits.                                        *)
(***************************************************************************)
EXTENDS Segments, FiniteSets

\* Floors::default: the most recent history is never given up.
DefaultFloors == [recentHistory |-> 4]

\* ContextBudget::from_capabilities: the answer gets its share of the window, and so
\* does what arrives during a turn.
ContextBudget(maxContext, maxOutput) ==
  [window          |-> maxContext,
   reserveOutput   |-> IF maxOutput < maxContext \div 4 THEN maxOutput ELSE maxContext \div 4,
   reserveHeadroom |-> maxContext \div 10,
   floors          |-> DefaultFloors]

\* What is left for the prompt; the subtraction saturates.
PromptCeiling(budget) ==
  LET reserved == budget.reserveOutput + budget.reserveHeadroom
  IN  IF budget.window > reserved THEN budget.window - reserved ELSE 0

\* The eligible segments that go, first to last, while the total is over the
\* ceiling: a segment goes when the prompt without the earlier victims is still
\* too long.
EvictWhile(prompt, eligible, ceiling) ==
  {v \in eligible :
     Tokens(Without(prompt, {e \in eligible : e < v})) > ceiling}

\* Fault: the floor protects one segment too few.
AboveLowFloor(prompt, recentHistory) ==
  LET history == OfKind(prompt, "History")
  IN  {h \in history : Cardinality({g \in history : g > h}) + 1 >= recentHistory}

\* History above the floor: every history segment with at least recentHistory
\* newer ones.
AboveFloor(prompt, recentHistory) ==
  LET history == OfKind(prompt, "History")
  IN  {h \in history : Cardinality({g \in history : g > h}) >= recentHistory}

\* Discovered definitions first, then the oldest history above the floor.
Evict(prompt, ceiling, recentHistory) ==
  LET stale == EvictWhile(prompt, OfKind(prompt, "Discovered"), ceiling)
      rest  == Without(prompt, stale)
      old   == EvictWhile(rest, AboveFloor(rest, recentHistory), ceiling)
  IN  stale \cup old

\* Nothing goes from a prompt that fits; when what is left is all protected and
\* still too long, the prompt is refused rather than truncated.
Fit(prompt, ceiling, recentHistory) ==
  IF Tokens(prompt) <= ceiling
  THEN [keep |-> prompt, evicted |-> {}, fits |-> TRUE]
  ELSE LET gone == Evict(prompt, ceiling, recentHistory)
           keep == Without(prompt, gone)
       IN  [keep |-> keep, evicted |-> gone, fits |-> Tokens(keep) <= ceiling]

\* Eviction is never silent: one warning names everything that went.
PressureWarnings(plan) ==
  IF plan.evicted = {} THEN {}
  ELSE {[kind |-> "BudgetPressure", evicted |-> plan.evicted]}
================================================================================
