------------------------------- MODULE Segments -------------------------------
(***************************************************************************)
(* A rendered prompt as the budgeter and the cache planner see it          *)
(* (frey-core/src/segment.rs).  A prompt is a function from segment ids to *)
(* segments and prompt order is the order of the ids, which is how         *)
(* build_segments numbers them.  A segment is a record                     *)
(*   [kind, stability, hash, tokens]                                       *)
(* whose hash stands for the content: two segments hash alike exactly when *)
(* they say the same thing.                                                *)
(***************************************************************************)
EXTENDS Naturals, Functions

SegmentKind == {"Tools", "System", "SkillIndex", "History", "Discovered"}
Stability == {"Static", "Slow", "Volatile"}

IsCacheable(stability) == stability \in {"Static", "Slow"}

Tokens(prompt) == SumFunction([i \in DOMAIN prompt |-> prompt[i].tokens])

Without(prompt, ids) == Restrict(prompt, DOMAIN prompt \ ids)

\* The prompt up to and including segment i.
UpTo(prompt, i) == Restrict(prompt, {j \in DOMAIN prompt : j <= i})

\* ttls_are_correctly_ordered: no long-lived cache entry after a short-lived one.
TtlsAreCorrectlyOrdered(marks) ==
  \A m, n \in marks : m.at < n.at /\ n.ttl = "Long" => m.ttl = "Long"

OfKind(prompt, kind) == {i \in DOMAIN prompt : prompt[i].kind = kind}
================================================================================
