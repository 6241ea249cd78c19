----------------------------- MODULE LibraryProofs -----------------------------
(***************************************************************************)
(* Proofs about the parts of the framework that a program is built from    *)
(* and that do not call one another, for every value of their constants:   *)
(* taint (Taint), the layers around a toolset (ToolLayers), the streams of *)
(* a peer's tasks (Peers), the server of tools (Mcp), what a frontend      *)
(* shows (Frontend), what is let in (Admission), the doubles of a test     *)
(* (Doubles), who is told what of what a tool has to say (Failures), and   *)
(* how a tool is found and declared (Lookup).                              *)
(***************************************************************************)
EXTENDS Taint, ToolLayers, Peers, Mcp, Frontend, Doubles, Failures, Lookup,
        FoldProofs, SequenceTheorems, TLAPS
--------------------------------------------------------------------------------
(* No value is acted on or released without a record of what went into it, *)
(* for any sources, sinks and threads.  The invariant has to know that a   *)
(* value's provenance never loses the name of a source, because a crossing *)
(* records the provenance and not the sources.                             *)


ProvenanceIsWhole == \A v \in values : \A source \in v.sources : source.name \in Summary(v)

TaintInv == TaintTypeOK /\ ProvenanceIsWhole /\ NothingIsLaundered

\* What a new value must be for the invariant to hold of it.
Explained(v) ==
  /\ \A source \in v.sources : source.name \in Summary(v)
  /\ \A source \in v.sources :
       /\ v.integrity = "High" /\ source.integrity = "Low" => Heard("Endorsed", source.name)
       /\ v.confidentiality = "Public" /\ source.confidentiality = "Secret" =>
            Heard("Declassified", source.name)

LEMMA InScopeType ==
  ASSUME TaintTypeOK, NEW t \in Threads
  PROVE  InScope(t) \in Sinks \cup {NoSink}
BY DEF TaintTypeOK, InScope

\* Recording a crossing: the trail stays a trail, nothing heard is forgotten, and the
\* whole provenance of the value has been heard.
LEMMA RecordIsHeard ==
  ASSUME TaintTypeOK, NEW t \in Threads, NEW v \in Tainted,
         NEW kind \in {"Endorsed", "Declassified"}, Record(t, kind, v)
  PROVE  /\ trail' \in [Sinks -> SUBSET AuditEvent]
         /\ unheard' \subseteq Origins
         /\ \A k, name : Heard(k, name) => Heard(k, name)'
         /\ \A name \in Summary(v) : Heard(kind, name)'
<1> DEFINE sink == InScope(t)
           event == [kind |-> kind, origin |-> Summary(v)]
<1>1. sink \in Sinks \cup {NoSink}
  BY InScopeType
<1>2. Summary(v) \subseteq Origins
  BY DEF Summary, Tainted
<1>3. event \in AuditEvent
  BY <1>2 DEF AuditEvent
<1>4. CASE sink = NoSink
  <2>1. unheard' = unheard \cup Summary(v) /\ trail' = trail
    BY <1>4 DEF Record
  <2> QED
    BY <2>1, <1>2 DEF TaintTypeOK, Heard
<1>5. CASE sink # NoSink
  <2>1. trail' = [trail EXCEPT ![sink] = @ \cup {event}] /\ unheard' = unheard
    BY <1>5 DEF Record
  <2>2. sink \in Sinks
    BY <1>1, <1>5
  <2>3. trail \in [Sinks -> SUBSET AuditEvent]
    BY DEF TaintTypeOK
  <2>4. trail' \in [Sinks -> SUBSET AuditEvent]
    BY <2>1, <2>2, <2>3, <1>3
  <2>5. \A s \in Sinks : trail[s] \subseteq trail'[s]
    BY <2>1, <2>2, <2>3
  <2>6. event \in trail'[sink]
    BY <2>1, <2>2, <2>3
  <2>7. \A k, name : Heard(k, name) => Heard(k, name)'
    BY <2>1, <2>5 DEF Heard
  <2>8. \A name \in Summary(v) : Heard(kind, name)'
    BY <2>2, <2>6 DEF Heard
  <2> QED
    BY <2>1, <2>4, <2>7, <2>8 DEF TaintTypeOK
<1> QED
  BY <1>4, <1>5

LEMMA InvIsExplained ==
  TaintInv <=> TaintTypeOK /\ \A v \in values : Explained(v)
BY DEF TaintInv, ProvenanceIsWhole, NothingIsLaundered, Explained

\* A value that is explained may be made, whatever was recorded with it.
LEMMA MadeKeepsInv ==
  ASSUME TaintInv, NEW v \in Tainted, Made(v),
         slot' = slot, globalSink' = globalSink, guards' = guards,
         trail' \in [Sinks -> SUBSET AuditEvent], unheard' \subseteq Origins,
         \A k, name : Heard(k, name) => Heard(k, name)',
         \A source \in v.sources : source.name \in Summary(v),
         \A source \in v.sources :
           /\ v.integrity = "High" /\ source.integrity = "Low" => Heard("Endorsed", source.name)'
           /\ v.confidentiality = "Public" /\ source.confidentiality = "Secret" =>
                Heard("Declassified", source.name)'
  PROVE  TaintInv'
<1>1. values' = values \cup {v}
  BY DEF Made
<1>2. TaintTypeOK'
  BY <1>1 DEF TaintInv, TaintTypeOK
<1>3. ProvenanceIsWhole'
  BY <1>1 DEF TaintInv, ProvenanceIsWhole, Summary
<1>4. NothingIsLaundered'
  BY <1>1 DEF TaintInv, NothingIsLaundered
<1> QED
  BY <1>2, <1>3, <1>4 DEF TaintInv

\* The same where nothing is recorded.
LEMMA QuietlyMadeKeepsInv ==
  ASSUME TaintInv, NEW v \in Tainted, QuietlyMade(v), Explained(v)
  PROVE  TaintInv'
<1>1. Made(v) /\ UNCHANGED <<slot, globalSink, guards, trail, unheard>>
  BY DEF QuietlyMade
<1>2. \A k, name : Heard(k, name)' <=> Heard(k, name)
  BY <1>1 DEF Heard
<1>3. trail' \in [Sinks -> SUBSET AuditEvent] /\ unheard' \subseteq Origins
  BY <1>1 DEF TaintInv, TaintTypeOK
<1> QED
  BY <1>1, <1>2, <1>3, MadeKeepsInv DEF Explained

LEMMA FreshIsExplained ==
  ASSUME NEW name \in Origins, NEW i \in Integrity, NEW c \in Confidentiality
  PROVE  Fresh(name, i, c) \in Tainted /\ Explained(Fresh(name, i, c))
BY DEF Fresh, Tainted, Source, Explained, Summary, Integrity, Confidentiality

LEMMA ZippedIsExplained ==
  ASSUME NEW a \in Tainted, NEW b \in Tainted, Explained(a), Explained(b)
  PROVE  Zipped(a, b) \in Tainted /\ Explained(Zipped(a, b))
<1>1. Zipped(a, b) \in Tainted
  BY DEF Zipped, Tainted, MergedVia, Meet, Join, Integrity, Confidentiality
<1>2. Summary(Zipped(a, b)) = Summary(a) \cup Summary(b)
  BY DEF Zipped, Summary, MergedVia
<1>3. \A source \in Zipped(a, b).sources : source \in a.sources \/ source \in b.sources
  BY DEF Zipped
<1>4. /\ Zipped(a, b).integrity = "High" => a.integrity = "High" /\ b.integrity = "High"
      /\ Zipped(a, b).confidentiality = "Public" =>
           a.confidentiality = "Public" /\ b.confidentiality = "Public"
  BY DEF Zipped, Meet, Join
<1> QED
  BY <1>1, <1>2, <1>3, <1>4 DEF Explained

LEMMA ThroughIsExplained ==
  ASSUME NEW v \in Tainted, NEW stage \in Origins, Explained(v)
  PROVE  /\ [v EXCEPT !.via = @ \cup {stage}] \in Tainted
         /\ Explained([v EXCEPT !.via = @ \cup {stage}])
BY DEF Explained, Tainted, Summary

LEMMA DowngradedIsExplained ==
  ASSUME NEW v \in Tainted, NEW i \in Integrity, NEW c \in Confidentiality, Explained(v),
         Meet(v.integrity, i) = i, Join(v.confidentiality, c) = c
  PROVE  /\ [v EXCEPT !.integrity = i, !.confidentiality = c] \in Tainted
         /\ Explained([v EXCEPT !.integrity = i, !.confidentiality = c])
BY DEF Explained, Tainted, Summary, Meet, Join, Integrity, Confidentiality
--------------------------------------------------------------------------------
LEMMA TaintInitInv == TaintInit => TaintInv
BY DEF TaintInit, TaintInv, TaintTypeOK, ProvenanceIsWhole, NothingIsLaundered

\* One step per way of making a value; the other actions move sinks.
LEMMA TaintStep == TaintInv /\ [TaintNext]_taintVars => TaintInv'
<1> SUFFICES ASSUME TaintInv, [TaintNext]_taintVars PROVE TaintInv'
  OBVIOUS
<1> USE DEF Origins
<1>a. TaintTypeOK /\ \A v \in values : v \in Tainted /\ Explained(v)
  BY InvIsExplained DEF TaintTypeOK
<1>s. ASSUME values' = values, trail' = trail, unheard' = unheard, TaintTypeOK'
      PROVE  TaintInv'
  <2>1. \A v \in values : Explained(v) => Explained(v)'
    BY <1>s DEF Explained, Heard, Summary
  <2>2. ProvenanceIsWhole' /\ NothingIsLaundered'
    BY <1>s, <2>1, <1>a DEF TaintInv, ProvenanceIsWhole, NothingIsLaundered, Explained, Summary
  <2> QED
    BY <1>s, <2>2 DEF TaintInv
<1>1. ASSUME NEW name \in Outside, FromOutside(name) PROVE TaintInv'
  BY <1>1, FreshIsExplained, QuietlyMadeKeepsInv DEF FromOutside, Integrity, Confidentiality
<1>2. ASSUME NEW name \in Operators, FromOperator(name) PROVE TaintInv'
  BY <1>2, FreshIsExplained, QuietlyMadeKeepsInv DEF FromOperator, Integrity, Confidentiality
<1>3. ASSUME NEW name \in Vaults, NEW i \in Integrity, FromVault(name, i) PROVE TaintInv'
  BY <1>3, FreshIsExplained, QuietlyMadeKeepsInv DEF FromVault, Integrity, Confidentiality
<1>4. ASSUME NEW x \in values, NEW y \in values, Combine(x, y) PROVE TaintInv'
  BY <1>4, <1>a, ZippedIsExplained, QuietlyMadeKeepsInv DEF Combine
<1>5. ASSUME NEW v \in values, NEW stage \in Outside, Through(v, stage) PROVE TaintInv'
  BY <1>5, <1>a, ThroughIsExplained, QuietlyMadeKeepsInv DEF Through
<1>6. ASSUME NEW v \in values, NEW i \in Integrity, NEW c \in Confidentiality,
             Downgrade(v, i, c)
      PROVE  TaintInv'
  BY <1>6, <1>a, DowngradedIsExplained, QuietlyMadeKeepsInv DEF Downgrade
<1>7. ASSUME NEW v \in values, NEW t \in Threads, Endorse(t, v) PROVE TaintInv'
  <2> DEFINE w == [v EXCEPT !.integrity = "High"]
  <2>1. w \in Tainted /\ w.sources = v.sources /\ w.confidentiality = v.confidentiality
        /\ Summary(w) = Summary(v)
    BY <1>a DEF Tainted, Integrity, Summary
  <2>2. Made(w) /\ Record(t, "Endorsed", v) /\ UNCHANGED <<slot, globalSink, guards>>
    BY <1>7 DEF Endorse
  <2>3. /\ trail' \in [Sinks -> SUBSET AuditEvent] /\ unheard' \subseteq Origins
        /\ \A k, name : Heard(k, name) => Heard(k, name)'
        /\ \A name \in Summary(v) : Heard("Endorsed", name)'
    BY <2>2, <1>a, RecordIsHeard
  <2>4. \A source \in w.sources :
          /\ w.integrity = "High" /\ source.integrity = "Low" => Heard("Endorsed", source.name)'
          /\ w.confidentiality = "Public" /\ source.confidentiality = "Secret" =>
               Heard("Declassified", source.name)'
    BY <2>1, <2>3, <1>a DEF Explained
  <2> HIDE DEF w
  <2> QED
    BY <2>1, <2>2, <2>3, <2>4, <1>a, MadeKeepsInv DEF Explained
<1>8. ASSUME NEW v \in values, NEW t \in Threads, Declassify(t, v) PROVE TaintInv'
  <2> DEFINE w == [v EXCEPT !.confidentiality = "Public"]
  <2>1. w \in Tainted /\ w.sources = v.sources /\ w.integrity = v.integrity
        /\ Summary(w) = Summary(v)
    BY <1>a DEF Tainted, Confidentiality, Summary
  <2>2. Made(w) /\ Record(t, "Declassified", v) /\ UNCHANGED <<slot, globalSink, guards>>
    BY <1>8 DEF Declassify
  <2>3. /\ trail' \in [Sinks -> SUBSET AuditEvent] /\ unheard' \subseteq Origins
        /\ \A k, name : Heard(k, name) => Heard(k, name)'
        /\ \A name \in Summary(v) : Heard("Declassified", name)'
    BY <2>2, <1>a, RecordIsHeard
  <2>4. \A source \in w.sources :
          /\ w.integrity = "High" /\ source.integrity = "Low" => Heard("Endorsed", source.name)'
          /\ w.confidentiality = "Public" /\ source.confidentiality = "Secret" =>
               Heard("Declassified", source.name)'
    BY <2>1, <2>3, <1>a DEF Explained
  <2> HIDE DEF w
  <2> QED
    BY <2>1, <2>2, <2>3, <2>4, <1>a, MadeKeepsInv DEF Explained
<1>9. ASSUME NEW v \in values, NEW t \in Threads, NEW validator \in Validators,
             Validate(t, v, validator)
      PROVE  TaintInv'
  <2> DEFINE w == [v EXCEPT !.integrity = "High", !.via = @ \cup {validator}]
  <2>1. w \in Tainted /\ w.sources = v.sources /\ w.confidentiality = v.confidentiality
        /\ Summary(v) \subseteq Summary(w)
    BY <1>a DEF Tainted, Integrity, Summary
  <2>2. Made(w) /\ Record(t, "Endorsed", v) /\ UNCHANGED <<slot, globalSink, guards>>
    BY <1>9 DEF Validate
  <2>3. /\ trail' \in [Sinks -> SUBSET AuditEvent] /\ unheard' \subseteq Origins
        /\ \A k, name : Heard(k, name) => Heard(k, name)'
        /\ \A name \in Summary(v) : Heard("Endorsed", name)'
    BY <2>2, <1>a, RecordIsHeard
  <2>4. \A source \in w.sources :
          /\ w.integrity = "High" /\ source.integrity = "Low" => Heard("Endorsed", source.name)'
          /\ w.confidentiality = "Public" /\ source.confidentiality = "Secret" =>
               Heard("Declassified", source.name)'
    BY <2>1, <2>3, <1>a DEF Explained
  <2> HIDE DEF w
  <2> QED
    BY <2>1, <2>2, <2>3, <2>4, <1>a, MadeKeepsInv DEF Explained
<1>10. ASSUME NEW k \in Sinks, SetGlobalSink(k) PROVE TaintInv'
  BY <1>10, <1>s, <1>a DEF SetGlobalSink, TaintTypeOK
<1>11. ASSUME NEW k \in Sinks, NEW t \in Threads, ScopedSink(t, k) PROVE TaintInv'
  BY <1>11, <1>s, <1>a DEF ScopedSink, TaintTypeOK
<1>12. ASSUME NEW t \in Threads, NEW guard \in guards, DropGuard(t, guard) PROVE TaintInv'
  BY <1>12, <1>s, <1>a DEF DropGuard, TaintTypeOK
<1>13. CASE UNCHANGED taintVars
  BY <1>13, <1>s, <1>a DEF taintVars, TaintTypeOK
<1> QED
  BY <1>1, <1>2, <1>3, <1>4, <1>5, <1>6, <1>7, <1>8, <1>9, <1>10, <1>11, <1>12, <1>13
  DEF TaintNext

\* taint.rs: "Moving in the unsafe direction requires endorse or declassify, both of which
\* write to the audit trail" - through any mixture of values from any sources, on any
\* threads, with any sinks installed and removed in any order.
THEOREM NoLaundering == TaintSpec => []NothingIsLaundered
<1>1. TaintInv => NothingIsLaundered
  BY DEF TaintInv
<1> QED
  BY <1>1, TaintInitInv, TaintStep, PTL DEF TaintSpec

\* audit.rs: a sink that was installed for the process hears every crossing that no
\* scoped sink hears.
THEOREM NothingGoesUnheard == TaintSpec => TrailIsComplete
<1>1. ASSUME [TaintNext]_taintVars
      PROVE  [globalSink # NoSink => unheard' = unheard]_taintVars
  <2>1. SUFFICES ASSUME globalSink # NoSink, TaintNext PROVE unheard' = unheard
    BY <1>1
  <2>2. ASSUME NEW t \in Threads, NEW kind, NEW v, Record(t, kind, v) PROVE unheard' = unheard
    BY <2>1, <2>2 DEF Record, InScope
  <2> QED
    BY <2>1, <2>2 DEF TaintNext, FromOutside, FromOperator, FromVault, Combine, Through, Downgrade,
       QuietlyMade, Endorse, Declassify, Validate, SetGlobalSink, ScopedSink, DropGuard
<1> QED
  BY <1>1, PTL DEF TaintSpec, TrailIsComplete
--------------------------------------------------------------------------------
(* What runs was approved, for every catalog, grant set and approval       *)
(* policy.  An approval names a tool, a human approved a definition: the   *)
(* invariant has to know that a name in the registry means for ever the    *)
(* definition it meant when it was shown.                                  *)


\* The registry still gives this definition under its name.
Stands(definition) ==
  /\ definition.name \in DOMAIN registered
  /\ registered[definition.name].definition = definition

NamesAreOwn == \A n \in DOMAIN registered : registered[n].definition.name = n
ApprovalsWereShown == \A n \in approved : \E d \in shown : d.name = n

LayersInv ==
  /\ approval \in {"Never", "Always", "Low", "Medium", "High"}
  /\ NamesAreOwn
  /\ \A d \in prompts \cup shown : Stands(d)
  /\ \A run \in executed : Stands(run.definition)
  /\ ApprovalsWereShown
  /\ WhatRunsWasApproved

LEMMA RisksInOrder ==
  /\ Range(Risks) = {"Low", "Medium", "High"}
  /\ \A threshold \in {"Low", "Medium", "High"} : AtLeast("High", threshold)
  /\ \A threshold \in {"Low", "Medium"} : AtLeast("Medium", threshold)
<1>1. /\ DOMAIN Risks = {1, 2, 3}
      /\ Risks[1] = "Low" /\ Risks[2] = "Medium" /\ Risks[3] = "High"
  BY DEF Risks
<1>2. Range(Risks) = {"Low", "Medium", "High"}
  BY <1>1 DEF Range
<1>3. AtLeast("High", "Low") /\ AtLeast("High", "Medium") /\ AtLeast("High", "High")
  BY <1>1 DEF AtLeast
<1>4. AtLeast("Medium", "Low") /\ AtLeast("Medium", "Medium")
  BY <1>1 DEF AtLeast
<1> QED
  BY <1>2, <1>3, <1>4

\* A call that is let through without a question asks for less than the policy asks about,
\* or was approved.
LEMMA UngatedWasShown ==
  ASSUME LayersInv, NEW name \in DOMAIN registered, ~Gated(registered[name].definition)
  PROVE  LET definition == registered[name].definition IN
         \/ approval = "Always"
         \/ approval \in {"Low", "Medium"} /\ NeedsApprovalByDefault(definition)
         \/ approval = "High" /\ definition.cost = "destructive"
         => definition \in shown
<1> DEFINE definition == registered[name].definition
<1>1. definition.name = name
  BY DEF LayersInv, NamesAreOwn
<1>2. CASE name \in approved
  <2>1. PICK d \in shown : d.name = name
    BY <1>2 DEF LayersInv, ApprovalsWereShown
  <2>2. d = definition
    BY <2>1 DEF LayersInv, Stands
  <2> QED
    BY <2>1, <2>2
<1>3. CASE name \notin approved
  <2>1. approval # "Always"
    BY <1>1, <1>3 DEF Gated
  <2>2. approval \in {"Low", "Medium", "High"} => ~AtLeast(RiskOf(definition), approval)
    BY <1>1, <1>3 DEF Gated
  <2>3. definition.cost = "destructive" => RiskOf(definition) = "High"
    BY DEF RiskOf
  <2>4. NeedsApprovalByDefault(definition) => RiskOf(definition) \in {"Medium", "High"}
    BY DEF RiskOf, NeedsApprovalByDefault
  <2> QED
    BY <2>1, <2>2, <2>3, <2>4, RisksInOrder DEF LayersInv
<1> QED
  BY <1>2, <1>3
--------------------------------------------------------------------------------
LEMMA LayersInitInv == LayersInit => LayersInv
BY RisksInOrder
   DEF LayersInit, LayersInv, NamesAreOwn, Stands, ApprovalsWereShown, WhatRunsWasApproved

\* The registry only grows.
LEMMA RegisterInv ==
  ASSUME LayersInv, NEW source, NEW definition, Register(source, definition)
  PROVE  LayersInv'
<1>1. /\ definition.name \notin DOMAIN registered
      /\ registered' = [n \in DOMAIN registered \cup {definition.name} |->
                          IF n = definition.name
                          THEN [definition |-> definition, source |-> source]
                          ELSE registered[n]]
      /\ UNCHANGED <<approval, held, approved, prompts, shown, executed>>
  BY DEF Register, IsFree
<1>2. /\ DOMAIN registered' = DOMAIN registered \cup {definition.name}
      /\ \A n \in DOMAIN registered : registered'[n] = registered[n]
      /\ registered'[definition.name].definition = definition
  BY <1>1
<1>3. \A d : Stands(d) => Stands(d)'
  BY <1>2 DEF Stands
<1>4. NamesAreOwn'
  BY <1>2 DEF LayersInv, NamesAreOwn
<1>5. \A n \in Bindings : n \in Bindings'
  BY <1>2 DEF Bindings
<1>6. WhatRunsWasApproved'
  BY <1>1, <1>5 DEF LayersInv, WhatRunsWasApproved
<1>7. ApprovalsWereShown'
  BY <1>1 DEF LayersInv, ApprovalsWereShown
<1>8. /\ \A d \in prompts' \cup shown' : Stands(d)'
      /\ \A run \in executed' : Stands(run.definition)'
  BY <1>1, <1>3 DEF LayersInv
<1> QED
  BY <1>1, <1>4, <1>6, <1>7, <1>8 DEF LayersInv

LEMMA CallInv ==
  ASSUME LayersInv, NEW name \in DOMAIN registered, NEW fromCode \in BOOLEAN,
         Call(name, fromCode)
  PROVE  LayersInv'
<1> DEFINE definition == registered[name].definition
<1> DEFINE run == [definition |-> definition, fromCode |-> fromCode]
<1>1. UNCHANGED <<registered, approval, held, approved, shown>>
  BY DEF Call
<1>2. definition.name = name /\ Stands(definition)
  BY DEF LayersInv, NamesAreOwn, Stands
<1>3. /\ prompts' \subseteq prompts \cup {definition}
      /\ \/ executed' = executed
         \/ /\ PolicyAllows(definition, fromCode)
            /\ ~Gated(definition)
            /\ executed' = executed \cup {run}
  BY DEF Call
<1>4. \A d : Stands(d) => Stands(d)'
  BY <1>1 DEF Stands
<1>5. NamesAreOwn' /\ ApprovalsWereShown' /\ Bindings' = Bindings
  BY <1>1 DEF LayersInv, NamesAreOwn, ApprovalsWereShown, Bindings
<1>6. /\ \A d \in prompts' \cup shown' : Stands(d)'
      /\ \A r \in executed' : Stands(r.definition)'
  BY <1>1, <1>2, <1>3, <1>4 DEF LayersInv
<1>7. WhatRunsWasApproved'
  <2>1. CASE executed' = executed
    BY <1>1, <1>5, <2>1 DEF LayersInv, WhatRunsWasApproved
  <2>2. CASE /\ PolicyAllows(definition, fromCode)
             /\ ~Gated(definition)
             /\ executed' = executed \cup {run}
    <3>1. run.fromCode => definition.name \in Bindings
      BY <1>2, <2>2 DEF PolicyAllows, Bindings
    <3>2. \A c \in definition.capabilities : Permits(held, c)
      BY <2>2 DEF PolicyAllows
    <3> QED
      BY <1>1, <1>5, <2>2, <3>1, <3>2, UngatedWasShown DEF LayersInv, WhatRunsWasApproved
  <2> QED
    BY <1>3, <2>1, <2>2
<1> QED
  BY <1>1, <1>5, <1>6, <1>7 DEF LayersInv

LEMMA AnswerInv ==
  ASSUME LayersInv, NEW definition \in prompts,
         ApproveForSession(definition) \/ Dismiss(definition)
  PROVE  LayersInv'
<1>1. /\ UNCHANGED <<registered, approval, held, executed>>
      /\ prompts' \subseteq prompts
      /\ shown \subseteq shown' /\ shown' \subseteq shown \cup {definition}
      /\ \/ approved' = approved
         \/ approved' = approved \cup {definition.name} /\ definition \in shown'
  BY DEF ApproveForSession, Dismiss
<1>2. /\ \A d : Stands(d) => Stands(d)'
      /\ NamesAreOwn' /\ Bindings' = Bindings
  BY <1>1 DEF LayersInv, Stands, NamesAreOwn, Bindings
<1>3. ApprovalsWereShown'
  BY <1>1 DEF LayersInv, ApprovalsWereShown
<1>4. WhatRunsWasApproved'
  BY <1>1, <1>2 DEF LayersInv, WhatRunsWasApproved
<1> QED
  BY <1>1, <1>2, <1>3, <1>4 DEF LayersInv

LEMMA LayersStep == LayersInv /\ [LayersNext]_layersVars => LayersInv'
<1> SUFFICES ASSUME LayersInv, [LayersNext]_layersVars PROVE LayersInv'
  OBVIOUS
<1>1. ASSUME NEW source \in Sources, NEW attribute \in Attributes,
             \/ Register(source, BuildDefinition(Expand(attribute)))
             \/ \E prefix \in Namespaces :
                  RegisterPrefixed(source, prefix, BuildDefinition(Expand(attribute)))
      PROVE  LayersInv'
  BY <1>1, RegisterInv DEF RegisterPrefixed
<1>2. CASE UNCHANGED layersVars
  BY <1>2 DEF layersVars, LayersInv, NamesAreOwn, Stands, ApprovalsWereShown,
              WhatRunsWasApproved, Bindings
<1> QED
  BY <1>1, <1>2, CallInv, AnswerInv DEF LayersNext

\* A tool that the approval policy asks about ran only if a human was shown that very
\* definition; from code only what is bound ran; and nothing ran without its grants
\* (layer.rs, registry.rs, codemode.rs).
THEOREM ApprovedBeforeItRan == LayersSpec => []WhatRunsWasApproved
<1>1. LayersInv => WhatRunsWasApproved
  BY DEF LayersInv
<1> QED
  BY <1>1, LayersInitInv, LayersStep, PTL DEF LayersSpec
--------------------------------------------------------------------------------
(* Every subscriber of a task hears one story, for any number of           *)
(* subscribers and updates.  The invariant has to know that an answer on   *)
(* its way continues what its subscriber was told, and that the stream is  *)
(* closed exactly when its last update ends the task.                      *)


PeersTypeOK ==
  /\ pushed \in Nat
  /\ events \in Seq(TaskStatus)
  /\ closed \in BOOLEAN
  /\ told \in [Subscribers -> Seq(TaskStatus)]
  /\ reply \in [Subscribers -> SUBSET Seq(TaskStatus)]

\* The updates are numbered as they were pushed, and only the last may end the task.
OneStory ==
  /\ ~closed => pushed = Len(events)
  /\ \A i \in DOMAIN events : events[i].number = i
  /\ \A i \in DOMAIN events : IsTerminal(events[i].state) => i = Len(events) /\ closed

\* One sequence begins another, entry by entry.
Begins(a, b) == Len(a) <= Len(b) /\ \A i \in 1 .. Len(a) : a[i] = b[i]

ToldInOrder ==
  \A s \in Subscribers :
    /\ Begins(told[s], events)
    /\ \A news \in reply[s] : Begins(told[s] \o news, events)

PeersInv == PeersTypeOK /\ OneStory /\ ToldInOrder

LEMMA BeginsIsPrefix ==
  ASSUME NEW S, NEW a \in Seq(S), NEW b \in Seq(S), Begins(a, b)
  PROVE  IsPrefix(a, b)
<1>1. SubSeq(a, 1, Len(a)) = SubSeq(b, 1, Len(a))
  BY DEF Begins
<1> QED
  BY <1>1 DEF Begins, IsPrefix

LEMMA BeginsAppended ==
  ASSUME NEW S, NEW a \in Seq(S), NEW b \in Seq(S), NEW x \in S, Begins(a, b)
  PROVE  Begins(a, Append(b, x))
BY DEF Begins

\* What is replayed continues what was told.
LEMMA ReplayContinues ==
  ASSUME PeersTypeOK, NEW a \in Seq(TaskStatus), Begins(a, events)
  PROVE  ReplayFrom(Len(a)) \in Seq(TaskStatus) /\ Begins(a \o ReplayFrom(Len(a)), events)
<1>1. events \in Seq(TaskStatus)
  BY DEF PeersTypeOK
<1>3. Len(a) \in Nat /\ Len(events) \in Nat /\ Len(a) <= Len(events)
  BY <1>1 DEF Begins
<1>2. ReplayFrom(Len(a)) = SubSeq(events, Len(a) + 1, Len(events))
  <2>1. (IF Len(a) < Len(events) THEN Len(a) ELSE Len(events)) = Len(a)
    BY <1>3
  <2> QED
    BY <2>1, Zenon DEF ReplayFrom
<1>4. /\ ReplayFrom(Len(a)) \in Seq(TaskStatus)
      /\ Len(ReplayFrom(Len(a))) = Len(events) - Len(a)
      /\ \A k \in 1 .. Len(events) - Len(a) : ReplayFrom(Len(a))[k] = events[Len(a) + k]
  BY <1>1, <1>2, <1>3
<1> DEFINE r == ReplayFrom(Len(a))
<1>5. Len(a \o r) = Len(events)
  BY <1>1, <1>3, <1>4
<1>6. \A i \in 1 .. Len(events) : (a \o r)[i] = events[i]
  <2> TAKE i \in 1 .. Len(events)
  <2>1. CASE i <= Len(a)
    BY <2>1, <1>3, <1>4 DEF Begins
  <2>2. CASE i > Len(a)
    <3>1. i - Len(a) \in 1 .. Len(events) - Len(a)
      BY <2>2, <1>3
    <3>2. (a \o r)[i] = r[i - Len(a)]
      BY <2>2, <1>3, <1>4, <1>5
    <3>3. r[i - Len(a)] = events[Len(a) + (i - Len(a))]
      BY <3>1, <1>4, Zenon
    <3>4. Len(a) + (i - Len(a)) = i
      BY <1>3
    <3> QED
      BY <3>2, <3>3, <3>4
  <2>3. i <= Len(a) \/ i > Len(a)
    BY <1>3
  <2> QED
    BY <2>1, <2>2, <2>3, Zenon
<1> QED
  BY <1>3, <1>4, <1>5, <1>6 DEF Begins
--------------------------------------------------------------------------------
LEMMA PeersInitInv == PeersInit => PeersInv
<1> SUFFICES ASSUME PeersInit PROVE PeersInv
  OBVIOUS
<1> USE DEF PeersInit
<1>1. <<>> \in Seq(TaskStatus) /\ Len(<<>>) = 0
  OBVIOUS
<1>2. \A s \in Subscribers : told[s] = <<>> /\ reply[s] = {}
  OBVIOUS
<1>3. PeersTypeOK
  BY <1>1 DEF PeersTypeOK
<1>4. OneStory
  BY <1>1 DEF OneStory
<1>5. ToldInOrder
  BY <1>2 DEF ToldInOrder, Begins
<1> QED
  BY <1>3, <1>4, <1>5 DEF PeersInv

LEMMA PeersStep == PeersInv /\ [PeersNext]_peersVars => PeersInv'
<1> SUFFICES ASSUME PeersInv, [PeersNext]_peersVars PROVE PeersInv'
  OBVIOUS
<1> USE DEF PeersInv
<1>u. ASSUME UNCHANGED <<pushed, events, closed, told, reply>> PROVE PeersInv'
  BY <1>u DEF PeersTypeOK, OneStory, ToldInOrder
<1>1. ASSUME NEW c \in AgentCard, Fetch(c) PROVE PeersInv'
  BY <1>1, <1>u DEF Fetch
<1>2. ASSUME NEW risk \in {"Low", "Medium", "High"}, Delegate(risk) PROVE PeersInv'
  BY <1>2, <1>u DEF Delegate
<1>3. CASE ApproveDelegation
  BY <1>3, <1>u DEF ApproveDelegation
<1>4. CASE DenyDelegation
  BY <1>4, <1>u DEF DenyDelegation
<1>5. ASSUME NEW state \in TaskState, Push(state) PROVE PeersInv'
  <2>1. pushed' = pushed + 1 /\ told' = told /\ reply' = reply
    BY <1>5 DEF Push
  <2>2. CASE closed
    <3>1. events' = events /\ closed' = closed
      BY <1>5, <2>2 DEF Push, Takes
    <3> QED
      BY <2>1, <2>2, <3>1 DEF PeersTypeOK, OneStory, ToldInOrder
  <2>3. CASE ~closed
    <3> DEFINE new == [state |-> state, number |-> pushed + 1]
    <3>1. events' = Append(events, new) /\ closed' = (closed \/ IsTerminal(state))
      BY <1>5, <2>3 DEF Push, Takes
    <3>2. new \in TaskStatus /\ pushed = Len(events) /\ events \in Seq(TaskStatus)
      BY <2>3 DEF PeersTypeOK, OneStory, TaskStatus
    <3>3. closed' \in BOOLEAN
      BY <3>1, <2>3 DEF IsTerminal
    <3>4. PeersTypeOK'
      BY <2>1, <3>1, <3>2, <3>3 DEF PeersTypeOK
    <3>5. /\ Len(events') = Len(events) + 1
          /\ \A i \in DOMAIN events : events'[i] = events[i]
          /\ events'[Len(events')] = new
          /\ \A i \in DOMAIN events' : i \in DOMAIN events \/ i = Len(events')
      BY <3>1, <3>2
    <3>6. \A i \in DOMAIN events : ~IsTerminal(events[i].state)
      BY <2>3 DEF OneStory
    <3>7. \A i \in DOMAIN events' : events'[i].number = i
      BY <3>2, <3>5 DEF OneStory
    <3>8. \A i \in DOMAIN events' : IsTerminal(events'[i].state) => i = Len(events') /\ closed'
      <4> SUFFICES ASSUME NEW i \in DOMAIN events', IsTerminal(events'[i].state)
                   PROVE  i = Len(events') /\ closed'
        OBVIOUS
      <4>1. i = Len(events')
        BY <3>5, <3>6
      <4>2. events'[i].state = state
        BY <3>5, <4>1
      <4> QED
        BY <3>1, <4>1, <4>2
    <3>9. ~closed' => pushed' = Len(events')
      BY <2>1, <3>2, <3>5
    <3>10. ToldInOrder'
      <4> SUFFICES ASSUME NEW s \in Subscribers
                   PROVE  /\ Begins(told[s], events')
                          /\ \A news \in reply[s] : Begins(told[s] \o news, events')
        BY <2>1 DEF ToldInOrder
      <4>1. told[s] \in Seq(TaskStatus) /\ reply[s] \subseteq Seq(TaskStatus)
        BY DEF PeersTypeOK
      <4>2. Begins(told[s], events) /\ \A news \in reply[s] : Begins(told[s] \o news, events)
        BY DEF ToldInOrder
      <4>3. \A news \in reply[s] : told[s] \o news \in Seq(TaskStatus)
        BY <4>1
      <4> QED
        BY <3>1, <3>2, <4>1, <4>2, <4>3, BeginsAppended
    <3> QED
      BY <3>4, <3>7, <3>8, <3>9, <3>10 DEF OneStory
  <2> QED
    BY <2>2, <2>3
<1>6. ASSUME NEW s \in Subscribers, Subscribe(s) PROVE PeersInv'
  <2>1. /\ UNCHANGED <<pushed, events, closed, told>>
        /\ reply' = [reply EXCEPT ![s] = {ReplayFrom(Len(told[s]))}]
    BY <1>6 DEF Subscribe
  <2>2. told[s] \in Seq(TaskStatus) /\ Begins(told[s], events)
    BY DEF PeersTypeOK, ToldInOrder
  <2>3. /\ ReplayFrom(Len(told[s])) \in Seq(TaskStatus)
        /\ Begins(told[s] \o ReplayFrom(Len(told[s])), events)
    BY <2>2, ReplayContinues
  <2>4. PeersTypeOK'
    BY <2>1, <2>3 DEF PeersTypeOK
  <2>5. ToldInOrder'
    BY <2>1, <2>3 DEF ToldInOrder, PeersTypeOK
  <2> QED
    BY <2>1, <2>4, <2>5 DEF OneStory
<1>7. ASSUME NEW s \in Subscribers, Deliver(s) PROVE PeersInv'
  <2>1. PICK news \in reply[s] : told' = [told EXCEPT ![s] = @ \o news]
    BY <1>7 DEF Deliver
  <2>2. UNCHANGED <<pushed, events, closed>> /\ reply' = [reply EXCEPT ![s] = {}]
    BY <1>7 DEF Deliver
  <2>3. told[s] \o news \in Seq(TaskStatus) /\ Begins(told[s] \o news, events)
    BY DEF PeersTypeOK, ToldInOrder
  <2>4. PeersTypeOK'
    BY <2>1, <2>2, <2>3 DEF PeersTypeOK
  <2>5. ToldInOrder'
    BY <2>1, <2>2, <2>3 DEF ToldInOrder, PeersTypeOK
  <2> QED
    BY <2>2, <2>4, <2>5 DEF OneStory
<1>8. ASSUME NEW s \in Subscribers, Disconnect(s) PROVE PeersInv'
  BY <1>8 DEF Disconnect, PeersTypeOK, OneStory, ToldInOrder
<1>9. CASE UNCHANGED peersVars
  BY <1>9, <1>u DEF peersVars
<1> QED
  BY <1>1, <1>2, <1>3, <1>4, <1>5, <1>6, <1>7, <1>8, <1>9 DEF PeersNext

\* task.rs: "a stream must terminate on a terminal state, events must reach every
\* subscriber in order, and closing one subscription must not disturb another".
THEOREM OneStoryForAll == PeersSpec => []EverySubscriberHearsOneStory
<1>1. PeersInv => EverySubscriberHearsOneStory
  <2> SUFFICES ASSUME PeersInv, NEW s \in Subscribers
               PROVE  /\ IsPrefix(told[s], events)
                      /\ \A i \in DOMAIN told[s] :
                           /\ told[s][i].number = i
                           /\ IsTerminal(told[s][i].state) => i = Len(told[s])
    BY DEF EverySubscriberHearsOneStory
  <2>1. told[s] \in Seq(TaskStatus) /\ events \in Seq(TaskStatus) /\ Begins(told[s], events)
    BY DEF PeersInv, PeersTypeOK, ToldInOrder
  <2>2. \A i \in DOMAIN told[s] : i \in DOMAIN events /\ told[s][i] = events[i]
    BY <2>1 DEF Begins
  <2>3. \A i \in DOMAIN told[s] : IsTerminal(told[s][i].state) => i = Len(told[s])
    BY <2>1, <2>2 DEF PeersInv, OneStory, Begins
  <2> QED
    BY <2>1, <2>2, <2>3, BeginsIsPrefix DEF PeersInv, OneStory
<1> QED
  BY <1>1, PeersInitInv, PeersStep, PTL DEF PeersSpec

--------------------------------------------------------------------------------
(* What a server of tools runs, whoever asks and whatever the toolset      *)
(* offers from one step to the next.  The check and the call are two       *)
(* steps: the invariant has to know of a message between them what the     *)
(* check found, and of a notification that it is never between them.       *)

WellFormed(args) ==
  \A name \in DOMAIN args.fields :
    args.fields[name].type = "null" => args.fields[name] = Null
Checked(known, request) == known = Nobody \/ CheckArguments(known.schema, request.args)
Message(m) ==
  m = [from |-> m.from, server |-> m.server, request |-> m.request, stage |-> m.stage,
       known |-> m.known, reply |-> m.reply]
Vetted(m) ==
  /\ Message(m)
  /\ WellFormed(m.request.args)
  /\ m.request.id = Nobody =>
       m.server = Own /\ m.stage \in {"sent", "ignored", "lost"} /\ m.reply = Nobody
  /\ m.stage = "checked" => Checked(m.known, m.request)
RanVetted(run) ==
  /\ run.request.id # Nobody
  /\ run.asks => run.request.answers
  /\ Checked(run.known, run.request)
  /\ WellFormed(run.request.args)
McpInv ==
  /\ nextId \in Nat
  /\ \E S : mail \in Seq(S)
  /\ \A k \in DOMAIN mail : Vetted(mail[k])
  /\ \A run \in ran : RanVetted(run)

LEMMA NullIsWellFormed == WellFormed(Null)
BY DEF WellFormed, Null, Json

\* What was sent is the last of the messages, and the others are as they were.
LEMMA SentLast ==
  ASSUME McpInv, NEW from, NEW server, NEW request, Send(from, server, request)
  PROVE  LET m == [from |-> from, server |-> server, request |-> request, stage |-> "sent",
                   known |-> Nobody, reply |-> Nobody]
         IN  /\ \E R : mail' \in Seq(R)
             /\ \A k \in DOMAIN mail' : (k \in DOMAIN mail /\ mail'[k] = mail[k]) \/ mail'[k] = m
<1> DEFINE m == [from |-> from, server |-> server, request |-> request, stage |-> "sent",
                 known |-> Nobody, reply |-> Nobody]
<1>1. mail' = Append(mail, m)
  BY DEF Send
<1> HIDE DEF m
<1>2. PICK S : mail \in Seq(S)
  BY DEF McpInv
<1> DEFINE T == S \cup {m}
<1>3. mail \in Seq(T) /\ m \in T
  BY <1>2, SeqMonotonic
<1> HIDE DEF T
<1>4. /\ mail' \in Seq(T)
      /\ DOMAIN mail' = 1 .. Len(mail) + 1 /\ DOMAIN mail = 1 .. Len(mail) /\ Len(mail) \in Nat
      /\ \A k \in 1 .. Len(mail) : mail'[k] = mail[k]
      /\ mail'[Len(mail) + 1] = m
  BY <1>1, <1>3, AppendProperties, LenProperties
<1>5. \A k \in DOMAIN mail' : (k \in DOMAIN mail /\ mail'[k] = mail[k]) \/ mail'[k] = m
  BY <1>4
<1> QED
  BY <1>4, <1>5 DEF m

LEMMA SendKeeps ==
  ASSUME McpInv, NEW from, NEW server, NEW request, Send(from, server, request),
         WellFormed(request.args), request.id = Nobody => server = Own,
         nextId' \in Nat, UNCHANGED ran
  PROVE  McpInv'
<1> DEFINE m == [from |-> from, server |-> server, request |-> request, stage |-> "sent",
                 known |-> Nobody, reply |-> Nobody]
<1>1. Vetted(m)
  BY DEF Vetted, Message
<1>2. /\ \E R : mail' \in Seq(R)
      /\ \A k \in DOMAIN mail' : (k \in DOMAIN mail /\ mail'[k] = mail[k]) \/ mail'[k] = m
  BY SentLast
<1> HIDE DEF m
<1>3. \A k \in DOMAIN mail' : Vetted(mail'[k])
  BY <1>1, <1>2 DEF McpInv
<1>4. \A run \in ran' : RanVetted(run)
  BY DEF McpInv
<1> QED
  BY <1>2, <1>3, <1>4 DEF McpInv

\* A message that moves on is the same message in another stage.
LEMMA Rewritten ==
  ASSUME NEW m, Message(m), NEW stage, NEW known, NEW said
  PROVE  [[[m EXCEPT !.stage = stage] EXCEPT !.known = known] EXCEPT !.reply = said]
           = [from |-> m.from, server |-> m.server, request |-> m.request, stage |-> stage,
              known |-> known, reply |-> said]
<1>1. PICK a, b, c, d, e, f :
        m = [from |-> a, server |-> b, request |-> c, stage |-> d, known |-> e, reply |-> f]
  BY DEF Message
<1> DEFINE m1 == [m EXCEPT !.stage = stage]
           m2 == [m1 EXCEPT !.known = known]
           m3 == [m2 EXCEPT !.reply = said]
<1>2. m1 = [from |-> a, server |-> b, request |-> c, stage |-> stage, known |-> e, reply |-> f]
  BY <1>1
<1> HIDE DEF m1
<1>3. m2 = [from |-> a, server |-> b, request |-> c, stage |-> stage, known |-> known, reply |-> f]
  BY <1>2
<1> HIDE DEF m2
<1>4. m3 = [from |-> a, server |-> b, request |-> c, stage |-> stage, known |-> known,
            reply |-> said]
  BY <1>3
<1> HIDE DEF m3
<1>5. m.from = a /\ m.server = b /\ m.request = c
  BY <1>1
<1>6. m3 = [from |-> m.from, server |-> m.server, request |-> m.request, stage |-> stage,
              known |-> known, reply |-> said]
  BY <1>4, <1>5, Zenon
<1> QED
  BY <1>6 DEF m3, m2, m1

LEMMA Moved ==
  ASSUME McpInv, NEW k \in DOMAIN mail, NEW stage, NEW known, NEW said,
         Moves(k, stage, known, said)
  PROVE  LET m == [from |-> mail[k].from, server |-> mail[k].server,
                   request |-> mail[k].request, stage |-> stage, known |-> known,
                   reply |-> said]
         IN  /\ \E R : mail' \in Seq(R)
             /\ DOMAIN mail' = DOMAIN mail
             /\ \A j \in DOMAIN mail : mail'[j] = IF j = k THEN m ELSE mail[j]
<1> DEFINE m == [from |-> mail[k].from, server |-> mail[k].server,
                 request |-> mail[k].request, stage |-> stage, known |-> known,
                 reply |-> said]
<1>1. Vetted(mail[k])
  BY DEF McpInv
<1>2. mail' = [mail EXCEPT ![k] = m]
  <2> DEFINE f == [mail EXCEPT ![k].stage = stage]
             g == [f EXCEPT ![k].known = known]
             h == [g EXCEPT ![k].reply = said]
  <2>2. mail' = h
    BY DEF Moves
  <2>3. mail = [j \in DOMAIN mail |-> mail[j]]
    <3>1. \A S : mail \in Seq(S) => mail = [j \in DOMAIN mail |-> mail[j]]
      OBVIOUS
    <3> QED
      BY <3>1 DEF McpInv
  <2>4. f = [j \in DOMAIN mail |->
               IF j = k THEN [mail[k] EXCEPT !.stage = stage] ELSE mail[j]]
    BY <2>3
  <2>5. g = [j \in DOMAIN mail |->
               IF j = k THEN [[mail[k] EXCEPT !.stage = stage] EXCEPT !.known = known] ELSE mail[j]]
    BY <2>4
  <2>6. h = [j \in DOMAIN mail |->
               IF j = k THEN [[[mail[k] EXCEPT !.stage = stage] EXCEPT !.known = known]
                                EXCEPT !.reply = said] ELSE mail[j]]
    BY <2>5
  <2>7. [[[mail[k] EXCEPT !.stage = stage] EXCEPT !.known = known] EXCEPT !.reply = said] = m
    <3> DEFINE old == mail[k]
               new == [from |-> old.from, server |-> old.server, request |-> old.request,
                       stage |-> stage, known |-> known, reply |-> said]
    <3>1. Message(old) /\ m = new
      BY <1>1 DEF Vetted
    <3> HIDE DEF old, m
    <3>2. [[[old EXCEPT !.stage = stage] EXCEPT !.known = known] EXCEPT !.reply = said] = new
      BY <3>1, Rewritten
    <3> HIDE DEF new
    <3>3. [[[old EXCEPT !.stage = stage] EXCEPT !.known = known] EXCEPT !.reply = said] = m
      BY <3>1, <3>2, Zenon
    <3> QED
      BY <3>3, Zenon DEF old
  <2> HIDE DEF m, h
  <2>8. h = [mail EXCEPT ![k] = m]
    BY <2>6, <2>7
  <2> QED
    BY <2>2, <2>8
<1> HIDE DEF m
<1>3. PICK S : mail \in Seq(S)
  BY DEF McpInv
<1> DEFINE T == S \cup {m}
<1>4. mail \in Seq(T) /\ m \in T
  BY <1>3, SeqMonotonic
<1> HIDE DEF T
<1>5. mail' \in Seq(T)
  <2>1. k \in 1 .. Len(mail)
    BY <1>4, LenProperties
  <2> QED
    BY <1>2, <1>4, <2>1, ExceptSeq
<1>6. DOMAIN mail' = DOMAIN mail /\ \A j \in DOMAIN mail : mail'[j] = IF j = k THEN m ELSE mail[j]
  BY <1>2
<1> QED
  BY <1>5, <1>6 DEF m

LEMMA MoveKeeps ==
  ASSUME McpInv, NEW k \in DOMAIN mail, NEW stage, NEW known, NEW said,
         Moves(k, stage, known, said), UNCHANGED nextId,
         mail[k].request.id = Nobody => stage \in {"ignored", "lost"} /\ said = Nobody,
         stage = "checked" => Checked(known, mail[k].request),
         \A run \in ran' : run \in ran \/ RanVetted(run)
  PROVE  McpInv'
<1> DEFINE m == [from |-> mail[k].from, server |-> mail[k].server,
                 request |-> mail[k].request, stage |-> stage, known |-> known,
                 reply |-> said]
<1>1. Vetted(mail[k])
  BY DEF McpInv
<1>2. Vetted(m)
  BY <1>1 DEF Vetted, Message
<1>3. /\ \E R : mail' \in Seq(R)
      /\ DOMAIN mail' = DOMAIN mail
      /\ \A j \in DOMAIN mail : mail'[j] = IF j = k THEN m ELSE mail[j]
  BY Moved
<1> HIDE DEF m
<1>4. \A j \in DOMAIN mail' : Vetted(mail'[j])
  BY <1>2, <1>3 DEF McpInv
<1>5. \A run \in ran' : RanVetted(run)
  BY DEF McpInv
<1> QED
  BY <1>3, <1>4, <1>5 DEF McpInv

LEMMA CallKeeps ==
  ASSUME McpInv, NEW server, NEW method, NEW name, NEW args, WellFormed(args),
         ClientCalls(server, method, name, args)
  PROVE  McpInv'
<1> DEFINE request == Request(nextId, method, name, args, FALSE)
<1>1. nextId \in Nat /\ nextId' = nextId + 1 /\ UNCHANGED ran /\ Send("client", server, request)
  BY DEF McpInv, ClientCalls
<1>2. request.args = args /\ request.id # Nobody
  BY <1>1, NobodyAssumption DEF Request
<1> HIDE DEF request
<1>3. nextId' \in Nat
  BY <1>1
<1> QED
  BY <1>1, <1>2, <1>3, SendKeeps

LEMMA HandleKeeps ==
  ASSUME McpInv, NEW k \in DOMAIN mail, Handle(k)
  PROVE  McpInv'
<1>1. UNCHANGED <<nextId, ran>>
  BY DEF Handle
<1>2. CASE mail[k].request.id = Nobody
  <2>1. Moves(k, "ignored", Nobody, Nobody)
    BY <1>2 DEF Handle, IsNotification
  <2> QED
    BY <1>1, <2>1, MoveKeeps
<1>3. CASE mail[k].request.id # Nobody
  <2> DEFINE known == DefinitionOf(mail[k].request.name)
  <2>1. ASSUME NEW said, Answers(k, said) PROVE McpInv'
    <3>1. Moves(k, "answered", mail[k].known, said)
      BY <2>1 DEF Answers
    <3> QED
      BY <1>1, <1>3, <3>1, MoveKeeps
  <2>2. ASSUME Moves(k, "checked", known, Nobody), Checked(known, mail[k].request)
        PROVE  McpInv'
    <3> HIDE DEF known
    <3> QED
      BY <1>1, <1>3, <2>2, MoveKeeps
  <2>3. \/ \E said : Answers(k, said)
        \/ /\ known = Nobody \/ CheckArguments(known.schema, mail[k].request.args)
           /\ Moves(k, "checked", known, Nobody)
    BY <1>3 DEF Handle, IsNotification
  <2> QED
    BY <2>1, <2>2, <2>3 DEF Checked
<1> QED
  BY <1>2, <1>3

LEMMA DispatchKeeps ==
  ASSUME McpInv, NEW k \in DOMAIN mail, Dispatch(k)
  PROVE  McpInv'
<1> DEFINE request == mail[k].request
           tool == DefinitionOf(request.name)
           run == [request |-> request, known |-> mail[k].known,
                   asks |-> tool # Nobody /\ tool.asks]
<1>1. UNCHANGED nextId /\ mail[k].stage = "checked" /\ Vetted(mail[k])
  BY DEF Dispatch, McpInv
<1>2. request.id # Nobody
  BY <1>1 DEF Vetted
<1>3. PICK said : Answers(k, said)
  BY DEF Dispatch
<1>4. \/ ran' = ran
      \/ /\ ran' = ran \cup {run}
         /\ tool # Nobody /\ tool.asks => Resumed(request)
  BY DEF Dispatch
<1>5. (tool # Nobody /\ tool.asks => Resumed(request)) => RanVetted(run)
  BY <1>1, <1>2, Zenon DEF Vetted, RanVetted, Resumed
<1> HIDE DEF run, tool
<1>6. \A r \in ran' : r \in ran \/ RanVetted(r)
  BY <1>4, <1>5
<1>7. Moves(k, "answered", mail[k].known, said)
  BY <1>3 DEF Answers
<1> QED
  BY <1>1, <1>2, <1>6, <1>7, MoveKeeps

LEMMA McpStep == McpInv /\ [McpNext]_mcpVars => McpInv'
<1> SUFFICES ASSUME McpInv, [McpNext]_mcpVars PROVE McpInv'
  OBVIOUS
<1>1. ASSUME NEW s \in Servers, Negotiate(s) \/ ListTools(s) PROVE McpInv'
  BY <1>1, CallKeeps, NullIsWellFormed DEF Negotiate, ListTools
<1>2. ASSUME NEW s \in Servers, NEW name \in 1 .. 2, NEW args \in Arguments, CallTool(s, name, args)
      PROVE  McpInv'
  <2>1. WellFormed(args)
    BY JsonAssumption DEF WellFormed
  <2> QED
    BY <1>2, <2>1, CallKeeps DEF CallTool
<1>3. ASSUME NEW request \in PeerRequests, PeerSends(request) PROVE McpInv'
  <2>1. WellFormed(request.args)
    BY JsonAssumption DEF WellFormed
  <2>2. nextId' \in Nat /\ UNCHANGED ran /\ Send("peer", Own, request)
    BY <1>3 DEF PeerSends, McpInv
  <2> QED
    BY <2>1, <2>2, SendKeeps
<1>4. CASE (\E offer \in Offers : OfferChanges(offer)) \/ UNCHANGED mcpVars
  BY <1>4 DEF OfferChanges, mcpVars, McpInv
<1>5. ASSUME NEW k \in DOMAIN mail,
             \/ \E r \in ForeignResults : ForeignAnswers(k, Success(r))
             \/ ForeignAnswers(k, Failure("METHOD_NOT_FOUND"))
      PROVE  McpInv'
  <2>1. PICK said : ForeignAnswers(k, said)
    BY <1>5
  <2>2. mail[k].request.id # Nobody
    BY <2>1, NobodyAssumption DEF ForeignAnswers, McpInv, Vetted
  <2>3. Moves(k, "answered", mail[k].known, said) /\ UNCHANGED <<nextId, ran>>
    BY <2>1 DEF ForeignAnswers, Answers
  <2> QED
    BY <2>2, <2>3, MoveKeeps
<1>6. ASSUME NEW k \in DOMAIN mail, TransportFails(k) PROVE McpInv'
  <2>1. Moves(k, "lost", mail[k].known, mail[k].reply) /\ UNCHANGED <<nextId, ran>>
    BY <1>6 DEF TransportFails
  <2>2. mail[k].request.id = Nobody => mail[k].reply = Nobody
    BY DEF McpInv, Vetted
  <2> QED
    BY <2>1, <2>2, MoveKeeps
<1>7. ASSUME NEW k \in DOMAIN mail, ClientReads(k) PROVE McpInv'
  <2>1. Moves(k, "done", mail[k].known, mail[k].reply) /\ UNCHANGED <<nextId, ran>>
    BY <1>7 DEF ClientReads
  <2>2. mail[k].request.id # Nobody
    BY <1>7 DEF ClientReads, McpInv, Vetted
  <2> QED
    BY <2>1, <2>2, MoveKeeps
<1> QED
  BY <1>1, <1>2, <1>3, <1>4, <1>5, <1>6, <1>7, HandleKeeps, DispatchKeeps DEF McpNext

LEMMA McpHolds == McpSpec => []McpInv
<1>1. McpInit => McpInv
  <2> SUFFICES ASSUME McpInit PROVE McpInv
    OBVIOUS
  <2>1. mail = <<>> /\ ran = {} /\ nextId = 1
    BY DEF McpInit
  <2>2. mail \in Seq({})
    BY <2>1
  <2> QED
    BY <2>1, <2>2 DEF McpInv
<1> QED
  BY <1>1, McpStep, PTL DEF McpSpec

\* However the toolset changes between the check and the call, a tool whose definition
\* the server found runs only with arguments of which that definition's promise is true.
THEOREM RunsAreChecked == McpSpec => []RanWithWhatItDeclares
<1>1. McpInv => RanWithWhatItDeclares
  <2> SUFFICES ASSUME McpInv, NEW run \in ran, run.known # Nobody
               PROVE  LET schema == run.known.schema
                          fields == run.request.args.fields
                      IN  /\ \A name \in schema.required :
                               name \in DOMAIN fields /\ fields[name].type # "null"
                          /\ schema.declares => \A name \in DOMAIN fields :
                               IF name \notin DOMAIN schema.properties THEN ~schema.closed
                               ELSE LET spec == schema.properties[name] IN
                                    fields[name].type # "null" =>
                                      /\ \/ spec.type \in {"any", fields[name].type}
                                         \/ /\ spec.type = "number"
                                            /\ fields[name].type \in {"integer", "fraction"}
                                      /\ spec.restricted => fields[name] \in spec.choices
    BY DEF RanWithWhatItDeclares
  <2> DEFINE schema == run.known.schema
             args == run.request.args
             fields == args.fields
  <2>1. CheckArguments(schema, args) /\ WellFormed(args)
    BY DEF McpInv, RanVetted, Checked
  <2>2. Null.type = "null" /\ Null.fields = <<>>
    BY DEF Null, Json
  <2> HIDE DEF schema, args
  <2>3. CASE args.type # "object"
    <3>1. args = Null /\ schema.required = {}
      BY <2>1, <2>3 DEF CheckArguments
    <3>2. DOMAIN fields = {}
      BY <2>2, <3>1
    <3> QED
      BY <3>1, <3>2 DEF schema, args
  <2>4. CASE args.type = "object"
    <3>1. /\ \A name \in schema.required : ~MissingIn(fields, name)
          /\ schema.declares =>
               /\ schema.closed => DOMAIN fields \subseteq DOMAIN schema.properties
               /\ \A name \in DOMAIN fields \cap DOMAIN schema.properties :
                    fields[name] # Null =>
                      /\ MatchesType(schema.properties[name].type, fields[name])
                      /\ schema.properties[name].restricted
                           => fields[name] \in schema.properties[name].choices
      BY <2>1, <2>4 DEF CheckArguments
    <3>2. \A name \in DOMAIN fields : fields[name].type = "null" <=> fields[name] = Null
      BY <2>1, <2>2 DEF WellFormed
    <3>3. \A name \in schema.required : name \in DOMAIN fields /\ fields[name].type # "null"
      BY <3>1, <3>2 DEF MissingIn
    <3>4. \A type, value : MatchesType(type, value) =>
            \/ type \in {"any", value.type}
            \/ type = "number" /\ value.type \in {"integer", "fraction"}
      BY DEF MatchesType
    <3>5. schema.declares => \A name \in DOMAIN fields :
            IF name \notin DOMAIN schema.properties THEN ~schema.closed
            ELSE fields[name].type # "null" =>
                   /\ \/ schema.properties[name].type \in {"any", fields[name].type}
                      \/ /\ schema.properties[name].type = "number"
                         /\ fields[name].type \in {"integer", "fraction"}
                   /\ schema.properties[name].restricted
                        => fields[name] \in schema.properties[name].choices
      BY <3>1, <3>2, <3>4
    <3> QED
      BY <3>3, <3>5 DEF schema, args
  <2> QED
    BY <2>3, <2>4
<1> QED
  BY <1>1, McpHolds, PTL

\* Nothing runs for a message that wants no answer, nor does one that wants none get
\* one; and a tool that wants input runs to its end only for a caller that sent it.
THEOREM OnlyTheAskedForRuns == McpSpec => []OnlyWhatWasAskedForRuns
<1>1. McpInv => OnlyWhatWasAskedForRuns
  BY DEF McpInv, RanVetted, Vetted, OnlyWhatWasAskedForRuns
<1> QED
  BY <1>1, McpHolds, PTL

(***************************************************************************)
(* What a client keeps of a server.  The catalog is what the last listing  *)
(* says, sorted, and sorting forgets the order it came in: the invariant   *)
(* ties the one to the other, from the moment a listing is on its way.     *)

LEMMA CountUpTo ==
  ASSUME NEW n \in Nat
  PROVE  IsFiniteSet(1 .. n) /\ Cardinality(1 .. n) = n
<1>1. 1 \in Int /\ n \in Int
  OBVIOUS
<1>2. IsFiniteSet(1 .. n) /\ Cardinality(1 .. n) = IF 1 > n THEN 0 ELSE n - 1 + 1
  BY <1>1, FS_Interval
<1> QED
  BY <1>2

\* Tools in the order of their names: each has a place of its own, and every place is taken.
LEMMA PlacesAreTaken ==
  ASSUME NEW tools, AreTools(tools), NEW k \in DOMAIN tools
  PROVE  \E i \in DOMAIN tools : PlaceByName(tools, i) = k
<1> DEFINE D == DOMAIN tools
           n == Len(tools)
           Ahead(i) == {j \in D : ComesBefore(tools, j, i)}
           rank == [i \in D |-> Cardinality(Ahead(i))]
<1>1. n \in Nat /\ D = 1 .. n
  BY LenProperties DEF AreTools
<1>2. IsFiniteSet(D) /\ Cardinality(D) = n
  BY <1>1, CountUpTo
<1>3. \A i \in D : tools[i].name \in Nat
  BY DEF AreTools
<1>4. \A i \in D : Ahead(i) \in SUBSET D /\ Ahead(i) \in SUBSET (D \ {i})
  BY <1>1, <1>3 DEF ComesBefore
<1>5. \A i \in D : IsFiniteSet(Ahead(i)) /\ Cardinality(Ahead(i)) \in 0 .. n - 1
  <2>1. TAKE i \in D
  <2> DEFINE R == D \ {i}
             A == Ahead(i)
  <2>2. IsFiniteSet(R) /\ Cardinality(R) = n - 1
    BY <1>2, <2>1, FS_RemoveElement
  <2>3. A \in SUBSET R
    BY <1>4, <2>1
  <2> HIDE DEF R, A
  <2>4. IsFiniteSet(A) /\ Cardinality(A) <= n - 1
    BY <2>2, <2>3, FS_Subset
  <2>5. Cardinality(A) \in Nat
    BY <2>4, FS_CardinalityType
  <2>6. IsFiniteSet(A) /\ Cardinality(A) \in 0 .. n - 1
    BY <1>1, <2>4, <2>5
  <2> QED
    BY <2>6 DEF A
<1>6. ASSUME NEW i \in D, NEW j \in D, ComesBefore(tools, i, j)
      PROVE  Cardinality(Ahead(i)) < Cardinality(Ahead(j))
  <2> DEFINE A == Ahead(i)
             B == Ahead(j)
  <2>1. A \subseteq B /\ i \in B /\ i \notin A
    BY <1>1, <1>3, <1>6 DEF ComesBefore
  <2>2. IsFiniteSet(A) /\ IsFiniteSet(B) /\ Cardinality(A) \in 0 .. n - 1 /\ Cardinality(B) \in 0 .. n - 1
    BY <1>5
  <2> HIDE DEF A, B
  <2>3. Cardinality(A) <= Cardinality(B) /\ (Cardinality(A) = Cardinality(B) => A = B)
    BY <2>1, <2>2, FS_Subset
  <2>4. Cardinality(A) < Cardinality(B)
    BY <1>1, <2>1, <2>2, <2>3
  <2> QED
    BY <2>4 DEF A, B
<1>7. ASSUME NEW i \in D, NEW j \in D, rank[i] = rank[j] PROVE i = j
  <2>1. Cardinality(Ahead(i)) = Cardinality(Ahead(j))
    BY <1>7
  <2>2. ~ComesBefore(tools, i, j) /\ ~ComesBefore(tools, j, i)
    <3> HIDE DEF Ahead, D
    <3>1. Cardinality(Ahead(i)) \in Int /\ Cardinality(Ahead(j)) \in Int
      BY <1>5
    <3> QED
      BY <1>6, <2>1, <3>1
  <2> QED
    BY <1>1, <1>3, <2>2 DEF ComesBefore
<1> DEFINE T == 0 .. n - 1
<1>8. rank \in [D -> T]
  BY <1>5
<1>9. rank \in Injection(D, T)
  BY <1>7, <1>8 DEF Injection, IsInjective
<1>10. IsFiniteSet(T) /\ Cardinality(T) = n
  <2>1. 0 \in Int /\ n - 1 \in Int
    BY <1>1
  <2>2. IsFiniteSet(T) /\ Cardinality(T) = IF 0 > n - 1 THEN 0 ELSE (n - 1) - 0 + 1
    BY <2>1, FS_Interval
  <2> QED
    BY <1>1, <2>2
<1>11. rank \in Surjection(D, T)
  <2> HIDE DEF rank, T, D
  <2> QED
    BY <1>2, <1>9, <1>10, FS_Injection
<1>12. k - 1 \in T
  BY <1>1
<1>13. PICK i \in D : rank[i] = k - 1
  <2> HIDE DEF rank, T, D
  <2> QED
    BY <1>11, <1>12 DEF Surjection
<1>14. Cardinality(Ahead(i)) = k - 1
  BY <1>13
<1>15. PlaceByName(tools, i) = Cardinality(Ahead(i)) + 1
  BY DEF PlaceByName
<1>16. k \in Nat
  BY <1>1
<1> HIDE DEF Ahead, D
<1>17. PlaceByName(tools, i) = k
  BY <1>14, <1>15, <1>16
<1> QED
  BY <1>17 DEF D

LEMMA SortingKeepsTools ==
  ASSUME NEW tools, AreTools(tools)
  PROVE  /\ AreTools(SortedByName(tools))
         /\ DOMAIN SortedByName(tools) = DOMAIN tools
         /\ \A k \in DOMAIN tools : \E i \in DOMAIN tools :
              PlaceByName(tools, i) = k /\ SortedByName(tools)[k] = tools[i]
<1> DEFINE s == SortedByName(tools)
           n == Len(tools)
<1>1. n \in Nat /\ DOMAIN tools = 1 .. n
  BY LenProperties DEF AreTools
<1>2. DOMAIN s = 1 .. n
  BY <1>1 DEF SortedByName
<1>3. ASSUME NEW k \in DOMAIN tools
      PROVE  \E i \in DOMAIN tools : PlaceByName(tools, i) = k /\ s[k] = tools[i]
  <2> DEFINE i == CHOOSE i \in DOMAIN tools : PlaceByName(tools, i) = k
  <2>1. i \in DOMAIN tools /\ PlaceByName(tools, i) = k
    BY PlacesAreTaken
  <2>2. s[k] = tools[i]
    BY DEF SortedByName
  <2> QED
    BY <2>1, <2>2
<1>4. \A k \in 1 .. n : s[k].name \in Nat
  BY <1>1, <1>3 DEF AreTools
<1>5. s \in Seq(Range(s))
  <2>1. s = [k \in 1 .. n |-> s[k]]
    BY <1>1 DEF SortedByName
  <2> HIDE DEF s
  <2>2. \A k \in 1 .. n : s[k] \in Range(s)
    BY <1>2, Zenon DEF Range
  <2> QED
    BY <1>1, <2>1, <2>2, SeqDef
<1> QED
  BY <1>1, <1>2, <1>3, <1>4, <1>5 DEF AreTools

\* Where no two tools share a name, the place of a tool is a matter of which tools there are.
LEMMA PlaceAmongTools ==
  ASSUME NEW tools, AreTools(tools), Distinctly(tools), NEW i \in DOMAIN tools
  PROVE  PlaceByName(tools, i) = Cardinality({t \in ToSet(tools) : t.name < tools[i].name}) + 1
<1> DEFINE A == {j \in DOMAIN tools : ComesBefore(tools, j, i)}
           B == {t \in ToSet(tools) : t.name < tools[i].name}
           f == [j \in A |-> tools[j]]
<1>1. A = {j \in DOMAIN tools : tools[j].name < tools[i].name}
  <2>1. DOMAIN tools \subseteq Nat /\ \A j \in DOMAIN tools : tools[j].name \in Nat
    BY LenProperties DEF AreTools
  <2> QED
    BY <2>1 DEF ComesBefore, Distinctly
<1>2. f \in [A -> B]
  BY <1>1 DEF ToSet
<1>3. f \in Injection(A, B)
  BY <1>2 DEF Injection, IsInjective, Distinctly
<1>4. f \in Surjection(A, B)
  BY <1>1, <1>2 DEF Surjection, ToSet
<1>5. IsFiniteSet(A)
  <2>1. Len(tools) \in Nat /\ DOMAIN tools = 1 .. Len(tools)
    BY LenProperties DEF AreTools
  <2>2. IsFiniteSet(DOMAIN tools)
    BY <2>1, CountUpTo
  <2>3. A \in SUBSET DOMAIN tools
    OBVIOUS
  <2> HIDE DEF A
  <2> QED
    BY <2>2, <2>3, FS_Subset
<1>6. ExistsBijection(A, B)
  BY <1>3, <1>4 DEF Bijection, ExistsBijection
<1> HIDE DEF A, B
<1>7. Cardinality(A) = Cardinality(B)
  BY <1>5, <1>6, FS_Bijection
<1> QED
  BY <1>7 DEF A, B, PlaceByName

\* The same tools in another order are sorted into the same listing.
LEMMA SortedAlike ==
  ASSUME NEW a, NEW b, AreTools(a), AreTools(b), Distinctly(a), Distinctly(b),
         ToSet(a) = ToSet(b)
  PROVE  SortedByName(a) = SortedByName(b)
<1> DEFINE S == ToSet(a)
           Below(t) == {u \in S : u.name < t.name}
<1>1. Len(a) \in Nat /\ DOMAIN a = 1 .. Len(a) /\ Len(b) \in Nat /\ DOMAIN b = 1 .. Len(b)
  BY LenProperties DEF AreTools
<1>2. ASSUME NEW c, AreTools(c), Distinctly(c), ToSet(c) = S
      PROVE  IsFiniteSet(S) /\ Cardinality(S) = Len(c)
  <2> DEFINE f == [j \in DOMAIN c |-> c[j]]
  <2>1. Len(c) \in Nat /\ DOMAIN c = 1 .. Len(c)
    BY <1>2, LenProperties DEF AreTools
  <2>2. IsFiniteSet(DOMAIN c) /\ Cardinality(DOMAIN c) = Len(c)
    BY <2>1, CountUpTo
  <2>3. f \in Injection(DOMAIN c, S) /\ f \in Surjection(DOMAIN c, S)
    BY <1>2 DEF Injection, Surjection, IsInjective, Distinctly, ToSet
  <2>4. ExistsBijection(DOMAIN c, S)
    BY <2>3 DEF Bijection, ExistsBijection
  <2> HIDE DEF S
  <2> QED
    BY <2>2, <2>4, FS_Bijection
<1>3. IsFiniteSet(S) /\ Len(a) = Len(b)
  <2> HIDE DEF S
  <2>1. ToSet(a) = S /\ ToSet(b) = S
    BY DEF S
  <2> QED
    BY <1>2, <2>1
<1>4. \A t \in S : t.name \in Nat
  BY DEF AreTools, ToSet
<1>5. \A t, u \in S : t.name = u.name => t = u
  BY DEF ToSet, Distinctly
<1>6. ASSUME NEW t \in S, NEW u \in S, t.name < u.name
      PROVE  Cardinality(Below(t)) # Cardinality(Below(u))
  <2>1. t \in Below(u) /\ t \notin Below(t) /\ Below(t) \subseteq Below(u) /\ Below(u) \subseteq S
    BY <1>4, <1>6
  <2> HIDE DEF Below
  <2>2. IsFiniteSet(Below(u))
    BY <1>3, <2>1, FS_Subset
  <2> QED
    BY <2>1, <2>2, FS_Subset
<1>7. ASSUME NEW t \in S, NEW u \in S, Cardinality(Below(t)) = Cardinality(Below(u))
      PROVE  t = u
  <2> HIDE DEF Below, S
  <2>1. ~(t.name < u.name) /\ ~(u.name < t.name)
    BY <1>6, <1>7
  <2>2. t.name \in Nat /\ u.name \in Nat
    BY <1>4
  <2>3. t.name = u.name
    BY <2>1, <2>2
  <2> QED
    BY <1>5, <2>3
<1>8. ASSUME NEW c, AreTools(c), Distinctly(c), ToSet(c) = S, NEW k \in DOMAIN c
      PROVE  SortedByName(c)[k] \in S /\ Cardinality(Below(SortedByName(c)[k])) + 1 = k
  <2>1. PICK i \in DOMAIN c : PlaceByName(c, i) = k /\ SortedByName(c)[k] = c[i]
    BY <1>8, SortingKeepsTools
  <2>2. PlaceByName(c, i) = Cardinality({t \in ToSet(c) : t.name < c[i].name}) + 1
    BY <1>8, PlaceAmongTools
  <2>3. c[i] \in ToSet(c)
    BY DEF ToSet
  <2> QED
    BY <1>8, <2>1, <2>2, <2>3
<1>9. ASSUME NEW k \in DOMAIN a PROVE SortedByName(a)[k] = SortedByName(b)[k]
  <2> DEFINE t == SortedByName(a)[k]
             u == SortedByName(b)[k]
  <2>1. k \in DOMAIN b /\ k \in Nat
    BY <1>1, <1>3
  <2>2. t \in S /\ Cardinality(Below(t)) + 1 = k /\ u \in S /\ Cardinality(Below(u)) + 1 = k
    <3> HIDE DEF Below
    <3> QED
      BY <1>8, <2>1
  <2> HIDE DEF t, u
  <2>3. IsFiniteSet(Below(t)) /\ IsFiniteSet(Below(u))
    <3>1. Below(t) \subseteq S /\ Below(u) \subseteq S
      OBVIOUS
    <3> HIDE DEF Below, S
    <3> QED
      BY <1>3, <3>1, FS_Subset
  <2>4. Cardinality(Below(t)) \in Nat /\ Cardinality(Below(u)) \in Nat
    <3> HIDE DEF Below, S
    <3> QED
      BY <2>3, FS_CardinalityType
  <2>5. t = u
    <3> HIDE DEF Below, S
    <3>1. Cardinality(Below(t)) = Cardinality(Below(u))
      BY <2>2, <2>4
    <3> QED
      BY <1>7, <2>2, <3>1
  <2> QED
    BY <2>5 DEF t, u
<1> QED
  BY <1>1, <1>3, <1>9 DEF SortedByName

Listed(said) == ~said.failed /\ said.result.kind = "listing" => AreTools(said.result.tools)
ToolsKept(server, tools) ==
  LET kept == Kept(tools) IN [k \in DOMAIN kept |-> Namespaced(server, kept[k])]
KeptAsHeard(server) ==
  heard[server] # Nobody =>
    /\ AreTools(heard[server].tools)
    /\ catalogs[server].tools = ToolsKept(server, heard[server].tools)
HeardInv ==
  /\ offered \in Offers
  /\ \A k \in DOMAIN mail :
       mail[k].server \in Servers /\ (mail[k].stage = "answered" => Listed(mail[k].reply))
  /\ catalogs = [s \in Servers |-> catalogs[s]] /\ heard = [s \in Servers |-> heard[s]]
  /\ \A s \in Servers : KeptAsHeard(s)

LEMMA SendIsHeard ==
  ASSUME McpInv, HeardInv, NEW from, NEW server \in Servers, NEW request,
         Send(from, server, request), UNCHANGED <<offered, catalogs, heard>>
  PROVE  HeardInv'
<1> DEFINE m == [from |-> from, server |-> server, request |-> request, stage |-> "sent",
                 known |-> Nobody, reply |-> Nobody]
<1>1. \A k \in DOMAIN mail' : (k \in DOMAIN mail /\ mail'[k] = mail[k]) \/ mail'[k] = m
  BY SentLast
<1>2. m.server = server /\ m.stage = "sent"
  OBVIOUS
<1> HIDE DEF m
<1>3. \A k \in DOMAIN mail' :
        mail'[k].server \in Servers /\ (mail'[k].stage = "answered" => Listed(mail'[k].reply))
  BY <1>1, <1>2 DEF HeardInv
<1>4. \A s \in Servers : KeptAsHeard(s)'
  BY DEF HeardInv, KeptAsHeard
<1> QED
  BY <1>3, <1>4 DEF HeardInv

LEMMA MoveIsHeard ==
  ASSUME McpInv, HeardInv, NEW k \in DOMAIN mail, NEW stage, NEW known, NEW said,
         Moves(k, stage, known, said), stage = "answered" => Listed(said)
  PROVE  \A j \in DOMAIN mail' :
           mail'[j].server \in Servers /\ (mail'[j].stage = "answered" => Listed(mail'[j].reply))
<1> DEFINE m == [from |-> mail[k].from, server |-> mail[k].server,
                 request |-> mail[k].request, stage |-> stage, known |-> known,
                 reply |-> said]
<1>1. /\ DOMAIN mail' = DOMAIN mail
      /\ \A j \in DOMAIN mail : mail'[j] = IF j = k THEN m ELSE mail[j]
  BY Moved
<1>2. m.server = mail[k].server /\ m.stage = stage /\ m.reply = said
  OBVIOUS
<1> HIDE DEF m
<1> QED
  BY <1>1, <1>2 DEF HeardInv

LEMMA MoveKeepsHeard ==
  ASSUME McpInv, HeardInv, NEW k \in DOMAIN mail, NEW stage, NEW known, NEW said,
         Moves(k, stage, known, said), stage = "answered" => Listed(said),
         UNCHANGED <<offered, catalogs, heard>>
  PROVE  HeardInv'
<1>1. \A j \in DOMAIN mail' :
        mail'[j].server \in Servers /\ (mail'[j].stage = "answered" => Listed(mail'[j].reply))
  BY MoveIsHeard
<1>2. \A s \in Servers : KeptAsHeard(s)'
  BY DEF HeardInv, KeptAsHeard
<1> QED
  BY <1>1, <1>2 DEF HeardInv

LEMMA AnswerKeepsHeard ==
  ASSUME McpInv, HeardInv, NEW k \in DOMAIN mail, NEW said, Answers(k, said), Listed(said),
         UNCHANGED <<offered, catalogs, heard>>
  PROVE  HeardInv'
<1>1. Moves(k, "answered", mail[k].known, said)
  BY DEF Answers
<1> QED
  BY <1>1, MoveKeepsHeard

LEMMA SomeAreNoListing ==
  /\ \A code : Listed(Failure(code))
  /\ \A kind, text : kind # "listing" => Listed(Success(ResultOf(kind, text)))
BY DEF Listed, Failure, Success, ResultOf

LEMMA OwnListingIsListed == HeardInv => Listed(OwnListing)
<1> SUFFICES ASSUME HeardInv PROVE Listed(OwnListing)
  OBVIOUS
<1>1. CASE offered = Unavailable
  BY <1>1, SomeAreNoListing DEF OwnListing
<1>2. CASE offered # Unavailable
  <2>1. AreTools(offered)
    BY <1>2, ListingAssumption DEF HeardInv
  <2>2. AreTools(SortedByName(offered))
    BY <2>1, SortingKeepsTools
  <2>3. OwnListing.result.tools = SortedByName(offered)
    BY <1>2 DEF OwnListing, Success, Listing
  <2> QED
    BY <2>2, <2>3, Zenon DEF Listed
<1> QED
  BY <1>1, <1>2

LEMMA HandleKeepsHeard ==
  ASSUME McpInv, HeardInv, NEW k \in DOMAIN mail, Handle(k)
  PROVE  HeardInv'
<1>1. UNCHANGED <<offered, catalogs, heard>>
  BY DEF Handle
<1>2. \/ \E known : Moves(k, "checked", known, Nobody)
      \/ Moves(k, "ignored", Nobody, Nobody)
      \/ \E code : Answers(k, Failure(code))
      \/ Answers(k, Success(ResultOf("identity", "none")))
      \/ Answers(k, Success(ResultOf("tool_error", "InvalidArgs")))
      \/ Answers(k, OwnListing)
  BY Zenon DEF Handle
<1>3. ASSUME NEW known, Moves(k, "checked", known, Nobody) \/ Moves(k, "ignored", known, Nobody)
      PROVE  HeardInv'
  BY <1>1, <1>3, MoveKeepsHeard
<1>4. ASSUME NEW said, Answers(k, said), Listed(said) PROVE HeardInv'
  BY <1>1, <1>4, AnswerKeepsHeard
<1>5. Listed(Success(ResultOf("identity", "none"))) /\ Listed(Success(ResultOf("tool_error", "InvalidArgs")))
  BY SomeAreNoListing
<1> QED
  BY <1>2, <1>3, <1>4, <1>5, SomeAreNoListing, OwnListingIsListed

LEMMA DispatchKeepsHeard ==
  ASSUME McpInv, HeardInv, NEW k \in DOMAIN mail, Dispatch(k)
  PROVE  HeardInv'
<1>1. UNCHANGED <<offered, catalogs, heard>>
  BY DEF Dispatch
<1>2. \E kind, text : kind # "listing" /\ Answers(k, Success(ResultOf(kind, text)))
  <2>1. \/ Answers(k, Success(ResultOf("tool_error", "Failed")))
        \/ Answers(k, Success(ResultOf("input_required", "token")))
        \/ Answers(k, Success(ResultOf("content", "none")))
    BY Zenon DEF Dispatch
  <2>2. /\ "tool_error" # "listing" /\ "input_required" # "listing" /\ "content" # "listing"
    OBVIOUS
  <2> QED
    BY <2>1, <2>2, Zenon
<1>3. PICK said : Answers(k, said) /\ Listed(said)
  BY <1>2, SomeAreNoListing, Zenon
<1> QED
  BY <1>1, <1>3, AnswerKeepsHeard

LEMMA ReadingKeepsHeard ==
  ASSUME McpInv, HeardInv, NEW k \in DOMAIN mail, ClientReads(k)
  PROVE  HeardInv'
<1> DEFINE said == mail[k].reply
           server == mail[k].server
<1>1. Moves(k, "done", mail[k].known, said) /\ UNCHANGED offered
  BY DEF ClientReads
<1>2. \A j \in DOMAIN mail' :
        mail'[j].server \in Servers /\ (mail'[j].stage = "answered" => Listed(mail'[j].reply))
  BY <1>1, MoveIsHeard
<1>3. Listed(said) /\ server \in Servers
  BY DEF ClientReads, HeardInv
<1>4. \/ UNCHANGED <<catalogs, heard>>
      \/ /\ ~said.failed /\ said.result.kind = "listing"
         /\ catalogs' = [catalogs EXCEPT ![server] = Catalog(server, said.result)]
         /\ heard' = [heard EXCEPT ![server] = said.result]
  BY Zenon DEF ClientReads
<1>5. CASE UNCHANGED <<catalogs, heard>>
  <2>1. \A s \in Servers : KeptAsHeard(s)'
    BY <1>5 DEF HeardInv, KeptAsHeard
  <2> QED
    BY <1>1, <1>2, <1>5, <2>1 DEF HeardInv
<1>6. CASE /\ ~said.failed /\ said.result.kind = "listing"
           /\ catalogs' = [catalogs EXCEPT ![server] = Catalog(server, said.result)]
           /\ heard' = [heard EXCEPT ![server] = said.result]
  <2> DEFINE result == said.result
             catalog == Catalog(server, result)
  <2>1. AreTools(result.tools) /\ catalog.tools = ToolsKept(server, result.tools)
    BY <1>3, <1>6 DEF Listed, Catalog, ToolsKept
  <2> HIDE DEF catalog, result
  <2>2. /\ catalogs = [s \in Servers |-> catalogs[s]] /\ heard = [s \in Servers |-> heard[s]]
        /\ catalogs' = [catalogs EXCEPT ![server] = catalog]
        /\ heard' = [heard EXCEPT ![server] = result]
    BY <1>6 DEF HeardInv, catalog, result
  <2> HIDE DEF server, said
  <2>3. /\ catalogs' = [s \in Servers |-> IF s = server THEN catalog ELSE catalogs[s]]
        /\ heard' = [s \in Servers |-> IF s = server THEN result ELSE heard[s]]
    BY <2>2
  <2>4. catalogs' = [s \in Servers |-> catalogs'[s]] /\ heard' = [s \in Servers |-> heard'[s]]
    BY <2>3
  <2>5. ASSUME NEW s \in Servers PROVE KeptAsHeard(s)'
    <3>1. CASE s = server
      <4>1. catalogs'[s] = catalog /\ heard'[s] = result
        BY <2>3, <3>1
      <4> QED
        BY <2>1, <3>1, <4>1 DEF KeptAsHeard
    <3>2. CASE s # server
      <4>1. catalogs'[s] = catalogs[s] /\ heard'[s] = heard[s]
        BY <2>3, <3>2
      <4> QED
        BY <4>1 DEF KeptAsHeard, HeardInv
    <3> QED
      BY <3>1, <3>2
  <2> QED
    BY <1>1, <1>2, <2>4, <2>5 DEF HeardInv
<1> QED
  BY <1>4, <1>5, <1>6

LEMMA HeardStep ==
  ASSUME McpInv, HeardInv, [McpNext]_mcpVars
  PROVE  HeardInv'
<1>1. ASSUME NEW s \in Servers, NEW method, NEW name, NEW args, ClientCalls(s, method, name, args)
      PROVE  HeardInv'
  <2>1. PICK request : Send("client", s, request)
    BY <1>1 DEF ClientCalls
  <2>2. UNCHANGED <<offered, catalogs, heard>>
    BY <1>1 DEF ClientCalls
  <2> QED
    BY <2>1, <2>2, SendIsHeard
<1>2. ASSUME NEW s \in Servers, Negotiate(s) \/ ListTools(s) PROVE HeardInv'
  BY <1>1, <1>2 DEF Negotiate, ListTools
<1>3. ASSUME NEW s \in Servers, NEW name \in 1 .. 2, NEW args \in Arguments, CallTool(s, name, args)
      PROVE  HeardInv'
  BY <1>1, <1>3 DEF CallTool
<1>4. ASSUME NEW request \in PeerRequests, PeerSends(request) PROVE HeardInv'
  <2>1. Own \in Servers
    BY DEF Servers
  <2>2. Send("peer", Own, request) /\ UNCHANGED <<offered, catalogs, heard>>
    BY <1>4 DEF PeerSends
  <2> QED
    BY <2>1, <2>2, SendIsHeard
<1>5. CASE (\E offer \in Offers : OfferChanges(offer)) \/ UNCHANGED mcpVars
  <2>1. offered' \in Offers /\ UNCHANGED <<mail, catalogs, heard>>
    BY <1>5 DEF OfferChanges, mcpVars, HeardInv
  <2>2. \A s \in Servers : KeptAsHeard(s)'
    BY <2>1 DEF HeardInv, KeptAsHeard
  <2> QED
    BY <2>1, <2>2 DEF HeardInv
<1>6. ASSUME NEW k \in DOMAIN mail,
             \/ \E r \in ForeignResults : ForeignAnswers(k, Success(r))
             \/ ForeignAnswers(k, Failure("METHOD_NOT_FOUND"))
      PROVE  HeardInv'
  <2>1. \A r \in ForeignResults : Listed(Success(r))
    BY ListingAssumption DEF Listed, Success
  <2>2. PICK said : ForeignAnswers(k, said) /\ Listed(said)
    BY <1>6, <2>1, SomeAreNoListing
  <2>3. Answers(k, said) /\ UNCHANGED <<offered, catalogs, heard>>
    BY <2>2 DEF ForeignAnswers
  <2> QED
    BY <2>2, <2>3, AnswerKeepsHeard
<1>7. ASSUME NEW k \in DOMAIN mail, TransportFails(k) PROVE HeardInv'
  <2>1. Moves(k, "lost", mail[k].known, mail[k].reply) /\ UNCHANGED <<offered, catalogs, heard>>
    BY <1>7 DEF TransportFails
  <2> QED
    BY <2>1, MoveKeepsHeard
<1> QED
  BY <1>2, <1>3, <1>4, <1>5, <1>6, <1>7, HandleKeepsHeard, DispatchKeepsHeard, ReadingKeepsHeard
  DEF McpNext

\* "A server that reorders its listing" (client.rs) does not change what the client keeps:
\* between any two listings of the same tools, none of them named twice, the catalog of a
\* server is the same, whatever else is heard in between two steps.
THEOREM OrderIsForgotten == McpSpec => ReorderingCostsNothing
<1>1. McpInit => HeardInv
  <2> SUFFICES ASSUME McpInit PROVE HeardInv
    OBVIOUS
  <2>1. /\ offered \in Offers /\ mail = <<>>
        /\ catalogs = [s \in Servers |-> Nobody] /\ heard = [s \in Servers |-> Nobody]
    BY DEF McpInit
  <2>2. DOMAIN mail = {}
    BY <2>1
  <2>3. catalogs = [s \in Servers |-> catalogs[s]] /\ heard = [s \in Servers |-> heard[s]]
    BY <2>1
  <2>4. \A s \in Servers : heard[s] = Nobody
    BY <2>1
  <2> QED
    BY <2>1, <2>2, <2>3, <2>4 DEF HeardInv, KeptAsHeard
<1>2. McpInv /\ HeardInv /\ [McpNext]_mcpVars => HeardInv'
  BY HeardStep
<1> DEFINE Forgets ==
      \A s \in Servers :
        /\ heard[s] # Nobody
        /\ heard'[s] # Nobody
        /\ Distinctly(heard[s].tools) /\ Distinctly(heard'[s].tools)
        /\ ToSet(heard[s].tools) = ToSet(heard'[s].tools)
        => catalogs'[s].tools = catalogs[s].tools
<1>3. HeardInv /\ HeardInv' => Forgets
  <2> SUFFICES ASSUME HeardInv, HeardInv', NEW s \in Servers,
                      heard[s] # Nobody, heard'[s] # Nobody,
                      Distinctly(heard[s].tools), Distinctly(heard'[s].tools),
                      ToSet(heard[s].tools) = ToSet(heard'[s].tools)
               PROVE  catalogs'[s].tools = catalogs[s].tools
    OBVIOUS
  <2>1. PICK a, b : a = heard[s].tools /\ b = heard'[s].tools
    OBVIOUS
  <2>2. AreTools(a) /\ catalogs[s].tools = ToolsKept(s, a)
    BY <2>1 DEF HeardInv, KeptAsHeard
  <2>3. AreTools(b) /\ catalogs'[s].tools = ToolsKept(s, b)
    BY <2>1 DEF HeardInv, KeptAsHeard
  <2>4. SortedByName(a) = SortedByName(b)
    BY <2>1, <2>2, <2>3, SortedAlike
  <2>5. Kept(a) = Kept(b)
    BY <2>4 DEF Kept
  <2>6. ToolsKept(s, a) = ToolsKept(s, b)
    BY <2>5 DEF ToolsKept
  <2> QED
    BY <2>2, <2>3, <2>6
<1>4. HeardInv /\ HeardInv' => [Forgets]_mcpVars
  BY <1>3
<1>5. McpSpec => [][Forgets]_mcpVars
  <2> HIDE DEF Forgets
  <2> QED
    BY <1>1, <1>2, <1>4, McpHolds, PTL DEF McpSpec
<1> QED
  BY <1>5 DEF ReorderingCostsNothing

--------------------------------------------------------------------------------
(* However often a stream of events is squeezed, and by whom, only deltas  *)
(* are lost of it, and they are counted.  The invariant has to know of     *)
(* what is still pending, the events no frame is made for included, that   *)
(* it comes after what is shown.                                           *)

\* One list of events is another one with some left out.
Ordered(s) == \A i, j \in DOMAIN s : i < j => s[i].seq < s[j].seq
Thins(a, b) ==
  /\ \A i \in DOMAIN a : \E j \in DOMAIN b : a[i] = b[j]
  /\ Ordered(b) => Ordered(a)

LEMMA OrderedGrows ==
  ASSUME NEW S, NEW s \in Seq(S), NEW e \in S
  PROVE  Ordered(Append(s, e)) <=> Ordered(s) /\ \A i \in DOMAIN s : s[i].seq < e.seq
<1> DEFINE more == Append(s, e)
           n == Len(s)
<1>1. /\ n \in Nat /\ DOMAIN s = 1 .. n /\ DOMAIN more = 1 .. n + 1
      /\ more[n + 1] = e /\ \A i \in 1 .. n : more[i] = s[i]
  BY AppendProperties, LenProperties
<1> HIDE DEF more, n
<1>2. ASSUME Ordered(more) PROVE Ordered(s) /\ \A i \in DOMAIN s : s[i].seq < e.seq
  <2>1. \A i, j \in 1 .. n : i < j => s[i].seq < s[j].seq
    <3>1. \A i \in 1 .. n : i \in 1 .. n + 1
      BY <1>1
    <3> QED
      BY <1>1, <1>2, <3>1 DEF Ordered
  <2>2. \A i \in 1 .. n : i \in 1 .. n + 1 /\ n + 1 \in 1 .. n + 1 /\ i < n + 1
    BY <1>1
  <2>3. \A i \in 1 .. n : more[i].seq < more[n + 1].seq
    BY <1>1, <1>2, <2>2 DEF Ordered
  <2> QED
    BY <1>1, <2>1, <2>3 DEF Ordered
<1>3. ASSUME Ordered(s), \A i \in DOMAIN s : s[i].seq < e.seq PROVE Ordered(more)
  <2> SUFFICES ASSUME NEW i \in 1 .. n + 1, NEW j \in 1 .. n + 1, i < j
               PROVE  more[i].seq < more[j].seq
    BY <1>1 DEF Ordered
  <2>1. i \in 1 .. n
    BY <1>1
  <2>2. CASE j = n + 1
    BY <1>1, <1>3, <2>1, <2>2
  <2>3. CASE j # n + 1
    <3>1. j \in 1 .. n
      BY <1>1, <2>3
    <3> QED
      BY <1>1, <1>3, <2>1, <3>1 DEF Ordered
  <2> QED
    BY <2>2, <2>3
<1> QED
  BY <1>2, <1>3 DEF more

LEMMA OrderedJoins ==
  ASSUME NEW S, NEW a \in Seq(S), NEW b \in Seq(S), Ordered(a), Ordered(b),
         \A i \in DOMAIN a, j \in DOMAIN b : a[i].seq < b[j].seq
  PROVE  Ordered(a \o b)
<1> DEFINE c == a \o b
           m == Len(a)
           n == Len(b)
<1>1. m \in Nat /\ n \in Nat /\ DOMAIN a = 1 .. m /\ DOMAIN b = 1 .. n
  BY LenProperties
<1>2. c \in Seq(S) /\ Len(c) = m + n
      /\ \A i \in 1 .. m + n : c[i] = IF i <= m THEN a[i] ELSE b[i - m]
  BY ONLY a \in Seq(S), b \in Seq(S), ConcatProperties
<1> HIDE DEF c
<1>3. DOMAIN c = 1 .. m + n
  BY <1>2, LenProperties
<1> HIDE DEF m, n
<1> SUFFICES ASSUME NEW i \in 1 .. m + n, NEW j \in 1 .. m + n, i < j
             PROVE  c[i].seq < c[j].seq
  BY <1>3 DEF Ordered, c
<1>4. CASE j <= m
  <2>1. i \in 1 .. m /\ j \in 1 .. m /\ i <= m
    BY <1>1, <1>4
  <2>2. a[i].seq < a[j].seq
    BY <1>1, <2>1 DEF Ordered
  <2> QED
    BY <1>2, <1>4, <2>1, <2>2
<1>5. CASE i <= m /\ ~(j <= m)
  <2>1. i \in 1 .. m /\ j - m \in 1 .. n
    BY <1>1, <1>5
  <2>2. a[i].seq < b[j - m].seq
    BY <1>1, <2>1
  <2> QED
    BY <1>2, <1>5, <2>2
<1>6. CASE ~(i <= m)
  <2>1. i - m \in 1 .. n /\ j - m \in 1 .. n /\ i - m < j - m /\ ~(j <= m)
    BY <1>1, <1>6
  <2>2. b[i - m].seq < b[j - m].seq
    BY <1>1, <2>1 DEF Ordered
  <2> QED
    BY <1>2, <1>6, <2>1, <2>2
<1> QED
  BY <1>4, <1>5, <1>6

LEMMA ThinsGrow ==
  ASSUME NEW S, NEW a \in Seq(S), NEW b \in Seq(S), NEW e \in S, Thins(a, b)
  PROVE  Thins(Append(a, e), Append(b, e)) /\ Thins(a, Append(b, e))
<1> DEFINE m == Len(a)
           n == Len(b)
           c == Append(a, e)
           d == Append(b, e)
<1>1. /\ m \in Nat /\ n \in Nat
      /\ DOMAIN a = 1 .. m /\ DOMAIN c = 1 .. m + 1
      /\ c[m + 1] = e /\ \A i \in 1 .. m : c[i] = a[i]
      /\ DOMAIN b = 1 .. n /\ DOMAIN d = 1 .. n + 1
      /\ d[n + 1] = e /\ \A i \in 1 .. n : d[i] = b[i]
  BY AppendProperties, LenProperties
<1>2. /\ Ordered(c) <=> Ordered(a) /\ \A i \in DOMAIN a : a[i].seq < e.seq
      /\ Ordered(d) <=> Ordered(b) /\ \A i \in DOMAIN b : b[i].seq < e.seq
  BY OrderedGrows
<1> HIDE DEF m, n, c, d
<1>3. \A i \in DOMAIN a : \E j \in DOMAIN b : a[i] = b[j]
  BY DEF Thins
<1>4. Ordered(d) => Ordered(a) /\ \A i \in DOMAIN a : a[i].seq < e.seq
  BY <1>2, <1>3 DEF Thins
<1>5. \A i \in DOMAIN a : \E j \in DOMAIN d : a[i] = d[j]
  <2>1. \A j \in 1 .. n : j \in 1 .. n + 1 /\ d[j] = b[j]
    BY <1>1
  <2> QED
    BY <1>1, <1>3, <2>1
<1>6. \A i \in DOMAIN c : \E j \in DOMAIN d : c[i] = d[j]
  <2> SUFFICES ASSUME NEW i \in 1 .. m + 1 PROVE \E j \in DOMAIN d : c[i] = d[j]
    BY <1>1
  <2>1. CASE i = m + 1
    <3>1. n + 1 \in DOMAIN d
      BY <1>1
    <3> QED
      BY <1>1, <2>1, <3>1
  <2>2. CASE i # m + 1
    <3>1. i \in 1 .. m
      BY <1>1, <2>2
    <3> QED
      BY <1>1, <1>5, <3>1
  <2> QED
    BY <2>1, <2>2
<1> QED
  BY <1>2, <1>4, <1>5, <1>6 DEF Thins, c, d

\* Leaving a kind out thins a log, and doing it twice is doing it once.
LEMMA OfKindsThins ==
  ASSUME NEW S, NEW log \in Seq(S), NEW kinds
  PROVE  Thins(OfKinds(log, kinds), log)
<1> DEFINE C == {s \in Seq(S) : Thins(OfKinds(s, kinds), s)}
<1>1. <<>> \in C
  <2>1. OfKinds(<<>>, kinds) = <<>> /\ <<>> \in Seq(S)
    BY OfKindsOfNothing
  <2>2. Thins(<<>>, <<>>)
    BY DEF Thins
  <2> QED
    BY <2>1, <2>2
<1>2. ASSUME NEW s \in C, NEW e \in S PROVE Append(s, e) \in C
  <2> DEFINE a == OfKinds(s, kinds)
  <2>1. s \in Seq(S) /\ Append(s, e) \in Seq(S) /\ Thins(a, s)
    BY AppendProperties
  <2>2. a \in Seq(S)
    <3>1. a \in Seq(OfSorts(S, kinds)) /\ OfSorts(S, kinds) \subseteq S
      BY <2>1, OfKindsType DEF OfSorts
    <3> QED
      BY <3>1, SeqMonotonic
  <2>3. OfKinds(Append(s, e), kinds) = IF e.kind \in kinds THEN Append(a, e) ELSE a
    BY <2>1, OfKindsGrows
  <2> HIDE DEF a
  <2>4. Thins(Append(a, e), Append(s, e)) /\ Thins(a, Append(s, e))
    BY <2>1, <2>2, ThinsGrow
  <2>5. Thins(OfKinds(Append(s, e), kinds), Append(s, e))
    <3>1. CASE e.kind \in kinds
      BY <2>3, <2>4, <3>1
    <3>2. CASE e.kind \notin kinds
      BY <2>3, <2>4, <3>2
    <3> QED
      BY <3>1, <3>2
  <2> QED
    BY <2>1, <2>5
<1>3. C = Seq(S)
  <2> HIDE DEF C
  <2>1. C \in SUBSET Seq(S)
    BY DEF C
  <2> QED
    BY <1>1, <1>2, <2>1, SequenceInduction
<1> QED
  BY <1>3

LEMMA OfKindsTwice ==
  ASSUME NEW S, NEW log \in Seq(S), NEW K, NEW L
  PROVE  OfKinds(OfKinds(log, K), L) = OfKinds(log, K \cap L)
<1> DEFINE Once(s) == OfKinds(OfKinds(s, K), L) = OfKinds(s, K \cap L)
           C == {s \in Seq(S) : Once(s)}
<1>1. <<>> \in C
  BY OfKindsOfNothing, EmptySeq
<1>2. ASSUME NEW s \in C, NEW e \in S PROVE Append(s, e) \in C
  <2> DEFINE a == OfKinds(s, K)
             J == K \cap L
             more == Append(s, e)
  <2>1. s \in Seq(S) /\ more \in Seq(S) /\ Once(s)
    BY AppendProperties
  <2>2. a \in Seq(S)
    <3>1. a \in Seq(OfSorts(S, K)) /\ OfSorts(S, K) \subseteq S
      BY <2>1, OfKindsType DEF OfSorts
    <3> QED
      BY <3>1, SeqMonotonic
  <2>3. OfKinds(more, K) = IF e.kind \in K THEN Append(a, e) ELSE a
    BY <2>1, OfKindsGrows
  <2>4. OfKinds(a, L) = OfKinds(s, J)
    BY <2>1
  <2>5. OfKinds(more, J) = IF e.kind \in J THEN Append(OfKinds(s, J), e) ELSE OfKinds(s, J)
    <3> HIDE DEF J
    <3> QED
      BY <2>1, OfKindsGrows
  <2>6. e.kind \in J <=> e.kind \in K /\ e.kind \in L
    OBVIOUS
  <2> HIDE DEF a, J, more
  <2>7. OfKinds(Append(a, e), L) = IF e.kind \in L THEN Append(OfKinds(a, L), e) ELSE OfKinds(a, L)
    BY <2>2, OfKindsGrows
  <2>8. OfKinds(OfKinds(more, K), L) = OfKinds(more, J)
    <3>1. CASE e.kind \in K
      BY <2>3, <2>4, <2>5, <2>6, <2>7, <3>1
    <3>2. CASE e.kind \notin K
      BY <2>3, <2>4, <2>5, <2>6, <3>2
    <3> QED
      BY <3>1, <3>2
  <2> QED
    BY <2>1, <2>8 DEF J, more
<1>3. C = Seq(S)
  <2> HIDE DEF C
  <2>1. C \in SUBSET Seq(S)
    BY DEF C
  <2> QED
    BY <1>1, <1>2, <2>1, SequenceInduction
<1> QED
  BY <1>3
--------------------------------------------------------------------------------
(* Squeezing.                                                              *)

Outs(S) == [kept : Seq(S), dropped : Nat]
Empty == [kept |-> <<>>, dropped |-> 0]
Squeezes(log, capacity, S) ==
  [i \in 1 .. Len(log) |-> [a \in Outs(S) |-> Squeezing(a, log[i], capacity)]]

LEMMA SqueezesType ==
  ASSUME NEW S, NEW log \in Seq(S), NEW capacity
  PROVE  /\ Squeezes(log, capacity, S) \in [1 .. Len(log) -> [Outs(S) -> Outs(S)]]
         /\ Empty \in Outs(S)
<1>1. ASSUME NEW a \in Outs(S), NEW e \in S PROVE Squeezing(a, e, capacity) \in Outs(S)
  <2>1. a.kept \in Seq(S) /\ a.dropped \in Nat
    BY DEF Outs
  <2>2. Append(a.kept, e) \in Seq(S) /\ a.dropped + 1 \in Nat
    BY <2>1, AppendProperties
  <2> QED
    BY <2>1, <2>2 DEF Squeezing, Outs
<1>2. \A i \in 1 .. Len(log) : log[i] \in S
  BY ElementOfSeq
<1> QED
  BY <1>1, <1>2, EmptySeq DEF Squeezes, Outs, Empty

LEMMA SqueezedFollows ==
  ASSUME NEW S, NEW log \in Seq(S), NEW capacity
  PROVE  \E f \in [0 .. Len(log) -> Outs(S)] :
           /\ Follows(f, Len(log), Outs(S), Empty, Squeezes(log, capacity, S))
           /\ Squeezed(log, capacity) = f[Len(log)]
<1> DEFINE n == Len(log)
           A == Outs(S)
           step == Squeezes(log, capacity, S)
           Run(f) == f = [i \in 0 .. n |-> IF i = 0 THEN Empty
                                           ELSE Squeezing(f[i - 1], log[i], capacity)]
           g == CHOOSE f : Run(f)
<1>1. n \in Nat /\ DOMAIN log = 1 .. n /\ \A i \in 1 .. n : log[i] \in S
  BY LenProperties, ElementOfSeq
<1>2. step \in [1 .. n -> [A -> A]] /\ Empty \in A
  BY SqueezesType
<1>3. PICK h \in [0 .. n -> A] : Follows(h, n, A, Empty, step)
  <2> DEFINE base == Empty
  <2> HIDE DEF n, step, A, base
  <2>1. base \in A
    BY <1>2 DEF base
  <2>2. \E h \in [0 .. n -> A] : Follows(h, n, A, base, step)
    BY <1>1, <1>2, <2>1, RunExists
  <2> QED
    BY <2>2 DEF base
<1>4. \A i \in 1 .. n : i - 1 \in 0 .. n /\ i \in 0 .. n /\ i # 0
  BY <1>1
<1>5. \A i \in 1 .. n : \A a \in A : step[i][a] = Squeezing(a, log[i], capacity)
  BY DEF Squeezes
<1> HIDE DEF A
<1>6. Run(h)
  <2>1. ASSUME NEW i \in 0 .. n
        PROVE  h[i] = IF i = 0 THEN Empty ELSE Squeezing(h[i - 1], log[i], capacity)
    <3>1. CASE i = 0
      BY <1>3, <3>1 DEF Follows
    <3>2. CASE i # 0
      <4>1. i \in 1 .. n /\ h[i - 1] \in A
        BY <1>1, <1>3, <3>2
      <4>2. h[i] = step[i][h[i - 1]]
        BY <1>3, <4>1 DEF Follows
      <4> HIDE DEF step
      <4> QED
        BY <1>5, <3>2, <4>1, <4>2
    <3> QED
      BY <3>1, <3>2
  <2> QED
    BY <1>3, <2>1
<1>7. Run(g)
  BY <1>6
<1>8. Follows(g, n, A, Empty, step)
  <2>1. g[0] = Empty
    <3>1. 0 \in 0 .. n
      BY <1>1
    <3> HIDE DEF g
    <3> QED
      BY <1>7, <3>1
  <2>2. ASSUME NEW i \in 1 .. n, g[i - 1] \in A
        PROVE  g[i] = step[i][g[i - 1]]
    <3>1. g[i] = Squeezing(g[i - 1], log[i], capacity)
      <4> HIDE DEF g
      <4> QED
        BY <1>4, <1>7
    <3> HIDE DEF step, g
    <3> QED
      BY <1>5, <2>2, <3>1
  <2> HIDE DEF g
  <2> QED
    BY <2>1, <2>2 DEF Follows
<1>9. Squeezed(log, capacity) = g[n]
  BY DEF Squeezed, Empty
<1>10. g[n] = h[n]
  <2>1. n \in 0 .. n
    BY <1>1
  <2> DEFINE base == Empty
  <2>2. base \in A /\ Follows(g, n, A, base, step) /\ Follows(h, n, A, base, step)
    BY <1>2, <1>3, <1>8
  <2> HIDE DEF n, step, g, base
  <2>3. \A i \in 0 .. n : g[i] = h[i]
    BY <1>1, <1>2, <2>2, RunsAgree
  <2> QED
    BY <2>1, <2>3
<1> QED
  BY <1>3, <1>9, <1>10 DEF A

LEMMA SqueezedOfNothing ==
  ASSUME NEW capacity
  PROVE  Squeezed(<<>>, capacity) = Empty
<1>1. <<>> \in Seq({}) /\ Len(<<>>) = 0
  OBVIOUS
<1>2. PICK f : /\ Follows(f, Len(<<>>), Outs({}), Empty, Squeezes(<<>>, capacity, {}))
               /\ Squeezed(<<>>, capacity) = f[Len(<<>>)]
  BY <1>1, SqueezedFollows
<1> QED
  BY <1>1, <1>2 DEF Follows

\* A longer list is squeezed like the shorter one, and then its last event is.
LEMMA SqueezedGrows ==
  ASSUME NEW S, NEW log \in Seq(S), NEW e \in S, NEW capacity
  PROVE  /\ Squeezed(log, capacity) \in Outs(S)
         /\ Squeezed(Append(log, e), capacity) = Squeezing(Squeezed(log, capacity), e, capacity)
<1> DEFINE A == Outs(S)
           base == Empty
           n == Len(log)
           more == Append(log, e)
           s == Squeezes(log, capacity, S)
           t == Squeezes(more, capacity, S)
<1>1. /\ more \in Seq(S) /\ Len(more) = n + 1 /\ n \in Nat
      /\ more[n + 1] = e /\ \A i \in 1 .. n : more[i] = log[i]
  BY AppendProperties, LenProperties
<1>2. PICK f \in [0 .. n -> A] :
        Follows(f, n, A, base, s) /\ Squeezed(log, capacity) = f[n]
  BY SqueezedFollows
<1>3. PICK g : Follows(g, n + 1, A, base, t) /\ Squeezed(more, capacity) = g[n + 1]
  <2>1. \E g \in [0 .. Len(more) -> A] :
          Follows(g, Len(more), A, base, t) /\ Squeezed(more, capacity) = g[Len(more)]
    <3> HIDE DEF more
    <3> QED
      BY <1>1, SqueezedFollows
  <2> HIDE DEF t, more
  <2> QED
    BY <1>1, <2>1
<1>4. \A i \in 1 .. n : t[i] = s[i]
  BY <1>1 DEF Squeezes
<1>5. s \in [1 .. n -> [A -> A]] /\ base \in A
  BY SqueezesType
<1>6. f[n] \in A /\ g[n + 1] = t[n + 1][f[n]]
  <2>1. n \in Nat /\ base \in A /\ s \in [1 .. n -> [A -> A]]
    BY <1>1, <1>5
  <2>2. Follows(f, n, A, base, s) /\ Follows(g, n + 1, A, base, t)
    BY <1>2, <1>3
  <2> HIDE DEF n, s, t, A, base, more
  <2> QED
    BY <1>4, <2>1, <2>2, RunGrows
<1>7. \A a \in A : t[n + 1][a] = Squeezing(a, e, capacity)
  BY <1>1 DEF Squeezes
<1> HIDE DEF t, more
<1> QED
  BY <1>2, <1>3, <1>6, <1>7 DEF more

\* What is squeezed out of a list is deltas, and they are counted: of kinds that hold
\* no delta nothing is lost, and of kinds that hold them all, what was dropped.
Whole(out, log, K) ==
  K \cap Presentation = {} => OfKinds(out.kept, K) = OfKinds(log, K)
Counts(out, log, K) ==
  Presentation \subseteq K =>
    Len(OfKinds(out.kept, K)) + out.dropped = Len(OfKinds(log, K))

LEMMA SqueezingLosesDeltas ==
  ASSUME NEW S, NEW s \in Seq(S), NEW e \in S, NEW K, NEW out \in Outs(S),
         NEW capacity \in Nat,
         Thins(out.kept, s), Whole(out, s, K), Counts(out, s, K)
  PROVE  LET o == Squeezing(out, e, capacity)
             more == Append(s, e)
         IN  o \in Outs(S) /\ Thins(o.kept, more) /\ Whole(o, more, K) /\ Counts(o, more, K)
<1> DEFINE more == Append(s, e)
           o == Squeezing(out, e, capacity)
           kept == out.kept
<1>1. kept \in Seq(S) /\ out.dropped \in Nat
  BY DEF Outs
<1>2. OfKinds(more, K) = IF e.kind \in K THEN Append(OfKinds(s, K), e) ELSE OfKinds(s, K)
  BY OfKindsGrows
<1>3. /\ OfKinds(s, K) \in Seq(OfSorts(S, K)) /\ OfKinds(kept, K) \in Seq(OfSorts(S, K))
  BY <1>1, OfKindsType
<1>4. Len(OfKinds(s, K)) \in Nat /\ Len(OfKinds(kept, K)) \in Nat
  BY <1>3, LenProperties
<1>5. e.kind \in K => e \in OfSorts(S, K)
  BY DEF OfSorts
<1>6. e.kind \in K => Len(OfKinds(more, K)) = Len(OfKinds(s, K)) + 1
  <2> SUFFICES ASSUME e.kind \in K PROVE Len(OfKinds(more, K)) = Len(OfKinds(s, K)) + 1
    OBVIOUS
  <2> DEFINE x == OfKinds(s, K)
  <2>1. x \in Seq(OfSorts(S, K)) /\ OfKinds(more, K) = Append(x, e) /\ e \in OfSorts(S, K)
    BY <1>2, <1>3, <1>5
  <2> HIDE DEF x, more
  <2>2. Len(Append(x, e)) = Len(x) + 1
    BY <2>1, AppendProperties
  <2> QED
    BY <2>1, <2>2 DEF x
<1>7. Keeps(Len(kept) < capacity, e) \in BOOLEAN
  BY DEF Keeps, IsDroppable
<1>8. CASE Keeps(Len(kept) < capacity, e)
  <2> DEFINE c == Append(kept, e)
  <2>1. o = [kept |-> c, dropped |-> out.dropped]
    BY <1>8 DEF Squeezing
  <2>2. c \in Seq(S) /\ Thins(c, more)
    <3> HIDE DEF kept
    <3>1. kept \in Seq(S) /\ Thins(kept, s)
      BY <1>1 DEF kept
    <3> QED
      BY <3>1, AppendProperties, ThinsGrow
  <2>3. OfKinds(c, K) = IF e.kind \in K THEN Append(OfKinds(kept, K), e) ELSE OfKinds(kept, K)
    <3> HIDE DEF kept
    <3> QED
      BY <1>1, OfKindsGrows
  <2>4. o.kept = c /\ o.dropped = out.dropped /\ o \in Outs(S)
    BY <1>1, <2>1, <2>2 DEF Outs
  <2>5. e.kind \in K => Len(OfKinds(c, K)) = Len(OfKinds(kept, K)) + 1
    <3> SUFFICES ASSUME e.kind \in K PROVE Len(OfKinds(c, K)) = Len(OfKinds(kept, K)) + 1
      OBVIOUS
    <3> DEFINE x == OfKinds(kept, K)
    <3>1. x \in Seq(OfSorts(S, K)) /\ OfKinds(c, K) = Append(x, e) /\ e \in OfSorts(S, K)
      BY <1>3, <1>5, <2>3
    <3> HIDE DEF x, c
    <3>2. Len(Append(x, e)) = Len(x) + 1
      BY <3>1, AppendProperties
    <3> QED
      BY <3>1, <3>2 DEF x
  <2> HIDE DEF o, c, more
  <2>6. Whole(o, more, K)
    BY <1>2, <2>3, <2>4 DEF Whole
  <2>7. Counts(o, more, K)
    <3> SUFFICES ASSUME Presentation \subseteq K
                 PROVE  Len(OfKinds(c, K)) + out.dropped = Len(OfKinds(more, K))
      BY <2>4 DEF Counts
    <3>1. Len(OfKinds(kept, K)) + out.dropped = Len(OfKinds(s, K))
      BY DEF Counts
    <3>2. CASE e.kind \in K
      BY <1>1, <1>4, <1>6, <2>5, <3>1, <3>2
    <3>3. CASE e.kind \notin K
      BY <1>2, <2>3, <3>1, <3>3
    <3> QED
      BY <3>2, <3>3
  <2> QED
    BY <2>2, <2>4, <2>6, <2>7 DEF o, more
<1>9. CASE ~Keeps(Len(kept) < capacity, e)
  <2>1. o = [kept |-> kept, dropped |-> out.dropped + 1]
    BY <1>9 DEF Squeezing
  <2>2. e.kind \in Presentation
    BY <1>9 DEF Keeps, IsDroppable
  <2>3. Thins(kept, more)
    <3> HIDE DEF kept
    <3>1. kept \in Seq(S) /\ Thins(kept, s)
      BY <1>1 DEF kept
    <3> QED
      BY <3>1, ThinsGrow
  <2>4. o.kept = kept /\ o.dropped = out.dropped + 1 /\ o \in Outs(S)
    BY <1>1, <2>1 DEF Outs
  <2> HIDE DEF o, more
  <2>5. Whole(o, more, K)
    <3>1. K \cap Presentation = {} => e.kind \notin K
      BY <2>2
    <3> QED
      BY <1>2, <2>4, <3>1 DEF Whole
  <2>6. Counts(o, more, K)
    <3> SUFFICES ASSUME Presentation \subseteq K
                 PROVE  Len(OfKinds(kept, K)) + (out.dropped + 1) = Len(OfKinds(more, K))
      BY <2>4 DEF Counts
    <3>1. Len(OfKinds(kept, K)) + out.dropped = Len(OfKinds(s, K))
      BY DEF Counts
    <3>2. e.kind \in K
      BY <2>2
    <3> QED
      BY <1>1, <1>4, <1>6, <3>1, <3>2
  <2> QED
    BY <2>3, <2>4, <2>5, <2>6 DEF o, more
<1> QED
  BY <1>7, <1>8, <1>9

LEMMA SqueezedLosesDeltas ==
  ASSUME NEW S, NEW log \in Seq(S), NEW K, NEW capacity \in Nat
  PROVE  LET out == Squeezed(log, capacity)
         IN  out \in Outs(S) /\ Thins(out.kept, log) /\ Whole(out, log, K) /\ Counts(out, log, K)
<1> DEFINE Good(out, s) ==
             out \in Outs(S) /\ Thins(out.kept, s) /\ Whole(out, s, K) /\ Counts(out, s, K)
           C == {s \in Seq(S) : Good(Squeezed(s, capacity), s)}
<1>1. <<>> \in C
  <2>1. Squeezed(<<>>, capacity) = Empty /\ <<>> \in Seq(S)
    BY SqueezedOfNothing
  <2>2. Empty.kept = <<>> /\ Empty.dropped = 0 /\ Empty \in Outs(S)
    BY EmptySeq DEF Empty, Outs
  <2>3. Thins(<<>>, <<>>)
    BY DEF Thins
  <2>4. OfKinds(<<>>, K) = <<>> /\ Len(<<>>) = 0
    BY OfKindsOfNothing
  <2>5. Whole(Empty, <<>>, K) /\ Counts(Empty, <<>>, K)
    BY <2>2, <2>4 DEF Whole, Counts
  <2>6. Good(Empty, <<>>)
    BY <2>2, <2>3, <2>5
  <2> HIDE DEF Good
  <2> QED
    BY <2>1, <2>6
<1>2. ASSUME NEW s \in C, NEW e \in S PROVE Append(s, e) \in C
  <2> DEFINE out == Squeezed(s, capacity)
             more == Append(s, e)
             o == Squeezing(out, e, capacity)
  <2>1. s \in Seq(S) /\ more \in Seq(S) /\ Good(out, s)
    BY AppendProperties
  <2>2. Squeezed(more, capacity) = o
    BY <2>1, SqueezedGrows
  <2>3. Good(o, more)
    <3> HIDE DEF out
    <3> QED
      BY <2>1, SqueezingLosesDeltas
  <2> HIDE DEF Good, out, more, o
  <2> QED
    BY <2>1, <2>2, <2>3 DEF more
<1>3. C = Seq(S)
  <2> HIDE DEF C
  <2>1. C \in SUBSET Seq(S)
    BY DEF C
  <2> QED
    BY <1>1, <1>2, <2>1, SequenceInduction
<1>4. Good(Squeezed(log, capacity), log)
  <2> HIDE DEF Good
  <2> QED
    BY <1>3
<1> QED
  BY <1>4

--------------------------------------------------------------------------------
FrontendEvent == [kind : EventKind, seq : Nat]

FrontendTypeOK ==
  /\ produced \in Seq(FrontendEvent)
  /\ pending \in Seq(FrontendEvent)
  /\ frames \in Seq(FrontendEvent)
  /\ dropped \in Nat

\* What is shown comes before what is pending, and both before what will happen next.
InOrder ==
  /\ Ordered(frames) /\ Ordered(pending)
  /\ \A i \in DOMAIN frames, j \in DOMAIN pending : frames[i].seq < pending[j].seq
  /\ \A i \in DOMAIN frames : frames[i].seq <= Len(produced)
  /\ \A i \in DOMAIN pending : pending[i].seq <= Len(produced)

Sent == OfKinds(produced, Projected)
NothingElseIsLost == OfKinds(Shown, Semantic) = OfKinds(Sent, Semantic)
LossesAreCounted == Len(Shown) + dropped = Len(Sent)

FrontendInv == FrontendTypeOK /\ InOrder /\ NothingElseIsLost /\ LossesAreCounted

\* The frames made for what is pending come after those that are shown.
LEMMA ShownIsOrdered ==
  ASSUME FrontendTypeOK, InOrder, NEW q \in Seq(FrontendEvent), Thins(q, pending)
  PROVE  /\ frames \o q \in Seq(FrontendEvent)
         /\ Ordered(q) /\ Ordered(frames \o q)
         /\ \A i \in DOMAIN frames, j \in DOMAIN q : frames[i].seq < q[j].seq
         /\ \A i \in DOMAIN q : q[i].seq <= Len(produced)
         /\ \A i \in DOMAIN (frames \o q) : (frames \o q)[i].seq <= Len(produced)
         /\ Len(frames \o q) = Len(frames) + Len(q)
<1>1. frames \in Seq(FrontendEvent) /\ pending \in Seq(FrontendEvent)
  BY DEF FrontendTypeOK
<1>2. Ordered(q)
  BY DEF InOrder, Thins
<1>3. \A i \in DOMAIN frames, j \in DOMAIN q : frames[i].seq < q[j].seq
  BY DEF InOrder, Thins
<1>4. \A i \in DOMAIN q : q[i].seq <= Len(produced)
  BY DEF InOrder, Thins
<1>5. Ordered(frames \o q)
  BY <1>1, <1>2, <1>3, OrderedJoins DEF InOrder
<1> DEFINE c == frames \o q
           m == Len(frames)
           n == Len(q)
<1>6. c \in Seq(FrontendEvent) /\ Len(c) = m + n
      /\ \A i \in 1 .. m + n : c[i] = IF i <= m THEN frames[i] ELSE q[i - m]
  BY ONLY <1>1, q \in Seq(FrontendEvent), ConcatProperties
<1>7. m \in Nat /\ n \in Nat /\ DOMAIN frames = 1 .. m /\ DOMAIN q = 1 .. n
  BY <1>1, LenProperties
<1>8. DOMAIN c = 1 .. m + n
  <2> HIDE DEF c
  <2> QED
    BY <1>6, LenProperties
<1>9. \A i \in DOMAIN c : c[i].seq <= Len(produced)
  <2> HIDE DEF c, m, n
  <2> SUFFICES ASSUME NEW i \in 1 .. m + n PROVE c[i].seq <= Len(produced)
    BY <1>8
  <2>1. CASE i <= m
    <3>1. i \in DOMAIN frames /\ c[i] = frames[i]
      BY <1>6, <1>7, <2>1
    <3> QED
      BY <3>1 DEF InOrder
  <2>2. CASE ~(i <= m)
    <3>1. i - m \in DOMAIN q /\ c[i] = q[i - m]
      BY <1>6, <1>7, <2>2
    <3> QED
      BY <1>4, <3>1
  <2> QED
    BY <2>1, <2>2
<1> QED
  BY <1>2, <1>3, <1>4, <1>5, <1>6, <1>9

LEMMA KindsType ==
  ASSUME NEW S, NEW log \in Seq(S), NEW kinds
  PROVE  /\ OfKinds(log, kinds) \in Seq(S)
         /\ OfKinds(log, kinds) \in Seq(OfSorts(S, kinds))
         /\ Len(OfKinds(log, kinds)) \in Nat
<1>1. OfKinds(log, kinds) \in Seq(OfSorts(S, kinds)) /\ OfSorts(S, kinds) \subseteq S
  BY OfKindsType DEF OfSorts
<1> QED
  BY <1>1, SeqMonotonic, LenProperties

LEMMA FanInKeeps ==
  ASSUME FrontendInv, NEW capacity \in Capacities, FanIn(capacity)
  PROVE  FrontendInv'
<1> DEFINE P == Projected
           both == P \cap Semantic
           out == ApplyBackpressure(pending, capacity)
           kept == out.kept
<1>1. /\ pending' = kept /\ dropped' = dropped + out.dropped
      /\ produced' = produced /\ frames' = frames
  BY DEF FanIn
<1>2. pending \in Seq(FrontendEvent) /\ frames \in Seq(FrontendEvent) /\ dropped \in Nat
      /\ produced \in Seq(FrontendEvent) /\ InOrder
  BY DEF FrontendInv, FrontendTypeOK
<1>3. capacity \in Nat
  BY FrontendAssumption
<1>4. Presentation \subseteq P /\ both \cap Presentation = {}
  BY DEF Projected, Semantic, EventKind, Presentation, Bookkeeping
<1>5. /\ out \in Outs(FrontendEvent) /\ Thins(kept, pending)
      /\ OfKinds(kept, both) = OfKinds(pending, both)
      /\ Len(OfKinds(kept, P)) + out.dropped = Len(OfKinds(pending, P))
  <2>1. CASE Len(pending) <= capacity
    <3>1. out = [kept |-> pending, dropped |-> 0]
      BY <2>1 DEF ApplyBackpressure
    <3>2. out \in Outs(FrontendEvent) /\ kept = pending /\ out.dropped = 0
      BY <1>2, <3>1 DEF Outs
    <3>3. Thins(pending, pending)
      BY DEF Thins
    <3>4. Len(OfKinds(pending, P)) \in Nat
      BY <1>2, KindsType
    <3> QED
      BY <3>2, <3>3, <3>4
  <2>2. CASE ~(Len(pending) <= capacity)
    <3>1. out = Squeezed(pending, capacity)
      BY <2>2 DEF ApplyBackpressure
    <3> HIDE DEF out, P, both
    <3>2. out \in Outs(FrontendEvent) /\ Thins(kept, pending)
          /\ Whole(out, pending, both) /\ Counts(out, pending, P)
      BY <1>2, <1>3, <3>1, SqueezedLosesDeltas
    <3> QED
      BY <1>4, <3>2 DEF Whole, Counts
  <2> QED
    BY <2>1, <2>2
<1>6. kept \in Seq(FrontendEvent) /\ out.dropped \in Nat
  BY <1>5 DEF Outs
<1> HIDE DEF out, P, both, kept
<1> DEFINE q == OfKinds(pending, P)
           r == OfKinds(kept, P)
<1>7. q \in Seq(FrontendEvent) /\ r \in Seq(FrontendEvent)
      /\ Len(q) \in Nat /\ Len(r) \in Nat /\ Len(frames) \in Nat
  BY <1>2, <1>6, KindsType, LenProperties
<1>8. OfKinds(q, Semantic) = OfKinds(r, Semantic)
  <2>1. OfKinds(q, Semantic) = OfKinds(pending, both)
    BY <1>2, OfKindsTwice DEF both
  <2>2. OfKinds(r, Semantic) = OfKinds(kept, both)
    BY <1>6, OfKindsTwice DEF both
  <2> QED
    BY ONLY <1>5, <2>1, <2>2
<1>9. Len(r) + out.dropped = Len(q)
  BY <1>5
<1>10. Shown = frames \o q /\ Shown' = frames \o r
  BY <1>1 DEF Shown, P
<1> HIDE DEF q, r
<1>11. FrontendTypeOK'
  BY <1>1, <1>2, <1>6 DEF FrontendTypeOK
<1>12. InOrder'
  BY <1>1, <1>2, <1>5, <1>6, ShownIsOrdered DEF InOrder, FrontendInv
<1>13. NothingElseIsLost'
  <2>1. \A x, y \in Seq(FrontendEvent) :
          OfKinds(x \o y, Semantic) = OfKinds(x, Semantic) \o OfKinds(y, Semantic)
    BY OfKindsSplits
  <2>2. /\ OfKinds(frames \o q, Semantic) = OfKinds(frames, Semantic) \o OfKinds(q, Semantic)
        /\ OfKinds(frames \o r, Semantic) = OfKinds(frames, Semantic) \o OfKinds(r, Semantic)
    BY <1>2, <1>7, <2>1
  <2> QED
    BY <1>1, <1>8, <1>10, <2>2 DEF NothingElseIsLost, Sent, FrontendInv
<1>14. LossesAreCounted'
  <2>1. Len(frames \o q) = Len(frames) + Len(q) /\ Len(frames \o r) = Len(frames) + Len(r)
    BY <1>2, <1>7, ConcatProperties
  <2>2. Len(Shown) + dropped = Len(Sent) /\ Sent' = Sent
    BY <1>1 DEF LossesAreCounted, Sent, FrontendInv
  <2>3. Len(Shown') + dropped' = Len(Sent')
    <3>1. Len(Shown') = Len(frames) + Len(r) /\ Len(Shown) = Len(frames) + Len(q)
      BY <1>10, <2>1
    <3>2. dropped' = dropped + out.dropped /\ dropped \in Nat /\ out.dropped \in Nat
      BY <1>1, <1>2, <1>6
    <3>3. PICK f, x, y, o : f = Len(frames) /\ x = Len(q) /\ y = Len(r) /\ o = out.dropped
      OBVIOUS
    <3>4. f \in Nat /\ x \in Nat /\ y \in Nat /\ o \in Nat /\ y + o = x
      BY <1>7, <1>9, <3>2, <3>3
    <3>5. Len(Shown) = f + x /\ Len(Shown') = f + y /\ dropped' = dropped + o
      BY <3>1, <3>2, <3>3
    <3>6. (f + y) + (dropped + o) = (f + x) + dropped
      BY ONLY <3>2, <3>4
    <3> QED
      BY ONLY <2>2, <3>5, <3>6
  <2> QED
    BY <2>3 DEF LossesAreCounted
<1> QED
  BY <1>11, <1>12, <1>13, <1>14 DEF FrontendInv

LEMMA FlushKeeps ==
  ASSUME FrontendInv, NEW capacity \in Capacities, Flush(capacity)
  PROVE  FrontendInv'
<1> DEFINE P == Projected
           T == OfSorts(FrontendEvent, P)
           q == OfKinds(pending, P)
           out == ProjectStream(pending, capacity)
           kept == out.kept
<1>1. /\ pending' = <<>> /\ dropped' = dropped + out.dropped
      /\ produced' = produced /\ frames' = frames \o kept
  BY DEF Flush
<1>2. pending \in Seq(FrontendEvent) /\ frames \in Seq(FrontendEvent) /\ dropped \in Nat
      /\ produced \in Seq(FrontendEvent) /\ FrontendTypeOK /\ InOrder
  BY DEF FrontendInv, FrontendTypeOK
<1>3. capacity \in Nat
  BY FrontendAssumption
<1>4. Presentation \subseteq P /\ Semantic \cap Presentation = {}
  BY DEF Projected, Semantic, EventKind, Presentation, Bookkeeping
<1>5. q \in Seq(T) /\ q \in Seq(FrontendEvent) /\ Len(q) \in Nat
  BY <1>2, KindsType
<1>6. out = Squeezed(q, capacity)
  BY DEF ProjectStream
<1>7. Thins(q, pending)
  BY <1>2, OfKindsThins
<1> HIDE DEF out, T, q, P
<1>8. /\ out \in Outs(T) /\ Thins(kept, q)
      /\ Whole(out, q, Semantic) /\ Counts(out, q, P)
  BY <1>3, <1>5, <1>6, SqueezedLosesDeltas
<1>9. kept \in Seq(T) /\ out.dropped \in Nat
  BY <1>8 DEF Outs
<1>10. OfKinds(kept, Semantic) = OfKinds(q, Semantic)
       /\ Len(OfKinds(kept, P)) + out.dropped = Len(OfKinds(q, P))
  BY <1>4, <1>8 DEF Whole, Counts
<1> HIDE DEF kept
<1>11. OfKinds(kept, P) = kept /\ OfKinds(q, P) = q
  BY <1>5, <1>9, OfKindsKeeps DEF T
<1>12. kept \in Seq(FrontendEvent) /\ Len(kept) \in Nat
  <2>1. T \subseteq FrontendEvent
    BY DEF T, OfSorts
  <2> QED
    BY <1>9, <2>1, SeqMonotonic, LenProperties
<1>13. Thins(kept, pending)
  BY <1>7, <1>8 DEF Thins
<1>14. Shown = frames \o q
  BY DEF Shown, q, P
<1>15. Shown' = frames \o kept
  <2>1. frames \o kept \in Seq(FrontendEvent)
    BY <1>2, <1>12, ConcatProperties
  <2> DEFINE c == frames \o kept
  <2> HIDE DEF c
  <2>2. c \o <<>> = c
    BY <2>1, ConcatEmptySeq DEF c
  <2> QED
    BY <1>1, <2>2, OfKindsOfNothing DEF Shown, c
<1>16. /\ frames \o kept \in Seq(FrontendEvent) /\ Ordered(frames \o kept)
       /\ \A i \in DOMAIN (frames \o kept) : (frames \o kept)[i].seq <= Len(produced)
       /\ Len(frames \o kept) = Len(frames) + Len(kept)
  BY <1>2, <1>12, <1>13, ShownIsOrdered
<1>17. FrontendTypeOK'
  BY <1>1, <1>2, <1>9, <1>16, EmptySeq DEF FrontendTypeOK
<1>18. InOrder'
  <2>1. DOMAIN <<>> = {} /\ Ordered(<<>>)
    BY DEF Ordered
  <2> QED
    BY <1>1, <1>16, <2>1 DEF InOrder
<1>19. NothingElseIsLost'
  <2>1. \A x, y \in Seq(FrontendEvent) :
          OfKinds(x \o y, Semantic) = OfKinds(x, Semantic) \o OfKinds(y, Semantic)
    BY OfKindsSplits
  <2>2. /\ OfKinds(frames \o q, Semantic) = OfKinds(frames, Semantic) \o OfKinds(q, Semantic)
        /\ OfKinds(frames \o kept, Semantic) = OfKinds(frames, Semantic) \o OfKinds(kept, Semantic)
    BY <1>2, <1>5, <1>12, <2>1
  <2> QED
    BY <1>1, <1>10, <1>14, <1>15, <2>2 DEF NothingElseIsLost, Sent, FrontendInv
<1>20. LossesAreCounted'
  <2>1. Len(frames \o q) = Len(frames) + Len(q) /\ Len(frames) \in Nat
    BY <1>2, <1>5, ConcatProperties, LenProperties
  <2>2. Len(Shown) + dropped = Len(Sent) /\ Sent' = Sent
    BY <1>1 DEF LossesAreCounted, Sent, FrontendInv
  <2>3. Len(Shown) = Len(frames) + Len(q) /\ Len(Shown') = Len(frames) + Len(kept)
    BY <1>14, <1>15, <1>16, <2>1
  <2>4. Len(kept) + out.dropped = Len(q)
    BY <1>10, <1>11
  <2>5. dropped' = dropped + out.dropped /\ dropped \in Nat
    BY <1>1, <1>2
  <2>6. Len(Shown') + dropped' = Len(Sent')
    <3>1. PICK f, x, y, o : f = Len(frames) /\ x = Len(q) /\ y = Len(kept) /\ o = out.dropped
      OBVIOUS
    <3>2. f \in Nat /\ x \in Nat /\ y \in Nat /\ o \in Nat /\ y + o = x
      BY <1>5, <1>9, <1>12, <2>1, <2>4, <3>1
    <3>3. Len(Shown) = f + x /\ Len(Shown') = f + y /\ dropped' = dropped + o /\ dropped \in Nat
      BY <2>3, <2>5, <3>1
    <3>4. (f + y) + (dropped + o) = (f + x) + dropped
      BY ONLY <3>2, <2>5
    <3> QED
      BY ONLY <2>2, <3>3, <3>4
  <2> QED
    BY <2>6 DEF LossesAreCounted
<1> QED
  BY <1>17, <1>18, <1>19, <1>20 DEF FrontendInv

LEMMA EmitKeeps ==
  ASSUME FrontendInv, NEW kind \in Emitted, Emit(kind)
  PROVE  FrontendInv'
<1> DEFINE P == Projected
           e == [kind |-> kind, seq |-> Len(produced) + 1]
           q == OfKinds(pending, P)
<1>1. /\ pending' = Append(pending, e) /\ produced' = Append(produced, e)
      /\ frames' = frames /\ dropped' = dropped
  BY DEF Emit
<1>2. pending \in Seq(FrontendEvent) /\ frames \in Seq(FrontendEvent) /\ dropped \in Nat
      /\ produced \in Seq(FrontendEvent) /\ FrontendTypeOK /\ InOrder
      /\ NothingElseIsLost /\ LossesAreCounted
  BY DEF FrontendInv, FrontendTypeOK
<1>3. e \in FrontendEvent /\ e.kind = kind /\ e.seq = Len(produced) + 1 /\ Len(produced) \in Nat
  BY <1>2, FrontendAssumption, LenProperties DEF FrontendEvent
<1>4. /\ OfKinds(pending', P) = IF kind \in P THEN Append(q, e) ELSE q
      /\ OfKinds(produced', P) = IF kind \in P THEN Append(Sent, e) ELSE Sent
  <2> HIDE DEF P, e
  <2> QED
    BY <1>1, <1>2, <1>3, OfKindsGrows DEF Sent, P
<1>5. q \in Seq(FrontendEvent) /\ Sent \in Seq(FrontendEvent)
      /\ Len(Sent) \in Nat
  BY <1>2, KindsType DEF Sent
<1>6. Thins(q, pending)
  BY <1>2, OfKindsThins
<1> DEFINE s == frames \o q
<1>7. Shown = s /\ Sent' = OfKinds(produced', P) /\ Shown' = frames \o OfKinds(pending', P)
  BY <1>1 DEF Shown, Sent
<1> HIDE DEF e, P, q
<1>8. s \in Seq(FrontendEvent) /\ Len(s) \in Nat
  BY <1>2, <1>5, <1>6, ShownIsOrdered, LenProperties
<1>9. frames \o Append(q, e) = Append(s, e)
  BY <1>2, <1>3, <1>5
<1>10. Shown' = IF kind \in P THEN Append(s, e) ELSE s
  <2>1. CASE kind \in P
    BY <1>4, <1>7, <1>9, <2>1
  <2>2. CASE kind \notin P
    BY <1>4, <1>7, <2>2
  <2> QED
    BY <2>1, <2>2
<1>11. Sent' = IF kind \in P THEN Append(Sent, e) ELSE Sent
  BY <1>4, <1>7
<1> HIDE DEF s
<1>12. FrontendTypeOK'
  BY <1>1, <1>2, <1>3, AppendProperties DEF FrontendTypeOK
<1>13. InOrder'
  <2> DEFINE m == Len(pending)
             new == Append(pending, e)
  <2>1. /\ m \in Nat /\ DOMAIN pending = 1 .. m /\ DOMAIN new = 1 .. m + 1
        /\ new[m + 1] = e /\ \A i \in 1 .. m : new[i] = pending[i]
        /\ Len(Append(produced, e)) = Len(produced) + 1
    BY <1>2, <1>3, AppendProperties, LenProperties
  <2>2. \A i \in DOMAIN pending : pending[i].seq \in Nat
    <3>1. \A i \in DOMAIN pending : pending[i] \in FrontendEvent
      BY <1>2
    <3> QED
      BY <3>1 DEF FrontendEvent
  <2>3. \A i \in DOMAIN frames : frames[i].seq \in Nat
    <3>1. \A i \in DOMAIN frames : frames[i] \in FrontendEvent
      BY <1>2
    <3> QED
      BY <3>1 DEF FrontendEvent
  <2>4. \A i \in DOMAIN pending : pending[i].seq < e.seq
    BY <1>2, <1>3, <2>2 DEF InOrder
  <2>5. \A i \in DOMAIN frames : frames[i].seq < e.seq
    BY <1>2, <1>3, <2>3 DEF InOrder
  <2>6. Ordered(new)
    BY <1>2, <1>3, <2>4, OrderedGrows DEF InOrder
  <2> HIDE DEF new, m
  <2>7. \A i \in DOMAIN new : new[i] = e \/ \E j \in DOMAIN pending : new[i] = pending[j]
    <3> SUFFICES ASSUME NEW i \in 1 .. m + 1, i # m + 1
                 PROVE  \E j \in DOMAIN pending : new[i] = pending[j]
      BY <2>1
    <3>1. i \in 1 .. m
      BY <2>1
    <3> QED
      BY <2>1, <3>1
  <2>8. \A i \in DOMAIN frames, j \in DOMAIN new : frames[i].seq < new[j].seq
    BY <1>2, <2>5, <2>7 DEF InOrder
  <2>9. \A i \in DOMAIN new : new[i].seq <= Len(produced) + 1
    <3>1. \A j \in DOMAIN pending : pending[j].seq <= Len(produced) + 1
      BY <1>3, <2>2, <2>4
    <3>2. e.seq <= Len(produced) + 1
      BY <1>3
    <3> QED
      BY <2>7, <3>1, <3>2
  <2>10. \A i \in DOMAIN frames : frames[i].seq <= Len(produced) + 1
    BY <1>3, <2>3, <2>5
  <2> QED
    BY <1>1, <1>2, <2>1, <2>6, <2>8, <2>9, <2>10 DEF InOrder, new
<1>14. NothingElseIsLost'
  <2>1. OfKinds(s, Semantic) = OfKinds(Sent, Semantic)
    BY <1>2, <1>7 DEF NothingElseIsLost
  <2>2. CASE kind \in P
    <3> DEFINE t == Sent
    <3> HIDE DEF t
    <3>1. t \in Seq(FrontendEvent) /\ OfKinds(s, Semantic) = OfKinds(t, Semantic)
      BY <1>5, <2>1 DEF t
    <3>2. OfKinds(Append(s, e), Semantic) = OfKinds(Append(t, e), Semantic)
      <4>1. OfKinds(Append(s, e), Semantic) =
              IF e.kind \in Semantic THEN Append(OfKinds(s, Semantic), e) ELSE OfKinds(s, Semantic)
        BY <1>3, <1>8, OfKindsGrows
      <4>2. OfKinds(Append(t, e), Semantic) =
              IF e.kind \in Semantic THEN Append(OfKinds(t, Semantic), e) ELSE OfKinds(t, Semantic)
        BY <1>3, <3>1, OfKindsGrows
      <4> QED
        BY <3>1, <4>1, <4>2
    <3>3. Shown' = Append(s, e) /\ Sent' = Append(t, e)
      BY <1>10, <1>11, <2>2 DEF t
    <3> QED
      BY <3>2, <3>3 DEF NothingElseIsLost
  <2>3. CASE kind \notin P
    BY <1>10, <1>11, <2>1, <2>3 DEF NothingElseIsLost
  <2> QED
    BY <2>2, <2>3
<1>15. LossesAreCounted'
  <2>1. Len(s) + dropped = Len(Sent)
    BY <1>2, <1>7 DEF LossesAreCounted
  <2>2. CASE kind \in P
    <3>1. Len(Append(s, e)) = Len(s) + 1 /\ Len(Append(Sent, e)) = Len(Sent) + 1
      BY <1>3, <1>5, <1>8, AppendProperties
    <3>2. Shown' = Append(s, e) /\ Sent' = Append(Sent, e)
      BY <1>10, <1>11, <2>2
    <3>3. Len(Shown') + dropped' = Len(Sent')
      <4>1. dropped' = dropped /\ dropped \in Nat /\ Len(s) \in Nat /\ Len(Sent) \in Nat
        BY <1>1, <1>2, <1>5, <1>8
      <4>2. Len(Shown') = Len(s) + 1 /\ Len(Sent') = Len(Sent) + 1
        BY <3>1, <3>2
      <4> QED
        BY <2>1, <4>1, <4>2
    <3> QED
      BY <3>3 DEF LossesAreCounted
  <2>3. CASE kind \notin P
    BY <1>1, <1>10, <1>11, <2>1, <2>3 DEF LossesAreCounted
  <2> QED
    BY <2>2, <2>3
<1> QED
  BY <1>12, <1>13, <1>14, <1>15 DEF FrontendInv

\* However often the stream of events is fanned in and flushed, and with however little
\* room, every event that means something reaches the frontend, once and in order, and
\* what did not reach it is what was counted (apply_backpressure, project_stream).
THEOREM OnlyDeltasGo == FrontendSpec => []OnlyDeltasAreLost
<1>1. FrontendInit => FrontendInv
  <2> SUFFICES ASSUME FrontendInit PROVE FrontendInv
    OBVIOUS
  <2>1. produced = <<>> /\ pending = <<>> /\ frames = <<>> /\ dropped = 0
    BY DEF FrontendInit
  <2>2. <<>> \o <<>> = <<>> /\ Len(<<>>) = 0 /\ <<>> \in Seq(FrontendEvent) /\ DOMAIN <<>> = {}
    OBVIOUS
  <2>3. OfKinds(<<>>, Projected) = <<>> /\ OfKinds(<<>>, Semantic) = <<>>
    BY OfKindsOfNothing
  <2>4. Shown = <<>> /\ Sent = <<>>
    BY <2>1, <2>2, <2>3 DEF Shown, Sent
  <2> QED
    BY <2>1, <2>2, <2>4
    DEF FrontendInv, FrontendTypeOK, InOrder, Ordered, NothingElseIsLost, LossesAreCounted
<1>2. FrontendInv /\ [FrontendNext]_frontendVars => FrontendInv'
  <2> SUFFICES ASSUME FrontendInv, [FrontendNext]_frontendVars PROVE FrontendInv'
    OBVIOUS
  <2>1. CASE UNCHANGED frontendVars
    BY <2>1 DEF frontendVars, FrontendInv, FrontendTypeOK, InOrder, Ordered, NothingElseIsLost,
                LossesAreCounted, Shown, Sent
  <2>2. ASSUME NEW kind \in Emitted, Emit(kind) PROVE FrontendInv'
    BY <2>2, EmitKeeps
  <2>3. ASSUME NEW capacity \in Capacities, FanIn(capacity) PROVE FrontendInv'
    BY <2>3, FanInKeeps
  <2>4. ASSUME NEW capacity \in Capacities, Flush(capacity) PROVE FrontendInv'
    BY <2>4, FlushKeeps
  <2> QED
    BY <2>1, <2>2, <2>3, <2>4 DEF FrontendNext
<1>3. FrontendInv => OnlyDeltasAreLost
  <2> SUFFICES ASSUME FrontendInv PROVE OnlyDeltasAreLost
    OBVIOUS
  <2> DEFINE q == OfKinds(pending, Projected)
  <2>1. pending \in Seq(FrontendEvent) /\ FrontendTypeOK /\ InOrder
    BY DEF FrontendInv, FrontendTypeOK
  <2>2. q \in Seq(FrontendEvent) /\ Thins(q, pending)
    BY <2>1, KindsType, OfKindsThins
  <2>3. Ordered(Shown)
    <3> HIDE DEF q
    <3>1. Ordered(frames \o q)
      BY <2>1, <2>2, ShownIsOrdered
    <3> QED
      BY <3>1 DEF Shown, q
  <2> QED
    BY <2>3 DEF FrontendInv, NothingElseIsLost, LossesAreCounted, Sent, OnlyDeltasAreLost, Ordered
<1> QED
  BY <1>1, <1>2, <1>3, PTL DEF FrontendSpec

--------------------------------------------------------------------------------
(* What is let in.                                                         *)

\* A host is called confined, or its lack is named, by what it enforces.
LEMMA VerdictIsHonest ==
  ASSUME NEW spec \in Specs, NEW policy \in Policies, NEW host \in Hosts,
         NEW accepted \in BOOLEAN
  PROVE  LET verdict == Verdict(spec, policy, host, accepted)
             enforced == AvailabilityOf(host)
             starts == verdict.answer \in {"Confined", "Degraded"}
         IN  /\ starts => /\ enforced.usable
                          /\ spec.program \in policy.exec
                          /\ spec.env \cap SecretNames = {}
             /\ verdict.answer = "Confined" /\ host.os = "linux" =>
                  host.lsm /\ host.abi >= NetworkAbi
             /\ verdict.answer = "Degraded" =>
                  /\ accepted
                  /\ verdict.missing # {} /\ verdict.missing \cap enforced.controls = {}
                  /\ "ProgramAllowlist" \notin verdict.missing
             /\ starts /\ policy.copyOnWrite => "CopyOnWrite" \in verdict.missing
<1> DEFINE enforced == AvailabilityOf(host)
           required == RequiredControls(policy)
           missing == MissingFrom(enforced.controls, required)
           verdict == Verdict(spec, policy, host, accepted)
<1>1. /\ enforced.usable \in BOOLEAN
      /\ enforced.usable => "ProgramAllowlist" \in enforced.controls
      /\ "CopyOnWrite" \notin enforced.controls
      /\ host.os = "linux" /\ "NetworkEgress" \in enforced.controls =>
           host.lsm /\ host.abi >= NetworkAbi
  <2>1. CASE host.os = "linux"
    <3>1. host \in [os : {"linux"}, abi : 0 .. 6, lsm : BOOLEAN]
      BY <2>1 DEF Hosts
    <3>2. enforced = LinuxAvailability(host.abi, host.lsm)
      BY <2>1 DEF AvailabilityOf
    <3>3. "NetworkEgress" \notin Baseline /\ "CopyOnWrite" \notin Baseline
          /\ "ProgramAllowlist" \in Baseline
      BY DEF Baseline
    <3>4. /\ "CopyOnWrite" \notin AbiControls(host.abi)
          /\ "NetworkEgress" \in AbiControls(host.abi) => host.abi >= NetworkAbi
      BY DEF AbiControls
    <3> QED
      BY <3>1, <3>2, <3>3, <3>4 DEF LinuxAvailability
  <2>2. CASE host.os = "macos"
    BY <2>2 DEF AvailabilityOf, MacosAvailability, Baseline
  <2>3. CASE host.os = "windows"
    BY <2>3 DEF AvailabilityOf, WindowsAvailability, Baseline
  <2>4. CASE host.os \notin {"linux", "macos", "windows"}
    <3>1. enforced = Unusable
      BY <2>4 DEF AvailabilityOf
    <3> QED
      BY <2>4, <3>1 DEF Unusable
  <2> QED
    BY <2>1, <2>2, <2>3, <2>4
<1>2. /\ "NetworkEgress" \in required
      /\ policy.copyOnWrite => "CopyOnWrite" \in required
  BY DEF RequiredControls
<1>3. missing = required \ enforced.controls
  BY DEF MissingFrom
<1> HIDE DEF enforced, required, missing
<1>4. CASE Consistent(spec, policy)
  <2>1. verdict = IF ~enforced.usable THEN CannotEnforce(required)
                  ELSE IF missing = {} THEN Confined
                  ELSE IF ~accepted THEN CannotEnforce(missing)
                  ELSE Degraded(missing)
    BY <1>4 DEF Verdict, Decide, enforced, required, missing
  <2> HIDE DEF verdict
  <2>2. spec.program \in policy.exec /\ spec.env \cap SecretNames = {}
    BY <1>4 DEF Consistent
  <2>3. \A s : CannotEnforce(s).answer = "CannotEnforce"
               /\ Degraded(s).answer = "Degraded" /\ Degraded(s).missing = s
    BY DEF CannotEnforce, Degraded
  <2>4. Confined.answer = "Confined"
    BY DEF Confined
  <2>5. CASE ~enforced.usable
    BY <2>1, <2>3, <2>5 DEF verdict, enforced
  <2>6. CASE enforced.usable /\ missing = {}
    <3>1. verdict.answer = "Confined" /\ "NetworkEgress" \in enforced.controls
          /\ ~policy.copyOnWrite
      BY <1>1, <1>2, <1>3, <2>1, <2>4, <2>6
    <3> QED
      BY <1>1, <2>2, <2>6, <3>1 DEF verdict, enforced
  <2>7. CASE enforced.usable /\ missing # {} /\ accepted
    <3>1. verdict.answer = "Degraded" /\ verdict.missing = missing
      BY <2>1, <2>3, <2>7
    <3>2. missing \cap enforced.controls = {} /\ "ProgramAllowlist" \notin missing
          /\ (policy.copyOnWrite => "CopyOnWrite" \in missing)
      BY <1>1, <1>2, <1>3, <2>7
    <3> QED
      BY <2>2, <2>7, <3>1, <3>2 DEF verdict, enforced
  <2>8. CASE enforced.usable /\ missing # {} /\ ~accepted
    BY <2>1, <2>3, <2>8 DEF verdict, enforced
  <2> QED
    BY <1>1, <2>5, <2>6, <2>7, <2>8
<1>5. CASE ~Consistent(spec, policy)
  BY <1>5 DEF Verdict
<1> QED
  BY <1>4, <1>5

LEMMA NextKeepsConfinement ==
  NeverQuietlyUnconfined /\ [AdmissionNext]_decisionsVars => NeverQuietlyUnconfined'
<1> SUFFICES ASSUME NeverQuietlyUnconfined, [AdmissionNext]_decisionsVars
             PROVE  NeverQuietlyUnconfined'
  OBVIOUS
<1>1. ASSUME NEW spec \in Specs, NEW policy \in Policies, NEW host \in Hosts,
             NEW accepted \in BOOLEAN, MayRun(spec, policy, host, accepted)
      PROVE  NeverQuietlyUnconfined'
  <2>1. /\ asked'.spec = spec /\ asked'.policy = policy /\ asked'.host = host
        /\ asked'.accepted = accepted
        /\ asked'.verdict = Verdict(spec, policy, host, accepted)
    BY <1>1 DEF MayRun
  <2> QED
    BY <2>1, VerdictIsHonest DEF NeverQuietlyUnconfined
<1>2. ASSUME asked'.about # "program" PROVE NeverQuietlyUnconfined'
  BY <1>2 DEF NeverQuietlyUnconfined
<1>3. CASE UNCHANGED decisionsVars
  BY <1>3 DEF decisionsVars, NeverQuietlyUnconfined
<1>4. ASSUME NEW scope, NEW raw, MayTouch(scope, raw) PROVE asked'.about = "path"
  BY <1>4 DEF MayTouch
<1>5. ASSUME NEW hosts, NEW url, MayFetch(hosts, url) PROVE asked'.about = "url"
  BY <1>5 DEF MayFetch
<1>6. ASSUME NEW programs, NEW argv, MayExec(programs, argv) PROVE asked'.about = "argv"
  BY <1>6 DEF MayExec
<1>7. ASSUME NEW file, NEW granted, NEW trusted, Load(file, granted, trusted)
      PROVE  asked'.about = "skill"
  BY <1>7 DEF Load
<1> QED
  BY <1>1, <1>2, <1>3, <1>4, <1>5, <1>6, <1>7 DEF AdmissionNext

\* A process that runs unconfined after confinement was requested is what the
\* subsystem is there to prevent: for every program, policy, host and set of names that
\* look like a credential (frey-sandbox/src/policy.rs, probe.rs).
THEOREM NothingRunsUnconfined == AdmissionSpec => []NeverQuietlyUnconfined
<1>1. DecisionsInit => NeverQuietlyUnconfined
  BY DEF DecisionsInit, Nothing, NeverQuietlyUnconfined
<1> QED
  BY <1>1, NextKeepsConfinement, PTL DEF AdmissionSpec

--------------------------------------------------------------------------------
(* Where a path leads.                                                     *)

LEMMA AlongType ==
  ASSUME NEW S, ".." \in S, NEW w \in Seq(S), NEW part \in S
  PROVE  Along(w, part) \in Seq(S)
<1>1. Append(w, part) \in Seq(S) /\ Append(w, "..") \in Seq(S)
  BY AppendProperties
<1>2. w # <<>> => Front(w) \in Seq(S)
  <2> SUFFICES ASSUME w # <<>> PROVE SubSeq(w, 1, Len(w) - 1) \in Seq(S)
    BY DEF Front
  <2> QED
    BY SubSeqProperties, EmptySeq, LenProperties
<1> QED
  BY <1>1, <1>2 DEF Along

\* A walk: where it is after each part.
Walk(f, S, parts) ==
  /\ f \in [0 .. Len(parts) -> Seq(S)]
  /\ f[0] = <<>>
  /\ \A i \in 1 .. Len(parts) : f[i] = Along(f[i - 1], parts[i])
Walking(S, parts) ==
  [i \in 1 .. Len(parts) |-> [w \in Seq(S) |-> Along(w, parts[i])]]

LEMMA WalkingType ==
  ASSUME NEW S, ".." \in S, NEW parts \in Seq(S)
  PROVE  /\ Walking(S, parts) \in [1 .. Len(parts) -> [Seq(S) -> Seq(S)]]
         /\ <<>> \in Seq(S) /\ Len(parts) \in Nat
<1>1. ASSUME NEW i \in 1 .. Len(parts), NEW w \in Seq(S)
      PROVE  Along(w, parts[i]) \in Seq(S)
  BY AlongType, ElementOfSeq
<1> QED
  BY <1>1, EmptySeq, LenProperties DEF Walking

LEMMA WalkExists ==
  ASSUME NEW S, ".." \in S, NEW parts \in Seq(S)
  PROVE  \E f : Walk(f, S, parts)
<1> DEFINE A == Seq(S)
           n == Len(parts)
           step == Walking(S, parts)
           base == <<>>
<1>1. step \in [1 .. n -> [A -> A]] /\ base \in A /\ n \in Nat
  BY WalkingType
<1>2. \A i \in 1 .. n : \A w \in A : step[i][w] = Along(w, parts[i])
  BY DEF Walking
<1> HIDE DEF A, n, step, base
<1>3. PICK f \in [0 .. n -> A] : Follows(f, n, A, base, step)
  BY <1>1, RunExists
<1>4. ASSUME NEW i \in 1 .. n PROVE f[i] = Along(f[i - 1], parts[i])
  <2>1. i - 1 \in 0 .. n
    BY <1>1
  <2> QED
    BY <1>2, <1>3, <2>1 DEF Follows
<1>5. f[0] = base
  BY <1>3 DEF Follows
<1> QED
  BY <1>3, <1>4, <1>5 DEF Walk, A, n, base

LEMMA WalkedIs ==
  ASSUME NEW S, ".." \in S, NEW parts \in Seq(S), NEW f, Walk(f, S, parts)
  PROVE  Walked(parts) = f[Len(parts)]
<1> DEFINE A == Seq(S)
           n == Len(parts)
           step == Walking(S, parts)
           base == <<>>
           Run(h) == h = [i \in 0 .. n |-> IF i = 0 THEN base ELSE Along(h[i - 1], parts[i])]
           g == CHOOSE h : Run(h)
<1>1. step \in [1 .. n -> [A -> A]] /\ base \in A /\ n \in Nat
  BY WalkingType
<1>2. \A i \in 1 .. n : \A w \in A : step[i][w] = Along(w, parts[i])
  BY DEF Walking
<1>3. Walked(parts) = g[n]
  BY DEF Walked
<1>4. f \in [0 .. n -> A] /\ f[0] = base /\ \A i \in 1 .. n : f[i] = Along(f[i - 1], parts[i])
  BY DEF Walk
<1> HIDE DEF A, n, step, base
<1>5. Run(f)
  <2>1. \A i \in 0 .. n : f[i] = IF i = 0 THEN base ELSE Along(f[i - 1], parts[i])
    BY <1>4
  <2> QED
    BY <1>4, <2>1
<1>6. Run(g)
  BY <1>5
<1>7. Follows(g, n, A, base, step)
  <2>1. g[0] = base
    <3>1. 0 \in 0 .. n
      BY <1>1
    <3> HIDE DEF g
    <3> QED
      BY <1>6, <3>1
  <2>2. ASSUME NEW i \in 1 .. n, g[i - 1] \in A PROVE g[i] = step[i][g[i - 1]]
    <3>1. i \in 0 .. n /\ i # 0
      OBVIOUS
    <3> HIDE DEF g
    <3>2. g[i] = Along(g[i - 1], parts[i])
      BY <1>6, <3>1
    <3> QED
      BY <1>2, <2>2, <3>2
  <2> HIDE DEF g
  <2> QED
    BY <2>1, <2>2 DEF Follows
<1>8. Follows(f, n, A, base, step)
  <2>1. \A i \in 1 .. n : i - 1 \in 0 .. n
    BY <1>1
  <2> QED
    BY <1>2, <1>4, <2>1 DEF Follows
<1>9. g[n] = f[n]
  <2>1. n \in 0 .. n
    BY <1>1
  <2> HIDE DEF g
  <2>2. \A i \in 0 .. n : g[i] = f[i] /\ g[i] \in A
    BY ONLY <1>1, <1>7, <1>8, RunsAgree
  <2> QED
    BY <2>1, <2>2
<1> QED
  BY <1>3, <1>9 DEF n

\* A walk that never climbs only ever goes on, and keeps no "..".
LEMMA WalkGoesOn ==
  ASSUME NEW S, ".." \in S, NEW parts \in Seq(S), NEW f, Walk(f, S, parts),
         ".." \notin Range(parts), NEW m \in 0 .. Len(parts)
  PROVE  /\ ".." \notin Range(f[m])
         /\ IsPrefix(f[m], f[Len(parts)])
<1> DEFINE n == Len(parts)
           A == Seq(S)
<1>1. /\ n \in Nat /\ f \in [0 .. n -> A] /\ f[0] = <<>>
      /\ \A i \in 1 .. n : f[i] = Along(f[i - 1], parts[i]) /\ parts[i] # ".."
  BY LenProperties DEF Walk, Range
<1>2. ASSUME NEW i \in 1 .. n
      PROVE  /\ f[i - 1] \in A /\ f[i] \in A
             /\ Len(f[i - 1]) \in Nat /\ Len(f[i]) \in Nat
             /\ Len(f[i - 1]) <= Len(f[i])
             /\ \A j \in 1 .. Len(f[i - 1]) : f[i][j] = f[i - 1][j]
             /\ \A j \in 1 .. Len(f[i]) : j > Len(f[i - 1]) => f[i][j] # ".."
  <2>1. i - 1 \in 0 .. n /\ i \in 0 .. n
    BY <1>1
  <2>2. f[i - 1] \in A /\ f[i] \in A
    BY <1>1, <2>1
  <2>3. parts[i] \in S
    BY ElementOfSeq
  <2> DEFINE w == f[i - 1]
             e == parts[i]
             z == Append(w, e)
  <2>4. f[i] = w \/ f[i] = z
    BY <1>1 DEF Along
  <2>5. w \in A /\ Len(w) \in Nat /\ e # ".."
    BY <1>1, <2>2, LenProperties
  <2>6. z \in A /\ Len(z) = Len(w) + 1 /\ z[Len(w) + 1] = e /\ \A j \in 1 .. Len(w) : z[j] = w[j]
    <3> HIDE DEF w, e
    <3> QED
      BY <2>3, <2>5, AppendProperties DEF e
  <2> HIDE DEF w, e, z, A
  <2>7. CASE f[i] = w
    BY <2>2, <2>5, <2>7 DEF w
  <2>8. CASE f[i] = z
    <3>1. \A j \in 1 .. Len(z) : j > Len(w) => j = Len(w) + 1
      BY <2>5, <2>6
    <3> QED
      BY <2>2, <2>5, <2>6, <2>8, <3>1 DEF w
  <2> QED
    BY <2>4, <2>7, <2>8
<1> HIDE DEF n, A
<1> DEFINE Clean(i) == \A j \in 1 .. Len(f[i]) : f[i][j] # ".."
           Grown(i) == /\ Len(f[m]) <= Len(f[i])
                       /\ \A j \in 1 .. Len(f[m]) : f[i][j] = f[m][j]
           C == {i \in Nat : i <= n => Clean(i)}
           G == {i \in Nat : m + i <= n => Grown(m + i)}
<1>3. C = Nat
  <2>1. 0 \in C
    BY <1>1
  <2>2. ASSUME NEW i \in C PROVE i + 1 \in C
    <3> SUFFICES ASSUME i + 1 <= n PROVE Clean(i + 1)
      OBVIOUS
    <3>1. i + 1 \in 1 .. n /\ (i + 1) - 1 = i /\ i <= n
      BY <1>1
    <3>2. Clean(i)
      BY <3>1
    <3>3. /\ Len(f[i]) \in Nat /\ Len(f[i + 1]) \in Nat
          /\ \A j \in 1 .. Len(f[i]) : f[i + 1][j] = f[i][j]
          /\ \A j \in 1 .. Len(f[i + 1]) : j > Len(f[i]) => f[i + 1][j] # ".."
      BY <1>2, <3>1
    <3>4. \A j \in 1 .. Len(f[i + 1]) : j > Len(f[i]) \/ j \in 1 .. Len(f[i])
      BY <3>3
    <3> QED
      BY <3>2, <3>3, <3>4
  <2> HIDE DEF C
  <2>3. C \in SUBSET Nat
    BY DEF C
  <2> QED
    BY <2>1, <2>2, <2>3, Induction
<1>4. m \in Nat /\ m <= n /\ f[m] \in A
  BY <1>1 DEF n
<1>5. Len(f[m]) \in Nat
  BY <1>4, LenProperties DEF A
<1>6. G = Nat
  <2>1. 0 \in G
    BY <1>4, <1>5
  <2>2. ASSUME NEW i \in G PROVE i + 1 \in G
    <3> SUFFICES ASSUME m + (i + 1) <= n PROVE Grown(m + (i + 1))
      OBVIOUS
    <3>1. m + (i + 1) \in 1 .. n /\ (m + (i + 1)) - 1 = m + i /\ m + i <= n
      BY <1>1, <1>4
    <3>2. Grown(m + i)
      BY <3>1
    <3>3. /\ Len(f[m + i]) \in Nat /\ Len(f[m + (i + 1)]) \in Nat
          /\ Len(f[m + i]) <= Len(f[m + (i + 1)])
          /\ \A j \in 1 .. Len(f[m + i]) : f[m + (i + 1)][j] = f[m + i][j]
      BY <1>2, <3>1
    <3>4. \A j \in 1 .. Len(f[m]) : j \in 1 .. Len(f[m + i])
      BY <1>5, <3>2, <3>3
    <3> QED
      BY <1>5, <3>2, <3>3, <3>4
  <2> HIDE DEF G
  <2>3. G \in SUBSET Nat
    BY DEF G
  <2> QED
    BY <2>1, <2>2, <2>3, Induction
<1>7. Clean(m)
  BY <1>3, <1>4
<1>8. Grown(n)
  <2>1. n - m \in Nat /\ m + (n - m) = n
    BY <1>1, <1>4
  <2>2. n - m \in G
    BY <1>6, <2>1
  <2> HIDE DEF Grown
  <2> QED
    BY <1>1, <2>1, <2>2
<1>9. ".." \notin Range(f[m])
  BY <1>4, <1>7, LenProperties DEF Range, A
<1>10. IsPrefix(f[m], f[n])
  <2> DEFINE a == f[m]
             b == f[n]
  <2>1. a \in A /\ b \in A /\ Len(a) \in Nat /\ Len(b) \in Nat
    BY <1>1, <1>4, <1>5, LenProperties DEF A
  <2>2. Len(a) <= Len(b) /\ \A j \in 1 .. Len(a) : b[j] = a[j]
    BY <1>8
  <2> HIDE DEF a, b
  <2>3. SubSeq(b, 1, Len(a)) \in A /\ Len(SubSeq(b, 1, Len(a))) = Len(a)
        /\ \A j \in 1 .. Len(a) : SubSeq(b, 1, Len(a))[j] = b[j]
    BY <2>1, <2>2, SubSeqProperties DEF A
  <2>4. SubSeq(b, 1, Len(a)) = a
    <3> DEFINE s == SubSeq(b, 1, Len(a))
    <3> HIDE DEF s
    <3>1. s \in A /\ Len(s) = Len(a) /\ \A j \in 1 .. Len(a) : s[j] = a[j]
      BY <2>2, <2>3 DEF s
    <3>2. s = a
      BY <2>1, <3>1, SeqEqual DEF A
    <3> QED
      BY <3>2 DEF s
  <2>5. SubSeq(a, 1, Len(a)) = a
    BY <2>1, SubSeqFull DEF A
  <2> QED
    BY <2>1, <2>2, <2>4, <2>5 DEF IsPrefix, a, b
<1> QED
  BY <1>9, <1>10 DEF n

\* What continues a way that never climbs leads on from where that way leads.
LEMMA WalkBegins ==
  ASSUME NEW S, ".." \in S, NEW parts \in Seq(S), ".." \notin Range(parts),
         NEW m \in 0 .. Len(parts)
  PROVE  /\ ".." \notin Range(Walked(parts))
         /\ IsPrefix(Walked(SubSeq(parts, 1, m)), Walked(parts))
<1> DEFINE n == Len(parts)
           a == SubSeq(parts, 1, m)
<1>1. PICK f : Walk(f, S, parts)
  BY WalkExists
<1>2. n \in Nat /\ m \in Nat /\ m <= n /\ m \in 0 .. n /\ n \in 0 .. n
  BY LenProperties
<1>3. a \in Seq(S) /\ Len(a) = m /\ \A i \in 1 .. m : a[i] = parts[i]
  OBVIOUS
<1> DEFINE h == [i \in 0 .. m |-> f[i]]
<1>4. Walk(h, S, a)
  <2>1. f \in [0 .. n -> Seq(S)] /\ f[0] = <<>>
        /\ \A i \in 1 .. n : f[i] = Along(f[i - 1], parts[i])
    BY <1>1 DEF Walk
  <2> HIDE DEF a
  <2>2. h \in [0 .. m -> Seq(S)] /\ h[0] = <<>>
    BY <1>2, <2>1
  <2>3. ASSUME NEW i \in 1 .. m PROVE h[i] = Along(h[i - 1], a[i])
    <3>1. i \in 1 .. n /\ i \in 0 .. m /\ i - 1 \in 0 .. m
      BY <1>2
    <3> QED
      BY <1>3, <2>1, <3>1
  <2> HIDE DEF h
  <2> QED
    BY <1>3, <2>2, <2>3 DEF Walk
<1> HIDE DEF h, a
<1>5. Walked(a) = h[Len(a)]
  BY <1>3, <1>4, WalkedIs
<1>6. Walked(a) = f[m]
  BY <1>2, <1>3, <1>5 DEF h
<1>7. Walked(parts) = f[n]
  BY <1>1, WalkedIs
<1>8. IsPrefix(f[m], f[n])
  BY <1>1, WalkGoesOn
<1>9. ".." \notin Range(f[n])
  <2> HIDE DEF n
  <2>1. \A k \in 0 .. Len(parts) : ".." \notin Range(f[k])
    BY <1>1, WalkGoesOn
  <2> QED
    BY <1>2, <2>1 DEF n
<1> QED
  BY <1>6, <1>7, <1>8, <1>9 DEF a

LEMMA NowhereToWalk == Walked(<<>>) = <<>>
<1>1. PICK f : Walk(f, {".."}, <<>>)
  BY WalkExists, EmptySeq
<1>2. Walked(<<>>) = f[Len(<<>>)]
  BY <1>1, WalkedIs, EmptySeq
<1> QED
  BY <1>1, <1>2 DEF Walk

\* A way that begins with "." leads where it leads without.
LEMMA DotLeadsNowhere ==
  ASSUME NEW S, ".." \in S, NEW parts \in Seq(S), parts # <<>>, parts[1] = "."
  PROVE  Walked(Tail(parts)) = Walked(parts)
<1> DEFINE n == Len(parts)
           t == Tail(parts)
<1>1. PICK f : Walk(f, S, parts)
  BY WalkExists
<1>2. n \in Nat /\ n >= 1
  BY EmptySeq
<1>3. t \in Seq(S) /\ Len(t) = n - 1 /\ \A i \in 1 .. n - 1 : t[i] = parts[i + 1]
  BY HeadTailProperties
<1> DEFINE h == [i \in 0 .. n - 1 |-> f[i + 1]]
<1>4. Walk(h, S, t)
  <2>1. f \in [0 .. n -> Seq(S)] /\ f[0] = <<>>
        /\ \A i \in 1 .. n : f[i] = Along(f[i - 1], parts[i])
    BY <1>1 DEF Walk
  <2>2. f[1] = <<>>
    <3>1. 1 \in 1 .. n /\ 1 - 1 = 0
      BY <1>2
    <3>2. f[1] = Along(f[0], parts[1])
      BY <2>1, <3>1
    <3> QED
      BY <2>1, <3>2 DEF Along
  <2> HIDE DEF t
  <2>3. h \in [0 .. n - 1 -> Seq(S)] /\ h[0] = <<>>
    BY <1>2, <2>1, <2>2
  <2>4. ASSUME NEW i \in 1 .. n - 1 PROVE h[i] = Along(h[i - 1], t[i])
    <3>1. i \in 0 .. n - 1 /\ i - 1 \in 0 .. n - 1 /\ i + 1 \in 1 .. n
          /\ (i - 1) + 1 = i /\ (i + 1) - 1 = i
      BY <1>2
    <3>2. f[i + 1] = Along(f[i], parts[i + 1])
      BY <2>1, <3>1
    <3>3. h[i] = f[i + 1] /\ h[i - 1] = f[i]
      BY <3>1
    <3> QED
      BY <1>3, <3>2, <3>3
  <2> HIDE DEF h
  <2> QED
    BY <1>3, <2>3, <2>4 DEF Walk
<1> HIDE DEF h, t
<1>5. Walked(t) = h[Len(t)]
  BY <1>3, <1>4, WalkedIs
<1>6. h[n - 1] = f[n]
  BY <1>2 DEF h
<1>7. Walked(parts) = f[n]
  BY <1>1, WalkedIs
<1> QED
  BY <1>3, <1>5, <1>6, <1>7 DEF t

\* What a path is compared as leads where the path does.
LEMMA NormaliseLeadsThere ==
  ASSUME NEW raw \in RawPath
  PROVE  LET plain == Normalise(raw)
         IN  /\ plain \in RawPath
             /\ plain.absolute = raw.absolute
             /\ Walked(plain.parts) = Walked(raw.parts)
             /\ Range(plain.parts) \subseteq Range(raw.parts)
<1> DEFINE S == Names \cup {".", ".."}
           plain == Normalise(raw)
           parts == raw.parts
           t == Tail(parts)
<1>1. parts \in Seq(S) /\ raw.absolute \in BOOLEAN /\ ".." \in S
  BY DEF RawPath
<1>2. raw = [absolute |-> raw.absolute, parts |-> parts]
  BY DEF RawPath
<1>3. CASE ~raw.absolute /\ parts # <<>> /\ parts[1] = "."
  <2>1. plain = [raw EXCEPT !.parts = IF t = <<".">> THEN <<>> ELSE t]
    BY <1>3 DEF Normalise
  <2>2. t \in Seq(S) /\ Len(t) = Len(parts) - 1 /\ \A i \in 1 .. Len(t) : t[i] = parts[i + 1]
    BY <1>1, <1>3, HeadTailProperties
  <2>3. Walked(t) = Walked(parts)
    BY <1>1, <1>3, DotLeadsNowhere
  <2>4. Range(t) \subseteq Range(parts)
    <3>1. Len(parts) \in Nat /\ DOMAIN t = 1 .. Len(t) /\ DOMAIN parts = 1 .. Len(parts)
      BY <1>1, <2>2, LenProperties
    <3>2. \A i \in 1 .. Len(t) : i + 1 \in 1 .. Len(parts)
      BY <2>2, <3>1
    <3> HIDE DEF t, parts
    <3> QED
      BY <2>2, <3>1, <3>2 DEF Range
  <2>5. t = <<".">> => Walked(t) = <<>>
    <3>1. <<".">> \in Seq(S) /\ <<".">> # <<>> /\ <<".">>[1] = "." /\ Tail(<<".">>) = <<>>
      OBVIOUS
    <3>2. Walked(Tail(<<".">>)) = Walked(<<".">>)
      BY <1>1, <3>1, DotLeadsNowhere
    <3> QED
      BY <3>1, <3>2, NowhereToWalk
  <2> HIDE DEF t, S, parts
  <2> DEFINE kept == IF t = <<".">> THEN <<>> ELSE t
  <2>6. /\ kept \in Seq(S) /\ Walked(kept) = Walked(parts)
        /\ Range(kept) \subseteq Range(parts)
    <3>1. <<>> \in Seq(S) /\ Range(<<>>) = {}
      BY EmptySeq DEF Range
    <3> QED
      BY <2>2, <2>3, <2>4, <2>5, <3>1, NowhereToWalk
  <2> HIDE DEF kept
  <2>7. plain = [absolute |-> raw.absolute, parts |-> kept]
    BY <1>2, <2>1 DEF kept
  <2> QED
    BY <1>1, <2>6, <2>7 DEF RawPath, S, parts
<1>4. CASE ~(~raw.absolute /\ parts # <<>> /\ parts[1] = ".")
  BY <1>4 DEF Normalise
<1> QED
  BY <1>3, <1>4

LEMMA ResolveIs ==
  ASSUME NEW raw \in RawPath
  PROVE  Resolve(raw) = [absolute |-> raw.absolute, parts |-> Walked(raw.parts)]
<1> DEFINE w == Walked(raw.parts)
<1>1. \A x : [raw EXCEPT !.parts = x] = [absolute |-> raw.absolute, parts |-> x]
  BY DEF RawPath
<1> HIDE DEF w
<1>2. Resolve(raw) = [raw EXCEPT !.parts = w]
  BY DEF Resolve, w
<1> QED
  BY <1>1, <1>2 DEF w

\* A path that is accepted leads into what was granted.
LEMMA PathsStayInside ==
  ASSUME NEW scope \in SUBSET RawPath, NEW raw \in RawPath, InWorkspace(ScopeOf(scope), raw)
  PROVE  \E granted \in scope :
           /\ ".." \notin Range(granted.parts) \cup Range(Resolve(raw).parts)
           /\ CoversLexically(Resolve(granted), Resolve(raw))
<1> DEFINE S == Names \cup {".", ".."}
           plain == Normalise(raw)
<1>1. /\ ~raw.absolute /\ ".." \notin Range(raw.parts)
      /\ \E p \in ScopeOf(scope) : CoversLexically(p, plain)
  BY DEF InWorkspace, Covers
<1>2. PICK granted \in scope :
        ".." \notin Range(granted.parts) /\ CoversLexically(Normalise(granted), plain)
  BY <1>1 DEF ScopeOf
<1> DEFINE q == Normalise(granted)
<1>3. granted \in RawPath
  OBVIOUS
<1>4. /\ q \in RawPath /\ q.absolute = granted.absolute
      /\ Walked(q.parts) = Walked(granted.parts)
  BY <1>3, NormaliseLeadsThere
<1>5. /\ plain \in RawPath /\ plain.absolute = raw.absolute
      /\ Walked(plain.parts) = Walked(raw.parts) /\ ".." \notin Range(plain.parts)
  BY <1>1, NormaliseLeadsThere
<1>6. Resolve(granted) = [absolute |-> granted.absolute, parts |-> Walked(granted.parts)]
      /\ Resolve(raw) = [absolute |-> raw.absolute, parts |-> Walked(raw.parts)]
  BY <1>3, ResolveIs
<1> HIDE DEF plain, q
<1>7. q.parts \in Seq(S) /\ plain.parts \in Seq(S) /\ ".." \in S
  BY <1>4, <1>5 DEF RawPath
<1>8. \A m \in 0 .. Len(plain.parts) :
        /\ ".." \notin Range(Walked(plain.parts))
        /\ IsPrefix(Walked(SubSeq(plain.parts, 1, m)), Walked(plain.parts))
  <2> DEFINE parts == plain.parts
  <2>1. parts \in Seq(S) /\ ".." \notin Range(parts)
    BY <1>5, <1>7
  <2> HIDE DEF parts
  <2>2. \A m \in 0 .. Len(parts) :
          ".." \notin Range(Walked(parts)) /\ IsPrefix(Walked(SubSeq(parts, 1, m)), Walked(parts))
    BY <1>7, <2>1, WalkBegins
  <2> QED
    BY <2>2 DEF parts
<1>9. ".." \notin Range(Walked(raw.parts))
  <2>1. 0 \in 0 .. Len(plain.parts)
    BY <1>7, LenProperties
  <2> QED
    BY <1>5, <1>8, <2>1
<1>10. CoversLexically(Resolve(granted), Resolve(raw))
  <2>1. CASE q = Filesystem
    <3>1. q.absolute /\ q.parts = <<>>
      BY <2>1 DEF Filesystem
    <3>2. Walked(granted.parts) = <<>> /\ granted.absolute = TRUE
      BY <1>4, <2>1, <3>1, NowhereToWalk DEF Filesystem
    <3> QED
      BY <1>6, <3>2 DEF CoversLexically, Filesystem
  <2>2. CASE q # Filesystem
    <3>1. q.absolute = plain.absolute /\ IsPrefix(q.parts, plain.parts)
      BY <1>2, <2>2 DEF CoversLexically, q
    <3> DEFINE m == Len(q.parts)
    <3>2. m \in 0 .. Len(plain.parts) /\ q.parts = SubSeq(plain.parts, 1, m)
      <4>1. m \in Nat /\ Len(plain.parts) \in Nat
        BY <1>7, LenProperties
      <4>2. SubSeq(q.parts, 1, Len(q.parts)) = q.parts
        BY <1>7, SubSeqFull
      <4> QED
        BY <3>1, <4>1, <4>2 DEF IsPrefix
    <3> HIDE DEF m
    <3>3. IsPrefix(Walked(q.parts), Walked(plain.parts))
      BY <1>8, <3>2
    <3>4. IsPrefix(Walked(granted.parts), Walked(raw.parts))
      BY <1>4, <1>5, <3>3
    <3>5. granted.absolute = raw.absolute
      BY <1>4, <1>5, <3>1
    <3> QED
      BY <1>6, <3>4, <3>5 DEF CoversLexically
  <2> QED
    BY <2>1, <2>2
<1>11. ".." \notin Range(granted.parts) \cup Range(Resolve(raw).parts)
  BY <1>2, <1>6, <1>9
<1> QED
  BY <1>2, <1>10, <1>11

--------------------------------------------------------------------------------
(* The first and the last place where something stands.                    *)

LEMMA FirstOfSome ==
  ASSUME NEW I \in SUBSET Nat, I # {}
  PROVE  Min(I) \in I /\ \A j \in I : Min(I) <= j
<1>1. \E k \in I : \A j \in I : k <= j
  BY LeastElement
<1> QED
  BY <1>1 DEF Min

LEMMA LastOfSome ==
  ASSUME NEW n \in Nat, NEW I \in SUBSET (0 .. n), I # {}
  PROVE  Max(I) \in I /\ \A j \in I : j <= Max(I)
<1> DEFINE J == {n - j : j \in I}
<1>1. J \in SUBSET Nat /\ J # {}
  <2>1. \A j \in I : n - j \in Nat
    OBVIOUS
  <2> QED
    BY <2>1
<1>2. Min(J) \in J /\ \A j \in J : Min(J) <= j
  <2> HIDE DEF J
  <2> QED
    BY <1>1, FirstOfSome
<1>3. PICK k \in I : n - k = Min(J)
  BY <1>2
<1>4. \A j \in I : k >= j
  <2> SUFFICES ASSUME NEW j \in I PROVE k >= j
    OBVIOUS
  <2>1. n - j \in J
    OBVIOUS
  <2>2. n - k <= n - j
    BY <1>2, <1>3, <2>1
  <2> QED
    BY <2>2
<1> QED
  BY <1>3, <1>4 DEF Max

\* What SelectInSeq and SelectLastInSeq find, with the places that pass their test.
LEMMA PlaceFound ==
  ASSUME NEW n \in Nat, NEW I \in SUBSET (1 .. n)
  PROVE  /\ LET at == IF I # {} THEN Min(I) ELSE 0
            IN  \/ at = 0 /\ I = {}
                \/ at \in I /\ at \in 1 .. n /\ \A j \in I : at <= j
         /\ LET at == IF I # {} THEN Max(I) ELSE 0
            IN  \/ at = 0 /\ I = {}
                \/ at \in I /\ at \in 1 .. n /\ \A j \in I : j <= at
<1>1. I \in SUBSET Nat /\ I \in SUBSET (0 .. n)
  OBVIOUS
<1>2. CASE I = {}
  BY <1>2
<1>3. CASE I # {}
  <2>1. Min(I) \in I /\ \A j \in I : Min(I) <= j
    BY <1>1, <1>3, FirstOfSome
  <2>2. Max(I) \in I /\ \A j \in I : j <= Max(I)
    BY <1>1, <1>3, LastOfSome
  <2> QED
    BY <1>3, <2>1, <2>2
<1> QED
  BY <1>2, <1>3

--------------------------------------------------------------------------------
(* Where a request goes, and what is run.                                  *)

Bare(authority) == [i \in DOMAIN authority |-> Lower(authority[i])]

\* An authority without credentials or port is the host.
LEMMA PlainAuthorityIsHost ==
  ASSUME NEW authority \in Seq(STRING), Range(authority) \cap {"@", ":"} = {}
  PROVE  Before({":"}, After("@", authority)) = authority
<1>1. \A i \in 1 .. Len(authority) : authority[i] # "@" /\ authority[i] \notin {":"}
  BY LenProperties DEF Range
<1>2. After("@", authority) = authority
  BY <1>1 DEF After
<1>3. Before({":"}, authority) = authority
  BY <1>1 DEF Before
<1> QED
  BY <1>2, <1>3

LEMMA AuthorityWithin ==
  ASSUME NEW rest \in Seq(STRING)
  PROVE  /\ AuthorityOf(rest) = Before({"/", "?", "#"}, rest)
         /\ AuthorityOf(rest) \in Seq(STRING)
         /\ Range(AuthorityOf(rest)) \subseteq Range(rest)
<1> DEFINE ended == rest \o <<"/">>
           n == Len(rest)
           chars == {"/", "?", "#"}
           Ends == {i \in 1 .. n + 1 : ended[i] \in chars}
           places == {i \in 1 .. n : rest[i] \in chars}
           end == SelectInSeq(ended, LAMBDA c : c \in {"/", "?", "#"})
           authority == SubSeq(rest, 1, end - 1)
<1>1. n \in Nat /\ Len(ended) = n + 1 /\ ended[n + 1] = "/" /\ \A i \in 1 .. n : ended[i] = rest[i]
  OBVIOUS
<1>2. end = IF Ends # {} THEN Min(Ends) ELSE 0
  <2> DEFINE I == {i \in 1 .. Len(ended) : ended[i] \in {"/", "?", "#"}}
  <2>1. end = IF I # {} THEN Min(I) ELSE 0
    BY DEF SelectInSeq
  <2>2. I = Ends
    BY <1>1
  <2> HIDE DEF I, Ends, end
  <2> QED
    BY <2>1, <2>2
<1>3. AuthorityOf(rest) = authority
  BY DEF AuthorityOf
<1>4. /\ n + 1 \in Ends /\ Ends \in SUBSET (1 .. n + 1)
      /\ \A i \in 1 .. n : i \in Ends <=> i \in places
      /\ places \in SUBSET (1 .. n)
  BY <1>1
<1>5. end \in Ends /\ \A i \in Ends : end <= i
  <2> HIDE DEF Ends, end, ended, n, chars, places
  <2>1. Ends \in SUBSET Nat /\ Ends # {}
    BY <1>4
  <2>2. Min(Ends) \in Ends /\ \A i \in Ends : Min(Ends) <= i
    BY <2>1, FirstOfSome
  <2> QED
    BY <1>2, <2>1, <2>2
<1> HIDE DEF end
<1>6. authority \in Seq(STRING) /\ Len(authority) = end - 1
      /\ \A i \in 1 .. end - 1 : i \in 1 .. n /\ authority[i] = rest[i]
  BY <1>1, <1>4, <1>5
<1>7. Before(chars, rest) = authority
  <2>1. Before(chars, rest) = IF places = {} THEN rest ELSE SubSeq(rest, 1, Min(places) - 1)
    BY DEF Before
  <2> HIDE DEF places, Ends, chars, n, ended
  <2>2. CASE places = {}
    <3>1. end = n + 1
      BY <1>1, <1>4, <1>5, <2>2
    <3>2. SubSeq(rest, 1, n) = rest
      BY SubSeqFull DEF n
    <3> QED
      BY <1>1, <2>1, <2>2, <3>1, <3>2
  <2>3. CASE places # {}
    <3>1. places \in SUBSET Nat
      BY <1>1, <1>4
    <3>2. Min(places) \in places /\ \A i \in places : Min(places) <= i
      BY <2>3, <3>1, FirstOfSome
    <3> DEFINE least == Min(places)
    <3> HIDE DEF least
    <3>4. least \in 1 .. n /\ least \in Ends /\ end <= least
      BY <1>4, <1>5, <3>2 DEF least
    <3>5. end \in 1 .. n
      BY <1>1, <1>4, <1>5, <3>4
    <3>6. end \in places
      BY <1>4, <1>5, <3>5
    <3>7. least <= end
      BY <3>2, <3>6 DEF least
    <3>3. end = Min(places)
      BY <1>1, <3>4, <3>5, <3>7 DEF least
    <3> QED
      BY <2>1, <2>3, <3>3
  <2> QED
    BY <2>2, <2>3
<1> HIDE DEF authority
<1>8. Range(authority) \subseteq Range(rest)
  <2>1. DOMAIN authority = 1 .. end - 1 /\ DOMAIN rest = 1 .. n
    BY <1>6, LenProperties
  <2> QED
    BY <1>6, <2>1 DEF Range
<1> QED
  BY <1>3, <1>6, <1>7, <1>8

LEMMA UrlsStayGranted ==
  ASSUME NEW allowed, NEW url \in [scheme : STRING, rest : Seq(STRING)]
  PROVE  /\ OnEgressAllowlist(allowed, url) => GoesWhereGranted(url, allowed)
         /\ GoesWhereGranted(url, allowed) /\ Range(url.rest) \cap {"@", ":"} = {} =>
              OnEgressAllowlist(allowed, url)
<1> DEFINE rest == url.rest
           authority == AuthorityOf(rest)
<1>1. rest \in Seq(STRING)
  OBVIOUS
<1> HIDE DEF rest
<1>2. authority \in Seq(STRING) /\ Range(authority) \subseteq Range(rest)
  BY <1>1, AuthorityWithin
<1>3. Range(authority) \cap {"@", ":"} = {} => HostReached(rest) = Bare(authority)
  <2> SUFFICES ASSUME Range(authority) \cap {"@", ":"} = {}
               PROVE  HostReached(rest) = Bare(authority)
    OBVIOUS
  <2>1. authority = Before({"/", "?", "#"}, rest)
    BY <1>1, AuthorityWithin
  <2> HIDE DEF authority
  <2>2. Before({":"}, After("@", authority)) = authority
    BY <1>2, PlainAuthorityIsHost
  <2> QED
    BY <2>1, <2>2 DEF HostReached, Bare
<1>4. OnEgressAllowlist(allowed, url) <=>
        /\ url.scheme = "https"
        /\ Range(authority) \cap {"@", ":"} = {}
        /\ Bare(authority) \in allowed
  BY DEF OnEgressAllowlist, Bare, rest
<1>5. Range(rest) \cap {"@", ":"} = {} => Range(authority) \cap {"@", ":"} = {}
  BY <1>2
<1> HIDE DEF authority
<1> QED
  BY <1>3, <1>4, <1>5 DEF rest, GoesWhereGranted

--------------------------------------------------------------------------------
(* What a skill asks for, and what it says.                                *)

\* The text that is kept begins somewhere in the body and ends where it does or before.
LEMMA TrimmedBegins ==
  ASSUME NEW S, NEW file \in Seq(S), NEW closing \in 1 .. Len(file)
  PROVE  \E i \in closing .. Len(file) :
           IsPrefix(Trimmed(SubSeq(file, closing + 1, Len(file))),
                    SubSeq(file, i + 1, Len(file)))
<1> DEFINE n == Len(file)
           body == SubSeq(file, closing + 1, n)
           Firsts == {i \in 1 .. Len(body) : body[i] \notin {Fence, EmptyLine}}
           Lasts == {i \in 1 .. Len(body) : body[i] # EmptyLine}
           first == SelectInSeq(body, LAMBDA line : line \notin {Fence, EmptyLine})
           last == SelectLastInSeq(body, LAMBDA line : line # EmptyLine)
<1>1. n \in Nat /\ closing \in Nat /\ closing <= n /\ body \in Seq(S)
      /\ Len(body) = n - closing /\ \A i \in 1 .. n - closing : body[i] = file[closing + i]
  OBVIOUS
<1>2. Trimmed(body) = IF first = 0 THEN <<>> ELSE SubSeq(body, first, last)
  BY DEF Trimmed
<1>3. first = 0 \/ first \in 1 .. n - closing
  <2>1. first = IF Firsts # {} THEN Min(Firsts) ELSE 0
    BY DEF SelectInSeq
  <2>2. Firsts \in SUBSET (1 .. n - closing) /\ n - closing \in Nat
    BY <1>1
  <2> HIDE DEF Firsts, first, body, n
  <2> QED
    BY <2>1, <2>2, PlaceFound
<1>4. last \in Nat /\ last <= n - closing
  <2>1. last = IF Lasts # {} THEN Max(Lasts) ELSE 0
    BY DEF SelectLastInSeq
  <2>2. Lasts \in SUBSET (1 .. n - closing) /\ n - closing \in Nat
    BY <1>1
  <2> HIDE DEF Lasts, last, body, n
  <2>3. last = 0 \/ last \in 1 .. n - closing
    BY <2>1, <2>2, PlaceFound
  <2> QED
    BY <2>2, <2>3
<1> HIDE DEF first, last, body
<1> DEFINE kept == Trimmed(body)
           below(i) == SubSeq(file, i + 1, n)
<1>5. ASSUME kept = <<>> PROVE IsPrefix(kept, below(closing))
  <2>1. Len(below(closing)) \in Nat
    BY <1>1
  <2> HIDE DEF below
  <2>2. SubSeq(<<>>, 1, 0) = <<>> /\ SubSeq(below(closing), 1, 0) = <<>> /\ Len(<<>>) = 0
    BY SubSeqEmpty
  <2> HIDE DEF kept
  <2> QED
    BY <1>5, <2>1, <2>2 DEF IsPrefix
<1>6. ASSUME first # 0, first <= last PROVE IsPrefix(kept, below(closing + first - 1))
  <2> DEFINE i == closing + first - 1
             t == below(i)
             m == last - first + 1
  <2>1. first \in 1 .. n - closing /\ m \in Nat /\ i \in closing .. n /\ i + m <= n
    BY <1>1, <1>3, <1>4, <1>6
  <2>2. /\ t \in Seq(S) /\ Len(t) = n - i
        /\ \A j \in 1 .. n - i : t[j] = file[i + j]
    <3>1. \A a \in 0 .. n : /\ SubSeq(file, a + 1, n) \in Seq(S)
                            /\ Len(SubSeq(file, a + 1, n)) = n - a
                            /\ \A j \in 1 .. n - a : SubSeq(file, a + 1, n)[j] = file[a + j]
      OBVIOUS
    <3>2. i \in 0 .. n
      BY <1>1, <2>1
    <3> HIDE DEF i, n
    <3> QED
      BY <3>1, <3>2
  <2>3. /\ kept \in Seq(S) /\ Len(kept) = m
        /\ \A j \in 1 .. m : kept[j] = file[i + j]
    <3>1. kept = SubSeq(body, first, last)
      BY <1>2, <1>6
    <3>3. first \in Int /\ last \in Int
      BY <1>3, <1>4
    <3>2. ASSUME NEW j \in first .. last PROVE j \in 1 .. n - closing /\ body[j] \in S
      <4>1. j \in 1 .. n - closing
        BY <1>1, <1>4, <2>1, <3>3
      <4>2. j \in 1 .. Len(body)
        BY <1>1, <4>1
      <4> QED
        BY <1>1, <4>1, <4>2, ElementOfSeq
    <3> HIDE DEF n, kept
    <3>4. /\ kept \in Seq(S) /\ Len(kept) = IF first <= last THEN last - first + 1 ELSE 0
          /\ \A j \in 1 .. last - first + 1 : kept[j] = body[first + j - 1]
      BY <3>1, <3>2, <3>3, SubSeqProperties
    <3>5. ASSUME NEW j \in 1 .. m PROVE kept[j] = file[i + j]
      <4>1. kept[j] = body[first + j - 1]
        BY <3>4
      <4>2. first + j - 1 \in first .. last /\ closing + (first + j - 1) = i + j
        <5>1. j \in 1 .. last - first + 1 /\ closing \in Int
          OBVIOUS
        <5> QED
          BY <3>3, <5>1
      <4>3. \A k \in 1 .. n - closing : body[k] = file[closing + k]
        BY <1>1
      <4> DEFINE k == first + j - 1
      <4>4. k \in 1 .. n - closing /\ closing + k = i + j
        BY <3>2, <4>2
      <4> HIDE DEF k
      <4>5. body[k] = file[i + j]
        BY <4>3, <4>4
      <4> QED
        BY <4>1, <4>5 DEF k
    <3> QED
      BY <1>6, <3>4, <3>5
  <2>4. SubSeq(t, 1, m) \in Seq(S) /\ Len(SubSeq(t, 1, m)) = m
        /\ \A j \in 1 .. m : SubSeq(t, 1, m)[j] = t[j]
    <3>1. m <= Len(t) /\ m \in 0 .. Len(t)
      BY <1>1, <2>1, <2>2
    <3> HIDE DEF t, m
    <3> QED
      BY <2>1, <2>2, <3>1
  <2> HIDE DEF kept, t, m, n
  <2>5. \A j \in 1 .. m : SubSeq(t, 1, m)[j] = kept[j]
    <3>1. \A j \in 1 .. m : j \in 1 .. n - i
      BY <1>1, <2>1
    <3> QED
      BY <2>2, <2>3, <2>4, <3>1
  <2>6. SubSeq(t, 1, m) = kept
    <3> DEFINE b == SubSeq(t, 1, m)
    <3> HIDE DEF b
    <3>1. b \in Seq(S) /\ Len(b) = Len(kept) /\ \A j \in 1 .. Len(b) : b[j] = kept[j]
      BY <2>3, <2>4, <2>5 DEF b
    <3>2. b = kept
      BY <2>3, <3>1, SeqEqual
    <3> QED
      BY <3>2 DEF b
  <2>7. SubSeq(kept, 1, m) = kept
    BY <2>3, SubSeqFull
  <2>8. Len(kept) <= Len(t)
    BY <1>1, <2>1, <2>2, <2>3
  <2> QED
    BY <2>3, <2>6, <2>7, <2>8 DEF IsPrefix, t
<1>7. first = 0 \/ first > last => kept = <<>>
  <2>1. first > last => SubSeq(body, first, last) = <<>>
    BY <1>3, <1>4, SubSeqEmpty
  <2> QED
    BY <1>2, <2>1
<1>8. closing \in closing .. n /\ (first # 0 => closing + first - 1 \in closing .. n)
  BY <1>1, <1>3
<1>9. first \in Int /\ last \in Int
  BY <1>3, <1>4
<1> HIDE DEF kept, below
<1>10. \E i \in closing .. n : IsPrefix(kept, below(i))
  <2>1. CASE first = 0 \/ first > last
    BY <1>5, <1>7, <1>8, <2>1
  <2>2. CASE first # 0 /\ first <= last
    BY <1>6, <1>8, <2>2
  <2> QED
    BY <1>9, <2>1, <2>2
<1> QED
  BY <1>10 DEF kept, below, body

\* A skill that is loaded asks for what a line of its front matter lists, or for nothing.
LEMMA LoadedAsWritten ==
  ASSUME NEW S, NEW file \in Seq(S), NEW granted, NEW trusted,
         ParseSkill(file, granted, trusted).loaded
  PROVE  LET skill == ParseSkill(file, granted, trusted)
         IN  /\ skill.requested \subseteq granted
             /\ \E closing \in 2 .. Len(file) :
                  /\ file[1] = Fence /\ file[closing] = Fence
                  /\ \A i \in 2 .. closing - 1 : file[i] # Fence
                  /\ {"name", "description"} \subseteq {file[i].key : i \in 1 .. closing}
                  /\ \E i \in 1 .. closing : file[i].lists = skill.requested
                  /\ \E i \in closing .. Len(file) :
                       IsPrefix(skill.body, SubSeq(file, i + 1, Len(file)))
<1> DEFINE n == Len(file)
           skill == ParseSkill(file, granted, trusted)
           tail == Tail(file)
           Fences == {i \in 1 .. Len(tail) : tail[i] = Fence}
           fence == SelectInSeq(tail, LAMBDA line : line = Fence)
           closing == fence + 1
           front == FrontOf(file, closing)
           Keyed(key) == {i \in 1 .. Len(front) : front[i].key = key}
           wants == LineOf(front, "capabilities")
           asks == IF wants = 0 THEN {} ELSE front[wants].lists
           body == Trimmed(SubSeq(file, closing + 1, n))
<1>1. skill = CASE file = <<>> \/ file[1] # Fence \/ closing = 1 -> Refused("NoFrontMatter")
                [] LineOf(front, "name") = 0 \/ LineOf(front, "description") = 0 -> Refused("MissingField")
                [] asks \ granted # {} -> Refused("UngrantedCapabilities")
                [] OTHER -> [loaded |-> TRUE, requested |-> asks, trusted |-> trusted, body |-> body]
  BY DEF ParseSkill
<1>2. /\ file # <<>> /\ file[1] = Fence /\ closing # 1
      /\ LineOf(front, "name") # 0 /\ LineOf(front, "description") # 0
      /\ asks \subseteq granted
      /\ skill.requested = asks /\ skill.body = body
  <2>1. skill.loaded
    OBVIOUS
  <2>2. \A why : ~Refused(why).loaded
    BY DEF Refused
  <2> HIDE DEF skill, asks, body, closing, front
  <2>3. CASE file = <<>> \/ file[1] # Fence \/ closing = 1
    BY <1>1, <2>1, <2>2, <2>3
  <2>4. CASE /\ ~(file = <<>> \/ file[1] # Fence \/ closing = 1)
             /\ LineOf(front, "name") = 0 \/ LineOf(front, "description") = 0
    BY <1>1, <2>1, <2>2, <2>4
  <2>5. CASE /\ ~(file = <<>> \/ file[1] # Fence \/ closing = 1)
             /\ ~(LineOf(front, "name") = 0 \/ LineOf(front, "description") = 0)
             /\ asks \ granted # {}
    BY <1>1, <2>1, <2>2, <2>5
  <2>6. CASE /\ ~(file = <<>> \/ file[1] # Fence \/ closing = 1)
             /\ ~(LineOf(front, "name") = 0 \/ LineOf(front, "description") = 0)
             /\ asks \ granted = {}
    <3>1. skill = [loaded |-> TRUE, requested |-> asks, trusted |-> trusted, body |-> body]
      BY <1>1, <2>6
    <3> QED
      BY <2>6, <3>1
  <2> QED
    BY <2>3, <2>4, <2>5, <2>6
<1>3. /\ n \in Nat /\ tail \in Seq(S) /\ Len(tail) = n - 1 /\ n >= 1
      /\ \A i \in 1 .. n - 1 : tail[i] = file[i + 1]
  BY <1>2, HeadTailProperties, EmptySeq
<1>4. /\ closing \in 2 .. n /\ file[closing] = Fence
      /\ \A i \in 2 .. closing - 1 : file[i] # Fence
  <2>1. fence = IF Fences # {} THEN Min(Fences) ELSE 0
    BY DEF SelectInSeq
  <2>2. Fences \in SUBSET (1 .. n - 1) /\ n - 1 \in Nat
        /\ \A i \in 1 .. n - 1 : i \in Fences <=> tail[i] = Fence
    BY <1>3
  <2>5. fence # 0
    BY <1>2
  <2> HIDE DEF Fences, fence, tail, n
  <2>3. fence \in Fences /\ fence \in 1 .. n - 1 /\ \A j \in Fences : fence <= j
    <3> DEFINE m == n - 1
    <3>1. Fences \in SUBSET (1 .. m) /\ m \in Nat
      BY <2>2
    <3> HIDE DEF m
    <3>2. fence = 0 \/ (fence \in Fences /\ fence \in 1 .. m /\ \A j \in Fences : fence <= j)
      BY <2>1, <3>1, PlaceFound
    <3> QED
      BY <2>5, <3>2 DEF m
  <2>4. \A i \in 2 .. closing - 1 : i - 1 \in 1 .. n - 1 /\ (i - 1) + 1 = i /\ ~(fence <= i - 1)
    BY <1>3, <2>3
  <2>6. \A i \in 2 .. closing - 1 : file[i] # Fence
    <3> SUFFICES ASSUME NEW i \in 2 .. closing - 1 PROVE file[i] # Fence
      OBVIOUS
    <3> DEFINE j == i - 1
    <3>1. j \in 1 .. n - 1 /\ j + 1 = i /\ ~(fence <= j)
      BY <2>4
    <3> HIDE DEF j
    <3>2. tail[j] # Fence /\ tail[j] = file[j + 1]
      BY <1>3, <2>2, <2>3, <3>1
    <3> QED
      BY <3>1, <3>2
  <2>7. tail[fence] = Fence /\ tail[fence] = file[fence + 1]
    BY <1>3, <2>2, <2>3
  <2>8. closing \in 2 .. n
    BY <1>3, <2>3
  <2> QED
    BY <2>6, <2>7, <2>8
<1> HIDE DEF fence, Fences
<1>5. Len(front) = closing - 2 /\ \A i \in 1 .. closing - 2 : front[i] = file[i + 1]
  <2> HIDE DEF closing
  <2>1. (closing \in Int /\ 2 <= closing - 1) \/ closing = 2
    BY <1>3, <1>4
  <2>2. \A i \in 2 .. closing - 1 : i \in 1 .. n
    BY <1>3, <1>4
  <2>3. front \in Seq(S) /\ Len(front) = (IF 2 <= closing - 1 THEN closing - 1 - 2 + 1 ELSE 0)
        /\ \A i \in 1 .. closing - 1 - 2 + 1 : front[i] = file[2 + i - 1]
    BY <1>4, <2>2, SubSeqProperties, ElementOfSeq DEF FrontOf
  <2> HIDE DEF front
  <2> QED
    BY <1>3, <1>4, <2>1, <2>3
<1> HIDE DEF closing, front
<1>6. ASSUME NEW key, LineOf(front, key) # 0
      PROVE  /\ LineOf(front, key) \in 1 .. closing - 2
             /\ front[LineOf(front, key)].key = key
  <2> DEFINE at == LineOf(front, key)
             I == Keyed(key)
  <2>1. at = IF I # {} THEN Max(I) ELSE 0
    BY DEF LineOf, SelectLastInSeq
  <2>2. I \in SUBSET (1 .. closing - 2) /\ closing - 2 \in Nat
    BY <1>4, <1>5
  <2>3. \A i \in I : front[i].key = key
    OBVIOUS
  <2> HIDE DEF at, I
  <2>4. at # 0
    BY <1>6 DEF at
  <2>5. at \in I /\ at \in 1 .. closing - 2
    BY <2>1, <2>2, <2>4, PlaceFound
  <2> QED
    BY <2>3, <2>5 DEF at
<1>7. ASSUME NEW i \in 1 .. closing - 2
      PROVE  i + 1 \in 1 .. closing /\ front[i] = file[i + 1]
  BY <1>3, <1>4, <1>5
<1>8. {"name", "description"} \subseteq {file[i].key : i \in 1 .. closing}
  <2>1. ASSUME NEW key, LineOf(front, key) # 0 PROVE \E i \in 1 .. closing : file[i].key = key
    BY <1>6, <1>7, <2>1
  <2> QED
    BY <1>2, <2>1
<1>9. \E i \in 1 .. closing : file[i].lists = asks
  <2>1. CASE wants = 0
    <3>1. 1 \in 1 .. closing /\ file[1].lists = {}
      BY <1>2, <1>3, <1>4 DEF Fence, Line
    <3> QED
      BY <2>1, <3>1
  <2>2. CASE wants # 0
    <3>1. wants \in 1 .. closing - 2
      BY <1>6, <2>2
    <3>2. wants + 1 \in 1 .. closing /\ front[wants] = file[wants + 1]
      BY <1>7, <3>1
    <3> QED
      BY <2>2, <3>2
  <2> QED
    BY <2>1, <2>2
<1>10. \E i \in closing .. n : IsPrefix(body, SubSeq(file, i + 1, n))
  <2>1. closing \in 1 .. Len(file)
    BY <1>3, <1>4
  <2> QED
    BY <2>1, TrimmedBegins
<1> HIDE DEF asks, body, skill
<1> QED
  BY <1>2, <1>4, <1>8, <1>9, <1>10 DEF skill

\* "A scope that appears to confine and does not is the worst kind of security bug": for
\* every scope and path, list of hosts and URL, skill and set of grants
\* (frey-core/src/capability.rs, frey-tools/src/builtin.rs, frey-context/src/skills.rs).
THEOREM OnlyGrantedPasses == AdmissionSpec => []NothingUngrantedPasses
<1>1. DecisionsInit => NothingUngrantedPasses
  BY DEF DecisionsInit, Nothing, NothingUngrantedPasses
<1>2. NothingUngrantedPasses /\ [AdmissionNext]_decisionsVars => NothingUngrantedPasses'
  <2> SUFFICES ASSUME NothingUngrantedPasses, [AdmissionNext]_decisionsVars
               PROVE  NothingUngrantedPasses'
    OBVIOUS
  <2>1. ASSUME NEW spec, NEW policy, NEW host, NEW accepted, MayRun(spec, policy, host, accepted)
        PROVE  NothingUngrantedPasses'
    BY <2>1 DEF MayRun, NothingUngrantedPasses
  <2>2. ASSUME NEW scope \in Scopes, NEW raw \in Paths, MayTouch(scope, raw)
        PROVE  NothingUngrantedPasses'
    <3>1. /\ asked'.about = "path" /\ asked'.scope = scope /\ asked'.path = raw
          /\ asked'.allowed = InWorkspace(ScopeOf(scope), raw)
      BY <2>2 DEF MayTouch
    <3>2. scope \in SUBSET RawPath /\ raw \in RawPath
      BY QuestionAssumption
    <3> QED
      BY <3>1, <3>2, PathsStayInside DEF NothingUngrantedPasses
  <2>3. ASSUME NEW hosts, NEW url \in Urls, MayFetch(hosts, url)
        PROVE  NothingUngrantedPasses'
    <3> DEFINE allowed == UNION {HostPattern(h) : h \in hosts}
    <3>1. /\ asked'.about = "url" /\ asked'.url = url /\ asked'.granted = allowed
          /\ asked'.allowed = OnEgressAllowlist(allowed, url)
      BY <2>3 DEF MayFetch
    <3>2. url \in [scheme : STRING, rest : Seq(STRING)]
      BY QuestionAssumption
    <3> HIDE DEF allowed
    <3>3. /\ OnEgressAllowlist(allowed, url) => GoesWhereGranted(url, allowed)
          /\ GoesWhereGranted(url, allowed) /\ Range(url.rest) \cap {"@", ":"} = {} =>
               OnEgressAllowlist(allowed, url)
      BY <3>2, UrlsStayGranted
    <3>4. /\ asked'.allowed => GoesWhereGranted(asked'.url, asked'.granted)
          /\ GoesWhereGranted(asked'.url, asked'.granted)
               /\ Range(asked'.url.rest) \cap {"@", ":"} = {} => asked'.allowed
      BY <3>1, <3>3
    <3>5. asked'.about \notin {"path", "argv", "skill"}
      BY <3>1
    <3> QED
      BY <3>4, <3>5 DEF NothingUngrantedPasses
  <2>4. ASSUME NEW programs, NEW argv \in {<<>>} \cup {<<p, q>> : p, q \in Names},
               MayExec(programs, argv)
        PROVE  NothingUngrantedPasses'
    <3>1. /\ asked'.about = "argv" /\ asked'.argv = argv /\ asked'.granted = programs
          /\ asked'.allowed = AllowedProgram(programs, argv)
      BY <2>4 DEF MayExec
    <3>2. argv # <<>> => Head(argv) = argv[1]
      OBVIOUS
    <3>6. AllowedProgram(programs, argv) => Head(argv) \in programs
      BY ONLY <3>2 DEF AllowedProgram
    <3>3. asked'.allowed => Head(argv) \in programs
      BY <3>1, <3>6
    <3>4. asked'.allowed => Head(asked'.argv) \in asked'.granted
      BY <3>1, <3>3
    <3>5. asked'.about \notin {"path", "url", "skill"}
      BY <3>1
    <3> QED
      BY ONLY <3>4, <3>5 DEF NothingUngrantedPasses
  <2>5. ASSUME NEW file \in SkillFiles, NEW granted, NEW trusted, Load(file, granted, trusted)
        PROVE  NothingUngrantedPasses'
    <3>1. /\ asked'.about = "skill" /\ asked'.file = file /\ asked'.granted = granted
          /\ asked'.skill = ParseSkill(file, granted, trusted)
      BY <2>5 DEF Load
    <3>2. file \in Seq([key : STRING, lists : SUBSET STRING])
      BY QuestionAssumption
    <3>3. asked'.skill.loaded =>
            /\ asked'.skill.requested \subseteq granted
            /\ \E closing \in 2 .. Len(file) :
                 /\ file[1] = Fence /\ file[closing] = Fence
                 /\ \A i \in 2 .. closing - 1 : file[i] # Fence
                 /\ {"name", "description"} \subseteq {file[i].key : i \in 1 .. closing}
                 /\ \E i \in 1 .. closing : file[i].lists = asked'.skill.requested
                 /\ \E i \in closing .. Len(file) :
                      IsPrefix(asked'.skill.body, SubSeq(file, i + 1, Len(file)))
      <4>1. PICK skill : skill = ParseSkill(file, granted, trusted)
        OBVIOUS
      <4>2. asked'.skill = skill
        BY <3>1, <4>1
      <4>3. skill.loaded =>
            /\ skill.requested \subseteq granted
            /\ \E closing \in 2 .. Len(file) :
                 /\ file[1] = Fence /\ file[closing] = Fence
                 /\ \A i \in 2 .. closing - 1 : file[i] # Fence
                 /\ {"name", "description"} \subseteq {file[i].key : i \in 1 .. closing}
                 /\ \E i \in 1 .. closing : file[i].lists = skill.requested
                 /\ \E i \in closing .. Len(file) :
                      IsPrefix(skill.body, SubSeq(file, i + 1, Len(file)))
        BY ONLY <3>2, <4>1, LoadedAsWritten
      <4> QED
        BY ONLY <4>2, <4>3
    <3>4. InstructionsOf(asked'.skill).label = "Low"
      BY DEF InstructionsOf
    <3> QED
      BY <3>1, <3>3, <3>4 DEF NothingUngrantedPasses
  <2>6. CASE UNCHANGED decisionsVars
    BY <2>6 DEF decisionsVars, NothingUngrantedPasses
  <2> QED
    BY <2>1, <2>2, <2>3, <2>4, <2>5, <2>6 DEF AdmissionNext
<1> QED
  BY <1>1, <1>2, PTL DEF AdmissionSpec

--------------------------------------------------------------------------------
(* What stands in for a provider and for tools, for any script, any number *)
(* of agents that share it and any toolset.                                *)

\* The turns that were taken and the calls that were answered are in a bijection; a call
\* finds no turn only when all were taken.
PlayInv ==
  /\ script \in Seq(PlayedTurn)
  /\ next \in 1 .. Len(script) + 1
  /\ poisoned => next = Len(script) + 1
  /\ witnessed \in Seq(Testers) /\ Len(witnessed) = Len(given)
  /\ given \in Seq(Nat \cup {NoTurn, Panicked})
  /\ \A i \in Answered : given[i] \in 1 .. next - 1
  /\ \A n \in 1 .. next - 1 : \E i \in Answered : given[i] = n
  /\ \A i, j \in Answered : given[i] = given[j] => i = j
  /\ \A i \in DOMAIN given : given[i] = Panicked => next = Len(script) + 1
\* What is listed is a function of how often was listed.
ListsInv ==
  /\ hostile \in Hostility
  /\ fakes \in Seq(FakeTools) /\ \A i, j \in DOMAIN fakes : fakes[i] = fakes[j] => i = j
  /\ listings \in Nat
  /\ lists = [i \in 1 .. (IF hostile.fail THEN 0 ELSE listings) |-> ListingOf(i)]
DoublesInv == PlayInv /\ ListsInv

\* A finite set, written as a sequence, is written without repetition.
LEMMA SetAsSequence ==
  ASSUME NEW T, IsFiniteSet(T)
  PROVE  /\ SetToSeq(T) \in Seq(T)
         /\ \A i, j \in DOMAIN SetToSeq(T) : SetToSeq(T)[i] = SetToSeq(T)[j] => i = j
<1>1. Cardinality(T) \in Nat /\ ExistsBijection(1 .. Cardinality(T), T)
  BY FS_CardinalityType
<1>2. \E f \in [1 .. Cardinality(T) -> T] : IsInjective(f)
  BY <1>1 DEF ExistsBijection, Bijection, Injection
<1>3. SetToSeq(T) \in [1 .. Cardinality(T) -> T] /\ IsInjective(SetToSeq(T))
  BY <1>2 DEF SetToSeq
<1>4. SetToSeq(T) \in Seq(T)
  BY <1>1, <1>3
<1> QED
  BY <1>3, <1>4 DEF IsInjective

LEMMA InitDoubles == DoublesInit => DoublesInv
<1> SUFFICES ASSUME DoublesInit PROVE DoublesInv
  OBVIOUS
<1>1. /\ script \in Seq(PlayedTurn) /\ Len(script) \in Nat
      /\ next = 1 /\ poisoned = FALSE /\ witnessed = <<>> /\ given = <<>>
  BY DoublesAssumption DEF DoublesInit
<1>2. DOMAIN given = {} /\ Answered = {}
  BY <1>1 DEF Answered
<1>3. PlayInv
  BY <1>1, <1>2 DEF PlayInv
<1>4. PICK tools \in SUBSET FakeTools : fakes = SetToSeq(tools)
  BY DEF DoublesInit
<1>5. IsFiniteSet(tools)
  BY DoublesAssumption, FS_Subset
<1>6. /\ fakes \in Seq(FakeTools)
      /\ \A i, j \in DOMAIN fakes : fakes[i] = fakes[j] => i = j
  BY <1>4, <1>5, SetAsSequence, SeqMonotonic
<1>7. lists = [i \in 1 .. (IF hostile.fail THEN 0 ELSE listings) |-> ListingOf(i)]
  BY DEF DoublesInit
<1> QED
  BY <1>3, <1>6, <1>7 DEF DoublesInv, ListsInv, DoublesInit

\* A request is recorded: nothing is answered by it.
LEMMA RecordDoubles ==
  ASSUME PlayInv, NEW tester \in Testers, RecordRequest(tester)
  PROVE  PlayInv'
<1>1. /\ given' = Append(given, NoTurn) /\ witnessed' = Append(witnessed, tester)
      /\ UNCHANGED <<script, next, poisoned>>
  BY DEF RecordRequest
<1>2. /\ given' \in Seq(Nat \cup {NoTurn, Panicked}) /\ witnessed' \in Seq(Testers)
      /\ DOMAIN given = 1 .. Len(given) /\ DOMAIN given' = 1 .. Len(given) + 1
      /\ Len(given) \in Nat /\ Len(given') = Len(given) + 1
      /\ Len(witnessed') = Len(witnessed) + 1
      /\ \A i \in 1 .. Len(given) : given'[i] = given[i]
      /\ given'[Len(given) + 1] = NoTurn
  BY <1>1, AppendProperties, LenProperties DEF PlayInv
<1>3. Answered' = Answered
  BY <1>2 DEF Answered
<1>4. \A i \in Answered : i \in 1 .. Len(given) /\ given'[i] = given[i]
  BY <1>2 DEF Answered
<1>5. \A i \in DOMAIN given' : given'[i] = Panicked => i \in DOMAIN given /\ given[i] = Panicked
  BY <1>2, DoublesAssumption
<1> QED
  BY <1>1, <1>2, <1>3, <1>4, <1>5 DEF PlayInv

\* An answer: the next turn, or the panic of a call that finds none.
LEMMA TakeDoubles ==
  ASSUME PlayInv, NEW call \in DOMAIN given, Take(call)
  PROVE  PlayInv'
<1>1. /\ UNCHANGED <<script, witnessed>> /\ given[call] = NoTurn
      /\ DOMAIN given = 1 .. Len(given) /\ Len(given) \in Nat /\ Len(script) \in Nat
      /\ next \in Nat /\ next <= Len(script) + 1
  BY DEF Take, PlayInv
<1>2. call \notin Answered
  BY <1>1 DEF Answered
<1>3. CASE poisoned \/ next > Len(script)
  <2>1. /\ given' = [given EXCEPT ![call] = Panicked] /\ next' = next
        /\ next = Len(script) + 1
    BY <1>1, <1>3 DEF Take, PlayInv
  <2>2. /\ given' \in Seq(Nat \cup {NoTurn, Panicked}) /\ DOMAIN given' = DOMAIN given
        /\ Len(given') = Len(given)
        /\ given'[call] = Panicked /\ \A i \in DOMAIN given : i # call => given'[i] = given[i]
    BY <2>1 DEF PlayInv
  <2>3. Answered' = Answered
    BY <1>1, <2>2 DEF Answered
  <2>4. \A i \in Answered : given'[i] = given[i]
    BY <1>2, <2>2 DEF Answered
  <2>5. /\ \A i \in Answered' : given'[i] \in 1 .. next' - 1
        /\ \A n \in 1 .. next' - 1 : \E i \in Answered' : given'[i] = n
        /\ \A i, j \in Answered' : given'[i] = given'[j] => i = j
    <3>1. /\ \A i \in Answered : given[i] \in 1 .. next - 1
          /\ \A n \in 1 .. next - 1 : \E i \in Answered : given[i] = n
          /\ \A i, j \in Answered : given[i] = given[j] => i = j
      BY DEF PlayInv
    <3>2. next' = next /\ Answered' = Answered
      BY <2>1, <2>3
    <3> QED
      BY ONLY <2>4, <3>1, <3>2
  <2>6. /\ script' \in Seq(PlayedTurn) /\ next' \in 1 .. Len(script') + 1
        /\ next' = Len(script') + 1
    BY <1>1, <2>1 DEF PlayInv
  <2>7. witnessed' \in Seq(Testers) /\ Len(witnessed') = Len(given')
    BY <1>1, <2>2 DEF PlayInv
  <2> QED
    BY <2>2, <2>5, <2>6, <2>7 DEF PlayInv
<1>4. CASE ~(poisoned \/ next > Len(script))
  <2>1. /\ given' = [given EXCEPT ![call] = next] /\ next' = next + 1 /\ poisoned' = FALSE
    BY <1>4 DEF Take, Advances
  <2>2. /\ given' \in Seq(Nat \cup {NoTurn, Panicked}) /\ DOMAIN given' = DOMAIN given
        /\ Len(given') = Len(given)
        /\ given'[call] = next /\ \A i \in DOMAIN given : i # call => given'[i] = given[i]
    BY <1>1, <2>1 DEF PlayInv
  <2>3. Answered' = Answered \cup {call}
    BY <1>1, <2>2, DoublesAssumption DEF Answered
  <2>4. \A i \in Answered : given'[i] = given[i] /\ given[i] \in 1 .. next - 1 /\ i # call
    BY <1>2, <2>2 DEF Answered, PlayInv
  <2>5. \A i \in Answered' : given'[i] \in 1 .. next' - 1
    BY <1>1, <2>1, <2>2, <2>3, <2>4 DEF PlayInv
  <2>6. \A n \in 1 .. next' - 1 : \E i \in Answered' : given'[i] = n
    <3> SUFFICES ASSUME NEW n \in 1 .. next' - 1 PROVE \E i \in Answered' : given'[i] = n
      OBVIOUS
    <3>1. CASE n = next
      BY <2>2, <2>3, <3>1
    <3>2. CASE n # next
      <4>1. n \in 1 .. next - 1
        BY <1>1, <2>1, <3>2
      <4>2. PICK i \in Answered : given[i] = n
        BY <4>1 DEF PlayInv
      <4> QED
        BY <2>3, <2>4, <4>2
    <3> QED
      BY <3>1, <3>2
  <2>7. \A i, j \in Answered' : given'[i] = given'[j] => i = j
    <3>1. \A i \in Answered : given'[i] # given'[call]
      BY <1>1, <2>2, <2>4
    <3> QED
      BY <2>3, <2>4, <3>1 DEF PlayInv
  <2>8. \A i \in DOMAIN given' : given'[i] # Panicked
    <3>1. \A i \in DOMAIN given : given[i] # Panicked
      BY <1>1, <1>4 DEF PlayInv
    <3> QED
      BY <1>1, <2>2, <3>1, DoublesAssumption
  <2>9. next' \in 1 .. Len(script) + 1
    BY <1>1, <1>4, <2>1
  <2> QED
    BY <1>1, <2>1, <2>2, <2>5, <2>6, <2>7, <2>8, <2>9 DEF PlayInv
<1> QED
  BY <1>3, <1>4

LEMMA DoublesStep == DoublesInv /\ [DoublesNext]_doublesVars => DoublesInv'
<1> SUFFICES ASSUME DoublesInv, [DoublesNext]_doublesVars PROVE DoublesInv'
  OBVIOUS
<1>1. ASSUME NEW tester \in Testers, RecordRequest(tester) PROVE DoublesInv'
  <2>1. PlayInv'
    BY <1>1, RecordDoubles DEF DoublesInv
  <2>2. UNCHANGED <<hostile, fakes, listings, lists>>
    BY <1>1 DEF RecordRequest, Fakes
  <2> QED
    BY <2>1, <2>2 DEF DoublesInv, ListsInv, ListingOf
<1>2. ASSUME NEW call \in DOMAIN given, Take(call) PROVE DoublesInv'
  <2>1. PlayInv'
    BY <1>2, TakeDoubles DEF DoublesInv
  <2>2. UNCHANGED <<hostile, fakes, listings, lists>>
    BY <1>2 DEF Take, Fakes
  <2> QED
    BY <2>1, <2>2 DEF DoublesInv, ListsInv, ListingOf
<1>3. CASE ListFakes
  <2>1. PlayInv'
    BY <1>3 DEF ListFakes, DoublesInv, PlayInv, Answered
  <2>2. /\ UNCHANGED <<hostile, fakes>> /\ listings' = listings + 1 /\ listings \in Nat
        /\ lists' = IF hostile.fail THEN lists ELSE Append(lists, ListingOf(listings + 1))
        /\ lists = [i \in 1 .. (IF hostile.fail THEN 0 ELSE listings) |-> ListingOf(i)]
    BY <1>3 DEF ListFakes, DoublesInv, ListsInv
  <2>3. lists' = [i \in 1 .. (IF hostile.fail THEN 0 ELSE listings + 1) |-> ListingOf(i)]
    <3>1. CASE hostile.fail
      BY <2>2, <3>1
    <3>2. CASE ~hostile.fail
      <4> DEFINE listed == [i \in 1 .. listings |-> ListingOf(i)]
                 S == {ListingOf(i) : i \in Nat}
      <4>1. lists = listed
        BY <2>2, <3>2
      <4>2. listed \in Seq(S) /\ Len(listed) = listings /\ ListingOf(listings + 1) \in S
        BY <2>2
      <4>3. /\ lists' \in Seq(S) /\ Len(lists') = listings + 1
            /\ \A i \in 1 .. listings : lists'[i] = ListingOf(i)
            /\ lists'[listings + 1] = ListingOf(listings + 1)
        BY <2>2, <3>2, <4>1, <4>2, AppendProperties
      <4>4. DOMAIN lists' = 1 .. listings + 1
        BY <4>3, LenProperties
      <4>5. lists' = [i \in DOMAIN lists' |-> lists'[i]]
        BY <4>3, LenProperties
      <4>6. \A i \in 1 .. listings + 1 : lists'[i] = ListingOf(i)
        BY <2>2, <4>3
      <4> HIDE DEF listed, S
      <4> QED
        BY <3>2, <4>4, <4>5, <4>6
    <3> QED
      BY <3>1, <3>2
  <2>4. \A i \in Nat : ListingOf(i)' = ListingOf(i)
    BY <2>2 DEF ListingOf
  <2>5. lists' = [i \in 1 .. (IF hostile'.fail THEN 0 ELSE listings') |-> ListingOf(i)']
    BY <2>2, <2>3, <2>4
  <2>6. ListsInv'
    BY <2>2, <2>5 DEF DoublesInv, ListsInv
  <2> QED
    BY <2>1, <2>6 DEF DoublesInv
<1>4. ASSUME NEW tool \in FakeTools, Invoke(tool) PROVE DoublesInv'
  BY <1>4 DEF Invoke, DoublesInv, PlayInv, ListsInv, Answered, ListingOf
<1>5. CASE UNCHANGED doublesVars
  BY <1>5 DEF doublesVars, DoublesInv, PlayInv, ListsInv, Answered, ListingOf
<1> QED
  BY <1>1, <1>2, <1>3, <1>4, <1>5 DEF DoublesNext

LEMMA StreamedIsComplete ==
  ASSUME NEW turn \in PlayedTurn, StreamOf(turn) # <<>>
  PROVE  LET streamed == StreamOf(turn) IN
           /\ Last(streamed).done
           /\ FlattenSeq([k \in 1 .. (Len(streamed) - 1) |-> streamed[k].items])
                = Last(streamed).items
<1> DEFINE items == turn.items
           n == Len(items)
           P == [done : BOOLEAN, items : Seq(STRING)]
           parts == [i \in DOMAIN items |-> [done |-> FALSE, items |-> <<items[i]>>]]
           whole == [done |-> TRUE, items |-> items]
           streamed == StreamOf(turn)
<1>1. items \in Seq(STRING) /\ n \in Nat /\ DOMAIN items = 1 .. n
  BY DEF PlayedTurn
<1>2. \A i \in 1 .. n : <<items[i]>> \in Seq(STRING)
  BY <1>1
<1>3. /\ parts \in Seq(P) /\ Len(parts) = n
      /\ \A i \in 1 .. n : parts[i] = [done |-> FALSE, items |-> <<items[i]>>]
  <2>1. \A i \in 1 .. n : [done |-> FALSE, items |-> <<items[i]>>] \in P
    BY <1>2
  <2> HIDE DEF P, items
  <2> QED
    BY <1>1, <2>1
<1>4. /\ <<whole>> \in Seq(P) /\ Len(<<whole>>) = 1 /\ <<whole>>[1] = whole
  <2>1. whole \in P
    BY <1>1
  <2> HIDE DEF P, whole
  <2> QED
    BY <2>1
<1>5. streamed = parts \o <<whole>>
  BY DEF StreamOf
<1> HIDE DEF parts, P, streamed
<1>6. /\ Len(streamed) = n + 1 /\ streamed[n + 1] = whole
      /\ \A i \in 1 .. n : streamed[i] = parts[i]
  <2> HIDE DEF n, whole
  <2> QED
    BY <1>1, <1>3, <1>4, <1>5, ConcatProperties
<1>7. \A i \in 1 .. n : streamed[i].items = <<items[i]>>
  <2> HIDE DEF items, n
  <2>1. \A i \in 1 .. n : streamed[i] = [done |-> FALSE, items |-> <<items[i]>>]
    BY <1>3, <1>6
  <2> SUFFICES ASSUME NEW i \in 1 .. n PROVE streamed[i].items = <<items[i]>>
    OBVIOUS
  <2>2. PICK part : part = streamed[i] /\ part = [done |-> FALSE, items |-> <<items[i]>>]
    BY <2>1
  <2>3. part.items = <<items[i]>>
    BY ONLY <2>2
  <2> QED
    BY <2>2, <2>3
<1>8. [k \in 1 .. (Len(streamed) - 1) |-> streamed[k].items] = [k \in 1 .. n |-> <<items[k]>>]
  BY <1>1, <1>6, <1>7
<1>9. Last(streamed) = whole
  BY <1>6 DEF Last
<1>10. FlattenSeq([k \in 1 .. n |-> <<items[k]>>]) = items
  BY <1>1, OneByOneIsAll
<1>11. Last(streamed).done /\ Last(streamed).items = items
  BY <1>9
<1> QED
  BY <1>8, <1>10, <1>11 DEF streamed

\* What the other way round says the same way is one tool or none.
LEMMA ListingsTell ==
  ASSUME ListsInv, NEW i \in Nat
  PROVE  /\ {ListingOf(i)[k].name : k \in DOMAIN ListingOf(i)} = Range(fakes)
         /\ i > 0 => (hostile.reorder /\ Len(fakes) > 1 <=> ListingOf(i) # ListingOf(i - 1))
<1> DEFINE described == [k \in DOMAIN fakes |-> [name |-> fakes[k], injected |-> hostile.inject]]
           other == Reverse(described)
           n == Len(fakes)
<1>1. n \in Nat /\ DOMAIN fakes = 1 .. n /\ hostile.reorder \in BOOLEAN
  BY DEF ListsInv, Hostility
<1>2. /\ DOMAIN described = 1 .. n /\ Len(described) = n
      /\ \A k \in 1 .. n : described[k].name = fakes[k]
  BY <1>1
<1>3. /\ DOMAIN other = 1 .. n
      /\ \A k \in 1 .. n : other[k] = described[(n - k) + 1]
  BY <1>2 DEF Reverse
<1>4. \A j \in Nat : ListingOf(j) = IF hostile.reorder /\ j % 2 = 0 THEN other ELSE described
  BY DEF ListingOf
<1>5. Range(fakes) = {fakes[k] : k \in 1 .. n}
  BY <1>1 DEF Range
<1> HIDE DEF described
<1>6. {described[k].name : k \in DOMAIN described} = Range(fakes)
  BY <1>2, <1>5
<1>7. {other[k].name : k \in DOMAIN other} = Range(fakes)
  <2>1. \A k \in 1 .. n : (n - k) + 1 \in 1 .. n /\ (n - ((n - k) + 1)) + 1 = k
    BY <1>1
  <2>2. \A k \in 1 .. n : other[k].name = fakes[(n - k) + 1]
    BY <1>2, <1>3, <2>1
  <2>3. \A k \in 1 .. n : other[(n - k) + 1].name = fakes[k]
    BY <1>2, <1>3, <2>1
  <2> HIDE DEF other, n
  <2>4. \A k \in 1 .. n : other[k].name \in Range(fakes)
    BY <1>5, <2>1, <2>2
  <2>5. \A x \in Range(fakes) : \E k \in 1 .. n : x = other[k].name
    BY <1>5, <2>1, <2>3
  <2> QED
    BY <1>3, <2>4, <2>5
<1>8. n > 1 <=> other # described
  <2>1. CASE n > 1
    <3>1. 1 \in 1 .. n /\ n \in 1 .. n /\ (n - 1) + 1 = n /\ n # 1
      BY <1>1, <2>1
    <3>2. other[1].name = fakes[n] /\ described[1].name = fakes[1]
      BY <1>2, <1>3, <3>1
    <3>3. fakes[n] # fakes[1]
      BY <1>1, <3>1 DEF ListsInv
    <3> QED
      BY <2>1, <3>2, <3>3
  <2>2. CASE ~(n > 1)
    <3>1. \A k \in 1 .. n : (n - k) + 1 = k
      BY <1>1, <2>2
    <3>2. other = described
      BY <1>2, <1>3, <3>1 DEF described, Reverse
    <3> QED
      BY <2>2, <3>2
  <2> QED
    BY <2>1, <2>2
<1> HIDE DEF other, n
<1>9. i > 0 => /\ i - 1 \in Nat
               /\ i % 2 = 0 <=> (i - 1) % 2 # 0
  OBVIOUS
<1>10. i > 0 => (hostile.reorder /\ n > 1 <=> ListingOf(i) # ListingOf(i - 1))
  BY <1>1, <1>4, <1>8, <1>9
<1> QED
  BY <1>4, <1>6, <1>7, <1>10 DEF n

LEMMA DoublesHold == DoublesInv => DoublesTellTheTruth
<1> SUFFICES ASSUME DoublesInv PROVE DoublesTellTheTruth
  OBVIOUS
<1>1. /\ script \in Seq(PlayedTurn) /\ Len(script) \in Nat /\ next \in Nat
      /\ next \in 1 .. Len(script) + 1
      /\ DOMAIN given = 1 .. Len(given) /\ Len(given) \in Nat
      /\ Len(witnessed) = Len(given)
  BY DEF DoublesInv, PlayInv
<1> DEFINE played == [i \in Answered |-> given[i]]
<1>2. played \in Bijection(Answered, 1 .. next - 1)
  BY <1>1 DEF DoublesInv, PlayInv, Bijection, Injection, Surjection, IsInjective
<1>3. IsFiniteSet(1 .. Len(given)) /\ Cardinality(1 .. Len(given)) = Len(given)
  <2> DEFINE m == Len(given)
  <2>1. m \in Nat /\ m \in Int /\ 1 \in Int
    BY <1>1
  <2> HIDE DEF m
  <2>2. IsFiniteSet(1 .. m) /\ Cardinality(1 .. m) = m
    BY <2>1, FS_Interval
  <2> QED
    BY <2>2 DEF m
<1>4. IsFiniteSet(Answered) /\ Cardinality(Answered) <= Len(given)
  <2>1. Answered \in SUBSET (1 .. Len(given))
    BY <1>1 DEF Answered
  <2> QED
    BY <1>3, <2>1, FS_Subset
<1>5. Cardinality(1 .. next - 1) = Cardinality(Answered)
  <2>1. ExistsBijection(Answered, 1 .. next - 1)
    BY <1>2 DEF ExistsBijection
  <2> QED
    BY <1>4, <2>1, FS_Bijection
<1>6. Cardinality(1 .. next - 1) = next - 1
  <2>1. \A b \in Int : Cardinality(1 .. b) = IF 1 > b THEN 0 ELSE b - 1 + 1
    BY FS_Interval
  <2>2. next - 1 \in Nat
    BY <1>1
  <2> QED
    BY ONLY <2>1, <2>2
<1>7. {given[i] : i \in Answered} = 1 .. (next - 1)
  BY DEF DoublesInv, PlayInv
<1>8. Cardinality(Answered) = next - 1 /\ next - 1 <= CallCount
  BY <1>1, <1>4, <1>5, <1>6 DEF CallCount
<1>9. poisoned => ScriptExhausted
  BY <1>1 DEF DoublesInv, PlayInv, ScriptExhausted
<1>10. \A i \in DOMAIN given : given[i] = Panicked => Cardinality(Answered) = Len(script)
  BY <1>1, <1>8 DEF DoublesInv, PlayInv
<1>11. ASSUME NEW i \in Answered
       PROVE  LET streamed == StreamOf(script[given[i]]) IN
                streamed # <<>> =>
                  /\ Last(streamed).done
                  /\ FlattenSeq([k \in 1 .. (Len(streamed) - 1) |-> streamed[k].items])
                       = Last(streamed).items
  <2>1. given[i] \in 1 .. Len(script)
    BY <1>1 DEF DoublesInv, PlayInv
  <2>2. script[given[i]] \in PlayedTurn
    BY <1>1, <2>1
  <2> QED
    BY <2>2, StreamedIsComplete
<1> DEFINE n == IF hostile.fail THEN 0 ELSE listings
<1>12. /\ n \in Nat /\ Len(lists) = n /\ DOMAIN lists = 1 .. n
       /\ \A i \in 1 .. n : lists[i] = ListingOf(i)
  BY DEF DoublesInv, ListsInv
<1> HIDE DEF n
<1>13. \A i \in DOMAIN lists : {lists[i][k].name : k \in DOMAIN lists[i]} = Range(fakes)
  BY <1>12, ListingsTell DEF DoublesInv
<1>14. \A i \in 2 .. Len(lists) :
         hostile.reorder /\ Len(fakes) > 1 <=> lists[i] # lists[i - 1]
  <2> SUFFICES ASSUME NEW i \in 2 .. n
               PROVE  hostile.reorder /\ Len(fakes) > 1 <=> lists[i] # lists[i - 1]
    BY <1>12
  <2>1. i \in Nat /\ i > 0 /\ lists[i] = ListingOf(i) /\ lists[i - 1] = ListingOf(i - 1)
    BY <1>12
  <2> QED
    BY <2>1, ListingsTell DEF DoublesInv
<1> QED
  BY <1>7, <1>8, <1>9, <1>10, <1>11, <1>13, <1>14 DEF DoublesTellTheTruth

\* Whatever the order in which agents that share a scripted model ask, no turn is played
\* twice and none is skipped, a call beyond the script is never answered, a stream adds up
\* to what is complete, and a toolset that reorders lists the same tools another way each
\* time (ScriptedModel::record_and_take and stream, FakeToolset::definitions): for any
\* script, agents and tools.
THEOREM NoTurnTwice == DoublesSpec => []DoublesTellTheTruth
<1> QED
  BY InitDoubles, DoublesStep, DoublesHold, PTL DEF DoublesSpec
--------------------------------------------------------------------------------
(* Who hears what of what a tool has to say, for any texts and ceilings.   *)

Char == Letters \cup WideLetters

LEMMA BytesAreCounted ==
  ASSUME NEW text \in Seq(Char)
  PROVE  Bytes(text) \in Nat /\ (text = <<>> => Bytes(text) = 0)
<1> DEFINE widths == [i \in DOMAIN text |-> Width(text[i])]
<1>1. DOMAIN text = 1 .. Len(text) /\ Len(text) \in Nat
  BY LenProperties
<1>2. IsFiniteSet(DOMAIN text)
  BY <1>1, FS_Interval
<1>3. widths \in [DOMAIN text -> Nat]
  BY DEF Width
<1>4. Bytes(text) = SumFunction(widths)
  BY DEF Bytes
<1> HIDE DEF widths
<1>5. Bytes(text) \in Nat
  BY <1>2, <1>3, <1>4, SumIsNumber
<1>6. ASSUME text = <<>> PROVE Bytes(text) = 0
  <2>1. widths \in [{} -> Nat]
    BY <1>3, <1>6
  <2> QED
    BY <1>4, <2>1, SumOfNothing
<1> QED
  BY <1>5, <1>6

LEMMA PrefixOf ==
  ASSUME NEW text \in Seq(Char), NEW k \in 0 .. Len(text)
  PROVE  /\ SubSeq(text, 1, k) \in Seq(Char) /\ Len(SubSeq(text, 1, k)) = k
         /\ IsPrefix(SubSeq(text, 1, k), text)
         /\ k = 0 => SubSeq(text, 1, k) = <<>>
         /\ k = Len(text) => SubSeq(text, 1, k) = text
<1> DEFINE front == SubSeq(text, 1, k)
<1>1. /\ k \in Nat /\ k <= Len(text) /\ Len(text) \in Nat /\ DOMAIN text = 1 .. Len(text)
      /\ \A i \in 1 .. k : text[i] \in Char
  BY LenProperties, ElementOfSeq
<1>2. /\ front \in Seq(Char) /\ Len(front) = k
      /\ \A i \in 1 .. k : front[i] = text[i]
  BY <1>1, SubSeqProperties
<1> HIDE DEF front
<1>3. SubSeq(front, 1, k) = front
  <2> DEFINE again == SubSeq(front, 1, k)
  <2>1. \A i \in 1 .. k : front[i] \in Char
    BY <1>1, <1>2
  <2>2. again \in Seq(Char) /\ Len(again) = k /\ \A i \in 1 .. k : again[i] = front[i]
    BY <1>1, <2>1, SubSeqProperties
  <2> HIDE DEF again
  <2>3. again = front
    BY <1>2, <2>2, SeqEqual
  <2> QED
    BY <2>3 DEF again
<1>4. IsPrefix(front, text)
  BY <1>1, <1>2, <1>3 DEF IsPrefix, front
<1>5. k = 0 => front = <<>>
  BY <1>2, EmptySeq
<1>6. k = Len(text) => front = text
  BY <1>2, SeqEqual
<1> QED
  BY <1>2, <1>4, <1>5, <1>6 DEF front

\* What is cut fills the room it is given.
LEMMA CutFills ==
  ASSUME NEW text \in Seq(Char), NEW room \in Nat
  PROVE  CutAt(text, room) \in Seq(Char) /\ FillsUpTo(CutAt(text, room), text, room)
<1> DEFINE I == {k \in 0 .. Len(text) : Bytes(SubSeq(text, 1, k)) <= room}
           k == Max(I)
           cut == CutAt(text, room)
           n == Len(text)
<1>1. n \in Nat
  BY LenProperties
<1>2. 0 \in I
  <2>1. 0 \in 0 .. Len(text)
    BY <1>1
  <2>2. SubSeq(text, 1, 0) = <<>> /\ SubSeq(text, 1, 0) \in Seq(Char)
    BY <2>1, PrefixOf
  <2>3. Bytes(SubSeq(text, 1, 0)) = 0
    BY <2>2, BytesAreCounted
  <2> QED
    BY <2>1, <2>3
<1>3. k \in I /\ \A j \in I : j <= k
  <2>1. I \in SUBSET (0 .. n) /\ I # {}
    BY <1>2
  <2> HIDE DEF I, n
  <2> QED
    BY <1>1, <2>1, LastOfSome
<1>4. cut = SubSeq(text, 1, k)
  BY DEF CutAt
<1> HIDE DEF k, cut
<1>5. k \in 0 .. Len(text) /\ Bytes(SubSeq(text, 1, k)) <= room
  BY <1>3
<1>6. /\ cut \in Seq(Char) /\ Len(cut) = k /\ IsPrefix(cut, text)
      /\ k = Len(text) => cut = text
  BY <1>4, <1>5, PrefixOf
<1>7. ASSUME cut # text PROVE Bytes(SubSeq(text, 1, Len(cut) + 1)) > room
  <2>1. k + 1 \in 0 .. Len(text)
    BY <1>1, <1>5, <1>6, <1>7
  <2>2. SubSeq(text, 1, k + 1) \in Seq(Char)
    BY <2>1, PrefixOf
  <2>3. Bytes(SubSeq(text, 1, k + 1)) \in Nat
    BY <2>2, BytesAreCounted
  <2>4. k + 1 \notin I
    <3> HIDE DEF I
    <3> QED
      BY <1>1, <1>3, <1>5
  <2>5. ~(Bytes(SubSeq(text, 1, k + 1)) <= room)
    BY <2>1, <2>4
  <2> QED
    BY <1>6, <2>3, <2>5
<1> QED
  BY <1>4, <1>5, <1>6, <1>7 DEF FillsUpTo, cut

LEMMA WholeFills ==
  ASSUME NEW text \in Seq(Char), NEW room \in Nat, Bytes(text) <= room
  PROVE  FillsUpTo(text, text, room)
<1>1. IsPrefix(text, text)
  BY LenProperties DEF IsPrefix
<1> QED
  BY <1>1 DEF FillsUpTo

LEMMA RedactCleans ==
  ASSUME NEW tree
  PROVE  Cleaned(tree, Redact(tree))
<1> DEFINE sensitive(path) == {i \in DOMAIN path : path[i] \in SensitiveKeys}
           cut(path) == IF sensitive(path) = {} THEN path
                        ELSE SubSeq(path, 1, Min(sensitive(path)))
           kept == {cut(p) : p \in DOMAIN tree}
           logged == [path \in kept |->
                        IF sensitive(path) = {} THEN tree[path] ELSE "[redacted]"]
<1>1. Redact(tree) = logged
  BY DEF Redact
<1>2. ASSUME NEW path \in DOMAIN tree, \A i \in DOMAIN path : path[i] \notin SensitiveKeys
      PROVE  path \in DOMAIN logged /\ logged[path] = tree[path]
  <2>1. sensitive(path) = {}
    BY <1>2
  <2>2. cut(path) = path
    BY <2>1
  <2>3. path \in kept
    BY <2>2
  <2> QED
    BY <2>1, <2>3
<1>3. ASSUME NEW path \in DOMAIN logged, \E i \in DOMAIN path : path[i] \in SensitiveKeys
      PROVE  logged[path] = "[redacted]"
  <2>1. sensitive(path) # {}
    BY <1>3
  <2> QED
    BY <2>1
<1> HIDE DEF logged
<1> QED
  BY <1>1, <1>2, <1>3 DEF Cleaned

Raisers == {"tool", "check_arguments", "PolicyLayer", "rejection", "over_cap", "no such tool",
            "decode_args"}

\* What may be under way, with what is known of it.
SomeError ==
  /\ making \in [is : {"error"}, by : Raisers, said : SUBSET Pieces]
  /\ "summary" \in making.said
  /\ making.by # "tool" => "guidance" \in making.said
SomeContent ==
  /\ making \in [is : {"content"}, whole : Seq(Char), text : Seq(Char), structured : BOOLEAN,
                 elided : Nat, within : Nat]
  /\ FillsUpTo(making.text, making.whole, making.within)
  /\ Bytes(making.text) + making.elided = Bytes(making.whole)
  /\ making.elided = 0 => making.text = making.whole
SomeInput == making \in [is : {"input"}, requests : (SUBSET Requests) \ {{}}]
SomeOutcome == SomeError \/ SomeContent \/ SomeInput
SomeCall ==
  \E args \in Seq(Char) : making = [is |-> "call", args |-> args, preview |-> Preview(args)]
SomeLog == \E tree : making = [is |-> "log", tree |-> tree, logged |-> Redact(tree)]

\* A reader was told nothing, or what the outcome says to such a reader; model and
\* frontend are told at once, and the client after the server.
Informed ==
  /\ DOMAIN informed = Readers
  /\ \/ informed["model"] = NotTold /\ informed["frontend"] = NotTold
     \/ informed["model"] = RenderOutcome(making) /\ informed["frontend"] = ShownOf(making)
  /\ informed["server"] \in {NotTold, CallResult(making)}
  /\ informed["client"] \in {NotTold, ReadFrom(CallResult(making))}
NobodyIsInformed == DOMAIN informed = Readers /\ \A r \in Readers : informed[r] = NotTold

FailuresInv ==
  \/ SomeOutcome /\ Informed
  \/ (making = NothingMade \/ SomeCall \/ SomeLog) /\ NobodyIsInformed

LEMMA InitFailures == FailuresInit => FailuresInv
BY DEF FailuresInit, FailuresInv, NobodyIsInformed

\* The notes, field by field.
LEMMA NotesOfError ==
  ASSUME SomeError
  PROVE  /\ RenderOutcome(making).said = ForTheModel(making)
         /\ RenderOutcome(making).text = <<>> /\ RenderOutcome(making).failed
         /\ ~RenderOutcome(making).silent
         /\ ShownOf(making).said =
              IF "sentence" \in making.said THEN {"sentence"} ELSE {"summary"}
         /\ ShownOf(making).failed /\ ~ShownOf(making).silent
         /\ CallResult(making) = RenderOutcome(making)
         /\ ReadFrom(CallResult(making)).said = ForTheModel(making)
         /\ ReadFrom(CallResult(making)).text = <<>>
         /\ ~ReadFrom(CallResult(making)).silent
<1>1. making.is = "error"
  BY DEF SomeError
<1> DEFINE note == Tells([NotTold EXCEPT !.said = ForTheModel(making), !.failed = TRUE])
<1>2. RenderOutcome(making) = note /\ CallResult(making) = note
  BY <1>1 DEF RenderOutcome, CallResult
<1>3. ShownOf(making) =
        Tells([NotTold EXCEPT !.failed = TRUE,
                 !.said = IF "sentence" \in making.said THEN {"sentence"} ELSE {"summary"}])
  BY <1>1 DEF ShownOf
<1>4. /\ note.said = ForTheModel(making) /\ note.text = <<>> /\ note.failed /\ ~note.silent
      /\ note.requests = {}
  BY DEF Tells, NotTold
<1>5. /\ ShownOf(making).said =
           IF "sentence" \in making.said THEN {"sentence"} ELSE {"summary"}
      /\ ShownOf(making).failed /\ ~ShownOf(making).silent
  BY <1>3 DEF Tells, NotTold
<1>6. /\ ReadFrom(note).said = ForTheModel(making) /\ ReadFrom(note).text = <<>>
      /\ ~ReadFrom(note).silent
  BY <1>4 DEF ReadFrom, Tells, NotTold
<1> HIDE DEF note
<1> QED
  BY <1>2, <1>4, <1>5, <1>6

LEMMA NotesOfContent ==
  ASSUME SomeContent
  PROVE  /\ RenderOutcome(making).said = {} /\ RenderOutcome(making).text = making.text
         /\ RenderOutcome(making).withheld = making.elided
         /\ ~RenderOutcome(making).failed /\ ~RenderOutcome(making).silent
         /\ ShownOf(making).said = {} /\ ShownOf(making).withheld = making.elided
         /\ ~ShownOf(making).failed /\ ~ShownOf(making).silent
         /\ CallResult(making).said = {} /\ ~CallResult(making).silent
         /\ ReadFrom(CallResult(making)).said = {}
         /\ ReadFrom(CallResult(making)).text = making.text
         /\ ~ReadFrom(CallResult(making)).silent
<1>1. making.is = "content"
  BY DEF SomeContent
<1> DEFINE note == Tells([NotTold EXCEPT !.text = making.text, !.withheld = making.elided])
           sent == Tells([NotTold EXCEPT !.text = making.text, !.structured = making.structured])
           display == Tells([NotTold EXCEPT !.withheld = RenderOutcome(making).withheld])
<1>2. RenderOutcome(making) = note /\ CallResult(making) = sent /\ ShownOf(making) = display
  BY <1>1 DEF RenderOutcome, CallResult, ShownOf
<1>3. /\ note.said = {} /\ note.text = making.text /\ note.withheld = making.elided
      /\ ~note.failed /\ ~note.silent
  BY DEF Tells, NotTold
<1>4. /\ sent.said = {} /\ sent.text = making.text /\ sent.requests = {} /\ ~sent.silent
  BY DEF Tells, NotTold
<1>5. /\ display.said = {} /\ display.withheld = RenderOutcome(making).withheld
      /\ ~display.failed /\ ~display.silent
  BY DEF Tells, NotTold
<1>6. /\ ReadFrom(sent).said = {} /\ ReadFrom(sent).text = making.text
      /\ ~ReadFrom(sent).silent
  BY <1>4 DEF ReadFrom, Tells, NotTold
<1> HIDE DEF note, sent, display
<1> QED
  BY <1>2, <1>3, <1>4, <1>5, <1>6

LEMMA NotesOfInput ==
  ASSUME SomeInput
  PROVE  /\ RenderOutcome(making).said = {"summary"}
         /\ RenderOutcome(making).failed /\ ~RenderOutcome(making).silent
         /\ ShownOf(making).said = {} /\ ~ShownOf(making).silent
         /\ CallResult(making).said = {} /\ CallResult(making).requests = making.requests
         /\ ~CallResult(making).silent
         /\ ReadFrom(CallResult(making)) = CallResult(making)
<1>1. making.is = "input" /\ making.requests # {}
  BY DEF SomeInput
<1> DEFINE note == Tells([NotTold EXCEPT !.said = {"summary"}, !.failed = TRUE])
           sent == Tells([NotTold EXCEPT !.requests = making.requests])
           display == Tells([NotTold EXCEPT !.withheld = RenderOutcome(making).withheld])
<1>2. RenderOutcome(making) = note /\ CallResult(making) = sent /\ ShownOf(making) = display
  BY <1>1 DEF RenderOutcome, CallResult, ShownOf
<1>3. note.said = {"summary"} /\ note.failed /\ ~note.silent
  BY DEF Tells, NotTold
<1>4. sent.said = {} /\ sent.requests = making.requests /\ ~sent.silent
  BY DEF Tells, NotTold
<1>5. display.said = {} /\ ~display.silent
  BY DEF Tells, NotTold
<1> HIDE DEF note, sent, display
<1>6. ReadFrom(sent) = sent
  BY <1>1, <1>4 DEF ReadFrom
<1> QED
  BY <1>2, <1>3, <1>4, <1>5, <1>6

LEMMA TheLoudAreInformed ==
  ASSUME SomeOutcome
  PROVE  /\ ~RenderOutcome(making).silent /\ ~ShownOf(making).silent
         /\ ~CallResult(making).silent /\ ~ReadFrom(CallResult(making)).silent
<1>1. CASE SomeError
  BY <1>1, NotesOfError
<1>2. CASE SomeContent
  BY <1>2, NotesOfContent
<1>3. CASE SomeInput
  BY <1>3, NotesOfInput
<1> QED
  BY <1>1, <1>2, <1>3 DEF SomeOutcome

LEMMA FailuresHold == FailuresInv => EachReaderHearsItsOwn
<1> SUFFICES ASSUME FailuresInv PROVE EachReaderHearsItsOwn
  OBVIOUS
<1>0. NotTold.said = {} /\ NotTold.silent = TRUE
  BY DEF NotTold
<1>1. CASE SomeError /\ Informed
  <2>1. /\ making.is = "error" /\ "summary" \in making.said
        /\ making.by # "tool" => "guidance" \in making.said
    BY <1>1 DEF SomeError
  <2>2. /\ \/ informed["model"] = NotTold /\ informed["frontend"] = NotTold
           \/ informed["model"] = RenderOutcome(making) /\ informed["frontend"] = ShownOf(making)
        /\ informed["server"] \in {NotTold, RenderOutcome(making)}
        /\ informed["client"] \in {NotTold, ReadFrom(CallResult(making))}
    BY <1>1, NotesOfError DEF Informed
  <2>3. /\ ForTheModel(making) \subseteq {"summary", "guidance"}
        /\ "guidance" \in making.said => "guidance" \in ForTheModel(making)
    BY DEF ForTheModel
  <2>4. \A r \in {"model", "server", "client"} :
          informed[r].said \subseteq {"summary", "guidance"}
    BY <1>0, <1>1, <2>2, <2>3, NotesOfError
  <2>5. informed["frontend"].said \in {{}, {"summary"}, {"sentence"}}
    BY <1>0, <1>1, <2>2, NotesOfError
  <2>6. /\ \A r \in Readers : informed[r].said \cap {"detail", "suggested tools"} = {}
        /\ \A r \in {"model", "server", "client"} : "sentence" \notin informed[r].said
    BY <2>4, <2>5 DEF Readers
  <2>7. ~informed["model"].silent =>
          /\ informed["model"].failed /\ informed["frontend"].failed
          /\ informed["model"].said = ForTheModel(making) /\ informed["model"].text = <<>>
          /\ "sentence" \in making.said => informed["frontend"].said = {"sentence"}
    BY <1>0, <1>1, <2>2, NotesOfError
  <2>8. ~informed["client"].silent =>
          informed["client"].said = ForTheModel(making) /\ informed["client"].text = <<>>
    BY <1>0, <1>1, <2>2, NotesOfError
  <2>9. making.is \notin {"content", "input", "call", "log"}
    BY <2>1
  <2> QED
    BY <2>1, <2>3, <2>5, <2>6, <2>7, <2>8, <2>9 DEF EachReaderHearsItsOwn
<1>2. CASE SomeContent /\ Informed
  <2>1. /\ making.is = "content"
        /\ FillsUpTo(making.text, making.whole, making.within)
        /\ Bytes(making.text) + making.elided = Bytes(making.whole)
    BY <1>2 DEF SomeContent
  <2>2. /\ \/ informed["model"] = NotTold /\ informed["frontend"] = NotTold
           \/ informed["model"] = RenderOutcome(making) /\ informed["frontend"] = ShownOf(making)
        /\ informed["server"] \in {NotTold, CallResult(making)}
        /\ informed["client"] \in {NotTold, ReadFrom(CallResult(making))}
    BY <1>2 DEF Informed
  <2>3. \A r \in Readers : informed[r].said = {}
    BY <1>0, <1>2, <2>2, NotesOfContent DEF Readers
  <2>4. ~informed["model"].silent =>
          informed["model"] = RenderOutcome(making) /\ informed["frontend"] = ShownOf(making)
    BY <1>0, <2>2
  <2>5. ~informed["client"].silent => informed["client"] = ReadFrom(CallResult(making))
    BY <1>0, <2>2
  <2>6. ~informed["model"].silent =>
          /\ ~informed["model"].failed /\ ~informed["frontend"].failed
          /\ informed["model"].text = making.text
          /\ informed["model"].withheld = making.elided
          /\ informed["frontend"].withheld = making.elided
    BY <1>2, <2>4, NotesOfContent
  <2>7. ~informed["client"].silent => informed["client"].text = making.text
    BY <1>2, <2>5, NotesOfContent
  <2>8. making.is \notin {"error", "input", "call", "log"}
    BY <2>1
  <2> HIDE DEF FillsUpTo
  <2> QED
    BY <2>1, <2>3, <2>6, <2>7, <2>8 DEF EachReaderHearsItsOwn, Readers
<1>3. CASE SomeInput /\ Informed
  <2>1. making.is = "input"
    BY <1>3 DEF SomeInput
  <2>2. /\ \/ informed["model"] = NotTold /\ informed["frontend"] = NotTold
           \/ informed["model"] = RenderOutcome(making) /\ informed["frontend"] = ShownOf(making)
        /\ informed["server"] \in {NotTold, CallResult(making)}
        /\ informed["client"] \in {NotTold, CallResult(making)}
    BY <1>3, NotesOfInput DEF Informed
  <2>3. /\ informed["model"].said \in {{}, {"summary"}} /\ informed["frontend"].said = {}
        /\ informed["server"].said = {} /\ informed["client"].said = {}
    BY <1>0, <1>3, <2>2, NotesOfInput
  <2>4. ~informed["model"].silent => informed["model"].failed
    BY <1>0, <1>3, <2>2, NotesOfInput
  <2>5. ~informed["client"].silent => informed["client"].requests = making.requests
    BY <1>0, <1>3, <2>2, NotesOfInput
  <2>6. making.is \notin {"error", "content", "call", "log"}
    BY <2>1
  <2>7. \A r \in Readers : informed[r].said \subseteq {"summary"}
    BY <2>3 DEF Readers
  <2>8. /\ \A r \in Readers : informed[r].said \cap {"detail", "suggested tools"} = {}
        /\ \A r \in {"model", "server", "client"} : "sentence" \notin informed[r].said
    <3>1. ASSUME NEW r \in Readers
          PROVE  /\ informed[r].said \cap {"detail", "suggested tools"} = {}
                 /\ "sentence" \notin informed[r].said
      <4>1. informed[r].said \subseteq {"summary"}
        BY <2>7, <3>1
      <4>2. \A piece \in informed[r].said : piece = "summary"
        BY ONLY <4>1
      <4>3. "sentence" \notin informed[r].said
        BY ONLY <4>2
      <4>4. "detail" \notin informed[r].said /\ "suggested tools" \notin informed[r].said
        BY ONLY <4>2
      <4> QED
        BY ONLY <4>3, <4>4
    <3>2. {"model", "server", "client"} \subseteq Readers
      BY DEF Readers
    <3> QED
      BY <3>1, <3>2
  <2> QED
    BY <2>1, <2>3, <2>4, <2>5, <2>6, <2>8 DEF EachReaderHearsItsOwn
<1>4. CASE (making = NothingMade \/ SomeCall \/ SomeLog) /\ NobodyIsInformed
  <2>1. \A r \in Readers : informed[r] = NotTold
    BY <1>4 DEF NobodyIsInformed
  <2>2. /\ making.is = "call" => FillsUpTo(making.preview.text, making.args, PreviewBytes)
        /\ making.is = "call" => (making.preview.marked <=> making.preview.text # making.args)
    <3> SUFFICES ASSUME making.is = "call"
                 PROVE  /\ FillsUpTo(making.preview.text, making.args, PreviewBytes)
                        /\ making.preview.marked <=> making.preview.text # making.args
      OBVIOUS
    <3>1. SomeCall
      BY <1>4 DEF NothingMade, SomeLog
    <3>2. PICK args \in Seq(Char) :
            making = [is |-> "call", args |-> args, preview |-> Preview(args)]
      BY <3>1 DEF SomeCall
    <3>3. making.args = args /\ making.preview = Preview(args)
      BY <3>2
    <3>4. /\ Preview(args).text =
               IF Bytes(args) <= PreviewBytes THEN args ELSE CutAt(args, PreviewBytes)
          /\ Preview(args).marked <=> Bytes(args) > PreviewBytes
      BY DEF Preview
    <3>5. Bytes(args) \in Nat /\ PreviewBytes \in Nat
      BY BytesAreCounted, OutputAssumption
    <3>6. CASE Bytes(args) <= PreviewBytes
      <4>1. FillsUpTo(args, args, PreviewBytes)
        BY <3>5, <3>6, WholeFills
      <4>2. making.preview.text = args /\ ~making.preview.marked
        BY <3>3, <3>4, <3>5, <3>6
      <4> QED
        BY <3>3, <4>1, <4>2
    <3>7. CASE ~(Bytes(args) <= PreviewBytes)
      <4>1. FillsUpTo(CutAt(args, PreviewBytes), args, PreviewBytes)
        BY <3>5, CutFills
      <4>2. CutAt(args, PreviewBytes) # args
        BY <3>7, <4>1 DEF FillsUpTo
      <4>3. making.preview.text = CutAt(args, PreviewBytes) /\ making.preview.marked
        BY <3>3, <3>4, <3>5, <3>7
      <4> QED
        BY <3>3, <4>1, <4>2, <4>3
    <3> QED
      BY <3>6, <3>7
  <2>3. making.is = "log" => Cleaned(making.tree, making.logged)
    <3> SUFFICES ASSUME making.is = "log" PROVE Cleaned(making.tree, making.logged)
      OBVIOUS
    <3>1. SomeLog
      BY <1>4 DEF NothingMade, SomeCall
    <3>2. PICK tree : making = [is |-> "log", tree |-> tree, logged |-> Redact(tree)]
      BY <3>1 DEF SomeLog
    <3>3. making.tree = tree /\ making.logged = Redact(tree)
      BY <3>2
    <3> QED
      BY <3>3, RedactCleans
  <2> QED
    BY <1>0, <2>1, <2>2, <2>3 DEF EachReaderHearsItsOwn, Readers
<1> QED
  BY <1>1, <1>2, <1>3, <1>4 DEF FailuresInv, SomeOutcome

(* The steps: what is under way changes only while nobody was told of it.  *)

LEMMA NobodyYet ==
  ASSUME SomeOutcome, Informed, Unheard
  PROVE  NobodyIsInformed
<1>1. \A r \in Readers : informed[r].silent
  BY DEF Unheard
<1> QED
  BY <1>1, TheLoudAreInformed DEF Informed, NobodyIsInformed, Readers

LEMMA StillNobody ==
  ASSUME NobodyIsInformed, UNCHANGED informed
  PROVE  NobodyIsInformed' /\ (SomeOutcome' => Informed')
BY DEF NobodyIsInformed, Informed, Readers

LEMMA MakingKeeps ==
  ASSUME FailuresInv, NEW outcome, Making(outcome),
         NobodyIsInformed, (SomeOutcome \/ SomeCall \/ SomeLog)'
  PROVE  FailuresInv'
<1>1. UNCHANGED informed
  BY DEF Making
<1>2. NobodyIsInformed' /\ (SomeOutcome' => Informed')
  BY <1>1, StillNobody
<1> QED
  BY <1>2 DEF FailuresInv

LEMMA NothingMadeYet ==
  ASSUME FailuresInv, making = NothingMade
  PROVE  NobodyIsInformed
<1>1. ~SomeError
  BY DEF SomeError, NothingMade
<1>2. ~SomeContent
  BY DEF SomeContent, NothingMade
<1>3. ~SomeInput
  BY DEF SomeInput, NothingMade
<1> QED
  BY <1>1, <1>2, <1>3 DEF FailuresInv, SomeOutcome

\* An outcome is of the kind it says.
LEMMA Kinds ==
  ASSUME FailuresInv
  PROVE  /\ making.is = "error" => SomeError /\ Informed
         /\ making.is = "content" => SomeContent /\ Informed
         /\ making.is = "input" => SomeInput /\ Informed
<1>1. CASE SomeError /\ Informed
  <2>1. making.is = "error"
    BY <1>1 DEF SomeError
  <2> QED
    BY <1>1, <2>1
<1>2. CASE SomeContent /\ Informed
  <2>1. making.is = "content"
    BY <1>2 DEF SomeContent
  <2> QED
    BY <1>2, <2>1
<1>3. CASE SomeInput /\ Informed
  <2>1. making.is = "input"
    BY <1>3 DEF SomeInput
  <2> QED
    BY <1>3, <2>1
<1>4. CASE making = NothingMade \/ SomeCall \/ SomeLog
  <2>1. making.is \in {"nothing", "call", "log"}
    BY <1>4 DEF NothingMade, SomeCall, SomeLog
  <2> QED
    BY <2>1
<1> QED
  BY <1>1, <1>2, <1>3, <1>4 DEF FailuresInv, SomeOutcome

LEMMA RaiseKeeps ==
  ASSUME FailuresInv, NEW error \in OwnFailures \cup {ToolError("tool", {})}, Raise(error)
  PROVE  FailuresInv'
<1>1. making = NothingMade /\ Making(error) /\ making' = error
  BY DEF Raise, Making
<1>2. PICK by \in Raisers, said \in SUBSET Pieces :
        /\ error = ToolError(by, said)
        /\ by # "tool" => "guidance" \in said
  <2>1. CASE error = ToolError("tool", {})
    <3>1. "tool" \in Raisers /\ {} \in SUBSET Pieces
      BY DEF Raisers
    <3> QED
      BY <2>1, <3>1
  <2>2. CASE error = ToolError("decode_args", {"guidance", "schema hint"})
    <3>1. {"guidance", "schema hint"} \in SUBSET Pieces
      BY DEF Pieces
    <3>2. "decode_args" \in Raisers /\ "guidance" \in {"guidance", "schema hint"}
      BY DEF Raisers
    <3> QED
      BY <2>2, <3>1, <3>2
  <2>3. CASE \E by \in {"check_arguments", "PolicyLayer", "rejection", "over_cap",
                       "no such tool"} : error = ToolError(by, {"guidance"})
    <3>1. PICK by \in {"check_arguments", "PolicyLayer", "rejection", "over_cap",
                       "no such tool"} : error = ToolError(by, {"guidance"})
      BY <2>3
    <3>2. by \in Raisers
      BY <3>1 DEF Raisers
    <3>3. {"guidance"} \in SUBSET Pieces /\ "guidance" \in {"guidance"}
      BY DEF Pieces
    <3> QED
      BY <3>1, <3>2, <3>3
  <2> QED
    BY <2>1, <2>2, <2>3 DEF OwnFailures
<1>3. error = [is |-> "error", by |-> by, said |-> {"summary"} \cup said]
  BY <1>2 DEF ToolError
<1>4. {"summary"} \cup said \in SUBSET Pieces
  BY DEF Pieces
<1>5. /\ error \in [is : {"error"}, by : Raisers, said : SUBSET Pieces]
      /\ "summary" \in error.said
      /\ error.by # "tool" => "guidance" \in error.said
  BY <1>2, <1>3, <1>4
<1>6. SomeError'
  BY <1>1, <1>5 DEF SomeError
<1> QED
  BY <1>1, <1>6, MakingKeeps, NothingMadeYet DEF SomeOutcome

LEMMA ProduceKeeps ==
  ASSUME FailuresInv, NEW text \in Outputs, Produce(text)
  PROVE  FailuresInv'
<1>1. making = NothingMade /\ Making(ToolContent(text)) /\ making' = ToolContent(text)
  BY DEF Produce, Making
<1>2. text \in Seq(Char)
  BY OutputAssumption DEF Char
<1>3. Bytes(text) \in Nat
  BY <1>2, BytesAreCounted
<1>4. FillsUpTo(text, text, Bytes(text))
  BY <1>2, <1>3, WholeFills
<1>5. making' = [is |-> "content", whole |-> text, text |-> text, structured |-> FALSE,
                 elided |-> 0, within |-> Bytes(text)]
  BY <1>1 DEF ToolContent
<1>6. /\ making' \in [is : {"content"}, whole : Seq(Char), text : Seq(Char),
                      structured : BOOLEAN, elided : Nat, within : Nat]
      /\ making'.text = text /\ making'.whole = text /\ making'.elided = 0
      /\ making'.within = Bytes(text)
  BY <1>2, <1>3, <1>5
<1>7. SomeContent'
  BY <1>3, <1>4, <1>6 DEF SomeContent
<1> QED
  BY <1>1, <1>7, MakingKeeps, NothingMadeYet DEF SomeOutcome

LEMMA AskKeeps ==
  ASSUME FailuresInv, NEW requests \in SUBSET Requests, Ask(requests)
  PROVE  FailuresInv'
<1>1. /\ making = NothingMade /\ Making(NeedsInput(requests)) /\ requests # {}
      /\ making' = [is |-> "input", requests |-> requests]
  BY DEF Ask, Making, NeedsInput
<1>2. SomeInput'
  BY <1>1 DEF SomeInput
<1> QED
  BY <1>1, <1>2, MakingKeeps, NothingMadeYet DEF SomeOutcome

LEMMA AttachKeeps ==
  ASSUME FailuresInv, NEW piece \in Pieces, Attach(piece)
  PROVE  FailuresInv'
<1>1. SomeError /\ Informed /\ Unheard /\ making.by = "tool"
  BY Kinds DEF Attach
<1> DEFINE outcome == [making EXCEPT !.said = @ \cup {piece}]
<1>2. Making(outcome) /\ making' = outcome
  BY DEF Attach, Making
<1>3. making \in [is : {"error"}, by : Raisers, said : SUBSET Pieces] /\ "summary" \in making.said
  BY <1>1 DEF SomeError
<1>4. making.said \cup {piece} \in SUBSET Pieces
  BY <1>3
<1>5. /\ outcome \in [is : {"error"}, by : Raisers, said : SUBSET Pieces]
      /\ outcome.said = making.said \cup {piece} /\ outcome.by = making.by
  BY <1>3, <1>4
<1> HIDE DEF outcome
<1>6. SomeError'
  BY <1>1, <1>2, <1>3, <1>5 DEF SomeError
<1>7. NobodyIsInformed
  BY <1>1, NobodyYet DEF SomeOutcome
<1> QED
  BY <1>2, <1>6, <1>7, MakingKeeps DEF SomeOutcome

LEMMA StructuredKeeps ==
  ASSUME FailuresInv, WithStructured
  PROVE  FailuresInv'
<1>1. SomeContent /\ Informed /\ Unheard
  BY Kinds DEF WithStructured
<1> DEFINE outcome == [making EXCEPT !.structured = TRUE]
<1>2. Making(outcome) /\ making' = outcome
  BY DEF WithStructured, Making
<1>3. /\ outcome \in [is : {"content"}, whole : Seq(Char), text : Seq(Char),
                      structured : BOOLEAN, elided : Nat, within : Nat]
      /\ outcome.text = making.text /\ outcome.whole = making.whole
      /\ outcome.elided = making.elided /\ outcome.within = making.within
  BY <1>1 DEF SomeContent
<1> HIDE DEF outcome
<1>4. SomeContent'
  BY <1>1, <1>2, <1>3 DEF SomeContent
<1>5. NobodyIsInformed
  BY <1>1, NobodyYet DEF SomeOutcome
<1> QED
  BY <1>2, <1>4, <1>5, MakingKeeps DEF SomeOutcome

LEMMA CapKeeps ==
  ASSUME FailuresInv, NEW max \in Ceilings, Cap(max)
  PROVE  FailuresInv'
<1>1. SomeContent /\ Informed /\ Unheard /\ making.elided = 0
  BY Kinds DEF Cap
<1> DEFINE text == making.text
           cut == Truncate(text, max)
           outcome == [making EXCEPT !.text = cut.text, !.elided = cut.elided, !.within = max]
<1>2. Making(outcome) /\ making' = outcome
  BY DEF Cap, Making
<1>3. /\ making \in [is : {"content"}, whole : Seq(Char), text : Seq(Char),
                     structured : BOOLEAN, elided : Nat, within : Nat]
      /\ making.whole = text /\ text \in Seq(Char) /\ max \in Nat
  BY <1>1, OutputAssumption DEF SomeContent
<1>4. Bytes(text) \in Nat
  BY <1>3, BytesAreCounted
<1>5. /\ cut.text \in Seq(Char) /\ cut.elided \in Nat
      /\ FillsUpTo(cut.text, text, max)
      /\ Bytes(cut.text) + cut.elided = Bytes(text)
      /\ cut.elided = 0 => cut.text = text
  <2> HIDE DEF text
  <2>1. CASE Bytes(text) <= max
    <3>1. cut.text = text /\ cut.elided = 0
      BY <2>1 DEF Truncate
    <3>2. FillsUpTo(text, text, max)
      BY <1>3, <2>1, WholeFills
    <3> HIDE DEF cut
    <3> QED
      BY <1>3, <1>4, <3>1, <3>2
  <2>2. CASE ~(Bytes(text) <= max)
    <3>1. cut.text = CutAt(text, max) /\ cut.elided = Bytes(text) - Bytes(CutAt(text, max))
      BY <2>2 DEF Truncate, Elided
    <3>2. CutAt(text, max) \in Seq(Char) /\ FillsUpTo(CutAt(text, max), text, max)
      BY <1>3, CutFills
    <3>3. Bytes(CutAt(text, max)) \in Nat /\ Bytes(CutAt(text, max)) <= max
      BY <3>2, BytesAreCounted DEF FillsUpTo
    <3> HIDE DEF cut
    <3> QED
      BY <1>3, <1>4, <2>2, <3>1, <3>2, <3>3
  <2> QED
    BY <2>1, <2>2
<1> HIDE DEF cut
<1>6. /\ outcome \in [is : {"content"}, whole : Seq(Char), text : Seq(Char),
                      structured : BOOLEAN, elided : Nat, within : Nat]
      /\ outcome.text = cut.text /\ outcome.whole = making.whole
      /\ outcome.elided = cut.elided /\ outcome.within = max
  BY <1>3, <1>5
<1> HIDE DEF outcome, text
<1>7. SomeContent'
  BY <1>2, <1>3, <1>5, <1>6 DEF SomeContent
<1>8. NobodyIsInformed
  BY <1>1, NobodyYet DEF SomeOutcome
<1> QED
  BY <1>2, <1>7, <1>8, MakingKeeps DEF SomeOutcome

LEMMA TellingKeeps ==
  ASSUME FailuresInv, making.is \in {"error", "content", "input"},
         LoopTells \/ ServerTells \/ ClientTells
  PROVE  FailuresInv'
<1>1. SomeOutcome /\ Informed
  BY Kinds DEF SomeOutcome
<1>2. UNCHANGED making
  BY DEF LoopTells, ServerTells, ClientTells
<1>3. SomeOutcome'
  BY <1>1, <1>2 DEF SomeOutcome, SomeError, SomeContent, SomeInput
<1>4. /\ RenderOutcome(making)' = RenderOutcome(making)
      /\ ShownOf(making)' = ShownOf(making)
      /\ CallResult(making)' = CallResult(making)
      /\ ReadFrom(CallResult(making))' = ReadFrom(CallResult(making))
      /\ NotTold' = NotTold
  BY <1>2
<1>5. CASE LoopTells
  <2>1. informed' = [informed EXCEPT !["model"] = RenderOutcome(making),
                                     !["frontend"] = ShownOf(making)]
    BY <1>5 DEF LoopTells
  <2>2. /\ DOMAIN informed' = Readers
        /\ informed'["model"] = RenderOutcome(making)
        /\ informed'["frontend"] = ShownOf(making)
        /\ informed'["server"] = informed["server"] /\ informed'["client"] = informed["client"]
    BY <1>1, <2>1 DEF Informed, Readers
  <2> QED
    BY <1>1, <1>2, <1>3, <2>2 DEF FailuresInv, Informed
<1>6. CASE ServerTells
  <2>1. informed' = [informed EXCEPT !["server"] = CallResult(making)]
    BY <1>6 DEF ServerTells
  <2>2. /\ DOMAIN informed' = Readers
        /\ informed'["model"] = informed["model"]
        /\ informed'["frontend"] = informed["frontend"]
        /\ informed'["server"] = CallResult(making) /\ informed'["client"] = informed["client"]
    BY <1>1, <2>1 DEF Informed, Readers
  <2> QED
    BY <1>1, <1>2, <1>3, <2>2 DEF FailuresInv, Informed
<1>7. CASE ClientTells
  <2>1. /\ informed' = [informed EXCEPT !["client"] = ReadFrom(informed["server"])]
        /\ ~informed["server"].silent
    BY <1>7 DEF ClientTells
  <2>2. informed["server"] = CallResult(making)
    BY <1>1, <2>1 DEF Informed, NotTold
  <2>3. /\ DOMAIN informed' = Readers
        /\ informed'["model"] = informed["model"]
        /\ informed'["frontend"] = informed["frontend"]
        /\ informed'["server"] = informed["server"]
        /\ informed'["client"] = ReadFrom(CallResult(making))
    BY <1>1, <2>1, <2>2 DEF Informed, Readers
  <2> QED
    BY <1>1, <1>2, <1>3, <2>3 DEF FailuresInv, Informed
<1> QED
  BY <1>5, <1>6, <1>7

LEMMA FailuresStep == FailuresInv /\ [FailuresNext]_failuresVars => FailuresInv'
<1> SUFFICES ASSUME FailuresInv, [FailuresNext]_failuresVars PROVE FailuresInv'
  OBVIOUS
<1>1. ASSUME NEW error \in OwnFailures \cup {ToolError("tool", {})}, Raise(error)
      PROVE  FailuresInv'
  BY <1>1, RaiseKeeps
<1>2. ASSUME NEW text \in Outputs, Produce(text) \/ Announce(text) PROVE FailuresInv'
  <2>1. CASE Produce(text)
    BY <2>1, ProduceKeeps
  <2>2. CASE Announce(text)
    <3> DEFINE call == [is |-> "call", args |-> text, preview |-> Preview(text)]
    <3>1. making = NothingMade /\ Making(call) /\ making' = call
      BY <2>2 DEF Announce, Making
    <3>2. text \in Seq(Char)
      BY OutputAssumption DEF Char
    <3>3. SomeCall'
      BY <3>1, <3>2 DEF SomeCall
    <3> QED
      BY <3>1, <3>3, MakingKeeps, NothingMadeYet
  <2> QED
    BY <1>2, <2>1, <2>2
<1>3. ASSUME NEW requests \in SUBSET Requests, Ask(requests) PROVE FailuresInv'
  BY <1>3, AskKeeps
<1>4. ASSUME NEW piece \in Pieces, Attach(piece) PROVE FailuresInv'
  BY <1>4, AttachKeeps
<1>5. CASE WithStructured
  BY <1>5, StructuredKeeps
<1>6. ASSUME NEW max \in Ceilings, Cap(max) PROVE FailuresInv'
  BY <1>6, CapKeeps
<1>7. CASE making.is \in {"error", "content", "input"} /\ (LoopTells \/ ServerTells \/ ClientTells)
  BY <1>7, TellingKeeps
<1>8. ASSUME NEW tree \in CallTrees, Log(tree) PROVE FailuresInv'
  <2> DEFINE log == [is |-> "log", tree |-> tree, logged |-> Redact(tree)]
  <2>1. making = NothingMade /\ Making(log) /\ making' = log
    BY <1>8 DEF Log, Making
  <2>2. SomeLog'
    BY <2>1 DEF SomeLog
  <2> QED
    BY <2>1, <2>2, MakingKeeps, NothingMadeYet
<1>9. CASE UNCHANGED failuresVars
  <2>1. UNCHANGED <<making, informed>>
    BY <1>9 DEF failuresVars
  <2> QED
    BY <2>1 DEF FailuresInv, SomeOutcome, SomeError, SomeContent, SomeInput, SomeCall, SomeLog,
           Informed, NobodyIsInformed
<1> QED
  BY <1>1, <1>2, <1>3, <1>4, <1>5, <1>6, <1>7, <1>8, <1>9 DEF FailuresNext

\* Of one failure or result, the model, the frontend and a remote model each hear the pieces
\* meant for them and no other's, what a model does not see of an output is what it is told
\* that it does not see, and a log keeps nothing under a sensitive key (render_outcome,
\* Server::call_tool, TruncateLayer, RedactLayer): for any texts, ceilings and arguments.
THEOREM AudiencesAreKeptApart == FailuresSpec => []EachReaderHearsItsOwn
<1> QED
  BY InitFailures, FailuresStep, FailuresHold, PTL DEF FailuresSpec

--------------------------------------------------------------------------------
(* Text, in characters and in bytes.                                       *)

AllNarrow(text) == \A i \in DOMAIN text : text[i] \notin WideLetters

\* No text is shorter in bytes, and as short only when no character is wide.
LEMMA BytesOfText ==
  ASSUME NEW S, NEW text \in Seq(S)
  PROVE  /\ Bytes(text) \in Nat /\ Bytes(text) >= Len(text)
         /\ Bytes(text) = Len(text) <=> AllNarrow(text)
<1> DEFINE Good(t) == /\ Bytes(t) \in Nat /\ Bytes(t) >= Len(t)
                      /\ Bytes(t) = Len(t) <=> AllNarrow(t)
           C == {t \in Seq(S) : Good(t)}
           widths(t) == [i \in DOMAIN t |-> Width(t[i])]
<1>1. <<>> \in C
  <2>1. <<>> \in Seq(S) /\ Len(<<>>) = 0 /\ DOMAIN <<>> = {}
    OBVIOUS
  <2>2. widths(<<>>) \in [{} -> Nat]
    BY <2>1
  <2>3. Bytes(<<>>) = SumFunction(widths(<<>>))
    BY DEF Bytes
  <2> HIDE DEF widths
  <2>4. Bytes(<<>>) = 0
    BY <2>2, <2>3, SumOfNothing
  <2>5. AllNarrow(<<>>)
    BY <2>1 DEF AllNarrow
  <2> QED
    BY <2>1, <2>4, <2>5
<1>2. ASSUME NEW t \in C, NEW e \in S PROVE Append(t, e) \in C
  <2> DEFINE n == Len(t)
             more == Append(t, e)
  <2>1. t \in Seq(S) /\ n \in Nat /\ DOMAIN t = 1 .. n /\ Good(t)
    BY LenProperties
  <2>2. /\ more \in Seq(S) /\ Len(more) = n + 1 /\ DOMAIN more = 1 .. n + 1
        /\ \A i \in 1 .. n : more[i] = t[i]
        /\ more[n + 1] = e
    BY <2>1, AppendProperties
  <2> HIDE DEF n, more
  <2>3. DOMAIN more = (1 .. n) \cup {n + 1} /\ n + 1 \notin 1 .. n
    BY <2>1, <2>2
  <2>4. IsFiniteSet(1 .. n)
    <3>1. 1 \in Int /\ n \in Int
      BY <2>1
    <3> QED
      BY <3>1, FS_Interval
  <2>5. PICK f, g : f = widths(t) /\ g = widths(more)
    OBVIOUS
  <2>6. Width(e) \in {1, 2} /\ (Width(e) = 1 <=> e \notin WideLetters)
    BY DEF Width
  <2>7. f \in [1 .. n -> Nat] /\ g \in [1 .. n + 1 -> Nat]
    BY <2>1, <2>2, <2>3, <2>5 DEF Width
  <2>8. \A i \in 1 .. n : g[i] = f[i]
    BY <2>1, <2>2, <2>3, <2>5
  <2>9. g[n + 1] = Width(e)
    BY <2>2, <2>3, <2>5
  <2>10. SumFunction(g) = SumFunction(f) + g[n + 1]
    BY ONLY <2>1, <2>7, <2>8, LastTerm
  <2>11. Bytes(t) = SumFunction(f) /\ Bytes(more) = SumFunction(g)
    BY <2>5 DEF Bytes
  <2>12. Bytes(more) = Bytes(t) + Width(e)
    BY <2>9, <2>10, <2>11
  <2>13. AllNarrow(more) <=> AllNarrow(t) /\ e \notin WideLetters
    BY <2>1, <2>2, <2>3 DEF AllNarrow
  <2>14. Good(more)
    BY <2>1, <2>2, <2>6, <2>12, <2>13 DEF n
  <2> QED
    BY <2>2, <2>14 DEF more
<1>3. C = Seq(S)
  <2> HIDE DEF C
  <2>1. C \in SUBSET Seq(S)
    BY DEF C
  <2> QED
    BY <1>1, <1>2, <2>1, SequenceInduction
<1> QED
  BY <1>3

\* The front of a text, in bytes.
LEMMA BytesOfFront ==
  ASSUME NEW S, NEW text \in Seq(S), NEW k \in 0 .. Len(text)
  PROVE  /\ Bytes(SubSeq(text, 1, k)) \in Nat
         /\ Bytes(SubSeq(text, 1, k)) = 0 <=> k = 0
         /\ AllNarrow(text) => Bytes(SubSeq(text, 1, k)) = k
<1> DEFINE front == SubSeq(text, 1, k)
<1>1. /\ k \in Nat /\ k <= Len(text) /\ Len(text) \in Nat /\ DOMAIN text = 1 .. Len(text)
      /\ \A i \in 1 .. k : text[i] \in S
  BY LenProperties, ElementOfSeq
<1>2. /\ front \in Seq(S) /\ Len(front) = k /\ DOMAIN front = 1 .. k
      /\ \A i \in 1 .. k : front[i] = text[i]
  BY <1>1, SubSeqProperties
<1> HIDE DEF front
<1>3. Bytes(front) \in Nat /\ Bytes(front) >= k /\ (Bytes(front) = k <=> AllNarrow(front))
  BY <1>2, BytesOfText
<1>4. AllNarrow(text) => AllNarrow(front)
  BY <1>1, <1>2 DEF AllNarrow
<1>5. k = 0 => Bytes(front) = 0
  BY <1>2, <1>3 DEF AllNarrow
<1> QED
  BY <1>1, <1>3, <1>4, <1>5 DEF front
--------------------------------------------------------------------------------
(* Where the first chunks of a pattern can be found, and where they end.   *)

Sign == Letters \cup WideLetters \cup {"."}

Placed(pattern, text, n, at) ==
  /\ \A i \in 1 .. n : FitsAt(text, pattern[i], at[i])
  /\ \A i, j \in 1 .. n : i < j => at[i] + Len(pattern[i]) <= at[j]
EndBy(pattern, n, at, e) == \A i \in 1 .. n : at[i] + Len(pattern[i]) <= e
Ends(pattern, text, n) ==
  {e \in 0 .. Len(text) :
     \E at \in [1 .. n -> 0 .. Len(text)] :
       Placed(pattern, text, n, at) /\ EndBy(pattern, n, at, e)}

LEMMA EndsOfNone ==
  ASSUME NEW pattern, NEW text, Len(text) \in Nat
  PROVE  Ends(pattern, text, 0) = 0 .. Len(text)
<1> DEFINE at == [i \in 1 .. 0 |-> 0]
<1>1. at \in [1 .. 0 -> 0 .. Len(text)] /\ 1 .. 0 = {}
  OBVIOUS
<1>2. Placed(pattern, text, 0, at) /\ \A e \in 0 .. Len(text) : EndBy(pattern, 0, at, e)
  BY <1>1 DEF Placed, EndBy
<1> HIDE DEF at
<1> QED
  BY <1>1, <1>2 DEF Ends

LEMMA EndsAreNumbers ==
  ASSUME NEW pattern, NEW text, NEW n
  PROVE  Ends(pattern, text, n) \in SUBSET (0 .. Len(text))
BY DEF Ends

\* What ends by one place ends by every later one.
LEMMA EndsStayEnds ==
  ASSUME NEW S, NEW T, NEW pattern \in Seq(Seq(S)), NEW text \in Seq(T),
         NEW n \in 0 .. Len(pattern), NEW e \in Ends(pattern, text, n),
         NEW f \in 0 .. Len(text), e <= f
  PROVE  f \in Ends(pattern, text, n)
<1>1. PICK at \in [1 .. n -> 0 .. Len(text)] :
        Placed(pattern, text, n, at) /\ EndBy(pattern, n, at, e)
  BY DEF Ends
<1>2. e \in Nat /\ Len(text) \in Nat /\ Len(pattern) \in Nat
  BY LenProperties DEF Ends
<1>3. \A i \in 1 .. n : at[i] \in Nat /\ Len(pattern[i]) \in Nat
  <2> TAKE i \in 1 .. n
  <2>1. i \in 1 .. Len(pattern)
    BY <1>2
  <2>2. pattern[i] \in Seq(S)
    BY <2>1, ElementOfSeq
  <2> QED
    BY <1>2, <2>2, LenProperties
<1>4. EndBy(pattern, n, at, f)
  BY <1>1, <1>2, <1>3 DEF EndBy
<1> QED
  BY <1>1, <1>4 DEF Ends

\* One chunk more is found where the others have ended.
LEMMA EndsGoOn ==
  ASSUME NEW S, NEW T, NEW pattern \in Seq(Seq(S)), NEW text \in Seq(T),
         NEW n \in Nat, n + 1 <= Len(pattern), NEW s \in Ends(pattern, text, n),
         FitsAt(text, pattern[n + 1], s),
         NEW e \in 0 .. Len(text), s + Len(pattern[n + 1]) <= e
  PROVE  e \in Ends(pattern, text, n + 1)
<1>1. PICK at \in [1 .. n -> 0 .. Len(text)] :
        Placed(pattern, text, n, at) /\ EndBy(pattern, n, at, s)
  BY DEF Ends
<1>2. s \in 0 .. Len(text) /\ Len(text) \in Nat /\ Len(pattern) \in Nat
  BY LenProperties DEF Ends
<1>3. \A i \in 1 .. n + 1 : Len(pattern[i]) \in Nat
  <2> TAKE i \in 1 .. n + 1
  <2>1. i \in 1 .. Len(pattern)
    BY <1>2
  <2>2. pattern[i] \in Seq(S)
    BY <2>1, ElementOfSeq
  <2> QED
    BY <2>2, LenProperties
<1> DEFINE more == [i \in 1 .. n + 1 |-> IF i = n + 1 THEN s ELSE at[i]]
<1>4. \A i \in 1 .. n + 1 : i = n + 1 \/ (i \in 1 .. n /\ i # n + 1)
  OBVIOUS
<1>5. \A i \in 1 .. n : i \in 1 .. n + 1 /\ i # n + 1
  OBVIOUS
<1>6. /\ more \in [1 .. n + 1 -> 0 .. Len(text)]
      /\ more[n + 1] = s
      /\ \A i \in 1 .. n : more[i] = at[i]
  BY <1>2, <1>4, <1>5
<1> HIDE DEF more
<1>7. \A i \in 1 .. n + 1 : FitsAt(text, pattern[i], more[i])
  BY <1>1, <1>4, <1>6 DEF Placed
<1>8. \A i, j \in 1 .. n + 1 : i < j => more[i] + Len(pattern[i]) <= more[j]
  <2> TAKE i, j \in 1 .. n + 1
  <2> HAVE i < j
  <2>1. i \in 1 .. n /\ more[i] = at[i]
    BY <1>6
  <2>2. CASE j = n + 1
    BY <1>1, <1>6, <2>1, <2>2 DEF EndBy
  <2>3. CASE j # n + 1
    <3>1. j \in 1 .. n /\ more[j] = at[j]
      BY <1>4, <1>6, <2>3
    <3> QED
      BY <1>1, <2>1, <3>1 DEF Placed
  <2> QED
    BY <2>2, <2>3
<1>9. \A i \in 1 .. n + 1 : more[i] + Len(pattern[i]) <= e
  <2> TAKE i \in 1 .. n + 1
  <2>1. CASE i = n + 1
    BY <1>6, <2>1
  <2>2. CASE i # n + 1
    <3>1. i \in 1 .. n /\ more[i] = at[i]
      BY <1>4, <1>6, <2>2
    <3>2. at[i] + Len(pattern[i]) <= s
      BY <1>1, <3>1 DEF EndBy
    <3>3. at[i] \in Nat /\ Len(pattern[i]) \in Nat /\ Len(pattern[n + 1]) \in Nat
      BY <1>2, <1>3, <3>1
    <3>4. PICK from, long, end, last :
            /\ from = at[i] /\ long = Len(pattern[i]) /\ end = from + long
            /\ last = Len(pattern[n + 1])
      OBVIOUS
    <3>5. end <= e
      <4>1. end \in Nat /\ last \in Nat /\ s \in Nat /\ e \in Nat
        <5>1. s \in Nat /\ e \in Nat
          BY <1>2
        <5>2. from \in Nat /\ long \in Nat /\ end = from + long
          BY <3>3, <3>4
        <5>3. last \in Nat
          BY ONLY <3>3, <3>4
        <5> QED
          BY ONLY <5>1, <5>2, <5>3
      <4>2. end <= s /\ s + last <= e
        BY <3>2, <3>4
      <4> QED
        BY ONLY <4>1, <4>2
    <3> QED
      BY <3>1, <3>4, <3>5
  <2> QED
    BY <2>1, <2>2
<1>10. Placed(pattern, text, n + 1, more) /\ EndBy(pattern, n + 1, more, e)
  BY <1>7, <1>8, <1>9 DEF Placed, EndBy
<1> QED
  BY <1>6, <1>10 DEF Ends

LEMMA EndsComeFrom ==
  ASSUME NEW S, NEW T, NEW pattern \in Seq(Seq(S)), NEW text \in Seq(T),
         NEW n \in Nat, n + 1 <= Len(pattern), NEW e \in Ends(pattern, text, n + 1)
  PROVE  \E s \in Ends(pattern, text, n) :
           FitsAt(text, pattern[n + 1], s) /\ s + Len(pattern[n + 1]) <= e
<1>1. PICK at \in [1 .. n + 1 -> 0 .. Len(text)] :
        Placed(pattern, text, n + 1, at) /\ EndBy(pattern, n + 1, at, e)
  BY DEF Ends
<1> DEFINE s == at[n + 1]
           less == [i \in 1 .. n |-> at[i]]
<1>2. n + 1 \in 1 .. n + 1 /\ \A i \in 1 .. n : i \in 1 .. n + 1 /\ i < n + 1
  OBVIOUS
<1>3. /\ less \in [1 .. n -> 0 .. Len(text)]
      /\ \A i \in 1 .. n : less[i] = at[i]
      /\ s \in 0 .. Len(text)
  BY <1>2
<1>4. Placed(pattern, text, n, less)
  BY <1>1, <1>2, <1>3 DEF Placed
<1>5. EndBy(pattern, n, less, s)
  BY <1>1, <1>2, <1>3 DEF Placed, EndBy
<1>6. FitsAt(text, pattern[n + 1], s) /\ s + Len(pattern[n + 1]) <= e
  BY <1>1, <1>2 DEF Placed, EndBy
<1> HIDE DEF s, less
<1>7. s \in Ends(pattern, text, n)
  BY <1>3, <1>4, <1>5 DEF Ends
<1> QED
  BY <1>6, <1>7

\* re.search finds what can end somewhere.
LEMMA SearchFindsEnds ==
  ASSUME NEW S, NEW T, NEW pattern \in Seq(Seq(S)), NEW text \in Seq(T)
  PROVE  ReSearch(pattern, text) <=> Ends(pattern, text, Len(pattern)) # {}
<1> DEFINE n == Len(pattern)
<1>1. DOMAIN pattern = 1 .. n /\ n \in Nat /\ Len(text) \in Nat
  BY LenProperties
<1>2. ReSearch(pattern, text) <=>
        \E at \in [1 .. n -> 0 .. Len(text)] : Placed(pattern, text, n, at)
  BY <1>1 DEF ReSearch, Placed
<1>3. ASSUME NEW at \in [1 .. n -> 0 .. Len(text)], Placed(pattern, text, n, at)
      PROVE  Len(text) \in Ends(pattern, text, n)
  <2>1. EndBy(pattern, n, at, Len(text))
    BY <1>3 DEF Placed, EndBy, FitsAt
  <2>2. Len(text) \in 0 .. Len(text)
    BY <1>1
  <2> QED
    BY <1>3, <2>1, <2>2 DEF Ends
<1> HIDE DEF n
<1>4. Ends(pattern, text, n) # {} =>
        \E at \in [1 .. n -> 0 .. Len(text)] : Placed(pattern, text, n, at)
  BY DEF Ends
<1> QED
  BY <1>2, <1>3, <1>4 DEF n
--------------------------------------------------------------------------------
(* One chunk.                                                              *)

\* What is left of a text from the place where the search goes on: of plain text, or of
\* any text before anything was found.
LEMMA SliceIs ==
  ASSUME NEW T, NEW text \in Seq(T), NEW c \in 0 .. Len(text), NEW cursor,
         (AllNarrow(text) /\ cursor = c) \/ (c = 0 /\ cursor = 0)
  PROVE  CanSlice(text, cursor) /\ SliceFrom(text, cursor) = SubSeq(text, c + 1, Len(text))
<1>1. \A k \in 0 .. Len(text) : Bytes(SubSeq(text, 1, k)) = cursor <=> k = c
  <2> TAKE k \in 0 .. Len(text)
  <2>1. /\ Bytes(SubSeq(text, 1, k)) \in Nat
        /\ Bytes(SubSeq(text, 1, k)) = 0 <=> k = 0
        /\ AllNarrow(text) => Bytes(SubSeq(text, 1, k)) = k
    BY BytesOfFront
  <2> QED
    BY <2>1
<1>2. CanSlice(text, cursor)
  BY <1>1 DEF CanSlice
<1>3. (CHOOSE k \in 0 .. Len(text) : Bytes(SubSeq(text, 1, k)) = cursor) = c
  BY <1>1
<1> QED
  BY <1>2, <1>3 DEF SliceFrom

LEMMA RestIs ==
  ASSUME NEW T, NEW text \in Seq(T), NEW c \in 0 .. Len(text), NEW S, NEW chunk \in Seq(S)
  PROVE  LET rest == SubSeq(text, c + 1, Len(text)) IN
         /\ Len(rest) = Len(text) - c
         /\ \A k \in 0 .. Len(rest) : FitsAt(rest, chunk, k) <=> FitsAt(text, chunk, c + k)
<1> DEFINE rest == SubSeq(text, c + 1, Len(text))
<1>1. /\ Len(text) \in Nat /\ c \in Nat /\ c <= Len(text) /\ DOMAIN text = 1 .. Len(text)
      /\ Len(chunk) \in Nat /\ DOMAIN chunk = 1 .. Len(chunk)
      /\ \A i \in 1 .. Len(text) : text[i] \in T
  BY LenProperties, ElementOfSeq
<1>2. \A i \in c + 1 .. Len(text) : text[i] \in T
  BY <1>1
<1>3. PICK a, b : a = c + 1 /\ b = Len(text)
  OBVIOUS
<1>4. /\ rest \in Seq(T) /\ Len(rest) = Len(text) - c
      /\ \A i \in 1 .. Len(text) - c : rest[i] = text[c + i]
  <2>1. /\ a \in Int /\ b \in Int /\ a \in 1 .. b + 1
        /\ \A i \in a .. b : text[i] \in T
    BY <1>1, <1>2, <1>3
  <2>2. /\ SubSeq(text, a, b) \in Seq(T)
        /\ Len(SubSeq(text, a, b)) = IF a <= b THEN b - a + 1 ELSE 0
        /\ \A i \in 1 .. b - a + 1 : SubSeq(text, a, b)[i] = text[a + i - 1]
    BY ONLY <2>1, SubSeqProperties
  <2>3. rest = SubSeq(text, a, b)
    BY <1>3
  <2>4. (IF a <= b THEN b - a + 1 ELSE 0) = Len(text) - c
    <3>1. a \in Nat /\ b \in Nat /\ c \in Nat /\ a = c + 1 /\ c <= b /\ Len(text) = b
      BY <1>1, <1>3
    <3> QED
      BY ONLY <3>1
  <2>5. b - a + 1 = Len(text) - c /\ \A i \in 1 .. Len(text) - c : a + i - 1 = c + i
    BY <1>1, <1>3
  <2> QED
    BY <2>2, <2>3, <2>4, <2>5
<1> HIDE DEF rest
<1>5. ASSUME NEW k \in 0 .. Len(rest)
      PROVE  FitsAt(rest, chunk, k) <=> FitsAt(text, chunk, c + k)
  <2>1. k + Len(chunk) <= Len(rest) <=> c + k + Len(chunk) <= Len(text)
    BY <1>1, <1>4
  <2>2. ASSUME k + Len(chunk) <= Len(rest), NEW i \in DOMAIN chunk
        PROVE  rest[k + i] = text[c + k + i]
    <3>1. k + i \in 1 .. Len(text) - c /\ c + (k + i) = c + k + i
      BY <1>1, <1>4, <2>2
    <3> QED
      BY <1>4, <3>1
  <2> QED
    BY <2>1, <2>2 DEF FitsAt
<1> QED
  BY <1>4, <1>5 DEF rest

\* In plain text a chunk is as long in bytes as in characters.
LEMMA ChunkIsPlain ==
  ASSUME NEW T, NEW text \in Seq(T), AllNarrow(text), NEW chunk \in Seq(Sign),
         NEW s \in Nat, FitsAt(text, chunk, s)
  PROVE  Bytes(chunk) = Len(chunk)
<1>1. /\ Len(text) \in Nat /\ DOMAIN text = 1 .. Len(text)
      /\ Len(chunk) \in Nat /\ DOMAIN chunk = 1 .. Len(chunk)
  BY LenProperties
<1>2. AllNarrow(chunk)
  <2> SUFFICES ASSUME NEW i \in DOMAIN chunk PROVE chunk[i] \notin WideLetters
    BY DEF AllNarrow
  <2>1. s + i \in DOMAIN text
    BY <1>1 DEF FitsAt
  <2>2. chunk[i] = "." \/ chunk[i] = text[s + i]
    BY DEF FitsAt
  <2> QED
    BY <2>1, <2>2, TextAssumption DEF AllNarrow
<1> QED
  BY <1>2, BytesOfText

Verdicts == {Match, Mismatch, Panic}
Searching == [result : Verdicts, cursor : Nat]

LEMMA VerdictsDiffer == Match # Mismatch /\ Match # Panic /\ Mismatch # Panic
BY DEF Match, Mismatch, Panic

LEMMA FirstFit ==
  ASSUME NEW fits, fits # {}, fits \in SUBSET Nat
  PROVE  Min(fits) \in fits /\ \A k \in fits : Min(fits) <= k
<1>1. \E least \in fits : \A y \in fits : least <= y
  BY LeastElement
<1> QED
  BY <1>1 DEF Min

LEMMA StepType ==
  ASSUME NEW T, NEW text \in Seq(T), NEW st \in Searching, NEW chunk \in Seq(Sign)
  PROVE  Step(text, st, chunk) \in Searching
<1>1. st.result \in Verdicts /\ st.cursor \in Nat /\ Len(text) \in Nat
  BY LenProperties DEF Searching
<1>2. CASE st.result # Match \/ chunk = <<>>
  BY <1>2 DEF Step
<1>3. CASE ~(st.result # Match \/ chunk = <<>>) /\ ~CanSlice(text, st.cursor)
  <2>1. Step(text, st, chunk) = [st EXCEPT !.result = Panic]
    BY <1>3 DEF Step
  <2> QED
    BY <2>1 DEF Searching, Verdicts
<1>4. CASE ~(st.result # Match \/ chunk = <<>>) /\ CanSlice(text, st.cursor)
  <2> DEFINE fits == Fits(SliceFrom(text, st.cursor), chunk)
  <2>1. Step(text, st, chunk) =
          IF fits = {} THEN [st EXCEPT !.result = Mismatch]
          ELSE [st EXCEPT !.cursor = NextCursor(st.cursor, Min(fits), chunk)]
    BY <1>4 DEF Step
  <2>2. fits \in SUBSET Nat
    BY DEF Fits
  <2> HIDE DEF fits
  <2>3. CASE fits = {}
    <3>1. Step(text, st, chunk) = [st EXCEPT !.result = Mismatch]
      BY <2>1, <2>3
    <3> QED
      BY <3>1 DEF Searching, Verdicts
  <2>4. CASE fits # {}
    <3>1. Min(fits) \in Nat /\ Bytes(chunk) \in Nat
      BY <2>2, <2>4, FirstFit, BytesOfText
    <3>2. NextCursor(st.cursor, Min(fits), chunk) \in Nat
      BY <1>1, <3>1 DEF NextCursor
    <3>3. Step(text, st, chunk)
            = [st EXCEPT !.cursor = NextCursor(st.cursor, Min(fits), chunk)]
      BY <2>1, <2>4
    <3> HIDE DEF NextCursor
    <3> QED
      BY <3>2, <3>3 DEF Searching
  <2> QED
    BY <2>3, <2>4
<1> QED
  BY <1>2, <1>3, <1>4

\* How far the search has come: nothing can be placed, or the chunks so far end at the
\* earliest place where they can, which is where the search goes on if the text is plain.
IsAt(pattern, text, n, st, c) ==
  /\ c \in Ends(pattern, text, n)
  /\ \A e \in Ends(pattern, text, n) : c <= e
  /\ AllNarrow(text) => st.cursor = c
  /\ (\A i \in 1 .. n : pattern[i] = <<>>) => c = 0 /\ st.cursor = 0
ComesTo(pattern, text, n, st) ==
  \/ st.result = Mismatch /\ Ends(pattern, text, n) = {}
  \/ st.result = Match /\ \E c \in 0 .. Len(text) : IsAt(pattern, text, n, st, c)

LEMMA StepKeeps ==
  ASSUME NEW text \in Seq(Letters \cup WideLetters), NEW pattern \in Seq(Seq(Sign)),
         NEW n \in Nat, n + 1 <= Len(pattern), NEW st \in Searching,
         ComesTo(pattern, text, n, st),
         \/ AllNarrow(text)
         \/ pattern[n + 1] # <<>> => \A i \in 1 .. n : pattern[i] = <<>>
  PROVE  ComesTo(pattern, text, n + 1, Step(text, st, pattern[n + 1]))
<1> DEFINE chunk == pattern[n + 1]
           after_ == Step(text, st, chunk)
<1>1. /\ Len(text) \in Nat /\ Len(pattern) \in Nat
      /\ chunk \in Seq(Sign) /\ Len(chunk) \in Nat
      /\ st.cursor \in Nat
      /\ n + 1 \in 1 .. n + 1 /\ \A i \in 1 .. n : i \in 1 .. n + 1
  <2>1. Len(text) \in Nat /\ Len(pattern) \in Nat
    BY LenProperties
  <2>2. n + 1 \in 1 .. Len(pattern)
    BY <2>1
  <2>3. chunk \in Seq(Sign)
    BY <2>2, ElementOfSeq
  <2> QED
    BY <2>1, <2>3, LenProperties DEF Searching
<1>2. CASE st.result = Mismatch
  <2>1. Ends(pattern, text, n) = {}
    BY <1>2, VerdictsDiffer DEF ComesTo
  <2>2. Ends(pattern, text, n + 1) = {}
    BY <2>1, EndsComeFrom
  <2>3. after_ = st
    BY <1>2, VerdictsDiffer DEF Step
  <2> QED
    BY <1>2, <2>2, <2>3 DEF ComesTo
<1>3. CASE st.result = Match
  <2>1. PICK c \in 0 .. Len(text) : IsAt(pattern, text, n, st, c)
    BY <1>3, VerdictsDiffer DEF ComesTo
  <2>2. /\ c \in Ends(pattern, text, n) /\ \A e \in Ends(pattern, text, n) : c <= e
        /\ AllNarrow(text) => st.cursor = c
    BY <2>1 DEF IsAt
  <2>3. Ends(pattern, text, n) \in SUBSET Nat /\ Ends(pattern, text, n + 1) \in SUBSET Nat
    BY <1>1, EndsAreNumbers
  <2>4. CASE chunk = <<>>
    <3>1. after_ = st
      BY <2>4 DEF Step
    <3>2. FitsAt(text, chunk, c) /\ Len(chunk) = 0
      BY <2>4 DEF FitsAt
    <3>3. c \in Ends(pattern, text, n + 1)
      <4>1. c + Len(chunk) <= c
        BY <3>2
      <4> QED
        BY <2>2, <3>2, <4>1, EndsGoOn
    <3>4. ASSUME NEW e \in Ends(pattern, text, n + 1) PROVE c <= e
      <4>1. PICK s \in Ends(pattern, text, n) : s + Len(chunk) <= e
        BY EndsComeFrom
      <4> QED
        BY <2>2, <2>3, <3>2, <4>1
    <3>5. (\A i \in 1 .. n + 1 : pattern[i] = <<>>) => c = 0 /\ st.cursor = 0
      BY <1>1, <2>1 DEF IsAt
    <3> QED
      BY <1>3, <2>2, <3>1, <3>3, <3>4, <3>5 DEF ComesTo, IsAt
  <2>5. CASE chunk # <<>>
    <3> DEFINE rest == SubSeq(text, c + 1, Len(text))
               fits == Fits(rest, chunk)
    <3>1. (AllNarrow(text) /\ st.cursor = c) \/ (c = 0 /\ st.cursor = 0)
      BY <2>1, <2>2, <2>5 DEF IsAt
    <3>2. CanSlice(text, st.cursor) /\ SliceFrom(text, st.cursor) = rest
      BY <3>1, SliceIs
    <3>3. /\ Len(rest) = Len(text) - c
          /\ \A k \in 0 .. Len(rest) : FitsAt(rest, chunk, k) <=> FitsAt(text, chunk, c + k)
      BY <1>1, RestIs
    <3>4. after_ = IF fits = {} THEN [st EXCEPT !.result = Mismatch]
                 ELSE [st EXCEPT !.cursor = NextCursor(st.cursor, Min(fits), chunk)]
      BY <1>3, <2>5, <3>2 DEF Step
    <3> HIDE DEF rest
    <3>5. fits = {k \in 0 .. Len(text) - c : FitsAt(text, chunk, c + k)}
      BY <3>3 DEF Fits
    <3> HIDE DEF fits, chunk, after_
    <3>6. ASSUME NEW e \in Ends(pattern, text, n + 1)
          PROVE  \E k \in fits : c + k + Len(chunk) <= e
      <4>1. PICK s \in Ends(pattern, text, n) :
              FitsAt(text, chunk, s) /\ s + Len(chunk) <= e
        BY EndsComeFrom DEF chunk
      <4>2. s \in 0 .. Len(text) /\ c <= s
        BY <2>2, <4>1, EndsAreNumbers
      <4>3. s - c \in 0 .. Len(text) - c /\ c + (s - c) = s
        <5>1. c \in Int /\ Len(text) \in Int
          BY <1>1
        <5> QED
          BY ONLY <4>2, <5>1
      <4>4. s - c \in fits
        BY <3>5, <4>1, <4>3
      <4> QED
        BY <4>1, <4>3, <4>4
    <3>7. CASE fits = {}
      <4>1. after_ = [st EXCEPT !.result = Mismatch]
        BY <3>4, <3>7
      <4>2. after_.result = Mismatch
        BY <4>1 DEF Searching
      <4>3. Ends(pattern, text, n + 1) = {}
        BY <3>6, <3>7
      <4> QED
        BY <4>2, <4>3 DEF ComesTo, after_, chunk
    <3>8. CASE fits # {}
      <4> DEFINE first == Min(fits)
                 end == c + first + Len(chunk)
      <4>1. first \in fits /\ \A k \in fits : first <= k
        <5>1. fits \in SUBSET Nat
          BY <1>1, <3>5
        <5> QED
          BY <3>8, <5>1, FirstFit
      <4> HIDE DEF first
      <4>2. first \in 0 .. Len(text) - c /\ FitsAt(text, chunk, c + first)
        BY <3>5, <4>1
      <4>3. c + first \in 0 .. Len(text) /\ end \in 0 .. Len(text)
        BY <1>1, <4>2 DEF FitsAt
      <4>4. c + first \in Ends(pattern, text, n)
        <5>1. n \in 0 .. Len(pattern) /\ c <= c + first
          <6>1. PICK k, m : k = first /\ m = Len(text)
            OBVIOUS
          <6>2. m \in Nat /\ c \in 0 .. m /\ k \in 0 .. m - c
            BY <1>1, <2>1, <4>2, <6>1
          <6>3. c <= c + k
            BY ONLY <6>2
          <6>4. n \in 0 .. Len(pattern)
            BY <1>1
          <6> QED
            BY <6>1, <6>3, <6>4
        <5> QED
          BY <2>2, <4>3, <5>1, EndsStayEnds
      <4>5. end \in Ends(pattern, text, n + 1)
        <5>1. PICK s, e : s = c + first /\ e = end
          OBVIOUS
        <5>2. s + Len(chunk) <= e /\ e \in 0 .. Len(text)
          BY <1>1, <4>3, <5>1
        <5>3. s \in Ends(pattern, text, n) /\ FitsAt(text, pattern[n + 1], s)
              /\ s + Len(pattern[n + 1]) <= e
          BY <4>2, <4>4, <5>1, <5>2 DEF chunk
        <5>4. e \in Ends(pattern, text, n + 1)
          BY <5>2, <5>3, EndsGoOn
        <5> QED
          BY <5>1, <5>4
      <4>6. ASSUME NEW e \in Ends(pattern, text, n + 1) PROVE end <= e
        <5>1. PICK k \in fits : c + k + Len(chunk) <= e
          BY <3>6
        <5>2. first <= k /\ k \in Nat /\ first \in Nat /\ c \in Nat /\ e \in Nat
          BY <2>3, <3>5, <4>1, <4>2, <5>1
        <5> QED
          BY <1>1, <5>1, <5>2
      <4>7. after_ = [st EXCEPT !.cursor = NextCursor(st.cursor, first, chunk)]
        BY <3>4, <3>8 DEF first
      <4>8. after_.result = Match /\ after_.cursor = NextCursor(st.cursor, first, chunk)
        <5> HIDE DEF NextCursor
        <5> QED
          BY <1>3, <4>7 DEF Searching
      <4>9. ASSUME AllNarrow(text) PROVE after_.cursor = end
        <5>1. Bytes(chunk) = Len(chunk)
          <6>1. c + first \in Nat
            BY <4>3
          <6> QED
            BY <1>1, <4>2, <4>9, <6>1, ChunkIsPlain
        <5> QED
          BY <2>2, <4>8, <4>9, <5>1 DEF NextCursor
      <4>10. ~\A i \in 1 .. n + 1 : pattern[i] = <<>>
        BY <1>1, <2>5 DEF chunk
      <4> HIDE DEF end
      <4>11. IsAt(pattern, text, n + 1, after_, end)
        BY <4>5, <4>6, <4>9, <4>10 DEF IsAt
      <4> QED
        BY <4>3, <4>8, <4>11 DEF ComesTo, after_, chunk
    <3> QED
      BY <3>7, <3>8
  <2> QED
    BY <2>4, <2>5
<1> QED
  BY <1>2, <1>3 DEF ComesTo
--------------------------------------------------------------------------------
(* A pattern, and the alternatives of a query.                             *)

LEMMA PatternIsRun ==
  ASSUME NEW T, NEW text \in Seq(T), NEW pattern \in Seq(Seq(Sign))
  PROVE  \E after \in [0 .. Len(pattern) -> Searching] :
           /\ after[0] = Start
           /\ \A n \in 1 .. Len(pattern) : after[n] = Step(text, after[n - 1], pattern[n])
           /\ Matches(pattern, text) = after[Len(pattern)].result
<1> DEFINE n == Len(pattern)
           step == [i \in 1 .. n |-> [st \in Searching |-> Step(text, st, pattern[i])]]
           Run(f) == f = [i \in 0 .. n |-> IF i = 0 THEN Start
                                           ELSE Step(text, f[i - 1], pattern[i])]
           g == CHOOSE f : Run(f)
<1>1. n \in Nat /\ \A i \in 1 .. n : pattern[i] \in Seq(Sign)
  BY LenProperties, ElementOfSeq
<1>2. Start \in Searching
  BY DEF Start, Searching, Verdicts
<1>3. step \in [1 .. n -> [Searching -> Searching]]
  <2>1. \A i \in 1 .. n : \A st \in Searching : Step(text, st, pattern[i]) \in Searching
    BY <1>1, StepType
  <2> QED
    BY <2>1
<1>4. \A i \in 1 .. n : \A st \in Searching : step[i][st] = Step(text, st, pattern[i])
  OBVIOUS
<1>5. PICK h \in [0 .. n -> Searching] : Follows(h, n, Searching, Start, step)
  <2> HIDE DEF n, step
  <2> QED
    BY <1>1, <1>2, <1>3, RunExists
<1> HIDE DEF n, step
<1>6. \A i \in 1 .. n : i - 1 \in 0 .. n /\ i \in 0 .. n /\ i # 0
  BY <1>1
<1>7. h[0] = Start /\ \A i \in 1 .. n : h[i] = Step(text, h[i - 1], pattern[i])
  BY <1>4, <1>5, <1>6 DEF Follows
<1>8. Run(h)
  <2>1. \A i \in 0 .. n : i = 0 \/ i \in 1 .. n
    BY <1>1
  <2>2. \A i \in 0 .. n : h[i] = IF i = 0 THEN Start ELSE Step(text, h[i - 1], pattern[i])
    BY <1>6, <1>7, <2>1
  <2> QED
    BY <1>5, <2>2
<1>9. Run(g)
  BY <1>8
<1>10. Matches(pattern, text) = g[n].result
  BY DEF Matches, n
<1> HIDE DEF g
<1>11. g[0] = Start /\ \A i \in 1 .. n : g[i] = Step(text, g[i - 1], pattern[i])
  BY <1>1, <1>6, <1>9
<1>12. g \in [0 .. n -> Searching]
  <2>1. DOMAIN g = 0 .. n /\ g = [i \in 0 .. n |-> g[i]]
    BY <1>9
  <2> DEFINE R == {i \in Nat : i <= n => g[i] \in Searching}
  <2>2. 0 \in R
    BY <1>2, <1>11
  <2>3. ASSUME NEW i \in R PROVE i + 1 \in R
    <3>1. CASE i + 1 <= n
      <4>1. i + 1 \in 1 .. n /\ (i + 1) - 1 = i /\ g[i] \in Searching
        BY <1>1, <3>1
      <4>2. g[i + 1] = Step(text, g[i], pattern[i + 1])
        BY <1>11, <4>1
      <4>3. Step(text, g[i], pattern[i + 1]) \in Searching
        BY <1>1, <4>1, StepType
      <4> QED
        BY <4>2, <4>3
    <3>2. CASE ~(i + 1 <= n)
      BY <3>2
    <3> QED
      BY <3>1, <3>2
  <2>4. R = Nat
    <3> HIDE DEF R
    <3>1. R \in SUBSET Nat
      BY DEF R
    <3> QED
      BY <2>2, <2>3, <3>1, Induction
  <2>5. \A i \in 0 .. n : g[i] \in Searching
    <3> TAKE i \in 0 .. n
    <3>1. i \in Nat /\ i <= n
      BY <1>1
    <3>2. i \in R
      <4> HIDE DEF R
      <4> QED
        BY <2>4, <3>1
    <3> QED
      BY <3>1, <3>2
  <2> QED
    BY <2>1, <2>5
<1> QED
  BY <1>10, <1>11, <1>12 DEF n

LEMMA NotFarReaching ==
  ASSUME NEW pattern, Len(pattern) \in Nat, DOMAIN pattern = 1 .. Len(pattern),
         ~FarReaching(pattern), NEW i \in DOMAIN pattern, NEW j \in DOMAIN pattern, i # j,
         pattern[j] # <<>>
  PROVE  pattern[i] = <<>>
<1> DEFINE F == {k \in DOMAIN pattern : pattern[k] # <<>>}
<1> SUFFICES ASSUME pattern[i] # <<>> PROVE FALSE
  OBVIOUS
<1>1. IsFiniteSet(DOMAIN pattern)
  <2>1. 1 \in Int /\ Len(pattern) \in Int
    OBVIOUS
  <2> QED
    BY <2>1, FS_Interval
<1>2. IsFiniteSet(F) /\ {i, j} \in SUBSET F
  BY <1>1, FS_Subset
<1>3. Cardinality({i, j}) <= Cardinality(F)
  BY <1>2, FS_Subset
<1>4. Cardinality({i, j}) = 2
  <2>1. IsFiniteSet({i}) /\ Cardinality({i}) = 1 /\ j \notin {i} /\ {i, j} = {i} \cup {j}
    BY FS_Singleton
  <2>2. Cardinality({i} \cup {j}) = Cardinality({i}) + 1
    BY ONLY <2>1, FS_AddElement
  <2>3. Cardinality({i, j}) = 1 + 1
    BY ONLY <2>1, <2>2
  <2> QED
    BY ONLY <2>3
<1>5. Cardinality(F) \in Nat /\ ~(Cardinality(F) > 1)
  BY <1>2, FS_CardinalityType DEF FarReaching
<1> QED
  BY <1>3, <1>4, <1>5

\* A pattern finds what re.search finds, in plain text or when it has but one chunk.
LEMMA PatternFinds ==
  ASSUME NEW text \in Seq(Letters \cup WideLetters), NEW pattern \in Seq(Seq(Sign)),
         Plain(text) \/ ~FarReaching(pattern)
  PROVE  Matches(pattern, text) = IF ReSearch(pattern, text) THEN Match ELSE Mismatch
<1> DEFINE n == Len(pattern)
<1>1. n \in Nat /\ DOMAIN pattern = 1 .. n /\ Len(text) \in Nat
  BY LenProperties
<1>2. PICK after \in [0 .. n -> Searching] :
        /\ after[0] = Start
        /\ \A i \in 1 .. n : after[i] = Step(text, after[i - 1], pattern[i])
        /\ Matches(pattern, text) = after[n].result
  BY PatternIsRun
<1>3. AllNarrow(text) \/ ~FarReaching(pattern)
  BY BytesOfText DEF Plain
<1> DEFINE R == {i \in Nat : i <= n => ComesTo(pattern, text, i, after[i])}
<1>4. 0 \in R
  <2>1. Ends(pattern, text, 0) = 0 .. Len(text)
    BY <1>1, EndsOfNone
  <2>2. IsAt(pattern, text, 0, Start, 0)
    BY <1>1, <2>1 DEF IsAt, Start
  <2>3. Start.result = Match /\ 0 \in 0 .. Len(text)
    BY <1>1 DEF Start
  <2> QED
    BY <1>2, <2>2, <2>3 DEF ComesTo
<1>5. ASSUME NEW i \in R PROVE i + 1 \in R
  <2> SUFFICES ASSUME i + 1 <= n PROVE ComesTo(pattern, text, i + 1, after[i + 1])
    OBVIOUS
  <2>1. /\ i + 1 \in 1 .. n /\ (i + 1) - 1 = i /\ i \in 0 .. n
        /\ ComesTo(pattern, text, i, after[i])
    BY <1>1
  <2>2. after[i + 1] = Step(text, after[i], pattern[i + 1]) /\ after[i] \in Searching
    BY <1>2, <2>1
  <2>3. AllNarrow(text) \/ (pattern[i + 1] # <<>> => \A j \in 1 .. i : pattern[j] = <<>>)
    <3>1. ASSUME ~FarReaching(pattern), pattern[i + 1] # <<>>, NEW j \in 1 .. i
          PROVE  pattern[j] = <<>>
      <4>1. j \in DOMAIN pattern /\ i + 1 \in DOMAIN pattern /\ j # i + 1
        BY <1>1, <2>1
      <4>2. PICK k : k = i + 1
        OBVIOUS
      <4> QED
        BY <1>1, <3>1, <4>1, <4>2, NotFarReaching
    <3> QED
      BY <1>3, <3>1
  <2>4. ComesTo(pattern, text, i + 1, Step(text, after[i], pattern[i + 1]))
    BY <2>1, <2>2, <2>3, StepKeeps
  <2> QED
    BY <2>2, <2>4
<1>6. R = Nat
  <2> HIDE DEF R
  <2>1. R \in SUBSET Nat
    BY DEF R
  <2> QED
    BY <1>4, <1>5, <2>1, Induction
<1>7. ComesTo(pattern, text, n, after[n])
  BY <1>1, <1>6
<1>8. ReSearch(pattern, text) <=> Ends(pattern, text, n) # {}
  BY SearchFindsEnds
<1> QED
  BY <1>2, <1>7, <1>8 DEF ComesTo, IsAt

LEMMA PatternType ==
  ASSUME NEW T, NEW text \in Seq(T), NEW pattern \in Seq(Seq(Sign))
  PROVE  Matches(pattern, text) \in Verdicts
<1>1. PICK after \in [0 .. Len(pattern) -> Searching] :
        Matches(pattern, text) = after[Len(pattern)].result
  BY PatternIsRun
<1>2. Len(pattern) \in 0 .. Len(pattern)
  BY LenProperties
<1> QED
  BY <1>1, <1>2 DEF Searching

LEMMA QueryIsRun ==
  ASSUME NEW T, NEW text \in Seq(T), NEW patterns \in Seq(Seq(Seq(Sign)))
  PROVE  \E after \in [0 .. Len(patterns) -> Verdicts] :
           /\ after[0] = Mismatch
           /\ \A n \in 1 .. Len(patterns) :
                after[n] = IF after[n - 1] = Mismatch THEN Matches(patterns[n], text)
                           ELSE after[n - 1]
           /\ Searches(patterns, text) = after[Len(patterns)]
<1> DEFINE n == Len(patterns)
           step == [i \in 1 .. n |-> [v \in Verdicts |->
                      IF v = Mismatch THEN Matches(patterns[i], text) ELSE v]]
           Run(f) == f = [i \in 0 .. n |->
                            IF i = 0 THEN Mismatch
                            ELSE IF f[i - 1] = Mismatch THEN Matches(patterns[i], text)
                                 ELSE f[i - 1]]
           g == CHOOSE f : Run(f)
<1>1. n \in Nat /\ \A i \in 1 .. n : patterns[i] \in Seq(Seq(Sign))
  BY LenProperties, ElementOfSeq
<1>2. Mismatch \in Verdicts /\ \A i \in 1 .. n : Matches(patterns[i], text) \in Verdicts
  <2>1. \A i \in 1 .. n : Matches(patterns[i], text) \in Verdicts
    BY <1>1, PatternType
  <2> QED
    BY <2>1 DEF Verdicts
<1>3. step \in [1 .. n -> [Verdicts -> Verdicts]]
  BY <1>2
<1>4. \A i \in 1 .. n : \A v \in Verdicts :
        step[i][v] = IF v = Mismatch THEN Matches(patterns[i], text) ELSE v
  OBVIOUS
<1>5. PICK h \in [0 .. n -> Verdicts] : Follows(h, n, Verdicts, Mismatch, step)
  <2> HIDE DEF n, step
  <2> QED
    BY <1>1, <1>2, <1>3, RunExists
<1> HIDE DEF n, step
<1>6. \A i \in 1 .. n : i - 1 \in 0 .. n /\ i \in 0 .. n /\ i # 0
  BY <1>1
<1>7. /\ h[0] = Mismatch
      /\ \A i \in 1 .. n : h[i] = IF h[i - 1] = Mismatch THEN Matches(patterns[i], text)
                                  ELSE h[i - 1]
  BY <1>4, <1>5, <1>6 DEF Follows
<1>8. Run(h)
  <2>1. \A i \in 0 .. n : i = 0 \/ i \in 1 .. n
    BY <1>1
  <2>2. \A i \in 0 .. n : h[i] = IF i = 0 THEN Mismatch
                                 ELSE IF h[i - 1] = Mismatch THEN Matches(patterns[i], text)
                                      ELSE h[i - 1]
    BY <1>6, <1>7, <2>1
  <2> QED
    BY <1>5, <2>2
<1>9. Run(g)
  BY <1>8
<1>10. Searches(patterns, text) = g[n]
  BY DEF Searches, n
<1> HIDE DEF g
<1>11. /\ g[0] = Mismatch
       /\ \A i \in 1 .. n : g[i] = IF g[i - 1] = Mismatch THEN Matches(patterns[i], text)
                                   ELSE g[i - 1]
  BY <1>1, <1>6, <1>9
<1>12. g \in [0 .. n -> Verdicts]
  <2>1. DOMAIN g = 0 .. n /\ g = [i \in 0 .. n |-> g[i]]
    BY <1>9
  <2> DEFINE R == {i \in Nat : i <= n => g[i] \in Verdicts}
  <2>2. 0 \in R
    BY <1>2, <1>11
  <2>3. ASSUME NEW i \in R PROVE i + 1 \in R
    <3>1. CASE i + 1 <= n
      <4>1. i + 1 \in 1 .. n /\ (i + 1) - 1 = i /\ g[i] \in Verdicts
        BY <1>1, <3>1
      <4>2. g[i + 1] = IF g[i] = Mismatch THEN Matches(patterns[i + 1], text) ELSE g[i]
        BY <1>11, <4>1
      <4>3. g[i + 1] \in Verdicts
        BY <1>2, <4>1, <4>2
      <4> QED
        BY <4>3
    <3>2. CASE ~(i + 1 <= n)
      BY <3>2
    <3> QED
      BY <3>1, <3>2
  <2>4. R = Nat
    <3> HIDE DEF R
    <3>1. R \in SUBSET Nat
      BY DEF R
    <3> QED
      BY <2>2, <2>3, <3>1, Induction
  <2>5. \A i \in 0 .. n : g[i] \in Verdicts
    <3> TAKE i \in 0 .. n
    <3>1. i \in Nat /\ i <= n
      BY <1>1
    <3>2. i \in R
      <4> HIDE DEF R
      <4> QED
        BY <2>4, <3>1
    <3> QED
      BY <3>1, <3>2
  <2> QED
    BY <2>1, <2>5
<1> QED
  BY <1>10, <1>11, <1>12 DEF n

\* A query finds what one of its alternatives finds.
LEMMA QueryFinds ==
  ASSUME NEW text \in Seq(Letters \cup WideLetters), NEW patterns \in Seq(Seq(Seq(Sign)))
  PROVE  FindsTheText(patterns, text, Searches(patterns, text))
<1> SUFFICES ASSUME \A i \in DOMAIN patterns : Plain(text) \/ ~FarReaching(patterns[i])
             PROVE  Searches(patterns, text) =
                      IF \E i \in DOMAIN patterns : ReSearch(patterns[i], text)
                      THEN Match ELSE Mismatch
  BY DEF FindsTheText
<1> DEFINE n == Len(patterns)
           Finds(i) == \E j \in 1 .. i : ReSearch(patterns[j], text)
<1>1. n \in Nat /\ DOMAIN patterns = 1 .. n /\ \A i \in 1 .. n : patterns[i] \in Seq(Seq(Sign))
  BY LenProperties, ElementOfSeq
<1>2. \A i \in 1 .. n : Matches(patterns[i], text)
                          = IF ReSearch(patterns[i], text) THEN Match ELSE Mismatch
  BY <1>1, PatternFinds
<1>3. PICK after \in [0 .. n -> Verdicts] :
        /\ after[0] = Mismatch
        /\ \A i \in 1 .. n : after[i] = IF after[i - 1] = Mismatch
                                        THEN Matches(patterns[i], text) ELSE after[i - 1]
        /\ Searches(patterns, text) = after[n]
  BY QueryIsRun
<1> DEFINE R == {i \in Nat : i <= n => after[i] = IF Finds(i) THEN Match ELSE Mismatch}
<1>4. 0 \in R
  BY <1>3
<1>5. ASSUME NEW i \in R PROVE i + 1 \in R
  <2> SUFFICES ASSUME i + 1 <= n
               PROVE  after[i + 1] = IF Finds(i + 1) THEN Match ELSE Mismatch
    OBVIOUS
  <2>1. /\ i + 1 \in 1 .. n /\ (i + 1) - 1 = i
        /\ after[i] = IF Finds(i) THEN Match ELSE Mismatch
    BY <1>1
  <2>2. after[i + 1] = IF after[i] = Mismatch THEN Matches(patterns[i + 1], text) ELSE after[i]
    BY <1>3, <2>1
  <2>3. Finds(i + 1) <=> Finds(i) \/ ReSearch(patterns[i + 1], text)
    <3>1. \A j \in 1 .. i + 1 : j \in 1 .. i \/ j = i + 1
      OBVIOUS
    <3>2. i + 1 \in 1 .. i + 1 /\ \A j \in 1 .. i : j \in 1 .. i + 1
      OBVIOUS
    <3> QED
      BY <3>1, <3>2
  <2> HIDE DEF Finds
  <2> QED
    BY <1>2, <2>1, <2>2, <2>3, VerdictsDiffer
<1>6. R = Nat
  <2> HIDE DEF R
  <2>1. R \in SUBSET Nat
    BY DEF R
  <2> QED
    BY <1>4, <1>5, <2>1, Induction
<1>7. after[n] = IF Finds(n) THEN Match ELSE Mismatch
  BY <1>1, <1>6
<1> QED
  BY <1>1, <1>3, <1>7
--------------------------------------------------------------------------------
(* A search of a catalog.                                                  *)

LEMMA WrittenIsIndexed ==
  ASSUME NEW tool
  PROVE  WrittenOf(tool) = SearchableText(tool)
BY DEF WrittenOf, SearchableText, SchemaText

LEMMA SpeakingIsScoring ==
  ASSUME NEW catalog, NEW query
  PROVE  Scoring(catalog, query) = Speaking(catalog, Range(query) \ ShortWords)
<1> SUFFICES ASSUME NEW t
             PROVE  Index(t) \cap Tokenise(Range(query)) # {} <=>
                      WrittenOf(t) \cap (Range(query) \ ShortWords) # {}
  BY DEF Scoring, Speaking
<1>1. WrittenOf(t) = SearchableText(t)
  BY WrittenIsIndexed
<1> QED
  BY <1>1 DEF Index, Tokenise

LEMMA CleanToolsAre ==
  ASSUME NEW catalog, NEW t \in catalog \ {c.tool : c \in CheckDiscoverability(catalog)}
  PROVE  /\ \A p \in DOMAIN t.params : t.params[p].doc # <<>>
         /\ t.presentation = "deferred" => HasNamespace(t)
<1>1. IsClean(t)
  <2> SUFFICES ASSUME ~IsClean(t) PROVE FALSE
    OBVIOUS
  <2>1. [tool |-> t, severity |-> "Warn"] \in CheckDiscoverability(catalog)
    BY DEF CheckDiscoverability
  <2>2. [tool |-> t, severity |-> "Warn"].tool = t
    OBVIOUS
  <2> QED
    BY <2>1, <2>2
<1>2. "UndocumentedParameters" \notin Discoverability(t)
      /\ "NoNamespace" \notin Discoverability(t)
  BY <1>1 DEF IsClean
<1>3. Undocumented(t.params) = {}
  BY <1>2 DEF Discoverability
<1>4. ~(~HasNamespace(t) /\ t.presentation = "deferred")
  BY <1>2 DEF Discoverability
<1> QED
  BY <1>3, <1>4 DEF Undocumented

LEMMA CatalogFinds ==
  ASSUME NEW catalog \in Catalogs, NEW query \in Queries, NEW limit \in Limits,
         NEW hits \in Hits(catalog, query, limit)
  PROVE  FindsTheTools(catalog, query, limit, hits, CheckDiscoverability(catalog))
<1> DEFINE words == Range(query) \ ShortWords
           speaking == Speaking(catalog, words)
           complaints == CheckDiscoverability(catalog)
           clean == catalog \ {c.tool : c \in complaints}
<1>1. /\ IsFiniteSet(catalog) /\ limit \in Nat
      /\ \A t \in catalog : t.name \in Seq(Range(t.name))
  BY InstalledAssumption
<1>2. Scoring(catalog, query) = speaking
  BY SpeakingIsScoring
<1>3. speaking \in SUBSET catalog /\ IsFiniteSet(speaking) /\ Cardinality(speaking) \in Nat
  BY <1>1, FS_Subset, FS_CardinalityType DEF Speaking
<1> HIDE DEF words, speaking
<1>4. /\ hits \in SUBSET speaking
      /\ Cardinality(hits) = IF limit < Cardinality(speaking) THEN limit
                             ELSE Cardinality(speaking)
  BY <1>2 DEF Hits
<1>5. Cardinality(hits) <= limit
  BY <1>1, <1>3, <1>4
<1>6. Cardinality(speaking) <= limit => hits = speaking
  BY <1>1, <1>3, <1>4, FS_Subset
<1>7. Cardinality(hits) < limit => hits = speaking
  <2> HAVE Cardinality(hits) < limit
  <2>1. Cardinality(speaking) <= limit
    BY <1>1, <1>3, <1>4
  <2> QED
    BY <1>6, <2>1
<1>8. words = Range(query) => speaking = RegexMatches(catalog, query)
  BY WrittenIsIndexed DEF speaking, Speaking, RegexMatches
<1>9. \A t \in clean : \A p \in DOMAIN t.params : t.params[p].doc # <<>>
  BY CleanToolsAre
<1>10. ASSUME NEW t \in clean \cap Deferred(catalog), Namespace(t) \in words,
              Cardinality(speaking) <= limit
       PROVE  GroupOf(catalog, t) \subseteq hits
  <2> SUFFICES ASSUME NEW u \in GroupOf(catalog, t) PROVE u \in hits
    OBVIOUS
  <2>1. u \in catalog /\ HasNamespace(u) /\ Namespace(u) = Namespace(t)
    BY DEF GroupOf
  <2>2. u.name \in Seq(Range(u.name)) /\ Len(u.name) > 1 /\ Namespace(u) = u.name[1]
    BY <1>1, <2>1 DEF HasNamespace, Namespace
  <2>3. 1 \in DOMAIN u.name
    BY <2>2, LenProperties
  <2>4. Namespace(u) \in Range(u.name)
    BY <2>2, <2>3 DEF Range
  <2>5. Namespace(u) \in WrittenOf(u)
    BY <2>4 DEF WrittenOf
  <2>6. WrittenOf(u) \cap words # {}
    BY <1>10, <2>1, <2>5
  <2>7. u \in speaking
    BY <2>1, <2>6 DEF speaking, Speaking
  <2> QED
    BY <1>6, <1>10, <2>7
<1> HIDE DEF clean
<1> QED
  BY <1>4, <1>5, <1>7, <1>8, <1>9, <1>10 DEF FindsTheTools, words, speaking, clean, complaints

--------------------------------------------------------------------------------
(* A call from a script.                                                   *)

\* What a type accepts can be written as what it is declared to be; and what it refuses
\* cannot, unless the declaration says less than the schema.
LEMMA TypesAreDeclared ==
  ASSUME NEW type, NEW value
  PROVE  /\ MatchesType(type, value) => WritableAs(value, TypescriptType(type))
         /\ type \in SchemaTypes /\ ~MatchesType(type, value) =>
              ~WritableAs(value, TypescriptType(type)) \/ type \in {"integer", "null"}
<1>1. CASE type = "string"
  BY <1>1 DEF MatchesType, WritableAs, TypescriptType
<1>2. CASE type = "integer"
  BY <1>2 DEF MatchesType, WritableAs, TypescriptType
<1>3. CASE type = "number"
  BY <1>3 DEF MatchesType, WritableAs, TypescriptType
<1>4. CASE type = "boolean"
  BY <1>4 DEF MatchesType, WritableAs, TypescriptType
<1>5. CASE type = "array"
  BY <1>5 DEF MatchesType, WritableAs, TypescriptType
<1>6. CASE type = "object"
  BY <1>6 DEF MatchesType, WritableAs, TypescriptType
<1>7. CASE type \notin {"string", "integer", "number", "boolean", "array", "object"}
  <2>1. TypescriptType(type) = "unknown"
    BY <1>7 DEF TypescriptType
  <2>2. WritableAs(value, TypescriptType(type))
    BY <2>1 DEF WritableAs
  <2>3. type \in SchemaTypes => type = "any" \/ type = "null"
    BY <1>7 DEF SchemaTypes
  <2>4. type = "any" => MatchesType(type, value)
    BY DEF MatchesType
  <2> QED
    BY <2>2, <2>3, <2>4
<1> QED
  BY <1>1, <1>2, <1>3, <1>4, <1>5, <1>6, <1>7

LEMMA DeclaredIs ==
  ASSUME NEW tool
  PROVE  /\ DOMAIN Declare(tool).params = DOMAIN tool.params
         /\ \A p \in DOMAIN tool.params :
              /\ Declare(tool).params[p].type = TypescriptType(tool.params[p].spec.type)
              /\ Declare(tool).params[p].optional <=> p \notin tool.required
         /\ SearchableText(tool) \subseteq
              Range(Declare(tool).name) \cup Declare(tool).doc
              \cup DOMAIN Declare(tool).params
<1> DEFINE params == [p \in DOMAIN tool.params |->
                        [type |-> TypescriptType(tool.params[p].spec.type),
                         optional |-> p \notin tool.required]]
<1>1. Declare(tool).params = params /\ Declare(tool).name = tool.name
  BY DEF Declare
<1>2. Declare(tool).doc =
        Range(tool.description)
        \cup UNION {{p} \cup Range(tool.params[p].doc) :
                      p \in DOMAIN tool.params \ Undocumented(tool.params)}
  BY DEF Declare
<1>3. \A p \in Undocumented(tool.params) : Range(tool.params[p].doc) = {}
  BY DEF Undocumented, Range
<1>4. SearchableText(tool) \subseteq
        Range(Declare(tool).name) \cup Declare(tool).doc \cup DOMAIN Declare(tool).params
  <2> SUFFICES ASSUME NEW w \in SearchableText(tool)
               PROVE  w \in Range(tool.name) \cup Declare(tool).doc \cup DOMAIN tool.params
    BY <1>1
  <2>1. CASE w \in Range(tool.name) \cup Range(tool.description)
    BY <1>2, <2>1
  <2>2. CASE w \in SchemaText(tool.params)
    <3>1. PICK p \in DOMAIN tool.params : w = p \/ w \in Range(tool.params[p].doc)
      BY <2>2 DEF SchemaText
    <3> QED
      BY <1>2, <1>3, <3>1
  <2> QED
    BY <2>1, <2>2 DEF SearchableText
<1>5. DOMAIN params = DOMAIN tool.params
  OBVIOUS
<1>6. ASSUME NEW p \in DOMAIN tool.params
      PROVE  /\ params[p].type = TypescriptType(tool.params[p].spec.type)
             /\ params[p].optional <=> p \notin tool.required
  OBVIOUS
<1> HIDE DEF params
<1> QED
  BY <1>1, <1>4, <1>5, <1>6

LEMMA CheckIs ==
  ASSUME NEW tool, NEW args
  PROVE  CheckArguments(InputSchema(tool), Object(args)) <=>
           /\ \A name \in tool.required : name \in DOMAIN args /\ args[name] # Null
           /\ \A name \in DOMAIN args \cap DOMAIN tool.params :
                args[name] # Null =>
                  /\ MatchesType(tool.params[name].spec.type, args[name])
                  /\ tool.params[name].spec.restricted =>
                       args[name] \in tool.params[name].spec.choices
<1> DEFINE schema == InputSchema(tool)
           specs == [p \in DOMAIN tool.params |-> tool.params[p].spec]
<1>1. /\ schema.required = tool.required /\ schema.properties = specs
      /\ schema.declares = TRUE /\ schema.closed = FALSE
  BY DEF InputSchema, ObjectSchema
<1>2. Object(args).type = "object" /\ Object(args).fields = args
  BY DEF Object
<1> HIDE DEF schema
<1>3. CheckArguments(schema, Object(args)) <=>
        /\ \A name \in tool.required : ~MissingIn(args, name)
        /\ \A name \in DOMAIN args \cap DOMAIN specs :
             args[name] # Null =>
               /\ MatchesType(specs[name].type, args[name])
               /\ specs[name].restricted => args[name] \in specs[name].choices
  <2> HIDE DEF specs
  <2> QED
    BY <1>1, <1>2 DEF CheckArguments
<1> QED
  BY <1>3 DEF schema, MissingIn

LEMMA ScriptsAreTold ==
  ASSUME NEW catalog \in Catalogs, NEW tool \in catalog, NEW named \in SUBSET DOMAIN tool.params,
         NEW args \in [named -> Values]
  PROVE  LET declared == Declare(tool).params
             accepted == CheckArguments(InputSchema(tool), Object(args))
         IN  /\ accepted => MayBeWritten(declared, args)
             /\ ~accepted => IsRefused(tool, declared, args)
<1> DEFINE declared == Declare(tool).params
           accepted == CheckArguments(InputSchema(tool), Object(args))
           there == {p \in DOMAIN args : args[p] # Null}
           type(p) == tool.params[p].spec.type
<1>1. DOMAIN args = named /\ named \cap DOMAIN tool.params = named
  OBVIOUS
<1>2. /\ DOMAIN declared = DOMAIN tool.params
      /\ \A p \in DOMAIN tool.params :
           /\ declared[p].type = TypescriptType(type(p))
           /\ declared[p].optional <=> p \notin tool.required
  BY DeclaredIs
<1>3. accepted <=>
        /\ \A name \in tool.required : name \in there
        /\ \A name \in there : /\ MatchesType(type(name), args[name])
                               /\ tool.params[name].spec.restricted =>
                                    args[name] \in tool.params[name].spec.choices
  BY <1>1, CheckIs
<1>4. \A p \in DOMAIN tool.params : type(p) \in SchemaTypes
  BY InstalledAssumption
<1>5. there \subseteq DOMAIN tool.params
  BY <1>1
<1> HIDE DEF declared, accepted, there, type
<1>6. accepted => MayBeWritten(declared, args)
  <2> HAVE accepted
  <2>1. \A p \in there : WritableAs(args[p], declared[p].type)
    BY <1>2, <1>3, <1>5, TypesAreDeclared
  <2>2. \A p \in DOMAIN declared \ there : declared[p].optional
    BY <1>2, <1>3
  <2> QED
    BY <2>1, <2>2 DEF MayBeWritten, there
<1>7. ~accepted => IsRefused(tool, declared, args)
  <2> HAVE ~accepted
  <2>1. CASE \E name \in tool.required : name \notin there
    <3>1. PICK name \in tool.required : name \notin there
      BY <2>1
    <3>2. CASE name \in DOMAIN declared
      <4>1. name \in DOMAIN declared \ there /\ ~declared[name].optional
        BY <1>2, <3>1, <3>2
      <4> QED
        BY <4>1 DEF IsRefused, there
    <3>3. CASE name \notin DOMAIN declared
      BY <3>1, <3>3 DEF IsRefused
    <3> QED
      BY <3>2, <3>3
  <2>2. CASE \E name \in there : ~MatchesType(type(name), args[name])
    <3>1. PICK name \in there : ~MatchesType(type(name), args[name])
      BY <2>2
    <3>2. ~WritableAs(args[name], declared[name].type) \/ type(name) \in {"integer", "null"}
      BY <1>2, <1>4, <1>5, <3>1, TypesAreDeclared
    <3> QED
      BY <3>1, <3>2 DEF IsRefused, there, type
  <2>3. CASE \E name \in there : tool.params[name].spec.restricted
    BY <2>3 DEF IsRefused, there
  <2> QED
    BY <1>3, <2>1, <2>2, <2>3
<1> QED
  BY <1>6, <1>7 DEF declared, accepted

--------------------------------------------------------------------------------
(* The answers given stand.                                                *)

LookupInv == SearchFindsWhatIsThere /\ DeclarationsTellTheTruth

LEMMA LookupStep == LookupInv /\ [LookupNext]_decisionsVars => LookupInv'
<1> SUFFICES ASSUME LookupInv, [LookupNext]_decisionsVars PROVE LookupInv'
  OBVIOUS
<1>1. ASSUME NEW patterns \in Patterns, NEW text \in Texts, Find(patterns, text)
      PROVE  LookupInv'
  <2>1. text \in Seq(Letters \cup WideLetters) /\ patterns \in Seq(Seq(Seq(Sign)))
    BY TextAssumption DEF Sign
  <2>2. FindsTheText(patterns, text, Searches(patterns, text))
    BY <2>1, QueryFinds
  <2>3. /\ asked'.about = "pattern" /\ asked'.pattern = patterns /\ asked'.text = text
        /\ asked'.result = Searches(patterns, text)
    BY <1>1 DEF Find
  <2> QED
    BY <2>2, <2>3 DEF LookupInv, SearchFindsWhatIsThere, DeclarationsTellTheTruth
<1>2. ASSUME NEW catalog \in Catalogs, NEW query \in Queries, NEW limit \in Limits,
             SearchFor(catalog, query, limit)
      PROVE  LookupInv'
  <2>1. PICK hits \in Hits(catalog, query, limit) :
          asked' = [about |-> "catalog", catalog |-> catalog, query |-> query,
                    limit |-> limit, hits |-> hits,
                    complaints |-> CheckDiscoverability(catalog)]
    BY <1>2 DEF SearchFor
  <2>2. FindsTheTools(catalog, query, limit, hits, CheckDiscoverability(catalog))
    BY CatalogFinds
  <2>3. /\ asked'.about = "catalog" /\ asked'.catalog = catalog /\ asked'.query = query
        /\ asked'.limit = limit /\ asked'.hits = hits
        /\ asked'.complaints = CheckDiscoverability(catalog)
    BY <2>1
  <2> QED
    BY <2>2, <2>3 DEF LookupInv, SearchFindsWhatIsThere, DeclarationsTellTheTruth
<1>3. ASSUME NEW tool \in UNION Catalogs, NEW named \in SUBSET DOMAIN tool.params,
             NEW args \in [named -> Values], CallFromScript(tool, args)
      PROVE  LookupInv'
  <2> DEFINE accepted_ == CheckArguments(InputSchema(tool), Object(args))
  <2>1. PICK catalog \in Catalogs : tool \in catalog
    OBVIOUS
  <2>2. /\ accepted_ => MayBeWritten(Declare(tool).params, args)
        /\ ~accepted_ => IsRefused(tool, Declare(tool).params, args)
    BY <2>1, ScriptsAreTold
  <2>3. SearchableText(tool) \subseteq
          Range(Declare(tool).name) \cup Declare(tool).doc \cup DOMAIN Declare(tool).params
    BY DeclaredIs
  <2> HIDE DEF accepted_
  <2>4. /\ asked'.about = "script" /\ asked'.tool = tool /\ asked'.args = args
        /\ asked'.declared = Declare(tool) /\ (asked'.accepted <=> accepted_)
    BY <1>3 DEF CallFromScript, accepted_
  <2> QED
    BY <2>2, <2>3, <2>4 DEF LookupInv, SearchFindsWhatIsThere, DeclarationsTellTheTruth
<1>4. CASE UNCHANGED decisionsVars
  BY <1>4 DEF LookupInv, SearchFindsWhatIsThere, DeclarationsTellTheTruth, decisionsVars
<1> QED
  BY <1>1, <1>2, <1>3, <1>4 DEF LookupNext

LEMMA LookupInvHolds == LookupSpec => []LookupInv
<1>1. DecisionsInit => LookupInv
  BY DEF DecisionsInit, Nothing, LookupInv, SearchFindsWhatIsThere, DeclarationsTellTheTruth
<1> QED
  BY <1>1, LookupStep, PTL DEF LookupSpec

\* What a search tells of is there, and what is there is told: a query finds in plain text
\* what Python's re.search would find (frey-context/src/search.rs), and a search of the
\* catalog hides nothing that a limit does not hide.
THEOREM SearchesAreTrue == LookupSpec => []SearchFindsWhatIsThere
<1>1. LookupInv => SearchFindsWhatIsThere
  BY DEF LookupInv
<1> QED
  BY <1>1, LookupInvHolds, PTL

\* What a script is told of a tool is what the tool accepts (frey-context/src/codemode.rs,
\* frey-core/src/validate.rs), whatever its schema and the arguments.
THEOREM DeclarationsAreTrue == LookupSpec => []DeclarationsTellTheTruth
<1>1. LookupInv => DeclarationsTellTheTruth
  BY DEF LookupInv
<1> QED
  BY <1>1, LookupInvHolds, PTL
================================================================================
