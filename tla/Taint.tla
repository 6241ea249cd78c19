---------------------------------- MODULE Taint --------------------------------
(***************************************************************************)
(* Information-flow labels (frey-core/src/taint.rs) and the trail that     *)
(* records every step against them (frey-core/src/audit.rs).               *)
(*                                                                         *)
(* A value is its label and its provenance; what the value is plays no     *)
(* part.  The stages a value went through are a set where the code keeps   *)
(* them in order, and so are the events of a trail and the origin of an    *)
(* event, which the code renders as "a -> b".  "sources" and "unheard" are *)
(* histories: what a value was made from, and the origins of crossings     *)
(* that no sink was installed to hear.                                     *)
(*                                                                         *)
(* A scoped sink is installed in the slot of a thread.  Its guard may be   *)
(* sent to another thread and guards may be dropped in any order.          *)
(***************************************************************************)
EXTENDS Naturals, FiniteSets

CONSTANTS
  Outside,      \* names of tools, peers and models
  Operators,    \* what the operator wrote
  Vaults,       \* secret-scoped capabilities
  Validators,   \* parsers that raise integrity
  Sinks,        \* memory sinks somebody reads
  Threads,
  NoSink,       \* an empty slot
  MaxValues,    \* bound: values alive
  MaxGuards,    \* bound: guards ever made
  MaxMade       \* bound: values and guards together

ASSUME TaintAssumption == NoSink \notin Sinks

VARIABLES
  values,    \* every labelled value made so far: values can be cloned
  slot,      \* LOCAL_SINK, one per thread
  globalSink, \* GLOBAL_SINK
  guards,    \* the guards alive, each with the slot's previous content
  made,      \* how many guards were made
  trail,     \* what each sink has recorded
  unheard

taintVars == <<values, slot, globalSink, guards, made, trail, unheard>>
--------------------------------------------------------------------------------
Origins == Outside \cup Operators \cup Vaults \cup Validators
Integrity == {"Low", "High"}
Confidentiality == {"Public", "Secret"}
Source == [name : Origins, integrity : Integrity, confidentiality : Confidentiality]

Tainted ==
  [integrity : Integrity, confidentiality : Confidentiality,
   origin : Origins, via : SUBSET Origins, sources : SUBSET Source]

AuditEvent == [kind : {"Endorsed", "Declassified"}, origin : SUBSET Origins]

\* Mixing is never more trusted or less confidential than the worst part.
Meet(a, b) == IF a = "High" /\ b = "High" THEN "High" ELSE "Low"
Join(a, b) == IF a = "Public" /\ b = "Public" THEN "Public" ELSE "Secret"

\* Provenance::merge keeps both stories, Provenance::summary tells all of one.
Summary(v) == {v.origin} \cup v.via
\* Fault: where the second part came from is forgotten.
MergedViaOwn(a, b) == a.via
MergedVia(a, b) == a.via \cup {b.origin} \cup b.via

Fresh(name, integrity, confidentiality) ==
  [integrity |-> integrity, confidentiality |-> confidentiality,
   origin |-> name, via |-> {},
   sources |-> {[name |-> name, integrity |-> integrity,
                 confidentiality |-> confidentiality]}]

Zipped(a, b) ==
  [integrity |-> Meet(a.integrity, b.integrity),
   confidentiality |-> Join(a.confidentiality, b.confidentiality),
   origin |-> a.origin, via |-> MergedVia(a, b),
   sources |-> a.sources \cup b.sources]

TaintInit ==
  /\ values = {}
  /\ slot = [t \in Threads |-> NoSink]
  /\ globalSink = NoSink
  /\ guards = {}
  /\ made = 0
  /\ trail = [s \in Sinks |-> {}]
  /\ unheard = {}

Made(v) ==
  /\ Cardinality(values) < MaxValues
  /\ Cardinality(values) + made < MaxMade
  /\ values' = values \cup {v}

\* Fault: only the scoped sink is asked.
InScopeLocal(t) == slot[t]
InScope(t) == IF slot[t] # NoSink THEN slot[t] ELSE globalSink

\* audit::record: the sink of this thread first, else the global one, else nobody.
Record(t, kind, v) ==
  LET sink == InScope(t) IN
  IF sink = NoSink
  THEN unheard' = unheard \cup Summary(v) /\ trail' = trail
  ELSE /\ trail' = [trail EXCEPT ![sink] = @ \cup {[kind |-> kind, origin |-> Summary(v)]}]
       /\ unheard' = unheard

QuietlyMade(v) == Made(v) /\ UNCHANGED <<slot, globalSink, guards, made, trail, unheard>>

\* from_tool, from_peer, from_model
FromOutside(name) == QuietlyMade(Fresh(name, "Low", "Public"))
FromOperator(name) == QuietlyMade(Fresh(name, "High", "Public"))
\* with_provenance, at the label the capability that was read from gives
FromVault(name, integrity) == QuietlyMade(Fresh(name, integrity, "Secret"))

Combine(a, b) == QuietlyMade(Zipped(a, b))

\* through: another stage, the label stays.
Through(v, stage) == QuietlyMade([v EXCEPT !.via = @ \cup {stage}])

Downgrade(v, integrity, confidentiality) ==
  /\ Meet(v.integrity, integrity) = integrity
  /\ Join(v.confidentiality, confidentiality) = confidentiality
  /\ QuietlyMade([v EXCEPT !.integrity = integrity, !.confidentiality = confidentiality])

Endorse(t, v) ==
  /\ v.integrity = "Low"
  /\ Record(t, "Endorsed", v)
  /\ Made([v EXCEPT !.integrity = "High"])
  /\ UNCHANGED <<slot, globalSink, guards, made>>

Declassify(t, v) ==
  /\ v.confidentiality = "Secret"
  /\ Record(t, "Declassified", v)
  /\ Made([v EXCEPT !.confidentiality = "Public"])
  /\ UNCHANGED <<slot, globalSink, guards, made>>

\* A validator that accepts raises integrity, whatever it was; one that rejects gives
\* an error, records nothing and makes no value.
Validate(t, v, validator) ==
  /\ Record(t, "Endorsed", v)
  /\ Made([v EXCEPT !.integrity = "High", !.via = @ \cup {validator}])
  /\ UNCHANGED <<slot, globalSink, guards, made>>

\* Only the first call takes effect.
SetGlobalSink(s) ==
  /\ globalSink = NoSink
  /\ globalSink' = s
  /\ UNCHANGED <<values, slot, guards, made, trail, unheard>>

ScopedSink(t, s) ==
  /\ made < MaxGuards
  /\ Cardinality(values) + made < MaxMade
  /\ guards' = guards \cup {[id |-> made, previous |-> slot[t]]}
  /\ made' = made + 1
  /\ slot' = [slot EXCEPT ![t] = s]
  /\ UNCHANGED <<values, globalSink, trail, unheard>>

DropGuard(t, guard) ==
  /\ guards' = guards \ {guard}
  /\ slot' = [slot EXCEPT ![t] = guard.previous]
  /\ UNCHANGED <<values, globalSink, made, trail, unheard>>

TaintNext ==
  \/ \E name \in Outside : FromOutside(name)
  \/ \E name \in Operators : FromOperator(name)
  \/ \E name \in Vaults, integrity \in Integrity : FromVault(name, integrity)
  \/ \E a, b \in values : Combine(a, b)
  \/ \E v \in values :
       \/ \E stage \in Outside : Through(v, stage)
       \/ \E i \in Integrity, c \in Confidentiality : Downgrade(v, i, c)
       \/ \E t \in Threads :
            \/ Endorse(t, v)
            \/ Declassify(t, v)
            \/ \E validator \in Validators : Validate(t, v, validator)
  \/ \E s \in Sinks : SetGlobalSink(s) \/ \E t \in Threads : ScopedSink(t, s)
  \/ \E t \in Threads, guard \in guards : DropGuard(t, guard)

TaintSpec == TaintInit /\ [][TaintNext]_taintVars
--------------------------------------------------------------------------------
TaintTypeOK ==
  /\ values \subseteq Tainted
  /\ slot \in [Threads -> Sinks \cup {NoSink}]
  /\ globalSink \in Sinks \cup {NoSink}
  /\ \A guard \in guards : guard.previous \in Sinks \cup {NoSink}
  /\ trail \in [Sinks -> SUBSET AuditEvent]
  /\ unheard \subseteq Origins

Heard(kind, name) ==
  \/ \E s \in Sinks : \E e \in trail[s] : e.kind = kind /\ name \in e.origin
  \/ name \in unheard

\* "Moving in the unsafe direction requires endorse or declassify, both of which
\* write to the audit trail": behind every value that may be acted on, each untrusted
\* thing that went into it, through any mixture, is named by an endorsement, and each
\* secret behind a releasable value by a declassification.
NothingIsLaundered ==
  \A v \in values : \A source \in v.sources :
    /\ v.integrity = "High" /\ source.integrity = "Low" => Heard("Endorsed", source.name)
    /\ v.confidentiality = "Public" /\ source.confidentiality = "Secret" =>
         Heard("Declassified", source.name)

\* Once the operator has installed a sink for the process, no crossing goes unheard,
\* whatever scopes are opened and closed on whatever threads.
TrailIsComplete == [][globalSink # NoSink => unheard' = unheard]_taintVars
================================================================================
