--------------------------------- MODULE Schema --------------------------------
(***************************************************************************)
(* Checking a model's arguments against a tool's schema before the tool    *)
(* sees them (frey-core/src/validate.rs), over the subset of JSON Schema   *)
(* that the code reads.                                                    *)
(*                                                                         *)
(* A JSON value is its type and, where the keyword "enum" could tell two   *)
(* apart, which one it is.  An integral number may be written 3 or 3.0.    *)
(* Only the guidance that a refusal carries is left out.                   *)
(***************************************************************************)
EXTENDS Functions

Json(type, is) == [type |-> type, is |-> is, fields |-> <<>>]
Object(fields) == [type |-> "object", is |-> "object", fields |-> fields]
Null == Json("null", "null")

\* What a schema says of one property: a type keyword, "any" where it has none or one
\* the code does not know, and the values it is restricted to, if it is.
Property(type, restricted, choices) ==
  [type |-> type, restricted |-> restricted, choices |-> choices]

\* A schema: whether it has "properties", what they say, and which names are required.
ObjectSchema(properties, required, closed) ==
  [declares |-> TRUE, properties |-> properties, required |-> required, closed |-> closed]

\* matches_type
MatchesType(expected, value) ==
  CASE expected = "any" -> TRUE
    [] expected = "number" -> value.type \in {"integer", "fraction"}
    [] OTHER -> value.type = expected

\* Fault: a field that is there counts, even as null.
AbsentFrom(fields, name) == name \notin DOMAIN fields
MissingIn(fields, name) == name \notin DOMAIN fields \/ fields[name] = Null

\* check_arguments: TRUE, or refused with InvalidArgs.
CheckArguments(schema, args) ==
  LET fields == args.fields IN
  IF args.type # "object" THEN args = Null /\ schema.required = {}
  ELSE /\ \A name \in schema.required : ~MissingIn(fields, name)
       /\ schema.declares =>
            /\ schema.closed => DOMAIN fields \subseteq DOMAIN schema.properties
            /\ \A name \in DOMAIN fields \cap DOMAIN schema.properties :
                 LET spec == schema.properties[name] IN
                 fields[name] # Null =>
                   /\ MatchesType(spec.type, fields[name])
                   /\ spec.restricted => fields[name] \in spec.choices
================================================================================
