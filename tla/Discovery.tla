-------------------------------- MODULE Discovery ------------------------------
(***************************************************************************)
(* How a tool that is not in the prompt is found: what a search indexes of *)
(* a definition (frey-core/src/tool_def.rs, frey-context/src/search.rs),   *)
(* what is reported as hard to find (tool_def.rs, frey-tools/src/          *)
(* registry.rs, frey-harness/src/doctor.rs), and the typed declaration it  *)
(* is given for scripts (frey-context/src/codemode.rs).                    *)
(*                                                                         *)
(* Text is a sequence of words, none of which is part of another, and a    *)
(* tool name is its segments, so splitting at what is not a letter leaves  *)
(* the words.  A score says which words of a query a tool has; how a hit   *)
(* ranks among the others is left open, and a limit may keep any of them.  *)
(***************************************************************************)
EXTENDS Naturals, Schema, Sequences, SequencesExt, FiniteSets

CONSTANT ShortWords   \* words of one byte

\* MIN_DESCRIPTION_WORDS
MinDescriptionWords == 6

\* A parameter: its documentation and what the schema says of it.
Param(doc, spec) == [doc |-> doc, spec |-> spec]

\* ToolDefinition, as far as finding and declaring it goes.
Definition(name, description, params, required, presentation) ==
  [name |-> name, description |-> description, params |-> params, required |-> required,
   presentation |-> presentation]

\* JsonSchema::searchable_text, ToolDefinition::searchable_text
SchemaText(params) == UNION {{p} \cup Range(params[p].doc) : p \in DOMAIN params}
SearchableText(tool) ==
  Range(tool.name) \cup Range(tool.description) \cup SchemaText(tool.params)

\* tokenise drops what is one byte long, of a definition and of a query.
Tokenise(words) == words \ ShortWords
Index(tool) == Tokenise(SearchableText(tool))

\* Bm25Search::search: what shares a term scores above zero, since idf is the logarithm
\* of more than one; no more than the limit are told.
Scoring(catalog, query) ==
  {t \in catalog : Index(t) \cap Tokenise(Range(query)) # {}}
Hits(catalog, query, limit) ==
  LET scoring == Scoring(catalog, query)
      size == Cardinality(scoring)
  IN  {hits \in SUBSET scoring : Cardinality(hits) = IF limit < size THEN limit ELSE size}

\* RegexSearch::search for one of several plain words, which is looked for as it stands.
RegexMatches(catalog, query) ==
  {t \in catalog : SearchableText(t) \cap Range(query) # {}}
--------------------------------------------------------------------------------
\* ToolDefinition::namespace: a name of one segment has none.
HasNamespace(tool) == Len(tool.name) > 1
Namespace(tool) == tool.name[1]

\* JsonSchema::undocumented_properties
Undocumented(params) == {p \in DOMAIN params : params[p].doc = <<>>}

\* ToolDefinition::discoverability
Discoverability(tool) ==
  {problem \in {"NoDescription", "ThinDescription", "UndocumentedParameters", "NoNamespace"} :
     CASE problem = "NoDescription" -> tool.description = <<>>
       [] problem = "ThinDescription" ->
            Len(tool.description) \in 1 .. MinDescriptionWords - 1
       [] problem = "UndocumentedParameters" -> Undocumented(tool.params) # {}
       [] OTHER -> ~HasNamespace(tool) /\ tool.presentation = "deferred"}
IsClean(tool) == Discoverability(tool) = {}

\* check_discoverability; ToolRegistry::discoverability_problems reports the same.
CheckDiscoverability(catalog) ==
  {[tool |-> t, severity |-> "Warn"] : t \in {u \in catalog : ~IsClean(u)}}

\* ToolRegistry::deferred
Deferred(catalog) == {t \in catalog : t.presentation = "deferred"}
--------------------------------------------------------------------------------
\* Fault: a type that is not one of the simple ones is taken for text.
TypescriptTypeGuess(type) ==
  CASE type \in {"integer", "number", "fraction"} -> "number"
    [] type = "boolean" -> "boolean" [] type = "array" -> "unknown[]"
    [] type = "object" -> "Record" [] OTHER -> "string"
\* typescript_type: a union, or a type that is not given, is not guessed.
TypescriptType(type) ==
  CASE type = "string" -> "string"
    [] type \in {"integer", "number"} -> "number"
    [] type = "boolean" -> "boolean"
    [] type = "array" -> "unknown[]"
    [] type = "object" -> "Record"
    [] OTHER -> "unknown"

\* properties, documented_properties, declare
Declare(tool) ==
  [name   |-> tool.name,
   doc    |-> Range(tool.description)
              \cup UNION {{p} \cup Range(tool.params[p].doc) :
                            p \in DOMAIN tool.params \ Undocumented(tool.params)},
   params |-> [p \in DOMAIN tool.params |->
                 [type |-> TypescriptType(tool.params[p].spec.type),
                  optional |-> p \notin tool.required]]]

\* The schema that the arguments of a call are checked against.
InputSchema(tool) ==
  ObjectSchema([p \in DOMAIN tool.params |-> tool.params[p].spec], tool.required, FALSE)
================================================================================
