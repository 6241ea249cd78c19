--------------------------------- MODULE Lookup --------------------------------
(***************************************************************************)
(* How a capability is found and used, asked one question at a time over   *)
(* bounded inputs: does this pattern find that text, which tools does a    *)
(* search tell of (frey-context/src/search.rs), and what is a script told  *)
(* of a tool (frey-context/src/codemode.rs).                               *)
(***************************************************************************)
EXTENDS Admission, Search, Discovery

CONSTANTS
  Patterns,   \* queries,
  Texts,      \* and what they are matched against
  Catalogs,   \* tools that may be installed,
  Queries,    \* what they are searched for,
  Limits,     \* how many are wanted at most,
  Values      \* and the JSON values an argument may be given

\* What a schema may say of a type, "any" standing for what the code does not know.
SchemaTypes ==
  {"any", "null", "boolean", "integer", "number", "string", "array", "object"}

ASSUME TextAssumption ==
  /\ "." \notin WideLetters /\ Texts \subseteq Seq(Letters \cup WideLetters)
  /\ Patterns \subseteq Seq(Seq(Seq(Letters \cup WideLetters \cup {"."})))
ASSUME InstalledAssumption ==
  /\ Limits \subseteq Nat
  /\ \A catalog \in Catalogs :
       /\ IsFiniteSet(catalog)
       /\ \A t \in catalog :
            /\ t.name \in Seq(Range(t.name))
            /\ \A p \in DOMAIN t.params : t.params[p].spec.type \in SchemaTypes
--------------------------------------------------------------------------------
Find(pattern, text) ==
  asked' = [about |-> "pattern", pattern |-> pattern, text |-> text,
            result |-> Searches(pattern, text)]

SearchFor(catalog, query, limit) ==
  \E hits \in Hits(catalog, query, limit) :
    asked' = [about |-> "catalog", catalog |-> catalog, query |-> query, limit |-> limit,
              hits |-> hits, complaints |-> CheckDiscoverability(catalog)]

CallFromScript(tool, args) ==
  asked' = [about |-> "script", tool |-> tool, args |-> args, declared |-> Declare(tool),
            accepted |-> CheckArguments(InputSchema(tool), Object(args))]

LookupNext ==
  /\ asked = Nothing
  /\ \/ \E pattern \in Patterns, text \in Texts : Find(pattern, text)
     \/ \E catalog \in Catalogs, query \in Queries, limit \in Limits :
          SearchFor(catalog, query, limit)
     \/ \E tool \in UNION Catalogs :
          \E given \in SUBSET DOMAIN tool.params : \E args \in [given -> Values] :
            CallFromScript(tool, args)

LookupSpec == DecisionsInit /\ [][LookupNext]_decisionsVars
--------------------------------------------------------------------------------
FarReaching(pattern) == Cardinality({i \in DOMAIN pattern : pattern[i] # <<>>}) > 1
Plain(text) == Bytes(text) = Len(text)
WrittenOf(tool) ==
  Range(tool.name) \cup Range(tool.description) \cup DOMAIN tool.params
  \cup UNION {Range(tool.params[p].doc) : p \in DOMAIN tool.params}


\* What matches the code: any alternative finds something.
FindsTheText(patterns, text, result) ==
  \/ ~Plain(text) /\ \E i \in DOMAIN patterns : FarReaching(patterns[i])
  \/ result = IF \E i \in DOMAIN patterns : ReSearch(patterns[i], text)
              THEN Match ELSE Mismatch

\* What a search of a catalog tells of, and what is complained of.
Speaking(catalog, words) == {t \in catalog : WrittenOf(t) \cap words # {}}
GroupOf(catalog, tool) ==
  {u \in catalog : HasNamespace(u) /\ Namespace(u) = Namespace(tool)}
FindsTheTools(catalog, query, limit, hits, complaints) ==
  LET words    == Range(query) \ ShortWords
      speaking == Speaking(catalog, words)
      clean    == catalog \ {c.tool : c \in complaints}
  IN  /\ hits \subseteq speaking
      /\ Cardinality(hits) <= limit
      /\ Cardinality(hits) < limit => hits = speaking
      /\ words = Range(query) => speaking = RegexMatches(catalog, query)
      /\ \A t \in clean : \A p \in DOMAIN t.params : t.params[p].doc # <<>>
      /\ \A t \in clean \cap Deferred(catalog) :
           Namespace(t) \in words /\ Cardinality(speaking) <= limit =>
             GroupOf(catalog, t) \subseteq hits

\* "RegexSearch mirrors the provider-native regex variant down to its limits - Python
\* re.search semantics": a query finds what re.search finds, and nothing else.  (A chunk
\* after the first is looked for at the wrong place, or not at all, in text that is not
\* plain ASCII: see Search.)
\*
\* "Everything a tool search would index: name, description, argument names, and argument
\* descriptions", and "one search can match a whole service's tools": a search tells of
\* nothing that does not speak of what was asked, a limit that is not reached hides
\* nothing, the two searches agree; and a deferred tool that is not complained of can be
\* found by anything its author wrote of it and together with the rest of its group.
\* (A group whose prefix is one byte cannot: see Discovery.)
SearchFindsWhatIsThere ==
  /\ asked.about = "pattern" => FindsTheText(asked.pattern, asked.text, asked.result)
  /\ asked.about = "catalog" =>
       FindsTheTools(asked.catalog, asked.query, asked.limit, asked.hits, asked.complaints)

WritableAs(value, type) ==
  CASE type = "unknown" -> TRUE
    [] type = "number" -> value.type \in {"integer", "fraction"}
    [] type = "unknown[]" -> value.type = "array"
    [] type = "Record" -> value.type = "object"
    [] OTHER -> value.type = type

\* What is accepted could be written, and what is refused could be known to be.
MayBeWritten(declared, args) ==
  LET there == {p \in DOMAIN args : args[p] # Null} IN
  /\ \A p \in there : WritableAs(args[p], declared[p].type)
  /\ \A p \in DOMAIN declared \ there : declared[p].optional
IsRefused(tool, declared, args) ==
  LET there == {p \in DOMAIN args : args[p] # Null} IN
  \/ tool.required \ DOMAIN declared # {}
  \/ \E p \in DOMAIN declared \ there : ~declared[p].optional
  \/ \E p \in there : LET spec == tool.params[p].spec IN
       \/ ~WritableAs(args[p], declared[p].type)
       \/ spec.restricted \/ spec.type \in {"integer", "null"}

\* "A wrong type in a declaration teaches the model to write code that fails": whatever
\* the tool accepts could be written against its declaration and the other way round a
\* script that leaves out what is declared to be needed is refused; and the declarations,
\* which "double as the description corpus", leave out nothing a search would find.
\* (null stands for an argument that is not there.)
DeclarationsTellTheTruth ==
  asked.about = "script" =>
    /\ asked.accepted => MayBeWritten(asked.declared.params, asked.args)
    /\ ~asked.accepted => IsRefused(asked.tool, asked.declared.params, asked.args)
    /\ SearchableText(asked.tool) \subseteq
         Range(asked.declared.name) \cup asked.declared.doc \cup DOMAIN asked.declared.params
================================================================================
