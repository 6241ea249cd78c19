------------------------------- MODULE MCLibraries -----------------------------
(***************************************************************************)
(* The parts of the framework that a program is built from and that do not *)
(* call one another, checked as a sum: which of them a behaviour uses is   *)
(* chosen when it starts, and the others stay as they were.  Checking them *)
(* side by side would only multiply states that no part can tell apart.    *)
(***************************************************************************)
EXTENDS Taint, Mcp, ToolLayers, Decisions, Frontend, Peers, Wire, Metering, Evidence,
        Failures, Doubles

VARIABLE library

others == <<taintVars, mcpVars, layersVars, decisionsVars, frontendVars, peersVars, wireVars, meteringVars,
            evidenceVars, failuresVars, doublesVars>>

Libraries == {"taint", "mcp", "layers", "decisions", "frontend", "peers", "wire", "metering",
              "evidence", "failures", "doubles"}

\* Where a part has several initial states, one stands for it while it is not used.
Unused(l) ==
  CASE l = "mcp" -> offered = Unavailable
    [] l = "layers" -> approval = "Never" /\ held = {}
    [] l = "wire" -> dialect = "openai" /\ toolBlock = "none"
    [] l = "metering" -> adapter = "openai"
    [] l = "doubles" -> script = <<>> /\ fakes = <<>> /\ hostile = Friendly
    [] OTHER -> TRUE

LibrariesInit ==
  /\ library \in Libraries
  /\ TaintInit /\ McpInit /\ LayersInit /\ DecisionsInit
  /\ FrontendInit /\ PeersInit /\ WireInit /\ MeteringInit /\ EvidenceInit
  /\ FailuresInit /\ DoublesInit
  /\ \A l \in Libraries \ {library} : Unused(l)

LibrariesNext ==
  \/ /\ library = "taint"
     /\ TaintNext
     /\ UNCHANGED <<library, mcpVars, layersVars, decisionsVars, frontendVars, peersVars,
                    wireVars, meteringVars, evidenceVars, failuresVars, doublesVars>>
  \/ /\ library = "mcp"
     /\ McpNext
     /\ UNCHANGED <<library, taintVars, layersVars, decisionsVars, frontendVars, peersVars,
                    wireVars, meteringVars, evidenceVars, failuresVars, doublesVars>>
  \/ /\ library = "layers"
     /\ LayersNext
     /\ UNCHANGED <<library, taintVars, mcpVars, decisionsVars, frontendVars, peersVars,
                    wireVars, meteringVars, evidenceVars, failuresVars, doublesVars>>
  \/ /\ library = "decisions"
     /\ DecisionsNext
     /\ UNCHANGED <<library, taintVars, mcpVars, layersVars, frontendVars, peersVars,
                    wireVars, meteringVars, evidenceVars, failuresVars, doublesVars>>
  \/ /\ library = "frontend"
     /\ FrontendNext
     /\ UNCHANGED <<library, taintVars, mcpVars, layersVars, decisionsVars, peersVars,
                    wireVars, meteringVars, evidenceVars, failuresVars, doublesVars>>
  \/ /\ library = "peers"
     /\ PeersNext
     /\ UNCHANGED <<library, taintVars, mcpVars, layersVars, decisionsVars, frontendVars,
                    wireVars, meteringVars, evidenceVars, failuresVars, doublesVars>>
  \/ /\ library = "wire"
     /\ WireNext
     /\ UNCHANGED <<library, taintVars, mcpVars, layersVars, decisionsVars, frontendVars,
                    peersVars, meteringVars, evidenceVars, failuresVars, doublesVars>>
  \/ /\ library = "metering"
     /\ MeteringNext
     /\ UNCHANGED <<library, taintVars, mcpVars, layersVars, decisionsVars, frontendVars,
                    peersVars, wireVars, evidenceVars, failuresVars, doublesVars>>
  \/ /\ library = "evidence"
     /\ EvidenceNext
     /\ UNCHANGED <<library, taintVars, mcpVars, layersVars, decisionsVars, frontendVars,
                    peersVars, wireVars, meteringVars, failuresVars, doublesVars>>
  \/ /\ library = "failures"
     /\ FailuresNext
     /\ UNCHANGED <<library, taintVars, mcpVars, layersVars, decisionsVars, frontendVars,
                    peersVars, wireVars, meteringVars, evidenceVars, doublesVars>>
  \/ /\ library = "doubles"
     /\ DoublesNext
     /\ UNCHANGED <<library, taintVars, mcpVars, layersVars, decisionsVars, frontendVars,
                    peersVars, wireVars, meteringVars, evidenceVars, failuresVars>>

LibrariesSpec == LibrariesInit /\ [][LibrariesNext]_<<library, others>>
--------------------------------------------------------------------------------
\* Decisions: every path of up to three parts, policies of every shape, every pattern of
\* one or two short chunks.
Under(absolute, parts) == [absolute |-> absolute, parts |-> parts]
UpTo(n, S) == UNION {[1 .. k -> S] : k \in 0 .. n}
SomePaths == [absolute : BOOLEAN, parts : UpTo(3, {"a", "b", ".", ".."})]
SomeScopes == {
  {Under(FALSE, <<"a">>)}, {Under(FALSE, <<".">>)}, {Under(TRUE, <<>>)}, {Under(TRUE, <<"a">>)},
  {Under(FALSE, <<"a", "..">>), Under(FALSE, <<"b">>)},
  {Under(FALSE, <<"a">>), Under(FALSE, <<"b", "a">>)}}
SomeSpecs ==
  [program : {"a", "b", NoProgram}, cwd : {Under(FALSE, <<"a">>), Under(TRUE, <<"b">>)},
   env : {{}, {"PATH"}, {"API_KEY"}}]
SomePolicies ==
  [fsRead : {{}, {Under(FALSE, <<"a">>)}}, fsWrite : {{}, {Under(FALSE, <<"a">>)}},
   exec : SUBSET {"a"}, copyOnWrite : BOOLEAN]
Chunks == UpTo(2, Letters \cup WideLetters \cup {"."})
SomePatterns ==
  {<<<<c>>>> : c \in Chunks} \cup {<<<<c, d>>>> : c, d \in Chunks}
  \cup {<<<<c>>, <<d>>>> : c \in Chunks, d \in {<<"a">>}}
SomeTexts == UpTo(4, Letters \cup WideLetters)

\* Decisions: a group of two, a group whose prefix is one letter, a tool that is hard to
\* find; every type an argument may be declared with.
Sentence == <<"show", "what", "is", "there", "in", "full">>
Text(type) == Property(type, FALSE, {})
ListTool ==
  Definition(<<"gh", "list">>, Sentence, [repo |-> Param(<<"where">>, Text("string")),
             count |-> Param(<<"most">>, Text("integer"))], {"repo"}, "deferred")
CloseTool ==
  Definition(<<"gh", "close">>, <<"close", "it">>, [id |-> Param(<<>>, Text("any")),
             sure |-> Param(<<>>, Text("boolean"))], {"id"}, "deferred")
PostTool ==
  Definition(<<"x", "post">>, Sentence, [text |-> Param(<<"gh">>, Property("string", TRUE, {Json("string", "r")})),
             tags |-> Param(<<"list">>, Text("array"))], {}, "deferred")
RunTool ==
  Definition(<<"run">>, <<>>, [limit |-> Param(<<"most", "x">>, Text("number")),
             env |-> Param(<<"where">>, Text("object"))], {"limit", "env"}, "always")
SomeCatalogs == SUBSET {ListTool, CloseTool, PostTool, RunTool}
SomeQueries ==
  {<<w>> : w \in {"gh", "x", "where", "most", "show", "list", "none"}}
  \cup {<<"x", "list">>, <<"close", "run">>, <<"none", "where">>}
SomeValues ==
  {Null} \cup {Json(type, "v") : type \in {"string", "integer", "fraction", "boolean", "array", "object"}}
  \cup {Json("string", "r")}

\* Decisions: authorities with credentials, ports and capitals, ended in every way; skills
\* that ask twice, and whose text reads like front matter.
SomeUrls == [scheme : {"https", "http"}, rest : UpTo(3, {"a", "A", "b", "@", ":", "/", "?"})]
SomeHostLists == {{}, {<<"a">>}, {<<"A", "b">>, <<"b">>}, {<<"*">>, <<"a", ":">>, <<>>}}
SomeSkillFiles ==
  {<<Fence>> \o front \o <<Fence>> \o body :
     front \in UpTo(3, {Line("name"), Line("description"), Wants({"read"}), Wants({"read", "exec"})}),
     body \in UpTo(2, {Wants({"exec"}), Line("text"), EmptyLine, Fence})}
  \cup {<<>>, <<Line("name")>>, <<Fence, Line("name"), Line("description")>>}

\* Mcp: one tool that needs a path, one that asks for input; a foreign server that lists
\* in any order, twice, or answers with something else.
NeedsPath ==
  ObjectSchema([path |-> Property("string", FALSE, {}), depth |-> Property("number", FALSE, {})],
               {"path"}, TRUE)
TakesMode ==
  ObjectSchema([path |-> Property("string", FALSE, {}),
                mode |-> Property("string", TRUE, {Json("string", "r")})], {}, FALSE)
ReadTool == [name |-> 1, schema |-> NeedsPath, asks |-> FALSE]
AskTool == [name |-> 2, schema |-> TakesMode, asks |-> TRUE]
SomeOffers == {<<ReadTool>>, <<AskTool, ReadTool>>, Unavailable}
APath == Object([path |-> Json("string", "r")])
SomeArguments ==
  {Object([path |-> Json("string", "r"), depth |-> Json("fraction", "half")]),
   Object([path |-> Null]), Object([mode |-> Json("string", "x")])}
SomeRequests == {
  Request(Nobody, "tools/call", 1, APath, FALSE), Request(9, "tools/call", 2, Null, TRUE),
  Request(9, "tools/call", Nobody, Null, FALSE), Request(9, Nobody, Nobody, Null, FALSE),
  Request(9, "initialize", Nobody, Null, FALSE), Request(9, "other", Nobody, Null, FALSE)}
SomeResults == {
  Listing(<<ReadTool, AskTool>>, 9, "Public"), Listing(<<AskTool, ReadTool>>, Nobody, "Private"),
  Listing(<<ReadTool, ReadTool>>, 0, "Public"), ResultOf("malformed", "none")}

\* ToolLayers: two authors of one name with different needs, capabilities in two lists, one
\* of which the parser does not know, and two attributes that do not compile.
Attribute(name, options, documented) ==
  [name |-> name, options |-> options, documented |-> documented]
RunA == [kind |-> "Exec", scope |-> {"a"}]
ReadHere == [kind |-> "FsRead", scope |-> {Under(FALSE, <<>>)}]
Misspelt == [kind |-> "FsRaed", scope |-> "a"]
SomeAttributes == {
  Attribute(<<"a">>, <<Option("cost_hint", "pure"), Option("caller", "both")>>, TRUE),
  Attribute(<<"a">>, <<Option("capabilities", {RunA}), Option("caller", "both")>>, TRUE),
  Attribute(<<"b">>, <<Option("capabilities", {ReadHere}), Option("cost_hint", "pure"),
                       Option("caller", "code"), Option("cost_hint", "destructive"),
                       Option("capabilities", {Misspelt})>>, TRUE),
  Attribute(<<"b">>, <<Option("description", "d"), Option("capabilities", {Misspelt}),
                       Option("cost_hint", "unknown")>>, FALSE),
  Attribute(<<"c">>, <<Option("cost", "pure")>>, TRUE), Attribute(<<"c">>, <<>>, FALSE)}
SomeHeld == {{}, {RunA}, {RunA, ReadHere}}

\* Wire: what each kind of provider says, thinking, calls, server tools and silence.
SomeReplies == [
  messages |-> {
    <<Block("thinking", "none", "t"), Block("text", "none", "words"),
      Block("tool_use", "1", "object")>>,
    <<Block("server_tool_use", "none", "s"), Block("tool_use", "1", "garbage"),
      Block("tool_use", "2", "object")>>,
    <<Block("text", "none", "")>>},
  responses |-> {
    <<Block("reasoning", "none", "r"), Block("function_call", "1", "garbage"),
      Block("message", "none", "words")>>,
    <<Block("web_search_call", "none", "s"), Block("message", "none", "words")>>},
  chat |-> {
    <<Block("content", "none", ""), Block("reasoning", "none", "r"),
      Block("tool_call", "1", "garbage"), Block("tool_call", "2", "object"),
      Block("tool_call", "3", "null")>>,
    <<Block("reasoning", "none", "r")>>, <<Block("content", "none", "words")>>}]

\* Metering: a call that was cached, one that thought for a price, one nobody told of.
Used(fresh, read, written, output, thought, priced, silent) ==
  [fresh |-> fresh, read |-> read, written |-> written, output |-> output,
   thought |-> thought, priced |-> priced, silent |-> silent]
SomeConsumptions == {Used(1, 2, 1, 1, 0, FALSE, FALSE), Used(2, 0, 0, 2, 1, TRUE, FALSE),
                     Used(1, 1, 0, 1, 0, TRUE, TRUE)}
SomeFiles == {<<"journal", "blank">>, <<"journal", "other", "journal">>}

\* Evidence: a listing, the same in another order, one tool less, one that is described anew.
ATool(name, words, schema) == [name |-> name, description |-> words, schema |-> schema]
SomeListed == {
  <<ATool(1, 6, "object"), ATool(2, 0, "none")>>, <<ATool(2, 0, "none"), ATool(1, 6, "object")>>,
  <<ATool(2, 6, "object")>>, <<ATool(2, 0, "none")>>}
SomeSweeps == {<<"t1">>, <<"t2">>, <<"t1", "t2">>}
\* One file declares two variants, the others hold what may become of them.
Declaring == <<
  Code("enum", 1, 0, <<<<"Warning", "none">>>>, FALSE, <<>>, FALSE),
  Code("capital", 1, 0, <<<<"none", "Churn">>>>, FALSE, <<>>, FALSE),
  Code("capital", 0, 0, <<<<"none", "Deep">>>>, FALSE, <<>>, FALSE),
  Code("code", 0, 1, <<>>, FALSE, <<>>, FALSE),
  Code("code", 0, 1, <<>>, FALSE, <<>>, FALSE),
  Code("code", 0, 0, <<<<"Self", "Churn">>>>, TRUE, <<>>, FALSE)>>
Built == Code("code", 0, 0, <<<<"Warning", "Churn">>>>, FALSE, <<>>, FALSE)
InTest == <<Code("cfg(test)", 0, 0, <<>>, FALSE, <<>>, TRUE), Code("code", 1, 0, <<>>, FALSE, <<>>, TRUE),
            [Built EXCEPT !.tests = TRUE], Code("code", 0, 1, <<>>, FALSE, <<>>, TRUE)>>
SomeFiles_ == {
  <<Built>>, <<[Built EXCEPT !.begins = "matches"]>>, <<[Built EXCEPT !.begins = "comment"]>>,
  <<Code("code", 0, 0, <<<<"Warning", "Churn">>>>, TRUE, <<<<"Item", "Text">>>>, FALSE)>>,
  <<Code("code", 0, 0, <<<<"Item", "Text">>>>, TRUE, <<<<"Warning", "Churn">>>>, FALSE)>>,
  InTest, InTest \o <<Built>>}
TreeOf(file) ==
  [files |-> <<Declaring, file>>, functions |-> {"a_test"}, compileFail |-> {"taint"}, readable |-> TRUE]
Rests(kind, by, window) == Claim("c", "operated", kind, by, window, {})
SomeClaimTables == {
  <<Claim("a", "declared-only", "none", "none", {}, {<<"Warning", "Churn">>}),
    Rests("results", "sweeps", {1})>>,
  <<Claim("a", "settled", "test", "a_test", {}, {}), Claim("b", "settled", "doctest", "taint", {}, {})>>,
  <<Claim("a", "settled", "test", "renamed", {}, {})>>, <<Claim("a", "settled", "none", "none", {}, {})>>,
  <<Rests("results", "sweeps", {})>>, <<Rests("results", "sweeps", {0}), Rests("results", "sweeps", {0})>>,
  Unreadable}
SomeChecks ==
  {[table |-> t, tree |-> TreeOf(<<Built>>)] : t \in SomeClaimTables}
  \cup {[table |-> <<>>, tree |-> TreeOf(f)] : f \in SomeFiles_}

\* Failures: a text that fits, one whose cut falls inside a character; secrets at every depth.
SomeOutputs == {<<>>, <<"a">>, <<"a", "w">>, <<"w", "b", "w">>, <<"a", "b", "a", "b">>}
SomeCallTrees == {
  <<"path">> :> "leaf", <<"token">> :> "leaf",
  (<<"in", "token", "id">> :> "deep") @@ (<<"in", "path">> :> "leaf") @@ (<<"token", "token">> :> "x"),
  (<<"path", "a">> :> "leaf") @@ (<<"path", "b">> :> "other")}

\* Doubles: no turns, a failure in between, a reply that says nothing.
SomeScripts == {<<>>, <<Reply(<<"call", "text">>), Fail>>, <<Reply(<<>>), Reply(<<"text">>)>>}
================================================================================
