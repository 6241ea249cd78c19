-------------------------------- MODULE Failures -------------------------------
(***************************************************************************)
(* What a tool has to say, and who is told what of it: a failure typed by  *)
(* its audience (frey-core/src/error.rs), content that may be cut          *)
(* (tool.rs, frey-tools/src/layer.rs), read by the model of the run that   *)
(* called it (run.rs), the frontend of that run (agui.rs) and, where the   *)
(* same tools are served, by a model at the other end of a connection      *)
(* (frey-mcp/src/server.rs, client.rs).                                    *)
(*                                                                         *)
(* What is said is a set of pieces, not their words.  Text is a sequence   *)
(* of characters with a width.  Arguments are a tree, given by the leaf at *)
(* the end of each of its paths.  The retry directive and the kind of a    *)
(* failure are not read by anything that is modelled.                      *)
(***************************************************************************)
EXTENDS Search

CONSTANTS
  Outputs,       \* texts that tools may give
  Ceilings,      \* what a TruncateLayer may let through, in bytes
  CallTrees,     \* arguments
  SensitiveKeys, \* keys that a RedactLayer looks for
  PreviewBytes   \* bound: the bytes of a preview, 120 in the code

ASSUME OutputAssumption ==
  /\ Outputs \subseteq Seq(Letters \cup WideLetters)
  /\ Ceilings \subseteq Nat /\ PreviewBytes \in Nat

VARIABLES making, informed

failuresVars == <<making, informed>>
--------------------------------------------------------------------------------
\* ToolError: a summary for the model, and whatever is attached to it.
Pieces == {"summary", "guidance", "suggested tools", "schema hint", "detail", "sentence"}
ToolError(by, said) == [is |-> "error", by |-> by, said |-> {"summary"} \cup said]

\* The failures that the framework raises itself; each of them says what to do next.
OwnFailures ==
  {ToolError(by, {"guidance"}) :
     by \in {"check_arguments", "PolicyLayer", "rejection", "over_cap", "no such tool"}}
  \cup {ToolError("decode_args", {"guidance", "schema hint"})}

\* ToolContent; "whole", what the tool had to say, is for the property.
ToolContent(whole) ==
  [is |-> "content", whole |-> whole, text |-> whole, structured |-> FALSE, elided |-> 0,
   within |-> Bytes(whole)]

\* InputRequest
Requests == {"approval", "choice", "form", "auth", "frontend_tool"}
NeedsInput(requests) == [is |-> "input", requests |-> requests]
NothingMade == [is |-> "nothing"]

\* Down to the last byte that begins a character, from a place in the text.
CutAt(text, place) ==
  SubSeq(text, 1, Max({k \in 0 .. Len(text) : Bytes(SubSeq(text, 1, k)) <= place}))

\* Fault: what lies beyond the ceiling is counted, not what was cut.
ElidedBeyond(text, max) == Bytes(text) - max
Elided(text, max) == Bytes(text) - Bytes(CutAt(text, max))

\* TruncateLayer::apply
Truncate(text, max) ==
  IF Bytes(text) <= max THEN [text |-> text, elided |-> 0]
  ELSE [text |-> CutAt(text, max), elided |-> Elided(text, max)]

\* preview, of the arguments of a call.
Preview(text) ==
  [text |-> IF Bytes(text) <= PreviewBytes THEN text ELSE CutAt(text, PreviewBytes),
   marked |-> Bytes(text) > PreviewBytes]

\* RedactLayer::redact: the first sensitive key on the way ends it.
Redact(tree) ==
  LET sensitive(path) == {i \in DOMAIN path : path[i] \in SensitiveKeys}
      cut(path) == IF sensitive(path) = {} THEN path ELSE SubSeq(path, 1, Min(sensitive(path)))
  IN [path \in {cut(p) : p \in DOMAIN tree} |->
        IF sensitive(path) = {} THEN tree[path] ELSE "[redacted]"]
--------------------------------------------------------------------------------
NotTold == [said |-> {}, text |-> <<>>, withheld |-> 0, structured |-> FALSE,
            requests |-> {}, failed |-> FALSE, silent |-> TRUE]
Tells(fields) == [fields EXCEPT !.silent = FALSE]

\* The two pieces that render_outcome and tool_error both write.
ForTheModel(error) == {"summary"} \cup (error.said \cap {"guidance"})

\* render_outcome: an outcome that it does not know is a failure.
RenderOutcome(outcome) ==
  CASE outcome.is = "content" ->
         Tells([NotTold EXCEPT !.text = outcome.text, !.withheld = outcome.elided])
    [] outcome.is = "error" ->
         Tells([NotTold EXCEPT !.said = ForTheModel(outcome), !.failed = TRUE])
    [] OTHER -> Tells([NotTold EXCEPT !.said = {"summary"}, !.failed = TRUE])

\* ToolCallFailed or ToolCallFinished, as agui::project shows it: what was meant for the
\* user, and if there is nothing, what the model was told first.
ShownOf(outcome) ==
  IF outcome.is = "error"
  THEN Tells([NotTold EXCEPT !.failed = TRUE,
                !.said = IF "sentence" \in outcome.said THEN {"sentence"} ELSE {"summary"}])
  ELSE Tells([NotTold EXCEPT !.withheld = RenderOutcome(outcome).withheld])

\* Server::call_tool: the number of bytes that were withheld is not in the result.
CallResult(outcome) ==
  CASE outcome.is = "content" ->
         Tells([NotTold EXCEPT !.text = outcome.text, !.structured = outcome.structured])
    [] outcome.is = "error" ->
         Tells([NotTold EXCEPT !.said = ForTheModel(outcome), !.failed = TRUE])
    [] OTHER -> Tells([NotTold EXCEPT !.requests = outcome.requests])

\* McpClient::call_tool: the text, or what is needed; whether it failed is not read.
ReadFrom(result) ==
  IF result.requests # {} THEN result
  ELSE [result EXCEPT !.failed = FALSE, !.structured = FALSE]

Readers == {"model", "frontend", "server", "client"}

FailuresInit == making = NothingMade /\ informed = [r \in Readers |-> NotTold]

Unheard == \A r \in Readers : informed[r].silent
Making(outcome) == making' = outcome /\ informed' = informed

\* A tool fails, succeeds or asks; or something on the way to it refuses.
Raise(error) == making = NothingMade /\ Making(error)
Produce(text) == making = NothingMade /\ Making(ToolContent(text))
Ask(requests) == making = NothingMade /\ requests # {} /\ Making(NeedsInput(requests))

\* guide, suggest, schema_hint, diagnose, present
Attach(piece) ==
  /\ making.is = "error" /\ making.by = "tool"
  /\ Unheard
  /\ Making([making EXCEPT !.said = @ \cup {piece}])

WithStructured ==
  making.is = "content" /\ Unheard /\ Making([making EXCEPT !.structured = TRUE])

\* Whoever applies the layer records what it withheld; recording replaces what was recorded,
\* so once.
Cap(max) ==
  /\ making.is = "content" /\ Unheard
  /\ making.elided = 0
  /\ LET cut == Truncate(making.text, max) IN
       Making([making EXCEPT !.text = cut.text, !.elided = cut.elided, !.within = max])

\* The outcome as the loop has it: the model and the frontend are told.
LoopTells ==
  /\ making # NothingMade
  /\ informed' = [informed EXCEPT !["model"] = RenderOutcome(making),
                                  !["frontend"] = ShownOf(making)]
  /\ UNCHANGED making

\* The outcome as the server has it: the client is informed, and tells its caller.
ServerTells ==
  /\ making # NothingMade
  /\ informed' = [informed EXCEPT !["server"] = CallResult(making)]
  /\ UNCHANGED making
ClientTells ==
  /\ ~informed["server"].silent
  /\ informed' = [informed EXCEPT !["client"] = ReadFrom(informed["server"])]
  /\ UNCHANGED making

\* A call is announced with a preview of its arguments, and logged by a caller who redacts.
Announce(args) ==
  making = NothingMade /\ Making([is |-> "call", args |-> args, preview |-> Preview(args)])
Log(tree) ==
  making = NothingMade /\ Making([is |-> "log", tree |-> tree, logged |-> Redact(tree)])

FailuresNext ==
  \/ \E error \in OwnFailures \cup {ToolError("tool", {})} : Raise(error)
  \/ \E text \in Outputs : Produce(text) \/ Announce(text)
  \/ \E requests \in SUBSET Requests : Ask(requests)
  \/ \E piece \in Pieces : Attach(piece)
  \/ WithStructured
  \/ \E max \in Ceilings : Cap(max)
  \/ making.is \in {"error", "content", "input"} /\ (LoopTells \/ ServerTells \/ ClientTells)
  \/ \E tree \in CallTrees : Log(tree)

FailuresSpec == FailuresInit /\ [][FailuresNext]_failuresVars
--------------------------------------------------------------------------------
\* Nothing under a key that looks sensitive is left, and everything else is.
Cleaned(tree, logged) ==
  /\ \A path \in DOMAIN tree :
       (\A i \in DOMAIN path : path[i] \notin SensitiveKeys) =>
         path \in DOMAIN logged /\ logged[path] = tree[path]
  /\ \A path \in DOMAIN logged :
       (\E i \in DOMAIN path : path[i] \in SensitiveKeys) => logged[path] = "[redacted]"

\* As much of a text as there is room for.
FillsUpTo(text, whole, room) ==
  /\ IsPrefix(text, whole)
  /\ Bytes(text) <= room
  /\ text # whole => Bytes(SubSeq(whole, 1, Len(text) + 1)) > room

\* "Collapsing them into one string is how frameworks end up leaking stack traces into
\* prompts and showing users text meant for a model": what was attached for the operator
\* reaches nobody else, the user's sentence no model and a model's guidance no user; both
\* models are told the same; a failure of the framework says what to do next and is one to
\* everybody in the run; what a model does not see of an output is what it is told that it
\* does not see; and a log keeps nothing that looks like a secret (error.rs, tool.rs,
\* layer.rs).
EachReaderHearsItsOwn ==
  LET model == informed["model"]
      frontend == informed["frontend"]
      client == informed["client"]
  IN /\ \A r \in Readers : informed[r].said \cap {"detail", "suggested tools"} = {}
     /\ \A r \in {"model", "server", "client"} : "sentence" \notin informed[r].said
     /\ frontend.said \in {{}, {"summary"}, {"sentence"}}
     /\ ~model.silent /\ making.is = "error" =>
          /\ model.failed /\ frontend.failed
          /\ "sentence" \in making.said => frontend.said = {"sentence"}
          /\ making.by # "tool" => "guidance" \in model.said
     /\ ~model.silent /\ making.is = "input" => model.failed
     /\ ~model.silent /\ making.is = "content" =>
          /\ ~model.failed /\ ~frontend.failed
          /\ FillsUpTo(model.text, making.whole, making.within)
          /\ Bytes(model.text) + model.withheld = Bytes(making.whole)
          /\ frontend.withheld = model.withheld
     /\ ~model.silent /\ ~client.silent =>
          /\ making.is = "input" => client.requests = making.requests
          /\ making.is # "input" => client.said = model.said /\ client.text = model.text
     /\ making.is = "call" => FillsUpTo(making.preview.text, making.args, PreviewBytes)
     /\ making.is = "call" => (making.preview.marked <=> making.preview.text # making.args)
     /\ making.is = "log" => Cleaned(making.tree, making.logged)
================================================================================
