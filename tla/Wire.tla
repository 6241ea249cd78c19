----------------------------------- MODULE Wire --------------------------------
(***************************************************************************)
(* A conversation as each dialect puts it on the wire and reads it back    *)
(* (frey-providers/src/anthropic.rs, openai.rs, openrouter.rs), with the   *)
(* breakpoints of a plan placed on it (frey-core/src/provider.rs,          *)
(* mark_placement) over the items of frey-core/src/item.rs.                *)
(*                                                                         *)
(* The dialect may change between any two turns.  A block is its type, the *)
(* call it belongs to and its content, which is a word or empty; the       *)
(* content of a call is its arguments, of which "garbage" is not JSON.     *)
(* Which code asked for a call, which Messages tells and encode_item does  *)
(* not send back, is left out.                                             *)
(* A place is what can carry a breakpoint: a block of Messages or          *)
(* Responses, a message of Chat Completions.  "from" tells which turn a    *)
(* place renders: it is there for the properties, as is what a provider    *)
(* said of a turn.  "stopped" is how the last reply ended and what was     *)
(* made of it.  How long a breakpoint lives, prices, headers and the       *)
(* parameters that are copied from the request are left out.               *)
(***************************************************************************)
EXTENDS Naturals, Sequences, SequencesExt, FiniteSets, FiniteSetsExt, Logs

CONSTANTS
  Replies,    \* dialect -> what its provider may say, each a sequence of blocks
  Words,      \* what a person or a tool may say
  NoCarry,    \* an item that has no provider state
  MaxTurns    \* bound: turns of the conversation

VARIABLES dialect, toolBlock, turns, sent, stopped

wireVars == <<dialect, toolBlock, turns, sent, stopped>>
--------------------------------------------------------------------------------
\* Which upstream takes breakpoints through the router is decided when it is made.
Dialects == {"anthropic", "openai", "openrouter", "openrouter+explicit"}
Shape(d) == CASE d = "anthropic" -> "messages" [] d = "openai" -> "responses" [] OTHER -> "chat"
ProviderOf(d) == IF d = "openrouter+explicit" THEN "openrouter" ELSE d

\* capabilities, as far as breakpoints go.
MaxBreakpoints(d) == IF d \in {"anthropic", "openrouter+explicit"} THEN 4 ELSE 0

Block(type, id, data) == [type |-> type, id |-> id, data |-> data]
Blocks == [type : STRING, id : STRING, data : STRING]
Carries == [provider : Dialects, raw : Blocks]

\* Text has no id of its own in Chat Completions.
ASSUME WireAssumption ==
  /\ Words \subseteq STRING
  /\ NoCarry \notin Carries
  /\ \A shape \in {"messages", "responses", "chat"} : Replies[shape] \subseteq Seq(Blocks)
  /\ \A blocks \in Replies["chat"] : \A k \in DOMAIN blocks :
       blocks[k].type = "content" => blocks[k].id = "none"

\* Item.  Media and discoveries, which no dialect renders, are left out.
Item(kind, id, data, carry) == [kind |-> kind, id |-> id, data |-> data, carry |-> carry]
Turn(role, items, said) == [role |-> role, items |-> items, said |-> said]
Unsaid == [by |-> "nobody", blocks |-> <<>>]
SystemTurn == Turn("system", <<Item("Text", "none", "words", NoCarry)>>, Unsaid)

\* The names the two block dialects give to what the item model has a kind for.
NameOf ==
  [messages  |-> [Text |-> {"text"}, ToolCall |-> {"tool_use"}, ToolResult |-> {"tool_result"},
                  Reasoning |-> {"thinking", "redacted_thinking"}],
   responses |-> [Text |-> {"message"}, ToolCall |-> {"function_call"},
                  ToolResult |-> {"function_call_output"}, Reasoning |-> {"reasoning"}]]
KindOf(shape, type) ==
  IF \E kind \in DOMAIN NameOf[shape] : type \in NameOf[shape][kind]
  THEN CHOOSE kind \in DOMAIN NameOf[shape] : type \in NameOf[shape][kind]
  ELSE "Opaque"

\* Arguments that do not parse become null, or no arguments at all in Chat Completions.
Parsed(shape, data) ==
  IF data # "garbage" THEN data ELSE IF shape = "chat" THEN "{}" ELSE "null"

\* decode_block, decode_output_item: what has no kind is kept as it came.
DecodeBlock(d, b) ==
  LET kind == KindOf(Shape(d), b.type) IN
  Item(kind, b.id, IF kind = "ToolCall" THEN Parsed(Shape(d), b.data) ELSE b.data,
       IF kind \in {"Reasoning", "Opaque"} THEN [provider |-> ProviderOf(d), raw |-> b]
       ELSE NoCarry)

\* decode_chat: reasoning first, then text, neither of them empty, then the calls.
DecodeChat(blocks) ==
  LET of(type) == {b \in Range(blocks) : b.type = type}
      spoken(type, kind) ==
        LET full == OnlyIn(blocks, {b \in of(type) : b.data # ""})
        IN  [k \in DOMAIN full |-> Item(kind, "none", full[k].data, NoCarry)]
      calls == OnlyIn(blocks, of("tool_call"))
  IN  spoken("reasoning", "Reasoning") \o spoken("content", "Text")
        \o [k \in DOMAIN calls |->
              Item("ToolCall", calls[k].id, Parsed("chat", calls[k].data), NoCarry)]

Decode(d, blocks) ==
  IF Shape(d) = "chat" THEN DecodeChat(blocks)
  ELSE [k \in DOMAIN blocks |-> DecodeBlock(d, blocks[k])]

\* How a reply may end, and the word each shape has for it, if it has one.
Endings == {"ended", "asked", "cut", "matched", "refused", "strange", "unsaid"}
WordFor(shape, ending) ==
  IF ending \in {"strange", "unsaid"} THEN ending
  ELSE CASE shape = "messages" ->
              [ended |-> "end_turn", asked |-> "tool_use", cut |-> "max_tokens",
               matched |-> "stop_sequence", refused |-> "refusal"][ending]
         [] shape = "responses" -> IF ending = "cut" THEN "incomplete" ELSE "completed"
         [] OTHER -> [ended |-> "stop", asked |-> "tool_calls", cut |-> "length",
                      matched |-> "stop", refused |-> "content_filter"][ending]

\* decode_stop of Messages, decode_finish: a word it does not know is kept.
MessagesStop(word) ==
  CASE word \in {"end_turn", "unsaid"} -> "EndTurn"
    [] word = "tool_use" -> "ToolUse"
    [] word = "max_tokens" -> "MaxTokens"
    [] word = "stop_sequence" -> "StopSequence"
    [] word = "refusal" -> "Refusal"
    [] OTHER -> word
ChatFinish(word) ==
  CASE word \in {"stop", "unsaid"} -> "EndTurn"
    [] word \in {"tool_calls", "function_call"} -> "ToolUse"
    [] word = "length" -> "MaxTokens"
    [] word = "content_filter" -> "Refusal"
    [] OTHER -> word

\* decode_stop of Responses, which has no word for a reply that asks for tools.
\* Fault: the calls are looked at first.
ResponsesStopCallsFirst(word, calls) ==
  CASE calls -> "ToolUse"
    [] word = "incomplete" -> "MaxTokens"
    [] ~calls /\ word \in {"completed", "unsaid"} -> "EndTurn"
    [] OTHER -> word
ResponsesStop(word, calls) ==
  CASE word = "incomplete" -> "MaxTokens"
    [] word # "incomplete" /\ calls -> "ToolUse"
    [] ~calls /\ word \in {"completed", "unsaid"} -> "EndTurn"
    [] OTHER -> word

Calls(items) == OfKinds(items, {"ToolCall"})
DecodeStop(shape, word, items) ==
  CASE shape = "messages" -> MessagesStop(word)
    [] shape = "responses" -> ResponsesStop(word, Calls(items) # <<>>)
    [] OTHER -> ChatFinish(word)

\* StopReason::wants_tools, is_truncated
WantsTools(stop) == stop = "ToolUse"
IsTruncated(stop) == stop = "MaxTokens"
\* RunOutput::is_complete, of a run that this reply is the last of.
RunIsComplete(stop) == ~IsTruncated(stop)
--------------------------------------------------------------------------------
\* encode_item: carried state goes back as it came; reasoning without any is dropped.
Carried(item) == <<item.carry.raw>>
EncodeItem(shape, item) ==
  IF item.carry # NoCarry THEN Carried(item)
  ELSE IF item.kind = "Reasoning" THEN <<>>
  ELSE <<Block(CHOOSE type \in NameOf[shape][item.kind] : TRUE, item.id, item.data)>>

Place(t, role, blocks) == [from |-> t, role |-> role, blocks |-> blocks]
ItemsOf(turn, kind) == OfKinds(turn.items, {kind})

\* The system prompt of the block dialects holds text only, each a block of its own.
SystemPlaces(shape, t, turn) ==
  LET texts == ItemsOf(turn, "Text")
  IN  [k \in DOMAIN texts |-> Place(t, "system", EncodeItem(shape, texts[k]))]
BlockPlaces(shape, t, turn) ==
  LET blocks == FlattenSeq([k \in DOMAIN turn.items |-> EncodeItem(shape, turn.items[k])])
  IN  [k \in DOMAIN blocks |-> Place(t, turn.role, <<blocks[k]>>)]

\* encode_chat: results are messages of their own and come first; text and calls are
\* one message, if there is any of either.  No arguments are never null ones.
ChatArguments(data) == IF data = "null" THEN "{}" ELSE data
ChatPlaces(t, turn) ==
  LET results == ItemsOf(turn, "ToolResult")
      texts == OnlyIn(turn.items,
                      {item \in Range(turn.items) : item.kind = "Text" /\ item.data # ""})
      calls == ItemsOf(turn, "ToolCall")
      body == [k \in DOMAIN texts |-> Block("content", "none", texts[k].data)]
              \o [k \in DOMAIN calls |->
                    Block("tool_call", calls[k].id, ChatArguments(calls[k].data))]
  IN  [k \in DOMAIN results |->
         Place(t, "tool", <<Block("content", results[k].id, results[k].data)>>)]
      \o (IF body = <<>> THEN <<>> ELSE <<Place(t, turn.role, body)>>)

PlacesOf(shape, t, turn) ==
  CASE shape = "chat" -> ChatPlaces(t, turn)
    [] shape # "chat" /\ turn.role = "system" -> SystemPlaces(shape, t, turn)
    [] OTHER -> BlockPlaces(shape, t, turn)
Places(shape, conversation) ==
  FlattenSeq([t \in DOMAIN conversation |-> PlacesOf(shape, t, conversation[t])])
--------------------------------------------------------------------------------
\* Request::mark_placement: the segment of the tools, if there are any, is the first.
HasTools == toolBlock # "none"
MarkedTurns(marks) ==
  {t \in DOMAIN turns : \E mark \in marks : mark = IF HasTools THEN t ELSE t - 1}
MarksTools(marks) == HasTools /\ 0 \in marks

\* messages_for: how many messages a turn is taken to have become.
HasBody(turn) == \E k \in DOMAIN turn.items : turn.items[k].kind \in {"Text", "ToolCall"}
\* Fault: one message per turn.
MessagesForOne(turn) == 1
MessagesFor(turn) ==
  Len(ItemsOf(turn, "ToolResult")) + (IF HasBody(turn) THEN 1 ELSE 0)

\* apply_cache_marks: the messages are counted turn by turn, and the last of a marked
\* turn is marked.  The tools are not.
ChatMarks(places, marks) ==
  LET before(t) == SumFunction([k \in 1 .. t - 1 |-> MessagesFor(turns[k])])
  IN  {before(t) + MessagesFor(turns[t]) :
         t \in {u \in MarkedTurns(marks) : MessagesFor(turns[u]) # 0}} \cap DOMAIN places

\* Messages: the system prompt is marked where it ends so far, any other turn on its
\* last block.
LastOf(set) == {k \in set : \A j \in set : j <= k}
MessagesMarks(places, marks) ==
  UNION {LastOf(IF turns[t].role = "system"
                THEN {k \in DOMAIN places : places[k].role = "system" /\ places[k].from <= t}
                ELSE {k \in DOMAIN places : places[k].from = t}) : t \in MarkedTurns(marks)}

\* A breakpoint may not land on a tool whose loading is deferred.
Realised(d, places, marks) ==
  CASE d = "anthropic" -> MessagesMarks(places, marks)
    [] d = "openrouter+explicit" -> ChatMarks(places, marks)
    [] OTHER -> {}
ToolsMarked(d, marks) == d = "anthropic" /\ MarksTools(marks) /\ toolBlock # "deferred"

NotSent == [dialect |-> "none", turns |-> 0, marks |-> {}, places |-> <<>>, realised |-> {},
            toolsMarked |-> FALSE]
NotStopped == [by |-> "none", ending |-> "none", stop |-> "none", calls |-> FALSE]

WireInit ==
  /\ dialect \in Dialects
  /\ toolBlock \in {"none", "eager", "deferred"}   \* the last tool of the request
  /\ turns = <<SystemTurn>>
  /\ sent = NotSent
  /\ stopped = NotStopped

Joins(turn) ==
  /\ Len(turns) < MaxTurns
  /\ turns' = Append(turns, turn)
  /\ sent' = NotSent
  /\ UNCHANGED <<dialect, toolBlock>>
JoinsAfter(turn) == Joins(turn) /\ stopped' = NotStopped

UserSays(word) ==
  /\ Last(turns).role # "user"
  /\ ItemsOf(Last(turns), "ToolCall") = <<>>
  /\ JoinsAfter(Turn("user", <<Item("Text", "none", word, NoCarry)>>, Unsaid))

\* decode.  A reply that asks for tools has calls, one that was cut may have some.
ProviderSays(blocks, ending) ==
  LET items == Decode(dialect, blocks)
      calls == Calls(items) # <<>>
  IN  /\ sent # NotSent
      /\ Last(turns).role = "user"
      /\ ending = "asked" => calls
      /\ ending \in {"ended", "matched", "refused"} => ~calls
      /\ Joins(Turn("assistant", items, [by |-> dialect, blocks |-> blocks]))
      /\ stopped' = [by |-> dialect, ending |-> ending, calls |-> calls,
                     stop |-> DecodeStop(Shape(dialect), WordFor(Shape(dialect), ending), items)]

ToolsReturn(word) ==
  LET calls == Calls(Last(turns).items) IN
  /\ Last(turns).role = "assistant"
  /\ calls # <<>>
  /\ JoinsAfter(Turn("user", [k \in DOMAIN calls |-> Item("ToolResult", calls[k].id, word, NoCarry)],
                     Unsaid))

\* encode, of a request with breakpoints within the budget the capabilities give.
Encode(marks) ==
  LET places == Places(Shape(dialect), turns) IN
  /\ Last(turns).role = "user"
  /\ sent = NotSent
  /\ Cardinality(marks) <= MaxBreakpoints(dialect)
  /\ sent' = [dialect |-> dialect, turns |-> Len(turns), marks |-> marks, places |-> places,
              realised |-> Realised(dialect, places, marks),
              toolsMarked |-> ToolsMarked(dialect, marks)]
  /\ UNCHANGED <<dialect, toolBlock, turns, stopped>>

\* The caller goes on with another provider.
Switch(d) ==
  /\ d # dialect
  /\ sent = NotSent
  /\ dialect' = d
  /\ UNCHANGED <<toolBlock, turns, sent, stopped>>

Segment == 0 .. Len(turns) - (IF HasTools THEN 0 ELSE 1)

WireNext ==
  \/ \E word \in Words : UserSays(word) \/ ToolsReturn(word)
  \/ \E blocks \in Replies[Shape(dialect)], ending \in Endings : ProviderSays(blocks, ending)
  \/ \E marks \in SUBSET Segment : Encode(marks)
  \/ \E d \in Dialects : Switch(d)

WireSpec == WireInit /\ [][WireNext]_wireVars
--------------------------------------------------------------------------------
PlacesFrom(t) == OnlyIn(sent.places, {p \in Range(sent.places) : p.from = t})
BlocksFrom(t) == LET places == PlacesFrom(t)
                 IN  FlattenSeq([k \in DOMAIN places |-> places[k].blocks])

\* What of a reply can go back, in the order the wire has for it.
Due(shape, blocks) ==
  IF shape # "chat" THEN blocks
  ELSE OnlyIn(blocks, {b \in Range(blocks) : b.type = "content" /\ b.data # ""})
         \o OnlyIn(blocks, {b \in Range(blocks) : b.type = "tool_call"})
Readable(shape, b) == b.data \notin IF shape = "chat" THEN {"garbage", "null"} ELSE {"garbage"}

Blank(turn) ==
  /\ HasBody(turn)
  /\ ItemsOf(turn, "ToolCall") = <<>>
  /\ \A k \in DOMAIN turn.items : turn.items[k].kind = "Text" => turn.items[k].data = ""
Misled == Shape(sent.dialect) = "chat" /\ \E t \in 1 .. sent.turns : Blank(turns[t])

\* "Thinking blocks carry a signature that must go back verbatim", "replay the reasoning
\* item exactly as it arrived", "normalisation never deletes": whatever was said in
\* between, and through whichever dialects, what a provider said goes back to it in the
\* order it came, block for block.  Arguments that were not JSON cannot; and Chat
\* Completions has nowhere for reasoning, no message for what is empty, and calls with
\* null arguments come back without any.
\*
\* "Getting this wrong would place a breakpoint on a different message than the planner
\* chose, which is worse than placing none": a breakpoint is on the last place of the
\* turn it was planned for, every one that has a place is there, and there are never more
\* than were planned.  (Chat Completions counts a turn of empty text as a message it does
\* not send: where there is one, what follows is off by one.)
RequestKeepsItsWord ==
  LET shape == Shape(sent.dialect)
      planned == MarkedTurns(sent.marks)
      landed(t) == {k \in sent.realised : sent.places[k].from = t}
  IN  /\ \A t \in 1 .. sent.turns :
           turns[t].said.by # "nobody" /\ ProviderOf(turns[t].said.by) = ProviderOf(sent.dialect) =>
             LET due == Due(shape, turns[t].said.blocks) IN
             /\ Len(BlocksFrom(t)) = Len(due)
             /\ \A k \in DOMAIN BlocksFrom(t) :
                  Readable(shape, due[k]) => BlocksFrom(t)[k] = due[k]
      /\ sent # NotSent /\ MaxBreakpoints(sent.dialect) > 0 /\ ~Misled =>
           /\ \A k \in sent.realised : sent.places[k].from \in planned
           /\ \A t \in planned : PlacesFrom(t) # <<>> =>
                \E k \in landed(t) : \A j \in DOMAIN sent.places :
                  sent.places[j].from = t => j <= k
           /\ Cardinality(sent.realised) + (IF sent.toolsMarked THEN 1 ELSE 0)
                <= Cardinality(sent.marks)
           /\ sent.toolsMarked => toolBlock = "eager"

\* "The difference between an answer and most of an answer", and "something the adapter
\* did not recognise, kept rather than flattened": through whichever dialect, a reply
\* that was cut, with calls in it or not, and no other, is told as unfinished; one that
\* asks for tools says so; a refusal and an unknown ending are not taken for an answer.
\* (Responses has no word for a refusal.)
StopSaysHowItEnded ==
  stopped # NotStopped =>
    /\ (stopped.ending = "cut") <=> ~RunIsComplete(stopped.stop)
    /\ stopped.ending = "asked" => WantsTools(stopped.stop)
    /\ WantsTools(stopped.stop) => stopped.calls
    /\ stopped.ending \in {"strange", "refused"} /\ stopped.stop = "EndTurn" =>
         stopped.ending = "refused" /\ Shape(stopped.by) = "responses"

\* What goes out says what was meant, and so does what is made of what comes in.
RequestSaysWhatWasMeant == RequestKeepsItsWord /\ StopSaysHowItEnded
================================================================================
