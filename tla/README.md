# Frey: a verification development

TLA+ modules, TLC configurations and machine-checked proofs about
[frey](../src/README.md), a Rust framework for agents: a loop that sends a prompt
to a model, runs the tools the model asks for, journals every effect and can
replay the journal, and the parts a program puts around that loop.

* [1. The system](#1-the-system): the inventory of components
* [2. The modules](#2-the-modules): what models what, and the abstractions
* [3. The runs](#3-the-runs): what TLC checks and what it shows
* [4. The proofs](#4-the-proofs)
* [5. What the checks found](#5-what-the-checks-found)
* [6. Not modelled](#6-not-modelled), [7. What is left](#7-what-is-left)

Paths are relative to `src/crates/` unless they begin with `src/`.

## 1. The system

The framework is a stack of crates. `frey-core` holds values; `frey-context`
decides what of a conversation is sent and how tools are found; `frey-providers`
speaks to models; `frey-tools` and `frey-mcp` are tool hosts; `frey-sandbox` decides
under what confinement a program may run; `frey-agent` is the loop and the journal;
`frey-harness`, `frey-a2a` and `frey-cli` are its surfaces; `frey-testkit` stands in
for both ends in tests; `src/xtask` checks the repository itself.

| component | state it keeps | operations | talks to |
|---|---|---|---|
| agent loop, `frey-agent/src/run.rs` | conversation, catalog, last prompt's hashes, call cursor, totals, journal: all local to one future | `Agent::run`: list tools, then per turn segment, budget, plan the cache, complete, dispatch the calls | awaits the tool host twice (list, call) and the provider (complete); calls the next four |
| prompt budget, `frey-context/src/budget.rs` | none | `from_capabilities`, `prompt_ceiling`, `Budgeter::fit` | called once per turn |
| cache planner, `frey-context/src/cache.rs` | `PreviousPrompt`, kept by the loop | `CachePlanner::plan`, `check_lookback` | called once per turn, and by the survey of providers |
| usage ledger, `frey-core/src/usage.rs` | `UsageTotals`, the tally of a model | `record`, `is_complete`, `hit_rate` | called once per answer |
| journal, `frey-agent/src/journal.rs` | entries, events, dropped count | `record`, `record_event`, `totals`, `to_jsonl`, `from_jsonl` | written by the loop, leaves it with the result or in the error |
| replay, same file | the journal and a cursor, under a mutex | `next_response`, `Replaying::complete` | stands in for the provider |
| HTTP transport, `frey-providers/src/{http,sse,streaming}.rs` | attempt counter, decoder buffer, event queue | `send_with_retry`, `complete`, `stream` | the network; three attempts, read timeout |
| delegated agents, `frey-providers/src/agent_cli.rs` | child process, deadline, "finished" flag | `delegate` | a vendor's process |
| provider dialects, `frey-providers/src/{anthropic,openai,openrouter,dialect,marks}.rs` | none | encode and decode a conversation, place breakpoints, read usage, say what a model can do | the transport below, the planner above |
| sub-agents, `frey-agent/src/multi.rs` | none (children are values) | `spawn`, `apply_backpressure` | capability checks of `frey-core` |
| sessions, `frey-harness/src/session.rs` | journal, grants, powers | `new`, `fork`, `observed_untrusted_input` | |
| taint and audit, `frey-core/src/{taint,audit}.rs` | the label and provenance of a value; a global sink, and one slot for a scoped sink per thread | zip, merge, through, downgrade, endorse, declassify, validate; install and drop a sink | every crossing is recorded by the sink in scope |
| tool layers, `frey-tools/src/{layer,registry,lib,builtin}.rs`, `frey-macros`, `frey-core/src/tool_def.rs` | approved calls, registered tools | the attribute's definition, registration, policy, approval, redaction, truncation, validators | wrap a tool host |
| MCP, `frey-mcp/src/{client,server,protocol}.rs` | negotiated version, one catalog per server | `negotiate`, `list_tools`, `call_tool`; `Server::handle` with an await for the definition and one for the call | a peer, over a transport; a toolset that may change |
| A2A, `frey-a2a/src/{card,task}.rs` | card, task status, updates, closed flag | `push`, `replay_from`, approval of a delegation | a peer, and any number of subscribers |
| sandbox, `frey-core/src/sandbox.rs`, `frey-sandbox` | none | required controls, availability of a host, the decision | tools that start a program |
| search, skills and code mode, `frey-context/src/{search,skills,codemode}.rs` | indexes | find by words or pattern, parse a skill, declare a tool to a script | the catalog, the registry |
| frontend and doctor, `frey-harness/src/{agui,doctor}.rs` | none | `project`, `project_stream`; the doctor's checks | the event stream; the survey |
| command line and facade, `frey-cli`, `frey` | none | `doctor`, `timings`, and printing | all of the above |
| test kit, `frey-testkit` | script, cursor and record, behind separate locks, shared by clones | `complete`, `stream`, a toolset that misbehaves on request | stands in for provider and host |
| repository checks, `src/xtask` | a dated file of sweeps, the table of claims | sweep over servers, orphan lint, `claims` | other people's servers, the source tree |

What is hard here, and what would make each part correct:

* *The loop's exits.* Six of them, each of which must close the event stream once
  and hand over the journal. Correct: a stream is closed exactly once, by its last
  event, with the totals the journal supports.
* *Dispatch.* An answer holds several calls; each may be over the cap, unknown,
  forbidden, malformed, or answered by the host in four ways. Correct: every call
  of an answer gets one result, in order, in the conversation, in the events and in
  the journal, and only a vetted call reaches the host.
* *Eviction.* The budgeter drops segments by size; a provider refuses a request in
  which a tool result has lost its call. Correct: what is sent is paired, keeps the
  recent floor, fits, and lacks what the warning says it lacks.
* *Cache marks.* Planned against segment ids, placed by counting turns after
  eviction, then by counting messages of a dialect. Correct: each numbering names the
  same turn, and a run never churns its own prefix.
* *Money and time.* Calls may be unpriced or priced in another currency; whether an
  input total holds what was read from a cache or written to it differs from wire to wire.
  Correct: a total may understate, never silently, and nothing is charged twice.
* *Replay.* Recorded answers must only be given to the requests they answered, from
  a file that may be cut or old.
* *Transport, delegation, peers.* Retries, early ends of a stream, deadlines that
  race the last line, subscribers that reconnect. Correct: a consumer gets what was
  sent, in order, and is told when it is not all.
* *Dialects.* What a provider said must go back to it block for block, through an
  item model that another dialect may have written to in between.
* *Privilege.* Powers narrow down a tree of agents and survive a fork; labels are
  crossed only where a trail hears it, on whichever thread; approval is remembered by
  name while the registry decides what a name means; a path, URL or program is
  compared by its text.
* *Two awaits of a server.* Arguments are checked against what one await listed, and
  the tool is called after the next.
* *Searching.* Positions counted in characters and in bytes; what is indexed, what is
  searched for and what is complained of are three pieces of code.
* *Who is told what.* One failure is rendered for a model, a user, a remote model and
  a log by four pieces of code.
* *Evidence and doubles.* A green check rests on evidence made earlier by another
  program; a test rests on a double shared by agents that cross.

`PROJECT.json` lists these as hazards, each at its line, with the properties
that cover it.

## 2. The modules

| module | models | used by |
|---|---|---|
| `Segments` | the segments of a prompt (`frey-core/src/segment.rs`) and the sums both passes take over them | `Budget`, `CachePlan` |
| `Budget` | `ContextBudget` and `Budgeter::fit` | `AgentRun` |
| `CachePlan` | `CachePlanner::plan`, `PreviousPrompt`, `check_lookback`, the cache capability of a provider | `AgentRun`, `Survey` |
| `Logs` | logs whose records have a kind: what of them is of some kinds, in order | `AgentRun`, `Frontend`, `Yielder` |
| `AgentRun` | `Agent::run`, the journal's recording half, `UsageTotals` | `MCAgentRun`, `ReplayRun`, the proofs |
| `ToolProtocol` | the abstract specification of the loop: what it promises to the model and the tool host | `AgentRun` (`Protocol`), `AgentRunProofs` |
| `ReplayRun` | a recorded run, its file, then the same loop over `Replaying` | `MCReplayRun` |
| `Yielder` | the stream a producer fills and a consumer polls (`frey-providers/src/streaming.rs`) | the next two |
| `HttpTransport` | `HttpProvider`: retries, `complete`, `stream`, and the decoder of its body | `Streams` |
| `Delegation` | `AgentCli::delegate`: a child process under a deadline | `Streams` |
| `Streams` | the two users of `Yielder` side by side | `MCStreams`, `StreamsProofs` |
| `Capabilities` | the order of capabilities, grant sets, session powers (`frey-core/src/capability.rs`) | `AgentTree`, `ToolLayers`, `Sandbox` |
| `AgentTree` | sessions, forks and spawned agents (`session.rs`, `multi.rs`) | `MCAgentTree`, `AgentTreeProofs` |
| `Taint` | labels, crossings and the audit trail (`taint.rs`, `audit.rs`) | `LibraryProofs`, `MCLibraries` |
| `Schema` | the validation of arguments (`frey-core/src/validate.rs`) | `Mcp`, `Discovery` |
| `Mcp` | server, client and the messages between them | `LibraryProofs`, `MCLibraries` |
| `ToolLayers` | attribute, registry, policy, approval, a script's bindings | `LibraryProofs`, `MCLibraries` |
| `Sandbox`, `Search`, `Discovery`, `Skills`, `Survey` | functions of their input: confinement and validators; the pattern search; what is indexed, complained of and declared; skill files; what providers claim and realise of a cache plan, and the doctor's checks | `Admission` (`Sandbox`, `Skills`), `Lookup` (`Search`, `Discovery`), `Failures` (`Search`), `Decisions` (`Survey`) |
| `Admission` | one action per question of what is let in: may this program run, may this path, URL, command or skill be used | `Lookup`, `LibraryProofs` |
| `Lookup` | one action per question of how a tool is found and used: does this pattern find that text, what does a search tell of, what is a script told of a tool | `Decisions`, `LibraryProofs` |
| `Decisions` | the questions of `Admission`, those of `Lookup` and those asked of the survey | `MCLibraries` |
| `Frontend` | `apply_backpressure` and `project_stream` in any order | `LibraryProofs`, `MCLibraries` |
| `Peers` | a peer's card, the approval, the task and its subscribers | `LibraryProofs`, `MCLibraries` |
| `Wire` | a conversation encoded and decoded by three dialects, with its breakpoints | `ReportProofs`, `MCLibraries` |
| `Metering` | usage per adapter, tallies, the clock of a turn, `frey timings` | `ReportProofs`, `MCLibraries` |
| `Evidence` | the sweep, the lint and the claims of `xtask` | `ReportProofs`, `MCLibraries` |
| `Failures` | what a tool says and who hears which part, truncation, redaction | `LibraryProofs`, `MCLibraries` |
| `Doubles` | the scripted model and the fake toolset | `LibraryProofs`, `MCLibraries` |
| `MCLibraries` | the sum of the parts that do not call one another, and their constants | `libraries.cfg` |
| `FoldProofs` | lemmas on sums, folds and logs, by induction in the form of sets | `PromptProofs`, `TranscriptProofs`, `StreamsProofs`, `LibraryProofs`, `ReportProofs` |
| `AgentRunProofs`, `PromptProofs`, `TranscriptProofs`, `StreamsProofs`, `AgentTreeProofs`, `LibraryProofs`, `ReportProofs` | theorems | |
| `MCAgentRun`, `MCReplayRun`, `MCStreams`, `MCAgentTree` | values of the constants | the configurations |

**AgentRun.** The loop is one sequential future, so what interleaves with it is
what its three awaits return. One action is the code between two awaits:

| action | code (`run.rs`) |
|---|---|
| `ListTools`, `ListFails` | the catalog is listed, once |
| `Ask`, `DoesNotFit` | head of the loop, `build_segments`, `fit`, `plan`, `evict_from_turns`, the request; or the budget error |
| `TurnLimit` | the loop ran out of turns |
| `ProviderFails` | `complete` returned an error |
| `FinalAnswer(r)`, `CallsAnswer(r)` | `complete` returned `r`: journal, warnings (`check_lookback` among them), totals, then the end of the run or the dispatch |
| `RefuseCall` | a call over the cap, unknown, forbidden or malformed |
| `CallTool`, `HostAnswers(o, size)` | the call is announced; the host answered |
| `CloseTurn` | all calls settled: the results turn, the next turn |

Every exit goes through `End`, which is `finish()`; `RunErrors` are the errors it can
leave. The answers of provider and host are choices from the constants, so an answer
may contradict itself the way real ones do: calls with `EndTurn`, no calls with
`ToolUse`. The ceiling of a prompt is that of a real `ContextBudget`.

What is abstracted:

* A call id is (turn, place in the answer); providers mint a fresh id per call.
* Text is a label and a size. Two turns have the same hash when label and size
  agree, which is coarser than a content hash: it can only make `ReplayRun` accept
  more.
* Warnings raised together are one `Warned` event holding a set.
* Token counters are left out of the totals: they are sums without a condition, and
  `Metering` has them. Money is a natural number; the ends of `i64` are not reached.
* Arguments are valid or not (`Schema` says when); a tool needs a capability the
  loop's empty grant set does not have, or needs none.
* The loop calls `complete`, so there are no deltas and no dropped events.

**ReplayRun** runs `AgentRun` twice. `Restart` hands the journal of the finished
run, however it ended, to a fresh run from any prompt, if the exit is one that hands
its journal over (`KeepsJournal`). On the way the journal is a file: whole, cut after
any of its lines, or written before entries had content hashes. The second run takes
its answers from `ReplayResponse`, and `ReplayFails` when the next entry is not a
response to this request. Its tools are the real ones, with any outcome.

**Yielder, HttpTransport, Delegation, Streams.** The producer of a stream runs only
inside a poll and `send` never suspends it, so a poll is a sequence of steps
(`consumer = "polling"`) that ends when the producer suspends, returns, or there was
an item to hand out. Between polls the network, the child and the clock move.

| action | code |
|---|---|
| `PollQueued`, `PollProducer`, `PollSpent`, `LastPoll`, `Suspend`, `Wake`, `Drop` | `Collected::poll_next` and its waker; a stream dropped between polls |
| `AttemptAccepted`, `AttemptRetried`, `AttemptFails`, `Resend` | one turn of the loop in `send_with_retry`, and its sleep |
| `EncodeFails`, `KeyMissing`, `CompleteBody` | the failures before the network, the body of `complete` |
| `ReadChunk`, `ReadFails`, `ReadEnds` | the loop of `stream`, with `push`, `finish`, `take_frames` of the decoder |
| `DeliverChunk`, `EndLink` | the network: a body cut anywhere, closed or lost |
| `Spawn`, `SpawnFails`, `Begin`, `ReadLine`, `ReadBroken`, `TimeOut`, `EndOfOutput`, `Reap`, `Abandon` | `delegate`, its reading loop, the wait for the exit status, `kill_on_drop` |
| `WriteLine`, `CloseStdout`, `Exit`, `Expire` | the child and the clock |

A frame is four tokens: text up to a character of several bytes, the first byte of
that character, the rest of the text, and the blank line. That is enough for a cut at
each kind of place: inside text, inside a character, before the blank line, between
frames. Bodies are valid UTF-8. Whether a frame yields an event (a JSON payload) or
not (a comment, `[DONE]`, other text) is its kind; that no proper prefix of a JSON
object parses is taken from JSON. A line of a child is what `parse_event` makes of
it. Items are numbered by the frame or line they came from, so order, loss and
duplication are visible.

**Capabilities, AgentTree.** Capabilities are records and `IsCoveredBy` is
`is_covered_by`, over paths with components; `AgentTree` has one action per operation
(`NewSession`, `Fork`, `Observe`, `Spawn`), a refused spawn changes nothing. `heard`
is a history variable: in whose session outside content entered that is now part of
an agent's context.

**ToolProtocol** knows requests, calls and results only. `AgentRun` implements it
under the mapping `Phase`, `AsksSoFar`, `OwedNow`, `RunningNow`.

**Taint.** A value is its label and provenance; each operation of `taint.rs` is an
action, `Combine` with either half of a zip or a merge. A scoped sink sits in a slot of
its thread and its guard holds what the slot held before; guards may be dropped in any
order and on any thread, which is what `Send` permits. `sources` and `unheard` are
histories.

**Schema, Mcp.** `CheckArguments` reads the subset of JSON Schema the code reads. A
request is handled in the two awaits of `Server::handle`, `DefinitionOf` and the call,
and `OfferChanges` may fall between them; `Moves` and `Answers` name the stages of a
message. Own client, raw peers and foreign servers share one pool of messages.

**ToolLayers.** From what an author wrote to what runs: `Compiles` and `Expand` are
the macro, `BuildDefinition` the builder, `Register` and `RegisterPrefixed` the
registry's rule of one tool per name, `Call` the policy and the approval layer in the
order they wrap, `ApproveForSession` and `Dismiss` the human. A script may only call
what is bound.

**Sandbox, Search, Discovery, Skills, Survey, Admission, Lookup, Decisions.** Pure code is modelled by
operators and checked against definitions of its own written for the purpose: where a
path leads (`Resolve`), which host a URL reaches (`HostReached`), what `re.search` finds
(`ReSearch`). `Admission`, `Lookup` and `Decisions` have one action per question and one
variable, the last question with its answer; the first two are modules of their own because
they are proved about, which the provers can do only in modules that do not reach `Survey`.
Paths are components, URLs single characters, patterns
characters with a width, so that `..`, `@`, a capital and a character of two bytes are
the code's own cases.

**Frontend, Peers, Wire, Metering.** `Frontend` numbers events, so order and loss are
visible through two stages of dropping that a caller may alternate. `Peers` is a task that
may be pushed to after its end and subscribers that ask, lose the connection with question
or answer on the way, and ask again. `Wire` writes blocks as items and items as blocks for
three shapes of dialect and may switch between any two turns; breakpoints are placed with
the code of each shape, and the word a reply ends with is read by each shape's own
decoder. `Metering` keeps what happened (`really`, `worked`) beside what was reported.

**Evidence, Failures, Doubles.** `Evidence` has the steps of a sweep (a watchdog is a
server that says less), the day passing between sweep and check, and the lint over lines
of source. In `Failures` what is said is a set of pieces and each reader picks some. In
`Doubles` a call of the scripted model records its request in one step and takes its turn
in the next, as the locks do.

**The sum.** No code outside tests joins the libraries with one another, so a behaviour
of `MCLibraries` chooses one of them (`library`) and the others stand still. A product
would multiply states that no part can tell apart; a composition would be invented.

## 3. The runs

| run | question | bounds |
|---|---|---|
| `dispatch` | do stream, journal, conversation and host agree on the calls? Does the loop implement `ToolProtocol`? | 2 turns; answers of up to 3 calls against a cap of 2; a call that runs, one with bad arguments, one forbidden *and* malformed; an empty catalog, where no tool exists; all four host outcomes |
| `context` | is what is sent paired, recent, within the ceiling, honestly reported, marked in the right place? | a window of 20 tokens of which 4 are for the answer, which forces evictions in conversations of up to 5 turns of one call each; turns of two sizes, with and without system turn and tool block; an explicit cache with two breakpoints |
| `ledger` | do the totals add up on every exit, and is every cost that is left out announced? Does every run end? | two currencies and no price, two routes, an automatic cache |
| `replay` | is a recorded answer ever given to another request? Does a replay that ends well end where the record did? | 2 turns, two prompt sizes, tools listed or not in either run, a file whole, cut at any line, or without content hashes |
| `streams` | what may a consumer of either stream rely on, however bytes are cut, failures fall and the child, the clock and the consumer interleave? | 3 attempts over one status of each class; 2 frames, cut anywhere; 3 lines of 4 kinds |
| `agent_tree` | do grants narrow and does the untrusted power follow content at any depth? | 4 agents; 7 grant sets that are comparable in every way the order has; 12 wanted capabilities |
| `libraries` | each library by itself: see below | see below |
| `needs_input`, `usage_complete`, `replay_diverges`, `retry_after`, `deadline` | statements of the code base that the code does not keep (section 5) | |

The parts of `libraries`:

| library | property | what it says | bounds |
|---|---|---|---|
| `taint` | `NothingIsLaundered`, `TrailIsComplete` | behind every value that may be acted on or released, each untrusted or secret origin is named by a crossing; once a global sink is there no crossing goes unheard | 4 values, 2 guards, 5 of both together, 2 threads |
| `mcp` | `RanWithWhatItDeclares`, `OnlyWhatWasAskedForRuns`, `ReorderingCostsNothing` | what ran had the arguments its definition promises, and was asked for by one who wanted an answer and gave the input; a reordered listing leaves the catalog as it was | 2 messages, 3 offers of a toolset (one: none), 3 arguments, 6 raw requests, 4 foreign answers |
| `layers` | `WhatRunsWasApproved` | a tool the policy asks about ran only if that very definition was shown | 2 tools, 6 attributes (2 that do not compile), 3 grant sets, 2 sources |
| `decisions` | `NeverQuietlyUnconfined` | nothing is called confined that is not, nothing runs with less than it asked for unless that was accepted and is said | every job over 3 programs, 2 directories and 3 environments, every policy over one scope, every host the code describes |
| | `NothingUngrantedPasses` | a path, URL, program or skill that is accepted leads where something was granted | paths of up to 3 parts, 6 scopes; rests of a URL up to 3 characters of 7, 4 host lists; skill files of up to 3 lines of front matter and 2 of text |
| | `SearchFindsWhatIsThere` | the pattern search is `re.search`; the two tool searches agree, hide nothing below their limit, and find what is not complained of | patterns of 1 or 2 chunks of up to 2 letters, texts of up to 4 letters, one of two bytes; catalogs of up to 4 tools, queries of up to 2 words, limits 0 to 4 |
| | `DeclarationsTellTheTruth` | an argument written as the declaration says is one the validator takes | every type and value of JSON |
| | `AcceptedMarksReachTheWire` | what an adapter accepts of a cache plan is on the wire, and the doctor and the profiles claim no more | every adapter and profile, token sizes around the minima |
| `frontend` | `OnlyDeltasAreLost` | semantic events reach the frontend in order, and what is dropped is counted | 5 events of 3 kinds, capacities 0 to 2 |
| `peers` | `EverySubscriberHearsOneStory` | all subscribers are told prefixes of one story that ends where the task first ended | 3 updates, 2 subscribers |
| `wire` | `RequestSaysWhatWasMeant` | what a provider said goes back to it block for block, breakpoints are on the turns they were planned for, and a reply that was cut, and no other, is told as unfinished | 5 turns, dialect switched at will |
| `metering` | `OnlyWritesAreChargedTwice` | tokens are tallied once whatever the wire counts where, but those written to a cache twice where the input is the total; the phases of a turn add up | 2 metered turns, 2 routes, 3 consumptions, 2 ticks, 2 journal files |
| `evidence` | `GreenMeansEvidenced` | a check that passes has its evidence in the tree, in date, and each variant is built or has its row | 4 listings, 2 lines heard, 2 servers asked, 2 days |
| `failures` | `EachReaderHearsItsOwn` | each audience hears its pieces and no other's; a cut is announced with its size; a log keeps no secret | texts of up to 4 characters, ceilings 0 to 4, previews of 2 bytes |
| `doubles` | `DoublesTellTheTruth` | no turn is played twice or skipped; the record is what was played | scripts of up to 2 turns, 2 testers, 2 tools, 3 calls |

Why the bounds are enough: the properties of dispatch relate neighbouring calls
and the calls of one answer to the next turn, so two turns, and an answer with one
call below, at and over the cap, show every order of verdicts. A prompt loses its
pairing when the scan meets a results turn at the front of what is left, so
conversations are long enough for the budgeter to stop at either side of a pair.
Two currencies and two priced calls are the least that can mismatch; a third lets
the first currency be met again. Two frames are the least in which a chunk can end
one frame and begin the next, and three attempts are the code's own limit; each
passing status can be followed by each other one. Three lines let chatter, a result
and an error come in every order. Four agents are a session, its fork, and a
grandchild under one of them. Two guards on two threads can be dropped in the wrong order
and on the wrong thread; a mixture of three values leaves one more to cross. Two
messages are the least that share a client's catalog or a toolset that changes. Three
updates put one before, one at and one after the end of a task. Five turns are a
question, an answer with calls, its results, an answer of another dialect and a question
after it. Three parts of a path are enough to go in, out and in again, and three
characters of a URL for credentials, host and what ends it. Where
several libraries share a bound, it is that of the smallest case of each.

Deadlock checking is on except in `agent_tree` and `libraries`, libraries whose caller
may stop at any time: elsewhere `Over` and `AtRest` are the only stuttering
steps and only what is finished takes them.

**Exceptions inside properties.** Some statements hold but for a case the code gets
wrong, and then name the case: texts with characters of several bytes
(`SearchFindsWhatIsThere`), blank turns and null arguments of a
call under Chat Completions (`RequestSaysWhatWasMeant`), a server that has no definition of a tool
(`RanWithWhatItDeclares`), a plan whose only mark is on the tools
(`AcceptedMarksReachTheWire`), patterns wrapped over lines (`GreenMeansEvidenced`), tokens
written to a cache on the wires whose input is the total (`OnlyWritesAreChargedTwice`), and
results that the orphan scan takes when the warning is written (`EvictionIsHonest`).
Each is a finding in section 5.

**Fairness.** `Terminates` is checked under `FairSpec`: weak fairness of the loop's
own steps (the future is polled when it is ready) and of the environment's answers.
The code justifies the second for the provider by the read timeout of the HTTP
client (`frey-providers/src/http.rs`, `Timeouts`); for tools it is an assumption on
the host, since the loop puts no deadline on a call. No strong fairness, and no
fairness of any particular answer. `EveryCallEnds` is checked under
`FairSpecOfTidyChild`: the client runs when it can and its consumer keeps polling,
the network answers, ends or is given up on (the read timeout again), time passes,
and a child that has closed its output exits. The last is not in the code; without it
the property fails, which is what `deadline` shows under `FairSpec`. Nothing is assumed
of a child whose output is open: the deadline ends it. A consumer may drop the stream
at any time and need not. The libraries move when they are called: only safety is
checked of them and no fairness is assumed.

**Assumptions about what is outside.** The input that Responses and Chat
Completions report is the total of the request, of which what was read from a cache and what
was written to it are parts. `frey-providers/src/openai.rs:257` says so of one, and the
answer at `frey-providers/src/openrouter.rs:553` is such a one of the other;
`src/notes/dogfood/00-live-provider-findings.md:152` has not seen a live one. A kernel is what
`frey-sandbox/src/probe.rs` describes. Other MCP servers and A2A peers answer as they
like.

## 4. The proofs

Every theorem is about all values of the constants that satisfy the named assumptions
of its modules. TLC evaluates each assumption in the runs.

| assumption | says | justified by |
|---|---|---|
| `CatalogAssumption`, `RequestAssumption`, `AnswerAssumption`, `LimitAssumption`, `SizeAssumption` | there is a catalog and each is a finite set; requests, answers and outcomes are of the right kind; limits, sizes and counts are naturals | types: a `Vec` of definitions, `u32` and `usize` |
| `FloorAssumption` | the floor of recent turns is even | the loop takes `Floors::default`, which is four; section 5 says what an odd one does |
| `CostAssumption`, `RouteAssumption`, `ReplayRouteAssumption` | no cost and no route are not one of those there are; routes are finitely many, and a replay answers under one of them | `Option`; the routes of one program |
| `TransportAssumption`, `DelegationAssumption` | naturals, and statuses that are HTTP statuses | types |
| `TreeAssumption`, `TaintAssumption`, `PeersAssumption`, `FrontendAssumption` | agents, updates and events are bounded by a natural, events have a kind there is, the absence of a sink is not a sink | types |
| `NobodyAssumption`, `JsonAssumption`, `ListingAssumption` | no id is not an id; foreign servers are not our own; JSON has one null; tools are listed in a sequence, under names that can be compared | `Option`; `serde_json` |
| `JobAssumption`, `QuestionAssumption` | programs, policies, paths, URLs and skill files are of the shape the code reads | types |
| `TextAssumption`, `InstalledAssumption` | texts are of the letters there are, and a dot is not one of two bytes; catalogs are finite, names of tools are sequences, limits are naturals, and a schema names a type of JSON or one the code does not know | types; `Schema` on what the code reads |
| `MeteringAssumption` | consumptions are of naturals, and what was thought is part of the output; a line of a file of journals is a journal, blank or something else; turns and the clock are bounded by naturals | types; the providers' own definition of the figures |
| `EvidenceAssumption` | listings, sweeps and tables are sequences, and a row has at most one window; places, days and bounds are naturals; in a file, what is test code stands inside an item under `cfg(test)` | types; the grammar of Rust |
| `WireAssumption` | replies are sequences of blocks of text; no carried block is not one; text has no id of its own in Chat Completions | types; the shape of that answer |
| `OutputAssumption` | outputs are texts of the letters there are; ceilings are naturals | types |
| `DoublesAssumption` | a script is a sequence of turns; no turn and a panic are not turns; tools are finitely many | types |

Requests, sizes, prices, conversations, scripts, paths and URLs may be drawn from infinite
sets, and runs are of any length.

**The loop** (`AgentRunProofs`).

* `TypeCorrect` (`TypeOK`). The type invariant is inductive as stated because it
  also carries what the steps rely on: the cursor `next` is in range and one ahead
  of the results assembled, a run at an await is below its turn limit, and the last
  request is a part of the conversation. Lemmas say what appending one, two or
  three events preserves, and that the segment numbering addresses the turns.
* `StreamClosesOnce` (`StreamIsClosedOnce`). `TypeOK` is needed to know that the
  events a step appends are a sequence; the invariant then distinguishes the exits
  (one `RunFinished` appended to an open log) from all other steps.
* `TranscriptIsAppendOnly`: `[][IsPrefix(events, events')]`.
* `HostIsGuarded` (`HostOnlySeesVettedCalls`): from the verdict at `CallTool`.
* `ImplementsProtocol` (`KeepsProtocol`): `Init` maps to `Protocol!Init` and every
  step to a protocol step or a stutter, one lemma per kind of step.

**What is sent** (`PromptProofs`), from one inductive invariant, `PromptInv`. None of the
five properties is inductive: each speaks of the last request, and what makes the next one
right is the shape of the conversation and what is remembered of the last prompt.
`Conversation` says that calls and results alternate behind the first turns, each results
turn answering the calls before it; `Remembers` that the hashes and ids kept from the last
prompt are those of turns still in the conversation under the same ids.

* `RequestsArePaired` (`PromptIsPaired`). The budgeter keeps an end of the history, and the
  scan drops the results at its front. The floor is whole pairs, so the scan stops before it.
* `FloorIsSent` (`RecentTailIsSent`): from the same lemma about what `fit` keeps.
* `EvictionIsTold` (`EvictionIsHonest`): sums over what is kept, for the ceiling. For the
  warning, `MissingIsNamed` and `OrphansAreMissing`: what is not sent was named or answers
  calls that were, and such answers go, because all that is older went before their calls.
* `MarksLand` (`MarksLandWherePlanned`): the number of a mark's turn among those sent is
  the number of kept segments up to it.
* `PrefixIsStable` (`PrefixNeverChurns`): a segment keeps id and hash as the
  conversation grows, and eviction is never inside what the planner compares.

**What is written down** (`TranscriptProofs`).

* `CallsAreShownInOrder` (`TranscriptFollowsAnswers`) and `ResultsAreInOrder`
  (`ResultsAreAttributable`), from `InStep`: four logs are one story. The calls owed are
  those of all responses; while an answer is dispatched they end with its calls, the settled
  ones reach up to the cursor, and the announced ones are one ahead exactly at the host.
* `SpendIsTrue` (`LedgerIsTrue`), from `Balanced`: the running totals are those of the
  journal, although one is kept by the loop and the other recomputed, and an answer that is
  left out of the cost was told of in its own turn. The lemmas say how the fold that
  totals a journal grows by one response.

**Replay** (`TranscriptProofs`). `ReplaysAreFaithful` (`ReplayIsFaithful`), from `ReplayInv`: what
a replay has answered is a prefix of its script, and a script is responses only as far as it
was replayed. For a recording it says that no response but the last is final, which is
what makes a replay that ends well end where the recording did.

**Streams** (`StreamsProofs`), for any statuses, any number of attempts, bodies and outputs of
any length.

* `RetriesHold` (`RetriesAreJustified`). The property speaks of the history of
  answers, the code of a counter and of predicates on the last error. `RetryInv` ties
  them: counter and history have the same length, a call that still tries has an
  attempt left, one with a body was accepted. `PassingIsRetryable` is the lemma that
  the taxonomy of `from_status` is the list the documentation gives.
* `NoOrphans` (`NoChildOutlivesItsStream`). `ChildInv`: a running child has a live
  producer, and a stream that has ended or was dropped has none.
* `TasksEndWithVerdict` (`EndsWithVerdict`). `VerdictInv`: once the flag is set or the child
  was given up on, a verdict is on its way; a verdict survives whatever is told after it.
* `StreamsDeliver` (`DeliversWhatWasSent`). For a delegated task, `CliDelivery`: what
  was told is the lines read so far that say something. For a body, `HttpDelivery`: bytes
  are at four places (on the wire, in the inbox, in the tail of a character, in the buffer of
  text), and `Decoding` says that together they are the rest of the body, cut at positions
  that ascend, and that the frames before the first cut are what was told.

**Agents** (`AgentTreeProofs`), for any names, grant sets and number of agents.

* `GrantsOnlyNarrow` (`GrantsNarrow`). A spawn compares a child with its parent only;
  the theorem is about every agent above it. It rests on `CoverTransitive`, which rests
  on `PathTransitive`: prefixes, the workspace root and the file-system root compose.
* `UntrustedInputFlowsDown`, `RuleOfTwoAtBirth`, and `TreeTypeCorrect` for the type
  invariant. All four come from one inductive invariant, `TreeInv`; `JoinKeepsTree` says
  once what a new agent has to bring, and each action shows that its agent brings it.

**The libraries** (`LibraryProofs`), each under a specification of its own.

* `NoLaundering` (`NothingIsLaundered`) and `NothingGoesUnheard` (`TrailIsComplete`), from
  `TaintInv`: the type invariant, the property, and that the provenance of a value is whole,
  i.e. names everything it was made from. The last is what a crossing needs: it puts
  the provenance on the trail, and `RecordIsHeard` says what is heard then.
* `ApprovedBeforeItRan` (`WhatRunsWasApproved`), from `LayersInv`. It needs that a name never
  changes what it stands for, which the registry ensures for plain and prefixed
  registration alike and of which the approval layer knows nothing.
* `OneStoryForAll` (`EverySubscriberHearsOneStory`), from `PeersInv`: what a subscriber was
  told, with what is under way to it, is a prefix of the task's updates, and only the
  last of those is terminal.
* `RunsAreChecked` (`RanWithWhatItDeclares`) and `OnlyTheAskedForRuns`
  (`OnlyWhatWasAskedForRuns`), from `McpInv`: a message between the two awaits was checked
  against the definition it carries, so that what the toolset offers by then does not matter.
* `OrderIsForgotten` (`ReorderingCostsNothing`), from `HeardInv`: a catalog is what the last
  listing says, sorted. Each tool has a place of its own and every place is taken
  (`PlacesAreTaken`, by counting), and where no two share a name that place depends only on
  which tools there are (`PlaceAmongTools`), so the order they came in is gone
  (`SortedAlike`).
* `OnlyDeltasGo` (`OnlyDeltasAreLost`), from `FrontendInv`: events stay in ascending order
  through any number of squeezes, each of which keeps what means something and counts
  what it drops.
* `NothingRunsUnconfined` (`NeverQuietlyUnconfined`) and `OnlyGrantedPasses`
  (`NothingUngrantedPasses`): no state is carried here, the work is in the functions. An
  accepted path is followed by `Walk`, a relation between a path and where each of its
  parts leads; `PathsStayInside` shows that the code's lexical normal form leads where the
  walk does. `UrlsStayGranted` follows the first and last of a character in a URL from the
  code's order of searching to the reference's. `LoadedAsWritten` is about a skill file.
* `NoTurnTwice` (`DoublesTellTheTruth`), from `DoublesInv`: the answered calls are a
  bijection with the turns that were taken, and the n-th listing is a function of n.
* `AudiencesAreKeptApart` (`EachReaderHearsItsOwn`), from `FailuresInv`: each reader was told
  nothing or what the outcome under way says to such a reader, and an outcome changes only
  while nobody was told of it. `CutFills` says that a cut ends at the last
  character for which there is room, and what is cut off has the size that is reported.

* `SearchesAreTrue` (`SearchFindsWhatIsThere`). `IsAt` follows the matcher's cursor: the
  chunks so far end at the earliest place where they can, which in plain text is where the
  search goes on, and nowhere when it has given up. Greed is enough because what can end
  early leaves more room (`EndsStayEnds`). `BytesOfText` says when bytes and characters
  agree. For catalogs it is counting: a limit that is not reached hides nothing.
* `DeclarationsAreTrue` (`DeclarationsTellTheTruth`): `TypesAreDeclared` goes through the
  types of JSON, `CheckIs` says what the validator asks of a call.

**Reports** (`ReportProofs`).

* `ChargesAreTrue` (`OnlyWritesAreChargedTwice`), from one invariant over the usage, the
  clock and the journals: totals are sums over the calls a route served, a turn's phases
  partition what was worked in it, and a journal read back has a line for each turn.
  `MedianIs` and `MedianIsMonotone` are about the figures `frey timings` prints.
* `PassingRestsOnEvidence` (`GreenMeansEvidenced`), from `EvidenceInv`: rows say what was seen
  of a server (`SweepInv`), the file has one record a day in the order of days (`FileInv`),
  and a verdict was given for a tree and a file that are still those (`CheckInv`). The lint is
  the hard part: `ReadingIsSound` compares its counting of braces, line by line, with what is
  inside a test module.
* `RequestsAreTrue` (`RequestSaysWhatWasMeant`), from `WireInv`: each turn of an assistant is
  what its reply decodes to, only the first turn is the system's, and a request that is out is
  of the turns that there are. Each turn becomes a part of the request, and each place is
  signed with its turn: `PartIsFound` says that what is signed by a turn is that turn's part,
  so what goes back is what that reply decodes to and encodes to again, which is block for
  block what came. `EndOf` says where in the request a part ends, and `LandingIsRight` that
  counting messages turn by turn, as the adapters do to place a breakpoint, arrives there.

**How data is handled.** The induction theorems of the library take an operator as a
parameter, which the provers cannot instantiate. `FoldProofs` states induction with sets
in its place (over numbers, sequences and finite sets: a set that holds the first and
the next of each holds all) and from it what the other proofs need: that the recursive
functions behind sums, folds and logs exist, what they give for one element more, for a
concatenation, for a part; and what joining a sequence of sequences gives. `Logs` is written
as recursive functions for that reason: `OnlyIn` keeps what of a sequence is in a set, where
a filter by a predicate would say the same.

**Only model-checked.**

* Liveness (`Terminates`, `EveryCallEnds`), and the five refutations.
* `AcceptedMarksReachTheWire`: `Survey` uses the cache planner as an instance with
  parameters, and the prover does not take a module that reaches one.

## 5. What the checks found

Five statements of the code base are refuted by a run:

* `needs_input`: a call the host parks for approval is shown as *finished
  successfully*, while the model and the journal are told it is an error.
* `usage_complete`: after a call priced in a second currency `is_complete()` still
  says the total is complete. The loop does warn (`LedgerIsTrue`).
* `replay_diverges`: a recorded run with a tool call cannot be replayed. The loop
  journals tool results between responses, and replay refuses to meet one.
* `retry_after`: a 429 is retried after the client's own back-off. The error has a field
  for the requested delay and the back-off honours it, but nothing ever fills it.
* `deadline`: the deadline of a delegated task guards the reading of its output only. A
  child that closes its output without a result and stays alive keeps the stream open.

Met while modelling, and in `PROJECT.json` as findings without a run of their own. Where a
property meets one, it names the case and leaves it out.

* Tokens: what was written to a cache is in the total input twice on the wires whose input
  is the total, since only what was read is taken out of it (`openrouter.rs:512`,
  `openai.rs:258`); a cache hit rate is too low there by as much.
* Eviction: results that lose their calls are dropped without a word, after the warning that
  names what went (`run.rs:1016`).
* Bytes and characters: `search.rs:129` adds a position in characters to a length in bytes,
  so a pattern with `.*` looks in the wrong place or panics; `truncate` in `http.rs:201`
  slices a body at a byte and panics inside a character.
* Dialects: provider state is replayed to whichever provider comes next
  (`anthropic.rs:243`); a turn of empty text is counted as a message that is not sent, and
  later breakpoints are off by one (`openrouter.rs:249`); a plan with only the mark of the
  tools is dropped (`openrouter.rs:211`); adapters claim other figures than the profiles.
* MCP: a call is dispatched unchecked when the toolset cannot be listed (`server.rs:259`);
  `isError` and structured content are never read by the client (`client.rs:200`); the
  size of a cut is lost on the way to a remote model (`server.rs:293`).
* Sandbox: a working directory in the read scope is accepted (`policy.rs:54`); on Linux the
  doctor asks about a kernel without landlock, whatever the host (`commands.rs:70`).
* Said and not done: `frey doctor` compares no profiles and asks no registry;
  `schema_hint`, `suggested_tools` and the retry directive have no reader; an entry without
  a content hash is a match like any other (`journal.rs:347`), and the hash leaves out parts
  that are encoded (`journal.rs:382`); decoding is timed as the provider's time
  (`event.rs:271`); `frey timings` does not read the JSONL it names (`commands.rs:206`).
* Discovery: a group whose prefix is one letter is found by `Bm25` under no query for it
  (`search.rs:62`); a skill's text is labelled untrusted whatever `trusted` says, and a YAML
  list of several lines asks for nothing (`skills.rs:118`).
* Repository checks: a second listing that fails counts as no churn (`conformance.rs:252`); a
  sweep that reached nobody is evidence (`conformance.rs:148`); a wrapped pattern builds its
  variant (`producers.rs:180`).
* Test kit: a call beyond the script poisons the locks a test would ask next
  (`scripted.rs:180`).

One comment holds only for the constants the loop uses. `run.rs:998` says that trailing pairs
are never at risk of the orphan scan, because the budgeter never evicts the floor. That needs
a floor of whole pairs: with a floor of three the scan takes the results turn at its front and
`RecentTailIsSent` fails. The loop takes `Floors::default`, which is four, so the model asks
for an even floor (`FloorAssumption`) and no more.

One hazard has no property: a body that is closed cleanly half way ends the stream
without a word (`http.rs:271`). No statement of the code base promises one, so
`DeliversWhatWasSent` speaks of a clean end after a whole body only.

## 6. Not modelled

* I/O and layout: argument parsing and printing of the command line, the report of the
  doctor, `results.md`, wording of errors and advice, spawning of MCP servers by the sweep.
* Mechanisms that are not in the repository: what confines a process, time limits and
  concurrency of a tool host, transports of MCP and A2A.
* Arithmetic of ranking: the scores of `Bm25` (which tools score at all is modelled), rungs of
  the skill index, exact lengths of a back-off (only its order is).
* Values without a condition on them: images, request parameters, payloads
  of events, agent cards beyond what makes one usable, deprecated re-exports.
* The proof-of-type half of taint (a label that cannot be removed is the compiler's work),
  the captured audit of the test kit, reports of what a sandboxed process did.
* Of what is modelled: bodies that are not UTF-8, stderr of a child, journals of an
  older format than the one before content hashes and `verify`, lifetimes of a catalog, and
  the ends of integer ranges.

## 7. What is left

Candidates, in the order they would add most:

1. Bodies that are not UTF-8, through the decoder's lossy end; stderr of a child as a pipe
   with a capacity, with the wait that deadlocks.
2. `Journal::verify` and the older formats beside the file of `ReplayRun`.
3. Proofs: `Survey`, whose use of the cache planner would first have to be restated.
4. Request parameters and images through the dialects, beside `Wire`.
