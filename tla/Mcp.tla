----------------------------------- MODULE Mcp ---------------------------------
(***************************************************************************)
(* The Model Context Protocol both ways round: a stateless server over a   *)
(* toolset (frey-mcp/src/server.rs), the client that keeps a catalog of    *)
(* every server it knows (client.rs), and the messages between them        *)
(* (protocol.rs).                                                          *)
(*                                                                         *)
(* One server is ours; the others are anybody's and answer as they like.   *)
(* Our server also hears raw messages from peers that are not our client.  *)
(* The toolset is external: what it offers, and whether it can be asked at *)
(* all, changes between any two steps.  Tool names are numbers in the      *)
(* order the code sorts them; descriptions, traces and headers are left    *)
(* out.  "heard" and "ran" are histories.                                  *)
(***************************************************************************)
EXTENDS Naturals, Sequences, FiniteSets, SequencesExt, Schema

CONSTANTS
  Own,          \* the server that this code implements
  Foreign,      \* other servers
  Offers,       \* what the toolset may offer, in registration order; and
  Unavailable,  \* when it cannot be asked
  Arguments,    \* JSON values that a caller may send
  PeerRequests, \* messages of a peer
  ForeignResults, \* results of other servers
  Nobody,       \* no id, no method, no name, no catalog, no definition, no result
  MaxMessages   \* bound: messages ever sent

ASSUME NobodyAssumption == Nobody \notin Nat /\ Own \notin Foreign
\* JSON has one null.
ASSUME JsonAssumption ==
  \A args \in Arguments \cup {r.args : r \in PeerRequests} : \A name \in DOMAIN args.fields :
    args.fields[name].type = "null" => args.fields[name] = Null

\* Tools are listed in an order, under names that can be compared.
AreTools(tools) == tools \in Seq(Range(tools)) /\ \A k \in DOMAIN tools : tools[k].name \in Nat
ASSUME ListingAssumption ==
  /\ \A offer \in Offers \ {Unavailable} : AreTools(offer)
  /\ \A result \in ForeignResults : result.kind = "listing" => AreTools(result.tools)

VARIABLES offered, nextId, mail, catalogs, identity, heard, ran

mcpVars == <<offered, nextId, mail, catalogs, identity, heard, ran>>
--------------------------------------------------------------------------------
Servers == {Own} \cup Foreign
MAX_TTL == 2   \* MAX_TTL_MS, an hour, in half hours

\* Request, with the fields that decide what happens to it.
Request(id, method, name, args, answers) ==
  [id |-> id, method |-> method, name |-> name, args |-> args, answers |-> answers]

Failure(code) == [failed |-> TRUE, code |-> code, result |-> Nobody]
Success(result) == [failed |-> FALSE, code |-> "none", result |-> result]
ResultOf(kind, text) == [kind |-> kind, tools |-> <<>>, ttl |-> Nobody,
                         scope |-> "Private", text |-> text]
Listing(tools, ttl, scope) == [kind |-> "listing", tools |-> tools, ttl |-> ttl,
                               scope |-> scope, text |-> "none"]

\* sort_by name, which is stable: a tool stands behind all that come before it.
ComesBefore(tools, i, j) ==
  \/ tools[i].name < tools[j].name
  \/ tools[i].name = tools[j].name /\ i < j
PlaceByName(tools, i) == Cardinality({j \in DOMAIN tools : ComesBefore(tools, j, i)}) + 1
SortedByName(tools) ==
  [k \in DOMAIN tools |-> tools[CHOOSE i \in DOMAIN tools : PlaceByName(tools, i) = k]]

\* dedup_by, after the sort: the first of each name stays.
DedupByName(tools) ==
  SelectSeq([k \in DOMAIN tools |->
               [tool |-> tools[k], kept |-> k = 1 \/ tools[k - 1].name # tools[k].name]],
            LAMBDA t : t.kept)

\* Fault: the listing is kept as it came.
KeptInOrder(tools) == tools
Kept(tools) ==
  LET deduped == DedupByName(SortedByName(tools))
  IN  [k \in DOMAIN deduped |-> deduped[k].tool]

McpInit ==
  /\ offered \in Offers
  /\ nextId = 1
  /\ mail = <<>>
  /\ catalogs = [s \in Servers |-> Nobody]
  /\ identity = [s \in Servers |-> Nobody]
  /\ heard = [s \in Servers |-> Nobody]
  /\ ran = {}

Send(from, server, request) ==
  /\ Len(mail) < MaxMessages
  /\ mail' = Append(mail, [from |-> from, server |-> server, request |-> request,
                           stage |-> "sent", known |-> Nobody, reply |-> Nobody])

\* McpClient::call, behind negotiate, list_tools and call_tool: the ids of one client
\* are never used twice, and no answer to a request for input can be attached.
ClientCalls(server, method, name, args) ==
  /\ Send("client", server, Request(nextId, method, name, args, FALSE))
  /\ nextId' = nextId + 1
  /\ UNCHANGED <<offered, catalogs, identity, heard, ran>>

Negotiate(server) == ClientCalls(server, "server/discover", Nobody, Null)
ListTools(server) == ClientCalls(server, "tools/list", Nobody, Null)
CallTool(server, name, args) == ClientCalls(server, "tools/call", name, args)

PeerSends(request) ==
  /\ Send("peer", Own, request)
  /\ UNCHANGED <<offered, nextId, catalogs, identity, heard, ran>>

OfferChanges(offer) ==
  /\ offered' = offer
  /\ UNCHANGED <<nextId, mail, catalogs, identity, heard, ran>>
--------------------------------------------------------------------------------
\* definition_of: a toolset that cannot be asked knows no tool, and so does one that
\* does not list it.
DefinitionOf(name) ==
  IF offered = Unavailable \/ ~\E k \in DOMAIN offered : offered[k].name = name
  THEN Nobody
  ELSE SelectSeq(offered, LAMBDA d : d.name = name)[1]

\* Server::list_tools
OwnListing ==
  IF offered = Unavailable THEN Failure("INTERNAL_ERROR")
  ELSE Success(Listing(SortedByName(offered), 1, "Private"))

Moves(k, stage, known, reply) ==
  mail' = [mail EXCEPT ![k].stage = stage, ![k].known = known, ![k].reply = reply]

Answers(k, reply) == Moves(k, "answered", mail[k].known, reply)

IsNotification(request) == request.id = Nobody

\* Server::handle up to its second await: a call is checked against the definition the
\* toolset lists now, and dispatched later.
Handle(k) ==
  LET message == mail[k]
      request == message.request
      known == DefinitionOf(request.name)
  IN
  /\ message.server = Own
  /\ message.stage = "sent"
  /\ \/ /\ IsNotification(request)
        /\ Moves(k, "ignored", Nobody, Nobody)
     \/ /\ ~IsNotification(request)
        /\ \/ request.method = Nobody /\ Answers(k, Failure("INVALID_REQUEST"))
           \/ /\ request.method \in {"server/discover", "initialize"}
              /\ Answers(k, Success(ResultOf("identity", "none")))
           \/ request.method = "tools/list" /\ Answers(k, OwnListing)
           \/ /\ request.method = "tools/call"
              /\ IF request.name = Nobody THEN Answers(k, Failure("INVALID_PARAMS"))
                 ELSE IF known # Nobody /\ ~CheckArguments(known.schema, request.args)
                 THEN Answers(k, Success(ResultOf("tool_error", "InvalidArgs")))
                 ELSE Moves(k, "checked", known, Nobody)
           \/ request.method = "other" /\ Answers(k, Failure("METHOD_NOT_FOUND"))
  /\ UNCHANGED <<offered, nextId, catalogs, identity, heard, ran>>

\* Fault: the tool is told that it was answered.
ResumedAlways(request) == TRUE
\* Server::call_tool attaches a Resume only where the request carries answers.
Resumed(request) == request.answers

\* Toolset::call and what it is made of: a tool that is gone fails, one that wants
\* input and was given none asks for it, one that can no longer be reached may fail.
Dispatch(k) ==
  LET message == mail[k]
      request == message.request
      tool == DefinitionOf(request.name)
  IN
  /\ message.stage = "checked"
  /\ \/ /\ Answers(k, Success(ResultOf("tool_error", "Failed")))
        /\ ran' = ran
     \/ /\ tool # Nobody /\ tool.asks /\ ~Resumed(request)
        /\ Answers(k, Success(ResultOf("input_required", "token")))
        /\ ran' = ran
     \/ /\ tool # Nobody /\ tool.asks => Resumed(request)
        /\ tool # Nobody \/ offered = Unavailable
        /\ Answers(k, Success(ResultOf("content", "none")))
        /\ ran' = ran \cup {[request |-> request, known |-> message.known,
                             asks |-> tool # Nobody /\ tool.asks]}
  /\ UNCHANGED <<offered, nextId, catalogs, identity, heard>>

\* Another server answers as it likes.
ForeignAnswers(k, reply) ==
  /\ mail[k].server \in Foreign
  /\ mail[k].stage = "sent"
  /\ Answers(k, reply)
  /\ UNCHANGED <<offered, nextId, catalogs, identity, heard, ran>>

\* TransportError
TransportFails(k) ==
  /\ mail[k].from = "client"
  /\ mail[k].stage \in {"sent", "answered"}
  /\ Moves(k, "lost", mail[k].known, mail[k].reply)
  /\ UNCHANGED <<offered, nextId, catalogs, identity, heard, ran>>
--------------------------------------------------------------------------------
\* to_definition
Namespaced(server, tool) == [name |-> <<server, tool.name>>, schema |-> tool.schema]

\* McpClient::list_tools, of a result that is a listing.
Catalog(server, result) ==
  [server |-> server,
   tools |-> LET kept == Kept(result.tools)
             IN  [k \in DOMAIN kept |-> Namespaced(server, kept[k])],
   ttl |-> IF result.ttl = Nobody THEN Nobody
           ELSE IF result.ttl < MAX_TTL THEN result.ttl ELSE MAX_TTL,
   scope |-> result.scope]

Identity(reply) ==
  IF reply.failed THEN [version |-> "2025-11-25", stateless |-> FALSE]
  ELSE [version |-> "2026-07-28", stateless |-> TRUE]

\* The client reads the answer.  A result that asks for input is an error of the call
\* whatever was called; a listing is kept by CatalogCache::insert, over the previous.
ClientReads(k) ==
  LET message == mail[k]
      reply == message.reply
      server == message.server
      method == message.request.method
      complete == ~reply.failed /\ reply.result.kind \notin {"input_required", "malformed"}
      negotiated == complete \/ reply.code = "METHOD_NOT_FOUND"
  IN
  /\ message.from = "client"
  /\ message.stage = "answered"
  /\ Moves(k, "done", message.known, reply)
  /\ IF method = "tools/list" /\ complete /\ reply.result.kind = "listing"
     THEN /\ catalogs' = [catalogs EXCEPT ![server] = Catalog(server, reply.result)]
          /\ heard' = [heard EXCEPT ![server] = reply.result]
     ELSE UNCHANGED <<catalogs, heard>>
  /\ IF method = "server/discover" /\ negotiated
     THEN identity' = [identity EXCEPT ![server] = Identity(reply)]
     ELSE identity' = identity
  /\ UNCHANGED <<offered, nextId, ran>>

McpNext ==
  \/ \E s \in Servers : Negotiate(s) \/ ListTools(s)
  \/ \E s \in Servers, name \in 1 .. 2, args \in Arguments : CallTool(s, name, args)
  \/ \E request \in PeerRequests : PeerSends(request)
  \/ \E offer \in Offers : OfferChanges(offer)
  \/ \E k \in DOMAIN mail :
       \/ Handle(k)
       \/ Dispatch(k)
       \/ \E r \in ForeignResults : ForeignAnswers(k, Success(r))
       \/ ForeignAnswers(k, Failure("METHOD_NOT_FOUND"))
       \/ TransportFails(k)
       \/ ClientReads(k)

McpSpec == McpInit /\ [][McpNext]_mcpVars
--------------------------------------------------------------------------------
\* "Validate against the tool's own declared schema before dispatching, exactly as the
\* agent loop does": a tool whose definition the server could find runs only with what
\* that definition promises its author - required fields that are there, fields of the
\* declared type, and no field it does not accept.  (When the listing fails the call
\* is dispatched unchecked, which the agent loop never does.)
RanWithWhatItDeclares ==
  \A run \in ran :
    LET schema == run.known.schema
        fields == run.request.args.fields
    IN  run.known # Nobody =>
          /\ \A name \in schema.required :
               name \in DOMAIN fields /\ fields[name].type # "null"
          /\ schema.declares => \A name \in DOMAIN fields :
               IF name \notin DOMAIN schema.properties THEN ~schema.closed
               ELSE LET spec == schema.properties[name] IN
                    fields[name].type # "null" =>
                      /\ \/ spec.type \in {"any", fields[name].type}
                         \/ spec.type = "number" /\ fields[name].type \in {"integer", "fraction"}
                      /\ spec.restricted => fields[name] \in spec.choices

\* JSON-RPC forbids answering a notification, and "an absent answer is not a yes":
\* nothing runs for a message that wants no answer, and a tool that wants input runs to
\* its end only for a caller that sent it, whoever calls and whatever changes between
\* the check and the call.
OnlyWhatWasAskedForRuns ==
  /\ \A run \in ran : run.request.id # Nobody /\ (run.asks => run.request.answers)
  /\ \A k \in DOMAIN mail : mail[k].request.id = Nobody => mail[k].reply = Nobody

\* "A server that reorders its listing would otherwise rewrite the tool block's hash
\* every turn": a listing with the same tools, none of them twice, in any order, leaves
\* the catalog as it is.
Distinctly(tools) == \A i, j \in DOMAIN tools : tools[i].name = tools[j].name => i = j
ReorderingCostsNothing ==
  [][\A s \in Servers :
       /\ heard[s] # Nobody
       /\ heard'[s] # Nobody
       /\ Distinctly(heard[s].tools) /\ Distinctly(heard'[s].tools)
       /\ ToSet(heard[s].tools) = ToSet(heard'[s].tools)
       => catalogs'[s].tools = catalogs[s].tools]_mcpVars
================================================================================
