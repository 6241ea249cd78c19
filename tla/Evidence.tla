-------------------------------- MODULE Evidence -------------------------------
(***************************************************************************)
(* What the repository checks about itself (xtask): the sweep over servers *)
(* in the wild and the file it keeps (conformance.rs), the lint for        *)
(* variants that nothing builds (producers.rs), and the table of claims    *)
(* that rests on both (claims.rs, main.rs).                                *)
(*                                                                         *)
(* A line of a server is what the loop that reads it makes of it: an       *)
(* answer to the first request, a listing, or noise; a server that dies,   *)
(* is killed by a watchdog (its own or that of an earlier process with its *)
(* number), or says no more has simply said less.  A line of source is     *)
(* what the lint looks at: how it begins, the braces it opens and closes,  *)
(* and the variants it names left and right of an arrow.  Patterns that    *)
(* wrap over lines are left out: there the lint takes a pattern for a      *)
(* construction.                                                           *)
(***************************************************************************)
EXTENDS Naturals, Sequences, SequencesExt, FiniteSets, FiniteSetsExt, Functions, Folds, Logs

CONSTANTS
  Listed,       \* what tools/list may answer: sequences of tools
  Sweeps,       \* what a sweep may be asked for: all of the targets or one
  Checks,       \* tables of claims, each with a tree it is checked against
  Unreadable,   \* a table that does not parse
  MaxHeard,     \* bound: lines read of one process
  MaxProbes,    \* bound: servers asked, in all sweeps together
  MaxDay        \* bound: the last day

VARIABLES today, records, todo, rows, seen, probes, swept, verdict

evidenceVars == <<today, records, todo, rows, seen, probes, swept, verdict>>
--------------------------------------------------------------------------------
\* One process: everything is asked at once, then lines are read until the tools are there.
Noise == [answers |-> "nothing", tools |-> <<>>]
Discovered == [answers |-> "first", tools |-> <<>>]
ToolsAnswer(tools) == [answers |-> "second", tools |-> tools]
ServerLines == {Noise, Discovered} \cup {ToolsAnswer(tools) : tools \in Listed}

HeardOf(said) ==
  LET ends == {i \in DOMAIN said : said[i].answers = "second"} IN
    IF ends = {} THEN said ELSE SubSeq(said, 1, CHOOSE i \in ends : \A j \in ends : i <= j)

\* list_tools: no tools and no answer is an error, also when a handshake was made.
AskForTools(stateless, said) ==
  LET heard == HeardOf(said)
      answered == \E i \in DOMAIN heard : heard[i].answers = "first"
      tools == IF heard # <<>> THEN Last(heard).tools ELSE <<>>
  IN [asked |-> stateless, stateless |-> stateless /\ answered, tools |-> tools,
      ok |-> tools # <<>> \/ (stateless /\ answered)]

\* describe_churn: names first, then the first field of the first tool that moved; a field
\* that the first listing did not have is not looked for.
NamesIn(tools) == [i \in DOMAIN tools |-> tools[i].name]
\* Two listings that are the same once they are sorted.
Often(names, x) == Cardinality({i \in DOMAIN names : names[i] = x})
SameNames(a, b) == \A x \in Range(a) \cup Range(b) : Often(a, x) = Often(b, x)
NoChurn == [what |-> "none", gained |-> {}, lost |-> {}, at |-> 0, key |-> "none"]
FieldThatMoved(x, y) ==
  CASE x.description # y.description -> "description"
    [] x.description = y.description /\ x.schema \notin {"none", y.schema} -> "inputSchema"
    [] OTHER -> "none"
DescribeChurn(first, second) ==
  LET a == NamesIn(first)
      b == NamesIn(second)
      moved == {i \in DOMAIN first \cap DOMAIN second : first[i] # second[i]}
      at == CHOOSE i \in moved : \A j \in moved : i <= j
  IN CASE a # b /\ SameNames(a, b) -> [NoChurn EXCEPT !.what = "order"]
       [] a # b /\ ~SameNames(a, b) ->
            [NoChurn EXCEPT !.what = "set", !.gained = Range(b) \ Range(a),
                            !.lost = Range(a) \ Range(b)]
       [] OTHER ->
            [NoChurn EXCEPT !.what = "field", !.at = at,
                            !.key = FieldThatMoved(first[at], second[at])]

\* Row
Row(target) ==
  [target |-> target, reached |-> FALSE, stateless |-> FALSE, tools |-> 0, bad |-> 0,
   unfindable |-> 0, churns |-> FALSE, detail |-> NoChurn]
\* Fault: a second listing that failed is one that differs.
ChurnsUnseen(first, second) == second # first
\* A second listing that failed is taken for one without tools.
Churns(first, second) == second # <<>> /\ second # first
Measured(target, first, again) ==
  LET second == IF again.ok THEN again.tools ELSE <<>>
      churns == Churns(first.tools, second)
  IN [target |-> target, reached |-> TRUE, stateless |-> first.stateless,
      tools |-> Len(first.tools),
      bad |-> Cardinality({i \in DOMAIN first.tools : first.tools[i].schema # "object"}),
      unfindable |-> Cardinality({i \in DOMAIN first.tools : first.tools[i].description < 5}),
      churns |-> churns,
      detail |-> IF churns THEN DescribeChurn(first.tools, second) ELSE NoChurn]

\* A line of the table: a dash, written {}, where nothing was measured.
ShownAs(row) ==
  LET IfReached(v) == IF row.reached THEN {v} ELSE {} IN
    [target |-> row.target, reached |-> row.reached, stateless |-> IfReached(row.stateless),
     tools |-> IfReached(row.tools), unfindable |-> IfReached(row.unfindable),
     bad |-> IfReached(row.bad), churns |-> IfReached(row.churns)]

\* The dated record, and the file in which it replaces the record of its own day.
RecordOf(day, rs) ==
  [day |-> day, targets |-> Len(rs), reached |-> Cardinality({i \in DOMAIN rs : rs[i].reached}),
   stateless |-> Cardinality({i \in DOMAIN rs : rs[i].stateless}),
   churning |-> Cardinality({i \in DOMAIN rs : rs[i].churns}),
   tools |-> SumFunction([i \in DOMAIN rs |-> rs[i].tools])]
OtherDays(file, day) ==
  LET places == Ascending(Len(file), {i \in DOMAIN file : file[i].day # day})
  IN  [k \in DOMAIN places |-> file[places[k]]]
AppendRecord(file, day, record) == Append(OtherDays(file, day), record)
--------------------------------------------------------------------------------
\* A line for the lint.  Mentions of a variant are pairs of what qualifies it and its name;
\* "tests", whether the line is part of a test, is for the property.
Code(begins, opens, closes, left, arrow, right, tests) ==
  [begins |-> begins, opens |-> opens, closes |-> closes, left |-> left, arrow |-> arrow,
   right |-> right, tests |-> tests]

\* The item after an attribute is over when its own braces are closed, or those around it.
Opened(body, a, n) == SumFunction([m \in (a + 1) .. n |-> body[m].opens])
Closed(body, a, n) == SumFunction([m \in (a + 1) .. n |-> body[m].closes])
IsOver(body, a, n) ==
  \/ Closed(body, a, n) > Opened(body, a, n)
  \/ Closed(body, a, n) = Opened(body, a, n) /\ Opened(body, a, n) > 0

\* A file: an attribute stands on a line of its own, and what is part of a test is the
\* item after one.
IsSource(body) ==
  /\ body \in Seq(Range(body))
  /\ \A i \in DOMAIN body :
       /\ body[i].opens \in Nat /\ body[i].closes \in Nat
       /\ body[i].begins = "cfg(test)" => body[i].opens = 0 /\ body[i].closes = 0
       /\ body[i].tests =>
            \E a \in 1 .. i : /\ body[a].begins = "cfg(test)"
                             /\ \A m \in (a + 1) .. (i - 1) : ~IsOver(body, a, m)

\* What a server lists, what a sweep asks and what a table holds come in an order; a row
\* has one window, if it has any.
ASSUME EvidenceAssumption ==
  /\ MaxHeard \in Nat /\ MaxProbes \in Nat /\ MaxDay \in Nat
  /\ \A tools \in Listed : tools \in Seq(Range(tools))
  /\ \A targets \in Sweeps : targets \in Seq(Range(targets))
  /\ \A asked \in Checks :
       /\ asked.table # Unreadable =>
            /\ asked.table \in Seq(Range(asked.table))
            /\ \A c \in Range(asked.table) :
                 c.window = {} \/ \E n \in c.window : n \in Nat /\ c.window = {n}
       /\ \A f \in DOMAIN asked.tree.files : IsSource(asked.tree.files[f])

\* depth.saturating_sub
DepthAfter(depth, line) ==
  IF depth + line.opens > line.closes THEN depth + line.opens - line.closes ELSE 0

\* strip_test_modules: from the attribute to the end of the item it stands on.
Reading == [skips |-> FALSE, depth |-> 0, entered |-> FALSE]
Skip(s, line) ==
  LET entered == s.entered \/ s.depth + line.opens > 0
      depth == DepthAfter(s.depth, line)
  IN [skips |-> ~(entered /\ depth = 0), depth |-> depth, entered |-> entered]
ReadOn(s, line) ==
  CASE s.skips -> Skip(s, line)
    [] ~s.skips /\ line.begins = "cfg(test)" -> [Reading EXCEPT !.skips = TRUE]
    [] OTHER -> s
\* What is left of a file; nothing asks for its order.
StripTestModules(body) ==
  LET after[n \in 0 .. Len(body)] == IF n = 0 THEN Reading ELSE ReadOn(after[n - 1], body[n])
  IN {body[n] : n \in {k \in DOMAIN body : ~after[k - 1].skips /\ body[k].begins # "cfg(test)"}}

\* declared_enums: what begins with a capital at depth one of an enum.
DeclaredVariants(body) ==
  LET Step(s, line) ==
        IF s.enum = "none"
        THEN IF line.begins = "enum"
             THEN [s EXCEPT !.enum = line.left[1][1], !.depth = IF line.opens > 0 THEN 1 ELSE 0]
             ELSE s
        ELSE LET left == DepthAfter(s.depth, line)
             IN [enum |-> IF left = 0 THEN "none" ELSE s.enum, depth |-> left,
                 found |-> IF s.depth = 1 /\ line.begins = "capital"
                           THEN s.found \cup {<<s.enum, line.left[1][2]>>} ELSE s.found]
  IN FoldLeft(Step, [enum |-> "none", depth |-> 0, found |-> {}], body).found

\* builds: left of an arrow is a pattern, right of it a construction.
Builds(line, needle) ==
  /\ line.begins \notin {"bar", "if let", "matches", "let ref"}
  /\ \/ ~line.arrow /\ needle \in Range(line.left)
     \/ line.arrow /\ needle \notin Range(line.left) /\ needle \in Range(line.right)

IsConstructed(files, enum, variant) ==
  \E f \in DOMAIN files :
    LET production == StripTestModules(files[f])
        declares == \E d \in production : d.begins = "enum" /\ d.left[1][1] = enum
    IN \E line \in production :
         /\ line.begins # "comment"
         /\ \/ Builds(line, <<enum, variant>>)
            \/ declares /\ Builds(line, <<"Self", variant>>)

\* sweep
Swept == {"Warning", "Item"}
Orphans(files) ==
  {v \in UNION {DeclaredVariants(files[f]) : f \in DOMAIN files} :
     v[1] \in Swept /\ ~IsConstructed(files, v[1], v[2])}
--------------------------------------------------------------------------------
\* The table of claims.
Claim(id, status, kind, by, window, orphan) ==
  [id |-> id, status |-> status, kind |-> kind, by |-> by, window |-> window, orphan |-> orphan]
NeedsEvidence(claim) == claim.status \in {"settled", "operated"}
AcknowledgedOrphans(table) == UNION {table[i].orphan : i \in DOMAIN table}

\* newest_record_day
NewestRecordDay(file) == Max({file[i].day : i \in DOMAIN file})
Since(day, now) == IF now > day THEN now - day ELSE 0
Stale(claim, file, now) == claim.window # {} /\ Since(NewestRecordDay(file), now) > Max(claim.window)

\* What is wrong with the evidence of a claim.
EvidenceMissing(claim, tree, file, now) ==
  CASE claim.kind = "test" -> claim.by \notin tree.functions
    [] claim.kind = "doctest" -> claim.by \notin tree.compileFail
    [] claim.kind = "results" -> file = <<>> \/ Stale(claim, file, now)
    [] OTHER -> claim.kind # "none"

\* check, row by row.
ProblemsOf(table, tree, file, now) ==
  {<<i, "twice">> : i \in {j \in DOMAIN table : \E k \in 1 .. (j - 1) : table[k].id = table[j].id}}
  \cup {<<i, "unsettled">> : i \in {j \in DOMAIN table :
           NeedsEvidence(table[j]) /\ table[j].kind = "none"}}
  \cup {<<i, "no window">> : i \in {j \in DOMAIN table :
           table[j].status = "operated" /\ table[j].kind # "none" /\ table[j].window = {}}}
  \cup {<<i, "evidence">> : i \in {j \in DOMAIN table : EvidenceMissing(table[j], tree, file, now)}}

\* run_producers: a table that does not parse acknowledges nothing.
Unacknowledged(table, tree) ==
  Orphans(tree.files) \ (IF table = Unreadable THEN {} ELSE AcknowledgedOrphans(table))
ProducersPass(table, tree) == tree.readable /\ Unacknowledged(table, tree) = {}
ClaimsPass(table, tree, file, now) ==
  table # Unreadable /\ ProblemsOf(table, tree, file, now) = {}
--------------------------------------------------------------------------------
NoTree == [files |-> <<>>, functions |-> {}, compileFail |-> {}, readable |-> FALSE]
NotAsked == [green |-> FALSE, table |-> Unreadable, tree |-> NoTree]

EvidenceInit ==
  /\ today = 0 /\ records = <<>> /\ todo = <<>> /\ rows = <<>> /\ seen = <<>>
  /\ probes = 0 /\ swept = {} /\ verdict = NotAsked

Idle == todo = <<>> /\ rows = <<>>
\* A first attempt that failed, or a listing to be compared with a second one.
Probing == seen # <<>> /\ (Len(seen) = 1 \/ (Len(seen) = 2 /\ ~seen[1].ok /\ seen[2].ok))

\* cargo xtask conformance, of every target or of one.
StartSweep(targets) ==
  /\ Idle
  /\ probes + Len(targets) <= MaxProbes
  /\ probes' = probes + Len(targets)
  /\ todo' = targets /\ verdict' = NotAsked
  /\ UNCHANGED <<today, records, rows, seen, swept>>

\* probe, first without a handshake.
AskFirst(said) ==
  /\ todo # <<>> /\ ~Probing
  /\ seen' = <<AskForTools(TRUE, said)>>
  /\ UNCHANGED <<today, records, todo, rows, probes, swept, verdict>>

\* A server that answers neither way is a row of its own.
AskWithHandshake(said) ==
  /\ Probing /\ ~Last(seen).ok
  /\ LET second == AskForTools(FALSE, said) IN
       /\ seen' = Append(seen, second)
       /\ rows' = IF second.ok THEN rows ELSE Append(rows, Row(Head(todo)))
       /\ todo' = IF second.ok THEN todo ELSE Tail(todo)
  /\ UNCHANGED <<today, records, probes, swept, verdict>>

\* Once more, in the way the first listing says it was had.
AskAgain(said) ==
  /\ Probing /\ Last(seen).ok
  /\ LET again == AskForTools(Last(seen).stateless, said) IN
       /\ seen' = Append(seen, again)
       /\ rows' = Append(rows, Measured(Head(todo), Last(seen), again))
  /\ todo' = Tail(todo)
  /\ UNCHANGED <<today, records, probes, swept, verdict>>

\* The dated record; or it cannot be written, and the sweep fails.
CloseSweep(written) ==
  /\ todo = <<>> /\ rows # <<>>
  /\ rows' = <<>> /\ seen' = <<>>
  /\ records' = IF written THEN AppendRecord(records, today, RecordOf(today, rows)) ELSE records
  /\ swept' = IF written THEN swept \cup {today} ELSE swept
  /\ UNCHANGED <<today, todo, probes, verdict>>

NextDay ==
  /\ Idle /\ today < MaxDay
  /\ today' = today + 1 /\ verdict' = NotAsked
  /\ UNCHANGED <<records, todo, rows, seen, probes, swept>>

\* cargo xtask check
CheckAll(table, tree) ==
  /\ Idle /\ verdict = NotAsked
  /\ verdict' = [table |-> table, tree |-> tree,
                 green |-> /\ ProducersPass(table, tree)
                           /\ ClaimsPass(table, tree, records, today)]
  /\ UNCHANGED <<today, records, todo, rows, seen, probes, swept>>

EvidenceNext ==
  \/ \E targets \in Sweeps : StartSweep(targets)
  \/ \E said \in SeqOf(ServerLines, MaxHeard) :
       AskFirst(said) \/ AskWithHandshake(said) \/ AskAgain(said)
  \/ \E written \in BOOLEAN : CloseSweep(written)
  \/ NextDay
  \/ \E asked \in Checks : CheckAll(asked.table, asked.tree)

EvidenceSpec == EvidenceInit /\ [][EvidenceNext]_evidenceVars
--------------------------------------------------------------------------------
\* A row says what was seen of its server: it was reached if a process answered, it is
\* stateless if the first process answered without a handshake, it churns if a second
\* process listed tools and they are not those of the first, and the detail is true of the
\* two; a row of a server that was not reached says nothing (the table of conformance.rs).
DetailIsTrue(detail, first, second) ==
  /\ detail.what = "order" =>
       NamesIn(first) # NamesIn(second) /\ Range(NamesIn(first)) = Range(NamesIn(second))
  /\ detail.what = "set" =>
       Range(NamesIn(second)) = (Range(NamesIn(first)) \ detail.lost) \cup detail.gained
  /\ detail.what = "field" =>
       NamesIn(first) = NamesIn(second) /\ first[detail.at] # second[detail.at]
RowIsTrue(row, answers) ==
  LET first == answers[Len(answers) - 1].tools
      second == Last(answers).tools
      line == ShownAs(row)
  IN /\ row.reached <=> \E i \in 1 .. (Len(answers) - 1) : answers[i].ok
     /\ ~row.reached => line.churns = {} /\ line.stateless = {} /\ line.tools = {}
     /\ row.stateless => answers[1].stateless
     /\ row.churns => second # <<>> /\ first # second
     /\ DetailIsTrue(row.detail, first, second)
RowSaysWhatWasSeen == seen # <<>> /\ ~Probing => RowIsTrue(Last(rows), seen)

\* Sweeps of earlier days stay in the file, and one of a day takes the place of the last
\* of that day (append_record).
HistoryIsKept ==
  /\ {records[i].day : i \in DOMAIN records} = swept
  /\ \A i, j \in DOMAIN records : records[i].day = records[j].day => i = j

\* A variant that a line of the program builds: no test, no comment, no pattern; "Self" is
\* what the file declares.
DeclaredThere(file, enum) ==
  \E d \in Range(file) : ~d.tests /\ d.begins = "enum" /\ d.left[1][1] = enum
ReallyBuilt(files, v) ==
  \E f \in DOMAIN files : \E line \in Range(files[f]) :
    /\ ~line.tests
    /\ line.begins \notin {"comment", "bar", "if let", "matches", "let ref"}
    /\ \E m \in Range(IF line.arrow THEN line.right ELSE line.left) :
         \/ m = <<v[1], v[2]>>
         \/ m = <<"Self", v[2]>> /\ DeclaredThere(files[f], v[1])

\* A check that passes rests on evidence that is there: the test and the doctest are in the
\* tree, a sweep was made within the window, no two rows have a name, and every variant of a
\* swept enum is built by the program or has a row that says why not (claims.rs,
\* producers.rs).
ClaimsRest(table, tree) ==
  \A c \in Range(table) :
    /\ NeedsEvidence(c) =>
         \/ c.kind = "test" /\ c.by \in tree.functions
         \/ c.kind = "doctest" /\ c.by \in tree.compileFail
         \/ c.kind = "results" /\ \E s \in swept : \A w \in c.window : today - s <= w
    /\ c.status = "operated" => c.window # {}
NamesDiffer(table) == Cardinality({c.id : c \in Range(table)}) = Len(table)
VariantsAreBuilt(table, tree) ==
  \A f \in DOMAIN tree.files : \A v \in DeclaredVariants(tree.files[f]) :
    v[1] \in Swept =>
      ReallyBuilt(tree.files, v) \/ \E c \in Range(table) : v \in c.orphan
GreenMeansEvidenced ==
  /\ RowSaysWhatWasSeen /\ HistoryIsKept
  /\ verdict.green =>
       /\ ClaimsRest(verdict.table, verdict.tree)
       /\ NamesDiffer(verdict.table)
       /\ VariantsAreBuilt(verdict.table, verdict.tree)
================================================================================
