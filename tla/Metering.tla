-------------------------------- MODULE Metering -------------------------------
(***************************************************************************)
(* What the calls of a run used and where its time went: how each adapter  *)
(* reads the usage a provider reports (frey-providers/src/anthropic.rs,    *)
(* openai.rs, openrouter.rs, agent_cli.rs), what is added up of it         *)
(* (frey-core/src/usage.rs), the clock of a turn (frey-agent/src/run.rs,   *)
(* frey-core/src/event.rs), and the command that reads the timings back    *)
(* (frey-cli/src/commands.rs).                                             *)
(*                                                                         *)
(* A call really uses fresh, read and written input, and output, of which  *)
(* a part may be thought; providers report these in ways of their own, or  *)
(* not at all.  Money is AgentRun's; here a cost is only there or not.     *)
(* "really" and "worked" are what happened, for the properties.  Numbers   *)
(* are naturals: nothing here comes near the end of 64 bits.               *)
(***************************************************************************)
EXTENDS Naturals, Sequences, FiniteSets, Functions

CONSTANTS
  Consumptions,    \* what a call may use
  Routes,          \* the models that may answer
  JournalFiles,    \* what a file of journals may look like, line by line
  MaxTicks,        \* bound: time that passes in a run
  MaxMetered       \* bound: turns of a run

\* Whoever reports how much of an output was thought counts it as output, too.
Consumption ==
  [fresh : Nat, read : Nat, written : Nat, output : Nat, thought : Nat, priced : BOOLEAN,
   silent : BOOLEAN]

ASSUME MeteringAssumption ==
  /\ Consumptions \subseteq Consumption
  /\ \A c \in Consumptions : c.thought <= c.output
  /\ \A lines \in JournalFiles : lines \in Seq({"journal", "blank", "other"})
  /\ MaxTicks \in Nat /\ MaxMetered \in Nat

VARIABLES adapter, really, tallies, unmetered, stage, clock, started, phase, timing, worked, timed,
          printed

usageVars == <<really, tallies, unmetered>>
timeVars == <<stage, clock, started, phase, timing, worked, timed>>
meteringVars == <<adapter, really, tallies, unmetered, stage, clock, started, phase, timing,
                  worked, timed, printed>>
--------------------------------------------------------------------------------
Adapters == {"anthropic", "openai", "openrouter", "chat", "delegated"}

\* Usage
Usage(input, output, read, written, thought, priced) ==
  [input |-> input, output |-> output, read |-> read, written |-> written,
   thought |-> thought, priced |-> priced]
NoUsage == Usage(0, 0, 0, 0, 0, FALSE)

\* The wires on which the input that is reported is the total.
TotalWires == {"openai", "openrouter", "chat"}

\* What a provider reports.  Anthropic counts what followed the last breakpoint; the
\* others count what was read from a cache and what was written to it as input, too.
Reported(a, c) ==
  [silent |-> c.silent,
   input |-> IF a \in TotalWires THEN c.fresh + c.read + c.written ELSE c.fresh,
   output |-> c.output, cached |-> c.read, written |-> c.written, thought |-> c.thought,
   cost |-> c.priced]

\* saturating_sub
Less(a, b) == IF a > b THEN a - b ELSE 0

\* decode_usage of Messages, and of Responses.
MessagesUsage(u) == Usage(u.input, u.output, u.cached, u.written, 0, FALSE)
ResponsesUsage(u) ==
  Usage(Less(u.input, u.cached), u.output, u.cached, u.written, u.thought, FALSE)
\* Fault: what was read from a cache is charged as input, too.
ChatUsageTwice(u, reportsCost) ==
  Usage(u.input, u.output, u.cached, u.written, 0, reportsCost /\ u.cost)
\* decode_chat_usage: a cost that is absent is not zero.
ChatUsage(u, reportsCost) ==
  Usage(Less(u.input, u.cached), u.output, u.cached, u.written, 0, reportsCost /\ u.cost)
\* claude_usage
ClaudeUsage(u) == Usage(u.input, u.output, u.cached, u.written, 0, u.cost)

DecodeUsage(a, u) ==
  CASE u.silent -> NoUsage
    [] ~u.silent /\ a = "anthropic" -> MessagesUsage(u)
    [] ~u.silent /\ a = "openai" -> ResponsesUsage(u)
    [] ~u.silent /\ a = "delegated" -> ClaudeUsage(u)
    [] OTHER -> ChatUsage(u, a = "openrouter")

\* TokenTotals, one for each model.
NoTally == [calls |-> 0, input |-> 0, output |-> 0, read |-> 0, written |-> 0, thought |-> 0]
AddUsage(tally, usage) ==
  [calls |-> tally.calls + 1, input |-> tally.input + usage.input,
   output |-> tally.output + usage.output, read |-> tally.read + usage.read,
   written |-> tally.written + usage.written, thought |-> tally.thought + usage.thought]
TotalInput(used) == used.input + used.read + used.written

\* cache_hit_rate, as a fraction, if there was any input.
HitRate(tally) ==
  IF TotalInput(tally) = 0 THEN {} ELSE {[read |-> tally.read, of |-> TotalInput(tally)]}
--------------------------------------------------------------------------------
\* The phases of a turn in the order they are timed.
Phases == <<"segment", "budget", "plan", "assemble", "provider", "account", "tools">>
FreysPhases == {"segment", "budget", "plan", "assemble", "account"}
NoTiming == [p \in Range(Phases) \cup {"total"} |-> 0]
SumOver(phases, t) == SumFunction(Restrict(t, phases))

\* TurnTiming
OverheadUs(t) == Less(Less(t.total, t.provider), t.tools)
AccountedUs(t) == SumOver(FreysPhases, t)
UnaccountedUs(t) == Less(OverheadUs(t), AccountedUs(t))
OverheadPpm(t) == IF t.total = 0 THEN 0 ELSE (OverheadUs(t) * 1000000) \div t.total

\* elapsed_us: the time since the last boundary, which moves.
ElapsedUs(p, now) ==
  /\ timing' = [timing EXCEPT ![p] = now - phase]
  /\ phase' = now

Passes(p, took) ==
  /\ clock + took <= MaxTicks
  /\ clock' = clock + took
  /\ worked' = [worked EXCEPT ![p] = @ + took]

NextPhase(p) == Phases[(CHOOSE i \in DOMAIN Phases : Phases[i] = p) + 1]

MeteringInit ==
  /\ adapter \in Adapters
  /\ really = <<>> /\ tallies = [r \in Routes |-> NoTally] /\ unmetered = 0
  /\ stage = "idle" /\ clock = 0 /\ started = 0 /\ phase = 0 /\ timed = <<>>
  /\ timing = NoTiming /\ worked = [p \in Range(Phases) \cup {"loop"} |-> 0]
  /\ printed = {}

\* The clock of the turn, then the one of its phases.
StartTurn(took) ==
  /\ stage = "idle"
  /\ Len(timed) < MaxMetered
  /\ clock + took <= MaxTicks
  /\ clock' = clock + took
  /\ worked' = [p \in DOMAIN worked |-> IF p = "loop" THEN took ELSE 0]
  /\ started' = clock
  /\ phase' = clock'
  /\ timing' = NoTiming
  /\ stage' = "segment"
  /\ UNCHANGED <<adapter, usageVars, timed, printed>>

Prepare(took) ==
  /\ stage \in {"segment", "budget", "plan", "assemble"}
  /\ Passes(stage, took)
  /\ ElapsedUs(stage, clock')
  /\ stage' = NextPhase(stage)
  /\ UNCHANGED <<adapter, usageVars, started, timed, printed>>

\* A prompt that does not fit, or a provider that fails: the turn is not timed.
GiveUp ==
  /\ stage \in {"budget", "provider"}
  /\ stage' = "over"
  /\ UNCHANGED <<adapter, usageVars, clock, started, phase, timing, worked, timed, printed>>

Receive(took, route, c) ==
  LET usage == DecodeUsage(adapter, Reported(adapter, c)) IN
  /\ stage = "provider"
  /\ Passes(stage, took)
  /\ ElapsedUs(stage, clock')
  /\ stage' = "account"
  /\ really' = Append(really, [route |-> route, used |-> c])
  /\ tallies' = [tallies EXCEPT ![route] = AddUsage(@, usage)]
  /\ unmetered' = unmetered + (IF usage.priced THEN 0 ELSE 1)
  /\ UNCHANGED <<adapter, started, timed, printed>>

Account(took) ==
  /\ stage = "account"
  /\ Passes(stage, took)
  /\ ElapsedUs(stage, clock')
  /\ \E next \in {"tools", "answered"} : stage' = next
  /\ UNCHANGED <<adapter, usageVars, started, timed, printed>>

UseTools(took) ==
  /\ stage = "tools"
  /\ Passes(stage, took)
  /\ ElapsedUs(stage, clock')
  /\ stage' = "settled"
  /\ UNCHANGED <<adapter, usageVars, started, timed, printed>>

\* finish_turn, on both exits of a turn that was answered.
FinishTurn(took) ==
  /\ stage \in {"answered", "settled"}
  /\ Passes("loop", took)
  /\ timing' = [timing EXCEPT !.total = clock' - started]
  /\ timed' = Append(timed, [timing |-> timing', worked |-> worked'])
  /\ stage' = IF stage = "settled" THEN "idle" ELSE "over"
  /\ UNCHANGED <<adapter, usageVars, started, phase, printed>>
--------------------------------------------------------------------------------
\* The middle of what is sorted, the upper of two.
Median(values) ==
  LET half == Len(values) \div 2
  IN  CHOOSE v \in Range(values) :
        /\ Cardinality({i \in DOMAIN values : values[i] < v}) <= half
        /\ half < Cardinality({i \in DOMAIN values : values[i] <= v})

\* timings: the file as one journal, which stands at 0, or else every line that is one.
Candidates(lines) ==
  LET said == {i \in DOMAIN lines : lines[i] # "blank"}
  IN  IF \E i \in said : said = {i} /\ lines[i] = "journal" THEN {0}
      ELSE {i \in said : lines[i] = "journal"}
Timings(lines, turns) ==
  LET journals == Cardinality(Candidates(lines))
      all == [k \in 1 .. journals * Len(turns) |-> turns[((k - 1) % Len(turns)) + 1]]
  IN  IF all = <<>> THEN [journals |-> 0, turns |-> 0, total |-> 0, overhead |-> 0]
      ELSE [journals |-> journals, turns |-> Len(all),
            total |-> Median([k \in DOMAIN all |-> all[k].total]),
            overhead |-> Median([k \in DOMAIN all |-> OverheadUs(all[k])])]

ReadBack(lines) ==
  /\ stage = "over"
  /\ printed = {}
  /\ printed' = {[lines |-> lines,
                  told |-> Timings(lines, [i \in DOMAIN timed |-> timed[i].timing])]}
  /\ UNCHANGED <<adapter, usageVars, timeVars>>

MeteringNext ==
  \/ \E took \in 0 .. 1 :
       \/ StartTurn(took) \/ Prepare(took) \/ Account(took) \/ UseTools(took) \/ FinishTurn(took)
       \/ \E route \in Routes, c \in Consumptions : Receive(took, route, c)
  \/ GiveUp
  \/ \E lines \in JournalFiles : ReadBack(lines)

MeteringSpec == MeteringInit /\ [][MeteringNext]_meteringVars
--------------------------------------------------------------------------------
\* "Getting this backwards double-counts every cached prefix in the ledger", "what did the
\* framework cost": a token that a provider told of is in the totals of the model that
\* served it once, whatever counts as input on its wire, but for one that was written to a
\* cache where the input is the total: only what was read is taken out of that again, so
\* the ledger has it twice.  A call without a price is never one that was free; a turn's
\* time is the provider's, the tools' or the framework's, and what no phase of its own
\* accounts for is exactly what nobody put a clock to; and every turn of a file is read
\* back once, whichever way the journals were laid out in it.
ServedBy(route) == {i \in DOMAIN really : really[i].route = route}
Told(route) == {i \in ServedBy(route) : ~really[i].used.silent}
SumOf(calls, Of(_)) == SumFunction([i \in calls |-> Of(really[i].used)])
Charged(c) ==
  c.fresh + c.read + c.written + (IF adapter \in TotalWires THEN c.written ELSE 0)
Unpriced ==
  {i \in DOMAIN really :
     \/ really[i].used.silent \/ ~really[i].used.priced
     \/ adapter \in {"anthropic", "openai", "chat"}}
TotalsAreWhatWasUsed ==
  \A route \in Routes :
    LET tally == tallies[route] IN
    /\ tally.calls = Cardinality(ServedBy(route))
    /\ TotalInput(tally) = SumOf(Told(route), Charged)
    /\ tally.written = SumOf(Told(route), LAMBDA c : c.written)
    /\ tally.output = SumOf(Told(route), LAMBDA c : c.output)
    /\ tally.thought <= tally.output
    /\ \A rate \in HitRate(tally) :
         rate.read = SumOf(Told(route), LAMBDA c : c.read) /\ rate.read <= rate.of
TimesAreWhatWasWorked ==
  \A i \in DOMAIN timed :
    LET t == timed[i].timing
        w == timed[i].worked
    IN  /\ t.provider = w.provider /\ t.tools = w.tools
        /\ OverheadUs(t) = SumOver(FreysPhases \cup {"loop"}, w)
        /\ UnaccountedUs(t) = w.loop
        /\ OverheadPpm(t) <= 1000000
EveryTurnIsReadBack ==
  \A p \in printed :
    LET journals == Cardinality({i \in DOMAIN p.lines : p.lines[i] = "journal"}) IN
    /\ p.told.turns = journals * Len(timed)
    /\ p.told.overhead <= p.told.total
OnlyWritesAreChargedTwice ==
  /\ TotalsAreWhatWasUsed
  /\ unmetered = Cardinality(Unpriced)
  /\ TimesAreWhatWasWorked
  /\ EveryTurnIsReadBack
================================================================================
