------------------------------ MODULE RunState ------------------------------
(***************************************************************************)
(* What a backtest and a simulated run have in common besides the          *)
(* executor: the book, the decision that waits for its bars, the last      *)
(* cohort of bars and what it filled.  Bars are numbered; bar b starts at  *)
(* b.                                                                      *)
(***************************************************************************)
EXTENDS SimulatedBook

CONSTANTS NoTarget,     \* no portfolio target is pending
          LastBar,      \* bound: bars 0..LastBar exist
          SessionStarts,\* the bars that open a trading session
          IntentLists,  \* what a strategy may emit: sequences of intents,
          Targets       \*   and whole-book targets

ASSUME RunAssumption ==
    /\ LastBar \in Nat /\ SessionStarts \subseteq Nat
    /\ <<>> \in IntentLists /\ IntentLists \subseteq Seq(Intents)
    /\ \A list \in IntentLists : OnePerSymbol(list)
    /\ Targets \subseteq [Symbols -> Int]
    /\ \A t \in Targets : \A s \in Symbols : Magnitude(t[s]) <= MaxPosition

VARIABLES phase,    \* where the run is between two handlers
          cash, pos, halted,
          pending,  \* [intents, target, at]: at is the target's decision time
          bar,      \* the last bar executed, -1 before the first
          bars,     \* its cohort: the shapes of the symbols present
          fills     \* what it filled

runVars == <<phase, cash, pos, halted, pending, bar, bars, fills>>

InitRun ==
    /\ cash = StartCash
    /\ pos = [s \in Symbols |-> Flat]
    /\ halted = FALSE
    /\ pending = [intents |-> <<>>, target |-> NoTarget, at |-> -1]
    /\ bar = -1 /\ bars = <<>> /\ fills = <<>>

Nothing == [intents |-> <<>>, target |-> NoTarget, at |-> -1]
Session(b) == Cardinality({d \in SessionStarts : d <= b})
SymbolsOf(intents) == {intents[k].sym : k \in DOMAIN intents}

\* A day limit that rested ends with its session, judged on a bar its own
\* symbol has.
\* Faulty variant: judged by the bar before.
ExpiredLate(i, b, present) ==
    /\ i.tif = "day" /\ i.limit /\ i.since # -1
    /\ i.sym \in present
    /\ Session(b - 1) # Session(i.since)
Expired(i, b, present) ==
    /\ i.tif = "day" /\ i.limit /\ i.since # -1
    /\ i.sym \in present
    /\ Session(b) # Session(i.since)
Unexpired(intents, b, present) ==
    Kept(intents, {i \in Range(intents) : ~Expired(i, b, present)})

\* An intent executes on its symbol's next bar; the legs of a group were
\* checked to be present when they were decided and never wait.
DataReady(i, present) == i.group # NoGroup \/ i.sym \in present

\* What did not meet its price rests from its first bar on.
Rested(i, b) == IF i.since = -1 THEN [i EXCEPT !.since = b] ELSE i
StillResting(resting, b) == [k \in DOMAIN resting |-> Rested(resting[k], b)]

\* A newer decision takes the place of a resting order of its symbol; a
\* target takes the place of all of them.
Replaceable(i, symbols) == i.since # -1 /\ i.sym \in symbols
Replaced(intents, symbols) ==
    Kept(intents, {i \in Range(intents) : ~Replaceable(i, symbols)})

Emitted(intents, at) == [k \in DOMAIN intents |-> [intents[k] EXCEPT !.at = at]]

\* validate_strategy_decision: a target needs a bar for everything it names
\* or the book holds, a group for each of its legs.
ValidTarget(target, present) ==
    {s \in Symbols : target[s] # 0} \union Held(pos) \subseteq present
ValidIntents(intents, present) ==
    \A k \in DOMAIN intents :
        intents[k].group # NoGroup => intents[k].sym \in present

\* Two pending intents of one symbol, a group id in use, or intents beside
\* a target have no merge rule.
Conflicts(waiting, intents) ==
    \/ SymbolsOf(waiting.intents) \cap SymbolsOf(intents) # {}
    \/ intents # <<>> /\ waiting.target # NoTarget
ReusesGroup(waiting, intents) ==
    Grouped(waiting.intents) \cap Grouped(intents) # {}

QueueExits(p) == [s \in Symbols |-> IF p[s].qty = 0 THEN p[s]
                                    ELSE [p[s] EXCEPT !.exit = TRUE]]
=============================================================================
