---------------------------- MODULE SimulatedRuns ----------------------------
(***************************************************************************)
(* The three users of the deterministic executor, chosen by mode: a        *)
(* backtest, a simulated run on a live feed, and the planner of a live run;*)
(* with the properties they share.                                         *)
(***************************************************************************)
EXTENDS BacktestRun, ShadowRun, LivePlan

CONSTANT Modes

ASSUME ModesAssumption == Modes \subseteq {"backtest", "shadow", "live"}

VARIABLE mode

vars == <<mode, runVars, backtestVars, shadowVars, liveVars>>

Init ==
    /\ mode \in Modes
    /\ InitRun /\ InitBacktest /\ InitShadow /\ InitLive
    /\ \/ mode = "backtest" /\ phase = "execute"
       \/ mode \in {"shadow", "live"} /\ phase = "idle" /\ policy = "discard"

Next ==
    \/ /\ mode = "backtest" /\ NextBacktest
       /\ UNCHANGED <<mode, shadowVars, liveVars>>
    \/ /\ mode = "shadow" /\ NextShadow
       /\ UNCHANGED <<mode, backtestVars, liveVars>>
    \/ /\ mode = "live" /\ NextLive
       /\ UNCHANGED <<mode, backtestVars, shadowVars>>

Spec == Init /\ [][Next]_vars

(***************************************************************************)
(* Properties.                                                             *)
(***************************************************************************)
\* The cash and the positions always add up to the starting cash, no position
\* passes max_position_weight nor their sum max_gross_exposure, only a position
\* carries protection or an owed exit, and with the lists of the instance no book
\* borrows (a live run may with others, README, observation 19).
TypeOK ==
    /\ phase \in {"idle", "execute", "decide", "mark", "failed", "finished",
                 "send", "leg"}
    /\ cash \in 0..StartCash
    /\ cash + Total([s \in Symbols |-> Magnitude(pos[s].qty)]) = StartCash
    /\ \A s \in Symbols :
          /\ pos[s].qty \in -MaxPosition..MaxPosition
          /\ pos[s].qty = 0 => pos[s] = Flat
    /\ halted \in BOOLEAN
    /\ ~halted => Gross(pos) <= MaxGross
    /\ pending.intents \in Seq(Intents)
    /\ rebal # NoRebalance => Targeted(rebal) # {}
    /\ delay \in 0..MaxDelay
    /\ \A s \in Symbols :
          /\ cache[s] \subseteq 0..released[s]
          /\ mark[s] <= execMark[s]
          /\ execMark[s] <= released[s]

\* A group of intents (group_id) fills whole on one bar or not at all.
GroupWhole ==
    mode # "live" =>
    \A list \in IntentLists \union ShadowLists :
       \A g \in Grouped(list) :
          LET legs == Legs(list, g)
              filled(i) == \E k \in DOMAIN fills :
                              /\ fills[k].group = g
                              /\ fills[k].sym = i.sym
                              /\ i.qty # 0 => fills[k].qty = i.qty
              some == \E k \in DOMAIN fills : fills[k].group = g
          IN some => \A k \in DOMAIN legs : filled(legs[k])

\* Intents, rebalance legs, protective exits, the end of the run and a second
\* pass over the same bar share one liquidity budget
\* (max_bar_volume_participation_rate), and what was added to it is never more
\* than the bar allows; nor does the plan of a live run send more of a symbol
\* than the bar it was sized on allows.
LiquidityRespected ==
    LET traded(s) == Traded([fills |-> fills], s)
        forced(s) == \E k \in DOMAIN fills : /\ fills[k].sym = s
                                             /\ fills[k].tif = "force_close"
    IN /\ phase = "decide" => \A s \in DOMAIN bars : traded(s) <= bars[s].room
       /\ phase = "finished" =>
             \A s \in DOMAIN bars : forced(s) => traded(s) <= bars[s].room
       /\ mode = "live" => \A s \in DOMAIN bars : traded(s) <= bars[s].room

\* A symbol with a protective exit owed is no part of a rebalance residual:
\* the exit owns it (_cancel_rebalance_symbols).
ExitOwnsSymbol ==
    rebal # NoRebalance => \A s \in Targeted(rebal) : ~pos[s].exit

\* A target deferred over several bars, which no protective exit disturbed and
\* the cash pays for, ends at exactly the quantities it named.
TargetReached ==
    (phase = "decide" /\ goal # NoTarget /\ rebal = NoRebalance) =>
        \A s \in Symbols : pos[s].qty = goal[s]

\* A day limit fills in the session it first rested in, or never.
DaySession ==
    \A k \in DOMAIN fills :
        (fills[k].tif = "day" /\ fills[k].limit /\ fills[k].since # -1) =>
            Session(bar) = Session(fills[k].since)

\* The history a symbol is decided on has no missing bar, whatever polls
\* failed, came late or were lost with the process.
WindowHasNoHole ==
    (mode = "shadow" /\ phase = "decide") =>
        \A s \in DOMAIN bars : \A b \in Min(Window(s))..Event : b \in Window(s)

\* Whatever polls fail, bars come late or processes restart, a simulated run
\* executes the bars of a symbol it has decided on in order: it never goes back,
\* and a step moves on by less than the window, of two bars or more (that it may
\* pass over any is observation 16 of the README, that a window of one bar loses
\* bars observation 7).  The bar executed last may be taken up again, when another
\* symbol's bar of that time comes late, but nothing trades in a step that brings
\* no symbol to a bar it had not executed (_poll_cycle, _process_timestamp).
Restored == saved = Snapshot'
MovesForward(s) == execMark'[s] \in execMark[s]..(execMark[s] + Warmup - 1)
TradesNewBar == fills' # fills => \E s \in Symbols : execMark[s] < execMark'[s]
ExecutesInTurn ==
    [][(mode = "shadow" /\ ~Restored) =>
          /\ Warmup > 1 => \A s \in Symbols : mark[s] # None => MovesForward(s)
          /\ TradesNewBar]_vars

\* After a drawdown halt a run never increases a position.
HaltOnlyReduces ==
    [][(halted /\ ~Restored) =>
          \A s \in Symbols : Magnitude(pos'[s].qty) <= Magnitude(pos[s].qty)
      ]_vars

\* The requests a live decision is planned into are what the decision asks:
\* the legs of a group come all at one common fraction or not at all
\* (_plan_live_orders), and the book that filling all of them leaves is the
\* one each was judged against.
PlannedWhole ==
    mode = "live" =>
      /\ (phase = "idle" /\ foreseen # NoBook) => foreseen = [cash |-> cash, pos |-> pos]
      /\ \A g \in Grouped(pending.intents) :
            LET intended == Legs(pending.intents, g)
                legs  == Kept(planned, {r \in Range(planned) : r.of = g})
            IN \/ legs = <<>>
               \/ /\ Len(legs) = Len(intended)
                  /\ \A j, k \in DOMAIN legs :
                        legs[j].qty * legs[k].asked = legs[k].qty * legs[j].asked

\* An intent executes on a bar after the one it was decided on.
EligibleNextBar ==
    \A k \in DOMAIN fills : fills[k].at # -1 => bar > fills[k].at
=============================================================================
