---------------------------- MODULE BacktestRun ----------------------------
(***************************************************************************)
(* A backtest (backtest/engine.py Backtest.run): for each timestamp of the *)
(* union of the symbols' bars the pending decision executes, then the      *)
(* strategy decides.  Market data may be available only after later bars   *)
(* have started, so a decision waits until a bar starts after everything   *)
(* it could have seen.                                                     *)
(***************************************************************************)
EXTENDS RunState

CONSTANTS Shapes,      \* the bars a symbol may print
          Lags,        \* how many bars late a bar may become available
          Policies,    \* rebalance_residual_policy
          MaxDelay,    \* max_rebalance_delay_bars
          Volumes      \* liquidity a bar's close may have for a forced exit

ASSUME BacktestAssumption ==
    /\ Lags \subseteq Nat /\ Volumes \subseteq Nat /\ MaxDelay \in Nat
    /\ Shapes \subseteq BarShapes
    /\ Policies \subseteq {"discard", "fail", "defer_all", "defer_symbols"}

VARIABLES policy,
          frontier,  \* the latest availability of the data seen so far
          rebal,     \* what is left of an executing target
          delay,     \* bars a target was deferred
          origins,   \* per symbol, the frontier of its drawdown exit
          goal       \* ghost: the quantities an undisturbed target should
                     \*   reach, NoTarget once something else had a say

backtestVars == <<policy, frontier, rebal, delay, origins, goal>>

InitBacktest ==
    /\ policy \in Policies
    /\ frontier = -1 /\ delay = 0
    /\ rebal = NoRebalance
    /\ origins = [s \in Symbols |-> -1]
    /\ goal = NoTarget

Working == [cash |-> cash, pos |-> pos, fills |-> <<>>, resting |-> <<>>]

\* The new cohort is bar b; the decision that met it executes.
ReadyIntents(b, present) ==
    Kept(Unexpired(pending.intents, b, present),
         {i \in Range(pending.intents) : b > i.at /\ DataReady(i, present)})
WaitingIntents(b, present) ==
    Kept(Unexpired(pending.intents, b, present),
         {i \in Range(pending.intents) : ~(b > i.at /\ DataReady(i, present))})
TargetReady(b) == pending.target # NoTarget /\ b > pending.at

Book(r) == /\ cash' = r.x.cash
           /\ pos' = r.x.pos
           /\ fills' = r.x.fills
           /\ rebal' = r.left

\* What an executing target still aims at: nothing once a protective exit,
\* owed or done, took a symbol from it.
Disturbed(x) ==
    \/ \E s \in Symbols : x.pos[s].exit
    \/ \E k \in DOMAIN x.fills : x.fills[k].tif = "protective"
Aim(target, x) == IF Disturbed(Working) \/ Disturbed(x) THEN NoTarget ELSE target

StopsOnly(cohort, eligible) ==
    [out |-> "ok", left |-> NoRebalance,
     x |-> CheckStops(Working, cohort, Held(pos) \cap eligible)]

\* A step that raises ends the run, and nothing of it is kept.
Failed == /\ phase' = "failed"
          /\ fills' = <<>>
          /\ UNCHANGED <<cash, pos, pending, rebal, delay, goal>>

\* After a halt only the queued exits run, each on a bar that starts after
\* the data the halt had seen.
HaltedBar(b, cohort) ==
    /\ halted
    /\ Book(StopsOnly(cohort, {s \in Symbols : b > origins[s]}))
    /\ pending' = Nothing
    /\ phase' = "decide"
    /\ UNCHANGED <<delay, goal>>

IntentBar(b, cohort) ==
    LET present == DOMAIN cohort
    IN /\ ~halted /\ ~TargetReady(b) /\ rebal = NoRebalance
       /\ \E r \in {ExecuteBarOfIntents(Working, cohort,
                                         ReadyIntents(b, present), Symbols)} :
             \/ /\ r.out = "ok"
                /\ Book(r)
                /\ pending' = [pending EXCEPT
                       !.intents = StillResting(r.x.resting, b)
                                     \o WaitingIntents(b, present)]
                /\ goal' = NoTarget
                /\ phase' = "decide"
                /\ UNCHANGED delay
             \/ r.out # "ok" /\ Failed

\* A residual is accepted as long as the delay allows, and counts against it.
Acceptable(r) == r.out = "ok" /\ (r.left = NoRebalance \/ delay < MaxDelay)
Progress(r, target) ==
    /\ Book(r)
    /\ pending' = [pending EXCEPT !.target = NoTarget, !.at = -1]
    /\ delay' = IF r.left = NoRebalance THEN 0 ELSE delay + 1
    /\ goal' = Aim(target, r.x)
    /\ phase' = "decide"

\* A bar that could not execute the target at all defers it; the protective
\* exits run on it nonetheless.
Deferrable(r) == /\ r.out = "unavailable"
                 /\ policy # "fail"
                 /\ delay < MaxDelay

TargetBar(b, cohort) ==
    /\ ~halted /\ TargetReady(b)
    /\ \E r \in {ExecuteBarOfTarget(Working, cohort, pending.target, policy,
                                     Symbols)} :
          \/ /\ Acceptable(r)
             /\ Progress(r, IF policy = "discard" THEN NoTarget
                                                  ELSE pending.target)
          \/ /\ Deferrable(r)
             /\ Book(StopsOnly(cohort, Symbols))
             /\ delay' = delay + 1
             /\ phase' = "decide"
             /\ UNCHANGED <<pending, goal>>
          \/ ~Acceptable(r) /\ ~Deferrable(r) /\ Failed

ResidualBar(b, cohort) ==
    /\ ~halted /\ rebal # NoRebalance /\ ~TargetReady(b)
    /\ \E r \in {ExecuteBarOfResidual(Working, cohort, rebal, policy, Symbols)} :
          \/ Acceptable(r) /\ Progress(r, goal)
          \/ ~Acceptable(r) /\ Failed

\* The next timestamp of the timeline, for the symbols that have a bar there.
NextTimestamp ==
    /\ phase = "execute" /\ bar < LastBar
    /\ \E present \in SUBSET Symbols \ {{}}, lag \in Lags :
       \E cohort \in [present -> Shapes] :
          /\ bar' = bar + 1
          /\ bars' = cohort
          /\ frontier' = IF frontier > bar + 1 + lag THEN frontier
                                                     ELSE bar + 1 + lag
          /\ \/ HaltedBar(bar + 1, cohort)
             \/ IntentBar(bar + 1, cohort)
             \/ TargetBar(bar + 1, cohort)
             \/ ResidualBar(bar + 1, cohort)
    /\ UNCHANGED <<policy, halted, origins>>

\* Drawdown is checked before the strategy sees the bar: a breach queues the
\* exits and drops whatever was decided and not executed.
Breach ==
    /\ phase = "decide"
    /\ ~halted
    /\ halted' = TRUE
    /\ pos' = QueueExits(pos)
    /\ origins' = [s \in Symbols |-> IF pos[s].qty = 0 THEN -1 ELSE frontier]
    /\ pending' = Nothing
    /\ rebal' = NoRebalance /\ goal' = NoTarget
    /\ phase' = "execute"
    /\ UNCHANGED <<policy, cash, bars, fills, bar, frontier, delay>>

StaysHalted ==
    /\ phase = "decide" /\ halted
    /\ phase' = "execute"
    /\ UNCHANGED <<policy, cash, pos, halted, pending, bars, fills, bar,
                   frontier, rebal, delay, origins, goal>>

RejectDecision ==
    /\ phase' = "failed"
    /\ UNCHANGED <<policy, cash, pos, halted, pending, bars, fills, bar,
                   frontier, rebal, delay, origins, goal>>

\* on_bar returns symbol intents.
DecideIntents(intents) ==
    /\ phase = "decide" /\ ~halted
    /\ \/ /\ \/ ~ValidIntents(intents, DOMAIN bars)
             \/ intents # <<>> /\ rebal # NoRebalance
             \/ Conflicts([pending EXCEPT !.intents =
                              Replaced(@, SymbolsOf(intents))], intents)
             \/ ReusesGroup([pending EXCEPT !.intents =
                              Replaced(@, SymbolsOf(intents))], intents)
          /\ RejectDecision
       \/ /\ ValidIntents(intents, DOMAIN bars)
          /\ intents = <<>> \/ rebal = NoRebalance
          /\ LET kept == [pending EXCEPT !.intents =
                              Replaced(@, SymbolsOf(intents))]
             IN /\ ~Conflicts(kept, intents)
                /\ ~ReusesGroup(kept, intents)
                /\ pending' = [kept EXCEPT
                                 !.intents = @ \o Emitted(intents, frontier)]
          /\ phase' = "execute"
          /\ UNCHANGED <<policy, cash, pos, halted, bars, fills, bar,
                         frontier, rebal, delay, origins, goal>>

\* on_bar returns a whole-book target, which supersedes one that is deferred
\* or still executing; the delay it used up stays used up.
DecideTarget(target) ==
    LET kept == [pending EXCEPT !.intents = Replaced(@, Symbols)]
    IN /\ phase = "decide" /\ ~halted
       /\ \/ /\ ~ValidTarget(target, DOMAIN bars) \/ kept.intents # <<>>
             /\ RejectDecision
          \/ /\ ValidTarget(target, DOMAIN bars)
             /\ kept.intents = <<>>
             /\ pending' = [intents |-> <<>>, target |-> target, at |-> frontier]
             /\ rebal' = NoRebalance /\ goal' = NoTarget
             /\ phase' = "execute"
             /\ UNCHANGED <<policy, cash, pos, halted, bars, fills, bar,
                            frontier, delay, origins>>

\* After the last bar: a deferred target or an owed exit fails the run, what
\* else is open is closed with the liquidity its last bar's close has left.
EndOfRun ==
    /\ phase = "execute" /\ bar = LastBar
    /\ \/ /\ \/ delay > 0 /\ (pending.target # NoTarget \/ rebal # NoRebalance)
             \/ \E s \in Symbols : pos[s].exit
          /\ phase' = "failed"
          /\ UNCHANGED <<cash, pos, bars, fills>>
       \/ /\ delay = 0 \/ (pending.target = NoTarget /\ rebal = NoRebalance)
          /\ \A s \in Symbols : ~pos[s].exit
          /\ \E volume \in Volumes :
                LET closing == [s \in DOMAIN bars |->
                                   [bars[s] EXCEPT !.room = volume]]
                    x == LiquidateAll([Working EXCEPT !.fills = fills], closing)
                IN /\ bars' = closing
                   /\ cash' = x.cash /\ pos' = x.pos /\ fills' = x.fills
          /\ phase' = "finished"
    /\ UNCHANGED <<policy, halted, pending, bar, frontier, rebal, delay,
                   origins, goal>>

NextBacktest ==
    \/ NextTimestamp
    \/ Breach
    \/ StaysHalted
    \/ \E intents \in IntentLists : DecideIntents(intents)
    \/ \E target \in Targets : DecideTarget(target)
    \/ EndOfRun
=============================================================================
