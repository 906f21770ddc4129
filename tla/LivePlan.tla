------------------------------- MODULE LivePlan -------------------------------
(***************************************************************************)
(* What a live decision becomes (live/engine.py _plan_live_orders and its  *)
(* callers): the requests it is sized into, with the simulated executor as *)
(* a planner, and the book they leave when they are sent one by one.       *)
(* Placing, reading and cancelling an order is OrderWork; here an order    *)
(* is filled, or ends short, in one step.                                  *)
(***************************************************************************)
EXTENDS RunState

CONSTANTS LiveLists,    \* what the strategy may emit: intents,
          LiveTargets,  \*   and whole-book targets
          LiveShapes,   \* the bars it may be sized on
          LiveBars,     \* bound: bars 0..LiveBars exist
          MaxWait,      \* max_rebalance_delay_bars of the live run
          VenueLot      \* per symbol, the smallest quantity its venue takes

ASSUME LiveAssumption ==
    /\ LiveBars \in Nat /\ MaxWait \in Nat
    /\ VenueLot \in [Symbols -> Nat \ {0}]
    /\ LiveLists \subseteq Seq(Intents)
    /\ \A list \in LiveLists : OnePerSymbol(list)
    /\ LiveTargets \subseteq [Symbols -> Int]
    /\ LiveShapes \subseteq BarShapes

VARIABLES paused,     \* entries are paused
          requests,   \* the decision's requests that have not ended
          rebalance,  \* the target being worked on, or NoTarget
          waited,     \* bars the rebalance was deferred
          unstarted,  \* groups none of whose legs has been sent
          planned,    \* ghost: every request of the last decision
          foreseen    \* ghost: the book it ends in when all of it fills

liveVars == <<paused, requests, rebalance, waited, unstarted, planned, foreseen>>

NoBook == [cash |-> -1, pos |-> <<>>]

InitLive ==
    /\ paused = FALSE
    /\ requests = <<>> /\ planned = <<>>
    /\ rebalance = NoTarget /\ waited = 0
    /\ unstarted = {}
    /\ foreseen = NoBook

\* The book with what this bar filled, which counts against its liquidity.
Booked == [cash |-> cash, pos |-> pos, fills |-> fills, resting |-> <<>>]

\* A plan takes a limit at its price, without waiting for the bar to reach it.
Reference(cohort) == [s \in DOMAIN cohort |-> [cohort[s] EXCEPT !.reach = "open"]]

(***************************************************************************)
(* Planning, on the reference prices of a cohort.  A plan p has the book   *)
(* staged with planned quantities (x), the book with what the venue will   *)
(* take of them (y), the requests, and the error that ended it.            *)
(***************************************************************************)
EmptyPlan(x) == [x |-> x, y |-> x, out |-> <<>>, err |-> "none"]
Err(p, what) == [p EXCEPT !.err = what]
NoPlan(what) == Err(EmptyPlan(Booked), what)

\* A closing request carries the group that opened the position.
RequestOf(p, i, kind, n) ==
    [sym |-> i.sym, act |-> i.act, qty |-> n, limit |-> i.limit, tif |-> "none",
     group |-> IF kind \in {"open", "add"} THEN i.group ELSE p.x.pos[i.sym].group,
     protect |-> i.protect, at |-> i.at, since |-> i.since,
     side |-> OrderSide(p.x.pos, i), asked |-> n, of |-> i.group]

\* The venue takes whole lots; a size it rounds to nothing is below its
\* minimum.
VenueQuantity(r) == r.qty - (r.qty % VenueLot[r.sym])

\* The adapter prepares the request, and what it prepared must still be
\* executable whole.  Below the minimum only an ungrouped exit is skipped.
Judge(p, r, y) ==
    IF r.qty = 0
    THEN Err(p, IF r.of = NoGroup /\ r.act = "close" THEN "skip" ELSE "raise")
    ELSE IF \/ FilledOf(p.y, y, r.sym, {"open", "add", "reduce", "close"}) # r.qty
            \/ Overexposed(p.y.pos, y.pos)
    THEN Err([p EXCEPT !.y = y], "raise")
    ELSE [p EXCEPT !.y = y, !.out = Append(@, r)]
JudgeRequest(p, ref, r) == Judge(p, r, ExecuteIntent(p.y, ref, MaxPosition, r))
Prepared(r) == [r EXCEPT !.qty = VenueQuantity(r)]
PrepareLeg(p, ref, r) == JudgeRequest(p, ref, Prepared(r))

\* A leg of a group must be planned in full; an ungrouped intent that cannot
\* be planned at all is skipped.
Unplanned(i) == IF i.group = NoGroup THEN "skip" ELSE "raise"
StagedLeg(p, ref, i, x, new) ==
    IF new = <<>> THEN Err(p, Unplanned(i))
    ELSE IF \/ i.group # NoGroup /\ new[1].qty # i.qty
            \/ Overexposed(p.x.pos, x.pos)
    THEN Err(p, "raise")
    ELSE PrepareLeg([p EXCEPT !.x = x], ref,
                    RequestOf(p, i, new[1].kind, new[1].qty))
StageLegOn(p, ref, i, x) == StagedLeg(p, ref, i, x, NewFills(p.x, x))
StageLeg(p, ref, i) ==
    StageLegOn(p, ref, i, ExecuteIntent(p.x, ref, MaxPosition, i))
PlanLeg(p, ref, i) ==
    IF i.protect # {} THEN Err(p, "raise")
    ELSE IF ~Priced(p.x.pos, ref, i) THEN Err(p, Unplanned(i))
    ELSE IF ScalesAcrossGroups(p.x.pos, <<i>>) THEN Err(p, "raise")
    ELSE StageLeg(p, ref, IF i.group # NoGroup /\ i.act = "close"
                          THEN [i EXCEPT !.qty = Expected(p.x.pos, i)] ELSE i)

\* A rejected group, or a skipped exit, leaves no trace in the plan.
\* Faulty variant: its legs stay in what later requests are judged against.
KeepsPrepared(p, u) == [p EXCEPT !.y = u.y]
RolledBack(p, u) == p

\* The venue's rounding must keep the proportions of a group.
Uneven(legs) == \E j, k \in DOMAIN legs :
                   legs[j].qty * legs[k].asked # legs[k].qty * legs[j].asked
SettleUnit(p, unit, u) ==
    IF /\ u.err = "none"
       /\ ~Uneven(SubSeq(u.out, Len(p.out) + 1, Len(u.out))) THEN u
    ELSE IF unit[1].group # NoGroup \/ u.err = "skip" THEN RolledBack(p, u)
    ELSE Err(p, "raise")
PlanLegs(p, ref, unit) ==
    FoldLeft(LAMBDA q, i : IF q.err = "none" THEN PlanLeg(q, ref, i) ELSE q,
             p, unit)
PlanUnit(p, ref, unit) == SettleUnit(p, unit, PlanLegs(p, ref, unit))

PlanUnits(p, ref, intents) ==
    FoldLeft(LAMBDA q, unit : IF q.err = "none" THEN PlanUnit(q, ref, unit) ELSE q,
             p, Units(intents))
PlanIntents(ref, intents) ==
    PlanUnits(EmptyPlan([Booked EXCEPT !.fills = <<>>]), ref, intents)

\* While entries are paused a target plans its reductions only.
PlanReductions(ref, r, orders) ==
    IF \E s \in Symbols : r.add[s] # 0 /\ r.red[s] = 0 /\ pos[s].group # NoGroup
    THEN Outcome("raise", Booked, NoRebalance)
    ELSE IF \E k \in DOMAIN orders : ~Priced(pos, ref, orders[k])
    THEN Outcome("unavailable", Booked, NoRebalance)
    ELSE Outcome("ok", ExecuteEach(Booked, ref, MaxPosition, orders), NoRebalance)

\* A target whose every order the bar's liquidity holds back waits.
HeldBack(ref, r) ==
    \E s \in Symbols : /\ r.red[s] # 0 \/ (r.add[s] # 0 /\ ~paused)
                       /\ Room(Booked, ref, s) = 0

\* The legs in their order, each judged after the one before it.
PlanFillOn(p, ref, i, f, x) ==
    IF Overexposed(p.x.pos, x.pos) THEN Err(p, "raise")
    ELSE PrepareLeg([p EXCEPT !.x = x], ref, RequestOf(p, i, f.kind, f.qty))
PlanFill(p, ref, f, i) ==
    PlanFillOn(p, ref, i, f, ExecuteIntent(p.x, ref, MaxPosition, i))
ActOf(r, f) == IF f.kind \in {"reduce", "close"} THEN "close"
               ELSE IF r.add[f.sym] > 0 THEN "long" ELSE "short"
PlanFills(p, ref, r, new) ==
    FoldLeft(LAMBDA q, f : IF q.err = "none"
                           THEN PlanFill(q, ref, f, Order(f.sym, ActOf(r, f), f.qty))
                           ELSE q, p, new)

PlanOutcome(ref, r, whole) ==
    IF whole.out # "ok" THEN NoPlan(whole.out)
    ELSE IF NewFills(Booked, whole.x) = <<>> /\ HeldBack(ref, r)
    THEN NoPlan("unavailable")
    ELSE PlanFills(EmptyPlan(Booked), ref, r, NewFills(Booked, whole.x))
PlanRebalance(ref, r) ==
    PlanOutcome(ref, r, IF paused THEN PlanReductions(ref, r, Reductions(r, Symbols))
                                  ELSE ExecutePlan(Booked, ref, r))

PlanTarget(ref, target) ==
    LET needed == Held(pos) \union (IF paused THEN {}
                                    ELSE {s \in Symbols : target[s] # 0})
    IN IF needed \subseteq DOMAIN ref
       THEN PlanRebalance(ref, Plan(pos, ref, target)) ELSE NoPlan("unavailable")

(***************************************************************************)
(* The decision of a bar.                                                  *)
(***************************************************************************)
HaltLive == /\ halted' = TRUE
            /\ phase' = "idle"
            /\ requests' = <<>> /\ unstarted' = {}
            /\ rebalance' = NoTarget
            /\ foreseen' = NoBook

\* A bar without a usable close is no bar of the cohort.
NextCohort ==
    /\ phase = "idle" /\ bar < LiveBars /\ ~halted
    /\ bar' = bar + 1
    /\ fills' = <<>>
    /\ \E present \in SUBSET Symbols \ {{}} : bars' \in [present -> LiveShapes]

\* What was planned is queued whole, or not at all.
QueueRejected(p) ==
    /\ p.err = "raise"
    /\ HaltLive
    /\ planned' = <<>>
QueuePlanned(p) ==
    /\ p.err = "none"
    /\ requests' = p.out /\ planned' = p.out
    /\ unstarted' = {p.out[k].group : k \in DOMAIN p.out} \ {NoGroup}
    /\ foreseen' = [cash |-> p.y.cash, pos |-> p.y.pos]
    /\ phase' = IF p.out = <<>> THEN "idle" ELSE "send"
    /\ UNCHANGED <<halted, rebalance>>
Queue(p) == QueueRejected(p) \/ QueuePlanned(p)
LiveDecide(intents) ==
    /\ rebalance = NoTarget
    /\ NextCohort
    /\ \E p \in {PlanIntents(Reference(bars'), intents)} : Queue(p)
    /\ pending' = [pending EXCEPT !.intents = intents]
    /\ UNCHANGED <<cash, pos, paused, waited>>

LiveTarget(target) ==
    /\ rebalance = NoTarget
    /\ NextCohort
    /\ rebalance' = target /\ waited' = 0
    /\ pending' = Nothing
    /\ planned' = <<>> /\ foreseen' = NoBook
    /\ phase' = "leg"
    /\ UNCHANGED <<cash, pos, halted, paused, requests, unstarted>>

\* A rebalance that a bar deferred goes on with the next one.
NextRebalanceBar ==
    /\ rebalance # NoTarget
    /\ NextCohort
    /\ phase' = "leg"
    /\ UNCHANGED <<cash, pos, halted, pending, liveVars>>

\* The target is planned again from the book as it is, and one leg of it is
\* queued.
DeferLeg(p) ==
    /\ p.err = "unavailable" /\ waited < MaxWait
    /\ waited' = waited + 1
    /\ phase' = "idle"
    /\ UNCHANGED <<halted, requests, rebalance, unstarted, foreseen>>
RejectLeg(p) ==
    /\ p.err \in {"raise", "skip"} \/ (p.err = "unavailable" /\ waited >= MaxWait)
    /\ HaltLive
    /\ UNCHANGED waited
NoLegLeft(p) ==
    /\ p.err = "none" /\ p.out = <<>>
    /\ rebalance' = NoTarget
    /\ phase' = "idle"
    /\ UNCHANGED <<halted, requests, unstarted, foreseen, waited>>
QueueLeg(p) ==
    /\ p.err = "none" /\ p.out # <<>>
    /\ requests' = <<Head(p.out)>>
    /\ phase' = "send"
    /\ UNCHANGED <<halted, rebalance, unstarted, foreseen, waited>>
NextLeg(p) == DeferLeg(p) \/ RejectLeg(p) \/ NoLegLeft(p) \/ QueueLeg(p)
PlanNextLeg ==
    /\ phase = "leg"
    /\ \E p \in {PlanTarget(Reference(bars), rebalance)} : NextLeg(p)
    /\ UNCHANGED <<cash, pos, pending, bar, bars, fills, paused, planned>>

(***************************************************************************)
(* The orders, one at a time.                                              *)
(***************************************************************************)
IsEntry(r) == r.act # "close"
Siblings(r) == IF r.group = NoGroup THEN <<r>>
               ELSE Kept(requests, {q \in Range(requests) : q.group = r.group})
Others(r) == IF r.group = NoGroup THEN Tail(requests)
             ELSE Kept(requests, {q \in Range(requests) : q.group # r.group})
\* It only reduces the position it finds, and does not cross it.
ReducesHeld(r) ==
    LET held == pos[r.sym].qty
    IN /\ ~IsEntry(r) /\ held # 0
       /\ r.side = (IF held > 0 THEN "sell" ELSE "buy") /\ r.qty <= Magnitude(held)
\* Before it is sent, alone or as the first of its group.
Unstarted(r) == r.group = NoGroup \/ r.group \in unstarted
Pausable(r) == Unstarted(r) /\ \E q \in Range(Siblings(r)) : ~ReducesHeld(q)
Judged(r) == Unstarted(r) /\ \E q \in Range(Siblings(r)) : IsEntry(q)

\* _cash_needed_up_front: only exits queued before the first entry are
\* credited.
CashNeeded(legs) ==
    LET add(n, k) ==
            IF IsEntry(legs[k]) THEN n + legs[k].qty
            ELSE IF \E j \in 1..k : IsEntry(legs[j]) THEN n
            ELSE n - Lesser(legs[k].qty, Magnitude(pos[legs[k].sym].qty))
    IN FoldLeftDomain(add, 0, legs)

\* What is left to do after the head ended.
GoesOn(left, target) ==
    /\ requests' = left /\ rebalance' = target
    /\ phase' = IF left # <<>> THEN "send"
                ELSE IF target # NoTarget THEN "leg" ELSE "idle"
    /\ UNCHANGED halted

\* apply_execution_fill: the side and the position make it an entry or an exit,
\* whatever it was planned as; a fill that crosses the position is refused.
Opens(r) == pos[r.sym].qty = 0 \/ (pos[r.sym].qty > 0) = (r.side = "buy")
Crosses(r, n) == ~Opens(r) /\ n > Magnitude(pos[r.sym].qty)
Applied(r, n) ==
    IF Opens(r)
    THEN Entered(Booked, [r EXCEPT !.act = IF r.side = "buy" THEN "long" ELSE "short"], n)
    ELSE Reduced(Booked, r, n)
BookFill(r, n) == /\ ~Crosses(r, n)
                  /\ cash' = Applied(r, n).cash
                  /\ pos' = Applied(r, n).pos
                  /\ fills' = Applied(r, n).fills

\* _post_fill_risk_halted: an entry that took the account past a limit.
PastLimit(r, n) ==
    LET after == Applied(r, n).pos
    IN /\ IsEntry(r) /\ n > 0
       /\ \/ \E s \in Symbols : Magnitude(after[s].qty) > MaxPosition
          \/ Gross(after) > MaxGross \/ Net(after) > MaxNet

Sendable(r) == /\ Pausable(r) => ~paused
               /\ Judged(r) => CashNeeded(Siblings(r)) <= cash

OrderFills ==
    /\ phase = "send"
    /\ LET r == Head(requests)
       IN /\ Sendable(r)
          /\ BookFill(r, r.qty)
          /\ \/ /\ PastLimit(r, r.qty)
                /\ HaltLive
             \/ /\ ~PastLimit(r, r.qty)
                /\ GoesOn(Tail(requests), rebalance)
                /\ unstarted' = unstarted \ {r.group}
                /\ UNCHANGED foreseen
    /\ UNCHANGED <<pending, bar, bars, paused, waited, planned>>

\* _fail_group_or_halt: the order is cancelled or rejected with n of it
\* filled.  A leg's group ends with it, and a rebalance; anything else halts.
OrderFails ==
    /\ phase = "send"
    /\ LET r == Head(requests)
       IN /\ Sendable(r)
          /\ \E n \in 0..(r.qty - 1) :
             /\ BookFill(r, n)
             /\ \/ /\ r.group = NoGroup \/ PastLimit(r, n)
                   /\ HaltLive
                \/ /\ r.group # NoGroup /\ ~PastLimit(r, n)
                   /\ GoesOn(Others(r), NoTarget)
                   /\ unstarted' = unstarted \ {r.group}
                   /\ foreseen' = NoBook
    /\ UNCHANGED <<pending, bar, bars, paused, waited, planned>>

\* _drop_paused_entry: the rebalance whose entry is dropped carries on, unless
\* an exit is dropped with it.
DropPausedEntry ==
    /\ phase = "send" /\ paused
    /\ LET r == Head(requests)
       IN /\ Pausable(r)
          /\ GoesOn(Others(r), IF \A q \in Range(Siblings(r)) : IsEntry(q)
                               THEN rebalance ELSE NoTarget)
          /\ unstarted' = unstarted \ {r.group}
    /\ foreseen' = NoBook
    /\ UNCHANGED <<cash, pos, fills, pending, bar, bars, paused, waited, planned>>

\* _drop_unfunded_entry: the broker's free balance, which may be less than the
\* ledger's cash, does not pay for it.
DropUnfundedEntry ==
    /\ phase = "send" /\ ~paused
    /\ LET r == Head(requests)
       IN /\ Judged(r)
          /\ \E free \in {0, cash} : CashNeeded(Siblings(r)) > free
          /\ GoesOn(Others(r), NoTarget)
          /\ unstarted' = unstarted \ {r.group}
    /\ foreseen' = NoBook
    /\ UNCHANGED <<cash, pos, fills, pending, bar, bars, paused, waited, planned>>

\* pause_entries, at any time.
PauseEntries ==
    /\ ~paused /\ ~halted
    /\ paused' = TRUE
    /\ UNCHANGED <<runVars, requests, rebalance, waited, unstarted, planned,
                   foreseen>>

NextLive ==
    \/ \E intents \in LiveLists : LiveDecide(intents)
    \/ \E target \in LiveTargets : LiveTarget(target)
    \/ NextRebalanceBar
    \/ PlanNextLeg
    \/ OrderFills
    \/ OrderFails
    \/ DropPausedEntry
    \/ DropUnfundedEntry
    \/ PauseEntries
=============================================================================
