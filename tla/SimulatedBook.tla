--------------------------- MODULE SimulatedBook ---------------------------
(***************************************************************************)
(* The deterministic executor shared by the backtest and by a simulated    *)
(* run (core/executor.py): what a pending decision and one cohort of bars  *)
(* do to the cash and the positions.  Every price is 1 and there are no    *)
(* costs, so a quantity is also a notional and the equity never moves; a   *)
(* bar keeps of its OHLCV only what decides an outcome.                    *)
(***************************************************************************)
EXTENDS Integers, Sequences, SequencesExt, FiniteSetsExt

CONSTANTS Symbols,      \* the instruments
          Groups,       \* the group ids of intents that fill together,
          NoGroup,      \*   and what an ungrouped intent has instead
          NoRebalance,  \* no residual of a portfolio target
          StartCash,    \* the account's cash before the first bar
          MaxPosition,  \* max_position_weight of the equity
          MaxGross,     \* max_gross_exposure of the equity
          MaxNet        \* max_net_exposure of the equity

ASSUME BookAssumption ==
    /\ Symbols # {} /\ IsFiniteSet(Symbols) /\ NoGroup \notin Groups
    /\ StartCash \in Nat
    /\ MaxPosition \in Nat /\ MaxGross \in Nat /\ MaxNet \in Nat

Actions == {"long", "short", "close"}
Resting == {"day", "gtc"}
Sides == {"buy", "sell"}
Protections == {"stop", "target"}
\* What a strategy asks for; at and since are -1 until it was emitted, and
\* until it rests.
Intents == [sym: Symbols, act: Actions, qty: Nat, limit: BOOLEAN,
            tif: Resting \union {"none", "ioc", "fok"},
            group: Groups \union {NoGroup}, protect: SUBSET Protections,
            at: Nat \union {-1}, since: Nat \union {-1}]
\* A decision names a symbol once (validate_strategy_decision).
OnePerSymbol(list) ==
    \A j, k \in DOMAIN list : list[j].sym = list[k].sym => j = k
\* What decides an outcome in a bar: when its range meets a limit, which
\* protections it crosses, the sides the market takes and the liquidity.
BarShapes == [reach: {"open", "intrabar", "no"},
              hit: {"none", "stop", "target", "both"},
              sides: SUBSET Sides, room: Nat]
Magnitude(n) == IF n < 0 THEN -n ELSE n
Lesser(a, b) == IF a < b THEN a ELSE b
Positive(n) == IF n > 0 THEN n ELSE 0
Total(f) == FoldFunction(+, 0, f)
\* The elements of seq that are in S: SelectSeq as a fold over a set, which a
\* proof can unfold.
Kept(seq, S) ==
    FoldLeft(LAMBDA out, e : IF e \in S THEN Append(out, e) ELSE out, <<>>, seq)

\* A position: signed quantity, the protective levels set, whether a market
\* exit was triggered and is not complete, and the group that opened it.
Flat == [qty |-> 0, protect |-> {}, exit |-> FALSE, group |-> NoGroup]
Held(pos) == {s \in Symbols : pos[s].qty # 0}

(***************************************************************************)
(* The exposure limits: a step may pass one only if it was passed before   *)
(* and the step does not make it worse.                                    *)
(***************************************************************************)
Gross(pos) == Total([s \in Symbols |-> Magnitude(pos[s].qty)])
Net(pos) == Magnitude(Total([s \in Symbols |-> pos[s].qty]))
\* Faulty variant: only a limit that was passed before is judged.
WorseThanBefore(before, after) ==
    \/ Gross(before) > MaxGross /\ Gross(after) > Gross(before)
    \/ Net(before) > MaxNet /\ Net(after) > Net(before)
Overexposed(before, after) ==
    \/ Gross(after) > MaxGross /\ Gross(after) > Gross(before)
    \/ Net(after) > MaxNet /\ Net(after) > Net(before)

(***************************************************************************)
(* One fill.  A working book x has cash, pos, the fills of this bar and    *)
(* the intents that stay resting.                                          *)
(***************************************************************************)
Traded(x, s) ==
    FoldLeft(LAMBDA n, f : n + (IF f.sym = s THEN f.qty ELSE 0), 0, x.fills)

\* The bar's liquidity budget left to this symbol.
\* Faulty variant: what was already traded is forgotten.
WholeRoom(x, bars, s) == bars[s].room
Room(x, bars, s) == Positive(bars[s].room - Traded(x, s))

OrderSide(pos, i) ==
    IF i.act = "long" THEN "buy"
    ELSE IF i.act = "short" \/ pos[i.sym].qty > 0 THEN "sell"
    ELSE IF pos[i.sym].qty < 0 THEN "buy" ELSE "none"

\* Whether the market takes an order of this side on this bar at all.
SideTradable(bar, side) == side \in bar.sides

\* When the intent's price is met in the bar: at the open, at an unknown
\* moment inside it, or not at all.
FillTiming(pos, bars, i) ==
    IF i.sym \in DOMAIN bars /\ SideTradable(bars[i.sym], OrderSide(pos, i))
    THEN IF i.limit THEN bars[i.sym].reach ELSE "open"
    ELSE "no"
Priced(pos, bars, i) == FillTiming(pos, bars, i) # "no"

\* An entry that names no quantity takes all the cash.  A fill is capped by
\* the position limit and by the liquidity.
Wanted(x, i) == IF i.qty = 0 THEN Positive(x.cash) ELSE i.qty
Headroom(x, s, cap) == Positive(cap - Magnitude(x.pos[s].qty))
Fillable(x, bars, i, cap) ==
    Lesser(Wanted(x, i), Lesser(Headroom(x, i.sym, cap), Room(x, bars, i.sym)))

\* The quantity an entry gets, 0 when it is rejected; all-or-none is measured
\* after every cap.
EntryQuantity(x, bars, i, cap) ==
    LET n == Fillable(x, bars, i, cap)
    IN IF (i.tif = "fok" /\ n < i.qty) \/ n > x.cash THEN 0 ELSE n

CloseQuantity(x, bars, i) ==
    LET held     == Magnitude(x.pos[i.sym].qty)
        intended == IF i.qty = 0 THEN held ELSE Lesser(i.qty, held)
        fillable == Lesser(intended, Room(x, bars, i.sym))
    IN IF i.tif = "fok" /\ fillable < intended THEN 0 ELSE fillable

\* The group of a fill is its intent's.
Fill(i, kind, n) ==
    [sym |-> i.sym, kind |-> kind, qty |-> n, limit |-> i.limit,
     tif |-> i.tif, group |-> i.group, at |-> i.at, since |-> i.since]

\* A quantity of 0 is a rejection and moves nothing.
Entered(x, i, n) ==
    LET p == x.pos[i.sym]
        signed == IF i.act = "long" THEN n ELSE -n
    IN IF n = 0 THEN x
       ELSE [x EXCEPT
          !.cash = @ - n,
          !.pos[i.sym] = [qty |-> p.qty + signed,
                          protect |-> p.protect \union i.protect,
                          exit |-> p.exit,
                          group |-> IF p.qty = 0 THEN i.group ELSE p.group],
          !.fills = Append(@, Fill(i, IF p.qty = 0 THEN "open" ELSE "add", n))]

Reduced(x, i, n) ==
    LET p == x.pos[i.sym]
        left == IF p.qty > 0 THEN p.qty - n ELSE p.qty + n
    IN IF n = 0 THEN x
       ELSE [x EXCEPT
          !.cash = @ + n,
          !.pos[i.sym] = IF left = 0 THEN Flat ELSE [p EXCEPT !.qty = left],
          !.fills = Append(@, Fill(i, IF left = 0 THEN "close" ELSE "reduce",
                                   n))]

\* An entry on the other side is refused, and so is a scale-in that names no
\* quantity.
OppositeSide(p, i) ==
    p.qty # 0 /\ (p.qty > 0) # (i.act = "long")
Refused(p, i) == OppositeSide(p, i) \/ (p.qty # 0 /\ i.qty = 0)

ExecuteIntent(x, bars, cap, i) ==
    IF ~Priced(x.pos, bars, i)
    THEN IF i.tif \in Resting THEN [x EXCEPT !.resting = Append(@, i)] ELSE x
    ELSE IF i.act = "close" THEN Reduced(x, i, CloseQuantity(x, bars, i))
    ELSE IF Refused(x.pos[i.sym], i) THEN x
    ELSE Entered(x, i, EntryQuantity(x, bars, i, cap))

ExecuteEach(x, bars, cap, intents) ==
    FoldLeft(LAMBDA y, i : ExecuteIntent(y, bars, cap, i), x, intents)

(***************************************************************************)
(* Groups: every leg fills in full, or no leg does.                        *)
(***************************************************************************)
Grouped(intents) == {g \in {intents[k].group : k \in DOMAIN intents} :
                        g # NoGroup}
Legs(intents, g) == Kept(intents, {i \in Range(intents) : i.group = g})

\* Checked before anything moves: a scale-in keeps the position's group, and
\* every leg of a group has a price, a quantity to enter with, a position to
\* close.
ScalesAcrossGroups(pos, intents) ==
    \E k \in DOMAIN intents :
        LET i == intents[k]
            p == pos[i.sym]
        IN /\ i.act # "close"
           /\ p.qty # 0
           /\ ~OppositeSide(p, i)
           /\ i.group # p.group
LegFillable(pos, bars, i) ==
    /\ Priced(pos, bars, i)
    /\ IF i.act = "close" THEN i.qty <= Magnitude(pos[i.sym].qty)
                          ELSE i.qty > 0
PreflightFails(pos, bars, intents) ==
    \/ ScalesAcrossGroups(pos, intents)
    \/ \E k \in DOMAIN intents : /\ intents[k].group # NoGroup
                                 /\ ~LegFillable(pos, bars, intents[k])

Expected(pos, i) == IF i.qty = 0 THEN Magnitude(pos[i.sym].qty) ELSE i.qty

\* The fills that y has and x has not.
NewFills(x, y) == SubSeq(y.fills, Len(x.fills) + 1, Len(y.fills))
\* Faulty variant: legs that filled are kept when others did not.
AsFilled(x, all, legs) == all
WholeOrNothing(x, all, legs) ==
    LET new == NewFills(x, all)
    IN IF /\ Len(new) = Len(legs)
          /\ \A k \in DOMAIN legs : /\ new[k].sym = legs[k].sym
                                    /\ new[k].qty = Expected(x.pos, legs[k])
       THEN all ELSE x
StageGroup(x, bars, cap, legs) ==
    WholeOrNothing(x, ExecuteEach(x, bars, cap, legs), legs)

\* A unit is an ungrouped intent or a whole group, in the order of the first
\* intents.
Units(intents) ==
    LET opens(k) == \/ intents[k].group = NoGroup
                    \/ \A j \in 1..(k - 1) : intents[j].group # intents[k].group
        starts == Kept([k \in DOMAIN intents |-> k],
                       {k \in DOMAIN intents : opens(k)})
        unit(k) == IF intents[k].group = NoGroup
                   THEN <<intents[k]>> ELSE Legs(intents, intents[k].group)
    IN [n \in DOMAIN starts |-> unit(starts[n])]

ExecuteUnit(y, bars, cap, unit) ==
    IF unit[1].group = NoGroup THEN ExecuteIntent(y, bars, cap, unit[1])
                               ELSE StageGroup(y, bars, cap, unit)
EachUnit(x, bars, cap, intents) ==
    FoldLeft(LAMBDA y, unit : ExecuteUnit(y, bars, cap, unit), x, Units(intents))

\* With a group in the batch the resting intents of the ungrouped units are
\* not collected.
ExecuteUnits(x, bars, cap, intents) ==
    [EachUnit(x, bars, cap, intents) EXCEPT !.resting = x.resting]

(***************************************************************************)
(* A portfolio target, as signed quantities.  A rebalance keeps, for every *)
(* symbol, what is still to be reduced, what is still to be added (signed) *)
(* and the target of a leg that no fresh price has sized yet.              *)
(***************************************************************************)
SameWay(p, t) == p = 0 \/ t = 0 \/ (p > 0) = (t > 0)
Signed(n, t) == IF t > 0 THEN n ELSE -n
ReduceBy(p, t) == IF SameWay(p, t) THEN Positive(Magnitude(p) - Magnitude(t))
                                   ELSE Magnitude(p)
AddBy(p, t) == IF SameWay(p, t)
               THEN Signed(Positive(Magnitude(t) - Magnitude(p)), t) ELSE t

\* Sized are the symbols with a fresh price; a held symbol whose target is
\* zero needs none.
Plan(pos, bars, target) ==
    LET sized(s) == s \in DOMAIN bars \/ target[s] = 0
    IN [red |-> [s \in Symbols |->
                   IF sized(s) THEN ReduceBy(pos[s].qty, target[s]) ELSE 0],
        add |-> [s \in Symbols |->
                   IF sized(s) THEN AddBy(pos[s].qty, target[s]) ELSE 0],
        legs |-> [s \in Symbols |-> IF sized(s) THEN 0 ELSE target[s]]]

Targeted(r) == {s \in Symbols : r.red[s] # 0 \/ r.add[s] # 0 \/ r.legs[s] # 0}
Remaining(r) == IF Targeted(r) = {} THEN NoRebalance ELSE r
Without(r, gone) ==
    LET keep(f) == [s \in Symbols |-> IF s \in gone THEN 0 ELSE f[s]]
    IN Remaining([red |-> keep(r.red), add |-> keep(r.add),
                  legs |-> keep(r.legs)])

\* The orders of one phase, in symbol order.
Order(s, act, n) ==
    [sym |-> s, act |-> act, qty |-> n, limit |-> FALSE, tif |-> "none",
     group |-> NoGroup, protect |-> {}, at |-> -1, since |-> -1]
Orders(order) ==
    LET sorted == SetToSeq(DOMAIN order) IN [k \in DOMAIN sorted |-> order[sorted[k]]]
Reductions(r, syms) ==
    Orders([s \in {s \in syms : r.red[s] # 0} |-> Order(s, "close", r.red[s])])
Additions(add, syms) ==
    Orders([s \in {s \in syms : add[s] # 0} |->
                Order(s, IF add[s] > 0 THEN "long" ELSE "short", Magnitude(add[s]))])

\* All additions are scaled by the one largest factor the cash pays for, and
\* each is rounded down to a whole lot.
Steps(add) ==
    2 * FoldSet(LAMBDA s, n : n * (IF add[s] = 0 THEN 1 ELSE Magnitude(add[s])),
                1, Symbols)
Share(add, n, steps) == [s \in Symbols |-> (Magnitude(add[s]) * n) \div steps]
ScaledToCash(add, cash) ==
    LET steps == Steps(add)
        best == Max({n \in 0..steps :
                        Total(Share(add, n, steps)) <= Positive(cash)})
    IN [s \in Symbols |-> Signed(Share(add, best, steps)[s], add[s])]

(***************************************************************************)
(* residual policy "discard": the whole target on this bar, or nothing.    *)
(***************************************************************************)
Outcome(out, x, left) == [out |-> out, x |-> x, left |-> left]
AddWhole(y, bars, add) ==
    Outcome("ok", ExecuteEach(y, bars, MaxPosition,
                              Additions(ScaledToCash(add, y.cash), Symbols)),
            NoRebalance)

ExecutePlan(x, bars, r) ==
    LET orders == Reductions(r, Symbols) \o Additions(r.add, Symbols)
        unpriced == \/ ~(Held(x.pos) \subseteq DOMAIN bars)
                    \/ \E s \in Symbols : r.legs[s] # 0
        grouped == \E s \in Symbols : /\ r.add[s] # 0 /\ r.red[s] = 0
                                      /\ x.pos[s].group # NoGroup
    IN IF unpriced THEN Outcome("unavailable", x, NoRebalance)
       ELSE IF grouped THEN Outcome("raise", x, NoRebalance)
       ELSE IF \E k \in DOMAIN orders : ~Priced(x.pos, bars, orders[k])
       THEN Outcome("unavailable", x, NoRebalance)
       ELSE AddWhole(ExecuteEach(x, bars, MaxPosition, Reductions(r, Symbols)),
                     bars, r.add)

ExecuteWhole(x, bars, target) == ExecutePlan(x, bars, Plan(x.pos, bars, target))

(***************************************************************************)
(* The other policies execute what this bar's liquidity allows and keep    *)
(* the rest: "defer_all" waits for every symbol, "defer_symbols" only for  *)
(* the blocked ones, "fail" accepts no residual.                           *)
(***************************************************************************)
\* Unresolved legs that have a fresh price now, and reductions that are not
\* larger than what is held.
Resolved(r, pos, bars) ==
    LET due(s) == r.legs[s] # 0 /\ s \in DOMAIN bars
        red(s) == IF due(s) THEN ReduceBy(pos[s].qty, r.legs[s]) ELSE r.red[s]
    IN [red |-> [s \in Symbols |-> Lesser(red(s), Magnitude(pos[s].qty))],
        add |-> [s \in Symbols |-> IF due(s) THEN AddBy(pos[s].qty, r.legs[s])
                                             ELSE r.add[s]],
        legs |-> [s \in Symbols |-> IF due(s) THEN 0 ELSE r.legs[s]]]

Blocked(r, x, bars) ==
    LET unpriced(s, orders) == \E k \in DOMAIN orders :
                                  ~Priced(x.pos, bars, orders[k])
    IN {s \in Targeted(r) :
          \/ r.legs[s] # 0
          \/ unpriced(s, Reductions(r, {s}) \o Additions(r.add, {s}))
          \/ Room(x, bars, s) = 0}

FilledOf(x, y, s, kinds) ==
    FoldLeft(LAMBDA n, f : n + (IF f.sym = s /\ f.kind \in kinds
                                THEN f.qty ELSE 0),
             0, NewFills(x, y))

\* The additions, scaled to the cash.  What no later reduction can pay for is
\* given up.
\* Faulty variant: a partial fill ends its leg.
FilledOnce(y, z, r, asked) ==
    Outcome("ok", z, Remaining([r EXCEPT !.add = [s \in Symbols |->
        IF FilledOf(y, z, s, {"open", "add"}) > 0 THEN 0 ELSE asked[s]]]))
AfterAdditions(y, z, r, asked) ==
    Outcome("ok", z, Remaining([r EXCEPT !.add = [s \in Symbols |->
        Signed(Positive(Magnitude(asked[s]) - FilledOf(y, z, s, {"open", "add"})),
               asked[s])]]))
AddSlice(y, bars, r, ripe, wanted, scaled) ==
    LET funding == \/ \E s \in Symbols : r.red[s] # 0
                   \/ \E s \in Held(y.pos) : r.legs[s] # 0
        asked   == [s \in Symbols |-> IF s \notin ripe THEN r.add[s]
                                      ELSE IF funding THEN wanted[s]
                                      ELSE scaled[s]]
    IN AfterAdditions(y, ExecuteEach(y, bars, MaxPosition,
                                     Additions(scaled, ripe)), r, asked)

\* An addition waits for its own symbol's reduction, and what is above the
\* position limit is given up, which "fail" does not accept.
AfterReductions(y, bars, r, open, policy) ==
    LET ripe     == {s \in open : r.add[s] # 0 /\ r.red[s] = 0}
        headroom(s) == Headroom(y, s, MaxPosition)
        limited  == \E s \in ripe : Magnitude(r.add[s]) > headroom(s)
        wanted   == [s \in Symbols |-> IF s \notin ripe THEN 0
                        ELSE Signed(Lesser(headroom(s), Magnitude(r.add[s])),
                                    r.add[s])]
    IN IF policy = "fail" /\ limited THEN Outcome("raise", y, NoRebalance)
       ELSE AddSlice(y, bars, r, ripe, wanted, ScaledToCash(wanted, y.cash))
ReduceSlice(x, y, bars, r, open, policy) ==
    AfterReductions(y, bars,
        [r EXCEPT !.red = [s \in Symbols |->
            Positive(r.red[s] - FilledOf(x, y, s, {"reduce", "close"}))]],
        open, policy)

Accepted(x, result, policy) ==
    IF \/ result.out = "raise"
       \/ policy = "fail" /\ result.left # NoRebalance
    THEN Outcome("raise", x, NoRebalance) ELSE result
SliceOf(x, bars, r, blocked, policy) ==
    LET open == Symbols \ blocked
    IN IF policy = "defer_all" /\ blocked # {}
       THEN Outcome("ok", x, Remaining(r))
       ELSE Accepted(x, ReduceSlice(x, ExecuteEach(x, bars, MaxPosition,
                                                   Reductions(r, open)),
                                    bars, r, open, policy), policy)
ResolvedSlice(x, bars, r, policy) ==
    SliceOf(x, bars, r, Blocked(r, x, bars), policy)

ExecuteSlice(x, bars, state, policy) ==
    LET exits == {s \in Symbols : x.pos[s].exit}
        kept  == Without(state, exits)
    IN IF policy = "fail" /\ Targeted(state) \cap exits # {}
       THEN Outcome("raise", x, NoRebalance)
       ELSE IF kept = NoRebalance THEN Outcome("ok", x, NoRebalance)
       ELSE ResolvedSlice(x, bars, Resolved(kept, x.pos, bars), policy)

(***************************************************************************)
(* Protective exits.  A stop is a market order: once its level is crossed  *)
(* what the bar cannot absorb stays owed and goes on at the next open.  A  *)
(* target is a limit order; met at the open, it fills before a stop that   *)
(* the same bar crosses later.                                             *)
(***************************************************************************)
StopCrossed(p, bar) == "stop" \in p.protect /\ bar.hit \in {"stop", "both"}
TargetMet(p, bar) == "target" \in p.protect /\ bar.hit \in {"target", "both"}
Triggered(p, bar) == p.exit \/ StopCrossed(p, bar) \/ TargetMet(p, bar)

ProtectiveOrder(s) == [Order(s, "close", 0) EXCEPT !.tif = "protective"]
Stopped(x, bars, s, n) ==
    LET p == x.pos[s]
        closed == Reduced(x, ProtectiveOrder(s), n)
    IN IF n = Magnitude(p.qty) THEN closed
       ELSE [closed EXCEPT !.pos[s].exit = p.exit \/ StopCrossed(p, bars[s])]
CheckStop(x, bars, s) ==
    LET order == ProtectiveOrder(s)
    IN Stopped(x, bars, s, IF Priced(x.pos, bars, order)
                           THEN CloseQuantity(x, bars, order) ELSE 0)

\* The held symbols of `eligible` whose protection this cohort triggers.
Protected(pos, bars, eligible) ==
    {s \in Held(pos) \cap eligible \cap DOMAIN bars :
        Triggered(pos[s], bars[s])}
CheckStops(x, bars, eligible) ==
    FoldSet(LAMBDA s, y : CheckStop(y, bars, s), x,
            Protected(x.pos, bars, eligible))

(***************************************************************************)
(* A limit reached inside the bar and a protection of the same position    *)
(* triggered by the same bar have no order that OHLCV can tell.            *)
(***************************************************************************)
FillKinds(i) == IF i.act = "close" THEN {"close", "reduce"} ELSE {"add"}
Ambiguous(before, after, bars, intents) ==
    \E k \in DOMAIN intents :
        LET s == intents[k].sym
        IN /\ before.pos[s].qty # 0
           /\ FillTiming(before.pos, bars, intents[k]) = "intrabar"
           /\ FilledOf(before, after, s, FillKinds(intents[k])) > 0
           /\ \/ Triggered(before.pos[s], bars[s])
              \/ /\ after.pos[s].qty # 0
                 /\ ~after.pos[s].exit
                 /\ Triggered(after.pos[s], bars[s])

(***************************************************************************)
(* One step of the executor.  A decision is [intents, target]: a sequence  *)
(* of intents, or NoTarget's place taken by a target; rebal is the residual*)
(* of an earlier target.  The outcome names what the caller sees: "ok",    *)
(* the deferrable "unavailable", or a "raise".                             *)
(***************************************************************************)
\* Entries known to fill at the open, and every symbol a target adds to,
\* are protected on this bar already.
FilledAtOpen(intents, pos, bars) ==
    {intents[k].sym : k \in {j \in DOMAIN intents :
        /\ intents[j].act # "close"
        /\ FillTiming(pos, bars, intents[j]) = "open"}}

Unambiguous(x, y, bars, intents) ==
    IF Ambiguous(x, y, bars, intents)
    THEN Outcome("raise", x, NoRebalance) ELSE Outcome("ok", y, NoRebalance)
ExecuteIntents(x, bars, intents) ==
    IF PreflightFails(x.pos, bars, intents)
    THEN Outcome("raise", x, NoRebalance)
    ELSE Unambiguous(x, IF Grouped(intents) = {}
                        THEN ExecuteEach(x, bars, MaxPosition, intents)
                        ELSE ExecuteUnits(x, bars, MaxPosition, intents),
                     bars, intents)

\* A step past an exposure limit is refused before anything moves.
WithinLimits(x, r) ==
    IF r.out = "ok" /\ Overexposed(x.pos, r.x.pos)
    THEN Outcome("raise", x, NoRebalance) ELSE r

\* A step that succeeded ends with the protective exits of what was held and
\* of what was surely `added` before.  They own their symbols: legs of the
\* target that are left for one are cancelled.
\* Faulty variant: the residual is not told of the exits.
StopsAlone(r, bars, eligible, added) ==
    [r EXCEPT !.x = CheckStops(@, bars, eligible \union added)]
AfterStops(r, bars, eligible, added) ==
    IF r.out # "ok" THEN r
    ELSE Outcome("ok", CheckStops(r.x, bars, eligible \union added),
                 IF r.left = NoRebalance THEN NoRebalance
                 ELSE Without(r.left, Protected(r.x.pos, bars,
                                                eligible \union added)))

ExecuteBarOfIntents(x, bars, intents, eligible) ==
    AfterStops(WithinLimits(x, ExecuteIntents(x, bars, intents)), bars,
               Held(x.pos) \cap eligible, FilledAtOpen(intents, x.pos, bars))

ExecuteBarOfTarget(x, bars, target, policy, eligible) ==
    AfterStops(WithinLimits(x, IF policy = "discard"
                               THEN ExecuteWhole(x, bars, target)
                               ELSE ExecuteSlice(x, bars,
                                        Plan(x.pos, bars, target), policy)),
               bars, Held(x.pos) \cap eligible,
               {s \in Symbols : target[s] # 0})

ExecuteBarOfResidual(x, bars, state, policy, eligible) ==
    AfterStops(WithinLimits(x, ExecuteSlice(x, bars, state, policy)), bars,
               Held(x.pos) \cap eligible, {s \in Symbols : state.add[s] # 0})

\* What is still open at the last bar's close is closed with the liquidity
\* the bar has left.
LiquidateAll(x, bars) ==
    ExecuteEach(x, bars, MaxPosition,
                Orders([s \in Held(x.pos) \cap DOMAIN bars |->
                            [Order(s, "close", 0) EXCEPT !.tif = "force_close"]]))
=============================================================================
