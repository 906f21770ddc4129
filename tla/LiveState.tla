------------------------------- MODULE LiveState -------------------------------
(***************************************************************************)
(* The state of one live trading process (live/engine.py, LiveTrader), of  *)
(* the checkpoint it keeps in the state store, and of the broker's side of *)
(* its orders; and the vocabulary the other modules write their steps in.  *)
(*                                                                         *)
(* A step is at most one call that leaves the process (a checkpoint write, *)
(* a placement, a status read, a cancel) with the memory work up to the    *)
(* next such call, so that a crash, a fill or a request can fall between   *)
(* any two of them.                                                        *)
(***************************************************************************)
EXTENDS Naturals, FiniteSets

CONSTANTS
    Order,         \* every order request a behaviour may queue
    NoOrder,       \* a value that is no order
    Group,         \* the group ids the strategy gives to related intents
    NoGroup,       \* the group id of an ungrouped request
    GroupOf,       \* the group id of each request; an exit has its position's
    Entry,         \* requests that open or add; the others reduce or close
    RecoveryExit,  \* exits of a drawdown breach or an operator flatten
    Leg,           \* requests a target rebalance queues, one at a time
    Rank,          \* the place of each request in the queue it is part of
    Plans,         \* the request sets of the decisions a strategy may make
    Qty,           \* the quantity of every request
    Events         \* what may happen in this instance, see AllEvents

AllEvents == {"crash", "outage", "silence", "garbled", "lag", "late", "refusal",
              "accountFault", "venueCancel", "turnedDown", "breach", "drawdown",
              "mismatch", "unfunded", "staleExit", "preflight", "waiting", "twoBars",
              "halt", "reset", "flatten", "callHalt", "callReset", "pause"}

ASSUME RequestAssumption ==
    /\ NoOrder \notin Order
    /\ NoGroup \notin Group
    /\ GroupOf \in [Order -> Group \cup {NoGroup}]
    /\ Entry \subseteq Order
    /\ Leg \subseteq Order
    /\ RecoveryExit \subseteq Order \ (Entry \cup Leg)
    /\ \A o \in Leg \cap Entry : GroupOf[o] = NoGroup

ASSUME QueueAssumption ==
    /\ Rank \in [Order -> Nat]
    /\ \A o, p \in Order : Rank[o] = Rank[p] => o = p
    /\ Plans \subseteq SUBSET (Order \ (RecoveryExit \cup Leg))
    /\ \A S, T \in Plans : S = T \/ S \cap T = {}

ASSUME QtyAssumption == Qty \in Nat \ {0}

ASSUME EventsAssumption == Events \subseteq AllEvents

VARIABLES
    live,     \* the checkpointed part of the process's memory
    disk,     \* the last checkpoint the store holds
    carried,  \* order rows of a failed write wait for the next one
    proc,     \* memory a restart forgets
    ctl,      \* where the thread that holds the cycle lock stands
    req,      \* requests other threads have queued
    venue,    \* the broker's record of each order
    late      \* placed orders that are past live_order_timeout_seconds

vars == <<live, disk, carried, proc, ctl, req, venue, late>>

-----------------------------------------------------------------------------
(* The checkpoint: LiveTrader._snapshot_state and TrackedOrder. *)

Ended == {"filled", "cancelled", "rejected"}
Status == {"new", "submitted", "cancel_pending"} \cup Ended

TrackedOrder == [status          : Status,
                 attempted       : BOOLEAN,
                 hasId           : BOOLEAN,
                 cancelRequested : BOOLEAN,
                 filled          : 0 .. Qty]

Snapshot == [tracked     : SUBSET Order,          \* _active_orders
             order       : [Order -> TrackedOrder],
             book        : [Order -> 0 .. Qty],    \* booked into positions and cash
             halted      : BOOLEAN,
             paused      : BOOLEAN,
             unstarted   : SUBSET Group,           \* _unstarted_groups
             rebalancing : BOOLEAN]                \* _live_rebalance is not None

FreshOrder == [status |-> "new", attempted |-> FALSE, hasId |-> FALSE,
               cancelRequested |-> FALSE, filled |-> 0]

FreshSnapshot == [tracked |-> {}, order |-> [o \in Order |-> FreshOrder],
                  book |-> [o \in Order |-> 0], halted |-> FALSE, paused |-> FALSE,
                  unstarted |-> {}, rebalancing |-> FALSE]

\* One checkpoint write of memory l that the store acknowledges. Rows carried
\* from a failed write ride along; a row the store refuses is dropped loudly.
Saved(l) == /\ live' = l
            /\ disk' = l
            /\ carried' = FALSE

\* A write that raises: the store may hold it or not, and the rows it was
\* given (rows) are carried to the next write.
NotSaved(l, rows) == /\ "outage" \in Events
                     /\ live' = l
                     /\ disk' \in {disk, l}
                     /\ carried' = (carried \/ rows)

-----------------------------------------------------------------------------
(* Memory outside the checkpoint. *)

Process == [haltUnsaved   : BOOLEAN,                 \* _halt_unpersisted
            cancelsOwed   : BOOLEAN,                 \* _halt_cancels_pending
            fillUnchecked : BOOLEAN,                 \* _entry_fill_unchecked
            unverified    : BOOLEAN,                 \* _resume_unverified
            cancelSent    : [Order -> {"no", "earlier", "thisPass"}]] \* _cancels_sent

FreshProcess == [haltUnsaved |-> FALSE, cancelsOwed |-> FALSE, fillUnchecked |-> FALSE,
                 unverified |-> FALSE, cancelSent |-> [o \in Order |-> "no"]]

Requests == [halt : BOOLEAN, reset : BOOLEAN, flatten : BOOLEAN]

NoRequest == [halt |-> FALSE, reset |-> FALSE, flatten |-> FALSE]

-----------------------------------------------------------------------------
(* The broker's record of an order; sent counts the placements it was sent. *)

VenueStatus == {"none", "sending", "working", "pending"} \cup Ended

VenueOrder == [status : VenueStatus, filled : 0 .. Qty, sent : 0 .. 2]

UnknownOrder == [status |-> "none", filled |-> 0, sent |-> 0]

-----------------------------------------------------------------------------
(***************************************************************************)
(* Control.  pc is the next call to make, ctx the caller that the order    *)
(* work or the halt returns to, cur the order at hand, loop the caller     *)
(* that _cancel_tracked_order returns to, todo the orders that loop has    *)
(* left, fail the first failure of a cancel pass, cycle what the cycle     *)
(* remembers of its halt work: that a pass ran, or that it will raise.     *)
(***************************************************************************)

PC == {"exit", "idle", "retryHalt", "reset", "carry", "head", "place", "lookup",
       "judge", "timeout", "timeoutCancel", "timedOut", "halt", "loop", "cancel",
       "send", "force", "cancelled", "flatten", "account", "exitsHalt", "reconcile",
       "bar", "event", "leg", "equity", "decide", "commit", "openOrders", "verify"}

Context == {"none", "cycle", "operator", "request", "retry", "again", "orders",
            "exits", "breach", "waiting", "decide", "leg", "newLeg", "free",
            "blocked", "reconcile", "start", "startHalted", "startFailed",
            "orphanHalted"}

Loops == {"none", "head", "halt", "retry", "flatten", "restart", "group",
          "groupLast", "drop"}

\* A pass visits every order and raises its first failure at the end.
Passes == {"halt", "retry", "flatten", "restart"}

Control == [pc : PC, ctx : Context, cur : Order \cup {NoOrder}, loop : Loops,
            todo : SUBSET Order, fail : {"none", "bad", "err"},
            cycle : {"none", "passed", "raises"}]

At(pc, ctx) == [pc |-> pc, ctx |-> ctx, cur |-> NoOrder, loop |-> "none",
                todo |-> {}, fail |-> "none", cycle |-> "none"]

Quiet == At("idle", "none")

\* The same caller goes on at pc.
Go(pc) == [At(pc, ctl.ctx) EXCEPT !.cycle = ctl.cycle]
GoWith(pc, o) == [Go(pc) EXCEPT !.cur = o]

\* A flatten or a drawdown breach is submitting its exits (_flatten_at).
Exits == {"exits", "breach"}
SubmittingExits == ctl.ctx \in Exits

MoreLegs(l) == l.rebalancing /\ l.tracked = {} /\ ~l.halted

\* Where a caller goes on once its order work, or its halt, returns normally.
\* l is the memory it then finds.
Done(l) ==
    LET c == ctl.ctx IN
    CASE c = "request"     -> At("retryHalt", "retry")
      [] c = "again"       -> [At("carry", "cycle") EXCEPT !.cycle = ctl.cycle]
      [] c = "orders"      -> At("flatten", "cycle")
      [] c \in Exits       -> At("exitsHalt", c)
      [] c = "reconcile"   -> At("bar", "cycle")
      [] c = "waiting"     -> IF l.tracked = {} /\ ~l.halted THEN At("equity", "free")
                                                             ELSE At("commit", "cycle")
      [] c = "leg"         -> IF MoreLegs(l) THEN At("leg", c) ELSE At("equity", "blocked")
      [] c = "newLeg"      -> IF MoreLegs(l) THEN At("leg", c) ELSE At("commit", "cycle")
      [] c = "decide"      -> At("commit", "cycle")
      [] c \in {"start", "startHalted"} -> At("openOrders", c)
      [] c \in {"startFailed", "orphanHalted"} -> At("verify", "start")
      [] OTHER             -> Quiet

\* Where a caller goes on when they raise: "bad" is ReportNotAppliedError, an
\* answer of the venue that does not reconcile; "err" is any other exception.
\* l is the memory the caller then finds.
Raise(e, l) ==
    LET c == ctl.ctx IN
    CASE c = "request" /\ e = "bad" -> [At("reset", "cycle") EXCEPT !.cycle = "passed"]
      [] c = "retry" -> [At("reset", "cycle") EXCEPT
                            !.cycle = IF e = "bad" THEN "passed" ELSE "raises"]
      [] c \in Exits /\ ~l.halted -> [At("exitsHalt", c) EXCEPT !.fail = "err"]
      [] c = "start" -> IF l.halted THEN At("exit", "none") ELSE At("halt", "startFailed")
      [] c \in {"startHalted", "orphanHalted"} -> At("halt", "startFailed")
      [] c = "startFailed" -> At("exit", "none")
      [] OTHER -> Quiet

-----------------------------------------------------------------------------
(* The queue. *)

IsFirst(o, S) == o \in S /\ \A p \in S : Rank[o] <= Rank[p]

IsHead(o) == IsFirst(o, live.tracked)

Siblings(o) == {p \in live.tracked : GroupOf[p] = GroupOf[o]}

Fresh(S) == {o \in S : live.order[o].status = "new"}

\* Memory l with the requests of S appended to the (empty) queue.
Queued(l, S) == [l EXCEPT !.tracked = @ \cup S,
                          !.order = [o \in Order |-> IF o \in S
                                        THEN [@[o] EXCEPT !.status = "submitted"]
                                        ELSE @[o]]]

\* Memory with the requests of a plan queued, and their groups to be judged.
Planned(S) == [Queued(live, S) EXCEPT !.unstarted = {GroupOf[o] : o \in S} \ {NoGroup}]

\* Memory l with the unsent orders of S dropped from the queue.
Dropped(l, S) == [l EXCEPT !.tracked = @ \ S,
                           !.order = [o \in Order |-> IF o \in S
                                         THEN [@[o] EXCEPT !.status = "cancelled"]
                                         ELSE @[o]]]

LateOrder(o) == o \in late /\ live.order[o].attempted

=============================================================================
