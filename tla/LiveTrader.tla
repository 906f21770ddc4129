------------------------------- MODULE LiveTrader ------------------------------
(***************************************************************************)
(* One live process: its polling cycle (LiveTrader._poll_cycle), the work  *)
(* of a completed bar (_process_cycle), its start from a checkpoint        *)
(* (_initialize_run), and its end at any point.                            *)
(***************************************************************************)
EXTENDS AccountHalt

Engine == UNCHANGED proc /\ Outside

\* A cycle begins: a new pass, then the requested halt, then the halt's retry.
BeginCycle ==
    /\ ctl.pc = "idle"
    /\ proc' = NewPass(proc)
    /\ IF req.halt THEN ManualHalt("request")
                   ELSE ctl' = At("retryHalt", "retry") /\ UNCHANGED req
    /\ UNCHANGED <<venue, late>> /\ Checkpointed

\* An error of the halt's retry propagates now, after the reset work.  Rows a
\* failed write left are written before any order work, which a cancel pass of
\* this cycle has done already.
CarryRows ==
    /\ ctl.pc = "carry"
    /\ LET next == IF live.tracked # {} /\ ctl.cycle # "passed"
                   THEN At("head", "orders") ELSE At("flatten", "cycle") IN
       IF ctl.cycle = "raises" THEN Checkpointed /\ ctl' = Quiet
       ELSE IF ~carried THEN Checkpointed /\ ctl' = next
       ELSE \/ Saved(live) /\ ctl' = next
            \/ NotSaved(live, TRUE) /\ ctl' = Quiet
    /\ Engine

\* _maybe_reconcile_runtime: not due or unavailable, matching, or a halt.
Reconcile ==
    /\ ctl.pc = "reconcile"
    /\ \/ ctl' = At("bar", "cycle") /\ UNCHANGED proc
       \/ /\ ~live.halted /\ live.tracked = {} /\ ~live.rebalancing
          /\ \/ ctl' = At("bar", "cycle") /\ proc' = [proc EXCEPT !.unverified = FALSE]
             \/ /\ "mismatch" \in Events
                /\ ctl' = At("halt", "reconcile") /\ UNCHANGED proc
    /\ Checkpointed /\ Outside

\* Faulty variant: bars are worked on with a book a reset left unverified.
BarTrusts ==
    /\ ctl.pc = "bar"
    /\ \/ ctl' = Quiet
       \/ /\ live.tracked = {} /\ ~live.halted
          /\ ctl' = At("event", "cycle")
    /\ Checkpointed /\ Engine

\* Completed bars are worked on unless an order rests, the account is halted
\* or a reset book is unverified.
Bar ==
    /\ ctl.pc = "bar"
    /\ \/ ctl' = Quiet
       \/ /\ live.tracked = {} /\ ~live.halted /\ ~proc.unverified
          /\ ctl' = At("event", "cycle")
    /\ Checkpointed /\ Engine

-----------------------------------------------------------------------------
(* One bar. *)

\* Faulty variant: only a rebalance keeps the strategy from deciding.
RebalanceBlocks == live.rebalancing

\* Orders of the previous decision keep the strategy from deciding.
Blocked == live.rebalancing \/ live.tracked # {}

\* An active rebalance goes on, or a decision that waited for this bar does;
\* neither on a bar a failed cycle has executed already.
Event ==
    /\ ctl.pc = "event"
    /\ \/ ctl' = At("equity", IF Blocked THEN "blocked" ELSE "free")
       \/ MoreLegs(live) /\ ctl' = At("leg", "leg")
       \/ /\ "waiting" \in Events
          /\ ~live.rebalancing /\ live.tracked = {} /\ ~live.halted
          /\ ctl' = At("decide", "waiting")
    /\ Checkpointed /\ Engine

\* _execute_live_decision: the planned requests are queued on an empty queue
\* and checkpointed, then advanced.  A decision that waited has no groups.
Decide ==
    /\ ctl.pc = "decide"
    /\ \/ ctl' = Done(live) /\ Checkpointed
       \/ "preflight" \in Events /\ ctl' = Go("halt") /\ Checkpointed
       \/ \E S \in Plans \ {{}} :
             /\ S = Fresh(S)
             /\ ctl.ctx = "waiting" => \A o \in S : GroupOf[o] = NoGroup
             /\ LET l == Planned(S) IN
                \/ Saved(l) /\ ctl' = Go("head")
                \/ NotSaved(l, TRUE) /\ ctl' = Raise("err", l)
       \/ /\ ctl.ctx = "decide" /\ Fresh(Leg) # {}     \* PortfolioWeights
          /\ LET l == [live EXCEPT !.rebalancing = TRUE] IN
             \/ Saved(l) /\ ctl' = At("leg", "newLeg")
             \/ NotSaved(l, FALSE) /\ ctl' = Raise("err", l)
    /\ Engine

\* _queue_next_live_rebalance_order: one leg, a bar's delay, a refusal, or the
\* end of the rebalance.  While entries are paused only reductions are planned.
RebalanceLeg ==
    /\ ctl.pc = "leg"
    /\ \/ \E o \in Fresh(Leg) \ (IF live.paused THEN Entry ELSE {}) :
             LET l == Queued(live, {o}) IN
             \/ Saved(l) /\ ctl' = Go("head")
             \/ NotSaved(l, TRUE) /\ ctl' = Raise("err", l)
       \/ /\ \/ /\ Saved(live)
                /\ ctl' = IF ctl.ctx = "leg" THEN At("equity", "blocked")
                                             ELSE At("commit", "cycle")
             \/ NotSaved(live, FALSE) /\ ctl' = Raise("err", live)
       \/ "preflight" \in Events /\ ctl' = Go("halt") /\ Checkpointed
       \/ LET l == [live EXCEPT !.rebalancing = FALSE] IN
          \/ /\ Saved(l)
             /\ ctl' = IF ctl.ctx = "leg" THEN At("equity", "free") ELSE At("commit", "cycle")
          \/ NotSaved(l, FALSE) /\ ctl' = Raise("err", l)
    /\ Engine

\* The bar's execution is recorded, then _record_equity: a drawdown breach
\* flattens; otherwise the strategy decides, unless it is blocked.
Equity ==
    /\ ctl.pc = "equity"
    /\ \/ /\ Saved(live) \/ Checkpointed
          /\ \/ ctl' = IF live.halted \/ ctl.ctx = "blocked" THEN At("commit", "cycle")
                                                            ELSE At("decide", "decide")
             \/ "drawdown" \in Events /\ ~live.halted /\ ctl' = At("account", "breach")
       \/ NotSaved(live, FALSE) /\ ctl' = Quiet
    /\ Engine

\* The bar is committed.  Bars of other symbols may have another timestamp.
Commit ==
    /\ ctl.pc = "commit"
    /\ \/ /\ Saved(live) \/ Checkpointed
          /\ ctl' \in {Quiet} \cup
                      (IF "twoBars" \in Events THEN {At("event", "cycle")} ELSE {})
       \/ NotSaved(live, FALSE) /\ ctl' = Quiet
    /\ Engine

-----------------------------------------------------------------------------
(* Start and end of the process. *)

Forgotten == /\ live' = disk
             /\ carried' = FALSE
             /\ proc' = FreshProcess
             /\ req' = NoRequest
             /\ UNCHANGED <<disk, venue, late>>

\* The process ends at any point; queued requests go with it.
Crash == /\ "crash" \in Events /\ ctl.pc # "exit"
         /\ Forgotten /\ ctl' = At("exit", "none")

RecoveryOnly(l) == l.tracked # {} /\ l.tracked \subseteq RecoveryExit

\* _initialize_run: a halted account is cancelled, unless only exits work;
\* any other is polled without submitting what is planned.
Start ==
    /\ ctl.pc = "exit"
    /\ Forgotten
    /\ ctl' = IF ~disk.halted THEN At("head", "start")
              ELSE IF RecoveryOnly(disk) THEN At("head", "startHalted")
              ELSE [At("loop", "startHalted") EXCEPT !.loop = "restart", !.todo = disk.tracked]

\* _reconcile_open_orders, which halts on an order nobody tracks.
OpenOrders ==
    /\ ctl.pc = "openOrders"
    /\ \/ ctl' = At("verify", "start")
       \/ "silence" \in Events /\ ctl' = Raise("err", live)
       \/ /\ "mismatch" \in Events
          /\ ctl' = At("halt", IF ctl.ctx = "start" THEN "startFailed" ELSE "orphanHalted")
    /\ Checkpointed /\ Engine

\* Positions that do not match, or cannot be read, refuse the start.
Verify ==
    /\ ctl.pc = "verify"
    /\ ctl' \in {Quiet} \cup (IF {"mismatch", "silence"} \cap Events # {}
                              THEN {At("exit", "none")} ELSE {})
    /\ Checkpointed /\ Engine

-----------------------------------------------------------------------------

Init == /\ live = FreshSnapshot
        /\ disk = FreshSnapshot
        /\ carried = FALSE
        /\ proc = FreshProcess
        /\ ctl = At("exit", "none")
        /\ req = NoRequest
        /\ venue = [o \in Order |-> UnknownOrder]
        /\ late = {}

CycleStep == \/ BeginCycle \/ CarryRows \/ Reconcile \/ Bar \/ Event \/ Decide
             \/ RebalanceLeg \/ Equity \/ Commit \/ Start \/ OpenOrders \/ Verify

EngineStep == CycleStep \/ AccountHaltStep \/ OrderWorkStep

Next == \/ EngineStep \/ OperatorStep \/ Crash
        \/ \E o \in Order : VenueStep(o)

Spec == Init /\ [][Next]_vars

\* The loop of run() keeps going round and the environment does not fail for
\* ever: what is tried again and again, a start, a halt's retried write, a
\* status read, a cancel, succeeds at last, and a pending cancel ends.
ReadAnswered(o) ==
    \/ Poll(o) /\ ctl'.pc \in {"judge", "halt"}
    \/ /\ CancelReads(o) /\ ~carried'
       /\ live'.order[o].hasId
       /\ live'.order[o].filled = venue[o].filled
       /\ live'.order[o].status = ReportOf(venue[o]).status

CancelEnds(o) == /\ CancelSends(o) \/ VenueEndsCancel(o)
                 /\ venue'[o].status = "cancelled"

Fairness == /\ WF_vars(EngineStep)
            /\ SF_vars(RetryHalt /\ ~proc'.haltUnsaved)
            /\ SF_vars(CarryRows /\ ~carried')
            /\ SF_vars(OpenOrders /\ ctl'.pc = "verify")
            /\ SF_vars(Verify /\ ctl'.pc = "idle")
            /\ SF_vars(\E o \in Order : ReadAnswered(o))
            /\ SF_vars(\E o \in Order : CancelEnds(o))

FairSpec == Spec /\ Fairness

-----------------------------------------------------------------------------
(* Properties. *)

\* Every variable keeps its type; in particular a booked quantity never
\* leaves 0 .. Qty, and an order is never placed a third time.
TypeOK == /\ live \in Snapshot
          /\ disk \in Snapshot
          /\ carried \in BOOLEAN
          /\ proc \in Process
          /\ ctl \in Control
          /\ req \in Requests
          /\ venue \in [Order -> VenueOrder]
          /\ late \in SUBSET Order

\* A placement the venue may know of is in the checkpoint as attempted, so a
\* restart looks it up and never sends it again (_advance_live_orders,
\* "Persist placement-attempted before network I/O").
WriteAhead == \A o \in Order : venue[o].sent > 0 => disk.order[o].attempted

\* An order is sent to the venue at most once, whatever crashes, failed
\* writes and unanswered calls come between.
PlacedOnce == \A o \in Order : venue[o].sent <= 1

\* An order that may still trade is tracked, in memory and in the checkpoint a
\* restart would load: none is forgotten.
MayTrade(o) == venue[o].status \in {"sending", "working", "pending"}
NoOrphan == \A o \in Order : MayTrade(o) => o \in live.tracked \cap disk.tracked

\* The book takes each unit the venue fills once: never more than the venue
\* filled, and all of it once the order has left the queue, in memory and in
\* the checkpoint.
Books(l) == \A o \in Order :
               /\ l.book[o] <= venue[o].filled
               /\ o \notin l.tracked => l.book[o] = venue[o].filled
BookMatchesVenue == Books(live) /\ Books(disk)

\* Dependent orders are serialized: only the head of the queue has been sent.
SerialAtVenue ==
    \A o \in live.tracked : live.order[o].attempted => IsHead(o)

\* A halted account sends nothing but the exits of its own flatten, neither
\* halted in memory nor by the checkpoint a restart would load.
Sends(o) == venue'[o].sent > venue[o].sent
HaltedSendsNothing ==
    [][\A o \in Order : Sends(o) => \/ o \in RecoveryExit
                                    \/ ~live.halted /\ ~disk.halted]_vars

\* After a reset nothing goes out until a reconciliation matched the book.
UnverifiedSendsNothing ==
    [][\A o \in Order : Sends(o) => ~proc.unverified]_vars

\* While entries are paused, an entry goes out only to finish a group whose
\* first leg went out before.
PausedEntryNotSent ==
    [][\A o \in Entry : Sends(o) /\ live.paused =>
          \E p \in Order \ {o} : /\ GroupOf[p] = GroupOf[o] /\ GroupOf[o] # NoGroup
                                 /\ venue[p].sent > 0]_vars

\* Between two cycles, a halted account that still tracks a strategy order owes
\* its cancellation: the next cycle retries it.
HaltOwesCancels ==
    ctl.pc = "idle" /\ live.halted /\ ~live.tracked \subseteq RecoveryExit
        => proc.cancelsOwed

\* A recovery exit shares the queue with nothing: the exits of a breach or a
\* flatten are never queued behind, or in front of, a strategy's order.
RecoveryExitsAlone ==
    live.tracked \cap RecoveryExit # {} => live.tracked \subseteq RecoveryExit

\* A decision is only ever made on an empty queue, by a running account with a
\* verified book; so nothing it plans is refused (_execute_live_decision).
DecidesOnEmptyQueue ==
    ctl.pc \in {"decide", "leg"} => /\ live.tracked = {} /\ ~live.halted
                                    /\ ~proc.unverified
                                    /\ live.rebalancing = (ctl.pc = "leg")

\* A halt is in the checkpoint before any cancel of its pass is requested, so
\* a restart among those cancels comes back halted.
HaltRecordedFirst ==
    [][(ctl.loop \in {"halt", "retry", "restart"}
           /\ \E o \in Order : live'.order[o].cancelRequested # live.order[o].cancelRequested)
        => disk.halted]_vars

\* Once a leg of a decision's group has gone out, neither the pause nor the
\* funding check withholds a later one, which would leave the sent legs unhedged.
Withholds(o) == /\ o \in live.tracked \ live'.tracked /\ ~live.order[o].attempted
                /\ ctl.pc = "head" \/ ctl.loop = "drop"
                /\ ctl'.pc # "exit"
StartedGroupNotWithheld ==
    [][\A S \in Plans : \A o, p \in S :
          Withholds(o) /\ GroupOf[p] = GroupOf[o] /\ GroupOf[o] # NoGroup
             => venue[p].sent = 0]_vars

\* The checkpoint and the venue together implement OrderLedger.
LedgerPhase == [o \in Order |->
    IF o \notin disk.tracked /\ disk.order[o].status # "new" THEN "closed"
    ELSE IF disk.order[o].attempted THEN "attempted"
    ELSE IF o \in disk.tracked THEN "queued" ELSE "unknown"]

Ledger == INSTANCE OrderLedger WITH
    phase  <- LedgerPhase,
    sent   <- [o \in Order |-> venue[o].sent],
    open   <- {o \in Order : MayTrade(o)},
    traded <- [o \in Order |-> venue[o].filled],
    booked <- disk.book

LedgerSpec == Ledger!Spec

\* A halt ends every strategy order the venue has, or that was never sent: the
\* cancels it owes are retried until each order has left the queue, whatever
\* calls and writes fail on the way.
HaltResolves ==
    \A o \in Order \ RecoveryExit :
        live.halted /\ o \in live.tracked /\ (Received(o) \/ ~live.order[o].attempted)
            ~> o \notin live.tracked \/ ~live.halted

\* An order the venue has ended is booked and leaves the queue, halted or not.
EndedOrderSettles ==
    \A o \in Order : venue[o].status \in Ended /\ o \in live.tracked
                        ~> o \notin live.tracked

\* A requested halt takes effect, unless the process ends first; a requested
\* flatten is answered: it has submitted its exits, a halt has taken its
\* place, or it waits for a placement that cannot be found.
RequestedHaltLands == req.halt ~> live.halted \/ ctl.pc = "exit"
RequestedFlattenEnds ==
    req.flatten ~> \/ ~req.flatten
                   \/ \E o \in live.tracked : live.order[o].attempted /\ ~Received(o)

-----------------------------------------------------------------------------
(* What the documentation says of the engine and a run refutes. *)

\* docs/guides/engine-usage.md:324: a leg that is rejected, cancelled or times
\* out cancels its group's remaining legs; none goes out after it.
FailedGroupSendsNoMore ==
    [][\A o, p \in Order :
          Sends(o) /\ GroupOf[p] = GroupOf[o] /\ GroupOf[o] # NoGroup
             => ~(live.order[p].status \in {"cancelled", "rejected"} /\ live.order[p].attempted)]_vars

\* docs/guides/engine-usage.md:657: every exposure-increasing fill is checked
\* against the risk limits: the check a booked fill owes is dropped only by
\* making it, by a halt, or by a flatten submitting its exits.
EntryFillChecked ==
    [][proc.fillUnchecked /\ ~proc'.fillUnchecked /\ disk.book = live.book
          => \/ ctl.pc \in {"judge", "timedOut", "cancelled"} /\ ctl'.pc # "exit"
             \/ live'.halted]_vars

\* docs/guides/engine-usage.md:1041: each cancel records itself before it is
\* sent.
CancelRecorded ==
    ctl.pc \in {"send", "force", "timeoutCancel"} => disk.order[ctl.cur].cancelRequested

=============================================================================
