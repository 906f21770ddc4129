------------------------------- MODULE OrderWork -------------------------------
(***************************************************************************)
(* Order work: LiveTrader._advance_live_orders and what it calls.  It      *)
(* polls or submits the head of the queue until that order rests, applies  *)
(* every answer to the book before it checkpoints it, cancels what is past *)
(* its timeout, and scopes a failed leg to its group.                      *)
(***************************************************************************)
EXTENDS OrderVenue

Sent(o) == [proc EXCEPT !.cancelSent[o] = "thisPass"]

\* Faulty variants: the cumulative fill is booked again with every report; the
\* fill a cancel's answer carries is not booked.
AppliedCumulative(l, o, r) ==
    [l EXCEPT !.order[o].status = r.status, !.order[o].filled = r.filled,
              !.order[o].hasId = @ \/ r.hasId,
              !.book[o] = @ + r.filled,
              !.tracked = IF r.status \in Ended THEN @ \ {o} ELSE @]

AppliedWithoutCancelFill(l, o, r) ==
    [l EXCEPT !.order[o].status = r.status, !.order[o].filled = r.filled,
              !.order[o].hasId = @ \/ r.hasId,
              !.book[o] = IF r.status = "cancelled" THEN @ ELSE r.filled,
              !.tracked = IF r.status \in Ended THEN @ \ {o} ELSE @]

\* Faulty variant: a pending cancel counts as an end.
AppliedPendingEnds(l, o, r) ==
    [l EXCEPT !.order[o].status = r.status, !.order[o].filled = r.filled,
              !.order[o].hasId = @ \/ r.hasId,
              !.book[o] = r.filled,
              !.tracked = IF r.status \in Ended \cup {"cancel_pending"} THEN @ \ {o} ELSE @]

\* The memory after report r of order o: the book takes the new fill only.
Applied(l, o, r) ==
    [l EXCEPT !.order[o].status = r.status, !.order[o].filled = r.filled,
              !.order[o].hasId = @ \/ r.hasId,
              !.book[o] = @ + (r.filled - l.order[o].filled),
              !.tracked = IF r.status \in Ended THEN @ \ {o} ELSE @]

\* An entry fill owes a risk check, unless the account is halted.
AfterReport(p, o, r) ==
    [p EXCEPT !.fillUnchecked = @ \/ /\ r.filled > live.order[o].filled
                                     /\ o \in Entry /\ ~live.halted,
              !.cancelSent[o] = IF r.status \in Ended THEN "no" ELSE @]

\* _apply_order_report: go on at "kept" once the report is checkpointed, at
\* "lost" when that write raises; the report is in the book either way.
Report(p, o, r, kept, lost) ==
    /\ proc' = AfterReport(p, o, r)
    /\ \/ Saved(Applied(live, o, r)) /\ ctl' = kept
       \/ NotSaved(Applied(live, o, r), TRUE) /\ ctl' = lost

Checkpointed == UNCHANGED <<live, disk, carried>>
Outside == UNCHANGED <<req, venue, late>>

-----------------------------------------------------------------------------
(* The head of the queue. *)

SubmitPlanned == ctl.ctx \notin {"start", "startHalted"}

\* A requested flatten reads, books and cancels every tracked order itself.
FlattenCancels ==
    req.flatten /\ ~SubmittingExits /\ ~live.halted /\ ~proc.unverified

\* Faulty variant: a halt does not stop the queue.
MayAdvanceHalted(o) == o \in live.tracked

MayAdvance(o) == \/ ~live.halted
                 \/ live.tracked \subseteq RecoveryExit
                 \/ live.order[o].cancelRequested
                 \/ live.order[o].status = "cancel_pending"

\* A cancel of this engine, or any cancel of an order a halt owns.
OwnCancel(o) == \/ live.order[o].cancelRequested
                \/ /\ live.halted /\ o \notin RecoveryExit
                   /\ live.order[o].status = "cancel_pending"

\* Faulty variant: any order of the queue is worked on.
AdvancesAny(o) == /\ ctl.pc = "head" /\ o \in live.tracked /\ MayAdvance(o)
                  /\ ~(SubmitPlanned /\ FlattenCancels)

Advances(o) == /\ ctl.pc = "head" /\ IsHead(o) /\ MayAdvance(o)
               /\ ~(SubmitPlanned /\ FlattenCancels)

Polls(o) == Advances(o) /\ ~OwnCancel(o) /\ live.order[o].attempted

\* Faulty variant: an order that has no id yet is sent again.
SubmitsAgain(o) == /\ Advances(o) /\ ~OwnCancel(o) /\ ~live.order[o].hasId
                   /\ SubmitPlanned

Submits(o) == /\ Advances(o) /\ ~OwnCancel(o) /\ ~live.order[o].attempted
              /\ SubmitPlanned

AdvanceReturns ==
    /\ ctl.pc = "head"
    /\ ~\E o \in Order : Advances(o) /\ (OwnCancel(o) \/ Polls(o) \/ Submits(o))
    /\ ctl' = Done(live)
    /\ UNCHANGED proc /\ Checkpointed /\ Outside

FinishOwnCancel(o) ==
    /\ Advances(o) /\ OwnCancel(o)
    /\ ctl' = [GoWith("cancel", o) EXCEPT !.loop = "head"]
    /\ UNCHANGED proc /\ Checkpointed /\ Outside

-----------------------------------------------------------------------------
(* Judging an unsent order, then placing it. *)

\* Faulty variant: every leg is judged, with the legs that are left.
JudgedEachLeg(o) == o \in live.tracked

\* A group is judged once, whole, before its first leg goes out.
Judged(o) == GroupOf[o] = NoGroup \/ GroupOf[o] \in live.unstarted

Legs(o) == IF GroupOf[o] = NoGroup THEN {o} ELSE Siblings(o)

Started(l, o) == [l EXCEPT !.unstarted = @ \ {GroupOf[o]}]

\* _reduces_held_position of every leg: an entry does not, and an exit may be
\* sized past the position when an entry queued before it was dropped.
MayAllReduce(o) == Legs(o) \cap Entry = {}
MayNotReduce(o) == Legs(o) \cap Entry # {} \/ "staleExit" \in Events

\* _drop_paused_entry.  Its one write comes after the queue is cut.
DropPaused(o) ==
    /\ Submits(o) /\ live.paused /\ Judged(o) /\ MayNotReduce(o)
    /\ LET l == [Dropped(Started(live, o), Legs(o)) EXCEPT
                    !.rebalancing = @ /\ Legs(o) \subseteq Entry] IN
       \/ Saved(l) /\ ctl' = Go("head")
       \/ NotSaved(l, TRUE) /\ ctl' = Raise("err", l)
    /\ UNCHANGED proc /\ Outside

\* Faulty variant: the pause stops decisions, not the orders they queued.
PassesPauseQueued(o) == o \in live.tracked

PassesPause(o) == ~live.paused \/ ~Judged(o) \/ MayAllReduce(o)

\* _drop_unfunded_entry: the legs are cancelled one by one.
DropUnfunded(o) ==
    /\ Submits(o) /\ PassesPause(o) /\ Judged(o)
    /\ "unfunded" \in Events /\ Legs(o) \cap Entry # {}
    /\ live' = [live EXCEPT !.rebalancing = FALSE]
    /\ ctl' = [GoWith("loop", o) EXCEPT !.loop = "drop", !.todo = Legs(o)]
    /\ UNCHANGED <<disk, carried, proc>> /\ Outside

\* Faulty variant: the placement is marked in memory only.
AttemptUnsaved(o) ==
    /\ Submits(o) /\ PassesPause(o)
    /\ live' = [Started(live, o) EXCEPT !.order[o].attempted = TRUE]
    /\ ctl' = GoWith("place", o)
    /\ late' = late \ {o}
    /\ UNCHANGED <<disk, carried, proc, req, venue>>

\* The placement is recorded as attempted before it is sent.
Attempt(o) ==
    /\ Submits(o) /\ PassesPause(o)
    /\ LET l == [Started(live, o) EXCEPT !.order[o].attempted = TRUE] IN
       \/ Saved(l) /\ ctl' = GoWith("place", o)
       \/ NotSaved(l, TRUE) /\ ctl' = Raise("err", l)
    /\ late' = late \ {o}
    /\ UNCHANGED <<proc, req, venue>>

\* What placing an order may make of the venue's record.
Arrivals == {[status |-> IF n = Qty THEN "filled" ELSE "working", filled |-> n, sent |-> 0] :
               n \in 0 .. Qty}
Refusals == IF "refusal" \in Events THEN {[UnknownOrder EXCEPT !.status = "rejected"]} ELSE {}
Unheard == {UnknownOrder, [UnknownOrder EXCEPT !.status = "sending"]}

Places(o, v) ==
    venue' = [venue EXCEPT ![o] = [v EXCEPT !.sent = IF venue[o].sent < 2
                                                     THEN venue[o].sent + 1 ELSE 2]]

PlaceAnswered(o) ==
    /\ ctl.pc = "place" /\ ctl.cur = o
    /\ \E v \in Arrivals \cup Refusals :
          /\ Places(o, v)
          /\ Report(proc, o, [ReportOf(v) EXCEPT !.hasId = v.status # "rejected"],
                    GoWith("judge", o), Raise("err", live'))
    /\ UNCHANGED <<req, late>>

\* The call raises and the order may be at the venue, or yet arrive: look it
\* up.  An answer that does not apply raises instead.
PlaceUnclear(o) ==
    /\ ctl.pc = "place" /\ ctl.cur = o
    /\ \/ /\ "silence" \in Events
          /\ \E v \in Arrivals \cup Refusals \cup Unheard : Places(o, v)
          /\ ctl' = GoWith("lookup", o)
       \/ /\ "garbled" \in Events
          /\ \E v \in Arrivals : Places(o, v)
          /\ ctl' = Raise("err", live)
    /\ UNCHANGED <<proc, req, late>> /\ Checkpointed

Lookup(o) ==
    /\ ctl.pc = "lookup" /\ ctl.cur = o
    /\ \/ \E r \in ReadReports(o) :
             Report(proc, o, r, GoWith("judge", o), Raise("err", live'))
       \/ /\ \/ MayFindNothing(o) /\ ctl' = Go("halt")
             \/ (MaySilence(o) \/ MayGarble(o)) /\ ctl' = Raise("err", live)
          /\ UNCHANGED proc /\ Checkpointed
    /\ Outside

-----------------------------------------------------------------------------
(* Polling a placed order, and judging what a report says of it. *)

Poll(o) ==
    /\ Polls(o)
    /\ \/ \E r \in ReadReports(o) :
             Report(proc, o, r, GoWith("judge", o), Raise("err", live'))
       \/ /\ \/ MayFindNothing(o) /\ ctl' = Go("halt")
             \/ /\ MaySilence(o)
                /\ ctl' = IF LateOrder(o) THEN GoWith("timeout", o) ELSE Raise("err", live)
             \/ /\ MayGarble(o)          \* _poll_answer_not_applied
                /\ ctl' = IF LateOrder(o) THEN GoWith("timeout", o)
                          ELSE IF SubmitPlanned THEN Done(live) ELSE Raise("err", live)
          /\ UNCHANGED proc /\ Checkpointed
    /\ Outside

\* _post_fill_risk_halted: the check an entry fill owes may halt the account.
BreachFound == /\ proc.fillUnchecked /\ ~live.halted /\ ~SubmittingExits
               /\ "breach" \in Events

RiskPassed == proc' = [proc EXCEPT !.fillUnchecked = FALSE]

RiskBreached == BreachFound /\ RiskPassed /\ ctl' = Go("halt") /\ Checkpointed

\* _fail_group_or_halt, after a confirmed end; "last" says the caller returns
\* rather than going on with the queue.
LegFails(o, fault, last) ==
    IF (live.halted \/ SubmittingExits) /\ o \in RecoveryExit
    THEN IF last THEN Done(live) ELSE Go("head")
    ELSE IF GroupOf[o] = NoGroup \/ fault THEN Go("halt")
    ELSE [Go("loop") EXCEPT !.loop = IF last THEN "groupLast" ELSE "group",
                            !.todo = Siblings(o)]

Judge(o) ==
    /\ ctl.pc = "judge" /\ ctl.cur = o
    /\ \/ RiskBreached
       \/ /\ RiskPassed /\ Checkpointed
          /\ LET s == live.order[o].status IN
             \/ /\ s \in {"cancelled", "rejected"}
                /\ ctl' = LegFails(o, FALSE, FALSE)
             \/ /\ s = "rejected" /\ "accountFault" \in Events
                /\ ctl' = LegFails(o, TRUE, FALSE)
             \/ /\ s \notin {"cancelled", "rejected"}
                /\ ctl' = CASE s = "filled" -> Go("head")
                            [] s = "submitted" /\ LateOrder(o) -> GoWith("timeout", o)
                            [] OTHER -> Done(live)
    /\ Outside

-----------------------------------------------------------------------------
(* The timeout: _cancel_timed_out_order. *)

Timeout(o) ==
    /\ ctl.pc = "timeout" /\ ctl.cur = o
    /\ \/ /\ ~live.order[o].hasId
          /\ ctl' = Go("halt")
          /\ Checkpointed
       \/ /\ live.order[o].hasId
          /\ LET l == [live EXCEPT !.order[o].cancelRequested = TRUE] IN
             \/ Saved(l) /\ ctl' = GoWith("timeoutCancel", o)
             \/ NotSaved(l, TRUE) /\ ctl' = Raise("err", l)
    /\ UNCHANGED proc /\ Outside

\* Any exception, the checkpoint's included, leaves the order unresolved.
TimeoutCancel(o) ==
    /\ ctl.pc = "timeoutCancel" /\ ctl.cur = o
    /\ \E v \in AfterCancel(venue[o]) :
          \/ /\ venue' = [venue EXCEPT ![o] = v]
             /\ \/ Report(Sent(o), o, ReportOf(v), GoWith("timedOut", o), Go("halt"))
                \/ /\ "garbled" \in Events
                   /\ proc' = Sent(o) /\ ctl' = Go("halt") /\ Checkpointed
          \/ /\ "silence" \in Events
             /\ venue' \in {venue, [venue EXCEPT ![o] = v]}
             /\ ctl' = Go("halt") /\ UNCHANGED proc /\ Checkpointed
    /\ UNCHANGED <<req, late>>

\* A cancel that did not confirm an end records its status, then halts.
TimedOut(o) ==
    /\ ctl.pc = "timedOut" /\ ctl.cur = o
    /\ \/ RiskBreached
       \/ /\ RiskPassed
          /\ LET s == live.order[o].status IN
             \/ s = "filled" /\ ctl' = Done(live) /\ Checkpointed
             \/ /\ s \in {"cancelled", "rejected"}
                /\ ctl' = LegFails(o, FALSE, TRUE) /\ Checkpointed
             \/ /\ s \notin Ended
                /\ \/ Saved(live) /\ ctl' = Go("halt")
                   \/ NotSaved(live, TRUE) /\ ctl' = Raise("err", live)
    /\ Outside

-----------------------------------------------------------------------------
(* Cancelling one tracked order: _cancel_tracked_order. *)

\* It returns to the head of the queue, or to the loop that called it.
CancelReturns == [ctl EXCEPT !.pc = IF ctl.loop = "head" THEN "cancelled" ELSE "loop"]

\* It raises: a pass goes on with its other orders, the head and a group's
\* loop stop.  The head takes an answer that does not reconcile as an end if
\* the cancel's own answer ended the order, else it halts a running account.
CancelRaises(e, l) ==
    IF ctl.loop \in Passes
    THEN [ctl EXCEPT !.pc = "loop", !.fail = IF @ = "none" THEN e ELSE @]
    ELSE IF ctl.loop = "head" /\ e = "bad"
    THEN IF live.halted \/ ctl.cur \notin l.tracked THEN CancelReturns ELSE Go("halt")
    ELSE Raise(e, l)

Cancelling(o) == ctl.pc = "cancel" /\ ctl.cur = o

\* Faulty variant: an order with no id is taken for one that was never sent.
CancelUnsentNoId(o) ==
    /\ Cancelling(o) /\ ~live.order[o].hasId
    /\ LET l == Dropped(live, {o}) IN
       \/ Saved(l) /\ ctl' = CancelReturns
       \/ NotSaved(l, TRUE) /\ ctl' = CancelRaises("err", l)
    /\ UNCHANGED proc /\ Outside

CancelUnsent(o) ==
    /\ Cancelling(o) /\ ~live.order[o].attempted
    /\ LET l == Dropped(live, {o}) IN
       \/ Saved(l) /\ ctl' = CancelReturns
       \/ NotSaved(l, TRUE) /\ ctl' = CancelRaises("err", l)
    /\ UNCHANGED proc /\ Outside

\* The intent to cancel is recorded before any call about it.
RequestCancel(o) ==
    /\ Cancelling(o) /\ live.order[o].attempted /\ ~live.order[o].cancelRequested
    /\ LET l == [live EXCEPT !.order[o].cancelRequested = TRUE] IN
       \/ Saved(l) /\ UNCHANGED ctl
       \/ NotSaved(l, TRUE) /\ ctl' = CancelRaises("err", l)
    /\ UNCHANGED proc /\ Outside

\* _cancel_outcome_so_far: a cancel this process sent still stands.
Stands(o, read, status) ==
    \/ proc.cancelSent[o] = "thisPass"
    \/ proc.cancelSent[o] # "no" /\ read /\ status = "cancel_pending"

\* The status is read first, and a failed read does not hold the cancel back
\* unless there is no order id to send it by.
CancelReads(o) ==
    /\ Cancelling(o) /\ live.order[o].attempted /\ live.order[o].cancelRequested
    /\ \/ \E r \in ReadReports(o) :
             Report(proc, o, r,
                    IF r.status \in Ended \/ Stands(o, TRUE, r.status)
                    THEN CancelReturns ELSE [ctl EXCEPT !.pc = "send"],
                    CancelRaises("err", live'))
       \/ /\ \/ /\ MaySilence(o)
                /\ ctl' = IF live.order[o].hasId /\ ~Stands(o, FALSE, "none")
                          THEN [ctl EXCEPT !.pc = "send"] ELSE CancelReturns
             \/ MayFindNothing(o) /\ ctl' = CancelReturns
             \/ /\ MayGarble(o)   \* the answer may carry the id the order lacks
                /\ \/ /\ ~Stands(o, FALSE, "none")
                      /\ ctl' = [ctl EXCEPT !.pc = "force"]
                   \/ /\ Stands(o, FALSE, "none") \/ ~live.order[o].hasId
                      /\ ctl' = CancelRaises("bad", live)
          /\ UNCHANGED proc /\ Checkpointed
    /\ Outside

\* The cancel goes out.  Unanswered, it is only logged.
CancelSends(o) ==
    /\ ctl.pc = "send" /\ ctl.cur = o
    /\ \E v \in AfterCancel(venue[o]) :
          \/ /\ venue' = [venue EXCEPT ![o] = v]
             /\ \/ Report(Sent(o), o, ReportOf(v), CancelReturns, CancelRaises("err", live'))
                \/ /\ "garbled" \in Events
                   /\ proc' = Sent(o) /\ ctl' = CancelRaises("bad", live) /\ Checkpointed
          \/ /\ "silence" \in Events
             /\ venue' \in {venue, [venue EXCEPT ![o] = v]}
             /\ ctl' = CancelReturns /\ UNCHANGED proc /\ Checkpointed
    /\ UNCHANGED <<req, late>>

\* _cancel_unreconciled: the cancel a bad answer held back goes out, and the
\* bad answer is raised whatever became of it.
CancelForced(o) ==
    /\ ctl.pc = "force" /\ ctl.cur = o
    /\ \E v \in AfterCancel(venue[o]) :
          \/ /\ venue' = [venue EXCEPT ![o] = v]
             /\ \/ Report(Sent(o), o, ReportOf(v), CancelRaises("bad", live'),
                          CancelRaises("bad", live'))
                \/ /\ "garbled" \in Events
                   /\ proc' = Sent(o) /\ ctl' = CancelRaises("bad", live) /\ Checkpointed
          \/ /\ "silence" \in Events
             /\ venue' \in {venue, [venue EXCEPT ![o] = v]}
             /\ ctl' = CancelRaises("bad", live) /\ UNCHANGED proc /\ Checkpointed
    /\ UNCHANGED <<req, late>>

\* What the head makes of its own finished cancel.
CancelJudged(o) ==
    /\ ctl.pc = "cancelled" /\ ctl.cur = o
    /\ \/ RiskBreached
       \/ /\ RiskPassed /\ Checkpointed
          /\ ctl' = IF o \in live.tracked \/ live.order[o].status = "filled" THEN Done(live)
                    ELSE IF live.halted THEN IF o \in RecoveryExit THEN Go("head") ELSE Done(live)
                    ELSE IF req.flatten \/ ~LateOrder(o) THEN Done(live)
                    ELSE LegFails(o, FALSE, FALSE)
    /\ Outside

-----------------------------------------------------------------------------
(* The loops that cancel several orders. *)

NextInLoop(o) ==
    /\ ctl.pc = "loop" /\ IsFirst(o, ctl.todo)
    /\ ctl' = [ctl EXCEPT !.pc = "cancel", !.cur = o, !.todo = @ \ {o}]
    /\ UNCHANGED proc /\ Checkpointed /\ Outside

LoopDone(S) == ctl.pc = "loop" /\ ctl.todo = {} /\ ctl.loop \in S

\* A failed leg's siblings are cancelled; a target rebalance stops with them.
GroupCancelled ==
    /\ LoopDone({"group", "groupLast"})
    /\ LET l == [live EXCEPT !.rebalancing = FALSE]
           next == IF ctl.loop = "group" THEN Go("head") ELSE Done(l) IN
       IF live.rebalancing
       THEN \/ Saved(l) /\ ctl' = next
            \/ NotSaved(l, FALSE) /\ ctl' = Raise("err", l)
       ELSE Checkpointed /\ ctl' = next
    /\ UNCHANGED proc /\ Outside

\* Only now is the group no longer judged again.
LegsDropped ==
    /\ LoopDone({"drop"})
    /\ live' = Started(live, ctl.cur)
    /\ ctl' = Go("head")
    /\ UNCHANGED <<disk, carried, proc>> /\ Outside

OrderWorkStep ==
    \/ AdvanceReturns \/ GroupCancelled \/ LegsDropped
    \/ \E o \in Order :
          \/ FinishOwnCancel(o) \/ DropPaused(o) \/ DropUnfunded(o) \/ Attempt(o)
          \/ PlaceAnswered(o) \/ PlaceUnclear(o) \/ Lookup(o) \/ Poll(o) \/ Judge(o)
          \/ Timeout(o) \/ TimeoutCancel(o) \/ TimedOut(o)
          \/ CancelUnsent(o) \/ RequestCancel(o) \/ CancelReads(o) \/ CancelSends(o)
          \/ CancelForced(o) \/ CancelJudged(o) \/ NextInLoop(o)

=============================================================================
