------------------------------ MODULE AccountHalt ------------------------------
(***************************************************************************)
(* Halting an account and leaving the halt: _halt_live, its retries, the   *)
(* manual and the requested halt, the reset, the operator flatten and the  *)
(* drawdown breach (which submit exits, then halt), and the entry pause.   *)
(***************************************************************************)
EXTENDS OrderWork

\* _enter_halt, on memory l and on the memory outside the checkpoint.
HaltedMemory(l) == [l EXCEPT !.halted = TRUE, !.rebalancing = FALSE]
Halting == [proc EXCEPT !.fillUnchecked = FALSE]

\* Faulty variant: a halt's failed write is owed, its cancels are not.
HaltUnsavedOnly == [Halting EXCEPT !.haltUnsaved = TRUE]

HaltNotSaved == [Halting EXCEPT !.haltUnsaved = TRUE, !.cancelsOwed = TRUE]

\* Faulty variant: every pending request is dropped with the reset.
DropRequests == req' = NoRequest

DropReset == req' = [req EXCEPT !.reset = FALSE]

Pass(loop) == [Go("loop") EXCEPT !.loop = loop, !.todo = live.tracked]

\* _halt_live: the halt is checkpointed before it cancels.
Halt ==
    /\ ctl.pc = "halt"
    /\ LET l == HaltedMemory(live) IN
       \/ Saved(l) /\ proc' = Halting /\ ctl' = Pass("halt")
       \/ /\ NotSaved(l, FALSE)
          /\ proc' = HaltNotSaved
          /\ ctl' = Raise("err", l)
    /\ DropReset /\ UNCHANGED <<venue, late>>

\* Faulty variant: a pass that did not fail owes nothing.
OwedIfFailed == ctl.fail # "none"

\* The cancellation stays owed while a pass failed or any order is tracked.
StillOwed == ctl.fail # "none" \/ live.tracked # {}

\* The end of _cancel_active_orders for a halt, and for its retry.
HaltPassEnds ==
    /\ LoopDone({"halt", "retry", "restart"})
    /\ proc' = [proc EXCEPT !.cancelsOwed = StillOwed]
    /\ ctl' = IF ctl.fail # "none" THEN Raise(ctl.fail, live)
              ELSE IF ctl.loop = "retry" /\ ctl.ctx # "operator"
                   THEN [At("reset", "cycle") EXCEPT !.cycle = "passed"]
              ELSE Done(live)
    /\ Checkpointed /\ Outside

\* _retry_halt: the halt's checkpoint first, then the cancellation it owes.
RetryReturns == CASE ctl.ctx = "retry"   -> At("reset", "cycle")
                  [] ctl.ctx = "request" -> At("retryHalt", "retry")
                  [] OTHER               -> Quiet

\* Faulty variant: the retry cancels without the halt's write.
RetryCancels ==
    /\ ctl.pc = "retryHalt"
    /\ ctl' = IF proc.cancelsOwed THEN Pass("retry") ELSE RetryReturns
    /\ UNCHANGED proc /\ Checkpointed /\ Outside

RetryHalt ==
    /\ ctl.pc = "retryHalt"
    /\ LET next == IF proc.cancelsOwed THEN Pass("retry") ELSE RetryReturns IN
       IF proc.haltUnsaved
       THEN \/ /\ Saved(live) /\ ctl' = next
               /\ proc' = [proc EXCEPT !.haltUnsaved = FALSE]
            \/ /\ NotSaved(live, FALSE) /\ ctl' = Raise("err", live)
               /\ UNCHANGED proc
       ELSE Checkpointed /\ ctl' = next /\ UNCHANGED proc
    /\ Outside

\* A new pass over the orders: a cancel sent before it stands less firmly.
NewPass(p) == [p EXCEPT !.cancelSent = [o \in Order |-> IF @[o] = "no" THEN "no"
                                                         ELSE "earlier"]]

\* _run_requested_halt and _apply_manual_halt: every pending request is one
\* halt, it drops a pending reset, and a halted account finishes the halt it has.
ManualHalt(ctx) ==
    /\ req' = [req EXCEPT !.halt = FALSE, !.reset = FALSE]
    /\ ctl' = IF ~live.halted THEN At("halt", ctx)
              ELSE IF proc.haltUnsaved \/ proc.cancelsOwed THEN At("retryHalt", ctx)
              ELSE IF ctx = "operator" THEN Quiet ELSE At("retryHalt", "retry")

OperatorHalt ==
    /\ "callHalt" \in Events /\ ctl.pc = "idle"
    /\ proc' = NewPass(proc)
    /\ ManualHalt("operator")
    /\ UNCHANGED <<venue, late>> /\ Checkpointed

-----------------------------------------------------------------------------
(* The reset. *)

\* evaluate_reset_readiness; whether every mark is current is left open.
MayReset == ~proc.haltUnsaved /\ live.tracked = {}

\* reset_halt, where it is not refused.
ResetMemory == [live EXCEPT !.halted = FALSE]
ResetProcess == [proc EXCEPT !.cancelsOwed = FALSE,
                             !.unverified = @ \/ live.halted]

OperatorReset ==
    /\ "callReset" \in Events /\ ctl.pc = "idle" /\ MayReset
    /\ Saved(ResetMemory) \/ NotSaved(ResetMemory, FALSE)
    /\ proc' = ResetProcess
    /\ UNCHANGED ctl /\ Outside

AfterReset == [At("carry", "cycle") EXCEPT !.cycle = ctl.cycle]

\* _run_requested_halt_reset.  A halt requested while it applies lands right
\* after it.
RequestedReset ==
    /\ ctl.pc = "reset"
    /\ \/ /\ DropReset /\ ctl' = AfterReset          \* none, or refused
          /\ UNCHANGED proc /\ Checkpointed
       \/ /\ req.reset /\ live.halted /\ MayReset
          /\ proc' = ResetProcess
          /\ \/ /\ Saved(ResetMemory) /\ ~req.halt
                /\ req' = [req EXCEPT !.reset = FALSE]
                /\ ctl' = AfterReset
             \/ /\ Saved(ResetMemory) /\ req.halt
                /\ req' = [req EXCEPT !.halt = FALSE, !.reset = FALSE]
                /\ ctl' = [At("halt", "again") EXCEPT !.cycle = ctl.cycle]
             \/ /\ NotSaved(ResetMemory, FALSE)
                /\ req' = [req EXCEPT !.reset = FALSE]
                /\ ctl' = Quiet
    /\ UNCHANGED <<venue, late>>

-----------------------------------------------------------------------------
(* The flatten and the drawdown breach. *)

\* Faulty variant: the request is never cleared.
FlattenKept == UNCHANGED req

FlattenAnswered == req' = [req EXCEPT !.flatten = FALSE]

\* _run_requested_flatten, up to the exits.
Flatten ==
    /\ ctl.pc = "flatten"
    /\ \/ /\ ~req.flatten \/ live.halted
          /\ FlattenAnswered /\ ctl' = At("reconcile", "cycle")
       \/ /\ req.flatten /\ ~live.halted /\ proc.unverified
          /\ ctl' = At("reconcile", "cycle") /\ UNCHANGED req
       \/ /\ req.flatten /\ ~live.halted /\ ~proc.unverified
          /\ IF live.tracked = {}
             THEN FlattenAnswered /\ ctl' = At("account", "exits")
             ELSE ctl' = Pass("flatten") /\ UNCHANGED req
    /\ UNCHANGED <<proc, venue, late>> /\ Checkpointed

\* Its cancel pass: it waits for the next cycle while an order is tracked.
FlattenPassEnds ==
    /\ LoopDone({"flatten"})
    /\ IF ctl.fail = "err" THEN ctl' = Quiet /\ UNCHANGED req
       ELSE IF live.tracked # {} THEN ctl' = At("reconcile", "cycle") /\ UNCHANGED req
       ELSE ctl' = At("account", "exits") /\ FlattenAnswered
    /\ UNCHANGED <<proc, venue, late>> /\ Checkpointed

\* Faulty variant: requests are queued behind the orders at work.
QueueTakesMore == FALSE

\* _execute_live_decision refuses requests while an order is tracked.
QueueRefuses == live.tracked # {}

\* _flatten_account_and_halt, up to submitting the exits of the held positions.
FlattenAccount ==
    /\ ctl.pc = "account"
    /\ \/ /\ "preflight" \in Events
          /\ ctl' = Go("halt") /\ Checkpointed
       \/ ctl' = Go("exitsHalt") /\ Checkpointed        \* nothing to close
       \/ \E X \in SUBSET Fresh(RecoveryExit) \ {{}} :
             IF QueueRefuses
             THEN ctl' = Raise("err", live) /\ Checkpointed
             ELSE LET l == Planned(X) IN
                  \/ Saved(l) /\ ctl' = Go("head")
                  \/ NotSaved(l, TRUE) /\ ctl' = Raise("err", l)
    /\ UNCHANGED proc /\ Outside

\* Then it halts, leaving the exits working.
ExitsHalt ==
    /\ ctl.pc = "exitsHalt"
    /\ LET l == HaltedMemory(live) IN
       \/ /\ Saved(l) /\ proc' = Halting
          /\ ctl' = IF ctl.fail # "none" THEN Quiet
                    ELSE At(IF ctl.ctx = "exits" THEN "reconcile" ELSE "commit", "cycle")
       \/ /\ NotSaved(l, FALSE)
          /\ proc' = [Halting EXCEPT !.haltUnsaved = TRUE, !.cancelsOwed = FALSE]
          /\ ctl' = Quiet
    /\ DropReset /\ UNCHANGED <<venue, late>>

-----------------------------------------------------------------------------
(* The entry pause, an operator's call between two cycles. *)

PauseEntries ==
    /\ "pause" \in Events /\ ctl.pc = "idle"
    /\ LET l == [live EXCEPT !.paused = TRUE] IN Saved(l) \/ NotSaved(l, FALSE)
    /\ UNCHANGED <<proc, ctl>> /\ Outside

\* A resume whose write fails stays paused in memory, whatever the store kept.
ResumeEntries ==
    /\ "pause" \in Events /\ ctl.pc = "idle" /\ live.paused
    /\ LET l == [live EXCEPT !.paused = FALSE] IN
       \/ Saved(l)
       \/ /\ "outage" \in Events /\ disk' \in {disk, l}
          /\ UNCHANGED <<live, carried>>
    /\ UNCHANGED <<proc, ctl>> /\ Outside

\* request_halt, request_halt_reset and request_flatten, from any thread.
Request ==
    /\ \E r \in {"halt", "reset", "flatten"} :
          /\ r \in Events /\ ~req[r]
          /\ req' = [req EXCEPT ![r] = TRUE]
    /\ ctl.pc # "exit"
    /\ UNCHANGED <<proc, ctl, venue, late>> /\ Checkpointed

AccountHaltStep ==
    \/ Halt \/ HaltPassEnds \/ RetryHalt \/ RequestedReset
    \/ Flatten \/ FlattenPassEnds \/ FlattenAccount \/ ExitsHalt

OperatorStep == OperatorHalt \/ OperatorReset \/ PauseEntries \/ ResumeEntries \/ Request

=============================================================================
