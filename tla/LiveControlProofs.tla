---------------------------- MODULE LiveControlProofs --------------------------
(***************************************************************************)
(* Theorems about the control and the groups of LiveTrader, for every set  *)
(* of orders, groups, plans and events: when a decision is made, what an   *)
(* unverified book keeps from going out, what a halt records and owes, and *)
(* in the second part what a pause and the funding check keep back.        *)
(*                                                                         *)
(* CInv adds to OInv where the thread may stand in which state of the      *)
(* account (Steered) and the debt of a halt (Owed).  Owed is only claimed  *)
(* where no drawdown breach happens: a breach is found with orders at work *)
(* and halts without cancelling them, which BreachLeavesOrder shows.       *)
(* Nearly every step is Work: it neither halts nor resets, and goes on at  *)
(* a place that fits what it leaves in memory.                             *)
(***************************************************************************)
EXTENDS LiveOrdersProofs

HaltLoops == {"halt", "retry", "restart"}

\* The work of a bar or of an account's exits.
Deciding == {"waiting", "decide", "leg", "newLeg", "free", "blocked", "breach", "exits"}

\* Which callers are found at which place.
Placed(c) ==
    /\ c.pc = "idle" => c.ctx = "none"
    /\ c.pc \in {"account", "exitsHalt"} => c.ctx \in Exits
    /\ c.pc = "leg" => c.ctx \in {"leg", "newLeg"}
    /\ c.pc = "decide" => c.ctx \in {"decide", "waiting"}
    /\ c.loop # "none" => \/ c.pc \in {"loop", "cancel", "send", "force"}
                          \/ c.pc = "cancelled" /\ c.loop = "head"

\* What is known of memory there.
Fits(c, l) == /\ Placed(c)
              /\ c.ctx \in {"free", "waiting", "decide"} => ~l.rebalancing
              /\ c.pc \in {"decide", "leg"} => ~l.halted
              /\ c.pc = "leg" => l.rebalancing

\* Where the thread stays while the book is unverified.
Outright(c) == /\ c.pc \notin {"event", "commit", "account"}
               /\ c.ctx \notin Deciding
               /\ c.loop # "flatten"

Steered ==
    /\ Fits(ctl, live)
    /\ proc.unverified => live.tracked = {} /\ Outright(ctl)
    /\ ctl.loop \in HaltLoops => live.halted /\ disk.halted
    /\ proc.cancelsOwed \/ proc.haltUnsaved => live.halted
    /\ proc.cancelsOwed /\ ~proc.haltUnsaved => disk.halted

\* A halted account cancels its strategy's orders, or owes it.
Owed ==
    /\ ctl.ctx # "breach"
    /\ ctl.ctx = "exits" => live.tracked \subseteq RecoveryExit
    /\ live.halted /\ ~live.tracked \subseteq RecoveryExit =>
          proc.cancelsOwed \/ ctl.loop \in HaltLoops \/ ctl.pc = "exit"

CInv == OInv /\ Steered /\ ("drawdown" \notin Events => Owed)

-----------------------------------------------------------------------------
(* What a step of work does. *)

SameDebts == /\ proc'.unverified => proc.unverified
             /\ proc'.cancelsOwed = proc.cancelsOwed
             /\ proc'.haltUnsaved = proc.haltUnsaved

\* The account stays halted or not; a queue that grows is that of a running,
\* verified account, or of its exits.
Milder == /\ live'.halted = live.halted
          /\ disk' = disk \/ disk'.halted = live'.halted
          /\ \/ live'.tracked \subseteq live.tracked
             \/ /\ ~proc.unverified
                /\ \/ live'.tracked \subseteq RecoveryExit
                   \/ ~live.halted /\ ctl'.ctx # "exits"

GoesOn == /\ Fits(ctl', live')
          /\ proc.unverified => Outright(ctl')
          /\ ctl'.loop \in HaltLoops <=> ctl.loop \in HaltLoops
          /\ ctl.pc = "exit" => ctl'.pc = "exit"
          /\ ctl'.ctx = "breach" => ctl.ctx = "breach" \/ "drawdown" \in Events
          /\ ctl'.ctx = "exits" => ctl.ctx = "exits" \/ live'.tracked = {}

Work == Milder /\ SameDebts /\ GoesOn

LEMMA WorkKeeps == ASSUME CInv, OInv', Work PROVE CInv'
<1>1. Steered'
  BY DEF CInv, Steered, Work, Milder, SameDebts, GoesOn, Outright
<1>2. ASSUME "drawdown" \notin Events PROVE Owed'
  BY <1>2 DEF CInv, Owed, Work, Milder, SameDebts, GoesOn
<1> QED
  BY <1>1, <1>2 DEF CInv

-----------------------------------------------------------------------------
(* Control: where work goes on, and what it leaves in memory.  *)

\* Control c is a place work may go on to with memory l.
Onward(c, l) == /\ Fits(c, l)
                /\ proc.unverified => Outright(c)
                /\ c.loop \in HaltLoops <=> ctl.loop \in HaltLoops
                /\ c.ctx \in Exits => c.ctx = ctl.ctx

\* Memory l is as halted as the present one, and rebalances only if it does.
Mild(l) == l.halted = live.halted /\ (l.rebalancing => live.rebalancing)

\* The places order work goes on at with its caller.
Working == {"head", "judge", "lookup", "timeout", "timeoutCancel", "timedOut", "halt", "place"}

LEMMA GoOnward ==
    ASSUME CInv, NEW l, Mild(l), NEW pc \in Working, ctl.loop \notin HaltLoops
    PROVE  Onward(Go(pc), l) /\ \A o : Onward(GoWith(pc, o), l)
BY DEF CInv, Steered, Mild, Working, Onward, Fits, Placed, Outright, Deciding, Go, GoWith, At,
       HaltLoops

\* A list of orders to cancel, other than a halt's.
LEMMA LoopOnward ==
    ASSUME CInv, NEW l, Mild(l), NEW loop \in {"group", "groupLast", "drop"}, NEW S,
           ctl.loop \notin HaltLoops
    PROVE  /\ Onward([Go("loop") EXCEPT !.loop = loop, !.todo = S], l)
           /\ \A o : Onward([GoWith("loop", o) EXCEPT !.loop = loop, !.todo = S], l)
BY DEF CInv, Steered, Mild, Onward, Fits, Placed, Outright, Deciding, Go, GoWith, At, HaltLoops

LEMMA DoneOnward ==
    ASSUME CInv, NEW l, Mild(l), ctl.loop \notin HaltLoops PROVE Onward(Done(l), l)
BY DEF CInv, Steered, Mild, Onward, Fits, Placed, Outright, Deciding, Done, MoreLegs, At, Quiet,
       Exits, HaltLoops

LEMMA RaiseOnward ==
    ASSUME CInv, NEW l, Mild(l), NEW e, NEW m, ctl.loop \notin HaltLoops
    PROVE  Onward(Raise(e, m), l)
BY DEF CInv, Steered, Mild, Onward, Fits, Placed, Outright, Deciding, Raise, At, Quiet, Exits,
       HaltLoops

LEMMA LegFailsOnward ==
    ASSUME CInv, NEW o, NEW fault, NEW last, ctl.loop \notin HaltLoops
    PROVE  Onward(LegFails(o, fault, last), live)
<1>1. Mild(live)
  BY DEF Mild
<1>2. Onward(Done(live), live) /\ Onward(Go("head"), live) /\ Onward(Go("halt"), live)
  BY <1>1, DoneOnward, GoOnward DEF Working
<1>3. \A loop \in {"group", "groupLast"} :
         Onward([Go("loop") EXCEPT !.loop = loop, !.todo = Siblings(o)], live)
  BY <1>1, LoopOnward
<1> QED
  BY <1>2, <1>3 DEF LegFails

LEMMA CancelReturnsOnward ==
    ASSUME CInv, NEW l, Mild(l), ctl.pc \in {"cancel", "send", "force"}
    PROVE  Onward(CancelReturns, l)
<1>1. ctl \in Control
  BY Present DEF CInv
<1> QED
  BY <1>1 DEF CInv, Steered, Mild, Onward, Fits, Placed, Outright, Deciding, CancelReturns, Control

LEMMA CancelRaisesOnward ==
    ASSUME CInv, NEW l, Mild(l), ctl.pc \in {"cancel", "send", "force"}, NEW e, NEW m
    PROVE  Onward(CancelRaises(e, m), l)
<1>1. ctl \in Control
  BY Present DEF CInv
<1>2. CASE ctl.loop \in Passes
  <2>1. CancelRaises(e, m) = [ctl EXCEPT !.pc = "loop",
                                         !.fail = IF ctl.fail = "none" THEN e ELSE ctl.fail]
    BY <1>2 DEF CancelRaises
  <2> QED
    BY <1>1, <2>1 DEF CInv, Steered, Mild, Onward, Fits, Placed, Outright, Deciding, Control
<1>3. CASE ctl.loop \notin Passes
  <2>1. ctl.loop \notin HaltLoops
    BY <1>3 DEF Passes, HaltLoops
  <2>2. /\ Onward(Raise(e, m), l) /\ Onward(Go("halt"), l) /\ Onward(CancelReturns, l)
    BY <2>1, RaiseOnward, GoOnward, CancelReturnsOnward DEF Working
  <2> QED
    BY <1>3, <2>2 DEF CancelRaises
<1> QED
  BY <1>2, <1>3

\* Away from a list of orders, and in the cancel of the head, no halt cancels.
LEMMA NoHaltLoop ==
    ASSUME CInv, ctl.pc \notin {"loop", "cancel", "send", "force"} PROVE ctl.loop \notin HaltLoops
BY DEF CInv, Steered, Fits, Placed, HaltLoops

-----------------------------------------------------------------------------
(* Memory and process: what work writes. *)

\* What work makes of memory.
Lessens(l) == Mild(l) /\ l.tracked \subseteq live.tracked

LEMMA FlagsLessen ==
    ASSUME live \in Snapshot, NEW l \in Snapshot, Lessens(l), NEW b \in BOOLEAN, NEW g
    PROVE  /\ Lessens([l EXCEPT !.rebalancing = FALSE])
           /\ Lessens([l EXCEPT !.rebalancing = @ /\ b])
           /\ Lessens([l EXCEPT !.paused = b])
           /\ Lessens([l EXCEPT !.unstarted = g])
           /\ \A o \in Order : /\ Lessens([l EXCEPT !.order[o].attempted = b])
                               /\ Lessens([l EXCEPT !.order[o].cancelRequested = b])
BY DEF Lessens, Mild, Snapshot

LEMMA MovesLessen ==
    ASSUME live \in Snapshot, NEW o \in Order, NEW r, NEW S
    PROVE  /\ Lessens(live) /\ Lessens(Started(live, o))
           /\ Lessens(Applied(live, o, r))
           /\ Lessens(Dropped(live, S))
BY DEF Lessens, Mild, Snapshot, Started, Applied, Dropped

LEMMA ReportDebts ==
    ASSUME proc \in Process, NEW o \in Order, NEW r, NEW p \in {proc, Sent(o)},
           proc' = AfterReport(p, o, r)
    PROVE  SameDebts
BY DEF Process, Sent, AfterReport, SameDebts

LEMMA PlainDebts ==
    ASSUME proc \in Process, UNCHANGED proc \/ RiskPassed \/ \E o : proc' = Sent(o)
    PROVE  SameDebts
BY DEF Process, Sent, RiskPassed, SameDebts

\* A step that leaves less, and goes on at a place that fits.
LEMMA LessWork ==
    ASSUME CInv, NEW l, Lessens(l), Writes(l), SameDebts, Onward(ctl', l), ctl.pc # "exit"
    PROVE  Work
BY DEF Lessens, Mild, Writes, Onward, Exits, Work, Milder, GoesOn

LEMMA KeptWork ==
    ASSUME CInv, Checkpointed, SameDebts, Onward(ctl', live), ctl.pc # "exit" PROVE Work
<1>1. Lessens(live) /\ Writes(live)
  BY CallsWrite DEF Lessens, Mild
<1> QED
  BY <1>1, LessWork

\* A report that is booked, or one that is not.
LEMMA ReportWork ==
    ASSUME CInv, NEW o \in Order, NEW r, NEW p \in {proc, Sent(o)}, NEW kept, NEW lost,
           Report(p, o, r, kept, lost), ctl.pc # "exit",
           \A l : Mild(l) => Onward(kept, l) /\ Onward(lost, l)
    PROVE  Work
<1> DEFINE l == Applied(live, o, r)
<1>1. live \in Snapshot /\ proc \in Process
  BY Present DEF CInv, OInv, IInv, Surroundings
<1>2. Lessens(l) /\ SameDebts
  BY <1>1, MovesLessen, ReportDebts DEF Report
<1>3. Writes(l) /\ (ctl' = kept \/ ctl' = lost)
  BY CallsWrite DEF Report
<1> HIDE DEF l
<1>4. Onward(ctl', l)
  BY <1>2, <1>3 DEF Lessens
<1> QED
  BY <1>2, <1>3, <1>4, LessWork

-----------------------------------------------------------------------------
(* Order work. *)

LEMMA Now ==
    ASSUME CInv
    PROVE  /\ live \in Snapshot /\ proc \in Process /\ ctl \in Control
           /\ Mild(live) /\ Lessens(live)
BY Present DEF CInv, OInv, IInv, Surroundings, Mild, Lessens

LEMMA CallOnward ==
    ASSUME CInv, NEW l, Mild(l), NEW o, ctl.loop \notin HaltLoops
    PROVE  /\ Onward(GoWith("judge", o), l) /\ Onward(GoWith("timedOut", o), l)
           /\ Onward(GoWith("timeout", o), l) /\ Onward(GoWith("timeoutCancel", o), l)
           /\ Onward(GoWith("lookup", o), l) /\ Onward(GoWith("place", o), l)
           /\ Onward(Go("halt"), l) /\ Onward(Go("head"), l) /\ Onward(Done(l), l)
           /\ \A e, m : Onward(Raise(e, m), l)
BY GoOnward, DoneOnward, RaiseOnward DEF Working

LEMMA AdvanceReturnsWork == ASSUME CInv, AdvanceReturns PROVE Work
BY Now, NoHaltLoop, CallOnward, PlainDebts, KeptWork DEF AdvanceReturns

LEMMA FinishOwnCancelWork ==
    ASSUME CInv, NEW o \in Order, FinishOwnCancel(o) PROVE Work
<1>1. ctl.pc = "head" /\ Checkpointed /\ UNCHANGED proc
  BY DEF FinishOwnCancel, Advances
<1>2. Onward(GoWith("head", o), live)
  BY <1>1, Now, NoHaltLoop, GoOnward DEF Working
<1>3. Onward(ctl', live)
  BY <1>1, <1>2, NoHaltLoop
     DEF FinishOwnCancel, Onward, Fits, Placed, Outright, HaltLoops, GoWith, Go, At
<1> QED
  BY <1>1, <1>3, Now, PlainDebts, KeptWork

LEMMA DropPausedWork ==
    ASSUME CInv, NEW o \in Order, DropPaused(o) PROVE Work
<1> DEFINE l == [Dropped(Started(live, o), Legs(o)) EXCEPT
                    !.rebalancing = @ /\ Legs(o) \subseteq Entry]
<1>1. Lessens(l)
  BY Now DEF Lessens, Mild, Snapshot, Started, Dropped
<1>2. /\ ctl.pc = "head" /\ UNCHANGED proc
      /\ \/ Saved(l) /\ ctl' = Go("head")
         \/ NotSaved(l, TRUE) /\ ctl' = Raise("err", l)
  BY DEF DropPaused, Submits, Advances
<1> HIDE DEF l
<1>3. Onward(ctl', l)
  BY <1>1, <1>2, NoHaltLoop, CallOnward DEF Lessens
<1> QED
  BY <1>1, <1>2, <1>3, Now, CallsWrite, PlainDebts, LessWork

LEMMA DropUnfundedWork ==
    ASSUME CInv, NEW o \in Order, DropUnfunded(o) PROVE Work
<1> DEFINE l == [live EXCEPT !.rebalancing = FALSE]
<1>1. Lessens(l)
  BY Now DEF Lessens, Mild, Snapshot
<1>2. ctl.pc = "head" /\ UNCHANGED proc /\ Writes(l)
  BY DEF DropUnfunded, Submits, Advances, Writes
<1> HIDE DEF l
<1>3. Onward(ctl', l)
  BY <1>1, <1>2, NoHaltLoop, LoopOnward DEF Lessens, DropUnfunded
<1> QED
  BY <1>1, <1>2, <1>3, Now, PlainDebts, LessWork

LEMMA AttemptWork ==
    ASSUME CInv, NEW o \in Order, Attempt(o) PROVE Work
<1> DEFINE l == [Started(live, o) EXCEPT !.order[o].attempted = TRUE]
<1>1. Lessens(l)
  BY Now DEF Lessens, Mild, Snapshot, Started
<1>2. /\ ctl.pc = "head" /\ UNCHANGED proc
      /\ \/ Saved(l) /\ ctl' = GoWith("place", o)
         \/ NotSaved(l, TRUE) /\ ctl' = Raise("err", l)
  BY DEF Attempt, Submits, Advances
<1> HIDE DEF l
<1>3. Onward(ctl', l)
  BY <1>1, <1>2, NoHaltLoop, CallOnward DEF Lessens
<1> QED
  BY <1>1, <1>2, <1>3, Now, CallsWrite, PlainDebts, LessWork

LEMMA PlaceAnsweredWork ==
    ASSUME CInv, NEW o \in Order, PlaceAnswered(o) PROVE Work
<1>1. ctl.pc = "place"
  BY DEF PlaceAnswered
<1>2. PICK r : Report(proc, o, r, GoWith("judge", o), Raise("err", live'))
  BY DEF PlaceAnswered
<1>3. \A l : Mild(l) => Onward(GoWith("judge", o), l) /\ Onward(Raise("err", live'), l)
  BY <1>1, NoHaltLoop, CallOnward
<1> QED
  BY <1>1, <1>2, <1>3, ReportWork

LEMMA PlaceUnclearWork ==
    ASSUME CInv, NEW o \in Order, PlaceUnclear(o) PROVE Work
<1>1. /\ ctl.pc = "place" /\ UNCHANGED proc /\ Checkpointed
      /\ ctl' = GoWith("lookup", o) \/ ctl' = Raise("err", live)
  BY DEF PlaceUnclear
<1>2. Onward(ctl', live)
  BY <1>1, Now, NoHaltLoop, CallOnward
<1> QED
  BY <1>1, <1>2, Now, PlainDebts, KeptWork

LEMMA LookupWork ==
    ASSUME CInv, NEW o \in Order, Lookup(o) PROVE Work
<1>1. ctl.pc = "lookup"
  BY DEF Lookup
<1>2. CASE \E r \in ReadReports(o) :
              Report(proc, o, r, GoWith("judge", o), Raise("err", live'))
  <2>1. \A l : Mild(l) => Onward(GoWith("judge", o), l) /\ Onward(Raise("err", live'), l)
    BY <1>1, NoHaltLoop, CallOnward
  <2> QED
    BY <1>1, <1>2, <2>1, ReportWork
<1>3. CASE /\ ctl' = Go("halt") \/ ctl' = Raise("err", live)
           /\ UNCHANGED proc /\ Checkpointed
  <2>1. Onward(ctl', live)
    BY <1>1, <1>3, Now, NoHaltLoop, CallOnward
  <2> QED
    BY <1>1, <1>3, <2>1, Now, PlainDebts, KeptWork
<1> QED
  BY <1>2, <1>3 DEF Lookup

LEMMA PollWork ==
    ASSUME CInv, NEW o \in Order, Poll(o) PROVE Work
<1>1. ctl.pc = "head"
  BY DEF Poll, Polls, Advances
<1>2. CASE \E r \in ReadReports(o) :
              Report(proc, o, r, GoWith("judge", o), Raise("err", live'))
  <2>1. \A l : Mild(l) => Onward(GoWith("judge", o), l) /\ Onward(Raise("err", live'), l)
    BY <1>1, NoHaltLoop, CallOnward
  <2> QED
    BY <1>1, <1>2, <2>1, ReportWork
<1>3. CASE /\ ctl' \in {Go("halt"), GoWith("timeout", o), Raise("err", live), Done(live)}
           /\ UNCHANGED proc /\ Checkpointed
  <2>1. Onward(ctl', live)
    BY <1>1, <1>3, Now, NoHaltLoop, CallOnward
  <2> QED
    BY <1>1, <1>3, <2>1, Now, PlainDebts, KeptWork
<1> QED
  BY <1>2, <1>3 DEF Poll

LEMMA JudgeWork ==
    ASSUME CInv, NEW o \in Order, Judge(o) PROVE Work
<1>1. ctl.pc = "judge" /\ Checkpointed /\ RiskPassed
  BY DEF Judge, RiskBreached
<1>2. ctl.loop \notin HaltLoops
  BY <1>1, NoHaltLoop
<1>3. \A fault, last : Onward(LegFails(o, fault, last), live)
  BY <1>2, LegFailsOnward
<1>4. Onward(ctl', live)
  BY <1>2, <1>3, Now, CallOnward DEF Judge, RiskBreached
<1> QED
  BY <1>1, <1>4, Now, PlainDebts, KeptWork

LEMMA TimedOutWork ==
    ASSUME CInv, NEW o \in Order, TimedOut(o) PROVE Work
<1>1. ctl.pc = "timedOut" /\ Writes(live) /\ RiskPassed
  BY CallsWrite DEF TimedOut, RiskBreached
<1>2. ctl.loop \notin HaltLoops
  BY <1>1, NoHaltLoop
<1>3. \A fault, last : Onward(LegFails(o, fault, last), live)
  BY <1>2, LegFailsOnward
<1>4. Onward(ctl', live)
  BY <1>2, <1>3, Now, CallOnward DEF TimedOut, RiskBreached
<1> QED
  BY <1>1, <1>4, Now, PlainDebts, LessWork

LEMMA CancelJudgedWork ==
    ASSUME CInv, NEW o \in Order, CancelJudged(o) PROVE Work
<1>1. ctl.pc = "cancelled" /\ Checkpointed /\ RiskPassed
  BY DEF CancelJudged, RiskBreached
<1>2. ctl.loop \notin HaltLoops
  BY <1>1, NoHaltLoop
<1>3. \A fault, last : Onward(LegFails(o, fault, last), live)
  BY <1>2, LegFailsOnward
<1>4. Onward(ctl', live)
  BY <1>2, <1>3, Now, CallOnward DEF CancelJudged, RiskBreached
<1> QED
  BY <1>1, <1>4, Now, PlainDebts, KeptWork

LEMMA TimeoutWork ==
    ASSUME CInv, NEW o \in Order, Timeout(o) PROVE Work
<1> DEFINE l == [live EXCEPT !.order[o].cancelRequested = TRUE]
<1>1. Lessens(l)
  BY Now DEF Lessens, Mild, Snapshot
<1>2. /\ ctl.pc = "timeout" /\ UNCHANGED proc
      /\ \/ Checkpointed /\ ctl' = Go("halt")
         \/ Saved(l) /\ ctl' = GoWith("timeoutCancel", o)
         \/ NotSaved(l, TRUE) /\ ctl' = Raise("err", l)
  BY DEF Timeout
<1> HIDE DEF l
<1>3. ctl.loop \notin HaltLoops /\ SameDebts
  BY <1>2, Now, NoHaltLoop, PlainDebts
<1>4. CASE Checkpointed /\ ctl' = Go("halt")
  BY <1>2, <1>3, <1>4, Now, CallOnward, KeptWork
<1>5. CASE Writes(l) /\ (ctl' = GoWith("timeoutCancel", o) \/ ctl' = Raise("err", l))
  <2>1. Onward(ctl', l)
    BY <1>1, <1>3, <1>5, CallOnward DEF Lessens
  <2> QED
    BY <1>1, <1>2, <1>3, <1>5, <2>1, LessWork
<1> QED
  BY <1>2, <1>4, <1>5, CallsWrite

\* What a cancel call, answered or not, leaves.
LEMMA CancelCallWork ==
    ASSUME CInv, NEW o \in Order, NEW r, NEW kept, NEW lost, NEW bad, NEW silent,
           ctl.pc # "exit",
           \A l : Mild(l) => /\ Onward(kept, l) /\ Onward(lost, l)
                             /\ Onward(bad, l) /\ Onward(silent, l),
           \/ Report(Sent(o), o, r, kept, lost)
           \/ proc' = Sent(o) /\ ctl' = bad /\ Checkpointed
           \/ UNCHANGED proc /\ ctl' = silent /\ Checkpointed
    PROVE  Work
<1>1. CASE Report(Sent(o), o, r, kept, lost)
  BY <1>1, ReportWork
<1>2. CASE /\ UNCHANGED proc \/ proc' = Sent(o)
           /\ ctl' \in {bad, silent} /\ Checkpointed
  BY <1>2, Now, PlainDebts, KeptWork
<1> QED
  BY <1>1, <1>2

LEMMA TimeoutCancelWork ==
    ASSUME CInv, NEW o \in Order, TimeoutCancel(o) PROVE Work
<1>1. ctl.pc = "timeoutCancel"
  BY DEF TimeoutCancel
<1>2. \A l : Mild(l) => Onward(GoWith("timedOut", o), l) /\ Onward(Go("halt"), l)
  BY <1>1, NoHaltLoop, CallOnward
<1>3. \E r : \/ Report(Sent(o), o, r, GoWith("timedOut", o), Go("halt"))
             \/ proc' = Sent(o) /\ ctl' = Go("halt") /\ Checkpointed
             \/ UNCHANGED proc /\ ctl' = Go("halt") /\ Checkpointed
  BY DEF TimeoutCancel
<1> QED
  BY <1>1, <1>2, <1>3, CancelCallWork

LEMMA CancelOnward ==
    ASSUME CInv, ctl.pc \in {"cancel", "send", "force"}, NEW l, Mild(l)
    PROVE  /\ Onward(CancelReturns, l)
           /\ \A e, m : Onward(CancelRaises(e, m), l)
           /\ \A pc \in {"cancel", "send", "force"} : Onward([ctl EXCEPT !.pc = pc], l)
<1>1. \A pc \in {"cancel", "send", "force"} : Onward([ctl EXCEPT !.pc = pc], l)
  BY Now DEF CInv, Steered, Mild, Onward, Fits, Placed, Outright, Deciding, Control
<1> QED
  BY <1>1, CancelReturnsOnward, CancelRaisesOnward

LEMMA CancelSendsWork ==
    ASSUME CInv, NEW o \in Order, CancelSends(o) PROVE Work
<1>1. ctl.pc = "send"
  BY DEF CancelSends
<1>2. PICK r : \/ Report(Sent(o), o, r, CancelReturns, CancelRaises("err", live'))
               \/ proc' = Sent(o) /\ ctl' = CancelRaises("bad", live) /\ Checkpointed
               \/ UNCHANGED proc /\ ctl' = CancelReturns /\ Checkpointed
  BY DEF CancelSends
<1>3. \A l : Mild(l) => /\ Onward(CancelReturns, l)
                        /\ Onward(CancelRaises("err", live'), l)
                        /\ Onward(CancelRaises("bad", live), l)
  BY <1>1, CancelOnward
<1> QED
  BY <1>1, <1>2, <1>3, CancelCallWork

LEMMA CancelForcedWork ==
    ASSUME CInv, NEW o \in Order, CancelForced(o) PROVE Work
<1>1. ctl.pc = "force"
  BY DEF CancelForced
<1>2. PICK r : \/ Report(Sent(o), o, r, CancelRaises("bad", live'), CancelRaises("bad", live'))
               \/ proc' = Sent(o) /\ ctl' = CancelRaises("bad", live) /\ Checkpointed
               \/ UNCHANGED proc /\ ctl' = CancelRaises("bad", live) /\ Checkpointed
  BY DEF CancelForced
<1>3. \A l : Mild(l) => /\ Onward(CancelRaises("bad", live'), l)
                        /\ Onward(CancelRaises("bad", live), l)
  BY <1>1, CancelOnward
<1> QED
  BY <1>1, <1>2, <1>3, CancelCallWork

LEMMA CancelUnsentWork ==
    ASSUME CInv, NEW o \in Order, CancelUnsent(o) PROVE Work
<1> DEFINE l == Dropped(live, {o})
<1>1. Lessens(l)
  BY Now, MovesLessen
<1>2. /\ ctl.pc = "cancel" /\ UNCHANGED proc
      /\ \/ Saved(l) /\ ctl' = CancelReturns
         \/ NotSaved(l, TRUE) /\ ctl' = CancelRaises("err", l)
  BY DEF CancelUnsent, Cancelling
<1> HIDE DEF l
<1>3. Onward(CancelReturns, l) /\ Onward(CancelRaises("err", l), l)
  BY <1>1, <1>2, CancelOnward DEF Lessens
<1>4. Onward(ctl', l) /\ Writes(l) /\ SameDebts
  BY <1>2, <1>3, CallsWrite, Now, PlainDebts
<1> QED
  BY <1>1, <1>2, <1>4, LessWork

LEMMA RequestCancelWork ==
    ASSUME CInv, NEW o \in Order, RequestCancel(o) PROVE Work
<1> DEFINE l == [live EXCEPT !.order[o].cancelRequested = TRUE]
<1>1. Lessens(l)
  BY Now DEF Lessens, Mild, Snapshot
<1>2. /\ ctl.pc = "cancel" /\ UNCHANGED proc
      /\ \/ Saved(l) /\ UNCHANGED ctl
         \/ NotSaved(l, TRUE) /\ ctl' = CancelRaises("err", l)
  BY DEF RequestCancel, Cancelling
<1> HIDE DEF l
<1>3. Onward([ctl EXCEPT !.pc = "cancel"], l) /\ Onward(CancelRaises("err", l), l)
  BY <1>1, <1>2, CancelOnward DEF Lessens
<1>4. [ctl EXCEPT !.pc = "cancel"] = ctl
  BY <1>2, Now DEF Control
<1>5. Onward(ctl', l) /\ Writes(l) /\ SameDebts
  BY <1>2, <1>3, <1>4, CallsWrite, Now, PlainDebts
<1> QED
  BY <1>1, <1>2, <1>5, LessWork

LEMMA CancelReadsWork ==
    ASSUME CInv, NEW o \in Order, CancelReads(o) PROVE Work
<1> DEFINE send == [ctl EXCEPT !.pc = "send"]
           force == [ctl EXCEPT !.pc = "force"]
<1>1. ctl.pc = "cancel"
  BY DEF CancelReads, Cancelling
<1>2. \A l : Mild(l) => /\ Onward(CancelReturns, l) /\ Onward(send, l) /\ Onward(force, l)
                        /\ Onward(CancelRaises("err", live'), l)
                        /\ Onward(CancelRaises("bad", live), l)
  BY <1>1, CancelOnward
<1> HIDE DEF send, force
<1>3. CASE \E r \in ReadReports(o), kept \in {CancelReturns, send} :
              Report(proc, o, r, kept, CancelRaises("err", live'))
  <2> PICK r \in ReadReports(o), kept \in {CancelReturns, send} :
         Report(proc, o, r, kept, CancelRaises("err", live'))
    BY <1>3
  <2>1. \A l : Mild(l) => Onward(kept, l) /\ Onward(CancelRaises("err", live'), l)
    BY <1>2
  <2> QED
    BY <1>1, <2>1, ReportWork
<1>4. CASE /\ UNCHANGED proc /\ Checkpointed
           /\ \/ ctl' \in {send, force, CancelReturns}
              \/ ctl' = CancelRaises("bad", live)
  <2>1. Onward(ctl', live)
    BY <1>2, <1>4, Now
  <2> QED
    BY <1>1, <1>4, <2>1, Now, PlainDebts, KeptWork
<1> QED
  BY <1>3, <1>4 DEF CancelReads, send, force

LEMMA NextInLoopWork ==
    ASSUME CInv, NEW o \in Order, NextInLoop(o) PROVE Work
<1>1. ctl.pc = "loop" /\ UNCHANGED proc /\ Checkpointed
  BY DEF NextInLoop
<1>2. Onward(ctl', live)
  BY Now DEF NextInLoop, CInv, Steered, Onward, Fits, Placed, Outright, Control
<1> QED
  BY <1>1, <1>2, Now, PlainDebts, KeptWork

LEMMA GroupCancelledWork == ASSUME CInv, GroupCancelled PROVE Work
<1> DEFINE l == [live EXCEPT !.rebalancing = FALSE]
           next == IF ctl.loop = "group" THEN Go("head") ELSE Done(l)
<1>1. Lessens(l) /\ l.tracked = live.tracked
  BY Now DEF Lessens, Mild, Snapshot
<1>2. ctl.pc = "loop" /\ ctl.loop \notin HaltLoops /\ UNCHANGED proc
  BY DEF GroupCancelled, LoopDone, HaltLoops
<1>3. Onward(next, l) /\ Onward(Raise("err", l), l)
  <2> HIDE DEF l
  <2> QED
    BY <1>1, <1>2, CallOnward DEF Lessens
<1>4. live.rebalancing = FALSE => l = live
  BY Now DEF Snapshot
<1>5. \/ Saved(l) /\ ctl' = next
      \/ NotSaved(l, FALSE) /\ ctl' = Raise("err", l)
      \/ live.rebalancing = FALSE /\ Checkpointed /\ ctl' = next
  BY Now DEF GroupCancelled, Snapshot
<1> HIDE DEF l, next
<1>6. Writes(l) /\ Onward(ctl', l) /\ SameDebts
  BY <1>2, <1>3, <1>4, <1>5, Now, CallsWrite, PlainDebts
<1> QED
  BY <1>1, <1>2, <1>6, LessWork

LEMMA LegsDroppedWork == ASSUME CInv, LegsDropped PROVE Work
<1> DEFINE l == Started(live, ctl.cur)
<1>1. Lessens(l)
  BY Now DEF Lessens, Mild, Snapshot, Started
<1>2. ctl.pc = "loop" /\ ctl.loop \notin HaltLoops /\ UNCHANGED proc /\ Writes(l)
  BY DEF LegsDropped, LoopDone, HaltLoops, Writes
<1> HIDE DEF l
<1>3. Onward(ctl', l) /\ SameDebts
  BY <1>1, <1>2, Now, CallOnward, PlainDebts DEF Lessens, LegsDropped
<1> QED
  BY <1>1, <1>2, <1>3, LessWork

LEMMA OrderWorks == ASSUME CInv, OrderWorkStep PROVE Work
<1>1. CASE AdvanceReturns \/ GroupCancelled \/ LegsDropped
  BY <1>1, AdvanceReturnsWork, GroupCancelledWork, LegsDroppedWork
<1>2. ASSUME NEW o \in Order,
             \/ FinishOwnCancel(o) \/ DropPaused(o) \/ DropUnfunded(o) \/ Attempt(o)
             \/ PlaceAnswered(o) \/ PlaceUnclear(o)
      PROVE  Work
  BY <1>2, FinishOwnCancelWork, DropPausedWork, DropUnfundedWork, AttemptWork,
     PlaceAnsweredWork, PlaceUnclearWork
<1>3. ASSUME NEW o \in Order,
             \/ Lookup(o) \/ Poll(o) \/ Judge(o)
             \/ Timeout(o) \/ TimeoutCancel(o) \/ TimedOut(o)
      PROVE  Work
  BY <1>3, LookupWork, PollWork, JudgeWork, TimeoutWork, TimeoutCancelWork, TimedOutWork
<1>4. ASSUME NEW o \in Order,
             \/ CancelUnsent(o) \/ RequestCancel(o) \/ CancelReads(o) \/ CancelSends(o)
             \/ CancelForced(o) \/ CancelJudged(o) \/ NextInLoop(o)
      PROVE  Work
  BY <1>4, CancelUnsentWork, RequestCancelWork, CancelReadsWork, CancelSendsWork,
     CancelForcedWork, CancelJudgedWork, NextInLoopWork
<1> QED
  BY <1>1, <1>2, <1>3, <1>4 DEF OrderWorkStep

-----------------------------------------------------------------------------
(* The cycle. *)

\* Places outside the order work and outside a bar.
Between == {"retryHalt", "reset", "carry", "flatten", "reconcile", "bar", "openOrders",
            "verify", "halt", "exit"}

LEMMA BetweenOnward ==
    ASSUME CInv, NEW l, NEW pc \in Between, NEW ctx \in Context \ Deciding,
           ctl.loop \notin HaltLoops
    PROVE  /\ Onward(At(pc, ctx), l) /\ Onward(Quiet, l)
           /\ \A c : Onward([At(pc, ctx) EXCEPT !.cycle = c], l)
BY DEF Between, Onward, Fits, Placed, Outright, Deciding, At, Quiet, HaltLoops, Exits

LEMMA PassDebts == ASSUME proc \in Process, proc' = NewPass(proc) PROVE SameDebts
BY DEF Process, NewPass, SameDebts

LEMMA ManualHaltOnward ==
    ASSUME CInv, ctl.pc = "idle", NEW ctx \in {"request", "operator"}, ManualHalt(ctx)
    PROVE  Onward(ctl', live)
<1>1. ctl.loop \notin HaltLoops
  BY NoHaltLoop
<1>2. \A pc \in {"halt", "retryHalt"}, c \in {"request", "operator", "retry"} :
         Onward(At(pc, c), live) /\ Onward(Quiet, live)
  BY <1>1, BetweenOnward DEF Between, Context, Deciding
<1> QED
  BY <1>2 DEF ManualHalt

LEMMA BeginCycleWork == ASSUME CInv, BeginCycle PROVE Work
<1>1. ctl.pc = "idle" /\ Checkpointed /\ proc' = NewPass(proc)
  BY DEF BeginCycle
<1>2. Onward(At("retryHalt", "retry"), live)
  BY <1>1, NoHaltLoop, BetweenOnward DEF Between, Context, Deciding
<1>3. Onward(ctl', live)
  BY <1>1, <1>2, ManualHaltOnward DEF BeginCycle
<1> QED
  BY <1>1, <1>3, Now, PassDebts, KeptWork

LEMMA OperatorHaltWork == ASSUME CInv, OperatorHalt PROVE Work
<1>1. ctl.pc = "idle" /\ Checkpointed /\ proc' = NewPass(proc) /\ ManualHalt("operator")
  BY DEF OperatorHalt
<1>2. Onward(ctl', live)
  BY <1>1, ManualHaltOnward
<1> QED
  BY <1>1, <1>2, Now, PassDebts, KeptWork

LEMMA CarryRowsWork == ASSUME CInv, CarryRows PROVE Work
<1>1. ctl.pc = "carry" /\ Writes(live) /\ UNCHANGED proc
  BY CallsWrite DEF CarryRows, Engine
<1>2. /\ Onward(At("flatten", "cycle"), live) /\ Onward(Quiet, live)
      /\ Onward(At("head", "orders"), live)
  BY <1>1, Now, NoHaltLoop, BetweenOnward
     DEF Between, Context, Deciding, Onward, Fits, Placed, Outright, At, Exits, HaltLoops
<1>3. Onward(ctl', live)
  BY <1>2 DEF CarryRows
<1> QED
  BY <1>1, <1>3, Now, PlainDebts, LessWork

LEMMA ReconcileWork == ASSUME CInv, Reconcile PROVE Work
<1>1. ctl.pc = "reconcile" /\ Checkpointed /\ SameDebts
  BY Now DEF Reconcile, Process, SameDebts
<1>2. Onward(At("bar", "cycle"), live) /\ Onward(At("halt", "reconcile"), live)
  BY <1>1, NoHaltLoop, BetweenOnward DEF Between, Context, Deciding
<1>3. Onward(ctl', live)
  BY <1>2 DEF Reconcile
<1> QED
  BY <1>1, <1>3, KeptWork

LEMMA BarWork == ASSUME CInv, Bar PROVE Work
<1>1. ctl.pc = "bar" /\ Checkpointed /\ UNCHANGED proc /\ ctl.loop \notin HaltLoops
  BY NoHaltLoop DEF Bar, Engine
<1>2. Onward(ctl', live)
  BY <1>1 DEF Bar, Onward, Fits, Placed, Outright, Deciding, At, Quiet, HaltLoops, Exits
<1> QED
  BY <1>1, <1>2, Now, PlainDebts, KeptWork

\* The work of a bar is done with a verified book.
LEMMA BarVerified ==
    ASSUME CInv, ctl.pc \in {"event", "commit", "account", "equity", "decide", "leg",
                             "exitsHalt"}
    PROVE  ~proc.unverified /\ ctl.loop = "none"
BY DEF CInv, OInv, Hands, Steered, Fits, Placed, Outright, Deciding, Exits

LEMMA EventWork == ASSUME CInv, Event PROVE Work
<1>1. /\ ctl.pc = "event" /\ Checkpointed /\ UNCHANGED proc
      /\ ~proc.unverified /\ ctl.loop = "none"
  BY BarVerified DEF Event, Engine
<1>2. Onward(ctl', live)
  BY <1>1 DEF Event, Blocked, MoreLegs, Onward, Fits, Placed, At, HaltLoops, Exits
<1> QED
  BY <1>1, <1>2, Now, PlainDebts, KeptWork

\* What is queued by a running account.
LEMMA QueueWork ==
    ASSUME CInv, NEW l, Mild(l), Writes(l), UNCHANGED proc, ~proc.unverified, ~live.halted,
           Onward(ctl', l), ctl.pc # "exit", ctl'.ctx \notin Exits
    PROVE  Work
BY Now, PlainDebts DEF Mild, Writes, Onward, Exits, Work, Milder, GoesOn

LEMMA DecideWork == ASSUME CInv, Decide PROVE Work
<1> DEFINE L == [live EXCEPT !.rebalancing = TRUE]
<1>0. /\ ctl.pc = "decide" /\ UNCHANGED proc /\ ~proc.unverified /\ ctl.loop = "none"
      /\ ctl.ctx \in {"decide", "waiting"} /\ ~live.halted /\ ~live.rebalancing
  BY BarVerified DEF Decide, Engine, CInv, Steered, Fits, Placed
<1>1. ctl.loop \notin HaltLoops
  BY <1>0 DEF HaltLoops
<1>2. CASE Checkpointed /\ (ctl' = Done(live) \/ ctl' = Go("halt"))
  BY <1>0, <1>1, <1>2, Now, CallOnward, PlainDebts, KeptWork
<1>3. CASE \E S \in Plans \ {{}} :
              \/ Saved(Planned(S)) /\ ctl' = Go("head")
              \/ NotSaved(Planned(S), TRUE) /\ ctl' = Raise("err", Planned(S))
  <2>1. \A S : Mild(Planned(S))
    BY Now DEF Planned, Queued, Mild, Snapshot
  <2>2. PICK S : /\ Writes(Planned(S))
                 /\ ctl' = Go("head") \/ ctl' = Raise("err", Planned(S))
    BY <1>3, CallsWrite
  <2>3. Onward(ctl', Planned(S))
    BY <1>1, <2>1, <2>2, CallOnward
  <2>4. ctl'.ctx \notin Exits
    BY <1>0, <2>3 DEF Onward, Exits
  <2> QED
    BY <1>0, <2>1, <2>2, <2>3, <2>4, QueueWork
<1>4. CASE \/ Saved(L) /\ ctl' = At("leg", "newLeg")
           \/ NotSaved(L, FALSE) /\ ctl' = Raise("err", L)
  <2>1. /\ Writes(L) /\ L.halted = live.halted /\ L.tracked = live.tracked /\ L.rebalancing
        /\ ctl' \in {At("leg", "newLeg"), Quiet}
    BY <1>0, <1>4, Now, CallsWrite DEF Snapshot, Raise, Exits
  <2> HIDE DEF L
  <2>2. Milder /\ GoesOn
    BY <1>0, <1>1, <2>1
       DEF Milder, GoesOn, Writes, Fits, Placed, At, Quiet, Exits, HaltLoops
  <2> QED
    BY <1>0, <2>2, Now, PlainDebts DEF Work
<1> QED
  BY <1>2, <1>3, <1>4 DEF Decide

LEMMA RebalanceLegWork == ASSUME CInv, RebalanceLeg PROVE Work
<1> DEFINE L == [live EXCEPT !.rebalancing = FALSE]
<1>0. /\ ctl.pc = "leg" /\ UNCHANGED proc /\ ~proc.unverified /\ ctl.loop = "none"
      /\ ctl.ctx \in {"leg", "newLeg"} /\ ~live.halted
  BY BarVerified DEF RebalanceLeg, Engine, CInv, Steered, Fits, Placed
<1>1. ctl.loop \notin HaltLoops /\ ctl.ctx \notin Exits
  BY <1>0 DEF HaltLoops, Exits
<1>2. CASE \E o \in Fresh(Leg) :
              \/ Saved(Queued(live, {o})) /\ ctl' = Go("head")
              \/ /\ NotSaved(Queued(live, {o}), TRUE)
                 /\ ctl' = Raise("err", Queued(live, {o}))
  <2>1. \A o : Mild(Queued(live, {o}))
    BY Now DEF Queued, Mild, Snapshot
  <2>2. PICK o : /\ Writes(Queued(live, {o}))
                 /\ ctl' = Go("head") \/ ctl' = Raise("err", Queued(live, {o}))
    BY <1>2, CallsWrite
  <2>3. Onward(ctl', Queued(live, {o}))
    BY <1>1, <2>1, <2>2, CallOnward
  <2>4. ctl'.ctx \notin Exits
    BY <1>1, <2>3 DEF Onward
  <2> QED
    BY <1>0, <2>1, <2>2, <2>3, <2>4, QueueWork
<1>3. /\ \A l : Mild(l) => /\ Onward(At("equity", "blocked"), l)
                           /\ Onward(At("commit", "cycle"), l)
                           /\ Onward(Go("halt"), l) /\ \A m : Onward(Raise("err", m), l)
      /\ Onward(At("equity", "free"), L)
  BY <1>0, <1>1, Now, CallOnward
     DEF Onward, Fits, Placed, At, Exits, HaltLoops, Snapshot
<1>4. Lessens(L)
  BY Now DEF Lessens, Mild, Snapshot
<1>5. CASE /\ Saved(live) \/ NotSaved(live, FALSE) \/ Checkpointed
           /\ ctl' \in {At("equity", "blocked"), At("commit", "cycle"),
                        Raise("err", live), Go("halt")}
  <2>1. Onward(ctl', live)
    BY <1>3, <1>5, Now
  <2> QED
    BY <1>0, <1>5, <2>1, Now, CallsWrite, PlainDebts, LessWork
<1>6. CASE \/ Saved(L) /\ ctl' \in {At("equity", "free"), At("commit", "cycle")}
           \/ NotSaved(L, FALSE) /\ ctl' = Raise("err", L)
  <2> HIDE DEF L
  <2>1. Onward(ctl', L)
    BY <1>3, <1>4, <1>6 DEF Lessens
  <2> QED
    BY <1>0, <1>4, <1>6, <2>1, Now, CallsWrite, PlainDebts, LessWork
<1> QED
  BY <1>2, <1>5, <1>6 DEF RebalanceLeg

LEMMA EquityWork == ASSUME CInv, Equity PROVE Work
<1>1. /\ ctl.pc = "equity" /\ UNCHANGED proc /\ ~proc.unverified /\ ctl.loop = "none"
      /\ ctl.ctx \in {"free", "blocked"} /\ Writes(live)
  BY BarVerified, CallsWrite DEF Equity, Engine, CInv, OInv, Hands
<1>2. /\ live' = live /\ (disk' = disk \/ disk' = live)
      /\ \/ ctl' = At("commit", "cycle") \/ ctl' = Quiet
         \/ ctl' = At("decide", "decide") /\ ctl.ctx = "free" /\ ~live.halted
         \/ ctl' = At("account", "breach") /\ "drawdown" \in Events
  BY <1>1 DEF Equity, Writes
<1>3. ctl.ctx = "free" => ~live.rebalancing
  BY DEF CInv, Steered, Fits
<1>4. Milder /\ GoesOn
  BY <1>1, <1>2, <1>3 DEF Milder, GoesOn, Fits, Placed, At, Quiet, Exits, HaltLoops
<1> QED
  BY <1>1, <1>4, Now, PlainDebts DEF Work

LEMMA CommitWork == ASSUME CInv, Commit PROVE Work
<1>1. /\ ctl.pc = "commit" /\ UNCHANGED proc /\ ~proc.unverified /\ ctl.loop = "none"
      /\ Writes(live)
  BY BarVerified, CallsWrite DEF Commit, Engine
<1>2. ctl' = Quiet \/ ctl' = At("event", "cycle")
  BY DEF Commit
<1>3. Onward(Quiet, live) /\ Onward(At("event", "cycle"), live)
  BY <1>1 DEF Onward, Fits, Placed, At, Quiet, Exits, HaltLoops
<1> QED
  BY <1>1, <1>2, <1>3, Now, PlainDebts, LessWork

LEMMA OpenOrdersWork == ASSUME CInv, OpenOrders PROVE Work
<1>1. ctl.pc = "openOrders" /\ UNCHANGED proc /\ Checkpointed /\ ctl.loop \notin HaltLoops
  BY NoHaltLoop DEF OpenOrders, Engine
<1>2. /\ Onward(At("verify", "start"), live) /\ Onward(Raise("err", live), live)
      /\ \A c \in {"startFailed", "orphanHalted"} : Onward(At("halt", c), live)
  BY <1>1, Now, RaiseOnward, BetweenOnward DEF Between, Context, Deciding
<1>3. Onward(ctl', live)
  BY <1>2 DEF OpenOrders
<1> QED
  BY <1>1, <1>3, Now, PlainDebts, KeptWork

LEMMA VerifyWork == ASSUME CInv, Verify PROVE Work
<1>1. ctl.pc = "verify" /\ UNCHANGED proc /\ Checkpointed /\ ctl.loop \notin HaltLoops
  BY NoHaltLoop DEF Verify, Engine
<1>2. Onward(At("exit", "none"), live) /\ Onward(Quiet, live)
  BY <1>1, BetweenOnward DEF Between, Context, Deciding
<1>3. Onward(ctl', live)
  BY <1>2 DEF Verify
<1> QED
  BY <1>1, <1>3, Now, PlainDebts, KeptWork

-----------------------------------------------------------------------------
(* Halts, resets and flattens: the work among them. *)

\* A place a caller is returned to.
Resumes(c, l) == /\ Fits(c, l)
                 /\ proc.unverified => Outright(c)
                 /\ c.loop = "none"
                 /\ c.ctx \in Exits => c.ctx = ctl.ctx

LEMMA CallerResumes ==
    ASSUME CInv, NEW l, Mild(l) \/ (l.halted /\ ~l.rebalancing)
    PROVE  Resumes(Done(l), l) /\ \A e : Resumes(Raise(e, l), l)
<1>1. Resumes(Done(l), l)
  BY DEF CInv, Steered, Mild, Resumes, Fits, Placed, Outright, Deciding, Done, MoreLegs, At,
         Quiet, Exits
<1>2. ASSUME NEW e PROVE Resumes(Raise(e, l), l)
  BY DEF CInv, Steered, Mild, Resumes, Fits, Placed, Outright, Deciding, Raise, At, Quiet, Exits
<1> QED
  BY <1>1, <1>2

LEMMA StillWork == ASSUME CInv, UNCHANGED <<live, disk, proc, ctl>> PROVE Work
BY DEF CInv, Steered, Work, Milder, SameDebts, GoesOn

LEMMA PauseWork == ASSUME CInv, PauseEntries \/ ResumeEntries PROVE Work
<1>1. ctl.pc = "idle" /\ UNCHANGED <<proc, ctl>> /\ ctl.ctx = "none" /\ ctl.loop \notin HaltLoops
  BY NoHaltLoop DEF PauseEntries, ResumeEntries, CInv, Steered, Fits, Placed
<1>2. PICK b \in BOOLEAN :
         LET l == [live EXCEPT !.paused = b] IN
         live' \in {live, l} /\ disk' \in {disk, l}
  BY DEF PauseEntries, ResumeEntries, Saved, NotSaved
<1>3. /\ live'.halted = live.halted /\ live'.tracked = live.tracked
      /\ disk' = disk \/ disk'.halted = live'.halted
  BY <1>2, Now DEF Snapshot
<1>4. Milder /\ GoesOn
  BY <1>1, <1>3 DEF CInv, Steered, Fits, Milder, GoesOn, Placed
<1> QED
  BY <1>1, <1>4, Now, PlainDebts DEF Work

LEMMA FlattenWork == ASSUME CInv, Flatten PROVE Work
<1>1. /\ ctl.pc = "flatten" /\ UNCHANGED proc /\ Checkpointed /\ ctl.loop \notin HaltLoops
      /\ ctl.loop = "none"
  BY NoHaltLoop DEF Flatten, CInv, Steered, Fits, Placed
<1>2. CASE ctl' = At("reconcile", "cycle")
  <2>1. Onward(ctl', live)
    BY <1>1, <1>2, BetweenOnward DEF Between, Context, Deciding
  <2> QED
    BY <1>1, <2>1, Now, PlainDebts, KeptWork
<1>3. CASE ~proc.unverified /\ live.tracked = {} /\ ctl' = At("account", "exits")
  <2>1. Milder /\ GoesOn
    BY <1>1, <1>3 DEF Checkpointed, Milder, GoesOn, Fits, Placed, At, Exits, HaltLoops
  <2> QED
    BY <1>1, <2>1, Now, PlainDebts DEF Work
<1>4. CASE ~proc.unverified /\ ctl' = Pass("flatten")
  <2>1. Onward(ctl', live)
    BY <1>1, <1>4 DEF CInv, Steered, Onward, Fits, Placed, Pass, Go, At, HaltLoops
  <2> QED
    BY <1>1, <2>1, Now, PlainDebts, KeptWork
<1> QED
  BY <1>2, <1>3, <1>4 DEF Flatten

LEMMA FlattenPassEndsWork == ASSUME CInv, FlattenPassEnds PROVE Work
<1>1. /\ ctl.pc = "loop" /\ ctl.loop = "flatten" /\ UNCHANGED proc /\ Checkpointed
      /\ ~proc.unverified
      /\ \/ ctl' \in {Quiet, At("reconcile", "cycle")}
         \/ ctl' = At("account", "exits") /\ live.tracked = {}
  BY DEF FlattenPassEnds, LoopDone, CInv, Steered, Outright
<1>2. Milder /\ GoesOn
  BY <1>1 DEF Checkpointed, Milder, GoesOn, Fits, Placed, At, Quiet, Exits, HaltLoops
<1> QED
  BY <1>1, <1>2, Now, PlainDebts DEF Work

LEMMA FlattenAccountWork == ASSUME CInv, FlattenAccount PROVE Work
<1>1. /\ ctl.pc = "account" /\ UNCHANGED proc /\ ~proc.unverified /\ ctl.loop = "none"
      /\ ctl.ctx \in Exits
  BY BarVerified DEF FlattenAccount, CInv, Steered, Fits, Placed
<1>2. ctl.loop \notin HaltLoops
  BY <1>1 DEF HaltLoops
<1>3. CASE Checkpointed /\ (ctl' \in {Go("halt"), Go("exitsHalt")} \/ ctl' = Raise("err", live))
  <2>1. Onward(Go("exitsHalt"), live)
    BY <1>1 DEF Onward, Fits, Placed, Go, At, Exits, HaltLoops
  <2>2. Onward(ctl', live)
    BY <1>2, <1>3, <2>1, Now, CallOnward
  <2> QED
    BY <1>1, <1>3, <2>2, Now, PlainDebts, KeptWork
<1>4. CASE \E X \in SUBSET RecoveryExit :
              /\ live.tracked = {}
              /\ \/ Saved(Planned(X)) /\ ctl' = Go("head")
                 \/ NotSaved(Planned(X), TRUE) /\ ctl' = Raise("err", Planned(X))
  <2>1. ASSUME live.tracked = {}, NEW X \in SUBSET RecoveryExit
        PROVE  Mild(Planned(X)) /\ Planned(X).tracked \subseteq RecoveryExit
    BY <2>1, Now DEF Planned, Queued, Mild, Snapshot
  <2>2. PICK X \in SUBSET RecoveryExit :
           /\ live.tracked = {} /\ Writes(Planned(X))
           /\ ctl' = Go("head") \/ ctl' = Raise("err", Planned(X))
    BY <1>4, CallsWrite
  <2>3. Mild(Planned(X)) /\ Planned(X).tracked \subseteq RecoveryExit
    BY <2>1, <2>2
  <2>4. Onward(ctl', Planned(X))
    BY <1>2, <2>2, <2>3, CallOnward
  <2>5. Milder /\ GoesOn
    BY <1>1, <2>2, <2>3, <2>4 DEF Mild, Writes, Onward, Milder, GoesOn, Exits
  <2> QED
    BY <1>1, <2>5, Now, PlainDebts DEF Work
<1> QED
  BY <1>3, <1>4 DEF FlattenAccount, QueueRefuses, Fresh

-----------------------------------------------------------------------------
(* Halts, resets, the start and the end, each on its own. *)

LEMMA HaltKeepsControl == ASSUME CInv, OInv', Halt PROVE CInv'
<1> DEFINE l == HaltedMemory(live)
<1>1. /\ l.halted /\ ~l.rebalancing /\ l.tracked = live.tracked
  BY Now DEF Snapshot, HaltedMemory
<1>2. ctl.pc = "halt" /\ ctl.loop = "none"
  BY DEF Halt, CInv, Steered, Fits, Placed
<1>3. CASE Saved(l) /\ proc' = Halting /\ ctl' = Pass("halt")
  <2>1. /\ live' = l /\ disk' = l
        /\ proc'.unverified = proc.unverified
        /\ ctl'.pc = "loop" /\ ctl'.ctx = ctl.ctx /\ ctl'.loop = "halt"
    BY <1>3, Now DEF Saved, Halting, Process, Pass, Go, At
  <2> HIDE DEF l
  <2>2. Steered'
    BY <1>1, <2>1 DEF CInv, Steered, Fits, Placed, Outright, HaltLoops
  <2>3. ASSUME "drawdown" \notin Events PROVE Owed'
    BY <1>1, <2>1, <2>3 DEF CInv, Owed, HaltLoops
  <2> QED
    BY <2>2, <2>3 DEF CInv
<1>4. CASE NotSaved(l, FALSE) /\ proc' = HaltNotSaved /\ ctl' = Raise("err", l)
  <2>1. /\ live' = l
        /\ proc'.unverified = proc.unverified /\ proc'.haltUnsaved /\ proc'.cancelsOwed
    BY <1>4, Now DEF NotSaved, HaltNotSaved, Halting, Process
  <2> HIDE DEF l
  <2>2. Resumes(ctl', l)
    BY <1>1, <1>4, CallerResumes
  <2>3. ctl'.ctx \in Exits => live.halted
    BY <1>1, <1>2, <1>4 DEF Raise, Exits, At, Quiet
  <2>4. Steered'
    BY <1>1, <2>1, <2>2 DEF CInv, Steered, Resumes, HaltLoops
  <2>5. ASSUME "drawdown" \notin Events PROVE Owed'
    BY <1>1, <2>1, <2>2, <2>5 DEF CInv, Owed, Resumes, Exits
  <2> QED
    BY <2>4, <2>5 DEF CInv
<1> QED
  BY <1>3, <1>4 DEF Halt

LEMMA HaltPassEndsKeepsControl == ASSUME CInv, OInv', HaltPassEnds PROVE CInv'
<1>1. /\ ctl.pc = "loop" /\ ctl.loop \in HaltLoops /\ live.halted /\ disk.halted
      /\ live' = live /\ disk' = disk
  BY DEF HaltPassEnds, LoopDone, HaltLoops, CInv, Steered, Checkpointed
<1>2. /\ proc'.unverified = proc.unverified
      /\ proc'.haltUnsaved = proc.haltUnsaved
      /\ live.tracked # {} => proc'.cancelsOwed
  BY Now DEF HaltPassEnds, Process, StillOwed
<1>3. Resumes([At("reset", "cycle") EXCEPT !.cycle = "passed"], live)
  BY DEF Resumes, Fits, Placed, Outright, Deciding, At, Exits
<1>4. Resumes(ctl', live)
  BY <1>3, Now, CallerResumes DEF HaltPassEnds
<1>5. Steered'
  BY <1>1, <1>2, <1>4 DEF CInv, Steered, Resumes, HaltLoops
<1>6. ASSUME "drawdown" \notin Events PROVE Owed'
  BY <1>1, <1>2, <1>4, <1>6 DEF CInv, Owed, Resumes, Exits
<1> QED
  BY <1>5, <1>6 DEF CInv

LEMMA RetryHaltKeepsControl == ASSUME CInv, OInv', RetryHalt PROVE CInv'
<1> DEFINE next == IF proc.cancelsOwed THEN Pass("retry") ELSE RetryReturns
<1>1. ctl.pc = "retryHalt" /\ ctl.loop = "none" /\ ctl.loop \notin HaltLoops
  BY NoHaltLoop DEF RetryHalt, CInv, Steered, Fits, Placed
<1>2. CASE NotSaved(live, FALSE) /\ ctl' = Raise("err", live) /\ UNCHANGED proc
  <2>1. Work
    BY <1>1, <1>2, Now, CallsWrite, RaiseOnward, PlainDebts, LessWork
  <2> QED
    BY <2>1, WorkKeeps
<1>3. CASE /\ live' = live /\ ctl' = next
           /\ proc'.unverified = proc.unverified /\ proc'.cancelsOwed = proc.cancelsOwed
           /\ ~proc'.haltUnsaved
           /\ disk' = IF proc.haltUnsaved THEN live ELSE disk
  <2>1. CASE proc.cancelsOwed
    <3>1. ctl'.pc = "loop" /\ ctl'.ctx = ctl.ctx /\ ctl'.loop = "retry"
      BY <1>3, <2>1 DEF Pass, Go, At
    <3>2. live.halted /\ disk'.halted
      BY <1>3, <2>1 DEF CInv, Steered
    <3>3. Steered'
      BY <1>3, <3>1, <3>2 DEF CInv, Steered, Fits, Placed, Outright, HaltLoops
    <3>4. ASSUME "drawdown" \notin Events PROVE Owed'
      BY <1>3, <3>1, <3>4 DEF CInv, Owed, HaltLoops
    <3> QED
      BY <3>3, <3>4 DEF CInv
  <2>2. CASE ~proc.cancelsOwed
    <3>1. ctl' \in {At("reset", "cycle"), At("retryHalt", "retry"), Quiet}
      BY <1>3, <2>2 DEF RetryReturns
    <3>2. Resumes(ctl', live) /\ ctl'.ctx \notin Exits
      BY <3>1 DEF Resumes, Fits, Placed, Outright, Deciding, At, Quiet, Exits
    <3>3. Steered'
      BY <1>3, <2>2, <3>2 DEF CInv, Steered, Resumes, HaltLoops
    <3>4. ASSUME "drawdown" \notin Events PROVE Owed'
      BY <1>1, <1>3, <2>2, <3>2, <3>4 DEF CInv, Owed, Exits
    <3> QED
      BY <3>3, <3>4 DEF CInv
  <2> QED
    BY <2>1, <2>2
<1> QED
  BY <1>2, <1>3, Now DEF RetryHalt, Saved, Checkpointed, Process

\* A reset leaves a running account with an empty queue and an unverified book.
LEMMA ResetKeeps ==
    ASSUME CInv, OInv', MayReset, Writes(ResetMemory), proc' = ResetProcess,
           NEW c, ctl' = c, c.loop = "none", c.ctx \notin Deciding,
           c.pc \in {"carry", "halt"} \/ (c.pc = "idle" /\ c.ctx = "none")
    PROVE  CInv'
<1>1. /\ ~live'.halted /\ live'.tracked = {}
      /\ ~proc'.cancelsOwed /\ ~proc'.haltUnsaved
  BY Now DEF MayReset, Writes, ResetMemory, ResetProcess, Snapshot, Process
<1>2. Steered'
  BY <1>1 DEF Steered, Fits, Placed, Outright, Deciding, HaltLoops
<1>3. Owed'
  BY <1>1 DEF Owed, Deciding
<1> QED
  BY <1>2, <1>3 DEF CInv

LEMMA OperatorResetKeepsControl == ASSUME CInv, OInv', OperatorReset PROVE CInv'
<1>1. /\ ctl.pc = "idle" /\ ctl.ctx = "none" /\ ctl.loop = "none" /\ ctl' = ctl
      /\ MayReset /\ Writes(ResetMemory) /\ proc' = ResetProcess
  BY CallsWrite DEF OperatorReset, CInv, Steered, Fits, Placed
<1> QED
  BY <1>1, ResetKeeps DEF Deciding

LEMMA RequestedResetKeepsControl == ASSUME CInv, OInv', RequestedReset PROVE CInv'
<1>1. CASE ctl' = AfterReset /\ UNCHANGED proc /\ Checkpointed
  <2>1. ctl.pc = "reset"
    BY DEF RequestedReset
  <2>2. Onward(ctl', live)
    BY <1>1, <2>1, NoHaltLoop, BetweenOnward DEF AfterReset, Between, Context, Deciding
  <2>3. Work
    BY <1>1, <2>1, <2>2, Now, PlainDebts, KeptWork
  <2> QED
    BY <2>3, WorkKeeps
<1>2. CASE /\ MayReset /\ Writes(ResetMemory) /\ proc' = ResetProcess
           /\ ctl' \in {AfterReset, [At("halt", "again") EXCEPT !.cycle = ctl.cycle], Quiet}
  BY <1>2, ResetKeeps DEF AfterReset, At, Quiet, Deciding
<1> QED
  BY <1>1, <1>2, CallsWrite DEF RequestedReset

LEMMA ExitsHaltKeepsControl == ASSUME CInv, OInv', ExitsHalt PROVE CInv'
<1> DEFINE l == HaltedMemory(live)
<1>1. /\ l.halted /\ ~l.rebalancing /\ l.tracked = live.tracked
  BY Now DEF Snapshot, HaltedMemory
<1>2. ctl.pc = "exitsHalt" /\ ctl.ctx \in Exits /\ ~proc.unverified
  BY BarVerified DEF ExitsHalt, CInv, Steered, Fits, Placed
<1>3. /\ live' = l /\ disk' \in {disk, l}
      /\ disk' = l \/ proc'.haltUnsaved
      /\ ~proc'.unverified
      /\ ctl' \in {Quiet, At("reconcile", "cycle"), At("commit", "cycle")}
  BY <1>2, Now DEF ExitsHalt, Saved, NotSaved, Halting, Process
<1> HIDE DEF l
<1>4. Steered'
  BY <1>1, <1>3 DEF Steered, Fits, Placed, At, Quiet, Exits, HaltLoops
<1>5. ASSUME "drawdown" \notin Events PROVE Owed'
  BY <1>1, <1>2, <1>3, <1>5 DEF CInv, Owed, At, Quiet, Exits
<1> QED
  BY <1>4, <1>5 DEF CInv

LEMMA StartKeepsControl == ASSUME CInv, OInv', Start PROVE CInv'
<1>1. live' = disk /\ disk' = disk /\ proc' = FreshProcess
  BY DEF Start, Forgotten
<1>2. /\ ctl'.pc \in {"head", "loop"} /\ ctl'.ctx \in {"start", "startHalted"}
      /\ \/ ctl'.loop = "none"
         \/ ctl'.pc = "loop" /\ ctl'.loop = "restart" /\ disk.halted
      /\ disk.halted /\ ~disk.tracked \subseteq RecoveryExit => ctl'.loop = "restart"
  BY DEF Start, RecoveryOnly, At
<1>3. Steered'
  BY <1>1, <1>2 DEF Steered, Fits, Placed, FreshProcess, Exits, HaltLoops
<1>4. Owed'
  BY <1>1, <1>2 DEF Owed, HaltLoops
<1> QED
  BY <1>3, <1>4 DEF CInv

LEMMA CrashKeepsControl == ASSUME CInv, OInv', Crash PROVE CInv'
<1>1. Steered'
  BY DEF Crash, Forgotten, At, Steered, Fits, Placed, FreshProcess, HaltLoops
<1>2. Owed'
  BY DEF Crash, Forgotten, At, Owed
<1> QED
  BY <1>1, <1>2 DEF CInv

-----------------------------------------------------------------------------
(* The control's invariant. *)

LEMMA InitControl == Init => CInv
<1> SUFFICES ASSUME Init PROVE CInv
  OBVIOUS
<1>1. Steered
  BY DEF Init, Steered, Fits, Placed, At, FreshProcess, Exits, HaltLoops
<1>2. Owed
  BY DEF Init, Owed, At
<1> QED
  BY <1>1, <1>2, InitOrders DEF CInv

LEMMA CycleKeepsControl == ASSUME CInv, OInv', CycleStep PROVE CInv'
BY WorkKeeps, StartKeepsControl, BeginCycleWork, CarryRowsWork, ReconcileWork, BarWork, EventWork,
   DecideWork, RebalanceLegWork, EquityWork, CommitWork, OpenOrdersWork, VerifyWork
   DEF CycleStep

LEMMA AccountHaltKeepsControl == ASSUME CInv, OInv', AccountHaltStep PROVE CInv'
BY WorkKeeps, HaltKeepsControl, HaltPassEndsKeepsControl, RetryHaltKeepsControl,
   RequestedResetKeepsControl, ExitsHaltKeepsControl, FlattenWork, FlattenPassEndsWork,
   FlattenAccountWork
   DEF AccountHaltStep

LEMMA OperatorKeepsControl == ASSUME CInv, OInv', OperatorStep PROVE CInv'
<1>1. CASE Request
  BY <1>1, StillWork, WorkKeeps DEF Request, Checkpointed
<1> QED
  BY <1>1, WorkKeeps, OperatorResetKeepsControl, OperatorHaltWork, PauseWork DEF OperatorStep

LEMMA NextKeepsControl == CInv /\ [Next]_vars => CInv'
<1> SUFFICES ASSUME CInv, [Next]_vars PROVE CInv'
  OBVIOUS
<1>1. OInv'
  BY NextKeepsOrders DEF CInv, OKeeps
<1>2. CASE OrderWorkStep
  BY <1>1, <1>2, OrderWorks, WorkKeeps
<1>3. ASSUME NEW o \in Order, VenueStep(o) PROVE CInv'
  <2>1. UNCHANGED <<live, disk, proc, ctl>>
    BY <1>3 DEF VenueStep, VenueFill, VenueReceives, VenueCancels, VenueEndsCancel, GetsLate,
                EngineUnchanged
  <2> QED
    BY <1>1, <2>1, StillWork, WorkKeeps
<1>4. CASE UNCHANGED vars
  BY <1>1, <1>4, StillWork, WorkKeeps DEF vars
<1> QED
  BY <1>1, <1>2, <1>3, <1>4, CycleKeepsControl, AccountHaltKeepsControl, OperatorKeepsControl,
     CrashKeepsControl
     DEF Next, EngineStep

\* The invariant of the control holds in every reachable state.
THEOREM ControlInvariance == Spec => []CInv
BY InitControl, NextKeepsControl, PTL DEF Spec

\* A decision is only made on an empty queue, by a running account with a
\* verified book, and a leg only while the rebalance it belongs to is active:
\* what _execute_live_decision and _queue_next_live_rebalance_order plan is
\* never refused for orders still at work.
THEOREM DecidesOnEmptyQueueHolds == Spec => []DecidesOnEmptyQueue
<1>1. CInv => DecidesOnEmptyQueue
  <2> SUFFICES ASSUME CInv, ctl.pc \in {"decide", "leg"}
               PROVE  /\ live.tracked = {} /\ ~live.halted /\ ~proc.unverified
                      /\ live.rebalancing = (ctl.pc = "leg")
    BY DEF DecidesOnEmptyQueue
  <2>1. live.tracked = {}
    BY DEF CInv, OInv, Hands
  <2>2. live.rebalancing \in BOOLEAN
    BY Now DEF Snapshot
  <2>3. ~live.halted /\ live.rebalancing = (ctl.pc = "leg")
    BY <2>2 DEF CInv, Steered, Fits, Placed
  <2> QED
    BY <2>1, <2>3, BarVerified
<1> QED
  BY <1>1, ControlInvariance, PTL

\* After a reset nothing goes out until a reconciliation has matched the book:
\* reset_halt is refused while an order is tracked, and no bar is worked on and
\* no flatten submits while _resume_unverified is set.
THEOREM UnverifiedAccountSilent == Spec => UnverifiedSendsNothing
<1> DEFINE A == \A o \in Order : Sends(o) => ~proc.unverified
<1>1. CInv /\ [Next]_vars => A
  <2> SUFFICES ASSUME CInv, [Next]_vars, NEW o \in Order, Sends(o) PROVE ~proc.unverified
    OBVIOUS
  <2>1. ctl.pc = "place" /\ ctl.cur = o
    BY NextKeepsOrders DEF CInv, OKeeps, VenueMoves
  <2>2. o \in live.tracked
    BY <2>1 DEF CInv, OInv, Hands, Calls
  <2> QED
    BY <2>2 DEF CInv, Steered
<1>2. CInv /\ [Next]_vars => [A]_vars
  BY <1>1
<1> QED
  BY <1>2, ControlInvariance, PTL DEF Spec, UnverifiedSendsNothing

\* A halt is in the checkpoint before any cancel of its pass is requested
\* (_halt_live saves first, _retry_halt retries that write first), so a restart
\* among those cancels comes back halted.
THEOREM HaltRecordedBeforeCancels == Spec => HaltRecordedFirst
<1> DEFINE A == (ctl.loop \in {"halt", "retry", "restart"}
                   /\ \E o \in Order : live'.order[o].cancelRequested
                                          # live.order[o].cancelRequested)
                => disk.halted
<1>1. CInv /\ [Next]_vars => [A]_vars
  BY DEF CInv, Steered, HaltLoops
<1> QED
  BY <1>1, ControlInvariance, PTL DEF Spec, HaltRecordedFirst

\* Where no drawdown is breached, a halted account that still tracks a strategy
\* order between two cycles owes its cancellation, whatever call or write failed
\* before (_halt_live, _cancel_active_orders, _retry_halt and the restart's pass).
\* A breach halts without cancelling: BreachLeavesOrder.
THEOREM HaltOwesCancelsHolds ==
    ASSUME "drawdown" \notin Events PROVE Spec => []HaltOwesCancels
<1>1. CInv => HaltOwesCancels
  <2> SUFFICES ASSUME CInv, ctl.pc = "idle", live.halted, ~live.tracked \subseteq RecoveryExit
               PROVE  proc.cancelsOwed
    BY DEF HaltOwesCancels
  <2>1. ctl.loop \notin HaltLoops
    BY NoHaltLoop
  <2> QED
    BY <2>1 DEF CInv, Owed
<1> QED
  BY <1>1, ControlInvariance, PTL

-----------------------------------------------------------------------------
(***************************************************************************)
(* The groups: what a pause keeps back, and what neither the pause nor the *)
(* funding check keeps back.                                               *)
(*                                                                         *)
(* A group is judged once, before its first leg goes out, and that is all  *)
(* unstarted says of it.  GInv adds to OInv what lets the queue count on   *)
(* it: a leg that is not judged any more has a leg before it that was      *)
(* attempted (Tied), nothing of a group still to be judged was sent by the *)
(* decision that queued it (Unbegun), and a group the funding check drops  *)
(* leaves the queue whole before it stops being judged (Dropping).  Nearly *)
(* every step is Routine: it leaves the groups as they are, and lets no    *)
(* order out of the queue but one the venue was sent.                      *)
(***************************************************************************)

Grouped(o) == GroupOf[o] # NoGroup

\* What memory l holds of the groups while the venue's record is V.
Tied(l, V) == \A o \in Order :
    /\ l.order[o].attempted /\ o \notin l.tracked => V[o].sent > 0
    /\ o \in l.tracked \cap Entry /\ Grouped(o) /\ ~l.order[o].attempted =>
          \/ GroupOf[o] \in l.unstarted
          \/ \E p \in Order \ {o} : GroupOf[p] = GroupOf[o] /\ l.order[p].attempted

Unbegun(l, V) == \A S \in Plans : \A o, p \in S :
    o \in l.tracked /\ Grouped(o) /\ GroupOf[p] = GroupOf[o] /\ GroupOf[o] \in l.unstarted
       => V[p].sent = 0

Whole(l, V) == Tied(l, V) /\ Unbegun(l, V)

\* What the loop of _drop_unfunded_entry has left to cancel.
Left(c) == c.todo \cup IF c.pc = "cancel" THEN {c.cur} ELSE {}

Dropping == ctl.loop = "drop" =>
    /\ ctl.pc \in {"loop", "cancel"} /\ ctl.cur \in Order
    /\ \A o \in Left(ctl) : GroupOf[o] = GroupOf[ctl.cur] /\ ~live.order[o].attempted
    /\ Grouped(ctl.cur) => GroupOf[ctl.cur] \in live.unstarted /\ Siblings(ctl.cur) \subseteq Left(ctl)

\* The order being sent.
Starting == ctl.pc = "place" =>
    /\ ctl.cur \in Entry /\ live.paused =>
          /\ Grouped(ctl.cur)
          /\ \E p \in Order \ {ctl.cur} : GroupOf[p] = GroupOf[ctl.cur] /\ venue[p].sent > 0
    /\ Grouped(ctl.cur) => GroupOf[ctl.cur] \notin live.unstarted

GInv == OInv /\ Whole(live, venue) /\ Whole(disk, venue) /\ Dropping /\ Starting

\* Only legs of a group that is judged are withheld.
Releases == \A o \in Order : Withholds(o) /\ Grouped(o) => GroupOf[o] \in live.unstarted

\* What every step does.
GKeeps == GInv' /\ Releases

-----------------------------------------------------------------------------
(* Memory and the venue. *)

\* Memory l has the groups of the present one.
Kin(l) == /\ l.tracked \subseteq live.tracked
          /\ l.unstarted = live.unstarted
          /\ \A o \in Order : l.order[o].attempted = live.order[o].attempted
          /\ \A o \in live.tracked \ l.tracked : live.order[o].attempted /\ venue'[o].sent > 0

\* The venue's moves leave the groups of a memory whole.
LEMMA MovesWhole ==
    ASSUME GInv, IInv', VenueMoves, NEW l \in {live, disk} PROVE Whole(l, venue')
<1>1. \A o \in Order : /\ venue[o].sent \in 0 .. 1 /\ venue'[o].sent \in 0 .. 1
                       /\ venue'[o].sent >= venue[o].sent
  BY DEF GInv, OInv, IInv, Surroundings, SoundOrder, VenueOrder, VenueMoves
<1>2. Tied(l, venue')
  BY <1>1 DEF GInv, Whole, Tied
<1>3. ASSUME NEW S \in Plans, NEW o \in S, NEW p \in S,
             o \in l.tracked, Grouped(o), GroupOf[p] = GroupOf[o], GroupOf[o] \in l.unstarted
      PROVE  venue'[p].sent = 0
  <2>1. venue[p].sent = 0 /\ p \in Order
    BY <1>3, QueueAssumption DEF GInv, Whole, Unbegun
  <2>2. ~Sends(p)
    BY <1>3, <2>1 DEF VenueMoves, GInv, OInv, Starting, Grouped
  <2> QED
    BY <1>1, <2>1, <2>2 DEF Sends
<1> QED
  BY <1>2, <1>3 DEF Whole, Unbegun

LEMMA KinWhole ==
    ASSUME Whole(live, venue'), NEW l, Kin(l), live.tracked \subseteq Order PROVE Whole(l, venue')
<1>1. Tied(l, venue')
  BY DEF Whole, Tied, Kin
<1>2. Unbegun(l, venue')
  BY DEF Whole, Unbegun, Kin
<1> QED
  BY <1>1, <1>2 DEF Whole

-----------------------------------------------------------------------------
(* What a routine step does. *)

\* A place at which no group is being dropped and no order sent.
Loose(c) == c.loop # "drop" /\ c.pc # "place"

Routine == /\ Kin(live')
           /\ disk' = disk \/ Kin(disk')
           /\ Loose(ctl') \/ (ctl' = ctl /\ live' = live)

LEMMA StepKeepsGroups ==
    ASSUME GInv, OKeeps, Whole(live', venue'), disk' \in {disk, live'}, Dropping', Starting'
    PROVE  GInv'
BY MovesWhole DEF OKeeps, OInv, GInv

LEMMA LooseSettled == ASSUME Loose(ctl') PROVE Dropping' /\ Starting'
BY DEF Loose, Dropping, Starting

LEMMA RoutineKeepsGroups == ASSUME GInv, OKeeps, Routine PROVE GKeeps
<1>1. Whole(live, venue') /\ Whole(disk, venue')
  BY MovesWhole DEF OKeeps, OInv
<1>2. live.tracked \subseteq Order
  BY Present DEF GInv
<1>3. Whole(live', venue') /\ Whole(disk', venue')
  BY <1>1, <1>2, KinWhole DEF Routine
<1>4. Loose(ctl') => Dropping' /\ Starting'
  BY LooseSettled
<1>5. ASSUME ctl' = ctl, live' = live PROVE Dropping' /\ Starting'
  <2>1. Dropping'
    BY <1>5 DEF GInv, Dropping, Left, Siblings
  <2>2. \A o \in Order : venue[o].sent > 0 => venue'[o].sent > 0
    BY DEF OKeeps, VenueMoves, GInv, OInv, IInv, Surroundings, SoundOrder, VenueOrder
  <2>3. Starting'
    BY <1>5, <2>2 DEF GInv, Starting
  <2> QED
    BY <2>1, <2>3
<1>6. Dropping' /\ Starting'
  BY <1>4, <1>5 DEF Routine
<1>7. Releases
  BY DEF Releases, Withholds, Routine, Kin
<1> QED
  BY <1>3, <1>6, <1>7 DEF OKeeps, GInv, GKeeps

LEMMA LiveKin == Kin(live)
BY DEF Kin

\* Memory whose groups are the present ones, whatever else of it is set.
LEMMA SameKin ==
    ASSUME NEW l, l.tracked = live.tracked, l.unstarted = live.unstarted,
           \A o \in Order : l.order[o].attempted = live.order[o].attempted
    PROVE  Kin(l)
BY DEF Kin

LEMMA FlagsKin ==
    ASSUME live \in Snapshot
    PROVE  /\ \A b \in BOOLEAN : /\ Kin([live EXCEPT !.halted = b])
                                 /\ Kin([live EXCEPT !.paused = b])
                                 /\ Kin([live EXCEPT !.rebalancing = b])
           /\ Kin(HaltedMemory(live)) /\ Kin(ResetMemory)
           /\ \A o \in Order : Kin([live EXCEPT !.order[o].cancelRequested = TRUE])
BY DEF Kin, HaltedMemory, ResetMemory, Snapshot, TrackedOrder

\* The memory a report leaves: the order at hand may have left the queue.
LEMMA AppliedKin ==
    ASSUME OInv, NEW o \in live.tracked, live.order[o].attempted, venue'[o].sent > 0,
           NEW r, Answer(r)
    PROVE  Kin(Applied(live, o, r))
<1>0. o \in Order /\ Memory
  BY Present
<1> DEFINE a == Applied(live, o, r)
<1>1. /\ a.tracked = IF r.status \in Ended THEN live.tracked \ {o} ELSE live.tracked
      /\ \A p \in Order : a.order[p].attempted = live.order[p].attempted
  BY <1>0, AppliedShape
<1>2. a.unstarted = live.unstarted
  BY Present DEF Applied, Snapshot
<1> HIDE DEF a
<1>3. Kin(a)
  BY <1>1, <1>2 DEF Kin
<1> QED
  BY <1>3 DEF a

-----------------------------------------------------------------------------
(* Control. *)

LEMMA PlacesLoose ==
    /\ Loose(Quiet)
    /\ \A pc, ctx : pc # "place" => /\ Loose(At(pc, ctx))
                                    /\ \A c : Loose([At(pc, ctx) EXCEPT !.cycle = c])
    /\ \A pc, o : pc # "place" => Loose(Go(pc)) /\ Loose(GoWith(pc, o))
BY DEF Loose, Quiet, At, Go, GoWith

LEMMA CallersLoose ==
    /\ \A l : Loose(Done(l)) /\ \A e : Loose(Raise(e, l))
    /\ \A loop : loop # "drop" => Loose(Pass(loop))
    /\ \A o, fault, last : Loose(LegFails(o, fault, last))
<1>1. \A l : Loose(Done(l))
  BY DEF Loose, Done, At, Quiet
<1>2. \A l, e : Loose(Raise(e, l))
  BY DEF Loose, Raise, At, Quiet
<1>3. \A loop : loop # "drop" => Loose(Pass(loop))
  BY DEF Loose, Pass, Go, At
<1>4. \A o, fault, last : Loose(LegFails(o, fault, last))
  BY <1>1, PlacesLoose DEF LegFails, Loose, Go, At
<1> QED
  BY <1>1, <1>2, <1>3, <1>4

\* A cancel that belongs to no dropped group returns to no dropped group.
LEMMA CancelLoose ==
    ASSUME ctl \in Control, ctl.loop # "drop"
    PROVE  Loose(CancelReturns) /\ \A e, l : Loose(CancelRaises(e, l))
<1>1. Loose(CancelReturns)
  BY DEF Loose, CancelReturns, Control
<1>2. ASSUME NEW e, NEW l PROVE Loose(CancelRaises(e, l))
  <2>1. Loose([ctl EXCEPT !.pc = "loop", !.fail = IF ctl.fail = "none" THEN e ELSE ctl.fail])
    BY DEF Loose, Control
  <2>2. Loose(Raise(e, l)) /\ Loose(Go("halt"))
    BY CallersLoose, PlacesLoose
  <2> QED
    BY <1>1, <2>1, <2>2 DEF CancelRaises
<1> QED
  BY <1>1, <1>2

LEMMA WritesRoutine ==
    ASSUME NEW l, Kin(l), Writes(l), Loose(ctl') PROVE Routine
BY DEF Writes, Routine

LEMMA KeptRoutine == ASSUME Checkpointed, Loose(ctl') PROVE Routine
BY CallsWrite, LiveKin, WritesRoutine

LEMMA StillRoutine == ASSUME UNCHANGED <<live, disk, ctl>> PROVE Routine
BY LiveKin DEF Routine

-----------------------------------------------------------------------------
(* The cycle, the halts and the operator. *)

LEMMA CycleRoutine ==
    ASSUME GInv, \/ BeginCycle \/ CarryRows \/ Reconcile \/ Bar \/ Event \/ Equity \/ Commit
                 \/ OpenOrders \/ Verify
    PROVE  Routine
<1>1. CASE BeginCycle
  BY <1>1, PlacesLoose, KeptRoutine DEF BeginCycle, ManualHalt
<1>2. CASE CarryRows
  <2>1. Writes(live)
    BY <1>2, CallsWrite DEF CarryRows
  <2> QED
    BY <1>2, <2>1, PlacesLoose, LiveKin, WritesRoutine DEF CarryRows
<1>3. CASE Reconcile
  BY <1>3, PlacesLoose, KeptRoutine DEF Reconcile
<1>4. CASE Bar
  BY <1>4, PlacesLoose, KeptRoutine DEF Bar
<1>5. CASE Event
  BY <1>5, PlacesLoose, KeptRoutine DEF Event
<1>6. CASE Equity
  <2>1. Writes(live)
    BY <1>6, CallsWrite DEF Equity
  <2> QED
    BY <1>6, <2>1, PlacesLoose, LiveKin, WritesRoutine DEF Equity
<1>7. CASE Commit
  <2>1. Writes(live)
    BY <1>7, CallsWrite DEF Commit
  <2>2. Loose(ctl')
    BY <1>7, PlacesLoose DEF Commit
  <2> QED
    BY <2>1, <2>2, LiveKin, WritesRoutine
<1>8. CASE OpenOrders
  BY <1>8, PlacesLoose, CallersLoose, KeptRoutine DEF OpenOrders
<1>9. CASE Verify
  <2>1. Loose(ctl')
    BY <1>9, PlacesLoose DEF Verify
  <2> QED
    BY <1>9, <2>1, KeptRoutine DEF Verify
<1> QED
  BY <1>1, <1>2, <1>3, <1>4, <1>5, <1>6, <1>7, <1>8, <1>9

LEMMA HaltsRoutine ==
    ASSUME GInv, \/ Halt \/ HaltPassEnds \/ RetryHalt \/ RequestedReset \/ Flatten
                 \/ FlattenPassEnds \/ ExitsHalt
    PROVE  Routine
<1>0. Kin(HaltedMemory(live)) /\ Kin(ResetMemory) /\ Kin(live)
  BY Present, FlagsKin, LiveKin DEF GInv
<1>1. CASE Halt
  BY <1>0, <1>1, CallersLoose, CallsWrite, WritesRoutine DEF Halt
<1>2. CASE HaltPassEnds
  BY <1>2, PlacesLoose, CallersLoose, KeptRoutine DEF HaltPassEnds
<1>3. CASE RetryHalt
  <2>1. Loose(RetryReturns) /\ Loose(Pass("retry")) /\ Loose(Raise("err", live))
    BY PlacesLoose, CallersLoose DEF RetryReturns
  <2>2. Writes(live) /\ Loose(ctl')
    BY <1>3, <2>1, CallsWrite DEF RetryHalt
  <2> QED
    BY <1>0, <2>2, WritesRoutine
<1>4. CASE RequestedReset
  <2>1. \/ ctl' = [At("carry", "cycle") EXCEPT !.cycle = ctl.cycle]
        \/ ctl' = [At("halt", "again") EXCEPT !.cycle = ctl.cycle]
        \/ ctl' = Quiet
    BY <1>4 DEF RequestedReset, AfterReset
  <2>3. Loose(ctl')
    BY <2>1 DEF Loose, At, Quiet
  <2>2. Writes(live) \/ Writes(ResetMemory)
    BY <1>4, CallsWrite DEF RequestedReset
  <2> QED
    BY <1>0, <2>2, <2>3, WritesRoutine
<1>5. CASE Flatten
  BY <1>5, PlacesLoose, CallersLoose, KeptRoutine DEF Flatten
<1>6. CASE FlattenPassEnds
  BY <1>6, PlacesLoose, KeptRoutine DEF FlattenPassEnds
<1>7. CASE ExitsHalt
  BY <1>0, <1>7, PlacesLoose, CallsWrite, WritesRoutine DEF ExitsHalt
<1> QED
  BY <1>1, <1>2, <1>3, <1>4, <1>5, <1>6, <1>7

LEMMA OperatorRoutine == ASSUME GInv, OperatorStep PROVE Routine
<1>0. /\ Kin(ResetMemory) /\ Kin(live)
      /\ \A b \in BOOLEAN : Kin([live EXCEPT !.paused = b])
  BY Present, FlagsKin, LiveKin DEF GInv
<1>1. CASE OperatorHalt
  BY <1>1, PlacesLoose, KeptRoutine DEF OperatorHalt, ManualHalt
<1>2. ASSUME ctl.pc = "idle", ctl' = ctl PROVE Loose(ctl')
  BY <1>2 DEF Loose, GInv, Dropping
<1>3. CASE OperatorReset
  BY <1>0, <1>2, <1>3, CallsWrite, WritesRoutine DEF OperatorReset
<1>4. CASE PauseEntries
  BY <1>0, <1>2, <1>4, CallsWrite, WritesRoutine DEF PauseEntries
<1>5. CASE ResumeEntries
  BY <1>0, <1>2, <1>5 DEF ResumeEntries, Saved, Routine
<1>6. CASE Request
  BY <1>6, StillRoutine DEF Request, Checkpointed
<1> QED
  BY <1>1, <1>3, <1>4, <1>5, <1>6 DEF OperatorStep

LEMMA VenueRoutine == ASSUME NEW o \in Order, VenueStep(o) PROVE Routine
<1>1. UNCHANGED <<live, disk, ctl>>
  BY DEF VenueStep, VenueFill, VenueReceives, VenueCancels, VenueEndsCancel, GetsLate,
         EngineUnchanged
<1> QED
  BY <1>1, StillRoutine

-----------------------------------------------------------------------------
(* Order work: reports and what is made of them. *)

LEMMA ReceivedSent ==
    ASSUME OInv, NEW o \in Order, Received(o)
    PROVE  venue[o].sent > 0 /\ live.order[o].attempted
BY DEF OInv, IInv, Surroundings, SoundOrder, Recorded, Received

LEMMA ReportRoutine ==
    ASSUME GInv, OKeeps, NEW o \in live.tracked, live.order[o].attempted, venue'[o].sent > 0,
           NEW r, Answer(r), NEW p, NEW kept, NEW lost,
           Report(p, o, r, kept, lost), Loose(kept), Loose(lost)
    PROVE  Routine
<1>1. Kin(Applied(live, o, r))
  BY AppliedKin DEF GInv
<1>2. Writes(Applied(live, o, r)) /\ Loose(ctl')
  BY CallsWrite DEF Report
<1> QED
  BY <1>1, <1>2, WritesRoutine

\* A read of the venue's record.
LEMMA ReadRoutine ==
    ASSUME GInv, OKeeps, NEW o \in live.tracked, NEW r \in ReadReports(o), NEW kept, NEW lost,
           Report(proc, o, r, kept, lost), Loose(kept), Loose(lost)
    PROVE  Routine
<1>1. o \in Order /\ Received(o) /\ Answer(r)
  BY Present, ReadAnswers DEF GInv, OInv, IInv
<1>2. live.order[o].attempted /\ venue'[o].sent > 0
  BY <1>1, ReceivedSent DEF GInv, OInv, OKeeps, VenueMoves, IInv, Surroundings, SoundOrder, VenueOrder
<1> QED
  BY <1>1, <1>2, ReportRoutine

\* A call that cancels an order the venue received.
LEMMA CancelCallRoutine ==
    ASSUME GInv, OKeeps, NEW o \in live.tracked, Received(o), NEW v \in AfterCancel(venue[o]),
           NEW kept, NEW lost, NEW bad, NEW silent,
           Loose(kept), Loose(lost), Loose(bad), Loose(silent),
           \/ Report(Sent(o), o, ReportOf(v), kept, lost)
           \/ ctl' \in {bad, silent} /\ Checkpointed
    PROVE  Routine
<1>1. o \in Order
  BY Present DEF GInv
<1>2. live.order[o].attempted /\ venue'[o].sent > 0
  BY <1>1, ReceivedSent DEF GInv, OInv, OKeeps, VenueMoves, IInv, Surroundings, SoundOrder, VenueOrder
<1>3. Answer(ReportOf(v))
  BY <1>1, CancelAnswers DEF GInv, OInv, IInv
<1>4. CASE Report(Sent(o), o, ReportOf(v), kept, lost)
  BY <1>2, <1>3, <1>4, ReportRoutine
<1>5. CASE ctl' \in {bad, silent} /\ Checkpointed
  <2>1. Loose(ctl')
    BY <1>5
  <2> QED
    BY <1>5, <2>1, KeptRoutine
<1> QED
  BY <1>4, <1>5

-----------------------------------------------------------------------------
(* Order work: the head of the queue. *)

LEMMA HeadRoutine ==
    ASSUME GInv, \/ AdvanceReturns \/ GroupCancelled
                 \/ \E o \in Order : FinishOwnCancel(o) \/ Judge(o) \/ TimedOut(o) \/ CancelJudged(o)
    PROVE  Routine
<1>0. /\ Loose(Go("halt")) /\ Loose(Go("head")) /\ Loose(Done(live)) /\ Loose(Raise("err", live))
      /\ \A o \in Order : /\ Loose(GoWith("timeout", o))
                          /\ \A fault, last \in BOOLEAN : Loose(LegFails(o, fault, last))
  BY PlacesLoose, CallersLoose
<1>1. CASE AdvanceReturns
  BY <1>1, CallersLoose, KeptRoutine DEF AdvanceReturns
<1>2. CASE GroupCancelled
  <2> DEFINE l == [live EXCEPT !.rebalancing = FALSE]
             next == IF ctl.loop = "group" THEN Go("head") ELSE Done(l)
  <2>1. \/ Checkpointed /\ ctl' = next
        \/ Saved(l) /\ ctl' = next
        \/ NotSaved(l, FALSE) /\ ctl' = Raise("err", l)
    BY <1>2 DEF GroupCancelled
  <2>2. Kin(l)
    BY Present, FlagsKin DEF GInv
  <2>3. Loose(next) /\ Loose(Raise("err", l))
    BY PlacesLoose, CallersLoose
  <2> HIDE DEF l, next
  <2> QED
    BY <2>1, <2>2, <2>3, KeptRoutine, CallsWrite, WritesRoutine
<1>3. ASSUME NEW o \in Order, FinishOwnCancel(o) PROVE Routine
  <2>1. ctl' = [GoWith("cancel", o) EXCEPT !.loop = "head"] /\ Checkpointed
    BY <1>3 DEF FinishOwnCancel
  <2>2. Loose(ctl')
    BY <2>1 DEF Loose, GoWith, Go, At
  <2> QED
    BY <2>1, <2>2, KeptRoutine
<1>4. ASSUME NEW o \in Order, Judge(o) PROVE Routine
  <2>1. Checkpointed
    BY <1>4 DEF Judge, RiskBreached
  <2>2. ctl' \in {Go("halt"), Go("head"), GoWith("timeout", o), Done(live),
                 LegFails(o, FALSE, FALSE), LegFails(o, TRUE, FALSE)}
    BY <1>4 DEF Judge, RiskBreached
  <2>3. Loose(ctl')
    BY <1>0, <2>2
  <2> QED
    BY <2>1, <2>3, KeptRoutine
<1>5. ASSUME NEW o \in Order, TimedOut(o) PROVE Routine
  <2>1. Writes(live)
    BY <1>5, CallsWrite DEF TimedOut, RiskBreached
  <2>2. ctl' \in {Go("halt"), Done(live), LegFails(o, FALSE, TRUE), Raise("err", live)}
    BY <1>5 DEF TimedOut, RiskBreached
  <2>3. Loose(ctl')
    BY <1>0, <2>2
  <2> QED
    BY <2>1, <2>3, LiveKin, WritesRoutine
<1>6. ASSUME NEW o \in Order, CancelJudged(o) PROVE Routine
  <2>1. Checkpointed
    BY <1>6 DEF CancelJudged, RiskBreached
  <2>2. ctl' \in {Go("halt"), Go("head"), Done(live), LegFails(o, FALSE, FALSE)}
    BY <1>6 DEF CancelJudged, RiskBreached
  <2>3. Loose(ctl')
    BY <1>0, <2>2
  <2> QED
    BY <2>1, <2>3, KeptRoutine
<1> QED
  BY <1>1, <1>2, <1>3, <1>4, <1>5, <1>6

-----------------------------------------------------------------------------
(* Order work: calls about the order at hand. *)

LEMMA PlaceRoutine ==
    ASSUME GInv, OKeeps, NEW o \in Order, PlaceAnswered(o) \/ PlaceUnclear(o) PROVE Routine
<1>1. ctl.pc = "place" /\ ctl.cur = o
  BY DEF PlaceAnswered, PlaceUnclear
<1>2. o \in live.tracked /\ live.order[o].attempted
  BY <1>1 DEF GInv, OInv, IInv, Hands, Calls, Placing
<1>3. CASE PlaceAnswered(o)
  <2> PICK v \in Arrivals \cup Refusals :
            /\ Places(o, v)
            /\ Report(proc, o, [ReportOf(v) EXCEPT !.hasId = v.status # "rejected"],
                      GoWith("judge", o), Raise("err", live'))
    BY <1>3 DEF PlaceAnswered
  <2> DEFINE r == [ReportOf(v) EXCEPT !.hasId = v.status # "rejected"]
  <2>1. venue'[o].sent > 0
    <3>1. venue \in [Order -> SoundOrder] /\ venue[o].sent = 0
      BY <1>1 DEF GInv, OInv, IInv, Surroundings, Placing
    <3>2. v.status \in VenueStatus /\ v \in VenueOrder
      BY QtyAssumption DEF Arrivals, Refusals, UnknownOrder, VenueStatus, VenueOrder, Ended
    <3>3. venue' = [venue EXCEPT ![o] = [v EXCEPT !.sent = 1]]
      BY <3>1 DEF Places
    <3> QED
      BY <3>1, <3>2, <3>3 DEF VenueOrder
  <2>2. v.status \in {"working", "filled", "rejected"} /\ v.filled \in 0 .. Qty
    BY QtyAssumption DEF Arrivals, Refusals, UnknownOrder
  <2>3. /\ r.status \in {"submitted", "filled", "rejected"} /\ r.filled = v.filled
        /\ r.hasId \in BOOLEAN
    BY <2>2 DEF ReportOf
  <2>4. Answer(r)
    BY <2>2, <2>3, QtyAssumption DEF Answer, Status, Ended
  <2> HIDE DEF r
  <2>5. Report(proc, o, r, GoWith("judge", o), Raise("err", live'))
    BY DEF r
  <2>6. Loose(GoWith("judge", o)) /\ Loose(Raise("err", live'))
    BY PlacesLoose, CallersLoose
  <2> QED
    BY <1>2, <2>1, <2>4, <2>5, <2>6, ReportRoutine
<1>4. CASE PlaceUnclear(o)
  <2>1. Checkpointed /\ Loose(ctl')
    BY <1>4, PlacesLoose, CallersLoose DEF PlaceUnclear
  <2> QED
    BY <2>1, KeptRoutine
<1> QED
  BY <1>3, <1>4

LEMMA LookupRoutine == ASSUME GInv, OKeeps, NEW o \in Order, Lookup(o) PROVE Routine
<1>1. o \in live.tracked
  BY DEF Lookup, GInv, OInv, Hands, Calls
<1>2. Loose(GoWith("judge", o)) /\ Loose(Raise("err", live')) /\ Loose(Go("halt"))
  BY PlacesLoose, CallersLoose
<1>3. CASE \E r \in ReadReports(o) :
              Report(proc, o, r, GoWith("judge", o), Raise("err", live'))
  BY <1>1, <1>2, <1>3, ReadRoutine
<1>4. CASE Checkpointed /\ (ctl' = Go("halt") \/ ctl' = Raise("err", live))
  BY <1>2, <1>4, CallersLoose, KeptRoutine
<1> QED
  BY <1>3, <1>4 DEF Lookup

LEMMA PollRoutine == ASSUME GInv, OKeeps, NEW o \in Order, Poll(o) PROVE Routine
<1>1. o \in live.tracked
  BY DEF Poll, Polls, Advances, IsHead, IsFirst
<1>2. /\ Loose(GoWith("judge", o)) /\ Loose(Raise("err", live')) /\ Loose(Go("halt"))
      /\ Loose(GoWith("timeout", o)) /\ Loose(Raise("err", live)) /\ Loose(Done(live))
  BY PlacesLoose, CallersLoose
<1>3. CASE \E r \in ReadReports(o) :
              Report(proc, o, r, GoWith("judge", o), Raise("err", live'))
  BY <1>1, <1>2, <1>3, ReadRoutine
<1>4. CASE Checkpointed /\ ctl' \in {Go("halt"), GoWith("timeout", o), Raise("err", live),
                                     Done(live)}
  BY <1>2, <1>4, KeptRoutine
<1> QED
  BY <1>3, <1>4 DEF Poll

LEMMA TimeoutRoutine == ASSUME GInv, NEW o \in Order, Timeout(o) PROVE Routine
<1> DEFINE l == [live EXCEPT !.order[o].cancelRequested = TRUE]
<1>1. Kin(l)
  BY Present, FlagsKin DEF GInv
<1>2. \/ Checkpointed /\ ctl' = Go("halt")
      \/ Saved(l) /\ ctl' = GoWith("timeoutCancel", o)
      \/ NotSaved(l, TRUE) /\ ctl' = Raise("err", l)
  BY DEF Timeout
<1> HIDE DEF l
<1>3. Loose(Go("halt")) /\ Loose(GoWith("timeoutCancel", o)) /\ Loose(Raise("err", l))
  BY PlacesLoose, CallersLoose
<1> QED
  BY <1>1, <1>2, <1>3, KeptRoutine, CallsWrite, WritesRoutine

LEMMA TimeoutCancelRoutine ==
    ASSUME GInv, OKeeps, NEW o \in Order, TimeoutCancel(o) PROVE Routine
<1>1. o \in live.tracked /\ Received(o)
  BY DEF TimeoutCancel, GInv, OInv, IInv, Hands, Calls, Cancelled, Cancels
<1>2. Loose(GoWith("timedOut", o)) /\ Loose(Go("halt"))
  BY PlacesLoose
<1>3. PICK v \in AfterCancel(venue[o]) :
         \/ Report(Sent(o), o, ReportOf(v), GoWith("timedOut", o), Go("halt"))
         \/ ctl' = Go("halt") /\ Checkpointed
  BY DEF TimeoutCancel
<1> QED
  BY <1>1, <1>2, <1>3, CancelCallRoutine

-----------------------------------------------------------------------------
(* Order work: cancelling an order of no dropped group. *)

LEMMA CancelsLoose ==
    ASSUME GInv, ctl.loop # "drop"
    PROVE  Loose(CancelReturns) /\ \A e, l : Loose(CancelRaises(e, l))
BY Present, CancelLoose DEF GInv

LEMMA RequestCancelRoutine == ASSUME GInv, NEW o \in Order, RequestCancel(o) PROVE Routine
<1> DEFINE l == [live EXCEPT !.order[o].cancelRequested = TRUE]
<1>1. Kin(l)
  BY Present, FlagsKin DEF GInv
<1>2. ctl.loop # "drop" /\ ctl.pc = "cancel"
  BY DEF RequestCancel, Cancelling, GInv, Dropping, Left
<1>3. \/ Saved(l) /\ UNCHANGED ctl
      \/ NotSaved(l, TRUE) /\ ctl' = CancelRaises("err", l)
  BY DEF RequestCancel
<1> HIDE DEF l
<1>4. Loose(ctl')
  BY <1>2, <1>3, CancelsLoose DEF Loose
<1> QED
  BY <1>1, <1>3, <1>4, CallsWrite, WritesRoutine

LEMMA CancelReadsRoutine ==
    ASSUME GInv, OKeeps, NEW o \in Order, CancelReads(o) PROVE Routine
<1> DEFINE send == [ctl EXCEPT !.pc = "send"]
           force == [ctl EXCEPT !.pc = "force"]
<1>1. /\ ctl.loop # "drop" /\ ctl.pc = "cancel" /\ o \in live.tracked
  BY DEF CancelReads, Cancelling, GInv, Dropping, Left, OInv, Hands, Calls
<1>2. Loose(send) /\ Loose(force)
  BY <1>1, Present DEF GInv, Loose, Control
<1>3. Loose(CancelReturns) /\ Loose(CancelRaises("bad", live)) /\ Loose(CancelRaises("err", live'))
  BY <1>1, CancelsLoose
<1>4. \/ \E r \in ReadReports(o) :
            \/ Report(proc, o, r, CancelReturns, CancelRaises("err", live'))
            \/ Report(proc, o, r, send, CancelRaises("err", live'))
      \/ Checkpointed /\ \/ ctl' \in {send, force, CancelReturns}
                         \/ ctl' = CancelRaises("bad", live)
  BY DEF CancelReads
<1> HIDE DEF send, force
<1> QED
  BY <1>1, <1>2, <1>3, <1>4, ReadRoutine, KeptRoutine

LEMMA CancelSendsRoutine ==
    ASSUME GInv, OKeeps, NEW o \in Order, CancelSends(o) PROVE Routine
<1>1. ctl.pc = "send" /\ ctl.cur = o
  BY DEF CancelSends
<1>2. o \in live.tracked /\ Received(o) /\ ctl.loop # "drop"
  BY <1>1 DEF GInv, OInv, IInv, Hands, Calls, Cancelled, Cancels, Dropping
<1>3. Loose(CancelReturns) /\ Loose(CancelRaises("bad", live)) /\ Loose(CancelRaises("err", live'))
  BY <1>2, CancelsLoose
<1>4. PICK v \in AfterCancel(venue[o]) :
         \/ Report(Sent(o), o, ReportOf(v), CancelReturns, CancelRaises("err", live'))
         \/ ctl' = CancelRaises("bad", live) /\ Checkpointed
         \/ ctl' = CancelReturns /\ Checkpointed
  BY DEF CancelSends
<1> QED
  BY <1>2, <1>3, <1>4, CancelCallRoutine

LEMMA CancelForcedRoutine ==
    ASSUME GInv, OKeeps, NEW o \in Order, CancelForced(o) PROVE Routine
<1>1. ctl.pc = "force" /\ ctl.cur = o
  BY DEF CancelForced
<1>2. o \in live.tracked /\ Received(o) /\ ctl.loop # "drop"
  BY <1>1 DEF GInv, OInv, IInv, Hands, Calls, Cancelled, Cancels, Dropping
<1>3. Loose(CancelRaises("bad", live)) /\ Loose(CancelRaises("bad", live'))
  BY <1>2, CancelsLoose
<1>4. PICK v \in AfterCancel(venue[o]) :
         \/ Report(Sent(o), o, ReportOf(v), CancelRaises("bad", live'),
                   CancelRaises("bad", live'))
         \/ ctl' = CancelRaises("bad", live) /\ Checkpointed
  BY DEF CancelForced
<1> QED
  BY <1>2, <1>3, <1>4, CancelCallRoutine

\* A loop that drops no group takes up its next order.
LEMMA NextCancelRoutine ==
    ASSUME GInv, NEW o \in Order, NextInLoop(o), ctl.loop # "drop" PROVE Routine
<1>1. Loose(ctl') /\ Checkpointed
  BY Present DEF GInv, NextInLoop, Loose, Control
<1> QED
  BY <1>1, KeptRoutine

-----------------------------------------------------------------------------
(* The steps that plan, start and drop groups. *)

\* A step that leaves the venue alone and memory l, with control at a place
\* that counts on no group.
LEMMA SettledStep ==
    ASSUME GInv, OKeeps, NEW l, Writes(l), Whole(l, venue'), Loose(ctl'), Releases
    PROVE  GKeeps
<1>1. live' = l /\ disk' \in {disk, live'}
  BY DEF Writes
<1>2. Dropping' /\ Starting'
  BY LooseSettled
<1> QED
  BY <1>1, <1>2, StepKeepsGroups DEF GKeeps

LEMMA PresentGroups ==
    ASSUME GInv
    PROVE  /\ OInv /\ Tied(live, venue) /\ Unbegun(live, venue)
           /\ live \in Snapshot /\ live.tracked \subseteq Order /\ live.unstarted \subseteq Group
BY Present DEF GInv, Whole, Snapshot

\* What is left of memory when the legs of S leave the queue unsent.
LEMMA CutWhole ==
    ASSUME GInv, UNCHANGED venue, NEW l, NEW S, NEW G,
           \A o \in S : ~live.order[o].attempted,
           l.tracked = live.tracked \ S, l.unstarted = live.unstarted \ {G},
           \A o \in Order : l.order[o].attempted = live.order[o].attempted,
           \A o \in live.tracked \ S : Grouped(o) => GroupOf[o] # G
    PROVE  Whole(l, venue')
<1>0. Tied(live, venue) /\ Unbegun(live, venue) /\ live.tracked \subseteq Order
  BY PresentGroups
<1>1. Tied(l, venue')
  <2> SUFFICES ASSUME NEW o \in Order
               PROVE  /\ l.order[o].attempted /\ o \notin l.tracked => venue[o].sent > 0
                      /\ o \in l.tracked \cap Entry /\ Grouped(o) /\ ~l.order[o].attempted =>
                            \/ GroupOf[o] \in l.unstarted
                            \/ \E p \in Order \ {o} : GroupOf[p] = GroupOf[o] /\ l.order[p].attempted
    BY DEF Tied
  <2>1. l.order[o].attempted /\ o \notin l.tracked => venue[o].sent > 0
    BY <1>0 DEF Tied
  <2>2. ASSUME o \in l.tracked \cap Entry, Grouped(o), ~l.order[o].attempted
        PROVE  \/ GroupOf[o] \in l.unstarted
               \/ \E p \in Order \ {o} : GroupOf[p] = GroupOf[o] /\ l.order[p].attempted
    BY <1>0, <2>2 DEF Tied
  <2> QED
    BY <2>1, <2>2
<1>2. Unbegun(l, venue')
  BY <1>0 DEF Unbegun
<1> QED
  BY <1>1, <1>2 DEF Whole

LEMMA UnsentLegs ==
    ASSUME GInv, NEW o \in Order, Submits(o)
    PROVE  /\ o \in Legs(o) /\ Legs(o) \subseteq live.tracked
           /\ ~live.order[o].attempted /\ o \in live.tracked
           /\ \A p \in live.tracked : ~live.order[p].attempted
           /\ \A p \in Legs(o) : GroupOf[p] = GroupOf[o]
           /\ \A p \in live.tracked \ Legs(o) : Grouped(p) => GroupOf[p] # GroupOf[o]
<1>1. IsHead(o) /\ ~live.order[o].attempted /\ o \in live.tracked
  BY DEF Submits, Advances, IsHead, IsFirst
<1>2. \A p \in live.tracked : ~live.order[p].attempted
  BY <1>1, HeadUnsent DEF GInv
<1> QED
  BY <1>1, <1>2 DEF Legs, Siblings, Grouped

LEMMA AttemptKeepsGroups ==
    ASSUME GInv, OKeeps, NEW o \in Order, Attempt(o) PROVE GKeeps
<1> DEFINE l == [Started(live, o) EXCEPT !.order[o].attempted = TRUE]
<1>1. Submits(o) /\ PassesPause(o) /\ UNCHANGED venue
  BY DEF Attempt
<1>2. /\ o \in Legs(o) /\ o \in live.tracked
      /\ \A p \in live.tracked : ~live.order[p].attempted
  BY <1>1, UnsentLegs
<1>3. /\ Tied(live, venue) /\ Unbegun(live, venue)
      /\ live \in Snapshot
  BY PresentGroups
<1>4. /\ l.tracked = live.tracked /\ l.unstarted = live.unstarted \ {GroupOf[o]}
      /\ l.order[o].attempted /\ l.paused = live.paused
      /\ \A p \in Order \ {o} : l.order[p].attempted = live.order[p].attempted
  BY <1>3 DEF Started, Snapshot, TrackedOrder
<1>5. \/ Saved(l) /\ ctl' = GoWith("place", o)
      \/ NotSaved(l, TRUE) /\ ctl' = Raise("err", l)
  BY DEF Attempt
<1> HIDE DEF l
<1>6. Tied(l, venue')
  <2> SUFFICES ASSUME NEW p \in Order
               PROVE  /\ l.order[p].attempted /\ p \notin l.tracked => venue[p].sent > 0
                      /\ p \in l.tracked \cap Entry /\ Grouped(p) /\ ~l.order[p].attempted =>
                            \/ GroupOf[p] \in l.unstarted
                            \/ \E q \in Order \ {p} : GroupOf[q] = GroupOf[p] /\ l.order[q].attempted
    BY <1>1 DEF Tied
  <2>1. l.order[p].attempted /\ p \notin l.tracked => venue[p].sent > 0
    BY <1>2, <1>3, <1>4 DEF Tied
  <2>2. ASSUME p \in l.tracked \cap Entry, Grouped(p), ~l.order[p].attempted,
               GroupOf[p] \notin l.unstarted
        PROVE  \E q \in Order \ {p} : GroupOf[q] = GroupOf[p] /\ l.order[q].attempted
    <3>1. p # o /\ ~live.order[p].attempted /\ p \in live.tracked
      BY <1>4, <2>2
    <3>2. CASE GroupOf[p] = GroupOf[o]
      BY <1>4, <3>1, <3>2
    <3>3. CASE GroupOf[p] # GroupOf[o]
      <4>1. PICK q \in Order \ {p} : GroupOf[q] = GroupOf[p] /\ live.order[q].attempted
        BY <1>3, <1>4, <2>2, <3>1, <3>3 DEF Tied
      <4>2. q # o
        BY <3>3, <4>1
      <4> QED
        BY <1>4, <4>1, <4>2
    <3> QED
      BY <3>2, <3>3
  <2> QED
    BY <2>1, <2>2
<1>7. Unbegun(l, venue')
  BY <1>1, <1>3, <1>4 DEF Unbegun
<1>8. Writes(l) /\ live'.tracked = live.tracked
  BY <1>4, <1>5, CallsWrite DEF Writes
<1>9. Dropping' /\ Starting'
  <2>1. CASE ctl' = Raise("err", l)
    BY <2>1, CallersLoose, LooseSettled
  <2>2. CASE ctl' = GoWith("place", o)
    <3>1. ctl'.pc = "place" /\ ctl'.cur = o /\ ctl'.loop # "drop"
      BY <2>2 DEF GoWith, Go, At
    <3>2. ASSUME o \in Entry, live.paused
          PROVE  /\ Grouped(o)
                 /\ \E p \in Order \ {o} : GroupOf[p] = GroupOf[o] /\ venue[p].sent > 0
      <4>1. ~Judged(o)
        BY <1>1, <1>2, <3>2 DEF PassesPause, MayAllReduce
      <4>2. Grouped(o) /\ GroupOf[o] \notin live.unstarted
        BY <4>1 DEF Judged, Grouped
      <4>3. PICK p \in Order \ {o} : GroupOf[p] = GroupOf[o] /\ live.order[p].attempted
        BY <1>2, <1>3, <3>2, <4>2 DEF Tied
      <4>4. venue[p].sent > 0
        BY <1>2, <1>3, <4>3 DEF Tied
      <4> QED
        BY <4>2, <4>3, <4>4
    <3>3. Starting'
      BY <1>1, <1>4, <1>8, <3>1, <3>2 DEF Starting, Writes
    <3> QED
      BY <3>1, <3>3 DEF Dropping
  <2> QED
    BY <1>5, <2>1, <2>2
<1>10. Releases
  BY <1>8 DEF Releases, Withholds
<1>11. Whole(live', venue') /\ disk' \in {disk, live'}
  BY <1>6, <1>7, <1>8 DEF Whole, Writes
<1> QED
  BY <1>9, <1>10, <1>11, StepKeepsGroups DEF GKeeps

LEMMA DropPausedKeepsGroups ==
    ASSUME GInv, OKeeps, NEW o \in Order, DropPaused(o) PROVE GKeeps
<1> DEFINE d == Dropped(Started(live, o), Legs(o))
           l == [d EXCEPT !.rebalancing = @ /\ Legs(o) \subseteq Entry]
<1>1. Submits(o) /\ Judged(o) /\ UNCHANGED venue
  BY DEF DropPaused, Outside
<1>2. /\ Legs(o) \subseteq live.tracked
      /\ \A p \in Legs(o) : ~live.order[p].attempted /\ GroupOf[p] = GroupOf[o]
      /\ \A p \in live.tracked \ Legs(o) : Grouped(p) => GroupOf[p] # GroupOf[o]
  BY <1>1, UnsentLegs
<1>3. live \in Snapshot
  BY PresentGroups
<1>4. /\ l.tracked = live.tracked \ Legs(o) /\ l.unstarted = live.unstarted \ {GroupOf[o]}
      /\ \A p \in Order : l.order[p].attempted = live.order[p].attempted
  BY <1>3 DEF Dropped, Started, Snapshot, TrackedOrder
<1>5. \/ Saved(l) /\ ctl' = Go("head")
      \/ NotSaved(l, TRUE) /\ ctl' = Raise("err", l)
  BY DEF DropPaused
<1> HIDE DEF l
<1>6. Whole(l, venue')
  BY <1>1, <1>2, <1>4, CutWhole
<1>7. Writes(l) /\ Loose(ctl')
  BY <1>5, CallsWrite, PlacesLoose, CallersLoose
<1>8. Releases
  BY <1>1, <1>2, <1>4, <1>7 DEF Releases, Withholds, Judged, Grouped, Writes
<1> QED
  BY <1>6, <1>7, <1>8, SettledStep

LEMMA DropUnfundedKeepsGroups ==
    ASSUME GInv, OKeeps, NEW o \in Order, DropUnfunded(o) PROVE GKeeps
<1>1. /\ Submits(o) /\ Judged(o) /\ UNCHANGED <<venue, disk>>
      /\ live' = [live EXCEPT !.rebalancing = FALSE]
      /\ ctl' = [GoWith("loop", o) EXCEPT !.loop = "drop", !.todo = Legs(o)]
  BY DEF DropUnfunded, Outside
<1>2. /\ \A p \in Legs(o) : ~live.order[p].attempted /\ GroupOf[p] = GroupOf[o]
      /\ \A p \in live.tracked \ Legs(o) : Grouped(p) => GroupOf[p] # GroupOf[o]
  BY <1>1, UnsentLegs
<1>3. /\ live'.tracked = live.tracked /\ live'.unstarted = live.unstarted
      /\ live'.order = live.order /\ Kin(live')
  BY <1>1, PresentGroups, FlagsKin DEF Snapshot
<1>4. Whole(live', venue')
  <2>1. Whole(live, venue') /\ live.tracked \subseteq Order
    BY <1>1, PresentGroups DEF GInv
  <2> QED
    BY <1>3, <2>1, KinWhole
<1>5. ctl'.pc = "loop" /\ ctl'.cur = o /\ ctl'.loop = "drop" /\ ctl'.todo = Legs(o)
  BY <1>1 DEF GoWith, Go, At
<1>6. Dropping'
  <2>1. Left(ctl') = Legs(o)
    BY <1>5 DEF Left
  <2>2. Siblings(o)' = Siblings(o)
    BY <1>3 DEF Siblings
  <2>3. Grouped(o) => GroupOf[o] \in live.unstarted /\ Siblings(o) \subseteq Legs(o)
    BY <1>1 DEF Judged, Grouped, Legs
  <2>4. /\ ctl'.pc \in {"loop", "cancel"} /\ ctl'.cur \in Order
        /\ \A p \in Left(ctl') : GroupOf[p] = GroupOf[ctl'.cur] /\ ~live'.order[p].attempted
    BY <1>2, <1>3, <1>5, <2>1
  <2>5. Grouped(ctl'.cur) => /\ GroupOf[ctl'.cur] \in live'.unstarted
                             /\ {p \in live'.tracked : GroupOf[p] = GroupOf[ctl'.cur]} \subseteq Left(ctl')
    BY <1>3, <1>5, <2>1, <2>3 DEF Siblings
  <2> QED
    BY <2>4, <2>5 DEF Dropping, Left, Siblings, Grouped
<1>7. Starting' /\ Releases
  BY <1>3, <1>5 DEF Starting, Releases, Withholds
<1> QED
  BY <1>1, <1>4, <1>6, <1>7, StepKeepsGroups DEF GKeeps

\* The loop of _drop_unfunded_entry goes on, or the last of its cancels raises.
LEMMA NextDropKeepsGroups ==
    ASSUME GInv, OKeeps, NEW o \in Order, NextInLoop(o), ctl.loop = "drop" PROVE GKeeps
<1>1. /\ ctl.pc = "loop" /\ o \in ctl.todo /\ Checkpointed /\ UNCHANGED venue
      /\ ctl' = [ctl EXCEPT !.pc = "cancel", !.cur = o, !.todo = @ \ {o}]
  BY DEF NextInLoop, IsFirst, Outside
<1>2. /\ ctl'.pc = "cancel" /\ ctl'.cur = o /\ ctl'.loop = "drop" /\ ctl'.todo = ctl.todo \ {o}
  BY <1>1, Present DEF GInv, Control
<1>3. Left(ctl) = ctl.todo /\ Left(ctl') = ctl.todo
  BY <1>1, <1>2 DEF Left
<1>4. /\ \A p \in ctl.todo : GroupOf[p] = GroupOf[ctl.cur] /\ ~live.order[p].attempted
      /\ Grouped(ctl.cur) => /\ GroupOf[ctl.cur] \in live.unstarted
                             /\ Siblings(ctl.cur) \subseteq ctl.todo
  BY <1>3 DEF GInv, Dropping
<1>5. GroupOf[o] = GroupOf[ctl.cur] /\ Siblings(o) = Siblings(ctl.cur)
  BY <1>1, <1>4 DEF Siblings
<1>6. live' = live
  BY <1>1 DEF Checkpointed
<1>7. Dropping'
  <2>1. Siblings(o)' = Siblings(o)
    BY <1>6 DEF Siblings
  <2>2. /\ ctl'.pc \in {"loop", "cancel"} /\ ctl'.cur \in Order
        /\ \A p \in Left(ctl') : GroupOf[p] = GroupOf[ctl'.cur] /\ ~live'.order[p].attempted
    BY <1>2, <1>3, <1>4, <1>5, <1>6
  <2>3. Grouped(ctl'.cur) => /\ GroupOf[ctl'.cur] \in live'.unstarted
                             /\ {p \in live'.tracked : GroupOf[p] = GroupOf[ctl'.cur]} \subseteq Left(ctl')
    BY <1>2, <1>3, <1>4, <1>5, <1>6 DEF Siblings, Grouped
  <2> QED
    BY <2>2, <2>3 DEF Dropping, Left, Siblings, Grouped
<1>8. Starting' /\ Releases
  BY <1>2, <1>6 DEF Starting, Releases, Withholds
<1>9. Whole(live', venue')
  BY <1>1, <1>6 DEF GInv
<1>10. disk' \in {disk, live'}
  BY <1>1 DEF Checkpointed
<1> QED
  BY <1>7, <1>8, <1>9, <1>10, StepKeepsGroups DEF GKeeps

LEMMA CancelUnsentKeepsGroups ==
    ASSUME GInv, OKeeps, NEW o \in Order, CancelUnsent(o) PROVE GKeeps
<1> DEFINE l == Dropped(live, {o})
<1>1. ctl.pc = "cancel" /\ ctl.cur = o /\ ~live.order[o].attempted /\ UNCHANGED venue
  BY DEF CancelUnsent, Cancelling, Outside
<1>2. live \in Snapshot /\ live.unstarted \subseteq Group
  BY PresentGroups
<1>3. /\ l.tracked = live.tracked \ {o} /\ l.unstarted = live.unstarted
      /\ \A p \in Order : l.order[p].attempted = live.order[p].attempted
  BY <1>2 DEF Dropped, Snapshot, TrackedOrder
<1>4. \/ Saved(l) /\ ctl' = CancelReturns
      \/ NotSaved(l, TRUE) /\ ctl' = CancelRaises("err", l)
  BY DEF CancelUnsent
<1> HIDE DEF l
<1>5. Whole(l, venue')
  <2>1. l.unstarted = live.unstarted \ {NoGroup}
    BY <1>2, <1>3, RequestAssumption
  <2> QED
    BY <1>1, <1>3, <2>1, CutWhole DEF Grouped
<1>6. Writes(l) /\ live' = l /\ disk' \in {disk, live'}
  BY <1>4, CallsWrite DEF Writes
<1>7. CASE ctl.loop # "drop"
  <2>1. Loose(ctl')
    BY <1>4, <1>7, CancelsLoose
  <2>2. Releases
    BY <1>1, <1>7 DEF Releases, Withholds
  <2> QED
    BY <1>5, <1>6, <2>1, <2>2, SettledStep
<1>8. CASE ctl.loop = "drop"
  <2>1. Left(ctl) = ctl.todo \cup {o}
    BY <1>1 DEF Left
  <2>2. /\ \A p \in ctl.todo : GroupOf[p] = GroupOf[o] /\ ~live.order[p].attempted
        /\ Grouped(o) => GroupOf[o] \in live.unstarted /\ Siblings(o) \subseteq ctl.todo \cup {o}
    BY <1>1, <1>8, <2>1 DEF GInv, Dropping
  <2>3. Releases
    BY <1>3, <1>6, <2>2 DEF Releases, Withholds
  <2>4. CASE ctl' = CancelRaises("err", l)
    <3>1. Loose(ctl')
      BY <1>8, <2>4, CallersLoose DEF CancelRaises, Passes
    <3> QED
      BY <1>5, <1>6, <2>3, <3>1, SettledStep
  <2>5. CASE ctl' = CancelReturns
    <3>1. ctl'.pc = "loop" /\ ctl'.cur = o /\ ctl'.todo = ctl.todo
      BY <1>1, <1>8, <2>5, Present DEF GInv, CancelReturns, Control
    <3>2. Left(ctl') = ctl.todo
      BY <3>1 DEF Left
    <3>3. /\ ctl'.pc \in {"loop", "cancel"} /\ ctl'.cur \in Order
          /\ \A p \in Left(ctl') : GroupOf[p] = GroupOf[ctl'.cur] /\ ~live'.order[p].attempted
      <4>1. ctl.todo \subseteq Order
        BY Present DEF GInv, Control
      <4> QED
        BY <1>3, <1>6, <2>2, <3>1, <3>2, <4>1
    <3>4. Grouped(ctl'.cur) =>
             /\ GroupOf[ctl'.cur] \in live'.unstarted
             /\ {p \in live'.tracked : GroupOf[p] = GroupOf[ctl'.cur]} \subseteq Left(ctl')
      BY <1>3, <1>6, <2>2, <3>1, <3>2 DEF Siblings
    <3>5. Dropping'
      BY <3>3, <3>4 DEF Dropping, Left, Siblings, Grouped
    <3>6. Starting'
      BY <3>1 DEF Starting
    <3> QED
      BY <1>5, <1>6, <2>3, <3>5, <3>6, StepKeepsGroups DEF GKeeps
  <2> QED
    BY <1>4, <2>4, <2>5
<1> QED
  BY <1>7, <1>8

LEMMA LegsDroppedKeepsGroups == ASSUME GInv, OKeeps, LegsDropped PROVE GKeeps
<1> DEFINE l == Started(live, ctl.cur)
<1>1. /\ ctl.pc = "loop" /\ ctl.todo = {} /\ ctl.loop = "drop" /\ UNCHANGED venue
      /\ Writes(l) /\ Loose(ctl')
  BY PlacesLoose DEF LegsDropped, LoopDone, Outside, Writes
<1>2. live \in Snapshot
  BY PresentGroups
<1>3. /\ l.tracked = live.tracked \ {} /\ l.unstarted = live.unstarted \ {GroupOf[ctl.cur]}
      /\ l.order = live.order
  BY <1>2 DEF Started, Snapshot
<1> HIDE DEF l
<1>4. Left(ctl) = {}
  BY <1>1 DEF Left
<1>5. Grouped(ctl.cur) => Siblings(ctl.cur) = {}
  BY <1>1, <1>4 DEF GInv, Dropping
<1>6. \A p \in live.tracked : Grouped(p) => GroupOf[p] # GroupOf[ctl.cur]
  BY <1>5 DEF Siblings, Grouped
<1>7. Whole(l, venue')
  <2> DEFINE none == {}
  <2>1. /\ \A p \in none : ~live.order[p].attempted
        /\ \A p \in live.tracked \ none : Grouped(p) => GroupOf[p] # GroupOf[ctl.cur]
        /\ \A p \in Order : l.order[p].attempted = live.order[p].attempted
        /\ l.tracked = live.tracked \ none
    BY <1>3, <1>6
  <2>2. UNCHANGED venue
    BY <1>1
  <2> HIDE DEF none
  <2> QED
    BY <1>3, <2>1, <2>2, CutWhole
<1>8. Releases
  BY <1>1, <1>3 DEF Releases, Withholds, Writes
<1> QED
  BY <1>1, <1>7, <1>8, SettledStep

LEMMA DecideKeepsGroups == ASSUME GInv, OKeeps, Decide PROVE GKeeps
<1> DEFINE L == [live EXCEPT !.rebalancing = TRUE]
<1>0. /\ live.tracked = {} /\ UNCHANGED venue /\ live \in Snapshot
      /\ Tied(live, venue) /\ Unbegun(live, venue)
  BY PresentGroups DEF GInv, OInv, Hands, Decide, Engine, Outside
<1>1. Releases
  BY <1>0 DEF Releases, Withholds
<1>2. ASSUME NEW S \in Plans, S = Fresh(S) PROVE Whole(Planned(S), venue')
  <2>0. S \subseteq Order
    BY QueueAssumption
  <2>1. /\ Planned(S).tracked = S /\ Planned(S).unstarted = {GroupOf[o] : o \in S} \ {NoGroup}
        /\ \A o \in Order : Planned(S).order[o].attempted = live.order[o].attempted
    BY <1>0, <2>0 DEF Planned, Queued, Snapshot, TrackedOrder
  <2>2. Tied(Planned(S), venue')
    BY <1>0, <2>1 DEF Tied, Grouped
  <2>3. ASSUME NEW T \in Plans, NEW o \in T, NEW p \in T, o \in Planned(S).tracked
        PROVE  venue'[p].sent = 0
    <3>1. p \in S
      BY <2>1, <2>3, QueueAssumption
    <3>2. ~live.order[p].attempted /\ p \in Order
      BY <1>2, <2>0, <3>1 DEF Fresh, GInv, OInv, Sound, Knows
    <3> QED
      BY <1>0, <3>2, UnsentUnknown DEF GInv
  <2> QED
    BY <2>2, <2>3 DEF Whole, Unbegun
<1>3. CASE Checkpointed /\ (ctl' = Done(live) \/ ctl' = Go("halt"))
  BY <1>3, PlacesLoose, CallersLoose, KeptRoutine, RoutineKeepsGroups
<1>4. CASE \E S \in Plans \ {{}} :
              /\ S = Fresh(S)
              /\ \/ Saved(Planned(S)) /\ ctl' = Go("head")
                 \/ NotSaved(Planned(S), TRUE) /\ ctl' = Raise("err", Planned(S))
  <2>1. PICK S \in Plans :
           /\ S = Fresh(S) /\ Writes(Planned(S))
           /\ ctl' = Go("head") \/ ctl' = Raise("err", Planned(S))
    BY <1>4, CallsWrite
  <2>2. Loose(ctl')
    BY <2>1, PlacesLoose, CallersLoose
  <2> QED
    BY <1>1, <1>2, <2>1, <2>2, SettledStep
<1>5. CASE \/ Saved(L) /\ ctl' = At("leg", "newLeg")
           \/ NotSaved(L, FALSE) /\ ctl' = Raise("err", L)
  <2>1. Kin(L)
    BY <1>0, FlagsKin
  <2> HIDE DEF L
  <2>2. Writes(L) /\ Loose(ctl')
    BY <1>5, CallsWrite, PlacesLoose, CallersLoose
  <2> QED
    BY <2>1, <2>2, WritesRoutine, RoutineKeepsGroups
<1> QED
  BY <1>3, <1>4, <1>5 DEF Decide

\* What queuing the fresh requests of S, none of which is a grouped entry,
\* makes of memory.
LEMMA QueuedWhole ==
    ASSUME GInv, UNCHANGED venue, live.tracked = {}, NEW S \in SUBSET Order,
           \A o \in S \cap Entry : ~Grouped(o), \A T \in Plans : S \cap T = {},
           NEW l, l.tracked = S,
           \A o \in Order : l.order[o].attempted = live.order[o].attempted
    PROVE  Whole(l, venue')
BY PresentGroups DEF Whole, Tied, Unbegun

LEMMA RebalanceLegKeepsGroups == ASSUME GInv, OKeeps, RebalanceLeg PROVE GKeeps
<1> DEFINE L == [live EXCEPT !.rebalancing = FALSE]
           Q(o) == Queued(live, {o})
<1>0. live.tracked = {} /\ UNCHANGED venue /\ live \in Snapshot
  BY PresentGroups DEF GInv, OInv, Hands, RebalanceLeg, Engine, Outside
<1>1. Releases
  BY <1>0 DEF Releases, Withholds
<1>2. ASSUME NEW o \in Fresh(Leg) PROVE Whole(Q(o), venue')
  <2>1. /\ {o} \in SUBSET Order /\ \A p \in {o} \cap Entry : ~Grouped(p)
        /\ \A T \in Plans : {o} \cap T = {}
    BY RequestAssumption, QueueAssumption DEF Fresh, Grouped
  <2>2. /\ Q(o).tracked = {o}
        /\ \A p \in Order : Q(o).order[p].attempted = live.order[p].attempted
    BY <1>0 DEF Queued, Snapshot, TrackedOrder
  <2> HIDE DEF Q
  <2> QED
    BY <1>0, <2>1, <2>2, QueuedWhole
<1>3. CASE \E o \in Fresh(Leg) :
              \/ Saved(Q(o)) /\ ctl' = Go("head")
              \/ NotSaved(Q(o), TRUE) /\ ctl' = Raise("err", Q(o))
  <2> HIDE DEF Q
  <2>1. PICK o \in Fresh(Leg) : Writes(Q(o)) /\ (ctl' = Go("head") \/ ctl' = Raise("err", Q(o)))
    BY <1>3, CallsWrite
  <2>2. Loose(ctl')
    BY <2>1, PlacesLoose, CallersLoose
  <2> QED
    BY <1>1, <1>2, <2>1, <2>2, SettledStep
<1>4. CASE /\ Saved(live) \/ NotSaved(live, FALSE) \/ Checkpointed
           /\ ctl' \in {At("equity", "blocked"), At("commit", "cycle"),
                        Raise("err", live), Go("halt")}
  <2>1. Writes(live) /\ Loose(ctl')
    BY <1>4, CallsWrite, PlacesLoose, CallersLoose
  <2> QED
    BY <2>1, LiveKin, WritesRoutine, RoutineKeepsGroups
<1>5. CASE \/ Saved(L) /\ ctl' \in {At("equity", "free"), At("commit", "cycle")}
           \/ NotSaved(L, FALSE) /\ ctl' = Raise("err", L)
  <2>1. Kin(L)
    BY <1>0, FlagsKin
  <2> HIDE DEF L
  <2>2. Writes(L) /\ Loose(ctl')
    BY <1>5, CallsWrite, PlacesLoose, CallersLoose
  <2> QED
    BY <2>1, <2>2, WritesRoutine, RoutineKeepsGroups
<1> QED
  BY <1>3, <1>4, <1>5 DEF RebalanceLeg

LEMMA FlattenAccountKeepsGroups == ASSUME GInv, OKeeps, FlattenAccount PROVE GKeeps
<1>0. UNCHANGED venue /\ live \in Snapshot
  BY PresentGroups DEF FlattenAccount, Outside
<1>1. ASSUME NEW X \in SUBSET Fresh(RecoveryExit), live.tracked = {}
      PROVE  Whole(Planned(X), venue')
  <2>1. /\ X \in SUBSET Order /\ \A p \in X \cap Entry : ~Grouped(p)
        /\ \A T \in Plans : X \cap T = {}
    BY RequestAssumption, QueueAssumption DEF Fresh
  <2>2. /\ Planned(X).tracked = X
        /\ \A p \in Order : Planned(X).order[p].attempted = live.order[p].attempted
    BY <1>0, <1>1, <2>1 DEF Planned, Queued, Snapshot, TrackedOrder
  <2> QED
    BY <1>0, <1>1, <2>1, <2>2, QueuedWhole
<1>2. CASE Checkpointed /\ ctl' \in {Go("halt"), Go("exitsHalt"), Raise("err", live)}
  BY <1>2, PlacesLoose, CallersLoose, KeptRoutine, RoutineKeepsGroups
<1>3. CASE /\ live.tracked = {}
           /\ \E X \in SUBSET Fresh(RecoveryExit) :
                 \/ Saved(Planned(X)) /\ ctl' = Go("head")
                 \/ NotSaved(Planned(X), TRUE) /\ ctl' = Raise("err", Planned(X))
  <2>1. PICK X \in SUBSET Fresh(RecoveryExit) :
           Writes(Planned(X)) /\ (ctl' = Go("head") \/ ctl' = Raise("err", Planned(X)))
    BY <1>3, CallsWrite
  <2>2. Loose(ctl')
    BY <2>1, PlacesLoose, CallersLoose
  <2>3. Releases
    BY <1>3 DEF Releases, Withholds
  <2> QED
    BY <1>1, <1>3, <2>1, <2>2, <2>3, SettledStep
<1> QED
  BY <1>2, <1>3 DEF FlattenAccount, QueueRefuses

\* A start and an end load the checkpoint, whose groups are whole.
LEMMA ForgottenKeepsGroups == ASSUME GInv, OKeeps, Start \/ Crash PROVE GKeeps
<1>1. live' = disk /\ disk' = disk
  BY DEF Start, Crash, Forgotten
<1>2. Whole(live', venue')
  BY <1>1, MovesWhole DEF OKeeps, OInv
<1>3. Loose(ctl')
  <2> DEFINE restart == [At("loop", "startHalted") EXCEPT !.loop = "restart", !.todo = disk.tracked]
  <2>1. Loose(restart)
    BY DEF Loose, At
  <2>2. ctl' \in {At("head", "start"), At("head", "startHalted"), At("exit", "none"), restart}
    BY DEF Start, Crash
  <2> HIDE DEF restart
  <2> QED
    BY <2>1, <2>2, PlacesLoose
<1>4. Releases
  <2>1. CASE Start
    <3>1. ctl.pc = "exit" /\ ctl.loop # "drop"
      BY <2>1 DEF Start, GInv, Dropping
    <3> QED
      BY <3>1 DEF Releases, Withholds
  <2>2. CASE Crash
    <3>1. ctl'.pc = "exit"
      BY <2>2 DEF Crash, At
    <3> QED
      BY <3>1 DEF Releases, Withholds
  <2> QED
    BY <2>1, <2>2
<1> QED
  BY <1>1, <1>2, <1>3, <1>4, LooseSettled, StepKeepsGroups DEF GKeeps

-----------------------------------------------------------------------------
(* The invariant. *)

LEMMA InitGroups == Init => GInv
<1> SUFFICES ASSUME Init PROVE GInv
  OBVIOUS
<1>1. OInv
  BY InitOrders
<1>2. /\ live.tracked = {} /\ live.unstarted = {} /\ disk = live
      /\ \A o \in Order : ~live.order[o].attempted
  BY DEF Init, FreshSnapshot, FreshOrder
<1>3. Whole(live, venue) /\ Whole(disk, venue)
  BY <1>2 DEF Whole, Tied, Unbegun
<1>4. Dropping /\ Starting
  BY DEF Init, At, Dropping, Starting
<1> QED
  BY <1>1, <1>3, <1>4 DEF GInv

LEMMA CycleKeepsGroups == ASSUME GInv, OKeeps, CycleStep PROVE GKeeps
BY CycleRoutine, RoutineKeepsGroups, DecideKeepsGroups, RebalanceLegKeepsGroups,
   ForgottenKeepsGroups DEF CycleStep

LEMMA HaltsKeepGroups == ASSUME GInv, OKeeps, AccountHaltStep PROVE GKeeps
BY HaltsRoutine, RoutineKeepsGroups, FlattenAccountKeepsGroups DEF AccountHaltStep

LEMMA OrderWorkKeepsGroups == ASSUME GInv, OKeeps, OrderWorkStep PROVE GKeeps
<1>1. CASE AdvanceReturns \/ GroupCancelled \/ LegsDropped
  BY <1>1, HeadRoutine, RoutineKeepsGroups, LegsDroppedKeepsGroups
<1>2. ASSUME NEW o \in Order,
             \/ FinishOwnCancel(o) \/ DropPaused(o) \/ DropUnfunded(o) \/ Attempt(o)
             \/ PlaceAnswered(o) \/ PlaceUnclear(o)
      PROVE  GKeeps
  BY <1>2, HeadRoutine, PlaceRoutine, RoutineKeepsGroups, DropPausedKeepsGroups,
     DropUnfundedKeepsGroups, AttemptKeepsGroups
<1>3. ASSUME NEW o \in Order,
             \/ Lookup(o) \/ Poll(o) \/ Judge(o)
             \/ Timeout(o) \/ TimeoutCancel(o) \/ TimedOut(o)
      PROVE  GKeeps
  BY <1>3, HeadRoutine, LookupRoutine, PollRoutine, TimeoutRoutine, TimeoutCancelRoutine,
     RoutineKeepsGroups
<1>4. ASSUME NEW o \in Order,
             \/ RequestCancel(o) \/ CancelReads(o) \/ CancelSends(o)
             \/ CancelForced(o) \/ CancelJudged(o)
      PROVE  GKeeps
  BY <1>4, HeadRoutine, RequestCancelRoutine, CancelReadsRoutine, CancelSendsRoutine,
     CancelForcedRoutine, RoutineKeepsGroups
<1>5. ASSUME NEW o \in Order, CancelUnsent(o) \/ NextInLoop(o) PROVE GKeeps
  BY <1>5, CancelUnsentKeepsGroups, NextDropKeepsGroups, NextCancelRoutine, RoutineKeepsGroups
<1> QED
  BY <1>1, <1>2, <1>3, <1>4, <1>5 DEF OrderWorkStep

LEMMA NextKeepsGroups == GInv /\ [Next]_vars => GKeeps
<1> SUFFICES ASSUME GInv, [Next]_vars PROVE GKeeps
  OBVIOUS
<1>1. OKeeps
  BY NextKeepsOrders DEF GInv
<1>2. CASE EngineStep
  BY <1>1, <1>2, CycleKeepsGroups, HaltsKeepGroups, OrderWorkKeepsGroups DEF EngineStep
<1>3. CASE OperatorStep
  BY <1>1, <1>3, OperatorRoutine, RoutineKeepsGroups
<1>4. CASE Crash
  BY <1>1, <1>4, ForgottenKeepsGroups
<1>5. ASSUME NEW o \in Order, VenueStep(o) PROVE GKeeps
  BY <1>1, <1>5, VenueRoutine, RoutineKeepsGroups
<1>6. CASE UNCHANGED vars
  BY <1>1, <1>6, StillRoutine, RoutineKeepsGroups DEF vars
<1> QED
  BY <1>2, <1>3, <1>4, <1>5, <1>6 DEF Next

\* The invariant of the groups holds in every reachable state.
THEOREM GroupsInvariance == Spec => []GInv
<1>1. GInv /\ [Next]_vars => GInv'
  BY NextKeepsGroups DEF GKeeps
<1> QED
  BY <1>1, InitGroups, PTL DEF Spec

\* While entries are paused, an entry goes out only to finish a group another
\* leg of which was sent before (_drop_paused_entry judges a group once, before
\* its first leg): neither a crash among the legs, nor a placement whose answer
\* was lost, nor a group half dropped leaves an entry the pause no longer judges.
THEOREM PausedEntryHeld == Spec => PausedEntryNotSent
<1>1. ASSUME GInv, [Next]_vars, NEW o \in Entry, Sends(o), live.paused
      PROVE  \E p \in Order \ {o} : /\ GroupOf[p] = GroupOf[o] /\ GroupOf[o] # NoGroup
                                    /\ venue[p].sent > 0
  <2>1. VenueMoves /\ o \in Order
    BY <1>1, NextKeepsOrders, RequestAssumption DEF GInv, OKeeps
  <2>2. ctl.pc = "place" /\ ctl.cur = o
    BY <1>1, <2>1 DEF VenueMoves
  <2> QED
    BY <1>1, <2>2 DEF GInv, Starting, Grouped
<1>2. GInv /\ [Next]_vars =>
         [\A o \in Entry : Sends(o) /\ live.paused =>
             \E p \in Order \ {o} : /\ GroupOf[p] = GroupOf[o] /\ GroupOf[o] # NoGroup
                                    /\ venue[p].sent > 0]_vars
  BY <1>1
<1> QED
  BY <1>2, GroupsInvariance, PTL DEF Spec, PausedEntryNotSent

\* Once a leg of a decision's group was sent, neither the pause nor the funding
\* check withholds a later one: _drop_paused_entry and _drop_unfunded_entry ask
\* of a group still in _unstarted_groups only, whatever crash or failed write
\* falls between the legs, and whichever decision or exit used the id before.
THEOREM StartedGroupComplete == Spec => StartedGroupNotWithheld
<1>1. ASSUME GInv, [Next]_vars, NEW S \in Plans, NEW o \in S, NEW p \in S,
             Withholds(o), GroupOf[p] = GroupOf[o], GroupOf[o] # NoGroup
      PROVE  venue[p].sent = 0
  <2>1. o \in Order /\ o \in live.tracked
    BY <1>1, QueueAssumption DEF Withholds
  <2>2. GroupOf[o] \in live.unstarted
    BY <1>1, <2>1, NextKeepsGroups DEF GKeeps, Releases, Grouped
  <2> QED
    BY <1>1, <2>1, <2>2, PresentGroups DEF Unbegun, Grouped
<1>2. GInv /\ [Next]_vars =>
         [\A S \in Plans : \A o, p \in S :
             Withholds(o) /\ GroupOf[p] = GroupOf[o] /\ GroupOf[o] # NoGroup
                => venue[p].sent = 0]_vars
  BY <1>1
<1> QED
  BY <1>2, GroupsInvariance, PTL DEF Spec, StartedGroupNotWithheld

=============================================================================
