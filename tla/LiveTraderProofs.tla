---------------------------- MODULE LiveTraderProofs ---------------------------
(***************************************************************************)
(* Theorems about LiveTrader, for every set of orders, groups, plans and   *)
(* events: type correctness, WriteAhead, PlacedOnce, HaltedSendsNothing.   *)
(*                                                                         *)
(* The invariant IInv adds to the types what they rest on (an order id is  *)
(* only known of an order the venue received, so that every answer to a    *)
(* cancel has a status; the book and the tracked order agree on the fill)  *)
(* and, for the placements, that an order the venue was sent is attempted  *)
(* in memory and in the checkpoint.  Nearly every step is Steady: it       *)
(* forgets no attempt, writes memory or nothing, and sends nothing.        *)
(***************************************************************************)
EXTENDS LiveTrader, TLAPS

\* The book and the tracked order agree on the fill: what lets the book take
\* the difference of two reports without leaving 0 .. Qty.
BookedFill(l) == \A o \in Order : l.book[o] = l.order[o].filled

Typed(l) == l \in Snapshot /\ BookedFill(l)

\* An order that may still trade has something left to trade, and the venue
\* knows of no order it was not sent.
SoundOrder == {v \in VenueOrder : /\ v.status \in {"sending", "working", "pending"}
                                       => v.filled < Qty
                                  /\ v.status # "none" => v.sent > 0
                                  /\ v.sent <= 1}

Memory == Typed(live) /\ Typed(disk) /\ carried \in BOOLEAN

Surroundings == /\ proc \in Process
                /\ req \in Requests
                /\ venue \in [Order -> SoundOrder]
                /\ late \in SUBSET Order

\* The calls that need the venue to know the order at hand.
Cancels == {"send", "force", "timeoutCancel"}

\* What only an answer of the venue tells of an order.
Heard(t) == t.hasId \/ t.status = "cancel_pending"

Recorded == \A o \in Order :
    /\ venue[o].sent > 0 => live.order[o].attempted /\ disk.order[o].attempted
    /\ Heard(live.order[o]) \/ Heard(disk.order[o]) => Received(o)

Placing == ctl.pc = "place" =>
    /\ ctl.cur \in Order
    /\ live.order[ctl.cur].attempted /\ disk.order[ctl.cur].attempted
    /\ venue[ctl.cur].sent = 0
    /\ ctl.cur \in RecoveryExit \/ (~live.halted /\ ~disk.halted)

Cancelled == ctl.pc \in Cancels => ctl.cur \in Order /\ Received(ctl.cur)

IInv == /\ Memory
        /\ Surroundings
        /\ ctl \in Control
        /\ Recorded
        /\ Placing
        /\ Cancelled

-----------------------------------------------------------------------------
(* What a steady step does. *)

\* Memory l may follow the present one.
Follows(l) == /\ Typed(l)
              /\ \A o \in Order :
                    /\ live.order[o].attempted => l.order[o].attempted
                    /\ Heard(l.order[o]) => Heard(live.order[o]) \/ Received(o)

MemoryStep == Follows(live') /\ disk' \in {disk, live'} /\ carried' \in BOOLEAN

VenueKept == /\ venue' \in [Order -> SoundOrder]
             /\ \A o \in Order : /\ venue'[o].sent = venue[o].sent
                                 /\ Received(o) => Received(o)'

OutsideStep == /\ proc' \in Process
               /\ req' \in Requests
               /\ late' \in SUBSET Order
               /\ VenueKept

\* A place of the program that is about no call of its own.
Plain(c) == c \in Control /\ c.pc \notin Cancels \cup {"place"}

ControlStep == /\ ctl' \in Control
               /\ ctl'.pc = "place" => UNCHANGED <<live, disk, ctl>>
               /\ ctl'.pc \in Cancels =>
                     ctl' = ctl \/ (ctl'.cur \in Order /\ Received(ctl'.cur))

Steady == MemoryStep /\ OutsideStep /\ ControlStep

\* The only step that sends an order is the placement of the order at hand.
SendsAtPlace == \A o \in Order : Sends(o) => ctl.pc = "place" /\ ctl.cur = o

\* What every step does.
Keeps == IInv' /\ SendsAtPlace

LEMMA SilentSteps ==
    ASSUME Surroundings, \A o \in Order : venue'[o].sent = venue[o].sent
    PROVE  SendsAtPlace
BY DEF Surroundings, SoundOrder, VenueOrder, SendsAtPlace, Sends

\* A steady step keeps the invariant.
LEMMA SteadyKeeps == ASSUME IInv, Steady PROVE Keeps
<1>1. Memory'
  BY DEF IInv, Steady, Memory, MemoryStep, Follows, Typed, BookedFill
<1>2. Surroundings' /\ ctl' \in Control
  BY DEF Steady, OutsideStep, ControlStep, VenueKept, Surroundings
<1>3. Recorded'
  <2> SUFFICES ASSUME NEW o \in Order
               PROVE  /\ venue'[o].sent > 0 =>
                            live'.order[o].attempted /\ disk'.order[o].attempted
                      /\ Heard(live'.order[o]) \/ Heard(disk'.order[o]) => Received(o)'
    BY DEF Recorded
  <2>1. venue'[o].sent = venue[o].sent /\ (Received(o) => Received(o)')
    BY DEF Steady, OutsideStep, VenueKept
  <2>2. /\ live.order[o].attempted => live'.order[o].attempted
        /\ Heard(live'.order[o]) => Heard(live.order[o]) \/ Received(o)
        /\ disk' = disk \/ disk' = live'
    BY DEF Steady, MemoryStep, Follows
  <2> QED
    BY <2>1, <2>2 DEF IInv, Recorded
<1>4. Placing'
  <2> SUFFICES ASSUME ctl'.pc = "place" PROVE Placing'
    BY DEF Placing
  <2>1. UNCHANGED <<live, disk, ctl>>
    BY DEF Steady, ControlStep
  <2> QED
    BY <2>1 DEF IInv, Placing, Steady, OutsideStep, VenueKept
<1>5. Cancelled'
  <2> SUFFICES ASSUME ctl'.pc \in Cancels PROVE ctl'.cur \in Order /\ Received(ctl.cur)'
    BY DEF Cancelled
  <2>1. ctl'.cur \in Order /\ Received(ctl'.cur)
    BY DEF Steady, ControlStep, IInv, Cancelled
  <2>2. venue'[ctl'.cur].status \notin {"none", "sending"}
    BY <2>1 DEF Steady, OutsideStep, VenueKept, Received
  <2> QED
    BY <2>1, <2>2 DEF Received
<1>6. SendsAtPlace
  BY SilentSteps DEF IInv, Steady, OutsideStep, VenueKept
<1> QED
  BY <1>1, <1>2, <1>3, <1>4, <1>5, <1>6 DEF IInv, Keeps

-----------------------------------------------------------------------------
(* Control: wherever a step goes on, it is a place of the program. *)

LEMMA PlainSteps == ASSUME Plain(ctl') PROVE ControlStep
BY DEF Plain, ControlStep

LEMMA AtPlain ==
    ASSUME NEW pc \in PC \ (Cancels \cup {"place"}), NEW ctx \in Context
    PROVE  Plain(At(pc, ctx))
BY DEF At, Plain, Control, Loops

LEMMA AtCyclePlain ==
    ASSUME ctl \in Control, NEW pc \in PC \ (Cancels \cup {"place"}), NEW ctx \in Context,
           NEW c \in {"none", "passed", "raises", ctl.cycle}
    PROVE  Plain([At(pc, ctx) EXCEPT !.cycle = c])
BY DEF At, Plain, Control, Loops

LEMMA GoPlain ==
    ASSUME ctl \in Control, NEW pc \in PC \ (Cancels \cup {"place"})
    PROVE  Plain(Go(pc)) /\ \A o \in Order : Plain(GoWith(pc, o))
BY DEF Go, GoWith, At, Plain, Control, Loops

LEMMA LoopPlain ==
    ASSUME ctl \in Control, NEW loop \in Loops, NEW S \in SUBSET Order
    PROVE  /\ Plain([Go("loop") EXCEPT !.loop = loop, !.todo = S])
           /\ \A o \in Order : Plain([GoWith("loop", o) EXCEPT !.loop = loop, !.todo = S])
BY DEF Go, GoWith, At, Plain, Control, Cancels, PC

LEMMA DonePlain == ASSUME ctl \in Control, NEW l PROVE Plain(Done(l))
BY DEF Done, At, Quiet, Plain, Cancels, Control, PC, Context, Loops, Exits

LEMMA RaisePlain == ASSUME ctl \in Control, NEW e, NEW l PROVE Plain(Raise(e, l))
BY DEF Raise, At, Quiet, Plain, Cancels, Control, PC, Context, Loops, Exits

LEMMA CancelReturnsPlain == ASSUME ctl \in Control PROVE Plain(CancelReturns)
BY DEF CancelReturns, Plain, Cancels, Control, PC

LEMMA CancelRaisesPlain ==
    ASSUME ctl \in Control, NEW e \in {"bad", "err"}, NEW l
    PROVE  Plain(CancelRaises(e, l))
<1>1. Plain(Raise(e, l))
  BY RaisePlain
<1>2. Plain(Go("halt"))
  BY DEF Go, At, Plain, Cancels, Control, Loops, PC
<1>3. CASE ctl.loop \in Passes
  <2>1. CancelRaises(e, l) = [ctl EXCEPT !.pc = "loop",
                                         !.fail = IF ctl.fail = "none" THEN e ELSE ctl.fail]
    BY <1>3 DEF CancelRaises
  <2> QED
    BY <2>1 DEF Plain, Cancels, Control, PC
<1>4. CASE ctl.loop \notin Passes
  BY <1>1, <1>2, <1>4, CancelReturnsPlain DEF CancelRaises
<1> QED
  BY <1>3, <1>4

LEMMA LegFailsPlain ==
    ASSUME ctl \in Control, live \in Snapshot, NEW o \in Order, NEW fault, NEW last
    PROVE  Plain(LegFails(o, fault, last))
<1>1. Siblings(o) \in SUBSET Order
  BY DEF Siblings, Snapshot
<1>2. Plain(Done(live)) /\ Plain(Go("head")) /\ Plain(Go("halt"))
  BY DonePlain, GoPlain DEF PC, Cancels
<1>3. Plain([Go("loop") EXCEPT !.loop = IF last THEN "groupLast" ELSE "group",
                               !.todo = Siblings(o)])
  BY <1>1, LoopPlain DEF Loops
<1> QED
  BY <1>2, <1>3 DEF LegFails

-----------------------------------------------------------------------------
(* Memory: what the steps write may follow what memory holds. *)

LEMMA LiveFollows == ASSUME Memory PROVE Follows(live)
BY DEF Memory, Follows

LEMMA FlagsFollow ==
    ASSUME NEW l, Follows(l), NEW b \in BOOLEAN, NEW S \in SUBSET Group
    PROVE  /\ Follows([l EXCEPT !.halted = b])
           /\ Follows([l EXCEPT !.paused = b])
           /\ Follows([l EXCEPT !.rebalancing = b])
           /\ Follows([l EXCEPT !.unstarted = S])
BY DEF Follows, Typed, BookedFill, Snapshot

LEMMA HaltedFollows == ASSUME NEW l, Follows(l) PROVE Follows(HaltedMemory(l))
BY DEF HaltedMemory, Follows, Typed, BookedFill, Snapshot

LEMMA StartedFollows ==
    ASSUME NEW l, Follows(l), NEW o \in Order PROVE Follows(Started(l, o))
BY DEF Started, Follows, Typed, BookedFill, Snapshot

LEMMA MarkedFollows ==
    ASSUME NEW l, Follows(l), NEW o \in Order
    PROVE  /\ Follows([l EXCEPT !.order[o].attempted = TRUE])
           /\ Follows([l EXCEPT !.order[o].cancelRequested = TRUE])
BY DEF Follows, Typed, BookedFill, Snapshot, TrackedOrder, Heard

LEMMA QueuedFollows ==
    ASSUME NEW l, Follows(l), NEW S \in SUBSET Order
    PROVE  Follows(Queued(l, S))
<1> DEFINE ord == [o \in Order |-> IF o \in S THEN [l.order[o] EXCEPT !.status = "submitted"]
                                               ELSE l.order[o]]
<1>1. ord \in [Order -> TrackedOrder]
  BY DEF Follows, Typed, Snapshot, TrackedOrder, Status
<1>2. \A o \in Order : /\ ord[o].filled = l.order[o].filled
                       /\ ord[o].attempted = l.order[o].attempted
                       /\ Heard(ord[o]) => Heard(l.order[o])
  BY DEF Follows, Typed, Snapshot, TrackedOrder, Heard
<1>3. Queued(l, S) = [l EXCEPT !.tracked = l.tracked \cup S, !.order = ord]
  BY DEF Queued
<1> DEFINE q == Queued(l, S)
<1>4. q.order = ord /\ q.book = l.book
  BY <1>3 DEF Follows, Typed, Snapshot
<1>5. q \in Snapshot
  BY <1>1, <1>3 DEF Follows, Typed, Snapshot
<1> HIDE DEF ord, q
<1>6. Typed(q)
  BY <1>2, <1>4, <1>5 DEF Follows, Typed, BookedFill
<1>7. Follows(q)
  BY <1>2, <1>4, <1>6 DEF Follows
<1> QED
  BY <1>7 DEF q

LEMMA DroppedFollows ==
    ASSUME NEW l, Follows(l), NEW S \in SUBSET Order
    PROVE  Follows(Dropped(l, S))
<1> DEFINE ord == [o \in Order |-> IF o \in S THEN [l.order[o] EXCEPT !.status = "cancelled"]
                                               ELSE l.order[o]]
<1>1. ord \in [Order -> TrackedOrder]
  BY DEF Follows, Typed, Snapshot, TrackedOrder, Status, Ended
<1>2. \A o \in Order : /\ ord[o].filled = l.order[o].filled
                       /\ ord[o].attempted = l.order[o].attempted
                       /\ Heard(ord[o]) => Heard(l.order[o])
  BY DEF Follows, Typed, Snapshot, TrackedOrder, Heard
<1>3. Dropped(l, S) = [l EXCEPT !.tracked = l.tracked \ S, !.order = ord]
  BY DEF Dropped
<1> DEFINE q == Dropped(l, S)
<1>4. q.order = ord /\ q.book = l.book
  BY <1>3 DEF Follows, Typed, Snapshot
<1>5. q \in Snapshot
  BY <1>1, <1>3 DEF Follows, Typed, Snapshot
<1> HIDE DEF ord, q
<1>6. Typed(q)
  BY <1>2, <1>4, <1>5 DEF Follows, Typed, BookedFill
<1>7. Follows(q)
  BY <1>2, <1>4, <1>6 DEF Follows
<1> QED
  BY <1>7 DEF q

-----------------------------------------------------------------------------
(* Writes. *)

LEMMA SavedSteps ==
    ASSUME Memory, NEW l, Follows(l), Saved(l) PROVE MemoryStep
BY DEF Memory, MemoryStep, Saved

LEMMA NotSavedSteps ==
    ASSUME Memory, NEW l, Follows(l), NEW rows \in BOOLEAN, NotSaved(l, rows)
    PROVE  MemoryStep
BY DEF Memory, MemoryStep, NotSaved

LEMMA CheckpointedSteps == ASSUME Memory, Checkpointed PROVE MemoryStep
BY LiveFollows DEF Memory, MemoryStep, Checkpointed

LEMMA OutsideSteps == ASSUME Surroundings, Outside, proc' \in Process PROVE OutsideStep
BY DEF Surroundings, Outside, OutsideStep, VenueKept, Received

LEMMA VenueUnchanged == ASSUME Surroundings, UNCHANGED venue PROVE VenueKept
BY DEF Surroundings, VenueKept, Received

-----------------------------------------------------------------------------
(* Answers, and what a report makes of memory. *)

Answer(r) == r.status \in Status /\ r.filled \in 0 .. Qty /\ r.hasId \in BOOLEAN

LEMMA ReportOfAnswers ==
    ASSUME NEW v \in VenueOrder, v.status \notin {"none", "sending"}
    PROVE  Answer(ReportOf(v))
BY DEF Answer, ReportOf, VenueOrder, VenueStatus, Status, Ended

LEMMA ReadAnswers ==
    ASSUME Memory, Surroundings, NEW o \in Order, NEW r \in ReadReports(o)
    PROVE  Answer(r) /\ Received(o)
<1>1. Received(o)
  BY DEF ReadReports
<1>2. venue[o] \in VenueOrder /\ venue[o].status \notin {"none", "sending"}
  BY <1>1 DEF Received, Surroundings, SoundOrder
<1>3. Answer(ReportOf(venue[o]))
  BY <1>2, ReportOfAnswers
<1>4. live.order[o].filled \in 0 .. Qty /\ venue[o].filled \in 0 .. Qty
  BY <1>2 DEF Memory, Typed, Snapshot, TrackedOrder, VenueOrder
<1>5. ASSUME NEW n \in live.order[o].filled .. venue[o].filled
      PROVE  Answer([status |-> "submitted", filled |-> n, hasId |-> TRUE])
  BY <1>4, QtyAssumption DEF Answer, Status
<1> QED
  BY <1>1, <1>3, <1>5 DEF ReadReports

LEMMA AppliedTyped ==
    ASSUME Memory, NEW o \in Order, NEW r, Answer(r)
    PROVE  /\ Typed(Applied(live, o, r))
           /\ \A p \in Order :
                 /\ live.order[p].attempted => Applied(live, o, r).order[p].attempted
                 /\ Heard(Applied(live, o, r).order[p]) =>
                        Heard(live.order[p]) \/ p = o
<1> DEFINE l == live
           a == Applied(l, o, r)
<1>0. Typed(l)
  BY DEF Memory
<1> HIDE DEF l
<1>1. l.book[o] + (r.filled - l.order[o].filled) = r.filled
  <2>1. l.book[o] = l.order[o].filled /\ l.order[o].filled \in 0 .. Qty
    BY <1>0 DEF Typed, BookedFill, Snapshot, TrackedOrder
  <2> QED
    BY <2>1, QtyAssumption DEF Answer
<1>2. a.order = [l.order EXCEPT ![o].status = r.status, ![o].filled = r.filled,
                                ![o].hasId = l.order[o].hasId \/ r.hasId]
  BY <1>0 DEF Applied, Typed, Snapshot, TrackedOrder
<1>3. a.order \in [Order -> TrackedOrder]
  <2>1. r.status \in Status /\ r.filled \in 0 .. Qty /\ r.hasId \in BOOLEAN
    BY DEF Answer
  <2>2. l.order \in [Order -> TrackedOrder]
    BY <1>0 DEF Typed, Snapshot
  <2> HIDE DEF a
  <2> QED
    BY <1>2, <2>1, <2>2 DEF TrackedOrder
<1>4. a.book = [l.book EXCEPT ![o] = r.filled]
  BY <1>0, <1>1 DEF Applied, Typed, Snapshot
<1>5. a.tracked \in SUBSET Order
  BY <1>0 DEF Applied, Typed, Snapshot
<1>6. a = [l EXCEPT !.order = a.order, !.book = a.book, !.tracked = a.tracked]
  BY <1>0 DEF Applied, Typed, Snapshot
<1>7. \A p \in Order : a.book[p] = a.order[p].filled
  BY <1>0, <1>2, <1>4 DEF Typed, BookedFill, Snapshot, TrackedOrder
<1>8. a.book \in [Order -> 0 .. Qty]
  BY <1>0, <1>4 DEF Typed, Snapshot, Answer
<1>9. \A p \in Order : /\ l.order[p].attempted => a.order[p].attempted
                       /\ Heard(a.order[p]) => Heard(l.order[p]) \/ p = o
  BY <1>0, <1>2 DEF Typed, Snapshot, TrackedOrder, Answer, Heard
<1> HIDE DEF a
<1>10. Typed(a)
  BY <1>0, <1>3, <1>5, <1>6, <1>7, <1>8 DEF Typed, BookedFill, Snapshot
<1> QED
  BY <1>9, <1>10 DEF a, l

LEMMA AppliedFollows ==
    ASSUME Memory, NEW o \in Order, NEW r, Answer(r), Received(o)
    PROVE  Follows(Applied(live, o, r))
BY AppliedTyped DEF Follows

LEMMA AfterReportTyped ==
    ASSUME Memory, NEW p \in Process, NEW o \in Order, NEW r
    PROVE  AfterReport(p, o, r) \in Process
BY DEF AfterReport, Process, Memory, Typed, Snapshot

LEMMA SentTyped == ASSUME Surroundings, NEW o \in Order PROVE Sent(o) \in Process
BY DEF Sent, Surroundings, Process

\* Whichever way its write goes, a report steps memory as it should.
LEMMA ReportSteps ==
    ASSUME Memory, NEW p \in Process, NEW o \in Order, NEW r, Answer(r),
           Received(o), NEW kept, NEW lost, Report(p, o, r, kept, lost)
    PROVE  MemoryStep /\ proc' \in Process /\ (ctl' = kept \/ ctl' = lost)
<1>1. Follows(Applied(live, o, r))
  BY AppliedFollows
<1>2. AfterReport(p, o, r) \in Process
  BY AfterReportTyped
<1>3. Saved(Applied(live, o, r)) => MemoryStep
  BY <1>1, SavedSteps
<1>4. NotSaved(Applied(live, o, r), TRUE) => MemoryStep
  BY <1>1, NotSavedSteps
<1> QED
  BY <1>2, <1>3, <1>4 DEF Report

-----------------------------------------------------------------------------
(* The cycle. *)

\* Most steps: memory may be written, nothing outside changes.
LEMMA InnerSteps ==
    ASSUME IInv, MemoryStep, proc' \in Process, Outside, Plain(ctl')
    PROVE  Steady
BY PlainSteps, OutsideSteps DEF IInv, Steady

LEMMA NewPassTyped == ASSUME Surroundings PROVE NewPass(proc) \in Process
BY DEF NewPass, Surroundings, Process

LEMMA ManualHaltSteps ==
    ASSUME IInv, NEW ctx \in {"operator", "request"}, ManualHalt(ctx)
    PROVE  req' \in Requests /\ Plain(ctl')
<1>1. req' \in Requests
  BY DEF ManualHalt, IInv, Surroundings, Requests
<1>2. /\ Plain(At("halt", ctx)) /\ Plain(At("retryHalt", ctx))
      /\ Plain(At("retryHalt", "retry")) /\ Plain(Quiet)
  BY AtPlain DEF Quiet, PC, Cancels, Context
<1> QED
  BY <1>1, <1>2 DEF ManualHalt

LEMMA BeginCycleSteady == ASSUME IInv, BeginCycle PROVE Steady
<1>1. MemoryStep
  BY CheckpointedSteps DEF IInv, BeginCycle
<1>2. proc' \in Process
  BY NewPassTyped DEF IInv, BeginCycle
<1>3. req' \in Requests /\ Plain(ctl')
  <2>1. CASE req.halt
    BY <2>1, ManualHaltSteps DEF BeginCycle
  <2>2. CASE ~req.halt
    <3>1. req' = req /\ ctl' = At("retryHalt", "retry")
      BY <2>2 DEF BeginCycle
    <3> QED
      BY <3>1, AtPlain DEF IInv, Surroundings, PC, Cancels, Context
  <2> QED
    BY <2>1, <2>2
<1>4. late' \in SUBSET Order /\ VenueKept
  BY VenueUnchanged DEF IInv, Surroundings, BeginCycle
<1> QED
  BY <1>1, <1>2, <1>3, <1>4, PlainSteps DEF Steady, OutsideStep

LEMMA CarryRowsSteady == ASSUME IInv, CarryRows PROVE Steady
<1>1. MemoryStep
  BY CheckpointedSteps, LiveFollows, SavedSteps, NotSavedSteps DEF IInv, CarryRows
<1>2. Plain(Quiet) /\ Plain(At("head", "orders")) /\ Plain(At("flatten", "cycle"))
  BY AtPlain DEF Quiet, PC, Cancels, Context
<1>3. Plain(ctl')
  BY <1>2 DEF CarryRows
<1> QED
  BY <1>1, <1>3, InnerSteps DEF IInv, CarryRows, Engine, Surroundings

LEMMA ReconcileSteady == ASSUME IInv, Reconcile PROVE Steady
<1>1. MemoryStep
  BY CheckpointedSteps DEF IInv, Reconcile
<1>2. proc' \in Process
  BY DEF IInv, Surroundings, Reconcile, Process
<1>3. Plain(At("bar", "cycle")) /\ Plain(At("halt", "reconcile"))
  BY AtPlain DEF PC, Cancels, Context
<1> QED
  BY <1>1, <1>2, <1>3, InnerSteps DEF Reconcile

LEMMA BarSteady == ASSUME IInv, Bar PROVE Steady
<1>1. MemoryStep
  BY CheckpointedSteps DEF IInv, Bar
<1>2. Plain(Quiet) /\ Plain(At("event", "cycle"))
  BY AtPlain DEF Quiet, PC, Cancels, Context
<1> QED
  BY <1>1, <1>2, InnerSteps DEF Bar, Engine, IInv, Surroundings

LEMMA EventSteady == ASSUME IInv, Event PROVE Steady
<1>1. MemoryStep
  BY CheckpointedSteps DEF IInv, Event
<1>2. /\ Plain(At("equity", "free")) /\ Plain(At("equity", "blocked"))
      /\ Plain(At("leg", "leg")) /\ Plain(At("decide", "waiting"))
  BY AtPlain DEF PC, Cancels, Context
<1>3. Plain(ctl')
  BY <1>2 DEF Event
<1> QED
  BY <1>1, <1>3, InnerSteps DEF Event, Engine, IInv, Surroundings

LEMMA DecideSteady == ASSUME IInv, Decide PROVE Steady
<1>1. /\ \A l : Plain(Done(l)) /\ Plain(Raise("err", l))
      /\ Plain(Go("halt")) /\ Plain(Go("head")) /\ Plain(At("leg", "newLeg"))
  BY DonePlain, RaisePlain, GoPlain, AtPlain DEF IInv, PC, Cancels, Context
<1>2. ASSUME NEW S \in Plans PROVE Follows(Planned(S))
  <2>1. S \in SUBSET Order /\ {GroupOf[o] : o \in S} \ {NoGroup} \in SUBSET Group
    BY RequestAssumption, QueueAssumption
  <2> QED
    BY <2>1, LiveFollows, QueuedFollows, FlagsFollow DEF IInv, Planned
<1>3. Follows([live EXCEPT !.rebalancing = TRUE])
  BY LiveFollows, FlagsFollow DEF IInv
<1>4. MemoryStep /\ Plain(ctl')
  <2>1. CASE Checkpointed /\ (ctl' = Done(live) \/ ctl' = Go("halt"))
    BY <1>1, <2>1, CheckpointedSteps DEF IInv
  <2>2. CASE \E S \in Plans \ {{}} :
                \/ Saved(Planned(S)) /\ ctl' = Go("head")
                \/ NotSaved(Planned(S), TRUE) /\ ctl' = Raise("err", Planned(S))
    <3> QED
      BY <1>1, <1>2, <2>2, SavedSteps, NotSavedSteps DEF IInv
  <2>3. CASE LET l == [live EXCEPT !.rebalancing = TRUE] IN
                \/ Saved(l) /\ ctl' = At("leg", "newLeg")
                \/ NotSaved(l, FALSE) /\ ctl' = Raise("err", l)
    BY <1>1, <1>3, <2>3, SavedSteps, NotSavedSteps DEF IInv
  <2> QED
    BY <2>1, <2>2, <2>3 DEF Decide
<1> QED
  BY <1>4, InnerSteps DEF Decide, Engine, IInv, Surroundings

LEMMA RebalanceLegSteady == ASSUME IInv, RebalanceLeg PROVE Steady
<1>1. /\ \A l : Plain(Raise("err", l))
      /\ Plain(Go("halt")) /\ Plain(Go("head"))
      /\ Plain(At("equity", "blocked")) /\ Plain(At("equity", "free"))
      /\ Plain(At("commit", "cycle"))
  BY RaisePlain, GoPlain, AtPlain DEF IInv, PC, Cancels, Context
<1>2. ASSUME NEW o \in Order PROVE Follows(Queued(live, {o}))
  BY LiveFollows, QueuedFollows DEF IInv
<1>3. Follows(live) /\ Follows([live EXCEPT !.rebalancing = FALSE])
  BY LiveFollows, FlagsFollow DEF IInv
<1>4. ASSUME NEW l, Follows(l), NEW rows \in BOOLEAN, NEW c, Plain(c),
             \/ Saved(l) /\ ctl' = c
             \/ NotSaved(l, rows) /\ ctl' = Raise("err", l)
      PROVE  MemoryStep /\ Plain(ctl')
  BY <1>1, <1>4, SavedSteps, NotSavedSteps DEF IInv
<1>5. MemoryStep /\ Plain(ctl')
  <2>1. CASE \E o \in Order :
                \/ Saved(Queued(live, {o})) /\ ctl' = Go("head")
                \/ NotSaved(Queued(live, {o}), TRUE) /\ ctl' = Raise("err", Queued(live, {o}))
    BY <1>1, <1>2, <1>4, <2>1
  <2>2. CASE \/ /\ Saved(live)
                /\ ctl' = IF ctl.ctx = "leg" THEN At("equity", "blocked")
                                             ELSE At("commit", "cycle")
             \/ NotSaved(live, FALSE) /\ ctl' = Raise("err", live)
    BY <1>1, <1>3, <2>2, SavedSteps, NotSavedSteps DEF IInv
  <2>3. CASE Checkpointed /\ ctl' = Go("halt")
    BY <1>1, <2>3, CheckpointedSteps DEF IInv
  <2>4. CASE LET l == [live EXCEPT !.rebalancing = FALSE] IN
             \/ /\ Saved(l)
                /\ ctl' = IF ctl.ctx = "leg" THEN At("equity", "free")
                                             ELSE At("commit", "cycle")
             \/ NotSaved(l, FALSE) /\ ctl' = Raise("err", l)
    BY <1>1, <1>3, <2>4, SavedSteps, NotSavedSteps DEF IInv
  <2> QED
    BY <2>1, <2>2, <2>3, <2>4, RequestAssumption DEF RebalanceLeg, Fresh
<1> QED
  BY <1>5, InnerSteps DEF RebalanceLeg, Engine, IInv, Surroundings

LEMMA EquitySteady == ASSUME IInv, Equity PROVE Steady
<1>1. MemoryStep
  BY LiveFollows, CheckpointedSteps, SavedSteps, NotSavedSteps DEF IInv, Equity
<1>2. /\ Plain(Quiet) /\ Plain(At("commit", "cycle"))
      /\ Plain(At("decide", "decide")) /\ Plain(At("account", "breach"))
  BY AtPlain DEF Quiet, PC, Cancels, Context
<1>3. Plain(ctl')
  BY <1>2 DEF Equity
<1> QED
  BY <1>1, <1>3, InnerSteps DEF Equity, Engine, IInv, Surroundings

LEMMA CommitSteady == ASSUME IInv, Commit PROVE Steady
<1>1. MemoryStep
  BY LiveFollows, CheckpointedSteps, SavedSteps, NotSavedSteps DEF IInv, Commit
<1>2. Plain(Quiet) /\ Plain(At("event", "cycle"))
  BY AtPlain DEF Quiet, PC, Cancels, Context
<1>3. Plain(ctl')
  BY <1>2 DEF Commit
<1> QED
  BY <1>1, <1>3, InnerSteps DEF Commit, Engine, IInv, Surroundings

LEMMA OpenOrdersSteady == ASSUME IInv, OpenOrders PROVE Steady
<1>1. MemoryStep
  BY CheckpointedSteps DEF IInv, OpenOrders
<1>2. /\ Plain(Raise("err", live)) /\ Plain(At("verify", "start"))
      /\ Plain(At("halt", "startFailed")) /\ Plain(At("halt", "orphanHalted"))
  BY RaisePlain, AtPlain DEF IInv, PC, Cancels, Context
<1>3. Plain(ctl')
  BY <1>2 DEF OpenOrders
<1> QED
  BY <1>1, <1>3, InnerSteps DEF OpenOrders, Engine, IInv, Surroundings

LEMMA VerifySteady == ASSUME IInv, Verify PROVE Steady
<1>1. MemoryStep
  BY CheckpointedSteps DEF IInv, Verify
<1>2. Plain(Quiet) /\ Plain(At("exit", "none"))
  BY AtPlain DEF Quiet, PC, Cancels, Context
<1>3. Plain(ctl')
  BY <1>2 DEF Verify
<1> QED
  BY <1>1, <1>3, InnerSteps DEF Verify, Engine, IInv, Surroundings

\* A start and an end forget what the checkpoint does not hold: memory becomes
\* the checkpoint, so they are not steady; but all that the invariant says of
\* memory it says of the checkpoint.
LEMMA ForgottenKeeps ==
    ASSUME IInv, Forgotten, Plain(ctl') PROVE Keeps
<1>1. Memory'
  BY DEF IInv, Memory, Forgotten, Typed, BookedFill
<1>2. FreshProcess \in Process /\ NoRequest \in Requests
  BY DEF FreshProcess, Process, NoRequest, Requests
<1>3. Surroundings'
  BY <1>2 DEF IInv, Surroundings, Forgotten
<1>4. Recorded'
  BY DEF IInv, Recorded, Forgotten, Received
<1>5. ctl' \in Control /\ Placing' /\ Cancelled'
  BY DEF Plain, Placing, Cancelled
<1>6. SendsAtPlace
  BY SilentSteps DEF IInv, Forgotten
<1> QED
  BY <1>1, <1>3, <1>4, <1>5, <1>6 DEF IInv, Keeps

LEMMA CrashKeeps == ASSUME IInv, Crash PROVE Keeps
BY ForgottenKeeps, AtPlain DEF Crash, PC, Cancels, Context

LEMMA StartKeeps == ASSUME IInv, Start PROVE Keeps
<1>1. Plain(At("head", "start")) /\ Plain(At("head", "startHalted"))
  BY AtPlain DEF PC, Cancels, Context
<1>2. Plain([At("loop", "startHalted") EXCEPT !.loop = "restart", !.todo = disk.tracked])
  <2>1. disk.tracked \in SUBSET Order
    BY DEF IInv, Memory, Typed, Snapshot
  <2> QED
    BY <2>1 DEF PC, Cancels, Context, Plain, Control, At, Loops
<1>3. Plain(ctl')
  BY <1>1, <1>2 DEF Start
<1> QED
  BY <1>3, ForgottenKeeps DEF Start

-----------------------------------------------------------------------------
(* The halt and what leaves it. *)

LEMMA PassPlain ==
    ASSUME IInv, NEW loop \in Loops PROVE Plain(Pass(loop))
<1>1. live.tracked \in SUBSET Order
  BY DEF IInv, Memory, Typed, Snapshot
<1> QED
  BY <1>1, LoopPlain DEF Pass, IInv

\* A step that writes a memory or nothing, and touches the requests.
LEMMA RequestSteps ==
    ASSUME IInv, MemoryStep, proc' \in Process, req' \in Requests,
           UNCHANGED <<venue, late>>, Plain(ctl')
    PROVE  Steady
BY PlainSteps, VenueUnchanged DEF IInv, Surroundings, Steady, OutsideStep

LEMMA ClearedRequests ==
    ASSUME Surroundings
    PROVE  /\ req \in Requests
           /\ [req EXCEPT !.reset = FALSE] \in Requests
           /\ [req EXCEPT !.flatten = FALSE] \in Requests
           /\ [req EXCEPT !.halt = FALSE, !.reset = FALSE] \in Requests
BY DEF Surroundings, Requests

LEMMA HaltingTyped ==
    ASSUME Surroundings
    PROVE  /\ Halting \in Process
           /\ HaltNotSaved \in Process
           /\ \A b \in BOOLEAN :
                 [Halting EXCEPT !.haltUnsaved = TRUE, !.cancelsOwed = b] \in Process
           /\ \A b \in BOOLEAN : /\ [proc EXCEPT !.cancelsOwed = b] \in Process
                                 /\ [proc EXCEPT !.haltUnsaved = b] \in Process
BY DEF Halting, HaltNotSaved, Surroundings, Process

LEMMA HaltSteady == ASSUME IInv, Halt PROVE Steady
<1>1. Follows(HaltedMemory(live))
  BY LiveFollows, HaltedFollows DEF IInv
<1>2. MemoryStep
  BY <1>1, SavedSteps, NotSavedSteps DEF IInv, Halt
<1>3. proc' \in Process /\ req' \in Requests
  BY HaltingTyped, ClearedRequests DEF IInv, Halt, DropReset
<1>4. Plain(Pass("halt")) /\ \A l : Plain(Raise("err", l))
  BY PassPlain, RaisePlain DEF IInv, Loops
<1>5. Plain(ctl')
  BY <1>4 DEF Halt
<1> QED
  BY <1>2, <1>3, <1>5, RequestSteps DEF Halt

LEMMA HaltPassEndsSteady == ASSUME IInv, HaltPassEnds PROVE Steady
<1>1. MemoryStep
  BY CheckpointedSteps DEF IInv, HaltPassEnds
<1>2. proc' \in Process
  BY HaltingTyped DEF IInv, HaltPassEnds, StillOwed
<1>3. /\ Plain(Raise(ctl.fail, live)) /\ Plain(Done(live))
      /\ Plain([At("reset", "cycle") EXCEPT !.cycle = "passed"])
  BY RaisePlain, DonePlain, AtCyclePlain DEF IInv, PC, Cancels, Context
<1>4. Plain(ctl')
  BY <1>3 DEF HaltPassEnds
<1> QED
  BY <1>1, <1>2, <1>4, InnerSteps DEF HaltPassEnds

LEMMA RetryHaltSteady == ASSUME IInv, RetryHalt PROVE Steady
<1>1. MemoryStep
  BY LiveFollows, CheckpointedSteps, SavedSteps, NotSavedSteps DEF IInv, RetryHalt
<1>2. proc' \in Process
  BY HaltingTyped DEF IInv, Surroundings, RetryHalt
<1>3. Plain(Pass("retry")) /\ Plain(Raise("err", live)) /\ Plain(RetryReturns)
  BY PassPlain, RaisePlain, AtPlain DEF IInv, RetryReturns, Quiet, Loops, PC, Cancels, Context
<1>4. Plain(ctl')
  BY <1>3 DEF RetryHalt
<1> QED
  BY <1>1, <1>2, <1>4, InnerSteps DEF RetryHalt

LEMMA ResetTyped ==
    ASSUME IInv PROVE ResetProcess \in Process /\ Follows(ResetMemory)
<1>1. Follows(ResetMemory)
  BY LiveFollows, FlagsFollow DEF IInv, ResetMemory
<1>2. live.halted \in BOOLEAN
  BY DEF IInv, Memory, Typed, Snapshot
<1>3. ResetProcess \in Process
  BY <1>2 DEF IInv, Surroundings, ResetProcess, Process
<1> QED
  BY <1>1, <1>3

LEMMA RequestedResetSteady == ASSUME IInv, RequestedReset PROVE Steady
<1>1. MemoryStep
  BY ResetTyped, CheckpointedSteps, SavedSteps, NotSavedSteps DEF IInv, RequestedReset
<1>2. proc' \in Process /\ req' \in Requests
  BY ResetTyped, ClearedRequests DEF IInv, Surroundings, RequestedReset, DropReset
<1>3. /\ Plain(Quiet) /\ Plain(AfterReset)
      /\ Plain([At("halt", "again") EXCEPT !.cycle = ctl.cycle])
  BY AtPlain, AtCyclePlain DEF IInv, AfterReset, Quiet, PC, Cancels, Context
<1>4. Plain(ctl')
  BY <1>3 DEF RequestedReset
<1> QED
  BY <1>1, <1>2, <1>4, RequestSteps DEF RequestedReset

LEMMA FlattenSteady == ASSUME IInv, Flatten PROVE Steady
<1>1. MemoryStep
  BY CheckpointedSteps DEF IInv, Flatten
<1>2. proc' \in Process /\ req' \in Requests
  BY ClearedRequests DEF IInv, Surroundings, Flatten, FlattenAnswered
<1>3. /\ Plain(At("reconcile", "cycle")) /\ Plain(At("account", "exits"))
      /\ Plain(Pass("flatten"))
  BY AtPlain, PassPlain DEF IInv, Loops, PC, Cancels, Context
<1>4. Plain(ctl')
  BY <1>3 DEF Flatten
<1> QED
  BY <1>1, <1>2, <1>4, RequestSteps DEF Flatten

LEMMA FlattenPassEndsSteady == ASSUME IInv, FlattenPassEnds PROVE Steady
<1>1. MemoryStep
  BY CheckpointedSteps DEF IInv, FlattenPassEnds
<1>2. proc' \in Process /\ req' \in Requests
  BY ClearedRequests DEF IInv, Surroundings, FlattenPassEnds, FlattenAnswered
<1>3. Plain(Quiet) /\ Plain(At("reconcile", "cycle")) /\ Plain(At("account", "exits"))
  BY AtPlain DEF Quiet, PC, Cancels, Context
<1>4. Plain(ctl')
  BY <1>3 DEF FlattenPassEnds
<1> QED
  BY <1>1, <1>2, <1>4, RequestSteps DEF FlattenPassEnds

LEMMA FlattenAccountSteady == ASSUME IInv, FlattenAccount PROVE Steady
<1>1. /\ \A l : Plain(Raise("err", l))
      /\ Plain(Go("halt")) /\ Plain(Go("exitsHalt")) /\ Plain(Go("head"))
  BY RaisePlain, GoPlain DEF IInv, PC, Cancels
<1>2. ASSUME NEW X \in SUBSET Order PROVE Follows(Planned(X))
  <2>1. {GroupOf[o] : o \in X} \ {NoGroup} \in SUBSET Group
    BY RequestAssumption
  <2> QED
    BY <2>1, LiveFollows, QueuedFollows, FlagsFollow DEF IInv, Planned
<1>3. MemoryStep /\ Plain(ctl')
  <2>1. CASE Checkpointed /\ \/ ctl' \in {Go("halt"), Go("exitsHalt")}
                             \/ ctl' = Raise("err", live)
    BY <1>1, <2>1, CheckpointedSteps DEF IInv
  <2>2. CASE \E X \in SUBSET Order :
                \/ Saved(Planned(X)) /\ ctl' = Go("head")
                \/ NotSaved(Planned(X), TRUE) /\ ctl' = Raise("err", Planned(X))
    <3> QED
      BY <1>1, <1>2, <2>2, SavedSteps, NotSavedSteps DEF IInv
  <2>3. SUBSET Fresh(RecoveryExit) \subseteq SUBSET Order
    BY RequestAssumption DEF Fresh
  <2> QED
    BY <2>1, <2>2, <2>3 DEF FlattenAccount
<1> QED
  BY <1>3, InnerSteps DEF FlattenAccount, IInv, Surroundings

LEMMA ExitsHaltSteady == ASSUME IInv, ExitsHalt PROVE Steady
<1>1. Follows(HaltedMemory(live))
  BY LiveFollows, HaltedFollows DEF IInv
<1>2. MemoryStep
  BY <1>1, SavedSteps, NotSavedSteps DEF IInv, ExitsHalt
<1>3. proc' \in Process /\ req' \in Requests
  BY HaltingTyped, ClearedRequests DEF IInv, ExitsHalt, DropReset
<1>4. Plain(Quiet) /\ Plain(At("reconcile", "cycle")) /\ Plain(At("commit", "cycle"))
  BY AtPlain DEF Quiet, PC, Cancels, Context
<1>5. Plain(ctl')
  BY <1>4 DEF ExitsHalt
<1> QED
  BY <1>2, <1>3, <1>5, RequestSteps DEF ExitsHalt

-----------------------------------------------------------------------------
(* The operator and other threads. *)

LEMMA IdleControl ==
    ASSUME IInv, ctl.pc = "idle", UNCHANGED ctl PROVE Plain(ctl')
BY DEF IInv, Plain, Cancels

LEMMA OperatorHaltSteady == ASSUME IInv, OperatorHalt PROVE Steady
<1>1. MemoryStep
  BY CheckpointedSteps DEF IInv, OperatorHalt
<1>2. proc' \in Process /\ req' \in Requests /\ Plain(ctl')
  BY NewPassTyped, ManualHaltSteps DEF IInv, OperatorHalt
<1> QED
  BY <1>1, <1>2, RequestSteps DEF OperatorHalt

LEMMA OperatorResetSteady == ASSUME IInv, OperatorReset PROVE Steady
<1>1. MemoryStep
  BY ResetTyped, SavedSteps, NotSavedSteps DEF IInv, OperatorReset
<1>2. proc' \in Process /\ Plain(ctl')
  BY ResetTyped, IdleControl DEF OperatorReset
<1> QED
  BY <1>1, <1>2, InnerSteps DEF OperatorReset

LEMMA PauseEntriesSteady == ASSUME IInv, PauseEntries PROVE Steady
<1>1. Follows([live EXCEPT !.paused = TRUE])
  BY LiveFollows, FlagsFollow DEF IInv
<1>2. MemoryStep
  BY <1>1, SavedSteps, NotSavedSteps DEF IInv, PauseEntries
<1>3. proc' \in Process /\ Plain(ctl')
  BY IdleControl DEF PauseEntries, IInv, Surroundings
<1> QED
  BY <1>2, <1>3, InnerSteps DEF PauseEntries

\* A resume that fails may leave the store ahead of memory, which a steady
\* step does not: the checkpoint differs in the pause alone.
LEMMA ResumeEntriesKeeps == ASSUME IInv, ResumeEntries PROVE Keeps
<1> DEFINE l == [live EXCEPT !.paused = FALSE]
<1>1. Follows(l)
  BY LiveFollows, FlagsFollow DEF IInv
<1>2. l.order = live.order
  BY DEF IInv, Memory, Typed, Snapshot
<1>3. CASE Saved(l)
  <2>1. MemoryStep
    BY <1>1, <1>3, SavedSteps DEF IInv
  <2>2. proc' \in Process /\ Plain(ctl') /\ Outside
    BY IdleControl DEF ResumeEntries, IInv, Surroundings
  <2> QED
    BY <2>1, <2>2, InnerSteps, SteadyKeeps
<1>4. CASE disk' \in {disk, l} /\ UNCHANGED <<live, carried>>
  <2> HIDE DEF l
  <2>1. Typed(l)
    BY <1>1 DEF Follows
  <2>2. Memory'
    BY <1>4, <2>1 DEF IInv, Memory, Typed, BookedFill
  <2>3. UNCHANGED <<proc, ctl, req, venue, late>> /\ ctl.pc = "idle"
    BY DEF ResumeEntries, Outside
  <2>4. Surroundings' /\ ctl' \in Control /\ Placing' /\ Cancelled'
    BY <2>3 DEF IInv, Surroundings, Placing, Cancelled, Cancels
  <2>5. Recorded'
    BY <1>2, <1>4, <2>3 DEF IInv, Recorded, Received
  <2>6. SendsAtPlace
    BY <2>3, SilentSteps DEF IInv
  <2> QED
    BY <2>2, <2>4, <2>5, <2>6 DEF IInv, Keeps
<1> QED
  BY <1>3, <1>4 DEF ResumeEntries

LEMMA RequestSteady == ASSUME IInv, Request PROVE Steady
<1>1. UNCHANGED <<live, disk, carried, proc, ctl, venue, late>>
  BY DEF Request, Checkpointed
<1>2. MemoryStep
  BY <1>1, CheckpointedSteps DEF IInv, Checkpointed
<1>3. req' \in Requests
  BY DEF Request, IInv, Surroundings, Requests
<1>4. ControlStep
  BY <1>1 DEF IInv, ControlStep
<1> QED
  BY <1>1, <1>2, <1>3, <1>4, VenueUnchanged DEF IInv, Surroundings, Steady, OutsideStep

-----------------------------------------------------------------------------
(* The venue. *)

LEMMA VenueStepSteady ==
    ASSUME IInv, NEW o \in Order, VenueStep(o) PROVE Steady
<1>0. UNCHANGED <<live, disk, carried, proc, ctl, req>> /\ late' \in {late, late \cup {o}}
  BY DEF VenueStep, VenueFill, VenueReceives, VenueCancels, VenueEndsCancel, GetsLate,
         EngineUnchanged
<1>1. MemoryStep /\ ControlStep
  BY <1>0, CheckpointedSteps DEF Checkpointed, ControlStep, IInv
<1>2. proc' \in Process /\ req' \in Requests /\ late' \in SUBSET Order
  BY <1>0 DEF IInv, Surroundings
<1>3. ASSUME NEW s \in VenueStatus, Sets(o, s),
             venue[o].status \in {"sending", "working", "pending"},
             venue[o].status = "sending" \/ s \notin {"none", "sending"}
      PROVE  VenueKept
  <2>1. venue[o] \in SoundOrder
    BY DEF IInv, Surroundings
  <2>2. [venue[o] EXCEPT !.status = s] \in SoundOrder
    BY <1>3, <2>1 DEF SoundOrder, VenueOrder
  <2> QED
    BY <1>3, <2>1, <2>2 DEF Sets, VenueKept, Received, IInv, Surroundings, SoundOrder, VenueOrder
<1>4. ASSUME VenueFill(o) PROVE VenueKept
  <2> DEFINE n == venue[o].filled + 1
             v == [venue[o] EXCEPT !.filled = n,
                                   !.status = IF n = Qty THEN "filled" ELSE venue[o].status]
  <2>1. venue[o] \in SoundOrder /\ venue[o].status \in {"working", "pending"}
    BY <1>4 DEF IInv, Surroundings, VenueFill, AtVenue
  <2>2. n \in 0 .. Qty /\ (n # Qty => n < Qty)
    BY <2>1, QtyAssumption DEF SoundOrder, VenueOrder
  <2>3. v \in SoundOrder /\ v.sent = venue[o].sent /\ v.status \notin {"none", "sending"}
    BY <2>1, <2>2 DEF SoundOrder, VenueOrder, VenueStatus, Ended
  <2>4. venue' = [venue EXCEPT ![o] = v]
    BY <1>4 DEF VenueFill
  <2> HIDE DEF v
  <2> QED
    BY <2>3, <2>4 DEF VenueKept, Received, IInv, Surroundings
<1>5. ASSUME VenueReceives(o) \/ VenueCancels(o) \/ VenueEndsCancel(o) PROVE VenueKept
  BY <1>3, <1>5 DEF VenueReceives, VenueCancels, VenueEndsCancel, VenueStatus, Ended
<1>6. ASSUME GetsLate(o) PROVE VenueKept
  BY <1>6, VenueUnchanged DEF GetsLate, IInv
<1>7. VenueKept
  BY <1>4, <1>5, <1>6 DEF VenueStep
<1> QED
  BY <1>1, <1>2, <1>7 DEF Steady, OutsideStep

-----------------------------------------------------------------------------
(* Order work: the queue. *)

LEMMA AdvanceReturnsSteady == ASSUME IInv, AdvanceReturns PROVE Steady
<1>1. MemoryStep
  BY CheckpointedSteps DEF IInv, AdvanceReturns
<1>2. Plain(ctl')
  BY DonePlain DEF IInv, AdvanceReturns
<1> QED
  BY <1>1, <1>2, InnerSteps DEF AdvanceReturns, IInv, Surroundings

LEMMA FinishOwnCancelSteady ==
    ASSUME IInv, NEW o \in Order, FinishOwnCancel(o) PROVE Steady
<1>1. MemoryStep
  BY CheckpointedSteps DEF IInv, FinishOwnCancel
<1>2. Plain([GoWith("cancel", o) EXCEPT !.loop = "head"])
  <2> DEFINE c == GoWith("cancel", o)
  <2>1. Plain(c)
    BY GoPlain DEF IInv, PC, Cancels
  <2> HIDE DEF c
  <2>2. Plain([c EXCEPT !.loop = "head"])
    BY <2>1 DEF Plain, Control, Loops
  <2> QED
    BY <2>2 DEF c
<1> QED
  BY <1>1, <1>2, InnerSteps DEF FinishOwnCancel, IInv, Surroundings

LEMMA LegsTyped == ASSUME IInv, NEW o \in Order PROVE Legs(o) \in SUBSET Order
BY DEF IInv, Memory, Typed, Snapshot, Legs, Siblings

LEMMA DropPausedSteady ==
    ASSUME IInv, NEW o \in Order, DropPaused(o) PROVE Steady
<1> DEFINE b == live.rebalancing /\ Legs(o) \subseteq Entry
           l == [Dropped(Started(live, o), Legs(o)) EXCEPT !.rebalancing = b]
<1>1. b \in BOOLEAN
  OBVIOUS
<1>2. Follows(Dropped(Started(live, o), Legs(o)))
  BY LiveFollows, StartedFollows, DroppedFollows, LegsTyped DEF IInv
<1> HIDE DEF b
<1>3. Follows(l)
  BY <1>1, <1>2, FlagsFollow
<1>4. \/ Saved(l) /\ ctl' = Go("head")
      \/ NotSaved(l, TRUE) /\ ctl' = Raise("err", l)
  <2>1. Dropped(Started(live, o), Legs(o)).rebalancing = live.rebalancing
    BY DEF IInv, Memory, Typed, Snapshot, Dropped, Started
  <2> QED
    BY <2>1 DEF DropPaused, b
<1> HIDE DEF l
<1>5. MemoryStep
  BY <1>3, <1>4, SavedSteps, NotSavedSteps DEF IInv
<1>6. Plain(ctl')
  BY <1>4, GoPlain, RaisePlain DEF IInv, PC, Cancels
<1> QED
  BY <1>5, <1>6, InnerSteps DEF DropPaused, IInv, Surroundings

LEMMA DropUnfundedSteady ==
    ASSUME IInv, NEW o \in Order, DropUnfunded(o) PROVE Steady
<1>1. Follows([live EXCEPT !.rebalancing = FALSE])
  BY LiveFollows, FlagsFollow DEF IInv
<1>2. MemoryStep
  BY <1>1 DEF DropUnfunded, IInv, Memory, MemoryStep
<1>3. Plain([GoWith("loop", o) EXCEPT !.loop = "drop", !.todo = Legs(o)])
  BY LegsTyped, LoopPlain DEF IInv, Loops
<1> QED
  BY <1>2, <1>3, InnerSteps DEF DropUnfunded, IInv, Surroundings

\* An order is attempted in memory and in the checkpoint before it is placed,
\* and it is one the venue was never sent.
LEMMA AttemptKeeps ==
    ASSUME IInv, NEW o \in Order, Attempt(o) PROVE Keeps
<1> DEFINE l == [Started(live, o) EXCEPT !.order[o].attempted = TRUE]
<1>1. Follows(l)
  BY LiveFollows, StartedFollows, MarkedFollows DEF IInv
<1>2. l.order[o].attempted
  BY DEF IInv, Memory, Typed, Snapshot, TrackedOrder, Started
<1>3. /\ \/ Saved(l) /\ ctl' = GoWith("place", o)
         \/ NotSaved(l, TRUE) /\ ctl' = Raise("err", l)
      /\ proc' = proc /\ req' = req /\ venue' = venue /\ late' \in SUBSET Order
  BY DEF Attempt, IInv, Surroundings
<1> HIDE DEF l
<1>4. MemoryStep
  BY <1>1, <1>3, SavedSteps, NotSavedSteps DEF IInv
<1>5. OutsideStep
  BY <1>3, VenueUnchanged DEF IInv, Surroundings, OutsideStep
<1>6. CASE NotSaved(l, TRUE) /\ ctl' = Raise("err", l)
  <2>1. Plain(ctl')
    BY <1>6, RaisePlain DEF IInv
  <2> QED
    BY <1>4, <1>5, <2>1, PlainSteps, SteadyKeeps DEF Steady
<1>7. CASE Saved(l) /\ ctl' = GoWith("place", o)
  <2>1. ctl' \in Control /\ ctl'.pc = "place" /\ ctl'.cur = o
    BY <1>7 DEF IInv, GoWith, Go, At, Control, PC, Loops
  <2>2. Memory' /\ Surroundings'
    BY <1>3, <1>4, <1>5 DEF IInv, Memory, MemoryStep, Follows, Typed, BookedFill,
                            OutsideStep, VenueKept, Surroundings
  <2>3. Recorded'
    BY <1>1, <1>3, <1>7 DEF IInv, Recorded, Saved, Follows, Received
  <2>4. venue[o].sent = 0
    <3>1. ~live.order[o].attempted
      BY DEF Attempt, Submits
    <3>2. venue[o].sent \in 0 .. 2
      BY DEF IInv, Surroundings, SoundOrder, VenueOrder
    <3> QED
      BY <3>1, <3>2 DEF IInv, Recorded
  <2>5. o \in RecoveryExit \/ ~live.halted
    <3>1. o \in live.tracked /\ MayAdvance(o) /\ ~OwnCancel(o) /\ ~live.order[o].attempted
      BY DEF Attempt, Submits, Advances, IsHead, IsFirst
    <3>2. live.order[o].status # "cancel_pending"
      <4>1. ~Received(o)
        BY <2>4 DEF IInv, Surroundings, SoundOrder, VenueOrder, Received
      <4> QED
        BY <4>1 DEF IInv, Recorded, Heard
    <3> QED
      BY <3>1, <3>2 DEF MayAdvance, OwnCancel
  <2>6. live'.halted = live.halted /\ disk'.halted = live.halted
    BY <1>7 DEF l, Saved, Started, IInv, Memory, Typed, Snapshot
  <2>7. Placing'
    BY <1>2, <1>3, <1>7, <2>1, <2>4, <2>5, <2>6 DEF Placing, Saved
  <2>8. Cancelled'
    BY <2>1 DEF Cancelled, Cancels
  <2> QED
    BY <1>3, <2>1, <2>2, <2>3, <2>7, <2>8, SilentSteps DEF IInv, Keeps
<1> QED
  BY <1>3, <1>6, <1>7

-----------------------------------------------------------------------------
(* Order work: the placement. *)

\* What placing makes of the venue's record of an order it was never sent.
PlacedOrders == Arrivals \cup Refusals \cup Unheard

LEMMA PlacesSound ==
    ASSUME IInv, NEW o \in Order, venue[o].sent = 0, NEW v \in PlacedOrders, Places(o, v)
    PROVE  /\ venue' \in [Order -> SoundOrder]
           /\ venue'[o].status = v.status
           /\ \A p \in Order \ {o} : venue'[p] = venue[p]
           /\ v.status \notin {"none", "sending"} => Answer(ReportOf(v))
<1>1. v \in VenueOrder /\ (v.status \in {"sending", "working", "pending"} => v.filled < Qty)
  BY QtyAssumption
     DEF PlacedOrders, Arrivals, Refusals, Unheard, UnknownOrder, VenueOrder, VenueStatus, Ended
<1>2. [v EXCEPT !.sent = 1] \in SoundOrder /\ [v EXCEPT !.sent = 1].status = v.status
  BY <1>1 DEF SoundOrder, VenueOrder
<1>3. venue' = [venue EXCEPT ![o] = [v EXCEPT !.sent = 1]]
  BY DEF Places
<1> QED
  BY <1>1, <1>2, <1>3, ReportOfAnswers DEF IInv, Surroundings

\* A placement of an order attempted in memory and in the checkpoint, whatever
\* of its answer is recorded.
LEMMA PlacementKeeps ==
    ASSUME IInv, NEW o \in Order, ctl.pc = "place", ctl.cur = o,
           venue' \in [Order -> SoundOrder],
           \A p \in Order \ {o} : venue'[p] = venue[p],
           Memory', proc' \in Process, UNCHANGED <<req, late>>, Plain(ctl'),
           disk' \in {disk, live'},
           \A p \in Order :
              /\ live.order[p].attempted => live'.order[p].attempted
              /\ Heard(live'.order[p]) => Heard(live.order[p]) \/ Received(p)'
    PROVE  Keeps
<1>1. Surroundings'
  BY DEF IInv, Surroundings
<1>2. live.order[o].attempted /\ disk.order[o].attempted /\ venue[o].sent = 0
  BY DEF IInv, Placing
<1>3. ~Heard(live.order[o]) /\ ~Heard(disk.order[o])
  <2>1. ~Received(o)
    BY <1>2 DEF IInv, Surroundings, SoundOrder, VenueOrder, Received
  <2> QED
    BY <2>1 DEF IInv, Recorded
<1>4. Recorded'
  <2> SUFFICES ASSUME NEW p \in Order
               PROVE  /\ venue'[p].sent > 0 =>
                            live'.order[p].attempted /\ disk'.order[p].attempted
                      /\ Heard(live'.order[p]) \/ Heard(disk'.order[p]) => Received(p)'
    BY DEF Recorded
  <2>1. CASE p = o
    BY <1>2, <1>3, <2>1
  <2>2. CASE p # o
    <3>1. venue'[p] = venue[p] /\ (Received(p)' <=> Received(p))
      BY <2>2 DEF Received
    <3> QED
      BY <3>1 DEF IInv, Recorded
  <2> QED
    BY <2>1, <2>2
<1>5. ctl' \in Control /\ Placing' /\ Cancelled'
  BY DEF Plain, Placing, Cancelled
<1>6. SendsAtPlace
  BY DEF IInv, Surroundings, SoundOrder, VenueOrder, SendsAtPlace, Sends
<1> QED
  BY <1>1, <1>4, <1>5, <1>6 DEF IInv, Keeps

LEMMA PlaceAnsweredKeeps ==
    ASSUME IInv, NEW o \in Order, PlaceAnswered(o) PROVE Keeps
<1> PICK v \in Arrivals \cup Refusals :
          /\ Places(o, v)
          /\ Report(proc, o, [ReportOf(v) EXCEPT !.hasId = v.status # "rejected"],
                    GoWith("judge", o), Raise("err", live'))
  BY DEF PlaceAnswered
<1> DEFINE r == [ReportOf(v) EXCEPT !.hasId = v.status # "rejected"]
           l == Applied(live, o, r)
<1>1. ctl.pc = "place" /\ ctl.cur = o /\ UNCHANGED <<req, late>>
  BY DEF PlaceAnswered
<1>2. v.status \notin {"none", "sending"}
  BY DEF Arrivals, Refusals, UnknownOrder
<1>3. venue[o].sent = 0
  BY <1>1 DEF IInv, Placing
<1>4. /\ venue' \in [Order -> SoundOrder]
      /\ venue'[o].status = v.status
      /\ \A p \in Order \ {o} : venue'[p] = venue[p]
      /\ Answer(ReportOf(v))
  BY <1>2, <1>3, PlacesSound DEF PlacedOrders
<1>5. Answer(r)
  BY <1>4 DEF Answer, ReportOf
<1>6. Received(o)'
  BY <1>2, <1>4 DEF Received
<1> HIDE DEF r
<1>7. /\ Typed(l)
      /\ \A p \in Order : /\ live.order[p].attempted => l.order[p].attempted
                          /\ Heard(l.order[p]) => Heard(live.order[p]) \/ Received(p)'
  BY <1>5, <1>6, AppliedTyped DEF IInv
<1>8. /\ proc' = AfterReport(proc, o, r)
      /\ \/ Saved(l) /\ ctl' = GoWith("judge", o)
         \/ NotSaved(l, TRUE) /\ ctl' = Raise("err", live')
  BY DEF Report, r
<1> HIDE DEF l
<1>9. Memory' /\ live' = l /\ disk' \in {disk, live'}
  BY <1>7, <1>8 DEF IInv, Memory, Saved, NotSaved, Typed, BookedFill
<1>10. proc' \in Process
  BY <1>8, AfterReportTyped DEF IInv, Surroundings
<1>11. Plain(ctl')
  BY <1>8, GoPlain, RaisePlain DEF IInv, PC, Cancels
<1> QED
  BY <1>1, <1>4, <1>7, <1>9, <1>10, <1>11, PlacementKeeps

LEMMA PlaceUnclearKeeps ==
    ASSUME IInv, NEW o \in Order, PlaceUnclear(o) PROVE Keeps
<1>1. /\ ctl.pc = "place" /\ ctl.cur = o
      /\ UNCHANGED <<live, disk, carried, proc, req, late>>
  BY DEF PlaceUnclear, Checkpointed
<1>2. PICK v \in PlacedOrders : Places(o, v)
  BY DEF PlaceUnclear, PlacedOrders
<1>3. venue[o].sent = 0
  BY <1>1 DEF IInv, Placing
<1>4. /\ venue' \in [Order -> SoundOrder]
      /\ \A p \in Order \ {o} : venue'[p] = venue[p]
  BY <1>2, <1>3, PlacesSound
<1>5. Plain(ctl')
  BY GoPlain, RaisePlain DEF PlaceUnclear, IInv, PC, Cancels
<1>6. Memory' /\ proc' \in Process
  BY <1>1 DEF IInv, Surroundings, Memory, Typed, BookedFill
<1> QED
  BY <1>1, <1>4, <1>5, <1>6, PlacementKeeps

\* A report read from an order the venue received, with nothing else outside.
LEMMA ReadReportSteady ==
    ASSUME IInv, NEW o \in Order, NEW r \in ReadReports(o), NEW kept, NEW lost,
           Report(proc, o, r, kept, lost), Plain(kept), Plain(lost), Outside
    PROVE  Steady
<1>1. Answer(r) /\ Received(o)
  BY ReadAnswers DEF IInv
<1>2. MemoryStep /\ proc' \in Process /\ (ctl' = kept \/ ctl' = lost)
  BY <1>1, ReportSteps DEF IInv, Surroundings
<1> QED
  BY <1>2, InnerSteps

LEMMA CallControlPlain ==
    ASSUME IInv, NEW o \in Order
    PROVE  /\ Plain(GoWith("judge", o)) /\ Plain(GoWith("timeout", o))
           /\ Plain(GoWith("timedOut", o))
           /\ Plain(Go("halt")) /\ Plain(Go("head"))
           /\ \A l : Plain(Raise("err", l)) /\ Plain(Done(l))
<1>1. ctl \in Control
  BY DEF IInv
<1>2. /\ Plain(GoWith("judge", o)) /\ Plain(GoWith("timeout", o))
      /\ Plain(GoWith("timedOut", o)) /\ Plain(Go("halt")) /\ Plain(Go("head"))
  BY <1>1, GoPlain DEF PC, Cancels
<1>3. \A l : Plain(Raise("err", l)) /\ Plain(Done(l))
  BY <1>1, RaisePlain, DonePlain
<1> QED
  BY <1>2, <1>3

LEMMA LookupSteady ==
    ASSUME IInv, NEW o \in Order, Lookup(o) PROVE Steady
<1>1. CASE \E r \in ReadReports(o) :
              Report(proc, o, r, GoWith("judge", o), Raise("err", live'))
  <2> PICK r \in ReadReports(o) :
         Report(proc, o, r, GoWith("judge", o), Raise("err", live'))
    BY <1>1
  <2>1. Plain(GoWith("judge", o)) /\ Plain(Raise("err", live')) /\ Outside
    BY CallControlPlain DEF Lookup
  <2> QED
    BY <2>1, ReadReportSteady
<1>2. CASE /\ ctl' = Go("halt") \/ ctl' = Raise("err", live)
           /\ UNCHANGED proc /\ Checkpointed
  <2>1. MemoryStep
    BY <1>2, CheckpointedSteps DEF IInv
  <2>2. Plain(ctl')
    BY <1>2, CallControlPlain
  <2> QED
    BY <1>2, <2>1, <2>2, InnerSteps DEF Lookup, IInv, Surroundings
<1> QED
  BY <1>1, <1>2 DEF Lookup

LEMMA PollSteady ==
    ASSUME IInv, NEW o \in Order, Poll(o) PROVE Steady
<1>1. CASE \E r \in ReadReports(o) :
              Report(proc, o, r, GoWith("judge", o), Raise("err", live'))
  <2> PICK r \in ReadReports(o) :
         Report(proc, o, r, GoWith("judge", o), Raise("err", live'))
    BY <1>1
  <2>1. Plain(GoWith("judge", o)) /\ Plain(Raise("err", live')) /\ Outside
    BY CallControlPlain DEF Poll
  <2> QED
    BY <2>1, ReadReportSteady
<1>2. CASE /\ ctl' \in {Go("halt"), GoWith("timeout", o), Raise("err", live), Done(live)}
           /\ UNCHANGED proc /\ Checkpointed
  <2>1. MemoryStep
    BY <1>2, CheckpointedSteps DEF IInv
  <2>2. Plain(ctl')
    BY <1>2, CallControlPlain
  <2> QED
    BY <1>2, <2>1, <2>2, InnerSteps DEF Poll, IInv, Surroundings
<1> QED
  BY <1>1, <1>2 DEF Poll

LEMMA RiskTyped ==
    ASSUME Surroundings, RiskPassed PROVE proc' \in Process
BY DEF RiskPassed, Surroundings, Process

LEMMA JudgeSteady ==
    ASSUME IInv, NEW o \in Order, Judge(o) PROVE Steady
<1>1. Checkpointed /\ RiskPassed /\ Outside
  BY DEF Judge, RiskBreached
<1>2. /\ \A b \in BOOLEAN : Plain(LegFails(o, b, FALSE))
      /\ Plain(Go("halt")) /\ Plain(Go("head")) /\ Plain(GoWith("timeout", o))
      /\ Plain(Done(live))
  BY CallControlPlain, LegFailsPlain DEF IInv, Memory, Typed
<1>3. Plain(ctl')
  BY <1>2 DEF Judge, RiskBreached
<1> QED
  BY <1>1, <1>3, CheckpointedSteps, RiskTyped, InnerSteps DEF IInv

LEMMA TimedOutSteady ==
    ASSUME IInv, NEW o \in Order, TimedOut(o) PROVE Steady
<1>1. RiskPassed /\ Outside
  BY DEF TimedOut, RiskBreached
<1>2. MemoryStep
  BY LiveFollows, CheckpointedSteps, SavedSteps, NotSavedSteps
     DEF TimedOut, RiskBreached, IInv
<1>3. /\ Plain(LegFails(o, FALSE, TRUE)) /\ Plain(Go("halt"))
      /\ Plain(Done(live)) /\ Plain(Raise("err", live))
  BY CallControlPlain, LegFailsPlain DEF IInv, Memory, Typed
<1>4. Plain(ctl')
  BY <1>3 DEF TimedOut, RiskBreached
<1> QED
  BY <1>1, <1>2, <1>4, RiskTyped, InnerSteps DEF IInv

LEMMA CancelJudgedSteady ==
    ASSUME IInv, NEW o \in Order, CancelJudged(o) PROVE Steady
<1>1. Checkpointed /\ RiskPassed /\ Outside
  BY DEF CancelJudged, RiskBreached
<1>2. /\ Plain(LegFails(o, FALSE, FALSE)) /\ Plain(Go("halt")) /\ Plain(Go("head"))
      /\ Plain(Done(live))
  BY CallControlPlain, LegFailsPlain DEF IInv, Memory, Typed
<1>3. Plain(ctl')
  BY <1>2 DEF CancelJudged, RiskBreached
<1> QED
  BY <1>1, <1>3, CheckpointedSteps, RiskTyped, InnerSteps DEF IInv

-----------------------------------------------------------------------------
(* Order work: the cancels. *)

LEMMA CancelKept ==
    ASSUME Surroundings, NEW o \in Order, NEW v \in AfterCancel(venue[o]),
           venue' \in {venue, [venue EXCEPT ![o] = v]}
    PROVE  VenueKept
<1>1. venue[o] \in SoundOrder
  BY DEF Surroundings
<1>2. v \in SoundOrder /\ v.sent = venue[o].sent /\ (Received(o) => v.status \notin {"none", "sending"})
  BY <1>1 DEF AfterCancel, SoundOrder, VenueOrder, VenueStatus, Ended, Received
<1> QED
  BY <1>2 DEF VenueKept, Received, Surroundings

LEMMA CancelAnswers ==
    ASSUME Surroundings, NEW o \in Order, NEW v \in AfterCancel(venue[o]), Received(o)
    PROVE  Answer(ReportOf(v))
<1>1. v \in VenueOrder /\ v.status \notin {"none", "sending"}
  BY DEF Surroundings, AfterCancel, SoundOrder, VenueOrder, VenueStatus, Ended, Received
<1> QED
  BY <1>1, ReportOfAnswers

\* The answer of a cancel: recorded, applied to nothing, or missing.
LEMMA CancelCallSteady ==
    ASSUME IInv, NEW o \in Order, Received(o), NEW v \in AfterCancel(venue[o]),
           NEW kept, NEW lost, NEW bad, NEW silent,
           Plain(kept), Plain(lost), Plain(bad), Plain(silent),
           UNCHANGED <<req, late>>,
           \/ /\ venue' = [venue EXCEPT ![o] = v]
              /\ \/ Report(Sent(o), o, ReportOf(v), kept, lost)
                 \/ proc' = Sent(o) /\ ctl' = bad /\ Checkpointed
           \/ /\ venue' \in {venue, [venue EXCEPT ![o] = v]}
              /\ ctl' = silent /\ UNCHANGED proc /\ Checkpointed
    PROVE  Steady
<1>1. VenueKept
  BY CancelKept DEF IInv
<1>2. Sent(o) \in Process /\ proc \in Process
  BY SentTyped DEF IInv, Surroundings
<1>3. MemoryStep /\ proc' \in Process /\ Plain(ctl')
  <2>1. CASE Report(Sent(o), o, ReportOf(v), kept, lost)
    BY <1>2, <2>1, CancelAnswers, ReportSteps DEF IInv
  <2>2. CASE Checkpointed /\ proc' \in {proc, Sent(o)} /\ ctl' \in {bad, silent}
    BY <1>2, <2>2, CheckpointedSteps DEF IInv
  <2> QED
    BY <2>1, <2>2
<1> QED
  BY <1>1, <1>3, PlainSteps DEF Steady, OutsideStep, IInv, Surroundings

LEMMA CancelControlPlain ==
    ASSUME IInv
    PROVE  /\ Plain(CancelReturns)
           /\ \A l : Plain(CancelRaises("bad", l)) /\ Plain(CancelRaises("err", l))
BY CancelReturnsPlain, CancelRaisesPlain DEF IInv

LEMMA TimeoutSteady ==
    ASSUME IInv, NEW o \in Order, Timeout(o) PROVE Steady
<1> DEFINE l == [live EXCEPT !.order[o].cancelRequested = TRUE]
<1>1. Follows(l) /\ Follows(live)
  BY LiveFollows, MarkedFollows DEF IInv
<1>2. /\ UNCHANGED proc /\ Outside
      /\ \/ Checkpointed /\ ctl' = Go("halt")
         \/ /\ live.order[o].hasId
            /\ \/ Saved(l) /\ ctl' = GoWith("timeoutCancel", o)
               \/ NotSaved(l, TRUE) /\ ctl' = Raise("err", l)
  BY DEF Timeout
<1> HIDE DEF l
<1>3. MemoryStep
  BY <1>1, <1>2, CheckpointedSteps, SavedSteps, NotSavedSteps DEF IInv
<1>4. OutsideStep
  BY <1>2, OutsideSteps DEF IInv, Surroundings
<1>5. ControlStep
  <2>1. CASE ctl' = Go("halt") \/ ctl' = Raise("err", l)
    BY <2>1, CallControlPlain, PlainSteps
  <2>2. CASE ctl' = GoWith("timeoutCancel", o) /\ live.order[o].hasId
    <3>1. ctl' \in Control /\ ctl'.pc = "timeoutCancel" /\ ctl'.cur = o
      BY <2>2 DEF IInv, GoWith, Go, At, Control, PC, Loops
    <3>2. Received(o)
      BY <2>2 DEF IInv, Recorded, Heard
    <3> QED
      BY <3>1, <3>2 DEF ControlStep
  <2> QED
    BY <1>2, <2>1, <2>2
<1> QED
  BY <1>3, <1>4, <1>5 DEF Steady

LEMMA TimeoutCancelSteady ==
    ASSUME IInv, NEW o \in Order, TimeoutCancel(o) PROVE Steady
<1>1. ctl.pc = "timeoutCancel" /\ ctl.cur = o /\ UNCHANGED <<req, late>>
  BY DEF TimeoutCancel
<1>2. Received(o)
  BY <1>1 DEF IInv, Cancelled, Cancels
<1>3. Plain(GoWith("timedOut", o)) /\ Plain(Go("halt"))
  BY CallControlPlain
<1>4. PICK v \in AfterCancel(venue[o]) :
         \/ /\ venue' = [venue EXCEPT ![o] = v]
            /\ \/ Report(Sent(o), o, ReportOf(v), GoWith("timedOut", o), Go("halt"))
               \/ proc' = Sent(o) /\ ctl' = Go("halt") /\ Checkpointed
         \/ /\ venue' \in {venue, [venue EXCEPT ![o] = v]}
            /\ ctl' = Go("halt") /\ UNCHANGED proc /\ Checkpointed
  BY DEF TimeoutCancel
<1> QED
  BY <1>1, <1>2, <1>3, <1>4, CancelCallSteady

LEMMA CancelSendsSteady ==
    ASSUME IInv, NEW o \in Order, CancelSends(o) PROVE Steady
<1>1. ctl.pc = "send" /\ ctl.cur = o /\ UNCHANGED <<req, late>>
  BY DEF CancelSends
<1>2. Received(o)
  BY <1>1 DEF IInv, Cancelled, Cancels
<1>3. /\ Plain(CancelReturns) /\ Plain(CancelRaises("err", live'))
      /\ Plain(CancelRaises("bad", live))
  BY CancelControlPlain
<1>4. PICK v \in AfterCancel(venue[o]) :
         \/ /\ venue' = [venue EXCEPT ![o] = v]
            /\ \/ Report(Sent(o), o, ReportOf(v), CancelReturns, CancelRaises("err", live'))
               \/ proc' = Sent(o) /\ ctl' = CancelRaises("bad", live) /\ Checkpointed
         \/ /\ venue' \in {venue, [venue EXCEPT ![o] = v]}
            /\ ctl' = CancelReturns /\ UNCHANGED proc /\ Checkpointed
  BY DEF CancelSends
<1> QED
  BY <1>1, <1>2, <1>3, <1>4, CancelCallSteady

LEMMA CancelForcedSteady ==
    ASSUME IInv, NEW o \in Order, CancelForced(o) PROVE Steady
<1>1. ctl.pc = "force" /\ ctl.cur = o /\ UNCHANGED <<req, late>>
  BY DEF CancelForced
<1>2. Received(o)
  BY <1>1 DEF IInv, Cancelled, Cancels
<1>3. Plain(CancelRaises("bad", live')) /\ Plain(CancelRaises("bad", live))
  BY CancelControlPlain
<1>4. PICK v \in AfterCancel(venue[o]) :
         \/ /\ venue' = [venue EXCEPT ![o] = v]
            /\ \/ Report(Sent(o), o, ReportOf(v), CancelRaises("bad", live'),
                         CancelRaises("bad", live'))
               \/ proc' = Sent(o) /\ ctl' = CancelRaises("bad", live) /\ Checkpointed
         \/ /\ venue' \in {venue, [venue EXCEPT ![o] = v]}
            /\ ctl' = CancelRaises("bad", live) /\ UNCHANGED proc /\ Checkpointed
  BY DEF CancelForced
<1> QED
  BY <1>1, <1>2, <1>3, <1>4, CancelCallSteady

LEMMA CancelUnsentSteady ==
    ASSUME IInv, NEW o \in Order, CancelUnsent(o) PROVE Steady
<1> DEFINE l == Dropped(live, {o})
<1>1. Follows(l)
  BY LiveFollows, DroppedFollows DEF IInv
<1>2. /\ UNCHANGED proc /\ Outside
      /\ \/ Saved(l) /\ ctl' = CancelReturns
         \/ NotSaved(l, TRUE) /\ ctl' = CancelRaises("err", l)
  BY DEF CancelUnsent
<1> HIDE DEF l
<1>3. MemoryStep
  BY <1>1, <1>2, SavedSteps, NotSavedSteps DEF IInv
<1>4. Plain(ctl')
  BY <1>2, CancelControlPlain
<1> QED
  BY <1>2, <1>3, <1>4, InnerSteps DEF IInv, Surroundings

LEMMA RequestCancelSteady ==
    ASSUME IInv, NEW o \in Order, RequestCancel(o) PROVE Steady
<1> DEFINE l == [live EXCEPT !.order[o].cancelRequested = TRUE]
<1>1. Follows(l)
  BY LiveFollows, MarkedFollows DEF IInv
<1>2. /\ UNCHANGED proc /\ Outside /\ ctl.pc = "cancel"
      /\ \/ Saved(l) /\ UNCHANGED ctl
         \/ NotSaved(l, TRUE) /\ ctl' = CancelRaises("err", l)
  BY DEF RequestCancel, Cancelling
<1> HIDE DEF l
<1>3. MemoryStep
  BY <1>1, <1>2, SavedSteps, NotSavedSteps DEF IInv
<1>4. Plain(ctl')
  <2>1. CASE UNCHANGED ctl
    BY <1>2, <2>1 DEF IInv, Plain, Cancels
  <2>2. CASE ctl' = CancelRaises("err", l)
    BY <2>2, CancelControlPlain
  <2> QED
    BY <1>2, <2>1, <2>2
<1> QED
  BY <1>2, <1>3, <1>4, InnerSteps DEF IInv, Surroundings

LEMMA CancelReadsSteady ==
    ASSUME IInv, NEW o \in Order, CancelReads(o) PROVE Steady
<1> DEFINE send == [ctl EXCEPT !.pc = "send"]
           force == [ctl EXCEPT !.pc = "force"]
<1>1. ctl.cur = o /\ Outside
  BY DEF CancelReads, Cancelling
<1>2. /\ send \in Control /\ send.pc = "send" /\ send.cur = o
      /\ force \in Control /\ force.pc = "force" /\ force.cur = o
  BY <1>1 DEF IInv, Control, PC
<1> HIDE DEF send, force
<1>3. ASSUME ctl' \in {send, force}, Received(o) PROVE ControlStep
  BY <1>2, <1>3 DEF ControlStep
<1>4. ASSUME \/ ctl' = CancelReturns
             \/ \E l : ctl' \in {CancelRaises("bad", l), CancelRaises("err", l)}
      PROVE  ControlStep
  BY <1>4, CancelControlPlain, PlainSteps
<1>5. CASE \E r \in ReadReports(o), kept \in {CancelReturns, send} :
              Report(proc, o, r, kept, CancelRaises("err", live'))
  <2> PICK r \in ReadReports(o), kept \in {CancelReturns, send} :
         Report(proc, o, r, kept, CancelRaises("err", live'))
    BY <1>5
  <2>1. Answer(r) /\ Received(o)
    BY ReadAnswers DEF IInv
  <2>2. /\ MemoryStep /\ proc' \in Process
        /\ ctl' = kept \/ ctl' = CancelRaises("err", live')
    BY <2>1, ReportSteps DEF IInv, Surroundings
  <2>3. ControlStep
    BY <1>3, <1>4, <2>1, <2>2
  <2> QED
    BY <1>1, <2>2, <2>3, OutsideSteps DEF IInv, Steady
<1>6. CASE /\ UNCHANGED proc /\ Checkpointed
           /\ \/ ctl' \in {send, force} /\ Received(o)
              \/ ctl' \in {CancelReturns, CancelRaises("bad", live)}
  <2>1. MemoryStep
    BY <1>6, CheckpointedSteps DEF IInv
  <2>2. ControlStep
    BY <1>3, <1>4, <1>6
  <2>3. OutsideStep
    BY <1>1, <1>6, OutsideSteps DEF IInv, Surroundings
  <2> QED
    BY <2>1, <2>2, <2>3 DEF Steady
<1>7. live.order[o].hasId => Received(o)
  BY DEF IInv, Recorded, Heard
<1>8. MayGarble(o) => Received(o)
  BY DEF MayGarble
<1> QED
  BY <1>5, <1>6, <1>7, <1>8 DEF CancelReads, send, force

LEMMA NextInLoopSteady ==
    ASSUME IInv, NEW o \in Order, NextInLoop(o) PROVE Steady
<1>1. MemoryStep
  BY CheckpointedSteps DEF IInv, NextInLoop
<1>2. Plain(ctl')
  BY DEF IInv, NextInLoop, Plain, Control, PC, Cancels
<1> QED
  BY <1>1, <1>2, InnerSteps DEF NextInLoop, IInv, Surroundings

LEMMA GroupCancelledSteady == ASSUME IInv, GroupCancelled PROVE Steady
<1> DEFINE l == [live EXCEPT !.rebalancing = FALSE]
           next == IF ctl.loop = "group" THEN Go("head") ELSE Done(l)
<1>1. Follows(l)
  BY LiveFollows, FlagsFollow DEF IInv
<1>2. Plain(Go("head")) /\ Plain(Done(l)) /\ Plain(Raise("err", l))
  BY GoPlain, DonePlain, RaisePlain DEF IInv, PC, Cancels
<1>3. Plain(next)
  BY <1>2
<1>4. /\ UNCHANGED proc /\ Outside
      /\ \/ Saved(l) /\ ctl' = next
         \/ NotSaved(l, FALSE) /\ ctl' = Raise("err", l)
         \/ Checkpointed /\ ctl' = next
  BY DEF GroupCancelled
<1> HIDE DEF l, next
<1>5. MemoryStep
  BY <1>1, <1>4, CheckpointedSteps, SavedSteps, NotSavedSteps DEF IInv
<1>6. Plain(ctl')
  BY <1>2, <1>3, <1>4
<1> QED
  BY <1>4, <1>5, <1>6, InnerSteps DEF IInv, Surroundings

LEMMA LegsDroppedSteady == ASSUME IInv, LegsDropped PROVE Steady
<1>1. Follows(Started(live, ctl.cur))
  BY LiveFollows DEF IInv, Started, Follows, Typed, BookedFill, Snapshot
<1>2. MemoryStep
  BY <1>1 DEF LegsDropped, MemoryStep, IInv, Memory
<1>3. Plain(ctl')
  BY GoPlain DEF LegsDropped, IInv, PC, Cancels
<1> QED
  BY <1>2, <1>3, InnerSteps DEF LegsDropped, IInv, Surroundings

-----------------------------------------------------------------------------
(* The invariant. *)

LEMMA InitHolds == Init => IInv
<1> SUFFICES ASSUME Init PROVE IInv
  OBVIOUS
<1>1. FreshOrder \in TrackedOrder /\ FreshOrder.filled = 0 /\ ~Heard(FreshOrder)
  BY QtyAssumption DEF FreshOrder, TrackedOrder, Status, Heard
<1>2. FreshSnapshot \in Snapshot /\ BookedFill(FreshSnapshot)
  BY <1>1, QtyAssumption DEF FreshSnapshot, Snapshot, BookedFill
<1>3. Memory
  BY <1>2 DEF Init, Memory, Typed
<1>4. UnknownOrder \in SoundOrder /\ UnknownOrder.sent = 0
  BY QtyAssumption DEF UnknownOrder, SoundOrder, VenueOrder, VenueStatus
<1>5. Surroundings
  BY <1>4 DEF Init, Surroundings, FreshProcess, Process, NoRequest, Requests
<1>6. Plain(ctl)
  BY AtPlain DEF Init, PC, Cancels, Context
<1>7. Recorded
  BY <1>1, <1>4 DEF Init, Recorded, FreshSnapshot
<1> QED
  BY <1>3, <1>5, <1>6, <1>7 DEF IInv, Plain, Placing, Cancelled

LEMMA CycleKeeps == ASSUME IInv, CycleStep PROVE Keeps
BY SteadyKeeps, BeginCycleSteady, CarryRowsSteady, ReconcileSteady, BarSteady,
   EventSteady, DecideSteady, RebalanceLegSteady, EquitySteady, CommitSteady,
   StartKeeps, OpenOrdersSteady, VerifySteady
   DEF CycleStep

LEMMA AccountHaltKeeps == ASSUME IInv, AccountHaltStep PROVE Keeps
BY SteadyKeeps, HaltSteady, HaltPassEndsSteady, RetryHaltSteady, RequestedResetSteady,
   FlattenSteady, FlattenPassEndsSteady, FlattenAccountSteady, ExitsHaltSteady
   DEF AccountHaltStep

LEMMA OperatorKeeps == ASSUME IInv, OperatorStep PROVE Keeps
BY SteadyKeeps, OperatorHaltSteady, OperatorResetSteady, PauseEntriesSteady,
   ResumeEntriesKeeps, RequestSteady
   DEF OperatorStep

LEMMA OrderWorkKeeps == ASSUME IInv, OrderWorkStep PROVE Keeps
<1>1. CASE AdvanceReturns \/ GroupCancelled \/ LegsDropped
  BY <1>1, SteadyKeeps, AdvanceReturnsSteady, GroupCancelledSteady, LegsDroppedSteady
<1>2. ASSUME NEW o \in Order,
             \/ FinishOwnCancel(o) \/ DropPaused(o) \/ DropUnfunded(o) \/ Attempt(o)
             \/ PlaceAnswered(o) \/ PlaceUnclear(o)
      PROVE  Keeps
  BY <1>2, SteadyKeeps, FinishOwnCancelSteady, DropPausedSteady, DropUnfundedSteady,
     AttemptKeeps, PlaceAnsweredKeeps, PlaceUnclearKeeps
<1>3. ASSUME NEW o \in Order,
             \/ Lookup(o) \/ Poll(o) \/ Judge(o)
             \/ Timeout(o) \/ TimeoutCancel(o) \/ TimedOut(o)
      PROVE  Keeps
  BY <1>3, SteadyKeeps, LookupSteady, PollSteady, JudgeSteady, TimeoutSteady,
     TimeoutCancelSteady, TimedOutSteady
<1>4. ASSUME NEW o \in Order,
             \/ CancelUnsent(o) \/ RequestCancel(o) \/ CancelReads(o) \/ CancelSends(o)
             \/ CancelForced(o) \/ CancelJudged(o) \/ NextInLoop(o)
      PROVE  Keeps
  BY <1>4, SteadyKeeps, CancelUnsentSteady, RequestCancelSteady, CancelReadsSteady,
     CancelSendsSteady, CancelForcedSteady, CancelJudgedSteady, NextInLoopSteady
<1> QED
  BY <1>1, <1>2, <1>3, <1>4 DEF OrderWorkStep

LEMMA StutterKeeps == ASSUME IInv, UNCHANGED vars PROVE Keeps
<1>1. IInv'
  BY DEF vars, IInv, Memory, Typed, BookedFill, Surroundings, Recorded, Placing, Cancelled,
         Received
<1>2. SendsAtPlace
  BY SilentSteps DEF vars, IInv
<1> QED
  BY <1>1, <1>2 DEF Keeps

LEMMA NextKeeps == IInv /\ [Next]_vars => Keeps
BY CycleKeeps, AccountHaltKeeps, OperatorKeeps, OrderWorkKeeps, StutterKeeps, CrashKeeps,
   VenueStepSteady, SteadyKeeps
   DEF Next, EngineStep

\* The invariant the theorems below follow from holds in every reachable state.
THEOREM Invariance == Spec => []IInv
<1>1. IInv /\ [Next]_vars => IInv'
  BY NextKeeps DEF Keeps
<1> QED
  BY <1>1, InitHolds, PTL DEF Spec

\* Every variable keeps its type: in particular no report of the venue books
\* an order beyond its quantity (_apply_order_report).
THEOREM TypeCorrectness == Spec => []TypeOK
<1>1. IInv => TypeOK
  BY DEF IInv, Memory, Typed, Surroundings, SoundOrder, TypeOK
<1> QED
  BY <1>1, Invariance, PTL

\* A placement the venue may know of is in the checkpoint as attempted
\* (_advance_live_orders persists the attempt before the call).
THEOREM WriteAheadHolds == Spec => []WriteAhead
<1>1. IInv => WriteAhead
  BY DEF IInv, Recorded, WriteAhead
<1> QED
  BY <1>1, Invariance, PTL

\* No order is sent to the venue twice, whatever crashes, failed writes and
\* unanswered calls come between (_advance_live_orders looks an attempted
\* placement up and never repeats it).
THEOREM PlacedOnceHolds == Spec => []PlacedOnce
<1>1. IInv => PlacedOnce
  BY DEF IInv, Surroundings, SoundOrder, PlacedOnce
<1> QED
  BY <1>1, Invariance, PTL

\* A halted account sends nothing but the exits of its own flatten, neither
\* halted in memory nor by the checkpoint a restart would load
\* (_advance_live_orders, the guard of its loop).
THEOREM HaltedAccountSilent == Spec => HaltedSendsNothing
<1> DEFINE A == \A o \in Order :
                   Sends(o) => \/ o \in RecoveryExit
                               \/ ~live.halted /\ ~disk.halted
<1>1. IInv /\ [Next]_vars => A
  <2> SUFFICES ASSUME IInv, [Next]_vars, NEW o \in Order, Sends(o)
               PROVE  o \in RecoveryExit \/ (~live.halted /\ ~disk.halted)
    OBVIOUS
  <2>1. ctl.pc = "place" /\ ctl.cur = o
    BY NextKeeps DEF Keeps, SendsAtPlace
  <2> QED
    BY <2>1 DEF IInv, Placing
<1>2. IInv /\ [Next]_vars => [A]_vars
  BY <1>1
<1> QED
  BY <1>2, Invariance, PTL DEF Spec, HaltedSendsNothing

=============================================================================
