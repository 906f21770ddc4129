---------------------------- MODULE LiveOrdersProofs ---------------------------
(***************************************************************************)
(* Theorems about the orders of LiveTrader, for every set of orders,       *)
(* groups, plans and events: none is forgotten while it may trade, the     *)
(* book takes every unit once, dependent orders are serialized, recovery   *)
(* exits queue alone, and the checkpoint and the venue together implement  *)
(* OrderLedger.                                                            *)
(*                                                                         *)
(* OInv adds to IInv that memory and the checkpoint are each Sound against *)
(* the venue, that the checkpoint is never ahead of memory, and that a     *)
(* call is about an order in the queue (Hands).  A crash then loads a      *)
(* memory as sound as the one it loses.  Nearly every step is Orderly: it  *)
(* leaves a sound memory further along, stores it or not, and moves the    *)
(* venue only as the venue may move.                                       *)
(***************************************************************************)
EXTENDS LiveTraderProofs

Waiting == {"submitted", "cancel_pending"}
Trading == {"sending", "working", "pending"}

\* What memory l holds of order o while the venue's record of it is v.
Knows(l, o, v) == /\ o \in l.tracked <=> l.order[o].status \in Waiting
                  /\ l.order[o].status = "new" => ~l.order[o].attempted
                  /\ v.status \in Trading => o \in l.tracked
                  /\ l.book[o] <= v.filled
                  /\ o \notin l.tracked => l.book[o] = v.filled

Serial(l) == \A o \in l.tracked : l.order[o].attempted => IsFirst(o, l.tracked)

Alone(l) == l.tracked \cap RecoveryExit # {} => l.tracked \subseteq RecoveryExit

Sound(l, V) == Serial(l) /\ Alone(l) /\ \A o \in Order : Knows(l, o, V[o])

\* How far an order has come: unknown, queued, attempted, closed.
Phase(l, o) == IF o \notin l.tracked /\ l.order[o].status # "new" THEN 3
               ELSE IF l.order[o].attempted THEN 2
               ELSE IF o \in l.tracked THEN 1 ELSE 0

\* Memory l is as far as k, or further: no order goes back, no fill is lost.
Before(k, l) == \A o \in Order : Phase(k, o) <= Phase(l, o) /\ k.book[o] <= l.book[o]

\* The calls about one order, which is in the queue when they are made.
Calls == {"place", "lookup", "timeout", "timeoutCancel", "cancel", "send", "force"}

\* The places of the program at which it counts on something of the queue.
Busy == Calls \cup {"loop", "equity", "decide", "leg"}

Hands(c, l) ==
    /\ c.pc \in Calls => c.cur \in l.tracked
    /\ c.pc \in {"loop", "cancel", "send", "force"} => c.todo \subseteq l.tracked
    /\ c.pc \in {"cancel", "send", "force"} => c.cur \notin c.todo
    /\ c.pc = "equity" => c.ctx \in {"free", "blocked"}
    /\ c.pc \in {"decide", "leg"} \/ (c.pc = "equity" /\ c.ctx = "free") => l.tracked = {}

Calm(c) == c.pc \notin Busy

\* The venue has traded nothing of an order it was not sent.
Untouched == \A o \in Order : venue[o].sent = 0 => venue[o].filled = 0

OInv == /\ IInv
        /\ Sound(live, venue) /\ Sound(disk, venue)
        /\ Before(disk, live)
        /\ Untouched
        /\ Hands(ctl, live)
        /\ ctl.pc = "place" => disk = live

-----------------------------------------------------------------------------
(* What an orderly step does. *)

\* The venue trades an order it may trade, or one it is being sent.
VenueMoves == \A o \in Order :
    /\ venue'[o].sent >= venue[o].sent
    /\ venue'[o].filled >= venue[o].filled
    /\ Sends(o) => ctl.pc = "place" /\ ctl.cur = o
    /\ venue'[o].filled > venue[o].filled \/ venue'[o].status \in Trading =>
          venue[o].status \in Trading \/ Sends(o)

Orderly == /\ Sound(live', venue') /\ Before(live, live')
           /\ disk' \in {disk, live'}
           /\ VenueMoves
           /\ Hands(ctl', live')
           /\ ctl'.pc = "place" => disk' = live'

\* What every step does.
OKeeps == OInv' /\ VenueMoves /\ Before(disk, disk')

LEMMA PhaseTyped == ASSUME NEW l, NEW o PROVE Phase(l, o) \in 0 .. 3
BY DEF Phase

LEMMA BeforeItself == ASSUME NEW l, Typed(l) PROVE Before(l, l)
<1>1. \A o \in Order : l.book[o] \in Nat
  BY QtyAssumption DEF Typed, Snapshot
<1> QED
  BY <1>1, PhaseTyped DEF Before

LEMMA BeforeChains ==
    ASSUME NEW j, NEW k, NEW l, Typed(j), Typed(k), Typed(l), Before(j, k), Before(k, l)
    PROVE  Before(j, l)
<1>1. \A o \in Order : j.book[o] \in Nat /\ k.book[o] \in Nat /\ l.book[o] \in Nat
  BY QtyAssumption DEF Typed, Snapshot
<1>2. \A o \in Order : Phase(j, o) \in Nat /\ Phase(k, o) \in Nat /\ Phase(l, o) \in Nat
  BY PhaseTyped
<1> QED
  BY <1>1, <1>2 DEF Before

\* The venue's moves leave a memory sound that tracks what is being sent.
LEMMA MovesSound ==
    ASSUME Surroundings, Surroundings', VenueMoves, NEW l, Typed(l), Sound(l, venue),
           \A o \in Order : Sends(o) => o \in l.tracked
    PROVE  Sound(l, venue')
<1> SUFFICES ASSUME NEW o \in Order PROVE Knows(l, o, venue'[o])
  BY DEF Sound
<1>1. /\ venue[o].filled \in Nat /\ venue'[o].filled \in Nat
      /\ l.book[o] \in Nat
  BY QtyAssumption DEF Surroundings, SoundOrder, VenueOrder, Typed, Snapshot
<1>2. Knows(l, o, venue[o])
  BY DEF Sound
<1>3. /\ venue'[o].filled >= venue[o].filled
      /\ venue'[o].filled > venue[o].filled \/ venue'[o].status \in Trading =>
            venue[o].status \in Trading \/ o \in l.tracked
  BY DEF VenueMoves
<1> QED
  BY <1>1, <1>2, <1>3 DEF Knows

LEMMA StillMoves == ASSUME Surroundings, UNCHANGED venue PROVE VenueMoves
BY QtyAssumption DEF VenueMoves, Sends, Surroundings, SoundOrder, VenueOrder

\* What a step's venue move and its memory make of the invariant.
LEMMA OrderlyKeeps == ASSUME OInv, IInv', Orderly PROVE OKeeps
<1>1. Typed(live) /\ Typed(disk) /\ Typed(live') /\ Typed(disk')
  BY DEF OInv, IInv, Memory
<1>2. Before(disk, live') /\ Before(disk, disk') /\ Before(disk', live')
  BY <1>1, BeforeItself, BeforeChains DEF OInv, Orderly
<1>3. Sound(disk, venue')
  <2>1. \A o \in Order : Sends(o) => o \in disk.tracked
    BY DEF OInv, Orderly, VenueMoves, Hands, Calls
  <2> QED
    BY <1>1, <2>1, MovesSound DEF OInv, Orderly, IInv
<1>4. Sound(disk', venue')
  BY <1>3 DEF Orderly
<1>5. Untouched'
  <2> SUFFICES ASSUME NEW o \in Order, venue'[o].sent = 0 PROVE venue'[o].filled = 0
    BY DEF Untouched
  <2>1. /\ venue[o] \in SoundOrder /\ venue'[o] \in SoundOrder
    BY DEF OInv, IInv, Surroundings
  <2>2. venue[o].sent = 0 /\ ~Sends(o)
    BY <2>1 DEF Orderly, VenueMoves, Sends, SoundOrder, VenueOrder
  <2>3. venue[o].filled = 0 /\ venue[o].status \notin Trading
    BY <2>1, <2>2 DEF OInv, Untouched, SoundOrder, Trading
  <2> QED
    BY <2>1, <2>2, <2>3, QtyAssumption DEF Orderly, VenueMoves, SoundOrder, VenueOrder
<1> QED
  BY <1>2, <1>4, <1>5 DEF Orderly, OKeeps, OInv

-----------------------------------------------------------------------------
(* Memory: what the steps write is as sound as what they found, and not      *)
(* behind it.                                                                *)

\* Memory l is sound and at least as far as the present one.
Leads(l, V) == Typed(l) /\ Sound(l, V) /\ Before(live, l)

\* The two memories say the same of the queue and the book.
Alike(k, l) == /\ k.tracked = l.tracked /\ k.book = l.book
               /\ \A o \in Order : /\ k.order[o].status = l.order[o].status
                                   /\ k.order[o].attempted = l.order[o].attempted

LEMMA LiveLeads == ASSUME Memory, NEW V, Sound(live, V) PROVE Leads(live, V)
BY BeforeItself DEF Memory, Leads

LEMMA AlikeLeads ==
    ASSUME Memory, NEW V, NEW k, NEW l, Leads(k, V), Alike(k, l), Typed(l)
    PROVE  Leads(l, V)
<1>1. Sound(l, V)
  <2>1. k.tracked \subseteq Order
    BY DEF Leads, Typed, Snapshot
  <2>2. Serial(l) /\ Alone(l)
    BY <2>1 DEF Leads, Alike, Sound, Serial, Alone
  <2>3. ASSUME NEW o \in Order PROVE Knows(l, o, V[o])
    BY DEF Leads, Alike, Sound, Knows
  <2> QED
    BY <2>2, <2>3 DEF Sound
<1>2. Before(live, l)
  BY DEF Leads, Alike, Before, Phase
<1> QED
  BY <1>1, <1>2 DEF Leads

LEMMA FlagsAlike ==
    ASSUME NEW l, Typed(l), NEW b \in BOOLEAN, NEW S \in SUBSET Group
    PROVE  /\ Alike(l, [l EXCEPT !.halted = b]) /\ Typed([l EXCEPT !.halted = b])
           /\ Alike(l, [l EXCEPT !.paused = b]) /\ Typed([l EXCEPT !.paused = b])
           /\ Alike(l, [l EXCEPT !.rebalancing = b]) /\ Typed([l EXCEPT !.rebalancing = b])
           /\ Alike(l, [l EXCEPT !.unstarted = S]) /\ Typed([l EXCEPT !.unstarted = S])
BY DEF Alike, Typed, BookedFill, Snapshot

LEMMA FlagsLead ==
    ASSUME Memory, NEW V, NEW l, Leads(l, V), NEW b \in BOOLEAN, NEW S \in SUBSET Group
    PROVE  /\ Leads([l EXCEPT !.halted = b], V)
           /\ Leads([l EXCEPT !.paused = b], V)
           /\ Leads([l EXCEPT !.rebalancing = b], V)
           /\ Leads([l EXCEPT !.unstarted = S], V)
BY FlagsAlike, AlikeLeads DEF Leads

LEMMA HaltedLeads ==
    ASSUME Memory, NEW V, NEW l, Leads(l, V) PROVE Leads(HaltedMemory(l), V)
<1>1. Alike(l, HaltedMemory(l)) /\ Typed(HaltedMemory(l))
  BY DEF HaltedMemory, Alike, Leads, Typed, BookedFill, Snapshot
<1> QED
  BY <1>1, AlikeLeads

LEMMA StartedLeads ==
    ASSUME Memory, NEW V, NEW l, Leads(l, V), NEW o PROVE Leads(Started(l, o), V)
<1>1. Alike(l, Started(l, o)) /\ Typed(Started(l, o))
  BY DEF Started, Alike, Leads, Typed, BookedFill, Snapshot
<1> QED
  BY <1>1, AlikeLeads

LEMMA CancelMarkLeads ==
    ASSUME Memory, NEW V, NEW l, Leads(l, V), NEW o \in Order
    PROVE  Leads([l EXCEPT !.order[o].cancelRequested = TRUE], V)
<1> DEFINE k == [l EXCEPT !.order[o].cancelRequested = TRUE]
<1>1. Alike(l, k) /\ Typed(k)
  BY DEF Alike, Leads, Typed, BookedFill, Snapshot, TrackedOrder
<1> HIDE DEF k
<1>2. Leads(k, V)
  BY <1>1, AlikeLeads
<1> QED
  BY <1>2 DEF k

\* The head of the queue is marked as attempted.
LEMMA AttemptLeads ==
    ASSUME Memory, NEW V, NEW l, Leads(l, V), NEW o \in Order, IsFirst(o, l.tracked)
    PROVE  Leads([l EXCEPT !.order[o].attempted = TRUE], V)
<1> DEFINE k == [l EXCEPT !.order[o].attempted = TRUE]
<1>1. /\ k.tracked = l.tracked /\ k.book = l.book /\ Typed(k)
      /\ \A p \in Order : /\ k.order[p].status = l.order[p].status
                          /\ l.order[p].attempted => k.order[p].attempted
                          /\ p # o => k.order[p].attempted = l.order[p].attempted
  BY DEF Leads, Typed, BookedFill, Snapshot, TrackedOrder
<1> HIDE DEF k
<1>2. o \in l.tracked /\ l.order[o].status # "new"
  BY DEF IsFirst, Leads, Sound, Knows, Waiting
<1>3. Sound(k, V)
  <2>1. l.tracked \subseteq Order
    BY DEF Leads, Typed, Snapshot
  <2>2. Serial(k) /\ Alone(k)
    BY <1>1, <2>1 DEF Leads, Sound, Serial, Alone
  <2>3. ASSUME NEW p \in Order PROVE Knows(k, p, V[p])
    BY <1>1, <1>2 DEF Leads, Sound, Knows
  <2> QED
    BY <2>2, <2>3 DEF Sound
<1>4. \A p \in Order : Phase(l, p) <= Phase(k, p)
  BY <1>1 DEF Phase
<1>5. Before(live, k)
  <2>1. \A p \in Order : Phase(live, p) \in Nat /\ Phase(l, p) \in Nat /\ Phase(k, p) \in Nat
    BY PhaseTyped
  <2> QED
    BY <1>1, <1>4, <2>1 DEF Leads, Before
<1>6. Leads(k, V)
  BY <1>1, <1>3, <1>5 DEF Leads
<1> QED
  BY <1>6 DEF k

\* Orders the venue was never sent are dropped from the queue.
LEMMA DroppedLeads ==
    ASSUME Memory, NEW V, NEW l, Leads(l, V), NEW S \in SUBSET l.tracked,
           \A o \in S : V[o].status \notin Trading /\ V[o].filled = 0
    PROVE  Leads(Dropped(l, S), V)
<1> DEFINE k == Dropped(l, S)
           ord == [o \in Order |-> IF o \in S THEN [l.order[o] EXCEPT !.status = "cancelled"]
                                               ELSE l.order[o]]
<1>0. l.tracked \subseteq Order /\ Typed(l)
  BY DEF Leads, Typed, Snapshot
<1>1. k = [l EXCEPT !.tracked = l.tracked \ S, !.order = ord]
  BY DEF Dropped
<1>2. ord \in [Order -> TrackedOrder]
  BY <1>0 DEF Typed, Snapshot, TrackedOrder, Status, Ended
<1>3. \A o \in Order : /\ ord[o].filled = l.order[o].filled
                       /\ ord[o].attempted = l.order[o].attempted
                       /\ ord[o].status = IF o \in S THEN "cancelled" ELSE l.order[o].status
  BY <1>0 DEF Typed, Snapshot, TrackedOrder
<1> HIDE DEF ord
<1>4. k.order = ord /\ k.book = l.book /\ k.tracked = l.tracked \ S
  BY <1>0, <1>1 DEF Typed, Snapshot
<1>5. k \in Snapshot
  BY <1>0, <1>1, <1>2 DEF Typed, Snapshot
<1> HIDE DEF k
<1>6. Typed(k)
  BY <1>0, <1>3, <1>4, <1>5 DEF Typed, BookedFill
<1>7. Serial(k) /\ Alone(k)
  BY <1>0, <1>3, <1>4 DEF Leads, Sound, Serial, Alone, IsFirst
<1>8. ASSUME NEW o \in Order PROVE Knows(k, o, V[o])
  <2>1. Knows(l, o, V[o])
    BY DEF Leads, Sound
  <2>2. l.book[o] \in Nat
    BY <1>0, QtyAssumption DEF Typed, Snapshot
  <2> QED
    BY <1>3, <1>4, <2>1, <2>2 DEF Knows, Waiting
<1>9. \A o \in Order : Phase(l, o) <= Phase(k, o)
  BY <1>3, <1>4 DEF Phase
<1>10. Before(live, k)
  <2>1. \A p \in Order : Phase(live, p) \in Nat /\ Phase(l, p) \in Nat /\ Phase(k, p) \in Nat
    BY PhaseTyped
  <2> QED
    BY <1>4, <1>9, <2>1 DEF Leads, Before
<1>11. Leads(k, V)
  BY <1>6, <1>7, <1>8, <1>10 DEF Leads, Sound
<1> QED
  BY <1>11 DEF k

\* Fresh orders enter an empty queue, all recovery exits or none.
LEMMA QueuedLeads ==
    ASSUME Memory, NEW V, Sound(live, V), live.tracked = {}, NEW S \in SUBSET Order,
           Fresh(S) = S, S \subseteq RecoveryExit \/ S \cap RecoveryExit = {}
    PROVE  Leads(Queued(live, S), V) /\ Queued(live, S).tracked = S
<1> DEFINE k == Queued(live, S)
           ord == [o \in Order |-> IF o \in S THEN [live.order[o] EXCEPT !.status = "submitted"]
                                               ELSE live.order[o]]
<1>0. Typed(live)
  BY DEF Memory
<1>1. k = [live EXCEPT !.tracked = live.tracked \cup S, !.order = ord]
  BY DEF Queued
<1>2. ord \in [Order -> TrackedOrder]
  BY <1>0 DEF Typed, Snapshot, TrackedOrder, Status
<1>3. \A o \in Order : /\ ord[o].filled = live.order[o].filled
                       /\ ord[o].attempted = live.order[o].attempted
                       /\ ord[o].status = IF o \in S THEN "submitted" ELSE live.order[o].status
  BY <1>0 DEF Typed, Snapshot, TrackedOrder
<1> HIDE DEF ord
<1>4. k.order = ord /\ k.book = live.book /\ k.tracked = S
  BY <1>0, <1>1 DEF Typed, Snapshot
<1>5. k \in Snapshot
  BY <1>0, <1>1, <1>2 DEF Typed, Snapshot
<1> HIDE DEF k
<1>6. Typed(k)
  BY <1>0, <1>3, <1>4, <1>5 DEF Typed, BookedFill
<1>7. \A o \in S : live.order[o].status = "new"
  BY DEF Fresh
<1>8. \A o \in S : ~live.order[o].attempted
  BY <1>7 DEF Sound, Knows
<1>9. Serial(k) /\ Alone(k)
  BY <1>3, <1>4, <1>8 DEF Serial, Alone
<1>10. ASSUME NEW o \in Order PROVE Knows(k, o, V[o])
  <2>1. Knows(live, o, V[o])
    BY DEF Sound
  <2> QED
    BY <1>3, <1>4, <1>7, <2>1 DEF Knows, Waiting
<1>11. Before(live, k)
  <2>1. \A o \in Order : Phase(live, o) <= Phase(k, o)
    BY <1>3, <1>4, <1>7, <1>8 DEF Phase
  <2>2. \A o \in Order : live.book[o] \in Nat
    BY <1>0, QtyAssumption DEF Typed, Snapshot
  <2> QED
    BY <1>4, <2>1, <2>2 DEF Before
<1>12. Leads(k, V)
  BY <1>6, <1>9, <1>10, <1>11 DEF Leads, Sound
<1> QED
  BY <1>4, <1>12 DEF k

-----------------------------------------------------------------------------
(* Reports. *)

\* Report r may be of order o while the venue's record of it is v: it takes no
\* fill back, invents none, and says an order ended only with all of its fill.
Told(o, r, v) == /\ Answer(r) /\ r.status # "new"
                 /\ live.order[o].filled <= r.filled /\ r.filled <= v.filled
                 /\ r.status \in Ended => v.status \notin Trading /\ r.filled = v.filled

LEMMA AppliedShape ==
    ASSUME Memory, NEW o \in Order, NEW r, Answer(r)
    PROVE  LET a == Applied(live, o, r) IN
           /\ a.book = [live.book EXCEPT ![o] = r.filled]
           /\ a.tracked = IF r.status \in Ended THEN live.tracked \ {o} ELSE live.tracked
           /\ a.order[o].status = r.status
           /\ \A p \in Order \ {o} : a.order[p].status = live.order[p].status
           /\ \A p \in Order : a.order[p].attempted = live.order[p].attempted
<1>0. Typed(live)
  BY DEF Memory
<1>1. live.book[o] + (r.filled - live.order[o].filled) = r.filled
  <2>1. live.book[o] = live.order[o].filled /\ live.order[o].filled \in 0 .. Qty
    BY <1>0 DEF Typed, BookedFill, Snapshot, TrackedOrder
  <2> QED
    BY <2>1, QtyAssumption DEF Answer
<1> QED
  BY <1>0, <1>1 DEF Applied, Typed, Snapshot, TrackedOrder, Answer

LEMMA AppliedLeads ==
    ASSUME Memory, NEW V, Sound(live, V), NEW o \in live.tracked, NEW r, Told(o, r, V[o])
    PROVE  /\ Leads(Applied(live, o, r), V)
           /\ live.tracked \ {o} \subseteq Applied(live, o, r).tracked
           /\ Applied(live, o, r).tracked \subseteq live.tracked
           /\ r.status \notin Ended => o \in Applied(live, o, r).tracked
<1> DEFINE a == Applied(live, o, r)
<1>0. Typed(live) /\ o \in Order /\ live.tracked \subseteq Order
  BY DEF Memory, Typed, Snapshot
<1>1. Typed(a)
  BY <1>0, AppliedTyped DEF Told
<1>2. /\ a.book = [live.book EXCEPT ![o] = r.filled]
      /\ a.tracked = IF r.status \in Ended THEN live.tracked \ {o} ELSE live.tracked
      /\ a.order[o].status = r.status
      /\ \A p \in Order \ {o} : a.order[p].status = live.order[p].status
      /\ \A p \in Order : a.order[p].attempted = live.order[p].attempted
  BY <1>0, AppliedShape DEF Told
<1> HIDE DEF a
<1>3. Serial(a) /\ Alone(a)
  BY <1>0, <1>2 DEF Sound, Serial, Alone, IsFirst
<1>4. ASSUME NEW p \in Order PROVE Knows(a, p, V[p])
  <2>1. Knows(live, p, V[p])
    BY DEF Sound
  <2>2. live.book \in [Order -> 0 .. Qty]
    BY <1>0 DEF Typed, Snapshot
  <2>3. CASE p # o
    BY <1>2, <2>1, <2>2, <2>3 DEF Knows
  <2>4. CASE p = o
    <3>1. a.book[o] = r.filled
      BY <1>0, <1>2, <2>2
    <3>2. r.status \in Waiting \cup Ended
      BY DEF Told, Answer, Status, Waiting
    <3> QED
      BY <1>2, <2>4, <3>1, <3>2 DEF Told, Knows, Waiting, Ended
  <2> QED
    BY <2>3, <2>4
<1>5. Before(live, a)
  <2>1. live.order[o].status # "new"
    BY <1>0 DEF Sound, Knows, Waiting
  <2>2. \A p \in Order : Phase(live, p) <= Phase(a, p)
    BY <1>0, <1>2, <2>1 DEF Phase, Told
  <2>3. \A p \in Order : live.book[p] \in Nat /\ live.book[p] = live.order[p].filled
    BY <1>0, QtyAssumption DEF Typed, BookedFill, Snapshot
  <2>4. \A p \in Order : live.book[p] <= a.book[p]
    BY <1>0, <1>2, <2>3 DEF Told, Typed, Snapshot
  <2> QED
    BY <2>2, <2>4 DEF Before
<1>6. Leads(a, V)
  BY <1>1, <1>3, <1>4, <1>5 DEF Leads, Sound
<1> QED
  BY <1>2, <1>6 DEF a

LEMMA ReportOfTold ==
    ASSUME NEW o \in Order, NEW v \in SoundOrder, v.status \notin {"none", "sending"},
           live.order[o].filled <= v.filled
    PROVE  Told(o, ReportOf(v), v)
<1>1. Answer(ReportOf(v)) /\ v \in VenueOrder
  BY ReportOfAnswers DEF SoundOrder
<1>2. /\ ReportOf(v).filled = v.filled /\ ReportOf(v).status # "new"
      /\ ReportOf(v).status \in Ended => v.status \notin Trading
  BY <1>1 DEF ReportOf, VenueOrder, VenueStatus, Ended, Trading
<1>3. v.filled \in Nat
  BY <1>1, QtyAssumption DEF VenueOrder
<1> QED
  BY <1>1, <1>2, <1>3 DEF Told

LEMMA ReadTold ==
    ASSUME OInv, NEW o \in Order, NEW r \in ReadReports(o) PROVE Told(o, r, venue[o])
<1>1. Answer(r) /\ Received(o)
  BY ReadAnswers DEF OInv, IInv
<1>2. /\ live.order[o].filled = live.book[o] /\ live.book[o] <= venue[o].filled
      /\ live.book[o] \in Nat
  BY QtyAssumption DEF OInv, IInv, Memory, Typed, BookedFill, Snapshot, Sound, Knows
<1>3. venue[o] \in SoundOrder /\ venue[o].filled \in Nat
  BY QtyAssumption DEF OInv, IInv, Surroundings, SoundOrder, VenueOrder
<1>4. Told(o, ReportOf(venue[o]), venue[o])
  BY <1>1, <1>2, <1>3, ReportOfTold DEF Received
<1>5. ASSUME NEW n \in live.order[o].filled .. venue[o].filled,
             r = [status |-> "submitted", filled |-> n, hasId |-> TRUE]
      PROVE  Told(o, r, venue[o])
  BY <1>1, <1>2, <1>3, <1>5 DEF Told, Ended
<1> QED
  BY <1>4, <1>5 DEF ReadReports

-----------------------------------------------------------------------------
(* Control: where a step goes on, and what is counted on there. *)

LEMMA CalmHands == ASSUME NEW c, Calm(c), NEW l PROVE Hands(c, l) /\ c.pc # "place"
BY DEF Calm, Busy, Calls, Hands

LEMMA AtCalm ==
    ASSUME NEW pc, pc \notin Busy, NEW ctx
    PROVE  Calm(At(pc, ctx)) /\ \A c : Calm([At(pc, ctx) EXCEPT !.cycle = c])
BY DEF Calm, At

LEMMA GoCalm ==
    ASSUME NEW pc, pc \notin Busy PROVE Calm(Go(pc)) /\ \A o : Calm(GoWith(pc, o))
BY DEF Calm, Go, GoWith, At

LEMMA RaiseCalm == ASSUME NEW e, NEW l PROVE Calm(Raise(e, l))
BY DEF Raise, At, Quiet, Calm, Busy, Calls, Exits

LEMMA DoneHands == ASSUME NEW l PROVE Hands(Done(l), l) /\ Done(l).pc # "place"
BY DEF Done, At, Quiet, MoreLegs, Hands, Calls, Exits

LEMMA LegHands ==
    ASSUME NEW l, l.tracked = {}, NEW ctx
    PROVE  /\ Hands(At("leg", ctx), l) /\ At("leg", ctx).pc # "place"
           /\ Hands(At("decide", ctx), l) /\ At("decide", ctx).pc # "place"
           /\ Hands(At("equity", "free"), l) /\ At("equity", "free").pc # "place"
BY DEF Hands, Calls, At

LEMMA BlockedHands ==
    ASSUME NEW l
    PROVE  Hands(At("equity", "blocked"), l) /\ At("equity", "blocked").pc # "place"
BY DEF Hands, Calls, At

\* A loop over orders of the queue.
LEMMA LoopHands ==
    ASSUME NEW l, NEW loop, NEW S, S \subseteq l.tracked
    PROVE  /\ Hands([Go("loop") EXCEPT !.loop = loop, !.todo = S], l)
           /\ [Go("loop") EXCEPT !.loop = loop, !.todo = S].pc # "place"
           /\ \A o : /\ Hands([GoWith("loop", o) EXCEPT !.loop = loop, !.todo = S], l)
                     /\ [GoWith("loop", o) EXCEPT !.loop = loop, !.todo = S].pc # "place"
BY DEF Hands, Calls, Go, GoWith, At

\* A call about an order of the queue.
LEMMA CallHands ==
    ASSUME NEW l, NEW o \in l.tracked, NEW pc \in {"lookup", "timeout", "timeoutCancel"}
    PROVE  Hands(GoWith(pc, o), l) /\ GoWith(pc, o).pc # "place"
BY DEF Hands, Calls, GoWith, Go, At

LEMMA PassHands == \A loop : Hands(Pass(loop), live) /\ Pass(loop).pc # "place"
BY LoopHands DEF Pass

LEMMA CancelReturnsHands ==
    ASSUME ctl \in Control, NEW l, ctl.todo \subseteq l.tracked
    PROVE  Hands(CancelReturns, l) /\ CancelReturns.pc # "place"
BY DEF CancelReturns, Hands, Calls, Control

LEMMA CancelRaisesHands ==
    ASSUME ctl \in Control, NEW l, ctl.todo \subseteq l.tracked, NEW e, NEW m
    PROVE  Hands(CancelRaises(e, m), l) /\ CancelRaises(e, m).pc # "place"
<1>1. /\ Hands(Raise(e, m), l) /\ Raise(e, m).pc # "place"
      /\ Hands(Go("halt"), l) /\ Go("halt").pc # "place"
  BY RaiseCalm, GoCalm, CalmHands DEF Busy, Calls
<1>2. CASE ctl.loop \in Passes
  <2>1. CancelRaises(e, m) = [ctl EXCEPT !.pc = "loop",
                                         !.fail = IF ctl.fail = "none" THEN e ELSE ctl.fail]
    BY <1>2 DEF CancelRaises
  <2>2. CancelRaises(e, m).pc = "loop" /\ CancelRaises(e, m).todo = ctl.todo
    BY <2>1 DEF Control
  <2> QED
    BY <2>2 DEF Hands, Calls
<1>3. CASE ctl.loop \notin Passes
  BY <1>1, <1>3, CancelReturnsHands DEF CancelRaises
<1> QED
  BY <1>2, <1>3

LEMMA LegFailsHands ==
    ASSUME NEW o, NEW fault, NEW last
    PROVE  Hands(LegFails(o, fault, last), live) /\ LegFails(o, fault, last).pc # "place"
<1>1. /\ Hands(Go("head"), live) /\ Go("head").pc # "place"
      /\ Hands(Go("halt"), live) /\ Go("halt").pc # "place"
  BY GoCalm, CalmHands DEF Busy, Calls
<1>2. Siblings(o) \subseteq live.tracked
  BY DEF Siblings
<1> QED
  BY <1>1, <1>2, DoneHands, LoopHands DEF LegFails

-----------------------------------------------------------------------------
(* Steps that move nothing at the venue. *)

Writes(l) == live' = l /\ disk' \in {disk, l}

LEMMA CallsWrite ==
    /\ Checkpointed => Writes(live)
    /\ \A l : Saved(l) => Writes(l)
    /\ \A l, rows : NotSaved(l, rows) => Writes(l)
BY DEF Writes, Checkpointed, Saved, NotSaved

LEMMA Present ==
    ASSUME OInv
    PROVE  /\ Leads(live, venue) /\ Memory /\ Typed(live) /\ live \in Snapshot
           /\ Sound(live, venue) /\ live.tracked \subseteq Order /\ ctl \in Control
BY LiveLeads DEF OInv, IInv, Memory, Typed, Snapshot

LEMMA StepOrderly ==
    ASSUME OInv, NEW l, Leads(l, venue), Writes(l), UNCHANGED venue,
           Hands(ctl', l), ctl'.pc # "place"
    PROVE  Orderly
BY StillMoves DEF OInv, IInv, Leads, Writes, Orderly

LEMMA CalmOrderly ==
    ASSUME OInv, NEW l, Leads(l, venue), Writes(l), UNCHANGED venue, Calm(ctl')
    PROVE  Orderly
BY StepOrderly, CalmHands

LEMMA KeptOrderly ==
    ASSUME OInv, Checkpointed, UNCHANGED venue, Hands(ctl', live), ctl'.pc # "place"
    PROVE  Orderly
BY StepOrderly, CallsWrite, Present

LEMMA FlagsLeadNow ==
    ASSUME OInv, NEW b \in BOOLEAN
    PROVE  /\ Leads([live EXCEPT !.halted = b], venue)
           /\ Leads([live EXCEPT !.paused = b], venue)
           /\ Leads([live EXCEPT !.rebalancing = b], venue)
           /\ Leads(HaltedMemory(live), venue)
BY Present, FlagsLead, HaltedLeads

-----------------------------------------------------------------------------
(* The cycle. *)

LEMMA ManualHaltCalm == ASSUME NEW ctx, ManualHalt(ctx) PROVE Calm(ctl')
BY DEF ManualHalt, At, Quiet, Calm, Busy, Calls

LEMMA BeginCycleOrderly == ASSUME OInv, BeginCycle PROVE Orderly
<1>1. Calm(ctl')
  BY ManualHaltCalm, AtCalm DEF BeginCycle, Busy, Calls
<1> QED
  BY <1>1, CalmHands, KeptOrderly DEF BeginCycle

LEMMA CarryRowsOrderly == ASSUME OInv, CarryRows PROVE Orderly
<1>1. Calm(ctl')
  BY AtCalm DEF CarryRows, Quiet, Busy, Calls
<1>2. Writes(live) /\ UNCHANGED venue
  BY CallsWrite DEF CarryRows, Engine, Outside
<1> QED
  BY <1>1, <1>2, CalmOrderly, Present

LEMMA ReconcileOrderly == ASSUME OInv, Reconcile PROVE Orderly
<1>1. Calm(At("bar", "cycle")) /\ Calm(At("halt", "reconcile"))
  BY AtCalm DEF Busy, Calls
<1> QED
  BY <1>1, CalmHands, KeptOrderly DEF Reconcile, Outside

LEMMA BarOrderly == ASSUME OInv, Bar PROVE Orderly
<1>1. Calm(ctl')
  BY AtCalm DEF Bar, Quiet, Busy, Calls
<1> QED
  BY <1>1, CalmHands, KeptOrderly DEF Bar, Engine, Outside

LEMMA EventOrderly == ASSUME OInv, Event PROVE Orderly
<1>1. Hands(ctl', live) /\ ctl'.pc # "place"
  BY LegHands, BlockedHands DEF Event, Blocked, MoreLegs
<1> QED
  BY <1>1, KeptOrderly DEF Event, Engine, Outside

LEMMA DecideOrderly == ASSUME OInv, Decide PROVE Orderly
<1> DEFINE L == [live EXCEPT !.rebalancing = TRUE]
<1>0. live.tracked = {} /\ UNCHANGED venue
  BY DEF OInv, Hands, Decide, Engine, Outside
<1>1. ASSUME NEW S \in Plans, S = Fresh(S) PROVE Leads(Planned(S), venue)
  <2>1. S \in SUBSET Order /\ S \cap RecoveryExit = {}
    BY QueueAssumption
  <2>2. {GroupOf[o] : o \in S} \ {NoGroup} \in SUBSET Group
    BY <2>1, RequestAssumption
  <2> QED
    BY <1>0, <1>1, <2>1, <2>2, Present, QueuedLeads, FlagsLead DEF Planned
<1>2. Leads(L, venue) /\ L.tracked = {}
  BY <1>0, FlagsLeadNow, Present DEF Snapshot
<1>3. CASE Checkpointed /\ (ctl' = Done(live) \/ ctl' = Go("halt"))
  BY <1>0, <1>3, KeptOrderly, DoneHands, GoCalm, CalmHands DEF Busy, Calls
<1>4. CASE \E S \in Plans \ {{}} :
              /\ S = Fresh(S)
              /\ \/ Saved(Planned(S)) /\ ctl' = Go("head")
                 \/ NotSaved(Planned(S), TRUE) /\ ctl' = Raise("err", Planned(S))
  <2>1. Calm(ctl')
    BY <1>4, GoCalm, RaiseCalm DEF Busy, Calls
  <2>2. PICK S \in Plans : S = Fresh(S) /\ Writes(Planned(S))
    BY <1>4, CallsWrite
  <2> QED
    BY <1>0, <1>1, <2>1, <2>2, CalmOrderly
<1>5. CASE \/ Saved(L) /\ ctl' = At("leg", "newLeg")
           \/ NotSaved(L, FALSE) /\ ctl' = Raise("err", L)
  <2> HIDE DEF L
  <2>1. Hands(ctl', L) /\ ctl'.pc # "place"
    BY <1>2, <1>5, LegHands, RaiseCalm, CalmHands
  <2> QED
    BY <1>0, <1>2, <1>5, <2>1, CallsWrite, StepOrderly
<1> QED
  BY <1>3, <1>4, <1>5 DEF Decide

LEMMA RebalanceLegOrderly == ASSUME OInv, RebalanceLeg PROVE Orderly
<1> DEFINE L == [live EXCEPT !.rebalancing = FALSE]
<1>0. live.tracked = {} /\ UNCHANGED venue
  BY DEF OInv, Hands, RebalanceLeg, Engine, Outside
<1>1. ASSUME NEW o \in Fresh(Leg) PROVE Leads(Queued(live, {o}), venue)
  <2>1. {o} \in SUBSET Order /\ Fresh({o}) = {o} /\ {o} \cap RecoveryExit = {}
    BY RequestAssumption DEF Fresh
  <2> QED
    BY <1>0, <2>1, Present, QueuedLeads
<1>2. Leads(L, venue) /\ L.tracked = {}
  BY <1>0, FlagsLeadNow, Present DEF Snapshot
<1>3. CASE \E o \in Fresh(Leg) :
              \/ Saved(Queued(live, {o})) /\ ctl' = Go("head")
              \/ /\ NotSaved(Queued(live, {o}), TRUE)
                 /\ ctl' = Raise("err", Queued(live, {o}))
  <2>1. Calm(ctl')
    BY <1>3, GoCalm, RaiseCalm DEF Busy, Calls
  <2>2. PICK o \in Fresh(Leg) : Writes(Queued(live, {o}))
    BY <1>3, CallsWrite
  <2> QED
    BY <1>0, <1>1, <2>1, <2>2, CalmOrderly
<1>4. CASE /\ Saved(live) \/ NotSaved(live, FALSE) \/ Checkpointed
           /\ ctl' \in {At("equity", "blocked"), At("commit", "cycle"),
                        Raise("err", live), Go("halt")}
  <2>1. Hands(ctl', live) /\ ctl'.pc # "place"
    BY <1>4, BlockedHands, AtCalm, RaiseCalm, GoCalm, CalmHands DEF Busy, Calls
  <2> QED
    BY <1>0, <1>4, <2>1, CallsWrite, Present, StepOrderly
<1>5. CASE \/ Saved(L) /\ ctl' \in {At("equity", "free"), At("commit", "cycle")}
           \/ NotSaved(L, FALSE) /\ ctl' = Raise("err", L)
  <2> HIDE DEF L
  <2>1. Hands(ctl', L) /\ ctl'.pc # "place"
    BY <1>2, <1>5, LegHands, AtCalm, RaiseCalm, CalmHands DEF Busy, Calls
  <2> QED
    BY <1>0, <1>2, <1>5, <2>1, CallsWrite, StepOrderly
<1> QED
  BY <1>3, <1>4, <1>5 DEF RebalanceLeg

LEMMA EquityOrderly == ASSUME OInv, Equity PROVE Orderly
<1>1. Writes(live) /\ UNCHANGED venue
  BY CallsWrite DEF Equity, Engine, Outside
<1>2. ctl.ctx # "blocked" => live.tracked = {}
  BY DEF OInv, Hands, Equity
<1>3. Hands(ctl', live) /\ ctl'.pc # "place"
  BY <1>2, LegHands, AtCalm, CalmHands DEF Equity, Quiet, Busy, Calls
<1> QED
  BY <1>1, <1>3, Present, StepOrderly

LEMMA CommitOrderly == ASSUME OInv, Commit PROVE Orderly
<1>1. Writes(live) /\ UNCHANGED venue
  BY CallsWrite DEF Commit, Engine, Outside
<1>2. Calm(ctl')
  BY AtCalm DEF Commit, Quiet, Busy, Calls
<1> QED
  BY <1>1, <1>2, Present, CalmOrderly

LEMMA OpenOrdersOrderly == ASSUME OInv, OpenOrders PROVE Orderly
<1>1. Calm(ctl')
  BY AtCalm, RaiseCalm DEF OpenOrders, Busy, Calls
<1> QED
  BY <1>1, CalmHands, KeptOrderly DEF OpenOrders, Engine, Outside

LEMMA VerifyOrderly == ASSUME OInv, Verify PROVE Orderly
<1>1. Calm(ctl')
  BY AtCalm DEF Verify, Quiet, Busy, Calls
<1> QED
  BY <1>1, CalmHands, KeptOrderly DEF Verify, Engine, Outside

-----------------------------------------------------------------------------
(* The halt, what leaves it, and the operator. *)

LEMMA HaltOrderly == ASSUME OInv, Halt PROVE Orderly
<1> DEFINE l == HaltedMemory(live)
<1>1. Leads(l, venue) /\ l.tracked = live.tracked
  BY FlagsLeadNow, Present DEF HaltedMemory, Snapshot
<1>2. /\ UNCHANGED venue
      /\ \/ Saved(l) /\ ctl' = Pass("halt")
         \/ NotSaved(l, FALSE) /\ ctl' = Raise("err", l)
  BY DEF Halt
<1> HIDE DEF l
<1>3. Hands(Pass("halt"), l) /\ Pass("halt").pc # "place"
  BY <1>1, LoopHands DEF Pass
<1>4. Hands(ctl', l) /\ ctl'.pc # "place"
  BY <1>2, <1>3, RaiseCalm, CalmHands
<1> QED
  BY <1>1, <1>2, <1>4, CallsWrite, StepOrderly

LEMMA HaltPassEndsOrderly == ASSUME OInv, HaltPassEnds PROVE Orderly
<1>1. /\ Hands(Done(live), live) /\ Done(live).pc # "place"
      /\ Calm(Raise(ctl.fail, live))
      /\ Calm([At("reset", "cycle") EXCEPT !.cycle = "passed"])
  BY DoneHands, RaiseCalm, AtCalm DEF Busy, Calls
<1>2. Hands(ctl', live) /\ ctl'.pc # "place"
  BY <1>1, CalmHands DEF HaltPassEnds
<1> QED
  BY <1>2, KeptOrderly DEF HaltPassEnds, Outside

LEMMA RetryHaltOrderly == ASSUME OInv, RetryHalt PROVE Orderly
<1>1. Calm(RetryReturns) /\ Calm(Raise("err", live))
  BY RaiseCalm, AtCalm DEF RetryReturns, Quiet, Busy, Calls
<1>2. Hands(ctl', live) /\ ctl'.pc # "place"
  BY <1>1, PassHands, CalmHands DEF RetryHalt
<1>3. Writes(live) /\ UNCHANGED venue
  BY CallsWrite DEF RetryHalt, Outside
<1> QED
  BY <1>2, <1>3, Present, StepOrderly

LEMMA RequestedResetOrderly == ASSUME OInv, RequestedReset PROVE Orderly
<1>1. /\ Calm(AfterReset) /\ Calm(Quiet)
      /\ Calm([At("halt", "again") EXCEPT !.cycle = ctl.cycle])
  BY AtCalm DEF AfterReset, Quiet, Busy, Calls
<1>2. Calm(ctl') /\ UNCHANGED venue
  BY <1>1 DEF RequestedReset
<1>3. Writes(live) \/ Writes(ResetMemory)
  BY CallsWrite DEF RequestedReset
<1> QED
  BY <1>2, <1>3, Present, FlagsLeadNow, CalmOrderly DEF ResetMemory

LEMMA FlattenOrderly == ASSUME OInv, Flatten PROVE Orderly
<1>1. Calm(At("reconcile", "cycle")) /\ Calm(At("account", "exits"))
  BY AtCalm DEF Busy, Calls
<1>2. Hands(ctl', live) /\ ctl'.pc # "place"
  BY <1>1, PassHands, CalmHands DEF Flatten
<1> QED
  BY <1>2, KeptOrderly DEF Flatten

LEMMA FlattenPassEndsOrderly == ASSUME OInv, FlattenPassEnds PROVE Orderly
<1>1. Calm(At("reconcile", "cycle")) /\ Calm(At("account", "exits")) /\ Calm(Quiet)
  BY AtCalm DEF Quiet, Busy, Calls
<1> QED
  BY <1>1, CalmHands, KeptOrderly DEF FlattenPassEnds

LEMMA FlattenAccountOrderly == ASSUME OInv, FlattenAccount PROVE Orderly
<1>0. UNCHANGED venue
  BY DEF FlattenAccount, Outside
<1>1. ASSUME NEW X \in SUBSET Fresh(RecoveryExit), live.tracked = {}
      PROVE  Leads(Planned(X), venue)
  <2>1. X \in SUBSET Order /\ Fresh(X) = X /\ X \subseteq RecoveryExit
    BY RequestAssumption DEF Fresh
  <2>2. {GroupOf[o] : o \in X} \ {NoGroup} \in SUBSET Group
    BY <2>1, RequestAssumption
  <2> QED
    BY <1>1, <2>1, <2>2, Present, QueuedLeads, FlagsLead DEF Planned
<1>2. /\ Calm(Go("halt")) /\ Calm(Go("exitsHalt")) /\ Calm(Go("head"))
      /\ \A l : Calm(Raise("err", l))
  BY GoCalm, RaiseCalm DEF Busy, Calls
<1>3. CASE Checkpointed /\ ctl' \in {Go("halt"), Go("exitsHalt"), Raise("err", live)}
  BY <1>0, <1>2, <1>3, CalmHands, KeptOrderly
<1>4. CASE /\ live.tracked = {}
           /\ \E X \in SUBSET Fresh(RecoveryExit) :
                 \/ Saved(Planned(X)) /\ ctl' = Go("head")
                 \/ NotSaved(Planned(X), TRUE) /\ ctl' = Raise("err", Planned(X))
  <2>1. Calm(ctl')
    BY <1>2, <1>4
  <2>2. PICK X \in SUBSET Fresh(RecoveryExit) : Writes(Planned(X))
    BY <1>4, CallsWrite
  <2> QED
    BY <1>0, <1>1, <1>4, <2>1, <2>2, CalmOrderly
<1> QED
  BY <1>3, <1>4 DEF FlattenAccount, QueueRefuses

LEMMA ExitsHaltOrderly == ASSUME OInv, ExitsHalt PROVE Orderly
<1>1. Calm(Quiet) /\ Calm(At("reconcile", "cycle")) /\ Calm(At("commit", "cycle"))
  BY AtCalm DEF Quiet, Busy, Calls
<1>2. Calm(ctl') /\ UNCHANGED venue
  BY <1>1 DEF ExitsHalt
<1>3. Writes(HaltedMemory(live))
  BY CallsWrite DEF ExitsHalt
<1> QED
  BY <1>2, <1>3, FlagsLeadNow, CalmOrderly

LEMMA OperatorHaltOrderly == ASSUME OInv, OperatorHalt PROVE Orderly
BY ManualHaltCalm, CalmHands, KeptOrderly DEF OperatorHalt

LEMMA IdleCalm == ASSUME ctl.pc = "idle", UNCHANGED ctl PROVE Calm(ctl')
BY DEF Calm, Busy, Calls

LEMMA OperatorResetOrderly == ASSUME OInv, OperatorReset PROVE Orderly
<1>1. Writes(ResetMemory) /\ Calm(ctl') /\ UNCHANGED venue
  BY CallsWrite, IdleCalm DEF OperatorReset, Outside
<1> QED
  BY <1>1, FlagsLeadNow, CalmOrderly DEF ResetMemory

LEMMA PauseEntriesOrderly == ASSUME OInv, PauseEntries PROVE Orderly
<1>1. /\ Writes([live EXCEPT !.paused = TRUE])
      /\ Calm(ctl') /\ UNCHANGED venue
  BY CallsWrite, IdleCalm DEF PauseEntries, Outside
<1> QED
  BY <1>1, FlagsLeadNow, CalmOrderly

\* A step that leaves memory and the venue as they are, with a checkpoint as
\* sound as before and as memory.
LEMMA StoreKeeps ==
    ASSUME OInv, IInv', UNCHANGED <<live, ctl, venue>>,
           disk' = disk \/ (Leads(disk', venue) /\ Before(disk', live)),
           ctl.pc = "place" => disk' = disk
    PROVE  OKeeps
<1>1. VenueMoves
  BY StillMoves DEF OInv, IInv
<1>2. Before(disk, disk')
  <2>1. CASE disk' = disk
    BY <2>1, BeforeItself DEF OInv, IInv, Memory
  <2>2. CASE Leads(disk', venue)
    BY <2>2, Present, BeforeChains DEF OInv, IInv, Memory, Leads
  <2> QED
    BY <2>1, <2>2
<1>3. Sound(disk', venue') /\ Sound(live', venue')
  BY DEF OInv, Leads
<1>4. Before(disk', live') /\ Hands(ctl', live') /\ (ctl'.pc = "place" => disk' = live')
  BY DEF OInv
<1>5. Untouched'
  BY DEF OInv, Untouched
<1> QED
  BY <1>1, <1>2, <1>3, <1>4, <1>5 DEF OKeeps, OInv

LEMMA ResumeEntriesKeepsOrders == ASSUME OInv, IInv', ResumeEntries PROVE OKeeps
<1> DEFINE l == [live EXCEPT !.paused = FALSE]
<1>1. Leads(l, venue)
  BY FlagsLeadNow
<1>2. Before(l, live)
  <2>1. Alike(live, l)
    BY Present, FlagsAlike
  <2>2. \A o \in Order : Phase(l, o) = Phase(live, o) /\ l.book[o] = live.book[o]
    BY <2>1 DEF Alike, Phase
  <2> QED
    BY <2>2, Present, BeforeItself DEF Before
<1>3. UNCHANGED <<ctl, venue>> /\ ctl.pc = "idle"
  BY DEF ResumeEntries, Outside
<1>4. CASE Saved(l)
  <2>1. Orderly
    BY <1>1, <1>3, <1>4, CallsWrite, IdleCalm, CalmOrderly
  <2> QED
    BY <2>1, OrderlyKeeps
<1>5. CASE disk' \in {disk, l} /\ UNCHANGED live
  BY <1>1, <1>2, <1>3, <1>5, StoreKeeps
<1> QED
  BY <1>4, <1>5 DEF ResumeEntries

LEMMA RequestKeepsOrders == ASSUME OInv, IInv', Request PROVE OKeeps
BY StoreKeeps DEF Request, Checkpointed

\* A start and an end load the checkpoint.
LEMMA ForgottenKeepsOrders ==
    ASSUME OInv, IInv', Forgotten, Hands(ctl', disk), ctl'.pc # "place"
    PROVE  OKeeps
<1>1. VenueMoves
  BY StillMoves DEF OInv, IInv, Forgotten
<1>2. Before(disk, disk)
  BY BeforeItself DEF OInv, IInv, Memory
<1>3. Untouched'
  BY DEF OInv, Untouched, Forgotten
<1> QED
  BY <1>1, <1>2, <1>3 DEF OKeeps, OInv, Forgotten

LEMMA CrashKeepsOrders == ASSUME OInv, IInv', Crash PROVE OKeeps
<1>1. Calm(ctl')
  BY AtCalm DEF Crash, Busy, Calls
<1> QED
  BY <1>1, CalmHands, ForgottenKeepsOrders DEF Crash

LEMMA StartKeepsOrders == ASSUME OInv, IInv', Start PROVE OKeeps
<1>1. Calm(At("head", "start")) /\ Calm(At("head", "startHalted"))
  BY AtCalm DEF Busy, Calls
<1> DEFINE c == [At("loop", "startHalted") EXCEPT !.loop = "restart", !.todo = disk.tracked]
<1>2. Hands(c, disk) /\ c.pc # "place"
  BY DEF At, Hands, Calls
<1>3. Hands(ctl', disk) /\ ctl'.pc # "place"
  BY <1>1, <1>2, CalmHands DEF Start
<1> QED
  BY <1>3, ForgottenKeepsOrders DEF Start

-----------------------------------------------------------------------------
(* The venue. *)

LEMMA VenueStepKeepsOrders ==
    ASSUME OInv, IInv', NEW o \in Order, VenueStep(o) PROVE OKeeps
<1>0. UNCHANGED <<live, disk, ctl>>
  BY DEF VenueStep, VenueFill, VenueReceives, VenueCancels, VenueEndsCancel, GetsLate,
         EngineUnchanged
<1>1. venue \in [Order -> SoundOrder] /\ venue' \in [Order -> SoundOrder]
  BY DEF OInv, IInv, Surroundings
<1>2. VenueMoves
  <2>1. CASE UNCHANGED venue
    BY <2>1, StillMoves DEF OInv, IInv
  <2>2. CASE venue[o].status \in Trading /\ \E s : Sets(o, s)
    BY <1>1, <2>2, QtyAssumption DEF Sets, VenueMoves, Sends, SoundOrder, VenueOrder
  <2>3. CASE VenueFill(o)
    <3>1. /\ venue[o].status \in Trading
          /\ venue'[o].sent = venue[o].sent /\ venue'[o].filled = venue[o].filled + 1
          /\ \A p \in Order \ {o} : venue'[p] = venue[p]
      BY <1>1, <2>3 DEF VenueFill, AtVenue, Trading, SoundOrder, VenueOrder
    <3> QED
      BY <1>1, <3>1, QtyAssumption DEF VenueMoves, Sends, SoundOrder, VenueOrder
  <2> QED
    BY <2>1, <2>2, <2>3
       DEF VenueStep, VenueReceives, VenueCancels, VenueEndsCancel, GetsLate, Trading
<1>3. \A p \in Order : Sends(p) => p \in live.tracked
  BY <1>2 DEF VenueMoves, OInv, Hands, Calls
<1>4. Sound(live, venue')
  BY <1>2, <1>3, Present, MovesSound DEF OInv, IInv
<1>5. Orderly
  BY <1>0, <1>2, <1>4, Present DEF Orderly, OInv, Leads
<1> QED
  BY <1>5, OrderlyKeeps

-----------------------------------------------------------------------------
(* Order work: the queue. *)

\* Control c may follow whatever a report of order o leaves in the queue.
Ready(c, o) == \A l : live.tracked \ {o} \subseteq l.tracked => Hands(c, l) /\ c.pc # "place"

LEMMA CalmReady == ASSUME NEW c, Calm(c), NEW o PROVE Ready(c, o)
BY CalmHands DEF Ready

\* The venue does not know an order that was not attempted.
LEMMA UnsentUnknown ==
    ASSUME OInv, NEW o \in Order, ~live.order[o].attempted
    PROVE  venue[o].sent = 0 /\ venue[o].status \notin Trading /\ venue[o].filled = 0
<1>1. venue[o] \in SoundOrder
  BY DEF OInv, IInv, Surroundings
<1>2. venue[o].sent = 0
  BY <1>1 DEF OInv, IInv, Recorded, SoundOrder, VenueOrder
<1> QED
  BY <1>1, <1>2 DEF OInv, Untouched, SoundOrder, Trading

\* Behind a head that was not attempted nothing was.
LEMMA HeadUnsent ==
    ASSUME OInv, NEW o \in Order, IsHead(o), ~live.order[o].attempted, NEW p \in live.tracked
    PROVE  ~live.order[p].attempted
<1> SUFFICES ASSUME live.order[p].attempted PROVE FALSE
  OBVIOUS
<1>1. IsFirst(p, live.tracked) /\ p \in Order
  BY Present DEF OInv, Sound, Serial
<1>2. Rank[o] <= Rank[p] /\ Rank[p] <= Rank[o]
  BY <1>1 DEF IsHead, IsFirst
<1>3. Rank[o] \in Nat /\ Rank[p] \in Nat
  BY <1>1, QueueAssumption
<1>4. o = p
  BY <1>1, <1>2, <1>3, QueueAssumption
<1> QED
  BY <1>4

LEMMA LegsUnsent ==
    ASSUME OInv, NEW o \in Order, IsHead(o), ~live.order[o].attempted
    PROVE  /\ Legs(o) \subseteq live.tracked
           /\ \A p \in Legs(o) : venue[p].status \notin Trading /\ venue[p].filled = 0
<1>1. Legs(o) \subseteq live.tracked /\ live.tracked \subseteq Order
  BY Present DEF IsHead, IsFirst, Legs, Siblings
<1>2. \A p \in live.tracked : ~live.order[p].attempted
  BY HeadUnsent
<1> QED
  BY <1>1, <1>2, UnsentUnknown

LEMMA AdvanceReturnsOrderly == ASSUME OInv, AdvanceReturns PROVE Orderly
BY DoneHands, KeptOrderly DEF AdvanceReturns, Outside

LEMMA FinishOwnCancelOrderly ==
    ASSUME OInv, NEW o \in Order, FinishOwnCancel(o) PROVE Orderly
<1>1. o \in live.tracked
  BY DEF FinishOwnCancel, Advances, IsHead, IsFirst
<1>2. Hands(ctl', live) /\ ctl'.pc # "place"
  BY <1>1 DEF FinishOwnCancel, GoWith, Go, At, Hands, Calls
<1> QED
  BY <1>2, KeptOrderly DEF FinishOwnCancel, Outside

LEMMA DropPausedOrderly ==
    ASSUME OInv, NEW o \in Order, DropPaused(o) PROVE Orderly
<1> DEFINE d == Dropped(Started(live, o), Legs(o))
           b == d.rebalancing /\ Legs(o) \subseteq Entry
           l == [d EXCEPT !.rebalancing = b]
<1>1. /\ Legs(o) \subseteq live.tracked
      /\ \A p \in Legs(o) : venue[p].status \notin Trading /\ venue[p].filled = 0
  BY LegsUnsent DEF DropPaused, Submits, Advances
<1>2. Leads(Started(live, o), venue) /\ Memory
  BY Present, StartedLeads
<1>3. Started(live, o).tracked = live.tracked
  BY Present DEF Started, Snapshot
<1>4. Leads(d, venue)
  BY <1>1, <1>2, <1>3, DroppedLeads
<1>5. b \in BOOLEAN
  BY <1>4 DEF Leads, Typed, Snapshot
<1>6. Leads(l, venue)
  <2> HIDE DEF d, b
  <2> QED
    BY <1>2, <1>4, <1>5, FlagsLead
<1>7. UNCHANGED venue /\ \/ Saved(l) /\ ctl' = Go("head")
                         \/ NotSaved(l, TRUE) /\ ctl' = Raise("err", l)
  BY DEF DropPaused, Outside
<1> HIDE DEF l
<1>8. Writes(l) /\ Calm(ctl')
  BY <1>7, CallsWrite, GoCalm, RaiseCalm DEF Busy, Calls
<1> QED
  BY <1>6, <1>7, <1>8, CalmOrderly

LEMMA DropUnfundedOrderly ==
    ASSUME OInv, NEW o \in Order, DropUnfunded(o) PROVE Orderly
<1> DEFINE l == [live EXCEPT !.rebalancing = FALSE]
<1>1. Leads(l, venue) /\ l.tracked = live.tracked
  BY FlagsLeadNow, Present DEF Snapshot
<1>2. Legs(o) \subseteq live.tracked
  BY LegsUnsent DEF DropUnfunded, Submits, Advances
<1>3. Writes(l) /\ UNCHANGED venue
  BY DEF DropUnfunded, Outside, Writes
<1> HIDE DEF l
<1>4. Hands(ctl', l) /\ ctl'.pc # "place"
  BY <1>1, <1>2, LoopHands DEF DropUnfunded
<1> QED
  BY <1>1, <1>3, <1>4, StepOrderly

LEMMA AttemptOrderly ==
    ASSUME OInv, NEW o \in Order, Attempt(o) PROVE Orderly
<1> DEFINE l == [Started(live, o) EXCEPT !.order[o].attempted = TRUE]
<1>1. IsFirst(o, live.tracked)
  BY DEF Attempt, Submits, Advances, IsHead
<1>2. Started(live, o).tracked = live.tracked
  BY Present DEF Started, Snapshot
<1>3. Leads(l, venue)
  BY <1>1, <1>2, Present, StartedLeads, AttemptLeads
<1>4. o \in l.tracked
  BY <1>1, <1>2, Present DEF IsFirst, Started, Snapshot
<1>5. UNCHANGED venue /\ \/ Saved(l) /\ ctl' = GoWith("place", o)
                         \/ NotSaved(l, TRUE) /\ ctl' = Raise("err", l)
  BY DEF Attempt
<1> HIDE DEF l
<1>6. Hands(GoWith("place", o), l)
  BY <1>4 DEF GoWith, Go, At, Hands, Calls
<1>7. CASE Saved(l) /\ ctl' = GoWith("place", o)
  BY <1>3, <1>5, <1>6, <1>7, StillMoves DEF OInv, IInv, Leads, Saved, Orderly
<1>8. CASE NotSaved(l, TRUE) /\ ctl' = Raise("err", l)
  BY <1>3, <1>5, <1>8, RaiseCalm, CallsWrite, CalmOrderly
<1> QED
  BY <1>5, <1>7, <1>8

-----------------------------------------------------------------------------
(* Order work: a report, and the calls that bring one. *)

LEMMA ReportOrderly ==
    ASSUME OInv, VenueMoves, NEW o \in live.tracked, Sound(live, venue'),
           NEW p, NEW r, Told(o, r, venue'[o]), NEW kept, NEW lost,
           Report(p, o, r, kept, lost),
           Hands(ctl', Applied(live, o, r)), ctl'.pc # "place"
    PROVE  Orderly
<1> DEFINE a == Applied(live, o, r)
<1>1. Leads(a, venue')
  BY Present, AppliedLeads
<1>2. live' = a /\ disk' \in {disk, a}
  BY DEF Report, Saved, NotSaved
<1> HIDE DEF a
<1>3. Hands(ctl', a)
  BY DEF a
<1> QED
  BY <1>1, <1>2, <1>3 DEF Leads, Orderly

\* Whatever it says, as long as control is ready for it.
LEMMA ReadyReportOrderly ==
    ASSUME OInv, VenueMoves, NEW o \in live.tracked, Sound(live, venue'),
           NEW p, NEW r, Told(o, r, venue'[o]), NEW kept, NEW lost,
           Report(p, o, r, kept, lost), Ready(kept, o), Ready(lost, o)
    PROVE  Orderly
<1>1. live.tracked \ {o} \subseteq Applied(live, o, r).tracked
  BY Present, AppliedLeads
<1>2. ctl' = kept \/ ctl' = lost
  BY DEF Report
<1> QED
  BY <1>1, <1>2, ReportOrderly DEF Ready

\* A read of the venue's record.
LEMMA ReadOrderly ==
    ASSUME OInv, NEW o \in live.tracked, NEW r \in ReadReports(o), NEW p, NEW kept, NEW lost,
           Report(p, o, r, kept, lost), Ready(kept, o), Ready(lost, o), UNCHANGED venue
    PROVE  Orderly
<1>1. Told(o, r, venue[o])
  BY Present, ReadTold
<1>2. VenueMoves
  BY StillMoves DEF OInv, IInv
<1>3. Sound(live, venue')
  BY Present
<1> QED
  BY <1>1, <1>2, <1>3, ReadyReportOrderly

\* Placing the order at hand.
LEMMA PlacementMoves ==
    ASSUME OInv, IInv', NEW o \in Order, ctl.pc = "place", ctl.cur = o,
           NEW v \in PlacedOrders, Places(o, v)
    PROVE  /\ o \in live.tracked /\ live.order[o].filled = 0
           /\ VenueMoves /\ Sound(live, venue')
           /\ venue'[o].status = v.status /\ venue'[o].filled = v.filled
<1>1. o \in live.tracked
  BY DEF OInv, Hands, Calls
<1>2. venue[o].sent = 0 /\ venue[o].filled = 0
  BY DEF OInv, IInv, Placing, Untouched
<1>3. live.order[o].filled = 0
  BY <1>2, QtyAssumption DEF OInv, IInv, Memory, Typed, BookedFill, Snapshot, Sound, Knows
<1>4. v.filled \in Nat /\ v \in VenueOrder
  BY QtyAssumption
     DEF PlacedOrders, Arrivals, Refusals, Unheard, UnknownOrder, VenueOrder, VenueStatus, Ended
<1>5. venue' = [venue EXCEPT ![o] = [v EXCEPT !.sent = 1]]
  BY <1>2 DEF Places
<1>6. venue \in [Order -> SoundOrder]
  BY DEF OInv, IInv, Surroundings
<1>7. /\ venue'[o].sent = 1 /\ venue'[o].filled = v.filled /\ venue'[o].status = v.status
      /\ \A p \in Order \ {o} : venue'[p] = venue[p]
  BY <1>4, <1>5, <1>6 DEF VenueOrder
<1>8. VenueMoves
  <2> SUFFICES ASSUME NEW p \in Order
               PROVE  /\ venue'[p].sent >= venue[p].sent
                      /\ venue'[p].filled >= venue[p].filled
                      /\ Sends(p) => ctl.pc = "place" /\ ctl.cur = p
                      /\ venue'[p].filled > venue[p].filled \/ venue'[p].status \in Trading =>
                            venue[p].status \in Trading \/ Sends(p)
    BY DEF VenueMoves
  <2>1. CASE p = o
    BY <1>2, <1>4, <1>7, <2>1 DEF Sends
  <2>2. CASE p # o
    BY <1>6, <1>7, <2>2, QtyAssumption DEF Sends, SoundOrder, VenueOrder
  <2> QED
    BY <2>1, <2>2
<1>9. Sound(live, venue')
  BY <1>1, <1>8, Present, MovesSound DEF OInv, IInv, VenueMoves
<1> QED
  BY <1>1, <1>3, <1>7, <1>8, <1>9

LEMMA CallCalm ==
    ASSUME NEW o
    PROVE  /\ Calm(GoWith("judge", o)) /\ Calm(GoWith("timedOut", o))
           /\ Calm(Go("halt")) /\ Calm(Go("head"))
           /\ \A e, l : Calm(Raise(e, l))
BY GoCalm, RaiseCalm DEF Busy, Calls

LEMMA PlaceAnsweredOrderly ==
    ASSUME OInv, IInv', NEW o \in Order, PlaceAnswered(o) PROVE Orderly
<1> PICK v \in Arrivals \cup Refusals :
          /\ Places(o, v)
          /\ Report(proc, o, [ReportOf(v) EXCEPT !.hasId = v.status # "rejected"],
                    GoWith("judge", o), Raise("err", live'))
  BY DEF PlaceAnswered
<1> DEFINE r == [ReportOf(v) EXCEPT !.hasId = v.status # "rejected"]
<1>1. ctl.pc = "place" /\ ctl.cur = o
  BY DEF PlaceAnswered
<1>2. /\ o \in live.tracked /\ live.order[o].filled = 0 /\ VenueMoves /\ Sound(live, venue')
      /\ venue'[o].status = v.status /\ venue'[o].filled = v.filled
  BY <1>1, PlacementMoves DEF PlacedOrders
<1>3. v.status \in {"working", "filled", "rejected"} /\ v.filled \in 0 .. Qty
  BY QtyAssumption DEF Arrivals, Refusals, UnknownOrder
<1>4. /\ r.status \in {"submitted", "filled", "rejected"} /\ r.filled = v.filled
      /\ r.hasId \in BOOLEAN /\ (r.status \in Ended => v.status # "working")
  BY <1>3 DEF ReportOf, Ended
<1>5. Told(o, r, venue'[o])
  BY <1>2, <1>3, <1>4, QtyAssumption DEF Told, Answer, Status, Ended, Trading
<1> HIDE DEF r
<1>6. Report(proc, o, r, GoWith("judge", o), Raise("err", live'))
  BY DEF r
<1> QED
  BY <1>2, <1>5, <1>6, CallCalm, CalmReady, ReadyReportOrderly

LEMMA PlaceUnclearOrderly ==
    ASSUME OInv, IInv', NEW o \in Order, PlaceUnclear(o) PROVE Orderly
<1>1. ctl.pc = "place" /\ ctl.cur = o /\ UNCHANGED <<live, disk>>
  BY DEF PlaceUnclear, Checkpointed
<1>2. PICK v \in PlacedOrders : Places(o, v)
  BY DEF PlaceUnclear, PlacedOrders
<1>3. o \in live.tracked /\ VenueMoves /\ Sound(live, venue')
  BY <1>1, <1>2, PlacementMoves
<1>4. Hands(ctl', live) /\ ctl'.pc # "place"
  BY <1>3, CallHands, RaiseCalm, CalmHands DEF PlaceUnclear
<1> QED
  BY <1>1, <1>3, <1>4, Present DEF Orderly, Leads

LEMMA LookupOrderly ==
    ASSUME OInv, NEW o \in Order, Lookup(o) PROVE Orderly
<1>1. o \in live.tracked /\ UNCHANGED venue
  BY DEF Lookup, OInv, Hands, Calls, Outside
<1>2. CASE \E r \in ReadReports(o) :
              Report(proc, o, r, GoWith("judge", o), Raise("err", live'))
  BY <1>1, <1>2, CallCalm, CalmReady, ReadOrderly
<1>3. CASE Checkpointed /\ (ctl' = Go("halt") \/ ctl' = Raise("err", live))
  BY <1>1, <1>3, CallCalm, CalmHands, KeptOrderly
<1> QED
  BY <1>2, <1>3 DEF Lookup

LEMMA PollOrderly ==
    ASSUME OInv, NEW o \in Order, Poll(o) PROVE Orderly
<1>1. o \in live.tracked /\ UNCHANGED venue
  BY DEF Poll, Polls, Advances, IsHead, IsFirst, Outside
<1>2. CASE \E r \in ReadReports(o) :
              Report(proc, o, r, GoWith("judge", o), Raise("err", live'))
  BY <1>1, <1>2, CallCalm, CalmReady, ReadOrderly
<1>3. CASE Checkpointed /\ ctl' \in {Go("halt"), GoWith("timeout", o), Raise("err", live),
                                     Done(live)}
  <2>1. Hands(ctl', live) /\ ctl'.pc # "place"
    BY <1>1, <1>3, CallCalm, CalmHands, CallHands, DoneHands
  <2> QED
    BY <1>1, <1>3, <2>1, KeptOrderly
<1> QED
  BY <1>2, <1>3 DEF Poll

LEMMA JudgeOrderly ==
    ASSUME OInv, NEW o \in Order, Judge(o) PROVE Orderly
<1>1. Checkpointed /\ UNCHANGED venue
  BY DEF Judge, RiskBreached, Outside
<1>2. /\ \A fault, last : /\ Hands(LegFails(o, fault, last), live)
                          /\ LegFails(o, fault, last).pc # "place"
      /\ Hands(Done(live), live) /\ Done(live).pc # "place"
  BY LegFailsHands, DoneHands
<1>3. live.order[o].status = "submitted" => o \in live.tracked
  BY DEF OInv, Sound, Knows, Waiting
<1>4. Hands(ctl', live) /\ ctl'.pc # "place"
  BY <1>2, <1>3, CallCalm, CalmHands, CallHands DEF Judge, RiskBreached
<1> QED
  BY <1>1, <1>4, KeptOrderly

-----------------------------------------------------------------------------
(* Order work: cancels. *)

LEMMA MarkLeads ==
    ASSUME OInv, NEW o \in Order
    PROVE  LET l == [live EXCEPT !.order[o].cancelRequested = TRUE] IN
           Leads(l, venue) /\ l.tracked = live.tracked
<1>1. Leads([live EXCEPT !.order[o].cancelRequested = TRUE], venue)
  BY Present, CancelMarkLeads
<1> QED
  BY <1>1, Present DEF Snapshot

LEMMA TimeoutOrderly ==
    ASSUME OInv, NEW o \in Order, Timeout(o) PROVE Orderly
<1> DEFINE l == [live EXCEPT !.order[o].cancelRequested = TRUE]
<1>1. Leads(l, venue) /\ l.tracked = live.tracked
  BY MarkLeads
<1>2. o \in live.tracked /\ UNCHANGED venue
  BY DEF Timeout, OInv, Hands, Calls, Outside
<1>3. \/ Checkpointed /\ ctl' = Go("halt")
      \/ Saved(l) /\ ctl' = GoWith("timeoutCancel", o)
      \/ NotSaved(l, TRUE) /\ ctl' = Raise("err", l)
  BY DEF Timeout
<1> HIDE DEF l
<1>4. CASE Checkpointed /\ ctl' = Go("halt")
  BY <1>2, <1>4, CallCalm, CalmHands, KeptOrderly
<1>5. CASE Writes(l) /\ (ctl' = GoWith("timeoutCancel", o) \/ ctl' = Raise("err", l))
  <2>1. Hands(ctl', l) /\ ctl'.pc # "place"
    BY <1>1, <1>2, <1>5, CallHands, CallCalm, CalmHands
  <2> QED
    BY <1>1, <1>2, <1>5, <2>1, StepOrderly
<1> QED
  BY <1>3, <1>4, <1>5, CallsWrite

\* A cancel of an order the venue received.
LEMMA CancelMoves ==
    ASSUME OInv, IInv', NEW o \in Order, NEW v \in AfterCancel(venue[o]),
           venue' \in {venue, [venue EXCEPT ![o] = v]}
    PROVE  VenueMoves /\ Sound(live, venue')
<1>1. venue \in [Order -> SoundOrder]
  BY DEF OInv, IInv, Surroundings
<1>2. /\ v.sent = venue[o].sent /\ v.filled = venue[o].filled
      /\ v.status \in Trading => venue[o].status \in Trading
  BY <1>1 DEF AfterCancel, Trading, SoundOrder, VenueOrder
<1>3. \A p \in Order : /\ venue'[p].sent = venue[p].sent
                       /\ venue'[p].filled = venue[p].filled
                       /\ venue'[p].status \in Trading => venue[p].status \in Trading
  BY <1>1, <1>2
<1>4. VenueMoves
  BY <1>1, <1>3, QtyAssumption DEF VenueMoves, Sends, SoundOrder, VenueOrder
<1>5. \A p \in Order : ~Sends(p)
  BY <1>1, <1>3 DEF Sends, SoundOrder, VenueOrder
<1> QED
  BY <1>4, <1>5, Present, MovesSound DEF OInv, IInv

LEMMA CancelTold ==
    ASSUME OInv, IInv', NEW o \in Order, Received(o), NEW v \in AfterCancel(venue[o]),
           venue' = [venue EXCEPT ![o] = v]
    PROVE  Told(o, ReportOf(v), venue'[o])
<1>1. venue[o] \in SoundOrder /\ venue'[o] = v /\ v \in SoundOrder
  BY DEF OInv, IInv, Surroundings
<1>2. v.status \notin {"none", "sending"} /\ v.filled = venue[o].filled
  BY <1>1 DEF AfterCancel, Received, SoundOrder, VenueOrder
<1>3. live.order[o].filled <= venue[o].filled
  BY DEF OInv, IInv, Memory, Typed, BookedFill, Sound, Knows
<1> QED
  BY <1>1, <1>2, <1>3, ReportOfTold

\* What a cancel call, answered or not, leaves.
LEMMA CancelCallOrderly ==
    ASSUME OInv, IInv', NEW o \in live.tracked, Received(o), NEW v \in AfterCancel(venue[o]),
           NEW kept, NEW lost, NEW bad, NEW silent,
           Ready(kept, o), Ready(lost, o), Ready(bad, o), Ready(silent, o),
           \/ /\ venue' = [venue EXCEPT ![o] = v]
              /\ \/ Report(Sent(o), o, ReportOf(v), kept, lost)
                 \/ ctl' = bad /\ Checkpointed
           \/ /\ venue' \in {venue, [venue EXCEPT ![o] = v]}
              /\ ctl' = silent /\ Checkpointed
    PROVE  Orderly
<1>0. o \in Order
  BY Present
<1>1. VenueMoves /\ Sound(live, venue')
  BY <1>0, CancelMoves
<1>2. CASE /\ venue' = [venue EXCEPT ![o] = v]
           /\ Report(Sent(o), o, ReportOf(v), kept, lost)
  BY <1>0, <1>1, <1>2, CancelTold, ReadyReportOrderly
<1>3. CASE Checkpointed /\ ctl' \in {bad, silent}
  <2>1. Hands(ctl', live) /\ ctl'.pc # "place"
    BY <1>3 DEF Ready
  <2> QED
    BY <1>1, <1>3, <2>1, Present DEF Orderly, Leads, Checkpointed
<1> QED
  BY <1>2, <1>3

\* The order at hand has left the list of its loop.
LEMMA LoopReady ==
    ASSUME OInv, ctl.pc \in {"cancel", "send", "force"}
    PROVE  /\ ctl.todo \subseteq live.tracked \ {ctl.cur} /\ ctl.cur \in live.tracked
           /\ Ready(CancelReturns, ctl.cur)
           /\ \A e, m : Ready(CancelRaises(e, m), ctl.cur)
<1>1. ctl.todo \subseteq live.tracked \ {ctl.cur} /\ ctl.cur \in live.tracked
  BY DEF OInv, Hands, Calls
<1> QED
  BY <1>1, Present, CancelReturnsHands, CancelRaisesHands DEF Ready

LEMMA TimeoutCancelOrderly ==
    ASSUME OInv, IInv', NEW o \in Order, TimeoutCancel(o) PROVE Orderly
<1>1. ctl.pc = "timeoutCancel" /\ ctl.cur = o
  BY DEF TimeoutCancel
<1>2. o \in live.tracked /\ Received(o)
  BY <1>1 DEF OInv, IInv, Hands, Calls, Cancelled, Cancels
<1>3. Ready(GoWith("timedOut", o), o) /\ Ready(Go("halt"), o)
  BY CallCalm, CalmReady
<1>4. PICK v \in AfterCancel(venue[o]) :
         \/ /\ venue' = [venue EXCEPT ![o] = v]
            /\ \/ Report(Sent(o), o, ReportOf(v), GoWith("timedOut", o), Go("halt"))
               \/ ctl' = Go("halt") /\ Checkpointed
         \/ /\ venue' \in {venue, [venue EXCEPT ![o] = v]}
            /\ ctl' = Go("halt") /\ Checkpointed
  BY DEF TimeoutCancel
<1> QED
  BY <1>2, <1>3, <1>4, CancelCallOrderly

LEMMA TimedOutOrderly ==
    ASSUME OInv, NEW o \in Order, TimedOut(o) PROVE Orderly
<1>1. Writes(live) /\ UNCHANGED venue
  BY CallsWrite DEF TimedOut, RiskBreached, Outside
<1>2. /\ \A fault, last : /\ Hands(LegFails(o, fault, last), live)
                          /\ LegFails(o, fault, last).pc # "place"
      /\ Hands(Done(live), live) /\ Done(live).pc # "place"
  BY LegFailsHands, DoneHands
<1>3. Hands(ctl', live) /\ ctl'.pc # "place"
  BY <1>2, CallCalm, CalmHands DEF TimedOut, RiskBreached
<1> QED
  BY <1>1, <1>3, Present, StepOrderly

LEMMA CancelUnsentOrderly ==
    ASSUME OInv, NEW o \in Order, CancelUnsent(o) PROVE Orderly
<1> DEFINE l == Dropped(live, {o})
<1>1. ctl.pc = "cancel" /\ ctl.cur = o /\ ~live.order[o].attempted
  BY DEF CancelUnsent, Cancelling
<1>2. Leads(l, venue)
  <2>1. {o} \subseteq live.tracked
    BY <1>1, LoopReady
  <2> QED
    BY <1>1, <2>1, Present, UnsentUnknown, DroppedLeads
<1>3. live.tracked \ {o} = l.tracked
  BY Present DEF Dropped, Snapshot
<1>4. /\ UNCHANGED venue
      /\ \/ Saved(l) /\ ctl' = CancelReturns
         \/ NotSaved(l, TRUE) /\ ctl' = CancelRaises("err", l)
  BY DEF CancelUnsent, Outside
<1> HIDE DEF l
<1>5. Ready(CancelReturns, o) /\ Ready(CancelRaises("err", l), o)
  BY <1>1, LoopReady
<1>6. Hands(ctl', l) /\ ctl'.pc # "place"
  BY <1>3, <1>4, <1>5 DEF Ready
<1> QED
  BY <1>2, <1>4, <1>6, CallsWrite, StepOrderly

LEMMA RequestCancelOrderly ==
    ASSUME OInv, NEW o \in Order, RequestCancel(o) PROVE Orderly
<1> DEFINE l == [live EXCEPT !.order[o].cancelRequested = TRUE]
<1>1. Leads(l, venue) /\ l.tracked = live.tracked
  BY MarkLeads
<1>2. /\ ctl.pc = "cancel" /\ ctl.cur = o /\ UNCHANGED venue
      /\ \/ Saved(l) /\ UNCHANGED ctl
         \/ NotSaved(l, TRUE) /\ ctl' = CancelRaises("err", l)
  BY DEF RequestCancel, Cancelling, Outside
<1> HIDE DEF l
<1>3. Hands(ctl', l) /\ ctl'.pc # "place"
  <2>1. CASE UNCHANGED ctl
    BY <1>1, <1>2, <2>1 DEF OInv, Hands
  <2>2. CASE ctl' = CancelRaises("err", l)
    BY <1>1, <1>2, <2>2, LoopReady DEF Ready
  <2> QED
    BY <1>2, <2>1, <2>2
<1> QED
  BY <1>1, <1>2, <1>3, CallsWrite, StepOrderly

LEMMA CancelReadsOrderly ==
    ASSUME OInv, NEW o \in Order, CancelReads(o) PROVE Orderly
<1> DEFINE send == [ctl EXCEPT !.pc = "send"]
           force == [ctl EXCEPT !.pc = "force"]
<1>1. ctl.pc = "cancel" /\ ctl.cur = o /\ UNCHANGED venue
  BY DEF CancelReads, Cancelling, Outside
<1>2. /\ o \in live.tracked /\ ctl.todo \subseteq live.tracked \ {o}
      /\ Ready(CancelReturns, o) /\ \A e, m : Ready(CancelRaises(e, m), o)
  BY <1>1, LoopReady
<1>3. \A l : o \in l.tracked /\ live.tracked \ {o} \subseteq l.tracked =>
                /\ Hands(send, l) /\ send.pc # "place"
                /\ Hands(force, l) /\ force.pc # "place"
  BY <1>1, <1>2, Present DEF Hands, Calls, Control
<1>4. Hands(CancelReturns, live) /\ CancelReturns.pc # "place"
  BY <1>2 DEF Ready
<1>5. \A e, m : Hands(CancelRaises(e, m), live) /\ CancelRaises(e, m).pc # "place"
  BY <1>2 DEF Ready
<1>6. CASE Checkpointed /\ \/ ctl' \in {send, force, CancelReturns}
                           \/ ctl' = CancelRaises("bad", live)
  <2> HIDE DEF send, force
  <2>1. Hands(ctl', live) /\ ctl'.pc # "place"
    BY <1>2, <1>3, <1>4, <1>5, <1>6
  <2> QED
    BY <1>1, <1>6, <2>1, KeptOrderly
<1>7. ASSUME NEW r \in ReadReports(o),
             Report(proc, o, r, CancelReturns, CancelRaises("err", live'))
      PROVE  Orderly
  BY <1>1, <1>2, <1>7, ReadOrderly
<1>8. ASSUME NEW r \in ReadReports(o), r.status \notin Ended,
             Report(proc, o, r, send, CancelRaises("err", live'))
      PROVE  Orderly
  <2> HIDE DEF send, force
  <2>1. Told(o, r, venue[o])
    BY Present, ReadTold
  <2>2. /\ live.tracked \ {o} \subseteq Applied(live, o, r).tracked
        /\ o \in Applied(live, o, r).tracked
    BY <1>2, <1>8, <2>1, Present, AppliedLeads
  <2>3. ctl' = send \/ ctl' = CancelRaises("err", live')
    BY <1>8 DEF Report
  <2>4. Hands(ctl', Applied(live, o, r)) /\ ctl'.pc # "place"
    BY <1>2, <1>3, <2>2, <2>3 DEF Ready
  <2>5. VenueMoves
    BY <1>1, StillMoves DEF OInv, IInv
  <2>6. Sound(live, venue') /\ Told(o, r, venue'[o])
    BY <1>1, <2>1, Present
  <2> QED
    BY <1>2, <1>8, <2>4, <2>5, <2>6, ReportOrderly
<1> QED
  BY <1>6, <1>7, <1>8 DEF CancelReads

LEMMA CancelSendsOrderly ==
    ASSUME OInv, IInv', NEW o \in Order, CancelSends(o) PROVE Orderly
<1>1. ctl.pc = "send" /\ ctl.cur = o
  BY DEF CancelSends
<1>2. o \in live.tracked /\ Received(o)
  BY <1>1 DEF OInv, IInv, Hands, Calls, Cancelled, Cancels
<1>3. Ready(CancelReturns, o) /\ \A e, m : Ready(CancelRaises(e, m), o)
  BY <1>1, LoopReady
<1>4. PICK v \in AfterCancel(venue[o]) :
         \/ /\ venue' = [venue EXCEPT ![o] = v]
            /\ \/ Report(Sent(o), o, ReportOf(v), CancelReturns, CancelRaises("err", live'))
               \/ ctl' = CancelRaises("bad", live) /\ Checkpointed
         \/ /\ venue' \in {venue, [venue EXCEPT ![o] = v]}
            /\ ctl' = CancelReturns /\ Checkpointed
  BY DEF CancelSends
<1> QED
  BY <1>2, <1>3, <1>4, CancelCallOrderly

LEMMA CancelForcedOrderly ==
    ASSUME OInv, IInv', NEW o \in Order, CancelForced(o) PROVE Orderly
<1>1. ctl.pc = "force" /\ ctl.cur = o
  BY DEF CancelForced
<1>2. o \in live.tracked /\ Received(o)
  BY <1>1 DEF OInv, IInv, Hands, Calls, Cancelled, Cancels
<1>3. \A e, m : Ready(CancelRaises(e, m), o)
  BY <1>1, LoopReady
<1>4. PICK v \in AfterCancel(venue[o]) :
         \/ /\ venue' = [venue EXCEPT ![o] = v]
            /\ \/ Report(Sent(o), o, ReportOf(v), CancelRaises("bad", live'),
                         CancelRaises("bad", live'))
               \/ ctl' = CancelRaises("bad", live) /\ Checkpointed
         \/ /\ venue' \in {venue, [venue EXCEPT ![o] = v]}
            /\ ctl' = CancelRaises("bad", live) /\ Checkpointed
  BY DEF CancelForced
<1> QED
  BY <1>2, <1>3, <1>4, CancelCallOrderly

LEMMA CancelJudgedOrderly ==
    ASSUME OInv, NEW o \in Order, CancelJudged(o) PROVE Orderly
<1>1. Checkpointed /\ UNCHANGED venue
  BY DEF CancelJudged, RiskBreached, Outside
<1>2. /\ \A fault, last : /\ Hands(LegFails(o, fault, last), live)
                          /\ LegFails(o, fault, last).pc # "place"
      /\ Hands(Done(live), live) /\ Done(live).pc # "place"
  BY LegFailsHands, DoneHands
<1>3. Hands(ctl', live) /\ ctl'.pc # "place"
  BY <1>2, CallCalm, CalmHands DEF CancelJudged, RiskBreached
<1> QED
  BY <1>1, <1>3, KeptOrderly

LEMMA NextInLoopOrderly ==
    ASSUME OInv, NEW o \in Order, NextInLoop(o) PROVE Orderly
<1>1. o \in ctl.todo /\ ctl.todo \subseteq live.tracked
  BY DEF NextInLoop, IsFirst, OInv, Hands
<1>2. Hands(ctl', live) /\ ctl'.pc # "place"
  BY <1>1, Present DEF NextInLoop, Hands, Calls, Control
<1> QED
  BY <1>2, KeptOrderly DEF NextInLoop, Outside

LEMMA GroupCancelledOrderly == ASSUME OInv, GroupCancelled PROVE Orderly
<1> DEFINE l == [live EXCEPT !.rebalancing = FALSE]
<1>1. Leads(l, venue) /\ Leads(live, venue) /\ UNCHANGED venue
  BY FlagsLeadNow, Present DEF GroupCancelled, Outside
<1>2. \/ Writes(live) /\ ctl' \in {Go("head"), Done(l)}
      \/ Writes(l) /\ ctl' \in {Go("head"), Done(l), Raise("err", l)}
  <2> DEFINE next == IF ctl.loop = "group" THEN Go("head") ELSE Done(l)
  <2>1. \/ Checkpointed /\ ctl' = next
        \/ Saved(l) /\ ctl' = next
        \/ NotSaved(l, FALSE) /\ ctl' = Raise("err", l)
    BY DEF GroupCancelled
  <2>2. next \in {Go("head"), Done(l)}
    OBVIOUS
  <2> HIDE DEF l, next
  <2> QED
    BY <2>1, <2>2, CallsWrite
<1>3. l.tracked = live.tracked
  BY Present DEF Snapshot
<1> HIDE DEF l
<1>4. Hands(ctl', l) /\ ctl'.pc # "place"
  BY <1>2, CallCalm, CalmHands, DoneHands
<1>5. Hands(ctl', live)
  BY <1>3, <1>4 DEF Hands
<1> QED
  BY <1>1, <1>2, <1>4, <1>5, StepOrderly

LEMMA LegsDroppedOrderly == ASSUME OInv, LegsDropped PROVE Orderly
<1>1. Leads(Started(live, ctl.cur), venue)
  BY Present, StartedLeads
<1>2. Writes(Started(live, ctl.cur)) /\ UNCHANGED venue /\ Calm(ctl')
  BY CallCalm DEF LegsDropped, Writes, Outside
<1> QED
  BY <1>1, <1>2, CalmOrderly

-----------------------------------------------------------------------------
(* The invariant. *)

LEMMA InitOrders == Init => OInv
<1> SUFFICES ASSUME Init PROVE OInv
  OBVIOUS
<1>1. IInv
  BY InitHolds
<1>2. /\ live.tracked = {} /\ disk = live
      /\ \A o \in Order : /\ live.order[o].status = "new" /\ ~live.order[o].attempted
                          /\ live.book[o] = 0
  BY DEF Init, FreshSnapshot, FreshOrder
<1>3. \A o \in Order : venue[o].status = "none" /\ venue[o].filled = 0
  BY DEF Init, UnknownOrder
<1>4. Sound(live, venue)
  BY <1>2, <1>3 DEF Sound, Serial, Alone, Knows, Waiting, Trading
<1>5. Before(disk, live)
  BY <1>1, <1>2, BeforeItself DEF IInv, Memory
<1>6. Untouched
  BY <1>3 DEF Untouched
<1>7. Hands(ctl, live) /\ ctl.pc # "place"
  <2>1. Calm(ctl)
    BY AtCalm DEF Init, Busy, Calls
  <2> QED
    BY <2>1, CalmHands
<1> QED
  BY <1>1, <1>2, <1>4, <1>5, <1>6, <1>7 DEF OInv

LEMMA CycleKeepsOrders == ASSUME OInv, IInv', CycleStep PROVE OKeeps
<1>1. CASE Start
  BY <1>1, StartKeepsOrders
<1>2. CASE ~Start
  BY <1>2, OrderlyKeeps, BeginCycleOrderly, CarryRowsOrderly, ReconcileOrderly, BarOrderly,
     EventOrderly, DecideOrderly, RebalanceLegOrderly, EquityOrderly, CommitOrderly,
     OpenOrdersOrderly, VerifyOrderly
     DEF CycleStep
<1> QED
  BY <1>1, <1>2

LEMMA AccountHaltKeepsOrders == ASSUME OInv, IInv', AccountHaltStep PROVE OKeeps
BY OrderlyKeeps, HaltOrderly, HaltPassEndsOrderly, RetryHaltOrderly, RequestedResetOrderly,
   FlattenOrderly, FlattenPassEndsOrderly, FlattenAccountOrderly, ExitsHaltOrderly
   DEF AccountHaltStep

LEMMA OperatorKeepsOrders == ASSUME OInv, IInv', OperatorStep PROVE OKeeps
BY OrderlyKeeps, OperatorHaltOrderly, OperatorResetOrderly, PauseEntriesOrderly,
   ResumeEntriesKeepsOrders, RequestKeepsOrders
   DEF OperatorStep

LEMMA OrderWorkKeepsOrders == ASSUME OInv, IInv', OrderWorkStep PROVE OKeeps
<1>1. CASE AdvanceReturns \/ GroupCancelled \/ LegsDropped
  BY <1>1, OrderlyKeeps, AdvanceReturnsOrderly, GroupCancelledOrderly, LegsDroppedOrderly
<1>2. ASSUME NEW o \in Order,
             \/ FinishOwnCancel(o) \/ DropPaused(o) \/ DropUnfunded(o) \/ Attempt(o)
             \/ PlaceAnswered(o) \/ PlaceUnclear(o)
      PROVE  OKeeps
  BY <1>2, OrderlyKeeps, FinishOwnCancelOrderly, DropPausedOrderly, DropUnfundedOrderly,
     AttemptOrderly, PlaceAnsweredOrderly, PlaceUnclearOrderly
<1>3. ASSUME NEW o \in Order,
             \/ Lookup(o) \/ Poll(o) \/ Judge(o)
             \/ Timeout(o) \/ TimeoutCancel(o) \/ TimedOut(o)
      PROVE  OKeeps
  BY <1>3, OrderlyKeeps, LookupOrderly, PollOrderly, JudgeOrderly, TimeoutOrderly,
     TimeoutCancelOrderly, TimedOutOrderly
<1>4. ASSUME NEW o \in Order,
             \/ CancelUnsent(o) \/ RequestCancel(o) \/ CancelReads(o) \/ CancelSends(o)
             \/ CancelForced(o) \/ CancelJudged(o) \/ NextInLoop(o)
      PROVE  OKeeps
  BY <1>4, OrderlyKeeps, CancelUnsentOrderly, RequestCancelOrderly, CancelReadsOrderly,
     CancelSendsOrderly, CancelForcedOrderly, CancelJudgedOrderly, NextInLoopOrderly
<1> QED
  BY <1>1, <1>2, <1>3, <1>4 DEF OrderWorkStep

LEMMA StutterKeepsOrders == ASSUME OInv, IInv', UNCHANGED vars PROVE OKeeps
<1>1. Orderly
  BY Present, StillMoves DEF vars, OInv, IInv, Orderly, Leads
<1> QED
  BY <1>1, OrderlyKeeps

LEMMA NextKeepsOrders == OInv /\ [Next]_vars => OKeeps
<1> SUFFICES ASSUME OInv, [Next]_vars PROVE OKeeps
  OBVIOUS
<1>1. IInv'
  BY NextKeeps DEF OInv, Keeps
<1> QED
  BY <1>1, CycleKeepsOrders, AccountHaltKeepsOrders, OperatorKeepsOrders,
     OrderWorkKeepsOrders, StutterKeepsOrders, CrashKeepsOrders, VenueStepKeepsOrders
     DEF Next, EngineStep

\* The invariant of the orders holds in every reachable state.
THEOREM OrdersInvariance == Spec => []OInv
<1>1. OInv /\ [Next]_vars => OInv'
  BY NextKeepsOrders DEF OKeeps
<1> QED
  BY <1>1, InitOrders, PTL DEF Spec

\* An order that may still trade at the venue is tracked, in memory and in the
\* checkpoint a restart would load: whatever fails between _execute_live_decision
\* and _apply_order_report, none is forgotten.
THEOREM NoOrphanHolds == Spec => []NoOrphan
<1>1. OInv => NoOrphan
  BY DEF OInv, Sound, Knows, Trading, NoOrphan, MayTrade
<1> QED
  BY <1>1, OrdersInvariance, PTL

\* The book takes each unit the venue fills once, in memory and in the
\* checkpoint: never more than it filled, and all of it once the order has left
\* the queue (_apply_order_report books the difference of two reports, and no
\* answer, lookup or cancel is booked twice across a restart).
THEOREM BookMatchesVenueHolds == Spec => []BookMatchesVenue
<1>1. OInv => BookMatchesVenue
  BY DEF OInv, Sound, Knows, BookMatchesVenue, Books
<1> QED
  BY <1>1, OrdersInvariance, PTL

\* Dependent orders are serialized: of a queue, only the head has been sent
\* (_advance_live_orders works on the head until it rests).
THEOREM SerialAtVenueHolds == Spec => []SerialAtVenue
<1>1. OInv => SerialAtVenue
  BY DEF OInv, Sound, Serial, SerialAtVenue, IsHead
<1> QED
  BY <1>1, OrdersInvariance, PTL

\* The exits of a breach or a flatten share the queue with nothing: they are
\* never queued behind, or in front of, a strategy's order (_flatten_at).
THEOREM RecoveryExitsAloneHolds == Spec => []RecoveryExitsAlone
<1>1. OInv => RecoveryExitsAlone
  BY DEF OInv, Sound, Alone, RecoveryExitsAlone
<1> QED
  BY <1>1, OrdersInvariance, PTL

-----------------------------------------------------------------------------
(* The checkpoint and the venue implement the ledger. *)

LEMMA LedgerInit == Init => Ledger!Init
<1> SUFFICES ASSUME Init PROVE Ledger!Init
  OBVIOUS
<1>1. \A o \in Order : /\ disk.order[o].status = "new" /\ ~disk.order[o].attempted
                       /\ o \notin disk.tracked
                       /\ venue[o].status = "none" /\ venue[o].filled = 0 /\ venue[o].sent = 0
  BY DEF Init, FreshSnapshot, FreshOrder, UnknownOrder
<1>2. LedgerPhase = [o \in Order |-> "unknown"]
  BY <1>1 DEF LedgerPhase
<1>3. disk.book = [o \in Order |-> 0]
  BY DEF Init, FreshSnapshot
<1> QED
  BY <1>1, <1>2, <1>3 DEF Ledger!Init, MayTrade

\* The record's phase never goes back.
LEMMA LedgerMoves ==
    ASSUME Before(disk, disk'), NEW o \in Order PROVE Ledger!Moves(o)
<1>1. Phase(disk, o) <= Phase(disk', o)
  BY DEF Before
<1>2. /\ LedgerPhase[o] = IF o \notin disk.tracked /\ disk.order[o].status # "new" THEN "closed"
                          ELSE IF disk.order[o].attempted THEN "attempted"
                          ELSE IF o \in disk.tracked THEN "queued" ELSE "unknown"
      /\ LedgerPhase'[o] =
            IF o \notin disk'.tracked /\ disk'.order[o].status # "new" THEN "closed"
            ELSE IF disk'.order[o].attempted THEN "attempted"
            ELSE IF o \in disk'.tracked THEN "queued" ELSE "unknown"
  BY DEF LedgerPhase
<1> QED
  BY <1>1, <1>2 DEF Phase, Ledger!Moves

LEMMA LedgerStep ==
    ASSUME OInv, OKeeps, NEW o \in Order
    PROVE  /\ Ledger!Moves(o) /\ Ledger!Sends(o) /\ Ledger!Opens(o)
           /\ Ledger!Trades(o) /\ Ledger!Books(o) /\ Ledger!Closes(o)
<1> DEFINE sent == [p \in Order |-> venue[p].sent]
           traded == [p \in Order |-> venue[p].filled]
           open == {p \in Order : MayTrade(p)}
<1>1. /\ sent[o] = venue[o].sent /\ sent'[o] = venue'[o].sent
      /\ traded[o] = venue[o].filled /\ traded'[o] = venue'[o].filled
      /\ o \in open <=> venue[o].status \in Trading
      /\ o \in open' <=> venue'[o].status \in Trading
  BY DEF MayTrade, Trading
<1>2. venue[o] \in SoundOrder /\ venue'[o] \in SoundOrder
  BY DEF OKeeps, OInv, IInv, Surroundings
<1>3. /\ venue[o].sent \in {0, 1} /\ venue'[o].sent \in {0, 1}
      /\ venue[o].filled \in 0 .. Qty /\ venue'[o].filled \in 0 .. Qty
  BY <1>2 DEF SoundOrder, VenueOrder
<1>4. /\ venue'[o].sent >= venue[o].sent
      /\ venue'[o].filled >= venue[o].filled
      /\ Sends(o) => ctl.pc = "place" /\ ctl.cur = o
      /\ venue'[o].filled > venue[o].filled \/ venue'[o].status \in Trading =>
            venue[o].status \in Trading \/ Sends(o)
  BY DEF OKeeps, VenueMoves
<1>5. Sends(o) => sent[o] = 0 /\ sent'[o] = 1
  BY <1>1, <1>3 DEF Sends
<1>6. ~Sends(o) => sent'[o] = sent[o]
  BY <1>1, <1>3, <1>4 DEF Sends
<1>7. Sends(o) => LedgerPhase[o] = "attempted"
  <2> SUFFICES ASSUME Sends(o) PROVE LedgerPhase[o] = "attempted"
    OBVIOUS
  <2>1. ctl.pc = "place" /\ ctl.cur = o
    BY <1>4
  <2>2. disk.order[o].attempted /\ o \in disk.tracked
    BY <2>1 DEF OInv, IInv, Placing, Hands, Calls
  <2> QED
    BY <2>2 DEF LedgerPhase
<1>8. /\ disk.book[o] \in Nat /\ disk'.book[o] \in Nat
      /\ disk.book[o] <= disk'.book[o] /\ disk'.book[o] <= venue'[o].filled
  <2>1. disk.book[o] \in Nat /\ disk'.book[o] \in Nat
    BY QtyAssumption DEF OKeeps, OInv, IInv, Memory, Typed, Snapshot
  <2> QED
    BY <2>1 DEF OKeeps, OInv, Before, Sound, Knows
<1>9. LedgerPhase'[o] = "closed" =>
         venue'[o].status \notin Trading /\ disk'.book[o] = venue'[o].filled
  <2>1. LedgerPhase'[o] = "closed" => o \notin disk'.tracked
    BY DEF LedgerPhase
  <2> QED
    BY <2>1 DEF OKeeps, OInv, Sound, Knows
<1> HIDE DEF sent, traded, open
<1>10. Ledger!Moves(o)
  BY LedgerMoves DEF OKeeps
<1>11. Ledger!Sends(o)
  BY <1>5, <1>6, <1>7 DEF Ledger!Sends, Ledger!SentNow, sent
<1>12. Ledger!Opens(o)
  BY <1>1, <1>4, <1>5 DEF Ledger!Opens, Ledger!SentNow, sent, open
<1>13. Ledger!Trades(o)
  BY <1>1, <1>3, <1>4, <1>5, QtyAssumption
     DEF Ledger!Trades, Ledger!SentNow, sent, open, traded
<1>14. Ledger!Books(o)
  BY <1>1, <1>3, <1>8, QtyAssumption DEF Ledger!Books, traded
<1>15. Ledger!Closes(o)
  BY <1>1, <1>9 DEF Ledger!Closes, open, traded
<1> QED
  BY <1>10, <1>11, <1>12, <1>13, <1>14, <1>15

LEMMA LedgerNext == OInv /\ [Next]_vars => Ledger!Next
BY NextKeepsOrders, LedgerStep DEF Ledger!Next

\* The checkpoint and the venue together implement OrderLedger: an order is
\* recorded as attempted before it is sent, sent at most once, and closed only
\* when the venue can trade it no more and every unit it traded is booked.
THEOREM LedgerImplemented == Spec => LedgerSpec
<1>1. OInv /\ [Next]_vars => [Ledger!Next]_(Ledger!ledger)
  BY LedgerNext
<1> QED
  BY <1>1, LedgerInit, OrdersInvariance, PTL DEF Spec, LedgerSpec, Ledger!Spec

=============================================================================
