------------------------------ MODULE Delivery ------------------------------
(***************************************************************************)
(* What a LiveTrader leaves behind of its fills and bars: the checkpoint   *)
(* and the order rows written with it, the position events offered to a    *)
(* durable sink, and the audit rows of the bars it decided on              *)
(* (live/engine.py, live/ohlcv_audit.py, db/timescale_state.py,            *)
(* orchestration/live.py).                                                 *)
(*                                                                         *)
(* Fill n is the only fill of order n and makes one event; the orders are  *)
(* terminal once filled.  Bar b is one bar of one subscription.  Every     *)
(* call of the store or of the sink is a step of its own, and the process  *)
(* may end between any two.                                                *)
(***************************************************************************)
EXTENDS Integers, Sequences, FiniteSets, FiniteSetsExt, SequencesExt

CONSTANTS
    MaxFills, MaxBars, MaxFaults, MaxCrashes,  \* bounds of an instance
    MaxPending, MaxAttempts, Recovery,         \* the engine's class constants
    MaxAudit,                                  \* MAX_PENDING_OHLCV
    RefusedRows,   \* orders whose ledger row the store refuses while it is up
    RefusedEvents, \* fills whose event the sink never accepts
    RefusedBars    \* bars whose timestamp the sink's writer refuses

ASSUME DeliveryAssumption ==
    /\ {MaxFills, MaxBars, MaxFaults, MaxCrashes} \subseteq Nat
    /\ {MaxPending, MaxAttempts, Recovery, MaxAudit} \subseteq Nat \ {0}
    /\ RefusedRows \subseteq 1 .. MaxFills /\ RefusedEvents \subseteq 1 .. MaxFills
    /\ RefusedBars \subseteq 1 .. MaxBars

VARIABLES
    db,     \* the store: the checkpoint and broker_orders
    sink,   \* the sink: position_events and run_bars
    mem,    \* the process: LiveTrader's fields
    pc,     \* where the poll cycle is
    gone,   \* history: what was dropped, refused or lost, and how often
    faults, crashes

vars == <<db, sink, mem, pc, gone, faults, crashes>>

Fill == 1 .. MaxFills
Bar  == 1 .. MaxBars
Numbers(q) == {q[i] : i \in DOMAIN q}
-----------------------------------------------------------------------------
(***************************************************************************)
(* The checkpoint                                                          *)
(***************************************************************************)
FreshStore == [fills |-> 0, seq |-> 0, bars |-> 0, audit |-> <<>>, rows |-> {}]

\* TimescaleLiveStateStore.save: the snapshot and the rows in one transaction.
Saved(rows) == [fills |-> mem.fills, seq |-> mem.seq, bars |-> mem.bars,
                audit |-> mem.audit, rows |-> db.rows \cup rows]

Fault == faults < MaxFaults /\ faults' = faults + 1
Sound == faults' = faults

\* One call of save: it lands and returns, or raises with nothing written, or
\* raises although it was written (the connection is lost at the commit).
Lands(rows) == rows \cap RefusedRows = {} /\ Sound /\ db' = Saved(rows)
Fails(rows) ==
    \/ rows \cap RefusedRows # {} /\ Sound /\ UNCHANGED db
    \/ Fault /\ UNCHANGED db
    \/ rows \cap RefusedRows = {} /\ Fault /\ db' = Saved(rows)

\* A process starts from its checkpoint; everything else it held is gone.
\* Faulty variant: the queue of audit rows is not restored.
WithoutAudit(d) ==
    [fills |-> d.fills, seq |-> d.seq, bars |-> d.bars, audit |-> <<>>,
     rows |-> {}, results |-> <<>>, queue |-> <<>>, refused |-> 0, clean |-> 0,
     degraded |-> FALSE]
Started(d) == [WithoutAudit(d) EXCEPT !.audit = d.audit]

At(place, caller) == [at |-> place, caller |-> caller, flush |-> "none", offered |-> 0]
Idle == At("idle", "none")

\* _persist_state returns to its caller, or raises through it.  Only the
\* recording of a bar after its checkpoint is guarded against a raise.
Returned ==
    CASE pc.caller \in {"carry", "book"} -> At("publish", pc.caller)
      [] pc.caller = "retry"    -> At("bars", "none")
      [] pc.caller = "cycle"    -> At("audit", "cycle")
      [] pc.caller = "recorded" -> At("mark", "none")
      [] pc.caller = "mark"     -> Idle
Raised == IF pc.caller = "recorded" THEN At("mark", "none") ELSE Idle

\* A failed write that carried rows is tried again with the snapshot alone.
\* Faulty variant: it is not.
GivesUp      == Raised
AfterFailure == IF mem.rows = {} THEN Raised ELSE [pc EXCEPT !.at = "probe"]

SaveAll ==
    /\ pc.at = "save"
    /\ \/ /\ Lands(mem.rows)
          /\ mem' = [mem EXCEPT !.rows = {}]
          /\ pc' = Returned
       \/ /\ Fails(mem.rows)
          /\ pc' = AfterFailure
          /\ UNCHANGED mem
    /\ UNCHANGED <<sink, gone, crashes>>

\* _store_accepts: with the snapshot alone written, the store is up.
\* Faulty variant: a refused row fails the checkpoint as an outage does.
Outage  == Raised
StoreUp == [pc EXCEPT !.at = "row"]

Probe ==
    /\ pc.at = "probe"
    /\ \/ Lands({}) /\ pc' = StoreUp
       \/ Fails({}) /\ pc' = Raised
    /\ UNCHANGED <<sink, mem, gone, crashes>>

\* _write_rows_one_by_one
Carried == Min(mem.rows)

\* Faulty variant: a row is tried once.
OneTry    == {1}
RowTries  == {1, 2}
TryOf(at) == IF at = "row" THEN 1 ELSE 2

WriteRow ==
    /\ pc.at \in {"row", "rowAgain"} /\ mem.rows # {}
    /\ \/ /\ Lands({Carried})
          /\ mem' = [mem EXCEPT !.rows = @ \ {Carried}]
          /\ pc' = [pc EXCEPT !.at = "row"]
       \/ /\ Fails({Carried})
          /\ pc' = [pc EXCEPT !.at = IF TryOf(pc.at) + 1 \in RowTries THEN "rowAgain" ELSE "rowProbe"]
          /\ UNCHANGED mem
    /\ UNCHANGED <<sink, gone, crashes>>

RowsWritten ==
    /\ pc.at = "row" /\ mem.rows = {}
    /\ pc' = Returned
    /\ UNCHANGED <<db, sink, mem, gone, faults, crashes>>

\* A row that failed twice is refused if the snapshot alone is still taken
\* (_reject_order_row).
ProbeAgain ==
    /\ pc.at = "rowProbe"
    /\ \/ /\ Lands({})
          /\ mem' = [mem EXCEPT !.rows = @ \ {Carried}]
          /\ gone' = [gone EXCEPT !.rows = @ \cup {Carried}]
          /\ pc' = [pc EXCEPT !.at = "row"]
       \/ Fails({}) /\ pc' = Raised /\ UNCHANGED <<mem, gone>>
    /\ UNCHANGED <<sink, crashes>>
-----------------------------------------------------------------------------
(***************************************************************************)
(* The poll cycle up to its order work, and a fill                         *)
(***************************************************************************)
Poll ==
    /\ pc.at = "idle"
    /\ pc' = At(IF mem.rows # {} THEN "save" ELSE "publish", "carry")
    /\ UNCHANGED <<db, sink, mem, gone, faults, crashes>>

\* _apply_order_report, after a cycle's flush; a fill the checkpoint lost is
\* reported again.
Book ==
    /\ pc.at = "orders" /\ mem.fills < MaxFills
    /\ LET n == mem.fills + 1 IN
         mem' = [mem EXCEPT !.fills = n, !.rows = @ \cup {n}, !.results = Append(@, n)]
    /\ pc' = At("save", "book")
    /\ UNCHANGED <<db, sink, gone, faults, crashes>>

NoFill ==
    /\ pc.at = "orders"
    /\ pc' = At("audit", "retry")
    /\ UNCHANGED <<db, sink, mem, gone, faults, crashes>>
-----------------------------------------------------------------------------
(***************************************************************************)
(* Position events                                                         *)
(***************************************************************************)
Flush(kind) == [pc EXCEPT !.at = "offer", !.flush = kind]

\* _publish_checkpointed_results, oldest first, and _publish_action_results

Publish ==
    /\ pc.at = "publish" /\ mem.results # <<>>
    /\ LET m == [mem EXCEPT !.results = Tail(@), !.seq = @ + 1,
                            !.queue = Append(@, [fill |-> Head(mem.results), seq |-> mem.seq + 1])]
       IN mem' = m /\ pc' = Flush(IF Len(m.queue) > MaxPending THEN "over" ELSE "each")
    /\ UNCHANGED <<db, sink, gone, faults, crashes>>

Published ==
    /\ pc.at = "publish" /\ mem.results = <<>>
    /\ pc' = IF pc.caller = "carry" THEN Flush("counted") ELSE At("audit", "retry")
    /\ UNCHANGED <<db, sink, mem, gone, faults, crashes>>

\* _pop_head_position_event
\* Faulty variant: the next head inherits the count.
KeepCount(m) == [m EXCEPT !.queue = Tail(@)]
PopHead(m)   == [m EXCEPT !.queue = Tail(@), !.refused = 0]

\* _flush_pending_position_events has nothing more to offer, or stops.
Flushed(m) ==
    CASE pc.flush = "over" ->
           IF Len(m.queue) > MaxPending THEN [pc EXCEPT !.at = "trim"] ELSE Flush("each")
      [] pc.flush = "each" -> At("publish", pc.caller)
      [] pc.flush = "counted" -> At("orders", "none")

\* Recovery is counted in the poll cycle's flushes only.
CleanCycle(m) ==
    IF pc.flush # "counted" \/ ~m.degraded THEN m
    ELSE IF m.clean + 1 >= Recovery THEN [m EXCEPT !.clean = 0, !.degraded = FALSE]
    ELSE [m EXCEPT !.clean = @ + 1]

NothingToOffer ==
    /\ pc.at = "offer" /\ mem.queue = <<>>
    /\ mem' = CleanCycle(mem) /\ pc' = Flushed(mem)
    /\ UNCHANGED <<db, sink, gone, faults, crashes>>

\* write_trade_event: a number the sink holds for the same time is ignored.
\* The fills of an instance share one time, the worst case.
Known(seq) == \E e \in sink.numbered : e.seq = seq
Stores(h)  == sink' = IF Known(h.seq) THEN sink
                      ELSE [sink EXCEPT !.events = Append(@, h.fill), !.numbered = @ \cup {h}]

Accept ==
    /\ pc.at = "offer" /\ mem.queue # <<>>
    /\ LET h == Head(mem.queue) IN
         /\ h.fill \notin RefusedEvents
         /\ Stores(h)
         /\ gone' = IF Known(h.seq) /\ h \notin sink.numbered
                    THEN [gone EXCEPT !.swallowed = @ \cup {h.fill}] ELSE gone
    /\ mem' = PopHead(mem)
    /\ UNCHANGED <<db, pc, faults, crashes>>

\* A refusal stops the flush; the poll cycle's counts toward the head's bound.
\* Faulty variants: the next event takes the head's place; the head is lost.
Skipped(m)  == [m EXCEPT !.queue = Append(Tail(@), Head(@)), !.refused = 0]
Discards(m) == [m EXCEPT !.queue = Tail(@)]
Refusals(m) == [m EXCEPT !.refused = IF pc.flush = "counted" THEN @ + 1 ELSE @]

Exhausted(m) == m.refused >= MaxAttempts

Refuse ==
    /\ pc.at = "offer" /\ mem.queue # <<>>
    /\ LET h == Head(mem.queue)
           m == [Refusals(mem) EXCEPT !.degraded = TRUE, !.clean = 0]
       IN /\ \/ h.fill \in RefusedEvents /\ Sound /\ UNCHANGED sink
             \/ Fault /\ UNCHANGED sink
             \/ h.fill \notin RefusedEvents /\ Fault /\ Stores(h)
          /\ mem' = IF Exhausted(m) THEN PopHead(m) ELSE m
          /\ gone' = [gone EXCEPT !.events = IF Exhausted(m) THEN @ \cup {h.fill} ELSE @,
                                  !.tries[h.fill] = IF pc.flush = "counted" THEN Min({@ + 1, MaxAttempts}) ELSE @,
                                  !.exhausted = IF Exhausted(m) THEN @ \cup {h.fill} ELSE @]
          /\ pc' = Flushed(m)
    /\ UNCHANGED <<db, crashes>>

\* _queue_position_event: past the bound, the oldest are dropped.
Trim ==
    /\ pc.at = "trim"
    /\ mem' = PopHead(mem)
    /\ gone' = [gone EXCEPT !.events = @ \cup {Head(mem.queue).fill}]
    /\ pc' = IF Len(mem'.queue) > MaxPending THEN pc ELSE Flush("each")
    /\ UNCHANGED <<db, sink, faults, crashes>>
-----------------------------------------------------------------------------
(***************************************************************************)
(* Audit rows (live/ohlcv_audit.py) and the commit of a decided bar        *)
(***************************************************************************)
\* flush_pending sends the rows that follow in time order in one call.  A bar
\* whose commit failed is queued again, so a bar may be queued twice.
Offered(q, from) ==
    Max({k \in from .. Len(q) : \A i \in from .. k - 1 : q[i] < q[i + 1]})

\* Where a flush returns to: the poll cycle, or the bar's commit.
AfterFlush == IF pc.caller = "retry" THEN At("bars", "none") ELSE At("mark", "none")

Behind(q, offered) == SubSeq(q, offered + 1, Len(q))

\* The flush ends; what was accepted leaves the queue before the checkpoint.
FlushEnds(offered) ==
    IF offered = 0 THEN pc' = AfterFlush /\ UNCHANGED mem
    ELSE /\ mem' = [mem EXCEPT !.audit = Behind(@, offered)]
         /\ pc' = At("save", IF pc.caller = "retry" THEN "retry" ELSE "recorded")

\* The sink stores each row version once; a bar whose timestamp its writer
\* refuses is alerted and acknowledged (_TimescaleCallbacks.on_ohlcv_batch).
OfferRows ==
    /\ pc.at = "audit" /\ pc.offered < Len(mem.audit)
    /\ LET from == pc.offered + 1
           to   == Offered(mem.audit, from)
           rows == {mem.audit[i] : i \in from .. to}
           kept == [sink EXCEPT !.bars = @ \cup (rows \ RefusedBars)]
       IN \/ /\ sink' = kept /\ gone' = [gone EXCEPT !.bars = @ \cup (rows \cap RefusedBars)]
             /\ pc' = [pc EXCEPT !.offered = to]
             /\ Sound /\ UNCHANGED mem
          \/ /\ Fault /\ sink' \in {sink, kept}
             /\ FlushEnds(pc.offered)
             /\ UNCHANGED gone
    /\ UNCHANGED <<db, crashes>>

AllOffered ==
    /\ pc.at = "audit" /\ pc.offered = Len(mem.audit)
    /\ FlushEnds(pc.offered)
    /\ UNCHANGED <<db, sink, gone, faults, crashes>>

\* _commit_cycle_bars: the decided bar is queued, or dropped loudly when the
\* queue is full, before the checkpoint that lets the watermark pass it.
\* Faulty variant: the queue has no bound.
Unbounded(b) == [mem EXCEPT !.audit = Append(@, b)]
Full         == Len(mem.audit) >= MaxAudit
QueueRow(b)  == IF Full THEN mem ELSE [mem EXCEPT !.audit = Append(@, b)]

Decide ==
    /\ pc.at = "bars" /\ mem.bars < MaxBars
    /\ LET b == mem.bars + 1 IN
         /\ mem' = QueueRow(b)
         /\ gone' = [gone EXCEPT !.bars = IF Full THEN @ \cup {b} ELSE @]
    /\ pc' = At("save", "cycle")
    /\ UNCHANGED <<db, sink, faults, crashes>>

NoBar ==
    /\ pc.at = "bars"
    /\ pc' = Idle
    /\ UNCHANGED <<db, sink, mem, gone, faults, crashes>>

\* The watermark passes the bar after the commit, with a checkpoint of its own.
Mark ==
    /\ pc.at = "mark"
    /\ mem' = [mem EXCEPT !.bars = @ + 1]
    /\ pc' = At("save", "mark")
    /\ UNCHANGED <<db, sink, gone, faults, crashes>>
-----------------------------------------------------------------------------
\* The process ends and a new one starts.  Results and queued events are in
\* memory only, as are the order rows a failed write left behind.
Crash ==
    /\ crashes < MaxCrashes
    /\ mem' = Started(db) /\ pc' = Idle
    /\ gone' = [gone EXCEPT
                 !.events = @ \cup {n \in Numbers(mem.results) : n <= db.fills}
                              \cup {e.fill : e \in Numbers(mem.queue)},
                 !.unwritten = @ \cup {n \in mem.rows : n <= db.fills}]
    /\ crashes' = crashes + 1
    /\ UNCHANGED <<db, sink, faults>>

Init ==
    /\ db = FreshStore /\ mem = Started(FreshStore) /\ pc = Idle
    /\ sink = [events |-> <<>>, numbered |-> {}, bars |-> {}]
    /\ gone = [events |-> {}, exhausted |-> {}, swallowed |-> {}, rows |-> {}, unwritten |-> {},
               bars |-> {}, tries |-> [n \in Fill |-> 0]]
    /\ faults = 0 /\ crashes = 0

Cycle ==
    \/ Poll \/ SaveAll \/ Probe \/ WriteRow \/ RowsWritten \/ ProbeAgain
    \/ Publish \/ Published \/ NothingToOffer \/ Accept \/ Refuse \/ Trim
    \/ Book \/ NoFill \/ OfferRows \/ AllOffered \/ Decide \/ NoBar \/ Mark

Next == Cycle \/ Crash

\* The poll loop runs as long as the process does.
Spec == Init /\ [][Next]_vars /\ WF_vars(Cycle)
-----------------------------------------------------------------------------
\* Every variable stays within its type; the audit queue, the queue of events
\* and the head's count of refusals stay within their bounds
\* (MAX_PENDING_OHLCV, MAX_PENDING_POSITION_EVENTS, MAX_POSITION_EVENT_ATTEMPTS).
TypeOK ==
    /\ db.fills \in 0 .. MaxFills /\ db.rows \subseteq Fill /\ db.bars \in 0 .. MaxBars
    /\ mem.rows \subseteq Fill /\ Numbers(mem.results) \subseteq Fill
    /\ Len(mem.audit) <= MaxAudit /\ Len(db.audit) <= MaxAudit
    /\ Len(mem.queue) <= MaxPending + 1 /\ mem.refused < MaxAttempts

\* The event of a fill the checkpoint holds is stored, waiting, dropped with a
\* record, or was lost with a process.  No event is taken for another one by
\* the sink unless a process ended before its numbers were checkpointed.
EventsAccounted ==
    /\ \A n \in 1 .. db.fills :
         \/ n \in Numbers(sink.events) \cup Numbers(mem.results)
         \/ n \in {e.fill : e \in Numbers(mem.queue)} \cup gone.events \cup gone.swallowed
    /\ crashes = 0 => gone.swallowed = {}

\* A fill the checkpoint holds has its row in the ledger, or a later write
\* still carries it, or it was dropped with a record, or a process ended while
\* it carried it.  A row the store would take is dropped only if three calls of
\* the store were lost.
RowsAccounted ==
    /\ \A n \in 1 .. db.fills : n \in db.rows \cup mem.rows \cup gone.rows \cup gone.unwritten
    /\ faults < 3 => gone.rows \subseteq RefusedRows

\* The row of a bar behind the watermark is stored, in the checkpointed queue,
\* or was dropped with a record, whatever the process or the sink does.
AuditAccounted ==
    \A b \in 1 .. db.bars : b \in sink.bars \cup Numbers(db.audit) \cup gone.bars

\* An event is given up only after MaxAttempts refusals of its own.
DroppedAfterTries == \A n \in gone.exhausted : gone.tries[n] >= MaxAttempts

\* The sink gets events in order, each once, after the fill's checkpoint.
Promise  == INSTANCE OrderedSink WITH recorded <- db.fills, stored <- sink.events
SinkSpec == Promise!Spec

\* A booked fill reaches the checkpoint, whatever row the store refuses, unless
\* its process ends first.
Recorded == \A n \in Fill : mem.fills >= n ~> db.fills >= n \/ mem.fills < n

\* Once the faults end, everything owed is delivered or given up: no refused
\* row, event or bar holds back the ones behind it.
Settles == <>[](mem.rows = {} /\ mem.results = <<>> /\ mem.queue = <<>> /\ mem.audit = <<>>)
=============================================================================
