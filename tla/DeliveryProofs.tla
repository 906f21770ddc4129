---------------------------- MODULE DeliveryProofs ----------------------------
(***************************************************************************)
(* Theorems about Delivery, for every bound, every set of refused rows,    *)
(* events and bars, and any number of faults and crashes: all of its       *)
(* safety properties, and that it implements OrderedSink.                  *)
(*                                                                         *)
(* The invariant IInv says of the whole of memory what the properties say  *)
(* of the part the checkpoint holds, and what each place of the poll cycle *)
(* may rely on: which faults led there, which bar is in hand, and that an  *)
(* event is only offered when the checkpoint holds every fill booked.      *)
(***************************************************************************)
EXTENDS Delivery, TLAPS, SequenceTheorems, FiniteSetTheorems

Event == [fill : Fill, seq : Nat]

Snapshot == [fills : 0 .. MaxFills, seq : Nat, bars : 0 .. MaxBars,
             audit : Seq(Bar), rows : SUBSET Fill]

Memory == [fills : 0 .. MaxFills, seq : Nat, bars : 0 .. MaxBars,
           audit : Seq(Bar), rows : SUBSET Fill, results : Seq(Fill),
           queue : Seq(Event), refused : 0 .. MaxAttempts - 1, clean : Nat,
           degraded : BOOLEAN]

Record == [events : Seq(Fill), numbered : SUBSET Event, bars : SUBSET Bar]

History == [events : SUBSET Fill, exhausted : SUBSET Fill, swallowed : SUBSET Fill,
            rows : SUBSET Fill, unwritten : SUBSET Fill, bars : SUBSET Bar,
            tries : [Fill -> 0 .. MaxAttempts]]

Writing == {"save", "probe", "row", "rowAgain", "rowProbe"}
Places  == Writing \cup {"idle", "publish", "offer", "trim", "orders",
                         "audit", "bars", "mark"}
Callers == {"none", "carry", "book", "retry", "cycle", "recorded", "mark"}

Position == [at : Places, caller : Callers, flush : {"none", "over", "each", "counted"},
             offered : Nat]

Typed == /\ db \in Snapshot /\ mem \in Memory /\ sink \in Record /\ pc \in Position
         /\ gone \in History /\ faults \in Nat /\ crashes \in Nat

\* Who may be where.
Placed ==
    /\ pc.at \in Writing => pc.caller # "none"
    /\ pc.at \in {"publish", "offer", "trim"} => pc.caller \in {"carry", "book"}
    /\ pc.at = "offer" => pc.flush # "none"
    /\ pc.at = "trim" => pc.flush = "over"
    /\ pc.at = "audit" => pc.caller \in {"retry", "cycle"}

\* At most one row waits, that of the last fill, and while none does the
\* checkpoint holds every fill.
OneRow ==
    /\ mem.rows \subseteq {mem.fills}
    /\ db.fills <= mem.fills
    /\ mem.rows = {} => db.fills = mem.fills
    /\ mem.rows # {} => \/ pc.at = "idle"
                        \/ pc.at \in Writing /\ pc.caller \in {"carry", "book"}
    /\ pc.at \in {"probe", "rowAgain", "rowProbe"} => mem.rows # {}

\* A row the store would take has met a fault for every try it failed.
Excuse(n) == \A r \in mem.rows : r \in RefusedRows \/ faults >= n
RowFaults ==
    /\ faults < 3 => gone.rows \subseteq RefusedRows
    /\ pc.at \in {"probe", "row"} => Excuse(1)
    /\ pc.at = "rowAgain" => Excuse(2)
    /\ pc.at = "rowProbe" => Excuse(3)

RowsHeld ==
    \A n \in 1 .. mem.fills : n \in db.rows \cup mem.rows \cup gone.rows \cup gone.unwritten

\* The audit queue in memory, the bar that is being committed, and what an
\* unfinished flush has delivered.
Kept(b) == b \in sink.bars \cup Numbers(mem.audit) \cup gone.bars
InHand  == \/ pc.at = "mark"
           \/ pc.at = "audit" /\ pc.caller = "cycle"
           \/ pc.at \in Writing /\ pc.caller \in {"cycle", "recorded"}
BarsHeld ==
    /\ \A b \in 1 .. mem.bars : Kept(b)
    /\ InHand => mem.bars < MaxBars /\ Kept(mem.bars + 1)
    /\ pc.at = "audit" => /\ pc.offered <= Len(mem.audit)
                          /\ \A i \in 1 .. pc.offered : mem.audit[i] \in sink.bars \cup gone.bars

AuditBounds == Len(mem.audit) <= MaxAudit /\ Len(db.audit) <= MaxAudit

QueueBounds ==
    /\ Len(mem.queue) <= MaxPending + 1
    /\ pc.at = "trim" => Len(mem.queue) > MaxPending
    /\ Len(mem.queue) > MaxPending => \/ pc.at = "trim"
                                      \/ pc.at = "offer" /\ pc.flush = "over"

EventsHeld ==
    /\ \A n \in 1 .. mem.fills :
         n \in Numbers(sink.events) \cup Numbers(mem.results)
               \cup {e.fill : e \in Numbers(mem.queue)} \cup gone.events \cup gone.swallowed
    /\ \A e \in sink.numbered : e.fill \in Numbers(sink.events)

\* Before any crash a number stands for one event.
Issued == sink.numbered \cup Numbers(mem.queue)
Unambiguous ==
    crashes = 0 => /\ gone.swallowed = {}
                   /\ \A e \in Issued : e.seq <= mem.seq
                   /\ \A d, e \in Issued : d.seq = e.seq => d = e

\* Stored events, waiting events and unpublished results are in one order.
Rising(q) == \A i, j \in DOMAIN q : i < j => q[i] < q[j]
Lined(q)  == \A i, j \in DOMAIN q : i < j => q[i].fill < q[j].fill
Ordered ==
    /\ Rising(mem.results) /\ Lined(mem.queue)
    /\ \A e \in Numbers(mem.queue), n \in Numbers(mem.results) : e.fill < n
    /\ \A k \in Numbers(sink.events), e \in Numbers(mem.queue) : k < e.fill \/ Known(e.seq)
    /\ \A k \in Numbers(sink.events), n \in Numbers(mem.results) : k < n
    /\ \A k \in Numbers(sink.events) : k <= db.fills
    /\ \A e \in Numbers(mem.queue) : e.fill <= db.fills
    /\ \A n \in Numbers(mem.results) : n <= mem.fills

TriesCounted ==
    /\ DroppedAfterTries
    /\ mem.queue = <<>> => mem.refused = 0
    /\ mem.queue # <<>> => mem.refused <= gone.tries[mem.queue[1].fill]

IInv == /\ Typed /\ Placed /\ OneRow /\ RowFaults /\ RowsHeld /\ BarsHeld /\ AuditAccounted
        /\ AuditBounds /\ QueueBounds /\ EventsHeld /\ Unambiguous /\ Ordered /\ TriesCounted
-----------------------------------------------------------------------------
(***************************************************************************)
(* Queues as sets, and the operators Delivery takes from FiniteSetsExt     *)
(***************************************************************************)
LEMMA NumbersOfAppend ==
    ASSUME NEW S, NEW q \in Seq(S), NEW x \in S
    PROVE  Numbers(Append(q, x)) = Numbers(q) \cup {x}
<1>1. /\ DOMAIN Append(q, x) = 1 .. Len(q) + 1 /\ Append(q, x)[Len(q) + 1] = x
      /\ \A i \in 1 .. Len(q) : Append(q, x)[i] = q[i]
    OBVIOUS
<1>2. DOMAIN q = 1 .. Len(q) /\ Len(q) \in Nat
    OBVIOUS
<1> QED BY <1>1, <1>2 DEF Numbers

LEMMA NumbersOfTail ==
    ASSUME NEW S, NEW q \in Seq(S), q # <<>>
    PROVE  Numbers(q) = {q[1]} \cup Numbers(Tail(q))
<1>1. /\ DOMAIN q = 1 .. Len(q) /\ Len(q) \in Nat /\ Len(q) > 0
      /\ DOMAIN Tail(q) = 1 .. Len(q) - 1
      /\ \A i \in 1 .. Len(q) - 1 : Tail(q)[i] = q[i + 1]
    BY HeadTailProperties, LenProperties, EmptySeq
<1>2. ASSUME NEW x \in Numbers(q)
      PROVE  x \in {q[1]} \cup Numbers(Tail(q))
    <2>1. PICK i \in 1 .. Len(q) : x = q[i]
        BY <1>1 DEF Numbers
    <2>2. CASE i = 1
        BY <2>1, <2>2
    <2>3. CASE i > 1
        <3>1. i - 1 \in 1 .. Len(q) - 1 /\ Tail(q)[i - 1] = q[i]
            BY <1>1, <2>3
        <3> QED BY <1>1, <2>1, <3>1 DEF Numbers
    <2> QED BY <2>2, <2>3
<1>3. ASSUME NEW x \in Numbers(Tail(q))
      PROVE  x \in Numbers(q)
    <2>1. PICK i \in 1 .. Len(q) - 1 : x = q[i + 1]
        BY <1>1 DEF Numbers
    <2>2. i + 1 \in 1 .. Len(q)
        BY <1>1
    <2> QED BY <1>1, <2>1, <2>2 DEF Numbers
<1>4. q[1] \in Numbers(q)
    BY <1>1 DEF Numbers
<1> QED BY <1>2, <1>3, <1>4

LEMMA NumbersBehind ==
    ASSUME NEW S, NEW q \in Seq(S), NEW k \in 0 .. Len(q)
    PROVE  /\ Behind(q, k) \in Seq(S) /\ Len(Behind(q, k)) = Len(q) - k
           /\ Numbers(q) = {q[i] : i \in 1 .. k} \cup Numbers(Behind(q, k))
<1> DEFINE b == SubSeq(q, k + 1, Len(q))
<1>1. DOMAIN q = 1 .. Len(q) /\ Len(q) \in Nat /\ \A i \in 1 .. Len(q) : q[i] \in S
    BY LenProperties, ElementOfSeq
<1>2. /\ b \in Seq(S) /\ Len(b) = Len(q) - k
      /\ \A i \in 1 .. Len(q) - k : b[i] = q[k + i]
    <2>1. k + 1 \in Int /\ Len(q) \in Int /\ \A i \in k + 1 .. Len(q) : q[i] \in S
        BY <1>1
    <2>2. /\ b \in Seq(S)
          /\ Len(b) = IF k + 1 <= Len(q) THEN Len(q) - (k + 1) + 1 ELSE 0
          /\ \A i \in 1 .. Len(q) - (k + 1) + 1 : b[i] = q[k + 1 + i - 1]
        BY <2>1, SubSeqProperties
    <2>3. Len(q) - (k + 1) + 1 = Len(q) - k /\ \A i \in Int : k + 1 + i - 1 = k + i
        BY <1>1
    <2> HIDE DEF b
    <2>4. Len(b) = Len(q) - k
        <3>1. CASE k + 1 <= Len(q)
            <4>1. Len(b) = Len(q) - (k + 1) + 1
                BY <3>1, <2>2
            <4>2. Len(q) - (k + 1) + 1 = Len(q) - k
                BY <2>3
            <4> QED BY <4>1, <4>2
        <3>2. CASE k = Len(q)
            <4>1. ~(k + 1 <= Len(q)) /\ Len(q) - k = 0
                BY <3>2, <1>1
            <4> QED BY <4>1, <2>2
        <3>3. k + 1 <= Len(q) \/ k = Len(q)
            <4>1. Len(q) \in Nat
                BY <1>1
            <4> QED BY <4>1
        <3> QED BY <3>1, <3>2, <3>3
    <2>5. ASSUME NEW i \in 1 .. Len(q) - k
          PROVE  b[i] = q[k + i]
        <3>1. i \in 1 .. Len(q) - (k + 1) + 1 /\ i \in Int
            BY <2>3
        <3>2. b[i] = q[k + 1 + i - 1]
            BY <2>2, <3>1
        <3>3. k + 1 + i - 1 = k + i
            BY <2>3, <3>1
        <3> QED BY <3>2, <3>3
    <2> QED BY <2>2, <2>4, <2>5
<1>3. DOMAIN b = 1 .. Len(q) - k
    BY <1>2, LenProperties
<1>4. ASSUME NEW x \in Numbers(q)
      PROVE  x \in {q[i] : i \in 1 .. k} \cup Numbers(b)
    <2>1. PICK i \in 1 .. Len(q) : x = q[i]
        BY <1>1 DEF Numbers
    <2>2. CASE i <= k
        BY <2>1, <2>2, <1>1
    <2>3. CASE i > k
        <3>1. i - k \in 1 .. Len(q) - k /\ k + (i - k) = i
            BY <1>1, <2>3
        <3>2. b[i - k] = q[i]
            BY <1>2, <3>1
        <3> QED BY <1>3, <2>1, <3>1, <3>2 DEF Numbers
    <2> QED BY <2>2, <2>3, <1>1
<1>5. ASSUME NEW x \in Numbers(b)
      PROVE  x \in Numbers(q)
    <2>1. PICK i \in 1 .. Len(q) - k : x = q[k + i]
        BY <1>2, <1>3 DEF Numbers
    <2>2. k + i \in 1 .. Len(q)
        BY <1>1
    <2> QED BY <1>1, <2>1, <2>2 DEF Numbers
<1>6. \A i \in 1 .. k : q[i] \in Numbers(q)
    BY <1>1 DEF Numbers
<1> QED BY <1>2, <1>4, <1>5, <1>6 DEF Behind

LEMMA MinOfPair ==
    ASSUME NEW a \in Int, NEW b \in Int
    PROVE  /\ Min({a, b}) \in {a, b}
           /\ Min({a, b}) <= a /\ Min({a, b}) <= b
<1>1. \E x \in {a, b} : \A y \in {a, b} : x =< y
    <2>1. CASE a <= b BY <2>1
    <2>2. CASE b <= a BY <2>2
    <2> QED BY <2>1, <2>2
<1> QED BY <1>1 DEF Min

LEMMA MinOfOne ==
    ASSUME NEW a \in Int
    PROVE  Min({a}) = a
BY DEF Min

\* A set of numbers with a bound has a greatest element.
LEMMA MaxOfBounded ==
    ASSUME NEW n \in Nat, NEW S \in SUBSET (0 .. n), S # {}
    PROVE  Max(S) \in S
<1> DEFINE Above(k) == {j \in S : j > k}
           F == {Above(k) : k \in S}
<1>1. IsFiniteSet(0 .. n)
    BY FS_Interval
<1>2. F \subseteq FiniteSubsetsOf(0 .. n) /\ F # {}
    <2>1. ASSUME NEW k \in S
          PROVE  Above(k) \in FiniteSubsetsOf(0 .. n)
        <3>1. Above(k) \in SUBSET (0 .. n)
            OBVIOUS
        <3> HIDE DEF Above
        <3> QED BY <1>1, <3>1, FS_Subset DEF FiniteSubsetsOf
    <2> HIDE DEF Above
    <2> QED BY <2>1
<1>3. PICK U \in F : \A V \in F : <<V, U>> \notin StrictSubsetOrdering(0 .. n)
    <2> HIDE DEF F
    <2> QED BY <1>2, FS_StrictSubsetOrderingWellFounded, WFMin
<1>4. PICK k \in S : U = Above(k)
    OBVIOUS
<1>5. ASSUME NEW j \in S, j > k
      PROVE  FALSE
    <2>1. j > k /\ j \in Int /\ k \in Int
        BY <1>5
    <2>2. Above(j) \subseteq Above(k) /\ j \in Above(k) /\ j \notin Above(j)
        <3>1. \A x \in S : x \in Int /\ (x > j => x > k)
            BY <2>1
        <3>2. ~(j > j)
            BY <2>1
        <3> QED BY <2>1, <3>1, <3>2
    <2>3. /\ Above(j) \in F /\ U \in SUBSET (0 .. n)
          /\ Above(j) \in SUBSET (0 .. n)
        BY <1>4
    <2> HIDE DEF Above, F
    <2>4. <<Above(j), U>> \in StrictSubsetOrdering(0 .. n)
        BY <2>2, <2>3, <1>4 DEF StrictSubsetOrdering
    <2> QED BY <2>3, <2>4, <1>3
<1>6. \A j \in S : k >= j
    BY <1>5
<1> QED BY <1>6 DEF Max

LEMMA OfferedBounds ==
    ASSUME NEW q \in Seq(Nat), NEW from \in 1 .. Len(q)
    PROVE  Offered(q, from) \in from .. Len(q)
<1> DEFINE S == {k \in from .. Len(q) : \A i \in from .. k - 1 : q[i] < q[i + 1]}
<1>1. Len(q) \in Nat
    BY LenProperties
<1>2. S \in SUBSET (0 .. Len(q)) /\ from \in S
    BY <1>1
<1> HIDE DEF S
<1>3. Max(S) \in S
    BY <1>1, <1>2, MaxOfBounded
<1> QED BY <1>3 DEF S, Offered
-----------------------------------------------------------------------------
(***************************************************************************)
(* Types                                                                   *)
(***************************************************************************)
LEMMA Bounds ==
    /\ MaxFills \in Nat /\ MaxBars \in Nat /\ MaxPending \in Nat \ {0}
    /\ MaxAttempts \in Nat \ {0} /\ MaxAudit \in Nat \ {0}
BY DeliveryAssumption

LEMMA NextNumber ==
    ASSUME NEW n \in Nat, NEW x \in 0 .. n, x < n
    PROVE  x + 1 \in 1 .. n /\ x + 1 \in 0 .. n
OBVIOUS

LEMMA Fields ==
    ASSUME Typed
    PROVE  /\ mem.fills \in 0 .. MaxFills /\ mem.seq \in Nat /\ mem.bars \in 0 .. MaxBars
           /\ mem.audit \in Seq(Bar) /\ mem.rows \in SUBSET Fill
           /\ mem.results \in Seq(Fill) /\ mem.queue \in Seq(Event)
           /\ mem.refused \in 0 .. MaxAttempts - 1 /\ mem.clean \in Nat
           /\ db.fills \in 0 .. MaxFills /\ db.bars \in 0 .. MaxBars
           /\ db.audit \in Seq(Bar) /\ sink.events \in Seq(Fill)
           /\ sink.numbered \in SUBSET Event /\ pc.offered \in Nat
           /\ gone.tries \in [Fill -> 0 .. MaxAttempts]
BY DEF Typed, Memory, Snapshot, Record, Position, History

\* What one call of the store may do.
LEMMA StoreCall ==
    ASSUME Typed, NEW rows \in SUBSET Fill, Lands(rows) \/ Fails(rows)
    PROVE  /\ Saved(rows) \in Snapshot
           /\ db' \in {db, Saved(rows)}
           /\ faults' \in {faults, faults + 1}
           /\ Lands(rows) => /\ db' = Saved(rows) /\ faults' = faults
                             /\ rows \cap RefusedRows = {}
           /\ Fails(rows) => rows \cap RefusedRows # {} \/ faults' = faults + 1
           /\ Fails(rows) /\ db' # db => rows \cap RefusedRows = {}
<1>1. Saved(rows) \in Snapshot
    BY DEF Typed, Saved, Snapshot, Memory
<1>2. faults' \in {faults, faults + 1}
    BY DEF Lands, Fails, Sound, Fault
<1> QED BY <1>1, <1>2 DEF Lands, Fails, Sound, Fault

LEMMA SavedFills ==
    ASSUME NEW rows
    PROVE  /\ Saved(rows).fills = mem.fills /\ Saved(rows).seq = mem.seq
           /\ Saved(rows).bars = mem.bars /\ Saved(rows).audit = mem.audit
           /\ Saved(rows).rows = db.rows \cup rows
BY DEF Saved

LEMMA ReturnTyped ==
    ASSUME Typed, Placed, pc.at \in Writing
    PROVE  /\ Returned \in Position /\ Raised \in Position
           /\ Returned.offered = 0 /\ Raised.at \in {"idle", "mark"}
BY DEF Typed, Placed, Position, Writing, Places, Callers, Returned, Raised, At, Idle

\* The rows of a write and the row at hand are rows.
LEMMA CarriedTyped ==
    ASSUME Typed, OneRow, mem.rows # {}
    PROVE  mem.rows = {mem.fills} /\ Carried = mem.fills /\ Carried \in Fill
<1>1. mem.rows = {mem.fills} /\ mem.fills \in Fill /\ mem.fills \in Int
    BY DEF Typed, OneRow, Memory, Fill
<1> QED BY <1>1, MinOfOne DEF Carried

LEMMA StartTyped ==
    ASSUME Typed
    PROVE  /\ Started(db) \in Memory
           /\ Started(db).fills = db.fills /\ Started(db).seq = db.seq
           /\ Started(db).bars = db.bars /\ Started(db).audit = db.audit
           /\ Started(db).rows = {} /\ Started(db).results = <<>>
           /\ Started(db).queue = <<>> /\ Started(db).refused = 0
<1>1. /\ 0 \in 0 .. MaxAttempts - 1
      /\ <<>> \in Seq(Bar) /\ <<>> \in Seq(Fill) /\ <<>> \in Seq(Event)
    BY DeliveryAssumption
<1>2. /\ db.fills \in 0 .. MaxFills /\ db.seq \in Nat /\ db.bars \in 0 .. MaxBars
      /\ db.audit \in Seq(Bar)
    BY DEF Typed, Snapshot
<1>3. WithoutAudit(db) \in Memory
    BY <1>1, <1>2 DEF WithoutAudit, Memory
<1>4. Started(db) \in Memory
    BY <1>2, <1>3 DEF Started, Memory
<1> QED BY <1>4 DEF Started, WithoutAudit

LEMMA PopTyped ==
    ASSUME NEW m \in Memory, m.queue # <<>>
    PROVE  /\ PopHead(m) \in Memory
           /\ m.queue[1] = Head(m.queue) /\ Head(m.queue) \in Event
           /\ Len(PopHead(m).queue) = Len(m.queue) - 1
           /\ PopHead(m) = [m EXCEPT !.queue = Tail(m.queue), !.refused = 0]
<1>1. m.queue \in Seq(Event) /\ 0 \in 0 .. MaxAttempts - 1
    BY DeliveryAssumption DEF Memory
<1>2. /\ Tail(m.queue) \in Seq(Event) /\ Head(m.queue) \in Event
      /\ Len(Tail(m.queue)) = Len(m.queue) - 1
    BY <1>1, HeadTailProperties
<1>3. m.queue[1] = Head(m.queue)
    BY <1>1
<1>4. PopHead(m) = [m EXCEPT !.queue = Tail(m.queue), !.refused = 0]
    BY DEF PopHead
<1>5. PopHead(m) \in Memory /\ PopHead(m).queue = Tail(m.queue)
    BY <1>1, <1>2, <1>4 DEF Memory
<1> QED BY <1>2, <1>3, <1>4, <1>5

LEMMA TypedInit == Init => Typed
<1> SUFFICES ASSUME Init PROVE Typed
    OBVIOUS
<1>1. db \in Snapshot
    <2>1. FreshStore \in Snapshot
        BY DeliveryAssumption DEF FreshStore, Snapshot
    <2> QED BY <2>1 DEF Init
<1>2. mem \in Memory
    <2>1. 0 \in 0 .. MaxAttempts - 1 /\ 0 \in 0 .. MaxFills /\ 0 \in 0 .. MaxBars
          /\ <<>> \in Seq(Fill) /\ <<>> \in Seq(Event) /\ <<>> \in Seq(Bar)
        BY DeliveryAssumption
    <2> QED BY <2>1 DEF Init, FreshStore, Started, WithoutAudit, Memory
<1>3. sink \in Record
    <2>1. <<>> \in Seq(Fill)
        OBVIOUS
    <2> QED BY <2>1 DEF Init, Record
<1>4. pc \in Position
    BY DEF Init, Idle, At, Position, Places, Callers
<1>5. gone \in History
    BY DeliveryAssumption DEF Init, History
<1> QED BY <1>1, <1>2, <1>3, <1>4, <1>5 DEF Init, Typed

LEMMA FlushTyped ==
    ASSUME Typed, FlushEnds(pc.offered), pc.offered \in 0 .. Len(mem.audit)
    PROVE  mem' \in Memory /\ pc' \in Position
<1>1. Behind(mem.audit, pc.offered) \in Seq(Bar)
    BY NumbersBehind DEF Typed, Memory
<1>2. mem' \in Memory
    BY <1>1 DEF Typed, FlushEnds, Memory
<1>3. /\ At("bars", "none") \in Position /\ At("mark", "none") \in Position
      /\ At("save", "retry") \in Position /\ At("save", "recorded") \in Position
    BY DEF At, Position, Places, Callers, Writing
<1>4. pc' \in Position
    BY <1>3 DEF FlushEnds, AfterFlush
<1> QED BY <1>2, <1>4

\* What OfferRows offers in one call, and what comes of it.
Reached == Offered(mem.audit, pc.offered + 1)
Batch   == {mem.audit[i] : i \in pc.offered + 1 .. Reached}
Stored(rows) == [sink EXCEPT !.bars = @ \cup (rows \ RefusedBars)]

LEMMA OfferStep ==
    ASSUME Typed, OfferRows
    PROVE  /\ pc.offered + 1 \in 1 .. Len(mem.audit) /\ pc.offered \in 0 .. Len(mem.audit)
           /\ Reached \in pc.offered + 1 .. Len(mem.audit)
           /\ Batch \subseteq Bar
           /\ \/ /\ sink' = Stored(Batch)
                 /\ gone' = [gone EXCEPT !.bars = @ \cup (Batch \cap RefusedBars)]
                 /\ pc' = [pc EXCEPT !.offered = Reached]
                 /\ faults' = faults /\ mem' = mem
              \/ /\ sink' \in {sink, Stored(Batch)} /\ faults' = faults + 1
                 /\ FlushEnds(pc.offered) /\ UNCHANGED gone
<1>1. mem.audit \in Seq(Bar) /\ Len(mem.audit) \in Nat /\ pc.offered \in Nat
    BY Fields, LenProperties
<1>2. mem.audit \in Seq(Nat)
    <2>1. Bar \subseteq Nat
        BY DEF Bar
    <2> QED BY <1>1, <2>1, SeqMonotonic
<1>3. pc.offered < Len(mem.audit)
    BY DEF OfferRows
<1>4. pc.offered + 1 \in 1 .. Len(mem.audit) /\ pc.offered \in 0 .. Len(mem.audit)
    BY <1>1, <1>3
<1>5. Reached \in pc.offered + 1 .. Len(mem.audit)
    BY <1>2, <1>4, OfferedBounds DEF Reached
<1>6. Batch \subseteq Bar
    <2>1. \A i \in pc.offered + 1 .. Reached : i \in 1 .. Len(mem.audit)
        BY <1>1, <1>4, <1>5
    <2> QED BY <1>1, <2>1, ElementOfSeq DEF Batch
<1>7. \/ /\ sink' = Stored(Batch)
         /\ gone' = [gone EXCEPT !.bars = @ \cup (Batch \cap RefusedBars)]
         /\ pc' = [pc EXCEPT !.offered = Reached]
         /\ faults' = faults /\ mem' = mem
      \/ /\ sink' \in {sink, Stored(Batch)} /\ faults' = faults + 1
         /\ FlushEnds(pc.offered) /\ UNCHANGED gone
    BY DEF OfferRows, Sound, Fault, Stored, Batch, Reached
<1> QED BY <1>4, <1>5, <1>6, <1>7

LEMMA FlushedTyped ==
    ASSUME NEW m, Typed, Placed, pc.at = "offer"
    PROVE  Flushed(m) \in Position
BY DEF Typed, Placed, Flushed, Flush, At, Position, Places, Callers, Writing

LEMMA TypedStep ==
    ASSUME Typed, Placed, OneRow, QueueBounds, BarsHeld, Next
    PROVE  Typed'
<1>0. /\ db \in Snapshot /\ mem \in Memory /\ sink \in Record /\ pc \in Position
      /\ gone \in History /\ faults \in Nat /\ crashes \in Nat
    BY DEF Typed
<1> USE <1>0
<1>1. CASE SaveAll
    <2>1. mem.rows \in SUBSET Fill /\ (Lands(mem.rows) \/ Fails(mem.rows))
        BY <1>1 DEF SaveAll, Memory, Typed
    <2>2. db' \in Snapshot /\ faults' \in Nat
        BY <2>1, StoreCall
    <2>3. mem' \in Memory
        BY <1>1 DEF SaveAll, Memory, Typed
    <2>4. pc' \in Position
        BY <1>1, ReturnTyped DEF SaveAll, AfterFailure, Position, Writing, Places, Typed
    <2> QED BY <1>1, <2>2, <2>3, <2>4 DEF SaveAll, Typed
<1>2. CASE Probe
    <2>1. Lands({}) \/ Fails({})
        BY <1>2 DEF Probe
    <2>2. db' \in Snapshot /\ faults' \in Nat
        BY <2>1, StoreCall
    <2>3. pc' \in Position
        BY <1>2, ReturnTyped DEF Probe, StoreUp, Position, Writing, Places, Typed
    <2> QED BY <1>2, <2>2, <2>3 DEF Probe, Typed
<1>3. CASE WriteRow
    <2>1. Carried \in Fill /\ (Lands({Carried}) \/ Fails({Carried}))
        BY <1>3, CarriedTyped DEF WriteRow
    <2>2. db' \in Snapshot /\ faults' \in Nat
        BY <2>1, StoreCall
    <2>3. mem' \in Memory
        BY <1>3 DEF WriteRow, Memory, Typed
    <2>4. pc' \in Position
        BY <1>3 DEF WriteRow, Position, Writing, Places, Typed
    <2> QED BY <1>3, <2>2, <2>3, <2>4 DEF WriteRow, Typed
<1>4. CASE RowsWritten
    BY <1>4, ReturnTyped DEF RowsWritten, Writing, Typed
<1>5. CASE ProbeAgain
    <2>1. Carried \in Fill /\ (Lands({}) \/ Fails({}))
        BY <1>5, CarriedTyped DEF ProbeAgain, OneRow
    <2>2. db' \in Snapshot /\ faults' \in Nat
        BY <2>1, StoreCall
    <2>3. mem' \in Memory /\ gone' \in History
        <3>1. [mem EXCEPT !.rows = @ \ {Carried}] \in Memory
            BY DEF Memory, Typed
        <3>2. [gone EXCEPT !.rows = @ \cup {Carried}] \in History
            BY <2>1 DEF History, Typed
        <3> QED BY <1>5, <3>1, <3>2 DEF ProbeAgain
    <2>4. pc' \in Position
        BY <1>5, ReturnTyped DEF ProbeAgain, Position, Writing, Places, Typed
    <2> QED BY <1>5, <2>2, <2>3, <2>4 DEF ProbeAgain, Typed
<1>6. CASE Poll
    BY <1>6 DEF Poll, At, Position, Places, Callers, Writing, Typed
<1>7. CASE Published
    BY <1>7 DEF Published, Flush, At, Position, Places, Callers, Writing, Typed
<1>8. CASE NothingToOffer
    <2>1. CleanCycle(mem) \in Memory
        <3>1. mem.clean + 1 \in Nat
            BY Fields
        <3>2. [mem EXCEPT !.clean = 0, !.degraded = FALSE] \in Memory
            BY DEF Memory, Typed
        <3>3. [mem EXCEPT !.clean = mem.clean + 1] \in Memory
            BY <3>1 DEF Memory, Typed
        <3> QED BY <3>2, <3>3 DEF CleanCycle
    <2>2. pc' \in Position
        BY <1>8, FlushedTyped DEF NothingToOffer
    <2> QED BY <1>8, <2>1, <2>2 DEF NothingToOffer, Typed
<1>9. CASE Accept
    <2>1. /\ mem' \in Memory /\ Head(mem.queue) \in Event
          /\ Head(mem.queue).fill \in Fill
        BY <1>9, PopTyped DEF Accept, Event
    <2>2. sink' \in Record
        <3>1. Append(sink.events, Head(mem.queue).fill) \in Seq(Fill)
            BY <2>1, AppendProperties DEF Record, Typed
        <3> QED BY <1>9, <2>1, <3>1 DEF Accept, Stores, Record, Typed
    <2>3. gone' \in History
        BY <1>9, <2>1 DEF Accept, History, Typed
    <2> QED BY <1>9, <2>1, <2>2, <2>3 DEF Accept, Typed
<1>10. CASE Trim
    <2>1. mem.queue # <<>>
        BY <1>10, Bounds DEF Trim, QueueBounds
    <2>2. /\ mem' \in Memory /\ Head(mem.queue).fill \in Fill
        BY <1>10, <2>1, PopTyped DEF Trim, Event
    <2>3. gone' \in History
        BY <1>10, <2>2 DEF Trim, History, Typed
    <2>4. pc' \in Position
        BY <1>10 DEF Trim, Flush, Position, Places, Typed
    <2> QED BY <1>10, <2>2, <2>3, <2>4 DEF Trim, Typed
<1>11. CASE Publish
    <2>1. /\ mem.results # <<>> /\ mem.results \in Seq(Fill) /\ mem.queue \in Seq(Event)
          /\ mem.seq \in Nat
        BY <1>11 DEF Publish, Memory, Typed
    <2>2. Head(mem.results) \in Fill /\ Tail(mem.results) \in Seq(Fill)
        BY <2>1, HeadTailProperties
    <2>3. Append(mem.queue, [fill |-> Head(mem.results), seq |-> mem.seq + 1]) \in Seq(Event)
        BY <2>1, <2>2, AppendProperties DEF Event
    <2>4. mem' \in Memory
        <3>1. mem.seq + 1 \in Nat
            BY <2>1
        <3>2. mem' = [mem EXCEPT !.results = Tail(mem.results), !.seq = mem.seq + 1,
                        !.queue = Append(mem.queue, [fill |-> Head(mem.results), seq |-> mem.seq + 1])]
            BY <1>11 DEF Publish
        <3> QED BY <2>2, <2>3, <3>1, <3>2 DEF Memory, Typed
    <2>5. pc' \in Position
        BY <1>11 DEF Publish, Flush, Position, Places, Typed
    <2> QED BY <1>11, <2>4, <2>5 DEF Publish, Typed
<1>12. CASE Refuse
    <2>1. /\ mem.queue # <<>> /\ mem.queue \in Seq(Event)
          /\ Head(mem.queue) \in Event /\ Head(mem.queue).fill \in Fill
        BY <1>12, PopTyped DEF Refuse, Memory, Event, Typed
    <2>2. sink' \in Record
        <3>1. Append(sink.events, Head(mem.queue).fill) \in Seq(Fill)
            BY <2>1, AppendProperties DEF Record, Typed
        <3>2. sink' \in {sink, [sink EXCEPT !.events = Append(@, Head(mem.queue).fill),
                                           !.numbered = @ \cup {Head(mem.queue)}]}
            BY <1>12 DEF Refuse, Stores
        <3> QED BY <2>1, <3>1, <3>2 DEF Record, Typed
    <2>3. PICK m : /\ m = [Refusals(mem) EXCEPT !.degraded = TRUE, !.clean = 0]
                   /\ mem' = IF Exhausted(m) THEN PopHead(m) ELSE m
                   /\ pc' = Flushed(m)
        BY <1>12 DEF Refuse
    <2>4. mem' \in Memory
        <3>1. mem.refused \in 0 .. MaxAttempts - 1 /\ mem.refused + 1 \in Nat
            BY DEF Memory, Typed
        <3>2. CASE Exhausted(m)
            <4>1. mem' = [mem EXCEPT !.queue = Tail(mem.queue), !.refused = 0,
                                     !.degraded = TRUE, !.clean = 0]
                BY <2>3, <3>2 DEF PopHead, Refusals, Memory, Typed
            <4>2. Tail(mem.queue) \in Seq(Event) /\ 0 \in 0 .. MaxAttempts - 1
                BY <2>1, HeadTailProperties, Bounds
            <4> QED BY <4>1, <4>2 DEF Memory, Typed
        <3>3. CASE ~Exhausted(m)
            <4>1. m.refused \in 0 .. MaxAttempts - 1
                <5>1. m.refused \in {mem.refused, mem.refused + 1}
                    BY <2>3 DEF Refusals, Memory, Typed
                <5> QED BY <3>1, <3>3, <5>1, Bounds DEF Exhausted
            <4>2. m = [mem EXCEPT !.refused = m.refused, !.degraded = TRUE, !.clean = 0]
                BY <2>3 DEF Refusals, Memory, Typed
            <4> QED BY <2>3, <3>3, <4>1, <4>2 DEF Memory, Typed
        <3> QED BY <3>2, <3>3
    <2>5. gone' \in History
        <3>1. \A n \in Fill : Min({gone.tries[n] + 1, MaxAttempts}) \in 0 .. MaxAttempts
            <4> TAKE n \in Fill
            <4> DEFINE t == gone.tries[n] + 1
            <4>1. t \in 1 .. MaxAttempts + 1
                BY Bounds DEF History, Typed
            <4> HIDE DEF t
            <4>2. t \in Int /\ MaxAttempts \in Int
                BY <4>1, Bounds
            <4>3. Min({t, MaxAttempts}) \in {t, MaxAttempts} /\ Min({t, MaxAttempts}) <= MaxAttempts
                BY <4>2, MinOfPair
            <4>4. Min({t, MaxAttempts}) \in 0 .. MaxAttempts
                BY <4>1, <4>3, Bounds
            <4> QED BY <4>4 DEF t
        <3> QED BY <1>12, <2>1, <3>1 DEF Refuse, History, Typed
    <2>6. pc' \in Position
        BY <1>12, <2>3, FlushedTyped DEF Refuse
    <2>7. faults' \in Nat
        BY <1>12 DEF Refuse, Sound, Fault
    <2> QED BY <1>12, <2>2, <2>4, <2>5, <2>6, <2>7 DEF Refuse, Typed
<1>13. CASE Book
    <2>1. mem.fills + 1 \in Fill /\ mem.fills + 1 \in 0 .. MaxFills
        <3>1. mem.fills < MaxFills
            BY <1>13 DEF Book
        <3>2. mem.fills \in 0 .. MaxFills /\ MaxFills \in Nat
            BY Bounds, Fields
        <3> QED BY <3>1, <3>2, NextNumber DEF Fill
    <2>2. Append(mem.results, mem.fills + 1) \in Seq(Fill)
        BY <2>1, AppendProperties DEF Memory, Typed
    <2>3. mem' \in Memory
        BY <1>13, <2>1, <2>2 DEF Book, Memory, Typed
    <2> QED BY <1>13, <2>3 DEF Book, At, Position, Places, Callers, Writing, Typed
<1>14. CASE NoFill \/ NoBar
    <2>1. Idle \in Position /\ At("audit", "retry") \in Position
        BY DEF Idle, At, Position, Places, Callers, Writing
    <2> QED BY <1>14, <2>1 DEF NoFill, NoBar, Typed
<1>15. CASE OfferRows
    <2>1. Stored(Batch) \in Record
        BY <1>15, OfferStep DEF Stored, Record
    <2>2. [gone EXCEPT !.bars = @ \cup (Batch \cap RefusedBars)] \in History
        BY <1>15, OfferStep DEF History
    <2>3. [pc EXCEPT !.offered = Reached] \in Position
        <3>1. Reached \in Nat
            BY <1>15, OfferStep
        <3> QED BY <3>1 DEF Position
    <2>4. FlushEnds(pc.offered) => mem' \in Memory /\ pc' \in Position
        BY <1>15, OfferStep, FlushTyped
    <2>5. faults + 1 \in Nat
        OBVIOUS
    <2>6. CASE /\ sink' \in {sink, Stored(Batch)} /\ faults' = faults + 1
               /\ FlushEnds(pc.offered) /\ UNCHANGED gone
        BY <1>15, <2>1, <2>4, <2>5, <2>6 DEF OfferRows, Typed
    <2>7. CASE /\ sink' = Stored(Batch)
               /\ gone' = [gone EXCEPT !.bars = @ \cup (Batch \cap RefusedBars)]
               /\ pc' = [pc EXCEPT !.offered = Reached]
               /\ faults' = faults /\ mem' = mem
        BY <1>15, <2>1, <2>2, <2>3, <2>7 DEF OfferRows, Typed
    <2> QED BY <1>15, <2>6, <2>7, OfferStep
<1>16. CASE AllOffered
    <2>1. pc.offered \in 0 .. Len(mem.audit)
        BY <1>16, LenProperties DEF AllOffered, Memory, Typed
    <2> QED BY <1>16, <2>1, FlushTyped DEF AllOffered, Typed
<1>17. CASE Decide
    <2>1. mem.bars + 1 \in Bar
        <3>1. mem.bars < MaxBars
            BY <1>17 DEF Decide
        <3>2. mem.bars \in 0 .. MaxBars /\ MaxBars \in Nat
            BY Bounds, Fields
        <3> QED BY <3>1, <3>2, NextNumber DEF Bar
    <2>2. Append(mem.audit, mem.bars + 1) \in Seq(Bar)
        BY <2>1, AppendProperties DEF Memory, Typed
    <2>3. mem' \in Memory
        BY <1>17, <2>2 DEF Decide, QueueRow, Memory, Typed
    <2>4. gone' \in History
        BY <1>17, <2>1 DEF Decide, History, Typed
    <2> QED BY <1>17, <2>3, <2>4 DEF Decide, At, Position, Places, Callers, Writing, Typed
<1>18. CASE Mark
    <2>1. mem.bars + 1 \in 0 .. MaxBars
        <3>1. mem.bars < MaxBars
            BY <1>18 DEF Mark, BarsHeld, InHand
        <3>2. mem.bars \in 0 .. MaxBars /\ MaxBars \in Nat
            BY Bounds, Fields
        <3> QED BY <3>1, <3>2, NextNumber
    <2>2. mem' \in Memory
        BY <1>18, <2>1 DEF Mark, Memory, Typed
    <2> QED BY <1>18, <2>2 DEF Mark, At, Position, Places, Callers, Writing, Typed
<1>19. CASE Crash
    <2>1. gone' \in History
        <3>1. {n \in Numbers(mem.results) : n <= db.fills} \subseteq Fill
            BY Fields, LenProperties, ElementOfSeq DEF Numbers
        <3>2. {e.fill : e \in Numbers(mem.queue)} \subseteq Fill
            <4>1. \A i \in DOMAIN mem.queue : mem.queue[i] \in Event
                BY Fields, LenProperties, ElementOfSeq
            <4> QED BY <4>1 DEF Numbers, Event
        <3>3. {n \in mem.rows : n <= db.fills} \subseteq Fill
            BY Fields
        <3> QED BY <1>19, <3>1, <3>2, <3>3 DEF Crash, History
    <2>2. pc' \in Position
        BY <1>19 DEF Crash, Idle, At, Position, Places, Callers, Typed
    <2> QED BY <1>19, <2>1, <2>2, StartTyped DEF Crash, Typed
<1> QED
    BY <1>1, <1>2, <1>3, <1>4, <1>5, <1>6, <1>7, <1>8, <1>9, <1>10, <1>11, <1>12, <1>13,
       <1>14, <1>15, <1>16, <1>17, <1>18, <1>19 DEF Next, Cycle
-----------------------------------------------------------------------------
(***************************************************************************)
(* Control                                                                 *)
(***************************************************************************)
\* Where a write returns to, or raises to.
LEMMA WayBack ==
    ASSUME Typed, Placed, pc.at \in Writing
    PROVE  \/ /\ pc.caller \in {"carry", "book"}
              /\ Returned = At("publish", pc.caller) /\ Raised = Idle
           \/ pc.caller = "retry" /\ Returned = At("bars", "none") /\ Raised = Idle
           \/ pc.caller = "cycle" /\ Returned = At("audit", "cycle") /\ Raised = Idle
           \/ pc.caller = "recorded" /\ Returned = At("mark", "none") /\ Raised = At("mark", "none")
           \/ pc.caller = "mark" /\ Returned = Idle /\ Raised = Idle
BY DEF Typed, Placed, Position, Callers, Writing, Returned, Raised

LEMMA Positions ==
    ASSUME NEW x, NEW y
    PROVE  /\ At(x, y).at = x /\ At(x, y).caller = y /\ At(x, y).offered = 0
           /\ At(x, y).flush = "none"
           /\ Idle.at = "idle" /\ Idle.caller = "none"
BY DEF At, Idle

\* Where a flush of events goes on.
LEMMA FlushWay ==
    ASSUME NEW m, Typed, Placed, pc.at = "offer"
    PROVE  /\ pc.caller \in {"carry", "book"}
           /\ \/ /\ pc.flush = "over" /\ Len(m.queue) > MaxPending
                 /\ Flushed(m) = [pc EXCEPT !.at = "trim"]
              \/ /\ pc.flush = "over" /\ ~(Len(m.queue) > MaxPending)
                 /\ Flushed(m) = Flush("each")
              \/ pc.flush = "each" /\ Flushed(m) = At("publish", pc.caller)
              \/ pc.flush = "counted" /\ Flushed(m) = At("orders", "none")
<1>1. pc.caller \in {"carry", "book"} /\ pc.flush \in {"over", "each", "counted"}
    BY DEF Typed, Placed, Position
<1>2. CASE pc.flush = "over"
    BY <1>1, <1>2 DEF Flushed
<1>3. CASE pc.flush = "each"
    BY <1>1, <1>3 DEF Flushed
<1>4. CASE pc.flush = "counted"
    BY <1>1, <1>4 DEF Flushed
<1> QED BY <1>1, <1>2, <1>3, <1>4

\* A position with another place, or another flush.
LEMMA Moves ==
    ASSUME Typed
    PROVE  /\ \A x : /\ [pc EXCEPT !.at = x].at = x /\ [pc EXCEPT !.at = x].caller = pc.caller
                     /\ [pc EXCEPT !.at = x].flush = pc.flush
           /\ \A x : /\ Flush(x).at = "offer" /\ Flush(x).caller = pc.caller
                     /\ Flush(x).flush = x
           /\ \A x : /\ [pc EXCEPT !.offered = x].at = pc.at /\ [pc EXCEPT !.offered = x].caller = pc.caller
                     /\ [pc EXCEPT !.offered = x].offered = x
BY DEF Typed, Position, Flush

\* Where the steps of a flush go.
LEMMA FlushGoes ==
    ASSUME NEW m, Typed, Placed, pc.at = "offer", pc' = Flushed(m)
    PROVE  \/ /\ pc.flush = "over" /\ Len(m.queue) > MaxPending
              /\ pc'.at = "trim" /\ pc'.caller = pc.caller /\ pc'.flush = "over"
           \/ /\ pc.flush = "over" /\ ~(Len(m.queue) > MaxPending)
              /\ pc'.at = "offer" /\ pc'.caller = pc.caller /\ pc'.flush = "each"
           \/ pc.flush = "each" /\ pc'.at = "publish" /\ pc'.caller = pc.caller
           \/ pc.flush = "counted" /\ pc'.at = "orders"
<1>1. CASE /\ pc.flush = "over" /\ Len(m.queue) > MaxPending
           /\ pc' = [pc EXCEPT !.at = "trim"]
    BY <1>1 DEF Typed, Position
<1>2. CASE pc.flush = "over" /\ ~(Len(m.queue) > MaxPending) /\ pc' = Flush("each")
    BY <1>2 DEF Typed, Position, Flush
<1>3. CASE pc.flush = "each" /\ pc' = At("publish", pc.caller)
    BY <1>3, Positions
<1>4. CASE pc.flush = "counted" /\ pc' = At("orders", "none")
    BY <1>4, Positions
<1> QED BY <1>1, <1>2, <1>3, <1>4, FlushWay

\* Where the steps of the audit rows go.
LEMMA AuditGoes ==
    ASSUME Typed, FlushEnds(pc.offered)
    PROVE  \/ /\ pc.offered = 0 /\ mem' = mem
              /\ \/ pc.caller = "retry" /\ pc'.at = "bars"
                 \/ pc.caller # "retry" /\ pc'.at = "mark"
           \/ /\ pc.offered # 0
              /\ mem' = [mem EXCEPT !.audit = Behind(mem.audit, pc.offered)]
              /\ pc'.at = "save"
              /\ \/ pc.caller = "retry" /\ pc'.caller = "retry"
                 \/ pc.caller # "retry" /\ pc'.caller = "recorded"
<1>1. CASE pc.offered = 0
    <2>1. mem' = mem /\ pc' = AfterFlush
        BY <1>1 DEF FlushEnds
    <2> QED BY <1>1, <2>1, Positions DEF AfterFlush
<1>2. CASE pc.offered # 0
    <2>1. /\ mem' = [mem EXCEPT !.audit = Behind(mem.audit, pc.offered)]
          /\ pc' = At("save", IF pc.caller = "retry" THEN "retry" ELSE "recorded")
        BY <1>2 DEF FlushEnds
    <2> QED BY <1>2, <2>1, Positions
<1> QED BY <1>1, <1>2

\* Where the publication of a result goes.
LEMMA PublishGoes ==
    ASSUME Typed, Publish
    PROVE  /\ mem' = [mem EXCEPT !.results = Tail(mem.results), !.seq = mem.seq + 1,
                       !.queue = Append(mem.queue, [fill |-> Head(mem.results),
                                                    seq |-> mem.seq + 1])]
           /\ pc'.at = "offer" /\ pc'.caller = pc.caller
           /\ \/ pc'.flush = "over"
              \/ pc'.flush = "each" /\ ~(Len(mem'.queue) > MaxPending)
<1> DEFINE m == [mem EXCEPT !.results = Tail(@), !.seq = @ + 1,
                            !.queue = Append(@, [fill |-> Head(mem.results), seq |-> mem.seq + 1])]
<1>1. mem' = m /\ pc' = Flush(IF Len(m.queue) > MaxPending THEN "over" ELSE "each")
    BY DEF Publish
<1>2. m = [mem EXCEPT !.results = Tail(mem.results), !.seq = mem.seq + 1,
                      !.queue = Append(mem.queue, [fill |-> Head(mem.results),
                                                   seq |-> mem.seq + 1])]
    OBVIOUS
<1> HIDE DEF m
<1>3. CASE Len(m.queue) > MaxPending
    BY <1>1, <1>2, <1>3, Moves
<1>4. CASE ~(Len(m.queue) > MaxPending)
    BY <1>1, <1>2, <1>4, Moves
<1> QED BY <1>3, <1>4

LEMMA PublishedGoes ==
    ASSUME Typed, Published
    PROVE  \/ pc.caller = "carry" /\ pc'.at = "offer" /\ pc'.caller = "carry" /\ pc'.flush = "counted"
           \/ pc'.at = "audit" /\ pc'.caller = "retry" /\ pc'.offered = 0
<1>1. CASE pc.caller = "carry"
    BY <1>1, Moves DEF Published
<1>2. CASE pc.caller # "carry"
    BY <1>2, Positions DEF Published
<1> QED BY <1>1, <1>2

LEMMA PlacedStep ==
    ASSUME Typed, Placed, QueueBounds, Next
    PROVE  Placed'
<1>0. pc \in Position
    BY DEF Typed
<1>1. CASE SaveAll
    <2>1. pc' = Returned \/ pc' = Raised \/ pc' = [pc EXCEPT !.at = "probe"]
        BY <1>1 DEF SaveAll, AfterFailure
    <2>2. pc.at \in Writing
        BY <1>1 DEF SaveAll, Writing
    <2> QED BY <1>0, <2>1, <2>2, WayBack DEF Placed, Writing, Idle, At, Flush, Position
<1>2. CASE Probe \/ WriteRow \/ RowsWritten \/ ProbeAgain
    <2>1. \/ pc' = Returned \/ pc' = Raised
          \/ \E x \in Writing : pc' = [pc EXCEPT !.at = x]
        BY <1>2 DEF Probe, StoreUp, WriteRow, RowsWritten, ProbeAgain, Writing
    <2>2. pc.at \in Writing
        BY <1>2 DEF Probe, WriteRow, RowsWritten, ProbeAgain, Writing
    <2> QED BY <1>0, <2>1, <2>2, WayBack DEF Placed, Writing, Idle, At, Flush, Position
<1>3. CASE Poll \/ Book \/ NoFill \/ Decide \/ NoBar \/ Mark \/ Crash
    BY <1>0, <1>3 DEF Poll, Book, NoFill, Decide, NoBar, Mark, Crash, Placed, Writing, Idle, At, Flush, Position
<1>4. CASE Publish \/ Published
    <2>1. pc.at = "publish"
        BY <1>4 DEF Publish, Published
    <2> QED BY <1>4, <2>1, PublishGoes, PublishedGoes DEF Placed, Writing
<1>5. CASE NothingToOffer \/ Refuse
    <2>1. pc.at = "offer" /\ \E m : pc' = Flushed(m)
        BY <1>5 DEF NothingToOffer, Refuse
    <2>2. pc.caller \in {"carry", "book"}
        BY <2>1 DEF Placed
    <2> QED BY <2>1, <2>2, FlushGoes DEF Placed, Writing
<1>6. CASE Accept
    BY <1>6 DEF Accept, Placed
<1>7. CASE Trim
    BY <1>0, <1>7 DEF Trim, Placed, Writing, Idle, At, Flush, Position
<1>8. CASE OfferRows \/ AllOffered
    <2>1. /\ pc.at = "audit"
          /\ \/ \E x : pc' = [pc EXCEPT !.offered = x]
             \/ FlushEnds(pc.offered)
        BY <1>8 DEF OfferRows, AllOffered
    <2>2. CASE \E x : pc' = [pc EXCEPT !.offered = x]
        BY <2>1, <2>2, Moves DEF Placed, Writing
    <2>3. CASE FlushEnds(pc.offered)
        BY <2>1, <2>3, AuditGoes DEF Placed, Writing
    <2> QED BY <2>1, <2>2, <2>3
<1> QED BY <1>1, <1>2, <1>3, <1>4, <1>5, <1>6, <1>7, <1>8 DEF Next, Cycle

LEMMA OneRowStep ==
    ASSUME Typed, Placed, OneRow, Next
    PROVE  OneRow'
<1>0. db.fills \in Nat /\ mem.fills \in Nat /\ mem \in Memory
    BY Fields DEF Typed
<1>1. CASE SaveAll
    <2>1. pc.at \in Writing /\ mem.rows \in SUBSET Fill
        BY <1>1, Fields DEF SaveAll, Writing
    <2>2. db'.fills \in {db.fills, mem.fills} /\ (Lands(mem.rows) => db'.fills = mem.fills)
        BY <1>1, <2>1, StoreCall, SavedFills DEF SaveAll
    <2>3. CASE Lands(mem.rows) /\ mem' = [mem EXCEPT !.rows = {}] /\ pc' = Returned
        <3>1. mem'.rows = {} /\ mem'.fills = mem.fills
            BY <2>3, <1>0 DEF Memory
        <3> QED BY <1>0, <2>1, <2>2, <2>3, <3>1, WayBack, Positions DEF OneRow, Writing
    <2>4. CASE pc' = AfterFailure /\ UNCHANGED mem
        <3>1. CASE mem.rows = {}
            BY <1>0, <2>1, <2>2, <2>4, <3>1, WayBack, Positions DEF OneRow, AfterFailure, Writing
        <3>2. CASE mem.rows # {}
            BY <1>0, <2>1, <2>2, <2>4, <3>2, Moves DEF OneRow, AfterFailure, Writing
        <3> QED BY <3>1, <3>2
    <2> QED BY <1>1, <2>3, <2>4 DEF SaveAll
<1>2. CASE Probe
    <2>1. pc.at \in Writing /\ {} \in SUBSET Fill /\ mem' = mem
        BY <1>2 DEF Probe, Writing
    <2>2. db'.fills \in {db.fills, mem.fills}
        BY <1>2, <2>1, StoreCall, SavedFills DEF Probe
    <2>3. mem.rows # {} /\ pc.caller \in {"carry", "book"}
        BY <1>2, <2>1 DEF OneRow, Probe
    <2>4. CASE pc' = StoreUp
        BY <1>0, <2>1, <2>2, <2>3, <2>4, Moves DEF OneRow, StoreUp, Writing
    <2>5. CASE pc' = Raised
        BY <1>0, <2>1, <2>2, <2>3, <2>5, WayBack, Positions DEF OneRow, Writing
    <2> QED BY <1>2, <2>4, <2>5 DEF Probe
<1>3. CASE WriteRow
    <2>1. mem.rows = {mem.fills} /\ Carried = mem.fills /\ Carried \in Fill
        BY <1>3, CarriedTyped DEF WriteRow
    <2>2. /\ db'.fills \in {db.fills, mem.fills} /\ (Lands({Carried}) => db'.fills = mem.fills)
          /\ pc.at \in Writing /\ pc.caller \in {"carry", "book"}
        BY <1>3, <2>1, StoreCall, SavedFills DEF WriteRow, OneRow, Writing
    <2>3. CASE /\ Lands({Carried}) /\ mem' = [mem EXCEPT !.rows = @ \ {Carried}]
               /\ pc' = [pc EXCEPT !.at = "row"]
        <3>1. mem'.rows = {} /\ mem'.fills = mem.fills
            BY <2>1, <2>3, <1>0 DEF Memory
        <3> QED BY <1>0, <2>2, <2>3, <3>1, Moves DEF OneRow
    <2>4. CASE mem' = mem /\ \E x \in {"rowAgain", "rowProbe"} : pc' = [pc EXCEPT !.at = x]
        BY <1>0, <2>1, <2>2, <2>4, Moves DEF OneRow, Writing
    <2> QED BY <1>3, <2>3, <2>4 DEF WriteRow
<1>4. CASE RowsWritten
    BY <1>4, <1>0, WayBack, Positions DEF RowsWritten, OneRow, Writing
<1>5. CASE ProbeAgain
    <2>1. mem.rows = {mem.fills} /\ Carried = mem.fills /\ Carried \in Fill
        BY <1>5, CarriedTyped DEF ProbeAgain, OneRow
    <2>2. /\ db'.fills \in {db.fills, mem.fills} /\ (Lands({}) => db'.fills = mem.fills)
          /\ pc.at \in Writing /\ pc.caller \in {"carry", "book"}
        BY <1>5, <2>1, StoreCall, SavedFills DEF ProbeAgain, OneRow, Writing
    <2>3. CASE /\ Lands({}) /\ mem' = [mem EXCEPT !.rows = @ \ {Carried}]
               /\ pc' = [pc EXCEPT !.at = "row"]
        <3>1. mem'.rows = {} /\ mem'.fills = mem.fills
            BY <2>1, <2>3, <1>0 DEF Memory
        <3> QED BY <1>0, <2>2, <2>3, <3>1, Moves DEF OneRow
    <2>4. CASE mem' = mem /\ pc' = Raised
        BY <1>0, <2>1, <2>2, <2>4, WayBack, Positions DEF OneRow
    <2> QED BY <1>5, <2>3, <2>4 DEF ProbeAgain
<1>6. CASE Poll \/ NoFill \/ NoBar \/ Decide \/ Mark
    <2>1. db' = db /\ mem'.fills = mem.fills /\ mem'.rows = mem.rows
        BY <1>6, <1>0 DEF Poll, NoFill, NoBar, Decide, QueueRow, Mark, Memory
    <2> QED BY <1>6, <2>1, Positions DEF OneRow, Poll, NoFill, NoBar, Decide, Mark, Writing
<1>7. CASE Publish \/ Published \/ NothingToOffer \/ Accept \/ Refuse \/ Trim
    <2>1. db' = db /\ pc.at \in {"publish", "offer", "trim"} /\ mem.rows = {}
        BY <1>7 DEF Publish, Published, NothingToOffer, Accept, Refuse, Trim, OneRow, Writing
    <2>2. mem'.fills = mem.fills /\ mem'.rows = mem.rows
        BY <1>7, <1>0 DEF Publish, Published, NothingToOffer, CleanCycle, Accept, Refuse, Refusals,
                          Trim, PopHead, Memory
    <2>3. pc'.at \in {"publish", "offer", "trim", "orders", "audit"}
        <3>1. CASE NothingToOffer \/ Refuse
            BY <3>1, FlushGoes DEF NothingToOffer, Refuse
        <3>2. CASE Publish \/ Published
            BY <3>2, PublishGoes, PublishedGoes
        <3>3. CASE Accept
            BY <2>1, <3>3 DEF Accept
        <3>4. CASE Trim
            BY <3>4, Moves DEF Trim
        <3> QED BY <1>7, <3>1, <3>2, <3>3, <3>4
    <2> QED BY <2>1, <2>2, <2>3 DEF OneRow, Writing
<1>8. CASE Book
    <2>1. /\ mem.rows = {} /\ mem'.rows = {mem.fills + 1} /\ mem'.fills = mem.fills + 1
          /\ pc' = At("save", "book") /\ db' = db
        BY <1>8, <1>0 DEF Book, OneRow, Memory, Writing
    <2>2. pc'.at = "save" /\ pc'.caller = "book"
        BY <2>1, Positions
    <2>3. db.fills <= mem.fills /\ db.fills <= mem.fills + 1
        BY <1>0 DEF OneRow
    <2> QED BY <2>1, <2>2, <2>3 DEF OneRow, Writing
<1>9. CASE OfferRows \/ AllOffered
    <2>1. /\ db' = db /\ mem.rows = {} /\ pc.at = "audit"
          /\ \/ mem' = mem /\ \E x : pc' = [pc EXCEPT !.offered = x]
             \/ FlushEnds(pc.offered)
        BY <1>9 DEF OfferRows, AllOffered, OneRow, Writing
    <2>2. mem'.fills = mem.fills /\ mem'.rows = mem.rows
        BY <2>1, <1>0 DEF FlushEnds, Memory
    <2>3. pc'.at \in {"audit", "bars", "mark", "save"}
        <3>1. CASE \E x : pc' = [pc EXCEPT !.offered = x]
            BY <2>1, <3>1, Moves
        <3>2. CASE FlushEnds(pc.offered)
            BY <3>2, AuditGoes
        <3> QED BY <2>1, <3>1, <3>2
    <2>4. pc'.at \notin {"probe", "rowAgain", "rowProbe"}
        BY <2>3
    <2> QED BY <2>1, <2>2, <2>4 DEF OneRow
<1>10. CASE Crash
    BY <1>10, <1>0, StartTyped, Positions DEF Crash, OneRow
<1> QED
    BY <1>1, <1>2, <1>3, <1>4, <1>5, <1>6, <1>7, <1>8, <1>9, <1>10 DEF Next, Cycle
-----------------------------------------------------------------------------
(***************************************************************************)
(* Ledger rows                                                             *)
(***************************************************************************)
\* Every step but a booking and those of a write leaves rows alone.
LEMMA RowsAlone ==
    ASSUME Typed, Next,
           ~(SaveAll \/ Probe \/ WriteRow \/ ProbeAgain \/ Book \/ Crash)
    PROVE  /\ db' = db /\ mem'.rows = mem.rows /\ mem'.fills = mem.fills
           /\ gone'.rows = gone.rows /\ gone'.unwritten = gone.unwritten
           /\ faults' \in {faults, faults + 1}
<1>0. mem \in Memory /\ gone \in History
    BY DEF Typed
<1>1. CASE Poll \/ RowsWritten \/ Published \/ NoFill \/ NoBar
    BY <1>1 DEF Poll, RowsWritten, Published, NoFill, NoBar
<1>2. CASE Publish
    BY <1>0, <1>2, PublishGoes DEF Publish, Memory
<1>3. CASE NothingToOffer
    BY <1>0, <1>3 DEF NothingToOffer, CleanCycle, Memory
<1>4. CASE Accept
    BY <1>0, <1>4 DEF Accept, PopHead, Memory, History
<1>5. CASE Refuse
    <2>1. mem'.rows = mem.rows /\ mem'.fills = mem.fills
        BY <1>0, <1>5 DEF Refuse, Refusals, PopHead, Memory
    <2>2. gone'.rows = gone.rows /\ gone'.unwritten = gone.unwritten
        BY <1>0, <1>5 DEF Refuse, History
    <2> QED BY <1>5, <2>1, <2>2 DEF Refuse, Sound, Fault
<1>6. CASE Trim
    BY <1>0, <1>6 DEF Trim, PopHead, Memory, History
<1>7. CASE OfferRows
    <2>1. mem'.rows = mem.rows /\ mem'.fills = mem.fills
        <3>1. CASE mem' = mem
            BY <3>1
        <3>2. CASE FlushEnds(pc.offered)
            BY <1>0, <3>2, AuditGoes DEF Memory
        <3> QED BY <1>7, <3>1, <3>2, OfferStep
    <2>2. gone'.rows = gone.rows /\ gone'.unwritten = gone.unwritten
        BY <1>0, <1>7, OfferStep DEF History
    <2> QED BY <1>7, <2>1, <2>2, OfferStep DEF OfferRows
<1>8. CASE AllOffered
    BY <1>0, <1>8, AuditGoes DEF AllOffered, Memory
<1>9. CASE Decide
    BY <1>0, <1>9 DEF Decide, QueueRow, Memory, History
<1>10. CASE Mark
    BY <1>0, <1>10 DEF Mark, Memory
<1> QED BY <1>1, <1>2, <1>3, <1>4, <1>5, <1>6, <1>7, <1>8, <1>9, <1>10 DEF Next, Cycle

\* The other steps do not lead into a write of rows.
LEMMA Elsewhere ==
    ASSUME Typed, Placed, Next,
           ~(SaveAll \/ Probe \/ WriteRow \/ ProbeAgain \/ Book \/ Crash)
    PROVE  pc'.at \notin {"probe", "row", "rowAgain", "rowProbe"}
<1>1. CASE Poll \/ NoFill \/ NoBar \/ Decide \/ Mark
    BY <1>1, Positions DEF Poll, NoFill, NoBar, Decide, Mark
<1>2. CASE RowsWritten
    BY <1>2, WayBack, Positions DEF RowsWritten, Writing
<1>3. CASE Publish \/ Published
    BY <1>3, PublishGoes, PublishedGoes
<1>4. CASE NothingToOffer \/ Refuse
    BY <1>4, FlushGoes DEF NothingToOffer, Refuse
<1>5. CASE Accept
    BY <1>5 DEF Accept
<1>6. CASE Trim
    BY <1>6, Moves DEF Trim
<1>7. CASE OfferRows
    <2>1. pc.at = "audit"
        BY <1>7 DEF OfferRows
    <2>2. CASE pc' = [pc EXCEPT !.offered = Reached]
        BY <2>1, <2>2, Moves
    <2>3. CASE FlushEnds(pc.offered)
        BY <2>3, AuditGoes
    <2> QED BY <1>7, <2>2, <2>3, OfferStep
<1>8. CASE AllOffered
    BY <1>8, AuditGoes DEF AllOffered
<1> QED BY <1>1, <1>2, <1>3, <1>4, <1>5, <1>6, <1>7, <1>8 DEF Next, Cycle

LEMMA RowFaultsStep ==
    ASSUME Typed, Placed, OneRow, RowFaults, Next
    PROVE  RowFaults'
<1>0. /\ faults \in Nat /\ mem \in Memory /\ gone \in History /\ mem.rows \in SUBSET Fill
    BY Fields DEF Typed
<1>1. CASE SaveAll
    <2>1. /\ faults' \in {faults, faults + 1} /\ gone' = gone
          /\ pc.at \in Writing
          /\ (Fails(mem.rows) => mem.rows \cap RefusedRows # {} \/ faults' = faults + 1)
        BY <1>0, <1>1, StoreCall DEF SaveAll, Writing
    <2>2. CASE pc' = Returned \/ pc' = Raised
        <3>1. pc'.at \notin {"probe", "row", "rowAgain", "rowProbe"}
            BY <2>1, <2>2, WayBack, Positions
        <3> QED BY <1>0, <2>1, <3>1 DEF RowFaults
    <2>3. CASE /\ Fails(mem.rows) /\ mem.rows # {} /\ mem' = mem
               /\ pc' = [pc EXCEPT !.at = "probe"]
        <3>1. \A r \in mem.rows : r \in RefusedRows \/ faults' >= 1
            BY <1>0, <2>1, <2>3 DEF OneRow
        <3>2. pc'.at = "probe"
            BY <2>3, Moves
        <3> QED BY <1>0, <2>1, <2>3, <3>1, <3>2 DEF RowFaults, Excuse
    <2> QED BY <1>1, <2>2, <2>3 DEF SaveAll, AfterFailure
<1>2. CASE Probe
    <2>1. /\ faults' \in {faults, faults + 1} /\ gone' = gone /\ mem' = mem
          /\ pc.at = "probe" /\ pc.at \in Writing
        <3>1. {} \in SUBSET Fill /\ (Lands({}) \/ Fails({}))
            BY <1>2 DEF Probe
        <3> QED BY <1>2, <3>1, StoreCall DEF Probe, Writing
    <2>2. pc'.at \in {"row", "idle", "mark"}
        BY <1>2, <2>1, ReturnTyped, Moves DEF Probe, StoreUp
    <2> QED BY <1>0, <2>1, <2>2 DEF RowFaults, Excuse
<1>3. CASE WriteRow
    <2>1. mem.rows = {Carried} /\ Carried \in Fill
        BY <1>3, CarriedTyped DEF WriteRow
    <2>2. /\ faults' \in {faults, faults + 1} /\ gone' = gone
          /\ (Fails({Carried}) => Carried \in RefusedRows \/ faults' = faults + 1)
        BY <1>3, <2>1, StoreCall DEF WriteRow
    <2>3. CASE mem' = [mem EXCEPT !.rows = @ \ {Carried}] /\ pc' = [pc EXCEPT !.at = "row"]
        <3>1. mem'.rows = {} /\ pc'.at = "row"
            BY <1>0, <2>1, <2>3, Moves DEF Memory
        <3> QED BY <1>0, <2>2, <3>1 DEF RowFaults, Excuse
    <2>4. CASE Fails({Carried}) /\ mem' = mem /\ pc.at = "row" /\ pc' = [pc EXCEPT !.at = "rowAgain"]
        <3>1. pc'.at = "rowAgain"
            BY <2>4, Moves
        <3> QED BY <1>0, <2>1, <2>2, <2>4, <3>1 DEF RowFaults, Excuse
    <2>5. CASE Fails({Carried}) /\ mem' = mem /\ pc.at = "rowAgain" /\ pc' = [pc EXCEPT !.at = "rowProbe"]
        <3>1. pc'.at = "rowProbe"
            BY <2>5, Moves
        <3> QED BY <1>0, <2>1, <2>2, <2>5, <3>1 DEF RowFaults, Excuse
    <2> QED BY <1>3, <2>3, <2>4, <2>5 DEF WriteRow, TryOf, RowTries
<1>4. CASE ProbeAgain
    <2>1. mem.rows = {Carried} /\ Carried \in Fill
        BY <1>4, CarriedTyped DEF ProbeAgain, OneRow
    <2>2. /\ faults' \in {faults, faults + 1} /\ pc.at = "rowProbe" /\ pc.at \in Writing
        <3>1. {} \in SUBSET Fill /\ (Lands({}) \/ Fails({}))
            BY <1>4 DEF ProbeAgain
        <3> QED BY <1>4, <3>1, StoreCall DEF ProbeAgain, Writing
    <2>3. CASE /\ mem' = [mem EXCEPT !.rows = @ \ {Carried}] /\ pc' = [pc EXCEPT !.at = "row"]
               /\ gone' = [gone EXCEPT !.rows = @ \cup {Carried}]
        <3>1. mem'.rows = {} /\ pc'.at = "row" /\ gone'.rows = gone.rows \cup {Carried}
            BY <1>0, <2>1, <2>3, Moves DEF Memory, History
        <3>2. Carried \in RefusedRows \/ faults >= 3
            BY <2>1, <2>2 DEF RowFaults, Excuse
        <3> QED BY <1>0, <2>2, <3>1, <3>2 DEF RowFaults, Excuse
    <2>4. CASE mem' = mem /\ pc' = Raised /\ gone' = gone
        <3>1. pc'.at \in {"idle", "mark"}
            BY <2>2, <2>4, ReturnTyped
        <3> QED BY <1>0, <2>2, <2>4, <3>1 DEF RowFaults
    <2> QED BY <1>4, <2>3, <2>4 DEF ProbeAgain
<1>5. CASE Book
    <2>1. pc'.at = "save" /\ gone' = gone /\ faults' = faults
        BY <1>5, Positions DEF Book
    <2> QED BY <2>1 DEF RowFaults
<1>6. CASE Crash
    <2>1. pc'.at = "idle" /\ gone'.rows = gone.rows /\ faults' = faults
        BY <1>0, <1>6, Positions DEF Crash, History
    <2> QED BY <2>1 DEF RowFaults
<1>7. CASE ~(SaveAll \/ Probe \/ WriteRow \/ ProbeAgain \/ Book \/ Crash)
    <2>1. pc'.at \notin {"probe", "row", "rowAgain", "rowProbe"}
        BY <1>7, Elsewhere
    <2> QED BY <1>0, <1>7, <2>1, RowsAlone DEF RowFaults
<1> QED BY <1>1, <1>2, <1>3, <1>4, <1>5, <1>6, <1>7

LEMMA RowsHeldStep ==
    ASSUME Typed, Placed, OneRow, RowsHeld, Next
    PROVE  RowsHeld'
<1>0. /\ mem \in Memory /\ gone \in History /\ db \in Snapshot /\ mem.rows \in SUBSET Fill
      /\ mem.fills \in Nat /\ db.fills \in Nat
    BY Fields DEF Typed
<1>1. CASE SaveAll
    <2>1. /\ db'.rows \in {db.rows, db.rows \cup mem.rows} /\ gone' = gone
          /\ (Lands(mem.rows) => db'.rows = db.rows \cup mem.rows)
        BY <1>0, <1>1, StoreCall, SavedFills DEF SaveAll
    <2>2. mem'.fills = mem.fills /\ (mem'.rows = mem.rows \/ Lands(mem.rows))
        BY <1>0, <1>1 DEF SaveAll, Memory
    <2> QED BY <2>1, <2>2 DEF RowsHeld
<1>2. CASE Probe
    <2>1. /\ db'.rows \in {db.rows, db.rows \cup {}} /\ gone' = gone /\ mem' = mem
        <3>1. {} \in SUBSET Fill /\ (Lands({}) \/ Fails({}))
            BY <1>2 DEF Probe
        <3> QED BY <1>2, <3>1, StoreCall, SavedFills DEF Probe
    <2> QED BY <2>1 DEF RowsHeld
<1>3. CASE WriteRow
    <2>1. mem.rows = {Carried} /\ Carried \in Fill
        BY <1>3, CarriedTyped DEF WriteRow
    <2>2. /\ db'.rows \in {db.rows, db.rows \cup {Carried}} /\ gone' = gone
          /\ (Lands({Carried}) => db'.rows = db.rows \cup {Carried})
        BY <1>3, <2>1, StoreCall, SavedFills DEF WriteRow
    <2>3. mem'.fills = mem.fills /\ (mem'.rows = mem.rows \/ Lands({Carried}))
        BY <1>0, <1>3 DEF WriteRow, Memory
    <2> QED BY <2>1, <2>2, <2>3 DEF RowsHeld
<1>4. CASE ProbeAgain
    <2>1. mem.rows = {Carried} /\ Carried \in Fill
        BY <1>4, CarriedTyped DEF ProbeAgain, OneRow
    <2>2. db'.rows \in {db.rows, db.rows \cup {}}
        <3>1. {} \in SUBSET Fill /\ (Lands({}) \/ Fails({}))
            BY <1>4 DEF ProbeAgain
        <3> QED BY <3>1, StoreCall, SavedFills
    <2>3. /\ mem'.fills = mem.fills /\ gone'.unwritten = gone.unwritten
          /\ \/ mem'.rows = mem.rows /\ gone'.rows = gone.rows
             \/ gone'.rows = gone.rows \cup {Carried}
        BY <1>0, <1>4 DEF ProbeAgain, Memory, History
    <2> QED BY <2>1, <2>2, <2>3 DEF RowsHeld
<1>5. CASE Book
    <2>1. /\ mem'.fills = mem.fills + 1 /\ mem'.rows = mem.rows \cup {mem.fills + 1}
          /\ db' = db /\ gone' = gone
        BY <1>0, <1>5 DEF Book, Memory
    <2>2. \A n \in 1 .. mem.fills + 1 : n \in 1 .. mem.fills \/ n = mem.fills + 1
        BY <1>0
    <2> QED BY <2>1, <2>2 DEF RowsHeld
<1>6. CASE Crash
    <2>1. /\ mem'.fills = db.fills /\ db' = db /\ gone'.rows = gone.rows
          /\ gone'.unwritten = gone.unwritten \cup {n \in mem.rows : n <= db.fills}
        BY <1>0, <1>6, StartTyped DEF Crash, History
    <2>2. \A n \in 1 .. db.fills : n \in 1 .. mem.fills /\ n <= db.fills
        BY <1>0 DEF OneRow
    <2> QED BY <2>1, <2>2 DEF RowsHeld
<1>7. CASE ~(SaveAll \/ Probe \/ WriteRow \/ ProbeAgain \/ Book \/ Crash)
    BY <1>7, RowsAlone DEF RowsHeld
<1> QED BY <1>1, <1>2, <1>3, <1>4, <1>5, <1>6, <1>7
-----------------------------------------------------------------------------
(***************************************************************************)
(* Audit rows                                                              *)
(***************************************************************************)
\* What a step of a write does to the bars: the checkpoint is the old one or
\* holds the queue and the watermark of memory.
LEMMA BarsWritten ==
    ASSUME Typed, Placed, OneRow,
           SaveAll \/ Probe \/ WriteRow \/ RowsWritten \/ ProbeAgain
    PROVE  /\ mem'.audit = mem.audit /\ mem'.bars = mem.bars
           /\ sink' = sink /\ gone'.bars = gone.bars /\ pc.at \in Writing
           /\ \/ db' = db
              \/ db'.bars = mem.bars /\ db'.audit = mem.audit
           /\ \/ pc'.at \in Writing /\ pc'.caller = pc.caller
              \/ pc' = Returned
              \/ pc' = Raised
<1>0. mem \in Memory /\ gone \in History /\ mem.rows \in SUBSET Fill
    BY Fields DEF Typed
<1>1. CASE SaveAll
    <2>1. /\ mem'.audit = mem.audit /\ mem'.bars = mem.bars
          /\ sink' = sink /\ gone'.bars = gone.bars /\ pc.at \in Writing
        BY <1>0, <1>1 DEF SaveAll, Writing, Memory
    <2>2. \/ db' = db
          \/ db'.bars = mem.bars /\ db'.audit = mem.audit
        BY <1>0, <1>1, StoreCall, SavedFills DEF SaveAll
    <2>3. \/ pc'.at \in Writing /\ pc'.caller = pc.caller
          \/ pc' = Returned
          \/ pc' = Raised
        <3>1. pc' = Returned \/ pc' = Raised \/ pc' = [pc EXCEPT !.at = "probe"]
            BY <1>1 DEF SaveAll, AfterFailure
        <3>2. CASE pc' = [pc EXCEPT !.at = "probe"]
            BY <3>2, Moves DEF Writing
        <3> QED BY <3>1, <3>2
    <2> QED BY <2>1, <2>2, <2>3
<1>2. CASE Probe
    <2>1. {} \in SUBSET Fill /\ (Lands({}) \/ Fails({}))
        BY <1>2 DEF Probe
    <2>2. \/ pc'.at \in Writing /\ pc'.caller = pc.caller
          \/ pc' = Raised
        <3>1. pc' = Raised \/ pc' = [pc EXCEPT !.at = "row"]
            BY <1>2 DEF Probe, StoreUp
        <3>2. CASE pc' = [pc EXCEPT !.at = "row"]
            BY <3>2, Moves DEF Writing
        <3> QED BY <3>1, <3>2
    <2> QED BY <1>2, <2>1, <2>2, StoreCall, SavedFills DEF Probe, Writing
<1>3. CASE WriteRow
    <2>1. Carried \in Fill /\ (Lands({Carried}) \/ Fails({Carried}))
        BY <1>3, CarriedTyped DEF WriteRow
    <2>2. /\ mem'.audit = mem.audit /\ mem'.bars = mem.bars
          /\ sink' = sink /\ gone'.bars = gone.bars /\ pc.at \in Writing
        BY <1>0, <1>3 DEF WriteRow, Writing, Memory
    <2>3. \E x \in Writing : pc' = [pc EXCEPT !.at = x]
        BY <1>3 DEF WriteRow, Writing
    <2>4. pc'.at \in Writing /\ pc'.caller = pc.caller
        BY <2>3, Moves
    <2> QED BY <2>1, <2>2, <2>4, StoreCall, SavedFills
<1>4. CASE RowsWritten
    BY <1>4 DEF RowsWritten, Writing
<1>5. CASE ProbeAgain
    <2>1. {} \in SUBSET Fill /\ (Lands({}) \/ Fails({}))
        BY <1>5 DEF ProbeAgain
    <2>2. /\ mem'.audit = mem.audit /\ mem'.bars = mem.bars
          /\ sink' = sink /\ gone'.bars = gone.bars /\ pc.at \in Writing
        BY <1>0, <1>5 DEF ProbeAgain, Writing, Memory, History
    <2>3. \/ pc'.at \in Writing /\ pc'.caller = pc.caller
          \/ pc' = Raised
        <3>1. pc' = Raised \/ pc' = [pc EXCEPT !.at = "row"]
            BY <1>5 DEF ProbeAgain
        <3>2. CASE pc' = [pc EXCEPT !.at = "row"]
            BY <3>2, Moves DEF Writing
        <3> QED BY <3>1, <3>2
    <2> QED BY <2>1, <2>2, <2>3, StoreCall, SavedFills
<1> QED BY <1>1, <1>2, <1>3, <1>4, <1>5

\* The steps of events and orders leave the bars alone, and lead to no bar.
LEMMA BarsAlone ==
    ASSUME Typed, Placed,
           \/ Poll \/ Publish \/ Published \/ NothingToOffer \/ Accept \/ Refuse \/ Trim
           \/ Book \/ NoFill \/ NoBar
    PROVE  /\ db' = db /\ mem'.audit = mem.audit /\ mem'.bars = mem.bars
           /\ sink'.bars = sink.bars /\ gone'.bars = gone.bars
           /\ pc'.at # "mark"
           /\ pc'.at = "audit" => pc'.caller = "retry" /\ pc'.offered = 0
           /\ pc'.at \in Writing => pc'.caller \in {"carry", "book"}
<1>0. mem \in Memory /\ gone \in History /\ sink \in Record
    BY DEF Typed
<1>1. CASE Poll \/ NoFill \/ NoBar \/ Book
    <2>1. /\ db' = db /\ mem'.audit = mem.audit /\ mem'.bars = mem.bars
          /\ sink' = sink /\ gone' = gone
        BY <1>0, <1>1 DEF Poll, NoFill, NoBar, Book, Memory
    <2>2. \/ pc'.at \in {"save", "publish"} /\ pc'.caller \in {"carry", "book"}
          \/ pc'.at = "audit" /\ pc'.caller = "retry" /\ pc'.offered = 0
          \/ pc'.at = "idle"
        BY <1>1, Positions DEF Poll, NoFill, NoBar, Book
    <2> QED BY <2>1, <2>2 DEF Writing
<1>2. CASE Publish
    <2>1. mem'.audit = mem.audit /\ mem'.bars = mem.bars /\ pc'.at = "offer"
        BY <1>0, <1>2, PublishGoes DEF Memory
    <2> QED BY <1>2, <2>1 DEF Publish, Writing
<1>3. CASE Published
    BY <1>3, PublishedGoes DEF Published, Writing
<1>4. CASE NothingToOffer
    <2>1. mem'.audit = mem.audit /\ mem'.bars = mem.bars
        BY <1>0, <1>4 DEF NothingToOffer, CleanCycle, Memory
    <2>2. pc'.at \in {"offer", "trim", "publish", "orders"}
        BY <1>4, FlushGoes DEF NothingToOffer
    <2> QED BY <1>4, <2>1, <2>2 DEF NothingToOffer, Writing
<1>5. CASE Accept
    <2>1. mem'.audit = mem.audit /\ mem'.bars = mem.bars /\ gone'.bars = gone.bars
        BY <1>0, <1>5 DEF Accept, PopHead, Memory, History
    <2>2. sink'.bars = sink.bars
        BY <1>0, <1>5 DEF Accept, Stores, Record
    <2> QED BY <1>5, <2>1, <2>2 DEF Accept, Writing
<1>6. CASE Refuse
    <2>1. mem'.audit = mem.audit /\ mem'.bars = mem.bars
        BY <1>0, <1>6 DEF Refuse, Refusals, PopHead, Memory
    <2>2. sink'.bars = sink.bars /\ gone'.bars = gone.bars
        BY <1>0, <1>6 DEF Refuse, Stores, Record, History
    <2>3. pc'.at \in {"offer", "trim", "publish", "orders"}
        BY <1>6, FlushGoes DEF Refuse
    <2> QED BY <1>6, <2>1, <2>2, <2>3 DEF Refuse, Writing
<1>7. CASE Trim
    <2>1. mem'.audit = mem.audit /\ mem'.bars = mem.bars /\ gone'.bars = gone.bars
        BY <1>0, <1>7 DEF Trim, PopHead, Memory, History
    <2>2. pc'.at \in {"trim", "offer"}
        BY <1>7, Moves DEF Trim
    <2> QED BY <1>7, <2>1, <2>2 DEF Trim, Writing
<1> QED BY <1>1, <1>2, <1>3, <1>4, <1>5, <1>6, <1>7

\* The end of a flush of audit rows loses none, whatever its last call did.
LEMMA FlushKeeps ==
    ASSUME Typed, Placed, BarsHeld, pc.at = "audit", FlushEnds(pc.offered),
           sink.bars \subseteq sink'.bars, gone'.bars = gone.bars
    PROVE  BarsHeld' /\ Len(mem'.audit) <= Len(mem.audit)
<1>0. mem \in Memory /\ mem.audit \in Seq(Bar) /\ Len(mem.audit) \in Nat /\ pc.offered \in Nat
    BY Fields, LenProperties DEF Typed
<1>1. CASE pc.offered = 0 /\ mem' = mem
    <2>1. (pc.caller = "cycle" /\ pc'.at = "mark") \/ pc'.at = "bars"
        BY <1>1, AuditGoes DEF Placed
    <2>2. \A b : Kept(b) => Kept(b)'
        BY <1>1 DEF Kept
    <2> QED BY <1>0, <1>1, <2>1, <2>2 DEF BarsHeld, InHand, Writing
<1>2. CASE pc.offered # 0 /\ mem' = [mem EXCEPT !.audit = Behind(mem.audit, pc.offered)]
    <2>1. /\ pc'.at = "save"
          /\ \/ pc'.caller = "retry"
             \/ pc.caller = "cycle" /\ pc'.caller = "recorded"
        BY <1>2, AuditGoes DEF Placed
    <2>2. pc.offered \in 0 .. Len(mem.audit)
        BY <1>0 DEF BarsHeld
    <2>3. /\ mem'.bars = mem.bars /\ mem'.audit = Behind(mem.audit, pc.offered)
        BY <1>0, <1>2 DEF Memory
    <2>4. /\ Len(mem'.audit) = Len(mem.audit) - pc.offered
          /\ Numbers(mem.audit) = {mem.audit[i] : i \in 1 .. pc.offered} \cup Numbers(mem'.audit)
        BY <1>0, <2>2, <2>3, NumbersBehind
    <2>5. \A b : Kept(b) => Kept(b)'
        BY <2>4 DEF Kept, BarsHeld
    <2>6. Len(mem'.audit) <= Len(mem.audit)
        BY <1>0, <2>2, <2>4
    <2> QED BY <2>1, <2>3, <2>5, <2>6 DEF BarsHeld, InHand, Writing
<1> QED BY <1>1, <1>2, AuditGoes

LEMMA BarsStep ==
    ASSUME Typed, Placed, OneRow, BarsHeld, AuditAccounted, AuditBounds, Next
    PROVE  BarsHeld' /\ AuditAccounted' /\ AuditBounds'
<1>0. /\ mem \in Memory /\ gone \in History /\ sink \in Record /\ db \in Snapshot
      /\ mem.audit \in Seq(Bar) /\ Len(mem.audit) \in Nat
      /\ mem.bars \in Nat /\ db.bars \in Nat /\ MaxBars \in Nat /\ MaxAudit \in Nat \ {0}
    BY Fields, LenProperties, Bounds DEF Typed
<1>1. CASE SaveAll \/ Probe \/ WriteRow \/ RowsWritten \/ ProbeAgain
    <2>1. /\ mem'.audit = mem.audit /\ mem'.bars = mem.bars
          /\ sink' = sink /\ gone'.bars = gone.bars /\ pc.at \in Writing
          /\ \/ db' = db
             \/ db'.bars = mem.bars /\ db'.audit = mem.audit
        BY <1>1, BarsWritten
    <2>2. /\ AuditAccounted' /\ AuditBounds'
        BY <2>1 DEF AuditAccounted, AuditBounds, BarsHeld, Kept
    <2>3. InHand' => InHand
        <3>1. CASE pc'.at \in Writing /\ pc'.caller = pc.caller
            BY <2>1, <3>1 DEF InHand, Writing
        <3>2. CASE pc' = Returned \/ pc' = Raised
            BY <2>1, <3>2, WayBack, Positions DEF InHand, Writing
        <3> QED BY <1>1, <3>1, <3>2, BarsWritten
    <2>4. pc'.at = "audit" => pc'.offered = 0
        <3>1. CASE pc'.at \in Writing
            BY <3>1 DEF Writing
        <3>2. CASE pc' = Returned \/ pc' = Raised
            BY <2>1, <3>2, WayBack, Positions
        <3> QED BY <1>1, <3>1, <3>2, BarsWritten
    <2>5. pc'.at = "audit" => /\ pc'.offered <= Len(mem'.audit)
                              /\ \A i \in 1 .. pc'.offered : mem'.audit[i] \in sink'.bars \cup gone'.bars
        BY <1>0, <2>1, <2>4
    <2> QED BY <2>1, <2>2, <2>3, <2>5 DEF BarsHeld, Kept
<1>2. CASE \/ Poll \/ Publish \/ Published \/ NothingToOffer \/ Accept \/ Refuse \/ Trim
           \/ Book \/ NoFill \/ NoBar
    <2>1. /\ db' = db /\ mem'.audit = mem.audit /\ mem'.bars = mem.bars
          /\ sink'.bars = sink.bars /\ gone'.bars = gone.bars
          /\ pc'.at = "audit" => pc'.offered = 0
        BY <1>2, BarsAlone
    <2>2. ~InHand'
        BY <1>2, BarsAlone DEF InHand
    <2>3. pc'.at = "audit" => /\ pc'.offered <= Len(mem'.audit)
                              /\ \A i \in 1 .. pc'.offered : mem'.audit[i] \in sink'.bars \cup gone'.bars
        BY <1>0, <2>1
    <2> QED BY <2>1, <2>2, <2>3 DEF BarsHeld, Kept, AuditAccounted, AuditBounds
<1>3. CASE OfferRows
    <2>1. pc.at = "audit" /\ db' = db
        BY <1>3 DEF OfferRows
    <2>2. Stored(Batch).bars = sink.bars \cup (Batch \ RefusedBars)
        BY <1>0 DEF Stored, Record
    <2>3. CASE /\ sink' = Stored(Batch) /\ mem' = mem
               /\ gone' = [gone EXCEPT !.bars = @ \cup (Batch \cap RefusedBars)]
               /\ pc' = [pc EXCEPT !.offered = Reached]
        <3>1. sink'.bars \cup gone'.bars = sink.bars \cup gone.bars \cup Batch
            BY <1>0, <2>2, <2>3 DEF History
        <3>2. pc'.at = pc.at /\ pc'.caller = pc.caller /\ pc'.offered = Reached
            BY <2>3, Moves
        <3>3. /\ Reached \in pc.offered + 1 .. Len(mem.audit)
              /\ pc.offered \in 0 .. Len(mem.audit)
            BY <1>3, OfferStep
        <3>4. \A i \in 1 .. Reached : i \in 1 .. pc.offered \/ mem.audit[i] \in Batch
            <4>1. \A i \in 1 .. Reached : i \in 1 .. pc.offered \/ i \in pc.offered + 1 .. Reached
                BY <1>0, <3>3
            <4> QED BY <4>1 DEF Batch
        <3>5. Reached <= Len(mem.audit)
            BY <1>0, <3>3
        <3>6. \A b : Kept(b) => Kept(b)'
            BY <2>3, <3>1 DEF Kept
        <3>7. \A i \in 1 .. Reached : mem.audit[i] \in sink'.bars \cup gone'.bars
            BY <2>1, <3>1, <3>4 DEF BarsHeld
        <3>8. InHand' => InHand
            BY <3>2 DEF InHand
        <3>9. BarsHeld'
            BY <2>3, <3>2, <3>5, <3>6, <3>7, <3>8 DEF BarsHeld
        <3> QED BY <2>1, <2>3, <3>1, <3>9 DEF AuditAccounted, AuditBounds
    <2>4. CASE sink' \in {sink, Stored(Batch)} /\ FlushEnds(pc.offered) /\ UNCHANGED gone
        <3>1. sink.bars \subseteq sink'.bars /\ gone'.bars = gone.bars
            BY <2>2, <2>4
        <3>2. BarsHeld' /\ Len(mem'.audit) <= Len(mem.audit)
            BY <2>1, <2>4, <3>1, FlushKeeps
        <3>3. Len(mem'.audit) \in Nat
            <4>1. mem'.audit \in Seq(Bar)
                BY <1>3, <2>4, OfferStep, FlushTyped DEF Memory
            <4> QED BY <4>1, LenProperties
        <3>4. AuditBounds'
            BY <1>0, <2>1, <3>2, <3>3 DEF AuditBounds
        <3> QED BY <2>1, <3>1, <3>2, <3>4 DEF AuditAccounted
    <2> QED BY <1>3, <2>3, <2>4, OfferStep
<1>4. CASE AllOffered
    <2>1. /\ pc.at = "audit" /\ FlushEnds(pc.offered) /\ db' = db /\ sink' = sink /\ gone' = gone
          /\ pc.offered \in 0 .. Len(mem.audit)
        BY <1>0, <1>4 DEF AllOffered
    <2>2. BarsHeld' /\ Len(mem'.audit) <= Len(mem.audit)
        BY <2>1, FlushKeeps
    <2>3. Len(mem'.audit) \in Nat
        <3>1. mem'.audit \in Seq(Bar)
            BY <2>1, FlushTyped DEF Memory
        <3> QED BY <3>1, LenProperties
    <2>4. AuditBounds'
        BY <1>0, <2>1, <2>2, <2>3 DEF AuditBounds
    <2> QED BY <2>1, <2>2, <2>4 DEF AuditAccounted
<1>5. CASE Decide
    <2>1. /\ mem.bars < MaxBars /\ db' = db /\ sink' = sink
          /\ pc'.at = "save" /\ pc'.caller = "cycle"
        BY <1>5, Positions DEF Decide
    <2>2. mem'.bars = mem.bars
        BY <1>0, <1>5 DEF Decide, QueueRow, Memory
    <2>3. CASE Full
        <3>1. mem' = mem /\ gone'.bars = gone.bars \cup {mem.bars + 1}
            BY <1>0, <1>5, <2>3 DEF Decide, QueueRow, History
        <3> QED BY <2>1, <3>1 DEF BarsHeld, Kept, AuditAccounted, AuditBounds, Writing
    <2>4. CASE ~Full
        <3>1. mem'.audit = Append(mem.audit, mem.bars + 1) /\ gone'.bars = gone.bars
            BY <1>0, <1>5, <2>4 DEF Decide, QueueRow, Memory, History
        <3>2. mem.bars + 1 \in Bar
            BY <1>0, <2>1 DEF Bar
        <3>3. Numbers(mem'.audit) = Numbers(mem.audit) \cup {mem.bars + 1}
            BY <1>0, <3>1, <3>2, NumbersOfAppend
        <3>4. Len(mem'.audit) = Len(mem.audit) + 1
            BY <1>0, <3>1, <3>2, AppendProperties
        <3>5. Len(mem'.audit) <= MaxAudit
            BY <1>0, <2>4, <3>4 DEF Full
        <3> QED BY <2>1, <2>2, <3>1, <3>3, <3>5 DEF BarsHeld, Kept, AuditAccounted, AuditBounds, Writing
    <2> QED BY <2>3, <2>4
<1>6. CASE Mark
    <2>1. /\ mem'.bars = mem.bars + 1 /\ mem'.audit = mem.audit /\ db' = db /\ sink' = sink
          /\ gone' = gone
        BY <1>0, <1>6 DEF Mark, Memory
    <2>2. pc'.at = "save" /\ pc'.caller = "mark"
        BY <1>6, Positions DEF Mark
    <2>3. Kept(mem.bars + 1)
        BY <1>6 DEF Mark, BarsHeld, InHand
    <2>4. \A b \in 1 .. mem.bars + 1 : b \in 1 .. mem.bars \/ b = mem.bars + 1
        BY <1>0
    <2> QED BY <2>1, <2>2, <2>3, <2>4 DEF BarsHeld, InHand, Kept, AuditAccounted, AuditBounds, Writing
<1>7. CASE Crash
    <2>1. /\ mem'.bars = db.bars /\ mem'.audit = db.audit /\ db' = db /\ sink' = sink
          /\ gone'.bars = gone.bars /\ pc'.at = "idle"
        BY <1>0, <1>7, StartTyped, Positions DEF Crash, History
    <2> QED BY <2>1 DEF BarsHeld, InHand, Kept, AuditAccounted, AuditBounds, Writing
<1> QED BY <1>1, <1>2, <1>3, <1>4, <1>5, <1>6, <1>7 DEF Next, Cycle
-----------------------------------------------------------------------------
(***************************************************************************)
(* Position events                                                         *)
(***************************************************************************)
\* The event in hand.
First == Head(mem.queue)

LEMMA QueueHead ==
    ASSUME Typed, mem.queue # <<>>
    PROVE  /\ First \in Event /\ First.fill \in Fill /\ First.seq \in Nat /\ First = mem.queue[1]
           /\ First \in Numbers(mem.queue)
           /\ Numbers(mem.queue) = {First} \cup Numbers(Tail(mem.queue))
           /\ Tail(mem.queue) \in Seq(Event) /\ Len(Tail(mem.queue)) = Len(mem.queue) - 1
<1>1. mem \in Memory /\ mem.queue \in Seq(Event)
    BY Fields DEF Typed
<1>2. /\ First \in Event /\ First = mem.queue[1]
      /\ Tail(mem.queue) \in Seq(Event) /\ Len(Tail(mem.queue)) = Len(mem.queue) - 1
    BY <1>1, HeadTailProperties DEF First
<1>3. Numbers(mem.queue) = {First} \cup Numbers(Tail(mem.queue))
    BY <1>1, <1>2, NumbersOfTail
<1> QED BY <1>2, <1>3 DEF Event

LEMMA ResultHead ==
    ASSUME Typed, mem.results # <<>>
    PROVE  /\ Head(mem.results) \in Fill /\ Head(mem.results) = mem.results[1]
           /\ Tail(mem.results) \in Seq(Fill)
           /\ Numbers(mem.results) = {Head(mem.results)} \cup Numbers(Tail(mem.results))
<1>1. mem.results \in Seq(Fill)
    BY Fields
<1>2. /\ Head(mem.results) \in Fill /\ Head(mem.results) = mem.results[1]
      /\ Tail(mem.results) \in Seq(Fill)
    BY <1>1, HeadTailProperties
<1> QED BY <1>1, <1>2, NumbersOfTail

LEMMA HeadFill ==
    ASSUME NEW q \in Seq(Event), q # <<>>
    PROVE  q[1].fill \in Fill
<1>1. Head(q) \in Event /\ Head(q) = q[1]
    BY HeadTailProperties
<1> QED BY <1>1 DEF Event

LEMMA NumbersTyped ==
    ASSUME Typed
    PROVE  /\ Numbers(mem.queue) \subseteq Event
           /\ Numbers(mem.results) \subseteq Fill
           /\ Numbers(sink.events) \subseteq Fill
<1>1. mem.queue \in Seq(Event) /\ mem.results \in Seq(Fill) /\ sink.events \in Seq(Fill)
    BY Fields
<1>2. /\ \A i \in DOMAIN mem.queue : mem.queue[i] \in Event
      /\ \A i \in DOMAIN mem.results : mem.results[i] \in Fill
      /\ \A i \in DOMAIN sink.events : sink.events[i] \in Fill
    BY <1>1, LenProperties, ElementOfSeq
<1> QED BY <1>2 DEF Numbers

\* What a step outside the delivery of events leaves alone.
LEMMA EventsAlone ==
    ASSUME Typed, Placed, OneRow, Next,
           ~(\/ Publish \/ NothingToOffer \/ Accept \/ Refuse \/ Trim \/ Book \/ Crash)
    PROVE  /\ mem'.fills = mem.fills /\ mem'.seq = mem.seq /\ mem'.results = mem.results
           /\ mem'.queue = mem.queue /\ mem'.refused = mem.refused
           /\ sink'.events = sink.events /\ sink'.numbered = sink.numbered
           /\ gone'.events = gone.events /\ gone'.swallowed = gone.swallowed
           /\ gone'.exhausted = gone.exhausted /\ gone'.tries = gone.tries
           /\ crashes' = crashes /\ db'.fills \in {db.fills, mem.fills}
           /\ pc.at \notin {"offer", "trim"} /\ pc'.at # "trim"
<1>0. mem \in Memory /\ gone \in History /\ sink \in Record /\ mem.rows \in SUBSET Fill
    BY Fields DEF Typed
<1>1. CASE SaveAll
    <2>1. /\ mem'.fills = mem.fills /\ mem'.seq = mem.seq /\ mem'.results = mem.results
          /\ mem'.queue = mem.queue /\ mem'.refused = mem.refused
        BY <1>0, <1>1 DEF SaveAll, Memory
    <2>2. pc.at \in Writing
        BY <1>1 DEF SaveAll, Writing
    <2>3. pc'.at # "trim"
        <3>1. CASE pc' = Returned \/ pc' = Raised
            BY <2>2, <3>1, WayBack, Positions
        <3>2. CASE pc' = [pc EXCEPT !.at = "probe"]
            BY <3>2, Moves
        <3> QED BY <1>1, <3>1, <3>2 DEF SaveAll, AfterFailure
    <2> QED BY <1>0, <1>1, <2>1, <2>3, StoreCall, SavedFills DEF SaveAll
<1>2. CASE Probe
    <2>1. {} \in SUBSET Fill /\ (Lands({}) \/ Fails({})) /\ pc.at \in Writing
        BY <1>2 DEF Probe, Writing
    <2>2. pc'.at # "trim"
        BY <1>2, <2>1, ReturnTyped, Moves DEF Probe, StoreUp
    <2> QED BY <1>2, <2>1, <2>2, StoreCall, SavedFills DEF Probe
<1>3. CASE WriteRow
    <2>1. Carried \in Fill /\ (Lands({Carried}) \/ Fails({Carried}))
        BY <1>3, CarriedTyped DEF WriteRow
    <2>2. /\ mem'.fills = mem.fills /\ mem'.seq = mem.seq /\ mem'.results = mem.results
          /\ mem'.queue = mem.queue /\ mem'.refused = mem.refused
        BY <1>0, <1>3 DEF WriteRow, Memory
    <2>3. pc'.at # "trim"
        <3>1. \E x \in {"row", "rowAgain", "rowProbe"} : pc' = [pc EXCEPT !.at = x]
            BY <1>3 DEF WriteRow
        <3> QED BY <3>1, Moves
    <2> QED BY <1>3, <2>1, <2>2, <2>3, StoreCall, SavedFills DEF WriteRow
<1>4. CASE ProbeAgain
    <2>1. {} \in SUBSET Fill /\ (Lands({}) \/ Fails({})) /\ pc.at \in Writing
        BY <1>4 DEF ProbeAgain, Writing
    <2>2. /\ mem'.fills = mem.fills /\ mem'.seq = mem.seq /\ mem'.results = mem.results
          /\ mem'.queue = mem.queue /\ mem'.refused = mem.refused
        BY <1>0, <1>4 DEF ProbeAgain, Memory
    <2>3. /\ gone'.events = gone.events /\ gone'.swallowed = gone.swallowed
          /\ gone'.exhausted = gone.exhausted /\ gone'.tries = gone.tries
        BY <1>0, <1>4 DEF ProbeAgain, History
    <2>4. pc'.at # "trim"
        <3>1. pc' = Raised \/ pc' = [pc EXCEPT !.at = "row"]
            BY <1>4 DEF ProbeAgain
        <3> QED BY <2>1, <3>1, ReturnTyped, Moves
    <2> QED BY <1>4, <2>1, <2>2, <2>3, <2>4, StoreCall, SavedFills DEF ProbeAgain
<1>5. CASE Poll \/ NoFill \/ NoBar
    BY <1>5, Positions DEF Poll, NoFill, NoBar
<1>6. CASE RowsWritten
    BY <1>6, WayBack, Positions DEF RowsWritten, Writing
<1>7. CASE Published
    BY <1>7, PublishedGoes DEF Published
<1>8. CASE OfferRows
    <2>1. /\ mem'.fills = mem.fills /\ mem'.seq = mem.seq /\ mem'.results = mem.results
          /\ mem'.queue = mem.queue /\ mem'.refused = mem.refused /\ pc'.at # "trim"
        <3>1. CASE mem' = mem /\ pc' = [pc EXCEPT !.offered = Reached]
            BY <1>8, <3>1, Moves DEF OfferRows
        <3>2. CASE FlushEnds(pc.offered)
            BY <1>0, <3>2, AuditGoes DEF Memory
        <3> QED BY <1>8, <3>1, <3>2, OfferStep
    <2>2. Stored(Batch).events = sink.events /\ Stored(Batch).numbered = sink.numbered
        BY <1>0 DEF Stored, Record
    <2>3. gone' = gone \/ gone' = [gone EXCEPT !.bars = @ \cup (Batch \cap RefusedBars)]
        BY <1>8, OfferStep
    <2>4. /\ gone'.events = gone.events /\ gone'.swallowed = gone.swallowed
          /\ gone'.exhausted = gone.exhausted /\ gone'.tries = gone.tries
        BY <1>0, <2>3 DEF History
    <2>5. sink'.events = sink.events /\ sink'.numbered = sink.numbered
        BY <1>8, <2>2, OfferStep
    <2> QED BY <1>8, <2>1, <2>4, <2>5 DEF OfferRows
<1>9. CASE AllOffered
    BY <1>0, <1>9, AuditGoes DEF AllOffered, Memory
<1>10. CASE Decide
    <2>1. pc'.at = "save"
        BY <1>10, Positions DEF Decide
    <2>2. /\ mem'.fills = mem.fills /\ mem'.seq = mem.seq /\ mem'.results = mem.results
          /\ mem'.queue = mem.queue /\ mem'.refused = mem.refused
        BY <1>0, <1>10 DEF Decide, QueueRow, Memory
    <2>3. /\ gone'.events = gone.events /\ gone'.swallowed = gone.swallowed
          /\ gone'.exhausted = gone.exhausted /\ gone'.tries = gone.tries
        BY <1>0, <1>10 DEF Decide, History
    <2> QED BY <1>10, <2>1, <2>2, <2>3 DEF Decide
<1>11. CASE Mark
    BY <1>0, <1>11, Positions DEF Mark, Memory
<1> QED
    BY <1>1, <1>2, <1>3, <1>4, <1>5, <1>6, <1>7, <1>8, <1>9, <1>10, <1>11 DEF Next, Cycle

\* What a refusal does.
LEMMA RefuseStep ==
    ASSUME Typed, Refuse
    PROVE  /\ mem.queue # <<>> /\ pc.at = "offer"
           /\ mem'.fills = mem.fills /\ mem'.seq = mem.seq /\ mem'.results = mem.results
           /\ sink' = sink \/ Stores(First)
           /\ gone'.swallowed = gone.swallowed /\ crashes' = crashes /\ db' = db
           /\ \E m : m.queue = mem.queue /\ pc' = Flushed(m)
           /\ gone'.tries = [gone.tries EXCEPT ![First.fill] =
                               IF pc.flush = "counted" THEN Min({@ + 1, MaxAttempts}) ELSE @]
           /\ \/ /\ mem'.queue = mem.queue
                 /\ gone'.events = gone.events /\ gone'.exhausted = gone.exhausted
                 /\ \/ mem'.refused = mem.refused
                    \/ mem'.refused = mem.refused + 1 /\ pc.flush = "counted"
              \/ /\ mem'.queue = Tail(mem.queue) /\ mem'.refused = 0
                 /\ gone'.events = gone.events \cup {First.fill}
                 /\ gone'.exhausted = gone.exhausted \cup {First.fill}
                 /\ pc.flush = "counted" /\ mem.refused + 1 >= MaxAttempts
<1>0. /\ mem \in Memory /\ gone \in History /\ mem.refused \in 0 .. MaxAttempts - 1
      /\ MaxAttempts \in Nat
    BY Fields, Bounds DEF Typed
<1> DEFINE m == [Refusals(mem) EXCEPT !.degraded = TRUE, !.clean = 0]
<1>1. /\ m.queue = mem.queue /\ m.fills = mem.fills /\ m.seq = mem.seq
      /\ m.results = mem.results
      /\ m.refused = IF pc.flush = "counted" THEN mem.refused + 1 ELSE mem.refused
      /\ PopHead(m).queue = Tail(mem.queue) /\ PopHead(m).fills = mem.fills
      /\ PopHead(m).seq = mem.seq /\ PopHead(m).results = mem.results
      /\ PopHead(m).refused = 0
    BY <1>0 DEF Refusals, PopHead, Memory
<1>2. /\ mem' = IF Exhausted(m) THEN PopHead(m) ELSE m
      /\ pc' = Flushed(m) /\ mem.queue # <<>> /\ pc.at = "offer" /\ crashes' = crashes /\ db' = db
      /\ sink' = sink \/ Stores(First)
    BY DEF Refuse, First
<1>3. gone' = [gone EXCEPT !.events = IF Exhausted(m) THEN @ \cup {First.fill} ELSE @,
                 !.tries[First.fill] = IF pc.flush = "counted" THEN Min({@ + 1, MaxAttempts}) ELSE @,
                 !.exhausted = IF Exhausted(m) THEN @ \cup {First.fill} ELSE @]
    BY DEF Refuse, First
<1>4. Exhausted(m) <=> m.refused >= MaxAttempts
    BY DEF Exhausted
<1> HIDE DEF m
<1>5. /\ gone'.swallowed = gone.swallowed
      /\ gone'.tries = [gone.tries EXCEPT ![First.fill] =
                          IF pc.flush = "counted" THEN Min({@ + 1, MaxAttempts}) ELSE @]
      /\ gone'.events = IF Exhausted(m) THEN gone.events \cup {First.fill} ELSE gone.events
      /\ gone'.exhausted = IF Exhausted(m) THEN gone.exhausted \cup {First.fill} ELSE gone.exhausted
    BY <1>0, <1>3 DEF History
<1>6. CASE Exhausted(m)
    <2>1. pc.flush = "counted" /\ mem.refused + 1 >= MaxAttempts
        BY <1>0, <1>1, <1>4, <1>6
    <2> QED BY <1>1, <1>2, <1>5, <1>6, <2>1
<1>7. CASE ~Exhausted(m)
    BY <1>1, <1>2, <1>5, <1>7
<1> QED BY <1>6, <1>7

\* What the publication of a result adds to the queue.
LEMMA PublishStep ==
    ASSUME Typed, Publish
    PROVE  LET h == Head(mem.results)
               e == [fill |-> h, seq |-> mem.seq + 1]
           IN /\ h \in Fill /\ e \in Event
              /\ mem'.fills = mem.fills /\ mem'.seq = mem.seq + 1 /\ mem'.refused = mem.refused
              /\ mem'.results = Tail(mem.results) /\ mem'.queue = Append(mem.queue, e)
              /\ Numbers(mem'.queue) = Numbers(mem.queue) \cup {e}
              /\ Numbers(mem.results) = {h} \cup Numbers(mem'.results)
              /\ db' = db /\ sink' = sink /\ gone' = gone /\ crashes' = crashes
<1> DEFINE h == Head(mem.results)
           e == [fill |-> h, seq |-> mem.seq + 1]
<1>1. mem \in Memory /\ mem.queue \in Seq(Event) /\ mem.seq \in Nat /\ mem.results # <<>>
    BY Fields DEF Typed, Publish
<1>2. h \in Fill /\ Numbers(mem.results) = {h} \cup Numbers(Tail(mem.results))
    BY <1>1, ResultHead
<1>3. e \in Event
    BY <1>1, <1>2 DEF Event
<1>4. Numbers(Append(mem.queue, e)) = Numbers(mem.queue) \cup {e}
    BY <1>1, <1>3, NumbersOfAppend
<1>5. /\ mem'.fills = mem.fills /\ mem'.seq = mem.seq + 1 /\ mem'.refused = mem.refused
      /\ mem'.results = Tail(mem.results) /\ mem'.queue = Append(mem.queue, e)
    BY <1>1, PublishGoes DEF Memory
<1>6. db' = db /\ sink' = sink /\ gone' = gone /\ crashes' = crashes
    BY DEF Publish
<1> HIDE DEF h, e
<1>7. /\ h \in Fill /\ e \in Event
      /\ mem'.fills = mem.fills /\ mem'.seq = mem.seq + 1 /\ mem'.refused = mem.refused
      /\ mem'.results = Tail(mem.results) /\ mem'.queue = Append(mem.queue, e)
      /\ Numbers(mem'.queue) = Numbers(mem.queue) \cup {e}
      /\ Numbers(mem.results) = {h} \cup Numbers(mem'.results)
      /\ db' = db /\ sink' = sink /\ gone' = gone /\ crashes' = crashes
    BY <1>2, <1>3, <1>4, <1>5, <1>6
<1> QED BY <1>7 DEF h, e

\* What an acceptance, and a trim, do.
LEMMA AcceptStep ==
    ASSUME Typed, Accept
    PROVE  /\ mem.queue # <<>> /\ pc.at = "offer" /\ pc' = pc /\ Stores(First)
           /\ mem'.fills = mem.fills /\ mem'.seq = mem.seq /\ mem'.results = mem.results
           /\ mem'.queue = Tail(mem.queue) /\ mem'.refused = 0
           /\ gone'.events = gone.events /\ gone'.exhausted = gone.exhausted
           /\ gone'.tries = gone.tries /\ crashes' = crashes /\ db' = db
           /\ gone'.swallowed = IF Known(First.seq) /\ First \notin sink.numbered
                                THEN gone.swallowed \cup {First.fill} ELSE gone.swallowed
<1>0. mem \in Memory /\ gone \in History
    BY DEF Typed
<1>1. /\ mem'.fills = mem.fills /\ mem'.seq = mem.seq /\ mem'.results = mem.results
      /\ mem'.queue = Tail(mem.queue) /\ mem'.refused = 0
    BY <1>0 DEF Accept, PopHead, Memory
<1>2. gone' = IF Known(First.seq) /\ First \notin sink.numbered
              THEN [gone EXCEPT !.swallowed = @ \cup {First.fill}] ELSE gone
    BY DEF Accept, First
<1>3. /\ gone'.events = gone.events /\ gone'.exhausted = gone.exhausted
      /\ gone'.tries = gone.tries
      /\ gone'.swallowed = IF Known(First.seq) /\ First \notin sink.numbered
                           THEN gone.swallowed \cup {First.fill} ELSE gone.swallowed
    BY <1>0, <1>2 DEF History
<1> QED BY <1>1, <1>3 DEF Accept, First

LEMMA TrimStep ==
    ASSUME Typed, QueueBounds, Trim
    PROVE  /\ mem.queue # <<>> /\ pc.at = "trim"
           /\ mem'.fills = mem.fills /\ mem'.seq = mem.seq /\ mem'.results = mem.results
           /\ mem'.queue = Tail(mem.queue) /\ mem'.refused = 0
           /\ gone'.events = gone.events \cup {First.fill} /\ gone'.exhausted = gone.exhausted
           /\ gone'.tries = gone.tries /\ gone'.swallowed = gone.swallowed
           /\ crashes' = crashes /\ db' = db /\ sink' = sink
           /\ \/ Len(mem'.queue) > MaxPending /\ pc' = pc
              \/ ~(Len(mem'.queue) > MaxPending) /\ pc'.at = "offer" /\ pc'.flush = "each"
<1>0. mem \in Memory /\ gone \in History /\ MaxPending \in Nat \ {0}
    BY Bounds DEF Typed
<1>1. mem.queue # <<>>
    BY <1>0 DEF Trim, QueueBounds
<1>2. /\ mem'.fills = mem.fills /\ mem'.seq = mem.seq /\ mem'.results = mem.results
      /\ mem'.queue = Tail(mem.queue) /\ mem'.refused = 0
    BY <1>0 DEF Trim, PopHead, Memory
<1>3. /\ gone'.events = gone.events \cup {First.fill} /\ gone'.exhausted = gone.exhausted
      /\ gone'.tries = gone.tries /\ gone'.swallowed = gone.swallowed
    BY <1>0 DEF Trim, History, First
<1>4. \/ Len(mem'.queue) > MaxPending /\ pc' = pc
      \/ ~(Len(mem'.queue) > MaxPending) /\ pc'.at = "offer" /\ pc'.flush = "each"
    BY Moves DEF Trim
<1> QED BY <1>1, <1>2, <1>3, <1>4 DEF Trim

\* What a step that offers nothing, a booking and a crash do.
LEMMA NothingStep ==
    ASSUME Typed, NothingToOffer
    PROVE  /\ mem.queue = <<>> /\ pc.at = "offer"
           /\ mem'.fills = mem.fills /\ mem'.seq = mem.seq /\ mem'.results = mem.results
           /\ mem'.queue = mem.queue /\ mem'.refused = mem.refused
           /\ db' = db /\ sink' = sink /\ gone' = gone /\ crashes' = crashes
           /\ pc' = Flushed(mem)
<1>0. mem \in Memory
    BY DEF Typed
<1> QED BY <1>0 DEF NothingToOffer, CleanCycle, Memory

LEMMA BookStep ==
    ASSUME Typed, Book
    PROVE  /\ mem'.fills = mem.fills + 1 /\ mem'.seq = mem.seq /\ mem'.refused = mem.refused
           /\ mem'.results = Append(mem.results, mem.fills + 1) /\ mem'.queue = mem.queue
           /\ Numbers(mem'.results) = Numbers(mem.results) \cup {mem.fills + 1}
           /\ pc.at = "orders" /\ pc'.at = "save"
           /\ db' = db /\ sink' = sink /\ gone' = gone /\ crashes' = crashes
<1>0. mem \in Memory /\ mem.results \in Seq(Fill) /\ mem.fills \in 0 .. MaxFills /\ MaxFills \in Nat
    BY Fields, Bounds DEF Typed
<1>1. mem.fills + 1 \in Fill
    <2>1. mem.fills < MaxFills
        BY DEF Book
    <2> QED BY <1>0, <2>1, NextNumber DEF Fill
<1>2. Numbers(Append(mem.results, mem.fills + 1)) = Numbers(mem.results) \cup {mem.fills + 1}
    BY <1>0, <1>1, NumbersOfAppend
<1>3. /\ mem'.fills = mem.fills + 1 /\ mem'.seq = mem.seq /\ mem'.refused = mem.refused
      /\ mem'.results = Append(mem.results, mem.fills + 1) /\ mem'.queue = mem.queue
    BY <1>0 DEF Book, Memory
<1>4. pc'.at = "save"
    BY Positions DEF Book
<1> QED BY <1>2, <1>3, <1>4 DEF Book

LEMMA CrashStep ==
    ASSUME Typed, Crash
    PROVE  /\ mem'.fills = db.fills /\ mem'.results = <<>> /\ mem'.queue = <<>>
           /\ mem'.refused = 0 /\ db' = db /\ sink' = sink /\ crashes' # 0 /\ pc'.at = "idle"
           /\ gone'.events = gone.events \cup {n \in Numbers(mem.results) : n <= db.fills}
                                         \cup {e.fill : e \in Numbers(mem.queue)}
           /\ gone'.swallowed = gone.swallowed /\ gone'.exhausted = gone.exhausted
           /\ gone'.tries = gone.tries
<1>0. gone \in History /\ crashes \in Nat
    BY DEF Typed
<1>1. /\ gone'.events = gone.events \cup {n \in Numbers(mem.results) : n <= db.fills}
                                    \cup {e.fill : e \in Numbers(mem.queue)}
      /\ gone'.swallowed = gone.swallowed /\ gone'.exhausted = gone.exhausted
      /\ gone'.tries = gone.tries
    BY <1>0 DEF Crash, History
<1>2. crashes' # 0
    BY <1>0 DEF Crash
<1> QED BY <1>1, <1>2, StartTyped, Positions DEF Crash

LEMMA NothingQueued == Numbers(<<>>) = {} /\ Len(<<>>) = 0
BY DEF Numbers

LEMMA QueueBoundsStep ==
    ASSUME Typed, Placed, OneRow, QueueBounds, Next
    PROVE  QueueBounds'
<1>0. /\ mem.queue \in Seq(Event) /\ Len(mem.queue) \in Nat /\ MaxPending \in Nat \ {0}
    BY Fields, LenProperties, Bounds
<1>1. CASE Publish
    <2>1. mem'.queue = Append(mem.queue, [fill |-> Head(mem.results), seq |-> mem.seq + 1])
        BY <1>1, PublishStep
    <2>2. Len(mem'.queue) = Len(mem.queue) + 1
        BY <1>0, <1>1, <2>1, PublishStep, AppendProperties
    <2>3. ~(Len(mem.queue) > MaxPending)
        BY <1>1 DEF QueueBounds, Publish
    <2>4. Len(mem'.queue) <= MaxPending + 1
        BY <1>0, <2>2, <2>3
    <2> QED BY <1>1, <2>4, PublishGoes DEF QueueBounds
<1>2. CASE NothingToOffer
    <2>1. /\ pc.at = "offer" /\ pc' = Flushed(mem) /\ mem'.queue = mem.queue
          /\ Len(mem.queue) = 0
        BY <1>2, NothingStep, NothingQueued
    <2>2. pc'.at # "trim" /\ ~(Len(mem.queue) > MaxPending)
        BY <1>0, <2>1, FlushGoes
    <2> QED BY <1>0, <2>1, <2>2 DEF QueueBounds
<1>3. CASE Accept
    <2>1. mem'.queue = Tail(mem.queue) /\ pc' = pc /\ pc.at = "offer" /\ mem.queue # <<>>
        BY <1>3, AcceptStep
    <2>2. Len(mem'.queue) = Len(mem.queue) - 1
        BY <2>1, QueueHead
    <2> QED BY <1>0, <2>1, <2>2 DEF QueueBounds
<1>4. CASE Refuse
    <2>1. PICK m : m.queue = mem.queue /\ pc' = Flushed(m)
        BY <1>4, RefuseStep
    <2>2. pc.at = "offer" /\ mem.queue # <<>>
        BY <1>4, RefuseStep
    <2>3. CASE mem'.queue = mem.queue
        BY <1>0, <2>1, <2>2, <2>3, FlushGoes DEF QueueBounds
    <2>4. CASE mem'.queue = Tail(mem.queue) /\ pc.flush = "counted"
        <3>1. Len(mem'.queue) = Len(mem.queue) - 1
            BY <2>2, <2>4, QueueHead
        <3>2. pc'.at = "orders"
            BY <2>1, <2>2, <2>4, FlushGoes
        <3> QED BY <1>0, <2>2, <2>4, <3>1, <3>2 DEF QueueBounds
    <2> QED BY <1>4, <2>3, <2>4, RefuseStep
<1>5. CASE Trim
    <2>1. Len(mem'.queue) = Len(mem.queue) - 1
        BY <1>5, TrimStep, QueueHead
    <2> QED BY <1>0, <1>5, <2>1, TrimStep DEF QueueBounds
<1>6. CASE Book
    BY <1>6, BookStep DEF QueueBounds
<1>7. CASE Crash
    <2>1. Len(mem'.queue) = 0 /\ pc'.at = "idle"
        BY <1>7, CrashStep, NothingQueued
    <2> QED BY <1>0, <2>1 DEF QueueBounds
<1>8. CASE ~(\/ Publish \/ NothingToOffer \/ Accept \/ Refuse \/ Trim \/ Book \/ Crash)
    BY <1>0, <1>8, EventsAlone DEF QueueBounds
<1> QED BY <1>1, <1>2, <1>3, <1>4, <1>5, <1>6, <1>7, <1>8

\* What the sink does with an event it takes.
LEMMA StoresStep ==
    ASSUME Typed, mem.queue # <<>>, Stores(First)
    PROVE  \/ Known(First.seq) /\ sink' = sink
           \/ /\ ~Known(First.seq) /\ sink'.events = Append(sink.events, First.fill)
              /\ Numbers(sink'.events) = Numbers(sink.events) \cup {First.fill}
              /\ sink'.numbered = sink.numbered \cup {First}
<1>1. sink \in Record /\ sink.events \in Seq(Fill) /\ First.fill \in Fill
    BY Fields, QueueHead DEF Typed
<1>2. Numbers(Append(sink.events, First.fill)) = Numbers(sink.events) \cup {First.fill}
    BY <1>1, NumbersOfAppend
<1>3. CASE Known(First.seq)
    BY <1>3 DEF Stores
<1>4. CASE ~Known(First.seq)
    <2>1. sink' = [sink EXCEPT !.events = Append(@, First.fill), !.numbered = @ \cup {First}]
        BY <1>4 DEF Stores
    <2> QED BY <1>1, <1>2, <1>4, <2>1 DEF Record
<1> QED BY <1>3, <1>4

LEMMA EventsHeldStep ==
    ASSUME Typed, Placed, OneRow, QueueBounds, EventsHeld, Next
    PROVE  EventsHeld'
<1>0. mem.fills \in Nat /\ db.fills \in Nat
    BY Fields
<1>1. CASE Publish
    <2> DEFINE new == [fill |-> Head(mem.results), seq |-> mem.seq + 1]
    <2>1. /\ mem'.fills = mem.fills /\ sink' = sink /\ gone' = gone
          /\ Numbers(mem'.queue) = Numbers(mem.queue) \cup {new}
          /\ Numbers(mem.results) = {Head(mem.results)} \cup Numbers(mem'.results)
          /\ new.fill = Head(mem.results)
        BY <1>1, PublishStep
    <2> HIDE DEF new
    <2>2. {e.fill : e \in Numbers(mem'.queue)} =
            {e.fill : e \in Numbers(mem.queue)} \cup {Head(mem.results)}
        BY <2>1
    <2> QED BY <2>1, <2>2 DEF EventsHeld
<1>2. CASE NothingToOffer
    BY <1>2, NothingStep DEF EventsHeld
<1>3. CASE Accept
    <2>1. /\ mem.queue # <<>> /\ Stores(First) /\ mem'.fills = mem.fills
          /\ mem'.results = mem.results /\ mem'.queue = Tail(mem.queue)
          /\ gone'.events = gone.events
          /\ gone'.swallowed = IF Known(First.seq) /\ First \notin sink.numbered
                               THEN gone.swallowed \cup {First.fill} ELSE gone.swallowed
        BY <1>3, AcceptStep
    <2>2. {e.fill : e \in Numbers(mem.queue)} =
            {e.fill : e \in Numbers(mem'.queue)} \cup {First.fill}
        BY <2>1, QueueHead
    <2>3. CASE Known(First.seq) /\ sink' = sink
        BY <2>1, <2>2, <2>3 DEF EventsHeld
    <2>4. CASE /\ ~Known(First.seq)
               /\ Numbers(sink'.events) = Numbers(sink.events) \cup {First.fill}
               /\ sink'.numbered = sink.numbered \cup {First}
        BY <2>1, <2>2, <2>4 DEF EventsHeld
    <2> QED BY <2>1, <2>3, <2>4, StoresStep
<1>4. CASE Refuse
    <2>1. /\ mem.queue # <<>> /\ (sink' = sink \/ Stores(First)) /\ mem'.fills = mem.fills
          /\ mem'.results = mem.results /\ gone'.swallowed = gone.swallowed
          /\ \/ mem'.queue = mem.queue /\ gone'.events = gone.events
             \/ /\ mem'.queue = Tail(mem.queue)
                /\ gone'.events = gone.events \cup {First.fill}
        BY <1>4, RefuseStep
    <2>2. {e.fill : e \in Numbers(mem.queue)} =
            {e.fill : e \in Numbers(Tail(mem.queue))} \cup {First.fill}
        BY <2>1, QueueHead
    <2>3. /\ Numbers(sink.events) \subseteq Numbers(sink'.events)
          /\ \A e \in sink'.numbered : e.fill \in Numbers(sink'.events)
        BY <2>1, StoresStep DEF EventsHeld
    <2> QED BY <2>1, <2>2, <2>3 DEF EventsHeld
<1>5. CASE Trim
    <2>1. {e.fill : e \in Numbers(mem.queue)} =
            {e.fill : e \in Numbers(Tail(mem.queue))} \cup {First.fill}
        BY <1>5, TrimStep, QueueHead
    <2> QED BY <1>5, <2>1, TrimStep DEF EventsHeld
<1>6. CASE Book
    <2>1. \A n \in 1 .. mem.fills + 1 : n \in 1 .. mem.fills \/ n = mem.fills + 1
        BY <1>0
    <2> QED BY <1>6, <2>1, BookStep DEF EventsHeld
<1>7. CASE Crash
    <2>1. \A n \in 1 .. db.fills : n \in 1 .. mem.fills /\ n <= db.fills
        BY <1>0 DEF OneRow
    <2>2. /\ mem'.fills = db.fills /\ sink' = sink /\ gone'.swallowed = gone.swallowed
          /\ gone'.events = gone.events \cup {n \in Numbers(mem.results) : n <= db.fills}
                                        \cup {e.fill : e \in Numbers(mem.queue)}
        BY <1>7, CrashStep
    <2> QED BY <2>1, <2>2 DEF EventsHeld
<1>8. CASE ~(\/ Publish \/ NothingToOffer \/ Accept \/ Refuse \/ Trim \/ Book \/ Crash)
    BY <1>8, EventsAlone DEF EventsHeld
<1> QED BY <1>1, <1>2, <1>3, <1>4, <1>5, <1>6, <1>7, <1>8

LEMMA UnambiguousStep ==
    ASSUME Typed, Placed, OneRow, QueueBounds, Unambiguous, Next
    PROVE  Unambiguous'
<1>0. mem.seq \in Nat /\ Issued \subseteq Event
    BY Fields, NumbersTyped DEF Issued
<1>1. CASE Publish
    <2> DEFINE new == [fill |-> Head(mem.results), seq |-> mem.seq + 1]
    <2>1. /\ mem'.seq = mem.seq + 1 /\ Issued' = Issued \cup {new}
          /\ gone' = gone /\ crashes' = crashes
        BY <1>1, PublishStep DEF Issued
    <2>2. new.seq = mem.seq + 1
        OBVIOUS
    <2> HIDE DEF new
    <2>3. ASSUME crashes = 0
          PROVE  /\ \A e \in Issued : e.seq < mem.seq + 1 /\ e.seq <= mem.seq + 1
                 /\ \A d, e \in Issued : d.seq = e.seq => d = e
                 /\ gone.swallowed = {}
        <3>1. \A e \in Issued : e.seq \in Nat /\ e.seq <= mem.seq
            BY <1>0, <2>3 DEF Unambiguous, Event
        <3> QED BY <1>0, <2>3, <3>1 DEF Unambiguous
    <2>4. ASSUME crashes = 0
          PROVE  /\ \A e \in Issued' : e.seq <= mem.seq + 1
                 /\ \A d, e \in Issued' : d.seq = e.seq => d = e
        <3>1. mem.seq + 1 <= mem.seq + 1 /\ \A n \in Nat : n < mem.seq + 1 => n # mem.seq + 1
            BY <1>0
        <3>2. \A e \in Issued : e.seq # new.seq
            BY <1>0, <2>2, <2>3, <2>4, <3>1 DEF Event
        <3> QED BY <2>1, <2>2, <2>3, <2>4, <3>1, <3>2
    <2> QED BY <2>1, <2>3, <2>4 DEF Unambiguous
<1>2. CASE NothingToOffer
    BY <1>2, NothingStep DEF Unambiguous, Issued
<1>3. CASE Accept
    <2>1. /\ mem.queue # <<>> /\ Stores(First) /\ mem'.seq = mem.seq /\ crashes' = crashes
          /\ mem'.queue = Tail(mem.queue)
          /\ gone'.swallowed = IF Known(First.seq) /\ First \notin sink.numbered
                               THEN gone.swallowed \cup {First.fill} ELSE gone.swallowed
        BY <1>3, AcceptStep
    <2>2. Issued' \subseteq Issued
        BY <2>1, StoresStep, QueueHead DEF Issued
    <2>3. ASSUME crashes = 0
          PROVE  gone'.swallowed = {}
        <3>1. Known(First.seq) => First \in sink.numbered
            BY <2>1, <2>3, QueueHead DEF Known, Issued, Unambiguous
        <3> QED BY <2>1, <2>3, <3>1 DEF Unambiguous
    <2> QED BY <2>1, <2>2, <2>3 DEF Unambiguous
<1>4. CASE Refuse
    <2>1. /\ mem.queue # <<>> /\ (sink' = sink \/ Stores(First)) /\ mem'.seq = mem.seq
          /\ gone'.swallowed = gone.swallowed /\ crashes' = crashes
          /\ mem'.queue \in {mem.queue, Tail(mem.queue)}
        BY <1>4, RefuseStep
    <2>2. Issued' \subseteq Issued
        BY <2>1, StoresStep, QueueHead DEF Issued
    <2> QED BY <2>1, <2>2 DEF Unambiguous
<1>5. CASE Trim
    <2>1. Issued' \subseteq Issued
        BY <1>5, TrimStep, QueueHead DEF Issued
    <2> QED BY <1>5, <2>1, TrimStep DEF Unambiguous
<1>6. CASE Book
    BY <1>6, BookStep DEF Unambiguous, Issued
<1>7. CASE Crash
    BY <1>7, CrashStep DEF Unambiguous
<1>8. CASE ~(\/ Publish \/ NothingToOffer \/ Accept \/ Refuse \/ Trim \/ Book \/ Crash)
    BY <1>8, EventsAlone DEF Unambiguous, Issued
<1> QED BY <1>1, <1>2, <1>3, <1>4, <1>5, <1>6, <1>7, <1>8

LEMMA TriesStep ==
    ASSUME Typed, Placed, OneRow, QueueBounds, TriesCounted, Next
    PROVE  TriesCounted'
<1>0. /\ mem.queue \in Seq(Event) /\ mem.refused \in 0 .. MaxAttempts - 1 /\ mem.refused \in Nat
      /\ MaxAttempts \in Nat \ {0} /\ gone.tries \in [Fill -> 0 .. MaxAttempts]
      /\ gone.exhausted \in SUBSET Fill
    BY Fields, Bounds DEF Typed, History
<1>1. CASE Publish
    <2> DEFINE new == [fill |-> Head(mem.results), seq |-> mem.seq + 1]
    <2>1. /\ new \in Event /\ new.fill \in Fill /\ mem'.queue = Append(mem.queue, new)
          /\ mem'.refused = mem.refused /\ gone' = gone
        BY <1>1, PublishStep
    <2> HIDE DEF new
    <2>2. mem'.queue # <<>>
        BY <1>0, <2>1, AppendProperties
    <2>3. CASE mem.queue = <<>>
        <3>1. mem'.queue[1] = new /\ mem.refused = 0
            BY <2>1, <2>3 DEF TriesCounted
        <3>2. gone.tries[new.fill] \in 0 .. MaxAttempts
            BY <1>0, <2>1
        <3> QED BY <1>0, <2>1, <2>2, <3>1, <3>2 DEF TriesCounted, DroppedAfterTries
    <2>4. CASE mem.queue # <<>>
        <3>1. mem'.queue[1] = mem.queue[1]
            BY <1>0, <2>1, <2>4
        <3> QED BY <2>1, <2>2, <2>4, <3>1 DEF TriesCounted, DroppedAfterTries
    <2> QED BY <2>3, <2>4
<1>2. CASE NothingToOffer
    BY <1>2, NothingStep DEF TriesCounted, DroppedAfterTries
<1>3. CASE Accept \/ Trim
    <2>1. /\ mem'.refused = 0 /\ gone'.exhausted = gone.exhausted /\ gone'.tries = gone.tries
          /\ mem.queue # <<>> /\ mem'.queue = Tail(mem.queue)
        BY <1>3, AcceptStep, TrimStep
    <2>2. mem'.queue \in Seq(Event)
        BY <2>1, QueueHead
    <2>3. mem'.queue # <<>> => 0 <= gone.tries[mem'.queue[1].fill]
        <3> SUFFICES ASSUME mem'.queue # <<>>
                     PROVE  0 <= gone.tries[mem'.queue[1].fill]
            OBVIOUS
        <3>1. mem'.queue[1].fill \in Fill
            BY <2>2, HeadFill
        <3>2. gone.tries[mem'.queue[1].fill] \in 0 .. MaxAttempts
            BY <1>0, <3>1
        <3> QED BY <1>0, <3>2
    <2> QED BY <2>1, <2>3 DEF TriesCounted, DroppedAfterTries
<1>4. CASE Refuse
    <2> DEFINE t == gone.tries[First.fill]
    <2>1. mem.queue # <<>> /\ First.fill \in Fill /\ First = mem.queue[1]
        BY <1>4, RefuseStep, QueueHead
    <2>2. t \in 0 .. MaxAttempts /\ mem.refused <= t
        BY <1>0, <2>1 DEF TriesCounted
    <2>3. gone'.tries = [gone.tries EXCEPT ![First.fill] =
                          IF pc.flush = "counted" THEN Min({t + 1, MaxAttempts}) ELSE t]
        BY <1>4, <2>1, RefuseStep
    <2> HIDE DEF t
    <2>4. /\ Min({t + 1, MaxAttempts}) \in {t + 1, MaxAttempts}
        <3>1. t + 1 \in Int /\ MaxAttempts \in Int
            BY <1>0, <2>2
        <3> QED BY <3>1, MinOfPair
    <2>5. mem.refused + 1 <= Min({t + 1, MaxAttempts}) /\ t <= Min({t + 1, MaxAttempts})
        BY <1>0, <2>2, <2>4
    <2>6. /\ \A n \in Fill : n # First.fill => gone'.tries[n] = gone.tries[n]
          /\ pc.flush = "counted" => gone'.tries[First.fill] = Min({t + 1, MaxAttempts})
          /\ pc.flush # "counted" => gone'.tries[First.fill] = t
        BY <1>0, <2>1, <2>3
    <2>7. ASSUME NEW n \in gone.exhausted
          PROVE  gone'.tries[n] >= MaxAttempts
        <3>1. n \in Fill /\ gone.tries[n] >= MaxAttempts
            BY <1>0, <2>7 DEF TriesCounted, DroppedAfterTries
        <3>2. CASE n # First.fill
            BY <2>6, <3>1, <3>2
        <3>3. CASE n = First.fill
            <4>1. t >= MaxAttempts
                BY <3>1, <3>3 DEF t
            <4>2. gone'.tries[n] \in {Min({t + 1, MaxAttempts}), t}
                BY <2>6, <3>3
            <4> QED BY <1>0, <2>2, <2>4, <4>1, <4>2
        <3> QED BY <3>2, <3>3
    <2>8. CASE /\ mem'.queue = mem.queue /\ gone'.exhausted = gone.exhausted
               /\ \/ mem'.refused = mem.refused
                  \/ mem'.refused = mem.refused + 1 /\ pc.flush = "counted"
        <3>1. mem'.refused <= gone'.tries[First.fill]
            <4>1. mem.refused <= Min({t + 1, MaxAttempts})
                BY <1>0, <2>2, <2>4, <2>5
            <4> QED BY <2>2, <2>5, <2>6, <2>8, <4>1
        <3> QED BY <2>1, <2>7, <2>8, <3>1 DEF TriesCounted, DroppedAfterTries
    <2>9. CASE /\ mem'.queue = Tail(mem.queue) /\ mem'.refused = 0
               /\ gone'.exhausted = gone.exhausted \cup {First.fill}
               /\ pc.flush = "counted" /\ mem.refused + 1 >= MaxAttempts
        <3>1. gone'.tries[First.fill] >= MaxAttempts
            BY <1>0, <2>2, <2>4, <2>5, <2>6, <2>9
        <3>2. \A n \in gone'.exhausted : gone'.tries[n] >= MaxAttempts
            BY <2>7, <2>9, <3>1
        <3>3. \A n \in Fill : gone'.tries[n] >= 0
            <4>1. Min({t + 1, MaxAttempts}) >= 0
                BY <1>0, <2>2, <2>4
            <4>2. \A n \in Fill : gone.tries[n] >= 0
                BY <1>0
            <4> QED BY <2>6, <2>9, <4>1, <4>2
        <3>4. mem'.queue # <<>> => 0 <= gone'.tries[mem'.queue[1].fill]
            <4> SUFFICES ASSUME mem'.queue # <<>>
                         PROVE  0 <= gone'.tries[mem'.queue[1].fill]
                OBVIOUS
            <4>1. mem'.queue \in Seq(Event)
                BY <2>1, <2>9, QueueHead
            <4>2. mem'.queue[1].fill \in Fill
                BY <4>1, HeadFill
            <4> QED BY <3>3, <4>2
        <3> QED BY <2>9, <3>2, <3>4 DEF TriesCounted, DroppedAfterTries
    <2> QED BY <1>4, <2>8, <2>9, RefuseStep
<1>5. CASE Book
    BY <1>5, BookStep DEF TriesCounted, DroppedAfterTries
<1>6. CASE Crash
    BY <1>6, CrashStep DEF TriesCounted, DroppedAfterTries
<1>7. CASE ~(\/ Publish \/ NothingToOffer \/ Accept \/ Refuse \/ Trim \/ Book \/ Crash)
    BY <1>7, EventsAlone DEF TriesCounted, DroppedAfterTries
<1> QED BY <1>1, <1>2, <1>3, <1>4, <1>5, <1>6, <1>7
-----------------------------------------------------------------------------
(***************************************************************************)
(* The order of events                                                     *)
(***************************************************************************)
LEMMA RisingTail ==
    ASSUME NEW q \in Seq(Fill), q # <<>>, Rising(q)
    PROVE  Rising(Tail(q)) /\ \A n \in Numbers(Tail(q)) : q[1] < n
<1>1. /\ DOMAIN q = 1 .. Len(q) /\ Len(q) \in Nat /\ Len(q) > 0
      /\ DOMAIN Tail(q) = 1 .. Len(q) - 1
      /\ \A i \in 1 .. Len(q) - 1 : Tail(q)[i] = q[i + 1]
    BY HeadTailProperties, LenProperties, EmptySeq
<1>2. \A i \in 1 .. Len(q) - 1 : i + 1 \in 1 .. Len(q) /\ 1 < i + 1 /\ 1 \in 1 .. Len(q)
    BY <1>1
<1>3. \A i, j \in 1 .. Len(q) - 1 : i < j => i + 1 < j + 1
    BY <1>1
<1> QED BY <1>1, <1>2, <1>3 DEF Rising, Numbers

LEMMA RisingAppend ==
    ASSUME NEW q \in Seq(Fill), NEW x \in Fill, Rising(q), \A n \in Numbers(q) : n < x
    PROVE  Rising(Append(q, x))
<1>1. /\ DOMAIN q = 1 .. Len(q) /\ Len(q) \in Nat
      /\ DOMAIN Append(q, x) = 1 .. Len(q) + 1 /\ Append(q, x)[Len(q) + 1] = x
      /\ \A i \in 1 .. Len(q) : Append(q, x)[i] = q[i]
    BY AppendProperties, LenProperties
<1>2. \A i, j \in 1 .. Len(q) + 1 : i < j => i \in 1 .. Len(q) /\ (j \in 1 .. Len(q) \/ j = Len(q) + 1)
    BY <1>1
<1> QED BY <1>1, <1>2 DEF Rising, Numbers

LEMMA LinedTail ==
    ASSUME NEW q \in Seq(Event), q # <<>>, Lined(q)
    PROVE  Lined(Tail(q)) /\ \A e \in Numbers(Tail(q)) : q[1].fill < e.fill
<1>1. /\ DOMAIN q = 1 .. Len(q) /\ Len(q) \in Nat /\ Len(q) > 0
      /\ DOMAIN Tail(q) = 1 .. Len(q) - 1
      /\ \A i \in 1 .. Len(q) - 1 : Tail(q)[i] = q[i + 1]
    BY HeadTailProperties, LenProperties, EmptySeq
<1>2. \A i \in 1 .. Len(q) - 1 : i + 1 \in 1 .. Len(q) /\ 1 < i + 1 /\ 1 \in 1 .. Len(q)
    BY <1>1
<1>3. \A i, j \in 1 .. Len(q) - 1 : i < j => i + 1 < j + 1
    BY <1>1
<1> QED BY <1>1, <1>2, <1>3 DEF Lined, Numbers

LEMMA LinedAppend ==
    ASSUME NEW q \in Seq(Event), NEW x \in Event, Lined(q), \A e \in Numbers(q) : e.fill < x.fill
    PROVE  Lined(Append(q, x))
<1>1. /\ DOMAIN q = 1 .. Len(q) /\ Len(q) \in Nat
      /\ DOMAIN Append(q, x) = 1 .. Len(q) + 1 /\ Append(q, x)[Len(q) + 1] = x
      /\ \A i \in 1 .. Len(q) : Append(q, x)[i] = q[i]
    BY AppendProperties, LenProperties
<1>2. \A i, j \in 1 .. Len(q) + 1 : i < j => i \in 1 .. Len(q) /\ (j \in 1 .. Len(q) \/ j = Len(q) + 1)
    BY <1>1
<1> QED BY <1>1, <1>2 DEF Lined, Numbers

\* The head of an ordered queue is before everything behind it.
LEMMA HeadOrdered ==
    ASSUME Typed, Ordered, mem.queue # <<>>
    PROVE  /\ Lined(Tail(mem.queue))
           /\ \A e \in Numbers(Tail(mem.queue)) : First.fill < e.fill
           /\ \A n \in Numbers(mem.results) : First.fill < n
           /\ First.fill \in 1 .. db.fills
           /\ ~Known(First.seq) => \A k \in Numbers(sink.events) : k < First.fill
           /\ Numbers(Tail(mem.queue)) \subseteq Numbers(mem.queue)
           /\ First \in Numbers(mem.queue)
<1>1. /\ mem.queue \in Seq(Event) /\ First = mem.queue[1] /\ First \in Numbers(mem.queue)
      /\ Numbers(Tail(mem.queue)) \subseteq Numbers(mem.queue) /\ First.fill \in Fill
    BY Fields, QueueHead
<1>2. /\ Lined(Tail(mem.queue))
      /\ \A e \in Numbers(Tail(mem.queue)) : First.fill < e.fill
    BY <1>1, LinedTail DEF Ordered
<1>3. First.fill <= db.fills /\ db.fills \in Nat
    BY <1>1, Fields DEF Ordered
<1>4. First.fill \in 1 .. db.fills
    BY <1>1, <1>3 DEF Fill
<1> QED BY <1>1, <1>2, <1>4 DEF Ordered

LEMMA OrderedStep ==
    ASSUME Typed, Placed, OneRow, QueueBounds, Ordered, Next
    PROVE  Ordered'
<1>0. /\ mem.fills \in Nat /\ db.fills \in Nat /\ db.fills <= mem.fills
      /\ mem.results \in Seq(Fill) /\ mem.queue \in Seq(Event)
      /\ Numbers(mem.queue) \subseteq Event /\ Numbers(mem.results) \subseteq Fill
      /\ Numbers(sink.events) \subseteq Fill /\ Fill \subseteq Nat
    <2>1. Fill \subseteq Nat
        BY DEF Fill
    <2>2. mem.fills \in Nat /\ db.fills \in Nat
        BY Fields
    <2> QED BY <2>1, <2>2, Fields, NumbersTyped DEF OneRow
<1>1. CASE Publish
    <2> DEFINE h == Head(mem.results)
               new == [fill |-> h, seq |-> mem.seq + 1]
    <2>1. /\ mem'.fills = mem.fills /\ mem'.results = Tail(mem.results)
          /\ mem'.queue = Append(mem.queue, new) /\ new \in Event /\ new.fill = h
          /\ Numbers(mem'.queue) = Numbers(mem.queue) \cup {new}
          /\ Numbers(mem.results) = {h} \cup Numbers(mem'.results)
          /\ db' = db /\ sink' = sink /\ mem.results # <<>>
        BY <1>1, PublishStep DEF Publish
    <2>2. h = mem.results[1] /\ h \in Fill
        BY <2>1, ResultHead
    <2>3. mem.rows = {} /\ db.fills = mem.fills
        BY <1>1 DEF Publish, OneRow, Writing
    <2> HIDE DEF h, new
    <2>4. Rising(mem'.results) /\ \A n \in Numbers(mem'.results) : h < n
        BY <1>0, <2>1, <2>2, RisingTail DEF Ordered
    <2>5. Lined(mem'.queue)
        BY <1>0, <2>1, LinedAppend DEF Ordered
    <2>6. \A e \in Numbers(mem'.queue), n \in Numbers(mem'.results) : e.fill < n
        BY <2>1, <2>4 DEF Ordered
    <2>7. \A k \in Numbers(sink'.events), e \in Numbers(mem'.queue) : k < e.fill \/ Known(e.seq)'
        BY <2>1 DEF Ordered, Known
    <2>8. \A e \in Numbers(mem'.queue) : e.fill <= db'.fills
        BY <2>1, <2>3 DEF Ordered
    <2> QED BY <2>1, <2>4, <2>5, <2>6, <2>7, <2>8 DEF Ordered
<1>2. CASE NothingToOffer
    BY <1>2, NothingStep DEF Ordered, Known
<1>3. CASE Accept
    <2>1. /\ mem.queue # <<>> /\ Stores(First) /\ mem'.fills = mem.fills
          /\ mem'.results = mem.results /\ mem'.queue = Tail(mem.queue) /\ db' = db
        BY <1>3, AcceptStep
    <2>2. CASE Known(First.seq) /\ sink' = sink
        BY <2>1, <2>2, HeadOrdered DEF Ordered, Known
    <2>3. CASE /\ ~Known(First.seq)
               /\ Numbers(sink'.events) = Numbers(sink.events) \cup {First.fill}
               /\ sink'.numbered = sink.numbered \cup {First}
        <3>1. \A x : Known(x) => Known(x)'
            BY <2>3 DEF Known
        <3>2. First.fill <= db.fills
            BY <1>0, <2>1, HeadOrdered
        <3> QED BY <2>1, <2>3, <3>1, <3>2, HeadOrdered DEF Ordered
    <2> QED BY <2>1, <2>2, <2>3, StoresStep
<1>4. CASE Refuse
    <2>1. /\ mem.queue # <<>> /\ (sink' = sink \/ Stores(First)) /\ mem'.fills = mem.fills
          /\ mem'.results = mem.results /\ db' = db
          /\ mem'.queue = mem.queue \/ mem'.queue = Tail(mem.queue)
        BY <1>4, RefuseStep
    <2>2. Lined(mem'.queue) /\ Numbers(mem'.queue) \subseteq Numbers(mem.queue)
        BY <2>1, HeadOrdered DEF Ordered
    <2>3. CASE sink' = sink
        BY <2>1, <2>2, <2>3 DEF Ordered, Known
    <2>4. CASE /\ ~Known(First.seq)
               /\ Numbers(sink'.events) = Numbers(sink.events) \cup {First.fill}
               /\ sink'.numbered = sink.numbered \cup {First}
        <3>1. \A x : Known(x) \/ x = First.seq => Known(x)'
            BY <2>4 DEF Known
        <3>2. First.fill <= db.fills
            BY <1>0, <2>1, HeadOrdered
        <3>3. \A e \in Numbers(mem.queue) : e = First \/ First.fill < e.fill
            BY <2>1, HeadOrdered, QueueHead
        <3>4. \A k \in Numbers(sink'.events), e \in Numbers(mem.queue) : k < e.fill \/ Known(e.seq)'
            BY <2>4, <3>1, <3>3 DEF Ordered
        <3> QED BY <2>1, <2>2, <2>4, <3>2, <3>4, HeadOrdered DEF Ordered
    <2> QED BY <2>1, <2>3, <2>4, StoresStep
<1>5. CASE Trim
    <2>1. /\ mem.queue # <<>> /\ sink' = sink /\ mem'.fills = mem.fills
          /\ mem'.results = mem.results /\ db' = db /\ mem'.queue = Tail(mem.queue)
        BY <1>5, TrimStep
    <2> QED BY <2>1, HeadOrdered DEF Ordered, Known
<1>6. CASE Book
    <2> DEFINE x == mem.fills + 1
    <2>1. /\ mem'.fills = x /\ mem'.results = Append(mem.results, x) /\ mem'.queue = mem.queue
          /\ Numbers(mem'.results) = Numbers(mem.results) \cup {x}
          /\ db' = db /\ sink' = sink
        BY <1>6, BookStep
    <2>2. x \in Fill
        <3>1. mem.fills < MaxFills /\ mem.fills \in 0 .. MaxFills /\ MaxFills \in Nat
            BY <1>6, Fields, Bounds DEF Book
        <3> QED BY <3>1, NextNumber DEF Fill
    <2>3. /\ \A n \in Nat : n <= mem.fills => n < x /\ n <= x
          /\ \A n \in Nat : n <= db.fills => n < x
          /\ x <= x
        BY <1>0
    <2> HIDE DEF x
    <2>4. Rising(mem'.results)
        BY <1>0, <2>1, <2>2, <2>3, RisingAppend DEF Ordered
    <2>5. \A e \in Numbers(mem.queue) : e.fill < x
        BY <1>0, <2>3 DEF Ordered, Event
    <2>6. \A k \in Numbers(sink.events) : k < x
        BY <1>0, <2>3 DEF Ordered
    <2>7. \A n \in Numbers(mem.results) : n <= x
        BY <1>0, <2>3 DEF Ordered
    <2> QED BY <2>1, <2>3, <2>4, <2>5, <2>6, <2>7 DEF Ordered, Known
<1>7. CASE Crash
    <2>1. Rising(<<>>) /\ Lined(<<>>)
        BY DEF Rising, Lined
    <2> QED BY <1>7, <2>1, CrashStep, NothingQueued DEF Ordered
<1>8. CASE ~(\/ Publish \/ NothingToOffer \/ Accept \/ Refuse \/ Trim \/ Book \/ Crash)
    <2>1. /\ mem'.fills = mem.fills /\ mem'.results = mem.results /\ mem'.queue = mem.queue
          /\ sink'.events = sink.events /\ sink'.numbered = sink.numbered
          /\ db'.fills \in {db.fills, mem.fills}
        BY <1>8, EventsAlone
    <2>2. \A n \in Nat : n <= db.fills => n <= db'.fills
        BY <1>0, <2>1
    <2>3. \A k \in Numbers(sink.events) : k <= db'.fills
        BY <1>0, <2>2 DEF Ordered
    <2>4. \A e \in Numbers(mem.queue) : e.fill <= db'.fills
        BY <1>0, <2>2 DEF Ordered, Event
    <2> QED BY <2>1, <2>3, <2>4 DEF Ordered, Known
<1> QED BY <1>1, <1>2, <1>3, <1>4, <1>5, <1>6, <1>7, <1>8
-----------------------------------------------------------------------------
(***************************************************************************)
(* Theorems                                                                *)
(***************************************************************************)
LEMMA InvariantInit == Init => IInv
<1> SUFFICES ASSUME Init PROVE IInv
    OBVIOUS
<1>1. /\ Typed /\ MaxAudit \in Nat \ {0} /\ MaxPending \in Nat \ {0} /\ MaxAttempts \in Nat \ {0}
    BY TypedInit, Bounds
<1>2. /\ db = FreshStore /\ mem.fills = 0 /\ mem.bars = 0 /\ mem.rows = {} /\ mem.results = <<>>
      /\ mem.queue = <<>> /\ mem.audit = <<>> /\ mem.refused = 0
    BY DEF Init, Started, WithoutAudit, FreshStore
<1>3. /\ sink.events = <<>> /\ sink.numbered = {} /\ gone.rows = {} /\ gone.swallowed = {}
      /\ gone.exhausted = {} /\ pc.at = "idle"
    BY Positions DEF Init
<1>4. 1 .. 0 = {} /\ Numbers(<<>>) = {} /\ Len(<<>>) = 0
    BY NothingQueued
<1>5. Placed /\ OneRow /\ RowFaults
    BY <1>2, <1>3 DEF Placed, OneRow, RowFaults, FreshStore, Writing
<1>6. RowsHeld /\ BarsHeld /\ AuditAccounted /\ AuditBounds
    BY <1>1, <1>2, <1>3, <1>4 DEF RowsHeld, BarsHeld, InHand, AuditAccounted, AuditBounds, FreshStore, Writing
<1>7. QueueBounds /\ EventsHeld /\ Unambiguous
    BY <1>1, <1>2, <1>3, <1>4 DEF QueueBounds, EventsHeld, Unambiguous, Issued
<1>8. Ordered
    <2>1. Rising(<<>>) /\ Lined(<<>>)
        BY DEF Rising, Lined
    <2> QED BY <1>2, <1>3, <1>4, <2>1 DEF Ordered
<1>9. TriesCounted
    BY <1>2, <1>3 DEF TriesCounted, DroppedAfterTries
<1> QED BY <1>1, <1>5, <1>6, <1>7, <1>8, <1>9 DEF IInv

LEMMA InvariantStep == IInv /\ [Next]_vars => IInv'
<1> SUFFICES ASSUME IInv, [Next]_vars PROVE IInv'
    OBVIOUS
<1>1. CASE Next
    BY <1>1, TypedStep, PlacedStep, OneRowStep, RowFaultsStep, RowsHeldStep, BarsStep,
       QueueBoundsStep, EventsHeldStep, UnambiguousStep, OrderedStep, TriesStep DEF IInv
<1>2. CASE UNCHANGED vars
    BY <1>2 DEF vars, IInv, Typed, Placed, OneRow, RowFaults, Excuse, RowsHeld, BarsHeld, Kept,
       InHand, AuditAccounted, AuditBounds, QueueBounds, EventsHeld, Unambiguous, Issued, Ordered,
       Known, TriesCounted, DroppedAfterTries
<1> QED BY <1>1, <1>2

\* Everything the proofs rely on holds in every reachable state of the
\* checkpoint, the rows, the events and the audit queue.
THEOREM Invariance == Spec => []IInv
BY InvariantInit, InvariantStep, PTL DEF Spec

\* The checkpoint and the process stay within their types, and the queues of
\* events and of audit rows and the head's count of refusals within the bounds
\* the engine gives them, whatever fails and whenever the process ends.
THEOREM TypeCorrectness == Spec => []TypeOK
<1>1. IInv => TypeOK
    <2> SUFFICES ASSUME IInv PROVE TypeOK
        BY DEF IInv
    <2>1. mem.refused < MaxAttempts
        BY Fields, Bounds DEF IInv
    <2> QED BY <2>1, NumbersTyped DEF IInv, Typed, Snapshot, Memory, AuditBounds, QueueBounds, TypeOK
<1> QED BY <1>1, Invariance, PTL

\* No event of a checkpointed fill disappears without a record
\* (_publish_checkpointed_results, _flush_pending_position_events).
THEOREM EventsAccountedHolds == Spec => []EventsAccounted
<1>1. IInv => EventsAccounted
    <2> SUFFICES ASSUME IInv PROVE EventsAccounted
        OBVIOUS
    <2>1. \A n \in 1 .. db.fills : n \in 1 .. mem.fills
        <3>1. db.fills <= mem.fills /\ db.fills \in Nat /\ mem.fills \in Nat
            BY Fields DEF IInv, OneRow
        <3> QED BY <3>1
    <2> QED BY <2>1 DEF IInv, EventsHeld, Unambiguous, EventsAccounted
<1> QED BY <1>1, Invariance, PTL

\* No ledger row of a checkpointed fill disappears without a record, and one
\* the store would take is dropped only after three lost calls (_persist_state,
\* _write_rows_one_by_one).
THEOREM RowsAccountedHolds == Spec => []RowsAccounted
<1>1. IInv => RowsAccounted
    <2> SUFFICES ASSUME IInv PROVE RowsAccounted
        OBVIOUS
    <2>1. \A n \in 1 .. db.fills : n \in 1 .. mem.fills
        <3>1. db.fills <= mem.fills /\ db.fills \in Nat /\ mem.fills \in Nat
            BY Fields DEF IInv, OneRow
        <3> QED BY <3>1
    <2> QED BY <2>1 DEF IInv, RowsHeld, RowFaults, RowsAccounted
<1> QED BY <1>1, Invariance, PTL

\* No audit row of a bar behind the watermark disappears without a record
\* (_commit_cycle_bars, OhlcvAuditQueue.flush_pending).
THEOREM AuditAccountedHolds == Spec => []AuditAccounted
<1>1. IInv => AuditAccounted
    BY DEF IInv
<1> QED BY <1>1, Invariance, PTL

\* No event is given up before MAX_POSITION_EVENT_ATTEMPTS refusals of its own.
THEOREM DroppedAfterTriesHolds == Spec => []DroppedAfterTries
<1>1. IInv => DroppedAfterTries
    BY DEF IInv, TriesCounted
<1> QED BY <1>1, Invariance, PTL

\* What is stored is in the order the fills were booked, each once and none
\* before its checkpoint: every step is a step of OrderedSink or leaves the
\* number of recorded fills and the stored events alone.
THEOREM SinkImplemented == Spec => SinkSpec
<1>1. Init => Promise!Init
    BY DEF Init, FreshStore, Promise!Init
<1>2. IInv /\ [Next]_vars => [Promise!Next]_<<db.fills, sink.events>>
    <2> SUFFICES ASSUME IInv, [Next]_vars
                 PROVE  Promise!Next \/ UNCHANGED <<db.fills, sink.events>>
        OBVIOUS
    <2>0. Typed /\ Placed /\ OneRow /\ QueueBounds /\ Ordered
        BY DEF IInv
    <2>1. ASSUME mem.queue # <<>>, Stores(First), db' = db
          PROVE  Promise!Next \/ UNCHANGED <<db.fills, sink.events>>
        <3>1. CASE sink' = sink
            BY <2>1, <3>1
        <3>2. CASE ~Known(First.seq) /\ sink'.events = Append(sink.events, First.fill)
            <4>1. /\ First.fill \in 1 .. db.fills
                  /\ \A k \in Numbers(sink.events) : k < First.fill
                BY <2>0, <2>1, <3>2, HeadOrdered
            <4>2. \A i \in DOMAIN sink.events : sink.events[i] < First.fill
                BY <4>1 DEF Numbers
            <4>3. Promise!Store
                BY <2>1, <3>2, <4>1, <4>2 DEF Promise!Store
            <4> QED BY <4>3 DEF Promise!Next
        <3> QED BY <2>0, <2>1, <3>1, <3>2, StoresStep
    <2>2. CASE Accept
        BY <2>0, <2>1, <2>2, AcceptStep
    <2>3. CASE Refuse
        BY <2>0, <2>1, <2>3, RefuseStep
    <2>4. CASE Publish \/ NothingToOffer \/ Trim \/ Book \/ Crash
        BY <2>0, <2>4, PublishStep, NothingStep, TrimStep, BookStep, CrashStep
    <2>5. CASE /\ Next
               /\ ~(\/ Publish \/ NothingToOffer \/ Accept \/ Refuse \/ Trim \/ Book \/ Crash)
        <3>1. sink'.events = sink.events /\ db'.fills \in {db.fills, mem.fills}
            BY <2>0, <2>5, EventsAlone
        <3>2. mem.fills \in Nat /\ db.fills \in Nat /\ db.fills <= mem.fills
            BY <2>0, Fields DEF OneRow
        <3>3. db'.fills = db.fills \/ db'.fills > db.fills
            BY <3>1, <3>2
        <3> QED BY <3>1, <3>3 DEF Promise!Next, Promise!Record
    <2>6. CASE UNCHANGED vars
        BY <2>6 DEF vars
    <2> QED BY <2>2, <2>3, <2>4, <2>5, <2>6
<1> QED BY <1>1, <1>2, Invariance, PTL DEF Spec, SinkSpec, Promise!Spec
=============================================================================
