---------------------------- MODULE MinuteBookProofs ---------------------------
(***************************************************************************)
(* Theorems about MinuteBook, for every session calendar, record of trades,*)
(* sequence of losses and windows asked for, whether they move on or back: *)
(* a minute served as complete holds every trade of it, and no later poll  *)
(* serves less of it, unless no answer for the window reached that minute. *)
(*                                                                         *)
(* IInv says what a book may hold (BookInv): minutes that are settled hold *)
(* what was traded in them (Settled), minutes the stream covers count each *)
(* trade up to the last one known of (Streamed), and neither falls short   *)
(* of what was served (Held); of minutes no answer reached it says only    *)
(* that the book's window has no others served so (OpenInv).  That this    *)
(* survives the next tick rests on its total being compared with that of   *)
(* the trade counted last (Counting), and on what the items on the wire    *)
(* are to the reader (Ahead): news in order, or the one tick that was read *)
(* before.                                                                 *)
(***************************************************************************)
EXTENDS MinuteBook, FiniteSetTheorems, FunctionTheorems, SequenceTheorems, TLAPS

\* The volume of minute m over the first k trades of a record q.
Count(q, m, k) == Cardinality({n \in 1 .. k : q[n].minute = m})

TickOf(q, n) == [kind |-> "tick", n |-> n, minute |-> q[n].minute, total |-> q[n].total]
LostOf(n)    == [kind |-> "lost", n |-> n]
Items(q)     == {TickOf(q, n) : n \in DOMAIN q} \cup {LostOf(n) : n \in 0 .. Len(q)}

\* The record of the venue: trades in the order of their minutes, whose totals
\* count them within a segment.
TapeInv(q, now) ==
    /\ q \in Seq([minute : Session, total : Nat]) /\ Len(q) <= MaxTrades
    /\ \A n \in DOMAIN q : q[n].minute <= now
    /\ \A n, k \in DOMAIN q : n <= k => q[n].minute <= q[k].minute
    /\ \A n, k \in DOMAIN q :
          (n < k /\ CloseOf(q[n].minute) = CloseOf(q[k].minute)) =>
              q[k].total = q[n].total + (k - n)

WireInv(q, box, last) ==
    /\ box \in Seq(Items(q)) /\ Len(box) <= InboxSize
    /\ \A i, j \in DOMAIN box :
          (i < j /\ box[i].kind = "tick" /\ box[j].kind = "tick") => box[i].n < box[j].n
    /\ last = [kind |-> "none"] \/ \E n \in DOMAIN q : last = TickOf(q, n)
    /\ \A i \in DOMAIN box : box[i].kind = "tick" =>
          last.kind = "tick" /\ box[i].n <= last.n

\* No trade will come in minute m any more.
Closed(q, now, m) ==
    m \notin Session \/ m + 2 <= now \/ \E n \in DOMAIN q : q[n].minute > m

BookTypes(b, now) ==
    /\ DOMAIN b = {"history", "minutes", "finalBefore", "coveredFrom", "firstDay", "lastRefill",
                   "seedRetry", "lastTotal", "lastMinute", "segment", "ended"}
    /\ b.history \in [Minute -> Nat] /\ b.minutes \in [Minute -> Nat]
    /\ b.finalBefore \in 0 .. LastMinute + 2 \cup {None}
    /\ b.coveredFrom \in 0 .. LastMinute + 2 \cup {None}
    /\ b.firstDay \in Minute \cup {None} /\ b.firstDay < now
    /\ b.finalBefore = None <=> b.firstDay = None
    /\ b.lastTotal \in Nat \cup {None} /\ b.lastMinute \in Minute \cup {None}
    /\ b.segment \in {None} \cup (1 .. LastMinute + 1 \ Session)
    /\ b.ended \in 0 .. now \cup {None}

\* The minutes kbars() or the stream settled.
Settled(q, now, b, blind, srv) ==
    /\ \A m \in Minute : b.history[m] <= Count(q, m, Len(q))
    /\ \A m \in Minute : m < b.finalBefore => Closed(q, now, m)
    /\ \A m \in Minute : (b.firstDay <= m /\ m < b.finalBefore) =>
          b.history[m] = Count(q, m, Len(q)) \/ m \in blind \cup srv.unreached

\* The minutes of the stream count each trade up to the last one known of.
Streamed(q, b, heard, blind, srv) ==
    /\ b.coveredFrom # None => \A m \in Minute : m >= b.coveredFrom =>
          /\ b.minutes[m] <= Count(q, m, heard)
          /\ (m >= b.finalBefore /\ m >= b.firstDay) =>
                b.minutes[m] = Count(q, m, heard) \/ m \in blind \cup srv.unreached
    /\ \A m \in Minute : b.minutes[m] > 0 => \E n \in 1 .. heard : q[n].minute = m
    /\ b.lastMinute # None => \E n \in 1 .. heard : q[n].minute = b.lastMinute

\* Once a minute was served with a volume the book does not fall short of it.
Held(b, srv) == \A m \in srv.minutes \ srv.unreached : m >= b.firstDay =>
    /\ m < b.finalBefore => srv.rows[m] <= b.history[m]
    /\ (b.coveredFrom # None /\ m >= b.coveredFrom /\ m >= b.finalBefore) =>
           srv.rows[m] <= b.minutes[m]

\* What was served, to a book that lacks some minutes of its window.
Owed(srv, open) == [srv EXCEPT !.excused = Minute, !.unreached = open]

\* The minutes of the book's window that a poll served though no answer reached
\* them are those known to be open.
OpenInv(b, srv, open) ==
    /\ open \subseteq Minute
    /\ \A m \in srv.unreached : m >= b.firstDay => m \in open

BookInv(q, now, b, heard, blind, srv) ==
    /\ BookTypes(b, now) /\ Settled(q, now, b, blind, srv)
    /\ Streamed(q, b, heard, blind, srv) /\ Held(b, srv)

\* The total the next tick is compared with is that of a trade, and what was
\* traded since belongs to minutes the stream does not vouch for.
Counting(q, last, b, sub, heard) ==
    /\ IF sub THEN b.coveredFrom # None ELSE b.coveredFrom = None /\ b.lastTotal = None
    /\ b.lastTotal # None => \E at \in 1 .. heard :
          /\ q[at].total = b.lastTotal /\ CloseOf(q[at].minute) = b.segment
          /\ \A n \in at + 1 .. heard : q[n].minute < b.coveredFrom
    /\ (sub /\ b.lastTotal = None) => \A n \in 1 .. heard : q[n].minute < b.coveredFrom
    /\ sub => b.ended <= b.coveredFrom
    /\ b.segment # None => last.kind = "tick" /\ b.segment <= CloseOf(last.minute)

Match(b, t) == b.lastTotal = None \/ (t.total = b.lastTotal /\ CloseOf(t.minute) = b.segment)

\* What the items after the i-th are to a reader that has come that far.
Ahead(q, box, trades, last, b, heard, i) ==
    /\ \A n \in heard + 1 .. Len(q) :
          n \in trades \/ \E j \in i + 1 .. Len(box) : box[j] = TickOf(q, n)
    /\ \A j \in i + 1 .. Len(box) : box[j].kind = "tick" =>
          /\ \/ box[j].n > heard /\ b.ended <= box[j].minute + 1
             \/ /\ j = 1 /\ box[j].n <= heard /\ Match(b, box[j])
                /\ last.n <= heard => last = box[j]
          /\ b.segment <= CloseOf(box[j].minute)
    /\ last.kind = "tick" =>
          \/ last.n <= heard /\ Match(b, last)
          \/ \E j \in i + 1 .. Len(box) : box[j] = last \/ box[j].kind = "lost"

ReaderInv(s, i) ==
    /\ DOMAIN s = {"book", "sub", "lost", "heard", "blind"}
    /\ s.sub \in BOOLEAN /\ s.lost \in BOOLEAN
    /\ s.heard \in 0 .. Len(tape) /\ s.blind \subseteq Minute
    /\ BookInv(tape, clock, s.book, s.heard, s.blind, served)
    /\ Counting(tape, feed.last, s.book, s.sub, s.heard)
    /\ s.sub => Ahead(tape, inbox, unseen.trades, feed.last, s.book, s.heard, i)

QueryInv == poll.pc = "query" =>
    /\ poll.at \in Minute /\ 1 <= poll.at /\ poll.at <= clock /\ clock <= poll.at + 1
    /\ poll.first \in Minute /\ poll.from \in Minute /\ poll.seed \in BOOLEAN
    /\ poll.from < poll.at /\ poll.first < poll.at /\ book.firstDay < poll.at
    /\ \A j \in DOMAIN inbox :
          (inbox[j].kind = "tick" /\ inbox[j].n > unseen.heard) => inbox[j].minute >= poll.at
    /\ (feed.last.kind = "tick" /\ feed.last.n > unseen.heard) => feed.last.minute >= poll.at
    /\ \A n \in 1 .. unseen.heard : tape[n].minute <= poll.at
    /\ \A n \in unseen.heard + 1 .. Len(tape) :
          n \in unseen.trades \/ \E j \in DOMAIN inbox : inbox[j] = TickOf(tape, n)

ServedInv(q, now, srv) ==
    /\ DOMAIN srv = {"minutes", "rows", "excused", "unreached"}
    /\ srv.minutes \subseteq Minute /\ srv.rows \in [Minute -> Nat]
    /\ srv.excused \subseteq Minute /\ srv.unreached \subseteq Minute
    /\ \A m \in srv.minutes :
          /\ Closed(q, now, m) /\ srv.rows[m] <= Count(q, m, Len(q))
          /\ srv.rows[m] = Count(q, m, Len(q)) \/ m \in srv.excused \cup srv.unreached

\* The ticks yet to be read are of no minute before one that was served.
Unread(srv, box, last, heard) == \A m \in srv.minutes : srv.rows[m] > 0 =>
    /\ \A j \in DOMAIN box : (box[j].kind = "tick" /\ box[j].n > heard) => m <= box[j].minute
    /\ (last.kind = "tick" /\ last.n > heard) => m <= last.minute

RestInv ==
    /\ clock \in Minute /\ 1 <= clock
    /\ DOMAIN feed = {"up", "on", "told", "faults", "restarts", "last"}
    /\ DOMAIN stream = {"subscribed", "lost", "queries"}
    /\ DOMAIN unseen = {"trades", "heard", "blind", "open"} /\ unseen.trades \subseteq DOMAIN tape
    /\ poll.pc \in {"idle", "query"}

IInv == /\ RestInv /\ TapeInv(tape, clock) /\ WireInv(tape, inbox, feed.last)
        /\ ReaderInv(Reader, 0) /\ QueryInv /\ ServedInv(tape, clock, served)
        /\ Unread(served, inbox, feed.last, unseen.heard) /\ OpenInv(book, served, unseen.open)
\* A nonempty set of naturals has a least element.
LEMMA MinOfNaturals ==
    ASSUME NEW S \in SUBSET Nat, S # {}
    PROVE  Min(S) \in S /\ \A b \in S : Min(S) <= b
<1> DEFINE F == {0..k : k \in S}
<1>1. F \subseteq FiniteSubsetsOf(Nat) /\ F # {}
    <2>1. \A k \in S : 0..k \in SUBSET Nat /\ IsFiniteSet(0..k)
        BY FS_Interval
    <2> QED BY <2>1 DEF FiniteSubsetsOf
<1>2. PICK U \in F : \A V \in F : <<V, U>> \notin StrictSubsetOrdering(Nat)
    <2> HIDE DEF F
    <2> QED BY <1>1, FS_StrictSubsetOrderingWellFounded, WFMin
<1>3. PICK x \in S : U = 0..x
    OBVIOUS
<1>4. ASSUME NEW y \in S, y < x
      PROVE  FALSE
    <2>1. 0..y \in F /\ 0..y \in SUBSET Nat /\ 0..x \in SUBSET Nat
        OBVIOUS
    <2>2. 0..y \subseteq 0..x /\ 0..y # 0..x
        <3>1. x \in 0..x /\ x \notin 0..y /\ x \in Nat /\ y \in Nat
            BY <1>4
        <3> QED BY <1>4, <3>1
    <2> HIDE DEF F
    <2>3. <<0..y, 0..x>> \in StrictSubsetOrdering(Nat)
        BY <2>1, <2>2 DEF StrictSubsetOrdering
    <2> QED BY <1>2, <1>3, <2>1, <2>3
<1>5. \A y \in S : x <= y
    BY <1>4
<1> QED BY <1>5 DEF Min

\* A nonempty set of naturals with a bound has a greatest element.
LEMMA MaxOfNaturals ==
    ASSUME NEW r \in Nat, NEW S \in SUBSET (0..r), S # {}
    PROVE  Max(S) \in S /\ \A b \in S : b <= Max(S)
<1> DEFINE Above == {n \in Nat : \A b \in S : b <= n}
<1>1. Above \in SUBSET Nat /\ r \in Above
    OBVIOUS
<1>2. /\ Min(Above) \in Above
      /\ \A n \in Above : Min(Above) <= n
    <2> HIDE DEF Above
    <2> QED BY <1>1, MinOfNaturals
<1>3. ASSUME Min(Above) \notin S
      PROVE  FALSE
    <2>1. PICK b \in S : TRUE
        OBVIOUS
    <2>2. b <= Min(Above) /\ b # Min(Above) /\ b \in Nat /\ Min(Above) \in Nat
        BY <1>2, <1>3
    <2>3. Min(Above) - 1 \in Above
        BY <1>2, <1>3, <2>2
    <2> QED BY <1>2, <2>2, <2>3
<1>4. \A b \in S : b <= Min(Above)
    BY <1>2
<1> QED BY <1>3, <1>4 DEF Max

\* Induction on a concrete set: G is the set of the numbers that have the property.
LEMMA Upward ==
    ASSUME NEW n \in Nat, NEW G, 0 \in G,
           \A k \in 1..n : k - 1 \in G => k \in G
    PROVE  \A k \in 0..n : k \in G
<1> DEFINE Bad == {k \in 0..n : k \notin G}
<1>1. ASSUME Bad # {}
      PROVE  FALSE
    <2>1. Bad \in SUBSET Nat
        OBVIOUS
    <2>2. Min(Bad) \in Bad /\ \A b \in Bad : Min(Bad) <= b
        <3> HIDE DEF Bad
        <3> QED BY <1>1, <2>1, MinOfNaturals
    <2> DEFINE m == Min(Bad)
    <2> HIDE DEF m
    <2>3. m \in 0..n /\ m \notin G /\ \A b \in Bad : m <= b
        BY <2>2 DEF m
    <2>4. m \in 1..n /\ m - 1 \in 0..n
        BY <2>3
    <2>5. m - 1 \notin Bad
        BY <2>3, <2>4
    <2> QED BY <2>3, <2>4, <2>5
<1> QED BY <1>1

(***************************************************************************)
(* The trading calendar.                                                   *)
(***************************************************************************)
LEMMA CloseFacts ==
    ASSUME NEW m \in Minute
    PROVE  /\ CloseOf(m) \in 1 .. LastMinute + 1 \ Session /\ m < CloseOf(m)
           /\ \A c \in m + 1 .. LastMinute + 1 : c \notin Session => CloseOf(m) <= c
<1> DEFINE C == {c \in m + 1 .. LastMinute + 1 : c \notin Session}
<1>1. LastMinute \in Nat /\ m \in 0 .. LastMinute
    BY BookAssumption DEF Minute
<1>2. LastMinute + 1 \notin Session
    BY <1>1, BookAssumption DEF Minute
<1>3. C \in SUBSET Nat /\ C # {}
    <2>1. LastMinute + 1 \in C
        BY <1>1, <1>2
    <2> QED BY <1>1, <2>1
<1> HIDE DEF C
<1>4. Min(C) \in C /\ \A b \in C : Min(C) <= b
    BY <1>3, MinOfNaturals
<1> USE DEF C
<1>5. CloseOf(m) = Min(C)
    BY DEF CloseOf
<1>6. Min(C) \in m + 1 .. LastMinute + 1 /\ Min(C) \notin Session
    BY <1>4
<1> DEFINE x == Min(C)
<1>7. \A c \in m + 1 .. LastMinute + 1 : c \notin Session => Min(C) <= c
    BY <1>4
<1> HIDE DEF C
<1> QED BY <1>1, <1>5, <1>6, <1>7

\* The segments of later minutes close no earlier.
LEMMA CloseOrder ==
    ASSUME NEW k \in Minute, NEW m \in Minute, k <= m
    PROVE  CloseOf(k) <= CloseOf(m)
<1>1. LastMinute \in Nat
    BY BookAssumption
<1>2. CloseOf(m) \in k + 1 .. LastMinute + 1 /\ CloseOf(m) \notin Session
    BY <1>1, CloseFacts DEF Minute
<1> QED BY <1>2, CloseFacts

\* A segment that closes before a minute's does has closed by that minute.
LEMMA CloseBefore ==
    ASSUME NEW s \in 1 .. LastMinute + 1 \ Session, NEW m \in Minute, s < CloseOf(m)
    PROVE  s <= m
<1>1. LastMinute \in Nat /\ m \in 0 .. LastMinute
    BY BookAssumption DEF Minute
<1>2. CloseOf(m) \in 1 .. LastMinute + 1
    BY CloseFacts
<1>3. ASSUME m < s
      PROVE  FALSE
    <2>1. s \in m + 1 .. LastMinute + 1 /\ s \notin Session
        BY <1>1, <1>3
    <2>2. CloseOf(m) <= s
        BY <2>1, CloseFacts
    <2> QED BY <1>2, <2>2
<1> QED BY <1>1, <1>3

(***************************************************************************)
(* The volume of a minute.                                                 *)
(***************************************************************************)
LEMMA CountNat ==
    ASSUME NEW q, NEW m, NEW k \in Nat
    PROVE  Count(q, m, k) \in Nat /\ Count(q, m, k) <= k
<1>1. IsFiniteSet(1 .. k) /\ Cardinality(1 .. k) = k
    BY FS_Interval
<1>2. {n \in 1 .. k : q[n].minute = m} \subseteq 1 .. k
    OBVIOUS
<1> QED BY <1>1, <1>2, FS_Subset, FS_CardinalityType DEF Count

LEMMA CountNone ==
    ASSUME NEW q, NEW m, NEW k \in Nat, \A n \in 1 .. k : q[n].minute # m
    PROVE  Count(q, m, k) = 0
<1>1. {n \in 1 .. k : q[n].minute = m} = {}
    OBVIOUS
<1> QED BY <1>1, FS_EmptySet DEF Count

LEMMA CountPositive ==
    ASSUME NEW q, NEW m, NEW k \in Nat, Count(q, m, k) > 0
    PROVE  \E n \in 1 .. k : q[n].minute = m
<1>1. Count(q, m, k) # 0
    BY CountNat
<1> QED BY <1>1, CountNone

LEMMA CountStep ==
    ASSUME NEW q, NEW m, NEW k \in Nat
    PROVE  Count(q, m, k + 1) = Count(q, m, k) + (IF q[k + 1].minute = m THEN 1 ELSE 0)
<1> DEFINE Of(j) == {n \in 1 .. j : q[n].minute = m}
<1>1. IsFiniteSet(Of(k))
    <2>1. IsFiniteSet(1 .. k) /\ Of(k) \subseteq 1 .. k
        BY FS_Interval
    <2> HIDE DEF Of
    <2> QED BY <2>1, FS_Subset
<1>2. k + 1 \notin Of(k)
    OBVIOUS
<1>3. CASE q[k + 1].minute = m
    <2>1. Of(k + 1) = Of(k) \cup {k + 1}
        BY <1>3
    <2>2. Cardinality(Of(k) \cup {k + 1}) = Cardinality(Of(k)) + 1
        BY <1>1, <1>2, FS_AddElement
    <2> QED BY <1>3, <2>1, <2>2 DEF Count
<1>4. CASE q[k + 1].minute # m
    <2>1. Of(k + 1) = Of(k)
        BY <1>4
    <2>2. Count(q, m, k + 1) = Count(q, m, k) /\ Count(q, m, k) \in Nat
        BY <2>1, CountNat DEF Count
    <2> QED BY <1>4, <2>2
<1> QED BY <1>3, <1>4

LEMMA CountGrows ==
    ASSUME NEW q, NEW m, NEW j \in Nat, NEW k \in Nat, j <= k
    PROVE  /\ Count(q, m, j) <= Count(q, m, k)
           /\ (\A n \in j + 1 .. k : q[n].minute # m) => Count(q, m, j) = Count(q, m, k)
<1> DEFINE Of(i) == {n \in 1 .. i : q[n].minute = m}
<1>1. IsFiniteSet(Of(k)) /\ Of(j) \subseteq Of(k)
    <2>1. IsFiniteSet(1 .. k) /\ Of(k) \subseteq 1 .. k /\ Of(j) \subseteq Of(k)
        BY FS_Interval
    <2> HIDE DEF Of
    <2> QED BY <2>1, FS_Subset
<1>2. Cardinality(Of(j)) <= Cardinality(Of(k))
    BY <1>1, FS_Subset
<1>3. ASSUME \A n \in j + 1 .. k : q[n].minute # m
      PROVE  Of(j) = Of(k)
    <2>1. ASSUME NEW n \in Of(k)
          PROVE  n \in Of(j)
        <3>1. n \notin j + 1 .. k /\ n \in 1 .. k /\ q[n].minute = m
            BY <1>3
        <3> QED BY <3>1
    <2> QED BY <1>1, <2>1
<1> QED BY <1>2, <1>3 DEF Count

\* The trades that were there before another is recorded count as they did.
LEMMA CountPrefix ==
    ASSUME NEW q, NEW r, NEW m, NEW k \in Nat, \A n \in 1 .. k : q[n].minute = r[n].minute
    PROVE  Count(q, m, k) = Count(r, m, k)
<1>1. {n \in 1 .. k : q[n].minute = m} = {n \in 1 .. k : r[n].minute = m}
    OBVIOUS
<1> QED BY <1>1 DEF Count

(***************************************************************************)
(* The venue's record.                                                     *)
(***************************************************************************)
LEMMA TapeFacts ==
    ASSUME NEW q, NEW now \in Minute, TapeInv(q, now)
    PROVE  /\ Len(q) \in Nat /\ Len(q) <= MaxTrades /\ DOMAIN q = 1 .. Len(q)
           /\ \A n \in 1 .. Len(q) : /\ q[n].minute \in Session /\ q[n].minute \in Minute
                                     /\ q[n].minute \in Nat /\ q[n].total \in Nat
                                     /\ q[n].minute <= now
           /\ \A n, k \in 1 .. Len(q) : n <= k => q[n].minute <= q[k].minute
<1>1. q \in Seq([minute : Session, total : Nat])
    BY DEF TapeInv
<1>2. Len(q) \in Nat /\ DOMAIN q = 1 .. Len(q)
    BY <1>1
<1>3. \A n \in 1 .. Len(q) : q[n] \in [minute : Session, total : Nat]
    BY <1>1, ElementOfSeq
<1>4. \A m \in Session : m \in Minute /\ m \in Nat
    BY BookAssumption DEF Minute
<1> QED BY <1>2, <1>3, <1>4 DEF TapeInv

\* After a trade of a later minute the volume of a minute stands.
LEMMA ClosedCount ==
    ASSUME NEW q, NEW now \in Minute, TapeInv(q, now), NEW m \in Minute,
           NEW k \in 1 .. Len(q), q[k].minute > m, NEW j \in k .. Len(q)
    PROVE  Count(q, m, j) = Count(q, m, Len(q))
<1>1. Len(q) \in Nat /\ j \in Nat /\ j <= Len(q)
    BY TapeFacts
<1>2. \A n \in j + 1 .. Len(q) : q[n].minute # m
    <2> TAKE n \in j + 1 .. Len(q)
    <2>1. k <= n /\ n \in 1 .. Len(q)
        BY <1>1
    <2>2. q[k].minute <= q[n].minute /\ q[k].minute \in Nat /\ q[n].minute \in Nat
        BY <2>1, TapeFacts
    <2> QED BY <2>2 DEF Minute
<1> QED BY <1>1, <1>2, CountGrows

\* The book a reader has of the minutes.
Case(q, now, b, heard, blind, srv) ==
    /\ TapeInv(q, now) /\ now \in Minute /\ heard \in 0 .. Len(q) /\ blind \subseteq Minute
    /\ ServedInv(q, now, srv) /\ BookInv(q, now, b, heard, blind, srv)

LEMMA Numbers ==
    /\ LastMinute \in Nat /\ Minute = 0 .. LastMinute /\ None = -1
    /\ \A m \in Minute : m \in Nat /\ m <= LastMinute
BY BookAssumption DEF Minute, None

LEMMA SettleFields ==
    ASSUME NEW b, NEW now, BookTypes(b, now)
    PROVE  LET e == SettleStreamed(b) IN
           /\ DOMAIN e = DOMAIN b /\ e.minutes = b.minutes /\ e.coveredFrom = b.coveredFrom
           /\ e.firstDay = b.firstDay /\ e.lastRefill = b.lastRefill
           /\ e.seedRetry = b.seedRetry /\ e.lastTotal = b.lastTotal
           /\ e.lastMinute = b.lastMinute /\ e.segment = b.segment /\ e.ended = b.ended
BY DEF SettleStreamed, BookTypes

LEMMA SettleEffect ==
    ASSUME NEW b, NEW now, BookTypes(b, now), SettleStreamed(b) # b
    PROVE  LET e == SettleStreamed(b) IN
           /\ b.coveredFrom # None /\ b.finalBefore # None /\ b.lastMinute # None
           /\ b.coveredFrom <= b.finalBefore /\ b.finalBefore < b.lastMinute
           /\ e.finalBefore = b.lastMinute
           /\ e.history = [m \in Minute |-> IF m \in b.finalBefore .. b.lastMinute - 1
                                            THEN b.minutes[m] ELSE b.history[m]]
<1> DEFINE c == \/ b.coveredFrom = None \/ b.finalBefore = None \/ b.lastMinute = None
                \/ b.coveredFrom > b.finalBefore \/ b.lastMinute <= b.finalBefore
<1>1. ~c
    BY DEF SettleStreamed
<1>2. SettleStreamed(b) =
        [b EXCEPT !.history = [m \in Minute |-> IF m \in b.finalBefore .. b.lastMinute - 1
                                                 THEN b.minutes[m] ELSE @[m]],
                   !.finalBefore = b.lastMinute]
    BY <1>1 DEF SettleStreamed
<1>3. "history" \in DOMAIN b /\ "finalBefore" \in DOMAIN b
    BY DEF BookTypes
<1>4. /\ b.coveredFrom <= b.finalBefore /\ b.finalBefore < b.lastMinute
    <2>1. b.coveredFrom \in Nat /\ b.finalBefore \in Nat /\ b.lastMinute \in Nat
        BY <1>1, Numbers DEF BookTypes
    <2> QED BY <1>1, <2>1
<1> QED BY <1>1, <1>2, <1>3, <1>4

\* _settle_streamed: what the stream has counted of minutes before its newest
\* is what the minutes hold.
LEMMA SettleKeeps ==
    ASSUME NEW q, NEW now, NEW b, NEW heard, NEW blind, NEW srv,
           Case(q, now, b, heard, blind, srv)
    PROVE  BookInv(q, now, SettleStreamed(b), heard, blind, srv)
<1> DEFINE e == SettleStreamed(b)
<1>1. CASE e = b
    BY <1>1 DEF Case
<1>2. CASE e # b
    <2>0. /\ TapeInv(q, now) /\ now \in Minute /\ heard \in 0 .. Len(q)
          /\ BookTypes(b, now) /\ Settled(q, now, b, blind, srv)
          /\ Streamed(q, b, heard, blind, srv) /\ Held(b, srv) /\ ServedInv(q, now, srv)
        BY DEF Case, BookInv
    <2>1. /\ DOMAIN e = DOMAIN b /\ e.minutes = b.minutes /\ e.coveredFrom = b.coveredFrom
          /\ e.firstDay = b.firstDay /\ e.lastRefill = b.lastRefill
          /\ e.seedRetry = b.seedRetry /\ e.lastTotal = b.lastTotal
          /\ e.lastMinute = b.lastMinute /\ e.segment = b.segment /\ e.ended = b.ended
        BY <2>0, SettleFields
    <2>2. /\ b.coveredFrom # None /\ b.finalBefore # None /\ b.lastMinute # None
          /\ b.coveredFrom <= b.finalBefore /\ b.finalBefore < b.lastMinute
          /\ e.finalBefore = b.lastMinute
          /\ e.history = [m \in Minute |-> IF m \in b.finalBefore .. b.lastMinute - 1
                                            THEN b.minutes[m] ELSE b.history[m]]
        BY <1>2, <2>0, SettleEffect
    <2> HIDE DEF e
    <2>3. /\ b.coveredFrom \in Nat /\ b.finalBefore \in Nat /\ b.lastMinute \in Minute
          /\ b.history \in [Minute -> Nat] /\ b.minutes \in [Minute -> Nat]
          /\ b.lastMinute \in Nat /\ b.firstDay \in Minute
        <3>1. /\ b.coveredFrom \in 0 .. LastMinute + 2 \cup {None}
              /\ b.finalBefore \in 0 .. LastMinute + 2 \cup {None}
              /\ b.lastMinute \in Minute \cup {None} /\ b.firstDay \in Minute \cup {None}
              /\ b.history \in [Minute -> Nat] /\ b.minutes \in [Minute -> Nat]
              /\ b.finalBefore = None <=> b.firstDay = None
            BY <2>0 DEF BookTypes
        <3>2. b.coveredFrom \in Nat /\ b.finalBefore \in Nat
            BY <2>2, <3>1, Numbers
        <3>3. b.lastMinute \in Minute /\ b.firstDay \in Minute
            BY <2>2, <3>1
        <3>4. b.lastMinute \in Nat
            BY <3>3, Numbers
        <3> QED BY <3>1, <3>2, <3>3, <3>4
    <2>4. PICK k \in 1 .. heard : q[k].minute = b.lastMinute
        BY <2>0, <2>2 DEF Streamed
    <2>5. Len(q) \in Nat /\ heard \in Nat /\ k \in 1 .. Len(q) /\ heard \in k .. Len(q)
        BY <2>0, TapeFacts
    <2> DEFINE New(m) == m \in b.finalBefore .. b.lastMinute - 1
    <2>12. \A m \in Minute : New(m) => m >= b.coveredFrom /\ m >= b.finalBefore
        <3> TAKE m \in Minute
        <3>1. m \in Nat
            BY Numbers
        <3> HAVE New(m)
        <3>2. b.finalBefore <= m
            BY <2>3, <3>1
        <3> QED BY <2>2, <2>3, <3>1, <3>2
    <2>6. \A m \in Minute : /\ New(m) => e.history[m] = b.minutes[m]
                            /\ ~New(m) => e.history[m] = b.history[m]
                            /\ New(m) <=> b.finalBefore <= m /\ m < b.lastMinute
        BY <2>2, <2>3, Numbers, SMTT(30)
    <2>7. \A m \in Minute : m < b.lastMinute => Count(q, m, heard) = Count(q, m, Len(q))
        <3> TAKE m \in Minute
        <3> HAVE m < b.lastMinute
        <3>1. q[k].minute > m
            BY <2>3, <2>4, Numbers
        <3> QED BY <2>0, <2>5, <3>1, ClosedCount
    <2> HIDE DEF New
    <2>8. BookTypes(e, now)
        <3>1. e.history \in [Minute -> Nat]
            BY <2>2, <2>3
        <3>2. e.finalBefore \in 0 .. LastMinute + 2 /\ e.finalBefore # None
            BY <2>2, <2>3, Numbers
        <3>3. e.firstDay # None
            BY <2>1, <2>3, Numbers
        <3> QED BY <2>0, <2>1, <3>1, <3>2, <3>3 DEF BookTypes
    <2>9. Settled(q, now, e, blind, srv)
        <3>1. ASSUME NEW m \in Minute
              PROVE  e.history[m] <= Count(q, m, Len(q))
            <4>1. CASE New(m)
                <5>1. b.minutes[m] <= Count(q, m, heard)
                    BY <2>0, <2>2, <2>12, <4>1 DEF Streamed
                <5> QED BY <2>6, <2>7, <4>1, <5>1
            <4>2. CASE ~New(m)
                BY <2>0, <2>6, <4>2 DEF Settled
            <4> QED BY <4>1, <4>2
        <3>2. ASSUME NEW m \in Minute, m < e.finalBefore
              PROVE  Closed(q, now, m)
            BY <2>2, <2>4, <2>5, <3>2, TapeFacts, <2>0 DEF Closed
        <3>3. ASSUME NEW m \in Minute, e.firstDay <= m, m < e.finalBefore
              PROVE  e.history[m] = Count(q, m, Len(q)) \/ m \in blind \cup srv.unreached
            <4>1. CASE New(m)
                <5>1. b.minutes[m] = Count(q, m, heard) \/ m \in blind \cup srv.unreached
                    BY <2>0, <2>1, <2>2, <2>12, <3>3, <4>1 DEF Streamed
                <5> QED BY <2>6, <2>7, <4>1, <5>1
            <4>2. CASE ~New(m)
                <5>1. m < b.finalBefore
                    BY <2>2, <2>3, <2>6, <3>3, <4>2, Numbers, SMTT(30)
                <5> QED BY <2>0, <2>1, <2>6, <3>3, <4>2, <5>1 DEF Settled
            <4> QED BY <4>1, <4>2
        <3> QED BY <3>1, <3>2, <3>3 DEF Settled
    <2>10. Streamed(q, e, heard, blind, srv)
        <3>1. \A m \in Minute : m >= e.finalBefore => m >= b.finalBefore
            BY <2>2, <2>3, Numbers
        <3> QED BY <2>0, <2>1, <3>1 DEF Streamed
    <2>11. Held(e, srv)
        <3>1. ASSUME NEW m \in srv.minutes \ srv.unreached, m >= e.firstDay, m < e.finalBefore
              PROVE  srv.rows[m] <= e.history[m]
            <4>0. m \in Minute
                BY <2>0 DEF ServedInv
            <4>1. CASE New(m)
                <5>1. srv.rows[m] <= b.minutes[m]
                    BY <2>0, <2>1, <2>2, <2>12, <3>1, <4>0, <4>1 DEF Held
                <5> QED BY <2>6, <4>0, <4>1, <5>1
            <4>2. CASE ~New(m)
                <5>1. m < b.finalBefore
                    BY <2>2, <2>3, <2>6, <3>1, <4>0, <4>2, Numbers, SMTT(30)
                <5> QED BY <2>0, <2>1, <2>6, <3>1, <4>0, <4>2, <5>1 DEF Held
            <4> QED BY <4>1, <4>2
        <3>2. ASSUME NEW m \in srv.minutes \ srv.unreached, m >= e.firstDay, e.coveredFrom # None,
                     m >= e.coveredFrom, m >= e.finalBefore
              PROVE  srv.rows[m] <= e.minutes[m]
            <4>0. m \in Minute
                BY <2>0 DEF ServedInv
            <4>1. m >= b.finalBefore
                BY <2>2, <2>3, <3>2, <4>0, Numbers
            <4> QED BY <2>0, <2>1, <3>2, <4>1 DEF Held
        <3> QED BY <3>1, <3>2 DEF Held
    <2> QED BY <2>8, <2>9, <2>10, <2>11 DEF BookInv, e
<1> QED BY <1>1, <1>2

LEMMA BookTyped ==
    ASSUME NEW b, NEW now \in Minute, BookTypes(b, now)
    PROVE  /\ b.history \in [Minute -> Nat] /\ b.minutes \in [Minute -> Nat]
           /\ b.finalBefore \in Int /\ (b.finalBefore # None => b.finalBefore \in Nat)
           /\ b.coveredFrom \in Int /\ (b.coveredFrom # None => b.coveredFrom \in Nat)
           /\ b.firstDay \in Int /\ (b.firstDay # None => b.firstDay \in Minute)
           /\ b.lastTotal \in Int /\ (b.lastTotal # None => b.lastTotal \in Nat)
           /\ b.lastMinute \in Int /\ (b.lastMinute # None => b.lastMinute \in Minute)
           /\ b.segment \in Int
           /\ (b.segment # None => b.segment \in Nat /\ b.segment \in 1 .. LastMinute + 1 \ Session)
           /\ b.ended \in Int /\ b.ended <= now
           /\ (b.finalBefore = None <=> b.firstDay = None) /\ b.firstDay < now
<1>1. None \in Int /\ None = -1 /\ LastMinute \in Nat /\ \A m \in Minute : m \in Nat
    BY Numbers
<1>2. b.finalBefore \in Int /\ (b.finalBefore # None => b.finalBefore \in Nat)
    BY <1>1 DEF BookTypes
<1>3. b.coveredFrom \in Int /\ (b.coveredFrom # None => b.coveredFrom \in Nat)
    BY <1>1 DEF BookTypes
<1>4. b.firstDay \in Int /\ (b.firstDay # None => b.firstDay \in Minute)
    BY <1>1 DEF BookTypes
<1>5. b.lastTotal \in Int /\ (b.lastTotal # None => b.lastTotal \in Nat)
    BY <1>1 DEF BookTypes
<1>6. b.lastMinute \in Int /\ (b.lastMinute # None => b.lastMinute \in Minute)
    BY <1>1 DEF BookTypes
<1>7. /\ b.segment \in Int
      /\ (b.segment # None => b.segment \in Nat /\ b.segment \in 1 .. LastMinute + 1 \ Session)
    BY <1>1 DEF BookTypes
<1>8. b.ended \in Int /\ b.ended <= now
    <2>1. b.ended \in 0 .. now \cup {None} /\ now \in Nat
        BY <1>1 DEF BookTypes
    <2> QED BY <1>1, <2>1
<1>9. b.history \in [Minute -> Nat] /\ b.minutes \in [Minute -> Nat]
      /\ (b.finalBefore = None <=> b.firstDay = None) /\ b.firstDay < now
    BY DEF BookTypes
<1> QED BY <1>2, <1>3, <1>4, <1>5, <1>6, <1>7, <1>8, <1>9

\* What a book says of the minutes is in seven of its fields.
Alike(e, b) ==
    /\ DOMAIN e = DOMAIN b /\ e.history = b.history /\ e.minutes = b.minutes
    /\ e.finalBefore = b.finalBefore /\ e.coveredFrom = b.coveredFrom
    /\ e.firstDay = b.firstDay /\ e.lastMinute = b.lastMinute

LEMMA AlikeKeeps ==
    ASSUME NEW q, NEW now, NEW b, NEW heard, NEW blind, NEW srv,
           BookInv(q, now, b, heard, blind, srv), NEW e, Alike(e, b),
           e.lastTotal \in Nat \cup {None},
           e.segment \in {None} \cup (1 .. LastMinute + 1 \ Session),
           e.ended \in 0 .. now \cup {None}
    PROVE  BookInv(q, now, e, heard, blind, srv)
<1>1. BookTypes(e, now)
    BY DEF BookTypes, BookInv, Alike
<1>2. Settled(q, now, e, blind, srv)
    BY DEF Settled, BookInv, Alike
<1>3. Streamed(q, e, heard, blind, srv)
    BY DEF Streamed, BookInv, Alike
<1>4. Held(e, srv)
    BY DEF Held, BookInv, Alike
<1> QED BY <1>1, <1>2, <1>3, <1>4 DEF BookInv

\* The stream may be taken to cover from c on: no minute any more, later ones
\* only, or ones nothing is known of yet.
Coverable(q, b, heard, srv, c) ==
    \/ c = None
    \/ b.coveredFrom # None /\ b.coveredFrom <= c
    \/ /\ \A n \in 1 .. heard : q[n].minute < c
       /\ \A m \in srv.minutes : m >= c => srv.rows[m] = 0

LEMMA CoverKeeps ==
    ASSUME NEW q, NEW now, NEW b, NEW heard, NEW blind, NEW srv,
           Case(q, now, b, heard, blind, srv), NEW c \in 0 .. LastMinute + 2 \cup {None},
           Coverable(q, b, heard, srv, c)
    PROVE  LET e == [b EXCEPT !.coveredFrom = c] IN
           /\ BookInv(q, now, e, heard, blind, srv)
           /\ DOMAIN e = DOMAIN b /\ e.history = b.history /\ e.minutes = b.minutes
           /\ e.coveredFrom = c /\ e.finalBefore = b.finalBefore /\ e.firstDay = b.firstDay
           /\ e.lastRefill = b.lastRefill /\ e.seedRetry = b.seedRetry
           /\ e.lastTotal = b.lastTotal /\ e.lastMinute = b.lastMinute
           /\ e.segment = b.segment /\ e.ended = b.ended
<1> DEFINE e == [b EXCEPT !.coveredFrom = c]
<1> USE DEF Coverable
<1>0. /\ TapeInv(q, now) /\ now \in Minute /\ heard \in 0 .. Len(q) /\ ServedInv(q, now, srv)
      /\ BookTypes(b, now) /\ Settled(q, now, b, blind, srv)
      /\ Streamed(q, b, heard, blind, srv) /\ Held(b, srv)
    BY DEF Case, BookInv
<1>1. /\ DOMAIN e = DOMAIN b /\ e.history = b.history /\ e.minutes = b.minutes
      /\ e.coveredFrom = c /\ e.finalBefore = b.finalBefore /\ e.firstDay = b.firstDay
      /\ e.lastRefill = b.lastRefill /\ e.seedRetry = b.seedRetry
      /\ e.lastTotal = b.lastTotal /\ e.lastMinute = b.lastMinute
      /\ e.segment = b.segment /\ e.ended = b.ended
    BY <1>0 DEF BookTypes
<1> HIDE DEF e
<1>2. BookTypes(e, now)
    BY <1>0, <1>1 DEF BookTypes
<1>3. Settled(q, now, e, blind, srv)
    BY <1>0, <1>1 DEF Settled
<1>4. /\ b.minutes \in [Minute -> Nat] /\ c \in Int /\ b.coveredFrom \in Int
      /\ heard \in Nat /\ \A m \in Minute : m \in Nat
    <2>1. c \in Int /\ \A m \in Minute : m \in Nat
        BY Numbers
    <2>2. Len(q) \in Nat
        BY <1>0, TapeFacts
    <2> QED BY <1>0, <2>1, <2>2, BookTyped
<1>5. ASSUME \A n \in 1 .. heard : q[n].minute < c, NEW m \in Minute, m >= c
      PROVE  b.minutes[m] = 0 /\ Count(q, m, heard) = 0
    <2>0. Len(q) \in Nat /\ \A n \in 1 .. heard : n \in 1 .. Len(q)
        BY <1>0, <1>4, TapeFacts
    <2>1. \A n \in 1 .. heard : q[n].minute # m
        BY <1>0, <1>4, <1>5, <2>0, TapeFacts
    <2>2. Count(q, m, heard) = 0
        BY <1>4, <2>1, CountNone
    <2>3. ~(b.minutes[m] > 0)
        BY <1>0, <2>1 DEF Streamed
    <2> QED BY <1>4, <2>2, <2>3
<1>6. Streamed(q, e, heard, blind, srv)
    <2>1. ASSUME e.coveredFrom # None, NEW m \in Minute, m >= e.coveredFrom
          PROVE  /\ e.minutes[m] <= Count(q, m, heard)
                 /\ (m >= e.finalBefore /\ m >= e.firstDay) =>
                        e.minutes[m] = Count(q, m, heard) \/ m \in blind \cup srv.unreached
        <3>1. CASE b.coveredFrom # None /\ b.coveredFrom <= c
            <4>1. m >= b.coveredFrom
                BY <1>1, <1>4, <2>1, <3>1
            <4> QED BY <1>0, <1>1, <3>1, <4>1 DEF Streamed
        <3>2. CASE \A n \in 1 .. heard : q[n].minute < c
            BY <1>1, <1>5, <2>1, <3>2
        <3> QED BY <1>1, <2>1, <3>1, <3>2
    <2> QED BY <1>0, <1>1, <2>1 DEF Streamed
<1>7. Held(e, srv)
    <2>1. ASSUME NEW m \in srv.minutes \ srv.unreached, m >= e.firstDay, e.coveredFrom # None,
                 m >= e.coveredFrom, m >= e.finalBefore
          PROVE  srv.rows[m] <= e.minutes[m]
        <3>0. m \in Minute
            BY <1>0 DEF ServedInv
        <3>1. CASE b.coveredFrom # None /\ b.coveredFrom <= c
            <4>1. m >= b.coveredFrom
                BY <1>1, <1>4, <2>1, <3>0, <3>1
            <4> QED BY <1>0, <1>1, <2>1, <3>1, <4>1 DEF Held
        <3>2. CASE \A k \in srv.minutes : k >= c => srv.rows[k] = 0
            BY <1>1, <1>4, <2>1, <3>0, <3>2
        <3> QED BY <1>1, <2>1, <3>1, <3>2
    <2> QED BY <1>0, <1>1, <2>1 DEF Held
<1>8. BookInv(q, now, e, heard, blind, srv)
    BY <1>2, <1>3, <1>6, <1>7 DEF BookInv
<1> QED BY <1>1, <1>8 DEF e

\* _end_segment: what the stream has of the segment is settled, and from its
\* close on it covers.
LEMMA EndKeeps ==
    ASSUME NEW q, NEW now, NEW b, NEW heard, NEW blind, NEW srv,
           Case(q, now, b, heard, blind, srv),
           NEW close \in 1 .. LastMinute + 1 \ Session, close <= now,
           b.coveredFrom # None => b.ended <= b.coveredFrom
    PROVE  LET e == EndSegment(b, close) IN
           /\ BookInv(q, now, e, heard, blind, srv)
           /\ DOMAIN e = DOMAIN b /\ e.minutes = b.minutes /\ e.firstDay = b.firstDay
           /\ e.lastRefill = b.lastRefill /\ e.seedRetry = b.seedRetry
           /\ e.lastTotal = b.lastTotal /\ e.lastMinute = b.lastMinute
           /\ e.segment = b.segment /\ e.ended = close
           /\ b.coveredFrom = None => e.coveredFrom = None
           /\ b.coveredFrom # None => /\ e.coveredFrom # None /\ e.coveredFrom >= b.coveredFrom
                                      /\ e.coveredFrom >= close
<1> DEFINE e == EndSegment(b, close)
<1>0. /\ TapeInv(q, now) /\ now \in Minute /\ heard \in 0 .. Len(q) /\ blind \subseteq Minute
      /\ ServedInv(q, now, srv) /\ BookInv(q, now, b, heard, blind, srv) /\ BookTypes(b, now)
    BY DEF Case, BookInv
<1>T. /\ close \in Nat /\ now \in Nat /\ LastMinute \in Nat /\ None = -1 /\ b.coveredFrom \in Int
      /\ b.coveredFrom # None => b.coveredFrom \in 0 .. LastMinute + 2
    BY <1>0, Numbers DEF BookTypes
<1>1. CASE b.ended = close
    <2>1. e = b
        BY <1>1 DEF EndSegment
    <2>2. b.coveredFrom >= b.coveredFrom
        BY <1>T
    <2> QED BY <1>0, <1>1, <2>1, <2>2
<1>2. CASE b.ended # close
    <2> DEFINE f == [b EXCEPT !.ended = close]
    <2>1. /\ Alike(f, b) /\ f.lastRefill = b.lastRefill /\ f.seedRetry = b.seedRetry
          /\ f.lastTotal = b.lastTotal /\ f.segment = b.segment /\ f.ended = close
        BY <1>0 DEF BookTypes, Alike
    <2>E. e = IF b.coveredFrom = None THEN f
              ELSE [SettleStreamed(f) EXCEPT !.coveredFrom = IF @ > close THEN @ ELSE close]
        BY <1>2 DEF EndSegment
    <2> HIDE DEF f, e
    <2>2. BookInv(q, now, f, heard, blind, srv)
        <3>1. /\ f.lastTotal \in Nat \cup {None}
              /\ f.segment \in {None} \cup (1 .. LastMinute + 1 \ Session)
            BY <1>0, <2>1 DEF BookTypes
        <3>2. f.ended \in 0 .. now \cup {None}
            BY <1>T, <2>1
        <3> QED BY <1>0, <2>1, <3>1, <3>2, AlikeKeeps
    <2>3. CASE b.coveredFrom = None
        <3>1. e = f
            BY <2>3, <2>E
        <3> QED BY <2>1, <2>2, <2>3, <3>1 DEF Alike, e
    <2>4. CASE b.coveredFrom # None
        <3> DEFINE s == SettleStreamed(f)
        <3> DEFINE c == IF s.coveredFrom > close THEN s.coveredFrom ELSE close
        <3>1. Case(q, now, f, heard, blind, srv) /\ BookTypes(f, now)
            BY <1>0, <2>2 DEF Case, BookInv
        <3>2. /\ DOMAIN s = DOMAIN f /\ s.minutes = f.minutes /\ s.coveredFrom = f.coveredFrom
              /\ s.firstDay = f.firstDay /\ s.lastRefill = f.lastRefill
              /\ s.seedRetry = f.seedRetry /\ s.lastTotal = f.lastTotal
              /\ s.lastMinute = f.lastMinute /\ s.segment = f.segment /\ s.ended = f.ended
            BY <3>1, SettleFields
        <3>3. BookInv(q, now, s, heard, blind, srv)
            BY <3>1, SettleKeeps
        <3> HIDE DEF s
        <3>4. Case(q, now, s, heard, blind, srv)
            BY <1>0, <3>3 DEF Case
        <3>5. s.coveredFrom = b.coveredFrom
            BY <2>1, <3>2 DEF Alike
        <3>6. c \in 0 .. LastMinute + 2 \cup {None} /\ s.coveredFrom <= c /\ close <= c /\ c # None
            BY <1>T, <2>4, <3>5
        <3>7. e = [s EXCEPT !.coveredFrom = c]
            <4>1. e = [s EXCEPT !.coveredFrom = IF @ > close THEN @ ELSE close]
                BY <2>4, <2>E DEF s
            <4>2. "coveredFrom" \in DOMAIN s
                BY <1>0, <2>1, <3>2 DEF BookTypes, Alike
            <4> QED BY <4>1, <4>2
        <3> HIDE DEF c
        <3>8. /\ BookInv(q, now, e, heard, blind, srv)
              /\ DOMAIN e = DOMAIN s /\ e.minutes = s.minutes
              /\ e.coveredFrom = c /\ e.firstDay = s.firstDay
              /\ e.lastRefill = s.lastRefill /\ e.seedRetry = s.seedRetry
              /\ e.lastTotal = s.lastTotal /\ e.lastMinute = s.lastMinute
              /\ e.segment = s.segment /\ e.ended = s.ended
            <4>1. Coverable(q, s, heard, srv, c)
                BY <2>4, <3>5, <3>6 DEF Coverable
            <4> QED BY <3>4, <3>6, <3>7, <4>1, CoverKeeps
        <3>9. e.coveredFrom # None /\ e.coveredFrom >= b.coveredFrom /\ e.coveredFrom >= close
            <4>1. c \in Int
                BY <1>T, <3>6
            <4> QED BY <1>T, <3>5, <3>6, <3>8, <4>1
        <3>10. /\ DOMAIN e = DOMAIN b /\ e.minutes = b.minutes /\ e.firstDay = b.firstDay
               /\ e.lastRefill = b.lastRefill /\ e.seedRetry = b.seedRetry
               /\ e.lastTotal = b.lastTotal /\ e.lastMinute = b.lastMinute
               /\ e.segment = b.segment /\ e.ended = close
            BY <2>1, <3>2, <3>8 DEF Alike
        <3> QED BY <2>4, <3>8, <3>9, <3>10 DEF e
    <2> QED BY <2>3, <2>4
<1> QED BY <1>1, <1>2

\* connection_lost: what the stream has is settled, and it covers nothing more.
LEMMA LostKeeps ==
    ASSUME NEW q, NEW now, NEW b, NEW heard, NEW blind, NEW srv,
           Case(q, now, b, heard, blind, srv)
    PROVE  LET e == ConnectionLost(b) IN
           /\ BookInv(q, now, e, heard, blind, srv)
           /\ e.firstDay = b.firstDay /\ e.coveredFrom = None /\ e.lastTotal = None
           /\ e.segment = b.segment
<1> DEFINE s == SettleStreamed(b)
<1> DEFINE c == [s EXCEPT !.coveredFrom = None]
<1> DEFINE e == [c EXCEPT !.lastTotal = None]
<1>0. TapeInv(q, now) /\ now \in Minute /\ BookTypes(b, now)
    BY DEF Case, BookInv
<1>1. /\ DOMAIN s = DOMAIN b /\ s.firstDay = b.firstDay /\ s.segment = b.segment
      /\ s.ended = b.ended
    BY <1>0, SettleFields
<1>2. Case(q, now, s, heard, blind, srv)
    BY SettleKeeps DEF Case
<1>E. ConnectionLost(b) = e
    <2>1. "coveredFrom" \in DOMAIN s /\ "lastTotal" \in DOMAIN s
        BY <1>0, <1>1 DEF BookTypes
    <2> HIDE DEF s
    <2>2. [s EXCEPT !.coveredFrom = None, !.lastTotal = None] = e
        BY <2>1
    <2> QED BY <2>2 DEF ConnectionLost, s
<1> HIDE DEF s
<1>3. /\ BookInv(q, now, c, heard, blind, srv)
      /\ DOMAIN c = DOMAIN s /\ c.history = s.history /\ c.minutes = s.minutes
      /\ c.coveredFrom = None /\ c.finalBefore = s.finalBefore /\ c.firstDay = s.firstDay
      /\ c.lastMinute = s.lastMinute /\ c.segment = s.segment /\ c.ended = s.ended
    <2>1. None \in 0 .. LastMinute + 2 \cup {None} /\ Coverable(q, s, heard, srv, None)
        BY DEF Coverable
    <2> QED BY <1>2, <2>1, CoverKeeps
<1> HIDE DEF c
<1>4. BookTypes(c, now)
    BY <1>3 DEF BookInv
<1>5. Alike(e, c) /\ e.lastTotal = None /\ e.segment = c.segment /\ e.ended = c.ended
    BY <1>4 DEF Alike, BookTypes
<1> HIDE DEF e
<1>6. BookInv(q, now, e, heard, blind, srv)
    <2>1. /\ e.lastTotal \in Nat \cup {None}
          /\ e.segment \in {None} \cup (1 .. LastMinute + 1 \ Session)
          /\ e.ended \in 0 .. now \cup {None}
        BY <1>4, <1>5 DEF BookTypes
    <2> QED BY <1>3, <1>5, <2>1, AlikeKeeps
<1>7. e.firstDay = b.firstDay /\ e.coveredFrom = None /\ e.segment = b.segment
    BY <1>1, <1>3, <1>5 DEF Alike
<1> QED BY <1>E, <1>5, <1>6, <1>7

\* The reader comes to know of trades no tick told of.
LEMMA HeardKeeps ==
    ASSUME NEW q, NEW now, NEW b, NEW heard, NEW blind, NEW srv,
           Case(q, now, b, heard, blind, srv),
           NEW later \in heard .. Len(q), NEW more, blind \subseteq more, more \subseteq Minute,
           b.coveredFrom # None =>
               \A n \in heard + 1 .. later : q[n].minute < b.coveredFrom \/ q[n].minute \in more
    PROVE  Case(q, now, b, later, more, srv)
<1>0. /\ TapeInv(q, now) /\ now \in Minute /\ heard \in 0 .. Len(q)
      /\ BookTypes(b, now) /\ Settled(q, now, b, blind, srv)
      /\ Streamed(q, b, heard, blind, srv) /\ Held(b, srv)
    BY DEF Case, BookInv
<1>1. Len(q) \in Nat /\ heard \in Nat /\ later \in Nat /\ heard <= later /\ later <= Len(q)
    BY <1>0, TapeFacts
<1>2. Settled(q, now, b, more, srv)
    BY <1>0 DEF Settled
<1>3. b.coveredFrom \in Int /\ b.minutes \in [Minute -> Nat] /\ \A m \in Minute : m \in Nat
    BY <1>0, BookTyped, Numbers
<1>4. ASSUME b.coveredFrom # None, NEW m \in Minute, m >= b.coveredFrom
      PROVE  /\ b.minutes[m] <= Count(q, m, later)
             /\ (m >= b.finalBefore /\ m >= b.firstDay) =>
                    b.minutes[m] = Count(q, m, later) \/ m \in more \cup srv.unreached
    <2>1. Count(q, m, heard) <= Count(q, m, later) /\ Count(q, m, heard) \in Nat
          /\ Count(q, m, later) \in Nat
        BY <1>1, CountGrows, CountNat
    <2>2. b.minutes[m] <= Count(q, m, heard)
        BY <1>0, <1>4 DEF Streamed
    <2>3. b.minutes[m] <= Count(q, m, later)
        BY <1>3, <2>1, <2>2
    <2>4. ASSUME m >= b.finalBefore, m >= b.firstDay, m \notin more \cup srv.unreached
          PROVE  b.minutes[m] = Count(q, m, later)
        <3>1. b.minutes[m] = Count(q, m, heard)
            BY <1>0, <1>4, <2>4 DEF Streamed
        <3>2. \A n \in heard + 1 .. later : q[n].minute # m
            BY <1>3, <1>4, <2>4
        <3> QED BY <1>1, <3>1, <3>2, CountGrows
    <2> QED BY <2>3, <2>4
<1>5. Streamed(q, b, later, more, srv)
    <2>1. \A n \in 1 .. heard : n \in 1 .. later
        BY <1>1
    <2>2. ASSUME NEW m \in Minute, b.minutes[m] > 0
          PROVE  \E n \in 1 .. later : q[n].minute = m
        BY <1>0, <2>1, <2>2 DEF Streamed
    <2>3. b.lastMinute # None => \E n \in 1 .. later : q[n].minute = b.lastMinute
        BY <1>0, <2>1 DEF Streamed
    <2> QED BY <1>4, <2>2, <2>3 DEF Streamed
<1>6. later \in 0 .. Len(q)
    BY <1>1
<1> QED BY <1>0, <1>2, <1>5, <1>6 DEF Case, BookInv

\* The newest tick counts in its minute; one that comes again counts only where
\* the stream covers nothing.
Newest(b, t) == [b EXCEPT !.lastTotal = t.total, !.lastMinute = t.minute,
                          !.minutes[t.minute] = @ + 1]

\* The n-th trade is the next after those the reader knows of, or one of them.
Reads(q, b, heard, n, later) ==
    \/ n = heard + 1 /\ later = n
    \/ n <= heard /\ later = heard /\ (b.coveredFrom # None => q[n].minute < b.coveredFrom)

LEMMA NewestKeeps ==
    ASSUME NEW q, NEW now, NEW b, NEW heard, NEW blind, NEW srv,
           Case(q, now, b, heard, blind, srv), NEW n \in 1 .. Len(q), NEW later,
           Reads(q, b, heard, n, later)
    PROVE  LET e == Newest(b, TickOf(q, n)) IN
           /\ BookInv(q, now, e, later, blind, srv)
           /\ e.firstDay = b.firstDay /\ e.coveredFrom = b.coveredFrom
           /\ e.lastTotal = q[n].total /\ e.segment = b.segment /\ e.ended = b.ended
<1> DEFINE t == TickOf(q, n)
<1> DEFINE e == Newest(b, t)
<1> DEFINE m0 == q[n].minute
<1>0. /\ TapeInv(q, now) /\ now \in Minute /\ heard \in 0 .. Len(q) /\ ServedInv(q, now, srv)
      /\ BookTypes(b, now) /\ Settled(q, now, b, blind, srv)
      /\ Streamed(q, b, heard, blind, srv) /\ Held(b, srv)
    BY DEF Case, BookInv
<1> USE DEF Reads
<1>1. /\ Len(q) \in Nat /\ heard \in Nat /\ later \in Nat /\ heard <= later
      /\ later <= Len(q) /\ n \in 1 .. later
    BY <1>0, TapeFacts
<1>2. m0 \in Minute /\ m0 \in Nat /\ q[n].total \in Nat
    BY <1>0, TapeFacts
<1>3. t.minute = m0 /\ t.total = q[n].total
    BY DEF TickOf
<1>4. /\ b.coveredFrom \in Int /\ b.minutes \in [Minute -> Nat] /\ \A m \in Minute : m \in Nat
    BY <1>0, BookTyped, Numbers
<1>5. /\ DOMAIN e = DOMAIN b /\ e.history = b.history /\ e.finalBefore = b.finalBefore
      /\ e.coveredFrom = b.coveredFrom /\ e.firstDay = b.firstDay
      /\ e.segment = b.segment /\ e.ended = b.ended
      /\ e.lastTotal = q[n].total /\ e.lastMinute = m0
      /\ e.minutes = [b.minutes EXCEPT ![m0] = @ + 1]
    <2> HIDE DEF t
    <2>1. {"lastTotal", "lastMinute", "minutes"} \subseteq DOMAIN b
        BY <1>0 DEF BookTypes
    <2> QED BY <1>3, <2>1 DEF Newest
<1> HIDE DEF e, t, m0
<1>6. /\ e.minutes \in [Minute -> Nat]
      /\ e.minutes[m0] = b.minutes[m0] + 1
      /\ \A m \in Minute : m # m0 => e.minutes[m] = b.minutes[m]
      /\ \A m \in Minute : b.minutes[m] <= e.minutes[m]
    BY <1>2, <1>4, <1>5
<1>7. BookTypes(e, now)
    <2>1. /\ e.lastTotal \in Nat \cup {None} /\ e.lastMinute \in Minute \cup {None}
        BY <1>2, <1>5
    <2> QED BY <1>0, <1>5, <1>6, <2>1 DEF BookTypes
<1>8. Settled(q, now, e, blind, srv)
    BY <1>0, <1>5 DEF Settled
<1>9. ASSUME e.coveredFrom # None, NEW m \in Minute, m >= e.coveredFrom
      PROVE  /\ e.minutes[m] <= Count(q, m, later)
             /\ (m >= e.finalBefore /\ m >= e.firstDay) =>
                    e.minutes[m] = Count(q, m, later) \/ m \in blind \cup srv.unreached
    <2>1. /\ b.minutes[m] <= Count(q, m, heard)
          /\ (m >= b.finalBefore /\ m >= b.firstDay) =>
                 b.minutes[m] = Count(q, m, heard) \/ m \in blind \cup srv.unreached
        BY <1>0, <1>5, <1>9 DEF Streamed
    <2>2. CASE n = heard + 1 /\ later = n
        <3>1. Count(q, m, heard + 1) = Count(q, m, heard) + (IF q[heard + 1].minute = m THEN 1 ELSE 0)
            BY <1>1, CountStep
        <3>2. Count(q, m, heard) \in Nat
            BY <1>1, CountNat
        <3>3. CASE m = m0
            <4>1. Count(q, m, later) = Count(q, m, heard) + 1
                BY <2>2, <3>1, <3>3 DEF m0
            <4>2. e.minutes[m] = b.minutes[m] + 1
                BY <1>6, <3>3
            <4> QED BY <1>4, <1>5, <2>1, <3>2, <4>1, <4>2
        <3>4. CASE m # m0
            <4>1. Count(q, m, later) = Count(q, m, heard)
                BY <2>2, <3>1, <3>2, <3>4 DEF m0
            <4>2. e.minutes[m] = b.minutes[m]
                BY <1>6, <3>4
            <4> QED BY <1>5, <2>1, <4>1, <4>2
        <3> QED BY <3>3, <3>4
    <2>3. CASE n <= heard /\ later = heard /\ (b.coveredFrom # None => m0 < b.coveredFrom)
        <3>1. m # m0
            BY <1>2, <1>4, <1>5, <1>9, <2>3
        <3>2. e.minutes[m] = b.minutes[m]
            BY <1>6, <3>1
        <3> QED BY <1>5, <2>1, <2>3, <3>2
    <2> QED BY <2>2, <2>3 DEF m0
<1>10. Streamed(q, e, later, blind, srv)
    <2>1. \A k \in 1 .. heard : k \in 1 .. later
        BY <1>1
    <2>2. ASSUME NEW m \in Minute, e.minutes[m] > 0
          PROVE  \E k \in 1 .. later : q[k].minute = m
        <3>1. CASE m = m0
            BY <1>1, <3>1 DEF m0
        <3>2. CASE m # m0
            BY <1>0, <1>6, <2>1, <2>2, <3>2 DEF Streamed
        <3> QED BY <3>1, <3>2
    <2>3. \E k \in 1 .. later : q[k].minute = e.lastMinute
        BY <1>1, <1>5 DEF m0
    <2> QED BY <1>9, <2>2, <2>3 DEF Streamed
<1>11. Held(e, srv)
    <2>1. ASSUME NEW m \in srv.minutes \ srv.unreached, m >= e.firstDay, e.coveredFrom # None,
                 m >= e.coveredFrom, m >= e.finalBefore
          PROVE  srv.rows[m] <= e.minutes[m]
        <3>1. m \in Minute /\ srv.rows[m] \in Nat
            BY <1>0 DEF ServedInv
        <3>2. srv.rows[m] <= b.minutes[m]
            BY <1>0, <1>5, <2>1 DEF Held
        <3>3. b.minutes[m] <= e.minutes[m] /\ b.minutes[m] \in Nat /\ e.minutes[m] \in Nat
            BY <1>4, <1>6, <3>1
        <3> QED BY <3>1, <3>2, <3>3
    <2>2. ASSUME NEW m \in srv.minutes \ srv.unreached, m >= e.firstDay, m < e.finalBefore
          PROVE  srv.rows[m] <= e.history[m]
        BY <1>0, <1>5, <2>2 DEF Held
    <2> QED BY <2>1, <2>2 DEF Held
<1>12. BookInv(q, now, e, later, blind, srv)
    BY <1>7, <1>8, <1>10, <1>11 DEF BookInv
<1> QED BY <1>5, <1>12 DEF e, t

(***************************************************************************)
(* add_tick: the book, the trades counted and what it knows of the rest.   *)
(***************************************************************************)
IsNew(b, t) == b.segment # CloseOf(t.minute)
\* The segment of the tick, with the one before it ended.
Entered(b, t) == [(IF IsNew(b, t) /\ b.segment # None THEN EndSegment(b, b.segment) ELSE b)
                     EXCEPT !.segment = CloseOf(t.minute)]
Gapped(s, t)  == [SettleStreamed(s) EXCEPT !.coveredFrom = t.minute + 1]

LEMMA AddTickIs ==
    ASSUME NEW b, NEW t
    PROVE  AddTick(b, t) =
             LET s == Entered(b, t)
                 g == IF s.lastTotal # None /\ ~Follows(s, t, IsNew(b, t)) THEN Gapped(s, t) ELSE s
             IN IF Repeated(s, t, IsNew(b, t)) THEN s ELSE Newest(g, t)
BY DEF AddTick, Entered, Gapped, IsNew, Newest, CoveredAfterGap

LEMMA EnteredKeeps ==
    ASSUME NEW q, NEW now, NEW b, NEW heard, NEW blind, NEW srv,
           Case(q, now, b, heard, blind, srv), NEW n \in 1 .. Len(q),
           b.coveredFrom # None, b.ended <= b.coveredFrom,
           b.segment <= CloseOf(q[n].minute)
    PROVE  LET t == TickOf(q, n)
               s == Entered(b, t) IN
           /\ BookInv(q, now, s, heard, blind, srv)
           /\ s.segment = CloseOf(q[n].minute) /\ s.firstDay = b.firstDay
           /\ s.lastTotal = b.lastTotal /\ s.coveredFrom # None
           /\ b.coveredFrom <= s.coveredFrom /\ s.ended <= s.coveredFrom
           /\ s.ended = b.ended \/ s.ended <= q[n].minute
           /\ (IsNew(b, t) /\ b.segment # None) =>
                  b.segment <= s.coveredFrom /\ b.segment <= q[n].minute
<1> DEFINE m == q[n].minute
<1> DEFINE t == TickOf(q, n)
<1> DEFINE e == IF IsNew(b, t) /\ b.segment # None THEN EndSegment(b, b.segment) ELSE b
<1> DEFINE s == [e EXCEPT !.segment = CloseOf(m)]
<1>0. /\ TapeInv(q, now) /\ now \in Minute /\ BookInv(q, now, b, heard, blind, srv)
      /\ BookTypes(b, now)
    BY DEF Case, BookInv
<1>1. m \in Minute /\ m \in Nat /\ m <= now /\ t.minute = m
    BY <1>0, TapeFacts DEF TickOf
<1>2. /\ b.coveredFrom \in Int /\ b.ended \in Int /\ b.segment \in Int /\ now \in Nat
      /\ b.segment # None => b.segment \in 1 .. LastMinute + 1 \ Session
    BY <1>0, BookTyped, Numbers
<1>3. CloseOf(m) \in 1 .. LastMinute + 1 \ Session
    BY <1>1, CloseFacts
<1>4. CloseOf(m) \in Nat /\ CloseOf(m) # None
    BY <1>3, Numbers
<1>5. IsNew(b, t) <=> b.segment # CloseOf(m)
    BY <1>1 DEF IsNew
<1>6. ASSUME IsNew(b, t), b.segment # None
      PROVE  b.segment <= m /\ b.segment <= now
    <2>1. b.segment < CloseOf(m)
        BY <1>2, <1>4, <1>5, <1>6
    <2>2. b.segment <= m
        BY <1>1, <1>2, <1>6, <2>1, CloseBefore
    <2> QED BY <1>1, <1>2, <2>2
<1> HIDE DEF m, t
<1>7. /\ BookInv(q, now, e, heard, blind, srv)
      /\ e.firstDay = b.firstDay /\ e.lastTotal = b.lastTotal
      /\ e.coveredFrom # None /\ b.coveredFrom <= e.coveredFrom
      /\ e.ended <= e.coveredFrom /\ (e.ended = b.ended \/ e.ended <= m)
      /\ (IsNew(b, t) /\ b.segment # None) => b.segment <= e.coveredFrom
    <2>1. CASE IsNew(b, t) /\ b.segment # None
        <3> DEFINE x == EndSegment(b, b.segment)
        <3>1. e = x
            BY <2>1
        <3>2. /\ BookInv(q, now, x, heard, blind, srv)
              /\ x.firstDay = b.firstDay /\ x.lastTotal = b.lastTotal /\ x.ended = b.segment
              /\ x.coveredFrom # None /\ x.coveredFrom >= b.coveredFrom
              /\ x.coveredFrom >= b.segment
            BY <1>2, <1>6, <2>1, EndKeeps
        <3> HIDE DEF x
        <3>3. x.coveredFrom \in Int /\ x.ended \in Int
            BY <1>0, <3>2, BookTyped DEF BookInv
        <3>4. b.coveredFrom <= x.coveredFrom /\ x.ended <= x.coveredFrom /\ x.ended <= m
              /\ b.segment <= x.coveredFrom
            BY <1>2, <1>6, <2>1, <3>2, <3>3
        <3> HIDE DEF e
        <3> QED BY <2>1, <3>1, <3>2, <3>4
    <2>2. CASE ~(IsNew(b, t) /\ b.segment # None)
        <3>1. e = b /\ b.coveredFrom <= b.coveredFrom
            BY <1>2, <2>2
        <3> HIDE DEF e
        <3> QED BY <1>0, <2>2, <3>1
    <2> QED BY <2>1, <2>2
<1>S. Entered(b, t) = s
    BY <1>1 DEF Entered
<1> HIDE DEF e
<1>8. BookTypes(e, now)
    BY <1>7 DEF BookInv
<1>9. Alike(s, e) /\ s.segment = CloseOf(m) /\ s.ended = e.ended /\ s.lastTotal = e.lastTotal
    BY <1>8 DEF Alike, BookTypes
<1> HIDE DEF s
<1>10. BookInv(q, now, s, heard, blind, srv)
    <2>1. /\ s.lastTotal \in Nat \cup {None}
          /\ s.segment \in {None} \cup (1 .. LastMinute + 1 \ Session)
          /\ s.ended \in 0 .. now \cup {None}
        BY <1>3, <1>8, <1>9 DEF BookTypes
    <2> QED BY <1>7, <1>9, <2>1, AlikeKeeps
<1>11. /\ s.firstDay = b.firstDay /\ s.coveredFrom = e.coveredFrom
    BY <1>7, <1>9 DEF Alike
<1> QED BY <1>6, <1>7, <1>9, <1>10, <1>11, <1>S DEF m, t

LEMMA GappedKeeps ==
    ASSUME NEW q, NEW now, NEW s, NEW heard, NEW blind, NEW srv,
           Case(q, now, s, heard, blind, srv), NEW n \in 1 .. Len(q), n > heard,
           \A m \in srv.minutes : srv.rows[m] > 0 => m <= q[n].minute
    PROVE  LET g == Gapped(s, TickOf(q, n)) IN
           /\ BookInv(q, now, g, heard, blind, srv)
           /\ g.segment = s.segment /\ g.firstDay = s.firstDay /\ g.ended = s.ended
           /\ g.coveredFrom = q[n].minute + 1
<1> DEFINE d == SettleStreamed(s)
<1> DEFINE c == q[n].minute + 1
<1>0. /\ TapeInv(q, now) /\ now \in Minute /\ BookTypes(s, now) /\ ServedInv(q, now, srv)
      /\ heard \in 0 .. Len(q)
    BY DEF Case, BookInv
<1>1. /\ DOMAIN d = DOMAIN s /\ d.firstDay = s.firstDay /\ d.segment = s.segment
      /\ d.ended = s.ended
    BY <1>0, SettleFields
<1>2. Case(q, now, d, heard, blind, srv)
    BY SettleKeeps DEF Case
<1>3. q[n].minute \in Nat /\ q[n].minute \in Minute
    BY <1>0, TapeFacts
<1>4. c \in 0 .. LastMinute + 2 \cup {None}
    BY <1>3, Numbers
<1>5. ASSUME NEW k \in 1 .. heard
      PROVE  q[k].minute < c
    <2>1. Len(q) \in Nat
        BY <1>0, TapeFacts
    <2>2. k \in 1 .. Len(q) /\ k <= n
        BY <1>0, <2>1
    <2>3. q[k].minute <= q[n].minute /\ q[k].minute \in Nat
        BY <1>0, <2>2, TapeFacts
    <2> QED BY <1>3, <2>3
<1>6. ASSUME NEW m \in srv.minutes, m >= c
      PROVE  srv.rows[m] = 0
    <2>1. m \in Minute /\ m \in Nat /\ srv.rows[m] \in Nat
        BY <1>0, Numbers DEF ServedInv
    <2>2. ~(m <= q[n].minute)
        BY <1>3, <1>6, <2>1
    <2> QED BY <2>1, <2>2
<1>7. Gapped(s, TickOf(q, n)) = [d EXCEPT !.coveredFrom = c]
    BY DEF Gapped, TickOf
<1> HIDE DEF d, c
<1>8. LET g == [d EXCEPT !.coveredFrom = c] IN
      /\ BookInv(q, now, g, heard, blind, srv)
      /\ g.coveredFrom = c /\ g.firstDay = d.firstDay /\ g.segment = d.segment /\ g.ended = d.ended
    <2>1. Coverable(q, d, heard, srv, c)
        BY <1>5, <1>6 DEF Coverable
    <2> QED BY <1>2, <1>4, <2>1, CoverKeeps
<1> QED BY <1>1, <1>7, <1>8 DEF c

\* A reader that is subscribed comes to the tick of trade n.
Reading(q, now, last, b, heard, blind, srv, n) ==
    /\ Case(q, now, b, heard, blind, srv) /\ Counting(q, last, b, TRUE, heard)
    /\ n \in 1 .. Len(q) /\ b.segment <= CloseOf(q[n].minute)
    /\ \E l \in n .. Len(q) : last = TickOf(q, l)

\* The tick is news, or one that was read before.
Fresh(q, b, heard, srv, n) ==
    /\ n > heard /\ b.ended <= q[n].minute + 1
    /\ \A m \in srv.minutes : srv.rows[m] > 0 => m <= q[n].minute
Again(q, b, heard, n) == n <= heard /\ Match(b, TickOf(q, n))

\* The total of tick n cannot show that trade j was missed.
HiddenAt(q, b, n, j) ==
    \/ b.lastTotal = None
    \/ /\ IsNew(b, TickOf(q, n)) /\ Follows(b, TickOf(q, n), TRUE)
       /\ CloseOf(q[j].minute) # b.segment

LEMMA ReadingFacts ==
    ASSUME NEW q, NEW now, NEW last, NEW b, NEW heard, NEW blind, NEW srv, NEW n,
           Reading(q, now, last, b, heard, blind, srv, n)
    PROVE  LET t == TickOf(q, n)
               s == Entered(b, t) IN
           /\ TapeInv(q, now) /\ now \in Minute /\ BookTypes(b, now)
           /\ Len(q) \in Nat /\ heard \in Nat /\ heard <= Len(q) /\ n \in Nat /\ n \in 1 .. Len(q)
           /\ q[n].minute \in Minute /\ q[n].minute \in Nat /\ q[n].total \in Nat
           /\ t.minute = q[n].minute /\ t.total = q[n].total
           /\ CloseOf(q[n].minute) \in Nat /\ CloseOf(q[n].minute) # None
           /\ b.coveredFrom # None /\ b.coveredFrom \in Int
           /\ Case(q, now, s, heard, blind, srv)
           /\ s.segment = CloseOf(q[n].minute) /\ s.firstDay = b.firstDay
           /\ s.lastTotal = b.lastTotal /\ s.coveredFrom # None
           /\ b.coveredFrom <= s.coveredFrom /\ s.ended <= s.coveredFrom
           /\ s.coveredFrom \in Int /\ s.ended \in Int
           /\ s.ended = b.ended \/ s.ended <= q[n].minute
           /\ (IsNew(b, t) /\ b.segment # None) => b.segment <= s.coveredFrom
           /\ last.kind = "tick" /\ CloseOf(q[n].minute) <= CloseOf(last.minute)
<1> DEFINE t == TickOf(q, n)
<1> DEFINE s == Entered(b, t)
<1>1. /\ TapeInv(q, now) /\ now \in Minute /\ heard \in 0 .. Len(q) /\ n \in 1 .. Len(q)
      /\ BookTypes(b, now) /\ Case(q, now, b, heard, blind, srv)
      /\ b.coveredFrom # None /\ b.ended <= b.coveredFrom
      /\ b.segment <= CloseOf(q[n].minute)
    BY DEF Reading, Case, BookInv, Counting
<1>2. /\ Len(q) \in Nat /\ heard \in Nat /\ heard <= Len(q) /\ n \in Nat
    BY <1>1, TapeFacts
<1>3. /\ q[n].minute \in Minute /\ q[n].minute \in Nat /\ q[n].total \in Nat
    BY <1>1, TapeFacts
<1>4. t.minute = q[n].minute /\ t.total = q[n].total
    BY DEF TickOf
<1>5. CloseOf(q[n].minute) \in Nat /\ CloseOf(q[n].minute) # None
    BY <1>3, CloseFacts, Numbers
<1>6. /\ BookInv(q, now, s, heard, blind, srv)
      /\ s.segment = CloseOf(q[n].minute) /\ s.firstDay = b.firstDay
      /\ s.lastTotal = b.lastTotal /\ s.coveredFrom # None
      /\ b.coveredFrom <= s.coveredFrom /\ s.ended <= s.coveredFrom
      /\ s.ended = b.ended \/ s.ended <= q[n].minute
      /\ (IsNew(b, t) /\ b.segment # None) => b.segment <= s.coveredFrom
    BY <1>1, EnteredKeeps
<1> HIDE DEF s
<1>7. Case(q, now, s, heard, blind, srv)
    BY <1>1, <1>6 DEF Case
<1>8. b.coveredFrom \in Int /\ s.coveredFrom \in Int /\ s.ended \in Int
    BY <1>1, <1>6, BookTyped DEF BookInv
<1>9. last.kind = "tick" /\ CloseOf(q[n].minute) <= CloseOf(last.minute)
    <2>1. PICK l \in n .. Len(q) : last = TickOf(q, l)
        BY DEF Reading
    <2>2. l \in 1 .. Len(q) /\ n <= l
        BY <1>1, <1>2
    <2>3. q[n].minute <= q[l].minute /\ q[l].minute \in Minute
        BY <1>1, <2>2, TapeFacts
    <2> QED BY <1>3, <2>1, <2>3, CloseOrder DEF TickOf
<1> QED BY <1>1, <1>2, <1>3, <1>4, <1>5, <1>6, <1>7, <1>8, <1>9 DEF s

\* Read before: it is recognised by its total, or nothing of it is covered.
LEMMA AgainKeeps ==
    ASSUME NEW q, NEW now, NEW last, NEW b, NEW heard, NEW blind, NEW srv, NEW n,
           Reading(q, now, last, b, heard, blind, srv, n), Again(q, b, heard, n)
    PROVE  LET e == AddTick(b, TickOf(q, n)) IN
           /\ BookInv(q, now, e, heard, blind, srv)
           /\ Counting(q, last, e, TRUE, heard) /\ e.firstDay = b.firstDay
           /\ e.lastTotal = q[n].total /\ e.segment = CloseOf(q[n].minute)
           /\ e.ended = b.ended \/ e.ended <= q[n].minute
<1> DEFINE t == TickOf(q, n)
<1> DEFINE s == Entered(b, t)
<1> DEFINE e == AddTick(b, t)
<1>1. /\ TapeInv(q, now) /\ now \in Minute /\ BookTypes(b, now)
      /\ Len(q) \in Nat /\ heard \in Nat /\ heard <= Len(q) /\ n \in Nat /\ n \in 1 .. Len(q)
      /\ q[n].minute \in Minute /\ q[n].minute \in Nat /\ q[n].total \in Nat
      /\ t.minute = q[n].minute /\ t.total = q[n].total
      /\ CloseOf(q[n].minute) \in Nat /\ CloseOf(q[n].minute) # None
      /\ b.coveredFrom # None /\ b.coveredFrom \in Int
      /\ Case(q, now, s, heard, blind, srv)
      /\ s.segment = CloseOf(q[n].minute) /\ s.firstDay = b.firstDay
      /\ s.lastTotal = b.lastTotal /\ s.coveredFrom # None
      /\ b.coveredFrom <= s.coveredFrom /\ s.ended <= s.coveredFrom
      /\ s.coveredFrom \in Int /\ s.ended \in Int
      /\ s.ended = b.ended \/ s.ended <= q[n].minute
      /\ last.kind = "tick" /\ CloseOf(q[n].minute) <= CloseOf(last.minute)
    BY ReadingFacts
<1>2. n <= heard /\ (b.lastTotal = None \/ (t.total = b.lastTotal /\ CloseOf(t.minute) = b.segment))
    BY DEF Again, Match
<1>3. Counting(q, last, b, TRUE, heard)
    BY DEF Reading
<1>4. e = LET g == IF s.lastTotal # None /\ ~Follows(s, t, IsNew(b, t)) THEN Gapped(s, t) ELSE s
          IN IF Repeated(s, t, IsNew(b, t)) THEN s ELSE Newest(g, t)
    BY AddTickIs
<1> HIDE DEF s, e
<1>5. CASE b.lastTotal # None
    <2>1. t.total = b.lastTotal /\ CloseOf(t.minute) = b.segment
        BY <1>2, <1>5
    <2>2. Repeated(s, t, IsNew(b, t))
        BY <1>1, <1>5, <2>1 DEF Repeated, IsNew
    <2>3. e = s
        BY <1>4, <2>2
    <2>4. PICK at \in 1 .. heard :
            /\ q[at].total = b.lastTotal /\ CloseOf(q[at].minute) = b.segment
            /\ \A k \in at + 1 .. heard : q[k].minute < b.coveredFrom
        BY <1>3, <1>5 DEF Counting
    <2>5. \A k \in at + 1 .. heard : q[k].minute < s.coveredFrom
        <3> TAKE k \in at + 1 .. heard
        <3>1. k \in 1 .. Len(q)
            BY <1>1, <2>4
        <3>2. q[k].minute \in Nat
            BY <1>1, <3>1, TapeFacts
        <3> QED BY <1>1, <2>4, <3>2
    <2>6. Counting(q, last, s, TRUE, heard)
        BY <1>1, <1>5, <2>1, <2>4, <2>5 DEF Counting
    <2>7. BookInv(q, now, s, heard, blind, srv)
        BY <1>1 DEF Case
    <2> QED BY <1>1, <2>1, <2>3, <2>6, <2>7 DEF e
<1>6. CASE b.lastTotal = None
    <2>1. ~Repeated(s, t, IsNew(b, t)) /\ s.lastTotal = None
        BY <1>1, <1>6 DEF Repeated
    <2>2. e = Newest(s, t)
        BY <1>4, <2>1
    <2>3. \A k \in 1 .. heard : q[k].minute < b.coveredFrom
        BY <1>3, <1>6 DEF Counting
    <2>4. \A k \in 1 .. heard : q[k].minute < s.coveredFrom
        <3> TAKE k \in 1 .. heard
        <3>1. k \in 1 .. Len(q)
            BY <1>1
        <3>2. q[k].minute \in Nat
            BY <1>1, <3>1, TapeFacts
        <3> QED BY <1>1, <2>3, <3>2
    <2>5. n \in 1 .. heard /\ q[n].minute < s.coveredFrom
        BY <1>1, <1>2, <2>4
    <2>6. /\ BookInv(q, now, e, heard, blind, srv)
          /\ e.firstDay = s.firstDay /\ e.coveredFrom = s.coveredFrom
          /\ e.lastTotal = q[n].total /\ e.segment = s.segment /\ e.ended = s.ended
        <3>1. Reads(q, s, heard, n, heard)
            BY <1>2, <2>5 DEF Reads
        <3> DEFINE x == Newest(s, TickOf(q, n))
        <3>2. /\ BookInv(q, now, x, heard, blind, srv)
              /\ x.firstDay = s.firstDay /\ x.coveredFrom = s.coveredFrom
              /\ x.lastTotal = q[n].total /\ x.segment = s.segment /\ x.ended = s.ended
            <4> HIDE DEF t
            <4> QED BY <1>1, <3>1, NewestKeeps
        <3> HIDE DEF x
        <3>3. e = x
            BY <2>2 DEF x
        <3> QED BY <3>2, <3>3
    <2>7. \A k \in n + 1 .. heard : q[k].minute < e.coveredFrom
        BY <1>1, <2>4, <2>6
    <2>8. e.lastTotal # None
        BY <1>1, <2>6, Numbers
    <2>9. Counting(q, last, e, TRUE, heard)
        BY <1>1, <2>5, <2>6, <2>7, <2>8 DEF Counting
    <2> QED BY <1>1, <1>6, <2>6, <2>9 DEF e
<1> QED BY <1>5, <1>6

\* News: what was missed before it is shown by its total, is of an ended segment,
\* or is hidden.
LEMMA FreshKeeps ==
    ASSUME NEW q, NEW now, NEW last, NEW b, NEW heard, NEW blind, NEW srv, NEW n,
           Reading(q, now, last, b, heard, blind, srv, n), Fresh(q, b, heard, srv, n),
           NEW more, blind \subseteq more, more \subseteq Minute,
           \A j \in heard + 1 .. n - 1 : HiddenAt(q, b, n, j) => q[j].minute \in more
    PROVE  LET e == AddTick(b, TickOf(q, n)) IN
           /\ BookInv(q, now, e, n, more, srv)
           /\ Counting(q, last, e, TRUE, n) /\ e.firstDay = b.firstDay
           /\ e.lastTotal = q[n].total /\ e.segment = CloseOf(q[n].minute)
           /\ e.ended = b.ended \/ e.ended <= q[n].minute
<1> DEFINE t == TickOf(q, n)
<1> DEFINE s == Entered(b, t)
<1> DEFINE new == IsNew(b, t)
<1> DEFINE gap == s.lastTotal # None /\ ~Follows(s, t, new)
<1> DEFINE g == IF gap THEN Gapped(s, t) ELSE s
<1> DEFINE e == AddTick(b, t)
<1>1. /\ TapeInv(q, now) /\ now \in Minute /\ BookTypes(b, now)
      /\ Len(q) \in Nat /\ heard \in Nat /\ heard <= Len(q) /\ n \in Nat /\ n \in 1 .. Len(q)
      /\ q[n].minute \in Minute /\ q[n].minute \in Nat /\ q[n].total \in Nat
      /\ t.minute = q[n].minute /\ t.total = q[n].total
      /\ CloseOf(q[n].minute) \in Nat /\ CloseOf(q[n].minute) # None
      /\ b.coveredFrom # None /\ b.coveredFrom \in Int
      /\ Case(q, now, s, heard, blind, srv)
      /\ s.segment = CloseOf(q[n].minute) /\ s.firstDay = b.firstDay
      /\ s.lastTotal = b.lastTotal /\ s.coveredFrom # None
      /\ b.coveredFrom <= s.coveredFrom /\ s.ended <= s.coveredFrom
      /\ s.coveredFrom \in Int /\ s.ended \in Int
      /\ s.ended = b.ended \/ s.ended <= q[n].minute
      /\ (new /\ b.segment # None) => b.segment <= s.coveredFrom
      /\ last.kind = "tick" /\ CloseOf(q[n].minute) <= CloseOf(last.minute)
    BY ReadingFacts
<1>2. /\ n > heard /\ b.ended <= q[n].minute + 1
      /\ \A m \in srv.minutes : srv.rows[m] > 0 => m <= q[n].minute
    BY DEF Fresh
<1>3. Counting(q, last, b, TRUE, heard)
    BY DEF Reading
<1>4. e = IF Repeated(s, t, new) THEN s ELSE Newest(g, t)
    BY AddTickIs
<1>F. \A u, x : Follows(s, u, x) <=> Follows(b, u, x)
    BY <1>1 DEF Follows
<1>5. new <=> b.segment # CloseOf(q[n].minute)
    BY <1>1 DEF IsNew
<1> HIDE DEF t, s, e, new
<1>6. ASSUME b.lastTotal # None
      PROVE  \E at \in 1 .. heard : /\ q[at].total = b.lastTotal
                                    /\ CloseOf(q[at].minute) = b.segment
                                    /\ ~new => q[n].total = b.lastTotal + (n - at)
    <2>1. PICK at \in 1 .. heard :
            q[at].total = b.lastTotal /\ CloseOf(q[at].minute) = b.segment
        BY <1>3, <1>6 DEF Counting
    <2>2. at \in 1 .. Len(q) /\ at < n
        BY <1>1, <1>2, <2>1
    <2>3. ~new => q[n].total = q[at].total + (n - at)
        <3>1. DOMAIN q = 1 .. Len(q)
            BY <1>1, TapeFacts
        <3> QED BY <1>1, <1>5, <2>1, <2>2, <3>1 DEF TapeInv
    <2> QED BY <2>1, <2>3
<1>7. ~Repeated(s, t, new)
    <2>1. CASE b.lastTotal = None \/ new
        BY <1>1, <2>1 DEF Repeated
    <2>2. CASE b.lastTotal # None /\ ~new
        <3>1. PICK at \in 1 .. heard : q[n].total = b.lastTotal + (n - at)
            BY <1>6, <2>2
        <3>2. b.lastTotal \in Int
            BY <1>1, BookTyped
        <3>3. q[n].total > b.lastTotal
            BY <1>1, <1>2, <3>1, <3>2
        <3> QED BY <1>1, <3>2, <3>3 DEF Repeated
    <2> QED BY <2>1, <2>2
<1>8. e = Newest(g, t)
    BY <1>4, <1>7
\* The trades missed before the tick.
<1>9. ASSUME ~gap, NEW j \in heard + 1 .. n - 1
      PROVE  q[j].minute < s.coveredFrom \/ q[j].minute \in more
    <2>0. j \in 1 .. Len(q)
        BY <1>1, <1>2
    <2>1. CASE b.lastTotal = None
        BY <2>1 DEF HiddenAt
    <2>2. CASE b.lastTotal # None /\ ~new
        <3>1. PICK at \in 1 .. heard : q[n].total = b.lastTotal + (n - at)
            BY <1>6, <2>2
        <3>2. q[n].total = b.lastTotal + 1
            BY <1>1, <1>9, <2>2 DEF Follows
        <3>3. b.lastTotal \in Int
            BY <1>1, BookTyped
        <3> QED BY <1>1, <1>2, <3>1, <3>2, <3>3
    <2>3. CASE b.lastTotal # None /\ new
        <3>1. Follows(b, t, TRUE)
            BY <1>1, <1>9, <1>F, <2>3
        <3>2. CASE CloseOf(q[j].minute) # b.segment
            BY <2>3, <3>1, <3>2 DEF HiddenAt, t, new
        <3>3. CASE CloseOf(q[j].minute) = b.segment
            <4>1. q[j].minute \in Minute /\ q[j].minute \in Nat
                BY <1>1, <2>0, TapeFacts
            <4>2. q[j].minute < b.segment /\ b.segment \in Nat /\ b.segment # None
                BY <3>3, <4>1, CloseFacts, Numbers
            <4>3. b.segment <= s.coveredFrom
                BY <1>1, <2>3, <4>2
            <4> QED BY <1>1, <4>1, <4>2, <4>3
        <3> QED BY <3>2, <3>3
    <2> QED BY <2>1, <2>2, <2>3
<1>10. /\ BookInv(q, now, g, heard, blind, srv)
       /\ g.segment = s.segment /\ g.firstDay = s.firstDay /\ g.ended = s.ended
       /\ g.coveredFrom # None /\ g.ended <= g.coveredFrom
       /\ \A j \in heard + 1 .. n - 1 : q[j].minute < g.coveredFrom \/ q[j].minute \in more
    <2>1. CASE gap
        <3>1. g = Gapped(s, t)
            BY <2>1
        <3>2. /\ BookInv(q, now, g, heard, blind, srv)
              /\ g.segment = s.segment /\ g.firstDay = s.firstDay /\ g.ended = s.ended
              /\ g.coveredFrom = q[n].minute + 1
            BY <1>1, <1>2, <3>1, GappedKeeps DEF t
        <3> HIDE DEF g, gap
        <3>3. g.coveredFrom # None /\ g.ended <= g.coveredFrom
            BY <1>1, <1>2, <3>2, Numbers, SMTT(30)
        <3>4. \A j \in heard + 1 .. n - 1 : q[j].minute < g.coveredFrom
            <4> TAKE j \in heard + 1 .. n - 1
            <4>1. j \in 1 .. Len(q) /\ j <= n
                BY <1>1, <1>2
            <4>2. q[j].minute <= q[n].minute /\ q[j].minute \in Nat
                BY <1>1, <4>1, TapeFacts
            <4> QED BY <1>1, <3>2, <4>2
        <3> QED BY <3>2, <3>3, <3>4
    <2>2. CASE ~gap
        <3>1. g = s
            BY <2>2
        <3>2. \A j \in heard + 1 .. n - 1 : q[j].minute < s.coveredFrom \/ q[j].minute \in more
            BY <1>9, <2>2
        <3> HIDE DEF g, gap
        <3> QED BY <1>1, <3>1, <3>2 DEF Case
    <2> QED BY <2>1, <2>2
<1> HIDE DEF g, gap
<1>11. Case(q, now, g, heard, blind, srv)
    BY <1>1, <1>10 DEF Case
<1>12. Case(q, now, g, n - 1, more, srv)
    <2>1. n - 1 \in heard .. Len(q)
        BY <1>1, <1>2
    <2> QED BY <1>10, <1>11, <2>1, HeardKeeps
<1>13. /\ BookInv(q, now, e, n, more, srv)
       /\ e.firstDay = g.firstDay /\ e.coveredFrom = g.coveredFrom
       /\ e.lastTotal = q[n].total /\ e.segment = g.segment /\ e.ended = g.ended
    <2>1. n = (n - 1) + 1 /\ n = n
        BY <1>1
    <2> DEFINE x == Newest(g, TickOf(q, n))
    <2>2. /\ BookInv(q, now, x, n, more, srv)
          /\ x.firstDay = g.firstDay /\ x.coveredFrom = g.coveredFrom
          /\ x.lastTotal = q[n].total /\ x.segment = g.segment /\ x.ended = g.ended
        <3> DEFINE h == n - 1
        <3>1. Case(q, now, g, h, more, srv) /\ Reads(q, g, h, n, n)
            BY <1>12, <2>1 DEF Reads
        <3> HIDE DEF h
        <3> QED BY <1>1, <3>1, NewestKeeps
    <2> HIDE DEF x
    <2>3. e = x
        BY <1>8 DEF x, t
    <2> QED BY <2>2, <2>3
<1>14. e.lastTotal # None
    BY <1>1, <1>13, Numbers
<1>15. Counting(q, last, e, TRUE, n)
    <2>1. \A k \in n + 1 .. n : q[k].minute < e.coveredFrom
        BY <1>1
    <2>2. n \in 1 .. n
        BY <1>1
    <2> QED BY <1>1, <1>10, <1>13, <1>14, <2>1, <2>2 DEF Counting
<1> QED BY <1>1, <1>10, <1>13, <1>15 DEF e, t

(***************************************************************************)
(* _drain.                                                                 *)
(***************************************************************************)
\* f holds what the reader is after each of the first k items.
Unrolled(f, k) == /\ f[0] = Reader
                  /\ \A i \in 1 .. k : f[i] = Drain(f[i - 1], inbox[i])

LEMMA DrainedUnfolds ==
    ASSUME Len(inbox) \in Nat
    PROVE  Unrolled(DrainedTo, Len(inbox))
<1> DEFINE L == Len(inbox)
<1> DEFINE Good == {k \in 0 .. L : \E f : DOMAIN f = 0 .. k /\ Unrolled(f, k)}
<1>0. L \in Nat
    OBVIOUS
<1>1. 0 \in Good
    <2> DEFINE f == [i \in 0 .. 0 |-> Reader]
    <2>1. DOMAIN f = 0 .. 0 /\ Unrolled(f, 0)
        BY DEF Unrolled
    <2> HIDE DEF f
    <2> QED BY <1>0, <2>1
<1>2. ASSUME NEW k \in 1 .. L, k - 1 \in Good
      PROVE  k \in Good
    <2>1. PICK f : DOMAIN f = 0 .. k - 1 /\ Unrolled(f, k - 1)
        BY <1>2
    <2> DEFINE g == [i \in 0 .. k |-> IF i = k THEN Drain(f[k - 1], inbox[k]) ELSE f[i]]
    <2>2. k \in Nat /\ k >= 1
        BY <1>0
    <2>3. g[0] = Reader
        BY <2>1, <2>2 DEF Unrolled
    <2>4. ASSUME NEW i \in 1 .. k
          PROVE  g[i] = Drain(g[i - 1], inbox[i])
        <3>1. i - 1 \in 0 .. k /\ i - 1 # k /\ i \in 0 .. k
            BY <2>2
        <3>2. g[i - 1] = f[i - 1]
            BY <3>1
        <3>3. CASE i = k
            BY <2>2, <3>2, <3>3
        <3>4. CASE i # k
            <4>1. i \in 1 .. k - 1
                BY <2>2, <3>4
            <4>2. f[i] = Drain(f[i - 1], inbox[i])
                BY <2>1, <4>1 DEF Unrolled
            <4>3. g[i] = f[i]
                BY <3>1, <3>4
            <4> HIDE DEF g
            <4> QED BY <3>2, <4>2, <4>3
        <3> QED BY <3>3, <3>4
    <2>5. DOMAIN g = 0 .. k
        OBVIOUS
    <2> HIDE DEF g
    <2>6. Unrolled(g, k)
        BY <2>3, <2>4 DEF Unrolled
    <2> QED BY <2>5, <2>6
<1>3. \A k \in 0 .. L : k \in Good
    <2> HIDE DEF Good, L
    <2> QED BY <1>0, <1>1, <1>2, Upward
<1>4. L \in Good
    <2> HIDE DEF Good
    <2> QED BY <1>0, <1>3
<1>5. PICK f : DOMAIN f = 0 .. L /\ Unrolled(f, L)
    BY <1>4
<1> DEFINE P(h) == h = [k \in 0 .. L |-> IF k = 0 THEN Reader ELSE Drain(h[k - 1], inbox[k])]
<1> DEFINE w == [k \in 0 .. L |-> f[k]]
<1>6. P(w)
    <2>1. ASSUME NEW k \in 0 .. L
          PROVE  w[k] = IF k = 0 THEN Reader ELSE Drain(w[k - 1], inbox[k])
        <3>1. CASE k = 0
            BY <1>5, <3>1 DEF Unrolled
        <3>2. CASE k # 0
            <4>1. k \in 1 .. L /\ k - 1 \in 0 .. L
                BY <1>0, <3>2
            <4>2. w[k] = f[k] /\ w[k - 1] = f[k - 1]
                BY <4>1
            <4>3. f[k] = Drain(f[k - 1], inbox[k])
                BY <1>5, <4>1 DEF Unrolled
            <4> HIDE DEF w
            <4> QED BY <3>2, <4>2, <4>3
        <3> QED BY <3>1, <3>2
    <2>2. w = [k \in 0 .. L |-> w[k]]
        OBVIOUS
    <2> HIDE DEF w
    <2> QED BY <2>1, <2>2
<1> DEFINE d == CHOOSE h : P(h)
<1>7. P(d)
    <2>1. \E h : P(h)
        BY <1>6
    <2> HIDE DEF P
    <2> QED BY <2>1, Zenon
<1>8. DrainedTo = d
    BY DEF DrainedTo
<1> HIDE DEF d
<1>9. d[0] = Reader
    BY <1>0, <1>7
<1>10. ASSUME NEW i \in 1 .. L
       PROVE  d[i] = Drain(d[i - 1], inbox[i])
    <2>1. i \in 0 .. L /\ i # 0
        BY <1>0
    <2> QED BY <1>7, <2>1
<1> QED BY <1>8, <1>9, <1>10 DEF Unrolled

\* What the reader meets while it drains the inbox.
Inbound == /\ clock \in Minute /\ TapeInv(tape, clock) /\ WireInv(tape, inbox, feed.last)
           /\ ServedInv(tape, clock, served)
           /\ Unread(served, inbox, feed.last, unseen.heard)
           /\ unseen.trades \subseteq DOMAIN tape /\ unseen.heard \in 0 .. Len(tape)

LEMMA InboxFacts ==
    ASSUME Inbound, NEW i \in 1 .. Len(inbox)
    PROVE  /\ Len(inbox) \in Nat /\ DOMAIN inbox = 1 .. Len(inbox)
           /\ \/ inbox[i].kind = "lost" /\ inbox[i].n \in 0 .. Len(tape)
              \/ /\ inbox[i].kind = "tick" /\ inbox[i].n \in 1 .. Len(tape)
                 /\ inbox[i] = TickOf(tape, inbox[i].n)
                 /\ inbox[i].minute = tape[inbox[i].n].minute
                 /\ inbox[i].total = tape[inbox[i].n].total
<1>1. inbox \in Seq(Items(tape))
    BY DEF Inbound, WireInv
<1>2. Len(inbox) \in Nat /\ DOMAIN inbox = 1 .. Len(inbox)
    BY <1>1
<1>3. inbox[i] \in Items(tape)
    BY <1>1, ElementOfSeq
<1>4. DOMAIN tape = 1 .. Len(tape)
    BY TapeFacts DEF Inbound
<1> QED BY <1>2, <1>3, <1>4 DEF Items, TickOf, LostOf

LEMMA WireFacts ==
    ASSUME NEW q, NEW now \in Minute, TapeInv(q, now), NEW box, NEW last, WireInv(q, box, last)
    PROVE  /\ Len(box) \in Nat /\ DOMAIN box = 1 .. Len(box) /\ Len(box) <= InboxSize
           /\ \A i \in 1 .. Len(box) :
                 /\ box[i] \in Items(q)
                 /\ \/ box[i].kind = "lost" /\ box[i].n \in 0 .. Len(q)
                    \/ /\ box[i].kind = "tick" /\ box[i].n \in 1 .. Len(q)
                       /\ box[i] = TickOf(q, box[i].n)
                       /\ box[i].minute = q[box[i].n].minute
                       /\ box[i].minute \in Minute /\ box[i].minute \in Nat
                       /\ last.kind = "tick" /\ last.n \in box[i].n .. Len(q)
                       /\ last = TickOf(q, last.n)
           /\ \A i, j \in 1 .. Len(box) :
                 (i < j /\ box[i].kind = "tick" /\ box[j].kind = "tick") => box[i].n < box[j].n
           /\ last.kind = "tick" => last.n \in 1 .. Len(q) /\ last = TickOf(q, last.n)
<1>1. box \in Seq(Items(q))
    BY DEF WireInv
<1>2. Len(box) \in Nat /\ DOMAIN box = 1 .. Len(box)
    BY <1>1
<1>3. DOMAIN q = 1 .. Len(q) /\ Len(q) \in Nat
    BY TapeFacts
<1>4. last.kind = "tick" => last.n \in 1 .. Len(q) /\ last = TickOf(q, last.n)
    BY <1>3 DEF WireInv, TickOf
<1>5. ASSUME NEW i \in 1 .. Len(box)
      PROVE  /\ box[i] \in Items(q)
             /\ \/ box[i].kind = "lost" /\ box[i].n \in 0 .. Len(q)
                \/ /\ box[i].kind = "tick" /\ box[i].n \in 1 .. Len(q)
                   /\ box[i] = TickOf(q, box[i].n)
                   /\ box[i].minute = q[box[i].n].minute
                   /\ box[i].minute \in Minute /\ box[i].minute \in Nat
                   /\ last.kind = "tick" /\ last.n \in box[i].n .. Len(q)
                   /\ last = TickOf(q, last.n)
    <2>1. box[i] \in Items(q)
        BY <1>1, ElementOfSeq
    <2>2. CASE \E n \in 0 .. Len(q) : box[i] = LostOf(n)
        BY <2>1, <2>2 DEF LostOf
    <2>3. CASE \E n \in 1 .. Len(q) : box[i] = TickOf(q, n)
        <3>1. PICK n \in 1 .. Len(q) : box[i] = TickOf(q, n)
            BY <2>3
        <3>2. box[i].kind = "tick" /\ box[i].n = n /\ box[i].minute = q[n].minute
            BY <3>1 DEF TickOf
        <3>3. last.kind = "tick" /\ box[i].n <= last.n
            BY <1>2, <3>2 DEF WireInv
        <3>4. last.n \in box[i].n .. Len(q)
            BY <1>3, <1>4, <3>2, <3>3
        <3>5. q[n].minute \in Minute /\ q[n].minute \in Nat
            BY TapeFacts
        <3> QED BY <1>4, <2>1, <3>1, <3>2, <3>3, <3>4, <3>5
    <2> QED BY <1>3, <2>1, <2>2, <2>3 DEF Items
<1>6. \A i, j \in 1 .. Len(box) :
         (i < j /\ box[i].kind = "tick" /\ box[j].kind = "tick") => box[i].n < box[j].n
    BY <1>2 DEF WireInv
<1>7. Len(box) <= InboxSize
    BY DEF WireInv
<1> QED BY <1>2, <1>4, <1>5, <1>6, <1>7

\* The reader comes to a tick that is news: what that leaves ahead of it.
LEMMA AheadFresh ==
    ASSUME NEW q, NEW now \in Minute, TapeInv(q, now), NEW box, NEW last, WireInv(q, box, last),
           NEW trades, NEW b, NEW heard \in Nat, NEW i \in 1 .. Len(box),
           Ahead(q, box, trades, last, b, heard, i - 1),
           NEW n, box[i].kind = "tick", n = box[i].n, n > heard,
           NEW e, e.ended \in Int, e.ended = b.ended \/ e.ended <= q[n].minute,
           e.lastTotal = q[n].total, e.segment = CloseOf(q[n].minute)
    PROVE  Ahead(q, box, trades, last, e, n, i)
<1>0. /\ Len(box) \in Nat /\ Len(q) \in Nat /\ i \in Nat /\ (i - 1) + 1 = i
      /\ n \in 1 .. Len(q) /\ n \in Nat /\ box[i] = TickOf(q, n)
      /\ q[n].minute \in Minute /\ q[n].minute \in Nat
      /\ last.kind = "tick" /\ last.n \in n .. Len(q) /\ last.n \in Nat
    BY WireFacts, TapeFacts
<1>1. ASSUME NEW j \in i + 1 .. Len(box), box[j].kind = "tick"
      PROVE  /\ j \in 1 .. Len(box) /\ j \in i .. Len(box) /\ box[j].n > n
             /\ box[j].n \in 1 .. Len(q) /\ box[j].minute = q[box[j].n].minute
             /\ q[n].minute <= box[j].minute /\ box[j].minute \in Nat /\ box[j].minute \in Minute
    <2>1. j \in 1 .. Len(box) /\ i < j /\ j \in i .. Len(box)
        BY <1>0
    <2>2. box[i].n < box[j].n
        BY <1>1, <2>1, WireFacts
    <2>3. /\ box[j].n \in 1 .. Len(q) /\ box[j].minute = q[box[j].n].minute
          /\ box[j].minute \in Nat /\ box[j].minute \in Minute
        BY <1>1, <2>1, WireFacts
    <2>4. n <= box[j].n
        BY <1>0, <2>2, <2>3
    <2> QED BY <1>0, <2>1, <2>2, <2>3, <2>4, TapeFacts
<1>2. ASSUME NEW k \in n + 1 .. Len(q), k \notin trades
      PROVE  \E j \in i + 1 .. Len(box) : box[j] = TickOf(q, k)
    <2>1. k \in heard + 1 .. Len(q) /\ k # n
        BY <1>0
    <2>2. PICK j \in i .. Len(box) : box[j] = TickOf(q, k)
        BY <1>0, <1>2, <2>1 DEF Ahead
    <2>3. j # i
        BY <1>0, <2>1, <2>2 DEF TickOf
    <2>4. j \in i + 1 .. Len(box)
        BY <1>0, <2>3
    <2> QED BY <2>2, <2>4
<1>3. ASSUME NEW j \in i + 1 .. Len(box), box[j].kind = "tick"
      PROVE  box[j].n > n /\ e.ended <= box[j].minute + 1 /\ e.segment <= CloseOf(box[j].minute)
    <2>1. CloseOf(q[n].minute) <= CloseOf(box[j].minute)
        BY <1>0, <1>1, <1>3, CloseOrder
    <2>2. b.ended <= box[j].minute + 1
        <3>1. j # 1
            BY <1>0
        <3> QED BY <1>0, <1>1, <1>3, <3>1 DEF Ahead
    <2>3. e.ended <= box[j].minute + 1
        BY <1>0, <1>1, <1>3, <2>2, SMTT(30)
    <2> QED BY <1>1, <1>3, <2>1, <2>3
<1>4. \/ last.n <= n /\ Match(e, last)
      \/ \E j \in i + 1 .. Len(box) : box[j] = last \/ box[j].kind = "lost"
    <2>1. ~(last.n <= heard)
        BY <1>0
    <2>2. PICK j \in i .. Len(box) : box[j] = last \/ box[j].kind = "lost"
        BY <1>0, <2>1 DEF Ahead
    <2>3. CASE j = i
        <3>1. last = TickOf(q, n)
            BY <1>0, <2>2, <2>3 DEF TickOf
        <3>2. last.n = n /\ last.total = q[n].total /\ last.minute = q[n].minute
            BY <3>1 DEF TickOf
        <3>3. Match(e, last)
            BY <3>2 DEF Match
        <3>4. last.n <= n
            <4>1. last.n = n
                BY <3>2, Zenon
            <4>2. n \in Nat
                BY <1>0, Zenon
            <4>3. n <= n
                BY <4>2
            <4> QED BY <4>1, <4>3, Zenon
        <3> QED BY <3>3, <3>4
    <2>4. CASE j # i
        <3>1. j \in i + 1 .. Len(box)
            BY <1>0, <2>4
        <3> QED BY <2>2, <3>1
    <2> QED BY <2>3, <2>4
<1> QED BY <1>2, <1>3, <1>4 DEF Ahead

\* It comes to one that was read before.
LEMMA AheadAgain ==
    ASSUME NEW q, NEW now \in Minute, TapeInv(q, now), NEW box, NEW last, WireInv(q, box, last),
           NEW trades, NEW b, NEW heard \in Nat, 1 \in 1 .. Len(box),
           Ahead(q, box, trades, last, b, heard, 0),
           NEW n, box[1].kind = "tick", n = box[1].n, n <= heard,
           NEW e, e.ended \in Int, e.ended = b.ended \/ e.ended <= q[n].minute,
           e.lastTotal = q[n].total, e.segment = CloseOf(q[n].minute)
    PROVE  Ahead(q, box, trades, last, e, heard, 1)
<1>0. /\ Len(box) \in Nat /\ Len(q) \in Nat /\ 0 + 1 = 1 /\ 1 + 1 = 2
      /\ n \in 1 .. Len(q) /\ n \in Nat /\ box[1] = TickOf(q, n)
      /\ q[n].minute \in Minute /\ q[n].minute \in Nat
      /\ last.kind = "tick" /\ last.n \in n .. Len(q) /\ last.n \in Nat
      /\ last = TickOf(q, last.n)
    BY WireFacts, TapeFacts
<1>1. ASSUME NEW j \in 2 .. Len(box), box[j].kind = "tick"
      PROVE  /\ j \in 1 .. Len(box) /\ j # 1 /\ box[j].n > n
             /\ box[j].n \in 1 .. Len(q) /\ box[j].minute = q[box[j].n].minute
             /\ q[n].minute <= box[j].minute /\ box[j].minute \in Nat /\ box[j].minute \in Minute
    <2>1. j \in 1 .. Len(box) /\ 1 < j /\ j # 1
        BY <1>0
    <2>2. box[1].n < box[j].n
        BY <1>1, <2>1, WireFacts
    <2>3. /\ box[j].n \in 1 .. Len(q) /\ box[j].minute = q[box[j].n].minute
          /\ box[j].minute \in Nat /\ box[j].minute \in Minute
        BY <1>1, <2>1, WireFacts
    <2>4. n <= box[j].n
        BY <1>0, <2>2, <2>3
    <2> QED BY <1>0, <2>1, <2>2, <2>3, <2>4, TapeFacts
<1>2. ASSUME NEW k \in heard + 1 .. Len(q), k \notin trades
      PROVE  \E j \in 2 .. Len(box) : box[j] = TickOf(q, k)
    <2>1. k # n
        BY <1>0
    <2>2. PICK j \in 1 .. Len(box) : box[j] = TickOf(q, k)
        BY <1>0, <1>2 DEF Ahead
    <2>3. j # 1
        BY <1>0, <2>1, <2>2 DEF TickOf
    <2>4. j \in 2 .. Len(box)
        BY <1>0, <2>3
    <2> QED BY <2>2, <2>4
<1>3. ASSUME NEW j \in 2 .. Len(box), box[j].kind = "tick"
      PROVE  box[j].n > heard /\ e.ended <= box[j].minute + 1 /\ e.segment <= CloseOf(box[j].minute)
    <2>1. CloseOf(q[n].minute) <= CloseOf(box[j].minute)
        BY <1>0, <1>1, <1>3, CloseOrder
    <2>2. b.ended <= box[j].minute + 1 /\ box[j].n > heard
        BY <1>0, <1>1, <1>3 DEF Ahead
    <2>3. e.ended <= box[j].minute + 1
        BY <1>0, <1>1, <1>3, <2>2, SMTT(30)
    <2> QED BY <2>1, <2>2, <2>3
<1>4. \/ last.n <= heard /\ Match(e, last)
      \/ \E j \in 2 .. Len(box) : box[j] = last \/ box[j].kind = "lost"
    <2>1. CASE last.n <= heard
        <3>1. last = box[1]
            <4>1. 1 \in 0 + 1 .. Len(box) /\ ~(box[1].n > heard) /\ box[1].kind = "tick"
                BY <1>0
            <4> QED BY <2>1, <4>1 DEF Ahead
        <3>2. last.total = q[n].total /\ last.minute = q[n].minute
            BY <1>0, <3>1 DEF TickOf
        <3> QED BY <1>0, <2>1, <3>2 DEF Match
    <2>2. CASE ~(last.n <= heard)
        <3>1. PICK j \in 1 .. Len(box) : box[j] = last \/ box[j].kind = "lost"
            BY <1>0, <2>2 DEF Ahead
        <3>2. j # 1
            <4>1. box[1].kind = "tick" /\ box[1].n = n
                OBVIOUS
            <4>2. box[1] # last
                BY <2>2, <4>1
            <4> QED BY <3>1, <4>1, <4>2
        <3>3. j \in 2 .. Len(box)
            BY <1>0, <3>2
        <3> QED BY <3>1, <3>3
    <2> QED BY <2>1, <2>2
<1> QED BY <1>0, <1>2, <1>3, <1>4 DEF Ahead

LEMMA MaxOfTwo ==
    ASSUME NEW a \in Nat, NEW b \in Nat
    PROVE  Max({a, b}) \in {a, b} /\ a <= Max({a, b}) /\ b <= Max({a, b})
<1> DEFINE r == IF a <= b THEN b ELSE a
<1>1. r \in Nat /\ {a, b} \in SUBSET (0 .. r) /\ {a, b} # {}
    OBVIOUS
<1> HIDE DEF r
<1>2. Max({a, b}) \in {a, b} /\ \A x \in {a, b} : x <= Max({a, b})
    BY <1>1, MaxOfNaturals
<1> QED BY <1>2

\* The news of a lost connection.
LEMMA DrainLost ==
    ASSUME Inbound, NEW i \in 1 .. Len(inbox), NEW s, ReaderInv(s, i - 1),
           unseen.heard <= s.heard, inbox[i].kind = "lost"
    PROVE  LET d == Drain(s, inbox[i]) IN
           /\ ReaderInv(d, i) /\ unseen.heard <= d.heard /\ d.book.firstDay = s.book.firstDay
<1> DEFINE item == inbox[i]
<1> DEFINE d == Drain(s, item)
<1>1. /\ s.heard \in 0 .. Len(tape) /\ s.blind \subseteq Minute /\ s.lost \in BOOLEAN
      /\ s.sub \in BOOLEAN
      /\ Case(tape, clock, s.book, s.heard, s.blind, served)
      /\ Counting(tape, feed.last, s.book, s.sub, s.heard)
      /\ DOMAIN s = {"book", "sub", "lost", "heard", "blind"}
    BY DEF ReaderInv, Inbound, Case
<1>2. /\ item.kind = "lost" /\ item.n \in 0 .. Len(tape) /\ Len(tape) \in Nat
      /\ s.heard \in Nat /\ unseen.heard \in Nat
    <2>1. Len(tape) \in Nat
        BY TapeFacts DEF Inbound
    <2>2. item.n \in 0 .. Len(tape)
        BY InboxFacts
    <2> QED BY <1>1, <2>1, <2>2 DEF Inbound
<1> DEFINE later == Max({s.heard, item.n})
<1>3. later \in s.heard .. Len(tape) /\ later \in 0 .. Len(tape) /\ unseen.heard <= later
    <2>1. item.n \in Nat
        BY <1>2
    <2>2. later \in {s.heard, item.n} /\ s.heard <= later
        BY <1>2, <2>1, MaxOfTwo
    <2> HIDE DEF later
    <2> QED BY <1>1, <1>2, <2>2
<1>4. d = [s EXCEPT !.book = ConnectionLost(@), !.lost = @ \/ s.sub,
                    !.sub = FALSE, !.heard = Max({@, item.n})]
    BY <1>2 DEF Drain
<1> HIDE DEF item
<1> DEFINE b == ConnectionLost(s.book)
<1>5. /\ DOMAIN d = DOMAIN s /\ d.book = b /\ d.lost \in BOOLEAN /\ d.sub = FALSE
      /\ d.heard = later /\ d.blind = s.blind
    BY <1>1, <1>4
<1> HIDE DEF d, b, later
<1>6. /\ BookInv(tape, clock, b, s.heard, s.blind, served)
      /\ b.firstDay = s.book.firstDay /\ b.coveredFrom = None /\ b.lastTotal = None
      /\ b.segment = s.book.segment
    BY <1>1, LostKeeps DEF b
<1>7. Case(tape, clock, b, later, s.blind, served)
    <2>1. Case(tape, clock, b, s.heard, s.blind, served)
        BY <1>1, <1>6 DEF Case
    <2>2. s.blind \subseteq s.blind /\ s.blind \subseteq Minute
        BY <1>1
    <2> QED BY <1>3, <1>6, <2>1, <2>2, HeardKeeps
<1>8. Counting(tape, feed.last, b, FALSE, later)
    BY <1>1, <1>6 DEF Counting
<1>9. ReaderInv(d, i)
    BY <1>1, <1>3, <1>5, <1>7, <1>8 DEF ReaderInv, Case
<1> QED BY <1>3, <1>5, <1>6, <1>9 DEF d, item

\* A tick, to a reader that is subscribed.
LEMMA DrainTick ==
    ASSUME Inbound, NEW i \in 1 .. Len(inbox), NEW s, ReaderInv(s, i - 1),
           unseen.heard <= s.heard, inbox[i].kind = "tick", s.sub
    PROVE  LET d == Drain(s, inbox[i]) IN
           /\ ReaderInv(d, i) /\ unseen.heard <= d.heard /\ d.book.firstDay = s.book.firstDay
<1> DEFINE item == inbox[i]
<1> DEFINE n == inbox[i].n
<1> DEFINE b == s.book
<1> DEFINE e == AddTick(b, item)
<1> DEFINE d == Drain(s, item)
<1> DEFINE more == s.blind \cup {tape[k].minute : k \in Hidden(s, item)}
<1>1. /\ s.heard \in 0 .. Len(tape) /\ s.blind \subseteq Minute /\ s.lost \in BOOLEAN
      /\ s.sub = TRUE
      /\ Case(tape, clock, b, s.heard, s.blind, served)
      /\ Counting(tape, feed.last, b, TRUE, s.heard)
      /\ DOMAIN s = {"book", "sub", "lost", "heard", "blind"}
      /\ Ahead(tape, inbox, unseen.trades, feed.last, b, s.heard, i - 1)
    BY DEF ReaderInv, Inbound, Case
<1>2. /\ clock \in Minute /\ TapeInv(tape, clock) /\ WireInv(tape, inbox, feed.last)
      /\ unseen.heard \in Nat /\ s.heard \in Nat /\ Len(tape) \in Nat
      /\ DOMAIN tape = 1 .. Len(tape)
    <2>1. clock \in Minute /\ TapeInv(tape, clock)
        BY DEF Inbound
    <2>2. Len(tape) \in Nat /\ DOMAIN tape = 1 .. Len(tape)
        BY <2>1, TapeFacts
    <2> QED BY <1>1, <2>1, <2>2 DEF Inbound
<1>3. /\ item.kind = "tick" /\ n \in 1 .. Len(tape) /\ n \in Nat /\ item = TickOf(tape, n)
      /\ item.minute = tape[n].minute
      /\ feed.last.kind = "tick" /\ feed.last.n \in n .. Len(tape)
      /\ feed.last = TickOf(tape, feed.last.n)
      /\ Len(inbox) \in Nat /\ DOMAIN inbox = 1 .. Len(inbox) /\ i \in Nat
    BY <1>2, WireFacts
<1>4. d = [s EXCEPT !.book = AddTick(@, item), !.heard = Max({@, item.n}),
                    !.blind = @ \cup {tape[k].minute : k \in Hidden(s, item)}]
    BY <1>1, <1>3 DEF Drain
<1>5. /\ DOMAIN d = DOMAIN s /\ d.book = e /\ d.lost = s.lost /\ d.sub = TRUE
      /\ d.heard = Max({s.heard, n}) /\ d.blind = more
    <2> HIDE DEF more
    <2>1. d = [s EXCEPT !.book = AddTick(@, item), !.heard = Max({@, item.n}), !.blind = more]
        BY <1>1, <1>4 DEF more
    <2> HIDE DEF d
    <2> QED BY <1>1, <2>1
<1>6. s.blind \subseteq more /\ more \subseteq Minute
    <2>1. \A k \in unseen.trades : tape[k].minute \in Minute
        BY <1>2, TapeFacts DEF Inbound
    <2>2. Hidden(s, item) \subseteq unseen.trades
        BY DEF Hidden
    <2> QED BY <1>1, <2>1, <2>2
<1>7. Reading(tape, clock, feed.last, b, s.heard, s.blind, served, n)
    <2>1. b.segment <= CloseOf(tape[n].minute)
        <3>1. i \in (i - 1) + 1 .. Len(inbox)
            BY <1>3
        <3> QED BY <1>1, <1>3, <3>1 DEF Ahead
    <2> QED BY <1>1, <1>3, <2>1 DEF Reading
<1> HIDE DEF item, d, more, e
<1>8. CASE n > s.heard
    <2>1. b.ended <= tape[n].minute + 1
        <3>1. i \in (i - 1) + 1 .. Len(inbox) /\ ~(n <= s.heard)
            BY <1>2, <1>3, <1>8
        <3> QED BY <1>1, <1>3, <3>1 DEF Ahead, item
    <2>2. Fresh(tape, b, s.heard, served, n)
        <3>1. n > unseen.heard
            BY <1>2, <1>3, <1>8
        <3>2. \A m \in served.minutes : served.rows[m] > 0 => m <= tape[n].minute
            BY <1>3, <3>1 DEF Inbound, Unread, item
        <3> QED BY <1>8, <2>1, <3>2 DEF Fresh
    <2>3. ASSUME NEW j \in s.heard + 1 .. n - 1, HiddenAt(tape, b, n, j)
          PROVE  tape[j].minute \in more
        <3>1. j \in s.heard + 1 .. Len(tape) /\ j # n /\ j < n /\ s.heard < j /\ j \in Nat
            BY <1>2, <1>3
        <3>2. ASSUME NEW k \in (i - 1) + 1 .. Len(inbox), inbox[k] = TickOf(tape, j)
              PROVE  FALSE
            <4>1. inbox[k].n = j /\ inbox[k].kind = "tick"
                BY <3>2 DEF TickOf
            <4>2. k # i
                BY <3>1, <4>1 DEF item
            <4>3. k \in 1 .. Len(inbox) /\ i < k
                BY <1>3, <4>2
            <4>4. inbox[i].n < inbox[k].n
                BY <1>2, <1>3, <4>1, <4>3, WireFacts DEF item
            <4> QED BY <1>3, <3>1, <4>1, <4>4
        <3>3. j \in unseen.trades
            BY <1>1, <3>1, <3>2 DEF Ahead
        <3>4. j \in Hidden(s, item)
            <4>1. item.n = n
                BY DEF item
            <4> QED BY <1>3, <2>3, <3>1, <3>3, <4>1 DEF Hidden, HiddenAt, IsNew, Follows
        <3> QED BY <3>4 DEF more
    <2>4. /\ BookInv(tape, clock, e, n, more, served)
          /\ Counting(tape, feed.last, e, TRUE, n) /\ e.firstDay = b.firstDay
          /\ e.lastTotal = tape[n].total /\ e.segment = CloseOf(tape[n].minute)
          /\ e.ended = b.ended \/ e.ended <= tape[n].minute
        <3> DEFINE x == AddTick(b, TickOf(tape, n))
        <3>1. /\ BookInv(tape, clock, x, n, more, served)
              /\ Counting(tape, feed.last, x, TRUE, n) /\ x.firstDay = b.firstDay
              /\ x.lastTotal = tape[n].total /\ x.segment = CloseOf(tape[n].minute)
              /\ x.ended = b.ended \/ x.ended <= tape[n].minute
            <4> HIDE DEF n, b
            <4> QED BY <1>6, <1>7, <2>2, <2>3, FreshKeeps
        <3>2. e = x
            BY <1>3 DEF e
        <3> HIDE DEF x
        <3> QED BY <3>1, <3>2
    <2>5. d.heard = n
        <3>1. Max({s.heard, n}) \in {s.heard, n} /\ n <= Max({s.heard, n})
            BY <1>2, <1>3, MaxOfTwo
        <3> HIDE DEF n
        <3> QED BY <1>2, <1>3, <1>5, <1>8, <3>1
    <2>6. e.ended \in Int
        BY <1>2, <2>4, BookTyped DEF BookInv
    <2>7. Ahead(tape, inbox, unseen.trades, feed.last, e, n, i)
        <3>1. inbox[i].kind = "tick" /\ n = inbox[i].n /\ i \in 1 .. Len(inbox)
            BY <1>3
        <3> HIDE DEF n, b
        <3> QED BY <1>1, <1>2, <1>8, <2>4, <2>6, <3>1, AheadFresh
    <2>8. ReaderInv(d, i)
        <3> HIDE DEF n
        <3>1. n \in 0 .. Len(tape)
            BY <1>2, <1>3
        <3> QED BY <1>1, <1>5, <1>6, <2>4, <2>5, <2>7, <3>1 DEF ReaderInv
    <2>9. unseen.heard <= d.heard
        <3> HIDE DEF n
        <3> QED BY <1>2, <1>3, <1>8, <2>5
    <2> QED BY <1>5, <2>4, <2>8, <2>9 DEF d, item
<1>9. CASE ~(n > s.heard)
    <2>1. i = 1 /\ n <= s.heard /\ Match(b, item)
        <3>1. i \in (i - 1) + 1 .. Len(inbox)
            BY <1>3
        <3> QED BY <1>1, <1>3, <1>9, <3>1 DEF Ahead, item
    <2>2. Again(tape, b, s.heard, n)
        BY <1>3, <2>1 DEF Again
    <2>3. /\ BookInv(tape, clock, e, s.heard, s.blind, served)
          /\ Counting(tape, feed.last, e, TRUE, s.heard) /\ e.firstDay = b.firstDay
          /\ e.lastTotal = tape[n].total /\ e.segment = CloseOf(tape[n].minute)
          /\ e.ended = b.ended \/ e.ended <= tape[n].minute
        <3> DEFINE x == AddTick(b, TickOf(tape, n))
        <3>1. /\ BookInv(tape, clock, x, s.heard, s.blind, served)
              /\ Counting(tape, feed.last, x, TRUE, s.heard) /\ x.firstDay = b.firstDay
              /\ x.lastTotal = tape[n].total /\ x.segment = CloseOf(tape[n].minute)
              /\ x.ended = b.ended \/ x.ended <= tape[n].minute
            <4> HIDE DEF n, b
            <4> QED BY <1>7, <2>2, AgainKeeps
        <3>2. e = x
            BY <1>3 DEF e
        <3> HIDE DEF x
        <3> QED BY <3>1, <3>2
    <2>4. d.heard = s.heard
        <3>1. Max({s.heard, n}) \in {s.heard, n} /\ s.heard <= Max({s.heard, n})
            BY <1>2, <1>3, MaxOfTwo
        <3> HIDE DEF n
        <3> QED BY <1>2, <1>3, <1>5, <2>1, <3>1
    <2>5. more = s.blind
        <3>1. \A k \in Hidden(s, item) : s.heard < k /\ k < n /\ k \in 1 .. Len(tape)
            BY <1>2 DEF Hidden, Inbound, item
        <3>2. Hidden(s, item) = {}
            <4> HIDE DEF n
            <4> QED BY <1>2, <1>3, <2>1, <3>1
        <3> QED BY <3>2 DEF more
    <2>6. e.ended \in Int
        BY <1>2, <2>3, BookTyped DEF BookInv
    <2>7. Ahead(tape, inbox, unseen.trades, feed.last, e, s.heard, i)
        <3>1. inbox[1].kind = "tick" /\ n = inbox[1].n /\ 1 \in 1 .. Len(inbox)
            BY <1>3, <2>1
        <3>2. Ahead(tape, inbox, unseen.trades, feed.last, b, s.heard, 0)
            <4>1. i - 1 = 0
                BY <2>1
            <4> QED BY <1>1, <4>1
        <3>3. Ahead(tape, inbox, unseen.trades, feed.last, e, s.heard, 1)
            <4> HIDE DEF n, b
            <4> QED BY <1>1, <1>2, <2>1, <2>3, <2>6, <3>1, <3>2, AheadAgain
        <3> QED BY <2>1, <3>3
    <2>8. ReaderInv(d, i)
        BY <1>1, <1>5, <2>3, <2>4, <2>5, <2>7 DEF ReaderInv
    <2> QED BY <1>5, <2>3, <2>4, <2>8 DEF d, item
<1> QED BY <1>8, <1>9

\* Item by item, and so to the end of the inbox.
LEMMA DrainStep ==
    ASSUME Inbound, NEW i \in 1 .. Len(inbox), NEW s, ReaderInv(s, i - 1),
           unseen.heard <= s.heard
    PROVE  LET d == Drain(s, inbox[i]) IN
           /\ ReaderInv(d, i) /\ unseen.heard <= d.heard /\ d.book.firstDay = s.book.firstDay
<1>1. CASE inbox[i].kind = "lost"
    BY <1>1, DrainLost
<1>2. CASE inbox[i].kind = "tick" /\ s.sub
    BY <1>2, DrainTick
<1>3. CASE inbox[i].kind = "tick" /\ ~s.sub
    <2>1. Drain(s, inbox[i]) = s
        BY <1>3 DEF Drain
    <2>2. ReaderInv(s, i)
        BY <1>3 DEF ReaderInv
    <2> QED BY <2>1, <2>2
<1>4. inbox[i].kind \in {"lost", "tick"}
    BY InboxFacts
<1> QED BY <1>1, <1>2, <1>3, <1>4

LEMMA DrainKeeps ==
    ASSUME Inbound, ReaderInv(Reader, 0)
    PROVE  /\ ReaderInv(Drained, Len(inbox)) /\ unseen.heard <= Drained.heard
           /\ Drained.book.firstDay = book.firstDay
<1>0. Len(inbox) \in Nat
    <2>1. inbox \in Seq(Items(tape))
        BY DEF Inbound, WireInv
    <2> QED BY <2>1
<1>1. Unrolled(DrainedTo, Len(inbox))
    BY <1>0, DrainedUnfolds
<1> DEFINE Good(k) == /\ ReaderInv(DrainedTo[k], k) /\ unseen.heard <= DrainedTo[k].heard
                      /\ DrainedTo[k].book.firstDay = book.firstDay
<1> DEFINE G == {k \in 0 .. Len(inbox) : Good(k)}
<1>2. 0 \in G
    <2>1. DrainedTo[0] = Reader
        BY <1>1 DEF Unrolled
    <2>2. unseen.heard <= unseen.heard
        <3>1. unseen.heard \in Int
            BY DEF Inbound
        <3> QED BY <3>1
    <2>3. Reader.heard = unseen.heard /\ Reader.book = book
        BY DEF Reader
    <2> QED BY <1>0, <2>1, <2>2, <2>3
<1>3. ASSUME NEW k \in 1 .. Len(inbox), k - 1 \in G
      PROVE  k \in G
    <2>1. Good(k - 1)
        BY <1>3
    <2>2. DrainedTo[k] = Drain(DrainedTo[k - 1], inbox[k])
        BY <1>1 DEF Unrolled
    <2> DEFINE s == DrainedTo[k - 1]
    <2>3. ReaderInv(s, k - 1) /\ unseen.heard <= s.heard /\ s.book.firstDay = book.firstDay
        BY <2>1
    <2> HIDE DEF s
    <2>4. LET d == Drain(s, inbox[k]) IN
          /\ ReaderInv(d, k) /\ unseen.heard <= d.heard /\ d.book.firstDay = s.book.firstDay
        BY <2>3, DrainStep
    <2>5. Good(k)
        BY <2>2, <2>3, <2>4 DEF s
    <2>6. k \in 0 .. Len(inbox)
        BY <1>0
    <2> HIDE DEF Good
    <2> QED BY <2>5, <2>6
<1>4. \A k \in 0 .. Len(inbox) : k \in G
    <2> HIDE DEF G
    <2> QED BY <1>0, <1>2, <1>3, Upward
<1>5. Good(Len(inbox))
    BY <1>0, <1>4
<1> QED BY <1>5 DEF Drained

(***************************************************************************)
(* A reader that has drained its inbox.                                    *)
(***************************************************************************)
After(q, now, last, trades, b, sub, heard, blind, srv) ==
    /\ Case(q, now, b, heard, blind, srv) /\ sub \in BOOLEAN
    /\ Counting(q, last, b, sub, heard)
    /\ sub => /\ \A n \in heard + 1 .. Len(q) : n \in trades
              /\ last.kind = "tick" => last.n <= heard /\ Match(b, last)

LEMMA DrainedAfter ==
    ASSUME Inbound, ReaderInv(Reader, 0)
    PROVE  LET d == Drained IN
           /\ After(tape, clock, feed.last, unseen.trades, d.book, d.sub, d.heard, d.blind, served)
           /\ unseen.heard <= d.heard /\ d.book.firstDay = book.firstDay
           /\ DOMAIN d = {"book", "sub", "lost", "heard", "blind"} /\ d.lost \in BOOLEAN
<1> DEFINE d == Drained
<1>1. ReaderInv(d, Len(inbox)) /\ unseen.heard <= d.heard /\ d.book.firstDay = book.firstDay
    BY DrainKeeps
<1> HIDE DEF d
<1>2. Len(inbox) \in Nat
    <2>1. inbox \in Seq(Items(tape))
        BY DEF Inbound, WireInv
    <2> QED BY <2>1
<1>3. \A j : j \notin Len(inbox) + 1 .. Len(inbox)
    BY <1>2
<1>4. Case(tape, clock, d.book, d.heard, d.blind, served)
    BY <1>1 DEF ReaderInv, Case, Inbound
<1>5. d.sub => /\ \A n \in d.heard + 1 .. Len(tape) : n \in unseen.trades
               /\ feed.last.kind = "tick" => feed.last.n <= d.heard /\ Match(d.book, feed.last)
    BY <1>1, <1>3 DEF ReaderInv, Ahead
<1> QED BY <1>1, <1>4, <1>5 DEF ReaderInv, After, d

\* What the reader counts on is in four fields of the book.
Linked(e, b) == /\ e.coveredFrom = b.coveredFrom /\ e.lastTotal = b.lastTotal
                /\ e.segment = b.segment /\ e.ended = b.ended

LEMMA LinkedKeeps ==
    ASSUME NEW q, NEW last, NEW sub, NEW heard, NEW b, NEW e, Linked(e, b)
    PROVE  /\ Counting(q, last, b, sub, heard) => Counting(q, last, e, sub, heard)
           /\ Match(b, last) => Match(e, last)
BY DEF Linked, Counting, Match

\* The reader with a subscription, and without.
Following(q, now, last, trades, b, heard, blind, srv) ==
    After(q, now, last, trades, b, TRUE, heard, blind, srv)
Unfed(q, now, last, trades, b, heard, blind, srv) ==
    After(q, now, last, trades, b, FALSE, heard, blind, srv)

\* _subscribe: from the minute after this one the stream covers.
LEMMA SubscribedKeeps ==
    ASSUME NEW q, NEW now, NEW last, NEW trades, NEW b, NEW heard, NEW blind, NEW srv,
           Unfed(q, now, last, trades, b, heard, blind, srv),
           WireInv(q, <<>>, last), NEW from \in {now + 1, now + 2}
    PROVE  LET e == StreamStarted(b, from) IN
           /\ Following(q, now, last, trades, e, Len(q), blind, srv)
           /\ e.firstDay = b.firstDay
<1> DEFINE c == [b EXCEPT !.coveredFrom = from]
<1> DEFINE e == StreamStarted(b, from)
<1>1. /\ TapeInv(q, now) /\ now \in Minute /\ heard \in 0 .. Len(q) /\ blind \subseteq Minute
      /\ ServedInv(q, now, srv)
      /\ Case(q, now, b, heard, blind, srv) /\ Counting(q, last, b, FALSE, heard)
    BY DEF Unfed, After, Case
<1>2. /\ Len(q) \in Nat /\ now \in Nat /\ now <= LastMinute /\ LastMinute \in Nat
      /\ from \in Nat /\ from > now /\ from \in 0 .. LastMinute + 2
      /\ \A m \in Minute : m \in Nat
    BY <1>1, TapeFacts, Numbers
<1>3. \A n \in 1 .. Len(q) : q[n].minute < from
    <2> TAKE n \in 1 .. Len(q)
    <2>1. q[n].minute <= now /\ q[n].minute \in Nat
        BY <1>1, TapeFacts
    <2> QED BY <1>2, <2>1
<1>4. ASSUME NEW m \in srv.minutes, m >= from
      PROVE  srv.rows[m] = 0
    <2>1. m \in Minute /\ m \in Nat /\ srv.rows[m] \in Nat /\ srv.rows[m] <= Count(q, m, Len(q))
        BY <1>1, <1>2 DEF ServedInv
    <2>2. \A n \in 1 .. Len(q) : q[n].minute # m
        BY <1>2, <1>3, <1>4, <2>1
    <2>3. Count(q, m, Len(q)) = 0
        BY <1>2, <2>2, CountNone
    <2> QED BY <2>1, <2>3
<1>5. /\ BookInv(q, now, c, heard, blind, srv)
      /\ c.coveredFrom = from /\ c.firstDay = b.firstDay /\ c.segment = b.segment
      /\ c.ended = b.ended
    <2>1. \A n \in 1 .. heard : q[n].minute < from
        BY <1>1, <1>2, <1>3
    <2>2. from \in 0 .. LastMinute + 2 \cup {None}
        BY <1>2
    <2>3. LET g == [b EXCEPT !.coveredFrom = from] IN
          /\ BookInv(q, now, g, heard, blind, srv)
          /\ g.coveredFrom = from /\ g.firstDay = b.firstDay /\ g.segment = b.segment
          /\ g.ended = b.ended
        <3>1. Coverable(q, b, heard, srv, from)
            BY <1>4, <2>1 DEF Coverable
        <3> QED BY <1>1, <2>2, <3>1, CoverKeeps
    <2> QED BY <2>3
<1>6. Alike(e, c) /\ e.lastTotal = None /\ e.segment = c.segment /\ e.ended = c.ended
    BY <1>1 DEF Case, BookInv, BookTypes, Alike, StreamStarted, c
<1> HIDE DEF c, e
<1>7. BookInv(q, now, e, heard, blind, srv)
    <2>1. /\ e.lastTotal \in Nat \cup {None}
          /\ e.segment \in {None} \cup (1 .. LastMinute + 1 \ Session)
          /\ e.ended \in 0 .. now \cup {None}
        BY <1>5, <1>6 DEF BookTypes, BookInv
    <2> QED BY <1>5, <1>6, <2>1, AlikeKeeps
<1>8. Case(q, now, e, Len(q), blind, srv)
    <2>1. Case(q, now, e, heard, blind, srv)
        BY <1>1, <1>7 DEF Case
    <2>2. Len(q) \in heard .. Len(q) /\ blind \subseteq blind
        BY <1>1, <1>2
    <2>3. \A n \in heard + 1 .. Len(q) : q[n].minute < e.coveredFrom
        BY <1>1, <1>2, <1>3, <1>5, <1>6 DEF Alike
    <2> QED BY <1>1, <2>1, <2>2, <2>3, HeardKeeps
<1>9. Counting(q, last, e, TRUE, Len(q))
    <2>1. e.coveredFrom = from /\ from # None
        BY <1>2, <1>5, <1>6, Numbers DEF Alike
    <2>2. e.ended <= e.coveredFrom
        <3>1. e.ended \in Int /\ e.ended <= now
            BY <1>1, <1>7, BookTyped DEF BookInv
        <3> QED BY <1>2, <2>1, <3>1
    <2>3. e.segment # None => last.kind = "tick" /\ e.segment <= CloseOf(last.minute)
        BY <1>1, <1>5, <1>6 DEF Counting
    <2> QED BY <1>3, <1>6, <2>1, <2>2, <2>3 DEF Counting
<1>10. /\ \A n \in Len(q) + 1 .. Len(q) : n \in trades
       /\ last.kind = "tick" => last.n <= Len(q) /\ Match(e, last)
    <2>1. last.kind = "tick" => last.n \in 1 .. Len(q)
        BY <1>1, WireFacts
    <2>2. last.kind = "tick" => last.n <= Len(q)
        BY <1>2, <2>1
    <2> QED BY <1>2, <1>6, <2>2 DEF Match
<1>11. e.firstDay = b.firstDay
    BY <1>5, <1>6 DEF Alike
<1> QED BY <1>8, <1>9, <1>10, <1>11 DEF Following, After, e

\* The close of a segment, when the clock has passed it.
LEMMA EndedKeeps ==
    ASSUME NEW q, NEW now, NEW last, NEW trades, NEW b, NEW heard, NEW blind, NEW srv,
           Following(q, now, last, trades, b, heard, blind, srv)
    PROVE  LET e == EndedBy(b, now) IN
           /\ Following(q, now, last, trades, e, heard, blind, srv)
           /\ e.firstDay = b.firstDay
<1> DEFINE x == EndSegment(b, b.segment)
<1> DEFINE e == EndedBy(b, now)
<1>1. /\ TapeInv(q, now) /\ now \in Minute /\ heard \in 0 .. Len(q) /\ BookTypes(b, now)
      /\ Case(q, now, b, heard, blind, srv) /\ Counting(q, last, b, TRUE, heard)
    BY DEF Following, After, Case, BookInv
<1>2. /\ b.coveredFrom # None /\ b.coveredFrom \in Int /\ b.segment \in Int /\ now \in Nat
      /\ b.ended <= b.coveredFrom /\ Len(q) \in Nat /\ heard \in Nat
      /\ b.segment # None => b.segment \in 1 .. LastMinute + 1 \ Session
    BY <1>1, BookTyped, TapeFacts, Numbers DEF Counting
<1>3. CASE b.segment # None /\ now >= b.segment
    <2>1. b.segment <= now
        BY <1>2, <1>3
    <2>2. /\ BookInv(q, now, x, heard, blind, srv) /\ x.firstDay = b.firstDay
          /\ x.lastTotal = b.lastTotal /\ x.segment = b.segment /\ x.ended = b.segment
          /\ x.coveredFrom # None /\ x.coveredFrom >= b.coveredFrom
          /\ x.coveredFrom >= b.segment
        BY <1>1, <1>2, <1>3, <2>1, EndKeeps
    <2>3. e = x
        BY <1>3 DEF EndedBy
    <2> HIDE DEF x, e
    <2>4. x.coveredFrom \in Int
        BY <1>1, <2>2, BookTyped DEF BookInv
    <2>5. \A n \in 1 .. heard : q[n].minute < b.coveredFrom => q[n].minute < x.coveredFrom
        <3> TAKE n \in 1 .. heard
        <3>1. n \in 1 .. Len(q)
            BY <1>1, <1>2
        <3>2. q[n].minute \in Nat
            BY <1>1, <3>1, TapeFacts
        <3> QED BY <1>2, <2>2, <2>4, <3>2
    <2>6. x.ended <= x.coveredFrom
        BY <1>2, <1>3, <2>2, <2>4
    <2>7. x.lastTotal # None => \E at \in 1 .. heard :
             /\ q[at].total = x.lastTotal /\ CloseOf(q[at].minute) = x.segment
             /\ \A n \in at + 1 .. heard : q[n].minute < x.coveredFrom
        <3> HAVE x.lastTotal # None
        <3>1. PICK at \in 1 .. heard :
                 /\ q[at].total = b.lastTotal /\ CloseOf(q[at].minute) = b.segment
                 /\ \A n \in at + 1 .. heard : q[n].minute < b.coveredFrom
            BY <1>1, <2>2 DEF Counting
        <3>2. \A n \in at + 1 .. heard : n \in 1 .. heard
            BY <1>2
        <3> WITNESS at \in 1 .. heard
        <3> QED BY <2>2, <2>5, <3>1, <3>2
    <2>8. x.lastTotal = None => \A n \in 1 .. heard : q[n].minute < x.coveredFrom
        BY <1>1, <2>2, <2>5 DEF Counting
    <2>9. Counting(q, last, x, TRUE, heard)
        BY <1>1, <2>2, <2>6, <2>7, <2>8 DEF Counting
    <2>10. Match(b, last) => Match(x, last)
        BY <2>2 DEF Match
    <2>11. Case(q, now, x, heard, blind, srv)
        BY <1>1, <2>2 DEF Case
    <2>12. After(q, now, last, trades, x, TRUE, heard, blind, srv)
        BY <2>9, <2>10, <2>11 DEF Following, After
    <2> QED BY <2>2, <2>3, <2>12 DEF Following, e
<1>4. CASE ~(b.segment # None /\ now >= b.segment)
    <2>1. e = b
        BY <1>4 DEF EndedBy
    <2> HIDE DEF e
    <2> QED BY <2>1 DEF e
<1> QED BY <1>3, <1>4

\* skip_closed_market.
LEMMA SkipKeeps ==
    ASSUME NEW q, NEW now, NEW b, NEW heard, NEW blind, NEW srv,
           Case(q, now, b, heard, blind, srv)
    PROVE  LET e == SkipClosed(b) IN
           /\ BookInv(q, now, e, heard, blind, srv) /\ Linked(e, b)
           /\ e.firstDay = b.firstDay /\ e.minutes = b.minutes /\ e.history = b.history
           /\ (b.finalBefore # None => e.finalBefore # None /\ b.finalBefore <= e.finalBefore)
<1> DEFINE e == SkipClosed(b)
<1>0. /\ TapeInv(q, now) /\ now \in Minute /\ heard \in 0 .. Len(q) /\ ServedInv(q, now, srv)
      /\ BookTypes(b, now) /\ Settled(q, now, b, blind, srv)
      /\ Streamed(q, b, heard, blind, srv) /\ Held(b, srv)
      /\ BookInv(q, now, b, heard, blind, srv)
    BY DEF Case, BookInv
<1>1. b.finalBefore \in Int /\ b.coveredFrom \in Int /\ Len(q) \in Nat
      /\ \A m \in Minute : m \in Nat
    BY <1>0, BookTyped, TapeFacts, Numbers
<1> DEFINE skips == /\ b.finalBefore # None /\ b.coveredFrom # None
                    /\ b.finalBefore < b.coveredFrom
                    /\ \A m \in b.finalBefore .. b.coveredFrom - 1 : m \notin Session
<1>2. CASE ~skips
    <2>1. e = b /\ b.finalBefore <= b.finalBefore
        BY <1>1, <1>2 DEF SkipClosed
    <2> HIDE DEF e
    <2> QED BY <1>0, <2>1 DEF e, Linked
<1>3. CASE skips
    <2>1. /\ DOMAIN e = DOMAIN b /\ e.minutes = b.minutes /\ e.coveredFrom = b.coveredFrom
          /\ e.firstDay = b.firstDay /\ e.history = b.history
          /\ e.lastTotal = b.lastTotal
          /\ e.lastMinute = b.lastMinute /\ e.segment = b.segment /\ e.ended = b.ended
          /\ e.finalBefore = b.coveredFrom
        BY <1>0, <1>3 DEF SkipClosed, BookTypes
    <2> HIDE DEF e
    <2>2. \A m \in Minute : (m >= b.finalBefore /\ m < b.coveredFrom) => m \notin Session
        BY <1>1, <1>3
    <2>3. ASSUME NEW m \in Minute, m \notin Session
          PROVE  Count(q, m, Len(q)) = 0
        <3>1. \A n \in 1 .. Len(q) : q[n].minute # m
            BY <1>0, <2>3, TapeFacts
        <3> QED BY <1>1, <3>1, CountNone
    <2>4. BookTypes(e, now)
        <3>1. e.finalBefore # None /\ b.firstDay # None
            BY <1>0, <1>3, <2>1 DEF BookTypes
        <3>2. e.finalBefore \in 0 .. LastMinute + 2 \cup {None}
            BY <1>0, <2>1 DEF BookTypes
        <3> QED BY <1>0, <2>1, <3>1, <3>2 DEF BookTypes
    <2>5. Settled(q, now, e, blind, srv)
        <3>1. ASSUME NEW m \in Minute
              PROVE  e.history[m] <= Count(q, m, Len(q))
            BY <1>0, <2>1 DEF Settled
        <3>2. ASSUME NEW m \in Minute, m < e.finalBefore
              PROVE  Closed(q, now, m)
            <4>1. CASE m < b.finalBefore
                BY <1>0, <4>1 DEF Settled
            <4>2. CASE ~(m < b.finalBefore)
                <5>1. m \notin Session
                    BY <1>1, <2>1, <2>2, <3>2, <4>2
                <5> QED BY <5>1 DEF Closed
            <4> QED BY <4>1, <4>2
        <3>3. ASSUME NEW m \in Minute, e.firstDay <= m, m < e.finalBefore
              PROVE  e.history[m] = Count(q, m, Len(q)) \/ m \in blind \cup srv.unreached
            <4>1. CASE m < b.finalBefore
                BY <1>0, <2>1, <3>3, <4>1 DEF Settled
            <4>2. CASE ~(m < b.finalBefore)
                <5>1. m \notin Session
                    BY <1>1, <2>1, <2>2, <3>3, <4>2
                <5>2. Count(q, m, Len(q)) = 0 /\ e.history[m] <= Count(q, m, Len(q))
                    BY <2>3, <3>1, <5>1
                <5>3. e.history[m] \in Nat
                    BY <1>0, <2>1 DEF BookTypes
                <5> QED BY <5>2, <5>3
            <4> QED BY <4>1, <4>2
        <3> QED BY <3>1, <3>2, <3>3 DEF Settled
    <2>6. Streamed(q, e, heard, blind, srv)
        <3>1. \A m \in Minute : m >= e.finalBefore => m >= b.finalBefore
            BY <1>1, <1>3, <2>1
        <3> QED BY <1>0, <2>1, <3>1 DEF Streamed
    <2>7. Held(e, srv)
        <3>0. \A m \in srv.minutes : m \in Minute
            BY <1>0 DEF ServedInv
        <3>1. ASSUME NEW m \in srv.minutes \ srv.unreached, m >= e.firstDay, m < e.finalBefore
              PROVE  srv.rows[m] <= e.history[m]
            <4>1. CASE m < b.finalBefore
                BY <1>0, <2>1, <3>1, <4>1 DEF Held
            <4>2. CASE ~(m < b.finalBefore)
                <5>1. m \notin Session
                    BY <1>1, <2>1, <2>2, <3>0, <3>1, <4>2
                <5>2. srv.rows[m] <= 0 /\ srv.rows[m] \in Nat
                    BY <1>0, <2>3, <3>0, <5>1 DEF ServedInv
                <5>3. e.history[m] \in Nat
                    BY <1>0, <2>1, <3>0 DEF BookTypes
                <5> QED BY <5>2, <5>3
            <4> QED BY <4>1, <4>2
        <3>2. \A m \in Minute : m >= e.finalBefore => m >= b.finalBefore
            BY <1>1, <1>3, <2>1
        <3> QED BY <1>0, <2>1, <3>0, <3>1, <3>2 DEF Held
    <2>8. BookInv(q, now, e, heard, blind, srv)
        BY <2>4, <2>5, <2>6, <2>7 DEF BookInv
    <2>9. e.finalBefore # None /\ b.finalBefore <= e.finalBefore
        BY <1>1, <1>3, <2>1
    <2> QED BY <2>1, <2>8, <2>9 DEF Linked, e
<1> QED BY <1>2, <1>3

\* frame: the window moves up.
LEMMA TrimKeeps ==
    ASSUME NEW q, NEW now, NEW b, NEW heard, NEW blind, NEW srv,
           Case(q, now, b, heard, blind, srv), b.finalBefore # None, NEW first \in Minute,
           first < now
    PROVE  LET e == Trimmed(b, first) IN
           /\ BookInv(q, now, e, heard, blind, srv) /\ Linked(e, b)
           /\ e.finalBefore = b.finalBefore
<1> DEFINE e == Trimmed(b, first)
<1>0. /\ TapeInv(q, now) /\ now \in Minute /\ heard \in 0 .. Len(q) /\ ServedInv(q, now, srv)
      /\ BookTypes(b, now) /\ Settled(q, now, b, blind, srv)
      /\ Streamed(q, b, heard, blind, srv) /\ Held(b, srv)
      /\ BookInv(q, now, b, heard, blind, srv)
    BY DEF Case, BookInv
<1>1. /\ b.firstDay \in Minute /\ b.firstDay \in Nat /\ first \in Nat /\ first # None
      /\ b.history \in [Minute -> Nat] /\ b.minutes \in [Minute -> Nat]
      /\ \A m \in Minute : m \in Nat
      /\ Len(q) \in Nat /\ heard \in Nat
    <2>1. b.firstDay \in Minute
        BY <1>0, BookTyped
    <2>2. Len(q) \in Nat
        BY <1>0, TapeFacts
    <2>3. b.history \in [Minute -> Nat] /\ b.minutes \in [Minute -> Nat]
        BY <1>0 DEF BookTypes
    <2>4. \A m \in Minute : m \in Nat /\ m # None
        BY Numbers
    <2>5. heard \in Nat
        BY <1>0, <2>2
    <2> QED BY <2>1, <2>2, <2>3, <2>4, <2>5
<1>2. CASE ~(b.firstDay = None \/ first > b.firstDay)
    <2>1. e = b
        BY <1>2 DEF Trimmed
    <2> HIDE DEF e
    <2> QED BY <1>0, <2>1 DEF e, Linked
<1>3. CASE b.firstDay = None \/ first > b.firstDay
    <2>0. first > b.firstDay
        BY <1>1, <1>3, Numbers
    <2>1. /\ DOMAIN e = DOMAIN b /\ e.coveredFrom = b.coveredFrom
          /\ e.firstDay = first /\ e.finalBefore = b.finalBefore
          /\ e.lastTotal = b.lastTotal
          /\ e.lastMinute = b.lastMinute /\ e.segment = b.segment /\ e.ended = b.ended
          /\ e.history = [m \in Minute |-> IF m < first THEN 0 ELSE b.history[m]]
          /\ e.minutes = [m \in Minute |-> IF m < first THEN 0 ELSE b.minutes[m]]
        BY <1>0, <1>3 DEF Trimmed, BookTypes
    <2> HIDE DEF e
    <2>2. \A m \in Minute :
             /\ e.history[m] <= b.history[m] /\ e.minutes[m] <= b.minutes[m]
             /\ e.history[m] \in Nat /\ e.minutes[m] \in Nat
             /\ b.history[m] \in Nat /\ b.minutes[m] \in Nat
             /\ m >= first => e.history[m] = b.history[m] /\ e.minutes[m] = b.minutes[m]
        BY <1>1, <2>1
    <2>3. \A m \in Minute : m >= first => m >= b.firstDay
        BY <1>1, <2>0
    <2>4. BookTypes(e, now)
        <3>1. e.history \in [Minute -> Nat] /\ e.minutes \in [Minute -> Nat]
            BY <2>1, <2>2
        <3> QED BY <1>0, <1>1, <2>1, <3>1 DEF BookTypes
    <2>5. Settled(q, now, e, blind, srv)
        <3>1. ASSUME NEW m \in Minute
              PROVE  e.history[m] <= Count(q, m, Len(q))
            <4>1. b.history[m] <= Count(q, m, Len(q)) /\ Count(q, m, Len(q)) \in Nat
                BY <1>0, <1>1, CountNat DEF Settled
            <4> QED BY <2>2, <4>1
        <3>2. ASSUME NEW m \in Minute, e.firstDay <= m, m < e.finalBefore
              PROVE  e.history[m] = Count(q, m, Len(q)) \/ m \in blind \cup srv.unreached
            <4>0. m \in Nat
                BY <1>1
            <4>1. m >= first /\ b.firstDay <= m
                BY <1>1, <2>1, <2>0, <3>2, <4>0
            <4> QED BY <1>0, <2>1, <2>2, <3>2, <4>1 DEF Settled
        <3> QED BY <1>0, <2>1, <3>1, <3>2 DEF Settled
    <2>6. Streamed(q, e, heard, blind, srv)
        <3>1. ASSUME e.coveredFrom # None, NEW m \in Minute, m >= e.coveredFrom
              PROVE  /\ e.minutes[m] <= Count(q, m, heard)
                     /\ (m >= e.finalBefore /\ m >= e.firstDay) =>
                            e.minutes[m] = Count(q, m, heard) \/ m \in blind \cup srv.unreached
            <4>1. b.minutes[m] <= Count(q, m, heard) /\ Count(q, m, heard) \in Nat
                BY <1>0, <1>1, <2>1, <3>1, CountNat DEF Streamed
            <4>2. e.minutes[m] <= Count(q, m, heard)
                BY <2>2, <4>1
            <4>3. ASSUME m >= e.finalBefore, m >= e.firstDay
                  PROVE  e.minutes[m] = Count(q, m, heard) \/ m \in blind \cup srv.unreached
                BY <1>0, <2>1, <2>2, <2>3, <3>1, <4>3 DEF Streamed
            <4> QED BY <4>2, <4>3
        <3>2. ASSUME NEW m \in Minute, e.minutes[m] > 0
              PROVE  \E n \in 1 .. heard : q[n].minute = m
            <4>1. b.minutes[m] > 0
                BY <2>2, <3>2
            <4> QED BY <1>0, <4>1 DEF Streamed
        <3> QED BY <1>0, <2>1, <3>1, <3>2 DEF Streamed
    <2>7. Held(e, srv)
        <3>0. \A m \in srv.minutes : m \in Minute
            BY <1>0 DEF ServedInv
        <3> QED BY <1>0, <2>1, <2>2, <2>3, <3>0 DEF Held
    <2>8. BookInv(q, now, e, heard, blind, srv)
        BY <2>4, <2>5, <2>6, <2>7 DEF BookInv
    <2> QED BY <2>1, <2>8 DEF Linked, e
<1> QED BY <1>2, <1>3

(***************************************************************************)
(* take_kbars.                                                             *)
(***************************************************************************)
LEMMA MaxOfPair ==
    ASSUME NEW a \in Int, NEW b \in Int
    PROVE  Max({a, b}) = IF a <= b THEN b ELSE a
<1> DEFINE r == IF a <= b THEN b ELSE a
<1>1. r \in {a, b} /\ \A y \in {a, b} : r >= y
    OBVIOUS
<1>2. \A x \in {a, b} : (\A y \in {a, b} : x >= y) => x = r
    OBVIOUS
<1> HIDE DEF r
<1>3. Max({a, b}) = CHOOSE x \in {a, b} : \A y \in {a, b} : x >= y
    BY DEF Max
<1>4. Max({a, b}) = r
    BY <1>1, <1>2, <1>3
<1> QED BY <1>4 DEF r

\* The answer to a query from a minute on that has come to trade k.
Asking(q, from, k) == [m \in Minute |-> IF m < from THEN 0 ELSE Count(q, m, k)]

\* An answer the code can get: at least what closed a minute before, or short
\* where the stream shows it.
Usable(q, b, a, from, at) ==
    \/ \A m \in Minute : (from <= m /\ m + 2 <= at) => a[m] = Count(q, m, Len(q))
    \/ RunsBehind(b, a, at)
    \/ HoldsRows(b) /\ RowsOf(a) = {}

\* The book takes the answer: h is its new history, up to final.
Taken(b, h, final, from) ==
    [b EXCEPT !.history = h, !.finalBefore = final, !.firstDay = from,
              !.minutes = [m \in Minute |-> IF m >= final THEN @[m] ELSE 0]]

\* What its new history holds: of each minute of the window all that was traded,
\* or what the book had, or it is known to be open.
Answering(q, now, b, h, final, from, lacks, open) ==
    /\ h \in [Minute -> Nat] /\ final \in 0 .. LastMinute + 2
    /\ from \in Minute /\ from < now
    /\ \A m \in Minute : h[m] <= Count(q, m, Len(q))
    /\ \A m \in Minute : m < final => Closed(q, now, m)
    /\ \A m \in Minute : from <= m =>
          \/ m \in open
          \/ m < final /\ h[m] = Count(q, m, Len(q))
          \/ /\ b.firstDay <= m /\ m \notin lacks
             /\ IF m < final THEN m < b.finalBefore /\ h[m] = b.history[m]
                ELSE b.finalBefore <= m

\* A book vouches for what was served except the minutes known to be open.
LEMMA OwedKeeps ==
    ASSUME NEW q, NEW now, NEW b, NEW heard, NEW blind, NEW srv,
           Case(q, now, b, heard, blind, srv), NEW open, OpenInv(b, srv, open)
    PROVE  /\ Case(q, now, b, heard, blind, Owed(srv, open))
           /\ Owed(srv, open).minutes = srv.minutes /\ Owed(srv, open).rows = srv.rows
           /\ Owed(srv, open).unreached = open
<1> DEFINE o == Owed(srv, open)
<1>1. /\ TapeInv(q, now) /\ now \in Minute /\ heard \in 0 .. Len(q) /\ blind \subseteq Minute
      /\ ServedInv(q, now, srv) /\ BookTypes(b, now) /\ Settled(q, now, b, blind, srv)
      /\ Streamed(q, b, heard, blind, srv) /\ Held(b, srv)
    BY DEF Case, BookInv
<1>2. /\ o.minutes = srv.minutes /\ o.rows = srv.rows /\ o.excused = Minute
      /\ o.unreached = open /\ DOMAIN o = DOMAIN srv
    BY <1>1 DEF Owed, ServedInv
<1> HIDE DEF o
<1>3. open \subseteq Minute /\ \A m \in srv.unreached : m >= b.firstDay => m \in open
    BY DEF OpenInv
<1>4. \A m \in Minute : b.firstDay <= m <=> m >= b.firstDay
    BY <1>1, Numbers, BookTyped
<1>5. ServedInv(q, now, o)
    BY <1>1, <1>2, <1>3 DEF ServedInv
<1>6. Settled(q, now, b, blind, o)
    BY <1>1, <1>2, <1>3, <1>4 DEF Settled
<1>7. Streamed(q, b, heard, blind, o)
    BY <1>1, <1>2, <1>3 DEF Streamed
<1>8. Held(b, o)
    BY <1>1, <1>2, <1>3 DEF Held
<1> QED BY <1>1, <1>2, <1>5, <1>6, <1>7, <1>8 DEF Case, BookInv, o

\* A book that takes such a history keeps what it knew of the stream.
LEMMA TakenKeeps ==
    ASSUME NEW q, NEW now, NEW b, NEW heard, NEW blind, NEW srv,
           Case(q, now, b, heard, blind, srv), NEW h, NEW final, NEW from, NEW open,
           Answering(q, now, b, h, final, from, srv.unreached, open), open \subseteq Minute
    PROVE  LET e == Taken(b, h, final, from) IN
           /\ BookInv(q, now, e, heard, blind, Owed(srv, open)) /\ Linked(e, b)
           /\ e.firstDay = from /\ e.finalBefore = final
<1> DEFINE e == Taken(b, h, final, from)
<1> DEFINE o == Owed(srv, open)
<1>0. /\ TapeInv(q, now) /\ now \in Minute /\ heard \in 0 .. Len(q) /\ ServedInv(q, now, srv)
      /\ BookTypes(b, now) /\ Settled(q, now, b, blind, srv)
      /\ Streamed(q, b, heard, blind, srv) /\ Held(b, srv)
    BY DEF Case, BookInv
<1>1. /\ h \in [Minute -> Nat] /\ final \in 0 .. LastMinute + 2 /\ from \in Minute /\ from < now
      /\ b.minutes \in [Minute -> Nat] /\ b.finalBefore \in Int /\ final \in Int /\ final # None
      /\ \A m \in Minute : m \in Nat /\ m # None
      /\ Len(q) \in Nat /\ heard \in Nat
    <2>1. h \in [Minute -> Nat] /\ final \in 0 .. LastMinute + 2 /\ from \in Minute
          /\ from < now
        BY DEF Answering
    <2>2. \A m \in Minute : m \in Nat /\ m # None
        BY Numbers
    <2>3. final \in Int /\ final # None
        BY <2>1, Numbers
    <2>4. Len(q) \in Nat
        BY <1>0, TapeFacts
    <2>5. heard \in Nat
        BY <1>0, <2>4
    <2> QED BY <1>0, <2>1, <2>2, <2>3, <2>4, <2>5, BookTyped
<1>2. /\ DOMAIN e = DOMAIN b /\ e.history = h /\ e.finalBefore = final /\ e.firstDay = from
      /\ e.minutes = [m \in Minute |-> IF m >= final THEN b.minutes[m] ELSE 0]
      /\ e.coveredFrom = b.coveredFrom /\ e.lastTotal = b.lastTotal
      /\ e.lastMinute = b.lastMinute /\ e.segment = b.segment /\ e.ended = b.ended
    BY <1>0 DEF Taken, BookTypes
<1>3. o.minutes = srv.minutes /\ o.rows = srv.rows /\ o.unreached = open
    BY <1>0 DEF Owed, ServedInv
<1> HIDE DEF e, o
<1>4. ASSUME NEW m \in Minute, from <= m, m \notin open
      PROVE  \/ m < final /\ h[m] = Count(q, m, Len(q))
             \/ /\ b.firstDay <= m /\ m \notin srv.unreached
                /\ m < final => m < b.finalBefore /\ h[m] = b.history[m]
                /\ ~(m < final) => b.finalBefore <= m
    BY <1>4 DEF Answering
<1>5. \A m \in Minute : /\ e.minutes[m] \in Nat /\ e.minutes[m] <= b.minutes[m]
                        /\ b.minutes[m] \in Nat
                        /\ m >= final => e.minutes[m] = b.minutes[m]
    BY <1>1, <1>2
<1>6. BookTypes(e, now)
    <2>1. e.minutes \in [Minute -> Nat]
        BY <1>2, <1>5
    <2>2. e.firstDay # None /\ e.finalBefore # None
        BY <1>1, <1>2
    <2> QED BY <1>0, <1>1, <1>2, <2>1, <2>2 DEF BookTypes
<1>7. Settled(q, now, e, blind, o)
    <2>1. \A m \in Minute : e.history[m] <= Count(q, m, Len(q))
        BY <1>2 DEF Answering
    <2>2. \A m \in Minute : m < e.finalBefore => Closed(q, now, m)
        BY <1>2 DEF Answering
    <2>3. ASSUME NEW m \in Minute, e.firstDay <= m, m < e.finalBefore, m \notin open
          PROVE  e.history[m] = Count(q, m, Len(q)) \/ m \in blind
        <3>1. CASE h[m] = Count(q, m, Len(q))
            BY <1>2, <3>1
        <3>2. CASE /\ h[m] = b.history[m] /\ m < b.finalBefore /\ b.firstDay <= m
                   /\ m \notin srv.unreached
            BY <1>0, <1>2, <2>3, <3>2 DEF Settled
        <3> QED BY <1>2, <1>4, <2>3, <3>1, <3>2
    <2> QED BY <1>3, <2>1, <2>2, <2>3 DEF Settled
<1>8. Streamed(q, e, heard, blind, o)
    <2>1. ASSUME e.coveredFrom # None, NEW m \in Minute, m >= e.coveredFrom
          PROVE  /\ e.minutes[m] <= Count(q, m, heard)
                 /\ (m >= e.finalBefore /\ m >= e.firstDay) =>
                        e.minutes[m] = Count(q, m, heard) \/ m \in blind \cup open
        <3>1. b.minutes[m] <= Count(q, m, heard) /\ Count(q, m, heard) \in Nat
            BY <1>0, <1>1, <1>2, <2>1, CountNat DEF Streamed
        <3>2. e.minutes[m] <= Count(q, m, heard)
            BY <1>5, <3>1
        <3>3. ASSUME m >= e.finalBefore, m >= e.firstDay, m \notin open
              PROVE  e.minutes[m] = Count(q, m, heard) \/ m \in blind
            <4>1. from <= m /\ ~(m < final)
                BY <1>1, <1>2, <3>3
            <4>2. b.firstDay <= m /\ b.finalBefore <= m /\ m \notin srv.unreached
                BY <1>4, <3>3, <4>1
            <4>3. m >= b.firstDay /\ m >= b.finalBefore
                <5>1. b.firstDay \in Int /\ m \in Nat
                    BY <1>0, <1>1, BookTyped
                <5> QED BY <1>1, <4>2, <5>1
            <4>4. e.minutes[m] = b.minutes[m]
                BY <1>2, <1>5, <3>3
            <4> QED BY <1>0, <1>2, <2>1, <4>2, <4>3, <4>4 DEF Streamed
        <3> QED BY <3>2, <3>3
    <2>2. ASSUME NEW m \in Minute, e.minutes[m] > 0
          PROVE  \E n \in 1 .. heard : q[n].minute = m
        <3>1. b.minutes[m] > 0
            BY <1>5, <2>2
        <3> QED BY <1>0, <3>1 DEF Streamed
    <2> QED BY <1>0, <1>2, <1>3, <2>1, <2>2 DEF Streamed
<1>9. Held(e, o)
    <2>0. \A m \in srv.minutes : m \in Minute /\ srv.rows[m] <= Count(q, m, Len(q))
        BY <1>0 DEF ServedInv
    <2>4. ASSUME NEW m \in srv.minutes, m \notin open, m >= e.firstDay
          PROVE  /\ from <= m /\ m \in Minute /\ m \in Nat /\ b.firstDay \in Int
                 /\ (b.firstDay <= m <=> m >= b.firstDay)
        BY <1>0, <1>1, <1>2, <2>0, <2>4, BookTyped
    <2>1. ASSUME NEW m \in srv.minutes, m \notin open, m >= e.firstDay, m < e.finalBefore
          PROVE  srv.rows[m] <= e.history[m]
        <3>0. /\ from <= m /\ m \in Minute /\ m \in Nat
              /\ (b.firstDay <= m <=> m >= b.firstDay)
            BY <2>1, <2>4
        <3>1. CASE h[m] = Count(q, m, Len(q))
            BY <1>2, <2>0, <3>1
        <3>2. CASE /\ h[m] = b.history[m] /\ m < b.finalBefore /\ b.firstDay <= m
                   /\ m \notin srv.unreached
            BY <1>0, <1>2, <2>1, <3>0, <3>2 DEF Held
        <3> QED BY <1>2, <1>4, <2>1, <3>0, <3>1, <3>2
    <2>2. ASSUME NEW m \in srv.minutes, m \notin open, m >= e.firstDay, e.coveredFrom # None,
                 m >= e.coveredFrom, m >= e.finalBefore
          PROVE  srv.rows[m] <= e.minutes[m]
        <3>0. /\ from <= m /\ m \in Minute /\ m \in Nat
              /\ (b.firstDay <= m <=> m >= b.firstDay)
            BY <2>2, <2>4
        <3>1. ~(m < final)
            BY <1>1, <1>2, <2>2, <3>0
        <3>2. m >= b.firstDay /\ b.finalBefore <= m /\ m \notin srv.unreached
            BY <1>4, <2>2, <3>0, <3>1
        <3>3. m >= b.finalBefore
            BY <1>1, <3>0, <3>2
        <3>4. e.minutes[m] = b.minutes[m]
            BY <1>2, <1>5, <2>2, <3>0
        <3> QED BY <1>0, <1>2, <2>2, <3>2, <3>3, <3>4 DEF Held
    <2> QED BY <1>3, <2>1, <2>2 DEF Held
<1>10. BookInv(q, now, e, heard, blind, o)
    BY <1>6, <1>7, <1>8, <1>9 DEF BookInv
<1> QED BY <1>2, <1>10 DEF Linked, e, o

\* The newest row of an answer: what traded before it is complete.
LEMMA NewestRow ==
    ASSUME NEW q, NEW now \in Minute, TapeInv(q, now), NEW from \in Minute,
           NEW k \in 0 .. Len(q), RowsOf(Asking(q, from, k)) # {}
    PROVE  LET a == Asking(q, from, k)
               newest == Max(RowsOf(a)) IN
           /\ newest \in Minute /\ newest \in Nat
           /\ \A m \in Minute : m < newest =>
                 /\ Closed(q, now, m)
                 /\ from <= m => a[m] = Count(q, m, Len(q))
<1> DEFINE a == Asking(q, from, k)
<1> DEFINE newest == Max(RowsOf(a))
<1>1. RowsOf(a) \subseteq 0 .. LastMinute /\ LastMinute \in Nat
    BY Numbers DEF RowsOf
<1> HIDE DEF a
<1>2. newest \in RowsOf(a)
    BY <1>1, MaxOfNaturals DEF a
<1> HIDE DEF newest
<1>3. newest \in Minute /\ newest \in Nat /\ a[newest] > 0
    BY <1>2, Numbers DEF RowsOf
<1>4. Len(q) \in Nat /\ k \in Nat /\ k <= Len(q) /\ from \in Nat /\ \A m \in Minute : m \in Nat
    <2>1. Len(q) \in Nat
        BY TapeFacts
    <2> QED BY <2>1, Numbers
<1>5. \A m \in Minute : a[m] = IF m < from THEN 0 ELSE Count(q, m, k)
    BY DEF a, Asking
<1>6. Count(q, newest, k) > 0
    BY <1>3, <1>5
<1>7. PICK n \in 1 .. k : q[n].minute = newest
    BY <1>4, <1>6, CountPositive
<1>8. n \in 1 .. Len(q) /\ k \in n .. Len(q)
    BY <1>4
<1>9. ASSUME NEW m \in Minute, m < newest
      PROVE  /\ Closed(q, now, m)
             /\ from <= m => a[m] = Count(q, m, Len(q))
    <2>1. q[n].minute > m
        BY <1>3, <1>4, <1>7, <1>9
    <2>2. DOMAIN q = 1 .. Len(q)
        BY TapeFacts
    <2>3. Closed(q, now, m)
        BY <1>8, <2>1, <2>2 DEF Closed
    <2>4. Count(q, m, k) = Count(q, m, Len(q))
        BY <1>8, <2>1, ClosedCount
    <2>5. from <= m => a[m] = Count(q, m, k)
        BY <1>4, <1>5
    <2> QED BY <2>3, <2>4, <2>5
<1> QED BY <1>3, <1>9 DEF newest, a

\* The windows of a query and of the book: each starts in the past.
Windowed(b, from, at) == b.firstDay < at /\ from < at

\* take_kbars, in its three cases: nothing to take, whole, or behind.
LEMMA TakeKeeps ==
    ASSUME NEW q, NEW now, NEW b, NEW heard, NEW blind, NEW srv,
           Case(q, now, b, heard, blind, srv),
           NEW from \in Minute, NEW at \in Minute, 1 <= at, at <= now, NEW k \in 0 .. Len(q),
           Usable(q, b, Asking(q, from, k), from, at), Windowed(b, from, at)
    PROVE  LET e == TakeKbars(b, Asking(q, from, k), from, at)
               new == Lacking(b, Asking(q, from, k), from, at, srv.unreached) IN
           /\ BookInv(q, now, e, heard, blind, Owed(srv, new)) /\ Linked(e, b)
           /\ new \subseteq Minute
           /\ \/ e = b /\ new = srv.unreached
              \/ e.firstDay = from /\ e.finalBefore # None
<1> DEFINE a == Asking(q, from, k)
<1> DEFINE e == TakeKbars(b, a, from, at)
<1> DEFINE new == Lacking(b, a, from, at, srv.unreached)
<1> DEFINE o == Owed(srv, new)
<1> DEFINE newest == Max(RowsOf(a))
<1> DEFINE behind == RunsBehind(b, a, at)
<1> DEFINE kept == IF b.finalBefore # None THEN b.finalBefore ELSE newest
<1> DEFINE h == [m \in Minute |-> IF m < newest THEN a[m] ELSE IF m < kept THEN b.history[m] ELSE 0]
<1>0. /\ TapeInv(q, now) /\ now \in Minute /\ heard \in 0 .. Len(q) /\ ServedInv(q, now, srv)
      /\ BookTypes(b, now) /\ Settled(q, now, b, blind, srv)
      /\ BookInv(q, now, b, heard, blind, srv)
    BY DEF Case, BookInv
<1>1. /\ b.minutes \in [Minute -> Nat] /\ b.history \in [Minute -> Nat]
      /\ b.finalBefore \in Int /\ b.firstDay \in Int
      /\ b.finalBefore # None => b.finalBefore \in Nat
      /\ b.firstDay # None => b.firstDay \in Minute
      /\ (b.finalBefore = None <=> b.firstDay = None)
    BY <1>0, BookTyped
<1>2. /\ Len(q) \in Nat /\ k \in Nat /\ k <= Len(q)
      /\ at \in Nat /\ now \in Nat /\ at <= LastMinute /\ LastMinute \in Nat /\ from \in Nat
      /\ None = -1 /\ \A m \in Minute : m \in Nat /\ m <= LastMinute
    <2>1. Len(q) \in Nat
        BY <1>0, TapeFacts
    <2> QED BY <1>0, <2>1, Numbers
<1>3. \A m \in Minute : /\ a[m] \in Nat /\ a[m] <= Count(q, m, Len(q))
                        /\ Count(q, m, Len(q)) \in Nat
    <2> TAKE m \in Minute
    <2>1. a[m] = IF m < from THEN 0 ELSE Count(q, m, k)
        BY DEF Asking
    <2> HIDE DEF a
    <2>2. /\ Count(q, m, k) \in Nat /\ Count(q, m, Len(q)) \in Nat
          /\ Count(q, m, k) <= Count(q, m, Len(q))
        BY <1>2, CountNat, CountGrows
    <2> QED BY <2>1, <2>2
<1>4. a \in [Minute -> Nat]
    <2>1. a = [m \in Minute |-> a[m]]
        BY DEF Asking
    <2> HIDE DEF a
    <2> QED BY <1>3, <2>1
<1>5. RowsOf(a) # {} =>
        /\ newest \in Minute /\ newest \in Nat
        /\ \A m \in Minute : m < newest =>
              /\ Closed(q, now, m)
              /\ from <= m => a[m] = Count(q, m, Len(q))
    BY <1>0, NewestRow
<1>6. new = IF RowsOf(a) = {} /\ HoldsRows(b) THEN srv.unreached
            ELSE {m \in Minute : from <= m /\
                     IF behind THEN newest <= m /\ (m < b.firstDay \/ m \in srv.unreached)
                     ELSE e.finalBefore <= m /\ (m < b.finalBefore \/ m \in srv.unreached)}
    <2> HIDE DEF a
    <2> QED BY DEF Lacking
<1>7. Usable(q, b, a, from, at)
    OBVIOUS
<1>8. e = IF RowsOf(a) = {} /\ HoldsRows(b) THEN b
          ELSE LET trusted == IF RowsOf(a) = {} THEN Min(Short(b, a, at)) ELSE newest
                   kp == IF b.finalBefore # None THEN b.finalBefore ELSE trusted
                   nw == IF RowsOf(a) = {} THEN None ELSE newest
                   final == IF behind THEN Max({trusted, kp}) ELSE Max({at - 1, nw})
               IN Taken(b, IF behind THEN Kept(a, trusted, kp, b) ELSE a, final, from)
    <2> HIDE DEF a
    <2> QED BY DEF TakeKbars, Taken
<1>9. ASSUME ~HoldsRows(b)
      PROVE  ~behind
    <2>1. \A m \in Minute : ~(a[m] < b.minutes[m])
        BY <1>1, <1>3, <1>9 DEF HoldsRows
    <2>2. Short(b, a, at) = {}
        BY <2>1 DEF Short
    <2> QED BY <2>2 DEF RunsBehind
<1> HIDE DEF a, newest, behind, e, new, o
<1>10. new \subseteq Minute
    BY <1>0, <1>6 DEF ServedInv
<1>11. from < now /\ b.firstDay < at /\ from < at
    BY <1>1, <1>2 DEF Windowed
<1>12. CASE RowsOf(a) = {} /\ HoldsRows(b)
    <2>1. e = b
        BY <1>8, <1>12
    <2>2. new = srv.unreached
        BY <1>12, <1>6
    <2>3. OpenInv(b, srv, srv.unreached)
        BY <1>0 DEF OpenInv, ServedInv
    <2>4. Case(q, now, b, heard, blind, Owed(srv, srv.unreached))
        BY <2>3, OwedKeeps
    <2>5. BookInv(q, now, b, heard, blind, o)
        BY <2>2, <2>4 DEF Case, o
    <2> QED BY <1>10, <2>1, <2>2, <2>5 DEF Linked, a, e, new, o
\* The answer is as complete as it should be.
<1>13. ASSUME ~(RowsOf(a) = {} /\ HoldsRows(b)), ~behind
       PROVE  /\ BookInv(q, now, e, heard, blind, o) /\ Linked(e, b)
              /\ e.firstDay = from /\ e.finalBefore # None
    <2> DEFINE nw == IF RowsOf(a) = {} THEN None ELSE newest
    <2> DEFINE final == Max({at - 1, nw})
    <2>1. e = Taken(b, a, final, from)
        BY <1>8, <1>13
    <2>2. \A m \in Minute : (from <= m /\ m + 2 <= at) => a[m] = Count(q, m, Len(q))
        BY <1>7, <1>13 DEF Usable, behind
    <2>3. nw \in Int /\ at - 1 \in Nat /\ nw <= LastMinute
        BY <1>2, <1>5
    <2>4. final = IF at - 1 <= nw THEN nw ELSE at - 1
        <3>1. at - 1 \in Int
            BY <2>3
        <3> HIDE DEF nw
        <3> QED BY <2>3, <3>1, MaxOfPair
    <2>5. /\ final \in Nat /\ final \in 0 .. LastMinute + 2 /\ at - 1 <= final
          /\ (final = at - 1 \/ (RowsOf(a) # {} /\ final = newest))
        <3>1. CASE at - 1 <= nw
            <4>1. CASE RowsOf(a) = {}
                <5>1. nw = -1
                    BY <1>2, <4>1
                <5> HIDE DEF nw
                <5> QED BY <1>2, <3>1, <5>1
            <4>2. ASSUME RowsOf(a) # {}
                  PROVE  nw = newest
                BY <4>2
            <4> HIDE DEF nw, final
            <4> QED BY <1>2, <1>5, <2>3, <2>4, <3>1, <4>1, <4>2
        <3>2. CASE ~(at - 1 <= nw)
            <4> HIDE DEF nw, final
            <4> QED BY <1>2, <2>3, <2>4, <3>2
        <3> QED BY <3>1, <3>2
    <2> HIDE DEF final, nw
    <2>6. ASSUME NEW m \in Minute, m < final
          PROVE  Closed(q, now, m) /\ (from <= m => a[m] = Count(q, m, Len(q)))
        <3>1. CASE final = at - 1
            <4>1. m + 2 <= at /\ m + 2 <= now
                BY <1>2, <2>6, <3>1
            <4> QED BY <2>2, <4>1 DEF Closed
        <3>2. CASE RowsOf(a) # {} /\ final = newest
            BY <1>5, <2>6, <3>2
        <3> QED BY <2>5, <3>1, <3>2
    <2>7. e.finalBefore = final
        BY <2>1, <1>0 DEF Taken, BookTypes
    <2>8. ASSUME NEW m \in Minute, from <= m, m \notin new
          PROVE  \/ m < final /\ a[m] = Count(q, m, Len(q))
                 \/ ~(m < final) /\ b.firstDay <= m /\ m \notin srv.unreached /\ b.finalBefore <= m
        <3>1. CASE m < final
            BY <2>6, <2>8, <3>1
        <3>2. CASE ~(m < final)
            <4>1. m \in Nat
                BY <1>2
            <4>2. ~(m < b.finalBefore) /\ m \notin srv.unreached
                BY <1>13, <1>6, <2>5, <2>7, <2>8, <3>2, <4>1
            <4>3. b.firstDay <= m
                BY <1>1, <1>2, <1>11, <2>5, <3>2, <4>1
            <4> QED BY <1>1, <3>2, <4>1, <4>2, <4>3
        <3> QED BY <3>1, <3>2
    <2>9. Answering(q, now, b, a, final, from, srv.unreached, new)
        BY <1>3, <1>4, <1>11, <2>5, <2>6, <2>8 DEF Answering
    <2>10. LET x == Taken(b, a, final, from) IN
           /\ BookInv(q, now, x, heard, blind, Owed(srv, new)) /\ Linked(x, b)
           /\ x.firstDay = from /\ x.finalBefore = final
        BY <1>10, <2>9, TakenKeeps
    <2> QED BY <1>2, <2>1, <2>5, <2>10 DEF o
\* It runs behind the stream.
<1>14. ASSUME ~(RowsOf(a) = {} /\ HoldsRows(b)), behind
       PROVE  /\ BookInv(q, now, e, heard, blind, o) /\ Linked(e, b)
              /\ e.firstDay = from /\ e.finalBefore # None
    <2>1. RowsOf(a) # {}
        BY <1>9, <1>14
    <2> DEFINE final == Max({newest, kept})
    <2>2. e = Taken(b, h, final, from)
        <3>1. e = Taken(b, Kept(a, newest, kept, b), final, from)
            BY <1>8, <1>14, <2>1
        <3> QED BY <3>1 DEF Kept
    <2>3. newest \in Minute /\ newest \in Nat
        BY <1>5, <2>1
    <2>4. /\ kept \in Nat /\ (kept = b.finalBefore \/ (b.finalBefore = None /\ kept = newest))
          /\ b.finalBefore <= kept /\ kept \in 0 .. LastMinute + 2
        <3>1. CASE b.finalBefore = None
            BY <1>2, <2>3, <3>1
        <3>2. CASE b.finalBefore # None
            BY <1>0, <1>1, <3>2 DEF BookTypes
        <3> QED BY <3>1, <3>2
    <2> HIDE DEF kept
    <2>5. final = IF newest <= kept THEN kept ELSE newest
        BY <2>3, <2>4, MaxOfPair
    <2> HIDE DEF final
    <2>6. /\ final \in Nat /\ final \in 0 .. LastMinute + 2 /\ b.finalBefore <= final
          /\ \A m \in Minute : m < final => m < newest \/ m < kept
        BY <1>1, <1>2, <2>3, <2>4, <2>5, SMTT(30)
    <2>7. \A m \in Minute : h[m] = IF m < newest THEN a[m] ELSE IF m < kept THEN b.history[m] ELSE 0
        OBVIOUS
    <2>8. h \in [Minute -> Nat]
        BY <1>1, <1>3
    <2> HIDE DEF h
    <2>9. \A m \in Minute : h[m] <= Count(q, m, Len(q))
        <3> TAKE m \in Minute
        <3>1. b.history[m] <= Count(q, m, Len(q))
            BY <1>0 DEF Settled
        <3> QED BY <1>3, <2>7, <3>1
    <2>10. \A m \in Minute : ~(m < newest) /\ m < kept => m < b.finalBefore
        BY <1>2, <2>3, <2>4
    <2>11. \A m \in Minute : m < final => Closed(q, now, m)
        <3> TAKE m \in Minute
        <3> HAVE m < final
        <3>1. CASE m < newest
            BY <1>5, <2>1, <3>1
        <3>2. CASE ~(m < newest)
            <4>1. m < b.finalBefore
                BY <2>6, <2>10, <3>2
            <4> QED BY <1>0, <4>1 DEF Settled
        <3> QED BY <3>1, <3>2
    <2>12. ASSUME NEW m \in Minute, ~(m < newest), from <= m, m \notin new
           PROVE  b.firstDay <= m /\ m \notin srv.unreached
        <3>1. m \in Nat /\ newest <= m
            BY <1>2, <2>3, <2>12
        <3>2. ~(m < b.firstDay) /\ m \notin srv.unreached
            BY <1>14, <1>6, <2>12, <3>1
        <3> QED BY <1>1, <3>1, <3>2
    <2>13. ASSUME NEW m \in Minute, from <= m, m \notin new
           PROVE  \/ m < final /\ h[m] = Count(q, m, Len(q))
                  \/ /\ b.firstDay <= m /\ m \notin srv.unreached
                     /\ IF m < final THEN m < b.finalBefore /\ h[m] = b.history[m]
                        ELSE b.finalBefore <= m
        <3>0. m \in Nat
            BY <1>2
        <3>1. CASE m < newest
            <4>1. m < final
                BY <2>3, <2>4, <2>5, <3>0, <3>1
            <4> QED BY <1>5, <2>1, <2>7, <2>13, <3>1, <4>1
        <3>2. CASE ~(m < newest)
            <4>1. CASE m < final
                <5>1. m < kept /\ m < b.finalBefore /\ h[m] = b.history[m]
                    BY <2>6, <2>7, <2>10, <3>2, <4>1
                <5> QED BY <2>12, <2>13, <3>2, <4>1, <5>1
            <4>2. CASE ~(m < final)
                <5>1. b.finalBefore <= m
                    BY <1>1, <2>6, <3>0, <4>2
                <5> QED BY <2>12, <2>13, <3>2, <4>2, <5>1
            <4> QED BY <4>1, <4>2
        <3> QED BY <3>1, <3>2
    <2>14. Answering(q, now, b, h, final, from, srv.unreached, new)
        BY <1>11, <2>6, <2>8, <2>9, <2>11, <2>13 DEF Answering
    <2>15. LET x == Taken(b, h, final, from) IN
           /\ BookInv(q, now, x, heard, blind, Owed(srv, new)) /\ Linked(x, b)
           /\ x.firstDay = from /\ x.finalBefore = final
        BY <1>10, <2>14, TakenKeeps
    <2> QED BY <1>2, <2>2, <2>6, <2>15 DEF o
<1> QED BY <1>12, <1>13, <1>14, <1>10 DEF a, e, new, o

\* What a poll serves of a book.
ServedOf(b, first, excused, open) ==
    [minutes |-> Released(b, first), excused |-> excused,
     unreached |-> Unreached(b, first, open),
     rows |-> [m \in Minute |-> IF m \in Released(b, first) THEN Complete(b)[m] ELSE 0]]

\* The trades the reader does not know of are of excused minutes, or not of one
\* that closed a minute before at.
Awaited(q, heard, excused, at) ==
    /\ at \in Minute /\ clock <= at + 1
    /\ \A n \in 1 .. heard : q[n].minute <= at
    /\ \A n \in heard + 1 .. Len(q) : q[n].minute \in excused \/ q[n].minute >= at

LEMMA ServeKeeps ==
    ASSUME NEW q, NEW b, NEW heard, NEW blind, NEW srv, Case(q, clock, b, heard, blind, srv),
           b.finalBefore # None, NEW first \in Minute,
           NEW excused, blind \subseteq excused, excused \subseteq Minute,
           NEW at, Awaited(q, heard, excused, at)
    PROVE  LET s == ServedOf(b, first, excused, srv.unreached) IN
           /\ BookInv(q, clock, b, heard, blind, s) /\ ServedInv(q, clock, s)
           /\ \A m \in s.minutes : m + 1 <= clock
           /\ \A m \in srv.minutes \cap s.minutes :
                 srv.rows[m] <= s.rows[m] \/ m \in s.unreached
<1> DEFINE s == ServedOf(b, first, excused, srv.unreached)
<1> DEFINE c == Complete(b)
<1>0. /\ TapeInv(q, clock) /\ clock \in Minute /\ heard \in 0 .. Len(q)
      /\ ServedInv(q, clock, srv) /\ BookTypes(b, clock) /\ Settled(q, clock, b, blind, srv)
      /\ Streamed(q, b, heard, blind, srv) /\ Held(b, srv)
    BY DEF Case, BookInv
<1>1. /\ b.minutes \in [Minute -> Nat] /\ b.history \in [Minute -> Nat]
      /\ b.finalBefore \in Nat /\ b.coveredFrom \in Int
    BY <1>0, BookTyped
<1>2. /\ Len(q) \in Nat /\ heard \in Nat /\ heard <= Len(q) /\ DOMAIN q = 1 .. Len(q)
      /\ clock \in Nat /\ first \in Nat /\ \A m \in Minute : m \in Nat /\ m <= LastMinute
      /\ LastMinute \in Nat
      /\ at \in Nat /\ \A n \in 1 .. Len(q) : q[n].minute \in Nat /\ q[n].minute <= clock
    <2>1. /\ Len(q) \in Nat /\ DOMAIN q = 1 .. Len(q)
          /\ \A n \in 1 .. Len(q) : q[n].minute \in Nat /\ q[n].minute <= clock
        BY <1>0, TapeFacts
    <2> QED BY <1>0, <2>1, Numbers DEF Awaited
<1>3. \A m \in Minute : /\ Count(q, m, heard) \in Nat /\ Count(q, m, Len(q)) \in Nat
                        /\ Count(q, m, heard) <= Count(q, m, Len(q))
    BY <1>2, CountNat, CountGrows
<1>4. \A m \in Minute :
         /\ m < b.finalBefore => c[m] = b.history[m]
         /\ ~(m < b.finalBefore) => c[m] = IF HoldsGap(b) THEN 0 ELSE b.minutes[m]
    BY DEF Complete
<1>5. ~HoldsGap(b) => b.coveredFrom # None /\ b.coveredFrom <= b.finalBefore
    BY <1>1 DEF HoldsGap
<1>6. \A m \in Minute : m \in Released(b, first) =>
         /\ first <= m /\ (m < b.finalBefore \/ ~HoldsGap(b))
         /\ m + 2 <= clock \/ \E r \in Minute : m < r /\ c[r] > 0
    BY DEF Released
<1>7. Released(b, first) \subseteq Minute
    BY DEF Released
<1> HIDE DEF c
<1>8. \A m \in Minute : c[m] \in Nat /\ c[m] <= Count(q, m, Len(q))
    <2> TAKE m \in Minute
    <2>1. CASE m < b.finalBefore
        BY <1>0, <1>1, <1>4, <2>1 DEF Settled
    <2>2. CASE ~(m < b.finalBefore) /\ HoldsGap(b)
        BY <1>3, <1>4, <2>2
    <2>3. CASE ~(m < b.finalBefore) /\ ~HoldsGap(b)
        <3>1. m >= b.coveredFrom /\ b.coveredFrom # None
            <4>1. m \in Nat /\ b.coveredFrom # None /\ b.coveredFrom <= b.finalBefore
                BY <1>2, <1>5, <2>3
            <4> QED BY <1>1, <2>3, <4>1
        <3>2. b.minutes[m] <= Count(q, m, heard)
            BY <1>0, <3>1 DEF Streamed
        <3> QED BY <1>1, <1>3, <1>4, <2>3, <3>2
    <2> QED BY <2>1, <2>2, <2>3
<1>9. \A m \in Minute : c[m] > 0 => \E n \in 1 .. Len(q) : q[n].minute = m
    <2> TAKE m \in Minute
    <2> HAVE c[m] > 0
    <2>1. Count(q, m, Len(q)) > 0
        BY <1>3, <1>8
    <2> QED BY <1>2, <2>1, CountPositive
<1>10. \A m \in Released(b, first) : Closed(q, clock, m) /\ m + 1 <= clock
    <2> TAKE m \in Released(b, first)
    <2>1. m \in Minute /\ m \in Nat
        BY <1>2, <1>7
    <2>2. CASE m + 2 <= clock
        BY <1>2, <2>1, <2>2 DEF Closed
    <2>3. CASE \E r \in Minute : m < r /\ c[r] > 0
        <3>1. PICK r \in Minute : m < r /\ c[r] > 0
            BY <2>3
        <3>2. PICK n \in 1 .. Len(q) : q[n].minute = r
            BY <1>9, <3>1
        <3> QED BY <1>2, <2>1, <3>1, <3>2 DEF Closed
    <2> QED BY <1>6, <2>1, <2>2, <2>3
<1>11. \A m \in Minute : (first <= m /\ m \notin Unreached(b, first, srv.unreached)) =>
          m \in Nat /\ b.firstDay <= m /\ m >= b.firstDay /\ m \notin srv.unreached
    BY <1>0, <1>2, BookTyped DEF Unreached
<1>12. srv.unreached \subseteq Unreached(b, first, srv.unreached)
       /\ Unreached(b, first, srv.unreached) \subseteq Minute
    BY <1>0 DEF Unreached, ServedInv
<1>13. ASSUME NEW m \in Released(b, first), m \notin Unreached(b, first, srv.unreached)
       PROVE  c[m] = Count(q, m, Len(q)) \/ m \in excused
    <2>1. /\ m \in Minute /\ m \in Nat /\ first <= m /\ b.firstDay <= m
          /\ m \notin srv.unreached
        BY <1>2, <1>6, <1>7, <1>13, <1>11
    <2>2. CASE m < b.finalBefore
        BY <1>0, <1>4, <1>13, <2>1, <2>2 DEF Settled
    <2>3. CASE ~(m < b.finalBefore)
        <3>1. ~HoldsGap(b) /\ c[m] = b.minutes[m] /\ m >= b.coveredFrom /\ b.coveredFrom # None
            BY <1>1, <1>4, <1>5, <1>6, <2>1, <2>3
        <3>2. m >= b.finalBefore /\ m >= b.firstDay
            BY <1>0, <1>1, <2>1, <2>3 , BookTyped
        <3>3. b.minutes[m] = Count(q, m, heard) \/ m \in blind
            BY <1>0, <2>1, <3>1, <3>2 DEF Streamed
        <3>4. m < at
            <4>1. CASE m + 2 <= clock
                BY <1>2, <2>1, <4>1 DEF Awaited
            <4>2. CASE \E r \in Minute : m < r /\ c[r] > 0
                <5>1. PICK r \in Minute : m < r /\ c[r] > 0
                    BY <4>2
                <5>2. c[r] = b.minutes[r]
                    BY <1>1, <1>2, <1>4, <2>1, <2>3, <3>1, <5>1
                <5>3. PICK n \in 1 .. heard : q[n].minute = r
                    BY <1>0, <5>1, <5>2 DEF Streamed
                <5> QED BY <1>2, <2>1, <5>1, <5>3 DEF Awaited
            <4> QED BY <1>6, <2>1, <4>1, <4>2
        <3>5. CASE \E n \in heard + 1 .. Len(q) : q[n].minute = m
            <4>1. PICK n \in heard + 1 .. Len(q) : q[n].minute = m
                BY <3>5
            <4>2. ~(q[n].minute >= at)
                BY <1>2, <2>1, <3>4, <4>1
            <4> QED BY <4>1, <4>2 DEF Awaited
        <3>6. CASE \A n \in heard + 1 .. Len(q) : q[n].minute # m
            <4>1. Count(q, m, heard) = Count(q, m, Len(q))
                BY <1>2, <3>6, CountGrows
            <4> QED BY <3>1, <3>3, <4>1
        <3> QED BY <3>5, <3>6
    <2> QED BY <2>2, <2>3
<1>14. /\ s.minutes = Released(b, first) /\ s.excused = excused
       /\ s.unreached = Unreached(b, first, srv.unreached)
       /\ DOMAIN s = {"minutes", "rows", "excused", "unreached"}
       /\ s.rows = [m \in Minute |-> IF m \in Released(b, first) THEN c[m] ELSE 0]
    BY DEF ServedOf, c
<1> HIDE DEF s
<1>15. /\ s.rows \in [Minute -> Nat] /\ \A m \in s.minutes : s.rows[m] = c[m] /\ m \in Minute
    BY <1>7, <1>8, <1>14
<1>16. ServedInv(q, clock, s)
    BY <1>7, <1>8, <1>10, <1>13, <1>14, <1>15, <1>12 DEF ServedInv
<1>17. Held(b, s)
    <2> SUFFICES ASSUME NEW m \in s.minutes \ s.unreached
                 PROVE  /\ m < b.finalBefore => s.rows[m] <= b.history[m]
                        /\ (b.coveredFrom # None /\ m >= b.coveredFrom /\ m >= b.finalBefore) =>
                               s.rows[m] <= b.minutes[m]
        BY DEF Held
    <2>1. m \in Minute /\ m \in Nat /\ s.rows[m] = c[m]
        BY <1>2, <1>15
    <2>2. b.history[m] \in Nat /\ b.minutes[m] \in Nat
        BY <1>1, <2>1
    <2> QED BY <1>1, <1>4, <2>1, <2>2
<1>18. ASSUME NEW m \in srv.minutes \cap s.minutes, m \notin s.unreached
       PROVE  srv.rows[m] <= s.rows[m]
    <2>1. m \in Minute /\ m \in Nat /\ s.rows[m] = c[m] /\ first <= m /\ m >= b.firstDay
          /\ m \in srv.minutes \ srv.unreached
        BY <1>2, <1>6, <1>14, <1>15, <1>18, <1>11
    <2>2. CASE m < b.finalBefore
        BY <1>0, <1>4, <1>18, <2>1, <2>2 DEF Held
    <2>3. CASE ~(m < b.finalBefore)
        <3>1. c[m] = b.minutes[m] /\ m >= b.coveredFrom /\ b.coveredFrom # None
            BY <1>1, <1>4, <1>5, <1>6, <1>14, <2>1, <2>3
        <3>2. m >= b.finalBefore
            BY <1>1, <2>1, <2>3
        <3> QED BY <1>0, <1>18, <2>1, <3>1, <3>2 DEF Held
    <2> QED BY <2>2, <2>3
<1>19. BookInv(q, clock, b, heard, blind, s)
    <2>1. Settled(q, clock, b, blind, s)
        BY <1>0, <1>14, <1>12 DEF Settled
    <2>2. Streamed(q, b, heard, blind, s)
        BY <1>0, <1>14, <1>12 DEF Streamed
    <2> QED BY <1>0, <1>17, <2>1, <2>2 DEF BookInv
<1> QED BY <1>10, <1>14, <1>16, <1>18, <1>19 DEF s

(***************************************************************************)
(* A poll: the subscription, the query and what is served.                 *)
(***************************************************************************)
LEMMA InvFacts ==
    ASSUME IInv
    PROVE  /\ Inbound /\ ReaderInv(Reader, 0) /\ RestInv /\ QueryInv
           /\ TapeInv(tape, clock) /\ WireInv(tape, inbox, feed.last)
           /\ ServedInv(tape, clock, served)
           /\ Unread(served, inbox, feed.last, unseen.heard)
           /\ OpenInv(book, served, unseen.open)
           /\ clock \in Minute /\ clock \in Nat /\ 1 <= clock /\ clock <= LastMinute
           /\ Len(tape) \in Nat /\ unseen.heard \in Nat /\ unseen.heard <= Len(tape)
<1>1. /\ ReaderInv(Reader, 0) /\ RestInv /\ QueryInv /\ TapeInv(tape, clock)
      /\ WireInv(tape, inbox, feed.last) /\ ServedInv(tape, clock, served)
      /\ Unread(served, inbox, feed.last, unseen.heard) /\ OpenInv(book, served, unseen.open)
    BY DEF IInv
<1>2. clock \in Minute /\ 1 <= clock /\ unseen.trades \subseteq DOMAIN tape
    BY <1>1 DEF RestInv
<1>3. unseen.heard \in 0 .. Len(tape)
    BY <1>1 DEF ReaderInv, Reader
<1>4. Inbound
    BY <1>1, <1>2, <1>3 DEF Inbound
<1>5. Len(tape) \in Nat
    BY <1>1, <1>2, TapeFacts
<1> QED BY <1>1, <1>2, <1>3, <1>4, <1>5, Numbers

\* Once the inbox is read, with a subscription, nothing hides from the reader
\* but what no tick told of.
LEMMA EmptyWire ==
    ASSUME NEW q, NEW box, NEW last, WireInv(q, box, last)
    PROVE  WireInv(q, <<>>, last)
<1>1. <<>> \in Seq(Items(q)) /\ Len(<<>>) = 0 /\ DOMAIN <<>> = {}
    OBVIOUS
<1>2. 0 <= InboxSize
    BY BookAssumption
<1> QED BY <1>1, <1>2 DEF WireInv

LEMMA EmptyReader ==
    ASSUME NEW q, NEW now, NEW last, NEW trades, NEW b, NEW sub, NEW heard, NEW blind, NEW srv,
           After(q, now, last, trades, b, sub, heard, blind, srv),
           NEW some, \A n \in trades : n > heard => n \in some
    PROVE  /\ BookInv(q, now, b, heard, blind, srv) /\ Counting(q, last, b, sub, heard)
           /\ sub => Ahead(q, <<>>, some, last, b, heard, 0)
           /\ heard \in 0 .. Len(q) /\ blind \subseteq Minute /\ sub \in BOOLEAN
<1>1. Case(q, now, b, heard, blind, srv) /\ Counting(q, last, b, sub, heard) /\ sub \in BOOLEAN
    BY DEF After
<1>2. Len(q) \in Nat /\ heard \in Nat /\ heard <= Len(q)
    BY <1>1, TapeFacts DEF Case
<1>3. ASSUME sub
      PROVE  Ahead(q, <<>>, some, last, b, heard, 0)
    <2>1. /\ \A n \in heard + 1 .. Len(q) : n \in trades
          /\ last.kind = "tick" => last.n <= heard /\ Match(b, last)
        BY <1>3 DEF After
    <2>2. \A n \in heard + 1 .. Len(q) : n \in some
        BY <1>2, <2>1
    <2>3. Len(<<>>) = 0 /\ 0 + 1 .. 0 = {}
        OBVIOUS
    <2> QED BY <2>1, <2>2, <2>3 DEF Ahead
<1> QED BY <1>1, <1>3 DEF Case

\* The reader that a poll begins with.
LEMMA SubscriptionsKeep ==
    ASSUME IInv, NEW s \in Subscriptions(Drained)
    PROVE  /\ Following(tape, clock, feed.last, unseen.trades, s.book, s.heard, s.blind, served)
           /\ s.book.firstDay = book.firstDay /\ unseen.heard <= s.heard
           /\ s.heard \in Nat /\ s.lost \in BOOLEAN /\ s.sub
           /\ DOMAIN s = {"book", "sub", "lost", "heard", "blind"}
<1> DEFINE d == Drained
<1>1. /\ After(tape, clock, feed.last, unseen.trades, d.book, d.sub, d.heard, d.blind, served)
      /\ unseen.heard <= d.heard /\ d.book.firstDay = book.firstDay
      /\ DOMAIN d = {"book", "sub", "lost", "heard", "blind"} /\ d.lost \in BOOLEAN
    BY InvFacts, DrainedAfter
<1>2. d.heard \in 0 .. Len(tape) /\ Len(tape) \in Nat /\ d.sub \in BOOLEAN
    BY <1>1, InvFacts DEF After, Case
<1>3. s \in Subscriptions(d)
    OBVIOUS
<1> HIDE DEF d
<1>4. CASE d.sub
    <2>1. s = d /\ d.sub = TRUE
        BY <1>2, <1>3, <1>4 DEF Subscriptions
    <2>2. Following(tape, clock, feed.last, unseen.trades, d.book, d.heard, d.blind, served)
        BY <1>1, <2>1, Zenon DEF Following
    <2>3. Following(tape, clock, feed.last, unseen.trades, s.book, s.heard, s.blind, served)
        BY <2>1, <2>2, Zenon
    <2>4. /\ s.book.firstDay = book.firstDay /\ unseen.heard <= s.heard
          /\ s.heard \in Nat /\ s.lost \in BOOLEAN /\ s.sub
          /\ DOMAIN s = DOMAIN d
        BY <1>1, <1>2, <2>1
    <2> QED BY <1>1, <2>3, <2>4, Zenon
<1>5. CASE ~d.sub
    <2>1. PICK from \in StreamFrom :
            s = [d EXCEPT !.sub = TRUE, !.lost = FALSE, !.heard = Len(tape),
                          !.book = StreamStarted(@, from)]
        BY <1>3, <1>5 DEF Subscriptions
    <2>2. /\ s.sub = TRUE /\ s.lost = FALSE /\ s.heard = Len(tape) /\ s.blind = d.blind
          /\ s.book = StreamStarted(d.book, from)
        BY <1>1, <2>1
    <2>3. Unfed(tape, clock, feed.last, unseen.trades, d.book, d.heard, d.blind, served)
        <3>1. d.sub = FALSE
            BY <1>2, <1>5
        <3> QED BY <1>1, <3>1, Zenon DEF Unfed
    <2>4. from \in {clock + 1, clock + 2}
        BY <2>1 DEF StreamFrom
    <2>5. WireInv(tape, <<>>, feed.last)
        BY InvFacts, EmptyWire
    <2> DEFINE e == StreamStarted(d.book, from)
    <2>6. /\ Following(tape, clock, feed.last, unseen.trades, e, Len(tape), d.blind, served)
          /\ e.firstDay = d.book.firstDay
        BY <2>3, <2>4, <2>5, SubscribedKeeps
    <2> HIDE DEF e
    <2>7. Following(tape, clock, feed.last, unseen.trades, s.book, s.heard, s.blind, served)
        BY <2>2, <2>6, Zenon DEF e
    <2>8. /\ s.book.firstDay = book.firstDay /\ unseen.heard <= s.heard
          /\ s.heard \in Nat /\ s.lost \in BOOLEAN /\ s.sub
          /\ DOMAIN s = DOMAIN d
        BY <1>1, <1>2, <2>1, <2>2, <2>6, InvFacts DEF e
    <2> QED BY <1>1, <2>7, <2>8, Zenon
<1> QED BY <1>4, <1>5

LEMMA BeginningKeeps ==
    ASSUME IInv, NEW d \in Beginning(Drained)
    PROVE  /\ Following(tape, clock, feed.last, unseen.trades, d.book, d.heard, d.blind, served)
           /\ d.book.firstDay = book.firstDay /\ d.lost \in BOOLEAN
<1>1. PICK s \in Subscriptions(Drained) : d = [s EXCEPT !.book = EndedBy(@, clock)]
    BY DEF Beginning
<1>2. /\ Following(tape, clock, feed.last, unseen.trades, s.book, s.heard, s.blind, served)
      /\ s.book.firstDay = book.firstDay /\ s.lost \in BOOLEAN
      /\ DOMAIN s = {"book", "sub", "lost", "heard", "blind"}
    BY SubscriptionsKeep
<1> DEFINE e == EndedBy(s.book, clock)
<1>3. d.book = e /\ d.heard = s.heard /\ d.blind = s.blind /\ d.lost = s.lost
    BY <1>1, <1>2
<1>4. /\ Following(tape, clock, feed.last, unseen.trades, e, s.heard, s.blind, served)
      /\ e.firstDay = s.book.firstDay
    BY <1>2, EndedKeeps
<1> HIDE DEF e
<1> QED BY <1>2, <1>3, <1>4, Zenon

LEMMA FollowingKeeps ==
    ASSUME NEW q, NEW now, NEW last, NEW trades, NEW b, NEW heard, NEW blind, NEW srv,
           Following(q, now, last, trades, b, heard, blind, srv),
           NEW e, NEW new, BookInv(q, now, e, heard, blind, new), ServedInv(q, now, new),
           Linked(e, b)
    PROVE  Following(q, now, last, trades, e, heard, blind, new)
<1>1. /\ Case(q, now, b, heard, blind, srv) /\ Counting(q, last, b, TRUE, heard)
      /\ \A n \in heard + 1 .. Len(q) : n \in trades
      /\ last.kind = "tick" => last.n <= heard /\ Match(b, last)
    BY DEF Following, After
<1>2. Case(q, now, e, heard, blind, new)
    BY <1>1 DEF Case
<1>3. Counting(q, last, e, TRUE, heard) /\ (Match(b, last) => Match(e, last))
    BY <1>1, LinkedKeeps
<1> QED BY <1>1, <1>2, <1>3 DEF Following, After

LEMMA ServingKeeps ==
    ASSUME NEW q, NEW b, NEW heard, NEW blind, NEW srv, Case(q, clock, b, heard, blind, srv),
           b.finalBefore # None, NEW first \in Minute,
           first < clock,
           NEW excused, blind \subseteq excused, excused \subseteq Minute,
           NEW at, Awaited(q, heard, excused, at)
    PROVE  LET t == Trimmed(b, first)
               s == ServedOf(t, first, excused, srv.unreached) IN
           /\ BookInv(q, clock, t, heard, blind, s) /\ ServedInv(q, clock, s) /\ Linked(t, b)
           /\ \A m \in s.minutes : m + 1 <= clock
           /\ \A m \in srv.minutes \cap s.minutes :
                 srv.rows[m] <= s.rows[m] \/ m \in s.unreached
           /\ OpenInv(t, s, srv.unreached)
<1> DEFINE t == Trimmed(b, first)
<1>1. /\ BookInv(q, clock, t, heard, blind, srv) /\ Linked(t, b)
      /\ t.finalBefore = b.finalBefore
    BY TrimKeeps
<1> HIDE DEF t
<1>2. Case(q, clock, t, heard, blind, srv)
    BY <1>1 DEF Case
<1>3. t.finalBefore # None
    BY <1>1
<1>4. LET s == ServedOf(t, first, excused, srv.unreached) IN
      /\ BookInv(q, clock, t, heard, blind, s) /\ ServedInv(q, clock, s)
      /\ \A m \in s.minutes : m + 1 <= clock
      /\ \A m \in srv.minutes \cap s.minutes :
            srv.rows[m] <= s.rows[m] \/ m \in s.unreached
    BY <1>2, <1>3, ServeKeeps
<1>5. OpenInv(t, ServedOf(t, first, excused, srv.unreached), srv.unreached)
    <2>1. /\ srv.unreached \subseteq Minute /\ BookTypes(t, clock) /\ clock \in Minute
          /\ \A m \in Minute : m \in Nat
        BY <1>1, Numbers DEF Case, ServedInv, BookInv
    <2>2. t.firstDay \in Int
        BY <2>1, BookTyped
    <2> QED BY <2>1, <2>2 DEF OpenInv, ServedOf, Unreached
<1> QED BY <1>1, <1>4, <1>5 DEF t

\* A minute once served is revised upwards only, if an answer reached it.
Grows == \A m \in served.minutes \cap served'.minutes :
             served.rows[m] <= served'.rows[m] \/ m \in served'.unreached

LEMMA SameGrows ==
    ASSUME IInv, served' = served
    PROVE  Grows
<1>1. served.rows \in [Minute -> Nat] /\ served.minutes \subseteq Minute
    BY InvFacts DEF ServedInv
<1> QED BY <1>1 DEF Grows

\* A step that has read the inbox, with a subscription.
Polled(d) ==
    /\ tape' = tape /\ clock' = clock /\ inbox' = <<>> /\ unseen' = Heard(d)
    /\ feed'.last = feed.last /\ DOMAIN feed' = DOMAIN feed
    /\ DOMAIN stream' = DOMAIN stream /\ stream'.subscribed = TRUE /\ stream'.lost \in BOOLEAN

LEMMA PolledKeeps ==
    ASSUME IInv, NEW d, Polled(d), poll'.pc \in {"idle", "query"}, QueryInv',
           OpenInv(book', served', unseen.open),
           Following(tape, clock, feed.last, unseen.trades, book', d.heard, d.blind, served')
    PROVE  IInv'
<1> DEFINE some == {n \in unseen.trades : n > d.heard}
<1>1. unseen' = [heard |-> d.heard, blind |-> d.blind, trades |-> some,
                 open |-> unseen.open]
    BY DEF Polled, Heard
<1>2. /\ After(tape, clock, feed.last, unseen.trades, book', TRUE, d.heard, d.blind, served')
      /\ ServedInv(tape, clock, served')
      /\ feed.last.kind = "tick" => feed.last.n <= d.heard
    BY DEF Following, After, Case
<1>3. d.heard \in 0 .. Len(tape) /\ d.blind \subseteq Minute /\ Len(tape) \in Nat
    BY <1>2, InvFacts DEF After, Case
<1>4. /\ BookInv(tape, clock, book', d.heard, d.blind, served')
      /\ Counting(tape, feed.last, book', TRUE, d.heard)
      /\ Ahead(tape, <<>>, some, feed.last, book', d.heard, 0)
    <2>1. \A n \in unseen.trades : n > d.heard => n \in some
        OBVIOUS
    <2> HIDE DEF some
    <2>2. /\ BookInv(tape, clock, book', d.heard, d.blind, served')
          /\ Counting(tape, feed.last, book', TRUE, d.heard)
        BY <1>2, Zenon DEF After, Case
    <2>3. Ahead(tape, <<>>, some, feed.last, book', d.heard, 0)
        BY <1>2, <2>1, EmptyReader, Zenon
    <2> QED BY <2>2, <2>3
<1>5. ReaderInv(Reader, 0)'
    <2>1. /\ unseen'.heard = d.heard /\ unseen'.blind = d.blind /\ unseen'.trades = some
          /\ tape' = tape /\ clock' = clock /\ inbox' = <<>> /\ feed'.last = feed.last
          /\ stream'.subscribed = TRUE /\ stream'.lost \in BOOLEAN
        BY <1>1 DEF Polled
    <2> HIDE DEF some
    <2>2. /\ BookInv(tape', clock', book', unseen'.heard, unseen'.blind, served')
          /\ Ahead(tape', inbox', unseen'.trades, feed'.last, book', unseen'.heard, 0)
        BY <1>4, <2>1, Zenon
    <2>3. Counting(tape', feed'.last, book', stream'.subscribed, unseen'.heard)
        BY <1>4, <2>1, Zenon
    <2> QED BY <1>3, <2>1, <2>2, <2>3 DEF ReaderInv, Reader
<1>6. RestInv'
    <2>1. RestInv /\ unseen.trades \subseteq DOMAIN tape
        BY InvFacts DEF RestInv
    <2>2. DOMAIN unseen' = {"trades", "heard", "blind", "open"} /\ unseen'.trades \subseteq DOMAIN tape
        BY <1>1, <2>1
    <2> QED BY <2>1, <2>2 DEF RestInv, Polled
<1>7. TapeInv(tape, clock)' /\ WireInv(tape, inbox, feed.last)' /\ ServedInv(tape, clock, served)'
    <2>1. TapeInv(tape, clock) /\ WireInv(tape, <<>>, feed.last)
        BY InvFacts, EmptyWire
    <2> QED BY <1>2, <2>1 DEF Polled
<1>8. Unread(served, inbox, feed.last, unseen.heard)'
    <2>1. feed'.last.kind = "tick" => ~(feed'.last.n > unseen'.heard)
        <3>1. feed.last.kind = "tick" => feed.last.n \in 1 .. Len(tape)
            BY InvFacts, WireFacts
        <3> QED BY <1>1, <1>2, <1>3, <3>1 DEF Polled
    <2>2. inbox' = <<>>
        BY DEF Polled
    <2> QED BY <2>1, <2>2 DEF Unread
<1>9. OpenInv(book, served, unseen.open)'
    <2>1. unseen'.open = unseen.open
        BY <1>1
    <2> QED BY <2>1
<1> QED BY <1>5, <1>6, <1>7, <1>8, <1>9 DEF IInv

\* The query a poll begins.
LEMMA AskKeeps ==
    ASSUME IInv, NEW d, Polled(d), NEW first \in Minute, NEW seed \in BOOLEAN, NEW b,
           Following(tape, clock, feed.last, unseen.trades, b, d.heard, d.blind, served),
           Alike(book', b), Linked(book', b), served' = served,
           poll' = [pc |-> "query", at |-> clock, first |-> first, seed |-> seed,
                    from |-> IF seed THEN first ELSE b.firstDay],
           first < clock, b.firstDay = book.firstDay, ~seed => b.firstDay # None
    PROVE  IInv'
<1>1. /\ Case(tape, clock, b, d.heard, d.blind, served)
      /\ BookTypes(b, clock) /\ BookInv(tape, clock, b, d.heard, d.blind, served)
      /\ \A n \in d.heard + 1 .. Len(tape) : n \in unseen.trades
      /\ feed.last.kind = "tick" => feed.last.n <= d.heard
    BY DEF Following, After, Case, BookInv
<1>2. clock \in Minute /\ clock \in Nat /\ 1 <= clock /\ Len(tape) \in Nat /\ d.heard \in 0 .. Len(tape)
    BY <1>1, InvFacts DEF Case
<1>3. BookInv(tape, clock, book', d.heard, d.blind, served)
    <2>1. /\ book'.lastTotal \in Nat \cup {None}
          /\ book'.segment \in {None} \cup (1 .. LastMinute + 1 \ Session)
          /\ book'.ended \in 0 .. clock \cup {None}
        BY <1>1 DEF Linked, BookTypes
    <2> QED BY <1>1, <2>1, AlikeKeeps
<1>4. Following(tape, clock, feed.last, unseen.trades, book', d.heard, d.blind, served')
    <2>1. ServedInv(tape, clock, served)
        BY <1>1 DEF Case
    <2>2. Following(tape, clock, feed.last, unseen.trades, book', d.heard, d.blind, served)
        BY <1>3, <2>1, FollowingKeeps
    <2> QED BY <2>2
<1>5. /\ poll'.pc = "query" /\ poll'.at = clock /\ poll'.first = first /\ poll'.seed = seed
      /\ poll'.from = (IF seed THEN first ELSE b.firstDay)
    OBVIOUS
<1>6. /\ unseen'.heard = d.heard /\ unseen'.trades = {n \in unseen.trades : n > d.heard}
      /\ inbox' = <<>> /\ tape' = tape /\ clock' = clock /\ feed'.last = feed.last
    BY DEF Polled, Heard
<1>7. b.firstDay # None => b.firstDay \in Minute
    BY <1>1, <1>2, BookTyped
<1>8. QueryInv'
    <2>1. \A n \in 1 .. d.heard : tape[n].minute <= clock
        BY <1>1, <1>2, TapeFacts DEF Case
    <2>2. \A n \in d.heard + 1 .. Len(tape) : n \in {k \in unseen.trades : k > d.heard}
        BY <1>1, <1>2
    <2>3. feed.last.kind = "tick" => ~(feed.last.n > d.heard)
        <3>1. feed.last.kind = "tick" => feed.last.n \in 1 .. Len(tape)
            BY InvFacts, WireFacts
        <3> QED BY <1>1, <1>2, <3>1
    <2>4. /\ poll'.at \in Minute /\ 1 <= poll'.at /\ poll'.at <= clock' /\ clock' <= poll'.at + 1
          /\ poll'.first \in Minute /\ poll'.seed \in BOOLEAN
        BY <1>2, <1>5, <1>6
    <2>5. poll'.from \in Minute
        BY <1>5, <1>7
    <2>6. b.firstDay < clock /\ book'.firstDay = b.firstDay
        BY <1>1 DEF BookTypes, Alike
    <2>7. poll'.from < poll'.at /\ poll'.first < poll'.at /\ book'.firstDay < poll'.at
        BY <1>5, <2>6
    <2>8. \A j \in DOMAIN inbox' :
             (inbox'[j].kind = "tick" /\ inbox'[j].n > unseen'.heard) => inbox'[j].minute >= poll'.at
        BY <1>6
    <2>9. (feed'.last.kind = "tick" /\ feed'.last.n > unseen'.heard) => feed'.last.minute >= poll'.at
        BY <1>6, <2>3
    <2>10. \A n \in 1 .. unseen'.heard : tape'[n].minute <= poll'.at
        BY <1>5, <1>6, <2>1
    <2>11. \A n \in unseen'.heard + 1 .. Len(tape') :
             n \in unseen'.trades \/ \E j \in DOMAIN inbox' :
                 inbox'[j] = [kind |-> "tick", n |-> n, minute |-> tape'[n].minute,
                             total |-> tape'[n].total]
        BY <1>6, <2>2
    <2> QED BY <2>4, <2>5, <2>7, <2>8, <2>9, <2>10, <2>11 DEF QueryInv, TickOf
<1>9. OpenInv(book', served', unseen.open)
    <2>1. OpenInv(book, served, unseen.open) /\ book'.firstDay = book.firstDay
        BY InvFacts DEF Alike
    <2> QED BY <2>1 DEF OpenInv
<1> QED BY <1>4, <1>5, <1>8, <1>9, PolledKeeps

\* A poll waits, serves what is there, or begins a query.
LEMMA PollKeeps ==
    ASSUME IInv, NEW first \in FirstDays, Poll(first)
    PROVE  IInv' /\ Grows
<1>1. PICK d \in Beginning(Drained), on \in Accepted(Drained) :
         LET seed  == \/ d.book.finalBefore = None \/ d.book.firstDay = None
                      \/ first < d.book.firstDay
             b     == IF seed THEN d.book ELSE SkipClosed(d.book)
             wait  == seed /\ d.book.seedRetry # None /\ clock < d.book.seedRetry
             due   == /\ HoldsGap(b) /\ b.coveredFrom # None /\ clock > b.coveredFrom
                      /\ b.lastRefill = None \/ clock >= b.lastRefill + QuerySpacing
             asks  == ~wait /\ (seed \/ due)
         IN /\ feed' = [feed EXCEPT !.on = on]
            /\ stream' = [subscribed |-> TRUE, lost |-> d.lost,
                          queries |-> IF asks /\ ~Spent THEN stream.queries + 1 ELSE stream.queries]
            /\ unseen' = Heard(d)
            /\ \/ (wait \/ (asks /\ Spent)) /\ Raises(b)
               \/ ~wait /\ ~asks /\ Serves(b, first, d.heard, d.blind, unseen.open)
               \/ /\ asks /\ ~Spent
                  /\ book' = IF seed THEN [b EXCEPT !.seedRetry = clock + QuerySpacing]
                             ELSE [b EXCEPT !.lastRefill = clock]
                  /\ poll' = [pc |-> "query", at |-> clock, first |-> first, seed |-> seed,
                              from |-> IF seed THEN first ELSE b.firstDay]
                  /\ UNCHANGED served
    BY DEF Poll
<1> DEFINE ended == d.book
<1> DEFINE seed == \/ ended.finalBefore = None \/ ended.firstDay = None
                   \/ first < ended.firstDay
<1> DEFINE b == IF seed THEN ended ELSE SkipClosed(ended)
<1> DEFINE due == /\ HoldsGap(b) /\ b.coveredFrom # None /\ clock > b.coveredFrom
                  /\ b.lastRefill = None \/ clock >= b.lastRefill + QuerySpacing
<1>2. /\ inbox' = <<>> /\ clock' = clock /\ tape' = tape
      /\ first < clock
      /\ feed' = [feed EXCEPT !.on = on] /\ unseen' = Heard(d)
      /\ DOMAIN stream' = {"subscribed", "lost", "queries"}
      /\ stream'.subscribed = TRUE /\ stream'.lost = d.lost
    BY <1>1, ZenonT(40) DEF Poll, Asked
<1>3. \/ Raises(b)
      \/ ~seed /\ Serves(b, first, d.heard, d.blind, unseen.open)
      \/ /\ seed \/ due
         /\ book' = IF seed THEN [b EXCEPT !.seedRetry = clock + QuerySpacing]
                    ELSE [b EXCEPT !.lastRefill = clock]
         /\ poll' = [pc |-> "query", at |-> clock, first |-> first, seed |-> seed,
                     from |-> IF seed THEN first ELSE b.firstDay]
         /\ served' = served
    BY <1>1, Zenon
<1>4. d.lost \in BOOLEAN
    BY BeginningKeeps
<1>5. /\ Following(tape, clock, feed.last, unseen.trades, ended, d.heard, d.blind, served)
      /\ ended.firstDay = book.firstDay
    BY BeginningKeeps
<1> HIDE DEF ended
<1>6. Case(tape, clock, ended, d.heard, d.blind, served)
    BY <1>5 DEF Following, After
<1>7. /\ BookInv(tape, clock, b, d.heard, d.blind, served) /\ Linked(b, ended)
      /\ b.firstDay = book.firstDay /\ (~seed => b.finalBefore # None)
      /\ seed => b = ended
    <2>1. CASE seed
        BY <1>5, <1>6, <2>1 DEF Case, Linked
    <2>2. CASE ~seed
        <3>1. b = SkipClosed(ended) /\ ended.finalBefore # None
            BY <2>2
        <3> HIDE DEF b
        <3>2. LET e == SkipClosed(ended) IN
              /\ BookInv(tape, clock, e, d.heard, d.blind, served) /\ Linked(e, ended)
              /\ e.firstDay = ended.firstDay
              /\ (ended.finalBefore # None => e.finalBefore # None)
            BY <1>6, SkipKeeps
        <3> QED BY <1>5, <2>2, <3>1, <3>2
    <2> QED BY <2>1, <2>2
<1>8. seed \in BOOLEAN
    OBVIOUS
<1>9. ~seed => b.firstDay # None
    BY <1>5, <1>7
<1>10. OpenInv(b, served, unseen.open)
    <2>1. OpenInv(book, served, unseen.open)
        BY InvFacts
    <2> HIDE DEF b
    <2> QED BY <1>7, <2>1 DEF OpenInv
<1> HIDE DEF b, seed, due
<1>11. ServedInv(tape, clock, served) /\ BookTypes(ended, clock)
       /\ BookTypes(b, clock) /\ clock \in Minute /\ d.heard \in 0 .. Len(tape)
       /\ d.blind \subseteq Minute /\ TapeInv(tape, clock)
    BY <1>6, <1>7 DEF Case, BookInv
<1>12. Following(tape, clock, feed.last, unseen.trades, b, d.heard, d.blind, served)
    BY <1>5, <1>7, <1>11, FollowingKeeps
<1>13. first \in Minute /\ first \in Nat /\ clock \in Nat
    BY <1>11, BookAssumption, Numbers
<1>14. Polled(d)
    BY <1>2, <1>4, InvFacts DEF Polled, RestInv
<1>15. CASE Raises(b)
    <2>1. book' = b /\ served' = served /\ poll'.pc = "idle"
        BY <1>15 DEF Raises
    <2>2. QueryInv'
        BY <2>1 DEF QueryInv
    <2>3. Following(tape, clock, feed.last, unseen.trades, book', d.heard, d.blind, served')
        BY <1>12, <2>1
    <2> QED BY <1>10, <1>14, <2>1, <2>2, <2>3, PolledKeeps, SameGrows
<1>16. CASE ~seed /\ Serves(b, first, d.heard, d.blind, unseen.open)
    <2> DEFINE x == Excused(d.heard, d.blind)
    <2> DEFINE t == Trimmed(b, first)
    <2> DEFINE s == ServedOf(t, first, x, unseen.open)
    <2>1. book' = t /\ served' = s /\ poll'.pc = "idle"
        BY <1>16 DEF Serves, ServedOf
    <2>2. x = d.blind \cup {tape[n].minute : n \in {k \in unseen.trades : k > d.heard}}
        BY DEF Excused
    <2>3. \A n \in d.heard + 1 .. Len(tape) : n \in unseen.trades
        BY <1>12 DEF Following, After
    <2> HIDE DEF x
    <2>4. Len(tape) \in Nat /\ unseen.trades \subseteq 1 .. Len(tape)
          /\ \A n \in 1 .. Len(tape) : tape[n].minute \in Minute /\ tape[n].minute <= clock
        BY <1>11, InvFacts, TapeFacts DEF RestInv
    <2>5. d.blind \subseteq x /\ x \subseteq Minute
        BY <1>11, <2>2, <2>4
    <2>6. Awaited(tape, d.heard, x, clock)
        <3>1. \A n \in d.heard + 1 .. Len(tape) : tape[n].minute \in x
            BY <1>11, <2>2, <2>3, <2>4
        <3> QED BY <1>11, <1>13, <2>4, <3>1 DEF Awaited
    <2>7. b.finalBefore # None
        BY <1>7, <1>16
    <2>8. Case(tape, clock, b, d.heard, d.blind, served)
        BY <1>12 DEF Following, After
    <2> DEFINE o == Owed(served, unseen.open)
    <2>9. /\ Case(tape, clock, b, d.heard, d.blind, o) /\ o.minutes = served.minutes
          /\ o.rows = served.rows /\ o.unreached = unseen.open
        BY <1>10, <2>8, OwedKeeps
    <2> HIDE DEF o
    <2>10. /\ BookInv(tape, clock, t, d.heard, d.blind, s) /\ ServedInv(tape, clock, s)
           /\ Linked(t, b) /\ OpenInv(t, s, unseen.open)
           /\ \A m \in served.minutes \cap s.minutes :
                 served.rows[m] <= s.rows[m] \/ m \in s.unreached
        <3>1. LET u == ServedOf(t, first, x, o.unreached) IN
              /\ BookInv(tape, clock, t, d.heard, d.blind, u) /\ ServedInv(tape, clock, u)
              /\ Linked(t, b) /\ OpenInv(t, u, o.unreached)
              /\ \A m \in o.minutes \cap u.minutes : o.rows[m] <= u.rows[m] \/ m \in u.unreached
            BY <1>2, <1>13, <2>5, <2>6, <2>7, <2>9, ServingKeeps
        <3> HIDE DEF t
        <3> QED BY <2>9, <3>1
    <2> HIDE DEF s, t
    <2>11. Following(tape, clock, feed.last, unseen.trades, t, d.heard, d.blind, s)
        BY <1>12, <2>10, FollowingKeeps
    <2>12. Following(tape, clock, feed.last, unseen.trades, book', d.heard, d.blind, served')
        BY <2>1, <2>11
    <2>13. QueryInv'
        BY <2>1 DEF QueryInv
    <2>14. Grows
        BY <2>1, <2>10 DEF Grows
    <2>15. OpenInv(book', served', unseen.open)
        BY <2>1, <2>10
    <2> QED BY <1>14, <2>1, <2>12, <2>13, <2>14, <2>15, PolledKeeps
<1>17. CASE /\ seed \/ due
            /\ book' = IF seed THEN [b EXCEPT !.seedRetry = clock + QuerySpacing]
                       ELSE [b EXCEPT !.lastRefill = clock]
            /\ poll' = [pc |-> "query", at |-> clock, first |-> first, seed |-> seed,
                        from |-> IF seed THEN first ELSE b.firstDay]
            /\ served' = served
    <2>1. Alike(book', b) /\ Linked(book', b)
        <3>1. DOMAIN b = {"history", "minutes", "finalBefore", "coveredFrom", "firstDay",
                          "lastRefill", "seedRetry", "lastTotal", "lastMinute", "segment", "ended"}
            BY <1>11 DEF BookTypes
        <3>2. CASE seed
            <4>1. book' = [b EXCEPT !.seedRetry = clock + QuerySpacing]
                BY <1>17, <3>2
            <4> QED BY <3>1, <4>1 DEF Alike, Linked
        <3>3. CASE ~seed
            <4>1. book' = [b EXCEPT !.lastRefill = clock]
                BY <1>17, <3>3
            <4> QED BY <3>1, <4>1 DEF Alike, Linked
        <3> QED BY <3>2, <3>3
    <2>2. IInv'
        BY <1>2, <1>7, <1>8, <1>9, <1>12, <1>13, <1>14, <1>17, <2>1, AskKeeps
    <2> QED BY <1>17, <2>2, SameGrows
<1> QED BY <1>3, <1>15, <1>16, <1>17

LEMMA SubscribeFailsKeeps ==
    ASSUME IInv, NEW first, SubscribeFails(first)
    PROVE  IInv' /\ Grows
<1> DEFINE d == Drained
<1> DEFINE some == {n \in unseen.trades : n > d.heard}
<1>1. /\ After(tape, clock, feed.last, unseen.trades, d.book, d.sub, d.heard, d.blind, served)
      /\ unseen.heard <= d.heard /\ d.lost \in BOOLEAN /\ d.book.firstDay = book.firstDay
    BY InvFacts, DrainedAfter
<1>2. /\ d.sub = FALSE /\ book' = d.book /\ served' = served /\ poll'.pc = "idle"
      /\ stream' = [stream EXCEPT !.subscribed = FALSE, !.lost = d.lost]
      /\ unseen' = [heard |-> d.heard, blind |-> d.blind, trades |-> some,
                    open |-> unseen.open]
      /\ inbox' = <<>> /\ clock' = clock /\ tape' = tape /\ feed' = feed
    <2>1. d.sub \in BOOLEAN
        BY <1>1 DEF After
    <2> QED BY <2>1 DEF SubscribeFails, Raises, Heard
<1> HIDE DEF d, some
<1>3. /\ BookInv(tape, clock, d.book, d.heard, d.blind, served)
      /\ Counting(tape, feed.last, d.book, d.sub, d.heard)
      /\ d.heard \in 0 .. Len(tape) /\ d.blind \subseteq Minute /\ Len(tape) \in Nat
    BY <1>1, InvFacts DEF After, Case
<1>4. RestInv'
    BY <1>2, InvFacts DEF RestInv, some
<1>5. /\ stream'.subscribed = FALSE /\ stream'.lost \in BOOLEAN
    BY <1>1, <1>2, InvFacts DEF RestInv
<1>6. ReaderInv(Reader, 0)'
    <2>1. /\ unseen'.heard = d.heard /\ unseen'.blind = d.blind
        BY <1>2
    <2>2. BookInv(tape', clock', book', unseen'.heard, unseen'.blind, served')
        BY <1>2, <1>3, <2>1, Zenon
    <2>3. Counting(tape', feed'.last, book', stream'.subscribed, unseen'.heard)
        BY <1>2, <1>3, <1>5, <2>1, Zenon
    <2> QED BY <1>2, <1>3, <1>5, <2>1, <2>2, <2>3 DEF ReaderInv, Reader
<1>7. TapeInv(tape, clock)' /\ WireInv(tape, inbox, feed.last)' /\ ServedInv(tape, clock, served)'
    <2>1. WireInv(tape, <<>>, feed.last)
        BY InvFacts, EmptyWire
    <2> QED BY <1>2, <2>1, InvFacts
<1>8. Unread(served, inbox, feed.last, unseen.heard)'
    <2>1. Unread(served, inbox, feed.last, unseen.heard)
        BY InvFacts
    <2>2. feed.last.kind = "tick" => feed.last.n \in 1 .. Len(tape)
        BY InvFacts, WireFacts
    <2>3. (feed.last.kind = "tick" /\ feed.last.n > d.heard) => feed.last.n > unseen.heard
        BY <1>1, <1>3, <2>2, InvFacts
    <2> QED BY <1>2, <2>1, <2>3 DEF Unread
<1>9. QueryInv'
    BY <1>2 DEF QueryInv
<1>10. OpenInv(book, served, unseen.open)'
    <2>1. OpenInv(book, served, unseen.open) /\ book'.firstDay = book.firstDay
          /\ unseen'.open = unseen.open
        BY <1>1, <1>2, InvFacts
    <2> QED BY <1>2, <2>1 DEF OpenInv
<1> QED BY <1>2, <1>4, <1>6, <1>7, <1>8, <1>9, <1>10, SameGrows DEF IInv

\* A step of the book only, which ends a query.
LEMMA BookKeeps ==
    ASSUME IInv, UNCHANGED <<clock, tape, inbox, stream>>,
           feed'.last = feed.last, DOMAIN feed' = DOMAIN feed, poll'.pc = "idle",
           unseen'.heard = unseen.heard, unseen'.blind = unseen.blind,
           unseen'.trades = unseen.trades, DOMAIN unseen' = DOMAIN unseen,
           OpenInv(book', served', unseen'.open),
           BookInv(tape, clock, book', unseen.heard, unseen.blind, served'),
           Linked(book', book), ServedInv(tape, clock, served'),
           Unread(served', inbox, feed.last, unseen.heard)
    PROVE  IInv'
<1>1. /\ ReaderInv(Reader, 0) /\ RestInv /\ TapeInv(tape, clock) /\ WireInv(tape, inbox, feed.last)
    BY InvFacts
<1>2. /\ stream.subscribed \in BOOLEAN /\ stream.lost \in BOOLEAN
      /\ unseen.heard \in 0 .. Len(tape) /\ unseen.blind \subseteq Minute
      /\ Counting(tape, feed.last, book, stream.subscribed, unseen.heard)
      /\ stream.subscribed => Ahead(tape, inbox, unseen.trades, feed.last, book, unseen.heard, 0)
    BY <1>1 DEF ReaderInv, Reader
<1>3. Counting(tape, feed.last, book', stream.subscribed, unseen.heard)
    BY <1>2, LinkedKeeps
<1>4. stream.subscribed => Ahead(tape, inbox, unseen.trades, feed.last, book', unseen.heard, 0)
    BY <1>2 DEF Ahead, Linked, Match
<1>5. ReaderInv(Reader, 0)'
    <2>1. /\ BookInv(tape', clock', book', unseen'.heard, unseen'.blind, served')
          /\ Counting(tape', feed'.last, book', stream'.subscribed, unseen'.heard)
          /\ stream'.subscribed => Ahead(tape', inbox', unseen'.trades, feed'.last, book', unseen'.heard, 0)
        BY <1>3, <1>4, Zenon
    <2> QED BY <1>2, <2>1 DEF ReaderInv, Reader
<1>6. RestInv'
    BY <1>1 DEF RestInv
<1>7. QueryInv'
    BY DEF QueryInv
<1>8. /\ TapeInv(tape, clock)' /\ WireInv(tape, inbox, feed.last)'
      /\ ServedInv(tape, clock, served)' /\ Unread(served, inbox, feed.last, unseen.heard)'
      /\ OpenInv(book, served, unseen.open)'
    BY <1>1
<1> QED BY <1>5, <1>6, <1>7, <1>8 DEF IInv

LEMMA QueryFailsKeeps ==
    ASSUME IInv, QueryFails
    PROVE  IInv' /\ Grows
<1>1. /\ UNCHANGED <<clock, tape, inbox, stream, unseen>> /\ book' = book /\ served' = served
      /\ poll'.pc = "idle" /\ feed' = [feed EXCEPT !.faults = @ + 1]
    BY DEF QueryFails, Raises
<1>2. feed'.last = feed.last /\ DOMAIN feed' = DOMAIN feed
    BY <1>1, InvFacts DEF RestInv
<1>3. BookInv(tape, clock, book, unseen.heard, unseen.blind, served) /\ Linked(book, book)
    BY InvFacts DEF ReaderInv, Reader, Linked
<1>4. OpenInv(book', served', unseen'.open)
    BY <1>1, InvFacts
<1> QED BY <1>1, <1>2, <1>3, <1>4, InvFacts, BookKeeps, SameGrows

LEMMA AnswersUsable ==
    ASSUME NEW a \in Answers
    PROVE  \E k \in 0 .. Len(tape) : /\ a = Asking(tape, poll.from, k)
                                     /\ Usable(tape, book, a, poll.from, poll.at)
<1>1. PICK k \in 0 .. Len(tape) : a = Answer(k)
    BY DEF Answers
<1>2. a = Asking(tape, poll.from, k)
    BY <1>1 DEF Answer, Asking, Counted, Count
<1>3. \/ Whole(a) \/ RunsBehind(book, a, poll.at)
      \/ HoldsRows(book) /\ RowsOf(a) = {}
    BY DEF Answers
<1>4. Whole(a) => \A m \in Minute : (poll.from <= m /\ m + 2 <= poll.at) =>
                     a[m] = Count(tape, m, Len(tape))
    BY DEF Whole, Lots, Counted, Count
<1>5. Usable(tape, book, a, poll.from, poll.at)
    BY <1>3, <1>4 DEF Usable
<1> QED BY <1>2, <1>5

\* The answer is taken, and what is complete then is served.
LEMMA AnsweredKeeps ==
    ASSUME IInv, Answered
    PROVE  IInv' /\ Grows
<1> DEFINE from == poll.from
<1> DEFINE at == poll.at
<1> DEFINE heard == unseen.heard
<1> DEFINE blind == unseen.blind
<1>1. poll.pc = "query" /\ UNCHANGED <<clock, tape, feed, inbox, stream>>
    BY DEF Answered
<1>2. PICK a \in Answers :
         LET b == TakeKbars(book, a, poll.from, poll.at)
             r == IF poll.seed /\ b.firstDay = poll.from THEN [b EXCEPT !.seedRetry = None] ELSE b
             open == Lacking(book, a, poll.from, poll.at, unseen.open)
         IN /\ unseen' = [unseen EXCEPT !.open = open]
            /\ IF r.finalBefore = None THEN Raises(r)
               ELSE Serves(SkipClosed(r), poll.first, unseen.heard, unseen.blind, open)
    BY DEF Answered
<1> DEFINE open == Lacking(book, a, from, at, unseen.open)
<1> DEFINE b == TakeKbars(book, a, from, at)
<1> DEFINE r == IF poll.seed /\ b.firstDay = from THEN [b EXCEPT !.seedRetry = None] ELSE b
<1>3. /\ from \in Minute /\ at \in Minute /\ 1 <= at /\ at <= clock /\ clock <= at + 1
      /\ poll.first \in Minute /\ poll.seed \in BOOLEAN
      /\ from < at /\ poll.first < at /\ book.firstDay < at
      /\ \A j \in DOMAIN inbox :
            (inbox[j].kind = "tick" /\ inbox[j].n > heard) => inbox[j].minute >= at
      /\ (feed.last.kind = "tick" /\ feed.last.n > heard) => feed.last.minute >= at
      /\ \A n \in 1 .. heard : tape[n].minute <= at
      /\ \A n \in heard + 1 .. Len(tape) :
            n \in unseen.trades \/ \E j \in DOMAIN inbox : inbox[j] = TickOf(tape, n)
    BY <1>1, InvFacts DEF QueryInv
<1>4. PICK k \in 0 .. Len(tape) : /\ a = Asking(tape, from, k)
                                  /\ Usable(tape, book, a, from, at)
    BY AnswersUsable
<1>5. Case(tape, clock, book, heard, blind, served)
    BY InvFacts DEF Case, ReaderInv, Reader
<1> DEFINE had == Owed(served, unseen.open)
<1> DEFINE new == Owed(served, open)
<1>6. Case(tape, clock, book, heard, blind, had) /\ had.unreached = unseen.open
    <2>1. OpenInv(book, served, unseen.open)
        BY InvFacts
    <2> HIDE DEF heard, blind
    <2> QED BY <1>5, <2>1, OwedKeeps
<1>7. /\ BookInv(tape, clock, b, heard, blind, new) /\ Linked(b, book) /\ open \subseteq Minute
      /\ \/ b = book /\ open = unseen.open
         \/ b.firstDay = from /\ b.finalBefore # None
    <2> DEFINE ans == Asking(tape, from, k)
    <2>1. Windowed(book, from, at)
        BY <1>3 DEF Windowed
    <2>2. Usable(tape, book, ans, from, at) /\ a = ans
        BY <1>4
    <2>3. LET e == TakeKbars(book, ans, from, at)
              n == Lacking(book, ans, from, at, had.unreached) IN
          /\ BookInv(tape, clock, e, heard, blind, Owed(had, n)) /\ Linked(e, book)
          /\ n \subseteq Minute
          /\ \/ e = book /\ n = had.unreached
             \/ e.firstDay = from /\ e.finalBefore # None
        <3> HIDE DEF from, at, heard, blind, had
        <3> QED BY <1>3, <1>6, <2>1, <2>2, TakeKeeps
    <2>4. Owed(had, open) = new
        <3>1. DOMAIN served = {"minutes", "rows", "excused", "unreached"}
            BY InvFacts DEF ServedInv
        <3> HIDE DEF open
        <3> QED BY <3>1 DEF Owed
    <2> HIDE DEF ans, had, new
    <2> QED BY <1>6, <2>2, <2>3, <2>4
<1>8. /\ new.minutes = served.minutes /\ new.rows = served.rows /\ new.unreached = open
    <2>1. DOMAIN served = {"minutes", "rows", "excused", "unreached"}
        BY InvFacts DEF ServedInv
    <2> HIDE DEF open
    <2> QED BY <2>1 DEF Owed
<1>9. ServedInv(tape, clock, new)
    <2>1. ServedInv(tape, clock, served)
        BY InvFacts
    <2>2. new.excused = Minute /\ DOMAIN new = DOMAIN served
        BY <2>1 DEF Owed, ServedInv
    <2> HIDE DEF new, open
    <2> QED BY <1>7, <1>8, <2>1, <2>2 DEF ServedInv
<1>10. /\ unseen' = [unseen EXCEPT !.open = open]
       /\ IF r.finalBefore = None THEN Raises(r)
          ELSE Serves(SkipClosed(r), poll.first, heard, blind, open)
    BY <1>2
<1> HIDE DEF b, from, at, heard, blind, open, new, had
<1>11. TapeInv(tape, clock) /\ clock \in Minute /\ heard \in 0 .. Len(tape) /\ blind \subseteq Minute
      /\ ServedInv(tape, clock, served) /\ BookTypes(b, clock)
    BY <1>5, <1>7 DEF Case, BookInv
<1>12. /\ Alike(r, b) /\ Linked(r, b)
    <2>1. DOMAIN b = {"history", "minutes", "finalBefore", "coveredFrom", "firstDay",
                      "lastRefill", "seedRetry", "lastTotal", "lastMinute", "segment", "ended"}
        BY <1>11 DEF BookTypes
    <2> QED BY <2>1 DEF Alike, Linked
<1> HIDE DEF r
<1>13. BookInv(tape, clock, r, heard, blind, new) /\ Linked(r, book)
    <2>1. /\ r.lastTotal \in Nat \cup {None}
          /\ r.segment \in {None} \cup (1 .. LastMinute + 1 \ Session)
          /\ r.ended \in 0 .. clock \cup {None}
        BY <1>11, <1>12 DEF Linked, BookTypes
    <2>2. BookInv(tape, clock, r, heard, blind, new)
        BY <1>7, <1>12, <2>1, AlikeKeeps
    <2> QED BY <1>7, <1>12, <2>2 DEF Linked
<1>14. /\ unseen'.heard = unseen.heard /\ unseen'.blind = unseen.blind
       /\ unseen'.trades = unseen.trades /\ unseen'.open = open
       /\ DOMAIN unseen' = DOMAIN unseen
    <2>1. DOMAIN unseen = {"trades", "heard", "blind", "open"}
        BY InvFacts DEF RestInv
    <2> QED BY <1>10, <2>1
<1>15. /\ UNCHANGED <<clock, tape, inbox, stream>>
       /\ feed'.last = feed.last /\ DOMAIN feed' = DOMAIN feed
    BY <1>1
<1>16. CASE r.finalBefore = None
    <2>1. book' = r /\ served' = served /\ poll'.pc = "idle"
        BY <1>10, <1>16 DEF Raises
    <2>2. b.finalBefore = None /\ b = book /\ open = unseen.open
        BY <1>7, <1>12, <1>16 DEF Alike
    <2>3. BookInv(tape, clock, r, heard, blind, served)
        <3>1. /\ r.lastTotal \in Nat \cup {None}
              /\ r.segment \in {None} \cup (1 .. LastMinute + 1 \ Session)
              /\ r.ended \in 0 .. clock \cup {None}
            BY <1>11, <1>12 DEF Linked, BookTypes
        <3>2. BookInv(tape, clock, book, heard, blind, served)
            BY <1>5 DEF Case
        <3> QED BY <1>12, <2>2, <3>1, <3>2, AlikeKeeps
    <2>4. OpenInv(book', served', unseen'.open)
        <3>1. OpenInv(book, served, unseen.open) /\ book'.firstDay = book.firstDay
            BY <1>12, <2>1, <2>2, InvFacts DEF Alike
        <3> QED BY <1>14, <2>1, <2>2, <3>1 DEF OpenInv
    <2> QED BY <1>13, <1>15, <1>14, <2>1, <2>3, <2>4, InvFacts, BookKeeps, SameGrows DEF heard, blind
<1>17. CASE r.finalBefore # None
    <2> DEFINE p == SkipClosed(r)
    <2> DEFINE x == Excused(heard, blind)
    <2> DEFINE t == Trimmed(p, poll.first)
    <2> DEFINE s == ServedOf(t, poll.first, x, open)
    <2>1. book' = t /\ served' = s /\ poll'.pc = "idle"
        BY <1>10, <1>17 DEF Serves, ServedOf
    <2>2. Case(tape, clock, r, heard, blind, new)
        BY <1>11, <1>13, <1>9 DEF Case
    <2>3. /\ BookInv(tape, clock, p, heard, blind, new) /\ Linked(p, r)
          /\ p.finalBefore # None
        BY <1>17, <2>2, SkipKeeps
    <2>4. x = blind \cup {tape[n].minute : n \in {i \in unseen.trades : i > heard}}
        BY DEF Excused
    <2> HIDE DEF p, x
    <2>5. Len(tape) \in Nat /\ unseen.trades \subseteq 1 .. Len(tape)
          /\ \A n \in 1 .. Len(tape) : tape[n].minute \in Minute
        BY <1>11, InvFacts, TapeFacts DEF RestInv
    <2>6. blind \subseteq x /\ x \subseteq Minute
        BY <1>11, <2>4, <2>5
    <2>7. Awaited(tape, heard, x, at)
        <3>1. \A n \in heard + 1 .. Len(tape) : tape[n].minute \in x \/ tape[n].minute >= at
            <4> TAKE n \in heard + 1 .. Len(tape)
            <4>1. CASE n \in unseen.trades
                BY <1>11, <2>4, <2>5, <4>1
            <4>2. CASE \E j \in DOMAIN inbox : inbox[j] = TickOf(tape, n)
                <5>1. PICK j \in DOMAIN inbox : inbox[j] = TickOf(tape, n)
                    BY <4>2
                <5>2. inbox[j].kind = "tick" /\ inbox[j].n = n /\ inbox[j].minute = tape[n].minute
                    BY <5>1 DEF TickOf
                <5> QED BY <1>3, <1>11, <2>5, <5>2
            <4> QED BY <1>3, <4>1, <4>2
        <3> QED BY <1>3, <3>1 DEF Awaited
    <2>8. poll.first < clock
        BY <1>3, <1>11, Numbers
    <2>9. Case(tape, clock, p, heard, blind, new)
        BY <2>2, <2>3 DEF Case
    <2>10. /\ BookInv(tape, clock, t, heard, blind, s) /\ ServedInv(tape, clock, s) /\ Linked(t, p)
           /\ \A m \in s.minutes : m + 1 <= clock
           /\ \A m \in served.minutes \cap s.minutes :
                 served.rows[m] <= s.rows[m] \/ m \in s.unreached
           /\ OpenInv(t, s, open)
        <3>1. LET u == ServedOf(t, poll.first, x, new.unreached) IN
              /\ BookInv(tape, clock, t, heard, blind, u) /\ ServedInv(tape, clock, u)
              /\ Linked(t, p) /\ \A m \in u.minutes : m + 1 <= clock
              /\ \A m \in new.minutes \cap u.minutes :
                    new.rows[m] <= u.rows[m] \/ m \in u.unreached
              /\ OpenInv(t, u, new.unreached)
            BY <1>3, <2>3, <2>6, <2>7, <2>8, <2>9, ServingKeeps
        <3> HIDE DEF t
        <3> QED BY <1>8, <3>1
    <2> HIDE DEF s, t
    <2>11. Linked(t, book)
        BY <1>13, <2>3, <2>10 DEF Linked
    <2>12. Unread(s, inbox, feed.last, heard)
        <3> SUFFICES ASSUME NEW m \in s.minutes
                     PROVE  /\ \A j \in DOMAIN inbox :
                                 (inbox[j].kind = "tick" /\ inbox[j].n > heard) => m <= inbox[j].minute
                            /\ (feed.last.kind = "tick" /\ feed.last.n > heard) => m <= feed.last.minute
            BY DEF Unread
        <3>1. m \in Nat /\ clock \in Nat /\ at \in Nat
            BY <1>3, <1>11, <2>10, Numbers DEF ServedInv
        <3>2. m <= at
            BY <1>3, <2>10, <3>1
        <3>3. \A j \in DOMAIN inbox : inbox[j].kind = "tick" => inbox[j].minute \in Nat
            BY <1>11, InvFacts, WireFacts
        <3>4. feed.last.kind = "tick" => feed.last.minute \in Nat
            <4>1. feed.last.kind = "tick" =>
                     feed.last.n \in 1 .. Len(tape) /\ feed.last = TickOf(tape, feed.last.n)
                BY <1>11, InvFacts, WireFacts
            <4>2. feed.last.kind = "tick" => feed.last.minute = tape[feed.last.n].minute
                BY <4>1 DEF TickOf
            <4> QED BY <1>11, <4>1, <4>2, TapeFacts
        <3> QED BY <1>3, <3>1, <3>2, <3>3, <3>4
    <2>13. IInv'
        BY <1>15, <1>14, <2>1, <2>10, <2>11, <2>12, BookKeeps DEF heard, blind
    <2>14. Grows
        BY <2>1, <2>10 DEF Grows
    <2> QED BY <2>13, <2>14
<1> QED BY <1>16, <1>17

(***************************************************************************)
(* The steps that touch neither the record of trades nor the inbox.        *)
(***************************************************************************)
\* The feed's state, its last tick apart, is of no concern to the book.
LEMMA FeedKeeps ==
    ASSUME IInv, UNCHANGED <<clock, tape, inbox, stream, book, poll, served, unseen>>,
           feed'.last = feed.last, DOMAIN feed' = DOMAIN feed
    PROVE  IInv' /\ Grows
<1>1. /\ ReaderInv(Reader, 0) /\ RestInv /\ QueryInv
      /\ TapeInv(tape, clock) /\ WireInv(tape, inbox, feed.last)
      /\ ServedInv(tape, clock, served) /\ Unread(served, inbox, feed.last, unseen.heard)
      /\ OpenInv(book, served, unseen.open)
    BY InvFacts
<1>2. ReaderInv(Reader, 0)'
    <2>1. /\ BookInv(tape, clock, book, unseen.heard, unseen.blind, served)
          /\ Counting(tape, feed.last, book, stream.subscribed, unseen.heard)
          /\ stream.subscribed => Ahead(tape, inbox, unseen.trades, feed.last, book, unseen.heard, 0)
          /\ stream.subscribed \in BOOLEAN /\ stream.lost \in BOOLEAN
          /\ unseen.heard \in 0 .. Len(tape) /\ unseen.blind \subseteq Minute
        BY <1>1 DEF ReaderInv, Reader
    <2>2. /\ BookInv(tape', clock', book', unseen'.heard, unseen'.blind, served')
          /\ Counting(tape', feed'.last, book', stream'.subscribed, unseen'.heard)
          /\ stream'.subscribed => Ahead(tape', inbox', unseen'.trades, feed'.last, book', unseen'.heard, 0)
        BY <2>1, Zenon
    <2> QED BY <2>1, <2>2 DEF ReaderInv, Reader
<1>3. RestInv'
    BY <1>1 DEF RestInv
<1>4. QueryInv'
    BY <1>1 DEF QueryInv, TickOf
<1>5. /\ TapeInv(tape, clock)' /\ WireInv(tape, inbox, feed.last)'
      /\ ServedInv(tape, clock, served)' /\ Unread(served, inbox, feed.last, unseen.heard)'
      /\ OpenInv(book, served, unseen.open)'
    BY <1>1
<1> QED BY <1>2, <1>3, <1>4, <1>5, SameGrows DEF IInv

LEMMA DisconnectKeeps ==
    ASSUME IInv, Disconnect
    PROVE  IInv' /\ Grows
<1>1. feed'.last = feed.last /\ DOMAIN feed' = DOMAIN feed
    BY InvFacts DEF Disconnect, RestInv
<1> QED BY <1>1, FeedKeeps DEF Disconnect

LEMMA ReconnectKeeps ==
    ASSUME IInv, Reconnect
    PROVE  IInv' /\ Grows
<1>1. feed'.last = feed.last /\ DOMAIN feed' = DOMAIN feed
    BY InvFacts DEF Reconnect, RestInv
<1> QED BY <1>1, FeedKeeps DEF Reconnect

\* A minute later no trade comes where none came any more.
LEMMA LaterKeeps ==
    ASSUME NEW q, NEW now \in Minute, now + 1 \in Minute, TapeInv(q, now)
    PROVE  /\ TapeInv(q, now + 1)
           /\ \A m \in Minute : Closed(q, now, m) => Closed(q, now + 1, m)
           /\ \A b, heard, blind, srv :
                 BookInv(q, now, b, heard, blind, srv) => BookInv(q, now + 1, b, heard, blind, srv)
           /\ \A srv : ServedInv(q, now, srv) => ServedInv(q, now + 1, srv)
<1>1. now \in Nat /\ \A m \in Minute : m \in Nat
    BY Numbers
<1>2. TapeInv(q, now + 1)
    <2>1. \A n \in 1 .. Len(q) : q[n].minute \in Nat /\ q[n].minute <= now
        BY TapeFacts
    <2>2. DOMAIN q = 1 .. Len(q)
        BY TapeFacts
    <2>3. \A n \in DOMAIN q : q[n].minute <= now + 1
        BY <1>1, <2>1, <2>2
    <2> QED BY <2>3 DEF TapeInv
<1>3. \A m \in Minute : Closed(q, now, m) => Closed(q, now + 1, m)
    BY <1>1 DEF Closed
<1>4. ASSUME NEW b, NEW heard, NEW blind, NEW srv, BookInv(q, now, b, heard, blind, srv)
      PROVE  BookInv(q, now + 1, b, heard, blind, srv)
    <2>1. /\ BookTypes(b, now) /\ Settled(q, now, b, blind, srv)
          /\ Streamed(q, b, heard, blind, srv) /\ Held(b, srv)
        BY <1>4 DEF BookInv
    <2>2. BookTypes(b, now + 1)
        <3>1. b.ended \in 0 .. now + 1 \cup {None} /\ b.firstDay < now + 1
            BY <1>1, <2>1, BookTyped DEF BookTypes
        <3> QED BY <2>1, <3>1 DEF BookTypes
    <2>3. Settled(q, now + 1, b, blind, srv)
        BY <1>3, <2>1 DEF Settled
    <2> QED BY <2>1, <2>2, <2>3 DEF BookInv
<1>5. ASSUME NEW srv, ServedInv(q, now, srv)
      PROVE  ServedInv(q, now + 1, srv)
    BY <1>3, <1>5 DEF ServedInv
<1> QED BY <1>2, <1>3, <1>4, <1>5

LEMMA TickKeeps ==
    ASSUME IInv, Tick
    PROVE  IInv' /\ Grows
<1>1. /\ ReaderInv(Reader, 0) /\ RestInv /\ QueryInv
      /\ TapeInv(tape, clock) /\ WireInv(tape, inbox, feed.last)
      /\ ServedInv(tape, clock, served) /\ Unread(served, inbox, feed.last, unseen.heard)
      /\ clock \in Minute /\ clock \in Nat /\ 1 <= clock
      /\ OpenInv(book, served, unseen.open)
    BY InvFacts
<1>2. /\ clock' = clock + 1 /\ clock < LastMinute /\ (poll.pc = "query" => clock = poll.at)
      /\ UNCHANGED <<tape, feed, inbox, stream, book, poll, served, unseen>>
    BY DEF Tick
<1>3. clock + 1 \in Minute
    BY <1>1, <1>2, Numbers
<1>4. /\ TapeInv(tape, clock + 1) /\ ServedInv(tape, clock + 1, served)
      /\ BookInv(tape, clock, book, unseen.heard, unseen.blind, served)
      /\ BookInv(tape, clock + 1, book, unseen.heard, unseen.blind, served)
    <2>1. BookInv(tape, clock, book, unseen.heard, unseen.blind, served)
        BY <1>1 DEF ReaderInv, Reader
    <2>2. /\ TapeInv(tape, clock + 1)
          /\ \A b, heard, blind, srv :
                 BookInv(tape, clock, b, heard, blind, srv) => BookInv(tape, clock + 1, b, heard, blind, srv)
          /\ \A srv : ServedInv(tape, clock, srv) => ServedInv(tape, clock + 1, srv)
        BY <1>1, <1>3, LaterKeeps
    <2> QED BY <1>1, <2>1, <2>2, Zenon
<1>5. ReaderInv(Reader, 0)'
    <2>1. /\ Counting(tape, feed.last, book, stream.subscribed, unseen.heard)
          /\ stream.subscribed => Ahead(tape, inbox, unseen.trades, feed.last, book, unseen.heard, 0)
          /\ stream.subscribed \in BOOLEAN /\ stream.lost \in BOOLEAN
          /\ unseen.heard \in 0 .. Len(tape) /\ unseen.blind \subseteq Minute
        BY <1>1 DEF ReaderInv, Reader
    <2>2. /\ BookInv(tape', clock', book', unseen'.heard, unseen'.blind, served')
          /\ Counting(tape', feed'.last, book', stream'.subscribed, unseen'.heard)
          /\ stream'.subscribed => Ahead(tape', inbox', unseen'.trades, feed'.last, book', unseen'.heard, 0)
        BY <1>2, <1>4, <2>1, Zenon
    <2> QED BY <1>2, <2>1, <2>2 DEF ReaderInv, Reader
<1>6. RestInv'
    BY <1>1, <1>2, <1>3 DEF RestInv
<1>7. QueryInv'
    <2> SUFFICES ASSUME poll'.pc = "query"
                 PROVE  QueryInv'
        BY DEF QueryInv
    <2>1. poll.pc = "query" /\ clock = poll.at
        BY <1>2
    <2>2. clock' = poll.at + 1 /\ poll.at <= clock' /\ clock' <= poll.at + 1
        BY <1>1, <1>2, <2>1
    <2> QED BY <1>1, <1>2, <2>1, <2>2 DEF QueryInv, TickOf
<1>8. /\ TapeInv(tape, clock)' /\ WireInv(tape, inbox, feed.last)'
      /\ ServedInv(tape, clock, served)' /\ Unread(served, inbox, feed.last, unseen.heard)'
      /\ OpenInv(book, served, unseen.open)'
    BY <1>1, <1>2, <1>4
<1> QED BY <1>2, <1>5, <1>6, <1>7, <1>8, SameGrows DEF IInv

(***************************************************************************)
(* A trade: the record grows.                                              *)
(***************************************************************************)
\* r is the record q with a trade more, of a minute that is not over.
Longer(q, now, r, m, tot) ==
    /\ r = Append(q, [minute |-> m, total |-> tot]) /\ m \in Session /\ ~Closed(q, now, m)
    /\ TapeInv(r, now)

LEMMA LongerFacts ==
    ASSUME NEW q, NEW now \in Minute, TapeInv(q, now), NEW r, NEW m, NEW tot,
           Longer(q, now, r, m, tot)
    PROVE  /\ Len(q) \in Nat /\ Len(r) = Len(q) + 1 /\ DOMAIN q = 1 .. Len(q) /\ DOMAIN r = 1 .. Len(r)
           /\ \A n \in 1 .. Len(q) : r[n] = q[n] /\ TickOf(r, n) = TickOf(q, n)
           /\ r[Len(q) + 1].minute = m /\ r[Len(q) + 1].total = tot
           /\ m \in Minute /\ m \in Nat
           /\ \A x \in Minute, k \in 0 .. Len(q) : Count(r, x, k) = Count(q, x, k)
           /\ \A x \in Minute : x # m => Count(r, x, Len(r)) = Count(q, x, Len(q))
           /\ \A x \in Minute : Count(q, x, Len(q)) <= Count(r, x, Len(r))
           /\ \A x \in Minute : Closed(q, now, x) => x # m /\ Closed(r, now, x)
<1>1. /\ Len(q) \in Nat /\ DOMAIN q = 1 .. Len(q) /\ Len(r) \in Nat /\ DOMAIN r = 1 .. Len(r)
      /\ q \in Seq([minute : Session, total : Nat])
    BY TapeFacts DEF TapeInv, Longer
<1>2. /\ Len(r) = Len(q) + 1 /\ \A n \in 1 .. Len(q) : r[n] = q[n]
      /\ r[Len(q) + 1] = [minute |-> m, total |-> tot]
    BY <1>1 DEF Longer
<1>3. m \in Minute /\ m \in Nat
    BY BookAssumption, Numbers DEF Longer
<1>4. \A n \in 1 .. Len(q) : TickOf(r, n) = TickOf(q, n)
    BY <1>2 DEF TickOf
<1>5. ASSUME NEW x \in Minute, NEW k \in 0 .. Len(q)
      PROVE  Count(r, x, k) = Count(q, x, k)
    <2>1. k \in Nat /\ \A n \in 1 .. k : r[n].minute = q[n].minute
        BY <1>1, <1>2
    <2> QED BY <2>1, CountPrefix
<1>6. ASSUME NEW x \in Minute
      PROVE  /\ x # m => Count(r, x, Len(r)) = Count(q, x, Len(q))
             /\ Count(q, x, Len(q)) <= Count(r, x, Len(r))
    <2>1. Count(r, x, Len(q)) = Count(q, x, Len(q))
        BY <1>1, <1>5
    <2>2. \A n \in Len(q) + 1 .. Len(r) : r[n].minute = m
        BY <1>1, <1>2
    <2>3. /\ Count(r, x, Len(q)) <= Count(r, x, Len(r))
          /\ (\A n \in Len(q) + 1 .. Len(r) : r[n].minute # x) =>
                Count(r, x, Len(q)) = Count(r, x, Len(r))
        BY <1>1, <1>2, CountGrows
    <2> QED BY <2>1, <2>2, <2>3
<1>7. ASSUME NEW x \in Minute, Closed(q, now, x)
      PROVE  x # m /\ Closed(r, now, x)
    <2>1. (\E n \in DOMAIN q : q[n].minute > x) => \E n \in DOMAIN r : r[n].minute > x
        BY <1>1, <1>2
    <2> QED BY <1>7, <2>1 DEF Closed, Longer
<1> QED BY <1>1, <1>2, <1>3, <1>4, <1>5, <1>6, <1>7

LEMMA LongerBook ==
    ASSUME NEW q, NEW now, NEW b, NEW heard, NEW blind, NEW srv,
           Case(q, now, b, heard, blind, srv),
           NEW r, NEW m, NEW tot, Longer(q, now, r, m, tot)
    PROVE  Case(r, now, b, heard, blind, srv)
<1>1. /\ TapeInv(q, now) /\ now \in Minute /\ heard \in 0 .. Len(q) /\ blind \subseteq Minute
      /\ ServedInv(q, now, srv) /\ BookTypes(b, now) /\ Settled(q, now, b, blind, srv)
      /\ Streamed(q, b, heard, blind, srv) /\ Held(b, srv)
    BY DEF Case, BookInv
<1>2. /\ Len(q) \in Nat /\ Len(r) = Len(q) + 1 /\ DOMAIN q = 1 .. Len(q) /\ DOMAIN r = 1 .. Len(r)
      /\ \A n \in 1 .. Len(q) : r[n] = q[n]
      /\ \A x \in Minute, k \in 0 .. Len(q) : Count(r, x, k) = Count(q, x, k)
      /\ \A x \in Minute : x # m => Count(r, x, Len(r)) = Count(q, x, Len(q))
      /\ \A x \in Minute : Count(q, x, Len(q)) <= Count(r, x, Len(r))
      /\ \A x \in Minute : Closed(q, now, x) => x # m /\ Closed(r, now, x)
    BY <1>1, LongerFacts
<1>3. \A x \in Minute : /\ Count(q, x, Len(q)) \in Nat /\ Count(r, x, Len(r)) \in Nat
                        /\ b.history[x] \in Nat
    BY <1>1, <1>2, CountNat, BookTyped
<1>4. Settled(r, now, b, blind, srv)
    <2>1. \A x \in Minute : b.history[x] <= Count(r, x, Len(r))
        <3> TAKE x \in Minute
        <3>1. b.history[x] <= Count(q, x, Len(q))
            BY <1>1 DEF Settled
        <3> QED BY <1>2, <1>3, <3>1
    <2>2. \A x \in Minute : x < b.finalBefore => x # m /\ Closed(r, now, x)
        BY <1>1, <1>2 DEF Settled
    <2>3. \A x \in Minute : (b.firstDay <= x /\ x < b.finalBefore) =>
             b.history[x] = Count(r, x, Len(r)) \/ x \in blind \cup srv.unreached
        BY <1>1, <1>2, <2>2 DEF Settled
    <2> QED BY <2>1, <2>2, <2>3 DEF Settled
<1>5. Streamed(r, b, heard, blind, srv)
    <2>1. \A x \in Minute : Count(r, x, heard) = Count(q, x, heard)
        BY <1>1, <1>2
    <2>2. \A n \in 1 .. heard : r[n].minute = q[n].minute
        BY <1>1, <1>2
    <2> QED BY <1>1, <2>1, <2>2 DEF Streamed
<1>6. ServedInv(r, now, srv)
    <2>1. ASSUME NEW x \in srv.minutes
          PROVE  /\ Closed(r, now, x) /\ srv.rows[x] <= Count(r, x, Len(r))
                 /\ srv.rows[x] = Count(r, x, Len(r)) \/ x \in srv.excused \cup srv.unreached
        <3>1. x \in Minute /\ Closed(q, now, x) /\ srv.rows[x] <= Count(q, x, Len(q))
              /\ \/ srv.rows[x] = Count(q, x, Len(q))
                 \/ x \in srv.excused \cup srv.unreached
            BY <1>1, <2>1 DEF ServedInv
        <3>2. Count(r, x, Len(r)) = Count(q, x, Len(q)) /\ Closed(r, now, x)
            BY <1>2, <3>1
        <3> QED BY <3>1, <3>2
    <2> QED BY <1>1, <2>1 DEF ServedInv
<1>7. heard \in 0 .. Len(r)
    BY <1>1, <1>2
<1> QED BY <1>1, <1>4, <1>5, <1>6, <1>7 DEF Case, BookInv, Longer

LEMMA LongerCounting ==
    ASSUME NEW q, NEW now \in Minute, TapeInv(q, now), NEW r, NEW m, NEW tot,
           Longer(q, now, r, m, tot), NEW last, NEW b, NEW sub, NEW heard \in 0 .. Len(q),
           Counting(q, last, b, sub, heard)
    PROVE  Counting(r, last, b, sub, heard)
<1>1. /\ Len(q) \in Nat /\ \A n \in 1 .. Len(q) : r[n] = q[n]
    BY LongerFacts
<1>2. \A n \in 1 .. heard : r[n] = q[n]
    BY <1>1
<1>3. b.lastTotal # None => \E at \in 1 .. heard :
          /\ r[at].total = b.lastTotal /\ CloseOf(r[at].minute) = b.segment
          /\ \A n \in at + 1 .. heard : r[n].minute < b.coveredFrom
    <2> HAVE b.lastTotal # None
    <2>1. PICK at \in 1 .. heard :
          /\ q[at].total = b.lastTotal /\ CloseOf(q[at].minute) = b.segment
          /\ \A n \in at + 1 .. heard : q[n].minute < b.coveredFrom
        BY DEF Counting
    <2>2. \A n \in at + 1 .. heard : n \in 1 .. heard
        OBVIOUS
    <2> QED BY <1>2, <2>1, <2>2
<1> QED BY <1>2, <1>3 DEF Counting

LEMMA LongerWire ==
    ASSUME NEW q, NEW now \in Minute, TapeInv(q, now), NEW r, NEW m, NEW tot,
           Longer(q, now, r, m, tot), NEW box, NEW last, WireInv(q, box, last)
    PROVE  WireInv(r, box, last)
<1>1. /\ Len(q) \in Nat /\ Len(r) = Len(q) + 1 /\ DOMAIN q = 1 .. Len(q) /\ DOMAIN r = 1 .. Len(r)
      /\ \A n \in 1 .. Len(q) : TickOf(r, n) = TickOf(q, n)
    BY LongerFacts
<1>2. Items(q) \subseteq Items(r)
    BY <1>1 DEF Items
<1>3. box \in Seq(Items(r))
    <2>1. box \in Seq(Items(q))
        BY DEF WireInv
    <2>2. Len(box) \in Nat /\ box \in [1 .. Len(box) -> Items(q)]
        BY <2>1
    <2>3. box \in [1 .. Len(box) -> Items(r)]
        BY <1>2, <2>2
    <2> QED BY <2>2, <2>3
<1>4. last = [kind |-> "none"] \/ \E n \in DOMAIN r : last = TickOf(r, n)
    <2>1. CASE \E n \in DOMAIN q : last = TickOf(q, n)
        BY <1>1, <2>1
    <2> QED BY <2>1 DEF WireInv
<1> QED BY <1>3, <1>4 DEF WireInv

LEMMA TradeTape ==
    ASSUME IInv, Trade
    PROVE  LET m == MinuteOf(clock) IN
           /\ Longer(tape, clock, tape', m, NextTotal(m))
           /\ m \in Nat /\ m <= clock /\ clock <= m + 1
           /\ \A n \in 1 .. Len(tape) : tape[n].minute <= m
           /\ poll.pc = "query" => poll.at <= m
<1> DEFINE m == MinuteOf(clock)
<1> DEFINE tot == NextTotal(m)
<1>0. /\ clock \in Prints /\ Len(tape) < MaxTrades
      /\ tape' = Append(tape, [minute |-> m, total |-> tot])
      /\ (clock \notin Session /\ poll.pc = "query") => poll.at < clock
    BY DEF Trade
<1>1. /\ TapeInv(tape, clock) /\ clock \in Minute /\ clock \in Nat /\ Len(tape) \in Nat
      /\ QueryInv
    BY InvFacts
<1>2. /\ tape \in Seq([minute : Session, total : Nat]) /\ DOMAIN tape = 1 .. Len(tape)
      /\ \A n \in 1 .. Len(tape) : /\ tape[n].minute \in Minute /\ tape[n].minute \in Nat
                                   /\ tape[n].minute \in Session /\ tape[n].total \in Nat
                                   /\ tape[n].minute <= clock
      /\ \A n, k \in 1 .. Len(tape) : n <= k => tape[n].minute <= tape[k].minute
    BY <1>1, TapeFacts DEF TapeInv
<1>3. /\ m \in Session /\ m \in Minute /\ m \in Nat /\ m <= clock /\ clock <= m + 1
      /\ (clock \in Session => m = clock) /\ (clock \notin Session => m = clock - 1)
    <2>1. m = IF clock \in Session THEN clock ELSE clock - 1
        BY DEF MinuteOf
    <2>2. clock \in Session \/ clock - 1 \in Session
        BY <1>0 DEF Prints
    <2>3. \A x \in Session : x \in Minute /\ x \in Nat
        BY BookAssumption, Numbers
    <2> HIDE DEF m
    <2> QED BY <1>1, <2>1, <2>2, <2>3
<1> HIDE DEF m
<1>4. \A n \in 1 .. Len(tape) : tape[n].minute <= m
    BY <1>1, <1>2, <1>3
<1>5. ~Closed(tape, clock, m)
    BY <1>1, <1>2, <1>3, <1>4 DEF Closed
<1>6. poll.pc = "query" => poll.at <= m
    <2> HAVE poll.pc = "query"
    <2>1. poll.at \in Nat /\ poll.at <= clock
        BY <1>1, Numbers DEF QueryInv
    <2> QED BY <1>0, <1>1, <1>3, <2>1
<1>7. /\ tot \in Nat
      /\ \A n \in 1 .. Len(tape) : CloseOf(tape[n].minute) = CloseOf(m) =>
            tot = tape[n].total + (Len(tape) + 1 - n)
    <2>1. CASE tape = <<>>
        <3>1. tot = BaseTotal + 1
            BY <2>1 DEF NextTotal
        <3> QED BY <1>1, <2>1, <3>1, BookAssumption
    <2>2. CASE tape # <<>>
        <3> DEFINE l == Len(tape)
        <3>1. l \in 1 .. Len(tape)
            BY <1>1, <1>2, <2>2
        <3>2. tot = IF feed.restarts /\ CloseOf(tape[l].minute) # CloseOf(m)
                    THEN 1 ELSE tape[l].total + 1
            BY <2>2 DEF NextTotal
        <3> HIDE DEF tot
        <3>3. tot \in Nat
            BY <1>2, <3>1, <3>2
        <3>4. ASSUME NEW n \in 1 .. Len(tape), CloseOf(tape[n].minute) = CloseOf(m)
              PROVE  tot = tape[n].total + (Len(tape) + 1 - n)
            <4>1. /\ CloseOf(tape[n].minute) <= CloseOf(tape[l].minute)
                  /\ CloseOf(tape[l].minute) <= CloseOf(m)
                <5>1. tape[n].minute <= tape[l].minute /\ tape[l].minute <= m
                    BY <1>2, <1>4, <3>1
                <5> QED BY <1>2, <1>3, <3>1, <5>1, CloseOrder
            <4>2. CloseOf(tape[l].minute) = CloseOf(m)
                <5>1. CloseOf(m) \in Int /\ CloseOf(tape[l].minute) \in Int
                    BY <1>2, <1>3, <3>1, CloseFacts, Numbers
                <5> QED BY <3>4, <4>1, <5>1
            <4>3. tot = tape[l].total + 1
                BY <3>2, <4>2
            <4>4. n < l => tape[l].total = tape[n].total + (l - n)
                BY <1>1, <1>2, <3>1, <3>4, <4>2 DEF TapeInv
            <4>5. n = l \/ n < l
                BY <3>1
            <4>6. tape[n].total \in Nat /\ n \in Nat
                BY <1>2
            <4> QED BY <1>1, <4>3, <4>4, <4>5, <4>6
        <3> QED BY <3>3, <3>4
    <2> QED BY <2>1, <2>2
<1> HIDE DEF tot
<1>8. TapeInv(tape', clock)
    <2> DEFINE new == [minute |-> m, total |-> tot]
    <2>1. new \in [minute : Session, total : Nat]
        BY <1>3, <1>7
    <2>2. /\ tape' = Append(tape, new)
        BY <1>0
    <2>3. /\ tape' \in Seq([minute : Session, total : Nat]) /\ Len(tape') = Len(tape) + 1
          /\ \A n \in 1 .. Len(tape) : tape'[n] = tape[n]
          /\ tape'[Len(tape) + 1] = new /\ DOMAIN tape' = 1 .. Len(tape) + 1
        <3> HIDE DEF new
        <3> QED BY <1>1, <1>2, <2>1, <2>2
    <2>4. /\ tape'[Len(tape) + 1].minute = m /\ tape'[Len(tape) + 1].total = tot
        BY <2>3
    <2> HIDE DEF new
    <2>5. Len(tape') <= MaxTrades
        BY <1>0, <1>1, <2>3, BookAssumption
    <2>6. \A n \in DOMAIN tape' : n \in 1 .. Len(tape) \/ n = Len(tape) + 1
        BY <1>1, <2>3
    <2>7. \A n \in DOMAIN tape' : tape'[n].minute <= clock
        BY <1>2, <1>3, <2>3, <2>4, <2>6
    <2>8. ASSUME NEW n \in DOMAIN tape', NEW k \in DOMAIN tape', n <= k
          PROVE  tape'[n].minute <= tape'[k].minute
        <3>1. CASE k \in 1 .. Len(tape)
            <4>1. n \in 1 .. Len(tape)
                BY <1>1, <2>3, <2>8, <3>1
            <4> QED BY <1>2, <2>3, <2>8, <3>1, <4>1
        <3>2. CASE k = Len(tape) + 1
            <4>1. CASE n \in 1 .. Len(tape)
                BY <1>4, <2>3, <2>4, <3>2, <4>1
            <4>2. CASE n = Len(tape) + 1
                BY <1>3, <2>4, <3>2, <4>2
            <4> QED BY <2>6, <4>1, <4>2
        <3> QED BY <2>6, <3>1, <3>2
    <2>9. ASSUME NEW n \in DOMAIN tape', NEW k \in DOMAIN tape', n < k,
                 CloseOf(tape'[n].minute) = CloseOf(tape'[k].minute)
          PROVE  tape'[k].total = tape'[n].total + (k - n)
        <3>1. n \in 1 .. Len(tape)
            BY <1>1, <2>3, <2>9
        <3>2. CASE k \in 1 .. Len(tape)
            <4>1. tape'[n] = tape[n] /\ tape'[k] = tape[k]
                BY <2>3, <3>1, <3>2
            <4>2. CloseOf(tape[n].minute) = CloseOf(tape[k].minute)
                BY <2>9, <4>1
            <4>3. \A i, j \in DOMAIN tape : (i < j /\ CloseOf(tape[i].minute) = CloseOf(tape[j].minute)) =>
                     tape[j].total = tape[i].total + (j - i)
                BY <1>1 DEF TapeInv
            <4>4. n \in DOMAIN tape /\ k \in DOMAIN tape
                BY <1>2, <3>1, <3>2
            <4> QED BY <2>9, <4>1, <4>2, <4>3, <4>4
        <3>3. CASE k = Len(tape) + 1
            <4>1. tape'[n] = tape[n] /\ tape'[k].minute = m /\ tape'[k].total = tot
                BY <2>3, <2>4, <3>1, <3>3
            <4>2. CloseOf(tape[n].minute) = CloseOf(m)
                BY <2>9, <4>1
            <4> QED BY <1>7, <3>1, <3>3, <4>1, <4>2
        <3> QED BY <2>6, <3>2, <3>3
    <2> QED BY <2>3, <2>5, <2>7, <2>8, <2>9 DEF TapeInv
<1>9. Longer(tape, clock, tape', m, tot)
    BY <1>0, <1>3, <1>5, <1>8 DEF Longer
<1> QED BY <1>3, <1>4, <1>6, <1>9 DEF m, tot

(***************************************************************************)
(* An item comes into the inbox.                                           *)
(***************************************************************************)
\* What is on the way to a reader, or was not told.
Pending(q, box, trades, heard) == \A n \in heard + 1 .. Len(q) :
    n \in trades \/ \E j \in DOMAIN box : box[j] = TickOf(q, n)

\* An item comes into the inbox, and the oldest falls out when off is 1.
Shifted(box, new, item, trades, off) ==
    /\ off \in {0, 1} /\ off <= Len(box) /\ Len(box) \in Nat
    /\ Len(new) = Len(box) + 1 - off /\ DOMAIN new = 1 .. Len(new) /\ Len(new) <= InboxSize
    /\ \A j \in 1 .. Len(box) - off : new[j] = box[j + off]
    /\ new[Len(new)] = item /\ new = [j \in 1 .. Len(new) |-> new[j]]
    /\ (off = 1 /\ box[1].kind = "tick") => box[1].n \in trades

\* It tells of a lost connection or of the newest trade.
Sent(q, box, last, item, later) ==
    \/ item.kind = "lost" /\ item \in Items(q) /\ later = last
    \/ /\ item = TickOf(q, Len(q)) /\ Len(q) \in 1 .. Len(q) /\ later = item
       /\ \A j \in DOMAIN box : box[j].kind = "tick" => box[j].n < Len(q)

LEMMA FitsShifts ==
    ASSUME NEW S, inbox \in Seq(S), Len(inbox) <= InboxSize, NEW item, NEW trades,
           \A x \in S : x.kind \in {"tick", "lost"}
    PROVE  \E off \in {0, 1} : Shifted(inbox, Fits(item), item, trades \cup Unheard, off)
<1>1. Len(inbox) \in Nat /\ InboxSize \in Nat /\ InboxSize > 0
    BY BookAssumption
<1> DEFINE T == S \cup {item}
<1>2. inbox \in Seq(T) /\ item \in T
    <2>1. Len(inbox) \in Nat /\ inbox \in [1 .. Len(inbox) -> S]
        OBVIOUS
    <2>2. inbox \in [1 .. Len(inbox) -> T]
        BY <2>1
    <2> QED BY <2>1, <2>2
<1> HIDE DEF T
<1>3. CASE Len(inbox) < InboxSize
    <2>1. Fits(item) = Append(inbox, item)
        BY <1>3 DEF Fits
    <2>2. Shifted(inbox, Fits(item), item, trades \cup Unheard, 0)
        <3> DEFINE new == Append(inbox, item)
        <3>1. /\ Len(new) = Len(inbox) + 1 /\ DOMAIN new = 1 .. Len(new)
              /\ \A j \in 1 .. Len(inbox) : new[j] = inbox[j]
              /\ new[Len(new)] = item /\ new \in Seq(T)
            BY <1>1, <1>2
        <3>2. Fits(item) = new
            BY <2>1
        <3> HIDE DEF new
        <3>3. new = [j \in 1 .. Len(new) |-> new[j]]
            <4>1. new \in [1 .. Len(new) -> T]
                BY <3>1
            <4> QED BY <4>1
        <3> QED BY <1>1, <1>3, <3>1, <3>2, <3>3 DEF Shifted
    <2> QED BY <2>2
<1>4. CASE ~(Len(inbox) < InboxSize)
    <2>1. Fits(item) = Append(Tail(inbox), item)
        BY <1>4 DEF Fits
    <2>2. inbox # <<>> /\ Len(inbox) = InboxSize
        BY <1>1, <1>4
    <2>3. /\ Tail(inbox) \in Seq(T) /\ Len(Tail(inbox)) = Len(inbox) - 1
          /\ \A j \in 1 .. Len(inbox) - 1 : Tail(inbox)[j] = inbox[j + 1]
          /\ Head(inbox) = inbox[1]
        BY <1>1, <1>2, <2>2
    <2>4. inbox[1].kind = "tick" => inbox[1].n \in Unheard
        BY <1>4, <2>3 DEF Unheard
    <2> DEFINE tail == Tail(inbox)
    <2> DEFINE new == Append(tail, item)
    <2>5. /\ tail \in Seq(T) /\ Len(tail) = Len(inbox) - 1
          /\ \A j \in 1 .. Len(inbox) - 1 : tail[j] = inbox[j + 1]
        BY <2>3
    <2> HIDE DEF tail
    <2>6. /\ Len(new) = Len(inbox) /\ DOMAIN new = 1 .. Len(inbox)
          /\ \A j \in 1 .. Len(inbox) - 1 : new[j] = inbox[j + 1]
          /\ new[Len(inbox)] = item /\ new \in Seq(T)
        BY <1>1, <1>2, <2>2, <2>5
    <2>7. Fits(item) = new
        BY <2>1 DEF tail
    <2> HIDE DEF new
    <2>8. new = [j \in 1 .. Len(new) |-> new[j]]
        <3>1. new \in [1 .. Len(new) -> T]
            BY <2>6
        <3> QED BY <3>1
    <2>9. Shifted(inbox, new, item, trades \cup Unheard, 1)
        BY <1>1, <2>2, <2>4, <2>6, <2>8 DEF Shifted
    <2> QED BY <2>7, <2>9
<1> QED BY <1>3, <1>4

LEMMA PendingPush ==
    ASSUME NEW q, NEW box, NEW trades, NEW more, NEW heard, Pending(q, box, trades, heard),
           DOMAIN box = 1 .. Len(box),
           NEW new, NEW item, NEW off, Shifted(box, new, item, more, off),
           \A n \in trades : n \in more \/ item = TickOf(q, n)
    PROVE  Pending(q, new, more, heard)
<1> SUFFICES ASSUME NEW n \in heard + 1 .. Len(q)
             PROVE  n \in more \/ \E j \in DOMAIN new : new[j] = TickOf(q, n)
    BY DEF Pending
<1>1. /\ off \in {0, 1} /\ off <= Len(box) /\ Len(box) \in Nat
      /\ Len(new) = Len(box) + 1 - off /\ DOMAIN new = 1 .. Len(new)
      /\ \A j \in 1 .. Len(box) - off : new[j] = box[j + off]
      /\ new[Len(new)] = item /\ Len(new) \in DOMAIN new
    BY DEF Shifted
<1>2. CASE n \in trades
    BY <1>1, <1>2
<1>3. CASE \E j \in DOMAIN box : box[j] = TickOf(q, n)
    <2>1. PICK j \in 1 .. Len(box) : box[j] = TickOf(q, n)
        BY <1>3
    <2>2. CASE j > off
        <3>1. j - off \in DOMAIN new /\ new[j - off] = box[j]
            BY <1>1, <2>1, <2>2
        <3> QED BY <2>1, <3>1
    <2>3. CASE ~(j > off)
        <3>1. off = 1 /\ j = 1
            BY <1>1, <2>1, <2>3
        <3>2. box[1].kind = "tick" /\ box[1].n = n
            BY <2>1, <3>1 DEF TickOf
        <3> QED BY <3>1, <3>2 DEF Shifted
    <2> QED BY <2>2, <2>3
<1> QED BY <1>2, <1>3 DEF Pending

LEMMA WirePush ==
    ASSUME NEW q, NEW now \in Minute, TapeInv(q, now), NEW box, NEW last, WireInv(q, box, last),
           NEW new, NEW item, NEW trades, NEW off, Shifted(box, new, item, trades, off),
           NEW later, Sent(q, box, last, item, later)
    PROVE  WireInv(q, new, later)
<1>1. /\ off \in {0, 1} /\ off <= Len(box) /\ Len(box) \in Nat
      /\ Len(new) = Len(box) + 1 - off /\ DOMAIN new = 1 .. Len(new) /\ Len(new) <= InboxSize
      /\ \A j \in 1 .. Len(box) - off : new[j] = box[j + off]
      /\ new[Len(new)] = item
    BY DEF Shifted
<1>2. Len(q) \in Nat /\ DOMAIN q = 1 .. Len(q)
    BY TapeFacts
<1>3. /\ box \in Seq(Items(q)) /\ DOMAIN box = 1 .. Len(box)
      /\ \A i \in 1 .. Len(box) : box[i] \in Items(q)
    BY WireFacts DEF WireInv
<1>4. item \in Items(q) /\ (item.kind = "tick" => later = item /\ item = TickOf(q, Len(q)))
    BY <1>2 DEF Sent, Items, TickOf
<1>5. \A j \in 1 .. Len(new) : j = Len(new) \/ (j \in 1 .. Len(box) - off /\ j + off \in 1 .. Len(box))
    BY <1>1
<1>6. \A j \in 1 .. Len(new) : new[j] \in Items(q)
    BY <1>1, <1>3, <1>4, <1>5
<1>7. new \in Seq(Items(q))
    <2>1. Len(new) \in Nat
        BY <1>1
    <2>2. new \in [1 .. Len(new) -> Items(q)]
        <3>1. new = [j \in 1 .. Len(new) |-> new[j]]
            BY DEF Shifted
        <3> QED BY <1>6, <3>1
    <2> QED BY <2>1, <2>2
<1>8. \A i \in 1 .. Len(box) : box[i].kind = "tick" =>
         /\ box[i].n \in 1 .. Len(q) /\ last.kind = "tick" /\ box[i].n <= last.n
         /\ last.n \in 1 .. Len(q)
    <2> TAKE i \in 1 .. Len(box)
    <2> HAVE box[i].kind = "tick"
    <2>1. /\ box[i].n \in 1 .. Len(q) /\ last.kind = "tick" /\ last.n \in box[i].n .. Len(q)
        <3>1. /\ box[i].kind = "lost" /\ box[i].n \in 0 .. Len(q)
              \/ /\ box[i].kind = "tick" /\ box[i].n \in 1 .. Len(q)
                 /\ last.kind = "tick" /\ last.n \in box[i].n .. Len(q)
            BY WireFacts
        <3> QED BY <3>1
    <2> QED BY <1>2, <2>1
<1>9. item.kind = "tick" =>
         /\ item.n = Len(q) /\ later.kind = "tick" /\ later.n = Len(q)
         /\ \A i \in 1 .. Len(box) : box[i].kind = "tick" => box[i].n < Len(q)
    BY <1>3, <1>4 DEF Sent, TickOf
<1>10. item.kind = "lost" => later = last
    BY DEF Sent, TickOf
<1>11. item.kind \in {"lost", "tick"}
    BY DEF Sent, TickOf
<1>12. ASSUME NEW i \in DOMAIN new, NEW j \in DOMAIN new, i < j,
              new[i].kind = "tick", new[j].kind = "tick"
       PROVE  new[i].n < new[j].n
    <2>1. i \in 1 .. Len(box) - off /\ i + off \in 1 .. Len(box) /\ new[i] = box[i + off]
        BY <1>1, <1>12
    <2>2. CASE j = Len(new)
        BY <1>1, <1>9, <1>12, <2>1, <2>2
    <2>3. CASE j \in 1 .. Len(box) - off
        <3>1. new[j] = box[j + off] /\ j + off \in 1 .. Len(box) /\ i + off < j + off
            BY <1>1, <1>12, <2>1, <2>3
        <3>2. \A x, y \in 1 .. Len(box) :
                 (x < y /\ box[x].kind = "tick" /\ box[y].kind = "tick") => box[x].n < box[y].n
            BY WireFacts
        <3> QED BY <1>12, <2>1, <3>1, <3>2
    <2> QED BY <1>1, <1>5, <2>2, <2>3
<1>13. later = [kind |-> "none"] \/ \E n \in DOMAIN q : later = TickOf(q, n)
    BY <1>2 DEF Sent, WireInv
<1>14. ASSUME NEW i \in DOMAIN new, new[i].kind = "tick"
       PROVE  later.kind = "tick" /\ new[i].n <= later.n
    <2>1. CASE i = Len(new)
        BY <1>1, <1>2, <1>9, <1>14, <2>1
    <2>2. CASE i \in 1 .. Len(box) - off
        <3>1. new[i] = box[i + off] /\ i + off \in 1 .. Len(box)
            BY <1>1, <2>2
        <3>2. CASE item.kind = "lost"
            BY <1>8, <1>10, <1>14, <3>1, <3>2
        <3>3. CASE item.kind = "tick"
            <4>1. new[i].n \in 1 .. Len(q) /\ new[i].n < Len(q)
                BY <1>8, <1>9, <1>14, <3>1, <3>3
            <4> QED BY <1>9, <3>3, <4>1
        <3> QED BY <1>11, <3>2, <3>3
    <2> QED BY <1>1, <1>5, <2>1, <2>2
<1> QED BY <1>1, <1>7, <1>12, <1>13, <1>14 DEF WireInv

LEMMA LongerPending ==
    ASSUME NEW q, NEW now \in Minute, TapeInv(q, now), NEW r, NEW m, NEW tot,
           Longer(q, now, r, m, tot), NEW box, NEW trades, NEW heard \in 0 .. Len(q),
           Pending(q, box, trades, heard)
    PROVE  Pending(r, box, trades \cup {Len(r)}, heard)
<1>1. /\ Len(q) \in Nat /\ Len(r) = Len(q) + 1
      /\ \A n \in 1 .. Len(q) : TickOf(r, n) = TickOf(q, n)
    BY LongerFacts
<1>2. \A n \in heard + 1 .. Len(r) : n = Len(r) \/ (n \in heard + 1 .. Len(q) /\ n \in 1 .. Len(q))
    BY <1>1
<1> QED BY <1>1, <1>2 DEF Pending

LEMMA AheadParts ==
    ASSUME NEW q, NEW box, NEW trades, NEW last, NEW b, NEW heard, DOMAIN box = 1 .. Len(box)
    PROVE  Ahead(q, box, trades, last, b, heard, 0) <=>
           /\ Pending(q, box, trades, heard)
           /\ \A j \in DOMAIN box : box[j].kind = "tick" =>
                 /\ \/ box[j].n > heard /\ b.ended <= box[j].minute + 1
                    \/ /\ j = 1 /\ box[j].n <= heard /\ Match(b, box[j])
                       /\ last.n <= heard => last = box[j]
                 /\ b.segment <= CloseOf(box[j].minute)
           /\ last.kind = "tick" =>
                 \/ last.n <= heard /\ Match(b, last)
                 \/ \E j \in DOMAIN box : box[j] = last \/ box[j].kind = "lost"
<1>1. 0 + 1 .. Len(box) = DOMAIN box
    OBVIOUS
<1> QED BY <1>1 DEF Ahead, Pending

\* The item that comes in is ahead of the reader too.
LEMMA AheadPush ==
    ASSUME NEW q, NEW now \in Minute, TapeInv(q, now), NEW box, NEW last, WireInv(q, box, last),
           NEW trades, NEW more, NEW b, NEW heard \in 0 .. Len(q),
           Ahead(q, box, trades, last, b, heard, 0),
           NEW new, NEW item, NEW off, Shifted(box, new, item, more, off),
           \A n \in trades : n \in more \/ item = TickOf(q, n),
           NEW later, Sent(q, box, last, item, later),
           item.kind = "tick" => /\ heard < Len(q) /\ b.ended <= item.minute + 1
                                 /\ b.segment <= CloseOf(item.minute)
    PROVE  Ahead(q, new, more, later, b, heard, 0)
<1>1. /\ off \in {0, 1} /\ off <= Len(box) /\ Len(box) \in Nat
      /\ Len(new) = Len(box) + 1 - off /\ DOMAIN new = 1 .. Len(new)
      /\ \A j \in 1 .. Len(box) - off : new[j] = box[j + off]
      /\ new[Len(new)] = item /\ Len(new) \in DOMAIN new
    BY DEF Shifted
<1>2. DOMAIN box = 1 .. Len(box) /\ Len(q) \in Nat /\ heard \in Nat
    BY WireFacts, TapeFacts
<1>3. Pending(q, box, trades, heard)
    BY <1>2, AheadParts
<1>4. Pending(q, new, more, heard)
    BY <1>2, <1>3, PendingPush
<1>5. /\ item.kind \in {"lost", "tick"} /\ (item.kind = "lost" => later = last)
      /\ (item.kind = "tick" => later = item /\ item.n = Len(q))
    BY DEF Sent, TickOf
<1>6. ASSUME NEW j \in DOMAIN new, new[j].kind = "tick"
      PROVE  /\ \/ new[j].n > heard /\ b.ended <= new[j].minute + 1
                \/ /\ j = 1 /\ new[j].n <= heard /\ Match(b, new[j])
                   /\ later.n <= heard => later = new[j]
             /\ b.segment <= CloseOf(new[j].minute)
    <2>1. CASE j = Len(new)
        BY <1>1, <1>2, <1>5, <1>6, <2>1
    <2>2. CASE j \in 1 .. Len(box) - off
        <3>1. new[j] = box[j + off] /\ j + off \in DOMAIN box
            <4>1. j + off \in 1 .. Len(box)
                BY <1>1, <2>2
            <4> QED BY <1>1, <1>2, <2>2, <4>1
        <3>2. /\ \/ new[j].n > heard /\ b.ended <= new[j].minute + 1
                 \/ /\ j + off = 1 /\ new[j].n <= heard /\ Match(b, new[j])
                    /\ last.n <= heard => last = new[j]
              /\ b.segment <= CloseOf(new[j].minute)
            BY <1>2, <1>6, <3>1, AheadParts
        <3>3. j + off = 1 => j = 1
            BY <1>1, <2>2
        <3>4. later.n <= heard => later = last
            BY <1>2, <1>5
        <3> QED BY <3>2, <3>3, <3>4
    <2> QED BY <1>1, <2>1, <2>2
<1>7. \E j \in DOMAIN new : new[j] = later \/ new[j].kind = "lost"
    BY <1>1, <1>5
<1> QED BY <1>1, <1>4, <1>6, <1>7, AheadParts

LEMMA LongerAhead ==
    ASSUME NEW q, NEW now \in Minute, TapeInv(q, now), NEW r, NEW m, NEW tot,
           Longer(q, now, r, m, tot), NEW box, NEW trades, NEW last, NEW b,
           NEW heard \in 0 .. Len(q), DOMAIN box = 1 .. Len(box),
           Ahead(q, box, trades, last, b, heard, 0)
    PROVE  Ahead(r, box, trades \cup {Len(r)}, last, b, heard, 0)
<1>1. Pending(q, box, trades, heard)
    BY AheadParts
<1>2. Pending(r, box, trades \cup {Len(r)}, heard)
    BY <1>1, LongerPending
<1> QED BY <1>2, AheadParts

\* The ticks not read yet are of the minute at, or later.
Recent(box, last, heard, at) ==
    /\ \A j \in DOMAIN box : (box[j].kind = "tick" /\ box[j].n > heard) => at <= box[j].minute
    /\ (last.kind = "tick" /\ last.n > heard) => at <= last.minute

LEMMA RecentPush ==
    ASSUME NEW q, NEW box, NEW last, NEW heard, NEW at, Recent(box, last, heard, at),
           DOMAIN box = 1 .. Len(box),
           NEW new, NEW item, NEW trades, NEW off, Shifted(box, new, item, trades, off),
           NEW later, Sent(q, box, last, item, later), item.kind = "tick" => at <= item.minute
    PROVE  Recent(new, later, heard, at)
<1>1. /\ off \in {0, 1} /\ off <= Len(box) /\ Len(box) \in Nat
      /\ Len(new) = Len(box) + 1 - off /\ DOMAIN new = 1 .. Len(new)
      /\ \A j \in 1 .. Len(box) - off : new[j] = box[j + off]
      /\ new[Len(new)] = item
    BY DEF Shifted
<1>2. \A j \in DOMAIN new : j = Len(new) \/ (j \in 1 .. Len(box) - off /\ j + off \in DOMAIN box)
    BY <1>1
<1>3. /\ item.kind \in {"lost", "tick"} /\ (item.kind = "lost" => later = last)
      /\ (item.kind = "tick" => later = item)
    BY DEF Sent, TickOf
<1> QED BY <1>1, <1>2, <1>3 DEF Recent

LEMMA UnreadRecent ==
    ASSUME NEW srv, NEW box, NEW last, NEW heard
    PROVE  Unread(srv, box, last, heard) <=>
           \A m \in srv.minutes : srv.rows[m] > 0 => Recent(box, last, heard, m)
BY DEF Unread, Recent

\* A step of the venue or of the wire.
LEMMA WireKeeps ==
    ASSUME IInv, UNCHANGED <<clock, stream, book, poll, served>>,
           DOMAIN feed' = DOMAIN feed, DOMAIN unseen' = DOMAIN unseen,
           unseen'.heard = unseen.heard, unseen'.blind = unseen.blind,
           unseen'.open = unseen.open, unseen'.trades \subseteq DOMAIN tape',
           Case(tape', clock, book, unseen.heard, unseen.blind, served),
           WireInv(tape', inbox', feed'.last),
           Counting(tape', feed'.last, book, stream.subscribed, unseen.heard),
           stream.subscribed =>
               Ahead(tape', inbox', unseen'.trades, feed'.last, book, unseen.heard, 0),
           Unread(served, inbox', feed'.last, unseen.heard),
           poll.pc = "query" =>
               /\ Pending(tape', inbox', unseen'.trades, unseen.heard)
               /\ Recent(inbox', feed'.last, unseen.heard, poll.at),
           \A n \in 1 .. unseen.heard : tape'[n] = tape[n]
    PROVE  IInv' /\ Grows
<1>1. /\ ReaderInv(Reader, 0) /\ RestInv /\ QueryInv /\ clock \in Minute
      /\ OpenInv(book, served, unseen.open)
    BY InvFacts
<1>2. /\ TapeInv(tape', clock) /\ ServedInv(tape', clock, served)
      /\ BookInv(tape', clock, book, unseen.heard, unseen.blind, served)
      /\ unseen.heard \in 0 .. Len(tape') /\ unseen.blind \subseteq Minute
    BY DEF Case
<1>3. ReaderInv(Reader, 0)'
    <2>1. stream.subscribed \in BOOLEAN /\ stream.lost \in BOOLEAN
        BY <1>1 DEF ReaderInv, Reader
    <2>2. /\ BookInv(tape', clock', book', unseen'.heard, unseen'.blind, served')
          /\ Counting(tape', feed'.last, book', stream'.subscribed, unseen'.heard)
          /\ stream'.subscribed => Ahead(tape', inbox', unseen'.trades, feed'.last, book', unseen'.heard, 0)
        BY <1>2, Zenon
    <2> QED BY <1>2, <2>1, <2>2 DEF ReaderInv, Reader
<1>4. RestInv'
    BY <1>1 DEF RestInv
<1>5. QueryInv'
    <2> SUFFICES ASSUME poll.pc = "query"
                 PROVE  QueryInv'
        BY DEF QueryInv
    <2>1. /\ Pending(tape', inbox', unseen'.trades, unseen'.heard)
          /\ Recent(inbox', feed'.last, unseen'.heard, poll'.at)
        OBVIOUS
    <2>2. \A n \in 1 .. unseen'.heard : tape'[n].minute <= poll'.at
        BY <1>1 DEF QueryInv
    <2>3. /\ poll'.at \in Minute /\ 1 <= poll'.at /\ poll'.at <= clock' /\ clock' <= poll'.at + 1
          /\ poll'.first \in Minute /\ poll'.from \in Minute /\ poll'.seed \in BOOLEAN
          /\ poll'.from < poll'.at /\ poll'.first < poll'.at /\ book'.firstDay < poll'.at
        BY <1>1 DEF QueryInv
    <2>4. /\ \A j \in DOMAIN inbox' :
                (inbox'[j].kind = "tick" /\ inbox'[j].n > unseen'.heard) => inbox'[j].minute >= poll'.at
          /\ (feed'.last.kind = "tick" /\ feed'.last.n > unseen'.heard) => feed'.last.minute >= poll'.at
        BY <2>1 DEF Recent
    <2> QED BY <2>1, <2>2, <2>3, <2>4 DEF QueryInv, Pending, TickOf
<1>6. /\ TapeInv(tape, clock)' /\ WireInv(tape, inbox, feed.last)'
      /\ ServedInv(tape, clock, served)' /\ Unread(served, inbox, feed.last, unseen.heard)'
      /\ OpenInv(book, served, unseen.open)'
    BY <1>1, <1>2
<1> QED BY <1>3, <1>4, <1>5, <1>6, SameGrows DEF IInv

LEMMA WireState ==
    ASSUME IInv
    PROVE  /\ Case(tape, clock, book, unseen.heard, unseen.blind, served)
           /\ Counting(tape, feed.last, book, stream.subscribed, unseen.heard)
           /\ stream.subscribed => Ahead(tape, inbox, unseen.trades, feed.last, book, unseen.heard, 0)
           /\ stream.subscribed \in BOOLEAN
           /\ poll.pc = "query" => /\ Pending(tape, inbox, unseen.trades, unseen.heard)
                                   /\ Recent(inbox, feed.last, unseen.heard, poll.at)
           /\ DOMAIN inbox = 1 .. Len(inbox) /\ DOMAIN tape = 1 .. Len(tape)
           /\ unseen.heard \in 0 .. Len(tape) /\ unseen.trades \subseteq DOMAIN tape
           /\ \A x \in Items(tape) : x.kind \in {"tick", "lost"}
<1>1. DOMAIN inbox = 1 .. Len(inbox) /\ DOMAIN tape = 1 .. Len(tape)
    BY InvFacts, WireFacts, TapeFacts
<1>2. poll.pc = "query" => /\ Pending(tape, inbox, unseen.trades, unseen.heard)
                           /\ Recent(inbox, feed.last, unseen.heard, poll.at)
    BY InvFacts DEF QueryInv, Pending, Recent
<1>3. \A x \in Items(tape) : x.kind \in {"tick", "lost"}
    BY DEF Items, TickOf, LostOf
<1> QED BY <1>1, <1>2, <1>3, InvFacts DEF Case, ReaderInv, Reader, RestInv

(***************************************************************************)
(* The steps of the venue and of the wire.                                 *)
(***************************************************************************)
\* What a trade does to the record.
LEMMA TradeGrows ==
    ASSUME IInv, Trade
    PROVE  LET r == tape'
               m == MinuteOf(clock) IN
           /\ Case(r, clock, book, unseen.heard, unseen.blind, served)
           /\ WireInv(r, inbox, feed.last)
           /\ Counting(r, feed.last, book, stream.subscribed, unseen.heard)
           /\ stream.subscribed =>
                 Ahead(r, inbox, unseen.trades \cup {Len(r)}, feed.last, book, unseen.heard, 0)
           /\ poll.pc = "query" => Pending(r, inbox, unseen.trades \cup {Len(r)}, unseen.heard)
           /\ Len(tape) \in Nat /\ Len(r) = Len(tape) + 1 /\ DOMAIN r = 1 .. Len(r)
           /\ \A n \in 1 .. unseen.heard : r[n] = tape[n]
           /\ TickOf(r, Len(r)) = [kind |-> "tick", n |-> Len(tape) + 1, minute |-> m,
                                   total |-> NextTotal(m)]
<1> DEFINE r == tape'
<1> DEFINE m == MinuteOf(clock)
<1> DEFINE tot == NextTotal(m)
<1>1. Longer(tape, clock, r, m, tot)
    BY TradeTape
<1> HIDE DEF r, m, tot
<1>2. /\ TapeInv(tape, clock) /\ clock \in Minute /\ WireInv(tape, inbox, feed.last)
      /\ Case(tape, clock, book, unseen.heard, unseen.blind, served)
      /\ Counting(tape, feed.last, book, stream.subscribed, unseen.heard)
      /\ stream.subscribed => Ahead(tape, inbox, unseen.trades, feed.last, book, unseen.heard, 0)
      /\ poll.pc = "query" => Pending(tape, inbox, unseen.trades, unseen.heard)
      /\ DOMAIN inbox = 1 .. Len(inbox) /\ unseen.heard \in 0 .. Len(tape)
    BY InvFacts, WireState
<1>3. /\ Len(tape) \in Nat /\ Len(r) = Len(tape) + 1 /\ DOMAIN r = 1 .. Len(r)
      /\ \A n \in 1 .. Len(tape) : r[n] = tape[n]
      /\ r[Len(tape) + 1].minute = m /\ r[Len(tape) + 1].total = tot
    BY <1>1, <1>2, LongerFacts
<1>4. TickOf(r, Len(r)) = [kind |-> "tick", n |-> Len(tape) + 1, minute |-> m, total |-> tot]
    BY <1>3 DEF TickOf
<1>5. \A n \in 1 .. unseen.heard : r[n] = tape[n]
    BY <1>2, <1>3
<1>6. Case(r, clock, book, unseen.heard, unseen.blind, served)
    BY <1>1, <1>2, LongerBook
<1>7. WireInv(r, inbox, feed.last)
    BY <1>1, <1>2, LongerWire
<1>8. Counting(r, feed.last, book, stream.subscribed, unseen.heard)
    BY <1>1, <1>2, LongerCounting
<1>9. stream.subscribed =>
         Ahead(r, inbox, unseen.trades \cup {Len(r)}, feed.last, book, unseen.heard, 0)
    BY <1>1, <1>2, LongerAhead
<1>10. poll.pc = "query" => Pending(r, inbox, unseen.trades \cup {Len(r)}, unseen.heard)
    BY <1>1, <1>2, LongerPending
<1> QED BY <1>3, <1>4, <1>5, <1>6, <1>7, <1>8, <1>9, <1>10 DEF r, m, tot

\* A trade is of no segment that the book has ended.
LEMMA TradeLate ==
    ASSUME IInv, Trade
    PROVE  LET m == MinuteOf(clock) IN
           /\ book.ended <= m + 1 /\ book.segment <= CloseOf(m)
           /\ \A x \in served.minutes : served.rows[x] > 0 => x <= m
<1> DEFINE m == MinuteOf(clock)
<1>1. /\ m \in Nat /\ m <= clock /\ clock <= m + 1
      /\ \A n \in 1 .. Len(tape) : tape[n].minute <= m
      /\ m \in Session
    BY TradeTape DEF Longer
<1> HIDE DEF m
<1>2. /\ clock \in Minute /\ clock \in Nat /\ TapeInv(tape, clock) /\ BookTypes(book, clock)
      /\ WireInv(tape, inbox, feed.last) /\ ServedInv(tape, clock, served) /\ Len(tape) \in Nat
      /\ Counting(tape, feed.last, book, stream.subscribed, unseen.heard)
    BY InvFacts, WireState DEF Case, BookInv
<1>3. /\ book.ended \in Int /\ book.ended <= clock /\ book.segment \in Int
      /\ (book.segment # None => book.segment \in Nat)
    BY <1>2, BookTyped
<1>4. m \in Minute /\ CloseOf(m) \in Nat
    <2>1. m \in Minute
        BY <1>1, BookAssumption
    <2> QED BY <2>1, CloseFacts, Numbers
<1>5. book.segment <= CloseOf(m)
    <2>1. CASE book.segment = None
        BY <1>4, <2>1, Numbers
    <2>2. CASE book.segment # None
        <3>1. feed.last.kind = "tick" /\ book.segment <= CloseOf(feed.last.minute)
            BY <1>2, <2>2 DEF Counting
        <3>2. feed.last.n \in 1 .. Len(tape) /\ feed.last = TickOf(tape, feed.last.n)
            BY <1>2, <3>1, WireFacts
        <3>3. feed.last.minute = tape[feed.last.n].minute
            BY <3>2 DEF TickOf
        <3>4. feed.last.minute \in Minute /\ feed.last.minute <= m
            BY <1>1, <1>2, <3>2, <3>3, TapeFacts
        <3>5. CloseOf(feed.last.minute) <= CloseOf(m) /\ CloseOf(feed.last.minute) \in Int
            BY <1>4, <3>4, CloseOrder, CloseFacts, Numbers
        <3> QED BY <1>3, <1>4, <3>1, <3>5
    <2> QED BY <2>1, <2>2
<1>6. ASSUME NEW x \in served.minutes, served.rows[x] > 0
      PROVE  x <= m
    <2>1. x \in Minute /\ served.rows[x] \in Nat /\ served.rows[x] <= Count(tape, x, Len(tape))
        BY <1>2 DEF ServedInv
    <2>2. Count(tape, x, Len(tape)) \in Nat
        BY <1>2, CountNat
    <2>3. Count(tape, x, Len(tape)) > 0
        BY <1>6, <2>1, <2>2
    <2>4. PICK n \in 1 .. Len(tape) : tape[n].minute = x
        BY <1>2, <2>3, CountPositive
    <2> QED BY <1>1, <2>4
<1> QED BY <1>1, <1>2, <1>3, <1>5, <1>6 DEF m

\* A trade of which no tick tells.
LEMMA TradeLost ==
    ASSUME IInv, Trade, inbox' = inbox, feed'.last = feed.last, DOMAIN feed' = DOMAIN feed,
           unseen' = [unseen EXCEPT !.trades = @ \cup {Len(tape) + 1}]
    PROVE  IInv' /\ Grows
<1>1. UNCHANGED <<clock, stream, book, poll, served>>
    BY DEF Trade
<1> DEFINE some == unseen.trades \cup {Len(tape')}
<1>2. /\ Case(tape', clock, book, unseen.heard, unseen.blind, served)
      /\ WireInv(tape', inbox, feed.last)
      /\ Counting(tape', feed.last, book, stream.subscribed, unseen.heard)
      /\ stream.subscribed => Ahead(tape', inbox, some, feed.last, book, unseen.heard, 0)
      /\ poll.pc = "query" => Pending(tape', inbox, some, unseen.heard)
      /\ Len(tape) \in Nat /\ Len(tape') = Len(tape) + 1 /\ DOMAIN tape' = 1 .. Len(tape')
      /\ \A n \in 1 .. unseen.heard : tape'[n] = tape[n]
    BY TradeGrows
<1>3. /\ Unread(served, inbox, feed.last, unseen.heard) /\ unseen.trades \subseteq 1 .. Len(tape)
      /\ poll.pc = "query" => Recent(inbox, feed.last, unseen.heard, poll.at)
      /\ DOMAIN unseen = {"trades", "heard", "blind", "open"}
    BY InvFacts, WireState DEF RestInv
<1>4. /\ unseen'.trades = some /\ unseen'.heard = unseen.heard /\ unseen'.blind = unseen.blind
      /\ DOMAIN unseen' = DOMAIN unseen /\ unseen'.open = unseen.open
    BY <1>2, <1>3
<1>5. some \subseteq DOMAIN tape'
    BY <1>2, <1>3
<1> HIDE DEF some
<1> QED BY <1>1, <1>2, <1>3, <1>4, <1>5, WireKeeps

LEMMA FitsFacts ==
    ASSUME IInv, NEW item
    PROVE  /\ Unheard \subseteq DOMAIN tape
           /\ \E off \in {0, 1} : Shifted(inbox, Fits(item), item, unseen.trades \cup Unheard, off)
<1>1. /\ inbox \in Seq(Items(tape)) /\ Len(inbox) <= InboxSize /\ Len(inbox) \in Nat
      /\ DOMAIN tape = 1 .. Len(tape) /\ \A x \in Items(tape) : x.kind \in {"tick", "lost"}
      /\ clock \in Minute /\ TapeInv(tape, clock) /\ WireInv(tape, inbox, feed.last)
    BY InvFacts, WireState, WireFacts DEF WireInv
<1>2. \E off \in {0, 1} : Shifted(inbox, Fits(item), item, unseen.trades \cup Unheard, off)
    BY <1>1, FitsShifts
<1>3. Unheard \subseteq DOMAIN tape
    <2>1. CASE Len(inbox) < InboxSize \/ Head(inbox).kind = "lost"
        BY <2>1 DEF Unheard
    <2>2. CASE ~(Len(inbox) < InboxSize \/ Head(inbox).kind = "lost")
        <3>1. 1 \in 1 .. Len(inbox) /\ Head(inbox) = inbox[1]
            BY <1>1, <2>2, BookAssumption
        <3>2. inbox[1].kind = "lost" \/ inbox[1].n \in 1 .. Len(tape)
            <4>1. \/ inbox[1].kind = "lost" /\ inbox[1].n \in 0 .. Len(tape)
                  \/ inbox[1].kind = "tick" /\ inbox[1].n \in 1 .. Len(tape)
                BY <1>1, <3>1, WireFacts
            <4> QED BY <4>1
        <3>3. Unheard = {inbox[1].n}
            BY <2>2, <3>1 DEF Unheard
        <3> QED BY <1>1, <2>2, <3>1, <3>2, <3>3
    <2> QED BY <2>1, <2>2
<1> QED BY <1>2, <1>3

LEMMA CountingLater ==
    ASSUME NEW q, NEW last, NEW b, NEW sub, NEW heard, Counting(q, last, b, sub, heard),
           NEW later, later.kind = "tick", b.segment <= CloseOf(later.minute)
    PROVE  Counting(q, later, b, sub, heard)
BY DEF Counting

\* A trade whose tick comes into the inbox.
LEMMA TradeTold ==
    ASSUME IInv, Trade,
           LET tick == [kind |-> "tick", n |-> Len(tape) + 1, minute |-> MinuteOf(clock),
                        total |-> NextTotal(MinuteOf(clock))]
           IN inbox' = Fits(tick) /\ feed' = [feed EXCEPT !.last = tick],
           unseen' = [unseen EXCEPT !.trades = @ \cup Unheard]
    PROVE  IInv' /\ Grows
<1> DEFINE r == tape'
<1> DEFINE m == MinuteOf(clock)
<1> DEFINE item == TickOf(r, Len(r))
<1> DEFINE new == inbox'
<1> DEFINE some == unseen.trades \cup {Len(r)}
<1> DEFINE more == unseen.trades \cup Unheard
<1>1. UNCHANGED <<clock, stream, book, poll, served>>
    BY DEF Trade
<1>2. /\ Case(r, clock, book, unseen.heard, unseen.blind, served)
      /\ WireInv(r, inbox, feed.last)
      /\ Counting(r, feed.last, book, stream.subscribed, unseen.heard)
      /\ stream.subscribed => Ahead(r, inbox, some, feed.last, book, unseen.heard, 0)
      /\ poll.pc = "query" => Pending(r, inbox, some, unseen.heard)
      /\ Len(tape) \in Nat /\ Len(r) = Len(tape) + 1 /\ DOMAIN r = 1 .. Len(r)
      /\ \A n \in 1 .. unseen.heard : r[n] = tape[n]
      /\ item = [kind |-> "tick", n |-> Len(tape) + 1, minute |-> m, total |-> NextTotal(m)]
    BY TradeGrows
<1>3. /\ Unread(served, inbox, feed.last, unseen.heard) /\ unseen.trades \subseteq 1 .. Len(tape)
      /\ poll.pc = "query" => Recent(inbox, feed.last, unseen.heard, poll.at)
      /\ DOMAIN unseen = {"trades", "heard", "blind", "open"} /\ DOMAIN inbox = 1 .. Len(inbox)
      /\ unseen.heard \in 0 .. Len(tape) /\ DOMAIN tape = 1 .. Len(tape)
      /\ DOMAIN feed = {"up", "on", "told", "faults", "restarts", "last"}
      /\ TapeInv(tape, clock) /\ clock \in Minute /\ WireInv(tape, inbox, feed.last)
    BY InvFacts, WireState DEF RestInv
<1>4. /\ new = Fits(item) /\ feed'.last = item /\ DOMAIN feed' = DOMAIN feed
      /\ unseen'.trades = more /\ unseen'.heard = unseen.heard /\ unseen'.blind = unseen.blind
      /\ DOMAIN unseen' = DOMAIN unseen /\ unseen'.open = unseen.open
    <2>1. new = Fits(item)
        BY <1>2
    <2>2. feed' = [feed EXCEPT !.last = item]
        BY <1>2
    <2> HIDE DEF item
    <2> QED BY <1>3, <2>1, <2>2
<1>5. PICK off \in {0, 1} : Shifted(inbox, new, item, more, off)
    BY <1>4, FitsFacts
<1>6. /\ item.kind = "tick" /\ item.n = Len(r) /\ item.minute = m
    BY <1>2 DEF TickOf
<1>7. /\ book.ended <= m + 1 /\ book.segment <= CloseOf(m)
      /\ \A x \in served.minutes : served.rows[x] > 0 => x <= m
      /\ poll.pc = "query" => poll.at <= m
    BY TradeLate, TradeTape
<1> HIDE DEF m
<1>8. Sent(r, inbox, feed.last, item, item)
    <2>1. \A j \in 1 .. Len(inbox) : inbox[j].kind = "tick" => inbox[j].n \in 1 .. Len(tape)
        <3> TAKE j \in 1 .. Len(inbox)
        <3>1. \/ inbox[j].kind = "lost" /\ inbox[j].n \in 0 .. Len(tape)
              \/ inbox[j].kind = "tick" /\ inbox[j].n \in 1 .. Len(tape)
            BY <1>3, WireFacts
        <3> QED BY <3>1
    <2>2. \A j \in DOMAIN inbox : inbox[j].kind = "tick" => inbox[j].n < Len(r)
        BY <1>2, <1>3, <2>1
    <2>3. Len(r) \in 1 .. Len(r)
        BY <1>2
    <2> QED BY <2>2, <2>3 DEF Sent
<1>9. \A n \in some : n \in more \/ item = TickOf(r, n)
    OBVIOUS
<1>10. more \subseteq DOMAIN r
    BY <1>2, <1>3, FitsFacts
<1>11. TapeInv(r, clock) /\ unseen.heard \in 0 .. Len(r) /\ unseen.heard < Len(r)
    BY <1>2, <1>3 DEF Case
<1> HIDE DEF r, item, new, some, more
<1>12. WireInv(r, new, item)
    BY <1>2, <1>3, <1>5, <1>8, <1>11, WirePush
<1>13. Counting(r, item, book, stream.subscribed, unseen.heard)
    BY <1>2, <1>6, <1>7, CountingLater
<1>14. ASSUME stream.subscribed
       PROVE  Ahead(r, new, more, item, book, unseen.heard, 0)
    <2>1. Ahead(r, inbox, some, feed.last, book, unseen.heard, 0)
        BY <1>2, <1>14
    <2>2. /\ unseen.heard < Len(r) /\ book.ended <= item.minute + 1
          /\ book.segment <= CloseOf(item.minute)
        BY <1>6, <1>7, <1>11
    <2> QED BY <1>2, <1>3, <1>5, <1>8, <1>9, <1>11, <2>1, <2>2, AheadPush
<1>15. Unread(served, new, item, unseen.heard)
    <2> SUFFICES ASSUME NEW x \in served.minutes, served.rows[x] > 0
                 PROVE  Recent(new, item, unseen.heard, x)
        BY UnreadRecent
    <2>1. Recent(inbox, feed.last, unseen.heard, x) /\ x <= item.minute
        BY <1>3, <1>6, <1>7, UnreadRecent
    <2> QED BY <1>3, <1>5, <1>8, <2>1, RecentPush
<1>16. ASSUME poll.pc = "query"
       PROVE  /\ Pending(r, new, more, unseen.heard)
              /\ Recent(new, item, unseen.heard, poll.at)
    <2>1. Pending(r, new, more, unseen.heard)
        BY <1>2, <1>3, <1>5, <1>9, <1>16, PendingPush
    <2>2. Recent(inbox, feed.last, unseen.heard, poll.at) /\ poll.at <= item.minute
        BY <1>3, <1>6, <1>7, <1>16
    <2>3. Recent(new, item, unseen.heard, poll.at)
        BY <1>3, <1>5, <1>8, <2>2, RecentPush
    <2> QED BY <2>1, <2>3
<1> QED BY <1>1, <1>2, <1>4, <1>10, <1>12, <1>13, <1>14, <1>15, <1>16, WireKeeps DEF r, new

LEMMA TradeKeeps ==
    ASSUME IInv, Trade
    PROVE  IInv' /\ Grows
<1> DEFINE tick == [kind |-> "tick", n |-> Len(tape) + 1, minute |-> MinuteOf(clock),
                    total |-> NextTotal(MinuteOf(clock))]
<1>1. CASE /\ inbox' = Fits(tick) /\ feed' = [feed EXCEPT !.last = tick]
           /\ unseen' = [unseen EXCEPT !.trades = @ \cup Unheard]
    BY <1>1, TradeTold
<1>2. CASE /\ inbox' = inbox
           /\ unseen' = [unseen EXCEPT !.trades = @ \cup {Len(tape) + 1}]
           /\ feed' = [feed EXCEPT !.faults = IF feed.up /\ feed.on THEN @ + 1 ELSE @]
    <2>1. feed'.last = feed.last /\ DOMAIN feed' = DOMAIN feed
        BY <1>2, InvFacts DEF RestInv
    <2> QED BY <1>2, <2>1, TradeLost
<1> QED BY <1>1, <1>2 DEF Trade

LEMMA TellLossKeeps ==
    ASSUME IInv, TellLoss
    PROVE  IInv' /\ Grows
<1> DEFINE item == [kind |-> "lost", n |-> Len(tape)]
<1> DEFINE new == inbox'
<1> DEFINE more == unseen.trades \cup Unheard
<1>1. /\ UNCHANGED <<clock, tape, stream, book, poll, served>> /\ new = Fits(item)
      /\ unseen' = [unseen EXCEPT !.trades = more] /\ feed' = [feed EXCEPT !.told = TRUE]
    BY DEF TellLoss
<1>2. /\ Case(tape, clock, book, unseen.heard, unseen.blind, served)
      /\ Counting(tape, feed.last, book, stream.subscribed, unseen.heard)
      /\ stream.subscribed => Ahead(tape, inbox, unseen.trades, feed.last, book, unseen.heard, 0)
      /\ poll.pc = "query" => /\ Pending(tape, inbox, unseen.trades, unseen.heard)
                              /\ Recent(inbox, feed.last, unseen.heard, poll.at)
      /\ DOMAIN inbox = 1 .. Len(inbox) /\ unseen.heard \in 0 .. Len(tape)
      /\ unseen.trades \subseteq DOMAIN tape
    BY WireState
<1>3. /\ DOMAIN unseen = {"trades", "heard", "blind", "open"}
      /\ DOMAIN feed = {"up", "on", "told", "faults", "restarts", "last"}
      /\ TapeInv(tape, clock) /\ clock \in Minute /\ WireInv(tape, inbox, feed.last)
      /\ Unread(served, inbox, feed.last, unseen.heard) /\ Len(tape) \in Nat
    BY InvFacts DEF RestInv
<1>4. /\ feed'.last = feed.last /\ DOMAIN feed' = DOMAIN feed
      /\ unseen'.trades = more /\ unseen'.heard = unseen.heard /\ unseen'.blind = unseen.blind
      /\ DOMAIN unseen' = DOMAIN unseen /\ unseen'.open = unseen.open
    BY <1>1, <1>3
<1>5. PICK off \in {0, 1} : Shifted(inbox, new, item, more, off)
    BY <1>1, FitsFacts
<1>6. Sent(tape, inbox, feed.last, item, feed.last) /\ item.kind = "lost"
    <2>1. item \in Items(tape)
        BY <1>3 DEF Items, LostOf
    <2> QED BY <2>1 DEF Sent
<1>7. /\ \A n \in unseen.trades : n \in more \/ item = TickOf(tape, n)
      /\ more \subseteq DOMAIN tape
    BY <1>2, FitsFacts
<1> HIDE DEF item, new, more
<1>8. WireInv(tape, new, feed.last)
    BY <1>3, <1>5, <1>6, WirePush
<1>9. ASSUME stream.subscribed
      PROVE  Ahead(tape, new, more, feed.last, book, unseen.heard, 0)
    <2>1. Ahead(tape, inbox, unseen.trades, feed.last, book, unseen.heard, 0)
        BY <1>2, <1>9
    <2> QED BY <1>2, <1>3, <1>5, <1>6, <1>7, <2>1, AheadPush
<1>10. Unread(served, new, feed.last, unseen.heard)
    <2> SUFFICES ASSUME NEW x \in served.minutes, served.rows[x] > 0
                 PROVE  Recent(new, feed.last, unseen.heard, x)
        BY UnreadRecent
    <2>1. Recent(inbox, feed.last, unseen.heard, x)
        BY <1>3, UnreadRecent
    <2> QED BY <1>2, <1>5, <1>6, <2>1, RecentPush
<1>11. ASSUME poll.pc = "query"
       PROVE  /\ Pending(tape, new, more, unseen.heard)
              /\ Recent(new, feed.last, unseen.heard, poll.at)
    <2>1. Pending(tape, new, more, unseen.heard)
        BY <1>2, <1>5, <1>7, <1>11, PendingPush
    <2>2. Recent(inbox, feed.last, unseen.heard, poll.at)
        BY <1>2, <1>11
    <2>3. Recent(new, feed.last, unseen.heard, poll.at)
        BY <1>2, <1>5, <1>6, <2>2, RecentPush
    <2> QED BY <2>1, <2>3
<1> QED BY <1>1, <1>2, <1>4, <1>7, <1>8, <1>9, <1>10, <1>11, WireKeeps DEF new

LEMMA RedeliverKeeps ==
    ASSUME IInv, Redeliver
    PROVE  IInv' /\ Grows
<1> DEFINE last == feed.last
<1> DEFINE heard == unseen.heard
<1>1. /\ UNCHANGED <<clock, tape, stream, book, poll, served, unseen>>
      /\ inbox = <<>> /\ inbox' = <<last>> /\ last # [kind |-> "none"]
      /\ feed' = [feed EXCEPT !.faults = @ + 1]
    BY DEF Redeliver
<1>2. /\ Case(tape, clock, book, heard, unseen.blind, served)
      /\ Counting(tape, last, book, stream.subscribed, heard)
      /\ stream.subscribed => Ahead(tape, inbox, unseen.trades, last, book, heard, 0)
      /\ poll.pc = "query" => /\ Pending(tape, inbox, unseen.trades, heard)
                              /\ Recent(inbox, last, heard, poll.at)
      /\ DOMAIN inbox = 1 .. Len(inbox) /\ heard \in 0 .. Len(tape)
      /\ unseen.trades \subseteq DOMAIN tape
    BY WireState
<1>3. /\ DOMAIN feed = {"up", "on", "told", "faults", "restarts", "last"}
      /\ TapeInv(tape, clock) /\ clock \in Minute /\ WireInv(tape, inbox, last)
      /\ Unread(served, inbox, last, heard)
    BY InvFacts DEF RestInv
<1>4. feed'.last = last /\ DOMAIN feed' = DOMAIN feed
    BY <1>1, <1>3
<1>5. PICK n \in DOMAIN tape : last = TickOf(tape, n)
    BY <1>1, <1>3 DEF WireInv
<1>6. last.kind = "tick" /\ last.n = n /\ last.minute = tape[n].minute
    BY <1>5 DEF TickOf
<1>7. /\ Len(tape) \in Nat /\ n \in 1 .. Len(tape) /\ tape[n].minute \in Minute
      /\ tape[n].minute \in Nat /\ heard \in Nat
    BY <1>2, <1>3, <1>5, TapeFacts
<1> HIDE DEF last, heard
<1>8. WireInv(tape, <<last>>, last)
    <2>1. last \in Items(tape)
        BY <1>5 DEF Items
    <2>2. <<last>> \in Seq(Items(tape)) /\ Len(<<last>>) = 1 /\ <<last>>[1] = last
          /\ DOMAIN <<last>> = {1}
        BY <2>1
    <2>3. 1 <= InboxSize
        BY BookAssumption
    <2> QED BY <1>3, <1>6, <1>7, <2>2, <2>3 DEF WireInv
<1>9. ASSUME stream.subscribed
      PROVE  Ahead(tape, <<last>>, unseen.trades, last, book, heard, 0)
    <2>1. Ahead(tape, <<>>, unseen.trades, last, book, heard, 0)
        BY <1>1, <1>2, <1>9
    <2>2. /\ \A k \in heard + 1 .. Len(tape) : k \in unseen.trades
          /\ last.n <= heard /\ Match(book, last)
        BY <1>6, <2>1 DEF Ahead
    <2>3. book.segment <= CloseOf(last.minute)
        <3>1. CASE book.segment = None
            <4>1. CloseOf(last.minute) \in Nat
                BY <1>6, <1>7, CloseFacts, Numbers
            <4> QED BY <3>1, <4>1, Numbers
        <3>2. CASE book.segment # None
            BY <1>2, <3>2 DEF Counting
        <3> QED BY <3>1, <3>2
    <2>4. Len(<<last>>) = 1 /\ <<last>>[1] = last /\ 0 + 1 .. 1 = {1}
        OBVIOUS
    <2> QED BY <2>2, <2>3, <2>4 DEF Ahead
<1>10. Unread(served, <<last>>, last, heard)
    BY <1>3 DEF Unread
<1>11. poll.pc = "query" => /\ Pending(tape, <<last>>, unseen.trades, heard)
                            /\ Recent(<<last>>, last, heard, poll.at)
    BY <1>1, <1>2 DEF Pending, Recent
<1>12. /\ Case(tape', clock, book, heard, unseen.blind, served)
       /\ WireInv(tape', inbox', feed'.last)
       /\ Counting(tape', feed'.last, book, stream.subscribed, heard)
       /\ stream.subscribed => Ahead(tape', inbox', unseen'.trades, feed'.last, book, heard, 0)
       /\ Unread(served, inbox', feed'.last, heard)
       /\ poll.pc = "query" => /\ Pending(tape', inbox', unseen'.trades, heard)
                               /\ Recent(inbox', feed'.last, heard, poll.at)
    BY <1>1, <1>2, <1>4, <1>8, <1>9, <1>10, <1>11
<1> QED BY <1>1, <1>2, <1>4, <1>12, WireKeeps DEF heard

(***************************************************************************)
(* The invariant, and the properties that follow from it.                  *)
(***************************************************************************)
LEMMA InitInvariant ==
    ASSUME Init
    PROVE  IInv
<1> DEFINE b == FreshBook
<1>1. /\ clock = 1 /\ inbox = <<>> /\ book = b
      /\ tape \in {<<>>} \cup {<<[minute |-> m, total |-> BaseTotal]>> : m \in Session \cap {0}}
      /\ feed.last = [kind |-> "none"]
      /\ DOMAIN feed = {"up", "on", "told", "faults", "restarts", "last"}
      /\ stream = [subscribed |-> FALSE, lost |-> FALSE, queries |-> 0] /\ poll.pc = "idle"
      /\ served = [minutes |-> {}, rows |-> Nothing, excused |-> {}, unreached |-> {}]
      /\ unseen = [trades |-> {}, heard |-> 0, blind |-> {}, open |-> {}]
    BY DEF Init
<1>2. clock \in Minute /\ 0 \in Minute /\ \A m \in Minute : m \in Nat
    BY <1>1, BookAssumption DEF Minute
<1>3. TapeInv(tape, clock)
    <2>1. CASE tape = <<>>
        BY <2>1, BookAssumption DEF TapeInv
    <2>2. CASE tape # <<>>
        <3>1. 0 \in Session /\ tape = <<[minute |-> 0, total |-> BaseTotal]>>
            BY <1>1, <2>2
        <3> DEFINE x == [minute |-> 0, total |-> BaseTotal]
        <3>2. x \in [minute : Session, total : Nat] /\ x.minute = 0
            BY <3>1, BookAssumption
        <3> HIDE DEF x
        <3>3. <<x>> \in Seq([minute : Session, total : Nat]) /\ Len(<<x>>) = 1
              /\ DOMAIN <<x>> = {1} /\ <<x>>[1] = x
            BY <3>2
        <3>4. tape = <<x>>
            BY <3>1 DEF x
        <3>5. 1 <= MaxTrades
            BY BookAssumption
        <3> QED BY <1>1, <3>2, <3>3, <3>4, <3>5 DEF TapeInv
    <2> QED BY <2>1, <2>2
<1>4. Nothing \in [Minute -> Nat] /\ \A m \in Minute : Nothing[m] = 0
    BY DEF Nothing
<1>5. Len(tape) \in Nat /\ \A m \in Minute : Count(tape, m, Len(tape)) \in Nat
    BY <1>2, <1>3, TapeFacts, CountNat
<1>6. BookInv(tape, clock, b, 0, {}, served)
    <2>1. /\ b.history = Nothing /\ b.minutes = Nothing /\ b.finalBefore = None
          /\ b.coveredFrom = None /\ b.firstDay = None /\ b.lastTotal = None
          /\ b.lastMinute = None /\ b.segment = None /\ b.ended = None
          /\ DOMAIN b = {"history", "minutes", "finalBefore", "coveredFrom", "firstDay",
                         "lastRefill", "seedRetry", "lastTotal", "lastMinute", "segment", "ended"}
        BY DEF FreshBook
    <2> HIDE DEF b
    <2>2. BookTypes(b, clock)
        BY <1>1, <1>4, <2>1, Numbers DEF BookTypes
    <2>3. Settled(tape, clock, b, {}, served)
        BY <1>2, <1>4, <1>5, <2>1 DEF Settled, None
    <2>4. Streamed(tape, b, 0, {}, served)
        BY <1>4, <2>1 DEF Streamed
    <2>5. Held(b, served)
        BY <1>1 DEF Held
    <2> QED BY <2>2, <2>3, <2>4, <2>5 DEF BookInv
<1>7. Counting(tape, feed.last, b, FALSE, 0)
    BY DEF Counting, FreshBook
<1> HIDE DEF b
<1>8. ReaderInv(Reader, 0)
    <2>1. /\ unseen.heard = 0 /\ unseen.blind = {} /\ stream.subscribed = FALSE
          /\ stream.lost = FALSE
        BY <1>1
    <2>2. /\ DOMAIN Reader = {"book", "sub", "lost", "heard", "blind"}
          /\ Reader.book = book /\ Reader.sub = stream.subscribed /\ Reader.lost = stream.lost
          /\ Reader.heard = unseen.heard /\ Reader.blind = unseen.blind
        BY DEF Reader
    <2>3. /\ Reader.book = b /\ Reader.sub = FALSE /\ Reader.lost = FALSE
          /\ Reader.heard = 0 /\ Reader.blind = {}
        BY <1>1, <2>1, <2>2, Zenon
    <2>4. BookInv(tape, clock, Reader.book, Reader.heard, Reader.blind, served)
        BY <1>6, <2>3, Zenon
    <2>5. Counting(tape, feed.last, Reader.book, Reader.sub, Reader.heard)
        BY <1>7, <2>3, Zenon
    <2>6. 0 \in 0 .. Len(tape) /\ ~Reader.sub
        BY <1>5, <2>3
    <2>7. /\ Reader.sub \in BOOLEAN /\ Reader.lost \in BOOLEAN
          /\ Reader.heard \in 0 .. Len(tape) /\ Reader.blind \subseteq Minute
        BY <2>3, <2>6
    <2> HIDE DEF Reader
    <2> QED BY <2>2, <2>4, <2>5, <2>6, <2>7 DEF ReaderInv
<1>9. WireInv(tape, inbox, feed.last)
    <2>1. <<>> \in Seq(Items(tape)) /\ Len(<<>>) = 0 /\ DOMAIN <<>> = {} /\ 0 <= InboxSize
        BY BookAssumption
    <2> QED BY <1>1, <2>1 DEF WireInv
<1>10. ServedInv(tape, clock, served)
    BY <1>1, <1>4 DEF ServedInv
<1>11. Unread(served, inbox, feed.last, unseen.heard) /\ QueryInv
    BY <1>1 DEF Unread, QueryInv
<1>12. RestInv
    BY <1>1, <1>2 DEF RestInv
<1>13. OpenInv(book, served, unseen.open)
    BY <1>1 DEF OpenInv
<1> QED BY <1>3, <1>8, <1>9, <1>10, <1>11, <1>12, <1>13 DEF IInv

\* Every step keeps the invariant and, where an answer reached, what was served.
LEMMA StepInvariant ==
    ASSUME IInv, [Next]_vars
    PROVE  IInv' /\ Grows
<1>1. CASE Trade
    BY <1>1, TradeKeeps
<1>2. CASE Redeliver
    BY <1>2, RedeliverKeeps
<1>3. CASE Disconnect
    BY <1>3, DisconnectKeeps
<1>4. CASE TellLoss
    BY <1>4, TellLossKeeps
<1>5. CASE Reconnect
    BY <1>5, ReconnectKeeps
<1>6. CASE Tick
    BY <1>6, TickKeeps
<1>7. ASSUME NEW first \in FirstDays, Poll(first)
      PROVE  IInv' /\ Grows
    BY <1>7, PollKeeps
<1>8. ASSUME NEW first \in FirstDays, SubscribeFails(first)
      PROVE  IInv' /\ Grows
    BY <1>8, SubscribeFailsKeeps
<1>9. CASE Answered
    BY <1>9, AnsweredKeeps
<1>10. CASE QueryFails
    BY <1>10, QueryFailsKeeps
<1>11. CASE UNCHANGED vars
    <2>1. UNCHANGED <<clock, tape, inbox, stream, book, poll, served, unseen>> /\ feed' = feed
        BY <1>11 DEF vars
    <2> QED BY <2>1, FeedKeeps
<1> QED BY <1>1, <1>2, <1>3, <1>4, <1>5, <1>6, <1>7, <1>8, <1>9, <1>10, <1>11 DEF Next

\* The inductive invariant holds in every state a contract's reader can reach.
THEOREM Invariance == Spec => []IInv
<1>1. Init => IInv
    BY InitInvariant
<1>2. IInv /\ [Next]_vars => IInv'
    BY StepInvariant
<1> QED BY <1>1, <1>2, PTL DEF Spec

LEMMA TypesFollow ==
    ASSUME IInv
    PROVE  TypeOK
<1>1. /\ ReaderInv(Reader, 0) /\ TapeInv(tape, clock) /\ WireInv(tape, inbox, feed.last)
      /\ ServedInv(tape, clock, served) /\ clock \in Minute
    BY DEF IInv, RestInv
<1>2. Reader.book = book
    BY DEF Reader
<1>3. BookInv(tape, clock, book, Reader.heard, Reader.blind, served)
    BY <1>1, <1>2 DEF ReaderInv
<1>4. Len(tape) \in Nat /\ Len(tape) <= MaxTrades
    BY <1>1, TapeFacts
<1>5. BookTypes(book, clock) /\ \A m \in Minute : book.history[m] <= Count(tape, m, Len(tape))
    BY <1>3 DEF BookInv, Settled
<1>6. book.history \in Volumes
    <2>1. ASSUME NEW m \in Minute
          PROVE  book.history[m] \in 0 .. MaxTrades
        <3>1. Count(tape, m, Len(tape)) \in Nat /\ Count(tape, m, Len(tape)) <= Len(tape)
            BY <1>4, CountNat
        <3>2. book.history[m] \in Nat
            BY <1>5 DEF BookTypes
        <3> QED BY <1>4, <1>5, <3>1, <3>2, BookAssumption
    <2>2. book.history \in [Minute -> Nat]
        BY <1>5 DEF BookTypes
    <2> QED BY <2>1, <2>2 DEF Volumes
<1>7. book.minutes \in [Minute -> Nat] /\ book.finalBefore \in 0 .. LastMinute + 2 \cup {None}
    BY <1>5 DEF BookTypes
<1>8. tape \in Seq([minute : Session, total : Nat]) /\ Len(inbox) <= InboxSize
    BY <1>1 DEF TapeInv, WireInv
<1>9. served.minutes \subseteq Minute /\ served.rows \in [Minute -> Nat]
    BY <1>1 DEF ServedInv
<1> QED BY <1>1, <1>4, <1>6, <1>7, <1>8, <1>9 DEF TypeOK

\* Whatever is traded, lost, repeated or answered late, every variable stays
\* within its type: the book holds no more of a minute than was traded at all,
\* and the inbox of prints never passes its bound.
THEOREM TypeCorrectness == Spec => []TypeOK
<1>1. IInv => TypeOK
    BY TypesFollow
<1> QED BY <1>1, Invariance, PTL

LEMMA CompleteFollows ==
    ASSUME IInv
    PROVE  ServedComplete
<1>1. ServedInv(tape, clock, served)
    BY DEF IInv
<1>2. ASSUME NEW m
      PROVE  Lots(m) = Count(tape, m, Len(tape))
    BY DEF Lots, Counted, Count
<1> QED BY <1>1, <1>2 DEF ServedInv, ServedComplete

\* Whatever windows are asked for, and whatever was lost, repeated, dropped or
\* answered late, no minute is served with a trade twice; and it is served with
\* every trade of it unless a loss no tick showed may be missing from it, or no
\* answer for a window that moved back reached it.
THEOREM ServedCompleteHolds == Spec => []ServedComplete
<1>1. IInv => ServedComplete
    BY CompleteFollows
<1> QED BY <1>1, Invariance, PTL

\* And of a minute that the answers reached no later poll serves less than an
\* earlier one did: what a strategy has traded on is not taken back.
THEOREM NeverShrinksHolds == Spec => NeverShrinks
<1>1. IInv /\ [Next]_vars =>
          [\A m \in served.minutes \cap served'.minutes :
              served.rows[m] <= served'.rows[m] \/ m \in served'.unreached]_vars
    BY StepInvariant DEF Grows
<1> QED BY <1>1, Invariance, PTL DEF Spec, NeverShrinks
===============================================================================
