----------------------------- MODULE MinuteBook -----------------------------
(***************************************************************************)
(* The minute bars of one Shioaji contract (brokers/shioaji_stream.py,     *)
(* ShioajiBarStream and _MinuteBook): a tick subscription that may lose    *)
(* ticks or its connection, kbars() queries that settle what the ticks     *)
(* cannot vouch for, and the poll that serves minutes from both.           *)
(*                                                                         *)
(* Time is counted in minutes.  Every trade is one lot and has a number; a *)
(* minute's volume is its number of trades; prices follow the same trades  *)
(* and are left out.  No row and volume 0 are the same thing.              *)
(***************************************************************************)
EXTENDS Integers, Sequences, FiniteSets, FiniteSetsExt

CONSTANTS
    LastMinute,   \* the clock stops here
    Session,      \* the minutes the market trades in
    FirstDays,    \* windows a poll may ask for: the first minute of each
    MaxTrades, MaxFaults, InboxSize, DailyBudget, QuerySpacing,
    BaseTotal,    \* the venue's cumulative volume at the start
    Events        \* what may go wrong in an instance

Minute == 0 .. LastMinute
None   == -1

ASSUME BookAssumption ==
    /\ LastMinute \in Nat \ {0} /\ Session \subseteq Minute /\ FirstDays \subseteq Minute
    /\ {MaxTrades, MaxFaults, InboxSize, DailyBudget, QuerySpacing, BaseTotal} \subseteq Nat
    /\ InboxSize > 0 /\ MaxTrades > 0

VARIABLES
    clock,
    tape,     \* the venue's record: of each trade its minute and the cumulative volume
    feed,     \* the subscription as the venue and the wire have it
    inbox,    \* _inbox, filled by the SDK's callbacks
    stream,   \* _subscribed, _lost, _queries_today
    book,     \* the contract's _MinuteBook
    poll,     \* the poll in progress
    served,   \* what the last poll returned as complete minutes
    unseen    \* history: trades no tick told of, with the last trade that is known
              \* of, and minutes of the window that no answer reached

vars == <<clock, tape, feed, inbox, stream, book, poll, served, unseen>>

Volumes == [Minute -> 0 .. MaxTrades]
Nothing == [m \in Minute |-> 0]

\* The volume of a minute over the first k trades, and over all of them.
Counted(m, k) == Cardinality({n \in 1 .. k : tape[n].minute = m})
Lots(m)       == Counted(m, Len(tape))

\* The trading calendar: a segment's close, and the minute a print counts in.
CloseOf(m)  == Min({c \in m + 1 .. LastMinute + 1 : c \notin Session})
MinuteOf(a) == IF a \in Session THEN a ELSE a - 1
Prints      == {a \in Minute : a \in Session \/ a - 1 \in Session}

(***************************************************************************)
(* The venue and the wire (external).                                      *)
(***************************************************************************)
Fault(kind) == kind \in Events /\ feed.faults < MaxFaults

\* Faulty variant: the inbox has no bound.
FitsAlways(item) == Append(inbox, item)
Fits(item) == IF Len(inbox) < InboxSize THEN Append(inbox, item)
              ELSE Append(Tail(inbox), item)

\* A full inbox drops its oldest item; what that told is not told any more.
Unheard == IF Len(inbox) < InboxSize \/ Head(inbox).kind = "lost" THEN {}
           ELSE {Head(inbox).n}

\* A venue may restart the cumulative volume with each segment.
NextTotal(m) ==
    IF tape = <<>> THEN BaseTotal + 1
    ELSE LET last == tape[Len(tape)] IN
         IF feed.restarts /\ CloseOf(last.minute) # CloseOf(m) THEN 1 ELSE last.total + 1

\* A closing print comes as the segment ends (the docstring's came 24 ms
\* later), not while a query begun after that is answered.
Trade ==
    /\ (clock \notin Session /\ poll.pc = "query") => poll.at < clock
    /\ clock \in Prints /\ Len(tape) < MaxTrades
    /\ LET m    == MinuteOf(clock)
           tot  == NextTotal(m)
           n    == Len(tape) + 1
           tick == [kind |-> "tick", n |-> n, minute |-> m, total |-> tot]
       IN /\ tape' = Append(tape, [minute |-> m, total |-> tot])
          /\ \/ /\ feed.up /\ feed.on
                /\ inbox' = Fits(tick)
                /\ unseen' = [unseen EXCEPT !.trades = @ \cup Unheard]
                /\ feed' = [feed EXCEPT !.last = tick]
             \/ /\ ~feed.up \/ ~feed.on \/ Fault("lostTick")
                /\ unseen' = [unseen EXCEPT !.trades = @ \cup {n}]
                /\ feed' = [feed EXCEPT !.faults = IF feed.up /\ feed.on THEN @ + 1 ELSE @]
                /\ UNCHANGED inbox
    /\ UNCHANGED <<clock, stream, book, poll, served>>

Redeliver ==
    /\ Fault("duplicate") /\ feed.up /\ feed.on
    /\ feed.last # [kind |-> "none"] /\ inbox = <<>>
    /\ inbox' = <<feed.last>>
    /\ feed' = [feed EXCEPT !.faults = @ + 1]
    /\ UNCHANGED <<clock, tape, stream, book, poll, served, unseen>>

Disconnect ==
    /\ Fault("disconnect") /\ feed.up
    /\ feed' = [feed EXCEPT !.up = FALSE, !.told = FALSE, !.faults = @ + 1]
    /\ UNCHANGED <<clock, tape, inbox, stream, book, poll, served, unseen>>

\* _on_event and _on_session_down; the SDK may notice the loss later.
TellLoss ==
    /\ ~feed.told
    /\ inbox' = Fits([kind |-> "lost", n |-> Len(tape)])
    /\ unseen' = [unseen EXCEPT !.trades = @ \cup Unheard]
    /\ feed' = [feed EXCEPT !.told = TRUE]
    /\ UNCHANGED <<clock, tape, stream, book, poll, served>>

\* The session comes back, with the subscription or without it.
Reconnect ==
    /\ ~feed.up /\ feed.told
    /\ \E kept \in {feed.on, FALSE} : feed' = [feed EXCEPT !.up = TRUE, !.on = kept]
    /\ UNCHANGED <<clock, tape, inbox, stream, book, poll, served, unseen>>

\* A query is answered within a minute (the SDK's timeout is half of one).
Tick ==
    /\ clock < LastMinute
    /\ poll.pc = "query" => clock = poll.at
    /\ clock' = clock + 1
    /\ UNCHANGED <<tape, feed, inbox, stream, book, poll, served, unseen>>
-----------------------------------------------------------------------------
(***************************************************************************)
(* _MinuteBook                                                             *)
(***************************************************************************)
HoldsGap(b) == \/ b.finalBefore = None \/ b.coveredFrom = None
               \/ b.finalBefore < b.coveredFrom

\* _settle_streamed
SettleStreamed(b) ==
    IF \/ b.coveredFrom = None \/ b.finalBefore = None \/ b.lastMinute = None
       \/ b.coveredFrom > b.finalBefore \/ b.lastMinute <= b.finalBefore
    THEN b
    ELSE [b EXCEPT !.history = [m \in Minute |-> IF m \in b.finalBefore .. b.lastMinute - 1
                                                 THEN b.minutes[m] ELSE @[m]],
                   !.finalBefore = b.lastMinute]

\* _end_segment
EndSegment(b, close) ==
    IF b.ended = close THEN b
    ELSE LET e == [b EXCEPT !.ended = close] IN
         IF b.coveredFrom = None THEN e
         ELSE [SettleStreamed(e) EXCEPT !.coveredFrom = IF @ > close THEN @ ELSE close]

EndedBy(b, now) == IF b.segment # None /\ now >= b.segment THEN EndSegment(b, b.segment) ELSE b

ConnectionLost(b) == [SettleStreamed(b) EXCEPT !.coveredFrom = None, !.lastTotal = None]

\* Faulty variant: a gap is taken to end before the minute it shows in.
Follows(b, t, new) ==
    IF new THEN t.total \in {1, b.lastTotal + 1} ELSE t.total = b.lastTotal + 1
CoveredFromGap(t)  == t.minute

Repeated(b, t, new) == b.lastTotal # None /\ ~new /\ t.total <= b.lastTotal
CoveredAfterGap(t) == t.minute + 1

\* add_tick, with the segment change of _minute_of
AddTick(b, t) ==
    LET seg == CloseOf(t.minute)
        new == b.segment # seg
        s   == [(IF new /\ b.segment # None THEN EndSegment(b, b.segment) ELSE b)
                   EXCEPT !.segment = seg]
        g   == IF s.lastTotal # None /\ ~Follows(s, t, new)
               THEN [SettleStreamed(s) EXCEPT !.coveredFrom = CoveredAfterGap(t)] ELSE s
    IN IF Repeated(s, t, new) THEN s
       ELSE [g EXCEPT !.lastTotal = t.total, !.lastMinute = t.minute,
                      !.minutes[t.minute] = @ + 1]

\* skip_closed_market: a gap that no session minute falls in is none.
SkipClosed(b) ==
    IF /\ b.finalBefore # None /\ b.coveredFrom # None /\ b.finalBefore < b.coveredFrom
       /\ \A m \in b.finalBefore .. b.coveredFrom - 1 : m \notin Session
    THEN [b EXCEPT !.finalBefore = b.coveredFrom] ELSE b

\* take_kbars.  An answer that falls short of a settled minute of the stream
\* from its own newest on runs behind: it is trusted up to there only.
\* Faulty variant: settled minutes the answer has not reached are dropped.
Forgetful(answer, trusted, kept, b) == [m \in Minute |-> IF m < trusted THEN answer[m] ELSE 0]
Kept(answer, trusted, kept, b) ==
    [m \in Minute |-> IF m < trusted THEN answer[m] ELSE IF m < kept THEN b.history[m] ELSE 0]

HoldsRows(b)  == \E m \in Minute : b.history[m] > 0 \/ b.minutes[m] > 0
RowsOf(answer) == {m \in Minute : answer[m] > 0}
Short(b, answer, now) == {m \in Minute : m < now - 1 /\ answer[m] < b.minutes[m]}
RunsBehind(b, answer, now) ==
    LET rows  == RowsOf(answer)
        short == Short(b, answer, now)
    IN short # {} /\ (rows = {} \/ Min(short) >= Max(rows))

TakeKbars(b, answer, first, now) ==
    LET rows    == RowsOf(answer)
        settled == now - 1
        newest  == IF rows = {} THEN None ELSE Max(rows)
        behind  == RunsBehind(b, answer, now)
        trusted == IF rows = {} THEN Min(Short(b, answer, now)) ELSE newest
        kept    == IF b.finalBefore # None THEN b.finalBefore ELSE trusted
        final   == IF behind THEN Max({trusted, kept}) ELSE Max({settled, newest})
    IN IF rows = {} /\ HoldsRows(b) THEN b
       ELSE [b EXCEPT !.history = IF behind THEN Kept(answer, trusted, kept, b) ELSE answer,
                      !.finalBefore = final, !.firstDay = first,
                      !.minutes = [m \in Minute |-> IF m >= final THEN @[m] ELSE 0]]

\* History: minutes of the window the book lacks once it took an answer.  One
\* that runs behind reaches none from its newest row on, and the book has none
\* before its old window; one that shows no lag may still end before the minutes
\* the book had settled.  An answer that is not taken changes nothing.
Lacking(b, answer, first, now, open) ==
    LET rows == RowsOf(answer)
        r    == TakeKbars(b, answer, first, now)
    IN IF rows = {} /\ HoldsRows(b) THEN open
       ELSE {m \in Minute : first <= m /\
                IF RunsBehind(b, answer, now)
                THEN Max(rows) <= m /\ (m < b.firstDay \/ m \in open)
                ELSE r.finalBefore <= m /\ (m < b.finalBefore \/ m \in open)}

\* frame: the window's start, the rows that are complete, and the newest one
\* held until the minute after it has closed (drop_incomplete_ohlcv).
Trimmed(b, first) ==
    IF b.firstDay = None \/ first > b.firstDay
    THEN [b EXCEPT !.firstDay = first,
                   !.history = [m \in Minute |-> IF m < first THEN 0 ELSE @[m]],
                   !.minutes = [m \in Minute |-> IF m < first THEN 0 ELSE @[m]]]
    ELSE b

Complete(b) == [m \in Minute |-> IF m < b.finalBefore THEN b.history[m]
                                 ELSE IF HoldsGap(b) THEN 0 ELSE b.minutes[m]]

\* A minute is complete if it ended before the point the stream left to
\* kbars(), and a later row shows it closed or it closed a minute ago.
Released(b, first) ==
    LET known   == Complete(b)
        rows    == {m \in Minute : m >= first /\ known[m] > 0}
        through == IF HoldsGap(b) THEN b.finalBefore ELSE LastMinute + 1
    IN {m \in Minute : /\ first <= m /\ m < through
                       /\ m + 2 <= clock \/ \E r \in rows : m < r}
-----------------------------------------------------------------------------
(***************************************************************************)
(* ShioajiBarStream.minutes, with the lock held throughout.  The SDK's     *)
(* callbacks go on filling the inbox while a query is answered.            *)
(***************************************************************************)
\* History: the trades no tick told of, between the last item and this tick,
\* which its total cannot show to the code either: it is the first of the
\* subscription, or seems to be the first of its segment.
Hidden(s, t) ==
    LET new == s.book.segment # CloseOf(t.minute) IN
    {n \in unseen.trades :
        /\ s.heard < n /\ n < t.n
        /\ \/ s.book.lastTotal = None
           \/ /\ new /\ Follows(s.book, t, new)
              /\ CloseOf(tape[n].minute) # s.book.segment}

Drain(s, item) ==
    CASE item.kind = "lost" -> [s EXCEPT !.book = ConnectionLost(@), !.lost = @ \/ s.sub,
                                         !.sub = FALSE, !.heard = Max({@, item.n})]
      [] item.kind = "tick" /\ s.sub ->
           [s EXCEPT !.book = AddTick(@, item), !.heard = Max({@, item.n}),
                     !.blind = @ \cup {tape[n].minute : n \in Hidden(s, item)}]
      [] OTHER -> s

Reader == [book |-> book, sub |-> stream.subscribed, lost |-> stream.lost,
           heard |-> unseen.heard, blind |-> unseen.blind]

\* _drain: item after item, the oldest first.
DrainedTo[k \in 0 .. Len(inbox)] ==
    IF k = 0 THEN Reader ELSE Drain(DrainedTo[k - 1], inbox[k])

Drained == DrainedTo[Len(inbox)]

\* Faulty variant: the minute of the subscription counts as streamed.
StreamNow  == {clock}
StreamFrom == {clock + 1, clock + 2}

\* _subscribe and start_stream: what it leads to, and what the venue does.
StreamStarted(b, from) == [b EXCEPT !.coveredFrom = from, !.lastTotal = None]

Subscriptions(d) ==
    IF d.sub THEN {d}
    ELSE {[d EXCEPT !.sub = TRUE, !.lost = FALSE, !.heard = Len(tape),
                    !.book = StreamStarted(@, from)] : from \in StreamFrom}
Accepted(d) == IF d.sub THEN {feed.on} ELSE IF "refused" \in Events THEN BOOLEAN ELSE {TRUE}

\* The minutes of trades no pair of ticks of one count spans: no later one was
\* read, or none earlier since the subscription or since the count began.
Excused(heard, blind) == blind \cup {tape[n].minute : n \in {k \in unseen.trades : k > heard}}

Heard(d) == [heard |-> d.heard, blind |-> d.blind,
             trades |-> {n \in unseen.trades : n > d.heard}, open |-> unseen.open]

\* History: the minutes served that no answer reached; a window that reaches
\* further back than the book's is served from its start nevertheless.
Unreached(b, first, open) == {m \in Minute : m \in open \/ (first <= m /\ m < b.firstDay)}

Serves(b, first, heard, blind, open) ==
    LET t     == Trimmed(b, first)
        ready == Released(t, first)
        known == Complete(t)
    IN
      /\ book' = t
      /\ served' = [minutes |-> ready, excused |-> Excused(heard, blind),
                    unreached |-> Unreached(t, first, open),
                    rows |-> [m \in Minute |-> IF m \in ready THEN known[m] ELSE 0]]
      /\ poll' = [pc |-> "idle"]

Raises(b) == book' = b /\ poll' = [pc |-> "idle"] /\ UNCHANGED served

SubscribeFails(first) ==
    /\ poll.pc = "idle" /\ ~Drained.sub /\ ~feed.up
    /\ Raises(Drained.book)
    /\ stream' = [stream EXCEPT !.subscribed = FALSE, !.lost = Drained.lost]
    /\ unseen' = Heard(Drained)
    /\ inbox' = <<>>
    /\ UNCHANGED <<clock, tape, feed>>

\* A window starts in the past (the shortest begins on the day before).  Windows
\* move on with the clock, and back when the engine asks for more bars.
Asked(first) == first < clock

\* _spend_query: the day's queries have been used up.
Spent == stream.queries >= DailyBudget

\* The readers a poll begins with: a segment that has closed is ended.
Beginning(d) == {[s EXCEPT !.book = EndedBy(@, clock)] : s \in Subscriptions(d)}

Poll(first) ==
    /\ poll.pc = "idle" /\ (Drained.sub \/ feed.up) /\ Asked(first)
    /\ \E d \in Beginning(Drained), on \in Accepted(Drained) :
         LET seed  == \/ d.book.finalBefore = None \/ d.book.firstDay = None
                      \/ first < d.book.firstDay
             b     == IF seed THEN d.book ELSE SkipClosed(d.book)
             wait  == seed /\ d.book.seedRetry # None /\ clock < d.book.seedRetry
             due   == /\ HoldsGap(b) /\ b.coveredFrom # None /\ clock > b.coveredFrom
                      /\ b.lastRefill = None \/ clock >= b.lastRefill + QuerySpacing
             asks  == ~wait /\ (seed \/ due)
         IN /\ feed' = [feed EXCEPT !.on = on]
            /\ stream' = [subscribed |-> TRUE, lost |-> d.lost,
                          queries |-> IF asks /\ ~Spent THEN stream.queries + 1 ELSE stream.queries]
            /\ unseen' = Heard(d)
            /\ \/ (wait \/ (asks /\ Spent)) /\ Raises(b)
               \/ ~wait /\ ~asks /\ Serves(b, first, d.heard, d.blind, unseen.open)
               \/ /\ asks /\ ~Spent
                  /\ book' = IF seed THEN [b EXCEPT !.seedRetry = clock + QuerySpacing]
                             ELSE [b EXCEPT !.lastRefill = clock]
                  /\ poll' = [pc |-> "query", at |-> clock, first |-> first, seed |-> seed,
                              from |-> IF seed THEN first ELSE b.firstDay]
                  /\ UNCHANGED served
    /\ inbox' = <<>>
    /\ UNCHANGED <<clock, tape>>

\* An answer holds the trades up to some point: at least those of minutes that
\* closed a minute before the query.  It may run further behind where the stream
\* shows it, the case take_kbars tells apart, and be empty once the traffic cap
\* is spent; of any other lag the code cannot know.
Answer(k) == [m \in Minute |-> IF m < poll.from THEN 0 ELSE Counted(m, k)]
Whole(a)  == \A m \in Minute : poll.from <= m /\ m + 2 <= poll.at => a[m] = Lots(m)
Answers   == {a \in {Answer(k) : k \in 0 .. Len(tape)} :
                 \/ Whole(a)
                 \/ "behind" \in Events /\ RunsBehind(book, a, poll.at)
                 \/ "capped" \in Events /\ HoldsRows(book) /\ RowsOf(a) = {}}

Answered ==
    /\ poll.pc = "query"
    /\ \E answer \in Answers :
         LET b == TakeKbars(book, answer, poll.from, poll.at)
             r == IF poll.seed /\ b.firstDay = poll.from THEN [b EXCEPT !.seedRetry = None] ELSE b
             open == Lacking(book, answer, poll.from, poll.at, unseen.open)
         IN /\ unseen' = [unseen EXCEPT !.open = open]
            /\ IF r.finalBefore = None THEN Raises(r)
               ELSE Serves(SkipClosed(r), poll.first, unseen.heard, unseen.blind, open)
    /\ UNCHANGED <<clock, tape, feed, inbox, stream>>

QueryFails ==
    /\ poll.pc = "query" /\ Fault("queryFails")
    /\ Raises(book)
    /\ feed' = [feed EXCEPT !.faults = @ + 1]
    /\ UNCHANGED <<clock, tape, inbox, stream, unseen>>
-----------------------------------------------------------------------------
FreshBook ==
    [history |-> Nothing, minutes |-> Nothing, finalBefore |-> None, coveredFrom |-> None,
     firstDay |-> None, lastRefill |-> None, seedRetry |-> None, lastTotal |-> None,
     lastMinute |-> None, segment |-> None, ended |-> None]

Init ==
    /\ clock = 1 /\ inbox = <<>> /\ book = FreshBook
    /\ tape \in {<<>>} \cup {<<[minute |-> m, total |-> BaseTotal]>> : m \in Session \cap {0}}
    /\ \E r \in BOOLEAN :
         feed = [up |-> TRUE, on |-> FALSE, told |-> TRUE, faults |-> 0, restarts |-> r,
                 last |-> [kind |-> "none"]]
    /\ stream = [subscribed |-> FALSE, lost |-> FALSE, queries |-> 0]
    /\ poll = [pc |-> "idle"]
    /\ served = [minutes |-> {}, rows |-> Nothing, excused |-> {}, unreached |-> {}]
    /\ unseen = [trades |-> {}, heard |-> 0, blind |-> {}, open |-> {}]

Next ==
    \/ Trade \/ Redeliver \/ Disconnect \/ TellLoss \/ Reconnect \/ Tick
    \/ \E first \in FirstDays : Poll(first) \/ SubscribeFails(first)
    \/ Answered \/ QueryFails

Spec == Init /\ [][Next]_vars
-----------------------------------------------------------------------------
\* Every variable stays within its type; the inbox of
\* prints that wait for the reader never passes its bound.
TypeOK ==
    /\ clock \in Minute /\ Len(tape) <= MaxTrades
    /\ tape \in Seq([minute : Session, total : Nat])
    /\ book.history \in Volumes /\ book.minutes \in [Minute -> Nat]
    /\ book.finalBefore \in 0 .. LastMinute + 2 \cup {None} /\ Len(inbox) <= InboxSize
    /\ served.minutes \subseteq Minute /\ served.rows \in [Minute -> Nat]

\* A minute served as complete holds every trade of it, none of them twice,
\* however ticks are lost, repeated, dropped from the inbox or answered late and
\* whatever window was asked for before.  A trade lost without a sign may be
\* missing: no later tick and no news of a lost connection has been read yet (the
\* limit the module's docstring names), or no tick of the subscription, or of a
\* count that began anew, came before it.  And so may a minute that no answer
\* reached: the code serves a window that moved back although the answer for it
\* came back empty or ran behind (shioaji_stream.py:275-283, 304-316, 326-348).
ServedComplete ==
    \A m \in served.minutes :
        /\ served.rows[m] <= Lots(m)
        /\ served.rows[m] = Lots(m) \/ m \in served.excused \cup served.unreached

\* A minute once served as complete is revised upwards only, whether the window
\* moves on, moves back or stays, unless no answer for the window reached it.
NeverShrinks ==
    [][\A m \in served.minutes \cap served'.minutes :
          served.rows[m] <= served'.rows[m] \/ m \in served'.unreached]_vars
=============================================================================
