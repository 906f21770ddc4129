------------------------------- MODULE BarFeed -------------------------------
(***************************************************************************)
(* The completed bars a simulated run works on (live/engine.py): what the  *)
(* source has released, the rolling cache of each symbol, and the requests *)
(* that fill it.  A bar is its number; bar b starts at tick 2b and closes  *)
(* at tick 2b + 2.  A source serves, by count, the newest of the bars      *)
(* between the oldest it keeps and the last it released.                   *)
(***************************************************************************)
EXTENDS RunState

CONSTANTS FeedBars,     \* bound: the feed's last bar
          Warmup,       \* warmup_periods
          Attempts,     \* WARMUP_MAX_FETCH_ATTEMPTS
          MaxInterval,  \* WARMUP_REPROBE_MAX_INTERVAL_POLLS
          Tolerance,    \* STALE_DATA_TOLERANCE_BARS
          Forming,      \* 1 when an adapter counts the forming bar it drops
          FirstBars     \* the oldest bars a source may keep at the start

ASSUME FeedAssumption ==
    /\ Warmup \in Nat \ {0} /\ Attempts \in Nat \ {0} /\ MaxInterval \in Nat
    /\ Tolerance \in Nat /\ Forming \in {0, 1} /\ FirstBars \subseteq Nat
    /\ FeedBars \in Nat

VARIABLES now,      \* the clock, in ticks
          start,    \* the oldest bar each source keeps
          released, \* the last bar each source has released
          cache,    \* the bars each symbol's rolling cache holds
          asked,    \* the warm-up rung asked for last, 0 before the first
          backoff,  \* <<polls left, interval>> between re-probes
          backlog,  \* symbols whose replay outgrew what the cache may hold
          mark      \* the last bar each symbol has been decided on

feedVars == <<now, start, released, cache, asked, backoff, backlog, mark>>

None == -1
NoBackoff == <<0, 0>>
Closes(b) == 2 * b + 2
Latest(bs) == IF bs = {} THEN None ELSE Max(bs)
Newest(n, bs) == {b \in bs : Cardinality({c \in bs : c >= b}) <= n}

InitFeed ==
    /\ now = Closes(Warmup - 1)
    /\ start \in [Symbols -> FirstBars]
    /\ released = [s \in Symbols |-> Warmup - 1]
    /\ cache = [s \in Symbols |-> {}]
    /\ asked = [s \in Symbols |-> 0]
    /\ backoff = [s \in Symbols |-> NoBackoff]
    /\ backlog = {}
    /\ mark = [s \in Symbols |-> None]

(***************************************************************************)
(* The source.                                                             *)
(***************************************************************************)
Served(s) == start[s]..released[s]
Answer(s, n) == Newest(n - Forming, Served(s))

\* As time passes a source releases the bars that closed, some at once and some
\* late, and it may fill in older history.
Closed(t) == Lesser((t \div 2) - 1, FeedBars)
Releases ==
    /\ now < Closes(FeedBars) + 1
    /\ now' = now + 1
    /\ \E upto \in [Symbols -> 0..FeedBars] :
          /\ \A s \in Symbols : upto[s] \in released[s]..Closed(now + 1)
          /\ released' = upto
    /\ UNCHANGED <<start, cache, asked, backoff, backlog, mark>>
Backfill(s) ==
    /\ start[s] > 0 /\ mark[s] = None
    /\ start' = [start EXCEPT ![s] = @ - 1]
    /\ UNCHANGED <<now, released, cache, asked, backoff, backlog, mark>>

(***************************************************************************)
(* Why a symbol cannot evaluate its next bar yet: it has too few bars, or  *)
(* the first bar to replay has too few before it.                          *)
(***************************************************************************)
Waiting(s, bs) == IF mark[s] = None THEN {} ELSE {b \in bs : b > mark[s]}
Gap(s, bs) ==
    \/ Cardinality(bs) < Warmup
    \/ /\ Waiting(s, bs) # {}
       /\ Cardinality(bs \ Waiting(s, bs)) < Warmup - 1

\* The cache a fetch leaves: all of what is still to be replayed, up to the
\* most a run replays, otherwise the warm-up window.
Largest == (Warmup + 1) * 2^(Attempts - 1)
Overflows(s, bs) == Waiting(s, bs) # {} /\ Cardinality(bs) > Largest
Stored(s, bs) == IF Overflows(s, bs) THEN cache[s]
                 ELSE IF Waiting(s, bs) # {} THEN bs
                 ELSE Newest(Warmup, bs)

Stale(s, bs) == now > Closes(Latest(bs) + 1) + 2 * Tolerance

(***************************************************************************)
(* One symbol's requests in a poll.  "first" and "later" say which of them *)
(* fails.  A fetch is [ok, bars, asked, backoff].                          *)
(***************************************************************************)
\* The newest bars, asked for in a widening request until they reach the
\* cached head; a poll of a ready cache stops once the source runs short.
Limits == {n \in 1..Largest : n = Largest \/ \E k \in 0..n : n = 3 * 2^k}
\* Faulty variant: a disjoint answer is merged too.
AnyAnswer(recent, head) == TRUE
Reaches(recent, head) == head = None \/ recent = {} \/ Min(recent) <= head
BackTo(s, head, stopWhenShort) ==
    LET stops(n) == \/ Reaches(Answer(s, n), head)
                    \/ stopWhenShort /\ Cardinality(Answer(s, n)) < n - 1
                    \/ n = Largest
    IN Answer(s, Min({n \in Limits : stops(n)}))

\* A bar is identified by its time, so a version that revises one merges with
\* it.
Merged(s, rows) == cache[s] \union rows

Older(before, after) ==
    after # {} /\ (before = {} \/ Min(after) < Min(before))

FailsAt(s, rung, off) ==
    [ok |-> FALSE, bars |-> cache[s], asked |-> rung, backoff |-> off]

\* Warm-up asks for doubling histories; one that the largest does not extend
\* is exhausted and backs off.
Ladder(s, fails) ==
    LET first  == IF asked[s] = Attempts THEN Attempts ELSE 1
        upto(k) == IF k < first THEN cache[s]
                   ELSE Merged(s, Answer(s, (Warmup + 1) * 2^(k - 1)))
        enough == {k \in first..Attempts : ~Gap(s, upto(k))}
        last   == IF enough = {} THEN Attempts ELSE Min(enough)
        plateau == enough = {} /\ ~Older(upto(Attempts - 1), upto(Attempts))
    IN CASE fails = "first" -> FailsAt(s, first, NoBackoff)
         [] fails = "later" /\ last > first ->
               [FailsAt(s, first + 1, NoBackoff) EXCEPT !.bars = upto(first)]
         [] OTHER -> [ok |-> TRUE, bars |-> upto(last), asked |-> last,
                      backoff |-> IF plateau THEN <<2, 2>> ELSE NoBackoff]

\* Between re-probes only newly closed bars are fetched, and merged if they
\* bridge to the head or fill the window alone.
Reprobe(s, fails) ==
    LET head     == Latest(cache[s])
        recent   == BackTo(s, head, FALSE)
        bridged  == IF Reaches(recent, head) \/ Cardinality(recent) >= Warmup
                    THEN Merged(s, recent) ELSE cache[s]
        walked   == bridged \union Answer(s, Largest)
        interval == Lesser(2 * backoff[s][2], MaxInterval)
        got(ok, bs, off) == [ok |-> ok, bars |-> bs, asked |-> asked[s],
                             backoff |-> off]
    IN CASE fails = "first" -> FailsAt(s, asked[s], backoff[s])
         [] fails # "first" /\ ~Gap(s, bridged) -> got(TRUE, bridged, NoBackoff)
         [] fails # "first" /\ Gap(s, bridged) /\ backoff[s][1] > 1 ->
               got(TRUE, bridged, <<backoff[s][1] - 1, backoff[s][2]>>)
         [] fails = "later" /\ Gap(s, bridged) /\ backoff[s][1] = 1 ->
               got(FALSE, bridged, <<interval, interval>>)
         [] OTHER ->
               got(TRUE, walked, IF ~Gap(s, walked) THEN NoBackoff
                                 ELSE IF Older(bridged, walked) THEN <<1, 1>>
                                 ELSE <<interval, interval>>)

Steady(s, fails) ==
    IF fails = "first" THEN FailsAt(s, asked[s], NoBackoff)
    ELSE [ok |-> TRUE, asked |-> asked[s], backoff |-> NoBackoff,
          bars |-> Merged(s, BackTo(s, Latest(cache[s]), TRUE))]

Fetch(s, fails) ==
    IF s \in backlog THEN FailsAt(s, asked[s], backoff[s])
    ELSE IF ~Gap(s, cache[s]) THEN Steady(s, fails)
    ELSE IF backoff[s] # NoBackoff THEN Reprobe(s, fails)
    ELSE Ladder(s, fails)
=============================================================================
