------------------------ MODULE SimulatedRunsProofs ------------------------
(***************************************************************************)
(* Theorems about the three kinds of run, for every book, list of intents, *)
(* target, feed and policy: a backtest, a simulated run on a feed and a    *)
(* live run keep a sound book within the liquidity of each bar, and a halt *)
(* only reduces.                                                           *)
(***************************************************************************)
EXTENDS ShadowRunProofs

(***************************************************************************)
(* The runs: what each keeps between two steps.                            *)
(***************************************************************************)
\* A day limit that rested is in its session on bar b.
InSession(f, b) ==
    (f.tif = "day" /\ f.limit /\ f.since # -1) => Session(b) = Session(f.since)
\* The fills of bar b, and those before the end of the run closes what is open.
FillsAt(b) == {f \in Fills : InSession(f, b)}
OpenFills(b) == {f \in FillsAt(b) : f.tif # "force_close"}
Pendings == [intents: Seq(Intents),
             target: Targets \union ShadowTargets \union {NoTarget}, at: Stamps]

\* The book of a run, as it stands (Snapshot) or as it was checkpointed.
BookOK(sn) ==
    /\ sn.cash \in Int /\ sn.pos \in [Symbols -> Positions] /\ Sound(sn)
    /\ sn.halted \in BOOLEAN
    /\ ~sn.halted => Gross(sn.pos) <= MaxGross
    /\ sn.pending \in Pendings
    /\ sn.bar \in Stamps /\ sn.fills \in Seq(FillsAt(sn.bar))

\* A backtest.  What the bar allowed was not passed, what is left of a target
\* aims at no symbol that owes an exit.
Within(fs, bs, s) == Traded([fills |-> fs], s) <= bs[s].room
BacktestInv ==
    /\ BookOK(Snapshot)
    /\ phase \in {"execute", "decide", "failed", "finished"}
    /\ bars \in Cohorts
    /\ frontier \in Stamps /\ delay \in 0..MaxDelay
    /\ rebal # NoRebalance => /\ rebal \in Residuals
                              /\ Targeted(rebal) # {} /\ Free(rebal, pos)
    /\ phase # "finished" => fills \in Seq(OpenFills(bar))
    /\ phase = "decide" => \A s \in DOMAIN bars : Within(fills, bars, s)
    /\ phase = "finished" =>
          \A s \in DOMAIN bars :
             \/ Within(fills, bars, s)
             \/ \A k \in DOMAIN fills : /\ fills[k].sym = s
                                        => fills[k].tif # "force_close"

\* A simulated run on a feed.  What a symbol traded, it traded on the last bar
\* executed, within that bar's budget.
Absorbed(sn) ==
    \A s \in Symbols :
       \/ Traded(sn, s) = 0
       \/ /\ sn.bar \in 0..FeedBars /\ sn.execMark[s] = sn.bar
          /\ Traded(sn, s) <= ShapeOf(s, sn.bar).room
SnapshotOK(sn) ==
    /\ BookOK(sn)
    /\ sn.fills \in Seq(OpenFills(sn.bar))
    /\ sn.mark \in [Symbols -> Stamps] /\ sn.execMark \in [Symbols -> Stamps]
    /\ sn.lastCycle \in Stamps
    /\ \A s \in Symbols : /\ sn.mark[s] <= sn.execMark[s]
                          /\ sn.execMark[s] <= released[s]
    /\ Absorbed(sn)
SavedShape ==
    saved = [cash |-> saved.cash, pos |-> saved.pos, halted |-> saved.halted,
             pending |-> saved.pending, bar |-> saved.bar, fills |-> saved.fills,
             mark |-> saved.mark, execMark |-> saved.execMark,
             lastCycle |-> saved.lastCycle]
ShadowInv ==
    /\ SnapshotOK(Snapshot) /\ SnapshotOK(saved) /\ SavedShape
    /\ phase \in {"idle", "execute", "decide", "mark"}
    /\ due \subseteq (0..FeedBars) \X Symbols
    /\ phase \in {"decide", "mark"} => \A s \in Present : execMark[s] = Event
    /\ phase = "decide" => bars = Cohort

\* The variables of the modes that do not run.
FeedAtRest ==
    \A s \in Symbols : /\ cache[s] = {} /\ mark[s] = -1 /\ execMark[s] = -1
                       /\ released[s] \in Nat
NoResidual == rebal = NoRebalance /\ delay = 0

LEMMA MoreBooks ==
    ASSUME NEW O, NEW U, O \subseteq U
    PROVE  Books(O) \subseteq Books(U)
<1>1. ASSUME NEW x \in Books(O)
      PROVE  x \in Books(U)
    <2>1. x.fills \in Seq(U)
        BY DEF Books
    <2>2. x = [cash |-> x.cash, pos |-> x.pos, fills |-> x.fills, resting |-> x.resting]
        BY DEF Books
    <2>3. x.cash \in Int /\ x.pos \in [Symbols -> Positions] /\ x.resting \in Seq(Intents)
        BY DEF Books
    <2> QED BY <2>1, <2>2, <2>3 DEF Books
<1> QED BY <1>1

LEMMA FillsOfBar ==
    ASSUME NEW b
    PROVE  /\ FillsAt(b) \in SUBSET Fills /\ OpenFills(b) \in SUBSET Fills
           /\ OpenFills(b) \subseteq FillsAt(b)
           /\ Neutral(OpenFills(b))
           /\ \A f \in Fills : (~f.limit /\ f.tif = "force_close") => f \in FillsAt(b)
BY DEF FillsAt, OpenFills, Neutral, InSession

LEMMA SameTraded ==
    ASSUME NEW x, NEW y, x.fills = y.fills, NEW s
    PROVE  Traded(x, s) = Traded(y, s)
BY DEF Traded

LEMMA NewBook ==
    ASSUME NEW b \in Stamps, NEW y \in Books(FillsAt(b)), Sound(y),
           cash' = y.cash, pos' = y.pos, fills' = y.fills, bar' = b,
           halted' \in BOOLEAN, ~halted' => Gross(y.pos) <= MaxGross,
           pending' \in Pendings
    PROVE  BookOK(Snapshot)'
<1>1. y.cash \in Int /\ y.pos \in [Symbols -> Positions] /\ y.fills \in Seq(FillsAt(b))
    BY DEF Books
<1>2. /\ Snapshot'.cash = y.cash /\ Snapshot'.pos = y.pos /\ Snapshot'.fills = y.fills
      /\ Snapshot'.bar = b /\ Snapshot'.halted = halted' /\ Snapshot'.pending = pending'
    BY DEF Snapshot
<1>3. Sound(Snapshot')
    BY <1>2 DEF Sound
<1> QED BY <1>1, <1>2, <1>3 DEF BookOK

LEMMA BookFields ==
    ASSUME BookOK(Snapshot)
    PROVE  /\ cash \in Int /\ pos \in [Symbols -> Positions]
           /\ halted \in BOOLEAN /\ (~halted => Gross(pos) <= MaxGross)
           /\ pending \in Pendings /\ bar \in Stamps /\ fills \in Seq(FillsAt(bar))
BY DEF BookOK, Snapshot

LEMMA WorkingBook ==
    ASSUME BookOK(Snapshot), NEW O
    PROVE  /\ Working \in Books(O) /\ Sound(Working)
           /\ Working.pos = pos /\ Working.fills = <<>> /\ Working.cash = cash
<1>1. <<>> \in Seq(O) /\ <<>> \in Seq(Intents)
    OBVIOUS
<1>2. Snapshot.cash = cash /\ Snapshot.pos = pos
    BY DEF Snapshot
<1>3. Sound(Snapshot)
    BY DEF BookOK
<1> QED BY <1>1, <1>2, <1>3, BookFields DEF Working, Books, Sound

\* What executes on a bar from an empty list of fills stays in its budget.
LEMMA FreshBudget ==
    ASSUME NEW O \in SUBSET Fills, NEW x \in Books(O), NEW bars0 \in Cohorts,
           NEW y \in Books(O), Fits(x, y, bars0), x.fills = <<>>
    PROVE  \A s \in DOMAIN bars0 : Within(y.fills, bars0, s)
<1>1. ASSUME NEW s \in DOMAIN bars0
      PROVE  Within(y.fills, bars0, s)
    <2>1. s \in Symbols /\ bars0[s].room \in Nat
        BY CohortBar DEF BarShapes
    <2>2. Traded(x, s) = 0
        BY TradedNone
    <2>3. Traded(y, s) <= bars0[s].room
        BY <2>1, <2>2 DEF Fits, Liquid
    <2>4. Traded([fills |-> y.fills], s) = Traded(y, s)
        BY SameTraded
    <2> QED BY <2>3, <2>4 DEF Within
<1> QED BY <1>1

(***************************************************************************)
(* Pending decisions.                                                      *)
(***************************************************************************)
LEMMA UnexpiredAllowed ==
    ASSUME NEW b, NEW bars0, NEW U \in SUBSET Intents,
           \A i \in U : ~Expired(i, b, DOMAIN bars0)
    PROVE  Allowed(U, bars0, OpenFills(b))
<1>1. ASSUME NEW i \in U
      PROVE  IsOrder(i) /\ MayFill(i, bars0, OpenFills(b))
    <2>1. IsOrder(i) /\ i.tif # "force_close"
        BY IntentIsOrder DEF Intents, Resting
    <2>2. ASSUME NEW kind \in Kinds, NEW n \in Nat, i.sym \in DOMAIN bars0
          PROVE  Fill(i, kind, n) \in OpenFills(b)
        <3> DEFINE f == Fill(i, kind, n)
        <3>1. f \in Fills
            BY <2>1, FillType
        <3>2. f.tif = i.tif /\ f.limit = i.limit /\ f.since = i.since
            BY DEF Fill
        <3>3. ~Expired(i, b, DOMAIN bars0)
            OBVIOUS
        <3> HIDE DEF f
        <3>4. InSession(f, b)
            BY <2>2, <3>2, <3>3 DEF InSession, Expired
        <3> QED BY <2>1, <3>1, <3>2, <3>4 DEF OpenFills, FillsAt, f
    <2> QED BY <2>1, <2>2 DEF MayFill
<1> QED BY <1>1 DEF Allowed

LEMMA UnexpiredSeq ==
    ASSUME NEW intents \in Seq(Intents), NEW b, NEW bars0, NEW S
    PROVE  LET live == Unexpired(intents, b, DOMAIN bars0)
           IN  /\ live \in Seq(Intents)
               /\ \E U \in SUBSET Intents :
                     /\ Allowed(U, bars0, OpenFills(b))
                     /\ Kept(live, S) \in Seq(U) /\ Kept(live, S) \in Seq(Intents)
<1> DEFINE live == Unexpired(intents, b, DOMAIN bars0)
<1> DEFINE V == {i \in Range(intents) : ~Expired(i, b, DOMAIN bars0)}
<1> DEFINE U == Intents \cap V
<1>1. live \in Seq(U)
    BY KeptSeq DEF Unexpired
<1>2. U \in SUBSET Intents /\ \A i \in U : ~Expired(i, b, DOMAIN bars0)
    OBVIOUS
<1> HIDE DEF live, U
<1>3. Kept(live, S) \in Seq(U \cap S)
    BY <1>1, KeptSeq
<1>4. Allowed(U, bars0, OpenFills(b))
    BY <1>2, UnexpiredAllowed
<1>5. Kept(live, S) \in Seq(U) /\ Kept(live, S) \in Seq(Intents) /\ live \in Seq(Intents)
    BY <1>1, <1>2, <1>3
<1> QED BY <1>2, <1>4, <1>5 DEF live

LEMMA RestedSeq ==
    ASSUME NEW resting \in Seq(Intents), NEW b \in Nat
    PROVE  StillResting(resting, b) \in Seq(Intents)
<1>1. ASSUME NEW i \in Intents
      PROVE  Rested(i, b) \in Intents
    <2>1. [i EXCEPT !.since = b] \in Intents
        BY DEF Intents
    <2> QED BY <2>1 DEF Rested
<1>2. \A k \in DOMAIN resting : resting[k] \in Intents
    OBVIOUS
<1>3. \A k \in DOMAIN resting : Rested(resting[k], b) \in Intents
    BY <1>1, <1>2
<1>4. DOMAIN resting = 1..Len(resting) /\ Len(resting) \in Nat
    OBVIOUS
<1> QED BY <1>3, <1>4 DEF StillResting

LEMMA EmittedSeq ==
    ASSUME NEW intents \in Seq(Intents), NEW at \in Stamps
    PROVE  Emitted(intents, at) \in Seq(Intents)
<1>1. ASSUME NEW i \in Intents
      PROVE  [i EXCEPT !.at = at] \in Intents
    BY DEF Intents, Stamps
<1>2. \A k \in DOMAIN intents : [intents[k] EXCEPT !.at = at] \in Intents
    BY <1>1
<1>3. DOMAIN intents = 1..Len(intents) /\ Len(intents) \in Nat
    OBVIOUS
<1> QED BY <1>2, <1>3 DEF Emitted

LEMMA ReplacedSeq ==
    ASSUME NEW intents \in Seq(Intents), NEW syms
    PROVE  Replaced(intents, syms) \in Seq(Intents)
<1>1. Replaced(intents, syms)
         \in Seq(Intents \cap {i \in Range(intents) : ~Replaceable(i, syms)})
    BY KeptSeq DEF Replaced
<1> QED BY <1>1

LEMMA PendingSeq ==
    ASSUME NEW d \in Pendings
    PROVE  /\ d.intents \in Seq(Intents) /\ d.at \in Stamps
           /\ d.target # NoTarget => d.target \in [Symbols -> Int]
           /\ \A q \in Seq(Intents) : [d EXCEPT !.intents = q] \in Pendings
           /\ [d EXCEPT !.target = NoTarget, !.at = -1] \in Pendings
           /\ Nothing \in Pendings
<1>1. d.target \in Targets \union ShadowTargets \union {NoTarget}
    BY DEF Pendings
<1>2. d.target # NoTarget => d.target \in [Symbols -> Int]
    BY <1>1, RunAssumption, ShadowAssumption
<1>3. \A q \in Seq(Intents) : [d EXCEPT !.intents = q] \in Pendings
    BY DEF Pendings
<1>4. [d EXCEPT !.target = NoTarget, !.at = -1] \in Pendings
    BY DEF Pendings, Stamps
<1>5. Nothing \in Pendings
    <2>1. <<>> \in Seq(Intents) /\ -1 \in Stamps
        BY DEF Stamps
    <2> QED BY <2>1 DEF Nothing, Pendings
<1> QED BY <1>2, <1>3, <1>4, <1>5 DEF Pendings

(***************************************************************************)
(* The backtest: one bar.                                                  *)
(***************************************************************************)
\* No position grows.
Shrunk == \A s \in Symbols : Magnitude(pos'[s].qty) <= Magnitude(pos[s].qty)
\* What bar b, with its cohort, leaves.
BarDone(b, bars0) ==
    /\ BookOK(Snapshot)'
    /\ phase' \in {"decide", "failed"}
    /\ fills' \in Seq(OpenFills(b))
    /\ phase' = "decide" => \A s \in DOMAIN bars0 : Within(fills', bars0, s)
    /\ delay' \in 0..MaxDelay
    /\ rebal' # NoRebalance => /\ rebal' \in Residuals
                               /\ Targeted(rebal') # {} /\ Free(rebal', pos')
    /\ halted => Shrunk

LEMMA BookTaken ==
    ASSUME BookOK(Snapshot), NEW b \in Nat, NEW bars0 \in Cohorts,
           NEW y \in Books(OpenFills(b)), Fits(Working, y, bars0),
           ~halted => Gross(y.pos) <= MaxGross,
           cash' = y.cash, pos' = y.pos, fills' = y.fills, bar' = b,
           halted' = halted, pending' \in Pendings
    PROVE  /\ BookOK(Snapshot)'
           /\ fills' \in Seq(OpenFills(b))
           /\ \A s \in DOMAIN bars0 : Within(fills', bars0, s)
<1>1. /\ Working \in Books(OpenFills(b)) /\ Sound(Working) /\ Working.fills = <<>>
      /\ halted \in BOOLEAN
    BY WorkingBook, BookFields
<1>2. Sound(y) /\ y \in Books(FillsAt(b)) /\ b \in Stamps
    BY <1>1, FillsOfBar, MoreBooks DEF Fits, Stamps
<1>3. BookOK(Snapshot)'
    BY <1>1, <1>2, NewBook
<1>4. y.fills \in Seq(OpenFills(b))
    BY DEF Books
<1>5. \A s \in DOMAIN bars0 : Within(y.fills, bars0, s)
    BY <1>1, FillsOfBar, FreshBudget
<1> QED BY <1>3, <1>4, <1>5

LEMMA StopsOnlyFit ==
    ASSUME BookOK(Snapshot), NEW b \in Nat, NEW bars0 \in Cohorts, NEW eligible
    PROVE  LET r == StopsOnly(bars0, eligible)
           IN  /\ r.x \in Books(OpenFills(b)) /\ Fits(Working, r.x, bars0)
               /\ Shrinks(Working, r.x) /\ r.left = NoRebalance
               /\ ~halted => Gross(r.x.pos) <= MaxGross
<1> DEFINE y == CheckStops(Working, bars0, Held(pos) \cap eligible)
<1>1. Working \in Books(OpenFills(b)) /\ Working.pos = pos
    BY WorkingBook
<1>2. y \in Books(OpenFills(b)) /\ Fits(Working, y, bars0) /\ Shrinks(Working, y)
    BY <1>1, FillsOfBar, StopsFit
<1>3. StopsOnly(bars0, eligible).x = y /\ StopsOnly(bars0, eligible).left = NoRebalance
    BY DEF StopsOnly
<1> HIDE DEF y
<1>4. ~halted => Gross(y.pos) <= MaxGross
    BY <1>1, <1>2, ShrunkGross, BookFields, BookAssumption
<1> QED BY <1>2, <1>3, <1>4

LEMMA ShrinksPos ==
    ASSUME NEW y, Shrinks(Working, y), pos' = y.pos
    PROVE  Shrunk
BY DEF Shrinks, Shrunk, Working

LEMMA FailedBar ==
    ASSUME BacktestInv, NEW b \in Nat, NEW bars0 \in Cohorts, Failed,
           bar' = b, halted' = halted
    PROVE  BarDone(b, bars0)
<1>1. BookOK(Snapshot) /\ delay \in 0..MaxDelay
    BY DEF BacktestInv
<1>2. /\ Working \in Books(OpenFills(b)) /\ Working.cash = cash
      /\ Working.pos = pos /\ Working.fills = <<>>
    BY <1>1, WorkingBook
<1>3. /\ phase' = "failed" /\ fills' = <<>>
      /\ UNCHANGED <<cash, pos, pending, rebal, delay>>
    BY DEF Failed
<1>4. Fits(Working, Working, bars0) /\ Shrinks(Working, Working)
    BY <1>2, FitsItself, ShrinksItself
<1>5. pending \in Pendings /\ (~halted => Gross(pos) <= MaxGross)
    BY <1>1, BookFields
<1>6. BookOK(Snapshot)' /\ fills' \in Seq(OpenFills(b))
    BY <1>1, <1>2, <1>3, <1>4, <1>5, BookTaken
<1>7. Shrunk
    BY <1>2, <1>3, <1>4, ShrinksPos
<1>8. rebal # NoRebalance => /\ rebal \in Residuals
                             /\ Targeted(rebal) # {} /\ Free(rebal, pos)
    BY DEF BacktestInv
<1> QED BY <1>1, <1>3, <1>6, <1>7, <1>8 DEF BarDone

\* A result that the bar accepts.
LEMMA BookedBar ==
    ASSUME BacktestInv, NEW b \in Nat, NEW bars0 \in Cohorts,
           NEW r, r.x \in Books(OpenFills(b)), Fits(Working, r.x, bars0),
           ~halted => Gross(r.x.pos) <= MaxGross,
           halted => Shrinks(Working, r.x),
           r.left # NoRebalance => /\ r.left \in Residuals
                                   /\ Targeted(r.left) # {} /\ Free(r.left, r.x.pos),
           Book(r), bar' = b, halted' = halted, pending' \in Pendings,
           delay' \in 0..MaxDelay, phase' = "decide"
    PROVE  BarDone(b, bars0)
<1>1. BookOK(Snapshot)
    BY DEF BacktestInv
<1>2. cash' = r.x.cash /\ pos' = r.x.pos /\ fills' = r.x.fills /\ rebal' = r.left
    BY DEF Book
<1>3. /\ BookOK(Snapshot)' /\ fills' \in Seq(OpenFills(b))
      /\ \A s \in DOMAIN bars0 : Within(fills', bars0, s)
    <2> DEFINE y == r.x
    <2>1. /\ y \in Books(OpenFills(b)) /\ Fits(Working, y, bars0)
          /\ ~halted => Gross(y.pos) <= MaxGross
          /\ cash' = y.cash /\ pos' = y.pos /\ fills' = y.fills
        BY <1>2
    <2> HIDE DEF y
    <2> QED BY <1>1, <2>1, BookTaken
<1>4. halted => Shrunk
    BY <1>2, ShrinksPos
<1> QED BY <1>2, <1>3, <1>4 DEF BarDone

LEMMA BoundedBook ==
    ASSUME BookOK(Snapshot), ~halted, NEW O, NEW y \in Books(O), Bounded(Working, y)
    PROVE  Gross(y.pos) <= MaxGross
<1>1. /\ Working.pos = pos /\ Gross(pos) <= MaxGross /\ pos \in [Symbols -> Positions]
      /\ y.pos \in [Symbols -> Positions]
    BY WorkingBook, BookFields DEF Books
<1>2. Gross(pos) \in Int /\ Gross(y.pos) \in Int /\ MaxGross \in Int
    BY <1>1, GrossInt, BookAssumption
<1> QED BY <1>1, <1>2 DEF Bounded

LEMMA HaltedStep ==
    ASSUME BacktestInv, NEW b \in Nat, NEW bars0 \in Cohorts, HaltedBar(b, bars0),
           bar' = b, halted' = halted
    PROVE  BarDone(b, bars0)
<1>1. BookOK(Snapshot) /\ delay \in 0..MaxDelay
    BY DEF BacktestInv
<1> DEFINE r == StopsOnly(bars0, {s \in Symbols : b > origins[s]})
<1>2. Book(r) /\ pending' = Nothing /\ phase' = "decide" /\ delay' = delay
    BY DEF HaltedBar
<1>3. /\ r.x \in Books(OpenFills(b)) /\ Fits(Working, r.x, bars0)
      /\ Shrinks(Working, r.x) /\ r.left = NoRebalance
      /\ ~halted => Gross(r.x.pos) <= MaxGross
    BY <1>1, StopsOnlyFit
<1>4. pending' \in Pendings
    BY <1>1, <1>2, BookFields, PendingSeq
<1> HIDE DEF r
<1> QED BY <1>1, <1>2, <1>3, <1>4, BookedBar

LEMMA IntentStep ==
    ASSUME BacktestInv, NEW b \in Nat, NEW bars0 \in Cohorts, IntentBar(b, bars0),
           bar' = b, halted' = halted
    PROVE  BarDone(b, bars0)
<1> DEFINE present == DOMAIN bars0
<1> DEFINE r == ExecuteBarOfIntents(Working, bars0, ReadyIntents(b, present), Symbols)
<1>1. BookOK(Snapshot) /\ delay \in 0..MaxDelay /\ ~halted
    BY DEF BacktestInv, IntentBar
<1>2. pending \in Pendings /\ pending.intents \in Seq(Intents)
    BY <1>1, BookFields, PendingSeq
<1>3. Working \in Books(OpenFills(b))
    BY <1>1, WorkingBook
<1>4. BarResult(OpenFills(b), Working, bars0, r)
    <2>1. PICK U \in SUBSET Intents :
             Allowed(U, bars0, OpenFills(b)) /\ ReadyIntents(b, present) \in Seq(U)
        BY <1>2, UnexpiredSeq DEF ReadyIntents
    <2> QED BY <1>3, <2>1, FillsOfBar, BarOfIntents
<1>5. WaitingIntents(b, present) \in Seq(Intents)
    BY <1>2, UnexpiredSeq DEF WaitingIntents
<1>6. \/ /\ r.out = "ok" /\ Book(r) /\ phase' = "decide" /\ delay' = delay
         /\ pending' = [pending EXCEPT !.intents = StillResting(r.x.resting, b)
                                                    \o WaitingIntents(b, present)]
      \/ Failed
    BY DEF IntentBar
<1> HIDE DEF r, present
<1>7. CASE Failed
    BY <1>7, FailedBar
<1>8. CASE /\ r.out = "ok" /\ Book(r) /\ phase' = "decide" /\ delay' = delay
           /\ pending' = [pending EXCEPT !.intents = StillResting(r.x.resting, b)
                                                      \o WaitingIntents(b, present)]
    <2>1. /\ r.x \in Books(OpenFills(b)) /\ Fits(Working, r.x, bars0)
          /\ Bounded(Working, r.x)
          /\ r.left # NoRebalance => /\ r.left \in Residuals
                                     /\ Targeted(r.left) # {} /\ Free(r.left, r.x.pos)
        BY <1>4, <1>8 DEF BarResult
    <2>2. r.x.resting \in Seq(Intents)
        BY <2>1 DEF Books
    <2>3. StillResting(r.x.resting, b) \o WaitingIntents(b, present) \in Seq(Intents)
        <3> DEFINE rested == StillResting(r.x.resting, b)
        <3> DEFINE waits == WaitingIntents(b, present)
        <3>1. rested \in Seq(Intents) /\ waits \in Seq(Intents)
            BY <1>5, <2>2, RestedSeq
        <3> HIDE DEF rested, waits
        <3>2. rested \o waits \in Seq(Intents)
            BY <3>1
        <3> QED BY <3>2 DEF rested, waits
    <2>4. pending' \in Pendings
        BY <1>2, <1>8, <2>3, PendingSeq
    <2>5. Gross(r.x.pos) <= MaxGross
        BY <1>1, <2>1, BoundedBook
    <2> QED BY <1>1, <1>8, <2>1, <2>4, <2>5, BookedBar
<1> QED BY <1>6, <1>7, <1>8

LEMMA ProgressStep ==
    ASSUME BacktestInv, NEW b \in Nat, NEW bars0 \in Cohorts, ~halted,
           NEW r, BarResult(OpenFills(b), Working, bars0, r), Acceptable(r),
           NEW target, Progress(r, target), bar' = b, halted' = halted
    PROVE  BarDone(b, bars0)
<1>1. BookOK(Snapshot) /\ delay \in 0..MaxDelay /\ MaxDelay \in Nat
    BY BacktestAssumption DEF BacktestInv
<1>2. /\ r.out = "ok" /\ Book(r) /\ phase' = "decide"
      /\ pending' = [pending EXCEPT !.target = NoTarget, !.at = -1]
      /\ delay' = IF r.left = NoRebalance THEN 0 ELSE delay + 1
      /\ r.left = NoRebalance \/ delay < MaxDelay
    BY DEF Acceptable, Progress
<1>3. /\ r.x \in Books(OpenFills(b)) /\ Fits(Working, r.x, bars0)
      /\ Bounded(Working, r.x)
      /\ r.left # NoRebalance => /\ r.left \in Residuals
                                 /\ Targeted(r.left) # {} /\ Free(r.left, r.x.pos)
    BY <1>2 DEF BarResult
<1>4. pending' \in Pendings
    BY <1>1, <1>2, BookFields, PendingSeq
<1>5. delay' \in 0..MaxDelay
    BY <1>1, <1>2
<1>6. Gross(r.x.pos) <= MaxGross
    BY <1>1, <1>3, BoundedBook
<1> QED BY <1>2, <1>3, <1>4, <1>5, <1>6, BookedBar

LEMMA TargetStep ==
    ASSUME BacktestInv, NEW b \in Nat, NEW bars0 \in Cohorts, TargetBar(b, bars0),
           bar' = b, halted' = halted
    PROVE  BarDone(b, bars0)
<1> DEFINE r == ExecuteBarOfTarget(Working, bars0, pending.target, policy, Symbols)
<1>1. BookOK(Snapshot) /\ ~halted /\ pending.target # NoTarget
    BY DEF BacktestInv, TargetBar, TargetReady
<1>2. pending \in Pendings /\ pending.target \in [Symbols -> Int]
    BY <1>1, BookFields, PendingSeq
<1>3. Working \in Books(OpenFills(b))
    BY <1>1, WorkingBook
<1>4. BarResult(OpenFills(b), Working, bars0, r)
    BY <1>2, <1>3, FillsOfBar, BarOfTarget
<1> DEFINE goes == IF policy = "discard" THEN NoTarget ELSE pending.target
<1>5. \/ Acceptable(r) /\ Progress(r, goes)
      \/ /\ Deferrable(r) /\ Book(StopsOnly(bars0, Symbols))
         /\ delay' = delay + 1 /\ phase' = "decide" /\ pending' = pending
      \/ Failed
    BY DEF TargetBar
<1> HIDE DEF r, goes
<1>6. CASE Acceptable(r) /\ Progress(r, goes)
    BY <1>1, <1>4, <1>6, ProgressStep
<1>7. CASE /\ Deferrable(r) /\ Book(StopsOnly(bars0, Symbols))
           /\ delay' = delay + 1 /\ phase' = "decide" /\ pending' = pending
    <2> DEFINE q == StopsOnly(bars0, Symbols)
    <2>1. delay' \in 0..MaxDelay
        <3>1. delay \in 0..MaxDelay /\ delay < MaxDelay /\ MaxDelay \in Nat
            BY <1>7, BacktestAssumption DEF BacktestInv, Deferrable
        <3> QED BY <1>7, <3>1
    <2>2. /\ q.x \in Books(OpenFills(b)) /\ Fits(Working, q.x, bars0)
          /\ Shrinks(Working, q.x) /\ q.left = NoRebalance
          /\ ~halted => Gross(q.x.pos) <= MaxGross
        BY <1>1, StopsOnlyFit
    <2>3. Book(q)
        BY <1>7
    <2> HIDE DEF q
    <2> QED BY <1>1, <1>2, <1>7, <2>1, <2>2, <2>3, BookedBar
<1>8. CASE Failed
    BY <1>8, FailedBar
<1> QED BY <1>5, <1>6, <1>7, <1>8

LEMMA ResidualStep ==
    ASSUME BacktestInv, NEW b \in Nat, NEW bars0 \in Cohorts, ResidualBar(b, bars0),
           bar' = b, halted' = halted
    PROVE  BarDone(b, bars0)
<1> DEFINE r == ExecuteBarOfResidual(Working, bars0, rebal, policy, Symbols)
<1>1. BookOK(Snapshot) /\ ~halted /\ rebal \in Residuals
    BY DEF BacktestInv, ResidualBar
<1>2. Working \in Books(OpenFills(b))
    BY <1>1, WorkingBook
<1>3. BarResult(OpenFills(b), Working, bars0, r)
    BY <1>1, <1>2, FillsOfBar, BarOfResidual
<1>4. (Acceptable(r) /\ Progress(r, goal)) \/ Failed
    BY DEF ResidualBar
<1> HIDE DEF r
<1>5. CASE Acceptable(r) /\ Progress(r, goal)
    BY <1>1, <1>3, <1>5, ProgressStep
<1>6. CASE Failed
    BY <1>6, FailedBar
<1> QED BY <1>4, <1>5, <1>6

(***************************************************************************)
(* The backtest: its steps.                                                *)
(***************************************************************************)
LEMMA ShrunkItself ==
    ASSUME pos \in [Symbols -> Positions],
           \A s \in Symbols : pos'[s].qty = pos[s].qty
    PROVE  Shrunk
<1>1. \A s \in Symbols : Magnitude(pos[s].qty) \in Nat
    BY SizesType
<1>2. ASSUME NEW s \in Symbols
      PROVE  Magnitude(pos'[s].qty) <= Magnitude(pos[s].qty)
    <2>1. pos'[s].qty = pos[s].qty /\ Magnitude(pos[s].qty) \in Nat
        BY <1>1
    <2> QED BY <2>1
<1> QED BY <1>2 DEF Shrunk

LEMMA TimestampStep ==
    ASSUME BacktestInv, NextTimestamp
    PROVE  BacktestInv' /\ (halted => Shrunk)
<1>1. PICK present \in SUBSET Symbols \ {{}}, lag \in Lags :
         \E cohort \in [present -> Shapes] :
            /\ bar' = bar + 1
            /\ bars' = cohort
            /\ frontier' = IF frontier > bar + 1 + lag THEN frontier
                                                       ELSE bar + 1 + lag
            /\ \/ HaltedBar(bar + 1, cohort)
               \/ IntentBar(bar + 1, cohort)
               \/ TargetBar(bar + 1, cohort)
               \/ ResidualBar(bar + 1, cohort)
    BY DEF NextTimestamp
<1>2. PICK cohort \in [present -> Shapes] :
         /\ bar' = bar + 1
         /\ bars' = cohort
         /\ frontier' = IF frontier > bar + 1 + lag THEN frontier
                                                    ELSE bar + 1 + lag
         /\ \/ HaltedBar(bar + 1, cohort)
            \/ IntentBar(bar + 1, cohort)
            \/ TargetBar(bar + 1, cohort)
            \/ ResidualBar(bar + 1, cohort)
    BY <1>1
<1>3. halted' = halted
    BY DEF NextTimestamp
<1>4. bar \in Stamps /\ frontier \in Stamps /\ lag \in Nat
    BY BookFields, BacktestAssumption DEF BacktestInv
<1> DEFINE b == bar + 1
<1>5. b \in Nat /\ frontier' \in Stamps
    BY <1>2, <1>4 DEF Stamps
<1>6. cohort \in Cohorts
    <2>1. cohort \in [present -> BarShapes]
        BY BacktestAssumption
    <2> QED BY <2>1 DEF Cohorts
<1>7. /\ bar' = b /\ bars' = cohort
      /\ \/ HaltedBar(b, cohort)
         \/ IntentBar(b, cohort)
         \/ TargetBar(b, cohort)
         \/ ResidualBar(b, cohort)
    BY <1>2
<1> HIDE DEF b
<1>8. BarDone(b, cohort)
    BY <1>3, <1>5, <1>6, <1>7, HaltedStep, IntentStep, TargetStep, ResidualStep
<1> QED BY <1>5, <1>6, <1>7, <1>8 DEF BarDone, BacktestInv

\* A halt queues the exits of what is held, and moves no quantity.
LEMMA QueuedExits ==
    ASSUME NEW p \in [Symbols -> Positions]
    PROVE  /\ QueueExits(p) \in [Symbols -> Positions]
           /\ \A s \in Symbols : /\ QueueExits(p)[s].qty = p[s].qty
                                 /\ p[s].qty = 0 => QueueExits(p)[s] = p[s]
           /\ Gross(QueueExits(p)) = Gross(p)
<1>1. ASSUME NEW s \in Symbols
      PROVE  /\ QueueExits(p)[s] \in Positions
             /\ QueueExits(p)[s].qty = p[s].qty
             /\ p[s].qty = 0 => QueueExits(p)[s] = p[s]
    <2>1. p[s] \in Positions
        OBVIOUS
    <2>2. [p[s] EXCEPT !.exit = TRUE] \in Positions
        BY <2>1 DEF Positions
    <2>3. [p[s] EXCEPT !.exit = TRUE].qty = p[s].qty
        BY <2>1 DEF Positions
    <2>4. QueueExits(p)[s] = IF p[s].qty = 0 THEN p[s] ELSE [p[s] EXCEPT !.exit = TRUE]
        BY DEF QueueExits
    <2> QED BY <2>1, <2>2, <2>3, <2>4
<1>2. QueueExits(p) \in [Symbols -> Positions]
    BY <1>1 DEF QueueExits
<1>3. [s \in Symbols |-> Magnitude(QueueExits(p)[s].qty)]
         = [s \in Symbols |-> Magnitude(p[s].qty)]
    BY <1>1
<1>4. Gross(QueueExits(p)) = Gross(p)
    BY <1>3 DEF Gross
<1> QED BY <1>1, <1>2, <1>4

\* What a halt on a book does to it, whatever list it filled.
LEMMA HaltedBook ==
    ASSUME BookOK(Snapshot), cash' = cash, pos' = QueueExits(pos), fills' = fills,
           bar' = bar, halted' = TRUE, pending' \in Pendings
    PROVE  BookOK(Snapshot)' /\ Shrunk
<1> DEFINE y == [cash |-> cash, pos |-> QueueExits(pos), fills |-> fills, resting |-> <<>>]
<1>1. /\ cash \in Int /\ pos \in [Symbols -> Positions] /\ bar \in Stamps
      /\ fills \in Seq(FillsAt(bar)) /\ Sound(Snapshot)
    BY BookFields DEF BookOK
<1>2. /\ QueueExits(pos) \in [Symbols -> Positions]
      /\ \A s \in Symbols : /\ QueueExits(pos)[s].qty = pos[s].qty
                            /\ pos[s].qty = 0 => QueueExits(pos)[s] = pos[s]
      /\ Gross(QueueExits(pos)) = Gross(pos)
    BY <1>1, QueuedExits
<1>3. y \in Books(FillsAt(bar))
    <2>1. <<>> \in Seq(Intents)
        OBVIOUS
    <2> QED BY <1>1, <1>2, <2>1 DEF Books
<1>4. Sound(y)
    <2>1. /\ cash >= 0 /\ cash + Gross(pos) = StartCash
          /\ \A s \in Symbols : /\ Magnitude(pos[s].qty) <= MaxPosition
                                /\ pos[s].qty = 0 => pos[s] = Flat
        BY <1>1 DEF Sound, Snapshot
    <2> QED BY <1>2, <2>1 DEF Sound
<1>5. cash' = y.cash /\ pos' = y.pos /\ fills' = y.fills
    OBVIOUS
<1> HIDE DEF y
<1>6. BookOK(Snapshot)'
    BY <1>1, <1>3, <1>4, <1>5, NewBook
<1>7. Shrunk
    BY <1>1, <1>2, ShrunkItself
<1> QED BY <1>6, <1>7

LEMMA BreachStep ==
    ASSUME BacktestInv, Breach
    PROVE  BacktestInv' /\ Shrunk
<1>1. BookOK(Snapshot)
    BY DEF BacktestInv
<1>2. /\ cash' = cash /\ pos' = QueueExits(pos) /\ fills' = fills /\ bar' = bar
      /\ halted' = TRUE /\ pending' = Nothing /\ rebal' = NoRebalance
      /\ phase' = "execute" /\ bars' = bars /\ frontier' = frontier /\ delay' = delay
      /\ phase = "decide"
    BY DEF Breach
<1>3. pending' \in Pendings
    BY <1>1, <1>2, BookFields, PendingSeq
<1>4. BookOK(Snapshot)' /\ Shrunk
    BY <1>1, <1>2, <1>3, HaltedBook
<1> QED BY <1>2, <1>4 DEF BacktestInv

\* A step that at most takes a new decision.
LEMMA SameBook ==
    ASSUME BookOK(Snapshot), UNCHANGED <<cash, pos, halted, bar, fills>>,
           pending' \in Pendings
    PROVE  BookOK(Snapshot)' /\ Shrunk
<1>1. /\ cash \in Int /\ pos \in [Symbols -> Positions] /\ bar \in Stamps
      /\ halted \in BOOLEAN /\ (~halted => Gross(pos) <= MaxGross)
      /\ fills \in Seq(FillsAt(bar)) /\ Sound(Snapshot)
    BY BookFields DEF BookOK
<1>2. /\ Snapshot'.cash = cash /\ Snapshot'.pos = pos /\ Snapshot'.fills = fills
      /\ Snapshot'.bar = bar /\ Snapshot'.halted = halted /\ Snapshot'.pending = pending'
      /\ Snapshot.cash = cash /\ Snapshot.pos = pos
    BY DEF Snapshot
<1>3. Sound(Snapshot')
    BY <1>1, <1>2 DEF Sound
<1>4. BookOK(Snapshot)'
    BY <1>1, <1>2, <1>3 DEF BookOK
<1> QED BY <1>1, <1>4, ShrunkItself

\* A decision that merges with what is pending.
LEMMA MergedPending ==
    ASSUME NEW d \in Pendings, NEW syms, NEW intents \in Seq(Intents), NEW at \in Stamps
    PROVE  /\ [d EXCEPT !.intents = Replaced(@, syms)] \in Pendings
           /\ [[d EXCEPT !.intents = Replaced(@, syms)] EXCEPT
                   !.intents = @ \o Emitted(intents, at)] \in Pendings
<1> DEFINE q == Replaced(d.intents, syms)
<1> DEFINE e == Emitted(intents, at)
<1> DEFINE k == [d EXCEPT !.intents = q]
<1>1. q \in Seq(Intents) /\ e \in Seq(Intents)
    BY PendingSeq, ReplacedSeq, EmittedSeq
<1> HIDE DEF q, e
<1>2. k \in Pendings /\ k.intents = q
    BY <1>1, PendingSeq DEF Pendings
<1> HIDE DEF k
<1>3. q \o e \in Seq(Intents)
    BY <1>1
<1>4. [k EXCEPT !.intents = q \o e] \in Pendings
    BY <1>2, <1>3, PendingSeq
<1> QED BY <1>2, <1>4 DEF q, e, k

LEMMA DecideStep ==
    ASSUME BacktestInv,
           \/ StaysHalted
           \/ \E intents \in IntentLists : DecideIntents(intents)
           \/ \E target \in Targets : DecideTarget(target)
    PROVE  BacktestInv' /\ Shrunk
<1>1. BookOK(Snapshot) /\ frontier \in Stamps
    BY DEF BacktestInv
<1>2. /\ UNCHANGED <<cash, pos, halted, bars, fills, bar, frontier, delay>>
      /\ phase' \in {"execute", "failed"}
      /\ rebal' \in {rebal, NoRebalance}
      /\ phase = "decide"
    <2>1. CASE StaysHalted
        BY <2>1 DEF StaysHalted
    <2>2. CASE \E intents \in IntentLists : DecideIntents(intents)
        BY <2>2 DEF DecideIntents, RejectDecision
    <2>3. CASE \E target \in Targets : DecideTarget(target)
        BY <2>3 DEF DecideTarget, RejectDecision
    <2> QED BY <2>1, <2>2, <2>3
<1>3. pending \in Pendings
    BY <1>1, BookFields
<1>4. pending' \in Pendings
    <2>1. CASE StaysHalted
        BY <1>3, <2>1 DEF StaysHalted
    <2>2. CASE \E intents \in IntentLists : DecideIntents(intents)
        <3>1. PICK intents \in IntentLists : DecideIntents(intents)
            BY <2>2
        <3>2. intents \in Seq(Intents)
            BY RunAssumption
        <3> DEFINE kept == [pending EXCEPT !.intents = Replaced(@, SymbolsOf(intents))]
        <3>3. \/ pending' = pending
              \/ pending' = [kept EXCEPT !.intents = @ \o Emitted(intents, frontier)]
            BY <3>1 DEF DecideIntents, RejectDecision
        <3> DEFINE merged == [kept EXCEPT !.intents = @ \o Emitted(intents, frontier)]
        <3>4. merged \in Pendings
            BY <1>1, <1>3, <3>2, MergedPending
        <3>5. pending' = pending \/ pending' = merged
            BY <3>3
        <3> HIDE DEF merged
        <3> QED BY <1>3, <3>4, <3>5
    <2>3. CASE \E target \in Targets : DecideTarget(target)
        <3>1. PICK target \in Targets : DecideTarget(target)
            BY <2>3
        <3>2. \/ pending' = pending
              \/ pending' = [intents |-> <<>>, target |-> target, at |-> frontier]
            BY <3>1 DEF DecideTarget, RejectDecision
        <3>3. <<>> \in Seq(Intents)
            OBVIOUS
        <3>4. [intents |-> <<>>, target |-> target, at |-> frontier] \in Pendings
            BY <1>1, <3>3 DEF Pendings
        <3> QED BY <1>3, <3>2, <3>4
    <2> QED BY <2>1, <2>2, <2>3
<1>5. BookOK(Snapshot)' /\ Shrunk
    BY <1>1, <1>2, <1>4, SameBook
<1> QED BY <1>2, <1>5 DEF BacktestInv

LEMMA ClosingBar ==
    ASSUME NEW bars0 \in Cohorts, NEW v \in Nat
    PROVE  [s \in DOMAIN bars0 |-> [bars0[s] EXCEPT !.room = v]] \in Cohorts
<1>1. PICK D \in SUBSET Symbols : bars0 \in [D -> BarShapes]
    BY DEF Cohorts
<1>2. ASSUME NEW s \in D
      PROVE  [bars0[s] EXCEPT !.room = v] \in BarShapes
    <2>1. bars0[s] \in BarShapes
        BY <1>1
    <2> QED BY <2>1 DEF BarShapes
<1>3. [s \in D |-> [bars0[s] EXCEPT !.room = v]] \in [D -> BarShapes]
    BY <1>2
<1>4. DOMAIN bars0 = D
    BY <1>1
<1> QED BY <1>3, <1>4 DEF Cohorts

\* The end of the run.
LEMMA LastStep ==
    ASSUME BacktestInv, EndOfRun
    PROVE  BacktestInv' /\ Shrunk
<1>1. BookOK(Snapshot) /\ phase = "execute" /\ bars \in Cohorts
    BY DEF BacktestInv, EndOfRun
<1>2. /\ cash \in Int /\ pos \in [Symbols -> Positions] /\ halted \in BOOLEAN
      /\ ~halted => Gross(pos) <= MaxGross
      /\ pending \in Pendings /\ bar \in Stamps
    BY <1>1, BookFields
<1>3. fills \in Seq(OpenFills(bar))
    BY <1>1 DEF BacktestInv
<1>4. UNCHANGED <<halted, pending, bar, frontier, rebal, delay>>
    BY DEF EndOfRun
<1>5. \/ phase' = "failed" /\ UNCHANGED <<cash, pos, bars, fills>>
      \/ \E volume \in Volumes :
            LET closing == [s \in DOMAIN bars |-> [bars[s] EXCEPT !.room = volume]]
                x == LiquidateAll([Working EXCEPT !.fills = fills], closing)
            IN /\ bars' = closing
               /\ cash' = x.cash /\ pos' = x.pos /\ fills' = x.fills
               /\ phase' = "finished"
    BY DEF EndOfRun
<1>6. CASE phase' = "failed" /\ UNCHANGED <<cash, pos, bars, fills>>
    <2>1. BookOK(Snapshot)' /\ Shrunk
        BY <1>1, <1>2, <1>4, <1>6, SameBook
    <2> QED BY <1>3, <1>4, <1>6, <2>1 DEF BacktestInv
<1>7. CASE \E volume \in Volumes :
              LET closing == [s \in DOMAIN bars |-> [bars[s] EXCEPT !.room = volume]]
                  x == LiquidateAll([Working EXCEPT !.fills = fills], closing)
              IN /\ bars' = closing
                 /\ cash' = x.cash /\ pos' = x.pos /\ fills' = x.fills
                 /\ phase' = "finished"
    <2>1. PICK volume \in Volumes :
             LET closing == [s \in DOMAIN bars |-> [bars[s] EXCEPT !.room = volume]]
                 x == LiquidateAll([Working EXCEPT !.fills = fills], closing)
             IN /\ bars' = closing
                /\ cash' = x.cash /\ pos' = x.pos /\ fills' = x.fills
                /\ phase' = "finished"
        BY <1>7
    <2> DEFINE closing == [s \in DOMAIN bars |-> [bars[s] EXCEPT !.room = volume]]
    <2> DEFINE w == [Working EXCEPT !.fills = fills]
    <2> DEFINE y == LiquidateAll(w, closing)
    <2> DEFINE O == FillsAt(bar)
    <2>2. closing \in Cohorts
        BY <1>1, ClosingBar, BacktestAssumption
    <2>3. w \in Books(O) /\ w.pos = pos /\ w.fills = fills /\ Sound(w)
        <3>1. Working \in Books(O) /\ Sound(Working) /\ Working.pos = pos /\ Working.cash = cash
            BY <1>1, WorkingBook
        <3>2. fills \in Seq(O)
            BY <1>1, BookFields
        <3>3. w \in Books(O) /\ w.fills = fills /\ w.pos = Working.pos /\ w.cash = Working.cash
            BY <3>1, <3>2 DEF Books
        <3> QED BY <3>1, <3>3 DEF Sound
    <2>4. /\ bars' = closing
          /\ cash' = y.cash /\ pos' = y.pos /\ fills' = y.fills
          /\ phase' = "finished"
        BY <2>1
    <2>5. y \in After(O, w, closing) /\ Shrinks(w, y)
        <3> HIDE DEF w, closing
        <3> QED BY <2>2, <2>3, FillsOfBar, LiquidateFits
    <2> HIDE DEF closing, w, y
    <2>6. y \in Books(O) /\ Fits(w, y, closing) /\ NoNewExit(w, y)
        BY <2>5 DEF After
    <2>7. Gross(y.pos) <= Gross(w.pos) /\ Gross(y.pos) \in Int /\ Gross(w.pos) \in Int
        BY <2>3, <2>5, <2>6, ShrunkGross
    <2>8. Sound(y) /\ (~halted => Gross(y.pos) <= MaxGross)
        BY <1>2, <2>3, <2>6, <2>7, BookAssumption DEF Fits
    <2>9. BookOK(Snapshot)'
        BY <1>2, <1>4, <2>4, <2>6, <2>8, NewBook
    <2>10. Shrunk
        BY <2>3, <2>4, <2>5 DEF Shrinks, Shrunk
    <2>11. rebal # NoRebalance => /\ rebal \in Residuals
                                  /\ Targeted(rebal) # {} /\ Free(rebal, y.pos)
        <3>1. rebal # NoRebalance => /\ rebal \in Residuals
                                     /\ Targeted(rebal) # {} /\ Free(rebal, pos)
            BY DEF BacktestInv
        <3>2. \A s \in Symbols : y.pos[s].exit => pos[s].exit
            BY <2>3, <2>6 DEF NoNewExit
        <3>3. Targeted(rebal) \subseteq Symbols
            BY DEF Targeted
        <3> QED BY <3>1, <3>2, <3>3 DEF Free
    <2>12. ASSUME NEW s \in DOMAIN closing
           PROVE  \/ Within(y.fills, closing, s)
                  \/ \A k \in DOMAIN y.fills : y.fills[k].sym = s
                                               => y.fills[k].tif # "force_close"
        <3>1. s \in Symbols
            BY <2>2, CohortBar
        <3>2. Liquid(w, y, closing, s) /\ Extends(w, y)
            BY <2>6, <3>1 DEF Fits
        <3>3. CASE /\ Traded(y, s) = Traded(w, s)
                   /\ \A k \in (Len(w.fills) + 1)..Len(y.fills) : y.fills[k].sym # s
            <4>1. y.fills \in Seq(O)
                BY <2>6 DEF Books
            <4>2. ASSUME NEW k \in DOMAIN y.fills, y.fills[k].sym = s
                  PROVE  y.fills[k].tif # "force_close"
                <5>1. k \in 1..Len(y.fills) /\ Len(y.fills) \in Nat /\ Len(w.fills) \in Nat
                    BY <1>3, <2>3, <4>1
                <5>2. k \in 1..Len(w.fills)
                    BY <3>3, <4>2, <5>1
                <5>3. y.fills[k] = fills[k] /\ fills[k] \in OpenFills(bar)
                    BY <1>3, <2>3, <3>2, <5>2 DEF Extends
                <5> QED BY <5>3 DEF OpenFills
            <4> QED BY <4>2
        <3>4. CASE s \in DOMAIN closing /\ Traded(y, s) <= closing[s].room
            <4>1. Traded([fills |-> y.fills], s) = Traded(y, s)
                BY SameTraded
            <4> QED BY <3>4, <4>1 DEF Within
        <3> QED BY <3>2, <3>3, <3>4 DEF Liquid
    <2>13. /\ frontier \in Stamps /\ delay \in 0..MaxDelay
        BY DEF BacktestInv
    <2> QED BY <1>4, <2>2, <2>4, <2>9, <2>10, <2>11, <2>12, <2>13 DEF BacktestInv
<1> QED BY <1>5, <1>6, <1>7

\* What the backtest keeps, and that a halted one only reduces.
LEMMA BacktestStep ==
    ASSUME BacktestInv, NextBacktest
    PROVE  BacktestInv' /\ (halted => Shrunk)
BY TimestampStep, BreachStep, DecideStep, LastStep DEF NextBacktest

LEMMA StartBook ==
    ASSUME InitRun
    PROVE  BookOK(Snapshot) /\ \A s \in Symbols : Traded(Snapshot, s) = 0
<1>1. /\ cash = StartCash /\ pos = [s \in Symbols |-> Flat] /\ halted = FALSE
      /\ pending = Nothing /\ bar = -1 /\ fills = <<>>
    BY DEF InitRun, Nothing
<1>2. /\ Snapshot.cash = cash /\ Snapshot.pos = pos /\ Snapshot.fills = fills
      /\ Snapshot.bar = bar /\ Snapshot.halted = halted /\ Snapshot.pending = pending
    BY DEF Snapshot
<1>3. Flat \in Positions /\ Flat.qty = 0
    BY DEF Flat, Positions, GroupIds
<1>4. pos \in [Symbols -> Positions] /\ \A s \in Symbols : pos[s] = Flat
    BY <1>1, <1>3
<1>5. Gross(pos) = 0
    <2> DEFINE f == [s \in Symbols |-> Magnitude(pos[s].qty)]
    <2>1. f \in [Symbols -> Int] /\ \A s \in Symbols : f[s] = 0
        BY <1>3, <1>4 DEF Magnitude
    <2>2. Gross(pos) = Total(f)
        BY DEF Gross
    <2> HIDE DEF f
    <2> QED BY <2>1, <2>2, TotalZero, BookAssumption
<1>6. Sound(Snapshot)
    <2>1. StartCash \in Nat /\ MaxPosition \in Nat
        BY BookAssumption
    <2>2. \A s \in Symbols : Magnitude(pos[s].qty) = 0
        BY <1>3, <1>4 DEF Magnitude
    <2> QED BY <1>1, <1>2, <1>4, <1>5, <2>1, <2>2 DEF Sound
<1>7. pending \in Pendings /\ -1 \in Stamps
    <2>1. <<>> \in Seq(Intents) /\ -1 \in Stamps
        BY DEF Stamps
    <2> QED BY <1>1, <2>1 DEF Nothing, Pendings
<1>8. fills \in Seq(FillsAt(bar))
    BY <1>1
<1>9. \A s \in Symbols : Traded(Snapshot, s) = 0
    BY <1>1, <1>2, TradedNone
<1>10. StartCash \in Nat /\ MaxGross \in Nat
    BY BookAssumption
<1>11. /\ Snapshot.cash \in Int /\ Snapshot.pos \in [Symbols -> Positions]
       /\ Snapshot.halted = FALSE
       /\ Snapshot.pending \in Pendings /\ Snapshot.bar \in Stamps
    BY <1>1, <1>2, <1>4, <1>7, <1>10
<1>12. Snapshot.fills \in Seq(FillsAt(Snapshot.bar))
    BY <1>2, <1>8
<1>13. Gross(Snapshot.pos) <= MaxGross
    BY <1>2, <1>5, <1>10
<1>14. BookOK(Snapshot)
    BY <1>6, <1>11, <1>12, <1>13 DEF BookOK
<1> QED BY <1>9, <1>14

LEMMA BacktestInit ==
    ASSUME InitRun, InitBacktest, phase = "execute"
    PROVE  BacktestInv
<1>1. BookOK(Snapshot)
    BY StartBook
<1>2. bars \in Cohorts
    <2>1. bars = <<>>
        BY DEF InitRun
    <2>2. <<>> \in [{} -> BarShapes]
        BY SMT
    <2> QED BY <2>1, <2>2 DEF Cohorts
<1>3. fills \in Seq(OpenFills(bar))
    BY DEF InitRun
<1>4. /\ frontier \in Stamps /\ delay \in 0..MaxDelay /\ rebal = NoRebalance
    BY BacktestAssumption DEF InitBacktest, Stamps
<1> QED BY <1>1, <1>2, <1>3, <1>4 DEF BacktestInv

(***************************************************************************)
(* The simulated run: what its steps have in common.                       *)
(***************************************************************************)
LEMMA SnapshotFields ==
    /\ Snapshot.cash = cash /\ Snapshot.pos = pos /\ Snapshot.halted = halted
    /\ Snapshot.pending = pending /\ Snapshot.bar = bar /\ Snapshot.fills = fills
    /\ Snapshot.mark = mark /\ Snapshot.execMark = execMark
    /\ Snapshot.lastCycle = lastCycle
BY DEF Snapshot

\* What every step leaves of the sources: they only release more.
Later == /\ released \in [Symbols -> Nat] /\ released' \in [Symbols -> Nat]
         /\ \A s \in Symbols : released[s] <= released'[s]
Saves == saved' = saved \/ saved' = Snapshot'

LEMMA SavedStep ==
    ASSUME ShadowInv, Later, Saves, SnapshotOK(Snapshot)'
    PROVE  SnapshotOK(saved)' /\ SavedShape'
<1>1. CASE saved' = saved
    <2>1. SnapshotOK(saved) /\ SavedShape
        BY DEF ShadowInv
    <2>2. \A s \in Symbols : saved.execMark[s] <= released'[s]
        <3>1. \A s \in Symbols : saved.execMark[s] <= released[s] /\ saved.execMark[s] \in Int
            BY <2>1 DEF SnapshotOK, Stamps
        <3> QED BY <3>1 DEF Later
    <2>3. SnapshotOK(saved)'
        BY <1>1, <2>1, <2>2 DEF SnapshotOK
    <2> QED BY <1>1, <2>1, <2>3 DEF SavedShape
<1>2. CASE saved' = Snapshot'
    <2>1. SnapshotOK(saved)'
        BY <1>2 DEF SnapshotOK
    <2>2. SavedShape'
        BY <1>2 DEF SavedShape, Snapshot
    <2> QED BY <2>1, <2>2
<1> QED BY <1>1, <1>2 DEF Saves

\* A step that leaves the book, except that it may take a new decision.
LEMMA StillStep ==
    ASSUME ShadowInv, Later, Saves, pending' \in Pendings,
           UNCHANGED <<cash, pos, halted, bar, fills, mark, execMark, lastCycle>>
    PROVE  SnapshotOK(Snapshot)' /\ SnapshotOK(saved)' /\ SavedShape' /\ Shrunk
<1>1. SnapshotOK(Snapshot)
    BY DEF ShadowInv
<1>2. BookOK(Snapshot)' /\ Shrunk
    BY <1>1, SameBook DEF SnapshotOK
<1>3. /\ Snapshot'.fills = fills /\ Snapshot'.bar = bar /\ Snapshot'.mark = mark
      /\ Snapshot'.execMark = execMark /\ Snapshot'.lastCycle = lastCycle
    BY DEF Snapshot
<1>4. /\ fills \in Seq(OpenFills(bar)) /\ mark \in [Symbols -> Stamps]
      /\ execMark \in [Symbols -> Stamps] /\ lastCycle \in Stamps
      /\ \A s \in Symbols : mark[s] <= execMark[s] /\ execMark[s] <= released[s]
      /\ Absorbed(Snapshot)
    BY <1>1, SnapshotFields DEF SnapshotOK
<1>5. \A s \in Symbols : execMark[s] <= released'[s]
    <2>1. \A s \in Symbols : execMark[s] \in Int
        BY <1>4 DEF Stamps
    <2> QED BY <1>4, <2>1 DEF Later
<1>6. \A s \in Symbols : Traded(Snapshot', s) = Traded(Snapshot, s)
    <2>1. Snapshot'.fills = Snapshot.fills
        BY <1>3, SnapshotFields
    <2> QED BY <2>1, SameTraded
<1>7. Absorbed(Snapshot')
    BY <1>3, <1>4, <1>6, SnapshotFields DEF Absorbed
<1>8. SnapshotOK(Snapshot)'
    BY <1>2, <1>3, <1>4, <1>5, <1>7 DEF SnapshotOK
<1> QED BY <1>2, <1>8, SavedStep

\* A cycle goes on, or has ended.
LEMMA GoesOnCycle ==
    ASSUME SnapshotOK(Snapshot)', SnapshotOK(saved)', SavedShape',
           due \subseteq (0..FeedBars) \X Symbols,
           cache' = cache, due' = due, phase' \in {"decide", "mark"},
           \A s \in Present : execMark'[s] = Event,
           phase' = "decide" => bars' = Cohort
    PROVE  ShadowInv'
<1>1. Present' = Present /\ Event' = Event /\ Cohort' = Cohort
    BY DEF Present, Event, Cohort
<1>2. phase' = "decide" => bars' = Cohort'
    BY <1>1
<1>3. \A s \in Present' : execMark'[s] = Event'
    BY <1>1
<1> QED BY <1>2, <1>3 DEF ShadowInv

LEMMA EndsCycle ==
    ASSUME SnapshotOK(Snapshot)', SnapshotOK(saved)', SavedShape',
           due' \subseteq (0..FeedBars) \X Symbols, phase' \in {"idle", "execute"}
    PROVE  ShadowInv'
BY DEF ShadowInv

LEMMA Checkpointed ==
    ASSUME NEW next, NEW rest, Checkpoint(next, rest)
    PROVE  /\ Saves
           /\ (phase' = next /\ due' = rest) \/ (phase' = "idle" /\ due' = {})
BY DEF Checkpoint, Saves, GivesUp

\* A step of a cycle that leaves the book.
LEMMA StillCycle ==
    ASSUME ShadowInv, Later, Saves, pending' \in Pendings,
           UNCHANGED <<cash, pos, halted, bar, fills, mark, execMark, lastCycle, cache>>,
           \/ phase' = "idle" /\ due' = {}
           \/ /\ due' = due /\ phase' \in {"decide", "mark"}
              /\ \A s \in Present : execMark[s] = Event
              /\ phase' = "decide" => bars' = Cohort
    PROVE  ShadowInv' /\ Shrunk
<1>1. SnapshotOK(Snapshot)' /\ SnapshotOK(saved)' /\ SavedShape' /\ Shrunk
    BY StillStep
<1>2. due \subseteq (0..FeedBars) \X Symbols
    BY DEF ShadowInv
<1>3. CASE phase' = "idle" /\ due' = {}
    BY <1>1, <1>3, EndsCycle
<1>4. CASE /\ due' = due /\ phase' \in {"decide", "mark"}
           /\ \A s \in Present : execMark[s] = Event
           /\ phase' = "decide" => bars' = Cohort
    BY <1>1, <1>2, <1>4, GoesOnCycle
<1> QED BY <1>1, <1>3, <1>4

LEMMA ShadowFields ==
    ASSUME ShadowInv
    PROVE  /\ BookOK(Snapshot) /\ pending \in Pendings
           /\ pos \in [Symbols -> Positions] /\ cash \in Int
           /\ bar \in Stamps /\ fills \in Seq(OpenFills(bar))
           /\ mark \in [Symbols -> Stamps] /\ execMark \in [Symbols -> Stamps]
           /\ lastCycle \in Stamps /\ Absorbed(Snapshot)
           /\ due \subseteq (0..FeedBars) \X Symbols
           /\ \A s \in Symbols : mark[s] <= execMark[s] /\ execMark[s] <= released[s]
<1>1. SnapshotOK(Snapshot)
    BY DEF ShadowInv
<1>2. BookOK(Snapshot)
    BY <1>1 DEF SnapshotOK
<1>3. /\ fills \in Seq(OpenFills(bar)) /\ mark \in [Symbols -> Stamps]
      /\ execMark \in [Symbols -> Stamps] /\ lastCycle \in Stamps
      /\ \A s \in Symbols : mark[s] <= execMark[s] /\ execMark[s] <= released[s]
      /\ Absorbed(Snapshot)
    BY <1>1, SnapshotFields DEF SnapshotOK
<1> QED BY <1>2, <1>3, BookFields DEF ShadowInv

\* The timestamp of a cycle is a bar of the feed that its symbols were served.
LEMMA EventServed ==
    ASSUME HistoryTypes, ShadowInv, due # {}
    PROVE  /\ Event \in 0..FeedBars
           /\ \A s \in Present : s \in Symbols /\ Event <= released[s]
           /\ Present \in SUBSET Symbols
           /\ Cohort \in Cohorts /\ DOMAIN Cohort = Present
           /\ \A s \in Present : Cohort[s] = ShapeOf(s, Event)
<1> DEFINE T == {c[1] : c \in due}
<1>1. T # {} /\ T \subseteq 0..FeedBars /\ FeedBars \in Nat
    BY FeedAssumption DEF ShadowInv
<1>2. Event \in T
    <2>1. Min(T) \in T
        <3>1. T \subseteq Nat
            BY <1>1
        <3> HIDE DEF T
        <3> QED BY <1>1, <3>1, MinOfNaturals
    <2> QED BY <2>1 DEF Event
<1>3. Event \in 0..FeedBars
    BY <1>1, <1>2
<1>4. ASSUME NEW s \in Present
      PROVE  s \in Symbols /\ Event <= released[s]
    <2>1. s \in Symbols /\ Event \in cache[s]
        BY DEF Present
    <2>2. Event \in start[s]..released[s] /\ start[s] \in Nat /\ released[s] \in Nat
        BY <2>1 DEF HistoryTypes, SourceTypes, Served
    <2> QED BY <2>1, <2>2
<1>5. Present \in SUBSET Symbols
    BY DEF Present
<1>6. Cohort \in [Present -> BarShapes]
    BY <1>3, <1>5, ShadowAssumption DEF Cohort
<1> QED BY <1>3, <1>4, <1>5, <1>6 DEF Cohort, Cohorts

(***************************************************************************)
(* The simulated run: a timestamp executes.                                *)
(***************************************************************************)
LEMMA ExecutingBook ==
    ASSUME ShadowInv
    PROVE  /\ Executing \in Books(OpenFills(Event)) /\ Sound(Executing)
           /\ Executing.pos = pos
           /\ bar = Event => Executing.fills = fills
           /\ bar # Event => Executing.fills = <<>>
<1>1. /\ cash \in Int /\ pos \in [Symbols -> Positions]
      /\ fills \in Seq(OpenFills(bar)) /\ Sound(Snapshot)
    BY ShadowFields DEF BookOK
<1>2. Executing.fills \in Seq(OpenFills(Event))
    <2>1. CASE bar = Event
        BY <1>1, <2>1 DEF Executing
    <2>2. CASE bar # Event
        BY <2>2 DEF Executing
    <2> QED BY <2>1, <2>2
<1>3. /\ Executing = [cash |-> cash, pos |-> pos, resting |-> <<>>,
                      fills |-> Executing.fills]
      /\ <<>> \in Seq(Intents)
      /\ bar = Event => Executing.fills = fills
      /\ bar # Event => Executing.fills = <<>>
    BY DEF Executing
<1>4. Executing \in Books(OpenFills(Event))
    <2> DEFINE fs == Executing.fills
    <2>1. Executing = [cash |-> cash, pos |-> pos, resting |-> <<>>, fills |-> fs]
        BY <1>3
    <2>2. fs \in Seq(OpenFills(Event))
        BY <1>2
    <2> HIDE DEF fs
    <2> QED BY <1>1, <1>3, <2>1, <2>2 DEF Books
<1>5. Executing.pos = pos /\ Executing.cash = cash
    BY DEF Executing
<1>6. Sound(Executing)
    BY <1>1, <1>5, SnapshotFields DEF Sound
<1> QED BY <1>3, <1>4, <1>5, <1>6

LEMMA ExecutedStep ==
    ASSUME ShadowInv, HistoryTypes, due # {}, ~OutOfOrder,
           NEW x \in Books(OpenFills(Event)), Fits(Executing, x, Cohort),
           ~halted => Gross(x.pos) <= MaxGross, Executed(x),
           UNCHANGED <<halted, mark, lastCycle, released>>, pending' \in Pendings
    PROVE  /\ SnapshotOK(Snapshot)'
           /\ \A s \in Present : execMark'[s] = Event
<1> DEFINE b == Event
<1>1. /\ b \in 0..FeedBars /\ FeedBars \in Nat
      /\ \A s \in Present : s \in Symbols /\ b <= released[s]
      /\ DOMAIN Cohort = Present
      /\ \A s \in Present : Cohort[s] = ShapeOf(s, b)
    BY EventServed, FeedAssumption
<1>2. /\ cash' = x.cash /\ pos' = x.pos /\ fills' = x.fills /\ bar' = b
      /\ execMark' = [s \in Symbols |-> IF s \in Present THEN b ELSE execMark[s]]
    BY DEF Executed
<1>3. b \in Stamps /\ x \in Books(FillsAt(b)) /\ Sound(x)
    BY <1>1, ExecutingBook, FillsOfBar, MoreBooks DEF Fits, Stamps
<1>4. BookOK(Snapshot)'
    <2>1. halted \in BOOLEAN
        BY ShadowFields, BookFields
    <2> HIDE DEF b
    <2> QED BY <1>2, <1>3, <2>1, NewBook
<1>5. /\ Snapshot'.fills = x.fills /\ Snapshot'.bar = b /\ Snapshot'.mark = mark
      /\ Snapshot'.execMark = execMark' /\ Snapshot'.lastCycle = lastCycle
    BY <1>2 DEF Snapshot
<1>6. /\ mark \in [Symbols -> Stamps] /\ execMark \in [Symbols -> Stamps]
      /\ lastCycle \in Stamps /\ Absorbed(Snapshot)
      /\ \A s \in Symbols : mark[s] <= execMark[s] /\ execMark[s] <= released[s]
    BY ShadowFields
<1>7. \A s \in Present : ~(b < execMark[s])
    BY DEF OutOfOrder
<1>8. x.fills \in Seq(OpenFills(b))
    BY DEF Books
<1>9. Executing \in Books(OpenFills(b)) /\ \A s \in Symbols : Liquid(Executing, x, Cohort, s)
    BY ExecutingBook DEF Fits
<1>10. /\ bar = b => Executing.fills = Snapshot.fills
       /\ bar # b => Executing.fills = <<>>
       /\ Snapshot.bar = bar /\ Snapshot.execMark = execMark
    BY ExecutingBook, SnapshotFields
<1> HIDE DEF b
<1>11. execMark' \in [Symbols -> Stamps]
    BY <1>2, <1>3, <1>6
<1>12. \A s \in Symbols : mark[s] <= execMark'[s] /\ execMark'[s] <= released[s]
    <2> SUFFICES ASSUME NEW s \in Symbols
                 PROVE  mark[s] <= execMark'[s] /\ execMark'[s] <= released[s]
        OBVIOUS
    <2>1. mark[s] \in Int /\ execMark[s] \in Int
        BY <1>6 DEF Stamps
    <2>2. CASE s \in Present
        BY <1>1, <1>2, <1>6, <1>7, <2>1, <2>2
    <2>3. CASE s \notin Present
        BY <1>2, <1>6, <2>3
    <2> QED BY <2>2, <2>3
<1>13. Absorbed(Snapshot')
    <2>1. ASSUME NEW s \in Symbols, Traded(Snapshot', s) # 0
          PROVE  execMark'[s] = b /\ Traded(Snapshot', s) <= ShapeOf(s, b).room
        <3>1. Traded(Snapshot', s) = Traded(x, s)
            BY <1>5, SameTraded
        <3>2. CASE Traded(x, s) = Traded(Executing, s)
            <4>1. bar = b
                BY <1>10, <2>1, <3>1, <3>2, TradedNone
            <4>2. Traded(Executing, s) = Traded(Snapshot, s)
                BY <1>10, <4>1, SameTraded
            <4>3. execMark[s] = b /\ Traded(Snapshot, s) <= ShapeOf(s, b).room
                BY <1>6, <1>10, <2>1, <3>1, <3>2, <4>1, <4>2 DEF Absorbed
            <4> QED BY <1>2, <3>1, <3>2, <4>2, <4>3
        <3>3. CASE s \in DOMAIN Cohort /\ Traded(x, s) <= Cohort[s].room
            BY <1>1, <1>2, <3>1, <3>3
        <3> QED BY <1>9, <3>2, <3>3 DEF Liquid
    <2> QED BY <1>1, <1>5, <2>1 DEF Absorbed
<1>14. released' = released
    OBVIOUS
<1>15. SnapshotOK(Snapshot)'
    BY <1>4, <1>5, <1>6, <1>8, <1>11, <1>12, <1>13, <1>14 DEF SnapshotOK
<1>16. \A s \in Present : execMark'[s] = b
    BY <1>1, <1>2
<1> QED BY <1>15, <1>16 DEF b

\* A timestamp that executed is checkpointed.
LEMMA ExecutedCycle ==
    ASSUME ShadowInv, HistoryTypes, due # {}, ~OutOfOrder,
           NEW x \in Books(OpenFills(Event)), Fits(Executing, x, Cohort),
           ~halted => Gross(x.pos) <= MaxGross, Executed(x),
           UNCHANGED <<halted, mark, lastCycle, released, cache>>,
           pending' \in Pendings, Checkpoint("decide", due)
    PROVE  ShadowInv'
<1>1. /\ SnapshotOK(Snapshot)'
      /\ \A s \in Present : execMark'[s] = Event
    BY ExecutedStep
<1>2. Later
    <2>1. released \in [Symbols -> Nat]
        BY DEF HistoryTypes, SourceTypes
    <2> QED BY <2>1 DEF Later
<1>3. /\ Saves
      /\ (phase' = "decide" /\ due' = due) \/ (phase' = "idle" /\ due' = {})
    BY Checkpointed
<1>4. SnapshotOK(saved)' /\ SavedShape'
    BY <1>1, <1>2, <1>3, SavedStep
<1>5. bars' = Cohort
    BY DEF Executed
<1>6. due \subseteq (0..FeedBars) \X Symbols
    BY DEF ShadowInv
<1>7. CASE phase' = "decide" /\ due' = due
    BY <1>1, <1>4, <1>5, <1>6, <1>7, GoesOnCycle
<1>8. CASE phase' = "idle" /\ due' = {}
    BY <1>1, <1>4, <1>8, EndsCycle
<1> QED BY <1>3, <1>7, <1>8

LEMMA HaltedExecution ==
    ASSUME ShadowInv, HistoryTypes, ExecuteHalted
    PROVE  ShadowInv' /\ Shrunk
<1> DEFINE eligible == Held(pos) \cap Unexecuted
<1> DEFINE x == CheckStops(Executing, Cohort, eligible)
<1>1. /\ phase = "execute" /\ ~OutOfOrder /\ halted /\ Executed(x)
      /\ pending' = Nothing /\ Checkpoint("decide", due)
      /\ UNCHANGED <<halted, cache, mark, lastCycle, released>>
    BY DEF ExecuteHalted, Executable, Elsewhere
<1>2. due # {} /\ Cohort \in Cohorts
    BY <1>1, EventServed DEF HistoryTypes
<1>3. Executing \in Books(OpenFills(Event)) /\ Executing.pos = pos
    BY ExecutingBook
<1>4. x \in Books(OpenFills(Event)) /\ Fits(Executing, x, Cohort) /\ Shrinks(Executing, x)
    BY <1>2, <1>3, FillsOfBar, StopsFit
<1>5. pending' \in Pendings
    BY <1>1, ShadowFields, PendingSeq
<1>6. pos' = x.pos
    BY <1>1 DEF Executed
<1> HIDE DEF x
<1>7. ShadowInv'
    BY <1>1, <1>2, <1>4, <1>5, ExecutedCycle
<1>8. Shrunk
    BY <1>3, <1>4, <1>6 DEF Shrinks, Shrunk
<1> QED BY <1>7, <1>8

LEMMA PendingExecution ==
    ASSUME ShadowInv, HistoryTypes, ExecutePending
    PROVE  ShadowInv'
<1> DEFINE live == Unexpired(pending.intents, Event, Present)
<1> DEFINE ready == Kept(live, {i \in Range(live) : DataReady(i, Present)})
<1> DEFINE waits == Kept(live, {i \in Range(live) : ~DataReady(i, Present)})
<1> DEFINE wait == [Nothing EXCEPT !.intents = waits]
<1> DEFINE r == IF pending.target # NoTarget
                THEN ExecuteBarOfTarget(Executing, Cohort, pending.target,
                                        "discard", Unexecuted)
                ELSE ExecuteBarOfIntents(Executing, Cohort, ready, Unexecuted)
<1> DEFINE left == [wait EXCEPT !.intents = @ \o StillResting(r.x.resting, Event)]
<1>1. /\ phase = "execute" /\ ~OutOfOrder /\ ~halted
      /\ UNCHANGED <<released>>
      /\ \/ /\ r.out = "ok" /\ Executed(r.x) /\ pending' = left
            /\ UNCHANGED <<halted, cache, mark, lastCycle>>
            /\ Checkpoint("decide", due)
         \/ /\ pending' = wait /\ GivesUp
            /\ UNCHANGED <<cash, pos, halted, bar, bars, fills, cache, mark,
                           execMark, lastCycle, saved>>
    BY DEF ExecutePending, MayTrade, Executable, Elsewhere
<1>2. /\ due # {} /\ Cohort \in Cohorts /\ DOMAIN Cohort = Present
      /\ Event \in Nat
    BY <1>1, EventServed DEF HistoryTypes
<1>3. Executing \in Books(OpenFills(Event)) /\ Executing.pos = pos
    BY ExecutingBook
<1>4. /\ pending \in Pendings /\ pending.intents \in Seq(Intents)
      /\ pending.target # NoTarget => pending.target \in [Symbols -> Int]
    BY ShadowFields, PendingSeq
<1>5. PICK U \in SUBSET Intents :
         Allowed(U, Cohort, OpenFills(Event)) /\ ready \in Seq(U)
    BY <1>2, <1>4, UnexpiredSeq
<1>6. waits \in Seq(Intents)
    BY <1>2, <1>4, UnexpiredSeq
<1> HIDE DEF ready, waits
<1>7. BarResult(OpenFills(Event), Executing, Cohort, r)
    <2>1. CASE pending.target # NoTarget
        <3>1. r = ExecuteBarOfTarget(Executing, Cohort, pending.target,
                                     "discard", Unexecuted)
            BY <2>1
        <3> QED BY <1>2, <1>3, <1>4, <2>1, <3>1, FillsOfBar, BarOfTarget
    <2>2. CASE pending.target = NoTarget
        <3>1. r = ExecuteBarOfIntents(Executing, Cohort, ready, Unexecuted)
            BY <2>2
        <3> QED BY <1>2, <1>3, <1>5, <3>1, FillsOfBar, BarOfIntents
    <2> QED BY <2>1, <2>2
<1>8. wait \in Pendings /\ wait.intents = waits
    BY <1>4, <1>6, PendingSeq DEF Nothing
<1> HIDE DEF r, wait
<1>9. CASE /\ r.out = "ok" /\ Executed(r.x) /\ pending' = left
           /\ UNCHANGED <<halted, cache, mark, lastCycle>>
           /\ Checkpoint("decide", due)
    <2> DEFINE x == r.x
    <2>1. x \in Books(OpenFills(Event)) /\ Fits(Executing, x, Cohort) /\ Bounded(Executing, x)
        BY <1>7, <1>9 DEF BarResult
    <2>2. x.resting \in Seq(Intents)
        BY <2>1 DEF Books
    <2> DEFINE again == StillResting(x.resting, Event)
    <2>3. again \in Seq(Intents)
        BY <1>2, <2>2, RestedSeq
    <2>4. pending' = [wait EXCEPT !.intents = waits \o again]
        BY <1>8, <1>9
    <2>5. Gross(x.pos) <= MaxGross
        <3>1. /\ Gross(pos) <= MaxGross /\ pos \in [Symbols -> Positions]
              /\ x.pos \in [Symbols -> Positions]
            BY <1>1, <2>1, ShadowFields, BookFields DEF Books
        <3>2. Gross(pos) \in Int /\ Gross(x.pos) \in Int /\ MaxGross \in Int
            BY <3>1, GrossInt, BookAssumption
        <3> QED BY <1>3, <2>1, <3>1, <3>2 DEF Bounded
    <2>6. Executed(x)
        BY <1>9
    <2> HIDE DEF x, again
    <2>7. waits \o again \in Seq(Intents)
        BY <1>6, <2>3
    <2>8. pending' \in Pendings
        BY <1>8, <2>4, <2>7, PendingSeq
    <2> QED BY <1>1, <1>2, <1>9, <2>1, <2>5, <2>6, <2>8, ExecutedCycle
<1>10. CASE /\ pending' = wait /\ GivesUp
            /\ UNCHANGED <<cash, pos, halted, bar, bars, fills, cache, mark,
                           execMark, lastCycle, saved>>
    <2>1. Later
        <3>1. released \in [Symbols -> Nat]
            BY DEF HistoryTypes, SourceTypes
        <3> QED BY <1>1, <3>1 DEF Later
    <2> QED BY <1>8, <1>10, <2>1, StillCycle DEF GivesUp, Saves
<1> QED BY <1>1, <1>9, <1>10

(***************************************************************************)
(* The simulated run: its other steps.                                     *)
(***************************************************************************)
LEMMA SameReleases ==
    ASSUME HistoryTypes, released' = released
    PROVE  Later
<1>1. released \in [Symbols -> Nat]
    BY DEF HistoryTypes, SourceTypes
<1> QED BY <1>1 DEF Later

LEMMA TickKeeps ==
    ASSUME ShadowInv, HistoryTypes, HistoryTypes', Tick
    PROVE  ShadowInv' /\ Shrunk
<1>1. /\ phase' = "idle" /\ saved' = saved /\ due' = due /\ pending' = pending
      /\ UNCHANGED <<cash, pos, halted, bar, fills, mark, execMark, lastCycle>>
    BY DEF Tick, Releases, Backfill, runVars
<1>2. Later
    <2>1. released \in [Symbols -> Nat] /\ released' \in [Symbols -> Nat]
        BY DEF HistoryTypes, SourceTypes
    <2>2. \A s \in Symbols : released[s] <= released'[s]
        <3>1. CASE Releases
            <4>1. PICK upto \in [Symbols -> 0..FeedBars] :
                     /\ \A s \in Symbols : upto[s] \in released[s]..Closed(now + 1)
                     /\ released' = upto
                BY <3>1 DEF Releases
            <4>2. \A s \in Symbols : /\ upto[s] \in Int /\ released[s] \in Int
                                     /\ upto[s] \in released[s]..Closed(now + 1)
                BY <2>1, <4>1, FeedAssumption
            <4> QED BY <4>1, <4>2
        <3>2. CASE \E s \in Symbols : Backfill(s)
            BY <2>1, <3>2 DEF Backfill
        <3> QED BY <3>1, <3>2 DEF Tick
    <2> QED BY <2>1, <2>2 DEF Later
<1>3. pending' \in Pendings
    BY <1>1, ShadowFields
<1>4. SnapshotOK(Snapshot)' /\ SnapshotOK(saved)' /\ SavedShape' /\ Shrunk
    BY <1>1, <1>2, <1>3, StillStep DEF Saves
<1>5. due' \subseteq (0..FeedBars) \X Symbols
    BY <1>1 DEF ShadowInv
<1> QED BY <1>1, <1>4, <1>5, EndsCycle

LEMMA PollKeeps ==
    ASSUME ShadowInv, HistoryTypes, AnyPoll
    PROVE  ShadowInv' /\ Shrunk
<1>1. PICK fails : Poll(fails)
    BY DEF AnyPoll
<1>2. /\ saved' = saved /\ pending' = pending /\ released' = released
      /\ UNCHANGED <<cash, pos, halted, bar, fills, mark, execMark, lastCycle>>
    BY <1>1 DEF Poll
<1>3. phase' \in {"idle", "execute"} /\ due' \subseteq (0..FeedBars) \X Symbols
    <2>1. PICK bs : /\ due' = Released(bs) \/ due' = {}
                    /\ phase' = IF due' = {} THEN "idle" ELSE "execute"
        BY <1>1 DEF Poll
    <2>2. Released(bs) \subseteq (0..FeedBars) \X Symbols
        BY DEF Released, Candidates
    <2> QED BY <2>1, <2>2
<1>4. Later /\ Saves
    BY <1>2, SameReleases DEF Saves
<1>5. pending' \in Pendings
    BY <1>2, ShadowFields
<1>6. SnapshotOK(Snapshot)' /\ SnapshotOK(saved)' /\ SavedShape' /\ Shrunk
    BY <1>2, <1>4, <1>5, StillStep
<1> QED BY <1>3, <1>6, EndsCycle

\* The steps of a cycle that execute nothing.
LEMMA QuietKeeps ==
    ASSUME ShadowInv, HistoryTypes,
           \/ RejectEvent \/ SkipExecution \/ FeaturesFail \/ ShadowStaysHalted
           \/ \E intents \in ShadowLists : ShadowDecide(intents, NoTarget)
           \/ \E target \in ShadowTargets : ShadowDecide(<<>>, target)
    PROVE  ShadowInv' /\ Shrunk
<1>1. /\ pending \in Pendings
      /\ phase = "decide" => \A s \in Present : execMark[s] = Event
    BY ShadowFields DEF ShadowInv
<1>2. CASE RejectEvent
    <2>1. Later
        BY <1>2, SameReleases DEF RejectEvent, Elsewhere
    <2> QED BY <1>1, <1>2, <2>1, StillCycle DEF RejectEvent, GivesUp, Saves
<1>3. CASE SkipExecution
    <2>1. Later
        BY <1>3, SameReleases DEF SkipExecution, Elsewhere
    <2>2. \A s \in Present : execMark[s] = Event
        BY <1>3 DEF SkipExecution, Unexecuted
    <2> QED BY <1>1, <1>3, <2>1, <2>2, StillCycle DEF SkipExecution, Saves
<1>4. CASE FeaturesFail
    <2>1. Later
        BY <1>4, SameReleases DEF FeaturesFail, Elsewhere
    <2> QED BY <1>1, <1>4, <2>1, StillCycle DEF FeaturesFail, GivesUp, Saves
<1>5. CASE ShadowStaysHalted
    <2>1. Later
        BY <1>5, SameReleases DEF ShadowStaysHalted, Elsewhere
    <2>2. /\ Saves
          /\ (phase' = "mark" /\ due' = due) \/ (phase' = "idle" /\ due' = {})
        BY <1>5, Checkpointed DEF ShadowStaysHalted
    <2> QED BY <1>1, <1>5, <2>1, <2>2, StillCycle DEF ShadowStaysHalted
<1>6. ASSUME NEW intents \in Seq(Intents),
             NEW target \in ShadowTargets \union {NoTarget},
             ShadowDecide(intents, target)
      PROVE  ShadowInv' /\ Shrunk
    <2> DEFINE syms == IF target = NoTarget THEN SymbolsOf(intents) ELSE Symbols
    <2> DEFINE kept == [pending EXCEPT !.intents = Replaced(@, syms)]
    <2> DEFINE merged == [kept EXCEPT !.intents = @ \o Emitted(intents, Event)]
    <2> DEFINE whole == [intents |-> <<>>, target |-> target, at |-> Event]
    <2>1. /\ phase = "decide"
          /\ UNCHANGED <<cash, pos, halted, bar, bars, fills, cache, mark,
                         execMark, lastCycle, released>>
          /\ \/ /\ pending' = IF target = NoTarget THEN merged ELSE whole
                /\ Checkpoint("mark", due)
             \/ /\ pending' = kept \/ pending' = pending
                /\ GivesUp /\ saved' = saved
        BY <1>6 DEF ShadowDecide, Elsewhere
    <2>2. Event \in Nat /\ Later
        BY <2>1, EventServed, SameReleases DEF HistoryTypes
    <2>3. kept \in Pendings /\ merged \in Pendings
        BY <1>1, <2>2, MergedPending DEF Stamps
    <2>4. whole \in Pendings
        <3>1. <<>> \in Seq(Intents)
            OBVIOUS
        <3> QED BY <2>2, <3>1 DEF Pendings, Stamps
    <2> HIDE DEF merged, whole, kept
    <2>5. pending' \in Pendings
        BY <1>1, <2>1, <2>3, <2>4
    <2>6. /\ Saves
          /\ (phase' = "mark" /\ due' = due) \/ (phase' = "idle" /\ due' = {})
        BY <2>1, Checkpointed DEF GivesUp, Saves
    <2> QED BY <1>1, <2>1, <2>2, <2>5, <2>6, StillCycle
<1>7. CASE \E intents \in ShadowLists : ShadowDecide(intents, NoTarget)
    <2>1. PICK intents \in ShadowLists : ShadowDecide(intents, NoTarget)
        BY <1>7
    <2>2. intents \in Seq(Intents)
        BY ShadowAssumption
    <2> QED BY <1>6, <2>1, <2>2
<1>8. CASE \E target \in ShadowTargets : ShadowDecide(<<>>, target)
    <2>1. <<>> \in Seq(Intents)
        OBVIOUS
    <2>2. PICK target \in ShadowTargets : ShadowDecide(<<>>, target)
        BY <1>8
    <2> QED BY <1>6, <2>1, <2>2
<1> QED BY <1>2, <1>3, <1>4, <1>5, <1>7, <1>8

LEMMA HaltKeeps ==
    ASSUME ShadowInv, HistoryTypes, ShadowBreach
    PROVE  ShadowInv' /\ Shrunk
<1>1. /\ phase = "decide" /\ halted' = TRUE /\ pos' = QueueExits(pos)
      /\ UNCHANGED <<cash, pending, bar, bars, fills, cache, mark, execMark,
                     lastCycle, released>>
      /\ Checkpoint("mark", due)
    BY DEF ShadowBreach, Elsewhere
<1>2. Later
    BY <1>1, SameReleases
<1>3. /\ Saves
      /\ (phase' = "mark" /\ due' = due) \/ (phase' = "idle" /\ due' = {})
    BY <1>1, Checkpointed
<1>4. BookOK(Snapshot)' /\ Shrunk
    BY <1>1, ShadowFields, HaltedBook
<1>5. /\ Snapshot'.fills = fills /\ Snapshot'.bar = bar /\ Snapshot'.mark = mark
      /\ Snapshot'.execMark = execMark /\ Snapshot'.lastCycle = lastCycle
      /\ released' = released
    BY <1>1 DEF Snapshot
<1>6. Absorbed(Snapshot')
    <2>1. Snapshot'.fills = Snapshot.fills
        BY <1>5, SnapshotFields
    <2>2. \A s \in Symbols : Traded(Snapshot', s) = Traded(Snapshot, s)
        BY <2>1, SameTraded
    <2>3. Absorbed(Snapshot)
        BY ShadowFields
    <2> QED BY <1>5, <2>2, <2>3, SnapshotFields DEF Absorbed
<1>7. SnapshotOK(Snapshot)'
    BY <1>4, <1>5, <1>6, ShadowFields DEF SnapshotOK
<1>8. SnapshotOK(saved)' /\ SavedShape'
    BY <1>2, <1>3, <1>7, SavedStep
<1>9. /\ due \subseteq (0..FeedBars) \X Symbols
      /\ \A s \in Present : execMark'[s] = Event
    BY <1>1 DEF ShadowInv
<1>10. CASE phase' = "mark" /\ due' = due
    BY <1>1, <1>4, <1>7, <1>8, <1>9, <1>10, GoesOnCycle
<1>11. CASE phase' = "idle" /\ due' = {}
    BY <1>4, <1>7, <1>8, <1>11, EndsCycle
<1> QED BY <1>3, <1>10, <1>11

LEMMA MarkKeeps ==
    ASSUME ShadowInv, HistoryTypes, Mark
    PROVE  ShadowInv' /\ Shrunk
<1> DEFINE rest == {c \in due : c[1] # Event}
<1> DEFINE goes == IF rest = {} THEN "idle" ELSE "execute"
<1>1. /\ phase = "mark" /\ lastCycle' = Event
      /\ mark' = [s \in Symbols |-> IF s \in Advanced THEN Event ELSE mark[s]]
      /\ UNCHANGED <<cash, pos, halted, pending, bar, fills, execMark, released>>
      /\ Checkpoint(goes, rest)
    BY DEF Mark, Elsewhere
<1>2. /\ Event \in Nat /\ due \subseteq (0..FeedBars) \X Symbols
      /\ \A s \in Present : execMark[s] = Event
    BY <1>1, EventServed DEF HistoryTypes, ShadowInv
<1>3. Later
    BY <1>1, SameReleases
<1>4. /\ Saves
      /\ (phase' = goes /\ due' = rest) \/ (phase' = "idle" /\ due' = {})
    BY <1>1, Checkpointed
<1>5. pending \in Pendings /\ BookOK(Snapshot)
    BY ShadowFields
<1>6. BookOK(Snapshot)' /\ Shrunk
    BY <1>1, <1>5, SameBook
<1>7. /\ Snapshot'.fills = fills /\ Snapshot'.bar = bar /\ Snapshot'.mark = mark'
      /\ Snapshot'.execMark = execMark /\ Snapshot'.lastCycle = Event
      /\ released' = released
    BY <1>1 DEF Snapshot
<1>8. Absorbed(Snapshot')
    <2>1. Snapshot'.fills = Snapshot.fills
        BY <1>7, SnapshotFields
    <2>2. \A s \in Symbols : Traded(Snapshot', s) = Traded(Snapshot, s)
        BY <2>1, SameTraded
    <2>3. Absorbed(Snapshot)
        BY ShadowFields
    <2> QED BY <1>7, <2>2, <2>3, SnapshotFields DEF Absorbed
<1>9. /\ mark' \in [Symbols -> Stamps]
      /\ \A s \in Symbols : mark'[s] <= execMark[s]
    <2>1. /\ mark \in [Symbols -> Stamps] /\ execMark \in [Symbols -> Stamps]
          /\ \A s \in Symbols : mark[s] <= execMark[s]
        BY ShadowFields
    <2>2. \A s \in Advanced : execMark[s] = Event
        BY <1>2 DEF Advanced
    <2>3. mark' \in [Symbols -> Stamps]
        BY <1>1, <1>2, <2>1 DEF Stamps
    <2>4. \A s \in Symbols : mark'[s] <= execMark[s]
        BY <1>1, <1>2, <2>1, <2>2
    <2> QED BY <2>3, <2>4
<1>10. SnapshotOK(Snapshot)'
    <2>1. Event \in Stamps
        BY <1>2 DEF Stamps
    <2> QED BY <1>6, <1>7, <1>8, <1>9, <2>1, ShadowFields DEF SnapshotOK
<1>11. SnapshotOK(saved)' /\ SavedShape'
    BY <1>3, <1>4, <1>10, SavedStep
<1>12. due' \subseteq (0..FeedBars) \X Symbols /\ phase' \in {"idle", "execute"}
    BY <1>2, <1>4
<1> QED BY <1>6, <1>10, <1>11, <1>12, EndsCycle

LEMMA CrashKeeps ==
    ASSUME ShadowInv, HistoryTypes, Crash
    PROVE  ShadowInv' /\ Restored
<1>1. /\ Snapshot' = saved /\ saved' = saved /\ released' = released
      /\ phase' = "idle" /\ due' = {}
    <2>1. SavedShape
        BY DEF ShadowInv
    <2>2. /\ cash' = saved.cash /\ pos' = saved.pos /\ halted' = saved.halted
          /\ pending' = saved.pending /\ bar' = saved.bar /\ fills' = saved.fills
          /\ mark' = saved.mark /\ execMark' = saved.execMark
          /\ lastCycle' = saved.lastCycle
          /\ saved' = saved /\ released' = released /\ phase' = "idle" /\ due' = {}
        BY DEF Crash, GivesUp
    <2>3. Snapshot' = [cash |-> saved.cash, pos |-> saved.pos, halted |-> saved.halted,
             pending |-> saved.pending, bar |-> saved.bar, fills |-> saved.fills,
             mark |-> saved.mark, execMark |-> saved.execMark,
             lastCycle |-> saved.lastCycle]
        BY <2>2 DEF Snapshot
    <2>4. Snapshot' = saved
        BY <2>1, <2>3, Zenon DEF SavedShape
    <2> QED BY <2>2, <2>4
<1>2. SnapshotOK(saved) /\ SavedShape
    BY DEF ShadowInv
<1>3. SnapshotOK(saved)' /\ SavedShape'
    BY <1>1, <1>2 DEF SnapshotOK, SavedShape
<1>4. SnapshotOK(Snapshot)'
    BY <1>1, <1>2 DEF SnapshotOK
<1>5. ShadowInv'
    BY <1>1, <1>3, <1>4, EndsCycle
<1> QED BY <1>1, <1>5 DEF Restored

\* What a simulated run keeps, and that a halted one only reduces.
LEMMA ShadowStep ==
    ASSUME ShadowInv, HistoryTypes, HistoryTypes', NextShadow
    PROVE  ShadowInv' /\ (halted => Shrunk \/ Restored)
<1>1. CASE Tick
    BY <1>1, TickKeeps
<1>2. CASE AnyPoll
    BY <1>2, PollKeeps
<1>3. CASE \/ RejectEvent \/ SkipExecution \/ FeaturesFail \/ ShadowStaysHalted
           \/ \E intents \in ShadowLists : ShadowDecide(intents, NoTarget)
           \/ \E target \in ShadowTargets : ShadowDecide(<<>>, target)
    BY <1>3, QuietKeeps
<1>4. CASE ExecuteHalted
    BY <1>4, HaltedExecution
<1>5. CASE ExecutePending
    <2>1. ~halted
        BY <1>5 DEF ExecutePending, MayTrade
    <2> QED BY <1>5, <2>1, PendingExecution
<1>6. CASE ShadowBreach
    BY <1>6, HaltKeeps
<1>7. CASE Mark
    BY <1>7, MarkKeeps
<1>8. CASE Crash
    BY <1>8, CrashKeeps
<1> QED BY <1>1, <1>2, <1>3, <1>4, <1>5, <1>6, <1>7, <1>8 DEF NextShadow

LEMMA ShadowInit ==
    ASSUME InitRun, InitShadow, phase = "idle"
    PROVE  ShadowInv
<1>1. BookOK(Snapshot) /\ \A s \in Symbols : Traded(Snapshot, s) = 0
    BY StartBook
<1>2. /\ execMark = [s \in Symbols |-> None] /\ lastCycle = None /\ due = {}
      /\ saved = Snapshot /\ mark = [s \in Symbols |-> None]
      /\ released = [s \in Symbols |-> Warmup - 1] /\ fills = <<>>
    BY DEF InitShadow, InitFeed, InitRun
<1>3. None = -1 /\ None \in Stamps /\ Warmup - 1 \in Nat
    BY FeedAssumption DEF None, Stamps
<1>4. SnapshotOK(Snapshot)
    <2>1. Absorbed(Snapshot)
        BY <1>1 DEF Absorbed
    <2>2. Snapshot.fills \in Seq(OpenFills(Snapshot.bar))
        BY <1>2, SnapshotFields
    <2> QED BY <1>1, <1>2, <1>3, <2>1, <2>2, SnapshotFields DEF SnapshotOK
<1>5. SavedShape
    BY <1>2 DEF SavedShape, Snapshot
<1> QED BY <1>2, <1>4, <1>5 DEF ShadowInv

(***************************************************************************)
(* What a list of requests asks of a symbol.                               *)
(***************************************************************************)
Part(f, s, n) == IF f.sym = s THEN n ELSE 0

LEMMA NewNone ==
    ASSUME NEW O, NEW x, x.fills \in Seq(O), NEW y, y.fills = x.fills
    PROVE  NewFills(x, y) = <<>>
<1>1. Len(x.fills) \in Nat
    OBVIOUS
<1>2. SubSeq(y.fills, Len(x.fills) + 1, Len(y.fills)) = <<>>
    <2>1. /\ Len(x.fills) + 1 \in Int /\ Len(y.fills) \in Int
          /\ Len(y.fills) < Len(x.fills) + 1
        BY <1>1
    <2> QED BY <2>1, SubSeqEmpty
<1> QED BY <1>2 DEF NewFills

LEMMA NewOne ==
    ASSUME NEW O, NEW x, x.fills \in Seq(O), NEW f \in O, NEW y,
           y.fills = Append(x.fills, f)
    PROVE  NewFills(x, y) = <<f>>
<1> DEFINE n == Len(x.fills)
<1> DEFINE q == SubSeq(y.fills, n + 1, Len(y.fills))
<1>1. n \in Nat /\ y.fills \in Seq(O) /\ Len(y.fills) = n + 1 /\ y.fills[n + 1] = f
    OBVIOUS
<1>2. n + 1 \in 1..Len(y.fills)
    BY <1>1
<1>3. \A m \in (n + 1)..Len(y.fills) : y.fills[m] \in O
    BY <1>1
<1>4. q \in Seq(O) /\ Len(q) = 1 /\ q[1] = f
    <2>1. Len(q) = 1 /\ q \in Seq(O) /\ \A i \in 1..1 : q[i] = y.fills[(n + 1) + i - 1]
        BY <1>1, <1>2, <1>3, SubSeqProperties
    <2>2. (n + 1) + 1 - 1 = n + 1 /\ 1 \in 1..1
        BY <1>1
    <2> QED BY <1>1, <2>1, <2>2
<1> HIDE DEF q
<1>5. q = <<f>>
    BY <1>4
<1> QED BY <1>5 DEF q, NewFills

LEMMA FilledNone ==
    ASSUME NEW x, NEW y, NewFills(x, y) = <<>>, NEW s, NEW kinds
    PROVE  FilledOf(x, y, s, kinds) = 0
<1>1. NewFills(x, y) \in Seq({}) /\ Len(NewFills(x, y)) = 0
    OBVIOUS
<1>2. PICK h : FilledRun(h, NewFills(x, y), s, kinds, FilledOf(x, y, s, kinds))
    BY <1>1, FilledUnfolds
<1> QED BY <1>1, <1>2 DEF FilledRun

LEMMA FilledOne ==
    ASSUME NEW O, \A f \in O : f.qty \in Nat, NEW f \in O, NEW x, NEW y,
           NewFills(x, y) = <<f>>, NEW s, NEW kinds
    PROVE  FilledOf(x, y, s, kinds) = IF f.sym = s /\ f.kind \in kinds THEN f.qty ELSE 0
<1> DEFINE fs == NewFills(x, y)
<1>1. fs \in Seq(O) /\ Len(fs) = 1 /\ fs[1] = f /\ f.qty \in Nat
    OBVIOUS
<1>2. PICK h : FilledRun(h, fs, s, kinds, FilledOf(x, y, s, kinds))
    BY <1>1, FilledUnfolds
<1>3. /\ h[0] = 0 /\ h[1] = FilledOf(x, y, s, kinds)
      /\ h[1] = FilledStep(fs, s, kinds, 1, h[0])
    <2>1. /\ h[0] = 0 /\ h[Len(fs)] = FilledOf(x, y, s, kinds)
          /\ \A k \in 1..Len(fs) : h[k] = FilledStep(fs, s, kinds, k, h[k - 1])
        BY <1>2 DEF FilledRun
    <2>2. 1 \in 1..1 /\ 1 - 1 = 0
        OBVIOUS
    <2> HIDE DEF fs
    <2>3. h[1] = FilledStep(fs, s, kinds, 1, h[1 - 1])
        BY <1>1, <2>1, <2>2
    <2> QED BY <1>1, <2>1, <2>2, <2>3
<1> HIDE DEF fs
<1> QED BY <1>1, <1>3 DEF FilledStep

\* Of a list without its head, and of what is kept of it, no more is asked.
LEMMA TradedKept ==
    ASSUME NEW O, \A f \in O : f.qty \in Nat, NEW fs \in Seq(O), fs # <<>>, NEW S,
           fs[1] \notin S, NEW s
    PROVE  /\ Traded([fills |-> Kept(fs, S)], s) \in Nat
           /\ Traded([fills |-> Kept(fs, S)], s) + Part(fs[1], s, fs[1].qty)
                <= Traded([fills |-> fs], s)
<1> DEFINE n == Len(fs)
<1> DEFINE c == Part(fs[1], s, fs[1].qty)
<1>1. n \in Nat /\ n >= 1 /\ fs[1] \in O /\ c \in Nat
    BY DEF Part
<1>2. PICK a : TradedRun(a, fs, s, Traded([fills |-> fs], s))
    <2>1. [fills |-> fs].fills = fs
        OBVIOUS
    <2> QED BY <2>1, TradedFold
<1>3. PICK h : KeptRun(h, O, fs, S)
    BY KeptFold
<1>4. /\ a \in [0..n -> Nat] /\ a[0] = 0 /\ a[n] = Traded([fills |-> fs], s)
      /\ \A k \in 1..n : a[k] = TradedStep(fs, s, k, a[k - 1])
    BY <1>2 DEF TradedRun
<1>5. /\ h \in [0..n -> Seq(O)] /\ h[0] = <<>> /\ Kept(fs, S) = h[n]
      /\ \A k \in 1..n : h[k] = KeptStep(fs, S, k, h[k - 1])
    BY <1>3 DEF KeptRun
<1> DEFINE sum(k) == Traded([fills |-> h[k]], s)
<1>6. \A k \in 0..n : h[k] \in Seq(O) /\ sum(k) \in Nat
    <2>1. ASSUME NEW k \in 0..n
          PROVE  h[k] \in Seq(O) /\ sum(k) \in Nat
        <3>1. h[k] \in Seq(O)
            BY <1>5
        <3>2. [fills |-> h[k]].fills = h[k]
            OBVIOUS
        <3> QED BY <3>1, <3>2, TradedNat
    <2> QED BY <2>1
<1> DEFINE G == {k \in 0..n : k >= 1 => sum(k) + c <= a[k]}
<1>7. 0 \in G
    BY <1>1
<1>8. ASSUME NEW k \in 1..n, k - 1 \in G
      PROVE  k \in G
    <2>0. k \in 0..n /\ k - 1 \in 0..n
        BY <1>1
    <2>a. fs[k] \in O /\ fs[k].qty \in Nat
        BY <1>1
    <2>b. a[k] = TradedStep(fs, s, k, a[k - 1]) /\ a[k - 1] \in Nat
        BY <1>4, <2>0
    <2>c. h[k] = KeptStep(fs, S, k, h[k - 1])
        BY <1>5
    <2>d. sum(k - 1) \in Nat /\ h[k - 1] \in Seq(O)
        BY <1>6, <2>0
    <2> HIDE DEF sum
    <2>1. /\ k \in 0..n /\ k - 1 \in 0..n /\ fs[k] \in O /\ fs[k].qty \in Nat
          /\ h[k] = KeptStep(fs, S, k, h[k - 1])
          /\ a[k] = TradedStep(fs, s, k, a[k - 1])
          /\ a[k - 1] \in Nat /\ sum(k - 1) \in Nat /\ h[k - 1] \in Seq(O)
        BY <2>0, <2>a, <2>b, <2>c, <2>d
    <2>2. a[k] = a[k - 1] + Part(fs[k], s, fs[k].qty) /\ Part(fs[k], s, fs[k].qty) \in Nat
        BY <2>1 DEF TradedStep, Part
    <2>3. CASE k = 1
        <3>1. h[1] = <<>>
            BY <1>5, <2>1, <2>3 DEF KeptStep
        <3>2. sum(1) = 0
            BY <3>1, TradedNone DEF sum
        <3>3. a[1] = c
            BY <1>4, <2>2, <2>3
        <3>4. sum(k) + c <= a[k]
            BY <1>1, <2>3, <3>2, <3>3
        <3> QED BY <2>1, <3>4
    <2>4. CASE k # 1
        <3>1. sum(k - 1) + c <= a[k - 1]
            BY <1>1, <1>8, <2>1, <2>4
        <3>2. sum(k) <= sum(k - 1) + Part(fs[k], s, fs[k].qty)
            <4>1. CASE fs[k] \in S
                <5>1. h[k] = Append(h[k - 1], fs[k])
                    BY <2>1, <4>1 DEF KeptStep
                <5> DEFINE x == [fills |-> h[k - 1]]
                <5> DEFINE y == [fills |-> h[k]]
                <5> DEFINE f == fs[k]
                <5>2. /\ x.fills \in Seq(O) /\ y.fills = Append(x.fills, f)
                      /\ f \in O
                    BY <2>1, <5>1
                <5>3. Traded(x, s) = sum(k - 1) /\ Traded(y, s) = sum(k)
                    BY DEF sum
                <5> HIDE DEF x, y, f
                <5>4. Traded(y, s) = Traded(x, s) + (IF f.sym = s THEN f.qty ELSE 0)
                    BY <5>2, TradedMore, SMTT(30)
                <5>5. sum(k) = sum(k - 1) + (IF fs[k].sym = s THEN fs[k].qty ELSE 0)
                    BY <5>3, <5>4 DEF f
                <5> QED BY <2>1, <5>5 DEF Part
            <4>2. CASE fs[k] \notin S
                <5>1. h[k] = h[k - 1]
                    BY <2>1, <4>2 DEF KeptStep
                <5>2. sum(k) = sum(k - 1)
                    BY <5>1 DEF sum
                <5> QED BY <2>1, <2>2, <5>2
            <4> QED BY <4>1, <4>2
        <3>3. sum(k) \in Nat
            BY <1>6, <2>1
        <3>4. sum(k) + c <= a[k]
            BY <1>1, <2>1, <2>2, <3>1, <3>2, <3>3
        <3> QED BY <2>1, <3>4
    <2> QED BY <2>3, <2>4
<1>9. n \in G
    <2>1. \A k \in 0..n : k \in G
        <3> HIDE DEF G, n
        <3> QED BY <1>1, <1>7, <1>8, Upward
    <2> QED BY <1>1, <2>1
<1>10. sum(n) + c <= a[n] /\ sum(n) \in Nat
    BY <1>1, <1>6, <1>9
<1> HIDE DEF n, c
<1> QED BY <1>4, <1>5, <1>10 DEF c

LEMMA TradedTail ==
    ASSUME NEW O, \A f \in O : f.qty \in Nat, NEW fs \in Seq(O), fs # <<>>, NEW s
    PROVE  /\ Traded([fills |-> Tail(fs)], s) \in Nat
           /\ Traded([fills |-> Tail(fs)], s) + Part(fs[1], s, fs[1].qty)
                = Traded([fills |-> fs], s)
<1> DEFINE n == Len(fs)
<1> DEFINE ts == Tail(fs)
<1> DEFINE c == Part(fs[1], s, fs[1].qty)
<1>1. /\ n \in Nat /\ n >= 1 /\ fs[1] \in O /\ c \in Nat
      /\ ts \in Seq(O) /\ Len(ts) = n - 1 /\ \A k \in 1..(n - 1) : ts[k] = fs[k + 1]
    BY DEF Part
<1>2. PICK a : TradedRun(a, fs, s, Traded([fills |-> fs], s))
    <2>1. [fills |-> fs].fills = fs
        OBVIOUS
    <2> QED BY <2>1, TradedFold
<1>3. PICK b : TradedRun(b, ts, s, Traded([fills |-> ts], s))
    <2>1. [fills |-> ts].fills = ts
        OBVIOUS
    <2> HIDE DEF ts
    <2> QED BY <1>1, <2>1, TradedFold
<1>4. /\ a \in [0..n -> Nat] /\ a[0] = 0 /\ a[n] = Traded([fills |-> fs], s)
      /\ \A k \in 1..n : a[k] = TradedStep(fs, s, k, a[k - 1])
    BY <1>2 DEF TradedRun
<1> HIDE DEF ts
<1>5. /\ b \in [0..(n - 1) -> Nat] /\ b[0] = 0 /\ b[n - 1] = Traded([fills |-> ts], s)
      /\ \A k \in 1..(n - 1) : b[k] = TradedStep(ts, s, k, b[k - 1])
    BY <1>1, <1>3 DEF TradedRun
<1> DEFINE G == {k \in 0..(n - 1) : b[k] + c = a[k + 1]}
<1>6. 0 \in G
    <2>1. a[1] = TradedStep(fs, s, 1, a[0])
        <3>1. 1 \in 1..n /\ 1 - 1 = 0
            BY <1>1
        <3>2. a[1] = TradedStep(fs, s, 1, a[1 - 1])
            BY <1>4, <3>1
        <3> QED BY <3>1, <3>2
    <2>2. a[1] = c
        BY <1>1, <1>4, <2>1 DEF TradedStep, Part
    <2>3. b[0] + c = a[0 + 1] /\ 0 \in 0..(n - 1)
        BY <1>1, <1>5, <2>2
    <2> QED BY <2>3
<1>7. ASSUME NEW k \in 1..(n - 1), k - 1 \in G
      PROVE  k \in G
    <2>1. k \in 0..(n - 1) /\ k + 1 \in 1..n /\ (k + 1) - 1 = k /\ (k - 1) + 1 = k
        BY <1>1
    <2>2. /\ b[k] = TradedStep(ts, s, k, b[k - 1])
          /\ a[k + 1] = TradedStep(fs, s, k + 1, a[k])
          /\ ts[k] = fs[k + 1] /\ fs[k + 1] \in O /\ fs[k + 1].qty \in Nat
        <3>1. a[k + 1] = TradedStep(fs, s, k + 1, a[(k + 1) - 1])
            BY <1>4, <2>1
        <3> QED BY <1>1, <1>4, <1>5, <2>1, <3>1
    <2>3. b[k - 1] + c = a[k] /\ b[k - 1] \in Nat /\ a[k] \in Nat
        <3>1. b[k - 1] + c = a[(k - 1) + 1]
            BY <1>7
        <3>2. k - 1 \in 0..(n - 1) /\ k \in 0..n
            BY <1>1, <2>1
        <3> QED BY <1>4, <1>5, <2>1, <3>1, <3>2
    <2>4. b[k] + c = a[k + 1]
        BY <1>1, <2>2, <2>3, SMTT(30) DEF TradedStep
    <2> QED BY <2>1, <2>4
<1>8. n - 1 \in G
    <2>1. n - 1 \in Nat /\ n - 1 \in 0..(n - 1)
        BY <1>1
    <2>2. \A k \in 0..(n - 1) : k \in G
        <3> HIDE DEF G, n
        <3> QED BY <1>6, <1>7, <2>1, Upward
    <2> QED BY <2>1, <2>2
<1>9. b[n - 1] + c = a[n] /\ b[n - 1] \in Nat
    <2>1. (n - 1) + 1 = n /\ n - 1 \in 0..(n - 1)
        BY <1>1
    <2> QED BY <1>5, <1>8, <2>1
<1> HIDE DEF n, c
<1> QED BY <1>4, <1>5, <1>9 DEF c, ts

(***************************************************************************)
(* The plan of a live decision: what it asks of a symbol beyond what the   *)
(* bar already filled stays within what the bar allows.                    *)
(***************************************************************************)
LiveFills == {f \in Fills : f.tif = "none"}
Requests == [sym: Symbols, act: Actions, qty: Nat, limit: BOOLEAN, tif: {"none"},
             group: GroupIds, protect: SUBSET Protections, at: Stamps,
             since: Stamps, side: Sides \union {"none"}, asked: Nat,
             of: GroupIds]
Matched(p, x0) ==
    \A s \in Symbols : Traded(p.y, s) = Traded(x0, s) + Traded([fills |-> p.out], s)
Errors == {"none", "skip", "raise", "unavailable"}
Drafts == [x: Books(Fills), y: Books(LiveFills), out: Seq(Requests), err: Errors]
\* The plans that start from the book x0.
Plans(x0, ref) ==
    {p \in Drafts : Fits(x0, p.y, ref) /\ (p.err = "none" => Matched(p, x0))}

LEMMA WholeLots ==
    ASSUME NEW n \in Nat, NEW d \in Nat \ {0}
    PROVE  n - (n % d) \in Nat
<1>1. n % d \in 0..(d - 1) /\ n \div d \in Int
    BY SMT
<1>2. n = d * (n \div d) + (n % d)
    BY SMT
<1>3. n \div d >= 0
    BY <1>1, <1>2, SMT
<1> DEFINE q == n \div d
<1>4. d * q >= 0 /\ d * q \in Int
    BY <1>1, <1>3, SMT
<1> QED BY <1>1, <1>2, <1>4

LEMMA PreparedType ==
    ASSUME NEW r \in Requests
    PROVE  Prepared(r) \in Requests
<1>1. r.qty \in Nat /\ VenueLot[r.sym] \in Nat \ {0}
    BY LiveAssumption DEF Requests
<1>2. VenueQuantity(r) \in Nat
    BY <1>1, WholeLots DEF VenueQuantity
<1> QED BY <1>2 DEF Prepared, Requests

LEMMA RequestOrder ==
    ASSUME NEW r \in Requests, NEW bars0
    PROVE  /\ IsOrder(r) /\ MayFill(r, bars0, LiveFills)
           /\ \A kind \in Kinds, n \in Nat : Fill(r, kind, n) \in LiveFills
<1>1. IsOrder(r) /\ r.tif = "none"
    BY DEF IsOrder, Requests, AnyTif, Resting
<1>2. \A kind \in Kinds, n \in Nat : Fill(r, kind, n) \in LiveFills
    <2>1. ASSUME NEW kind \in Kinds, NEW n \in Nat
          PROVE  Fill(r, kind, n) \in LiveFills
        <3>1. Fill(r, kind, n) \in Fills
            BY <1>1, FillType
        <3>2. Fill(r, kind, n).tif = "none"
            BY <1>1 DEF Fill
        <3> QED BY <3>1, <3>2 DEF LiveFills
    <2> QED BY <2>1
<1> QED BY <1>1, <1>2 DEF MayFill

LEMMA DraftFields ==
    ASSUME NEW x0, NEW ref, NEW p \in Plans(x0, ref)
    PROVE  /\ p \in Drafts
           /\ p.x \in Books(Fills) /\ p.y \in Books(LiveFills)
           /\ p.out \in Seq(Requests) /\ p.err \in Errors
           /\ Fits(x0, p.y, ref)
           /\ p.err = "none" => Matched(p, x0)
BY DEF Plans, Drafts

LEMMA ErrPlan ==
    ASSUME NEW x0, NEW ref, NEW p \in Plans(x0, ref), NEW what \in Errors \ {"none"}
    PROVE  Err(p, what) \in Plans(x0, ref)
<1> DEFINE q == Err(p, what)
<1>1. q \in Drafts /\ q.y = p.y /\ q.err = what
    BY DraftFields DEF Err, Drafts
<1> HIDE DEF q
<1>2. q \in Plans(x0, ref)
    BY <1>1, DraftFields DEF Plans
<1> QED BY <1>2 DEF q

LEMMA StagedPlan ==
    ASSUME NEW x0, NEW ref, NEW p \in Plans(x0, ref), NEW x \in Books(Fills)
    PROVE  [p EXCEPT !.x = x] \in Plans(x0, ref) /\ [p EXCEPT !.x = x].err = p.err
<1> DEFINE q == [p EXCEPT !.x = x]
<1>1. /\ q \in Drafts /\ q.y = p.y /\ q.err = p.err /\ q.out = p.out
    BY DraftFields DEF Drafts
<1> HIDE DEF q
<1>2. q \in Plans(x0, ref)
    BY <1>1, DraftFields DEF Plans, Matched
<1> QED BY <1>1, <1>2 DEF q

LEMMA RequestType ==
    ASSUME NEW p, p.x \in Books(Fills), NEW i, IsOrder(i), NEW kind, NEW n \in Nat
    PROVE  RequestOf(p, i, kind, n) \in Requests
<1>1. /\ i.sym \in Symbols /\ i.act \in Actions /\ i.limit \in BOOLEAN
      /\ i.group \in GroupIds /\ i.protect \in SUBSET Protections
      /\ i.at \in Stamps /\ i.since \in Stamps
    BY DEF IsOrder
<1>2. p.x.pos[i.sym].group \in GroupIds
    BY <1>1 DEF Books, Positions
<1>3. OrderSide(p.x.pos, i) \in Sides \union {"none"}
    BY DEF OrderSide, Sides
<1> QED BY <1>1, <1>2, <1>3 DEF RequestOf, Requests

\* What executing a request adds is one fill of it, or nothing.
LEMMA ExecutedRequest ==
    ASSUME NEW x \in Books(LiveFills), NEW ref \in Cohorts, NEW r \in Requests,
           NEW y, y = ExecuteIntent(x, ref, MaxPosition, r)
    PROVE  \/ y.fills = x.fills
           \/ \E f \in LiveFills : /\ y.fills = Append(x.fills, f) /\ f.sym = r.sym
                                   /\ f.kind \in Kinds
<1>0. IsOrder(r) /\ LiveFills \in SUBSET Fills /\ r.tif = "none"
      /\ \A kind \in Kinds, n \in Nat : Fill(r, kind, n) \in LiveFills
    BY RequestOrder DEF LiveFills, Requests
<1>1. \/ y = x
      \/ Rests(x, y, ref, r)
      \/ \E n \in Nat : Enters(x, y, ref, r, n)
      \/ \E n \in Nat : Leaves(x, y, ref, r, n)
    BY <1>0, IntentCases
<1>2. ~Rests(x, y, ref, r)
    BY <1>0 DEF Rests, Resting
<1>3. ASSUME NEW n \in Nat, Enters(x, y, ref, r, n)
      PROVE  \E f \in LiveFills : /\ y.fills = Append(x.fills, f) /\ f.sym = r.sym
                                  /\ f.kind \in Kinds
    <2>1. PICK p \in Positions, kind \in {"open", "add"} :
             Filled(x, y, r.sym, p, Fill(r, kind, n))
        BY <1>0, <1>3, EntersEffect
    <2>2. /\ y.fills = Append(x.fills, Fill(r, kind, n))
          /\ kind \in Kinds /\ Fill(r, kind, n).sym = r.sym /\ Fill(r, kind, n).kind = kind
        BY <2>1 DEF Filled, Kinds, Fill
    <2>3. Fill(r, kind, n) \in LiveFills
        BY <1>0, <2>2
    <2> QED BY <2>2, <2>3
<1>4. ASSUME NEW n \in Nat, Leaves(x, y, ref, r, n)
      PROVE  \E f \in LiveFills : /\ y.fills = Append(x.fills, f) /\ f.sym = r.sym
                                  /\ f.kind \in Kinds
    <2>1. PICK p \in Positions, kind \in {"reduce", "close"} :
             Filled(x, y, r.sym, p, Fill(r, kind, n))
        BY <1>0, <1>4, LeavesEffect
    <2>2. /\ y.fills = Append(x.fills, Fill(r, kind, n))
          /\ kind \in Kinds /\ Fill(r, kind, n).sym = r.sym /\ Fill(r, kind, n).kind = kind
        BY <2>1 DEF Filled, Kinds, Fill
    <2>3. Fill(r, kind, n) \in LiveFills
        BY <1>0, <2>2
    <2> QED BY <2>2, <2>3
<1> QED BY <1>1, <1>2, <1>3, <1>4

\* A request is queued only when the judging book took all of it.
LEMMA JudgeKeeps ==
    ASSUME NEW x0 \in Books(LiveFills), NEW ref \in Cohorts, NEW p \in Plans(x0, ref),
           p.err = "none", NEW r \in Requests
    PROVE  JudgeRequest(p, ref, r) \in Plans(x0, ref)
<1> DEFINE y == ExecuteIntent(p.y, ref, MaxPosition, r)
<1> DEFINE whole == FilledOf(p.y, y, r.sym, {"open", "add", "reduce", "close"})
<1> DEFINE q == [p EXCEPT !.y = y]
<1> DEFINE w == [p EXCEPT !.y = y, !.out = Append(@, r)]
<1>0. /\ p \in Drafts /\ p.y \in Books(LiveFills) /\ p.out \in Seq(Requests)
      /\ Fits(x0, p.y, ref) /\ Matched(p, x0) /\ LiveFills \in SUBSET Fills
      /\ p.y.fills \in Seq(LiveFills)
    BY DraftFields DEF LiveFills, Books
<1>1. IsOrder(r) /\ MayFill(r, ref, LiveFills)
    BY RequestOrder
<1>2. y \in Books(LiveFills) /\ Fits(p.y, y, ref)
    BY <1>0, <1>1, IntentFits
<1>3. \/ y.fills = p.y.fills
      \/ \E f \in LiveFills : /\ y.fills = Append(p.y.fills, f) /\ f.sym = r.sym
                              /\ f.kind \in Kinds
    BY <1>0, ExecutedRequest
<1>4. JudgeRequest(p, ref, r) = Judge(p, r, y)
    BY DEF JudgeRequest
<1> HIDE DEF y
<1>5. Fits(x0, y, ref)
    BY <1>0, <1>2, FitsOnward
<1>6. /\ q \in Drafts /\ q.y = y
      /\ w \in Drafts /\ w.y = y /\ w.out = Append(p.out, r) /\ w.err = "none"
    <2> DEFINE o == Append(p.out, r)
    <2>1. o \in Seq(Requests)
        BY <1>0
    <2>2. q \in Drafts /\ q.y = y /\ q.out = p.out /\ q.err = "none"
        BY <1>0, <1>2 DEF Drafts
    <2> HIDE DEF o
    <2> DEFINE v == [q EXCEPT !.out = o]
    <2>3. v \in Drafts /\ v.y = y /\ v.out = o /\ v.err = "none"
        <3> HIDE DEF q
        <3> QED BY <2>1, <2>2 DEF Drafts
    <2>4. w = v
        BY <1>0 DEF o, Drafts
    <2> HIDE DEF v, w, q
    <2> QED BY <2>2, <2>3, <2>4 DEF o
<1>7. ASSUME r.qty # 0, whole = r.qty
      PROVE  Matched(w, x0)
    <2>1. y.fills # p.y.fills
        <3>1. ASSUME y.fills = p.y.fills
              PROVE  FALSE
            <4>1. NewFills(p.y, y) = <<>>
                BY <1>0, <3>1, NewNone
            <4>2. whole = 0
                BY <4>1, FilledNone
            <4> QED BY <1>7, <4>2
        <3> QED BY <3>1
    <2>2. PICK f \in LiveFills : /\ y.fills = Append(p.y.fills, f) /\ f.sym = r.sym
                                 /\ f.kind \in Kinds
        BY <1>3, <2>1
    <2>3. \A e \in LiveFills : e.qty \in Nat
        BY DEF LiveFills, Fills
    <2>4. f.qty = r.qty
        <3>1. NewFills(p.y, y) = <<f>>
            BY <1>0, <2>2, NewOne
        <3>2. whole = f.qty
            <4>1. whole = IF f.sym = r.sym /\ f.kind \in {"open", "add", "reduce", "close"}
                          THEN f.qty ELSE 0
                BY <2>3, <3>1, FilledOne
            <4> QED BY <2>2, <4>1 DEF Kinds
        <3> QED BY <1>7, <3>2
    <2>5. ASSUME NEW s \in Symbols
          PROVE  Traded(w.y, s) = Traded(x0, s) + Traded([fills |-> w.out], s)
        <3> DEFINE u == [fills |-> p.out]
        <3> DEFINE v == [fills |-> w.out]
        <3>1. Traded(y, s) = Traded(p.y, s) + (IF f.sym = s THEN f.qty ELSE 0)
            <4> DEFINE a == p.y
            <4>1. a.fills \in Seq(LiveFills) /\ y.fills = Append(a.fills, f) /\ f \in LiveFills
                BY <1>0, <2>2
            <4> HIDE DEF a, w, whole, q, u, v
            <4>2. Traded(y, s) = Traded(a, s) + (IF f.sym = s THEN f.qty ELSE 0)
                BY <2>3, <4>1, TradedMore
            <4> QED BY <4>2 DEF a
        <3>2. u.fills \in Seq(Requests) /\ v.fills = Append(u.fills, r)
            BY <1>0, <1>6
        <3>3. \A e \in Requests : e.qty \in Nat
            BY DEF Requests
        <3>4. Traded(p.y, s) = Traded(x0, s) + Traded(u, s)
            BY <1>0 DEF Matched
        <3>5. Traded(x0, s) \in Nat /\ Traded(u, s) \in Nat /\ r.qty \in Nat
            <4>1. x0.fills \in Seq(LiveFills)
                BY DEF Books
            <4> HIDE DEF u
            <4> QED BY <2>3, <3>2, <3>3, <4>1, TradedNat
        <3> HIDE DEF u, v
        <3>6. Traded(v, s) = Traded(u, s) + (IF r.sym = s THEN r.qty ELSE 0)
            BY <3>2, <3>3, TradedMore
        <3>7. Traded(w.y, s) = Traded(x0, s) + Traded(v, s)
            BY <1>6, <2>2, <2>4, <3>1, <3>4, <3>5, <3>6
        <3> QED BY <3>7 DEF v
    <2> QED BY <2>5 DEF Matched
<1> HIDE DEF w, whole
<1>8. Err(p, "skip") \in Plans(x0, ref) /\ Err(p, "raise") \in Plans(x0, ref)
    BY ErrPlan DEF Errors
<1>9. Err(q, "raise") \in Plans(x0, ref)
    <2> DEFINE z == Err(q, "raise")
    <2>1. z \in Drafts /\ z.y = y /\ z.err = "raise"
        BY <1>6 DEF Err, Drafts, Errors
    <2> HIDE DEF z
    <2>2. z \in Plans(x0, ref)
        BY <1>5, <2>1 DEF Plans
    <2> QED BY <2>2 DEF z
<1>10. (r.qty # 0 /\ whole = r.qty) => w \in Plans(x0, ref)
    BY <1>5, <1>6, <1>7 DEF Plans
<1>11. Judge(p, r, y) = IF r.qty = 0
                        THEN Err(p, IF r.of = NoGroup /\ r.act = "close" THEN "skip" ELSE "raise")
                        ELSE IF whole # r.qty \/ Overexposed(p.y.pos, y.pos)
                        THEN Err(q, "raise") ELSE w
    BY DEF Judge, w, whole
<1> HIDE DEF q
<1> QED BY <1>4, <1>8, <1>9, <1>10, <1>11

LEMMA PreparedKeeps ==
    ASSUME NEW x0 \in Books(LiveFills), NEW ref \in Cohorts, NEW p \in Plans(x0, ref),
           p.err = "none", NEW i, IsOrder(i), NEW kind, NEW n \in Nat,
           NEW x \in Books(Fills)
    PROVE  PrepareLeg([p EXCEPT !.x = x], ref, RequestOf(p, i, kind, n)) \in Plans(x0, ref)
<1> DEFINE q == [p EXCEPT !.x = x]
<1>1. q \in Plans(x0, ref) /\ q.err = "none"
    BY StagedPlan
<1> HIDE DEF q
<1> DEFINE r == RequestOf(p, i, kind, n)
<1>2. r \in Requests
    BY DraftFields, RequestType
<1> HIDE DEF r
<1>3. Prepared(r) \in Requests
    BY <1>2, PreparedType
<1>4. JudgeRequest(q, ref, Prepared(r)) \in Plans(x0, ref)
    BY <1>1, <1>3, JudgeKeeps
<1> QED BY <1>4 DEF PrepareLeg, q, r

(***************************************************************************)
(* The folds of the planner.  Y is a set of plans that every leg, unit or  *)
(* fill keeps.                                                             *)
(***************************************************************************)
LegOn(q, ref, i) == IF q.err = "none" THEN PlanLeg(q, ref, i) ELSE q
UnitOn(q, ref, unit) == IF q.err = "none" THEN PlanUnit(q, ref, unit) ELSE q
FillOn(q, ref, r, f) ==
    IF q.err = "none" THEN PlanFill(q, ref, f, Order(f.sym, ActOf(r, f), f.qty)) ELSE q

\* h is the run of the planner over the legs of a unit, or over the units.
LegRun(h, Y, p, ref, unit) ==
    /\ h \in [0..Len(unit) -> Y] /\ h[0] = p /\ h[Len(unit)] = PlanLegs(p, ref, unit)
    /\ \A k \in 1..Len(unit) : h[k] = LegOn(h[k - 1], ref, unit[k])
UnitRun(h, Y, p, ref, intents) ==
    /\ h \in [0..Len(Units(intents)) -> Y] /\ h[0] = p
    /\ h[Len(Units(intents))] = PlanUnits(p, ref, intents)
    /\ \A k \in 1..Len(Units(intents)) : h[k] = UnitOn(h[k - 1], ref, Units(intents)[k])
FillRun(h, Y, p, ref, r, new) ==
    /\ h \in [0..Len(new) -> Y] /\ h[0] = p /\ h[Len(new)] = PlanFills(p, ref, r, new)
    /\ \A k \in 1..Len(new) : h[k] = FillOn(h[k - 1], ref, r, new[k])

\* Each run exists, and ends where the fold does.
LEMMA LegsRun ==
    ASSUME NEW U, NEW unit \in Seq(U), NEW ref, NEW Y, NEW p \in Y,
           \A y \in Y, k \in 1..Len(unit) : LegOn(y, ref, unit[k]) \in Y
    PROVE  \E h : LegRun(h, Y, p, ref, unit)
<1> DEFINE n == Len(unit)
<1> DEFINE F == [z \in (1..n) \X Y |-> LegOn(z[2], ref, unit[z[1]])]
<1> DEFINE P(it) == it = [T \in SUBSET DOMAIN unit |->
                            IF T = {} THEN p
                            ELSE LegOn(it[T \ {Max(T)}], ref, unit[Max(T)])]
<1> DEFINE sum == CHOOSE it : P(it)
<1>1. n \in Nat /\ DOMAIN unit = 1..n /\ p \in Y
    OBVIOUS
<1>2. \A k \in 1..n, y \in Y : (LegOn(y, ref, unit[k])) \in Y
    OBVIOUS
<1>3. F \in [(1..n) \X Y -> Y]
    BY <1>2
<1>4. \A k \in 1..n, y \in Y : F[<<k, y>>] = LegOn(y, ref, unit[k])
    OBVIOUS
<1>5. \E it : P(it)
    <2>1. PICK it \in [SUBSET (1..n) -> Y] : Unwound(it, n, Y, p, F)
        <3> HIDE DEF F, n
        <3> QED BY <1>1, <1>3, ChainExists
    <2>2. ASSUME NEW T \in SUBSET (1..n), T # {}
          PROVE  it[T] = LegOn(it[T \ {Max(T)}], ref, unit[Max(T)])
        <3> HIDE DEF F, n
        <3> QED BY <2>1, <2>2, <1>4 DEF Unwound
    <2>3. it[{}] = p
        BY <2>1 DEF Unwound
    <2>4. P(it)
        <3> HIDE DEF F
        <3> QED BY <1>1, <2>2, <2>3
    <2> QED BY <2>4
<1>6. P(sum)
    <2> HIDE DEF P
    <2> QED BY <1>5, Zenon
<1>7. PlanLegs(p, ref, unit) = sum[1..n]
    <2>1. PlanLegs(p, ref, unit) = sum[DOMAIN unit]
        BY DEF PlanLegs, LegOn, FoldLeft, MapThenFoldSet
    <2> QED BY <1>1, <2>1
<1> HIDE DEF sum
<1>8. sum[{}] = p /\ \A T \in SUBSET (1..n) :
              T # {} => sum[T] = LegOn(sum[T \ {Max(T)}], ref, unit[Max(T)])
    BY <1>1, <1>6
<1>9. Unwinds(sum, n, Y, p, F)
    <2>1. \A T \in SUBSET (1..n) : T # {} => Max(T) \in 1..n
        BY <1>1, MaxIn
    <2> HIDE DEF F, n, P
    <2> QED BY <1>4, <1>8, <2>1 DEF Unwinds
<1>10. PICK h : Chain(h, n, Y, p, F, sum[1..n])
    <2> HIDE DEF F, n, P
    <2> QED BY <1>1, <1>3, <1>9, ChainHolds
<1>11. /\ h \in [0..n -> Y] /\ h[0] = p /\ h[n] = sum[1..n]
       /\ \A k \in 1..n : h[k] = LegOn(h[k - 1], ref, unit[k])
    <2>1. \A k \in 1..n : k - 1 \in 0..n
        BY <1>1
    <2> HIDE DEF F, n, P
    <2> QED BY <1>4, <1>10, <2>1 DEF Chain
<1> HIDE DEF F, P
<1>12. LegRun(h, Y, p, ref, unit)
    BY <1>7, <1>11 DEF LegRun
<1> QED BY <1>12

LEMMA LegsKeep ==
    ASSUME NEW U, NEW unit \in Seq(U), NEW ref, NEW Y, NEW p \in Y,
           \A y \in Y, k \in 1..Len(unit) : LegOn(y, ref, unit[k]) \in Y
    PROVE  PlanLegs(p, ref, unit) \in Y
<1>1. PICK h : LegRun(h, Y, p, ref, unit)
    BY LegsRun
<1> QED BY <1>1 DEF LegRun

LEMMA UnitsRun ==
    ASSUME NEW U, NEW intents, Units(intents) \in Seq(U), NEW ref, NEW Y, NEW p \in Y,
           \A y \in Y, k \in 1..Len(Units(intents)) : UnitOn(y, ref, Units(intents)[k]) \in Y
    PROVE  \E h : UnitRun(h, Y, p, ref, intents)
<1> DEFINE n == Len(Units(intents))
<1> DEFINE F == [z \in (1..n) \X Y |-> UnitOn(z[2], ref, Units(intents)[z[1]])]
<1> DEFINE P(it) == it = [T \in SUBSET DOMAIN Units(intents) |->
                            IF T = {} THEN p
                            ELSE UnitOn(it[T \ {Max(T)}], ref, Units(intents)[Max(T)])]
<1> DEFINE sum == CHOOSE it : P(it)
<1>1. n \in Nat /\ DOMAIN Units(intents) = 1..n /\ p \in Y
    OBVIOUS
<1>2. \A k \in 1..n, y \in Y : (UnitOn(y, ref, Units(intents)[k])) \in Y
    OBVIOUS
<1>3. F \in [(1..n) \X Y -> Y]
    BY <1>2
<1>4. \A k \in 1..n, y \in Y : F[<<k, y>>] = UnitOn(y, ref, Units(intents)[k])
    OBVIOUS
<1>5. \E it : P(it)
    <2>1. PICK it \in [SUBSET (1..n) -> Y] : Unwound(it, n, Y, p, F)
        <3> HIDE DEF F, n
        <3> QED BY <1>1, <1>3, ChainExists
    <2>2. ASSUME NEW T \in SUBSET (1..n), T # {}
          PROVE  it[T] = UnitOn(it[T \ {Max(T)}], ref, Units(intents)[Max(T)])
        <3> HIDE DEF F, n
        <3> QED BY <2>1, <2>2, <1>4 DEF Unwound
    <2>3. it[{}] = p
        BY <2>1 DEF Unwound
    <2>4. P(it)
        <3> HIDE DEF F
        <3> QED BY <1>1, <2>2, <2>3
    <2> QED BY <2>4
<1>6. P(sum)
    <2> HIDE DEF P
    <2> QED BY <1>5, Zenon
<1>7. PlanUnits(p, ref, intents) = sum[1..n]
    <2>1. PlanUnits(p, ref, intents) = sum[DOMAIN Units(intents)]
        BY DEF PlanUnits, UnitOn, FoldLeft, MapThenFoldSet
    <2> QED BY <1>1, <2>1
<1> HIDE DEF sum
<1>8. sum[{}] = p /\ \A T \in SUBSET (1..n) :
              T # {} => sum[T] = UnitOn(sum[T \ {Max(T)}], ref, Units(intents)[Max(T)])
    BY <1>1, <1>6
<1>9. Unwinds(sum, n, Y, p, F)
    <2>1. \A T \in SUBSET (1..n) : T # {} => Max(T) \in 1..n
        BY <1>1, MaxIn
    <2> HIDE DEF F, n, P
    <2> QED BY <1>4, <1>8, <2>1 DEF Unwinds
<1>10. PICK h : Chain(h, n, Y, p, F, sum[1..n])
    <2> HIDE DEF F, n, P
    <2> QED BY <1>1, <1>3, <1>9, ChainHolds
<1>11. /\ h \in [0..n -> Y] /\ h[0] = p /\ h[n] = sum[1..n]
       /\ \A k \in 1..n : h[k] = UnitOn(h[k - 1], ref, Units(intents)[k])
    <2>1. \A k \in 1..n : k - 1 \in 0..n
        BY <1>1
    <2> HIDE DEF F, n, P
    <2> QED BY <1>4, <1>10, <2>1 DEF Chain
<1> HIDE DEF F, P
<1>12. UnitRun(h, Y, p, ref, intents)
    BY <1>7, <1>11 DEF UnitRun
<1> QED BY <1>12

LEMMA PlannedUnitsKeep ==
    ASSUME NEW U, NEW intents, Units(intents) \in Seq(U), NEW ref, NEW Y, NEW p \in Y,
           \A y \in Y, k \in 1..Len(Units(intents)) : UnitOn(y, ref, Units(intents)[k]) \in Y
    PROVE  PlanUnits(p, ref, intents) \in Y
<1>1. PICK h : UnitRun(h, Y, p, ref, intents)
    BY UnitsRun
<1> QED BY <1>1 DEF UnitRun

LEMMA FillsRun ==
    ASSUME NEW U, NEW new \in Seq(U), NEW ref, NEW r, NEW Y, NEW p \in Y,
           \A y \in Y, k \in 1..Len(new) : FillOn(y, ref, r, new[k]) \in Y
    PROVE  \E h : FillRun(h, Y, p, ref, r, new)
<1> DEFINE n == Len(new)
<1> DEFINE F == [z \in (1..n) \X Y |-> FillOn(z[2], ref, r, new[z[1]])]
<1> DEFINE P(it) == it = [T \in SUBSET DOMAIN new |->
                            IF T = {} THEN p
                            ELSE FillOn(it[T \ {Max(T)}], ref, r, new[Max(T)])]
<1> DEFINE sum == CHOOSE it : P(it)
<1>1. n \in Nat /\ DOMAIN new = 1..n /\ p \in Y
    OBVIOUS
<1>2. \A k \in 1..n, y \in Y : (FillOn(y, ref, r, new[k])) \in Y
    OBVIOUS
<1>3. F \in [(1..n) \X Y -> Y]
    BY <1>2
<1>4. \A k \in 1..n, y \in Y : F[<<k, y>>] = FillOn(y, ref, r, new[k])
    OBVIOUS
<1>5. \E it : P(it)
    <2>1. PICK it \in [SUBSET (1..n) -> Y] : Unwound(it, n, Y, p, F)
        <3> HIDE DEF F, n
        <3> QED BY <1>1, <1>3, ChainExists
    <2>2. ASSUME NEW T \in SUBSET (1..n), T # {}
          PROVE  it[T] = FillOn(it[T \ {Max(T)}], ref, r, new[Max(T)])
        <3> HIDE DEF F, n
        <3> QED BY <2>1, <2>2, <1>4 DEF Unwound
    <2>3. it[{}] = p
        BY <2>1 DEF Unwound
    <2>4. P(it)
        <3> HIDE DEF F
        <3> QED BY <1>1, <2>2, <2>3
    <2> QED BY <2>4
<1>6. P(sum)
    <2> HIDE DEF P
    <2> QED BY <1>5, Zenon
<1>7. PlanFills(p, ref, r, new) = sum[1..n]
    <2>1. PlanFills(p, ref, r, new) = sum[DOMAIN new]
        BY DEF PlanFills, FillOn, FoldLeft, MapThenFoldSet
    <2> QED BY <1>1, <2>1
<1> HIDE DEF sum
<1>8. sum[{}] = p /\ \A T \in SUBSET (1..n) :
              T # {} => sum[T] = FillOn(sum[T \ {Max(T)}], ref, r, new[Max(T)])
    BY <1>1, <1>6
<1>9. Unwinds(sum, n, Y, p, F)
    <2>1. \A T \in SUBSET (1..n) : T # {} => Max(T) \in 1..n
        BY <1>1, MaxIn
    <2> HIDE DEF F, n, P
    <2> QED BY <1>4, <1>8, <2>1 DEF Unwinds
<1>10. PICK h : Chain(h, n, Y, p, F, sum[1..n])
    <2> HIDE DEF F, n, P
    <2> QED BY <1>1, <1>3, <1>9, ChainHolds
<1>11. /\ h \in [0..n -> Y] /\ h[0] = p /\ h[n] = sum[1..n]
       /\ \A k \in 1..n : h[k] = FillOn(h[k - 1], ref, r, new[k])
    <2>1. \A k \in 1..n : k - 1 \in 0..n
        BY <1>1
    <2> HIDE DEF F, n, P
    <2> QED BY <1>4, <1>10, <2>1 DEF Chain
<1> HIDE DEF F, P
<1>12. FillRun(h, Y, p, ref, r, new)
    BY <1>7, <1>11 DEF FillRun
<1> QED BY <1>12

LEMMA FillsKeep ==
    ASSUME NEW U, NEW new \in Seq(U), NEW ref, NEW r, NEW Y, NEW p \in Y,
           \A y \in Y, k \in 1..Len(new) : FillOn(y, ref, r, new[k]) \in Y
    PROVE  PlanFills(p, ref, r, new) \in Y
<1>1. PICK h : FillRun(h, Y, p, ref, r, new)
    BY FillsRun
<1> QED BY <1>1 DEF FillRun

\* An intent, or an order of a target, on the book of the plan.
LEMMA StagedBook ==
    ASSUME NEW x0, NEW ref \in Cohorts, NEW p \in Plans(x0, ref), NEW i, IsOrder(i),
           NEW x, x = ExecuteIntent(p.x, ref, MaxPosition, i)
    PROVE  x \in Books(Fills) /\ NewFills(p.x, x) \in Seq(Fills)
<1>1. MayFill(i, ref, Fills) /\ p.x \in Books(Fills)
    BY FillType, DraftFields DEF MayFill
<1>2. x \in Books(Fills)
    BY <1>1, IntentFits
<1>3. p.x.fills \in Seq(Fills) /\ x.fills \in Seq(Fills)
    BY <1>1, <1>2 DEF Books
<1> QED BY <1>2, <1>3, NewFillsSeq

LEMMA StageKeeps ==
    ASSUME NEW x0 \in Books(LiveFills), NEW ref \in Cohorts, NEW p \in Plans(x0, ref),
           p.err = "none", NEW i, IsOrder(i)
    PROVE  StageLeg(p, ref, i) \in Plans(x0, ref)
<1> DEFINE x == ExecuteIntent(p.x, ref, MaxPosition, i)
<1> DEFINE new == NewFills(p.x, x)
<1>1. x \in Books(Fills) /\ new \in Seq(Fills)
    BY StagedBook
<1>2. StageLeg(p, ref, i) = StagedLeg(p, ref, i, x, new)
    BY DEF StageLeg, StageLegOn
<1> HIDE DEF x, new
<1> DEFINE ready == PrepareLeg([p EXCEPT !.x = x], ref,
                               RequestOf(p, i, new[1].kind, new[1].qty))
<1>3. ASSUME new # <<>>
      PROVE  ready \in Plans(x0, ref)
    <2> DEFINE m == new[1].qty
    <2> DEFINE kind == new[1].kind
    <2>1. m \in Nat
        <3> DEFINE f == new[1]
        <3>1. f \in Fills
            BY <1>1, <1>3
        <3> HIDE DEF f
        <3>2. f.qty \in Nat
            BY <3>1 DEF Fills
        <3> QED BY <3>2 DEF f
    <2> HIDE DEF m, kind
    <2>2. PrepareLeg([p EXCEPT !.x = x], ref, RequestOf(p, i, kind, m)) \in Plans(x0, ref)
        BY <1>1, <2>1, PreparedKeeps
    <2> QED BY <2>2 DEF m, kind
<1>4. /\ Err(p, Unplanned(i)) \in Plans(x0, ref)
      /\ Err(p, "raise") \in Plans(x0, ref)
    BY ErrPlan DEF Errors, Unplanned
<1>5. StagedLeg(p, ref, i, x, new) =
        IF new = <<>> THEN Err(p, Unplanned(i))
        ELSE IF \/ i.group # NoGroup /\ new[1].qty # i.qty
                \/ Overexposed(p.x.pos, x.pos)
        THEN Err(p, "raise") ELSE ready
    BY DEF StagedLeg
<1> HIDE DEF ready
<1> QED BY <1>2, <1>3, <1>4, <1>5

LEMMA LegKeeps ==
    ASSUME NEW x0 \in Books(LiveFills), NEW ref \in Cohorts, NEW p \in Plans(x0, ref),
           p.err = "none", NEW i \in Intents
    PROVE  PlanLeg(p, ref, i) \in Plans(x0, ref)
<1> DEFINE j == IF i.group # NoGroup /\ i.act = "close"
                THEN [i EXCEPT !.qty = Expected(p.x.pos, i)] ELSE i
<1>1. j \in Intents
    <2>1. i.sym \in Symbols /\ i.qty \in Nat
        BY DEF Intents
    <2>2. p.x.pos[i.sym].qty \in Int
        BY <2>1, DraftFields DEF Books, Positions
    <2>3. Expected(p.x.pos, i) \in Nat
        BY <2>1, <2>2, MagnitudeNat DEF Expected
    <2> QED BY <2>3 DEF Intents
<1> HIDE DEF j
<1>2. IsOrder(j)
    BY <1>1, IntentIsOrder
<1>3. StageLeg(p, ref, j) \in Plans(x0, ref)
    BY <1>2, StageKeeps
<1>4. /\ Err(p, Unplanned(i)) \in Plans(x0, ref)
      /\ Err(p, "raise") \in Plans(x0, ref)
    BY ErrPlan DEF Errors, Unplanned
<1>5. PlanLeg(p, ref, i) \in {Err(p, Unplanned(i)), Err(p, "raise"), StageLeg(p, ref, j)}
    BY DEF PlanLeg, j
<1> QED BY <1>3, <1>4, <1>5

LEMMA UnitKeeps ==
    ASSUME NEW x0 \in Books(LiveFills), NEW ref \in Cohorts, NEW p \in Plans(x0, ref),
           p.err = "none", NEW unit \in Seq(Intents)
    PROVE  PlanUnit(p, ref, unit) \in Plans(x0, ref)
<1> DEFINE Y == Plans(x0, ref)
<1> DEFINE u == PlanLegs(p, ref, unit)
<1>1. ASSUME NEW y \in Y, NEW k \in 1..Len(unit)
      PROVE  LegOn(y, ref, unit[k]) \in Y
    <2>1. unit[k] \in Intents
        OBVIOUS
    <2>2. y.err = "none" => PlanLeg(y, ref, unit[k]) \in Plans(x0, ref)
        BY <2>1, LegKeeps
    <2> QED BY <2>2 DEF LegOn
<1>2. u \in Y
    <2> HIDE DEF Y
    <2>1. p \in Y
        BY DEF Y
    <2> QED BY <1>1, <2>1, LegsKeep
<1>3. Err(p, "raise") \in Y
    BY ErrPlan DEF Errors
<1>4. PlanUnit(p, ref, unit) = SettleUnit(p, unit, u)
    BY DEF PlanUnit
<1> HIDE DEF u, Y
<1>5. SettleUnit(p, unit, u) \in {u, p, Err(p, "raise")}
    BY DEF SettleUnit, RolledBack
<1> QED BY <1>2, <1>3, <1>4, <1>5 DEF Y

LEMMA IntentsPlanned ==
    ASSUME NEW x0 \in Books(LiveFills), NEW ref \in Cohorts, NEW p \in Plans(x0, ref),
           NEW intents \in Seq(Intents)
    PROVE  PlanUnits(p, ref, intents) \in Plans(x0, ref)
<1> DEFINE Y == Plans(x0, ref)
<1>1. Units(intents) \in Seq(Seq(Intents))
    BY UnitsSeq
<1>2. ASSUME NEW y \in Y, NEW k \in 1..Len(Units(intents))
      PROVE  UnitOn(y, ref, Units(intents)[k]) \in Y
    <2>1. Units(intents)[k] \in Seq(Intents)
        BY <1>1
    <2>2. y.err = "none" => PlanUnit(y, ref, Units(intents)[k]) \in Plans(x0, ref)
        BY <2>1, UnitKeeps
    <2> QED BY <2>2 DEF UnitOn
<1> HIDE DEF Y
<1>3. p \in Y
    BY DEF Y
<1>4. PlanUnits(p, ref, intents) \in Y
    BY <1>1, <1>2, <1>3, PlannedUnitsKeep
<1> QED BY <1>4 DEF Y

\* A target: the fills of the simulated rebalance become requests.
LEMMA FillKeeps ==
    ASSUME NEW x0 \in Books(LiveFills), NEW ref \in Cohorts, NEW p \in Plans(x0, ref),
           p.err = "none", NEW f \in Fills, NEW r, r.add \in [Symbols -> Int]
    PROVE  PlanFill(p, ref, f, Order(f.sym, ActOf(r, f), f.qty)) \in Plans(x0, ref)
<1> DEFINE i == Order(f.sym, ActOf(r, f), f.qty)
<1> DEFINE x == ExecuteIntent(p.x, ref, MaxPosition, i)
<1>1. IsOrder(i)
    <2>1. f.sym \in Symbols /\ f.qty \in Nat /\ ActOf(r, f) \in Actions
        BY DEF Fills, ActOf, Actions
    <2>2. i \in PlainOrders
        BY <2>1 DEF PlainOrders
    <2>3. Neutral(Fills)
        BY DEF Neutral
    <2> QED BY <2>2, <2>3, OrderType DEF Allowed
<1> HIDE DEF i
<1>2. x \in Books(Fills)
    BY <1>1, StagedBook
<1>3. PlanFill(p, ref, f, i) = PlanFillOn(p, ref, i, f, x)
    BY DEF PlanFill
<1> HIDE DEF x
<1>4. f.qty \in Nat
    BY DEF Fills
<1>5. PrepareLeg([p EXCEPT !.x = x], ref, RequestOf(p, i, f.kind, f.qty)) \in Plans(x0, ref)
    BY <1>1, <1>2, <1>4, PreparedKeeps
<1>6. Err(p, "raise") \in Plans(x0, ref)
    BY ErrPlan DEF Errors
<1>7. PlanFillOn(p, ref, i, f, x) \in Plans(x0, ref)
    BY <1>5, <1>6 DEF PlanFillOn
<1> QED BY <1>3, <1>7 DEF i

LEMMA FillsPlanned ==
    ASSUME NEW x0 \in Books(LiveFills), NEW ref \in Cohorts, NEW p \in Plans(x0, ref),
           NEW new \in Seq(Fills), NEW r, r.add \in [Symbols -> Int]
    PROVE  PlanFills(p, ref, r, new) \in Plans(x0, ref)
<1> DEFINE Y == Plans(x0, ref)
<1>1. ASSUME NEW y \in Y, NEW k \in 1..Len(new)
      PROVE  FillOn(y, ref, r, new[k]) \in Y
    <2>1. new[k] \in Fills
        OBVIOUS
    <2> DEFINE f == new[k]
    <2> DEFINE z == PlanFill(y, ref, f, Order(f.sym, ActOf(r, f), f.qty))
    <2>2. y.err = "none" => z \in Plans(x0, ref)
        <3>1. f \in Fills
            BY <2>1
        <3> HIDE DEF f
        <3> QED BY <3>1, FillKeeps
    <2>3. FillOn(y, ref, r, f) = IF y.err = "none" THEN z ELSE y
        BY DEF FillOn
    <2> HIDE DEF z
    <2> QED BY <2>2, <2>3
<1> HIDE DEF Y
<1>2. p \in Y
    BY DEF Y
<1>3. PlanFills(p, ref, r, new) \in Y
    BY <1>1, <1>2, FillsKeep
<1> QED BY <1>3 DEF Y

Budgeted(fs, rs, bs) ==
    \A s \in DOMAIN bs :
       Traded([fills |-> fs], s) + Traded([fills |-> rs], s) <= bs[s].room

\* A live run.  What the bar filled and what is still to be sent of its plan
\* stay within what the bar allows.
LiveInv ==
    /\ cash \in Int /\ pos \in [Symbols -> Positions] /\ halted \in BOOLEAN
    /\ pending \in Pendings
    /\ bars \in Cohorts
    /\ fills \in Seq(LiveFills) /\ requests \in Seq(Requests)
    /\ rebalance \in LiveTargets \union {NoTarget}
    /\ phase \in {"idle", "leg", "send"}
    /\ halted => phase = "idle"
    /\ phase = "send" <=> requests # <<>>
    /\ phase = "leg" => rebalance \in LiveTargets
    /\ Budgeted(fills, requests, bars)

LEMMA LiveQuantities ==
    /\ \A f \in LiveFills : f.qty \in Nat
    /\ \A r \in Requests : r.qty \in Nat
    /\ LiveFills \in SUBSET Fills
BY DEF LiveFills, Fills, Requests

LEMMA LiveBook ==
    ASSUME LiveInv
    PROVE  /\ Booked \in Books(LiveFills) /\ Booked \in Books(Fills)
           /\ Booked.pos = pos /\ Booked.fills = fills /\ Booked.cash = cash
           /\ [Booked EXCEPT !.fills = <<>>] \in Books(LiveFills)
           /\ [Booked EXCEPT !.fills = <<>>].fills = <<>>
<1>1. Booked \in Books(LiveFills)
    BY DEF LiveInv, Booked, Books
<1>2. Booked.pos = pos /\ Booked.fills = fills /\ Booked.cash = cash
    BY DEF Booked
<1>3. Booked \in Books(Fills)
    BY <1>1, MoreBooks, LiveQuantities
<1>4. /\ [Booked EXCEPT !.fills = <<>>] \in Books(LiveFills)
      /\ [Booked EXCEPT !.fills = <<>>].fills = <<>>
    <2>1. <<>> \in Seq(LiveFills)
        OBVIOUS
    <2> QED BY <1>1, <2>1 DEF Books
<1> QED BY <1>1, <1>2, <1>3, <1>4

LEMMA ReferenceCohort ==
    ASSUME NEW c \in Cohorts
    PROVE  /\ Reference(c) \in Cohorts /\ DOMAIN Reference(c) = DOMAIN c
           /\ \A s \in DOMAIN c : Reference(c)[s].room = c[s].room
<1>1. PICK D \in SUBSET Symbols : c \in [D -> BarShapes]
    BY DEF Cohorts
<1>2. \A s \in D : c[s] \in BarShapes
    BY <1>1
<1>3. \A s \in D : /\ [c[s] EXCEPT !.reach = "open"] \in BarShapes
                   /\ [c[s] EXCEPT !.reach = "open"].room = c[s].room
    BY <1>2 DEF BarShapes
<1>4. DOMAIN c = D
    BY <1>1
<1>5. Reference(c) \in [D -> BarShapes]
    BY <1>3, <1>4 DEF Reference
<1> QED BY <1>3, <1>4, <1>5 DEF Reference, Cohorts

LEMMA EmptyPlanned ==
    ASSUME NEW x0 \in Books(LiveFills), NEW ref, NEW what \in Errors
    PROVE  Err(EmptyPlan(x0), what) \in Plans(x0, ref) /\ EmptyPlan(x0) \in Plans(x0, ref)
<1> DEFINE p == EmptyPlan(x0)
<1>1. x0 \in Books(Fills)
    BY MoreBooks, LiveQuantities
<1>2. /\ p \in Drafts /\ p.y = x0 /\ p.out = <<>> /\ p.err = "none"
    BY <1>1 DEF EmptyPlan, Drafts, Errors
<1>3. \A s \in Symbols : Traded(x0, s) \in Nat /\ Traded([fills |-> <<>>], s) = 0
    <2>1. ASSUME NEW s \in Symbols
          PROVE  Traded(x0, s) \in Nat /\ Traded([fills |-> <<>>], s) = 0
        <3>1. x0.fills \in Seq(LiveFills)
            BY DEF Books
        <3>2. Traded(x0, s) \in Nat
            BY <3>1, TradedNat, LiveQuantities
        <3> DEFINE u == [fills |-> <<>>]
        <3>3. u.fills = <<>>
            OBVIOUS
        <3> HIDE DEF u
        <3>4. Traded(u, s) = 0
            BY <3>3, TradedNone
        <3> QED BY <3>2, <3>4 DEF u
    <2> QED BY <2>1
<1> HIDE DEF p
<1>4. Matched(p, x0)
    BY <1>2, <1>3 DEF Matched
<1>5. p \in Plans(x0, ref)
    BY <1>2, <1>4, FitsItself DEF Plans
<1>6. Err(p, what) \in Plans(x0, ref)
    <2>1. CASE what = "none"
        <3>1. Err(p, what) = p
            BY <1>2, <2>1 DEF Err, Drafts
        <3> QED BY <1>5, <3>1
    <2>2. CASE what # "none"
        BY <1>5, <2>2, ErrPlan
    <2> QED BY <2>1, <2>2
<1> QED BY <1>5, <1>6 DEF p

\* What a plan that ended well asks beyond what was filled before.
LEMMA PlannedWithin ==
    ASSUME NEW x0 \in Books(LiveFills), NEW c \in Cohorts,
           NEW p \in Plans(x0, Reference(c)), p.err = "none",
           \A s \in DOMAIN c : Traded(x0, s) <= c[s].room
    PROVE  /\ p.out \in Seq(Requests)
           /\ \A s \in DOMAIN c : Traded(x0, s) + Traded([fills |-> p.out], s) <= c[s].room
<1>1. /\ p.out \in Seq(Requests) /\ Fits(x0, p.y, Reference(c)) /\ Matched(p, x0)
    BY DraftFields
<1>2. ASSUME NEW s \in DOMAIN c
      PROVE  Traded(x0, s) + Traded([fills |-> p.out], s) <= c[s].room
    <2>1. s \in Symbols
        BY CohortBar
    <2>2. Traded(p.y, s) = Traded(x0, s) + Traded([fills |-> p.out], s)
        BY <1>1, <2>1 DEF Matched
    <2>3. \/ Traded(p.y, s) = Traded(x0, s)
          \/ Traded(p.y, s) <= Reference(c)[s].room
        BY <1>1, <2>1 DEF Fits, Liquid
    <2>4. Reference(c)[s].room = c[s].room
        BY ReferenceCohort
    <2> QED BY <2>2, <2>3, <2>4
<1> QED BY <1>1, <1>2

LEMMA TargetPlanned ==
    ASSUME LiveInv, NEW ref \in Cohorts, NEW target \in [Symbols -> Int]
    PROVE  PlanTarget(ref, target) \in Plans(Booked, ref)
<1> DEFINE r == Plan(pos, ref, target)
<1> DEFINE orders == Reductions(r, Symbols)
<1> DEFINE whole == IF paused THEN PlanReductions(ref, r, orders)
                              ELSE ExecutePlan(Booked, ref, r)
<1>1. /\ Booked \in Books(LiveFills) /\ Booked \in Books(Fills)
      /\ Fills \in SUBSET Fills /\ Neutral(Fills)
    BY LiveBook DEF Neutral
<1>2. r \in Residuals
    BY PlanType DEF LiveInv
<1> HIDE DEF r
<1>3. r.red \in [Symbols -> Nat] /\ r.add \in [Symbols -> Int]
    BY <1>2 DEF Residuals
<1>4. orders \in Seq(PlainOrders)
    BY <1>3, ReductionsSeq
<1> HIDE DEF orders
<1>5. ExecutePlan(Booked, ref, r).x \in Books(Fills)
    BY <1>1, <1>2, PlanFits DEF Result, After
<1>6. ExecuteEach(Booked, ref, MaxPosition, orders) \in Books(Fills)
    <2>1. Allowed(PlainOrders, ref, Fills)
        BY <1>1, OrderType
    <2> QED BY <1>1, <1>4, <2>1, EachAfter DEF After
<1>7. PlanReductions(ref, r, orders).x \in Books(Fills)
    BY <1>1, <1>6 DEF PlanReductions, Outcome
<1>8. whole.x \in Books(Fills)
    BY <1>5, <1>7
<1>9. PlanRebalance(ref, r) = PlanOutcome(ref, r, whole)
    BY DEF PlanRebalance, orders
<1>10. \A what \in Errors : NoPlan(what) \in Plans(Booked, ref)
    BY <1>1, EmptyPlanned DEF NoPlan
<1>11. whole.out \in Errors \union {"ok"}
    BY DEF ExecutePlan, PlanReductions, AddWhole, Outcome, Errors
<1> HIDE DEF whole
<1>12. NewFills(Booked, whole.x) \in Seq(Fills)
    <2>1. Booked.fills \in Seq(Fills) /\ whole.x.fills \in Seq(Fills)
        BY <1>1, <1>8 DEF Books
    <2> QED BY <2>1, NewFillsSeq
<1>13. EmptyPlan(Booked) \in Plans(Booked, ref)
    BY <1>1, EmptyPlanned DEF Errors
<1> DEFINE new == NewFills(Booked, whole.x)
<1> DEFINE begin == EmptyPlan(Booked)
<1>14. PlanFills(begin, ref, r, new) \in Plans(Booked, ref)
    <2> HIDE DEF new, begin
    <2> QED BY <1>1, <1>3, <1>12, <1>13, FillsPlanned DEF new, begin
<1>15. PlanOutcome(ref, r, whole) \in Plans(Booked, ref)
    <2>1. PlanOutcome(ref, r, whole) \in
             {NoPlan(whole.out), NoPlan("unavailable"), PlanFills(begin, ref, r, new)}
        BY DEF PlanOutcome
    <2>2. NoPlan("unavailable") \in Plans(Booked, ref)
        BY <1>10 DEF Errors
    <2>3. whole.out # "ok" => NoPlan(whole.out) \in Plans(Booked, ref)
        BY <1>10, <1>11
    <2>4. whole.out = "ok" => PlanOutcome(ref, r, whole) \in
             {NoPlan("unavailable"), PlanFills(begin, ref, r, new)}
        BY DEF PlanOutcome
    <2>5. whole.out # "ok" => PlanOutcome(ref, r, whole) = NoPlan(whole.out)
        BY DEF PlanOutcome
    <2> QED BY <1>14, <2>2, <2>3, <2>4, <2>5
<1>16. NoPlan("unavailable") \in Plans(Booked, ref)
    BY <1>10 DEF Errors
<1>17. PlanTarget(ref, target) \in {PlanRebalance(ref, r), NoPlan("unavailable")}
    BY DEF PlanTarget, r
<1> QED BY <1>9, <1>15, <1>16, <1>17

LEMMA HeadTraded ==
    ASSUME NEW rs \in Seq(Requests), rs # <<>>, NEW s
    PROVE  /\ <<Head(rs)>> \in Seq(Requests)
           /\ Traded([fills |-> <<Head(rs)>>], s) \in Nat
           /\ Traded([fills |-> <<Head(rs)>>], s) <= Traded([fills |-> rs], s)
<1> DEFINE h == rs[1]
<1> DEFINE none == [fills |-> <<>>]
<1> DEFINE one == [fills |-> <<h>>]
<1>1. h \in Requests /\ Head(rs) = h
    OBVIOUS
<1>2. h.qty \in Nat
    BY <1>1, LiveQuantities
<1>3. /\ Traded([fills |-> Tail(rs)], s) \in Nat
      /\ Traded([fills |-> Tail(rs)], s) + Part(h, s, h.qty) = Traded([fills |-> rs], s)
    BY LiveQuantities, TradedTail
<1>4. none.fills = <<>> /\ none.fills \in Seq(Requests) /\ one.fills = Append(none.fills, h)
    OBVIOUS
<1> HIDE DEF h
<1>5. Traded(none, s) = 0
    <2> HIDE DEF none
    <2> QED BY <1>4, TradedNone
<1>6. Traded(one, s) = Traded(none, s) + (IF h.sym = s THEN h.qty ELSE 0)
    <2>1. \A r \in Requests : r.qty \in Nat
        BY LiveQuantities
    <2>2. h \in Requests /\ none.fills \in Seq(Requests)
          /\ one.fills = Append(none.fills, h)
        BY <1>1, <1>4
    <2> HIDE DEF none, one
    <2> QED BY <2>1, <2>2, TradedMore
<1>7. Traded(one, s) = Part(h, s, h.qty) /\ Part(h, s, h.qty) \in Nat
    <2> HIDE DEF none, one
    <2> QED BY <1>2, <1>5, <1>6 DEF Part
<1>8. Traded(one, s) \in Nat /\ Traded(one, s) <= Traded([fills |-> rs], s)
    <2> HIDE DEF none, one
    <2> QED BY <1>3, <1>7
<1> QED BY <1>1, <1>8

LEMMA NoneTraded ==
    ASSUME NEW s
    PROVE  Traded([fills |-> <<>>], s) = 0
<1> DEFINE none == [fills |-> <<>>]
<1>1. none.fills = <<>>
    OBVIOUS
<1> HIDE DEF none
<1>2. Traded(none, s) = 0
    BY <1>1, TradedNone
<1> QED BY <1>2 DEF none

LEMMA LiveTraded ==
    ASSUME LiveInv, NEW s
    PROVE  /\ Traded([fills |-> fills], s) \in Nat
           /\ Traded([fills |-> requests], s) \in Nat
           /\ Traded(Booked, s) = Traded([fills |-> fills], s)
<1> DEFINE x == [fills |-> fills]
<1> DEFINE y == [fills |-> requests]
<1>1. x.fills \in Seq(LiveFills) /\ y.fills \in Seq(Requests)
    BY DEF LiveInv
<1>2. x.fills = Booked.fills
    BY DEF Booked
<1> HIDE DEF x, y
<1>3. Traded(x, s) \in Nat /\ Traded(y, s) \in Nat
    BY <1>1, LiveQuantities, TradedNat
<1>4. Traded(Booked, s) = Traded(x, s)
    BY <1>2, SameTraded
<1> QED BY <1>3, <1>4 DEF x, y

\* Nothing is owed on a bar before its decision, and a decision that ends
\* leaves nothing.
LEMMA BudgetOfNone ==
    ASSUME LiveInv
    PROVE  /\ \A b \in Cohorts : Budgeted(<<>>, <<>>, b)
           /\ Budgeted(fills, <<>>, bars)
           /\ \A s \in DOMAIN bars : Traded(Booked, s) <= bars[s].room
<1>1. ASSUME NEW b \in Cohorts
      PROVE  Budgeted(<<>>, <<>>, b)
    <2>1. ASSUME NEW s \in DOMAIN b
          PROVE  Traded([fills |-> <<>>], s) + Traded([fills |-> <<>>], s) <= b[s].room
        <3>1. b[s].room \in Nat
            BY CohortBar DEF BarShapes
        <3> QED BY <3>1, NoneTraded
    <2> QED BY <2>1 DEF Budgeted
<1>2. ASSUME NEW s \in DOMAIN bars
      PROVE  /\ Traded([fills |-> fills], s) + Traded([fills |-> <<>>], s) <= bars[s].room
             /\ Traded(Booked, s) <= bars[s].room
    <2>1. /\ Traded([fills |-> fills], s) \in Nat /\ Traded([fills |-> requests], s) \in Nat
          /\ Traded(Booked, s) = Traded([fills |-> fills], s)
        BY LiveTraded
    <2>2. Traded([fills |-> fills], s) + Traded([fills |-> requests], s) <= bars[s].room
        BY DEF LiveInv, Budgeted
    <2>3. bars[s].room \in Nat
        BY CohortBar DEF LiveInv, BarShapes
    <2>4. Traded([fills |-> <<>>], s) = 0
        BY NoneTraded
    <2> QED BY <2>1, <2>2, <2>3, <2>4
<1> QED BY <1>1, <1>2 DEF Budgeted

LEMMA CohortOf ==
    ASSUME NextCohort
    PROVE  bars' \in Cohorts
BY LiveAssumption DEF NextCohort, Cohorts

LEMMA DecideLive ==
    ASSUME LiveInv, NEW intents \in LiveLists, LiveDecide(intents)
    PROVE  LiveInv' /\ ~halted
<1> DEFINE x0 == [Booked EXCEPT !.fills = <<>>]
<1> DEFINE ref == Reference(bars')
<1>1. x0 \in Books(LiveFills) /\ x0.fills = <<>>
    BY LiveBook
<1>2. /\ ~halted /\ phase = "idle" /\ fills' = <<>> /\ rebalance = NoTarget
      /\ pending' = [pending EXCEPT !.intents = intents]
      /\ cash' = cash /\ pos' = pos
    BY DEF LiveDecide, NextCohort
<1>3. bars' \in Cohorts
    BY CohortOf DEF LiveDecide
<1>4. intents \in Seq(Intents)
    BY LiveAssumption
<1>5. pending' \in Pendings
    BY <1>2, <1>4, PendingSeq DEF LiveInv
<1> DEFINE p == PlanIntents(ref, intents)
<1>6. p \in Plans(x0, ref)
    <2>1. ref \in Cohorts
        BY <1>3, ReferenceCohort
    <2>2. EmptyPlan(x0) \in Plans(x0, ref)
        <3> HIDE DEF ref, x0
        <3> QED BY <1>1, EmptyPlanned DEF Errors
    <2>3. p = PlanUnits(EmptyPlan(x0), ref, intents)
        BY DEF PlanIntents
    <2> HIDE DEF ref, x0, p
    <2> QED BY <1>1, <1>4, <2>1, <2>2, <2>3, IntentsPlanned
<1>7. Queue(p)
    BY DEF LiveDecide
<1> HIDE DEF p
<1>8. \A s \in DOMAIN bars' : Traded(x0, s) <= bars'[s].room /\ Traded(x0, s) = 0
    <2>1. ASSUME NEW s \in DOMAIN bars'
          PROVE  Traded(x0, s) <= bars'[s].room /\ Traded(x0, s) = 0
        <3>1. bars'[s].room \in Nat
            BY <1>3, CohortBar DEF BarShapes
        <3> HIDE DEF x0
        <3> QED BY <1>1, <3>1, TradedNone
    <2> QED BY <2>1
<1> HIDE DEF x0
<1>9. CASE QueueRejected(p)
    <2>1. /\ halted' = TRUE /\ phase' = "idle" /\ requests' = <<>> /\ rebalance' = NoTarget
        BY <1>9 DEF QueueRejected, HaltLive
    <2>2. Budgeted(<<>>, <<>>, bars')
        BY <1>3, BudgetOfNone
    <2>3. /\ requests' \in Seq(Requests) /\ fills' \in Seq(LiveFills)
        BY <1>2, <2>1
    <2> QED BY <1>2, <1>3, <1>5, <2>1, <2>2, <2>3 DEF LiveInv
<1>10. CASE QueuePlanned(p)
    <2>1. /\ p.err = "none" /\ requests' = p.out
          /\ phase' = IF p.out = <<>> THEN "idle" ELSE "send"
          /\ halted' = halted /\ rebalance' = rebalance
        BY <1>10 DEF QueuePlanned
    <2>2. /\ p.out \in Seq(Requests)
          /\ \A s \in DOMAIN bars' :
                Traded(x0, s) + Traded([fills |-> p.out], s) <= bars'[s].room
        BY <1>1, <1>3, <1>6, <1>8, <2>1, PlannedWithin
    <2>3. Budgeted(<<>>, p.out, bars')
        BY <1>8, <2>2, NoneTraded DEF Budgeted
    <2>4. fills' \in Seq(LiveFills)
        BY <1>2
    <2> QED BY <1>2, <1>3, <1>5, <2>1, <2>2, <2>3, <2>4 DEF LiveInv
<1> QED BY <1>2, <1>7, <1>9, <1>10 DEF Queue

LEMMA CohortLive ==
    ASSUME LiveInv, \/ \E target \in LiveTargets : LiveTarget(target)
                    \/ NextRebalanceBar
    PROVE  LiveInv' /\ ~halted
<1>1. NextCohort /\ phase' = "leg" /\ UNCHANGED <<cash, pos, halted, requests>>
    BY DEF LiveTarget, NextRebalanceBar, liveVars
<1>2. ~halted /\ phase = "idle" /\ fills' = <<>> /\ bars' \in Cohorts
    BY <1>1, CohortOf DEF NextCohort
<1>3. requests' = <<>> /\ fills' \in Seq(LiveFills)
    BY <1>1, <1>2 DEF LiveInv
<1>4. Budgeted(<<>>, <<>>, bars')
    BY <1>2, BudgetOfNone
<1>5. rebalance' \in LiveTargets
      /\ pending' \in Pendings
    <2>1. CASE NextRebalanceBar
        BY <2>1 DEF NextRebalanceBar, LiveInv, liveVars
    <2>2. ASSUME NEW target \in LiveTargets, LiveTarget(target)
          PROVE  rebalance' \in LiveTargets
                 /\ pending' \in Pendings
        BY <2>2, PendingSeq DEF LiveInv, LiveTarget
    <2> QED BY <2>1, <2>2
<1> QED BY <1>1, <1>2, <1>3, <1>4, <1>5 DEF LiveInv

LEMMA LegPlanned ==
    ASSUME LiveInv, PlanNextLeg
    PROVE  LiveInv' /\ ~halted
<1> DEFINE ref == Reference(bars)
<1> DEFINE p == PlanTarget(ref, rebalance)
<1>1. /\ phase = "leg" /\ NextLeg(p)
      /\ UNCHANGED <<cash, pos, pending, bar, bars, fills>>
    BY DEF PlanNextLeg
<1>2. ~halted /\ requests = <<>> /\ rebalance \in [Symbols -> Int] /\ bars \in Cohorts
      /\ rebalance \in LiveTargets
    BY <1>1, LiveAssumption DEF LiveInv
<1>3. p \in Plans(Booked, ref)
    <2>1. ref \in Cohorts
        BY <1>2, ReferenceCohort
    <2> HIDE DEF ref
    <2> QED BY <1>2, <2>1, TargetPlanned
<1>4. Booked \in Books(LiveFills) /\ \A s \in DOMAIN bars : Traded(Booked, s) <= bars[s].room
    BY LiveBook, BudgetOfNone
<1>5. Budgeted(fills, <<>>, bars)
    BY BudgetOfNone
<1> HIDE DEF p
<1>6. CASE DeferLeg(p)
    BY <1>1, <1>2, <1>6 DEF DeferLeg, LiveInv
<1>7. CASE RejectLeg(p)
    <2>1. /\ halted' = TRUE /\ phase' = "idle" /\ requests' = <<>> /\ rebalance' = NoTarget
        BY <1>7 DEF RejectLeg, HaltLive
    <2>2. requests' \in Seq(Requests)
        BY <2>1
    <2> QED BY <1>1, <1>5, <2>1, <2>2 DEF LiveInv
<1>8. CASE NoLegLeft(p)
    BY <1>1, <1>2, <1>8 DEF NoLegLeft, LiveInv
<1>9. CASE QueueLeg(p)
    <2>1. /\ p.err = "none" /\ p.out # <<>> /\ requests' = <<Head(p.out)>>
          /\ phase' = "send" /\ UNCHANGED <<halted, rebalance>>
        BY <1>9 DEF QueueLeg
    <2>2. /\ p.out \in Seq(Requests)
          /\ \A s \in DOMAIN bars :
                Traded(Booked, s) + Traded([fills |-> p.out], s) <= bars[s].room
        BY <1>2, <1>3, <1>4, <2>1, PlannedWithin
    <2> DEFINE one == <<Head(p.out)>>
    <2>3. ASSUME NEW s \in DOMAIN bars
          PROVE  Traded([fills |-> fills], s) + Traded([fills |-> one], s) <= bars[s].room
        <3>1. /\ Traded([fills |-> one], s) \in Nat
              /\ Traded([fills |-> one], s) <= Traded([fills |-> p.out], s)
            BY <2>1, <2>2, HeadTraded
        <3>2. /\ Traded([fills |-> fills], s) \in Nat
              /\ Traded(Booked, s) = Traded([fills |-> fills], s)
            BY LiveTraded
        <3>3. bars[s].room \in Nat
            BY <1>2, CohortBar DEF BarShapes
        <3>4. Traded(Booked, s) + Traded([fills |-> p.out], s) <= bars[s].room
            BY <2>2
        <3>5. Traded([fills |-> p.out], s) \in Nat
            <4> DEFINE w == [fills |-> p.out]
            <4>1. w.fills \in Seq(Requests)
                BY <2>2
            <4>2. \A r \in Requests : r.qty \in Nat
                BY LiveQuantities
            <4> HIDE DEF w
            <4>3. Traded(w, s) \in Nat
                BY <4>1, <4>2, TradedNat
            <4> QED BY <4>3 DEF w
        <3> HIDE DEF one
        <3> QED BY <3>1, <3>2, <3>3, <3>4, <3>5
    <2>4. one \in Seq(Requests) /\ one # <<>>
        BY <2>1, <2>2, HeadTraded
    <2> HIDE DEF one
    <2>5. Budgeted(fills, one, bars)
        BY <2>3 DEF Budgeted
    <2>6. requests' = one
        BY <2>1 DEF one
    <2> QED BY <1>1, <1>2, <2>1, <2>4, <2>5, <2>6 DEF LiveInv
<1> QED BY <1>1, <1>2, <1>6, <1>7, <1>8, <1>9 DEF NextLeg

\* What a fill of n leaves.
LEMMA AppliedType ==
    ASSUME LiveInv, NEW r \in Requests, NEW n \in Nat
    PROVE  LET y == Applied(r, n)
           IN  /\ y.cash \in Int /\ y.pos \in [Symbols -> Positions]
               /\ y.fills \in Seq(LiveFills)
               /\ \A s : Traded([fills |-> y.fills], s)
                            = Traded([fills |-> fills], s) + Part(r, s, n)
<1> DEFINE y == Applied(r, n)
<1>1. /\ Booked \in Books(LiveFills) /\ Booked.pos = pos /\ Booked.fills = fills
      /\ Booked.cash = cash
    BY LiveBook
<1>2. /\ cash \in Int /\ pos \in [Symbols -> Positions] /\ fills \in Seq(LiveFills)
    BY DEF LiveInv
<1>3. /\ r.sym \in Symbols /\ r.act \in Actions /\ r.group \in GroupIds
      /\ r.protect \in SUBSET Protections
    BY DEF Requests
<1>4. CASE n = 0
    <2>1. y = Booked
        BY <1>4 DEF Applied, Entered, Reduced
    <2>2. \A s : Traded([fills |-> fills], s) \in Nat /\ Part(r, s, n) = 0
        BY <1>4, LiveTraded DEF Part
    <2> HIDE DEF y
    <2>3. y.fills = fills
        BY <1>1, <2>1
    <2>4. \A s : Traded([fills |-> y.fills], s) = Traded([fills |-> fills], s) + Part(r, s, n)
        BY <2>2, <2>3
    <2>5. y.cash \in Int /\ y.pos \in [Symbols -> Positions] /\ y.fills \in Seq(LiveFills)
        BY <1>1, <1>2, <2>1
    <2> QED BY <2>4, <2>5 DEF y
<1>5. ASSUME n # 0
      PROVE  /\ y.cash \in Int
             /\ \E p \in Positions : y.pos = [pos EXCEPT ![r.sym] = p]
             /\ \E kind \in Kinds : y.fills = Append(fills, Fill(r, kind, n))
    <2> DEFINE a == pos[r.sym]
    <2>0. a \in Positions
        BY <1>2, <1>3
    <2>1. CASE Opens(r)
        <3> DEFINE side == IF r.side = "buy" THEN "long" ELSE "short"
        <3> DEFINE e == [r EXCEPT !.act = side]
        <3> DEFINE q == [qty |-> a.qty + (IF e.act = "long" THEN n ELSE -n),
                         protect |-> a.protect \union r.protect,
                         exit |-> a.exit,
                         group |-> IF a.qty = 0 THEN r.group ELSE a.group]
        <3> DEFINE how == IF a.qty = 0 THEN "open" ELSE "add"
        <3>1. q \in Positions
            <4> HIDE DEF a
            <4> QED BY <1>3, <2>0 DEF Positions
        <3>0. /\ e.sym = r.sym /\ e.limit = r.limit /\ e.tif = r.tif /\ e.group = r.group
              /\ e.protect = r.protect /\ e.at = r.at /\ e.since = r.since
            BY DEF Requests
        <3>2. y.cash = cash - n /\ y.pos = [pos EXCEPT ![r.sym] = q]
              /\ y.fills = Append(fills, Fill(r, how, n))
            <4>1. y = Entered(Booked, e, n)
                BY <2>1 DEF Applied
            <4> HIDE DEF e, y
            <4>2. Fill(e, how, n) = Fill(r, how, n)
                BY <3>0 DEF Fill
            <4>3. y.cash = cash - n /\ y.pos = [pos EXCEPT ![r.sym] = q]
                  /\ y.fills = Append(fills, Fill(e, how, n))
                BY <1>1, <1>5, <3>0, <4>1 DEF Entered, Booked
            <4> QED BY <4>2, <4>3
        <3>3. how \in Kinds
            BY DEF Kinds
        <3> HIDE DEF q, y, how
        <3>4. y.cash \in Int
            BY <1>2, <3>2
        <3>5. \E p \in Positions : y.pos = [pos EXCEPT ![r.sym] = p]
            BY <3>1, <3>2
        <3>6. \E kind \in Kinds : y.fills = Append(fills, Fill(r, kind, n))
            BY <3>2, <3>3
        <3> QED BY <3>4, <3>5, <3>6
    <2>2. CASE ~Opens(r)
        <3> DEFINE left == IF a.qty > 0 THEN a.qty - n ELSE a.qty + n
        <3> DEFINE q == IF left = 0 THEN Flat ELSE [a EXCEPT !.qty = left]
        <3> DEFINE how == IF left = 0 THEN "close" ELSE "reduce"
        <3>1. q \in Positions
            <4>1. left \in Int
                <5> HIDE DEF a
                <5> QED BY <2>0 DEF Positions
            <4> HIDE DEF a, left
            <4> QED BY <2>0, <4>1 DEF Positions, Flat, GroupIds
        <3>2. y.cash = cash + n /\ y.pos = [pos EXCEPT ![r.sym] = q]
              /\ y.fills = Append(fills, Fill(r, how, n))
            BY <1>1, <1>5, <2>2 DEF Applied, Reduced, Booked
        <3>3. how \in Kinds
            BY DEF Kinds
        <3> HIDE DEF q, y, how
        <3>4. y.cash \in Int
            BY <1>2, <3>2
        <3>5. \E p \in Positions : y.pos = [pos EXCEPT ![r.sym] = p]
            BY <3>1, <3>2
        <3>6. \E kind \in Kinds : y.fills = Append(fills, Fill(r, kind, n))
            BY <3>2, <3>3
        <3> QED BY <3>4, <3>5, <3>6
    <2> QED BY <2>1, <2>2
<1> HIDE DEF y
<1>6. CASE n # 0
    <2>1. PICK kind \in Kinds : y.fills = Append(fills, Fill(r, kind, n))
        BY <1>5, <1>6
    <2> DEFINE f == Fill(r, kind, n)
    <2>2. f \in LiveFills /\ f.sym = r.sym /\ f.qty = n
        BY RequestOrder, FillType
    <2> HIDE DEF f
    <2>3. y.fills \in Seq(LiveFills) /\ y.fills = Append(fills, f)
        BY <1>2, <2>1, <2>2 DEF f
    <2>4. y.cash \in Int /\ y.pos \in [Symbols -> Positions]
        BY <1>2, <1>3, <1>5, <1>6
    <2>5. ASSUME NEW s
          PROVE  Traded([fills |-> y.fills], s) = Traded([fills |-> fills], s) + Part(r, s, n)
        <3> DEFINE u == [fills |-> fills]
        <3> DEFINE v == [fills |-> y.fills]
        <3>1. u.fills \in Seq(LiveFills) /\ v.fills = Append(u.fills, f)
            BY <1>2, <2>3
        <3>2. \A e \in LiveFills : e.qty \in Nat
            BY LiveQuantities
        <3> HIDE DEF u, v
        <3>3. Traded(v, s) = Traded(u, s) + (IF f.sym = s THEN f.qty ELSE 0)
            BY <2>2, <3>1, <3>2, TradedMore
        <3> QED BY <2>2, <3>3 DEF Part, u, v
    <2> QED BY <2>3, <2>4, <2>5 DEF y
<1> QED BY <1>4, <1>6

\* What is left of the requests when the first of them ends asks no more than
\* the others did.
Fewer(left, r) ==
    /\ left \in Seq(Requests)
    /\ \A s : /\ Traded([fills |-> left], s) \in Nat
              /\ Traded([fills |-> left], s) + Part(r, s, r.qty)
                    <= Traded([fills |-> requests], s)

LEMMA Sending ==
    ASSUME LiveInv, phase = "send"
    PROVE  /\ Head(requests) \in Requests /\ Head(requests) = requests[1]
           /\ requests # <<>> /\ ~halted
BY DEF LiveInv

LEMMA TailLeft ==
    ASSUME LiveInv, phase = "send"
    PROVE  Fewer(Tail(requests), Head(requests))
<1>1. requests \in Seq(Requests) /\ requests # <<>> /\ Head(requests) = requests[1]
    BY Sending DEF LiveInv
<1>2. Tail(requests) \in Seq(Requests)
    BY <1>1
<1>3. \A r \in Requests : r.qty \in Nat
    BY LiveQuantities
<1>4. \A s : Traded([fills |-> requests], s) \in Nat
    BY LiveTraded
<1>5. ASSUME NEW s
      PROVE  /\ Traded([fills |-> Tail(requests)], s) \in Nat
             /\ Traded([fills |-> Tail(requests)], s) + Part(requests[1], s, requests[1].qty)
                   = Traded([fills |-> requests], s)
    BY <1>1, <1>3, TradedTail
<1>6. ASSUME NEW s
      PROVE  /\ Traded([fills |-> Tail(requests)], s) \in Nat
             /\ Traded([fills |-> Tail(requests)], s) + Part(requests[1], s, requests[1].qty)
                   <= Traded([fills |-> requests], s)
    <2> DEFINE u == Traded([fills |-> Tail(requests)], s)
    <2> DEFINE v == Traded([fills |-> requests], s)
    <2> DEFINE c == Part(requests[1], s, requests[1].qty)
    <2>1. v \in Nat /\ u \in Nat /\ u + c = v
        BY <1>4, <1>5
    <2> HIDE DEF u, v, c
    <2>2. u \in Nat /\ u + c <= v
        BY <2>1
    <2> QED BY <2>2 DEF u, v, c
<1> QED BY <1>1, <1>2, <1>6 DEF Fewer

LEMMA OthersLeft ==
    ASSUME LiveInv, phase = "send"
    PROVE  Fewer(Others(Head(requests)), Head(requests))
<1> DEFINE r == Head(requests)
<1> DEFINE S == {q \in Range(requests) : q.group # r.group}
<1>1. requests \in Seq(Requests) /\ requests # <<>> /\ r = requests[1]
    BY Sending DEF LiveInv
<1>2. CASE r.group = NoGroup
    <2>1. Others(r) = Tail(requests)
        BY <1>2 DEF Others
    <2> QED BY <2>1, TailLeft
<1>3. CASE r.group # NoGroup
    <2>1. Others(r) = Kept(requests, S)
        BY <1>3 DEF Others
    <2>2. requests[1] \notin S
        BY <1>1
    <2>3. \A q \in Requests : q.qty \in Nat
        BY LiveQuantities
    <2> HIDE DEF S
    <2>4. Kept(requests, S) \in Seq(Requests)
        <3>1. Kept(requests, S) \in Seq(Requests \cap S)
            BY <1>1, KeptSeq
        <3> QED BY <3>1
    <2>5. ASSUME NEW s
          PROVE  /\ Traded([fills |-> Kept(requests, S)], s) \in Nat
                 /\ Traded([fills |-> Kept(requests, S)], s)
                       + Part(requests[1], s, requests[1].qty)
                       <= Traded([fills |-> requests], s)
        BY <1>1, <2>2, <2>3, TradedKept
    <2> QED BY <1>1, <2>1, <2>4, <2>5 DEF Fewer
<1> QED BY <1>2, <1>3

\* The first request ended with n of it filled, the others, some of them or
\* none are left.
Ended(n, left) ==
    /\ \A s : Traded([fills |-> fills'], s) = Traded([fills |-> fills], s)
                                              + Part(Head(requests), s, n)
    /\ Fewer(left, Head(requests)) \/ left = <<>>
    /\ requests' = left /\ bars' = bars

LEMMA EndedBudget ==
    ASSUME LiveInv, phase = "send", NEW n \in Nat, n <= Head(requests).qty,
           NEW left, Ended(n, left)
    PROVE  left \in Seq(Requests) /\ Budgeted(fills', left, bars')
<1> DEFINE r == Head(requests)
<1>1. r.qty \in Nat /\ n <= r.qty
    BY Sending, LiveQuantities
<1>2. left \in Seq(Requests)
    <2>1. CASE Fewer(left, Head(requests))
        BY <2>1 DEF Fewer
    <2>2. CASE left = <<>>
        BY <2>2
    <2> QED BY <2>1, <2>2 DEF Ended
<1>3. ASSUME NEW s \in DOMAIN bars
      PROVE  Traded([fills |-> fills'], s) + Traded([fills |-> left], s) <= bars[s].room
    <2>1. /\ Traded([fills |-> fills], s) \in Nat /\ Traded([fills |-> requests], s) \in Nat
        BY LiveTraded
    <2>2. Traded([fills |-> fills], s) + Traded([fills |-> requests], s) <= bars[s].room
        BY DEF LiveInv, Budgeted
    <2>3. Traded([fills |-> fills'], s) = Traded([fills |-> fills], s) + Part(r, s, n)
        BY DEF Ended
    <2>4. bars[s].room \in Nat
        BY CohortBar DEF LiveInv, BarShapes
    <2>5. Part(r, s, n) \in Nat /\ Part(r, s, r.qty) \in Nat /\ Part(r, s, n) <= Part(r, s, r.qty)
        <3> HIDE DEF r
        <3> QED BY <1>1 DEF Part
    <2>6. Part(requests[1], s, requests[1].qty) <= Traded([fills |-> requests], s)
        BY Sending, TailLeft, <2>1, <2>5 DEF Fewer
    <2>7. requests[1] = r
        BY Sending
    <2>8. CASE Fewer(left, r)
        <3>1. /\ Traded([fills |-> left], s) \in Nat
              /\ Traded([fills |-> left], s) + Part(r, s, r.qty)
                    <= Traded([fills |-> requests], s)
            BY <2>8 DEF Fewer
        <3> HIDE DEF r
        <3> QED BY <2>1, <2>2, <2>3, <2>4, <2>5, <3>1
    <2>9. CASE left = <<>>
        <3>1. Traded([fills |-> left], s) = 0
            BY <2>9, NoneTraded
        <3> HIDE DEF r
        <3> QED BY <2>1, <2>2, <2>3, <2>4, <2>5, <2>6, <2>7, <3>1
    <2> QED BY <2>8, <2>9 DEF Ended
<1>4. bars' = bars
    BY DEF Ended
<1> QED BY <1>2, <1>3, <1>4 DEF Budgeted

\* A step that ends the first request, with the book it leaves.
LEMMA EndedStep ==
    ASSUME LiveInv, phase = "send", NEW n \in Nat, n <= Head(requests).qty,
           NEW left, Ended(n, left),
           cash' \in Int, pos' \in [Symbols -> Positions], fills' \in Seq(LiveFills),
           pending' = pending,
           \/ halted' = TRUE /\ phase' = "idle" /\ left = <<>> /\ rebalance' = NoTarget
           \/ /\ halted' = halted /\ rebalance' \in {rebalance, NoTarget}
              /\ phase' = IF left # <<>> THEN "send"
                          ELSE IF rebalance' # NoTarget THEN "leg" ELSE "idle"
    PROVE  LiveInv'
<1>1. left \in Seq(Requests) /\ Budgeted(fills', left, bars')
    BY EndedBudget
<1>2. ~halted
    BY Sending
<1>3. requests' = left /\ bars' = bars
    BY DEF Ended
<1>4. rebalance' \in LiveTargets \union {NoTarget}
    BY DEF LiveInv
<1>5. bars' \in Cohorts /\ pending' \in Pendings
    BY <1>3 DEF LiveInv
<1>6. /\ halted' \in BOOLEAN /\ phase' \in {"idle", "leg", "send"}
      /\ halted' => phase' = "idle"
      /\ phase' = "send" <=> requests' # <<>>
      /\ phase' = "leg" => rebalance' \in LiveTargets
    <2>1. CASE halted' = TRUE /\ phase' = "idle" /\ left = <<>> /\ rebalance' = NoTarget
        BY <1>3, <2>1
    <2>2. CASE /\ halted' = halted /\ rebalance' \in {rebalance, NoTarget}
               /\ phase' = IF left # <<>> THEN "send"
                           ELSE IF rebalance' # NoTarget THEN "leg" ELSE "idle"
        <3>1. halted' = FALSE
            BY <1>2, <2>2 DEF LiveInv
        <3> QED BY <1>3, <1>4, <2>2, <3>1
    <2> QED BY <2>1, <2>2
<1> QED BY <1>1, <1>3, <1>4, <1>5, <1>6 DEF LiveInv

LEMMA FilledStepLive ==
    ASSUME LiveInv, OrderFills
    PROVE  LiveInv' /\ ~halted
<1> DEFINE r == Head(requests)
<1>1. /\ phase = "send" /\ BookFill(r, r.qty)
      /\ \/ HaltLive
         \/ GoesOn(Tail(requests), rebalance)
      /\ pending' = pending /\ bars' = bars
    BY DEF OrderFills
<1>2. r \in Requests /\ ~halted /\ r.qty \in Nat
    BY <1>1, Sending, LiveQuantities
<1>0. r.qty <= Head(requests).qty
    BY <1>2
<1>3. /\ cash' \in Int /\ pos' \in [Symbols -> Positions] /\ fills' \in Seq(LiveFills)
      /\ \A s : Traded([fills |-> fills'], s) = Traded([fills |-> fills], s) + Part(r, s, r.qty)
    <2> HIDE DEF r
    <2> QED BY <1>1, <1>2, AppliedType DEF BookFill
<1>4. CASE HaltLive
    <2>1. Ended(r.qty, <<>>)
        BY <1>1, <1>3, <1>4 DEF Ended, HaltLive
    <2>2. halted' = TRUE /\ phase' = "idle" /\ rebalance' = NoTarget
        BY <1>4 DEF HaltLive
    <2> QED BY <1>0, <1>1, <1>2, <1>3, <2>1, <2>2, EndedStep
<1>5. CASE GoesOn(Tail(requests), rebalance)
    <2> DEFINE left == Tail(requests)
    <2>1. Ended(r.qty, left)
        BY <1>1, <1>3, <1>5, TailLeft DEF Ended, GoesOn
    <2>2. /\ halted' = halted /\ rebalance' = rebalance
          /\ phase' = IF left # <<>> THEN "send"
                      ELSE IF rebalance' # NoTarget THEN "leg" ELSE "idle"
        BY <1>5 DEF GoesOn
    <2> HIDE DEF left
    <2> QED BY <1>0, <1>1, <1>2, <1>3, <2>1, <2>2, EndedStep
<1> QED BY <1>1, <1>4, <1>5

LEMMA FailedStepLive ==
    ASSUME LiveInv, OrderFails
    PROVE  LiveInv' /\ ~halted
<1> DEFINE r == Head(requests)
<1>1. PICK n \in 0..(r.qty - 1) :
         /\ BookFill(r, n)
         /\ HaltLive \/ GoesOn(Others(r), NoTarget)
    BY DEF OrderFails
<1>2. phase = "send" /\ pending' = pending /\ bars' = bars
    BY DEF OrderFails
<1>3. r \in Requests /\ ~halted /\ r.qty \in Nat /\ n \in Nat /\ n <= r.qty
    BY <1>2, Sending, LiveQuantities
<1>4. /\ cash' \in Int /\ pos' \in [Symbols -> Positions] /\ fills' \in Seq(LiveFills)
      /\ \A s : Traded([fills |-> fills'], s) = Traded([fills |-> fills], s) + Part(r, s, n)
    <2> HIDE DEF r
    <2> QED BY <1>1, <1>3, AppliedType DEF BookFill
<1>5. CASE HaltLive
    <2>1. Ended(n, <<>>)
        BY <1>2, <1>4, <1>5 DEF Ended, HaltLive
    <2>2. halted' = TRUE /\ phase' = "idle" /\ rebalance' = NoTarget
        BY <1>5 DEF HaltLive
    <2> QED BY <1>2, <1>3, <1>4, <2>1, <2>2, EndedStep
<1>6. CASE GoesOn(Others(r), NoTarget)
    <2> DEFINE left == Others(r)
    <2>1. Ended(n, left)
        BY <1>2, <1>4, <1>6, OthersLeft DEF Ended, GoesOn
    <2>2. /\ halted' = halted /\ rebalance' = NoTarget
          /\ phase' = IF left # <<>> THEN "send"
                      ELSE IF rebalance' # NoTarget THEN "leg" ELSE "idle"
        BY <1>6 DEF GoesOn
    <2> HIDE DEF left
    <2> QED BY <1>2, <1>3, <1>4, <2>1, <2>2, EndedStep
<1> QED BY <1>1, <1>5, <1>6

LEMMA DroppedStep ==
    ASSUME LiveInv, DropPausedEntry \/ DropUnfundedEntry
    PROVE  LiveInv' /\ ~halted
<1> DEFINE r == Head(requests)
<1>1. /\ phase = "send" /\ UNCHANGED <<cash, pos, fills, pending, bars>>
      /\ GoesOn(Others(r), rebalance) \/ GoesOn(Others(r), NoTarget)
    <2>1. CASE DropPausedEntry
        <3>1. GoesOn(Others(r), rebalance) \/ GoesOn(Others(r), NoTarget)
            BY <2>1 DEF DropPausedEntry
        <3> QED BY <2>1, <3>1 DEF DropPausedEntry
    <2>2. CASE DropUnfundedEntry
        BY <2>2 DEF DropUnfundedEntry
    <2> QED BY <2>1, <2>2
<1>2. r.qty \in Nat /\ ~halted
    BY <1>1, Sending, LiveQuantities
<1> DEFINE left == Others(r)
<1>3. Ended(0, left)
    <2>1. \A s : Part(r, s, 0) = 0 /\ Traded([fills |-> fills], s) \in Nat
        BY LiveTraded DEF Part
    <2>2. requests' = left
        BY <1>1 DEF GoesOn
    <2> QED BY <1>1, <2>1, <2>2, OthersLeft DEF Ended
<1>4. /\ halted' = halted /\ rebalance' \in {rebalance, NoTarget}
      /\ phase' = IF left # <<>> THEN "send"
                  ELSE IF rebalance' # NoTarget THEN "leg" ELSE "idle"
    BY <1>1 DEF GoesOn
<1>5. cash' \in Int /\ pos' \in [Symbols -> Positions] /\ fills' \in Seq(LiveFills)
    BY <1>1 DEF LiveInv
<1>6. 0 \in Nat /\ 0 <= Head(requests).qty /\ pending' = pending
    BY <1>1, <1>2
<1> HIDE DEF left, r
<1>7. LiveInv'
    BY <1>1, <1>3, <1>4, <1>5, <1>6, EndedStep
<1> QED BY <1>2, <1>7

\* No step of a live run follows a halt.
LEMMA LiveStep ==
    ASSUME LiveInv, NextLive
    PROVE  LiveInv' /\ ~halted
<1>1. CASE PauseEntries
    BY <1>1 DEF PauseEntries, runVars, LiveInv
<1> QED BY <1>1, DecideLive, CohortLive, LegPlanned, FilledStepLive, FailedStepLive,
           DroppedStep DEF NextLive

LEMMA LiveInit ==
    ASSUME InitRun, InitLive, phase = "idle"
    PROVE  LiveInv
<1>1. /\ cash = StartCash /\ pos = [s \in Symbols |-> Flat] /\ halted = FALSE
      /\ pending = Nothing /\ bars = <<>> /\ fills = <<>> /\ requests = <<>>
      /\ rebalance = NoTarget
    BY DEF InitRun, InitLive, Nothing
<1>2. cash \in Int /\ pos \in [Symbols -> Positions]
    BY <1>1, BookAssumption DEF Flat, Positions, GroupIds
<1>3. bars \in Cohorts /\ DOMAIN bars = {}
    <2>1. <<>> \in [{} -> BarShapes] /\ DOMAIN <<>> = {}
        BY SMT
    <2> QED BY <1>1, <2>1 DEF Cohorts
<1>4. pending \in Pendings
    BY <1>1 DEF Nothing, Pendings, Stamps
<1>5. fills \in Seq(LiveFills) /\ requests \in Seq(Requests)
    BY <1>1
<1>6. Budgeted(fills, requests, bars)
    BY <1>3 DEF Budgeted
<1> QED BY <1>1, <1>2, <1>3, <1>4, <1>5, <1>6 DEF LiveInv

(***************************************************************************)
(* The three kinds of run, and what holds of all of them.                  *)
(***************************************************************************)
RunInv ==
    /\ mode \in {"backtest", "shadow", "live"}
    /\ mode = "backtest" => BacktestInv
    /\ mode = "shadow" => ShadowInv
    /\ mode = "live" => LiveInv
    /\ mode # "shadow" => FeedAtRest
    /\ mode # "backtest" => NoResidual

LEMMA RunInit ==
    ASSUME Init
    PROVE  RunInv
<1>1. InitRun /\ InitBacktest /\ InitShadow /\ InitLive /\ mode \in Modes
    BY DEF Init
<1>2. mode \in {"backtest", "shadow", "live"}
    BY <1>1, ModesAssumption
<1>3. FeedAtRest
    <2>1. Warmup - 1 \in Nat
        BY FeedAssumption
    <2> QED BY <1>1, <2>1 DEF InitShadow, InitFeed, FeedAtRest, None
<1>4. NoResidual
    BY <1>1 DEF InitBacktest, NoResidual
<1>5. /\ mode = "backtest" => phase = "execute"
      /\ mode # "backtest" => phase = "idle"
    BY DEF Init
<1>6. mode = "backtest" => BacktestInv
    BY <1>1, <1>5, BacktestInit
<1>7. mode = "shadow" => ShadowInv
    BY <1>1, <1>5, ShadowInit
<1>8. mode = "live" => LiveInv
    BY <1>1, <1>5, LiveInit
<1> QED BY <1>2, <1>3, <1>4, <1>6, <1>7, <1>8 DEF RunInv

\* A step that changes nothing.
LEMMA StillBacktest ==
    ASSUME BacktestInv, UNCHANGED vars
    PROVE  BacktestInv'
<1>1. UNCHANGED <<cash, pos, halted, pending, bar, bars, fills, phase,
                  frontier, delay, rebal>>
    BY DEF vars, runVars, backtestVars
<1>2. BookOK(Snapshot) /\ pending' \in Pendings
    BY <1>1 DEF BacktestInv, BookOK, Snapshot
<1>3. BookOK(Snapshot)'
    BY <1>1, <1>2, SameBook
<1> QED BY <1>1, <1>3 DEF BacktestInv

LEMMA StillShadow ==
    ASSUME ShadowInv, HistoryTypes, UNCHANGED vars
    PROVE  ShadowInv'
<1>1. UNCHANGED <<cash, pos, halted, pending, bar, bars, fills, phase, mark,
                  execMark, lastCycle, cache, due, saved, released>>
    BY DEF vars, runVars, shadowVars, feedVars
<1>2. Later /\ Saves
    BY <1>1, SameReleases DEF Saves
<1>3. pending' \in Pendings
    BY <1>1, ShadowFields
<1>4. SnapshotOK(Snapshot)' /\ SnapshotOK(saved)' /\ SavedShape'
    BY <1>1, <1>2, <1>3, StillStep
<1>5. CASE phase \in {"idle", "execute"}
    BY <1>1, <1>4, <1>5, EndsCycle DEF ShadowInv
<1>6. CASE phase \in {"decide", "mark"}
    BY <1>1, <1>4, <1>6, GoesOnCycle DEF ShadowInv
<1> QED BY <1>5, <1>6 DEF ShadowInv

LEMMA StillLive ==
    ASSUME LiveInv, UNCHANGED vars
    PROVE  LiveInv'
<1>1. UNCHANGED <<cash, pos, halted, pending, bars, fills, requests, rebalance, phase>>
    BY DEF vars, runVars, liveVars
<1> QED BY <1>1 DEF LiveInv

LEMMA StillRest ==
    /\ (FeedAtRest /\ UNCHANGED <<cache, mark, execMark, released>>) => FeedAtRest'
    /\ (NoResidual /\ UNCHANGED <<rebal, delay>>) => NoResidual'
BY DEF FeedAtRest, NoResidual

\* What a step leaves, by the kind of run.
LEMMA RunNext ==
    ASSUME RunInv, HistoryInv, HistoryInv', [Next]_vars
    PROVE  /\ RunInv'
           /\ [halted => Shrunk \/ Restored]_vars
<1>1. CASE UNCHANGED vars
    <2>1. mode' = mode /\ UNCHANGED <<cache, mark, execMark, released, rebal, delay>>
        BY <1>1 DEF vars, backtestVars, shadowVars, feedVars
    <2>2. mode = "backtest" => BacktestInv'
        BY <1>1, StillBacktest DEF RunInv
    <2>3. mode = "shadow" => ShadowInv'
        BY <1>1, StillShadow DEF RunInv, HistoryInv
    <2>4. mode = "live" => LiveInv'
        BY <1>1, StillLive DEF RunInv
    <2> QED BY <1>1, <2>1, <2>2, <2>3, <2>4, StillRest DEF RunInv
<1>2. CASE mode = "backtest" /\ NextBacktest /\ UNCHANGED <<mode, shadowVars, liveVars>>
    <2>1. BacktestInv' /\ (halted => Shrunk)
        BY <1>2, BacktestStep DEF RunInv
    <2>2. mode' = mode /\ UNCHANGED <<cache, mark, execMark, released>>
        BY <1>2 DEF shadowVars, feedVars
    <2>3. FeedAtRest'
        BY <1>2, <2>2, StillRest DEF RunInv
    <2> QED BY <1>2, <2>1, <2>2, <2>3 DEF RunInv
<1>3. CASE mode = "shadow" /\ NextShadow /\ UNCHANGED <<mode, backtestVars, liveVars>>
    <2>1. mode' = mode /\ UNCHANGED <<rebal, delay>>
        BY <1>3 DEF backtestVars
    <2>2. HistoryTypes /\ HistoryTypes' /\ ShadowInv
        BY <1>3, <2>1 DEF HistoryInv, RunInv
    <2>3. ShadowInv' /\ (halted => Shrunk \/ Restored)
        BY <1>3, <2>2, ShadowStep
    <2>4. NoResidual'
        BY <1>3, <2>1, StillRest DEF RunInv
    <2> QED BY <1>3, <2>1, <2>3, <2>4 DEF RunInv
<1>4. CASE mode = "live" /\ NextLive /\ UNCHANGED <<mode, backtestVars, shadowVars>>
    <2>1. mode' = mode /\ UNCHANGED <<cache, mark, execMark, released, rebal, delay>>
        BY <1>4 DEF backtestVars, shadowVars, feedVars
    <2>2. LiveInv' /\ ~halted
        BY <1>4, LiveStep DEF RunInv
    <2>3. FeedAtRest' /\ NoResidual'
        BY <1>4, <2>1, StillRest DEF RunInv
    <2> QED BY <1>4, <2>1, <2>2, <2>3 DEF RunInv
<1> QED BY <1>1, <1>2, <1>3, <1>4 DEF Next

THEOREM RunInvariance == Spec => []RunInv
<1>1. Init => RunInv
    BY RunInit
<1>2. RunInv /\ HistoryInv /\ HistoryInv' /\ [Next]_vars => RunInv'
    BY RunNext
<1> QED BY <1>1, <1>2, HistoryInvariance, PTL DEF Spec

\* After a drawdown halt no step of a run increases a position: what is left
\* is to close what is open, by the exits the halt queued, the protections of
\* the positions and the end of the run; a restart alone puts an earlier book
\* in the place of the later one.
THEOREM HaltReduces == Spec => HaltOnlyReduces
<1>1. RunInv /\ HistoryInv /\ HistoryInv' /\ [Next]_vars =>
         [(halted /\ ~Restored) =>
             \A s \in Symbols : Magnitude(pos'[s].qty) <= Magnitude(pos[s].qty)]_vars
    BY RunNext DEF Shrunk
<1> QED BY <1>1, RunInvariance, HistoryInvariance, PTL DEF Spec, HaltOnlyReduces

\* What is left of a target never aims at a symbol that owes a protective
\* exit: the bar that found the exit owed gave its share up, and no later bar
\* takes it up again (_cancel_rebalance_symbols).
THEOREM ExitOwns == Spec => []ExitOwnsSymbol
<1>1. RunInv => ExitOwnsSymbol
    BY DEF RunInv, ExitOwnsSymbol, BacktestInv, NoResidual, Free
<1> QED BY <1>1, RunInvariance, PTL

\* A day limit fills in the session it first rested in or never, in a
\* backtest, a simulated run on a feed and a live run.
THEOREM DaySessionHolds == Spec => []DaySession
<1>1. RunInv => DaySession
    <2> SUFFICES ASSUME RunInv, NEW k \in DOMAIN fills
                 PROVE  InSession(fills[k], bar)
        BY DEF DaySession, InSession
    <2>1. CASE mode = "live"
        <3>1. fills \in Seq(LiveFills)
            BY <2>1 DEF RunInv, LiveInv
        <3>2. fills[k] \in LiveFills
            BY <3>1
        <3> QED BY <3>2 DEF LiveFills, InSession
    <2>2. CASE mode # "live"
        <3>1. BookOK(Snapshot)
            BY <2>2, ShadowFields DEF RunInv, BacktestInv
        <3>2. fills \in Seq(FillsAt(bar))
            BY <3>1, BookFields
        <3>3. fills[k] \in FillsAt(bar)
            BY <3>2
        <3> QED BY <3>3 DEF FillsAt
    <2> QED BY <2>1, <2>2
<1> QED BY <1>1, RunInvariance, PTL

LEMMA CohortRoom ==
    ASSUME NEW c \in Cohorts, NEW s \in DOMAIN c
    PROVE  s \in Symbols /\ c[s] \in BarShapes /\ c[s].room \in Nat
<1>1. PICK D \in SUBSET Symbols : c \in [D -> BarShapes]
    BY DEF Cohorts
<1>2. s \in D /\ c[s] \in BarShapes
    BY <1>1
<1> QED BY <1>2 DEF BarShapes

LEMMA ShadowBudget ==
    ASSUME ShadowInv, HistoryTypes, phase = "decide", NEW s \in DOMAIN bars
    PROVE  Within(fills, bars, s)
<1>1. due # {} /\ bars = Cohort
    BY DEF HistoryTypes, ShadowInv
<1>2. /\ s \in Present /\ s \in Symbols /\ execMark[s] = Event
      /\ bars[s] = ShapeOf(s, Event) /\ bars[s].room \in Nat
    BY <1>1, EventServed, CohortRoom DEF ShadowInv
<1>3. Traded(Snapshot, s) = Traded([fills |-> fills], s)
    <2>1. Snapshot.fills = [fills |-> fills].fills
        BY DEF Snapshot
    <2> QED BY <2>1, SameTraded
<1>4. \/ Traded(Snapshot, s) = 0
      \/ /\ execMark[s] = bar
         /\ Traded(Snapshot, s) <= ShapeOf(s, bar).room
    BY <1>2, ShadowFields, SnapshotFields DEF Absorbed
<1>5. Traded([fills |-> fills], s) <= bars[s].room
    BY <1>2, <1>3, <1>4
<1> QED BY <1>5 DEF Within

LEMMA LiveBudget ==
    ASSUME LiveInv, NEW s \in DOMAIN bars
    PROVE  Within(fills, bars, s)
<1> DEFINE done == Traded([fills |-> fills], s)
           left == Traded([fills |-> requests], s)
<1>1. done + left <= bars[s].room
    BY DEF LiveInv, Budgeted
<1>2. done \in Nat
    <2>1. [fills |-> fills].fills \in Seq(LiveFills)
        BY DEF LiveInv
    <2> QED BY <2>1, TradedNat, LiveQuantities
<1>3. left \in Nat
    <2>1. [fills |-> requests].fills \in Seq(Requests)
        BY DEF LiveInv
    <2> QED BY <2>1, TradedNat, LiveQuantities
<1>4. bars[s].room \in Nat
    BY CohortRoom DEF LiveInv
<1>5. done = Traded([fills |-> fills], s)
    OBVIOUS
<1> HIDE DEF done, left
<1>6. done <= bars[s].room
    BY <1>1, <1>2, <1>3, <1>4
<1> QED BY <1>5, <1>6 DEF Within

\* The fills of one bar stay within the liquidity it has, however the bar was
\* worked: intents, legs of a target, protective exits, the end of the run and
\* a second pass over the bar after a restart share one budget, and so do the
\* fills of a live bar and what is still to be sent of its plan.
THEOREM LiquidityHolds == Spec => []LiquidityRespected
<1>1. RunInv /\ HistoryInv => LiquidityRespected
    <2> SUFFICES ASSUME RunInv, HistoryInv
                 PROVE  LiquidityRespected
        OBVIOUS
    <2>1. ASSUME phase = "decide", NEW s \in DOMAIN bars
          PROVE  Within(fills, bars, s)
        <3>1. CASE mode = "backtest"
            BY <2>1, <3>1 DEF RunInv, BacktestInv
        <3>2. CASE mode = "shadow"
            BY <2>1, <3>2, ShadowBudget DEF RunInv, HistoryInv
        <3>3. CASE mode = "live"
            BY <2>1, <3>3, LiveBudget DEF RunInv
        <3> QED BY <3>1, <3>2, <3>3 DEF RunInv
    <2>2. ASSUME phase = "finished", NEW s \in DOMAIN bars
          PROVE  \/ Within(fills, bars, s)
                 \/ \A k \in DOMAIN fills : /\ fills[k].sym = s
                                            => fills[k].tif # "force_close"
        <3>1. mode = "backtest"
            BY <2>2 DEF RunInv, ShadowInv, LiveInv
        <3> QED BY <2>2, <3>1 DEF RunInv, BacktestInv
    <2>3. ASSUME mode = "live", NEW s \in DOMAIN bars
          PROVE  Within(fills, bars, s)
        BY <2>3, LiveBudget DEF RunInv
    <2> QED BY <2>1, <2>2, <2>3 DEF LiquidityRespected, Within
<1> QED BY <1>1, RunInvariance, HistoryInvariance, PTL

LEMMA GrossNat ==
    ASSUME NEW p \in [Symbols -> Positions]
    PROVE  Gross(p) \in Nat
<1> DEFINE none == [s \in Symbols |-> 0]
           f == [s \in Symbols |-> Magnitude(p[s].qty)]
<1>1. /\ none \in [Symbols -> Int] /\ f \in [Symbols -> Int]
      /\ \A s \in Symbols : none[s] = 0 /\ none[s] <= f[s]
    BY SizesType
<1>2. Gross(p) = Total(f)
    BY DEF Gross
<1> HIDE DEF none, f
<1>3. Total(none) = 0
    BY <1>1, TotalZero, BookAssumption
<1>4. Total(none) <= Total(f)
    BY <1>1, TotalGrows, BookAssumption
<1>5. Total(f) \in Int
    BY <1>1, TotalInt, BookAssumption
<1> QED BY <1>2, <1>3, <1>4, <1>5

\* A quantity whose size a limit bounds lies between the limit and its opposite.
LEMMA SizeBounds ==
    ASSUME NEW n \in Int, NEW cap \in Nat, Magnitude(n) <= cap
    PROVE  n \in -cap..cap
BY DEF Magnitude

LEMMA BookTypes ==
    ASSUME BookOK(Snapshot)
    PROVE  /\ cash \in 0..StartCash
           /\ cash + Total([s \in Symbols |-> Magnitude(pos[s].qty)]) = StartCash
           /\ \A s \in Symbols : /\ pos[s].qty \in -MaxPosition..MaxPosition
                                 /\ pos[s].qty = 0 => pos[s] = Flat
           /\ halted \in BOOLEAN /\ (~halted => Gross(pos) <= MaxGross)
           /\ pending.intents \in Seq(Intents)
<1>1. /\ cash \in Int /\ pos \in [Symbols -> Positions]
      /\ halted \in BOOLEAN /\ (~halted => Gross(pos) <= MaxGross)
      /\ pending \in Pendings
    BY BookFields
<1>2. /\ cash >= 0 /\ cash + Gross(pos) = StartCash
      /\ \A s \in Symbols : /\ Magnitude(pos[s].qty) <= MaxPosition
                            /\ pos[s].qty = 0 => pos[s] = Flat
    BY DEF BookOK, Sound, Snapshot
<1>3. Gross(pos) \in Nat /\ StartCash \in Nat /\ MaxPosition \in Nat
    BY <1>1, GrossNat, BookAssumption
<1>4. cash \in 0..StartCash
    BY <1>1, <1>2, <1>3
<1>5. cash + Total([s \in Symbols |-> Magnitude(pos[s].qty)]) = StartCash
    BY <1>2 DEF Gross
<1>6. \A s \in Symbols : pos[s].qty \in Int
    BY <1>1 DEF Positions
<1>7. \A s \in Symbols : pos[s].qty \in -MaxPosition..MaxPosition
    BY <1>2, <1>3, <1>6, SizeBounds
<1> QED BY <1>1, <1>2, <1>4, <1>5, <1>7, PendingSeq

\* The book of a backtest and of a simulated run on a feed: it never borrows,
\* its cash and its positions add up to the starting cash, no position passes
\* max_position_weight and, until a drawdown halt, their sum never passes
\* max_gross_exposure; only an open position carries a protection or owes an
\* exit; and the history a symbol holds ends before what it executed, which ends
\* before what its source released.
THEOREM SimulatedBookSafe == Spec => [](mode # "live" => TypeOK)
<1>1. RunInv /\ HistoryInv => (mode # "live" => TypeOK)
    <2> SUFFICES ASSUME RunInv, HistoryInv, mode # "live"
                 PROVE  TypeOK
        OBVIOUS
    <2>1. BookOK(Snapshot)
        BY ShadowFields DEF RunInv, BacktestInv
    <2>2. phase \in {"idle", "execute", "decide", "mark", "failed", "finished",
                     "send", "leg"}
        BY DEF RunInv, BacktestInv, ShadowInv
    <2>3. /\ rebal # NoRebalance => Targeted(rebal) # {}
          /\ delay \in 0..MaxDelay
        BY BacktestAssumption DEF RunInv, BacktestInv, NoResidual
    <2>4. ASSUME NEW s \in Symbols
          PROVE  /\ cache[s] \subseteq 0..released[s]
                 /\ mark[s] <= execMark[s] /\ execMark[s] <= released[s]
        <3>1. CASE mode = "shadow"
            <4>1. cache[s] \subseteq Served(s) /\ SourceTypes
                BY <3>1 DEF HistoryInv, HistoryTypes
            <4>2. Served(s) \in SUBSET (0..released[s])
                BY <4>1, ServedTypes
            <4> QED BY <3>1, <4>1, <4>2, ShadowFields DEF RunInv
        <3>2. CASE mode # "shadow"
            BY <3>2 DEF RunInv, FeedAtRest
        <3> QED BY <3>1, <3>2
    <2> QED BY <2>1, <2>2, <2>3, <2>4, BookTypes DEF TypeOK
<1> QED BY <1>1, RunInvariance, HistoryInvariance, PTL

(***************************************************************************)
(* The bars a simulated run executes.                                      *)
(***************************************************************************)
\* The timestamps a cycle has still to process.
DueBars == {c[1] : c \in due}

\* A bar of s still due comes after its mark in turn, or within the window of
\* the mark the cycle itself set first.
InTurn(s, b) ==
    \/ (mark[s] + 1)..b \subseteq DueBars \cap cache[s]
    \/ b <= mark[s] + Warmup - 1
Turns(s) ==
    \A b \in DueBars \cap cache[s] :
        /\ mark[s] # None => (b > mark[s] => InTurn(s, b))
        /\ mark[s] = None => \A a \in cache[s] : b <= a + Warmup - 1
CycleOK == \A s \in Symbols : Turns(s)
CycleInv == (mode = "shadow" /\ Warmup > 1) => CycleOK

\* A window without a hole is no longer than Warmup.
LEMMA WindowLength ==
    ASSUME NEW r \in Nat, NEW R \in SUBSET (0..r), Solid(Newest(Warmup, R)),
           NEW a \in Newest(Warmup, R), NEW b \in Newest(Warmup, R)
    PROVE  b <= a + Warmup - 1
<1> DEFINE T == {c \in R : c >= a}
<1>1. a \in Nat /\ b \in Nat /\ Warmup \in Nat /\ Warmup >= 1
    BY FeedAssumption DEF Newest
<1>2. Cardinality(T) <= Warmup /\ T \in SUBSET R
    BY DEF Newest
<1>3. IsFiniteSet(T)
    BY <1>2, FiniteBelow, FS_Subset
<1>4. CASE b < a
    BY <1>1, <1>4
<1>5. CASE a <= b
    <2>1. a..b \in SUBSET T
        <3>1. \A k \in a..b : k \in Newest(Warmup, R)
            BY DEF Solid
        <3>2. \A k \in a..b : k \in R
            BY <3>1 DEF Newest
        <3> QED BY <1>1, <3>2
    <2>2. Cardinality(a..b) = b - a + 1
        BY <1>1, <1>5, FS_Interval
    <2> HIDE DEF T
    <2>3. Cardinality(a..b) <= Cardinality(T) /\ Cardinality(T) \in Nat
        BY <1>3, <2>1, FS_Subset, FS_CardinalityType
    <2> QED BY <1>1, <1>2, <2>2, <2>3
<1> QED BY <1>1, <1>4, <1>5

\* The bars a poll finds due.
LEMMA PollDue ==
    ASSUME NEW fails, Poll(fails), due' # {}, NEW s \in Symbols, NEW b \in DueBars'
    PROVE  /\ b \in 0..FeedBars
           /\ \A k \in cache'[s] :
                 (mark[s] # None /\ mark[s] < k /\ k <= b /\ k \in Nat) => k \in DueBars'
<1> DEFINE H == HeldFrom(cache', Candidates(cache'))
<1>1. /\ due' = {c \in Candidates(cache') : \A h \in H : c[1] < h}
      /\ mark' = mark
    BY PollTakes DEF Released
<1>2. H \in SUBSET Int
    BY FeedAssumption DEF HeldFrom, Candidates
<1> HIDE DEF H
<1>3. PICK d \in due' : b = d[1]
    BY DEF DueBars
<1>4. b \in 0..FeedBars /\ \A h \in H : b < h
    BY <1>1, <1>3 DEF Candidates
<1>5. ASSUME NEW k \in cache'[s], mark[s] # None, mark[s] < k, k <= b, k \in Nat
      PROVE  k \in DueBars'
    <2>1. k \in 0..FeedBars
        BY <1>4, <1>5, FeedAssumption
    <2>2. <<k, s>> \in Candidates(cache')
        BY <1>1, <1>5, <2>1 DEF Candidates
    <2>3. \A h \in H : k < h
        BY <1>2, <1>4, <1>5
    <2>4. <<k, s>> \in due'
        BY <1>1, <2>2, <2>3
    <2> QED BY <2>4 DEF DueBars
<1> QED BY <1>4, <1>5

\* A symbol without a mark keeps the newest window only.
LEMMA PollStores ==
    ASSUME NEW fails, Poll(fails), due' # {}, NEW s \in Symbols, mark[s] = None
    PROVE  cache'[s] = Newest(Warmup, Fetch(s, fails[s]).bars)
<1>1. PICK g \in {[t \in Symbols |-> Fetch(t, fails[t])]} :
         \E bs \in {[t \in Symbols |-> Stored(t, g[t].bars)]} :
            LET over == {t \in Symbols : Overflows(t, g[t].bars)}
                usable == /\ backlog \union over = {}
                          /\ \A t \in Symbols : /\ g[t].ok
                                                /\ ~Gap(t, bs[t])
                                                /\ ~Stale(t, bs[t])
            IN /\ due' = IF usable THEN Released(bs) ELSE {}
               /\ cache' = IF usable /\ due' = {} THEN Trimmed(bs) ELSE bs
    BY DEF Poll
<1>2. cache' = [t \in Symbols |-> Stored(t, g[t].bars)]
    BY <1>1
<1>3. cache'[s] = Stored(s, Fetch(s, fails[s]).bars)
    BY <1>1, <1>2
<1> QED BY <1>3, StoredFirst

LEMMA PollTurns ==
    ASSUME HistoryTypes, HistoryTypes', CachesGood', NEW fails, Poll(fails), Warmup > 1
    PROVE  CycleOK'
<1> SUFFICES ASSUME NEW s \in Symbols, NEW b \in DueBars' \cap cache'[s]
             PROVE  /\ mark'[s] # None => (b > mark'[s] => InTurn(s, b)')
                    /\ mark'[s] = None => \A a \in cache'[s] : b <= a + Warmup - 1
    BY DEF CycleOK, Turns
<1>1. due' # {} /\ mark' = mark /\ start' = start /\ released' = released
    BY DEF DueBars, Poll
<1>2. b \in 0..FeedBars /\ mark[s] \in Int
    BY <1>1, PollDue DEF HistoryTypes
<1>3. released[s] \in Nat /\ cache'[s] \in SUBSET (0..released[s])
    <2>1. cache'[s] \in SUBSET (Served(s)')
        BY DEF HistoryTypes
    <2>2. Served(s)' = Served(s)
        BY <1>1 DEF Served
    <2> QED BY <2>1, <2>2, ServedTypes DEF HistoryTypes
<1>4. Solid(cache'[s]) /\ CacheGood(s)'
    BY <1>1 DEF CachesGood, Solid
<1>5. ASSUME mark[s] # None, b > mark[s]
      PROVE  InTurn(s, b)'
    <2>1. mark[s] \in cache'[s]
        <3> DEFINE R == cache'[s]
        <3>1. R \in SUBSET Nat /\ IsFiniteSet(R)
            <4>1. R \in SUBSET (0..released[s])
                BY <1>3
            <4> HIDE DEF R
            <4> QED BY <1>3, <4>1, FiniteBelow
        <3>2. ~Gap(s, R) /\ Good(R, mark[s])
            BY <1>1, <1>4, <1>5, PollTakes DEF CacheGood, Good, Upto, Solid, None
        <3> HIDE DEF R
        <3>3. mark[s] \in R
            BY <1>2, <1>5, <3>1, <3>2, SoundCache
        <3> QED BY <3>3 DEF R
    <2>2. ASSUME NEW k \in (mark[s] + 1)..b
          PROVE  k \in DueBars' /\ k \in cache'[s]
        <3>1. k \in mark[s]..b /\ mark[s] < k /\ k <= b /\ k \in Nat
            BY <1>2, <1>3, <2>1
        <3>2. k \in cache'[s]
            BY <1>4, <2>1, <3>1 DEF Solid
        <3> QED BY <1>1, <1>5, <3>1, <3>2, PollDue
    <2> QED BY <1>1, <2>2 DEF InTurn
<1>6. ASSUME mark[s] = None, NEW a \in cache'[s]
      PROVE  b <= a + Warmup - 1
    <2> DEFINE R == Fetch(s, fails[s]).bars
    <2>1. cache'[s] = Newest(Warmup, R)
        BY <1>1, <1>6, PollStores
    <2>2. R \in SUBSET (0..released[s])
        <3>1. R \in SUBSET Served(s)
            BY FetchServed DEF HistoryTypes
        <3> QED BY <3>1, ServedTypes DEF HistoryTypes
    <2> HIDE DEF R
    <2> QED BY <1>3, <1>4, <1>6, <2>1, <2>2, WindowLength
<1> QED BY <1>1, <1>5, <1>6

\* A step between polls and marks leaves what is due, or ends the cycle.
LEMMA QuietTurns ==
    ASSUME CycleOK, UNCHANGED <<mark, cache>>, due' \in {due, {}}
    PROVE  CycleOK'
<1>1. CASE due' = {}
    BY <1>1 DEF CycleOK, Turns, DueBars
<1>2. CASE due' = due
    <2>1. DueBars' = DueBars
        BY <1>2 DEF DueBars
    <2> QED BY <2>1 DEF CycleOK, Turns, InTurn
<1> QED BY <1>1, <1>2

\* The timestamp of the cycle is the first of those due.
LEMMA FirstDue ==
    ASSUME ShadowInv, due # {}
    PROVE  /\ Event \in DueBars /\ \A b \in DueBars : b \in Nat /\ Event <= b
<1>1. DueBars # {} /\ DueBars \in SUBSET Nat
    BY FeedAssumption DEF ShadowInv, DueBars
<1>2. Event = Min(DueBars)
    BY DEF Event, DueBars
<1> QED BY <1>1, <1>2, MinOfNaturals

LEMMA MarkTurns ==
    ASSUME HistoryTypes, ShadowInv, CycleOK, Mark, Warmup > 1
    PROVE  CycleOK'
<1> DEFINE rest == {c \in due : c[1] # Event}
<1>1. /\ mark' = [s \in Symbols |-> IF s \in Advanced THEN Event ELSE mark[s]]
      /\ due' \in {rest, {}} /\ due # {}
      /\ due' # {} => cache' = cache
    <2>1. phase = "mark" /\ due # {}
        BY DEF Mark, HistoryTypes
    <2> QED BY <2>1 DEF Mark, Checkpoint, GivesUp
<1> SUFFICES ASSUME due' = rest, NEW s \in Symbols, NEW b \in DueBars' \cap cache'[s]
             PROVE  /\ mark'[s] # None => (b > mark'[s] => InTurn(s, b)')
                    /\ mark'[s] = None => \A a \in cache'[s] : b <= a + Warmup - 1
    <2>1. CASE due' = {}
        BY <2>1 DEF CycleOK, Turns, DueBars
    <2>2. CASE due' = rest
        BY <2>2 DEF CycleOK, Turns
    <2> QED BY <1>1, <2>1, <2>2
<1>2. DueBars' = DueBars \ {Event}
    BY DEF DueBars
<1>3. cache' = cache
    <2>1. due' # {}
        BY DEF DueBars
    <2> QED BY <1>1, <2>1
<1>4. /\ Event \in Nat /\ b \in Nat /\ Event < b
      /\ b \in DueBars /\ b \in cache[s]
    BY <1>1, <1>2, <1>3, FirstDue
<1>5. mark[s] \in Int /\ Warmup \in Nat
    BY FeedAssumption DEF HistoryTypes
<1>6. Turns(s)
    BY DEF CycleOK
<1> HIDE DEF rest
<1>7. CASE s \in Advanced
    <2>1. mark'[s] = Event /\ Event \in cache[s] /\ mark[s] < Event /\ Event # None
        BY <1>1, <1>4, <1>5, <1>7 DEF Advanced, Present, None
    <2>2. CASE mark[s] = None
        <3>1. b <= Event + Warmup - 1
            BY <1>4, <1>6, <2>1, <2>2 DEF Turns
        <3> QED BY <2>1, <3>1 DEF InTurn
    <2>3. CASE mark[s] # None
        <3>1. InTurn(s, b)
            BY <1>4, <1>5, <1>6, <2>1, <2>3 DEF Turns
        <3>2. CASE b <= mark[s] + Warmup - 1
            <4>1. b <= Event + Warmup - 1
                BY <1>4, <1>5, <2>1, <3>2
            <4> QED BY <2>1, <4>1 DEF InTurn
        <3>3. CASE (mark[s] + 1)..b \subseteq DueBars \cap cache[s]
            <4>1. (Event + 1)..b \subseteq DueBars' \cap cache'[s]
                BY <1>2, <1>3, <1>4, <1>5, <2>1, <3>3
            <4> QED BY <2>1, <4>1 DEF InTurn
        <3> QED BY <3>1, <3>2, <3>3 DEF InTurn
    <2> QED BY <2>1, <2>2, <2>3
<1>8. CASE s \notin Advanced
    <2>1. mark'[s] = mark[s]
        BY <1>1, <1>8
    <2>2. ~(Event \in cache[s] /\ mark[s] < Event)
        BY <1>4, <1>5, <1>8 DEF Advanced, Present
    <2>3. CASE mark[s] = None
        BY <1>3, <1>4, <1>6, <2>1, <2>3 DEF Turns
    <2>4. ASSUME mark[s] # None, b > mark[s]
          PROVE  InTurn(s, b)'
        <3>1. InTurn(s, b)
            BY <1>4, <1>6, <2>4 DEF Turns
        <3>2. CASE b <= mark[s] + Warmup - 1
            BY <2>1, <3>2 DEF InTurn
        <3>3. CASE (mark[s] + 1)..b \subseteq DueBars \cap cache[s]
            <4>1. (mark[s] + 1)..b \subseteq DueBars' \cap cache'[s]
                BY <1>2, <1>3, <1>4, <1>5, <2>2, <3>3
            <4> QED BY <2>1, <4>1 DEF InTurn
        <3> QED BY <3>1, <3>2, <3>3 DEF InTurn
    <2> QED BY <2>1, <2>3, <2>4
<1> QED BY <1>7, <1>8

LEMMA CycleNext ==
    ASSUME CycleInv, HistoryInv, HistoryInv', RunInv, [Next]_vars
    PROVE  CycleInv'
<1> SUFFICES ASSUME mode' = "shadow", Warmup > 1
             PROVE  CycleOK'
    BY DEF CycleInv
<1>1. mode = "shadow"
    BY DEF Next, vars
<1>2. HistoryTypes /\ HistoryTypes' /\ CachesGood' /\ ShadowInv /\ CycleOK
    BY <1>1 DEF HistoryInv, RunInv, CycleInv
<1>3. NextShadow \/ UNCHANGED vars
    BY <1>1 DEF Next
<1>4. CASE Tick
    <2>1. UNCHANGED <<mark, cache, due>>
        BY <1>4 DEF Tick, Releases, Backfill
    <2> QED BY <1>2, <2>1, QuietTurns
<1>5. CASE AnyPoll
    BY <1>2, <1>5, PollTurns DEF AnyPoll
<1>6. CASE \/ RejectEvent \/ SkipExecution \/ ExecuteHalted \/ ExecutePending
           \/ FeaturesFail \/ ShadowBreach \/ ShadowStaysHalted
           \/ \E i, t : ShadowDecide(i, t)
    <2>1. Quiet
        BY <1>1, <1>2, <1>6, CycleQuiet
    <2> QED BY <1>2, <2>1, QuietTurns DEF Quiet
<1>7. CASE Mark
    BY <1>2, <1>7, MarkTurns
<1>8. CASE Crash
    <2>1. due' = {}
        BY <1>8 DEF Crash, GivesUp
    <2> QED BY <2>1 DEF CycleOK, Turns, DueBars
<1>9. CASE UNCHANGED vars
    <2>1. UNCHANGED <<mark, cache, due>>
        BY <1>9 DEF vars, shadowVars, feedVars
    <2> QED BY <1>2, <2>1, QuietTurns
<1> QED BY <1>3, <1>4, <1>5, <1>6, <1>7, <1>8, <1>9 DEF NextShadow

\* While a cycle runs, the bars of a symbol that are still due follow its mark
\* without a gap, or lie in the window of the symbol's first mark.
THEOREM CycleInvariance == Spec => []CycleInv
<1>1. Init => CycleInv
    BY DEF Init, InitShadow, CycleInv, CycleOK, Turns, DueBars
<1>2. CycleInv /\ HistoryInv /\ HistoryInv' /\ RunInv /\ [Next]_vars => CycleInv'
    BY CycleNext
<1> QED BY <1>1, <1>2, HistoryInvariance, RunInvariance, PTL DEF Spec

\* Where it executes, the timestamp comes next after the mark.
LEMMA NextInTurn ==
    ASSUME HistoryTypes, ShadowInv, CycleOK, due # {}, ~OutOfOrder, Warmup > 1,
           NEW s \in Present, mark[s] # None
    PROVE  Event \in execMark[s]..(execMark[s] + Warmup - 1)
<1>1. /\ s \in Symbols /\ Event \in cache[s] /\ ~(Event < execMark[s])
    BY DEF Present, OutOfOrder
<1>2. /\ Event \in DueBars /\ Event \in Nat /\ \A b \in DueBars : b \in Nat /\ Event <= b
    BY FirstDue
<1>3. /\ mark[s] \in Int /\ execMark[s] \in Int /\ mark[s] <= execMark[s]
      /\ Warmup \in Nat
    BY <1>1, ShadowFields, FeedAssumption DEF Stamps
<1>4. CASE Event <= mark[s]
    BY <1>1, <1>2, <1>3, <1>4
<1>5. CASE Event > mark[s]
    <2>1. InTurn(s, Event)
        BY <1>1, <1>2, <1>5 DEF CycleOK, Turns
    <2>2. CASE Event <= mark[s] + Warmup - 1
        BY <1>1, <1>2, <1>3, <2>2
    <2>3. CASE (mark[s] + 1)..Event \subseteq DueBars \cap cache[s]
        <3>1. mark[s] + 1 \in DueBars
            BY <1>2, <1>3, <1>5, <2>3
        <3>2. Event <= mark[s] + 1
            BY <1>2, <3>1
        <3> QED BY <1>1, <1>2, <1>3, <3>2
    <2> QED BY <2>1, <2>2, <2>3 DEF InTurn
<1> QED BY <1>2, <1>3, <1>4, <1>5

\* What ExecutesInTurn says of a step.
InTurnStep ==
    (mode = "shadow" /\ ~Restored) =>
        /\ Warmup > 1 => \A s \in Symbols : mark[s] # None => MovesForward(s)
        /\ TradesNewBar

LEMMA SameProgress ==
    ASSUME ShadowInv, execMark' = execMark, fills' = fills
    PROVE  InTurnStep
<1>1. ASSUME NEW s \in Symbols
      PROVE  MovesForward(s)
    <2>1. execMark[s] \in Int /\ Warmup \in Nat /\ Warmup >= 1
        BY ShadowFields, FeedAssumption DEF Stamps
    <2> QED BY <2>1 DEF MovesForward
<1> QED BY <1>1 DEF InTurnStep, TradesNewBar

LEMMA ExecutedProgress ==
    ASSUME HistoryTypes, ShadowInv, Warmup > 1 => CycleOK, due # {}, ~OutOfOrder,
           Unexecuted # {}, NEW x, Executed(x)
    PROVE  InTurnStep
<1>1. execMark' = [t \in Symbols |-> IF t \in Present THEN Event ELSE execMark[t]]
    BY DEF Executed
<1>2. ASSUME Warmup > 1, NEW s \in Symbols, mark[s] # None
      PROVE  MovesForward(s)
    <2>1. CASE s \in Present
        <3>1. execMark'[s] = Event
            BY <1>1, <2>1
        <3> QED BY <1>2, <2>1, <3>1, NextInTurn DEF MovesForward
    <2>2. CASE s \notin Present
        <3>1. execMark'[s] = execMark[s]
            BY <1>1, <2>2
        <3>2. execMark[s] \in Int /\ Warmup \in Nat /\ Warmup >= 1
            BY ShadowFields, FeedAssumption DEF Stamps
        <3> QED BY <3>1, <3>2 DEF MovesForward
    <2> QED BY <2>1, <2>2
<1>3. TradesNewBar
    <2>1. PICK s \in Unexecuted : TRUE
        OBVIOUS
    <2>2. /\ s \in Symbols /\ s \in Present
          /\ execMark[s] # Event /\ ~(Event < execMark[s])
        BY <2>1 DEF Unexecuted, Present, OutOfOrder
    <2>3. Event \in Nat /\ execMark[s] \in Int
        BY <2>2, FirstDue, ShadowFields DEF Stamps
    <2>4. execMark'[s] = Event
        BY <1>1, <2>2
    <2>5. execMark[s] < execMark'[s]
        BY <2>2, <2>3, <2>4
    <2> QED BY <2>2, <2>5 DEF TradesNewBar
<1> QED BY <1>2, <1>3 DEF InTurnStep

LEMMA ShadowInTurn ==
    ASSUME CycleInv, HistoryInv, RunInv, Next, mode = "shadow", mode' = mode, ~Restored
    PROVE  InTurnStep
<1>1. /\ HistoryTypes /\ ShadowInv
      /\ Warmup > 1 => CycleOK
    BY DEF HistoryInv, RunInv, CycleInv
<1>2. NextShadow
    BY DEF Next
<1>3. CASE ExecuteHalted
    <2>1. /\ due # {} /\ ~OutOfOrder /\ Unexecuted # {}
          /\ Executed(CheckStops(Executing, Cohort, Held(pos) \cap Unexecuted))
        BY <1>1, <1>3 DEF ExecuteHalted, Executable, HistoryTypes
    <2> QED BY <1>1, <2>1, ExecutedProgress
<1>4. CASE ExecutePending
    <2>1. /\ due # {} /\ ~OutOfOrder /\ Unexecuted # {}
          /\ (\E x : Executed(x)) \/ (execMark' = execMark /\ fills' = fills)
        BY <1>1, <1>4 DEF ExecutePending, MayTrade, Executable, HistoryTypes
    <2> QED BY <1>1, <2>1, ExecutedProgress, SameProgress
<1>5. CASE Crash
    <2>1. Restored
        BY <1>1, <1>5, CrashKeeps
    <2> QED BY <2>1
<1>6. ASSUME \/ Tick \/ AnyPoll \/ RejectEvent \/ SkipExecution \/ FeaturesFail
             \/ ShadowBreach \/ ShadowStaysHalted \/ Mark
             \/ \E i, t : ShadowDecide(i, t)
      PROVE  execMark' = execMark /\ fills' = fills
    <2>1. CASE Tick
        BY <2>1 DEF Tick, runVars
    <2>2. CASE AnyPoll
        BY <2>2 DEF AnyPoll, Poll
    <2>3. CASE \E i, t : ShadowDecide(i, t)
        BY <2>3 DEF ShadowDecide
    <2>4. CASE \/ RejectEvent \/ SkipExecution \/ FeaturesFail
               \/ ShadowBreach \/ ShadowStaysHalted \/ Mark
        BY <2>4 DEF RejectEvent, SkipExecution, FeaturesFail, ShadowBreach,
                    ShadowStaysHalted, Mark
    <2> QED BY <1>6, <2>1, <2>2, <2>3, <2>4
<1> QED BY <1>1, <1>2, <1>3, <1>4, <1>5, <1>6, SameProgress DEF NextShadow

\* However polls fail, bars come late and the process restarts, a simulated
\* run executes the bars of a symbol it has decided on in order, moves on by less
\* than its window in a step, and trades nothing in a step that brings no symbol
\* to a bar it had not executed (_poll_cycle, _process_timestamp).
THEOREM InTurnHolds == Spec => ExecutesInTurn
<1>1. CycleInv /\ HistoryInv /\ RunInv /\ [Next]_vars =>
         [(mode = "shadow" /\ ~Restored) =>
             /\ Warmup > 1 => \A s \in Symbols : mark[s] # None => MovesForward(s)
             /\ TradesNewBar]_vars
    <2> SUFFICES ASSUME CycleInv, HistoryInv, RunInv, Next, mode = "shadow", ~Restored
                 PROVE  InTurnStep
        BY DEF InTurnStep
    <2>1. mode' = mode
        BY DEF Next
    <2> QED BY <2>1, ShadowInTurn
<1> QED BY <1>1, CycleInvariance, HistoryInvariance, RunInvariance, PTL
        DEF Spec, ExecutesInTurn

(***************************************************************************)
(* What the planner makes of a list of intents: each symbol is requested    *)
(* once, each unit whole and even or not at all, and the book that was      *)
(* judged is the book that every request moves in turn.                     *)
(***************************************************************************)
\* Two runs of Kept agree as far as the sequences and the sets do.
LEMMA KeptAgree ==
    ASSUME NEW U, NEW a \in Seq(U), NEW b \in Seq(U), NEW S, NEW T,
           Len(a) <= Len(b),
           \A k \in 1..Len(a) : a[k] = b[k] /\ (a[k] \in S <=> a[k] \in T),
           NEW h, KeptRun(h, U, a, S), NEW g, KeptRun(g, U, b, T)
    PROVE  Kept(a, S) = g[Len(a)]
<1> DEFINE n == Len(a)
<1> DEFINE G == {k \in 0..n : h[k] = g[k]}
<1>1. /\ n \in Nat /\ h[0] = <<>> /\ g[0] = <<>> /\ Kept(a, S) = h[n]
      /\ \A k \in 1..n : h[k] = KeptStep(a, S, k, h[k - 1])
      /\ \A k \in 1..n : g[k] = KeptStep(b, T, k, g[k - 1])
    <2>1. \A k \in 1..n : k \in 1..Len(b)
        OBVIOUS
    <2> QED BY <2>1 DEF KeptRun
<1>2. 0 \in G
    BY <1>1
<1>3. ASSUME NEW k \in 1..n, k - 1 \in G
      PROVE  k \in G
    <2>1. h[k - 1] = g[k - 1] /\ k \in 0..n
        BY <1>3
    <2>2. KeptStep(a, S, k, h[k - 1]) = KeptStep(b, T, k, g[k - 1])
        BY <2>1 DEF KeptStep
    <2>3. h[k] = g[k]
        BY <1>1, <2>2
    <2> QED BY <2>1, <2>3
<1>4. \A k \in 0..n : k \in G
    <2> HIDE DEF G
    <2> QED BY <1>1, <1>2, <1>3, Upward
<1> QED BY <1>1, <1>4

\* An element more is kept or not, behind what was kept before.
LEMMA KeptAppend ==
    ASSUME NEW U, NEW a \in Seq(U), NEW e \in U, NEW S
    PROVE  Kept(Append(a, e), S) = IF e \in S THEN Append(Kept(a, S), e) ELSE Kept(a, S)
<1> DEFINE b == Append(a, e)
<1>1. b \in Seq(U) /\ Len(b) = Len(a) + 1 /\ b[Len(b)] = e /\ Len(a) \in Nat
      /\ \A k \in 1..Len(a) : a[k] = b[k]
    OBVIOUS
<1> HIDE DEF b
<1>2. PICK h : KeptRun(h, U, a, S)
    BY KeptFold
<1>3. PICK g : KeptRun(g, U, b, S)
    BY <1>1, KeptFold
<1>4. Kept(a, S) = g[Len(a)]
    BY <1>1, <1>2, <1>3, KeptAgree
<1>5. Kept(b, S) = KeptStep(b, S, Len(b), g[Len(b) - 1])
    BY <1>1, <1>3 DEF KeptRun
<1>6. Len(b) - 1 = Len(a)
    BY <1>1
<1> QED BY <1>1, <1>4, <1>5, <1>6 DEF KeptStep, b

\* Only which elements of the sequence a set has decides what is kept.
LEMMA KeptSame ==
    ASSUME NEW U, NEW a \in Seq(U), NEW S, NEW T,
           \A k \in 1..Len(a) : a[k] \in S <=> a[k] \in T
    PROVE  Kept(a, S) = Kept(a, T)
<1>1. PICK h : KeptRun(h, U, a, S)
    BY KeptFold
<1>2. PICK g : KeptRun(g, U, a, T)
    BY KeptFold
<1>3. Kept(a, S) = g[Len(a)]
    BY <1>1, <1>2, KeptAgree
<1> QED BY <1>2, <1>3 DEF KeptRun

\* idx are the places of seq, in their order, that out consists of.
Picks(idx, out, seq, n) ==
    /\ idx \in [1..Len(out) -> 1..n]
    /\ \A j \in 1..Len(out) : out[j] = seq[idx[j]]
    /\ \A j, k \in 1..Len(out) : j < k => idx[j] < idx[k]

\* One element further on, which is taken or not.
LEMMA PickAnother ==
    ASSUME NEW U, NEW seq \in Seq(U), NEW k \in 1..Len(seq), NEW out \in Seq(U),
           NEW idx, Picks(idx, out, seq, k - 1)
    PROVE  /\ Picks(idx, out, seq, k)
           /\ \E idy : Picks(idy, Append(out, seq[k]), seq, k)
<1> DEFINE n == Len(out)
<1> DEFINE new == Append(out, seq[k])
<1> DEFINE idy == [j \in 1..(n + 1) |-> IF j = n + 1 THEN k ELSE idx[j]]
<1>1. /\ n \in Nat /\ k \in Nat
      /\ idx \in [1..n -> 1..(k - 1)]
      /\ \A j \in 1..n : out[j] = seq[idx[j]]
      /\ \A i, j \in 1..n : i < j => idx[i] < idx[j]
    BY DEF Picks
<1>2. seq[k] \in U /\ Len(new) = n + 1 /\ new[n + 1] = seq[k]
      /\ \A j \in 1..n : new[j] = out[j]
    OBVIOUS
<1>3. \A j \in 1..n : idx[j] \in 1..(k - 1) /\ idx[j] \in 1..k /\ idx[j] < k
    BY <1>1
<1>4. \A j \in 1..(n + 1) : j = n + 1 \/ j \in 1..n
    BY <1>1
<1>5. /\ \A j \in 1..n : idy[j] = idx[j] /\ idy[j] \in 1..k /\ idy[j] < k
      /\ idy[n + 1] = k
    BY <1>1, <1>3
<1>6. idy \in [1..(n + 1) -> 1..k]
    BY <1>1, <1>3, <1>4
<1> HIDE DEF idy, new, n
<1>7. \A j \in 1..(n + 1) : new[j] = seq[idy[j]]
    BY <1>1, <1>2, <1>4, <1>5
<1>8. \A i, j \in 1..(n + 1) : i < j => idy[i] < idy[j]
    <2> SUFFICES ASSUME NEW i \in 1..(n + 1), NEW j \in 1..(n + 1), i < j
                 PROVE  idy[i] < idy[j]
        OBVIOUS
    <2>1. i \in 1..n
        BY <1>1
    <2>2. CASE j \in 1..n
        BY <1>1, <1>5, <2>1, <2>2
    <2>3. CASE j = n + 1
        BY <1>5, <2>1, <2>3
    <2> QED BY <1>4, <2>2, <2>3
<1>9. Picks(idy, new, seq, k)
    BY <1>2, <1>6, <1>7, <1>8 DEF Picks
<1>10. Picks(idx, out, seq, k)
    <2>1. idx \in [1..n -> 1..k]
        BY <1>1, <1>3
    <2> QED BY <1>1, <2>1 DEF Picks, n
<1> QED BY <1>9, <1>10 DEF new

\* Kept takes elements of the sequence in their order.
LEMMA KeptPicks ==
    ASSUME NEW U, NEW seq \in Seq(U), NEW S
    PROVE  \E idx : Picks(idx, Kept(seq, S), seq, Len(seq))
<1>0. PICK h : KeptRun(h, U, seq, S)
    BY KeptFold
<1>1. /\ Len(seq) \in Nat /\ h \in [0..Len(seq) -> Seq(U)]
      /\ h[0] = <<>>
      /\ \A k \in 1..Len(seq) : h[k] = KeptStep(seq, S, k, h[k - 1])
      /\ Kept(seq, S) = h[Len(seq)]
    BY <1>0 DEF KeptRun
<1> DEFINE Ok(k) == \E idx : Picks(idx, h[k], seq, k)
<1> DEFINE G == {k \in 0..Len(seq) : Ok(k)}
<1>2. 0 \in G
    <2> DEFINE none == [j \in {} |-> 0]
    <2>1. 1..0 = {} /\ none \in [{} -> {}] /\ Len(h[0]) = 0
        BY <1>1
    <2> HIDE DEF none
    <2>2. Picks(none, h[0], seq, 0)
        BY <2>1 DEF Picks
    <2> QED BY <1>1, <2>2
<1>3. ASSUME NEW k \in 1..Len(seq), k - 1 \in G
      PROVE  k \in G
    <2>1. h[k - 1] \in Seq(U) /\ h[k] = KeptStep(seq, S, k, h[k - 1]) /\ k \in 0..Len(seq)
        BY <1>1, <1>3
    <2>2. PICK idx : Picks(idx, h[k - 1], seq, k - 1)
        BY <1>3
    <2>3. /\ Picks(idx, h[k - 1], seq, k)
          /\ \E idy : Picks(idy, Append(h[k - 1], seq[k]), seq, k)
        <3> HIDE DEF G, Ok
        <3> QED BY <2>1, <2>2, PickAnother
    <2>4. \E idy : Picks(idy, h[k], seq, k)
        <3>1. CASE seq[k] \in S
            BY <2>1, <2>3, <3>1 DEF KeptStep
        <3>2. CASE seq[k] \notin S
            BY <2>1, <2>3, <3>2 DEF KeptStep
        <3> QED BY <3>1, <3>2
    <2> QED BY <2>1, <2>4
<1>4. \A k \in 0..Len(seq) : k \in G
    <2> HIDE DEF G
    <2> QED BY <1>1, <1>2, <1>3, Upward
<1>5. Ok(Len(seq))
    BY <1>1, <1>4
<1> QED BY <1>1, <1>5

\* What was appended to a list goes on with what is appended next.
LEMMA AppendLater ==
    ASSUME NEW U, NEW a \in Seq(U), NEW t \in Seq(U), NEW e \in U
    PROVE  /\ Append(a \o t, e) = a \o Append(t, e)
           /\ SubSeq(a \o t, Len(a) + 1, Len(a \o t)) = t
<1> DEFINE b == Append(a \o t, e)
<1> DEFINE c == a \o Append(t, e)
<1> DEFINE n == Len(a)
<1> DEFINE m == Len(t)
<1>1. n \in Nat /\ m \in Nat /\ a \o t \in Seq(U) /\ Len(a \o t) = n + m
    OBVIOUS
<1>2. b = c
    <2>1. b \in Seq(U) /\ c \in Seq(U) /\ Len(b) = n + m + 1 /\ Len(c) = n + m + 1
        OBVIOUS
    <2>2. \A k \in 1..(n + m + 1) : b[k] = c[k]
        OBVIOUS
    <2> HIDE DEF b, c
    <2> QED BY <1>1, <2>1, <2>2
<1>3. SubSeq(a \o t, n + 1, n + m) = t
    <2> DEFINE d == SubSeq(a \o t, n + 1, n + m)
    <2>1. d \in Seq(U) /\ Len(d) = m /\ \A k \in 1..m : d[k] = (a \o t)[n + k]
        BY <1>1
    <2>2. \A k \in 1..m : (a \o t)[n + k] = t[k]
        BY <1>1
    <2> HIDE DEF d
    <2> QED BY <2>1, <2>2
<1> QED BY <1>1, <1>2, <1>3

(***************************************************************************)
(* The units of a list of intents.                                         *)
(***************************************************************************)
\* A unit starts where an intent stands alone or is the first of its group.
Starts(intents, k) ==
    \/ intents[k].group = NoGroup
    \/ \A j \in 1..(k - 1) : intents[j].group # intents[k].group
\* Unit m is the one that starts at the intent st[m].
StartsAt(st, intents) ==
    /\ st \in [1..Len(Units(intents)) -> 1..Len(intents)]
    /\ \A m \in 1..Len(Units(intents)) :
          /\ Units(intents)[m] = UnitOf(intents, st[m])
          /\ Starts(intents, st[m])
    /\ \A m, n \in 1..Len(Units(intents)) : m < n => st[m] < st[n]

\* The units are those of the places where one starts, in their order.
LEMMA UnitStarts ==
    ASSUME NEW U, NEW intents \in Seq(U)
    PROVE  \E st : StartsAt(st, intents)
<1> DEFINE D == DOMAIN intents
<1> DEFINE S == {k \in D : Starts(intents, k)}
<1> DEFINE all == [k \in D |-> k]
<1> DEFINE st == Kept(all, S)
<1>1. D = 1..Len(intents) /\ Len(intents) \in Nat /\ all \in Seq(D)
      /\ Len(all) = Len(intents) /\ \A k \in D : all[k] = k
    OBVIOUS
<1>2. st \in Seq(D \cap S)
    <2> HIDE DEF all, S, D
    <2> QED BY <1>1, KeptSeq
<1>3. PICK idx : Picks(idx, st, all, Len(all))
    <2> HIDE DEF all, S, D
    <2> QED BY <1>1, KeptPicks
<1>4. Units(intents) = [m \in DOMAIN st |-> UnitOf(intents, st[m])]
    BY DEF Units, UnitOf, Starts
<1> HIDE DEF st, all
<1>5. /\ Len(st) \in Nat /\ DOMAIN st = 1..Len(st)
      /\ \A m \in 1..Len(st) : st[m] \in D /\ st[m] \in S
    BY <1>2
<1>6. \A m, n \in 1..Len(st) : m < n => st[m] < st[n]
    <2>1. /\ idx \in [1..Len(st) -> 1..Len(all)]
          /\ \A j \in 1..Len(st) : st[j] = all[idx[j]]
          /\ \A j, k \in 1..Len(st) : j < k => idx[j] < idx[k]
        BY <1>3 DEF Picks
    <2>2. \A j \in 1..Len(st) : st[j] = idx[j]
        BY <1>1, <2>1
    <2> QED BY <2>1, <2>2
<1>7. Units(intents) \in Seq(Seq(U))
    BY UnitsSeq
<1>8. Len(Units(intents)) = Len(st)
    BY <1>4, <1>5, <1>7
<1>9. st \in [1..Len(st) -> D]
    BY <1>2
<1>10. StartsAt(st, intents)
    BY <1>1, <1>4, <1>5, <1>6, <1>8, <1>9 DEF StartsAt
<1> QED BY <1>10

\* Where the elements of a unit stand in the list.
Places(idx, intents, m) ==
    /\ idx \in [1..Len(Units(intents)[m]) -> 1..Len(intents)]
    /\ \A j \in 1..Len(Units(intents)[m]) : Units(intents)[m][j] = intents[idx[j]]
    /\ \A j, k \in 1..Len(Units(intents)[m]) : j # k => idx[j] # idx[k]
\* All of a unit have its group; an intent without a group is one by itself.
HasGroup(intents, m, k) ==
    /\ \A j \in 1..Len(Units(intents)[m]) : Units(intents)[m][j].group = intents[k].group
    /\ intents[k].group = NoGroup => Units(intents)[m] = <<intents[k]>>
    /\ intents[k].group # NoGroup => Units(intents)[m] = Legs(intents, intents[k].group)

\* A unit takes each of its elements from a place of its own.
LEMMA UnitPlaces ==
    ASSUME NEW U, NEW intents \in Seq(U), NEW m \in 1..Len(Units(intents)),
           NEW k \in 1..Len(intents), Units(intents)[m] = UnitOf(intents, k)
    PROVE  /\ HasGroup(intents, m, k)
           /\ \E idx : Places(idx, intents, m)
<1> DEFINE unit == Units(intents)[m]
<1> DEFINE g == intents[k].group
<1>1. CASE g = NoGroup
    <2>1. unit = <<intents[k]>> /\ Len(unit) = 1 /\ unit[1] = intents[k]
        BY <1>1 DEF UnitOf
    <2> DEFINE idx == [j \in 1..1 |-> k]
    <2>2. Places(idx, intents, m)
        BY <2>1 DEF Places
    <2>3. HasGroup(intents, m, k)
        BY <1>1, <2>1 DEF HasGroup
    <2> QED BY <2>2, <2>3
<1>2. CASE g # NoGroup
    <2> DEFINE S == {i \in Range(intents) : i.group = g}
    <2>1. unit = Kept(intents, S) /\ unit = Legs(intents, g)
        BY <1>2 DEF UnitOf, Legs
    <2>2. \A e \in S : e.group = g
        OBVIOUS
    <2> HIDE DEF S
    <2>3. PICK idx : Picks(idx, unit, intents, Len(intents))
        BY <2>1, KeptPicks
    <2>4. unit \in Seq(U \cap S)
        BY <2>1, KeptSeq
    <2> HIDE DEF unit
    <2>5. \A j \in 1..Len(unit) : unit[j].group = g
        BY <2>2, <2>4
    <2>6. /\ idx \in [1..Len(unit) -> 1..Len(intents)]
          /\ \A j \in 1..Len(unit) : unit[j] = intents[idx[j]]
          /\ \A i, j \in 1..Len(unit) : i # j => idx[i] # idx[j]
        <3>1. /\ idx \in [1..Len(unit) -> 1..Len(intents)]
              /\ \A j \in 1..Len(unit) : unit[j] = intents[idx[j]]
              /\ \A i, j \in 1..Len(unit) : i < j => idx[i] < idx[j]
            BY <2>3 DEF Picks
        <3>2. ASSUME NEW i \in 1..Len(unit), NEW j \in 1..Len(unit), i # j
              PROVE  idx[i] # idx[j]
            <4>1. idx[i] \in Int /\ idx[j] \in Int /\ i \in Int /\ j \in Int
                BY <3>1
            <4>2. i < j \/ j < i
                BY <3>2, <4>1
            <4>3. idx[i] < idx[j] \/ idx[j] < idx[i]
                BY <3>1, <4>2
            <4> QED BY <4>1, <4>3
        <3> QED BY <3>1, <3>2
    <2>7. Places(idx, intents, m)
        BY <2>6 DEF Places, unit
    <2>8. HasGroup(intents, m, k)
        BY <1>2, <2>1, <2>5 DEF HasGroup, unit
    <2> QED BY <2>7, <2>8
<1> QED BY <1>1, <1>2

\* In a list of one intent per symbol no symbol occurs twice among the units,
\* and so no group has two.
LEMMA UnitsApart ==
    ASSUME NEW U, NEW intents \in Seq(U), OnePerSymbol(intents),
           NEW m \in 1..Len(Units(intents)), NEW n \in 1..Len(Units(intents)),
           NEW j \in 1..Len(Units(intents)[m]), NEW k \in 1..Len(Units(intents)[n]),
           Units(intents)[m][j].sym = Units(intents)[n][k].sym
    PROVE  m = n /\ j = k
<1>1. PICK st : StartsAt(st, intents)
    BY UnitStarts
<1>2. /\ st[m] \in 1..Len(intents) /\ st[n] \in 1..Len(intents)
      /\ Units(intents)[m] = UnitOf(intents, st[m]) /\ Starts(intents, st[m])
      /\ Units(intents)[n] = UnitOf(intents, st[n]) /\ Starts(intents, st[n])
      /\ m < n => st[m] < st[n]
      /\ n < m => st[n] < st[m]
    BY <1>1 DEF StartsAt
<1>3. HasGroup(intents, m, st[m]) /\ HasGroup(intents, n, st[n])
    BY <1>2, UnitPlaces
<1>4. PICK idm : Places(idm, intents, m)
    BY <1>2, UnitPlaces
<1>5. PICK idn : Places(idn, intents, n)
    BY <1>2, UnitPlaces
<1>6. /\ idm[j] \in 1..Len(intents) /\ Units(intents)[m][j] = intents[idm[j]]
      /\ idn[k] \in 1..Len(intents) /\ Units(intents)[n][k] = intents[idn[k]]
    BY <1>4, <1>5 DEF Places
<1>7. DOMAIN intents = 1..Len(intents)
    OBVIOUS
<1>8. idm[j] = idn[k]
    BY <1>6, <1>7 DEF OnePerSymbol
<1>9. intents[st[m]].group = intents[st[n]].group
    BY <1>3, <1>6, <1>8 DEF HasGroup
<1>10. st[m] = st[n]
    <2>1. CASE intents[st[m]].group = NoGroup
        <3>1. /\ Units(intents)[m] = <<intents[st[m]]>> /\ Units(intents)[n] = <<intents[st[n]]>>
            BY <1>3, <1>9, <2>1 DEF HasGroup
        <3>2. j = 1 /\ k = 1
            BY <3>1
        <3>3. intents[st[m]].sym = intents[st[n]].sym
            BY <3>1, <3>2
        <3> QED BY <1>2, <1>7, <3>3 DEF OnePerSymbol
    <2>2. CASE intents[st[m]].group # NoGroup
        <3>1. ~(st[m] < st[n]) /\ ~(st[n] < st[m])
            <4> DEFINE a == st[m]
            <4> DEFINE b == st[n]
            <4>1. a \in 1..Len(intents) /\ b \in 1..Len(intents) /\ Len(intents) \in Nat
                BY <1>2
            <4>2. /\ \A i \in 1..(a - 1) : intents[i].group # intents[a].group
                  /\ \A i \in 1..(b - 1) : intents[i].group # intents[b].group
                BY <1>2, <1>9, <2>2 DEF Starts
            <4>3. intents[a].group = intents[b].group
                BY <1>9
            <4> HIDE DEF a, b
            <4>4. ~(a < b) /\ ~(b < a)
                BY <4>1, <4>2, <4>3
            <4> QED BY <4>4 DEF a, b
        <3> QED BY <1>2, <3>1
    <2> QED BY <2>1, <2>2
<1>11. m = n
    BY <1>2, <1>10
<1>12. j = k
    BY <1>4, <1>5, <1>8, <1>6, <1>11, <1>7 DEF Places, OnePerSymbol
<1> QED BY <1>11, <1>12

(***************************************************************************)
(* What a plan foresees.                                                   *)
(***************************************************************************)
\* The position q with n of a request filled, as its side makes it, and with
\* all of it.
Left(q, n) == IF q.qty > 0 THEN q.qty - n ELSE q.qty + n
Enlarges(q, r) == q.qty = 0 \/ (q.qty > 0) = (r.side = "buy")
MovedBy(q, r, n) ==
    IF Enlarges(q, r)
    THEN [qty |-> q.qty + (IF r.side = "buy" THEN n ELSE -n),
          protect |-> q.protect \union r.protect, exit |-> q.exit,
          group |-> IF q.qty = 0 THEN r.group ELSE q.group]
    ELSE IF Left(q, n) = 0 THEN Flat ELSE [q EXCEPT !.qty = Left(q, n)]
Moved(q, r) == MovedBy(q, r, r.qty)
\* An exit does not enlarge the position, and an entry leaves it in its limit.
Fit(q, r) == Enlarges(q, r) => /\ r.act # "close"
                               /\ Magnitude(q.qty) + r.qty <= MaxPosition
\* The side is the one that the position at this moment gives the request.
Sided(r, q) ==
    /\ r.act = "long" => r.side = "buy"
    /\ r.act = "short" => r.side = "sell"
    /\ (r.act = "close" /\ q.qty > 0) => r.side = "sell"
    /\ (r.act = "close" /\ q.qty < 0) => r.side = "buy"
\* What a book is worth, at prices of 1 and without costs.
Worth(x) == x.cash + Gross(x.pos)

\* An intent moves no symbol but its own.
LEMMA IntentElsewhere ==
    ASSUME NEW O \in SUBSET Fills, NEW x \in Books(O), NEW ref \in Cohorts,
           NEW i, IsOrder(i), NEW y, y = ExecuteIntent(x, ref, MaxPosition, i),
           NEW s \in Symbols, s # i.sym
    PROVE  y.pos[s] = x.pos[s]
<1>1. \/ y = x
      \/ Rests(x, y, ref, i)
      \/ \E n \in Nat : Enters(x, y, ref, i, n)
      \/ \E n \in Nat : Leaves(x, y, ref, i, n)
    BY IntentCases
<1>2. x.pos \in [Symbols -> Positions] /\ i.sym \in Symbols
    BY DEF Books, IsOrder
<1>3. CASE Rests(x, y, ref, i)
    <2>1. y = [x EXCEPT !.resting = Append(@, i)]
        BY <1>3 DEF Rests
    <2>2. y.pos = x.pos
        BY <2>1 DEF Books
    <2> QED BY <2>2
<1>4. ASSUME NEW n \in Nat, Enters(x, y, ref, i, n)
      PROVE  y.pos[s] = x.pos[s]
    <2>1. PICK p \in Positions, kind \in {"open", "add"} :
             Filled(x, y, i.sym, p, Fill(i, kind, n))
        BY <1>4, EntersEffect
    <2> QED BY <1>2, <2>1 DEF Filled
<1>5. ASSUME NEW n \in Nat, Leaves(x, y, ref, i, n)
      PROVE  y.pos[s] = x.pos[s]
    <2>1. PICK p \in Positions, kind \in {"reduce", "close"} :
             Filled(x, y, i.sym, p, Fill(i, kind, n))
        BY <1>5, LeavesEffect
    <2> QED BY <1>2, <2>1 DEF Filled
<1> QED BY <1>1, <1>3, <1>4, <1>5

\* What a request filled, when its one fill is of n.
LEMMA FilledBy ==
    ASSUME NEW x \in Books(LiveFills), NEW y, NEW r \in Requests, NEW kind \in Kinds,
           NEW n \in Nat, y.fills = Append(x.fills, Fill(r, kind, n))
    PROVE  FilledOf(x, y, r.sym, {"open", "add", "reduce", "close"}) = n
<1> DEFINE f == Fill(r, kind, n)
<1>1. /\ f \in LiveFills /\ f.sym = r.sym /\ f.qty = n /\ f.kind = kind
    BY RequestOrder DEF Fill
<1> HIDE DEF f
<1>2. x.fills \in Seq(LiveFills) /\ y.fills = Append(x.fills, f)
    BY DEF Books, f
<1>3. NewFills(x, y) = <<f>>
    BY <1>1, <1>2, NewOne
<1>4. FilledOf(x, y, r.sym, {"open", "add", "reduce", "close"})
        = IF f.sym = r.sym /\ f.kind \in {"open", "add", "reduce", "close"}
          THEN f.qty ELSE 0
    BY <1>1, <1>3, LiveQuantities, FilledOne
<1> QED BY <1>1, <1>4 DEF Kinds

\* A request that the executor fills whole, in the book it is judged on, moves
\* the position of its symbol at no cost, and within the limit.
LEMMA JudgedWhole ==
    ASSUME NEW x \in Books(LiveFills), NEW ref \in Cohorts, NEW r \in Requests,
           NEW y, y = ExecuteIntent(x, ref, MaxPosition, r), r.qty # 0,
           FilledOf(x, y, r.sym, {"open", "add", "reduce", "close"}) = r.qty,
           Sided(r, x.pos[r.sym])
    PROVE  /\ y.pos = [x.pos EXCEPT ![r.sym] = Moved(x.pos[r.sym], r)]
           /\ Worth(y) = Worth(x)
           /\ Fit(x.pos[r.sym], r)
<1>0. /\ IsOrder(r) /\ LiveFills \in SUBSET Fills /\ r.tif = "none" /\ r.sym \in Symbols
      /\ x.fills \in Seq(LiveFills) /\ x.pos \in [Symbols -> Positions] /\ x.cash \in Int
      /\ r.qty \in Nat
    BY RequestOrder DEF LiveFills, Requests, Books
<1> DEFINE q == x.pos[r.sym]
<1>a. q \in Positions /\ q.qty \in Int /\ Gross(x.pos) \in Int
    BY <1>0, GrossInt DEF Positions
<1>1. \/ y = x
      \/ Rests(x, y, ref, r)
      \/ \E n \in Nat : Enters(x, y, ref, r, n)
      \/ \E n \in Nat : Leaves(x, y, ref, r, n)
    BY <1>0, IntentCases
<1>2. ~Rests(x, y, ref, r)
    BY <1>0 DEF Rests, Resting
<1>3. y # x
    <2>1. ASSUME y = x
          PROVE  FALSE
        <3>1. NewFills(x, y) = <<>>
            BY <1>0, <2>1, NewNone
        <3> QED BY <3>1, FilledNone
    <2> QED BY <2>1
<1>4. ASSUME NEW n \in Nat, Enters(x, y, ref, r, n)
      PROVE  /\ y.pos = [x.pos EXCEPT ![r.sym] = Moved(q, r)]
             /\ Worth(y) = Worth(x)
             /\ Fit(q, r)
    <2>1. PICK p \in Positions, kind \in {"open", "add"} :
             /\ Filled(x, y, r.sym, p, Fill(r, kind, n))
             /\ Magnitude(p.qty) = Magnitude(q.qty) + n
             /\ y.cash = x.cash - n
        BY <1>0, <1>4, EntersEffect
    <2>2. kind \in Kinds /\ y.fills = Append(x.fills, Fill(r, kind, n))
          /\ y.pos = [x.pos EXCEPT ![r.sym] = p]
        BY <2>1 DEF Filled, Kinds
    <2>3. n = r.qty
        BY <2>2, FilledBy
    <2>4. p = [qty |-> q.qty + (IF r.act = "long" THEN n ELSE -n),
               protect |-> q.protect \union r.protect, exit |-> q.exit,
               group |-> IF q.qty = 0 THEN r.group ELSE q.group]
        <3>1. y = Entered(x, r, n) /\ n # 0
            BY <1>4 DEF Enters
        <3>2. y.pos[r.sym] = p
            BY <1>0, <2>2
        <3> HIDE DEF q
        <3>3. y.pos[r.sym] = [qty |-> q.qty + (IF r.act = "long" THEN n ELSE -n),
               protect |-> q.protect \union r.protect, exit |-> q.exit,
               group |-> IF q.qty = 0 THEN r.group ELSE q.group]
            <4>1. y = [x EXCEPT !.cash = x.cash - n,
                      !.pos = [x.pos EXCEPT ![r.sym] =
                                 [qty |-> q.qty + (IF r.act = "long" THEN n ELSE -n),
                                  protect |-> q.protect \union r.protect, exit |-> q.exit,
                                  group |-> IF q.qty = 0 THEN r.group ELSE q.group]],
                      !.fills = Append(x.fills, Fill(r, IF q.qty = 0 THEN "open" ELSE "add", n))]
                BY <3>1 DEF Entered, Books, q
            <4> QED BY <1>0, <4>1 DEF Books
        <3> QED BY <3>2, <3>3
    <2>5. /\ r.act \in {"long", "short"}
          /\ q.qty # 0 => (q.qty > 0) = (r.act = "long")
        BY <1>4 DEF Enters
    <2>6. (r.act = "long") = (r.side = "buy")
        BY <2>5 DEF Sided
    <2> HIDE DEF q
    <2>7. p = Moved(q, r)
        BY <1>a, <2>3, <2>4, <2>5, <2>6 DEF Moved, MovedBy, Enlarges
    <2>8. Gross(y.pos) = Gross(x.pos) + (Magnitude(p.qty) - Magnitude(q.qty))
        BY <1>0, <2>2, GrossChange DEF q
    <2>9. Magnitude(q.qty) \in Nat
        BY <1>a, MagnitudeNat
    <2>10. y.cash + Gross(y.pos) = x.cash + Gross(x.pos)
        BY <1>0, <1>a, <2>1, <2>8, <2>9 DEF q
    <2>11. Fit(q, r)
        <3>1. r.act # "close" /\ Magnitude(q.qty) + n <= MaxPosition
            BY <1>4 DEF Enters, q
        <3> QED BY <2>3, <3>1 DEF Fit
    <2> QED BY <2>2, <2>7, <2>10, <2>11 DEF Worth
<1>5. ASSUME NEW n \in Nat, Leaves(x, y, ref, r, n)
      PROVE  /\ y.pos = [x.pos EXCEPT ![r.sym] = Moved(q, r)]
             /\ Worth(y) = Worth(x)
             /\ Fit(q, r)
    <2>1. PICK p \in Positions, kind \in {"reduce", "close"} :
             /\ Filled(x, y, r.sym, p, Fill(r, kind, n))
             /\ Magnitude(p.qty) = Magnitude(q.qty) - n
             /\ y.cash = x.cash + n
        BY <1>0, <1>5, LeavesEffect
    <2>2. kind \in Kinds /\ y.fills = Append(x.fills, Fill(r, kind, n))
          /\ y.pos = [x.pos EXCEPT ![r.sym] = p]
        BY <2>1 DEF Filled, Kinds
    <2>3. n = r.qty
        BY <2>2, FilledBy
    <2>4. p = IF Left(q, n) = 0 THEN Flat ELSE [q EXCEPT !.qty = Left(q, n)]
        <3>1. y = Reduced(x, r, n) /\ n # 0
            BY <1>5 DEF Leaves
        <3>2. y.pos[r.sym] = p
            BY <1>0, <2>2
        <3> HIDE DEF q
        <3>3. y.pos[r.sym] = IF Left(q, n) = 0 THEN Flat ELSE [q EXCEPT !.qty = Left(q, n)]
            BY <1>0, <3>1 DEF Reduced, Books, Left, q
        <3> QED BY <3>2, <3>3
    <2>5. /\ r.act = "close" /\ q.qty # 0
        <3>1. r.act = "close" /\ n # 0 /\ n <= Magnitude(q.qty)
            BY <1>5 DEF Leaves
        <3> QED BY <1>a, <3>1 DEF Magnitude
    <2>6. (q.qty > 0) # (r.side = "buy")
        BY <1>a, <2>5 DEF Sided
    <2> HIDE DEF q
    <2>7. p = Moved(q, r)
        BY <2>3, <2>4, <2>5, <2>6 DEF Moved, MovedBy, Enlarges
    <2>8. Gross(y.pos) = Gross(x.pos) + (Magnitude(p.qty) - Magnitude(q.qty))
        BY <1>0, <2>2, GrossChange DEF q
    <2>9. Magnitude(q.qty) \in Nat
        BY <1>a, MagnitudeNat
    <2>10. y.cash + Gross(y.pos) = x.cash + Gross(x.pos)
        BY <1>0, <1>a, <2>1, <2>8, <2>9 DEF q
    <2>11. Fit(q, r)
        BY <2>5, <2>6 DEF Fit, Enlarges
    <2> QED BY <2>2, <2>7, <2>10, <2>11 DEF Worth
<1> QED BY <1>1, <1>2, <1>3, <1>4, <1>5

\* The plan p has a request of the symbol s.
InOut(p, s) == \E k \in 1..Len(p.out) : p.out[k].sym = s
\* The book p.y is x0 moved by every request of the plan.
Ahead(p, x0) ==
    /\ Worth(p.y) = Worth(x0)
    /\ \A j, k \in 1..Len(p.out) : p.out[j].sym = p.out[k].sym => j = k
    /\ \A k \in 1..Len(p.out) :
          /\ p.out[k].qty # 0
          /\ p.y.pos[p.out[k].sym] = Moved(x0.pos[p.out[k].sym], p.out[k])
          /\ Fit(x0.pos[p.out[k].sym], p.out[k])
    /\ \A s \in Symbols : ~InOut(p, s) => /\ p.y.pos[s] = x0.pos[s]
                                          /\ p.x.pos[s] = x0.pos[s]

\* w is q with one more request, of symbol s and for group g.
OneMore(q, w, s, g) ==
    /\ w.err = "none"
    /\ \E r \in Requests : w.out = Append(q.out, r) /\ r.sym = s /\ r.of = g

\* A request queued beside those of other symbols.
LEMMA QueuedAhead ==
    ASSUME NEW x0 \in Books(LiveFills), NEW q \in Drafts, Ahead(q, x0),
           NEW r \in Requests, ~InOut(q, r.sym), r.qty # 0,
           NEW w \in Drafts, w.out = Append(q.out, r), Worth(w.y) = Worth(q.y),
           w.y.pos[r.sym] = Moved(x0.pos[r.sym], r), Fit(x0.pos[r.sym], r),
           \A s \in Symbols : s # r.sym => /\ w.y.pos[s] = q.y.pos[s]
                                           /\ w.x.pos[s] = q.x.pos[s]
    PROVE  Ahead(w, x0)
<1> DEFINE n == Len(q.out)
<1>1. /\ q.out \in Seq(Requests) /\ n \in Nat /\ Len(w.out) = n + 1
      /\ w.out[n + 1] = r /\ \A k \in 1..n : w.out[k] = q.out[k]
      /\ r.sym \in Symbols /\ q.y.pos \in [Symbols -> Positions]
      /\ \A k \in 1..n : q.out[k].sym \in Symbols
    <2>1. q.out \in Seq(Requests) /\ q.y.pos \in [Symbols -> Positions]
        BY DEF Drafts, Books
    <2>2. \A e \in Requests : e.sym \in Symbols
        BY DEF Requests
    <2> QED BY <2>1, <2>2
<1>2. \A k \in 1..n : q.out[k].sym # r.sym
    BY DEF InOut
<1> HIDE DEF n
<1>3. \A k \in 1..(n + 1) : k \in 1..n \/ k = n + 1
    BY <1>1
<1>4. Worth(w.y) = Worth(x0)
    BY DEF Ahead
<1>5. ASSUME NEW j \in 1..(n + 1), NEW k \in 1..(n + 1), w.out[j].sym = w.out[k].sym
      PROVE  j = k
    <2>1. CASE j \in 1..n /\ k \in 1..n
        BY <1>1, <1>5, <2>1 DEF Ahead, n
    <2>2. CASE j \in 1..n /\ k = n + 1
        BY <1>1, <1>2, <1>5, <2>2
    <2>3. CASE j = n + 1 /\ k \in 1..n
        BY <1>1, <1>2, <1>5, <2>3
    <2> QED BY <1>3, <2>1, <2>2, <2>3
<1>6. ASSUME NEW k \in 1..(n + 1)
      PROVE  /\ w.out[k].qty # 0
             /\ w.y.pos[w.out[k].sym] = Moved(x0.pos[w.out[k].sym], w.out[k])
             /\ Fit(x0.pos[w.out[k].sym], w.out[k])
    <2>1. CASE k = n + 1
        BY <1>1, <2>1
    <2>2. CASE k \in 1..n
        <3>1. /\ q.out[k].qty # 0
              /\ q.y.pos[q.out[k].sym] = Moved(x0.pos[q.out[k].sym], q.out[k])
              /\ Fit(x0.pos[q.out[k].sym], q.out[k])
            BY <2>2 DEF Ahead, n
        <3>2. w.y.pos[q.out[k].sym] = q.y.pos[q.out[k].sym]
            BY <1>1, <1>2, <2>2
        <3> QED BY <1>1, <2>2, <3>1, <3>2
    <2> QED BY <1>3, <2>1, <2>2
<1>7. ASSUME NEW s \in Symbols, ~InOut(w, s)
      PROVE  w.y.pos[s] = x0.pos[s] /\ w.x.pos[s] = x0.pos[s]
    <2>1. \A k \in 1..(n + 1) : w.out[k].sym # s
        BY <1>1, <1>7 DEF InOut
    <2>2. s # r.sym /\ ~InOut(q, s)
        BY <1>1, <2>1 DEF InOut, n
    <2>3. q.y.pos[s] = x0.pos[s] /\ q.x.pos[s] = x0.pos[s]
        BY <2>2 DEF Ahead
    <2> QED BY <1>1, <2>2, <2>3
<1> QED BY <1>1, <1>4, <1>5, <1>6, <1>7 DEF Ahead

\* A request that is queued was filled whole in the book it was judged on.
LEMMA JudgedTakes ==
    ASSUME NEW x0 \in Books(LiveFills), NEW ref \in Cohorts, NEW q \in Plans(x0, ref),
           q.err = "none", NEW x \in Books(Fills), NEW r \in Requests,
           NEW w, w = JudgeRequest([q EXCEPT !.x = x], ref, r), w.err = "none"
    PROVE  /\ w \in Plans(x0, ref) /\ w.out = Append(q.out, r) /\ w.x = x /\ r.qty # 0
           /\ w.y = ExecuteIntent(q.y, ref, MaxPosition, r)
           /\ FilledOf(q.y, w.y, r.sym, {"open", "add", "reduce", "close"}) = r.qty
<1> DEFINE a == [q EXCEPT !.x = x]
<1>1. /\ a \in Plans(x0, ref) /\ a.err = "none" /\ a.y = q.y /\ a.x = x /\ a.out = q.out
      /\ a \in Drafts /\ q \in Drafts /\ q.y \in Books(LiveFills)
    BY StagedPlan, DraftFields DEF Drafts
<1> DEFINE y == ExecuteIntent(a.y, ref, MaxPosition, r)
<1> DEFINE whole == FilledOf(a.y, y, r.sym, {"open", "add", "reduce", "close"})
<1> HIDE DEF a
<1>2. w \in Plans(x0, ref)
    BY <1>1, JudgeKeeps DEF a
<1>3. w = IF r.qty = 0
          THEN Err(a, IF r.of = NoGroup /\ r.act = "close" THEN "skip" ELSE "raise")
          ELSE IF whole # r.qty \/ Overexposed(a.y.pos, y.pos)
          THEN Err([a EXCEPT !.y = y], "raise")
          ELSE [a EXCEPT !.y = y, !.out = Append(@, r)]
    BY DEF a, JudgeRequest, Judge
<1>4. \A e : Err(a, e).err = e /\ Err([a EXCEPT !.y = y], e).err = e
    BY <1>1 DEF Err, Drafts
<1>5. r.qty # 0 /\ whole = r.qty
    <2> HIDE DEF whole, y
    <2> QED BY <1>3, <1>4
<1>6. w = [a EXCEPT !.y = y, !.out = Append(@, r)]
    <2> HIDE DEF whole, y
    <2> QED BY <1>3, <1>4, <1>5
<1>7. w.y = y /\ w.out = Append(q.out, r) /\ w.x = x
    <2> HIDE DEF y
    <2> QED BY <1>1, <1>6 DEF Drafts
<1>8. y = ExecuteIntent(q.y, ref, MaxPosition, r)
      /\ whole = FilledOf(q.y, y, r.sym, {"open", "add", "reduce", "close"})
    BY <1>1
<1> HIDE DEF whole, y
<1> QED BY <1>2, <1>5, <1>7, <1>8

\* Judged whole, on a book that has not moved the symbol.
LEMMA JudgedAhead ==
    ASSUME NEW x0 \in Books(LiveFills), NEW ref \in Cohorts, NEW q \in Plans(x0, ref),
           q.err = "none", Ahead(q, x0), NEW x \in Books(Fills), NEW r \in Requests,
           ~InOut(q, r.sym), Sided(r, x0.pos[r.sym]),
           \A s \in Symbols : s # r.sym => x.pos[s] = q.x.pos[s],
           NEW w, w = JudgeRequest([q EXCEPT !.x = x], ref, r), w.err = "none"
    PROVE  OneMore(q, w, r.sym, r.of) /\ Ahead(w, x0)
<1> DEFINE y == w.y
<1>1. q.y \in Books(LiveFills)
    BY DraftFields DEF Drafts
<1>2. /\ w \in Plans(x0, ref) /\ w.out = Append(q.out, r) /\ w.x = x /\ r.qty # 0
      /\ y = ExecuteIntent(q.y, ref, MaxPosition, r)
      /\ FilledOf(q.y, y, r.sym, {"open", "add", "reduce", "close"}) = r.qty
    BY JudgedTakes
<1>3. w.y = y
    OBVIOUS
<1>4. r.sym \in Symbols /\ q.y.pos[r.sym] = x0.pos[r.sym]
    <2>1. r.sym \in Symbols
        BY DEF Requests
    <2> QED BY <2>1 DEF Ahead
<1> HIDE DEF y
<1>5. /\ y.pos = [q.y.pos EXCEPT ![r.sym] = Moved(q.y.pos[r.sym], r)]
       /\ Worth(y) = Worth(q.y)
       /\ Fit(q.y.pos[r.sym], r)
    <2> DEFINE b == q.y
    <2>1. /\ b \in Books(LiveFills) /\ y = ExecuteIntent(b, ref, MaxPosition, r)
          /\ FilledOf(b, y, r.sym, {"open", "add", "reduce", "close"}) = r.qty
          /\ Sided(r, b.pos[r.sym])
        BY <1>1, <1>2, <1>4
    <2> HIDE DEF b
    <2>2. /\ y.pos = [b.pos EXCEPT ![r.sym] = Moved(b.pos[r.sym], r)]
          /\ Worth(y) = Worth(b)
          /\ Fit(b.pos[r.sym], r)
        BY <1>2, <2>1, JudgedWhole
    <2> QED BY <2>2 DEF b
<1>6. w \in Drafts
    BY <1>2, DraftFields
<1>7. Ahead(w, x0)
    <2>0. q.y.pos \in [Symbols -> Positions]
        BY <1>1 DEF Books
    <2>1. /\ w.y.pos[r.sym] = Moved(x0.pos[r.sym], r)
          /\ Worth(w.y) = Worth(q.y)
          /\ Fit(x0.pos[r.sym], r)
        BY <1>3, <1>4, <1>5, <2>0
    <2>2. \A s \in Symbols : s # r.sym => /\ w.y.pos[s] = q.y.pos[s]
                                           /\ w.x.pos[s] = q.x.pos[s]
        BY <1>2, <1>3, <1>5, <2>0
    <2>3. q \in Drafts /\ r.qty # 0 /\ w.out = Append(q.out, r)
        BY <1>2, DraftFields
    <2> QED BY <1>6, <2>1, <2>2, <2>3, QueuedAhead
<1> QED BY <1>2, <1>7 DEF OneMore

\* A leg that is planned becomes one request, of its symbol and group.
LEMMA LegAhead ==
    ASSUME NEW x0 \in Books(LiveFills), NEW ref \in Cohorts, NEW q \in Plans(x0, ref),
           q.err = "none", Ahead(q, x0), NEW i \in Intents, ~InOut(q, i.sym),
           NEW w, w = PlanLeg(q, ref, i), w.err = "none"
    PROVE  OneMore(q, w, i.sym, i.group) /\ Ahead(w, x0)
<1> DEFINE j == IF i.group # NoGroup /\ i.act = "close"
                THEN [i EXCEPT !.qty = Expected(q.x.pos, i)] ELSE i
<1>1. j \in Intents /\ j.sym = i.sym /\ j.group = i.group /\ j.act = i.act
    <2>1. i.sym \in Symbols /\ i.qty \in Nat
        BY DEF Intents
    <2>2. q.x.pos[i.sym].qty \in Int
        BY <2>1, DraftFields DEF Books, Positions
    <2>3. Expected(q.x.pos, i) \in Nat
        BY <2>1, <2>2, MagnitudeNat DEF Expected
    <2> QED BY <2>3 DEF Intents
<1>2. q \in Drafts /\ q.x \in Books(Fills)
    BY DraftFields
<1>3. \A e : Err(q, e).err = e
    BY <1>2 DEF Err, Drafts
<1>4. Unplanned(i) # "none"
    BY DEF Unplanned
<1>5. w = StageLeg(q, ref, j)
    BY <1>3, <1>4 DEF PlanLeg, j
<1> HIDE DEF j
<1>6. IsOrder(j)
    BY <1>1, IntentIsOrder
<1> DEFINE x == ExecuteIntent(q.x, ref, MaxPosition, j)
<1> DEFINE new == NewFills(q.x, x)
<1>7. x \in Books(Fills) /\ new \in Seq(Fills)
    BY <1>6, StagedBook
<1>8. \A s \in Symbols : s # j.sym => x.pos[s] = q.x.pos[s]
    <2> DEFINE z == ExecuteIntent(q.x, ref, MaxPosition, j)
    <2>1. z = ExecuteIntent(q.x, ref, MaxPosition, j)
        OBVIOUS
    <2> HIDE DEF z
    <2>2. \A s \in Symbols : s # j.sym => z.pos[s] = q.x.pos[s]
        BY <1>2, <1>6, <2>1, IntentElsewhere
    <2> QED BY <2>1, <2>2
<1>9. w = StagedLeg(q, ref, j, x, new)
    BY <1>5 DEF StageLeg, StageLegOn
<1> HIDE DEF x, new
<1> DEFINE n == new[1].qty
<1> DEFINE r == RequestOf(q, j, new[1].kind, n)
<1> DEFINE a == [q EXCEPT !.x = x]
<1>10. Unplanned(j) # "none"
    BY DEF Unplanned
<1>11. new # <<>> /\ w = PrepareLeg(a, ref, r)
    BY <1>3, <1>9, <1>10 DEF StagedLeg
<1>12. n \in Nat
    <2> DEFINE f == new[1]
    <2>1. f \in Fills
        BY <1>7, <1>11
    <2> HIDE DEF f
    <2>2. f.qty \in Nat
        BY <2>1 DEF Fills
    <2> QED BY <2>2 DEF f
<1> HIDE DEF n
<1>13. r \in Requests
    BY <1>2, <1>6, <1>12, RequestType
<1>14. /\ r.sym = i.sym /\ r.act = i.act /\ r.of = i.group
       /\ r.side = OrderSide(q.x.pos, j)
    BY <1>1 DEF RequestOf
<1> HIDE DEF r
<1> DEFINE v == Prepared(r)
<1>15. v \in Requests /\ v.sym = i.sym /\ v.act = i.act /\ v.of = i.group
       /\ v.side = OrderSide(q.x.pos, j)
    <2>1. v \in Requests
        BY <1>13, PreparedType
    <2> QED BY <1>13, <1>14, <2>1 DEF Prepared, Requests
<1>16. w = JudgeRequest(a, ref, v)
    BY <1>11 DEF PrepareLeg
<1> HIDE DEF v
<1>17. Sided(v, x0.pos[v.sym])
    <2>1. v.sym \in Symbols /\ q.x.pos[v.sym] = x0.pos[v.sym]
        <3>1. v.sym \in Symbols /\ ~InOut(q, v.sym)
            BY <1>15 DEF Requests
        <3> QED BY <3>1 DEF Ahead
    <2>2. q.x.pos[v.sym].qty \in Int
        BY <1>2, <2>1 DEF Books, Positions
    <2>3. v.side = IF v.act = "long" THEN "buy"
                   ELSE IF v.act = "short" \/ q.x.pos[v.sym].qty > 0 THEN "sell"
                   ELSE IF q.x.pos[v.sym].qty < 0 THEN "buy" ELSE "none"
        BY <1>1, <1>15 DEF OrderSide
    <2> QED BY <2>1, <2>2, <2>3 DEF Sided
<1>18. \A s \in Symbols : s # v.sym => x.pos[s] = q.x.pos[s]
    BY <1>1, <1>8, <1>15
<1>19. OneMore(q, w, v.sym, v.of) /\ Ahead(w, x0)
    BY <1>7, <1>15, <1>16, <1>17, <1>18, JudgedAhead
<1> QED BY <1>15, <1>19

(***************************************************************************)
(* The requests of a group.                                                *)
(***************************************************************************)
\* The requests that the legs of g became.
PartOf(out, g) == Kept(out, {r \in Requests : r.of = g})

\* Of no requests none is a group's.
LEMMA PartOfNone ==
    ASSUME NEW g
    PROVE  PartOf(<<>>, g) = <<>>
<1> DEFINE S == {r \in Requests : r.of = g}
<1> DEFINE none == <<>>
<1>1. none \in Seq({})
    OBVIOUS
<1> HIDE DEF none, S
<1>2. Kept(none, S) \in Seq({} \cap S)
    BY <1>1, KeptSeq
<1>3. Kept(none, S) \in Seq({})
    BY <1>2
<1>4. Kept(none, S) = <<>>
    BY <1>3
<1> QED BY <1>4 DEF PartOf, S, none

\* Of the unit of group g the first k legs were added to the plan p.
Grown(p, u, unit, k, g) ==
    \E t \in Seq(Requests) :
       /\ u.out = p.out \o t /\ Len(t) = k
       /\ \A m \in 1..k : t[m].sym = unit[m].sym
       /\ \A h : h # g => PartOf(u.out, h) = PartOf(p.out, h)
       /\ PartOf(p.out, g) = <<>> => PartOf(u.out, g) = t

\* No leg yet.
LEMMA GrownItself ==
    ASSUME NEW p, p.out \in Seq(Requests), NEW unit, NEW g
    PROVE  Grown(p, p, unit, 0, g)
<1> DEFINE t == <<>>
<1>1. t \in Seq(Requests) /\ Len(t) = 0 /\ p.out = p.out \o t
    OBVIOUS
<1>2. \A m \in 1..0 : t[m].sym = unit[m].sym
    OBVIOUS
<1> HIDE DEF t
<1>3. PartOf(p.out, g) = <<>> => PartOf(p.out, g) = t
    BY DEF t
<1> QED BY <1>1, <1>2, <1>3 DEF Grown

\* What is appended to a \o t is appended to t, which is the rest behind a.
Joins(a, t, e) == Append(a \o t, e) = a \o Append(t, e)
Rest(a, b) == SubSeq(b, Len(a) + 1, Len(b))
LEMMA AppendJoins ==
    ASSUME NEW U, NEW a \in Seq(U), NEW t \in Seq(U), NEW e \in U
    PROVE  Joins(a, t, e) /\ Rest(a, a \o t) = t
<1>1. Append(a \o t, e) = a \o Append(t, e)
      /\ SubSeq(a \o t, Len(a) + 1, Len(a \o t)) = t
    BY AppendLater, Zenon
<1> QED BY <1>1, Zenon DEF Joins, Rest

\* A leg more.
LEMMA GrownMore ==
    ASSUME NEW p, p.out \in Seq(Requests), NEW unit, NEW g, NEW k \in Nat \ {0},
           NEW u, Grown(p, u, unit, k - 1, g),
           NEW w, OneMore(u, w, unit[k].sym, g)
    PROVE  Grown(p, w, unit, k, g)
<1>1. PICK t \in Seq(Requests) :
         /\ u.out = p.out \o t /\ Len(t) = k - 1
         /\ \A m \in 1..(k - 1) : t[m].sym = unit[m].sym
         /\ \A h : h # g => PartOf(u.out, h) = PartOf(p.out, h)
         /\ PartOf(p.out, g) = <<>> => PartOf(u.out, g) = t
    BY DEF Grown
<1>2. PICK r \in Requests : w.out = Append(u.out, r) /\ r.sym = unit[k].sym /\ r.of = g
    BY DEF OneMore
<1> DEFINE new == Append(t, r)
<1>3. new \in Seq(Requests) /\ Len(new) = k /\ new[k] = r
      /\ \A m \in 1..(k - 1) : new[m] = t[m]
    BY <1>1
<1>4. w.out = p.out \o new
    <2> DEFINE a == p.out
    <2>1. a \in Seq(Requests) /\ w.out = Append(a \o t, r)
        BY <1>1, <1>2
    <2>2. Append(a \o t, r) = a \o Append(t, r)
        <3> HIDE DEF a, new
        <3>1. Joins(a, t, r)
            BY <1>1, <2>1, AppendJoins
        <3> QED BY <3>1, Zenon DEF Joins
    <2> HIDE DEF a
    <2> QED BY <2>1, <2>2 DEF a
<1> HIDE DEF new
<1>5. \A m \in 1..k : new[m].sym = unit[m].sym
    <2>1. \A m \in 1..k : m = k \/ m \in 1..(k - 1)
        OBVIOUS
    <2> QED BY <1>1, <1>2, <1>3, <2>1
<1>6. u.out \in Seq(Requests)
    BY <1>1
<1>7. ASSUME NEW h
      PROVE  PartOf(w.out, h) = IF h = g THEN Append(PartOf(u.out, h), r) ELSE PartOf(u.out, h)
    <2> DEFINE S == {e \in Requests : e.of = h}
    <2>1. r \in S <=> h = g
        BY <1>2
    <2>2. PartOf(w.out, h) = Kept(Append(u.out, r), S) /\ PartOf(u.out, h) = Kept(u.out, S)
        BY <1>2 DEF PartOf
    <2> HIDE DEF S
    <2>3. Kept(Append(u.out, r), S) = IF r \in S THEN Append(Kept(u.out, S), r) ELSE Kept(u.out, S)
        BY <1>6, KeptAppend
    <2> QED BY <2>1, <2>2, <2>3
<1>8. \A h : h # g => PartOf(w.out, h) = PartOf(p.out, h)
    BY <1>1, <1>7
<1>9. PartOf(p.out, g) = <<>> => PartOf(w.out, g) = new
    BY <1>1, <1>7 DEF new
<1> QED BY <1>3, <1>4, <1>5, <1>8, <1>9 DEF Grown

\* The symbols of the legs are all that was added.
LEMMA GrownSymbols ==
    ASSUME NEW p, p.out \in Seq(Requests), NEW unit, NEW g, NEW k \in Nat,
           NEW u, Grown(p, u, unit, k, g), NEW s, InOut(u, s)
    PROVE  InOut(p, s) \/ \E m \in 1..k : unit[m].sym = s
<1>1. PICK t \in Seq(Requests) :
         /\ u.out = p.out \o t /\ Len(t) = k
         /\ \A m \in 1..k : t[m].sym = unit[m].sym
    BY DEF Grown
<1>2. PICK j \in 1..Len(u.out) : u.out[j].sym = s
    BY DEF InOut
<1> DEFINE n == Len(p.out)
<1>3. n \in Nat /\ Len(u.out) = n + k
    <2> DEFINE a == p.out
    <2>1. a \in Seq(Requests)
        OBVIOUS
    <2> HIDE DEF a
    <2>2. Len(a \o t) = Len(a) + Len(t) /\ Len(a) \in Nat
        BY <2>1
    <2> QED BY <1>1, <2>2 DEF a
<1>4. CASE j \in 1..n
    <2>1. u.out[j] = p.out[j]
        BY <1>1, <1>4
    <2> QED BY <1>2, <1>4, <2>1 DEF InOut
<1>5. CASE j \in (n + 1)..(n + k)
    <2>1. u.out[j] = t[j - n] /\ j - n \in 1..k
        BY <1>1, <1>3, <1>5
    <2> QED BY <1>1, <1>2, <2>1
<1> QED BY <1>2, <1>3, <1>4, <1>5

(***************************************************************************)
(* The legs of a unit, one after the other.                                *)
(***************************************************************************)
\* A unit of group g that names no symbol twice and none of the plan's.
FreshUnit(p, unit, g) ==
    /\ \A j, k \in 1..Len(unit) : unit[j].sym = unit[k].sym => j = k
    /\ \A j \in 1..Len(unit) : ~InOut(p, unit[j].sym) /\ unit[j].group = g

\* The legs of a unit that were all planned were added in their order.
LEMMA LegsAhead ==
    ASSUME NEW x0 \in Books(LiveFills), NEW ref \in Cohorts, NEW p \in Plans(x0, ref),
           p.err = "none", Ahead(p, x0), NEW unit \in Seq(Intents), NEW g,
           FreshUnit(p, unit, g), NEW u, u = PlanLegs(p, ref, unit), u.err = "none"
    PROVE  Ahead(u, x0) /\ Grown(p, u, unit, Len(unit), g)
<1> DEFINE Y == Plans(x0, ref)
<1>1. \A y \in Y, k \in 1..Len(unit) : LegOn(y, ref, unit[k]) \in Y
    <2> SUFFICES ASSUME NEW y \in Y, NEW k \in 1..Len(unit)
                 PROVE  LegOn(y, ref, unit[k]) \in Y
        OBVIOUS
    <2>1. unit[k] \in Intents
        OBVIOUS
    <2>2. y.err = "none" => PlanLeg(y, ref, unit[k]) \in Plans(x0, ref)
        BY <2>1, LegKeeps
    <2> QED BY <2>2 DEF LegOn
<1>2. PICK h : LegRun(h, Y, p, ref, unit)
    <2>1. p \in Y
        OBVIOUS
    <2> HIDE DEF Y
    <2> QED BY <1>1, <2>1, LegsRun
<1>3. /\ Len(unit) \in Nat /\ h[0] = p /\ h[Len(unit)] = u
      /\ \A k \in 0..Len(unit) : h[k] \in Plans(x0, ref)
      /\ \A k \in 1..Len(unit) : h[k] = LegOn(h[k - 1], ref, unit[k])
    BY <1>2 DEF LegRun
<1> DEFINE Ok(k) == h[k].err = "none" => Ahead(h[k], x0) /\ Grown(p, h[k], unit, k, g)
<1> DEFINE G == {k \in 0..Len(unit) : Ok(k)}
<1>4. p.out \in Seq(Requests)
    BY DraftFields
<1>5. 0 \in G
    BY <1>3, <1>4, GrownItself
<1>6. ASSUME NEW k \in 1..Len(unit), k - 1 \in G
      PROVE  k \in G
    <2> DEFINE q == h[k - 1]
    <2> DEFINE w == h[k]
    <2>1. /\ q \in Plans(x0, ref) /\ w = LegOn(q, ref, unit[k]) /\ k \in 0..Len(unit)
          /\ q.err = "none" => Ahead(q, x0) /\ Grown(p, q, unit, k - 1, g)
        BY <1>3, <1>6
    <2> HIDE DEF q, w, G
    <2>2. ASSUME w.err = "none"
          PROVE  Ahead(w, x0) /\ Grown(p, w, unit, k, g)
        <3>1. q.err = "none" /\ w = PlanLeg(q, ref, unit[k])
            BY <2>1, <2>2 DEF LegOn
        <3>2. Ahead(q, x0) /\ Grown(p, q, unit, k - 1, g)
            BY <2>1, <3>1
        <3>3. unit[k] \in Intents /\ unit[k].group = g /\ ~InOut(p, unit[k].sym)
            BY DEF FreshUnit
        <3>4. ~InOut(q, unit[k].sym)
            <4>1. ASSUME InOut(q, unit[k].sym)
                  PROVE  FALSE
                <5>1. k - 1 \in Nat
                    OBVIOUS
                <5>2. \E m \in 1..(k - 1) : unit[m].sym = unit[k].sym
                    BY <1>4, <3>2, <3>3, <4>1, <5>1, GrownSymbols
                <5>3. PICK m \in 1..(k - 1) : unit[m].sym = unit[k].sym
                    BY <5>2
                <5>4. m \in 1..Len(unit) /\ m # k
                    OBVIOUS
                <5> QED BY <5>3, <5>4 DEF FreshUnit
            <4> QED BY <4>1
        <3>5. OneMore(q, w, unit[k].sym, unit[k].group) /\ Ahead(w, x0)
            BY <2>1, <2>2, <3>1, <3>2, <3>3, <3>4, LegAhead
        <3>6. k \in Nat \ {0}
            OBVIOUS
        <3>7. OneMore(q, w, unit[k].sym, g)
            BY <3>3, <3>5
        <3>8. Grown(p, w, unit, k, g)
            BY <1>4, <3>2, <3>6, <3>7, GrownMore
        <3> QED BY <3>5, <3>8
    <2> QED BY <2>1, <2>2 DEF G, w
<1>7. \A k \in 0..Len(unit) : k \in G
    <2> HIDE DEF G
    <2> QED BY <1>3, <1>5, <1>6, Upward
<1>8. Ok(Len(unit))
    BY <1>3, <1>7
<1> QED BY <1>3, <1>8

\* A unit that is planned is planned whole and evenly; one that is not leaves
\* the plan as it was.
LEMMA UnitAhead ==
    ASSUME NEW x0 \in Books(LiveFills), NEW ref \in Cohorts, NEW p \in Plans(x0, ref),
           p.err = "none", Ahead(p, x0), NEW unit \in Seq(Intents), NEW g,
           FreshUnit(p, unit, g), NEW w, w = PlanUnit(p, ref, unit), w.err = "none"
    PROVE  \/ w = p
           \/ /\ Ahead(w, x0) /\ Grown(p, w, unit, Len(unit), g)
              /\ ~Uneven(Rest(p.out, w.out))
<1> DEFINE u == PlanLegs(p, ref, unit)
<1>1. w = SettleUnit(p, unit, u)
    BY DEF PlanUnit
<1>2. Err(p, "raise").err = "raise"
    BY DraftFields DEF Err, Drafts
<1>3. u.err = "none" => Ahead(u, x0) /\ Grown(p, u, unit, Len(unit), g)
    <2> DEFINE v == PlanLegs(p, ref, unit)
    <2>1. v = PlanLegs(p, ref, unit)
        OBVIOUS
    <2> HIDE DEF v
    <2>2. v.err = "none" => Ahead(v, x0) /\ Grown(p, v, unit, Len(unit), g)
        BY <2>1, LegsAhead
    <2> QED BY <2>1, <2>2
<1> HIDE DEF u
<1>4. w = p \/ (w = u /\ u.err = "none" /\ ~Uneven(SubSeq(u.out, Len(p.out) + 1, Len(u.out))))
    BY <1>1, <1>2 DEF SettleUnit, RolledBack
<1> QED BY <1>3, <1>4 DEF Rest

(***************************************************************************)
(* The units, one after the other.                                         *)
(***************************************************************************)
\* Of a group there is nothing among the requests, or all its legs, evenly.
GroupIn(p, intents, g, m) ==
    \/ PartOf(p.out, g) = <<>>
    \/ /\ \E n \in 1..m : Units(intents)[n] = Legs(intents, g)
       /\ Len(PartOf(p.out, g)) = Len(Legs(intents, g))
       /\ ~Uneven(PartOf(p.out, g))
\* The symbol s is named by one of the first m units.
InUnits(intents, s, m) ==
    \E n \in 1..m : \E j \in 1..Len(Units(intents)[n]) : Units(intents)[n][j].sym = s
\* What is true of a plan of the first m units.
UnitsIn(p, intents, x0, m) ==
    /\ Ahead(p, x0)
    /\ \A s : InOut(p, s) => InUnits(intents, s, m)
    /\ \A g : g # NoGroup => GroupIn(p, intents, g, m)

\* The next unit names none of the symbols that have a request already.
LEMMA UnitIsFresh ==
    ASSUME NEW intents \in Seq(Intents), OnePerSymbol(intents), NEW x0, NEW p,
           NEW m \in 1..Len(Units(intents)), UnitsIn(p, intents, x0, m - 1),
           NEW g, \A j \in 1..Len(Units(intents)[m]) : Units(intents)[m][j].group = g
    PROVE  FreshUnit(p, Units(intents)[m], g)
<1> DEFINE unit == Units(intents)[m]
<1>1. \A j, k \in 1..Len(unit) : unit[j].sym = unit[k].sym => j = k
    BY UnitsApart
<1>2. ASSUME NEW j \in 1..Len(unit), InOut(p, unit[j].sym)
      PROVE  FALSE
    <2>1. PICK n \in 1..(m - 1) : \E k \in 1..Len(Units(intents)[n]) :
                                     Units(intents)[n][k].sym = unit[j].sym
        BY <1>2 DEF UnitsIn, InUnits
    <2>2. PICK k \in 1..Len(Units(intents)[n]) : Units(intents)[n][k].sym = unit[j].sym
        BY <2>1
    <2>3. n \in 1..Len(Units(intents)) /\ n # m
        <3>1. Len(Units(intents)) \in Nat
            <4>1. Units(intents) \in Seq(Seq(Intents))
                BY UnitsSeq
            <4> QED BY <4>1
        <3> QED BY <3>1
    <2> QED BY <2>2, <2>3, UnitsApart
<1> QED BY <1>1, <1>2 DEF FreshUnit

\* One unit more was planned, whole and evenly.
LEMMA UnitsMore ==
    ASSUME NEW intents \in Seq(Intents), OnePerSymbol(intents), NEW x0, NEW p,
           p.out \in Seq(Requests),
           NEW m \in 1..Len(Units(intents)), UnitsIn(p, intents, x0, m - 1),
           NEW k \in 1..Len(intents), HasGroup(intents, m, k),
           NEW w, Ahead(w, x0),
           Grown(p, w, Units(intents)[m], Len(Units(intents)[m]), intents[k].group),
           ~Uneven(Rest(p.out, w.out))
    PROVE  UnitsIn(w, intents, x0, m)
<1> DEFINE unit == Units(intents)[m]
<1> DEFINE g == intents[k].group
<1>0. /\ Len(Units(intents)) \in Nat /\ unit \in Seq(Intents) /\ Len(unit) \in Nat
      /\ m \in 1..m /\ \A n \in 1..(m - 1) : n \in 1..m /\ n # m /\ n \in 1..Len(Units(intents))
    <2>1. Units(intents) \in Seq(Seq(Intents))
        BY UnitsSeq
    <2>2. Len(Units(intents)) \in Nat
        BY <2>1
    <2> QED BY <2>1, <2>2
<1>1. PICK t \in Seq(Requests) :
         /\ w.out = p.out \o t /\ Len(t) = Len(unit)
         /\ \A h : h # g => PartOf(w.out, h) = PartOf(p.out, h)
         /\ PartOf(p.out, g) = <<>> => PartOf(w.out, g) = t
    BY DEF Grown
<1>2. ~Uneven(t)
    <2> DEFINE a == p.out
    <2>1. a \in Seq(Requests) /\ Rest(a, a \o t) = Rest(p.out, w.out)
        BY <1>1
    <2> HIDE DEF a
    <2>2. Rest(a, a \o t) = t
        <3>1. \A e \in Requests : Rest(a, a \o t) = t
            BY <1>1, <2>1, AppendJoins
        <3>2. CASE t # <<>>
            <4>1. t[1] \in Requests
                BY <1>1, <3>2
            <4> QED BY <3>1, <4>1
        <3>3. CASE t = <<>>
            <4>1. a \o t = a /\ Len(a) \in Nat
                BY <2>1, <3>3
            <4>2. SubSeq(a, Len(a) + 1, Len(a)) = <<>>
                BY <2>1
            <4> QED BY <3>3, <4>1, <4>2 DEF Rest
        <3> QED BY <3>2, <3>3
    <2> QED BY <2>1, <2>2
<1>3. \A s : InOut(w, s) => InUnits(intents, s, m)
    <2> SUFFICES ASSUME NEW s, InOut(w, s)
                 PROVE  InUnits(intents, s, m)
        OBVIOUS
    <2>1. InOut(p, s) \/ \E j \in 1..Len(unit) : unit[j].sym = s
        <3> HIDE DEF unit, g
        <3>1. Grown(p, w, unit, Len(unit), g)
            BY DEF unit, g
        <3> QED BY <1>0, <3>1, GrownSymbols
    <2>2. CASE InOut(p, s)
        <3>1. InUnits(intents, s, m - 1)
            BY <2>2 DEF UnitsIn
        <3> QED BY <1>0, <3>1 DEF InUnits
    <2>3. CASE \E j \in 1..Len(unit) : unit[j].sym = s
        BY <1>0, <2>3 DEF InUnits
    <2> QED BY <2>1, <2>2, <2>3
<1>4. ASSUME NEW h, h # NoGroup
      PROVE  GroupIn(w, intents, h, m)
    <2>1. GroupIn(p, intents, h, m - 1)
        BY <1>4 DEF UnitsIn
    <2>2. CASE h # g
        <3>1. PartOf(w.out, h) = PartOf(p.out, h)
            BY <1>1, <2>2
        <3> QED BY <1>0, <2>1, <3>1 DEF GroupIn
    <2>3. CASE h = g
        <3>1. unit = Legs(intents, g)
            BY <1>4, <2>3 DEF HasGroup
        <3>2. PartOf(p.out, g) = <<>>
            <4>1. ASSUME PartOf(p.out, g) # <<>>
                  PROVE  FALSE
                <5>1. PICK n \in 1..(m - 1) : Units(intents)[n] = unit
                    BY <2>1, <2>3, <3>1, <4>1 DEF GroupIn
                <5>2. Len(PartOf(p.out, g)) = Len(unit)
                    BY <2>1, <2>3, <3>1, <4>1 DEF GroupIn
                <5>3. PartOf(p.out, g) \in Seq(Requests)
                    <6> DEFINE S == {r \in Requests : r.of = g}
                    <6>1. Kept(p.out, S) \in Seq(Requests \cap S)
                        BY KeptSeq
                    <6>2. Requests \cap S = S
                        OBVIOUS
                    <6>3. Kept(p.out, S) \in Seq(S)
                        BY <6>1, <6>2
                    <6>4. S \subseteq Requests
                        OBVIOUS
                    <6> HIDE DEF S
                    <6>5. Kept(p.out, S) \in Seq(Requests)
                        BY <6>3, <6>4
                    <6> QED BY <6>5 DEF PartOf, S
                <5>4. Len(unit) >= 1
                    <6> HIDE DEF unit, g
                    <6>1. Len(PartOf(p.out, g)) # 0
                        BY <4>1, <5>3
                    <6> QED BY <1>0, <5>2, <6>1
                <5>5. n \in 1..Len(Units(intents)) /\ n # m
                    BY <1>0
                <5>6. 1 \in 1..Len(unit) /\ 1 \in 1..Len(Units(intents)[n])
                      /\ Units(intents)[m][1].sym = Units(intents)[n][1].sym
                    BY <1>0, <5>1, <5>4
                <5> QED BY <5>5, <5>6, UnitsApart
            <4> QED BY <4>1
        <3>3. PartOf(w.out, g) = t
            BY <1>1, <3>2
        <3>4. unit = Units(intents)[m] /\ Len(t) = Len(Legs(intents, g))
            BY <1>1, <3>1
        <3> QED BY <1>0, <1>2, <2>3, <3>1, <3>3, <3>4 DEF GroupIn
    <2> QED BY <2>2, <2>3
<1> QED BY <1>3, <1>4 DEF UnitsIn

\* Before the first unit.
LEMMA NoneAhead ==
    ASSUME NEW x0 \in Books(LiveFills), NEW intents
    PROVE  UnitsIn(EmptyPlan(x0), intents, x0, 0)
<1> DEFINE p == EmptyPlan(x0)
<1>1. p.y = x0 /\ p.x = x0 /\ p.out = <<>>
    BY DEF EmptyPlan
<1> HIDE DEF p
<1>2. 1..Len(p.out) = {}
    BY <1>1
<1>3. \A s : ~InOut(p, s)
    BY <1>2 DEF InOut
<1>4. Ahead(p, x0)
    BY <1>1, <1>2 DEF Ahead
<1>5. \A g : PartOf(p.out, g) = <<>>
    BY <1>1, PartOfNone
<1>6. UnitsIn(p, intents, x0, 0)
    BY <1>3, <1>4, <1>5 DEF UnitsIn, GroupIn
<1> QED BY <1>6 DEF p

\* One unit more was left out.
LEMMA UnitsStay ==
    ASSUME NEW intents, NEW x0, NEW p, NEW m \in Nat \ {0}, UnitsIn(p, intents, x0, m - 1)
    PROVE  UnitsIn(p, intents, x0, m)
<1>1. \A n \in 1..(m - 1) : n \in 1..m
    OBVIOUS
<1>2. \A s : InUnits(intents, s, m - 1) => InUnits(intents, s, m)
    BY <1>1 DEF InUnits
<1>3. \A g : GroupIn(p, intents, g, m - 1) => GroupIn(p, intents, g, m)
    BY <1>1 DEF GroupIn
<1> QED BY <1>2, <1>3 DEF UnitsIn

\* What the planner makes of a list of intents, one per symbol.
LEMMA IntentsAhead ==
    ASSUME NEW x0 \in Books(LiveFills), NEW ref \in Cohorts,
           NEW intents \in Seq(Intents), OnePerSymbol(intents),
           NEW p, p = PlanUnits(EmptyPlan(x0), ref, intents), p.err = "none"
    PROVE  UnitsIn(p, intents, x0, Len(Units(intents)))
<1> DEFINE Y == Plans(x0, ref)
<1> DEFINE n == Len(Units(intents))
<1> DEFINE p0 == EmptyPlan(x0)
<1>0. Units(intents) \in Seq(Seq(Intents)) /\ n \in Nat
    BY UnitsSeq
<1>1. \A y \in Y, k \in 1..n : UnitOn(y, ref, Units(intents)[k]) \in Y
    <2> SUFFICES ASSUME NEW y \in Y, NEW k \in 1..n
                 PROVE  UnitOn(y, ref, Units(intents)[k]) \in Y
        OBVIOUS
    <2>1. Units(intents)[k] \in Seq(Intents)
        BY <1>0
    <2>2. y.err = "none" => PlanUnit(y, ref, Units(intents)[k]) \in Plans(x0, ref)
        BY <2>1, UnitKeeps
    <2> QED BY <2>2 DEF UnitOn
<1>2. p0 \in Y
    BY EmptyPlanned DEF Errors
<1> HIDE DEF p0
<1>3. PICK h : UnitRun(h, Y, p0, ref, intents)
    <2> HIDE DEF Y
    <2> QED BY <1>0, <1>1, <1>2, UnitsRun
<1>4. /\ h[0] = p0 /\ h[n] = p
      /\ \A k \in 0..n : h[k] \in Plans(x0, ref)
      /\ \A k \in 1..n : h[k] = UnitOn(h[k - 1], ref, Units(intents)[k])
    BY <1>3 DEF UnitRun, p0
<1>5. PICK st : StartsAt(st, intents)
    BY UnitStarts
<1> DEFINE Ok(k) == h[k].err = "none" => UnitsIn(h[k], intents, x0, k)
<1> DEFINE G == {k \in 0..n : Ok(k)}
<1>6. 0 \in G
    BY <1>0, <1>4, NoneAhead DEF p0
<1>7. ASSUME NEW k \in 1..n, k - 1 \in G
      PROVE  k \in G
    <2> DEFINE q == h[k - 1]
    <2> DEFINE w == h[k]
    <2> DEFINE unit == Units(intents)[k]
    <2> DEFINE g == intents[st[k]].group
    <2>1. /\ q \in Plans(x0, ref) /\ w = UnitOn(q, ref, unit) /\ k \in 0..n /\ k \in Nat \ {0}
          /\ q.err = "none" => UnitsIn(q, intents, x0, k - 1)
          /\ unit \in Seq(Intents) /\ k \in 1..Len(Units(intents))
        BY <1>0, <1>4, <1>7
    <2>2. st[k] \in 1..Len(intents) /\ unit = UnitOf(intents, st[k])
        BY <1>5 DEF StartsAt
    <2>3. HasGroup(intents, k, st[k])
        BY <2>2, UnitPlaces
    <2>4. \A j \in 1..Len(Units(intents)[k]) : Units(intents)[k][j].group = g
        BY <2>3 DEF HasGroup
    <2>a. Grown(q, w, unit, Len(unit), g)
             <=> Grown(q, w, Units(intents)[k], Len(Units(intents)[k]), intents[st[k]].group)
        OBVIOUS
    <2>b. FreshUnit(q, unit, g) <=> FreshUnit(q, Units(intents)[k], g)
        OBVIOUS
    <2> HIDE DEF q, w, G, g, unit, n
    <2>5. ASSUME w.err = "none"
          PROVE  UnitsIn(w, intents, x0, k)
        <3>1. q.err = "none" /\ w = PlanUnit(q, ref, unit)
            BY <2>1, <2>5 DEF UnitOn
        <3>2. UnitsIn(q, intents, x0, k - 1) /\ Ahead(q, x0)
            BY <2>1, <3>1 DEF UnitsIn
        <3>3. FreshUnit(q, unit, g)
            BY <2>1, <2>4, <2>b, <3>2, UnitIsFresh
        <3>4. \/ w = q
              \/ /\ Ahead(w, x0) /\ Grown(q, w, unit, Len(unit), g)
                 /\ ~Uneven(Rest(q.out, w.out))
            BY <2>1, <2>5, <3>1, <3>2, <3>3, UnitAhead
        <3>5. CASE w = q
            BY <2>1, <3>2, <3>5, UnitsStay
        <3>6. CASE /\ Ahead(w, x0) /\ Grown(q, w, unit, Len(unit), g)
                   /\ ~Uneven(Rest(q.out, w.out))
            <4>1. q.out \in Seq(Requests)
                BY <2>1, DraftFields
            <4> QED BY <2>1, <2>2, <2>3, <2>a, <3>2, <3>6, <4>1, UnitsMore
        <3> QED BY <3>4, <3>5, <3>6
    <2> QED BY <2>1, <2>5 DEF G, w
<1>8. \A k \in 0..n : k \in G
    <2> HIDE DEF G, n
    <2> QED BY <1>0, <1>6, <1>7, Upward
<1>9. Ok(n)
    BY <1>0, <1>8
<1> QED BY <1>4, <1>9

(***************************************************************************)
(* What the plan foresaw, while its orders fill.                           *)
(***************************************************************************)
\* The symbol s has a request to come.
Pledged(rs, s) == \E k \in 1..Len(rs) : rs[k].sym = s
\* The book f is what the requests rs make of the cash c and the positions q.
Foresees(f, rs, c, q) ==
    /\ f = [cash |-> f.cash, pos |-> f.pos]
    /\ f.cash \in Int /\ f.pos \in [Symbols -> Positions]
    /\ f.cash + Gross(f.pos) = c + Gross(q)
    /\ \A j, k \in 1..Len(rs) : rs[j].sym = rs[k].sym => j = k
    /\ \A k \in 1..Len(rs) : rs[k].qty # 0 /\ f.pos[rs[k].sym] = Moved(q[rs[k].sym], rs[k])
    /\ \A s \in Symbols : ~Pledged(rs, s) => f.pos[s] = q[s]
\* While nothing disturbed a decision its plan is still right, and no target is
\* being worked on.
Foretold ==
    foreseen # NoBook => /\ rebalance = NoTarget /\ phase # "leg"
                         /\ Foresees(foreseen, requests, cash, pos)
\* The requests are all the legs of g, at one fraction of each, or none.
Proportional(rs, intents, g) ==
    \/ PartOf(rs, g) = <<>>
    \/ Len(PartOf(rs, g)) = Len(Legs(intents, g)) /\ ~Uneven(PartOf(rs, g))
PlannedInv ==
    /\ Foretold
    /\ planned \in Seq(Requests)
    /\ \A g \in Grouped(pending.intents) : Proportional(planned, pending.intents, g)

\* What a fill makes of the position of its symbol.
Resized(p, q, r, n) ==
    /\ p \in Positions /\ (p.qty = 0 => p = Flat)
    /\ Magnitude(p.qty) = IF Enlarges(q, r) THEN Magnitude(q.qty) + n
                                           ELSE Magnitude(q.qty) - n
\* A fill moves the position of its symbol only, and at no cost.
LEMMA AppliedMoves ==
    ASSUME LiveInv, NEW r \in Requests, NEW n \in Nat, n # 0, ~Crosses(r, n),
           NEW y, y = Applied(r, n)
    PROVE  /\ y.pos = [pos EXCEPT ![r.sym] = MovedBy(pos[r.sym], r, n)]
           /\ y.cash + Gross(y.pos) = cash + Gross(pos)
           /\ Resized(MovedBy(pos[r.sym], r, n), pos[r.sym], r, n)
<1> DEFINE a == pos[r.sym]
<1>1. /\ Booked.pos = pos /\ Booked.fills = fills /\ Booked.cash = cash
    BY LiveBook
<1>2. /\ cash \in Int /\ pos \in [Symbols -> Positions]
      /\ r.sym \in Symbols /\ n \in Nat /\ n # 0
    BY DEF LiveInv, Requests
<1>3. a \in Positions /\ a.qty \in Int /\ Magnitude(a.qty) \in Nat
    <2>1. a \in Positions
        BY <1>2
    <2> HIDE DEF a
    <2> QED BY <2>1, MagnitudeNat DEF Positions
<1>4. Gross(pos) \in Int
    BY <1>2, GrossInt
<1>5. CASE Opens(r)
    <2> DEFINE side == IF r.side = "buy" THEN "long" ELSE "short"
    <2> DEFINE e == [r EXCEPT !.act = side]
    <2> DEFINE q == [qty |-> a.qty + (IF r.side = "buy" THEN n ELSE -n),
                     protect |-> a.protect \union r.protect, exit |-> a.exit,
                     group |-> IF a.qty = 0 THEN r.group ELSE a.group]
    <2>0. /\ e.sym = r.sym /\ e.group = r.group /\ e.protect = r.protect /\ e.act = side
          /\ side = "long" <=> r.side = "buy"
        <3> HIDE DEF side
        <3>1. e.sym = r.sym /\ e.group = r.group /\ e.protect = r.protect /\ e.act = side
            BY DEF Requests
        <3> QED BY <3>1 DEF side
    <2>1. y.cash = cash - n /\ y.pos = [pos EXCEPT ![r.sym] = q]
        <3>1. y = Entered(Booked, e, n)
            BY <1>5 DEF Applied
        <3> DEFINE v == [qty |-> a.qty + (IF e.act = "long" THEN n ELSE -n),
                         protect |-> a.protect \union r.protect, exit |-> a.exit,
                         group |-> IF a.qty = 0 THEN r.group ELSE a.group]
        <3>2. v = q
            <4> HIDE DEF e, side
            <4> QED BY <2>0
        <3> HIDE DEF e, side
        <3>3. y.cash = cash - n /\ y.pos = [pos EXCEPT ![r.sym] = v]
            BY <1>1, <1>2, <2>0, <3>1 DEF Entered, Booked
        <3> HIDE DEF v, q
        <3> QED BY <3>2, <3>3
    <2>2. a.qty = 0 \/ (a.qty > 0) = (r.side = "buy")
        BY <1>5 DEF Opens
    <2>3. q = MovedBy(a, r, n)
        BY <2>2 DEF MovedBy, Enlarges
    <2>4. Magnitude(q.qty) = Magnitude(a.qty) + n
        <3> HIDE DEF a
        <3> QED BY <1>2, <1>3, <2>2 DEF Magnitude
    <2>5. q \in Positions
        <3>1. r.protect \in SUBSET Protections /\ r.group \in GroupIds
            BY DEF Requests
        <3> HIDE DEF a
        <3> QED BY <1>2, <1>3, <3>1 DEF Positions
    <2> HIDE DEF q
    <2>6. Gross(y.pos) = Gross(pos) + (Magnitude(q.qty) - Magnitude(a.qty))
        <3>1. Gross([pos EXCEPT ![r.sym] = q])
                 = Gross(pos) + (Magnitude(q.qty) - Magnitude(pos[r.sym].qty))
            BY <1>2, <2>5, GrossChange
        <3> QED BY <2>1, <3>1, Zenon
    <2>7. Resized(q, a, r, n)
        <3>1. q.qty # 0
            <4> HIDE DEF a
            <4> QED BY <1>2, <1>3, <2>4 DEF Magnitude
        <3>2. Enlarges(a, r)
            BY <2>2 DEF Enlarges
        <3> QED BY <2>4, <2>5, <3>1, <3>2 DEF Resized
    <2> HIDE DEF a
    <2>8. y.cash + Gross(y.pos) = cash + Gross(pos)
        BY <1>2, <1>3, <1>4, <2>1, <2>4, <2>6
    <2> QED BY <2>1, <2>3, <2>7, <2>8, Zenon DEF a
<1>6. CASE ~Opens(r)
    <2> DEFINE q == IF Left(a, n) = 0 THEN Flat ELSE [a EXCEPT !.qty = Left(a, n)]
    <2>1. y.cash = cash + n /\ y.pos = [pos EXCEPT ![r.sym] = q]
        <3>1. y = Reduced(Booked, r, n)
            BY <1>6 DEF Applied
        <3> QED BY <1>1, <1>2, <3>1 DEF Reduced, Booked, Left
    <2>2. ~(a.qty = 0 \/ (a.qty > 0) = (r.side = "buy"))
        BY <1>6 DEF Opens
    <2>3. q = MovedBy(a, r, n)
        BY <2>2 DEF MovedBy, Enlarges
    <2>4. n <= Magnitude(a.qty)
        <3>1. ~(n > Magnitude(a.qty))
            BY <1>6 DEF Crosses
        <3> HIDE DEF a
        <3> QED BY <1>2, <1>3, <3>1
    <2>5. q \in Positions /\ Magnitude(q.qty) = Magnitude(a.qty) - n /\ (q.qty = 0 => q = Flat)
        <3> HIDE DEF a
        <3>1. Left(a, n) \in Int
            BY <1>2, <1>3 DEF Left
        <3>2. Magnitude(Left(a, n)) = Magnitude(a.qty) - n
            BY <1>2, <1>3, <2>4 DEF Left, Magnitude
        <3>3. Flat \in Positions /\ Flat.qty = 0
            BY DEF Flat, Positions, GroupIds
        <3>4. [a EXCEPT !.qty = Left(a, n)] \in Positions
              /\ [a EXCEPT !.qty = Left(a, n)].qty = Left(a, n)
            BY <1>3, <3>1 DEF Positions
        <3>5. CASE Left(a, n) = 0
            BY <3>2, <3>3, <3>5
        <3>6. CASE Left(a, n) # 0
            BY <3>2, <3>4, <3>6
        <3> QED BY <3>5, <3>6
    <2> HIDE DEF q
    <2>6. Gross(y.pos) = Gross(pos) + (Magnitude(q.qty) - Magnitude(a.qty))
        <3>1. Gross([pos EXCEPT ![r.sym] = q])
                 = Gross(pos) + (Magnitude(q.qty) - Magnitude(pos[r.sym].qty))
            BY <1>2, <2>5, GrossChange
        <3> QED BY <2>1, <3>1, Zenon
    <2>7. Resized(q, a, r, n)
        BY <2>2, <2>5 DEF Resized, Enlarges
    <2> HIDE DEF a
    <2>8. y.cash + Gross(y.pos) = cash + Gross(pos)
        BY <1>2, <1>3, <1>4, <2>1, <2>5, <2>6
    <2> QED BY <2>1, <2>3, <2>7, <2>8, Zenon DEF a
<1> QED BY <1>5, <1>6

\* The fill of a whole request moves its position as the plan foresaw.
LEMMA AppliedWhole ==
    ASSUME LiveInv, NEW r \in Requests, r.qty # 0, ~Crosses(r, r.qty),
           NEW y, y = Applied(r, r.qty)
    PROVE  /\ y.pos = [pos EXCEPT ![r.sym] = Moved(pos[r.sym], r)]
           /\ y.cash + Gross(y.pos) = cash + Gross(pos)
<1> DEFINE n == r.qty
<1>1. n \in Nat /\ n # 0 /\ ~Crosses(r, n) /\ y = Applied(r, n)
    BY LiveQuantities
<1>2. Moved(pos[r.sym], r) = MovedBy(pos[r.sym], r, n)
    BY DEF Moved
<1> HIDE DEF n
<1>3. /\ y.pos = [pos EXCEPT ![r.sym] = MovedBy(pos[r.sym], r, n)]
      /\ y.cash + Gross(y.pos) = cash + Gross(pos)
    BY <1>1, AppliedMoves
<1> QED BY <1>2, <1>3

\* The head of the requests filled: the others make the same of what is left.
LEMMA ForeseesTail ==
    ASSUME NEW rs \in Seq(Requests), rs # <<>>, NEW f, NEW c, NEW q \in [Symbols -> Positions],
           Foresees(f, rs, c, q), NEW r, r = rs[1], NEW d,
           NEW p, p = [q EXCEPT ![r.sym] = Moved(q[r.sym], r)],
           d + Gross(p) = c + Gross(q)
    PROVE  Foresees(f, Tail(rs), d, p)
<1> DEFINE t == Tail(rs)
<1>1. /\ Len(rs) \in Nat \ {0} /\ t \in Seq(Requests) /\ Len(t) = Len(rs) - 1
      /\ \A k \in 1..Len(t) : t[k] = rs[k + 1] /\ k + 1 \in 1..Len(rs) /\ k + 1 # 1
      /\ \A k \in 1..Len(rs) : rs[k] \in Requests /\ (k # 1 => k - 1 \in 1..Len(t) /\ t[k - 1] = rs[k])
      /\ 1 \in 1..Len(rs)
    OBVIOUS
<1> HIDE DEF t
<1>2. \A e \in Requests : e.sym \in Symbols
    BY DEF Requests
<1>3. r \in Requests /\ r.sym \in Symbols /\ f.pos[r.sym] = Moved(q[r.sym], r)
    BY <1>1, <1>2 DEF Foresees
<1>4. p[r.sym] = Moved(q[r.sym], r) /\ \A s \in Symbols : s # r.sym => p[s] = q[s]
    BY <1>3
<1>5. \A j, k \in 1..Len(t) : t[j].sym = t[k].sym => j = k
    <2> SUFFICES ASSUME NEW j \in 1..Len(t), NEW k \in 1..Len(t), t[j].sym = t[k].sym
                 PROVE  j = k
        OBVIOUS
    <2>1. rs[j + 1].sym = rs[k + 1].sym /\ j + 1 \in 1..Len(rs) /\ k + 1 \in 1..Len(rs)
        BY <1>1
    <2>2. j + 1 = k + 1
        BY <2>1 DEF Foresees
    <2> QED BY <2>2
<1>6. ASSUME NEW k \in 1..Len(t)
      PROVE  t[k].qty # 0 /\ f.pos[t[k].sym] = Moved(p[t[k].sym], t[k])
    <2> DEFINE m == k + 1
    <2>1. t[k] = rs[m] /\ m \in 1..Len(rs) /\ m # 1 /\ rs[m].sym \in Symbols
        BY <1>1, <1>2
    <2> HIDE DEF m
    <2>2. rs[m].sym # r.sym
        BY <1>1, <2>1 DEF Foresees
    <2>3. p[rs[m].sym] = q[rs[m].sym]
        BY <1>4, <2>1, <2>2
    <2>4. rs[m].qty # 0 /\ f.pos[rs[m].sym] = Moved(q[rs[m].sym], rs[m])
        BY <2>1 DEF Foresees
    <2> QED BY <2>1, <2>3, <2>4
<1>7. ASSUME NEW s \in Symbols, ~Pledged(t, s)
      PROVE  f.pos[s] = p[s]
    <2>1. CASE s = r.sym
        BY <1>3, <1>4, <2>1
    <2>2. CASE s # r.sym
        <3>1. ASSUME NEW k \in 1..Len(rs), rs[k].sym = s
              PROVE  FALSE
            <4>1. k # 1
                BY <2>2, <3>1
            <4>2. k - 1 \in 1..Len(t) /\ t[k - 1].sym = s
                BY <1>1, <3>1, <4>1
            <4> QED BY <1>7, <4>2 DEF Pledged
        <3>2. ~Pledged(rs, s)
            BY <3>1 DEF Pledged
        <3>3. f.pos[s] = q[s]
            BY <3>2 DEF Foresees
        <3> QED BY <1>4, <2>2, <3>3
    <2> QED BY <2>1, <2>2
<1> HIDE DEF t
<1>8. f = [cash |-> f.cash, pos |-> f.pos] /\ f.cash \in Int /\ f.pos \in [Symbols -> Positions]
      /\ f.cash + Gross(f.pos) = d + Gross(p)
    BY DEF Foresees
<1>9. Foresees(f, t, d, p)
    BY <1>5, <1>6, <1>7, <1>8 DEF Foresees
<1> QED BY <1>9 DEF t

\* A decision is queued as it was planned.
LEMMA PlanForesees ==
    ASSUME LiveInv, NEW ref \in Cohorts, NEW intents \in Seq(Intents), OnePerSymbol(intents),
           NEW p, p = PlanIntents(ref, intents), p.err = "none",
           NEW f, f = [cash |-> p.y.cash, pos |-> p.y.pos]
    PROVE  /\ Foresees(f, p.out, cash, pos)
           /\ p.out \in Seq(Requests)
           /\ \A k \in 1..Len(p.out) : Fit(pos[p.out[k].sym], p.out[k])
           /\ \A g \in Grouped(intents) : Proportional(p.out, intents, g)
<1> DEFINE x0 == [Booked EXCEPT !.fills = <<>>]
<1>1. x0 \in Books(LiveFills) /\ x0.cash = cash /\ x0.pos = pos
    BY LiveBook DEF Booked
<1>2. p = PlanUnits(EmptyPlan(x0), ref, intents)
    BY DEF PlanIntents
<1> HIDE DEF x0
<1>3. UnitsIn(p, intents, x0, Len(Units(intents)))
    BY <1>1, <1>2, IntentsAhead
<1>4. p \in Plans(x0, ref)
    <2>1. EmptyPlan(x0) \in Plans(x0, ref)
        BY <1>1, EmptyPlanned DEF Errors
    <2> QED BY <1>1, <1>2, <2>1, IntentsPlanned
<1>5. p.out \in Seq(Requests) /\ p.y \in Books(LiveFills)
    BY <1>1, <1>4, DraftFields DEF Plans, Drafts
<1>6. p.y.cash \in Int /\ p.y.pos \in [Symbols -> Positions]
    BY <1>5 DEF Books
<1>7. f.cash = p.y.cash /\ f.pos = p.y.pos /\ f = [cash |-> f.cash, pos |-> f.pos]
    OBVIOUS
<1>8. Ahead(p, x0)
    BY <1>3 DEF UnitsIn
<1>9. f.cash + Gross(f.pos) = cash + Gross(pos)
    BY <1>1, <1>7, <1>8 DEF Ahead, Worth
<1>10. \A s : Pledged(p.out, s) <=> InOut(p, s)
    BY DEF Pledged, InOut
<1>11. Foresees(f, p.out, cash, pos)
    BY <1>1, <1>6, <1>7, <1>8, <1>9, <1>10 DEF Foresees, Ahead
<1>12. \A g \in Grouped(intents) : Proportional(p.out, intents, g)
    BY <1>3 DEF UnitsIn, GroupIn, Grouped, Proportional
<1>13. \A k \in 1..Len(p.out) : Fit(pos[p.out[k].sym], p.out[k])
    BY <1>1, <1>8 DEF Ahead
<1> QED BY <1>5, <1>11, <1>12, <1>13

LEMMA DecidePlanned ==
    ASSUME LiveInv, PlannedInv, NEW intents \in LiveLists, LiveDecide(intents)
    PROVE  PlannedInv'
<1> DEFINE ref == Reference(bars')
<1>1. ref \in Cohorts
    <2>1. bars' \in Cohorts
        BY CohortOf DEF LiveDecide
    <2> QED BY <2>1, ReferenceCohort
<1>2. intents \in Seq(Intents) /\ OnePerSymbol(intents)
    BY LiveAssumption
<1>3. /\ pending'.intents = intents /\ cash' = cash /\ pos' = pos
      /\ rebalance = NoTarget
    BY DEF LiveDecide, LiveInv, Pendings
<1> DEFINE p == PlanIntents(ref, intents)
<1>4. Queue(p)
    BY DEF LiveDecide
<1>5. p = PlanIntents(ref, intents)
    OBVIOUS
<1> HIDE DEF p, ref
<1>6. CASE QueueRejected(p)
    <2>1. foreseen' = NoBook /\ planned' = <<>>
        BY <1>6 DEF QueueRejected, HaltLive
    <2>2. planned' \in Seq(Requests)
        BY <2>1
    <2> QED BY <2>1, <2>2, PartOfNone DEF PlannedInv, Foretold, Proportional
<1>7. CASE QueuePlanned(p)
    <2>1. /\ p.err = "none" /\ requests' = p.out /\ planned' = p.out
          /\ foreseen' = [cash |-> p.y.cash, pos |-> p.y.pos]
          /\ phase' # "leg" /\ rebalance' = NoTarget
        BY <1>3, <1>7 DEF QueuePlanned
    <2>2. /\ Foresees(foreseen', p.out, cash, pos)
          /\ p.out \in Seq(Requests)
          /\ \A g \in Grouped(intents) : Proportional(p.out, intents, g)
        BY <1>1, <1>2, <1>5, <2>1, PlanForesees
    <2>3. Foretold'
        BY <1>3, <2>1, <2>2 DEF Foretold
    <2> QED BY <1>3, <2>1, <2>2, <2>3 DEF PlannedInv
<1> QED BY <1>4, <1>6, <1>7 DEF Queue

\* Outside a decision only the book and the requests may change.
LEMMA PlannedRest ==
    ASSUME PlannedInv, planned' = planned, pending' = pending, Foretold'
    PROVE  PlannedInv'
BY DEF PlannedInv

\* A target ends what was planned of the decision before it; one that is being
\* worked on has no such plan.
LEMMA CohortPlanned ==
    ASSUME LiveInv, PlannedInv, \/ \E target \in LiveTargets : LiveTarget(target)
                                \/ NextRebalanceBar
    PROVE  PlannedInv'
<1>1. CASE NextRebalanceBar
    <2>1. foreseen = NoBook
        BY <1>1 DEF NextRebalanceBar, PlannedInv, Foretold
    <2> QED BY <1>1, <2>1, PlannedRest DEF NextRebalanceBar, liveVars, Foretold
<1>2. ASSUME NEW target \in LiveTargets, LiveTarget(target)
      PROVE  PlannedInv'
    <2>1. foreseen' = NoBook /\ planned' = <<>> /\ pending' = Nothing
        BY <1>2 DEF LiveTarget
    <2>2. planned' \in Seq(Requests)
        BY <2>1
    <2> QED BY <2>1, <2>2, PartOfNone DEF PlannedInv, Foretold, Proportional
<1> QED BY <1>1, <1>2

\* So has its next leg none.
LEMMA LegPlannedOn ==
    ASSUME LiveInv, PlannedInv, PlanNextLeg
    PROVE  PlannedInv'
<1>1. foreseen = NoBook /\ planned' = planned /\ pending' = pending
    BY DEF PlanNextLeg, PlannedInv, Foretold
<1>2. PICK p : NextLeg(p)
    BY DEF PlanNextLeg
<1>3. foreseen' = NoBook
    BY <1>1, <1>2 DEF NextLeg, DeferLeg, RejectLeg, HaltLive, NoLegLeft, QueueLeg
<1> QED BY <1>1, <1>3, PlannedRest DEF Foretold

\* A whole fill is what the plan foresaw; a halt gives the plan up.
LEMMA FillPlanned ==
    ASSUME LiveInv, PlannedInv, OrderFills
    PROVE  PlannedInv'
<1> DEFINE r == Head(requests)
<1>1. /\ phase = "send" /\ BookFill(r, r.qty)
      /\ \/ HaltLive
         \/ GoesOn(Tail(requests), rebalance) /\ foreseen' = foreseen
      /\ pending' = pending /\ planned' = planned
    BY DEF OrderFills
<1>2. r \in Requests /\ r = requests[1] /\ requests # <<>> /\ requests \in Seq(Requests)
    BY <1>1, Sending DEF LiveInv
<1> HIDE DEF r
<1>3. CASE HaltLive
    BY <1>1, <1>3, PlannedRest DEF Foretold, HaltLive
<1>4. CASE GoesOn(Tail(requests), rebalance) /\ foreseen' = foreseen
    <2>1. ASSUME foreseen # NoBook
          PROVE  /\ rebalance' = NoTarget /\ phase' # "leg"
                 /\ Foresees(foreseen, requests', cash', pos')
        <3>1. rebalance = NoTarget /\ Foresees(foreseen, requests, cash, pos)
            BY <2>1 DEF PlannedInv, Foretold
        <3>2. /\ requests' = Tail(requests) /\ rebalance' = NoTarget /\ phase' # "leg"
            BY <1>4, <3>1 DEF GoesOn
        <3>3. r.qty # 0
            <4>1. Len(requests) \in Nat /\ Len(requests) # 0
                BY <1>2
            <4>2. 1 \in 1..Len(requests)
                BY <4>1
            <4> QED BY <1>2, <3>1, <4>2 DEF Foresees
        <3> DEFINE y == Applied(r, r.qty)
        <3>4. ~Crosses(r, r.qty) /\ cash' = y.cash /\ pos' = y.pos
            BY <1>1 DEF BookFill
        <3>5. y = Applied(r, r.qty)
            OBVIOUS
        <3> HIDE DEF y
        <3>6. /\ pos' = [pos EXCEPT ![r.sym] = Moved(pos[r.sym], r)]
              /\ cash' + Gross(pos') = cash + Gross(pos)
            BY <1>2, <3>3, <3>4, <3>5, AppliedWhole
        <3>7. pos \in [Symbols -> Positions]
            BY DEF LiveInv
        <3>8. Foresees(foreseen, Tail(requests), cash', pos')
            <4> DEFINE d == cash'
            <4> DEFINE p == pos'
            <4>1. p = [pos EXCEPT ![r.sym] = Moved(pos[r.sym], r)] /\ d + Gross(p) = cash + Gross(pos)
                BY <3>6
            <4> HIDE DEF d, p
            <4>2. Foresees(foreseen, Tail(requests), d, p)
                BY <1>2, <3>1, <3>7, <4>1, ForeseesTail
            <4> QED BY <4>2 DEF d, p
        <3> QED BY <3>2, <3>8
    <2> QED BY <1>1, <1>4, <2>1, PlannedRest DEF Foretold
<1> QED BY <1>1, <1>3, <1>4

\* An order that ends short, or is dropped, gives the plan up.
LEMMA OtherPlanned ==
    ASSUME LiveInv, PlannedInv, OrderFails \/ DropPausedEntry \/ DropUnfundedEntry
    PROVE  PlannedInv'
<1>1. foreseen' = NoBook /\ planned' = planned /\ pending' = pending
    <2>1. CASE OrderFails
        BY <2>1 DEF OrderFails, HaltLive
    <2>2. CASE DropPausedEntry
        BY <2>2 DEF DropPausedEntry
    <2>3. CASE DropUnfundedEntry
        BY <2>3 DEF DropUnfundedEntry
    <2> QED BY <2>1, <2>2, <2>3
<1> QED BY <1>1, PlannedRest DEF Foretold

\* A step that touches neither the book nor the plan.
LEMMA StillPlanned ==
    ASSUME PlannedInv,
           UNCHANGED <<cash, pos, phase, pending, requests, rebalance, planned, foreseen>>
    PROVE  PlannedInv'
BY PlannedRest DEF PlannedInv, Foretold

\* What a step of any run leaves.
LEMMA PlannedNext ==
    ASSUME mode = "live" => LiveInv /\ PlannedInv, [Next]_vars
    PROVE  (mode = "live" => PlannedInv)'
<1>1. CASE UNCHANGED vars
    BY <1>1, StillPlanned DEF vars, runVars, liveVars
<1>2. CASE mode = "live" /\ NextLive /\ mode' = mode
    <2>1. CASE PauseEntries
        BY <1>2, <2>1, StillPlanned DEF PauseEntries, runVars
    <2> QED BY <1>2, <2>1, DecidePlanned, CohortPlanned, LegPlannedOn, FillPlanned,
               OtherPlanned DEF NextLive
<1>3. CASE mode # "live" /\ mode' = mode
    BY <1>3
<1> QED BY <1>1, <1>2, <1>3 DEF Next

\* Nothing is planned before the first decision.
LEMMA PlannedInit ==
    ASSUME Init
    PROVE  PlannedInv
<1>1. foreseen = NoBook /\ planned = <<>>
    BY DEF Init, InitLive
<1>2. planned \in Seq(Requests)
    BY <1>1
<1> QED BY <1>1, <1>2, PartOfNone DEF PlannedInv, Foretold, Proportional

\* What _plan_live_orders foresaw of a decision stays true while its orders
\* fill: at every moment the requests still to be sent would turn the book as
\* it is into the one the plan ended in, each symbol has at most one of them,
\* and of a group there are all legs, at one common fraction, or none.
THEOREM PlannedInvariance == Spec => [](mode = "live" => PlannedInv)
<1>1. Init => (mode = "live" => PlannedInv)
    BY PlannedInit
<1>2. RunInv /\ (mode = "live" => PlannedInv) /\ [Next]_vars
         => (mode = "live" => PlannedInv)'
    BY PlannedNext DEF RunInv
<1> QED BY <1>1, <1>2, RunInvariance, PTL DEF Spec

\* With nothing left to send the book is the one foreseen.
LEMMA PlannedNow ==
    ASSUME LiveInv, PlannedInv
    PROVE  PlannedWhole
<1>1. ASSUME phase = "idle", foreseen # NoBook
      PROVE  foreseen = [cash |-> cash, pos |-> pos]
    <2>1. requests = <<>>
        BY <1>1 DEF LiveInv
    <2>2. Foresees(foreseen, requests, cash, pos)
        BY <1>1 DEF PlannedInv, Foretold
    <2>3. \A s : ~Pledged(requests, s)
        BY <2>1 DEF Pledged
    <2>4. pos \in [Symbols -> Positions] /\ cash \in Int /\ Gross(pos) \in Int
        BY GrossInt DEF LiveInv
    <2>5. foreseen.pos = pos
        <3>1. foreseen.pos \in [Symbols -> Positions]
              /\ \A s \in Symbols : foreseen.pos[s] = pos[s]
            BY <2>2, <2>3 DEF Foresees
        <3> DEFINE q == foreseen.pos
        <3>2. q \in [Symbols -> Positions] /\ \A s \in Symbols : q[s] = pos[s]
            BY <3>1
        <3> HIDE DEF q
        <3>3. q = pos
            BY <2>4, <3>2
        <3> QED BY <3>3 DEF q
    <2>6. foreseen.cash = cash
        <3>1. foreseen.cash \in Int /\ foreseen.cash + Gross(pos) = cash + Gross(pos)
            BY <2>2, <2>5 DEF Foresees
        <3> DEFINE a == foreseen.cash
        <3> DEFINE b == Gross(pos)
        <3>2. a \in Int /\ b \in Int /\ cash \in Int /\ a + b = cash + b
            BY <2>4, <3>1
        <3> HIDE DEF a, b
        <3>3. a = cash
            BY <3>2
        <3> QED BY <3>3 DEF a
    <2> QED BY <2>2, <2>5, <2>6 DEF Foresees
<1>2. ASSUME NEW g \in Grouped(pending.intents)
      PROVE  LET intended == Legs(pending.intents, g)
                 legs  == Kept(planned, {r \in Range(planned) : r.of = g})
             IN \/ legs = <<>>
                \/ /\ Len(legs) = Len(intended)
                   /\ \A j, k \in DOMAIN legs :
                         legs[j].qty * legs[k].asked = legs[k].qty * legs[j].asked
    <2> DEFINE S == {r \in Range(planned) : r.of = g}
    <2> DEFINE T == {r \in Requests : r.of = g}
    <2>1. planned \in Seq(Requests)
        BY DEF PlannedInv
    <2>2. \A k \in 1..Len(planned) : planned[k] \in S <=> planned[k] \in T
        BY <2>1 DEF Range
    <2>3. PartOf(planned, g) = Kept(planned, T)
        BY DEF PartOf
    <2>4. Proportional(planned, pending.intents, g)
        BY DEF PlannedInv
    <2> HIDE DEF S, T
    <2>5. Kept(planned, S) = PartOf(planned, g)
        BY <2>1, <2>2, <2>3, KeptSame
    <2> DEFINE legs == Kept(planned, S)
    <2>6. legs = <<>> \/ (Len(legs) = Len(Legs(pending.intents, g)) /\ ~Uneven(legs))
        BY <2>4, <2>5 DEF Proportional
    <2> HIDE DEF legs
    <2>7. legs = <<>> \/ (/\ Len(legs) = Len(Legs(pending.intents, g))
                          /\ \A j, k \in DOMAIN legs :
                               legs[j].qty * legs[k].asked = legs[k].qty * legs[j].asked)
        BY <2>6 DEF Uneven
    <2> QED BY <2>7 DEF legs, S
<1> QED BY <1>1, <1>2 DEF PlannedWhole

\* The requests of a live decision come for all legs of a group at one common
\* fraction or for none (_plan_live_orders), and once all of
\* them filled whole the cash and the positions are exactly those the last of
\* them was judged against.
THEOREM PlannedWholeHolds == Spec => []PlannedWhole
<1>1. RunInv /\ (mode = "live" => PlannedInv) => PlannedWhole
    <2>1. CASE mode # "live"
        BY <2>1 DEF PlannedWhole
    <2>2. CASE mode = "live"
        BY <2>2, PlannedNow DEF RunInv
    <2> QED BY <2>1, <2>2
<1> QED BY <1>1, RunInvariance, PlannedInvariance, PTL

(***************************************************************************)
(* The book of a live run.                                                 *)
(***************************************************************************)
\* An order of a target that is planned becomes one request, judged on the
\* book that is planned so far.
LEMMA OrderTakes ==
    ASSUME NEW x0 \in Books(LiveFills), NEW ref \in Cohorts, NEW q \in Plans(x0, ref),
           q.err = "none", NEW f \in Fills, NEW r,
           NEW w, w = PlanFill(q, ref, f, Order(f.sym, ActOf(r, f), f.qty)), w.err = "none"
    PROVE  \E v \in Requests : /\ w.out = Append(q.out, v)
                               /\ q.x.pos = q.y.pos => Fit(q.y.pos[v.sym], v)
<1> DEFINE i == Order(f.sym, ActOf(r, f), f.qty)
<1>1. IsOrder(i)
    <2>1. f.sym \in Symbols /\ f.qty \in Nat /\ ActOf(r, f) \in Actions
        BY DEF Fills, ActOf, Actions
    <2>2. i \in PlainOrders
        BY <2>1 DEF PlainOrders
    <2>3. Neutral(Fills)
        BY DEF Neutral
    <2> QED BY <2>2, <2>3, OrderType DEF Allowed
<1> HIDE DEF i
<1> DEFINE x == ExecuteIntent(q.x, ref, MaxPosition, i)
<1>2. x \in Books(Fills)
    BY <1>1, StagedBook
<1>3. w = PlanFillOn(q, ref, i, f, x)
    BY DEF PlanFill, i
<1> HIDE DEF x
<1>4. q \in Drafts /\ q.y \in Books(LiveFills) /\ q.x \in Books(Fills)
      /\ \A e : Err(q, e).err = e
    BY DraftFields DEF Err, Drafts
<1> DEFINE u == RequestOf(q, i, f.kind, f.qty)
<1>5. u \in Requests
    <2>1. f.qty \in Nat
        BY DEF Fills
    <2> QED BY <1>1, <1>4, <2>1, RequestType
<1>6. u.sym = i.sym /\ u.act = i.act /\ u.side = OrderSide(q.x.pos, i)
    BY DEF RequestOf
<1>7. w = PrepareLeg([q EXCEPT !.x = x], ref, u)
    BY <1>3, <1>4 DEF PlanFillOn
<1> HIDE DEF u
<1> DEFINE v == Prepared(u)
<1>8. v \in Requests /\ v.sym = i.sym /\ v.act = i.act /\ v.side = OrderSide(q.x.pos, i)
    <2>1. v \in Requests
        BY <1>5, PreparedType
    <2> QED BY <1>5, <1>6, <2>1 DEF Prepared, Requests
<1>9. w = JudgeRequest([q EXCEPT !.x = x], ref, v)
    BY <1>7 DEF PrepareLeg
<1> HIDE DEF v
<1>10. /\ w.out = Append(q.out, v) /\ v.qty # 0
       /\ w.y = ExecuteIntent(q.y, ref, MaxPosition, v)
       /\ FilledOf(q.y, w.y, v.sym, {"open", "add", "reduce", "close"}) = v.qty
    BY <1>2, <1>8, <1>9, JudgedTakes
<1>11. ASSUME q.x.pos = q.y.pos
       PROVE  Fit(q.y.pos[v.sym], v)
    <2> DEFINE b == q.y
    <2> DEFINE y == w.y
    <2>1. /\ b \in Books(LiveFills) /\ y = ExecuteIntent(b, ref, MaxPosition, v)
          /\ FilledOf(b, y, v.sym, {"open", "add", "reduce", "close"}) = v.qty
        BY <1>4, <1>10
    <2>2. v.sym \in Symbols /\ b.pos[v.sym].qty \in Int
        <3>1. v.sym \in Symbols
            BY <1>8 DEF Requests
        <3> QED BY <1>4, <3>1 DEF Books, Positions
    <2>3. v.side = IF v.act = "long" THEN "buy"
                   ELSE IF v.act = "short" \/ b.pos[v.sym].qty > 0 THEN "sell"
                   ELSE IF b.pos[v.sym].qty < 0 THEN "buy" ELSE "none"
        BY <1>8, <1>11 DEF OrderSide
    <2> HIDE DEF b, y
    <2>4. Sided(v, b.pos[v.sym])
        BY <2>2, <2>3 DEF Sided
    <2>5. Fit(b.pos[v.sym], v)
        BY <1>8, <1>10, <2>1, <2>4, JudgedWhole
    <2> QED BY <2>5 DEF b
<1> QED BY <1>8, <1>10, <1>11

\* The first request of a plan.
Leads(p, q) == p.out # <<>> /\ Fit(q[p.out[1].sym], p.out[1])

\* The first request of a target was judged on the book itself.
LEMMA FirstFit ==
    ASSUME NEW x0 \in Books(LiveFills), NEW ref \in Cohorts, NEW new \in Seq(Fills),
           NEW r, r.add \in [Symbols -> Int],
           NEW p, p = PlanFills(EmptyPlan(x0), ref, r, new), p.err = "none", p.out # <<>>
    PROVE  Leads(p, x0.pos)
<1> DEFINE Y == Plans(x0, ref)
<1> DEFINE n == Len(new)
<1> DEFINE p0 == EmptyPlan(x0)
<1>1. p0 \in Y
    BY EmptyPlanned DEF Errors
<1>2. p0.out = <<>> /\ p0.x = x0 /\ p0.y = x0
    BY DEF EmptyPlan
<1> HIDE DEF p0
<1>3. \A y \in Y, k \in 1..Len(new) : FillOn(y, ref, r, new[k]) \in Y
    <2> SUFFICES ASSUME NEW y \in Y, NEW k \in 1..Len(new)
                 PROVE  FillOn(y, ref, r, new[k]) \in Y
        OBVIOUS
    <2> DEFINE f == new[k]
    <2> DEFINE z == PlanFill(y, ref, f, Order(f.sym, ActOf(r, f), f.qty))
    <2>1. f \in Fills
        OBVIOUS
    <2>2. y.err = "none" => z \in Plans(x0, ref)
        <3> HIDE DEF f
        <3> QED BY <2>1, FillKeeps
    <2>3. FillOn(y, ref, r, f) = IF y.err = "none" THEN z ELSE y
        BY DEF FillOn
    <2> HIDE DEF z
    <2> QED BY <2>2, <2>3
<1>4. PICK h : FillRun(h, Y, p0, ref, r, new)
    <2> HIDE DEF Y
    <2> QED BY <1>1, <1>3, FillsRun
<1>5. /\ n \in Nat /\ h[0] = p0 /\ h[n] = p
      /\ \A k \in 0..n : h[k] \in Plans(x0, ref)
      /\ \A k \in 1..n : h[k] = FillOn(h[k - 1], ref, r, new[k])
    BY <1>4 DEF FillRun, p0
<1> DEFINE Ok(k) == h[k].err = "none" => (IF k = 0 THEN h[k] = p0 ELSE Leads(h[k], x0.pos))
<1> DEFINE G == {k \in 0..n : Ok(k)}
<1>6. 0 \in G
    BY <1>5
<1>7. ASSUME NEW k \in 1..n, k - 1 \in G
      PROVE  k \in G
    <2> DEFINE q == h[k - 1]
    <2> DEFINE w == h[k]
    <2> DEFINE f == new[k]
    <2>1. /\ q \in Plans(x0, ref) /\ w = FillOn(q, ref, r, f) /\ k \in 0..n /\ k # 0
          /\ q.err = "none" => (q = p0 \/ Leads(q, x0.pos))
          /\ f \in Fills
        BY <1>5, <1>7
    <2> HIDE DEF q, w, G, f, n
    <2>2. ASSUME w.err = "none"
          PROVE  Leads(w, x0.pos)
        <3>1. q.err = "none" /\ w = PlanFill(q, ref, f, Order(f.sym, ActOf(r, f), f.qty))
            BY <2>1, <2>2 DEF FillOn
        <3>2. PICK v \in Requests : /\ w.out = Append(q.out, v)
                                    /\ q.x.pos = q.y.pos => Fit(q.y.pos[v.sym], v)
            BY <2>1, <2>2, <3>1, OrderTakes
        <3>3. q.out \in Seq(Requests)
            BY <2>1, DraftFields
        <3>4. CASE q = p0
            <4>1. w.out # <<>> /\ w.out[1] = v
                <5>1. w.out = Append(<<>>, v)
                    BY <1>2, <3>2, <3>4, Zenon
                <5>2. Append(<<>>, v) # <<>> /\ Append(<<>>, v)[1] = v
                    OBVIOUS
                <5> QED BY <5>1, <5>2, Zenon
            <4> QED BY <1>2, <3>2, <3>4, <4>1 DEF Leads
        <3>5. CASE Leads(q, x0.pos)
            <4>1. w.out # <<>> /\ w.out[1] = q.out[1]
                <5>1. q.out # <<>>
                    BY <3>5 DEF Leads
                <5> QED BY <3>2, <3>3, <5>1
            <4> QED BY <3>5, <4>1 DEF Leads
        <3> QED BY <2>1, <3>1, <3>4, <3>5
    <2> QED BY <2>1, <2>2 DEF G, w
<1>8. \A k \in 0..n : k \in G
    <2> HIDE DEF G, n
    <2> QED BY <1>5, <1>6, <1>7, Upward
<1>9. Ok(n)
    BY <1>5, <1>8
<1>10. n # 0
    <2>1. n = 0 => p = p0
        BY <1>5
    <2> QED BY <1>2, <2>1
<1> QED BY <1>5, <1>9, <1>10

\* What is still to be sent names a symbol once and fits the positions.
Agreed(rs, q) ==
    /\ \A j, k \in 1..Len(rs) : rs[j].sym = rs[k].sym => j = k
    /\ \A k \in 1..Len(rs) : Fit(q[rs[k].sym], rs[k])
\* No position passes its limit, and a closed one leaves nothing behind.
Sized(q) ==
    \A s \in Symbols : /\ Magnitude(q[s].qty) <= MaxPosition
                       /\ q[s].qty = 0 => q[s] = Flat
\* The book of a live run, and why its next fill keeps it.
LiveSafe ==
    /\ cash + Gross(pos) = StartCash
    /\ Sized(pos)
    /\ ~halted => Gross(pos) <= MaxGross
    /\ Agreed(requests, pos)

\* left is some of what rs has behind its first element.
Behind(idx, left, rs) ==
    /\ idx \in [1..Len(left) -> 1..Len(rs)]
    /\ \A j \in 1..Len(left) : left[j] = rs[idx[j]] /\ idx[j] # 1
    /\ \A j, k \in 1..Len(left) : idx[j] = idx[k] => j = k

\* Of the positions q only the one that r names has moved.
Apart(p, q, r) == \A s \in Symbols : s # r.sym => p[s] = q[s]

\* When the first ends, some of the others are left, and theirs did not move.
LEMMA AgreedLess ==
    ASSUME NEW rs \in Seq(Requests), rs # <<>>, NEW q, NEW left, NEW idx,
           Behind(idx, left, rs), Agreed(rs, q),
           NEW p, Apart(p, q, rs[1])
    PROVE  Agreed(left, p)
<1>1. /\ \A j \in 1..Len(left) : /\ idx[j] \in 1..Len(rs) /\ idx[j] # 1
                                 /\ left[j] = rs[idx[j]]
      /\ \A j, k \in 1..Len(left) : idx[j] = idx[k] => j = k
    BY DEF Behind
<1>2. 1 \in 1..Len(rs)
    <2>1. Len(rs) \in Nat /\ Len(rs) # 0
        OBVIOUS
    <2> QED BY <2>1
<1>3. ASSUME NEW k \in 1..Len(left)
      PROVE  Fit(p[left[k].sym], left[k])
    <2> DEFINE m == idx[k]
    <2>1. m \in 1..Len(rs) /\ m # 1 /\ left[k] = rs[m]
        BY <1>1
    <2> HIDE DEF m
    <2>2. rs[m].sym # rs[1].sym /\ Fit(q[rs[m].sym], rs[m])
        BY <1>2, <2>1 DEF Agreed
    <2>3. rs[m].sym \in Symbols
        <3>1. rs[m] \in Requests
            BY <2>1
        <3> QED BY <3>1 DEF Requests
    <2>4. p[rs[m].sym] = q[rs[m].sym]
        BY <2>2, <2>3 DEF Apart
    <2> QED BY <2>1, <2>2, <2>4
<1>4. ASSUME NEW j \in 1..Len(left), NEW k \in 1..Len(left), left[j].sym = left[k].sym
      PROVE  j = k
    BY <1>1, <1>4 DEF Agreed
<1> QED BY <1>3, <1>4 DEF Agreed

\* All others are left.
LEMMA TailBehind ==
    ASSUME NEW rs \in Seq(Requests), rs # <<>>
    PROVE  \E idx : Behind(idx, Tail(rs), rs)
<1> DEFINE t == Tail(rs)
<1> DEFINE idx == [j \in 1..Len(t) |-> j + 1]
<1>1. /\ Len(rs) \in Nat /\ Len(t) = Len(rs) - 1 /\ Len(t) \in Nat
      /\ \A j \in 1..Len(t) : t[j] = rs[j + 1] /\ j + 1 \in 1..Len(rs) /\ j + 1 # 1
    OBVIOUS
<1> HIDE DEF t
<1>2. Behind(idx, t, rs)
    BY <1>1 DEF Behind
<1> QED BY <1>2 DEF t

\* The others of its group are not left.
LEMMA OthersBehind ==
    ASSUME LiveInv, phase = "send"
    PROVE  \E idx : Behind(idx, Others(Head(requests)), requests)
<1> DEFINE r == Head(requests)
<1> DEFINE S == {q \in Range(requests) : q.group # r.group}
<1>1. requests \in Seq(Requests) /\ requests # <<>> /\ r = requests[1]
    BY Sending DEF LiveInv
<1>2. CASE r.group = NoGroup
    BY <1>1, <1>2, TailBehind DEF Others
<1>3. CASE r.group # NoGroup
    <2>1. Others(r) = Kept(requests, S) /\ r \notin S
        BY <1>3 DEF Others
    <2> HIDE DEF S
    <2> DEFINE left == Kept(requests, S)
    <2>2. PICK idx : Picks(idx, left, requests, Len(requests))
        BY <1>1, KeptPicks
    <2>3. left \in Seq(Requests \cap S)
        BY <1>1, KeptSeq
    <2> HIDE DEF left, r
    <2>4. \A j \in 1..Len(left) : left[j] \in S
        BY <2>3
    <2>5. /\ idx \in [1..Len(left) -> 1..Len(requests)]
          /\ \A j \in 1..Len(left) : left[j] = requests[idx[j]]
          /\ \A j, k \in 1..Len(left) : j < k => idx[j] < idx[k]
        BY <2>2 DEF Picks
    <2>6. \A j \in 1..Len(left) : idx[j] # 1
        BY <1>1, <2>1, <2>4, <2>5
    <2>7. ASSUME NEW j \in 1..Len(left), NEW k \in 1..Len(left), idx[j] = idx[k]
          PROVE  j = k
        <3>1. idx[j] \in Int /\ j \in Int /\ k \in Int /\ ~(j < k) /\ ~(k < j)
            BY <2>5, <2>7
        <3> QED BY <3>1
    <2>8. Behind(idx, left, requests)
        BY <2>5, <2>6, <2>7 DEF Behind
    <2> QED BY <2>1, <2>8 DEF left, r
<1> QED BY <1>2, <1>3

\* What the fill of a request that fits its position leaves.
LEMMA FillSafe ==
    ASSUME LiveInv, LiveSafe, ~halted, phase = "send",
           NEW r, r = requests[1], NEW n \in Nat, n <= r.qty, BookFill(r, n)
    PROVE  /\ cash' + Gross(pos') = StartCash /\ Sized(pos')
           /\ ~PastLimit(r, n) => Gross(pos') <= MaxGross
           /\ \A s \in Symbols : s # r.sym => pos'[s] = pos[s]
<1>1. /\ r \in Requests /\ r.sym \in Symbols /\ requests # <<>> /\ r.qty \in Nat
      /\ cash \in Int /\ pos \in [Symbols -> Positions]
      /\ cash + Gross(pos) = StartCash /\ Gross(pos) <= MaxGross /\ Gross(pos) \in Int
      /\ MaxPosition \in Nat /\ MaxGross \in Nat
    <2>1. r \in Requests /\ requests # <<>>
        BY Sending
    <2> QED BY <2>1, GrossInt, BookAssumption DEF LiveInv, LiveSafe, Requests
<1>2. Fit(pos[r.sym], r)
    <2>1. Len(requests) \in Nat /\ Len(requests) # 0
        BY <1>1 DEF LiveInv
    <2>2. 1 \in 1..Len(requests)
        BY <2>1
    <2> QED BY <2>2 DEF LiveSafe, Agreed
<1> DEFINE y == Applied(r, n)
<1>3. y = Applied(r, n) /\ ~Crosses(r, n) /\ cash' = y.cash /\ pos' = y.pos
    BY DEF BookFill
<1>4. CASE n = 0
    <2>1. y = Booked
        BY <1>4 DEF Applied, Entered, Reduced
    <2>2. cash' = cash /\ pos' = pos
        BY <1>3, <2>1, LiveBook
    <2> QED BY <1>1, <2>2 DEF LiveSafe
<1>5. CASE n # 0
    <2> HIDE DEF y
    <2> DEFINE a == pos[r.sym]
    <2> DEFINE p == MovedBy(pos[r.sym], r, n)
    <2>1. /\ pos' = [pos EXCEPT ![r.sym] = p] /\ cash' + Gross(pos') = cash + Gross(pos)
          /\ Resized(p, a, r, n)
        BY <1>1, <1>3, <1>5, AppliedMoves
    <2>2. a.qty \in Int /\ Magnitude(a.qty) \in Nat
        <3>1. a \in Positions
            BY <1>1
        <3> HIDE DEF a
        <3> QED BY <3>1, MagnitudeNat DEF Positions
    <2>3. Magnitude(a.qty) <= MaxPosition
        BY <1>1 DEF LiveSafe, Sized
    <2>a. Fit(a, r)
        BY <1>2
    <2> HIDE DEF a, p
    <2>4. /\ p \in Positions /\ (p.qty = 0 => p = Flat)
          /\ Magnitude(p.qty) = IF Enlarges(a, r) THEN Magnitude(a.qty) + n
                                                  ELSE Magnitude(a.qty) - n
        BY <2>1 DEF Resized
    <2>5. Magnitude(p.qty) <= MaxPosition
        BY <1>1, <2>2, <2>3, <2>4, <2>a DEF Fit
    <2>6. pos'[r.sym] = p /\ \A s \in Symbols : s # r.sym => pos'[s] = pos[s]
        BY <1>1, <2>1
    <2>7. Sized(pos')
        <3>1. ASSUME NEW s \in Symbols
              PROVE  Magnitude(pos'[s].qty) <= MaxPosition /\ (pos'[s].qty = 0 => pos'[s] = Flat)
            <4>1. CASE s = r.sym
                BY <2>4, <2>5, <2>6, <4>1
            <4>2. CASE s # r.sym
                BY <2>6, <4>2 DEF LiveSafe, Sized
            <4> QED BY <4>1, <4>2
        <3> QED BY <3>1 DEF Sized
    <2>8. ASSUME ~PastLimit(r, n)
          PROVE  Gross(pos') <= MaxGross
        <3>1. CASE Enlarges(a, r)
            <4>1. IsEntry(r) /\ n > 0
                BY <1>5, <2>a, <3>1 DEF IsEntry, Fit
            <4>2. ~(Gross(pos') > MaxGross)
                BY <1>3, <2>8, <4>1 DEF PastLimit
            <4>3. Gross(pos') \in Int
                <5>1. pos' \in [Symbols -> Positions]
                    BY <1>1, <2>1, <2>4
                <5> QED BY <5>1, GrossInt
            <4> QED BY <1>1, <4>2, <4>3
        <3>2. CASE ~Enlarges(a, r)
            <4>1. Gross([pos EXCEPT ![r.sym] = p])
                     = Gross(pos) + (Magnitude(p.qty) - Magnitude(pos[r.sym].qty))
                BY <1>1, <2>4, GrossChange
            <4>2. Gross(pos') = Gross(pos) + (Magnitude(p.qty) - Magnitude(a.qty))
                BY <2>1, <4>1, Zenon DEF a
            <4>3. Magnitude(p.qty) = Magnitude(a.qty) - n
                BY <2>4, <3>2
            <4> QED BY <1>1, <2>2, <4>2, <4>3
        <3> QED BY <3>1, <3>2
    <2> QED BY <1>1, <2>1, <2>6, <2>7, <2>8
<1> QED BY <1>4, <1>5

\* Nothing to send, or one request.
LEMMA NoneAgreed ==
    ASSUME NEW q
    PROVE  Agreed(<<>>, q)
<1>1. 1..Len(<<>>) = {}
    OBVIOUS
<1> QED BY <1>1 DEF Agreed

\* A request ends, filled whole or in part.
LEMMA EndSafe ==
    ASSUME LiveInv, LiveSafe, phase = "send", ~halted,
           NEW r, r = Head(requests), NEW n \in Nat, n <= r.qty, BookFill(r, n),
           \/ HaltLive
           \/ ~PastLimit(r, n) /\ halted' = halted /\ requests' \in {Tail(requests), Others(r)}
    PROVE  LiveSafe'
<1>1. r = requests[1] /\ requests \in Seq(Requests) /\ requests # <<>>
    BY Sending DEF LiveInv
<1>2. /\ cash' + Gross(pos') = StartCash /\ Sized(pos')
      /\ ~PastLimit(r, n) => Gross(pos') <= MaxGross
      /\ \A s \in Symbols : s # r.sym => pos'[s] = pos[s]
    BY <1>1, FillSafe
<1>3. CASE HaltLive
    <2>1. halted' = TRUE /\ requests' = <<>>
        BY <1>3 DEF HaltLive
    <2> QED BY <1>2, <2>1, NoneAgreed DEF LiveSafe
<1>4. CASE ~PastLimit(r, n) /\ halted' = halted /\ requests' \in {Tail(requests), Others(r)}
    <2> DEFINE left == requests'
    <2> DEFINE p == pos'
    <2>1. \E idx : Behind(idx, left, requests)
        BY <1>1, <1>4, TailBehind, OthersBehind
    <2>2. Apart(p, pos, requests[1])
        BY <1>1, <1>2 DEF Apart
    <2>3. Agreed(requests, pos)
        BY DEF LiveSafe
    <2> HIDE DEF left, p
    <2>4. PICK idx : Behind(idx, left, requests)
        BY <2>1
    <2>5. Agreed(left, p)
        BY <1>1, <2>2, <2>3, <2>4, AgreedLess
    <2> QED BY <1>2, <1>4, <2>5 DEF LiveSafe, left, p
<1> QED BY <1>3, <1>4

\* The first leg of a target fits the position it was planned on.
LEMMA TargetLeads ==
    ASSUME LiveInv, NEW ref \in Cohorts, NEW target \in [Symbols -> Int],
           NEW p, p = PlanTarget(ref, target), p.err = "none", p.out # <<>>
    PROVE  Leads(p, pos)
<1> DEFINE r == Plan(pos, ref, target)
<1> DEFINE orders == Reductions(r, Symbols)
<1> DEFINE whole == IF paused THEN PlanReductions(ref, r, orders)
                              ELSE ExecutePlan(Booked, ref, r)
<1>1. /\ Booked \in Books(LiveFills) /\ Booked \in Books(Fills) /\ Booked.pos = pos
      /\ Fills \in SUBSET Fills /\ Neutral(Fills)
    BY LiveBook DEF Neutral
<1>2. r \in Residuals
    BY PlanType DEF LiveInv
<1>3. /\ PlanTarget(ref, target) \in {PlanRebalance(ref, r), NoPlan("unavailable")}
      /\ PlanRebalance(ref, r) = PlanOutcome(ref, r, whole)
    BY DEF PlanTarget, PlanRebalance
<1> HIDE DEF r
<1>4. r.red \in [Symbols -> Nat] /\ r.add \in [Symbols -> Int]
    BY <1>2 DEF Residuals
<1>5. orders \in Seq(PlainOrders)
    BY <1>4, ReductionsSeq
<1> HIDE DEF orders
<1>6. ExecutePlan(Booked, ref, r).x \in Books(Fills)
    BY <1>1, <1>2, PlanFits DEF Result, After
<1>7. ExecuteEach(Booked, ref, MaxPosition, orders) \in Books(Fills)
    <2>1. Allowed(PlainOrders, ref, Fills)
        BY <1>1, OrderType
    <2> QED BY <1>1, <1>5, <2>1, EachAfter DEF After
<1>8. PlanReductions(ref, r, orders).x \in Books(Fills)
    BY <1>1, <1>7 DEF PlanReductions, Outcome
<1>9. whole.x \in Books(Fills)
    BY <1>6, <1>8
<1> HIDE DEF whole
<1> DEFINE new == NewFills(Booked, whole.x)
<1>10. new \in Seq(Fills)
    <2>1. Booked.fills \in Seq(Fills) /\ whole.x.fills \in Seq(Fills)
        BY <1>1, <1>9 DEF Books
    <2> QED BY <2>1, NewFillsSeq
<1>11. \A what : NoPlan(what).out = <<>>
    BY DEF NoPlan, Err, EmptyPlan
<1>12. PlanOutcome(ref, r, whole) \in
          {NoPlan(whole.out), NoPlan("unavailable"), PlanFills(EmptyPlan(Booked), ref, r, new)}
    BY DEF PlanOutcome
<1>13. p = PlanFills(EmptyPlan(Booked), ref, r, new)
    <2> HIDE DEF new
    <2> QED BY <1>3, <1>11, <1>12
<1> HIDE DEF new
<1>14. Leads(p, Booked.pos)
    BY <1>1, <1>4, <1>10, <1>13, FirstFit
<1> QED BY <1>1, <1>14

LEMMA OneAgreed ==
    ASSUME NEW r, NEW q, Fit(q[r.sym], r)
    PROVE  Agreed(<<r>>, q)
<1> DEFINE one == <<r>>
<1>1. \A k \in 1..Len(one) : k = 1 /\ one[k] = r
    OBVIOUS
<1> HIDE DEF one
<1>2. Agreed(one, q)
    BY <1>1 DEF Agreed
<1> QED BY <1>2 DEF one

\* What a decision queues fits the positions.
LEMMA DecideSafe ==
    ASSUME LiveInv, LiveSafe, NEW intents \in LiveLists, LiveDecide(intents)
    PROVE  LiveSafe'
<1> DEFINE ref == Reference(bars')
<1>1. ref \in Cohorts
    <2>1. bars' \in Cohorts
        BY CohortOf DEF LiveDecide
    <2> QED BY <2>1, ReferenceCohort
<1>2. intents \in Seq(Intents) /\ OnePerSymbol(intents)
    BY LiveAssumption
<1>3. cash' = cash /\ pos' = pos
    BY DEF LiveDecide
<1> DEFINE p == PlanIntents(ref, intents)
<1>4. Queue(p)
    BY DEF LiveDecide
<1>5. p = PlanIntents(ref, intents)
    OBVIOUS
<1> HIDE DEF p, ref
<1>6. CASE QueueRejected(p)
    <2>1. halted' = TRUE /\ requests' = <<>>
        BY <1>6 DEF QueueRejected, HaltLive
    <2> QED BY <1>3, <2>1, NoneAgreed DEF LiveSafe
<1>7. CASE QueuePlanned(p)
    <2>1. p.err = "none" /\ requests' = p.out /\ halted' = halted
        BY <1>7 DEF QueuePlanned
    <2> DEFINE f == [cash |-> p.y.cash, pos |-> p.y.pos]
    <2>2. f = [cash |-> p.y.cash, pos |-> p.y.pos]
        OBVIOUS
    <2> HIDE DEF f
    <2>3. /\ Foresees(f, p.out, cash, pos)
          /\ \A k \in 1..Len(p.out) : Fit(pos[p.out[k].sym], p.out[k])
        BY <1>1, <1>2, <1>5, <2>1, <2>2, PlanForesees
    <2>4. Agreed(p.out, pos)
        BY <2>3 DEF Agreed, Foresees
    <2> QED BY <1>3, <2>1, <2>4 DEF LiveSafe
<1> QED BY <1>4, <1>6, <1>7 DEF Queue

\* So does the one leg that a target queues.
LEMMA LegSafe ==
    ASSUME LiveInv, LiveSafe, PlanNextLeg
    PROVE  LiveSafe'
<1> DEFINE ref == Reference(bars)
<1> DEFINE p == PlanTarget(ref, rebalance)
<1>1. phase = "leg" /\ NextLeg(p) /\ cash' = cash /\ pos' = pos
    BY DEF PlanNextLeg
<1>2. ref \in Cohorts /\ rebalance \in [Symbols -> Int]
    BY <1>1, LiveAssumption, ReferenceCohort DEF LiveInv
<1>3. p = PlanTarget(ref, rebalance)
    OBVIOUS
<1> HIDE DEF p, ref
<1>4. CASE RejectLeg(p)
    <2>1. halted' = TRUE /\ requests' = <<>>
        BY <1>4 DEF RejectLeg, HaltLive
    <2> QED BY <1>1, <2>1, NoneAgreed DEF LiveSafe
<1>5. CASE DeferLeg(p) \/ NoLegLeft(p)
    <2>1. halted' = halted /\ requests' = requests
        BY <1>5 DEF DeferLeg, NoLegLeft
    <2> QED BY <1>1, <2>1 DEF LiveSafe
<1>6. CASE QueueLeg(p)
    <2>1. p.err = "none" /\ p.out # <<>> /\ requests' = <<Head(p.out)>> /\ halted' = halted
        BY <1>6 DEF QueueLeg
    <2>2. Leads(p, pos)
        BY <1>2, <1>3, <2>1, TargetLeads
    <2>3. p.out[1] = Head(p.out)
        OBVIOUS
    <2> DEFINE r == Head(p.out)
    <2>4. Fit(pos[r.sym], r)
        BY <2>2, <2>3 DEF Leads
    <2> HIDE DEF r
    <2>5. Agreed(<<r>>, pos)
        BY <2>4, OneAgreed
    <2>6. Agreed(requests', pos')
        BY <1>1, <2>1, <2>5, Zenon DEF r
    <2> QED BY <1>1, <2>1, <2>6 DEF LiveSafe
<1> QED BY <1>1, <1>4, <1>5, <1>6 DEF NextLeg

\* The end of an order, which the risk check after the fill may halt.
LEMMA OrderSafe ==
    ASSUME LiveInv, LiveSafe, OrderFills \/ OrderFails
    PROVE  LiveSafe'
<1> DEFINE r == Head(requests)
<1>1. phase = "send" /\ ~halted /\ r.qty \in Nat
    <2>1. phase = "send"
        BY DEF OrderFills, OrderFails
    <2> QED BY <2>1, Sending, LiveQuantities
<1>2. CASE OrderFills
    <2>1. /\ BookFill(r, r.qty)
          /\ \/ HaltLive
             \/ ~PastLimit(r, r.qty) /\ halted' = halted /\ requests' = Tail(requests)
        BY <1>2 DEF OrderFills, GoesOn
    <2> DEFINE n == r.qty
    <2>2. n \in Nat /\ n <= r.qty /\ r = Head(requests)
        BY <1>1
    <2>3. /\ BookFill(r, n)
          /\ \/ HaltLive
             \/ ~PastLimit(r, n) /\ halted' = halted
                /\ requests' \in {Tail(requests), Others(r)}
        BY <2>1
    <2> HIDE DEF n, r
    <2> QED BY <1>1, <2>2, <2>3, EndSafe
<1>3. CASE OrderFails
    <2>1. PICK n \in 0..(r.qty - 1) :
             /\ BookFill(r, n)
             /\ \/ HaltLive
                \/ ~PastLimit(r, n) /\ GoesOn(Others(r), NoTarget)
        BY <1>3 DEF OrderFails
    <2>2. n \in Nat /\ n <= r.qty /\ r = Head(requests)
        BY <1>1
    <2>3. \/ HaltLive
          \/ ~PastLimit(r, n) /\ halted' = halted
             /\ requests' \in {Tail(requests), Others(r)}
        BY <2>1 DEF GoesOn
    <2> HIDE DEF r
    <2> QED BY <1>1, <2>1, <2>2, <2>3, EndSafe
<1> QED BY <1>2, <1>3

\* A dropped entry moves nothing.
LEMMA DropSafe ==
    ASSUME LiveInv, LiveSafe, DropPausedEntry \/ DropUnfundedEntry
    PROVE  LiveSafe'
<1> DEFINE r == Head(requests)
<1>1. /\ phase = "send" /\ cash' = cash /\ pos' = pos
      /\ halted' = halted /\ requests' = Others(r)
    <2>1. CASE DropPausedEntry
        BY <2>1 DEF DropPausedEntry, GoesOn
    <2>2. CASE DropUnfundedEntry
        BY <2>2 DEF DropUnfundedEntry, GoesOn
    <2> QED BY <2>1, <2>2
<1>2. requests \in Seq(Requests) /\ requests # <<>>
    BY <1>1, Sending DEF LiveInv
<1> DEFINE left == Others(r)
<1>3. PICK idx : Behind(idx, left, requests)
    BY <1>1, OthersBehind
<1>4. Apart(pos, pos, requests[1]) /\ Agreed(requests, pos)
    BY DEF Apart, LiveSafe
<1> HIDE DEF left
<1>5. Agreed(left, pos)
    BY <1>2, <1>3, <1>4, AgreedLess
<1> QED BY <1>1, <1>5 DEF LiveSafe, left

\* A step that touches neither the book nor the requests.
LEMMA StillSafe ==
    ASSUME LiveSafe, UNCHANGED <<cash, pos, halted, requests>>
    PROVE  LiveSafe'
BY DEF LiveSafe

\* What a step of any run leaves.
LEMMA SafeNext ==
    ASSUME mode = "live" => LiveInv /\ LiveSafe, [Next]_vars
    PROVE  (mode = "live" => LiveSafe)'
<1>1. CASE UNCHANGED vars
    BY <1>1, StillSafe DEF vars, runVars, liveVars
<1>2. CASE mode = "live" /\ NextLive /\ mode' = mode
    <2>1. CASE PauseEntries
        BY <1>2, <2>1, StillSafe DEF PauseEntries, runVars
    <2>2. CASE \/ \E target \in LiveTargets : LiveTarget(target)
               \/ NextRebalanceBar
        BY <1>2, <2>2, StillSafe DEF LiveTarget, NextRebalanceBar, liveVars
    <2> QED BY <1>2, <2>1, <2>2, DecideSafe, LegSafe, OrderSafe, DropSafe DEF NextLive
<1>3. CASE mode # "live" /\ mode' = mode
    BY <1>3
<1> QED BY <1>1, <1>2, <1>3 DEF Next

\* The book before the first bar.
LEMMA SafeInit ==
    ASSUME Init
    PROVE  LiveSafe
<1>1. cash = StartCash /\ pos = [s \in Symbols |-> Flat] /\ requests = <<>>
    BY DEF Init, InitRun, InitLive
<1>2. Gross(pos) = 0
    <2> DEFINE f == [s \in Symbols |-> Magnitude(pos[s].qty)]
    <2>1. f \in [Symbols -> Int] /\ \A s \in Symbols : f[s] = 0
        BY <1>1 DEF Flat, Magnitude
    <2>2. Gross(pos) = Total(f)
        BY DEF Gross
    <2> HIDE DEF f
    <2> QED BY <2>1, <2>2, TotalZero, BookAssumption
<1>3. Sized(pos)
    BY <1>1, BookAssumption DEF Sized, Flat, Magnitude
<1> QED BY <1>1, <1>2, <1>3, NoneAgreed, BookAssumption DEF LiveSafe

\* The book of a live run, whatever its orders fill, in part or not at all: the
\* cash and the positions add up to the starting cash, no position passes
\* max_position_weight and, until a halt (_post_fill_risk_halted), their sum
\* does not pass max_gross_exposure.  Every request still to be sent fits the
\* position it will find: an exit reduces it, an entry stays within the limit.
THEOREM LiveSafety == Spec => [](mode = "live" => LiveSafe)
<1>1. Init => (mode = "live" => LiveSafe)
    BY SafeInit
<1>2. RunInv /\ (mode = "live" => LiveSafe) /\ [Next]_vars
         => (mode = "live" => LiveSafe)'
    BY SafeNext DEF RunInv
<1> QED BY <1>1, <1>2, RunInvariance, PTL DEF Spec

\* What this says of the types of the book.
LEMMA LiveBookTypes ==
    ASSUME LiveInv, LiveSafe, cash >= 0
    PROVE  /\ cash \in 0..StartCash
           /\ cash + Total([s \in Symbols |-> Magnitude(pos[s].qty)]) = StartCash
           /\ \A s \in Symbols : /\ pos[s].qty \in -MaxPosition..MaxPosition
                                 /\ pos[s].qty = 0 => pos[s] = Flat
           /\ halted \in BOOLEAN /\ (~halted => Gross(pos) <= MaxGross)
           /\ pending.intents \in Seq(Intents)
<1>1. /\ cash \in Int /\ pos \in [Symbols -> Positions] /\ halted \in BOOLEAN
      /\ pending \in Pendings
      /\ cash + Gross(pos) = StartCash
      /\ \A s \in Symbols : /\ Magnitude(pos[s].qty) <= MaxPosition
                            /\ pos[s].qty = 0 => pos[s] = Flat
      /\ ~halted => Gross(pos) <= MaxGross
    BY DEF LiveInv, LiveSafe, Sized
<1>2. Gross(pos) \in Nat /\ StartCash \in Nat /\ MaxPosition \in Nat
    BY <1>1, GrossNat, BookAssumption
<1>3. cash \in 0..StartCash
    BY <1>1, <1>2
<1>4. cash + Total([s \in Symbols |-> Magnitude(pos[s].qty)]) = StartCash
    BY <1>1 DEF Gross
<1>5. \A s \in Symbols : pos[s].qty \in Int
    BY <1>1 DEF Positions
<1>6. \A s \in Symbols : pos[s].qty \in -MaxPosition..MaxPosition
    BY <1>1, <1>2, <1>5, SizeBounds
<1> QED BY <1>1, <1>3, <1>4, <1>6, PendingSeq

\* The book of every run.  Of a live run the theorem leaves out one thing only,
\* that the cash is never below zero: the cash of a group is judged once, before
\* its first leg (_drop_unfunded_entry), and some lists can spend it in between
\* (README, observation 19).
THEOREM BookSafe == Spec => []((mode = "live" => cash >= 0) => TypeOK)
<1>1. RunInv /\ (mode = "live" => LiveSafe) /\ (mode # "live" => TypeOK)
         => ((mode = "live" => cash >= 0) => TypeOK)
    <2> SUFFICES ASSUME RunInv, LiveSafe, mode = "live", cash >= 0
                 PROVE  TypeOK
        OBVIOUS
    <2>1. LiveInv /\ FeedAtRest /\ NoResidual
        BY DEF RunInv
    <2>2. phase \in {"idle", "execute", "decide", "mark", "failed", "finished",
                     "send", "leg"}
        BY <2>1 DEF LiveInv
    <2>3. /\ rebal # NoRebalance => Targeted(rebal) # {}
          /\ delay \in 0..MaxDelay
        BY <2>1, BacktestAssumption DEF NoResidual
    <2>4. \A s \in Symbols : /\ cache[s] \subseteq 0..released[s]
                             /\ mark[s] <= execMark[s] /\ execMark[s] <= released[s]
        BY <2>1 DEF FeedAtRest
    <2> QED BY <2>1, <2>2, <2>3, <2>4, LiveBookTypes DEF TypeOK
<1> QED BY <1>1, RunInvariance, LiveSafety, SimulatedBookSafe, PTL
=============================================================================
