------------------------------ MODULE ShadowRun ------------------------------
(***************************************************************************)
(* A simulated run on a live feed (live/engine.py, simulation mode): every *)
(* poll fetches all symbols, and each timestamp not decided yet is         *)
(* executed, checkpointed, decided, checkpointed and marked, in that       *)
(* order.  A step that fails ends the cycle, and the next poll retries     *)
(* the same timestamp; a crash resumes from the last checkpoint.           *)
(***************************************************************************)
EXTENDS BarFeed

CONSTANTS ShapeOf(_, _),  \* the bar a symbol printed
          ShadowLists,    \* what this strategy may emit
          ShadowTargets,
          MaxUpsets,      \* bound: failed requests, features, checkpoints,
                          \*   restarts and late history
          MaxEmissions    \* bound: decisions that are not empty

ASSUME ShadowAssumption ==
    /\ \A s \in Symbols, b \in 0..FeedBars : ShapeOf(s, b) \in BarShapes
    /\ ShadowLists \subseteq Seq(Intents)
    /\ \A list \in ShadowLists : OnePerSymbol(list)
    /\ ShadowTargets \subseteq [Symbols -> Int]

VARIABLES execMark,   \* the last bar each symbol executed
          lastCycle,  \* the last timestamp completed
          due,        \* the cycle's <<bar, symbol>> still to be processed
          saved,      \* the checkpoint
          upsets, emitted

shadowVars == <<feedVars, execMark, lastCycle, due, saved,
                upsets, emitted>>

Snapshot == [cash |-> cash, pos |-> pos, halted |-> halted,
             pending |-> pending, bar |-> bar, fills |-> fills,
             mark |-> mark, execMark |-> execMark, lastCycle |-> lastCycle]

InitShadow ==
    /\ InitFeed
    /\ execMark = [s \in Symbols |-> None]
    /\ lastCycle = None
    /\ due = {}
    /\ saved = Snapshot
    /\ upsets = 0 /\ emitted = 0

Upset == upsets < MaxUpsets /\ upsets' = upsets + 1

Tick ==
    /\ phase = "idle"
    /\ \/ Releases /\ UNCHANGED upsets
       \/ (\E s \in Symbols : Backfill(s)) /\ Upset
    /\ UNCHANGED <<runVars, execMark, lastCycle, due, saved, emitted>>

(***************************************************************************)
(* A poll.  Every symbol must answer, be warm and be fresh; then each bar  *)
(* after a symbol's mark is due, and for a symbol without a mark only its  *)
(* newest one.                                                             *)
(***************************************************************************)
\* Faulty variant: only the newest bar of each symbol.
NewestBars(bs) ==
    {<<Latest(bs[s]), s>> : s \in {t \in Symbols : Latest(bs[t]) > mark[t]}}
Candidates(bs) ==
    {c \in (0..FeedBars) \X Symbols :
        LET b == c[1]
            s == c[2]
        IN b \in bs[s] /\ IF mark[s] = None THEN b = Max(bs[s]) ELSE b > mark[s]}

\* Just after its close a timestamp is held for a required symbol that is due
\* the same bar; the hold of 30 seconds is one tick.
HeldFrom(bs, new) ==
    {b \in {c[1] : c \in new} :
        /\ now < Closes(b) + 1
        /\ \E s \in Symbols : <<b, s>> \notin new /\ Latest(bs[s]) < b}
Released(bs) ==
    LET new == Candidates(bs)
    IN {c \in new : \A b \in HeldFrom(bs, new) : c[1] < b}

Trimmed(bs) == [s \in Symbols |-> Newest(Warmup, bs[s])]

Poll(fails) ==
    /\ phase = "idle"
    /\ \E got \in {[s \in Symbols |-> Fetch(s, fails[s])]} :
       \E bs \in {[s \in Symbols |-> Stored(s, got[s].bars)]} :
          LET over == {s \in Symbols : Overflows(s, got[s].bars)}
              usable == /\ backlog \union over = {}
                        /\ \A s \in Symbols : /\ got[s].ok
                                              /\ ~Gap(s, bs[s])
                                              /\ ~Stale(s, bs[s])
          IN /\ asked' = [s \in Symbols |-> got[s].asked]
             /\ backoff' = [s \in Symbols |-> got[s].backoff]
             /\ backlog' = backlog \union over
             /\ due' = IF usable THEN Released(bs) ELSE {}
             /\ cache' = IF usable /\ due' = {} THEN Trimmed(bs) ELSE bs
             /\ phase' = IF due' = {} THEN "idle" ELSE "execute"
    /\ UNCHANGED <<cash, pos, halted, pending, bar, bars, fills, now, start,
                   released, mark, execMark, lastCycle, saved, emitted>>
AnyPoll ==
    \/ /\ Poll([s \in Symbols |-> "none"])
       /\ UNCHANGED upsets
    \/ /\ Upset
       /\ \E s \in Symbols, which \in {"first", "later"} :
             Poll([t \in Symbols |-> IF t = s THEN which ELSE "none"])

(***************************************************************************)
(* One timestamp: every symbol whose cache has the bar takes part, also    *)
(* one that was decided on it before, when another symbol's came late.     *)
(***************************************************************************)
Event == Min({c[1] : c \in due})
Present == {s \in Symbols : Event \in cache[s]}
Cohort == [s \in Present |-> ShapeOf(s, Event)]
Advanced == {s \in Present : Event > mark[s]}
Unexecuted == {s \in Present : execMark[s] # Event}
OutOfOrder == Event < lastCycle \/ \E s \in Present : Event < execMark[s]

GivesUp == phase' = "idle" /\ due' = {}
Checkpoint(next, rest) ==
    \/ /\ saved' = Snapshot'
       /\ phase' = next /\ due' = rest
       /\ UNCHANGED upsets
    \/ /\ Upset
       /\ UNCHANGED saved
       /\ GivesUp
Elsewhere == <<now, start, released, asked, backoff, backlog>>

\* A bar older than a completed timestamp fails every later cycle too.
RejectEvent ==
    /\ phase = "execute" /\ OutOfOrder
    /\ GivesUp
    /\ UNCHANGED <<cash, pos, halted, pending, bar, bars, fills, cache, mark,
                   execMark, lastCycle, saved, upsets, Elsewhere,
                   emitted>>

\* A timestamp that executed in an earlier cycle is only decided again.
SkipExecution ==
    /\ phase = "execute" /\ ~OutOfOrder /\ Unexecuted = {}
    /\ phase' = "decide" /\ bars' = Cohort
    /\ UNCHANGED <<cash, pos, halted, pending, bar, fills, cache, mark,
                   execMark, lastCycle, due, saved, upsets, Elsewhere,
                   emitted>>

Executing == [cash |-> cash, pos |-> pos, resting |-> <<>>,
              fills |-> IF bar = Event THEN fills ELSE <<>>]

Executed(x) ==
    /\ cash' = x.cash /\ pos' = x.pos /\ fills' = x.fills
    /\ bar' = Event /\ bars' = Cohort
    /\ execMark' = [s \in Symbols |-> IF s \in Present THEN Event
                                                       ELSE execMark[s]]

\* A timestamp some symbol has not executed; after a halt, for its exits only.
\* Faulty variant: the pending decision executes nonetheless.
Executable == phase = "execute" /\ ~OutOfOrder /\ Unexecuted # {}
MayTrade == Executable /\ ~halted

ExecuteHalted ==
    /\ Executable /\ halted
    /\ Executed(CheckStops(Executing, Cohort, Held(pos) \cap Unexecuted))
    /\ pending' = Nothing
    /\ UNCHANGED <<halted, cache, mark, lastCycle>>
    /\ Checkpoint("decide", due)
    /\ UNCHANGED <<Elsewhere, emitted>>

\* What is ready leaves the pending decision before it executes, so a decision
\* the executor refuses is gone.
ExecutePending ==
    LET live  == Unexpired(pending.intents, Event, Present)
        ready == Kept(live, {i \in Range(live) : DataReady(i, Present)})
        wait  == [Nothing EXCEPT !.intents =
                     Kept(live, {i \in Range(live) : ~DataReady(i, Present)})]
        result == IF pending.target # NoTarget
                  THEN ExecuteBarOfTarget(Executing, Cohort, pending.target,
                                          "discard", Unexecuted)
                  ELSE ExecuteBarOfIntents(Executing, Cohort, ready, Unexecuted)
    IN /\ MayTrade
       /\ \E r \in {result} :
          \/ /\ r.out = "ok"
             /\ Executed(r.x)
             /\ pending' = [wait EXCEPT !.intents =
                               @ \o StillResting(r.x.resting, Event)]
             /\ UNCHANGED <<halted, cache, mark, lastCycle>>
             /\ Checkpoint("decide", due)
          \/ /\ r.out # "ok"
             /\ pending' = wait
             /\ GivesUp
             /\ UNCHANGED <<cash, pos, halted, bar, bars, fills, cache, mark,
                            execMark, lastCycle, saved, upsets>>
       /\ UNCHANGED <<Elsewhere, emitted>>

\* The features of the window, the last Warmup bars up to this one, may raise.
Window(s) == Newest(Warmup, {b \in cache[s] : b <= Event})
FeaturesFail ==
    /\ phase = "decide"
    /\ Upset
    /\ GivesUp
    /\ UNCHANGED <<cash, pos, halted, pending, bar, bars, fills, cache, mark,
                   execMark, lastCycle, saved, Elsewhere, emitted>>

ShadowBreach ==
    /\ phase = "decide" /\ ~halted
    /\ halted' = TRUE
    /\ pos' = QueueExits(pos)
    /\ UNCHANGED <<cash, pending, bar, bars, fills, cache, mark, execMark,
                   lastCycle>>
    /\ Checkpoint("mark", due)
    /\ UNCHANGED <<Elsewhere, emitted>>

ShadowStaysHalted ==
    /\ phase = "decide" /\ halted
    /\ UNCHANGED <<cash, pos, halted, pending, bar, bars, fills, cache, mark,
                   execMark, lastCycle>>
    /\ Checkpoint("mark", due)
    /\ UNCHANGED <<Elsewhere, emitted>>

\* A decision that does not merge with what is pending fails the cycle after
\* it took the place of resting orders.
ShadowDecide(intents, target) ==
    LET symbols == IF target = NoTarget THEN SymbolsOf(intents) ELSE Symbols
        kept    == [pending EXCEPT !.intents = Replaced(@, symbols)]
        valid   == IF target = NoTarget
                   THEN ValidIntents(intents, DOMAIN bars)
                   ELSE ValidTarget(target, DOMAIN bars)
        clash   == IF target = NoTarget THEN Conflicts(kept, intents)
                                        ELSE kept.intents # <<>>
        empty   == intents = <<>> /\ target = NoTarget
    IN /\ phase = "decide" /\ ~halted
       /\ empty \/ emitted < MaxEmissions
       /\ emitted' = IF empty THEN emitted ELSE emitted + 1
       /\ UNCHANGED <<cash, pos, halted, bar, bars, fills, cache, mark,
                      execMark, lastCycle>>
       /\ \/ /\ valid /\ ~clash
             /\ pending' = IF target = NoTarget
                           THEN [kept EXCEPT !.intents =
                                    @ \o Emitted(intents, Event)]
                           ELSE [intents |-> <<>>, target |-> target,
                                 at |-> Event]
             /\ Checkpoint("mark", due)
          \/ /\ ~valid \/ clash
             /\ pending' = IF valid THEN kept ELSE pending
             /\ GivesUp
             /\ UNCHANGED <<saved, upsets>>
       /\ UNCHANGED Elsewhere

Mark ==
    LET rest == {c \in due : c[1] # Event}
    IN /\ phase = "mark"
       /\ mark' = [s \in Symbols |-> IF s \in Advanced THEN Event ELSE mark[s]]
       /\ lastCycle' = Event
       /\ UNCHANGED <<cash, pos, halted, pending, bar, bars, fills, execMark>>
       /\ Checkpoint(IF rest = {} THEN "idle" ELSE "execute", rest)
       /\ cache' = IF rest = {} /\ upsets' = upsets THEN Trimmed(cache)
                                                    ELSE cache
       /\ UNCHANGED <<Elsewhere, emitted>>

\* A new process starts from the checkpoint with empty caches.
Crash ==
    /\ Upset
    /\ cash' = saved.cash /\ pos' = saved.pos /\ halted' = saved.halted
    /\ pending' = saved.pending /\ bar' = saved.bar /\ fills' = saved.fills
    /\ mark' = saved.mark /\ execMark' = saved.execMark
    /\ lastCycle' = saved.lastCycle
    /\ cache' = [s \in Symbols |-> {}]
    /\ asked' = [s \in Symbols |-> 0]
    /\ backoff' = [s \in Symbols |-> NoBackoff]
    /\ backlog' = {}
    /\ GivesUp
    /\ UNCHANGED <<bars, now, start, released, saved, emitted>>

NextShadow ==
    \/ Tick \/ AnyPoll
    \/ RejectEvent \/ SkipExecution \/ ExecuteHalted \/ ExecutePending
    \/ FeaturesFail \/ ShadowBreach \/ ShadowStaysHalted
    \/ \E intents \in ShadowLists : ShadowDecide(intents, NoTarget)
    \/ \E target \in ShadowTargets : ShadowDecide(<<>>, target)
    \/ Mark
    \/ Crash
=============================================================================
