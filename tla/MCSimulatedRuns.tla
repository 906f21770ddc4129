-------------------------- MODULE MCSimulatedRuns --------------------------
(***************************************************************************)
(* An instance of SimulatedRuns small enough for TLC: two symbols.         *)
(***************************************************************************)
EXTENDS SimulatedRuns

CONSTANTS A, B, g

Shape(reach, hit, sides, room) ==
    [reach |-> reach, hit |-> hit, sides |-> sides, room |-> room]

\* A liquid bar; a thin one that reaches a limit and crosses a stop inside; a
\* one-sided one that crosses both protections; one whose budget is zero.
Bars == {Shape("open", "none", Sides, 3),
         Shape("intrabar", "stop", Sides, 1),
         Shape("no", "both", {"sell"}, 2),
         Shape("open", "stop", Sides, 0)}

Market(s, act, n) == [Order(s, act, n) EXCEPT !.at = -1]
Limit(s, act, n, tif) == [Market(s, act, n) EXCEPT !.limit = TRUE, !.tif = tif]

StopEntry == [Market(A, "long", 2) EXCEPT !.protect = {"stop"}]
Resters == <<[Limit(A, "long", 1, "gtc") EXCEPT !.protect = {"target"}],
             Limit(B, "long", 1, "day")>>
Pair == <<[StopEntry EXCEPT !.qty = 1, !.group = g],
          [Limit(B, "short", 1, "none") EXCEPT !.group = g]>>
Exit == [Market(A, "close", 0) EXCEPT !.tif = "fok"]

Lists == {<<>>, <<StopEntry>>, Resters, Pair, <<Exit>>}
FeedLists == {<<>>, <<[Limit(B, "long", 1, "day") EXCEPT !.protect = {"stop"}]>>}

Weights(a, b) == [s \in Symbols |-> IF s = A THEN a ELSE b]
Books == {Weights(2, -1), Weights(0, 2)}
FeedBooks == {Weights(1, 0)}

\* The feed prints the same bars in every history: B's even bars never reach
\* its limit, and its fourth bar crosses the stop in a thin bar.
FeedShape(s, b) ==
    IF s = B /\ b % 2 = 0
    THEN Shape("no", IF b = 4 THEN "stop" ELSE "none", Sides, 1)
    ELSE Shape("open", "none", Sides, 2)

\* The live venue takes B in lots of two.
Lots == Weights(1, 2)
LiveBarShapes == {Shape("open", "none", Sides, 3),
                  Shape("no", "none", Sides, 1),
                  Shape("open", "none", {"sell"}, 2)}
In(group, i) == [i EXCEPT !.group = group]
Spread == <<In(g, Limit(A, "long", 1, "none")), In(g, Market(B, "short", 2))>>
Exits == <<In(g, Market(A, "close", 0)), In(g, Market(B, "long", 1))>>
Swap == <<Market(A, "close", 0), Market(B, "long", 2)>>
PlanLists == {<<Market(A, "long", 2)>>, Spread, Exits, Swap, <<StopEntry>>}
PlanBooks == {Weights(2, -1), Weights(0, 2), Weights(0, -2)}
=============================================================================
