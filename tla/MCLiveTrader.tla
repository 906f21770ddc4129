------------------------------ MODULE MCLiveTrader -----------------------------
(***************************************************************************)
(* Instances of LiveTrader small enough for TLC.                           *)
(***************************************************************************)
EXTENDS LiveTrader

CONSTANTS e1, e2, s1, s2, l1, l2, x1, g1, g2

\* Two entries the strategy gives one group and plans together, and one
\* recovery exit of the position they open.
PairOrder == {e1, e2, x1}
PairGroupOf == [o \in PairOrder |-> g1]
PairRank == [o \in PairOrder |-> CASE o = e1 -> 1 [] o = e2 -> 2 [] o = x1 -> 3]
PairPlans == {{e1, e2}}

\* Two entries of one decision that no group ties, a rebalance of two legs, a
\* reduction that keeps the group of its position and an entry, and a recovery
\* exit of the same position.
BookOrder == {s1, s2, l1, l2, x1}
BookGroupOf == [o \in BookOrder |-> IF o \in {l1, x1} THEN g2 ELSE NoGroup]
BookRank == [o \in BookOrder |-> CASE o = s1 -> 1 [] o = s2 -> 2 [] o = l1 -> 3
                                   [] o = l2 -> 4 [] o = x1 -> 5]
BookPlans == {{s1, s2}}

=============================================================================
