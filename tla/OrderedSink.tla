----------------------------- MODULE OrderedSink ----------------------------
(***************************************************************************)
(* What a position event sink may rely on: it gets the fills' events in    *)
(* the order they were booked, each at most once, and none before a        *)
(* checkpoint holds the fill.  Gaps are allowed: an event may be dropped.  *)
(***************************************************************************)
EXTENDS Naturals, Sequences

VARIABLES recorded,  \* how many fills the checkpoint holds
          stored     \* the events the sink holds, by the number of their fill

Init == recorded = 0 /\ stored = <<>>

Record == recorded' > recorded /\ UNCHANGED stored

Store ==
    /\ \E n \in 1 .. recorded : /\ \A i \in DOMAIN stored : stored[i] < n
                                /\ stored' = Append(stored, n)
    /\ UNCHANGED recorded

Next == Record \/ Store
Spec == Init /\ [][Next]_<<recorded, stored>>
=============================================================================
