------------------------------- MODULE OrderVenue ------------------------------
(***************************************************************************)
(* The broker as the engine meets it: what it does with an order on its    *)
(* own, which is outside the repository, and what its answers may say, as  *)
(* the order adapters (brokers/) ask for them and translate them and as    *)
(* live/executor.py normalises them.                                       *)
(***************************************************************************)
EXTENDS LiveState

EngineUnchanged == UNCHANGED <<live, disk, carried, proc, ctl, req>>

Sets(o, s) == venue' = [venue EXCEPT ![o].status = s]

AtVenue(o) == venue[o].status \in {"working", "pending"}

\* One unit of a resting order trades.
VenueFill(o) ==
    /\ AtVenue(o)
    /\ LET n == venue[o].filled + 1 IN
       venue' = [venue EXCEPT ![o].filled = n,
                              ![o].status = IF n = Qty THEN "filled" ELSE @]
    /\ UNCHANGED late /\ EngineUnchanged

\* A placement whose call failed reaches the venue after all, or never does.
VenueReceives(o) ==
    /\ venue[o].status = "sending"
    /\ \E s \in {"working", "none"} : Sets(o, s)
    /\ UNCHANGED late /\ EngineUnchanged

\* The venue starts or completes a cancel nobody asked for (expiry, its own
\* risk rules).
VenueCancels(o) ==
    /\ "venueCancel" \in Events /\ venue[o].status = "working"
    /\ \E s \in {"pending", "cancelled"} : Sets(o, s)
    /\ UNCHANGED late /\ EngineUnchanged

\* A pending cancel completes, or is turned down and the order works again.
VenueEndsCancel(o) ==
    /\ venue[o].status = "pending"
    /\ \/ Sets(o, "cancelled")
       \/ "turnedDown" \in Events /\ Sets(o, "working")
    /\ UNCHANGED late /\ EngineUnchanged

\* Local time passes live_order_timeout_seconds since the placement.
GetsLate(o) ==
    /\ "late" \in Events /\ o \in live.tracked /\ live.order[o].attempted
    /\ o \notin late
    /\ late' = late \cup {o}
    /\ UNCHANGED venue /\ EngineUnchanged

VenueStep(o) == \/ VenueFill(o) \/ VenueReceives(o) \/ VenueCancels(o)
                \/ VenueEndsCancel(o) \/ GetsLate(o)

-----------------------------------------------------------------------------
(* Answers.  A report carries the order id, a status and the cumulative fill. *)

ReportOf(v) == [status |-> CASE v.status = "working" -> "submitted"
                             [] v.status = "pending" -> "cancel_pending"
                             [] OTHER -> v.status,
                filled |-> v.filled,
                hasId  |-> TRUE]

Received(o) == venue[o].status \notin {"none", "sending"}

\* What a status read may answer: the venue's record, or under lag one that
\* has not caught up with it.
ReadReports(o) ==
    IF ~Received(o) THEN {}
    ELSE {ReportOf(venue[o])} \cup
         IF "lag" \in Events
         THEN {[status |-> "submitted", filled |-> n, hasId |-> TRUE] :
                  n \in {m \in live.order[o].filled .. venue[o].filled : m < Qty}}
         ELSE {}

\* A lookup by client order id may find nothing.
MayFindNothing(o) == ~live.order[o].hasId /\ (~Received(o) \/ "lag" \in Events)

\* No answer, and an answer that does not apply to the order (ValueError).
MaySilence(o) == "silence" \in Events
MayGarble(o) == "garbled" \in Events /\ Received(o)

\* What a cancel may leave of an order: it ends, its end is pending, or the
\* venue turned the cancel down; an order that has ended is left alone.
AfterCancel(v) ==
    IF v.status \in {"working", "pending"}
    THEN {[v EXCEPT !.status = s] :
             s \in {"cancelled", "pending"} \cup
                   (IF "turnedDown" \in Events THEN {"working"} ELSE {})}
    ELSE {v}

=============================================================================
