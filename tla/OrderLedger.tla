------------------------------ MODULE OrderLedger ------------------------------
(***************************************************************************)
(* What live order handling promises of its durable record, whatever       *)
(* crashes, lost answers and failed writes come between: an order is       *)
(* recorded as attempted before it is sent, it is sent at most once, it is *)
(* closed only when the venue can trade it no more, and by then every unit *)
(* it traded is booked, none twice.                                        *)
(***************************************************************************)
EXTENDS Naturals

CONSTANTS Order, Qty

VARIABLES
    phase,    \* of the durable record: unknown, queued, attempted, closed
    sent,     \* how often the venue was sent each order
    open,     \* orders the venue may trade
    traded,   \* what the venue has traded
    booked    \* what the durable book holds of it

ledger == <<phase, sent, open, traded, booked>>

Init == /\ phase = [o \in Order |-> "unknown"]
        /\ sent = [o \in Order |-> 0]
        /\ open = {}
        /\ traded = [o \in Order |-> 0]
        /\ booked = [o \in Order |-> 0]

\* A failed write may keep a phase from the record, but an order is never
\* forgotten, reopened or closed while the venue may trade it.
Moves(o) ==
    \/ phase'[o] = phase[o]
    \/ phase[o] = "unknown" /\ phase'[o] \in {"queued", "attempted", "closed"}
    \/ phase[o] = "queued" /\ phase'[o] \in {"attempted", "closed"}
    \/ phase[o] = "attempted" /\ phase'[o] = "closed"

SentNow(o) == sent[o] = 0 /\ sent'[o] = 1

Sends(o) == \/ sent'[o] = sent[o]
            \/ SentNow(o) /\ phase[o] = "attempted"

\* The venue opens an order as it is sent; a call nobody answered may open it
\* later, so "open" covers the orders that may yet arrive.
Opens(o) == o \in open' \ open => SentNow(o)

Trades(o) == /\ traded'[o] \in traded[o] .. Qty
             /\ traded'[o] > traded[o] => o \in open \/ SentNow(o)

Books(o) == booked'[o] \in booked[o] .. traded'[o]

Closes(o) == phase'[o] = "closed" => o \notin open' /\ booked'[o] = traded'[o]

Next == \A o \in Order : /\ Moves(o) /\ Sends(o) /\ Opens(o) /\ Trades(o)
                         /\ Books(o) /\ Closes(o)

Spec == Init /\ [][Next]_ledger

=============================================================================
