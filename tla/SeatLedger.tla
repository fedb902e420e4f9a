----------------------------- MODULE SeatLedger -----------------------------
(***************************************************************************)
(* What the sale promises about seats, whatever database, queue or cache   *)
(* is underneath: an order holds a set of seats nobody else has, and then  *)
(* either its seats are sold or all of them are on offer again.            *)
(***************************************************************************)
CONSTANTS Orders, Seats

VARIABLES
    phase,      \* phase[o]: none, held, sold or released
    seatsOf     \* the seats order o was placed for

ledger == <<phase, seatsOf>>

Live(o) == phase[o] \in {"held", "sold"}

TypeOK ==
    /\ phase \in [Orders -> {"none", "held", "sold", "released"}]
    /\ seatsOf \in [Orders -> SUBSET Seats]

Init ==
    /\ phase = [o \in Orders |-> "none"]
    /\ seatsOf = [o \in Orders |-> {}]

\* Order o is placed for the seats S, none of which a live order has.
Hold(o, S) ==
    /\ phase[o] = "none"
    /\ \A q \in Orders : Live(q) => seatsOf[q] \cap S = {}
    /\ phase' = [phase EXCEPT ![o] = "held"]
    /\ seatsOf' = [seatsOf EXCEPT ![o] = S]

\* Order o is paid.
Sell(o) ==
    /\ phase[o] = "held"
    /\ phase' = [phase EXCEPT ![o] = "sold"]
    /\ UNCHANGED seatsOf

\* The payment of order o expires or fails.
Release(o) ==
    /\ phase[o] = "held"
    /\ phase' = [phase EXCEPT ![o] = "released"]
    /\ UNCHANGED seatsOf

Next ==
    \E o \in Orders :
        \/ \E S \in SUBSET Seats : Hold(o, S)
        \/ Sell(o)
        \/ Release(o)

Spec == Init /\ [][Next]_ledger

\* No seat belongs to two live orders.
Exclusive ==
    \A o, q \in Orders : o # q /\ Live(o) /\ Live(q) => seatsOf[o] \cap seatsOf[q] = {}
=============================================================================
