----------------------------- MODULE SeatCache -----------------------------
(***************************************************************************)
(* What the early dropper promises: a request takes all the keys it asks   *)
(* for in one step, when all of them are there, or it takes none.          *)
(***************************************************************************)
EXTENDS Integers

CONSTANTS
    Clients,    \* requests
    Seats,      \* numbered seats, one key each
    Areas,      \* free-standing areas, one counter each
    Ids,        \* Ids[c]: the seats request c names
    Count       \* Count[c][a]: how many places it wants in area a

VARIABLES
    lock,       \* lock[c]: none, held, refused, failed, returned or sold
    seatKey,    \* the status of a seat
    freeKey     \* the places left in an area

cache == <<lock, seatKey, freeKey>>

\* Everything request c asks for is there.
Fits(c) ==
    /\ \A s \in Ids[c] : seatKey[s] = "available"
    /\ \A a \in Areas : Count[c][a] <= freeKey[a]

\* The seats of request c get status st, and d of its places come back.
Write(c, st, d) ==
    /\ seatKey' = [s \in Seats |-> IF s \in Ids[c] THEN st ELSE seatKey[s]]
    /\ freeKey' = [a \in Areas |-> freeKey[a] + d * Count[c][a]]

Become(c, from, to) ==
    /\ lock[c] = from
    /\ lock' = [lock EXCEPT ![c] = to]

Acquire(c) == Become(c, "none", "held") /\ Fits(c) /\ Write(c, "on-hold", -1)
Refuse(c) == Become(c, "none", "refused") /\ ~Fits(c) /\ UNCHANGED <<seatKey, freeKey>>
Fail(c) == Become(c, "none", "failed") /\ UNCHANGED <<seatKey, freeKey>>
Return(c) == Become(c, "held", "returned") /\ Write(c, "available", 1)
Sell(c) == Become(c, "held", "sold") /\ Write(c, "sold", 0)

Init ==
    /\ lock = [c \in Clients |-> "none"]
    /\ seatKey \in [Seats -> {"available", "sold", "nil"}]
    /\ freeKey \in [Areas -> Int]

Next == \E c \in Clients : Acquire(c) \/ Refuse(c) \/ Fail(c) \/ Return(c) \/ Sell(c)

Spec == Init /\ [][Next]_cache
=============================================================================
