----------------------------- MODULE MCBooking -----------------------------
(***************************************************************************)
(* Instances of Booking for TLC: an area of numbered seats s1 and s2 and a *)
(* free-standing area of places s3 and s4.                                 *)
(***************************************************************************)
EXTENDS Booking, TLC

CONSTANTS s1, s2, s3, s4, num, std

MCAreaOf == [s \in Seats |-> IF s \in {s1, s2} THEN num ELSE std]

Items(a, n) == [b \in Areas |-> IF b = a THEN n ELSE 0]
ById(S) == [seats |-> S, dup |-> FALSE, free |-> Items(num, 0), area |-> num, sale |-> "open"]
InArea(a, n) == [seats |-> {}, dup |-> FALSE, free |-> Items(a, n), area |-> a, sale |-> "open"]

\* What the ticket page sends.
GoodRequests == {ById({s1}), ById({s1, s2}), InArea(std, 1), InArea(std, 2)}

OneSeat == {ById({s1})}

\* Numbered orders that meet on both rows, and a free-standing one.
LiveRequests == {ById({s1, s2}), InArea(std, 1)}

\* Duplicate ids, a closed or foreign sale, items with and without ids, ids in
\* the free-standing area or of two areas, no ids in the numbered area, a count
\* in another area than the order's.
BadRequests ==
    {[ById({s1}) EXCEPT !.dup = TRUE],
     [ById({s1}) EXCEPT !.sale = "closed"],
     [ById({s1}) EXCEPT !.sale = "other"],
     [ById({s1}) EXCEPT !.free = Items(std, 1)],
     [ById({s3}) EXCEPT !.area = std],
     [InArea(std, 1) EXCEPT !.area = num],
     InArea(num, 1),
     ById({s1, s3})}

AllRequests == GoodRequests \cup BadRequests

Symmetric == Permutations(Placers) \cup Permutations(Handlers)
=============================================================================
