--------------------------- MODULE MCFlowControl ---------------------------
(***************************************************************************)
(* Instances of FlowControl for TLC.                                       *)
(***************************************************************************)
EXTENDS FlowControl, TLC

CONSTANTS s1, s2, std, r1, r2, r3, k1, k2, k3

NoPlace == [a \in Areas |-> 0]

\* Three requests for two seats, each with a key of its own.
SeatKeys == r1 :> k1 @@ r2 :> k2 @@ r3 :> k3
NoRepetition == [r \in Requests |-> {}]
SeatIds == r1 :> {s1} @@ r2 :> {s1, s2} @@ r3 :> {s2}
SeatCount == [r \in Requests |-> NoPlace]
SeatStock == [a \in Areas |-> 0]

\* r2 repeats r1 for two places; r3, where there is one, wants one.
PlaceKeys == [r \in Requests |-> IF r = r3 THEN k3 ELSE k1]
PlaceAfter == [r \in Requests |-> IF r = r2 THEN {r1} ELSE {}]
PlaceIds == [r \in Requests |-> {}]
PlaceCount == [r \in Requests |-> [a \in Areas |-> IF r = r3 THEN 1 ELSE 2]]
PlaceStock == [a \in Areas |-> 4]
FewPlaces == [a \in Areas |-> 3]
=============================================================================
