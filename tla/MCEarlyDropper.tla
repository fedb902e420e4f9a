--------------------------- MODULE MCEarlyDropper ---------------------------
(***************************************************************************)
(* Instances of EarlyDropper for TLC: an area of numbered seats s1 and s2, *)
(* a free-standing area, and six requests that meet on their keys.        *)
(***************************************************************************)
EXTENDS EarlyDropper, TLC

CONSTANTS s1, s2, num, std, c1, c2, c3, c4, c5, c6

MCIds == c1 :> {s1} @@ c2 :> {s1, s2} @@ c3 :> {} @@ c4 :> {} @@ c5 :> {s2} @@ c6 :> {}

\* c3 and c4 share the places.  c5 wants a seat and a place of another area, c6 a
\* place of the numbered area, which has no counter.
MCCount ==
    [c \in Clients |-> [a \in Areas |->
        CASE c = c3 /\ a = std -> 2
          [] c \in {c4, c5} /\ a = std -> 1
          [] c = c6 /\ a = num -> 1
          [] OTHER -> 0]]

MCAreaOf == [c \in Clients |-> IF c \in {c3, c4} THEN std ELSE num]
MCStock == num :> 0 @@ std :> 2
=============================================================================
