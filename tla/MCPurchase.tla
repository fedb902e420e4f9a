----------------------------- MODULE MCPurchase -----------------------------
(***************************************************************************)
(* Instances of Purchase for TLC.                                          *)
(***************************************************************************)
EXTENDS Purchase

\* The least persistent users, one for seats and one for standing places.
LeastPersistent ==
    {CHOOSE k \in DOMAIN userProfilesData :
        userProfilesData[k].persistence = "Low" /\ AreaType(userProfilesData[k].tier) = type
       : type \in {"Seated", "Area"}}
=============================================================================
