--------------------------- MODULE DropperProofs ---------------------------
(***************************************************************************)
(* Proofs about EarlyDropper, for any number of requests, seats, areas and *)
(* attempts.                                                               *)
(***************************************************************************)
EXTENDS EarlyDropper, PlaceSums, TLAPS

\* What the releaser and the webhook do, and what the transaction does when it
\* runs, is the same write with other values.
LEMMA WriteType ==
    ASSUME TypeOK, NEW c \in Clients, NEW st \in {"available", "on-hold", "sold"},
           NEW d \in Int, Write(c, st, d)
    PROVE  /\ seatKey' \in [Seats -> {"available", "on-hold", "sold", "nil"}]
           /\ freeKey' \in [Areas -> Int]
           /\ dirty' \in [Clients -> BOOLEAN]
  <1>1. \A a \in Areas : Count[c][a] \in Int
    BY DropperAssumption
  <1>2. \A a \in Areas : freeKey[a] + d * Count[c][a] \in Int
    BY <1>1 DEF TypeOK
  <1> QED
    BY <1>2 DEF TypeOK, Write

LEMMA TypeInit == Init => TypeOK
  BY DropperAssumption DEF Init, TypeOK, Trying

LEMMA TypeNext == TypeOK /\ [Next]_vars => TypeOK'
  <1> SUFFICES ASSUME TypeOK, [Next]_vars PROVE TypeOK'
    OBVIOUS
  <1> USE DEF Goto, Trying
  <1>1. ASSUME NEW c \in Clients, Watch(c) PROVE TypeOK'
    BY <1>1 DEF TypeOK, Watch
  <1>2. ASSUME NEW c \in Clients, ReadSeats(c) PROVE TypeOK'
    BY <1>2 DEF TypeOK, ReadSeats
  <1>3. ASSUME NEW c \in Clients, ReadArea(c) PROVE TypeOK'
    BY <1>3 DEF TypeOK, ReadArea
  <1>4. ASSUME NEW c \in Clients, Exec(c) PROVE TypeOK'
    <2>1. CASE Write(c, "on-hold", -1) /\ Goto(c, "held") /\ UNCHANGED <<short, tries, faults>>
      BY <2>1, WriteType DEF TypeOK
    <2>2. CASE /\ tries[c] < MaxRetries /\ tries' = [tries EXCEPT ![c] = @ + 1]
               /\ Goto(c, "watch") /\ UNCHANGED <<seatKey, freeKey, dirty, short, faults>>
      BY <2>2, DropperAssumption DEF TypeOK
    <2>3. CASE Goto(c, "busy") /\ UNCHANGED <<seatKey, freeKey, dirty, short, tries, faults>>
      BY <2>3 DEF TypeOK
    <2> HIDE DEF Goto
    <2> QED
      BY <1>4, <2>1, <2>2, <2>3 DEF Exec
  <1>5. ASSUME NEW c \in Clients, ExecLost(c) PROVE TypeOK'
    <2>1. faults' \in 0 .. MaxFaults
      BY <1>5, DropperAssumption DEF TypeOK, ExecLost
    <2> QED
      BY <1>5, <2>1, WriteType DEF TypeOK, ExecLost
  <1>6. ASSUME NEW c \in Clients, OnSuccess(c) PROVE TypeOK'
    BY <1>6 DEF TypeOK, OnSuccess
  <1>7. ASSUME NEW c \in Clients, OnFailed(c) PROVE TypeOK'
    BY <1>7, WriteType DEF TypeOK, OnFailed
  <1>8. ASSUME NEW c \in Clients, FinalizeLock(c) PROVE TypeOK'
    BY <1>8, WriteType DEF TypeOK, FinalizeLock
  <1>9. CASE UNCHANGED vars
    BY <1>9 DEF TypeOK, vars
  <1> QED
    BY <1>1, <1>2, <1>3, <1>4, <1>5, <1>6, <1>7, <1>8, <1>9 DEF Next, TryAcquireLock

\* Every variable keeps its type.
THEOREM DropperTypeCorrect == Spec => []TypeOK
  BY TypeInit, TypeNext, PTL DEF Spec

(***************************************************************************)
(* The inductive invariant.                                                *)
(***************************************************************************)

\* What a request has read is still so unless it is dirty.
WatchInv ==
    \A c \in Clients :
        /\ short[c] => pc[c] = "areas"
        /\ pc[c] = "areas" /\ ~short[c] /\ ~dirty[c] =>
              \A s \in Ids[c] : seatKey[s] = "available"
        /\ pc[c] = "exec" /\ ~dirty[c] =>
              /\ \A s \in Ids[c] : seatKey[s] = "available"
              /\ \A a \in Counted(c) : Count[c][a] <= freeKey[a]

\* No counter is negative.
CounterInv == \A a \in Areas : freeKey[a] >= 0

\* The keys of a seat that was sold say so, besides what KeysAgree says.
SoldInv == \A c \in Clients : pc[c] = "sold" => \A s \in Ids[c] : seatKey[s] = "sold"

IInv == WatchInv /\ CounterInv /\ SoldInv /\ KeysAgree

LEMMA IInvInit == Init => IInv
  BY DropperAssumption
     DEF Init, IInv, WatchInv, CounterInv, SoldInv, KeysAgree, Owners

\* A write leaves alone what clean requests have read.
LEMMA WriteKeepsReads ==
    ASSUME TypeOK, NEW c \in Clients, NEW st, NEW d \in {-1, 0, 1}, Write(c, st, d),
           NEW e \in Clients, ~dirty'[e]
    PROVE  /\ ~dirty[e]
           /\ \A s \in Ids[e] : seatKey'[s] = seatKey[s]
           /\ \A a \in Counted(e) : freeKey'[a] = freeKey[a]
  <1>1. ~dirty[e] /\ Keys(e) \cap (Ids[c] \cup (IF d = 0 THEN {} ELSE Counted(c))) = {}
    BY DEF Write
  <1>2. ASSUME NEW s \in Ids[e] PROVE seatKey'[s] = seatKey[s]
    BY <1>1, DropperAssumption DEF Write, Keys
  <1>3. ASSUME NEW a \in Counted(e) PROVE freeKey'[a] = freeKey[a]
    <2>1. d = 0 \/ a \notin Counted(c)
      BY <1>1 DEF Keys
    <2>2. a \in Areas /\ Count[c][a] \in Nat /\ freeKey[a] \in Int
      BY DropperAssumption DEF Counted, TypeOK
    <2>3. d * Count[c][a] = 0
      BY <2>1, <2>2 DEF Counted
    <2> QED
      BY <2>2, <2>3 DEF Write
  <1> QED
    BY <1>1, <1>2, <1>3

\* A write by a client that is not waiting for its reads keeps WatchInv.
LEMMA WriteKeepsWatchInv ==
    ASSUME TypeOK, WatchInv, NEW c \in Clients, NEW st, NEW d \in {-1, 0, 1},
           Write(c, st, d), UNCHANGED short, ~short[c],
           NEW next \in {"held", "leaked", "returned", "sold"}, Goto(c, next)
    PROVE  WatchInv'
  <1> SUFFICES ASSUME NEW e \in Clients
      PROVE  /\ short'[e] => pc'[e] = "areas"
             /\ pc'[e] = "areas" /\ ~short'[e] /\ ~dirty'[e] =>
                   \A s \in Ids[e] : seatKey'[s] = "available"
             /\ pc'[e] = "exec" /\ ~dirty'[e] =>
                   /\ \A s \in Ids[e] : seatKey'[s] = "available"
                   /\ \A a \in Counted(e) : Count[e][a] <= freeKey'[a]
    BY DEF WatchInv, Counted
  <1>1. CASE e = c
    BY <1>1 DEF Goto, TypeOK
  <1>2. CASE e # c
    <2>1. pc'[e] = pc[e] /\ short'[e] = short[e]
      BY <1>2 DEF Goto, TypeOK
    <2> QED
      BY <2>1, WriteKeepsReads DEF WatchInv
  <1> QED
    BY <1>1, <1>2

\* A request takes its seats when they are available; nobody has them then.
LEMMA TakeKeepsKeys ==
    ASSUME TypeOK, SoldInv, KeysAgree, NEW c \in Clients, pc[c] = "exec",
           \A s \in Ids[c] : seatKey[s] = "available",
           Write(c, "on-hold", -1), NEW next \in {"held", "leaked"}, Goto(c, next)
    PROVE  SoldInv' /\ KeysAgree'
  <1>1. \A s \in Seats : seatKey'[s] = IF s \in Ids[c] THEN "on-hold" ELSE seatKey[s]
    BY DEF Write
  <1>2. \A e \in Clients : pc'[e] = IF e = c THEN next ELSE pc[e]
    BY DEF Goto, TypeOK
  <1>3. Owners' = Owners \cup {c}
    BY <1>2 DEF Owners
  <1>4. \A e \in Owners : Ids[e] \cap Ids[c] = {}
    BY DropperAssumption DEF Owners, SoldInv, KeysAgree
  <1>5. SoldInv'
    BY <1>1, <1>2, <1>4, DropperAssumption DEF SoldInv, Owners
  <1>6. ASSUME NEW s \in Seats
        PROVE  /\ \A e, f \in Owners' : s \in Ids[e] \cap Ids[f] => e = f
               /\ seatKey'[s] = "on-hold" <=> \E e \in Owners' : s \in Ids[e] /\ pc'[e] # "sold"
    <2>1. CASE s \in Ids[c]
      BY <2>1, <1>1, <1>2, <1>3, <1>4
    <2>2. CASE s \notin Ids[c]
      <3>1. \A e, f \in Owners : s \in Ids[e] \cap Ids[f] => e = f
        BY DEF KeysAgree
      <3>2. seatKey[s] = "on-hold" <=> \E e \in Owners : s \in Ids[e] /\ pc[e] # "sold"
        BY DEF KeysAgree
      <3>3. \A e \in Owners : e \in Clients
        BY DEF Owners
      <3> QED
        BY <2>2, <3>1, <3>2, <3>3, <1>1, <1>2, <1>3
    <2> QED
      BY <2>1, <2>2
  <1> QED
    BY <1>5, <1>6 DEF KeysAgree

\* A request gives back, or sells, seats that it alone has.
LEMMA GiveKeepsKeys ==
    ASSUME TypeOK, SoldInv, KeysAgree, NEW c \in Clients, pc[c] \in {"held", "placed"},
           NEW st \in {"available", "sold"}, NEW d, Write(c, st, d),
           Goto(c, IF st = "sold" THEN "sold" ELSE "returned")
    PROVE  SoldInv' /\ KeysAgree'
  <1>1. \A s \in Seats : seatKey'[s] = IF s \in Ids[c] THEN st ELSE seatKey[s]
    BY DEF Write
  <1>2. \A e \in Clients :
            pc'[e] = IF e = c THEN IF st = "sold" THEN "sold" ELSE "returned" ELSE pc[e]
    BY DEF Goto, TypeOK
  <1>3. \A e \in Owners : e # c => Ids[e] \cap Ids[c] = {}
    BY DropperAssumption DEF Owners, KeysAgree
  <1>4. Owners' = IF st = "sold" THEN Owners ELSE Owners \ {c}
    BY <1>2 DEF Owners
  <1>5. SoldInv'
    BY <1>1, <1>2, <1>3, DropperAssumption DEF SoldInv, Owners
  <1>6. c \in Owners
    BY DEF Owners
  <1>7. ASSUME NEW s \in Seats
        PROVE  /\ \A e, f \in Owners' : s \in Ids[e] \cap Ids[f] => e = f
               /\ seatKey'[s] = "on-hold" <=> \E e \in Owners' : s \in Ids[e] /\ pc'[e] # "sold"
    <2>1. \A e, f \in Owners : s \in Ids[e] \cap Ids[f] => e = f
      BY DEF KeysAgree
    <2>2. \A e \in Owners' : e \in Owners /\ e \in Clients
      BY <1>4 DEF Owners
    <2>3. CASE s \in Ids[c]
      <3>1. seatKey'[s] # "on-hold"
        BY <2>3, <1>1
      <3>2. \A e \in Owners' : s \in Ids[e] => e = c /\ pc'[c] = "sold"
        BY <2>2, <2>3, <1>2, <1>3, <1>4
      <3> QED
        BY <3>1, <3>2, <2>1, <2>2
    <2>4. CASE s \notin Ids[c]
      <3>1. seatKey[s] = "on-hold" <=> \E e \in Owners : s \in Ids[e] /\ pc[e] # "sold"
        BY DEF KeysAgree
      <3>2. \A e \in Clients : s \in Ids[e] => pc'[e] = pc[e] /\ (e \in Owners' <=> e \in Owners)
        BY <2>4, <1>2, <1>4
      <3> QED
        BY <3>1, <3>2, <2>1, <2>2, <2>4, <1>1 DEF Owners
    <2> QED
      BY <2>3, <2>4
  <1> QED
    BY <1>5, <1>7 DEF KeysAgree

\* A write adds its counts back or, when the counters have them, takes them.
LEMMA WriteKeepsCounters ==
    ASSUME TypeOK, CounterInv, NEW c \in Clients, NEW st, NEW d \in {-1, 0, 1}, Write(c, st, d),
           d = -1 => \A a \in Counted(c) : Count[c][a] <= freeKey[a]
    PROVE  CounterInv'
  <1> SUFFICES ASSUME NEW a \in Areas PROVE freeKey'[a] >= 0
    BY DEF CounterInv
  <1>1. Count[c][a] \in Nat /\ freeKey[a] \in Int /\ freeKey[a] >= 0
    BY DropperAssumption DEF TypeOK, CounterInv
  <1>2. freeKey'[a] = freeKey[a] + d * Count[c][a]
    BY DEF Write
  <1>3. CASE d = -1
    <2>1. Count[c][a] <= freeKey[a]
      BY <1>1, <1>3 DEF Counted
    <2> QED
      BY <1>1, <1>2, <1>3, <2>1
  <1>4. CASE d # -1
    BY <1>1, <1>2, <1>4
  <1> QED
    BY <1>3, <1>4

\* Seats and keys stay as they are, and so do the sets of owners and sellers.
LEMMA QuietKeepsKeys ==
    ASSUME TypeOK, SoldInv, KeysAgree, NEW c \in Clients, NEW next, Goto(c, next),
           UNCHANGED seatKey,
           \/ pc[c] = "held" /\ next = "placed"
           \/ pc[c] \in Trying /\ next \in Trying \cup {"busy", "failed", "refused"}
    PROVE  SoldInv' /\ KeysAgree'
  <1>1. \A e \in Clients : pc'[e] = IF e = c THEN next ELSE pc[e]
    BY DEF Goto, TypeOK
  <1>2. \A e \in Clients : pc'[e] = "sold" <=> pc[e] = "sold"
    BY <1>1 DEF Trying
  <1>3. Owners' = Owners
    BY <1>1 DEF Owners, Trying
  <1>4. \A e \in Owners : e \in Clients
    BY DEF Owners
  <1> QED
    BY <1>2, <1>3, <1>4 DEF SoldInv, KeysAgree

LEMMA IInvNext == TypeOK /\ IInv /\ [Next]_vars => IInv'
  <1> SUFFICES ASSUME TypeOK, IInv, [Next]_vars PROVE IInv'
    OBVIOUS
  <1>0. WatchInv /\ CounterInv /\ SoldInv /\ KeysAgree
    BY DEF IInv
  <1>a. ASSUME NEW c \in Clients, pc[c] = "exec", ~dirty[c], Write(c, "on-hold", -1),
               NEW next \in {"held", "leaked"}, Goto(c, next), UNCHANGED short
        PROVE  IInv'
    <2>1. /\ ~short[c]
          /\ \A s \in Ids[c] : seatKey[s] = "available"
          /\ \A a \in Counted(c) : Count[c][a] <= freeKey[a]
      BY <1>0, <1>a DEF WatchInv
    <2>2. WatchInv'
      BY <1>0, <1>a, <2>1, WriteKeepsWatchInv
    <2>3. CounterInv'
      BY <1>0, <1>a, <2>1, WriteKeepsCounters
    <2>4. SoldInv' /\ KeysAgree'
      BY <1>0, <1>a, <2>1, TakeKeepsKeys
    <2> QED
      BY <2>2, <2>3, <2>4 DEF IInv
  <1>b. ASSUME NEW c \in Clients, pc[c] \in {"held", "placed"},
               NEW st \in {"available", "sold"}, NEW d \in {0, 1}, Write(c, st, d),
               Goto(c, IF st = "sold" THEN "sold" ELSE "returned"), UNCHANGED short
        PROVE  IInv'
    <2>1. ~short[c]
      BY <1>0, <1>b DEF WatchInv
    <2>2. WatchInv'
      BY <1>0, <1>b, <2>1, WriteKeepsWatchInv
    <2>3. CounterInv'
      BY <1>0, <1>b, WriteKeepsCounters
    <2>4. SoldInv' /\ KeysAgree'
      BY <1>0, <1>b, GiveKeepsKeys
    <2> QED
      BY <2>2, <2>3, <2>4 DEF IInv
  <1>1. ASSUME NEW c \in Clients, Watch(c) PROVE IInv'
    <2>1. SoldInv' /\ KeysAgree'
      BY <1>0, <1>1, QuietKeepsKeys DEF Watch, Trying
    <2>2. WatchInv'
      BY <1>0, <1>1 DEF WatchInv, Watch, Goto, TypeOK, Counted
    <2> QED
      BY <1>0, <1>1, <2>1, <2>2 DEF IInv, CounterInv, Watch
  <1>2. ASSUME NEW c \in Clients, ReadSeats(c) PROVE IInv'
    <2>1. SoldInv' /\ KeysAgree'
      BY <1>0, <1>2, QuietKeepsKeys DEF ReadSeats, Trying
    <2>2. WatchInv'
      BY <1>0, <1>2 DEF WatchInv, ReadSeats, Goto, TypeOK, Counted
    <2> QED
      BY <1>0, <1>2, <2>1, <2>2 DEF IInv, CounterInv, ReadSeats
  <1>3. ASSUME NEW c \in Clients, ReadArea(c) PROVE IInv'
    <2>1. SoldInv' /\ KeysAgree'
      BY <1>0, <1>3, QuietKeepsKeys DEF ReadArea, Trying
    <2>2. WatchInv'
      BY <1>0, <1>3 DEF WatchInv, ReadArea, Goto, TypeOK, Counted
    <2> QED
      BY <1>0, <1>3, <2>1, <2>2 DEF IInv, CounterInv, ReadArea
  <1>4. ASSUME NEW c \in Clients, Exec(c) PROVE IInv'
    <2>1. CASE ~dirty[c] /\ Write(c, "on-hold", -1) /\ Goto(c, "held") /\ UNCHANGED short
      BY <1>4, <1>a, <2>1 DEF Exec
    <2>2. ASSUME NEW next \in {"watch", "busy"}, Goto(c, next),
                 UNCHANGED <<seatKey, freeKey, dirty, short>>
          PROVE  IInv'
      <3>1. pc[c] = "exec"
        BY <1>4 DEF Exec
      <3>2. SoldInv' /\ KeysAgree'
        BY <1>0, <2>2, <3>1, QuietKeepsKeys DEF Trying
      <3>3. WatchInv'
        BY <1>0, <2>2, <3>1 DEF WatchInv, Goto, TypeOK, Counted
      <3> QED
        BY <1>0, <2>2, <3>2, <3>3 DEF IInv, CounterInv
    <2> QED
      BY <1>4, <2>1, <2>2 DEF Exec
  <1>5. ASSUME NEW c \in Clients, ExecLost(c) PROVE IInv'
    BY <1>5, <1>a DEF ExecLost
  <1>6. ASSUME NEW c \in Clients, OnSuccess(c) PROVE IInv'
    <2>1. SoldInv' /\ KeysAgree'
      BY <1>0, <1>6, QuietKeepsKeys DEF OnSuccess
    <2>2. WatchInv'
      BY <1>0, <1>6 DEF WatchInv, OnSuccess, Goto, TypeOK, Counted
    <2> QED
      BY <1>0, <1>6, <2>1, <2>2 DEF IInv, CounterInv, OnSuccess
  <1>7. ASSUME NEW c \in Clients, OnFailed(c) PROVE IInv'
    BY <1>7, <1>b DEF OnFailed
  <1>8. ASSUME NEW c \in Clients, FinalizeLock(c) PROVE IInv'
    BY <1>8, <1>b DEF FinalizeLock
  <1>9. CASE UNCHANGED vars
    BY <1>0, <1>9 DEF vars, IInv, WatchInv, CounterInv, SoldInv, KeysAgree, Owners, Counted
  <1> QED
    BY <1>1, <1>2, <1>3, <1>4, <1>5, <1>6, <1>7, <1>8, <1>9 DEF Next, TryAcquireLock

\* The inductive invariant holds in every reachable state.
THEOREM DropperInvariant == Spec => [](TypeOK /\ IInv)
  BY TypeInit, TypeNext, IInvInit, IInvNext, PTL DEF Spec

\* Two requests never take one seat, however their transactions interleave.
THEOREM KeysAgreeHolds == Spec => []KeysAgree
  <1>1. TypeOK /\ IInv => KeysAgree
    BY DEF IInv
  <1> QED
    BY <1>1, DropperInvariant, PTL

(***************************************************************************)
(* The counters: the places that owners have taken are missing in them.    *)
(***************************************************************************)

SumInv == \A a \in Areas : freeKey[a] + Places(Count, a, Owners) = Stock[a]

LEMMA OwnersFinite == IsFiniteSet(Owners)
  <1>1. Owners \in SUBSET Clients
    BY DEF Owners
  <1> QED
    BY <1>1, FS_Subset, DropperAssumption

LEMMA SumInvInit == Init => SumInv
  <1> SUFFICES ASSUME Init, NEW a \in Areas PROVE freeKey[a] + Places(Count, a, Owners) = Stock[a]
    BY DEF SumInv
  <1>1. Owners = {}
    BY DEF Init, Owners
  <1>2. Places(Count, a, Owners) = 0
    BY <1>1, PlacesEmpty
  <1> QED
    BY <1>2, DropperAssumption DEF Init

\* A write moves the counters by what its client takes or gives back.
LEMMA WriteKeepsSum ==
    ASSUME TypeOK, SumInv, NEW c \in Clients, NEW st, NEW d \in {-1, 0, 1}, Write(c, st, d),
           d = -1 => c \notin Owners /\ Owners' = Owners \cup {c},
           d = 0 => Owners' = Owners,
           d = 1 => c \in Owners /\ Owners' = Owners \ {c}
    PROVE  SumInv'
  <1> SUFFICES ASSUME NEW a \in Areas
               PROVE  freeKey'[a] + Places(Count, a, Owners') = Stock[a]
    BY DEF SumInv
  <1> DEFINE old == Places(Count, a, Owners)
             new == Places(Count, a, Owners')
             n == Count[c][a]
  <1>1. \A e \in Clients : Count[e][a] \in Nat
    BY DropperAssumption
  <1>2. \A e \in Owners \cup {c} : e \in Clients
    BY DEF Owners
  <1>3. IsFiniteSet(Owners) /\ old \in Nat /\ n \in Nat
    BY <1>1, <1>2, OwnersFinite, PlacesType
  <1>4. freeKey[a] \in Int /\ Stock[a] \in Nat /\ freeKey[a] + old = Stock[a]
    BY DropperAssumption DEF TypeOK, SumInv
  <1>5. freeKey'[a] = freeKey[a] + d * n
    BY DEF Write
  <1>6. CASE d = -1
    <2>1. new = old + n
      BY <1>1, <1>2, <1>3, <1>6, PlacesPutIn
    <2> HIDE DEF old, new, n
    <2>2. freeKey'[a] + new = Stock[a]
      BY <1>3, <1>4, <1>5, <1>6, <2>1
    <2> QED
      BY <2>2 DEF new
  <1>7. CASE d = 0
    <2>1. new = old
      BY <1>7
    <2> HIDE DEF old, new, n
    <2>2. freeKey'[a] + new = Stock[a]
      BY <1>3, <1>4, <1>5, <1>7, <2>1
    <2> QED
      BY <2>2 DEF new
  <1>8. CASE d = 1
    <2>1. old = new + n
      BY <1>1, <1>2, <1>3, <1>8, PlacesTakeOut
    <2>2. new \in Nat
      <3>1. IsFiniteSet(Owners') /\ \A e \in Owners' : e \in Clients
        BY <1>2, <1>3, <1>8, FS_RemoveElement
      <3> QED
        BY <1>1, <3>1, PlacesType
    <2> HIDE DEF old, new, n
    <2>3. freeKey'[a] + new = Stock[a]
      BY <1>3, <1>4, <1>5, <1>8, <2>1, <2>2
    <2> QED
      BY <2>3 DEF new
  <1> QED
    BY <1>6, <1>7, <1>8

LEMMA SumInvNext == TypeOK /\ SumInv /\ [Next]_vars => SumInv'
  <1> SUFFICES ASSUME TypeOK, SumInv, [Next]_vars PROVE SumInv'
    OBVIOUS
  \* Steps that write nothing leave the owners alone.
  <1>a. ASSUME UNCHANGED freeKey, Owners' = Owners PROVE SumInv'
    BY <1>a DEF SumInv
  <1>b. ASSUME NEW c \in Clients, NEW next, Goto(c, next)
        PROVE  Owners' = IF next \in {"held", "placed", "leaked", "sold"}
                         THEN Owners \cup {c} ELSE Owners \ {c}
    BY <1>b DEF Goto, TypeOK, Owners
  <1>1. ASSUME NEW c \in Clients, Watch(c) \/ ReadSeats(c) \/ ReadArea(c) PROVE SumInv'
    <2>1. PICK next \in {"seats", "areas", "exec", "refused", "failed"} : Goto(c, next)
      BY <1>1 DEF Watch, ReadSeats, ReadArea
    <2>2. c \notin Owners /\ UNCHANGED freeKey
      BY <1>1 DEF Watch, ReadSeats, ReadArea, Owners
    <2>3. Owners' = Owners
      BY <1>b, <2>1, <2>2
    <2> QED
      BY <2>2, <2>3, <1>a
  <1>2. ASSUME NEW c \in Clients, Exec(c) \/ ExecLost(c) PROVE SumInv'
    <2>1. c \notin Owners
      BY <1>2 DEF Exec, ExecLost, Owners
    <2>2. ASSUME NEW next \in {"held", "leaked"}, Write(c, "on-hold", -1), Goto(c, next)
          PROVE  SumInv'
      <3>1. Owners' = Owners \cup {c}
        BY <2>2, <1>b
      <3> QED
        BY <2>1, <2>2, <3>1, WriteKeepsSum
    <2>3. ASSUME NEW next \in {"watch", "busy"}, UNCHANGED freeKey, Goto(c, next)
          PROVE  SumInv'
      <3>1. Owners' = Owners
        BY <2>1, <2>3, <1>b
      <3> QED
        BY <2>3, <3>1, <1>a
    <2> QED
      BY <1>2, <2>2, <2>3 DEF Exec, ExecLost
  <1>3. ASSUME NEW c \in Clients, OnSuccess(c) PROVE SumInv'
    <2>1. Goto(c, "placed") /\ c \in Owners /\ UNCHANGED freeKey
      BY <1>3 DEF OnSuccess, Owners
    <2>2. Owners' = Owners
      BY <2>1, <1>b
    <2> QED
      BY <2>1, <2>2, <1>a
  <1>4. ASSUME NEW c \in Clients, OnFailed(c) \/ FinalizeLock(c) PROVE SumInv'
    <2>1. c \in Owners
      BY <1>4 DEF OnFailed, FinalizeLock, Owners
    <2>2. CASE Write(c, "available", 1) /\ Goto(c, "returned")
      <3>1. Owners' = Owners \ {c}
        BY <2>2, <1>b
      <3> QED
        BY <2>1, <2>2, <3>1, WriteKeepsSum
    <2>3. CASE Write(c, "sold", 0) /\ Goto(c, "sold")
      <3>1. Owners' = Owners
        BY <2>1, <2>3, <1>b
      <3> QED
        BY <2>3, <3>1, WriteKeepsSum
    <2> QED
      BY <1>4, <2>2, <2>3 DEF OnFailed, FinalizeLock
  <1>5. CASE UNCHANGED vars
    BY <1>5, <1>a DEF vars, Owners
  <1> QED
    BY <1>1, <1>2, <1>3, <1>4, <1>5 DEF Next, TryAcquireLock

\* Every counter misses exactly the places of the requests that have taken some,
\* and none goes below zero, however the transactions interleave.
THEOREM CountersAgreeHolds == Spec => []CountersAgree
  <1>1. TypeOK /\ IInv /\ SumInv => CountersAgree
    BY DEF IInv, CounterInv, SumInv, CountersAgree, Places
  <1>2. Spec => []SumInv
    <2>1. TypeOK /\ SumInv /\ [Next]_vars => SumInv'
      BY SumInvNext
    <2> QED
      BY <2>1, SumInvInit, DropperTypeCorrect, PTL DEF Spec
  <1> QED
    BY <1>1, <1>2, DropperInvariant, PTL

(***************************************************************************)
(* The attempts: every one that fails has met a write of another request.  *)
(***************************************************************************)

Near(c) == {d \in Clients \ {c} : Keys(d) \cap Keys(c) # {}}
Once(c) == {d \in Near(c) : pc[d] \in {"held", "placed", "leaked"}}
Twice(c) == {d \in Near(c) : pc[d] \in {"returned", "sold"}}

\* How many transactions have written a key of c, besides its own.
Writes(c) == Cardinality(Once(c)) + 2 * Cardinality(Twice(c))

\* The attempts of c that have met a write, the current one included.
Spoilt(c) == tries[c] - 1 + (IF dirty[c] /\ pc[c] # "watch" THEN 1 ELSE 0)

BusyInv ==
    \A c \in Clients :
        /\ pc[c] \in Trying => Spoilt(c) <= Writes(c)
        /\ pc[c] = "busy" => MaxRetries <= Writes(c)

LEMMA NearFinite ==
    ASSUME NEW c \in Clients
    PROVE  /\ IsFiniteSet(Once(c)) /\ Cardinality(Once(c)) \in Nat
           /\ IsFiniteSet(Twice(c)) /\ Cardinality(Twice(c)) \in Nat
  <1>1. Once(c) \in SUBSET Clients /\ Twice(c) \in SUBSET Clients
    BY DEF Once, Twice, Near
  <1> QED
    BY <1>1, FS_Subset, FS_CardinalityType, DropperAssumption

\* A step that is not a write of a near request leaves the count alone.
LEMMA WritesStay ==
    ASSUME TypeOK, NEW c \in Clients, NEW d \in Clients, NEW next, Goto(d, next),
           \/ d \notin Near(c)
           \/ pc[d] = "held" /\ next = "placed"
           \/ pc[d] \in Trying /\ next \in Trying \cup {"busy", "failed", "refused"}
    PROVE  Writes(c)' = Writes(c)
  <1>1. \A e \in Clients : pc'[e] = IF e = d THEN next ELSE pc[e]
    BY DEF Goto, TypeOK
  <1>2. Once(c)' = Once(c)
    BY <1>1 DEF Once, Near, Keys, Counted, Trying
  <1>3. Twice(c)' = Twice(c)
    BY <1>1 DEF Twice, Near, Keys, Counted, Trying
  <1> QED
    BY <1>2, <1>3 DEF Writes

\* A write of a near request counts.
LEMMA WritesGrow ==
    ASSUME TypeOK, NEW c \in Clients, NEW d \in Near(c), NEW next, Goto(d, next),
           \/ pc[d] = "exec" /\ next \in {"held", "leaked"}
           \/ pc[d] \in {"held", "placed"} /\ next \in {"returned", "sold"}
    PROVE  Writes(c)' = Writes(c) + 1
  <1>0. d \in Clients
    BY DEF Near
  <1>1. \A e \in Clients : pc'[e] = IF e = d THEN next ELSE pc[e]
    BY <1>0 DEF Goto, TypeOK
  <1> DEFINE one == Cardinality(Once(c))
             two == Cardinality(Twice(c))
  <1>2. one \in Nat /\ two \in Nat /\ IsFiniteSet(Once(c)) /\ IsFiniteSet(Twice(c))
    BY NearFinite
  <1>3. CASE pc[d] = "exec" /\ next \in {"held", "leaked"}
    <2>1. d \notin Once(c) /\ Once(c)' = Once(c) \cup {d}
      BY <1>1, <1>3 DEF Once, Near, Keys, Counted
    <2>2. Twice(c)' = Twice(c)
      BY <1>1, <1>3 DEF Twice, Near, Keys, Counted
    <2>3. Cardinality(Once(c)') = one + 1
      BY <1>2, <2>1, FS_AddElement
    <2>4. Cardinality(Twice(c)') = two
      BY <2>2
    <2>5. Writes(c)' = (one + 1) + 2 * two
      BY <2>3, <2>4 DEF Writes
    <2> HIDE DEF one, two
    <2>6. (one + 1) + 2 * two = (one + 2 * two) + 1
      BY <1>2
    <2> QED
      BY <2>5, <2>6 DEF Writes, one, two
  <1>4. CASE pc[d] \in {"held", "placed"} /\ next \in {"returned", "sold"}
    <2>1. d \in Once(c) /\ Once(c)' = Once(c) \ {d}
      BY <1>1, <1>4 DEF Once, Near, Keys, Counted
    <2>2. d \notin Twice(c) /\ Twice(c)' = Twice(c) \cup {d}
      BY <1>1, <1>4 DEF Twice, Near, Keys, Counted
    <2>3. Cardinality(Once(c)') = one - 1
      BY <1>2, <2>1, FS_RemoveElement
    <2>4. Cardinality(Twice(c)') = two + 1
      BY <1>2, <2>2, FS_AddElement
    <2>5. Writes(c)' = (one - 1) + 2 * (two + 1)
      BY <2>3, <2>4 DEF Writes
    <2> HIDE DEF one, two
    <2>6. (one - 1) + 2 * (two + 1) = (one + 2 * two) + 1
      BY <1>2
    <2> QED
      BY <2>5, <2>6 DEF Writes, one, two
  <1> QED
    BY <1>3, <1>4

LEMMA WritesType == ASSUME NEW c \in Clients PROVE Writes(c) \in Nat
  BY NearFinite DEF Writes

LEMMA BusyInvInit == Init => BusyInv
  <1> SUFFICES ASSUME Init, NEW c \in Clients
               PROVE  Spoilt(c) <= Writes(c) /\ pc[c] # "busy"
    BY DEF BusyInv
  <1> QED
    BY WritesType DEF Init, Spoilt

\* A write makes dirty only those whose count it raises.
LEMMA WriteKeepsBusy ==
    ASSUME TypeOK, BusyInv, NEW d \in Clients, NEW st, NEW k \in {-1, 0, 1}, Write(d, st, k),
           NEW next, Goto(d, next), UNCHANGED tries,
           \/ pc[d] = "exec" /\ next \in {"held", "leaked"}
           \/ pc[d] \in {"held", "placed"} /\ next \in {"returned", "sold"}
    PROVE  BusyInv'
  <1> SUFFICES ASSUME NEW c \in Clients
               PROVE  /\ pc'[c] \in Trying => Spoilt(c)' <= Writes(c)'
                      /\ pc'[c] = "busy" => MaxRetries <= Writes(c)'
    BY DEF BusyInv, Trying
  <1>1. CASE c = d
    BY <1>1 DEF Goto, TypeOK, Trying
  <1>2. CASE c # d
    <2>1. pc'[c] = pc[c] /\ tries'[c] = tries[c]
      BY <1>2 DEF Goto, TypeOK
    <2>2. /\ pc[c] \in Trying => Spoilt(c) <= Writes(c)
          /\ pc[c] = "busy" => MaxRetries <= Writes(c)
      BY DEF BusyInv
    <2>3. tries[c] \in Nat /\ Writes(c) \in Nat /\ MaxRetries \in Nat /\ dirty[c] \in BOOLEAN
      BY WritesType, DropperAssumption DEF TypeOK
    <2>4. CASE d \in Near(c)
      <3>1. Writes(c)' = Writes(c) + 1
        BY <2>4, WritesGrow
      <3>2. Spoilt(c)' <= Spoilt(c) + 1
        BY <2>1, <2>3 DEF Spoilt, Write
      <3>3. Spoilt(c) \in Int /\ Spoilt(c)' \in Int
        BY <2>1, <2>3 DEF Spoilt
      <3> HIDE DEF Writes, Spoilt
      <3> QED
        BY <2>1, <2>2, <2>3, <3>1, <3>2, <3>3
    <2>5. CASE d \notin Near(c)
      <3>1. Writes(c)' = Writes(c)
        BY <2>5, WritesStay
      <3>2. Keys(c) \cap (Ids[d] \cup (IF k = 0 THEN {} ELSE Counted(d))) = {}
        BY <1>2, <2>5 DEF Near, Keys
      <3>3. dirty'[c] = dirty[c]
        BY <2>3, <3>2 DEF Write
      <3>4. Spoilt(c)' = Spoilt(c)
        BY <2>1, <3>3 DEF Spoilt
      <3> QED
        BY <2>1, <2>2, <3>1, <3>4
    <2> QED
      BY <2>4, <2>5
  <1> QED
    BY <1>1, <1>2

\* A step that writes nothing matters to its own request only.
LEMMA QuietKeepsBusy ==
    ASSUME TypeOK, TypeOK', BusyInv, NEW d \in Clients, NEW next, Goto(d, next),
           \A e \in Clients : e # d => dirty'[e] = dirty[e] /\ tries'[e] = tries[e],
           \/ pc[d] = "held" /\ next = "placed"
           \/ /\ pc[d] \in Trying /\ next \in Trying \cup {"busy", "failed", "refused"}
              /\ next \in Trying => Spoilt(d)' <= Spoilt(d)
              /\ next = "busy" => MaxRetries <= Spoilt(d)
    PROVE  BusyInv'
  <1> SUFFICES ASSUME NEW c \in Clients
               PROVE  /\ pc'[c] \in Trying => Spoilt(c)' <= Writes(c)'
                      /\ pc'[c] = "busy" => MaxRetries <= Writes(c)'
    BY DEF BusyInv, Trying
  <1>1. Writes(c)' = Writes(c) /\ Writes(c) \in Nat /\ MaxRetries \in Nat
    BY WritesStay, WritesType, DropperAssumption
  <1>2. \A e \in Clients : pc'[e] = IF e = d THEN next ELSE pc[e]
    BY DEF Goto, TypeOK
  <1>3. CASE c # d
    <2>1. Spoilt(c)' = Spoilt(c)
      BY <1>2, <1>3 DEF Spoilt
    <2> QED
      BY <1>1, <1>2, <1>3, <2>1 DEF BusyInv
  <1>4. CASE c = d /\ pc[d] \in Trying
    <2>1. Spoilt(d) <= Writes(d)
      BY <1>4 DEF BusyInv
    <2>2. Spoilt(d) \in Int
      BY DEF Spoilt, TypeOK
    <2>3. next \in Trying => Spoilt(d)' <= Writes(d)'
      <3> SUFFICES ASSUME next \in Trying PROVE Spoilt(d)' <= Writes(d)'
        OBVIOUS
      <3>1. Spoilt(d)' <= Spoilt(d)
        BY <1>4 DEF Trying
      <3>2. Spoilt(d)' \in Int
        BY DEF Spoilt, TypeOK
      <3> HIDE DEF Spoilt, Writes
      <3> QED
        BY <1>1, <1>4, <2>1, <2>2, <3>1, <3>2
    <2>4. next = "busy" => MaxRetries <= Writes(d)'
      <3> SUFFICES ASSUME next = "busy" PROVE MaxRetries <= Writes(d)'
        OBVIOUS
      <3>1. MaxRetries <= Spoilt(d)
        BY <1>4 DEF Trying
      <3> HIDE DEF Spoilt, Writes
      <3> QED
        BY <1>1, <1>4, <2>1, <2>2, <3>1
    <2> QED
      BY <1>2, <1>4, <2>3, <2>4
  <1>5. CASE c = d /\ pc[d] = "held"
    BY <1>2, <1>5 DEF Trying
  <1> QED
    BY <1>3, <1>4, <1>5

LEMMA BusyInvNext == TypeOK /\ TypeOK' /\ BusyInv /\ [Next]_vars => BusyInv'
  <1> SUFFICES ASSUME TypeOK, TypeOK', BusyInv, [Next]_vars PROVE BusyInv'
    OBVIOUS
  <1>1. ASSUME NEW c \in Clients, Watch(c) PROVE BusyInv'
    <2>1. PICK next \in {"seats", "failed"} : Goto(c, next)
      BY <1>1 DEF Watch
    <2>2. /\ pc[c] = "watch" /\ tries' = tries /\ tries[c] \in Nat
          /\ dirty' = [dirty EXCEPT ![c] = FALSE]
      BY <1>1 DEF Watch, TypeOK
    <2>3. Spoilt(c)' <= Spoilt(c)
      BY <2>2 DEF Spoilt, TypeOK
    <2>4. \A e \in Clients : e # c => dirty'[e] = dirty[e] /\ tries'[e] = tries[e]
      BY <2>2
    <2> HIDE DEF Spoilt
    <2> QED
      BY <2>1, <2>2, <2>3, <2>4, QuietKeepsBusy DEF Trying
  <1>2. ASSUME NEW c \in Clients, ReadSeats(c) \/ ReadArea(c) PROVE BusyInv'
    <2>1. PICK next \in {"areas", "exec", "refused", "failed"} : Goto(c, next)
      BY <1>2 DEF ReadSeats, ReadArea
    <2>2. pc[c] \in {"seats", "areas"} /\ UNCHANGED <<tries, dirty>> /\ tries[c] \in Nat
      BY <1>2 DEF ReadSeats, ReadArea, TypeOK
    <2>3. Spoilt(c)' <= Spoilt(c)
      BY <2>2 DEF Spoilt, TypeOK
    <2> HIDE DEF Spoilt
    <2> QED
      BY <2>1, <2>2, <2>3, QuietKeepsBusy DEF Trying
  <1>3. ASSUME NEW c \in Clients, Exec(c) PROVE BusyInv'
    <2>1. CASE Write(c, "on-hold", -1) /\ Goto(c, "held") /\ UNCHANGED tries
      BY <1>3, <2>1, WriteKeepsBusy DEF Exec
    <2>2. CASE /\ dirty[c] /\ tries' = [tries EXCEPT ![c] = @ + 1]
               /\ Goto(c, "watch") /\ UNCHANGED dirty
      <3>1. pc[c] = "exec" /\ tries[c] \in Nat /\ tries'[c] = tries[c] + 1 /\ pc'[c] = "watch"
        BY <1>3, <2>2 DEF Exec, Goto, TypeOK
      <3>2. Spoilt(c)' <= Spoilt(c)
        BY <2>2, <3>1 DEF Spoilt
      <3>3. \A e \in Clients : e # c => dirty'[e] = dirty[e] /\ tries'[e] = tries[e]
        BY <2>2
      <3> HIDE DEF Spoilt
      <3> QED
        BY <2>2, <3>1, <3>2, <3>3, QuietKeepsBusy DEF Trying
    <2>3. CASE /\ dirty[c] /\ tries[c] = MaxRetries
               /\ Goto(c, "busy") /\ UNCHANGED <<dirty, tries>>
      <3>1. pc[c] = "exec" /\ MaxRetries <= Spoilt(c)
        BY <1>3, <2>3, DropperAssumption DEF Exec, Spoilt
      <3> HIDE DEF Spoilt
      <3> QED
        BY <2>3, <3>1, QuietKeepsBusy DEF Trying
    <2> QED
      BY <1>3, <2>1, <2>2, <2>3 DEF Exec
  <1>4. ASSUME NEW c \in Clients, ExecLost(c) PROVE BusyInv'
    BY <1>4, WriteKeepsBusy DEF ExecLost
  <1>5. ASSUME NEW c \in Clients, OnSuccess(c) PROVE BusyInv'
    BY <1>5, QuietKeepsBusy DEF OnSuccess
  <1>6. ASSUME NEW c \in Clients, OnFailed(c) PROVE BusyInv'
    BY <1>6, WriteKeepsBusy DEF OnFailed
  <1>7. ASSUME NEW c \in Clients, FinalizeLock(c) PROVE BusyInv'
    <2>1. CASE Write(c, "available", 1) /\ Goto(c, "returned")
      BY <1>7, <2>1, WriteKeepsBusy DEF FinalizeLock
    <2>2. CASE Write(c, "sold", 0) /\ Goto(c, "sold")
      BY <1>7, <2>2, WriteKeepsBusy DEF FinalizeLock
    <2> QED
      BY <1>7, <2>1, <2>2 DEF FinalizeLock
  <1>8. CASE UNCHANGED vars
    BY <1>8 DEF vars, BusyInv, Spoilt, Writes, Once, Twice, Near, Keys, Counted
  <1> QED
    BY <1>1, <1>2, <1>3, <1>4, <1>5, <1>6, <1>7, <1>8 DEF Next, TryAcquireLock

\* A request that gives up has met a write of another request in every attempt,
\* for any number of requests and attempts.
THEOREM BusyNeedsWritersHolds == Spec => []BusyNeedsWriters
  <1>1. BusyInv => BusyNeedsWriters
    BY DEF BusyInv, BusyNeedsWriters, Writes, Once, Twice, Near
  <1>2. TypeOK /\ TypeOK' /\ BusyInv /\ [Next]_vars => BusyInv'
    BY BusyInvNext
  <1> QED
    BY <1>1, <1>2, BusyInvInit, DropperTypeCorrect, PTL DEF Spec

(***************************************************************************)
(* The optimistic transactions implement the atomic cache.                 *)
(***************************************************************************)

\* What the abstract lock of a request is, read off its place in the code.
LockState(place, sh) ==
    IF place \in Trying THEN IF sh THEN "refused" ELSE "none"
    ELSE IF place \in {"held", "placed", "leaked"} THEN "held"
    ELSE IF place \in {"busy", "failed"} THEN "failed" ELSE place

LEMMA LockIsState == \A c \in Clients : CacheLock[c] = LockState(pc[c], short[c])
  BY DEF CacheLock, LockState, Trying

\* A step of one request changes its own lock only.
LEMMA LockStep ==
    ASSUME TypeOK, NEW c \in Clients, NEW next, Goto(c, next),
           \A e \in Clients : e # c => short'[e] = short[e]
    PROVE  CacheLock' = [CacheLock EXCEPT ![c] = LockState(next, short'[c])]
  <1>1. \A e \in Clients : pc'[e] = IF e = c THEN next ELSE pc[e]
    BY DEF Goto, TypeOK
  <1>2. \A e \in Clients : CacheLock'[e] = LockState(pc'[e], short'[e])
    BY DEF CacheLock, LockState, Trying
  <1>3. \A e \in Clients :
            CacheLock'[e] = IF e = c THEN LockState(next, short'[c]) ELSE CacheLock[e]
    BY <1>1, <1>2, LockIsState
  <1>4. DOMAIN CacheLock = Clients /\ CacheLock = [e \in Clients |-> CacheLock[e]]
    BY DEF CacheLock
  <1>5. CacheLock' = [e \in Clients |-> CacheLock'[e]]
    BY DEF CacheLock
  <1> QED
    BY <1>3, <1>4, <1>5

\* A request that has read its keys, and is not dirty, has all it asks for.
LEMMA CleanFits ==
    ASSUME TypeOK, IInv, NEW c \in Clients, pc[c] = "exec", ~dirty[c]
    PROVE  Cache!Fits(c)
  <1>1. /\ \A s \in Ids[c] : seatKey[s] = "available"
        /\ \A a \in Counted(c) : Count[c][a] <= freeKey[a]
    BY DEF IInv, WatchInv
  <1>2. ASSUME NEW a \in Areas PROVE Count[c][a] <= freeKey[a]
    <2>1. Count[c][a] \in Nat /\ freeKey[a] \in Int /\ freeKey[a] >= 0
      BY DropperAssumption DEF TypeOK, IInv, CounterInv
    <2> QED
      BY <1>1, <2>1 DEF Counted
  <1> QED
    BY <1>1, <1>2 DEF Cache!Fits

LEMMA CacheInit == Init => Cache!Init
  <1> SUFFICES ASSUME Init PROVE Cache!Init
    OBVIOUS
  <1>1. \A c \in Clients : CacheLock[c] = "none"
    BY LockIsState DEF Init, LockState, Trying
  <1>2. CacheLock = [c \in Clients |-> "none"]
    BY <1>1 DEF CacheLock
  <1> QED
    BY <1>2, DropperAssumption DEF Init, Cache!Init

LEMMA CacheStep == TypeOK /\ IInv /\ [Next]_vars => [Cache!Next]_(Cache!cache)
  <1> SUFFICES ASSUME TypeOK, IInv, [Next]_vars PROVE [Cache!Next]_(Cache!cache)
    OBVIOUS
  <1> USE DEF Trying
  <1>0. WatchInv
    BY DEF IInv
  <1>a. ASSUME NEW c \in Clients, pc[c] = "exec", ~dirty[c], Write(c, "on-hold", -1),
               NEW next \in {"held", "leaked"}, Goto(c, next), UNCHANGED short
        PROVE  Cache!Acquire(c)
    <2>1. CacheLock[c] = "none"
      BY <1>0, <1>a, LockIsState DEF LockState, WatchInv
    <2>2. CacheLock' = [CacheLock EXCEPT ![c] = "held"]
      BY <1>a, LockStep DEF LockState
    <2>3. Cache!Fits(c)
      BY <1>a, CleanFits
    <2> QED
      BY <1>a, <2>1, <2>2, <2>3 DEF Cache!Acquire, Cache!Become, Cache!Write, Write
  <1>b. ASSUME NEW c \in Clients, pc[c] \in Trying, ~short[c], Goto(c, "failed"),
               UNCHANGED <<seatKey, freeKey, short>>
        PROVE  Cache!Fail(c)
    <2>1. CacheLock[c] = "none"
      BY <1>b, LockIsState DEF LockState
    <2>2. CacheLock' = [CacheLock EXCEPT ![c] = "failed"]
      BY <1>b, LockStep DEF LockState
    <2> QED
      BY <1>b, <2>1, <2>2 DEF Cache!Fail, Cache!Become
  <1>c. ASSUME NEW c \in Clients, NEW next, Goto(c, next),
               \A e \in Clients : e # c => short'[e] = short[e],
               LockState(next, short'[c]) = LockState(pc[c], short[c]),
               UNCHANGED <<seatKey, freeKey>>
        PROVE  UNCHANGED Cache!cache
    <2>1. CacheLock' = [CacheLock EXCEPT ![c] = CacheLock[c]]
      BY <1>c, LockStep, LockIsState
    <2>2. CacheLock' = CacheLock
      BY <2>1 DEF CacheLock
    <2> QED
      BY <1>c, <2>2 DEF Cache!cache
  <1>d. ASSUME NEW c \in Clients, pc[c] \in Trying, ~short[c], NEW next, Goto(c, next),
               \A e \in Clients : e # c => short'[e] = short[e],
               LockState(next, short'[c]) = "refused",
               UNCHANGED <<seatKey, freeKey>>, ~Cache!Fits(c)
        PROVE  Cache!Refuse(c)
    <2>1. CacheLock[c] = "none"
      BY <1>d, LockIsState DEF LockState
    <2>2. CacheLock' = [CacheLock EXCEPT ![c] = "refused"]
      BY <1>d, LockStep
    <2> QED
      BY <1>d, <2>1, <2>2 DEF Cache!Refuse, Cache!Become
  <1>1. ASSUME NEW c \in Clients, Watch(c) PROVE Cache!Fail(c) \/ UNCHANGED Cache!cache
    <2>1. pc[c] = "watch" /\ ~short[c] /\ UNCHANGED <<seatKey, freeKey, short>>
      BY <1>0, <1>1 DEF Watch, WatchInv
    <2>2. CASE Goto(c, "failed")
      BY <2>1, <2>2, <1>b
    <2>3. CASE Goto(c, "seats")
      BY <2>1, <2>3, <1>c DEF LockState
    <2> QED
      BY <1>1, <2>2, <2>3 DEF Watch
  <1>2. ASSUME NEW c \in Clients, ReadSeats(c) PROVE Cache!Refuse(c) \/ UNCHANGED Cache!cache
    <2>1. /\ pc[c] = "seats" /\ ~short[c] /\ UNCHANGED <<seatKey, freeKey>>
          /\ \A e \in Clients : e # c => short'[e] = short[e]
          /\ short'[c] = \E s \in Ids[c] : seatKey[s] # "available"
          /\ Goto(c, "areas")
      BY <1>0, <1>2 DEF ReadSeats, WatchInv, TypeOK
    <2>2. CASE short'[c]
      <3>1. ~Cache!Fits(c)
        BY <2>1, <2>2 DEF Cache!Fits
      <3> QED
        BY <2>1, <2>2, <3>1, <1>d DEF LockState
    <2>3. CASE ~short'[c]
      BY <2>1, <2>3, <1>c DEF LockState
    <2> QED
      BY <2>2, <2>3
  <1>3. ASSUME NEW c \in Clients, ReadArea(c)
        PROVE  Cache!Fail(c) \/ Cache!Refuse(c) \/ UNCHANGED Cache!cache
    <2>1. /\ pc[c] = "areas" /\ UNCHANGED <<seatKey, freeKey>>
          /\ \A e \in Clients : e # c => short'[e] = short[e]
          /\ ~short'[c]
      BY <1>3 DEF ReadArea, TypeOK
    <2>2. CASE short[c] /\ Goto(c, "refused")
      BY <2>1, <2>2, <1>c DEF LockState
    <2>3. CASE ~short[c] /\ Goto(c, "failed")
      <3>1. UNCHANGED short
        BY <1>3, <2>3 DEF ReadArea, TypeOK
      <3> QED
        BY <2>1, <2>3, <3>1, <1>b
    <2>4. CASE ~short[c] /\ Goto(c, "exec")
      BY <2>1, <2>4, <1>c DEF LockState
    <2>5. CASE /\ ~short[c] /\ Goto(c, "refused")
               /\ ~ \A a \in Counted(c) : Count[c][a] <= freeKey[a]
      <3>1. ~Cache!Fits(c)
        BY <2>5 DEF Cache!Fits, Counted
      <3> QED
        BY <2>1, <2>5, <3>1, <1>d DEF LockState
    <2> QED
      BY <1>3, <2>2, <2>3, <2>4, <2>5 DEF ReadArea
  <1>4. ASSUME NEW c \in Clients, Exec(c)
        PROVE  Cache!Acquire(c) \/ Cache!Fail(c) \/ UNCHANGED Cache!cache
    <2>1. pc[c] = "exec" /\ ~short[c]
      BY <1>0, <1>4 DEF Exec, WatchInv
    <2>2. CASE ~dirty[c] /\ Write(c, "on-hold", -1) /\ Goto(c, "held") /\ UNCHANGED short
      BY <2>1, <2>2, <1>a
    <2>3. CASE Goto(c, "watch") /\ UNCHANGED <<seatKey, freeKey, short>>
      BY <2>1, <2>3, <1>c DEF LockState
    <2>4. CASE Goto(c, "busy") /\ UNCHANGED <<seatKey, freeKey, short>>
      <3>1. CacheLock[c] = "none"
        BY <2>1, LockIsState DEF LockState
      <3>2. CacheLock' = [CacheLock EXCEPT ![c] = "failed"]
        BY <2>4, LockStep DEF LockState
      <3> QED
        BY <2>4, <3>1, <3>2 DEF Cache!Fail, Cache!Become
    <2> QED
      BY <1>4, <2>2, <2>3, <2>4 DEF Exec
  <1>5. ASSUME NEW c \in Clients, ExecLost(c) PROVE Cache!Acquire(c)
    BY <1>5, <1>a DEF ExecLost
  <1>6. ASSUME NEW c \in Clients, OnSuccess(c) PROVE UNCHANGED Cache!cache
    BY <1>6, <1>c DEF OnSuccess, LockState
  <1>e. ASSUME NEW c \in Clients, pc[c] \in {"held", "placed"}, Write(c, "available", 1),
               Goto(c, "returned"), UNCHANGED short
        PROVE  Cache!Return(c)
    <2>1. CacheLock[c] = "held"
      BY <1>e, LockIsState DEF LockState
    <2>2. CacheLock' = [CacheLock EXCEPT ![c] = "returned"]
      BY <1>e, LockStep DEF LockState
    <2> QED
      BY <1>e, <2>1, <2>2 DEF Cache!Return, Cache!Become, Cache!Write, Write
  <1>7. ASSUME NEW c \in Clients, OnFailed(c) PROVE Cache!Return(c)
    BY <1>7, <1>e DEF OnFailed
  <1>8. ASSUME NEW c \in Clients, FinalizeLock(c) PROVE Cache!Return(c) \/ Cache!Sell(c)
    <2>1. CASE Write(c, "available", 1) /\ Goto(c, "returned")
      BY <1>8, <2>1, <1>e DEF FinalizeLock
    <2>2. CASE Write(c, "sold", 0) /\ Goto(c, "sold")
      <3>1. CacheLock[c] = "held"
        BY <1>8, LockIsState DEF LockState, FinalizeLock
      <3>2. CacheLock' = [CacheLock EXCEPT ![c] = "sold"]
        BY <1>8, <2>2, LockStep DEF LockState, FinalizeLock
      <3> QED
        BY <2>2, <3>1, <3>2 DEF Cache!Sell, Cache!Become, Cache!Write, Write
    <2> QED
      BY <1>8, <2>1, <2>2 DEF FinalizeLock
  <1>9. CASE UNCHANGED vars
    BY <1>9 DEF vars, Cache!cache, CacheLock
  <1> QED
    BY <1>1, <1>2, <1>3, <1>4, <1>5, <1>6, <1>7, <1>8, <1>9
       DEF Next, TryAcquireLock, Cache!Next

\* The rounds of WATCH, reads and EXEC look like one atomic step to everybody.
THEOREM DropperImplementsCache == Spec => ImplementsCache
  <1>1. Spec => Cache!Init /\ [][Cache!Next]_(Cache!cache)
    BY CacheInit, CacheStep, DropperInvariant, PTL DEF Spec
  <1> QED
    BY <1>1 DEF ImplementsCache, Cache!Spec
=============================================================================
