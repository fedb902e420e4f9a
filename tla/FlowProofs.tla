----------------------------- MODULE FlowProofs -----------------------------
(***************************************************************************)
(* Proofs about FlowControl, for any number of requests, seats, areas and  *)
(* faults.                                                                 *)
(***************************************************************************)
EXTENDS FlowControl, PlaceSums, TLAPS

LEMMA CopyType ==
    /\ \A c \in Copies : c[1] \in Requests
    /\ \A r \in Requests : <<r, 1>> \in Copies
    /\ \A c \in Copies : Fresh(c) => Again(c) \in Copies /\ Again(c)[1] = c[1]
  BY FlowAssumption DEF Copies, Fresh, Again

\* What a write to the cache leaves behind.
LEMMA DropperWrite ==
    ASSUME TypeOK, NEW r \in Requests, NEW st \in Status, NEW d \in {-1, 0, 1},
           Dropper!Write(r, st, d), d = -1 => Dropper!Fits(r)
    PROVE  /\ seatKey' \in [Seats -> Status]
           /\ freeKey' \in [Areas -> Nat]
           /\ \A s \in Seats : seatKey'[s] = IF s \in Ids[r] THEN st ELSE seatKey[s]
  <1>1. ASSUME NEW a \in Areas PROVE freeKey[a] + d * Count[r][a] \in Nat
    <2>1. Count[r][a] \in Nat /\ freeKey[a] \in Nat
      BY FlowAssumption DEF TypeOK
    <2>2. d = -1 => Count[r][a] <= freeKey[a]
      BY DEF Dropper!Fits
    <2> QED
      BY <2>1, <2>2
  <1> QED
    BY <1>1 DEF TypeOK, Dropper!Write

\* The same for a write to the rows.
LEMMA RowsWrite ==
    ASSUME TypeOK, NEW r \in Requests, NEW st \in Status, NEW d \in {-1, 0, 1},
           Rows!Write(r, st, d), d = -1 => Rows!Fits(r)
    PROVE  /\ dbSeat' \in [Seats -> Status]
           /\ dbFree' \in [Areas -> Nat]
           /\ \A s \in Seats : dbSeat'[s] = IF s \in Ids[r] THEN st ELSE dbSeat[s]
  <1>1. ASSUME NEW a \in Areas PROVE dbFree[a] + d * Count[r][a] \in Nat
    <2>1. Count[r][a] \in Nat /\ dbFree[a] \in Nat
      BY FlowAssumption DEF TypeOK
    <2>2. d = -1 => Count[r][a] <= dbFree[a]
      BY DEF Rows!Fits
    <2> QED
      BY <2>1, <2>2
  <1> QED
    BY <1>1 DEF TypeOK, Rows!Write

LEMMA FaultType == TypeOK /\ Fault => faults' \in 0 .. MaxFaults
  BY FlowAssumption DEF TypeOK, Fault

LEMMA TypeInit == Init => TypeOK
  BY FlowAssumption DEF Init, TypeOK, Status

LEMMA TypeNext == TypeOK /\ [Next]_vars => TypeOK'
  <1> SUFFICES ASSUME TypeOK, [Next]_vars PROVE TypeOK'
    OBVIOUS
  <1> USE DEF Goto, Mark, Become, redis, db
  <1>1. ASSUME NEW r \in Requests, LookUp(r) PROVE TypeOK'
    BY <1>1 DEF TypeOK, LookUp
  <1>2. ASSUME NEW r \in Requests, Acquire(r) PROVE TypeOK'
    <2>1. seatKey' \in [Seats -> Status] /\ freeKey' \in [Areas -> Nat]
      BY <1>2, DropperWrite DEF Acquire, TypeOK, Status
    <2> QED
      BY <1>2, <2>1 DEF TypeOK, Acquire
  <1>3. ASSUME NEW r \in Requests, Publish(r) PROVE TypeOK'
    <2>1. seatKey' \in [Seats -> Status] /\ freeKey' \in [Areas -> Nat]
      BY <1>3, DropperWrite DEF Publish, TypeOK, Status
    <2> QED
      BY <1>3, <2>1, CopyType DEF TypeOK, Publish
  <1>4. ASSUME NEW r \in Requests, GiveUp(r) PROVE TypeOK'
    <2>1. seatKey' \in [Seats -> Status] /\ freeKey' \in [Areas -> Nat]
      BY <1>4, DropperWrite DEF GiveUp, Status
    <2> QED
      BY <1>4, <2>1 DEF TypeOK, GiveUp
  <1>5. ASSUME NEW r \in Requests, Store(r) PROVE TypeOK'
    BY <1>5, FlowAssumption DEF TypeOK, Store
  <1>6. ASSUME NEW r \in Requests, Crash(r) PROVE TypeOK'
    <2>1. faults' \in 0 .. MaxFaults
      BY <1>6, FaultType DEF Crash
    <2> QED
      BY <1>6, <2>1 DEF TypeOK, Crash
  <1>7. ASSUME NEW c \in Copies, Place(c) PROVE TypeOK'
    <2>1. dbSeat' \in [Seats -> Status] /\ dbFree' \in [Areas -> Nat]
      BY <1>7, RowsWrite, CopyType DEF Place, Status
    <2> QED
      BY <1>7, <2>1 DEF TypeOK, Place
  <1>8. ASSUME NEW c \in Copies, Refuse(c) PROVE TypeOK'
    BY <1>8 DEF TypeOK, Refuse
  <1>9. ASSUME NEW c \in Copies, Reply(c) PROVE TypeOK'
    BY <1>9 DEF TypeOK, Reply
  <1>10. ASSUME NEW c \in Copies, Receive(c) PROVE TypeOK'
    <2> DEFINE to == {q \in Requests : Key[q] = Key[c[1]] /\ pc[q] = "waiting"}
    <2>1. CASE UNCHANGED <<pc, redis>>
      BY <1>10, <2>1 DEF TypeOK, Receive
    <2>2. CASE \E q \in to : Goto(q, "store") /\ UNCHANGED redis
      BY <1>10, <2>2 DEF TypeOK, Receive
    <2>3. ASSUME NEW q \in to, Goto(q, "failed"), Dropper!Write(q, "available", 1)
          PROVE  TypeOK'
      <3>1. seatKey' \in [Seats -> Status] /\ freeKey' \in [Areas -> Nat]
        BY <2>3, DropperWrite DEF Status
      <3> QED
        BY <1>10, <2>3, <3>1 DEF TypeOK, Receive
    <2> HIDE DEF Goto
    <2> QED
      BY <1>10, <2>1, <2>2, <2>3 DEF Receive
  <1>11. ASSUME NEW c \in Copies, FinalizeLock(c) PROVE TypeOK'
    <2>1. seatKey' \in [Seats -> Status] /\ freeKey' \in [Areas -> Nat]
      BY <1>11, DropperWrite, CopyType DEF FinalizeLock, Status
    <2>2. faults' \in 0 .. MaxFaults
      BY <1>11, FaultType DEF FinalizeLock, TypeOK
    <2> QED
      BY <1>11, <2>1, <2>2 DEF TypeOK, FinalizeLock
  <1>12. ASSUME NEW c \in Copies, Settle(c) PROVE TypeOK'
    <2>1. dbSeat' \in [Seats -> Status] /\ dbFree' \in [Areas -> Nat]
      BY <1>12, RowsWrite, CopyType DEF Settle, Status
    <2> QED
      BY <1>12, <2>1 DEF TypeOK, Settle
  <1>13. ASSUME NEW c \in Copies, Redeliver(c) PROVE TypeOK'
    <2>1. faults' \in 0 .. MaxFaults
      BY <1>13, FaultType DEF Redeliver
    <2> QED
      BY <1>13, <2>1 DEF TypeOK, Redeliver
  <1>14. ASSUME NEW c \in Copies, LoseReply(c) PROVE TypeOK'
    <2>1. faults' \in 0 .. MaxFaults
      BY <1>14, FaultType DEF LoseReply
    <2> QED
      BY <1>14, <2>1 DEF TypeOK, LoseReply
  <1>15. CASE UNCHANGED vars
    BY <1>15 DEF TypeOK, vars
  <1> QED
    BY <1>1, <1>2, <1>3, <1>4, <1>5, <1>6, <1>7, <1>8, <1>9, <1>10, <1>11, <1>12,
       <1>13, <1>14, <1>15 DEF Next, Handler, Work, Webhook

\* Every variable keeps its type; no counter goes below zero, neither in the
\* cache nor in the database.
THEOREM FlowTypeCorrect == Spec => []TypeOK
  BY TypeInit, TypeNext, PTL DEF Spec

(***************************************************************************)
(* The rows: an order owns its seats in the database, whatever the cache   *)
(* and the broker do.                                                      *)
(***************************************************************************)

Live(c) == order[c] \notin {"none", "released"}

\* The seats of a live order are not available.
RowsInv == \A c \in Copies : Live(c) => \A s \in Ids[c[1]] : dbSeat[s] # "available"

\* A message has an order from the time it is placed, and none before; a request
\* that was not published has no message.
MsgInv ==
    \A c \in Copies :
        /\ msg[c] \in {"none", "queued", "refused", "no"} => order[c] = "none"
        /\ msg[c] \in {"placed", "yes"} => order[c] # "none"
        /\ pc[c[1]] \in {"idle", "miss", "held"} => msg[c] = "none"

OrderInv == RowsInv /\ MsgInv /\ NoDoubleOrder

LEMMA OrderInvInit == Init => OrderInv
  BY CopyType DEF Init, OrderInv, RowsInv, MsgInv, NoDoubleOrder, Live

LEMMA OrderInvNext == TypeOK /\ OrderInv /\ [Next]_vars => OrderInv'
  <1> SUFFICES ASSUME TypeOK, OrderInv, [Next]_vars PROVE OrderInv'
    OBVIOUS
  <1>0. RowsInv /\ MsgInv /\ NoDoubleOrder
    BY DEF OrderInv
  \* Steps that leave orders and rows alone have to keep MsgInv only.
  <1>a. ASSUME UNCHANGED <<order, dbSeat>>, MsgInv' PROVE OrderInv'
    BY <1>0, <1>a DEF OrderInv, RowsInv, NoDoubleOrder, Live
  <1>1. ASSUME NEW r \in Requests, LookUp(r) PROVE OrderInv'
    <2>1. MsgInv'
      BY <1>0, <1>1, CopyType DEF LookUp, MsgInv, Goto, TypeOK
    <2> QED
      BY <1>1, <2>1, <1>a DEF LookUp, db
  <1>2. ASSUME NEW r \in Requests, Acquire(r) PROVE OrderInv'
    <2>1. MsgInv'
      BY <1>0, <1>2, CopyType DEF Acquire, MsgInv, Goto, TypeOK
    <2> QED
      BY <1>2, <2>1, <1>a DEF Acquire, db
  <1>3. ASSUME NEW r \in Requests, Publish(r) PROVE OrderInv'
    <2>1. order[<<r, 1>>] = "none"
      BY <1>0, <1>3, CopyType DEF Publish, MsgInv
    <2>2. MsgInv'
      BY <1>0, <1>3, <2>1, CopyType DEF Publish, MsgInv, Goto, Mark, TypeOK
    <2> QED
      BY <1>3, <2>2, <1>a DEF Publish, db
  <1>4. ASSUME NEW r \in Requests, GiveUp(r) PROVE OrderInv'
    <2>1. MsgInv'
      BY <1>0, <1>4, CopyType DEF GiveUp, MsgInv, Goto, TypeOK
    <2> QED
      BY <1>4, <2>1, <1>a DEF GiveUp, db
  <1>5. ASSUME NEW r \in Requests, Store(r) PROVE OrderInv'
    <2>1. MsgInv'
      BY <1>0, <1>5, CopyType DEF Store, MsgInv, Goto, TypeOK
    <2> QED
      BY <1>5, <2>1, <1>a DEF Store, db
  <1>6. ASSUME NEW r \in Requests, Crash(r) PROVE OrderInv'
    <2>1. MsgInv'
      BY <1>0, <1>6, CopyType DEF Crash, MsgInv, Goto, TypeOK
    <2> QED
      BY <1>6, <2>1, <1>a DEF Crash, db
  <1>7. ASSUME NEW c \in Copies, Place(c) PROVE OrderInv'
    <2>1. c[1] \in Requests /\ order[c] = "none" /\ pc[c[1]] \notin {"idle", "miss", "held"}
      BY <1>0, <1>7, CopyType DEF Place, MsgInv
    <2>2. \A s \in Ids[c[1]] : dbSeat[s] = "available"
      BY <1>7 DEF Place, Rows!Fits
    <2>3. \A s \in Seats : dbSeat'[s] = IF s \in Ids[c[1]] THEN "on-hold" ELSE dbSeat[s]
      BY <1>7, <2>1, RowsWrite DEF Place, Status
    <2>4. \A d \in Copies : order'[d] = IF d = c THEN "held" ELSE order[d]
      BY <1>7 DEF Place, Become, TypeOK
    <2>5. \A d \in Copies : msg'[d] = IF d = c THEN "placed" ELSE msg[d]
      BY <1>7 DEF Place, Mark, TypeOK
    <2>6. \A d \in Copies : Ids[d[1]] \subseteq Seats
      BY CopyType, FlowAssumption
    <2>7. RowsInv'
      BY <1>0, <2>3, <2>4, <2>6 DEF RowsInv, Live
    <2>8. MsgInv'
      BY <1>0, <1>7, <2>1, <2>4, <2>5 DEF MsgInv, Place
    <2>9. \A d \in Copies : Live(d) => Ids[c[1]] \cap Ids[d[1]] = {}
      BY <1>0, <2>2 DEF RowsInv
    <2>10. NoDoubleOrder'
      BY <1>0, <2>4, <2>9 DEF NoDoubleOrder, Live
    <2> QED
      BY <2>7, <2>8, <2>10 DEF OrderInv
  <1>8. ASSUME NEW c \in Copies, Refuse(c) PROVE OrderInv'
    <2>1. MsgInv'
      BY <1>0, <1>8, CopyType DEF Refuse, MsgInv, Mark, TypeOK
    <2> QED
      BY <1>8, <2>1, <1>a DEF Refuse, db
  <1>9. ASSUME NEW c \in Copies, Reply(c) PROVE OrderInv'
    <2>1. MsgInv'
      BY <1>0, <1>9, CopyType DEF Reply, MsgInv, Mark, TypeOK
    <2> QED
      BY <1>9, <2>1, <1>a DEF Reply, db
  <1>10. ASSUME NEW c \in Copies, Receive(c) PROVE OrderInv'
    <2>1. \A r \in Requests : pc'[r] \in {"idle", "miss", "held"} => pc'[r] = pc[r]
      BY <1>10 DEF Receive, Goto, TypeOK
    <2>2. \A d \in Copies : msg'[d] = IF d = c THEN "done" ELSE msg[d]
      BY <1>10 DEF Receive, Mark, TypeOK
    <2>3. UNCHANGED <<order, dbSeat>> /\ msg[c] \in {"yes", "no"}
      BY <1>10 DEF Receive, db
    <2>4. MsgInv'
      BY <1>0, <2>1, <2>2, <2>3, CopyType DEF MsgInv
    <2> QED
      BY <2>3, <2>4, <1>a
  <1>11. ASSUME NEW c \in Copies, FinalizeLock(c) PROVE OrderInv'
    <2>1. UNCHANGED <<msg, pc, dbSeat>> /\ order[c] \notin {"none", "released"}
      BY <1>11 DEF FinalizeLock, db
    <2>2. \A d \in Copies : d # c => order'[d] = order[d]
      BY <1>11 DEF FinalizeLock, Become, TypeOK
    <2>3. order'[c] \notin {"none", "released"}
      BY <1>11 DEF FinalizeLock, Become, TypeOK
    <2>4. RowsInv'
      BY <1>0, <2>1, <2>2, <2>3 DEF RowsInv, Live
    <2>5. MsgInv'
      BY <1>0, <2>1, <2>2, <2>3 DEF MsgInv
    <2>6. NoDoubleOrder'
      BY <1>0, <2>1, <2>2, <2>3 DEF NoDoubleOrder
    <2> QED
      BY <2>4, <2>5, <2>6 DEF OrderInv
  <1>12. ASSUME NEW c \in Copies, Settle(c) PROVE OrderInv'
    <2>1. UNCHANGED <<msg, pc>> /\ order[c] \notin {"none", "released"}
      BY <1>12 DEF Settle
    <2>2. \A d \in Copies : d # c => order'[d] = order[d]
      BY <1>12 DEF Settle, Become, TypeOK
    <2>3. order'[c] # "none"
      BY <1>12 DEF Settle, Become, TypeOK
    <2>4. /\ order'[c] # "released" => \A s \in Ids[c[1]] : dbSeat'[s] # "available"
          /\ \A s \in Seats : s \notin Ids[c[1]] => dbSeat'[s] = dbSeat[s]
      BY <1>12, RowsWrite, CopyType, FlowAssumption DEF Settle, Status, Become, TypeOK
    <2>5. \A d \in Copies : d # c /\ Live(d) => Ids[c[1]] \cap Ids[d[1]] = {}
      BY <1>0, <2>1 DEF NoDoubleOrder, Live
    <2>6. \A d \in Copies : Ids[d[1]] \subseteq Seats
      BY CopyType, FlowAssumption
    <2>7. RowsInv'
      BY <1>0, <2>2, <2>3, <2>4, <2>5, <2>6 DEF RowsInv, Live
    <2>8. MsgInv'
      BY <1>0, <2>1, <2>2, <2>3 DEF MsgInv
    <2>9. NoDoubleOrder'
      BY <1>0, <2>1, <2>2, <2>3 DEF NoDoubleOrder
    <2> QED
      BY <2>7, <2>8, <2>9 DEF OrderInv
  <1>13. ASSUME NEW c \in Copies, Redeliver(c) PROVE OrderInv'
    <2>1. /\ Again(c) \in Copies /\ Again(c)[1] = c[1]
          /\ msg[Again(c)] = "none" /\ msg[c] # "none"
      BY <1>13, CopyType DEF Redeliver, Fresh, Again
    <2>2. MsgInv'
      BY <1>0, <1>13, <2>1 DEF Redeliver, MsgInv, Mark, TypeOK
    <2> QED
      BY <1>13, <2>2, <1>a DEF Redeliver, db
  <1>14. ASSUME NEW c \in Copies, LoseReply(c) PROVE OrderInv'
    <2>1. CASE Mark(c, "done")
      <3>1. MsgInv'
        BY <1>0, <1>14, <2>1 DEF LoseReply, MsgInv, Mark, TypeOK
      <3> QED
        BY <1>14, <3>1, <1>a DEF LoseReply, db
    <2>2. CASE Fresh(c) /\ msg' = [msg EXCEPT ![c] = "done", ![Again(c)] = "queued"]
      <3>1. /\ Again(c) \in Copies /\ Again(c)[1] = c[1]
            /\ msg[Again(c)] = "none" /\ msg[c] \in {"placed", "refused"}
        BY <1>14, <2>2, CopyType DEF LoseReply, Fresh, Again
      <3>2. \A d \in Copies :
                msg'[d] = IF d = Again(c) THEN "queued" ELSE IF d = c THEN "done" ELSE msg[d]
        BY <2>2, <3>1 DEF TypeOK
      <3>3. MsgInv'
        BY <1>0, <1>14, <3>1, <3>2 DEF LoseReply, MsgInv
      <3> QED
        BY <1>14, <3>3, <1>a DEF LoseReply, db
    <2> QED
      BY <1>14, <2>1, <2>2 DEF LoseReply
  <1>15. CASE UNCHANGED vars
    <2>1. MsgInv'
      BY <1>0, <1>15 DEF vars, MsgInv
    <2> QED
      BY <1>15, <2>1, <1>a DEF vars, db
  <1> QED
    BY <1>1, <1>2, <1>3, <1>4, <1>5, <1>6, <1>7, <1>8, <1>9, <1>10, <1>11, <1>12,
       <1>13, <1>14, <1>15 DEF Next, Handler, Work, Webhook

\* Orders own their rows and agree with their messages in every reachable state.
THEOREM FlowOrderInvariant == Spec => [](TypeOK /\ OrderInv)
  BY TypeInit, TypeNext, OrderInvInit, OrderInvNext, PTL DEF Spec

\* No seat is in two orders, however often requests are delivered and repeated.
THEOREM FlowNoDoubleOrder == Spec => []NoDoubleOrder
  <1>1. TypeOK /\ OrderInv => NoDoubleOrder
    BY DEF OrderInv
  <1> QED
    BY <1>1, FlowOrderInvariant, PTL

(***************************************************************************)
(* The refinement of SeatLedger.                                           *)
(***************************************************************************)

\* The orders of the workers as a ledger of numbered seats: what the cache is told of
\* a settlement is nothing a reader of the database sees.
LedgerPhase ==
    [c \in Copies |-> IF order[c] \in {"selling", "releasing"} THEN "held" ELSE order[c]]
LedgerSeats == [c \in Copies |-> IF order[c] = "none" THEN {} ELSE Ids[c[1]]]

Ledger == INSTANCE SeatLedger WITH Orders <- Copies,
                                   phase <- LedgerPhase, seatsOf <- LedgerSeats

\* With workers, redelivery and repetition the promise of the ledger is the same as
\* without: an order holds seats nobody has, and sells or releases all of them.
ImplementsLedger == Ledger!Spec

\* Of what the ledger shows of another order, a change of one order changes nothing.
LEMMA LedgerWrite ==
    ASSUME TypeOK, NEW c \in Copies, NEW next, Become(c, next), order[c] # "none", next # "none"
    PROVE  /\ UNCHANGED LedgerSeats
           /\ LedgerPhase' = [LedgerPhase EXCEPT ![c] =
                                  IF next \in {"selling", "releasing"} THEN "held" ELSE next]
  <1>1. \A d \in Copies : order'[d] = IF d = c THEN next ELSE order[d]
    BY DEF Become, TypeOK
  <1>2. UNCHANGED LedgerSeats
    BY <1>1 DEF LedgerSeats
  <1> QED
    BY <1>1, <1>2 DEF LedgerPhase

LEMMA LedgerStep == TypeOK /\ OrderInv /\ [Next]_vars => [Ledger!Next]_(Ledger!ledger)
  <1> SUFFICES ASSUME TypeOK, OrderInv, [Next]_vars PROVE [Ledger!Next]_(Ledger!ledger)
    OBVIOUS
  <1>1. ASSUME UNCHANGED order PROVE UNCHANGED Ledger!ledger
    BY <1>1 DEF Ledger!ledger, LedgerPhase, LedgerSeats
  <1>2. ASSUME NEW c \in Copies, Place(c) PROVE Ledger!Next
    <2>1. order[c] = "none" /\ c[1] \in Requests
      BY <1>2, CopyType DEF Place, OrderInv, MsgInv
    <2>2. \A d \in Copies : order'[d] = IF d = c THEN "held" ELSE order[d]
      BY <1>2 DEF Place, Become, TypeOK
    <2>3. /\ LedgerPhase[c] = "none"
          /\ LedgerPhase' = [LedgerPhase EXCEPT ![c] = "held"]
          /\ LedgerSeats' = [LedgerSeats EXCEPT ![c] = Ids[c[1]]]
      BY <2>1, <2>2 DEF LedgerPhase, LedgerSeats
    <2>4. ASSUME NEW d \in Copies, Ledger!Live(d) PROVE LedgerSeats[d] \cap Ids[c[1]] = {}
      <3>1. Live(d) /\ LedgerSeats[d] = Ids[d[1]] /\ d[1] \in Requests
        BY <2>4, CopyType DEF Ledger!Live, LedgerPhase, LedgerSeats, Live, TypeOK
      <3>2. \A s \in Ids[d[1]] : dbSeat[s] # "available"
        BY <3>1 DEF OrderInv, RowsInv
      <3>3. \A s \in Ids[c[1]] : dbSeat[s] = "available"
        BY <1>2 DEF Place, Rows!Fits
      <3> QED
        BY <3>1, <3>2, <3>3
    <2>5. Ids[c[1]] \in SUBSET Seats
      BY <2>1, FlowAssumption
    <2> QED
      BY <2>3, <2>4, <2>5 DEF Ledger!Next, Ledger!Hold
  <1>3. ASSUME NEW c \in Copies, FinalizeLock(c) PROVE UNCHANGED Ledger!ledger
    <2>1. PICK next \in {"selling", "releasing"} :
              order[c] \in {"held", "selling", "releasing"} /\ Become(c, next)
      BY <1>3 DEF FinalizeLock
    <2>2. UNCHANGED LedgerSeats /\ LedgerPhase' = [LedgerPhase EXCEPT ![c] = "held"]
      BY <2>1, LedgerWrite
    <2>3. LedgerPhase[c] = "held"
      BY <2>1 DEF LedgerPhase
    <2> QED
      BY <2>2, <2>3 DEF Ledger!ledger, LedgerPhase
  <1>4. ASSUME NEW c \in Copies, Settle(c) PROVE Ledger!Next
    <2>1. LedgerPhase[c] = "held"
      BY <1>4 DEF Settle, LedgerPhase
    <2>2. CASE Become(c, "sold") /\ order[c] = "selling"
      BY <2>1, <2>2, LedgerWrite DEF Ledger!Next, Ledger!Sell
    <2>3. CASE Become(c, "released") /\ order[c] = "releasing"
      BY <2>1, <2>3, LedgerWrite DEF Ledger!Next, Ledger!Release
    <2> QED
      BY <1>4, <2>2, <2>3 DEF Settle
  <1>5. ASSUME NEW r \in Requests, Handler(r) \/ Crash(r) PROVE UNCHANGED order
    BY <1>5 DEF Handler, LookUp, Acquire, Publish, GiveUp, Store, Crash
  <1>6. ASSUME NEW c \in Copies, Refuse(c) \/ Reply(c) \/ Receive(c) \/ Redeliver(c) \/ LoseReply(c)
        PROVE  UNCHANGED order
    BY <1>6 DEF Refuse, Reply, Receive, Redeliver, LoseReply
  <1> QED
    BY <1>1, <1>2, <1>3, <1>4, <1>5, <1>6 DEF Next, Work, Webhook, vars

\* The orders of the workers implement the ledger that the transactions of Booking
\* implement too, through redelivered and repeated requests.
THEOREM FlowImplementsLedger == Spec => ImplementsLedger
  <1>1. Init => Ledger!Init
    BY DEF Init, Ledger!Init, LedgerPhase, LedgerSeats
  <1>2. TypeOK /\ OrderInv /\ [Next]_vars => [Ledger!Next]_(Ledger!ledger)
    BY LedgerStep
  <1> QED
    BY <1>1, <1>2, FlowOrderInvariant, PTL DEF Spec, ImplementsLedger, Ledger!Spec

\* What a ledger of seats promises, whoever keeps it: a seat is in one live order.
THEOREM LedgerExclusive == Ledger!Spec => []Ledger!Exclusive
  <1>1. Ledger!Init => Ledger!TypeOK /\ Ledger!Exclusive
    BY DEF Ledger!Init, Ledger!TypeOK, Ledger!Exclusive, Ledger!Live
  <1>2. Ledger!TypeOK /\ Ledger!Exclusive /\ [Ledger!Next]_(Ledger!ledger)
            => (Ledger!TypeOK /\ Ledger!Exclusive)'
    <2> SUFFICES ASSUME Ledger!TypeOK, Ledger!Exclusive, [Ledger!Next]_(Ledger!ledger)
                 PROVE  Ledger!TypeOK' /\ Ledger!Exclusive'
      OBVIOUS
    <2>1. ASSUME NEW c \in Copies, NEW S \in SUBSET Seats, Ledger!Hold(c, S)
          PROVE  Ledger!TypeOK' /\ Ledger!Exclusive'
      BY <2>1 DEF Ledger!Hold, Ledger!TypeOK, Ledger!Exclusive, Ledger!Live
    <2>2. ASSUME NEW c \in Copies, Ledger!Sell(c) \/ Ledger!Release(c)
          PROVE  Ledger!TypeOK' /\ Ledger!Exclusive'
      BY <2>2 DEF Ledger!Sell, Ledger!Release, Ledger!TypeOK, Ledger!Exclusive, Ledger!Live
    <2>3. CASE UNCHANGED Ledger!ledger
      BY <2>3 DEF Ledger!ledger, Ledger!TypeOK, Ledger!Exclusive, Ledger!Live
    <2> QED
      BY <2>1, <2>2, <2>3 DEF Ledger!Next
  <1> QED
    BY <1>1, <1>2, PTL DEF Ledger!Spec

(***************************************************************************)
(* The keys: a seat that the cache refuses is accounted for.               *)
(***************************************************************************)

\* An order of request r was given back to the cache.
GivenBack(r) == \E c \in Copies : c[1] = r /\ order[c] \in {"releasing", "released"}

\* A request for seat s was told of the order of another request with its key, and
\* that order was given back.  Nobody releases the lock of a request that has
\* succeeded, and the order that it stands for is gone.
Borrowed(s) ==
    \E r \in Requests, c \in Copies :
        /\ s \in Ids[r] /\ pc[r] \in {"store", "ok"}
        /\ c[1] # r /\ Key[c[1]] = Key[r]
        /\ order[c] \in {"releasing", "released"}

\* Whoever answers for the key of seat s: an order that is not being released, or
\* a request with the lock that no settlement has given back behind its back, or
\* one that was told of the order of another.
Answerable(s) ==
    \/ \E c \in Copies : s \in Ids[c[1]] /\ order[c] \in {"held", "selling", "sold"}
    \/ \E r \in Locked : s \in Ids[r] /\ ~GivenBack(r)
    \/ Borrowed(s)

KeyInv == \A s \in Seats : seatKey[s] = "available" \/ Answerable(s)

\* Requests with one idempotency key name the same seats: a client repeats its
\* request as it was.
SameSeats == \A q, r \in Requests : Key[q] = Key[r] => Ids[q] = Ids[r]

\* Every seat that the cache refuses is accounted for, or stranded.
SeatsAccounted ==
    \A s \in Seats :
        \/ seatKey[s] = "available"
        \/ dbSeat[s] # "available"
        \/ \E r \in Holding \cup (Locked \cap Queued) \cup Stranded : s \in Ids[r]
        \/ Borrowed(s)

\* A success is not taken back, nor is a release.
Firm ==
    /\ \A r \in Requests : pc[r] \in {"store", "ok"} => pc'[r] \in {"store", "ok"}
    /\ \A c \in Copies : order[c] \in {"releasing", "released"} =>
                             order'[c] \in {"releasing", "released"}

LEMMA KeyInvInit == Init => KeyInv
  BY DEF Init, KeyInv

LEMMA KeyInvGives == OrderInv /\ KeyInv => SeatsAccounted
  <1> SUFFICES ASSUME OrderInv, KeyInv, NEW s \in Seats, seatKey[s] # "available"
               PROVE  \/ dbSeat[s] # "available"
                      \/ \E r \in Holding \cup (Locked \cap Queued) \cup Stranded : s \in Ids[r]
                      \/ Borrowed(s)
    BY DEF SeatsAccounted
  <1>1. ASSUME NEW c \in Copies, s \in Ids[c[1]], order[c] \in {"held", "selling", "sold"}
        PROVE  dbSeat[s] # "available"
    BY <1>1 DEF OrderInv, RowsInv, Live
  \* An order of a request whose server has died owns the seat in the database.
  <1>2. ASSUME NEW r \in Locked, s \in Ids[r], ~GivenBack(r), dbSeat[s] = "available"
        PROVE  r \in Holding \cup (Locked \cap Queued) \cup Stranded
    <2>1. \A c \in Copies : c[1] = r => order[c] = "none"
      BY <1>2 DEF OrderInv, RowsInv, Live, GivenBack
    <2> QED
      BY <1>2, <2>1 DEF Locked, Holding, Stranded
  <1> QED
    BY <1>1, <1>2 DEF KeyInv, Answerable

LEMMA StepFirm == TypeOK /\ OrderInv /\ [Next]_vars => Firm
  <1> SUFFICES ASSUME TypeOK, OrderInv, [Next]_vars PROVE Firm
    OBVIOUS
  <1>1. ASSUME NEW r \in Requests, LookUp(r) \/ Acquire(r) \/ Publish(r) \/ GiveUp(r) PROVE Firm
    BY <1>1 DEF LookUp, Acquire, Publish, GiveUp, Goto, TypeOK, Firm
  <1>2. ASSUME NEW r \in Requests, Store(r) \/ Crash(r) PROVE Firm
    BY <1>2 DEF Store, Crash, Goto, TypeOK, Firm
  <1>3. ASSUME NEW c \in Copies, Place(c) PROVE Firm
    <2>1. order[c] = "none"
      BY <1>3 DEF Place, OrderInv, MsgInv
    <2> QED
      BY <1>3, <2>1 DEF Place, Become, TypeOK, Firm
  <1>4. ASSUME NEW c \in Copies, Refuse(c) \/ Reply(c) \/ Redeliver(c) \/ LoseReply(c) PROVE Firm
    BY <1>4 DEF Refuse, Reply, Redeliver, LoseReply, Firm
  <1>5. ASSUME NEW c \in Copies, Receive(c) PROVE Firm
    <2>1. UNCHANGED order
      BY <1>5 DEF Receive
    <2>2. CASE UNCHANGED pc
      BY <2>1, <2>2 DEF Firm
    <2>3. ASSUME NEW q \in Requests, pc[q] = "waiting", Goto(q, "store") \/ Goto(q, "failed")
          PROVE  Firm
      BY <2>1, <2>3 DEF Goto, TypeOK, Firm
    <2> QED
      BY <1>5, <2>2, <2>3 DEF Receive
  <1>6. ASSUME NEW c \in Copies, FinalizeLock(c) \/ Settle(c) PROVE Firm
    BY <1>6 DEF FinalizeLock, Settle, Become, TypeOK, Firm
  <1>7. CASE UNCHANGED vars
    BY <1>7 DEF vars, Firm
  <1> QED
    BY <1>1, <1>2, <1>3, <1>4, <1>5, <1>6, <1>7 DEF Next, Handler, Work, Webhook

\* What was borrowed stays borrowed.
LEMMA StillBorrowed ==
    ASSUME Firm, NEW s, Borrowed(s)
    PROVE  Borrowed(s)'
  BY DEF Firm, Borrowed

\* A request that returns its lock takes its seats out of the account.
LEMMA ReturnKeepsKeyInv ==
    ASSUME TypeOK, KeyInv, NEW r \in Requests, NEW next, Goto(r, next),
           Dropper!Write(r, "available", 1), UNCHANGED order
    PROVE  KeyInv'
  <1> SUFFICES ASSUME NEW s \in Seats, s \notin Ids[r] PROVE seatKey'[s] = "available" \/ Answerable(s)'
    <2>1. \A s \in Ids[r] : s \in Seats => seatKey'[s] = "available"
      BY DropperWrite DEF Status
    <2> QED
      BY <2>1 DEF KeyInv
  <1>1. seatKey'[s] = seatKey[s]
    BY DropperWrite DEF Status
  <1>2. \A q \in Requests : q # r => pc'[q] = pc[q]
    BY DEF Goto, TypeOK
  <1>3. \A q \in Locked : s \in Ids[q] => q \in Locked'
    BY <1>2 DEF Locked
  <1>4. Borrowed(s) => Borrowed(s)'
    BY <1>2 DEF Borrowed
  <1> QED
    BY <1>1, <1>3, <1>4 DEF KeyInv, Answerable, GivenBack

\* Steps that write no key, finish no order and let go of no lock keep the account.
LEMMA QuietKeepsKeyInv ==
    ASSUME TypeOK, KeyInv, Firm, UNCHANGED <<seatKey, order>>, Locked \subseteq Locked'
    PROVE  KeyInv'
  BY StillBorrowed DEF KeyInv, Answerable, GivenBack

LEMMA KeyInvNext ==
    ASSUME SameSeats
    PROVE  TypeOK /\ OrderInv /\ KeyInv /\ [Next]_vars => KeyInv'
  <1> SUFFICES ASSUME TypeOK, OrderInv, KeyInv, [Next]_vars PROVE KeyInv'
    OBVIOUS
  <1>0. RowsInv /\ MsgInv /\ NoDoubleOrder
    BY DEF OrderInv
  <1>f. Firm
    BY StepFirm
  <1>b. \A s : Borrowed(s) => Borrowed(s)'
    BY <1>f, StillBorrowed
  <1>1. ASSUME NEW r \in Requests, LookUp(r) PROVE KeyInv'
    BY <1>1, <1>f, QuietKeepsKeyInv DEF LookUp, redis, Goto, TypeOK, Locked
  <1>2. ASSUME NEW r \in Requests, Acquire(r) PROVE KeyInv'
    <2>1. CASE UNCHANGED redis
      BY <1>2, <2>1, <1>f, QuietKeepsKeyInv DEF Acquire, redis, Goto, TypeOK, Locked
    <2>2. CASE Dropper!Fits(r) /\ Dropper!Write(r, "on-hold", -1) /\ Goto(r, "held")
      <3>1. \A q \in Requests : pc'[q] = IF q = r THEN "held" ELSE pc[q]
        BY <2>2 DEF Goto, TypeOK
      <3>2. Locked' = Locked \cup {r}
        BY <3>1 DEF Locked
      <3>3. ~GivenBack(r)
        BY <1>0, <1>2, CopyType DEF Acquire, MsgInv, GivenBack
      <3>4. UNCHANGED order
        BY <1>2 DEF Acquire
      <3>5. \A s \in Seats : s \notin Ids[r] => seatKey'[s] = seatKey[s]
        BY <2>2, DropperWrite DEF Status
      <3>6. \A s \in Ids[r] : Answerable(s)'
        BY <3>2, <3>3, <3>4 DEF Answerable, GivenBack
      <3>7. \A s \in Seats : Answerable(s) => Answerable(s)'
        BY <3>2, <3>4, <1>b DEF Answerable, GivenBack
      <3> QED
        BY <3>5, <3>6, <3>7 DEF KeyInv
    <2> QED
      BY <1>2, <2>1, <2>2 DEF Acquire
  <1>3. ASSUME NEW r \in Requests, Publish(r) PROVE KeyInv'
    <2>1. CASE Goto(r, "waiting") /\ UNCHANGED redis
      BY <1>3, <2>1, <1>f, QuietKeepsKeyInv DEF Publish, redis, Goto, TypeOK, Locked
    <2>2. CASE Goto(r, "failed") /\ Dropper!Write(r, "available", 1)
      BY <1>3, <2>2, ReturnKeepsKeyInv DEF Publish
    <2> QED
      BY <1>3, <2>1, <2>2 DEF Publish
  <1>4. ASSUME NEW r \in Requests, GiveUp(r) PROVE KeyInv'
    BY <1>4, ReturnKeepsKeyInv DEF GiveUp
  <1>5. ASSUME NEW r \in Requests, Store(r) PROVE KeyInv'
    BY <1>5, <1>f, QuietKeepsKeyInv DEF Store, redis, Goto, TypeOK, Locked
  <1>6. ASSUME NEW r \in Requests, Crash(r) PROVE KeyInv'
    BY <1>6, <1>f, QuietKeepsKeyInv DEF Crash, redis, Goto, TypeOK, Locked
  <1>7. ASSUME NEW c \in Copies, Place(c) PROVE KeyInv'
    <2>1. order[c] = "none" /\ UNCHANGED <<seatKey, pc>>
      BY <1>0, <1>7 DEF Place, MsgInv, redis
    <2>2. \A d \in Copies : order'[d] = IF d = c THEN "held" ELSE order[d]
      BY <1>7 DEF Place, Become, TypeOK
    <2>3. \A r \in Locked : r \in Locked' /\ (~GivenBack(r) => ~GivenBack(r)')
      BY <2>1, <2>2 DEF Locked, GivenBack
    <2> QED
      BY <2>1, <2>2, <2>3, <1>b DEF KeyInv, Answerable
  <1>8. ASSUME NEW c \in Copies, Refuse(c) PROVE KeyInv'
    BY <1>8, <1>f, QuietKeepsKeyInv DEF Refuse, redis, Locked
  <1>9. ASSUME NEW c \in Copies, Reply(c) PROVE KeyInv'
    BY <1>9, <1>f, QuietKeepsKeyInv DEF Reply, redis, Locked
  <1>10. ASSUME NEW c \in Copies, Receive(c) PROVE KeyInv'
    <2>1. CASE UNCHANGED <<pc, redis>>
      BY <1>10, <2>1, <1>f, QuietKeepsKeyInv DEF Receive, redis, Locked
    <2>2. ASSUME msg[c] = "yes", UNCHANGED redis,
                 NEW q \in Requests, Key[q] = Key[c[1]], Goto(q, "store")
          PROVE  KeyInv'
      <3>1. UNCHANGED <<seatKey, order>>
        BY <1>10, <2>2 DEF Receive, redis
      <3>2. \A r \in Requests : r # q => pc'[r] = pc[r]
        BY <2>2 DEF Goto, TypeOK
      <3>3. \A r \in Locked : r # q => r \in Locked'
        BY <3>2 DEF Locked
      <3>4. ASSUME NEW s \in Ids[q], ~GivenBack(q) PROVE Answerable(s)'
        <4>1. c[1] \in Requests /\ s \in Ids[c[1]] /\ order[c] # "none"
          BY <1>0, <2>2, <3>4, CopyType DEF SameSeats, MsgInv
        <4>2. CASE order[c] \in {"held", "selling", "sold"}
          BY <3>1, <4>1, <4>2 DEF Answerable
        <4>3. CASE order[c] \in {"releasing", "released"}
          <5>1. c[1] # q
            BY <3>4, <4>3 DEF GivenBack
          <5>2. pc'[q] = "store"
            BY <2>2 DEF Goto, TypeOK
          <5> QED
            BY <2>2, <3>1, <3>4, <4>3, <5>1, <5>2 DEF Answerable, Borrowed
        <4> QED
          BY <4>1, <4>2, <4>3 DEF TypeOK
      <3> QED
        BY <3>1, <3>3, <3>4, <1>b DEF KeyInv, Answerable, GivenBack
    <2>3. ASSUME NEW q \in Requests, Goto(q, "failed"), Dropper!Write(q, "available", 1)
          PROVE  KeyInv'
      BY <1>10, <2>3, ReturnKeepsKeyInv DEF Receive
    <2> QED
      BY <1>10, <2>1, <2>2, <2>3 DEF Receive
  <1>11. ASSUME NEW c \in Copies, FinalizeLock(c) PROVE KeyInv'
    <2>0. c[1] \in Requests /\ UNCHANGED pc /\ Locked' = Locked
      BY <1>11, CopyType DEF FinalizeLock, Locked
    <2>1. CASE Become(c, "selling") /\ Dropper!Write(c[1], "sold", 0)
      <3>1. \A d \in Copies : order'[d] = IF d = c THEN "selling" ELSE order[d]
        BY <2>1 DEF Become, TypeOK
      <3>2. \A s \in Seats : s \notin Ids[c[1]] => seatKey'[s] = seatKey[s]
        BY <2>0, <2>1, DropperWrite DEF Status
      <3>3. \A s \in Ids[c[1]] : Answerable(s)'
        BY <3>1 DEF Answerable
      <3>4. \A s \in Seats : Answerable(s) => Answerable(s)'
        BY <2>0, <3>1, <1>b DEF Answerable, GivenBack
      <3> QED
        BY <3>2, <3>3, <3>4 DEF KeyInv
    <2>2. CASE Become(c, "releasing") /\ Dropper!Write(c[1], "available", 1)
      <3>1. \A d \in Copies : order'[d] = IF d = c THEN "releasing" ELSE order[d]
        BY <2>2 DEF Become, TypeOK
      <3>2. \A s \in Seats : seatKey'[s] = IF s \in Ids[c[1]] THEN "available" ELSE seatKey[s]
        BY <2>0, <2>2, DropperWrite DEF Status
      <3>3. \A s \in Seats : s \notin Ids[c[1]] /\ Answerable(s) => Answerable(s)'
        BY <2>0, <3>1, <1>b DEF Answerable, GivenBack
      <3> QED
        BY <3>2, <3>3 DEF KeyInv
    <2> QED
      BY <1>11, <2>1, <2>2 DEF FinalizeLock
  <1>12. ASSUME NEW c \in Copies, Settle(c) PROVE KeyInv'
    <2>1. UNCHANGED <<seatKey, pc>>
      BY <1>12 DEF Settle, redis
    <2>2. \/ order[c] = "selling" /\ order' = [order EXCEPT ![c] = "sold"]
          \/ order[c] = "releasing" /\ order' = [order EXCEPT ![c] = "released"]
      BY <1>12 DEF Settle, Become
    <2>3. \A s \in Seats : Answerable(s) => Answerable(s)'
      BY <2>1, <2>2, <1>b DEF Answerable, GivenBack, Locked, TypeOK
    <2> QED
      BY <2>1, <2>3 DEF KeyInv
  <1>13. ASSUME NEW c \in Copies, Redeliver(c) PROVE KeyInv'
    BY <1>13, <1>f, QuietKeepsKeyInv DEF Redeliver, redis, Locked
  <1>14. ASSUME NEW c \in Copies, LoseReply(c) PROVE KeyInv'
    BY <1>14, <1>f, QuietKeepsKeyInv DEF LoseReply, redis, Locked
  <1>15. CASE UNCHANGED vars
    BY <1>15, <1>f, QuietKeepsKeyInv DEF vars, redis, Locked
  <1> QED
    BY <1>1, <1>2, <1>3, <1>4, <1>5, <1>6, <1>7, <1>8, <1>9, <1>10, <1>11, <1>12,
       <1>13, <1>14, <1>15 DEF Next, Handler, Work, Webhook

\* When a request is repeated as it was, the cache turns requests for a seat away only
\* when the seat is taken in the database, a live handler or a queued message has to
\* do with it, somebody was told of an order of the request it repeats that is given
\* back by now, or a server has died with the lock and left no order for it.
THEOREM FlowSeatsAccounted ==
    ASSUME SameSeats
    PROVE  Spec => []SeatsAccounted
  <1>1. TypeOK /\ OrderInv /\ KeyInv /\ (TypeOK /\ OrderInv)' /\ [Next]_vars => KeyInv'
    BY KeyInvNext
  <1>2. TypeOK /\ OrderInv /\ KeyInv => SeatsAccounted
    BY KeyInvGives
  <1> QED
    BY <1>1, <1>2, KeyInvInit, FlowOrderInvariant, PTL DEF Spec

\* Requests for seats have idempotency keys of their own.
OwnKeys == \A q, r \in Requests : Key[q] = Key[r] /\ Ids[q] # {} => q = r

\* When no request for seats is repeated, the cache turns away a request for a seat
\* that nobody has or is about to get only when a server has died with its lock.
THEOREM FlowNoLostSeat ==
    ASSUME OwnKeys
    PROVE  Spec => []NoLostSeat
  <1>1. SameSeats
    BY DEF OwnKeys, SameSeats
  <1>2. SeatsAccounted => NoLostSeat
    <2>1. \A s \in Seats : ~Borrowed(s)
      BY CopyType DEF OwnKeys, Borrowed
    <2> QED
      BY <2>1 DEF SeatsAccounted, NoLostSeat
  <1> QED
    BY <1>1, <1>2, FlowSeatsAccounted, PTL

(***************************************************************************)
(* The answers.                                                            *)
(***************************************************************************)

\* What one step may do to the requests, their messages and their orders: nobody
\* comes back from a timeout, nor starts before those it repeats have timed out;
\* answers have a source; orders stay and what is done with stays so; only its
\* publication sends the first copy of a message, and without faults any copy.
Shape ==
    /\ \A r \in Requests : pc[r] = "timeout" => pc'[r] = "timeout"
    /\ \A r \in Requests : pc'[r] # "idle" =>
          pc[r] # "idle" \/ \A q \in After[r] : pc[q] = "timeout"
    /\ \A r \in Requests : pc'[r] \in {"store", "ok", "cached"} =>
          \/ pc[r] \in {"store", "ok", "cached"}
          \/ Key[r] \in cached
          \/ \E c \in Copies : msg[c] = "yes" /\ Key[c[1]] = Key[r]
    /\ \A k \in cached' : k \in cached \/ \E r \in Requests : pc[r] = "store" /\ Key[r] = k
    /\ \A c \in Copies : order[c] # "none" => order'[c] # "none"
    /\ \A c \in Copies : order'[c] # "none" => order[c] # "none" \/ msg[c] = "queued"
    /\ \A c \in Copies : msg[c] = "done" => msg'[c] = "done" \/ pc[c[1]] = "held"
    /\ \A r \in Requests : msg[<<r, 1>>] = "none" => msg'[<<r, 1>>] = "none" \/ pc[r] = "held"
    /\ \A r \in Requests : pc'[r] = "failed" =>
          \/ pc[r] = "failed"
          \/ pc[r] = "held" /\ UNCHANGED <<msg, order>>
          \/ /\ pc[r] = "waiting"
             /\ \E c \in Copies : msg[c] = "no" /\ Key[c[1]] = Key[r] /\ msg'[c] = "done"
    /\ faults' \in Nat /\ faults <= faults'
    /\ faults' = 0 => \A c \in Copies :
          /\ msg[c] = "none" /\ msg'[c] # "none" => c[2] = 1
          /\ msg[c] \in {"none", "done"} /\ msg'[c] \notin {"none", "done"} =>
                c[2] = 1 /\ pc[c[1]] = "held" /\ pc'[c[1]] = "waiting"

\* Another copy of a message is never the first one.
LEMMA AgainLater == \A c \in Copies : \A r : Again(c) # <<r, 1>>
  BY FlowAssumption DEF Copies, Again

LEMMA StepShape == TypeOK /\ [Next]_vars => Shape
  <1> SUFFICES ASSUME TypeOK, [Next]_vars PROVE Shape
    OBVIOUS
  <1>f. faults \in Nat /\ ~(faults' = 0 /\ Fault)
    BY FlowAssumption DEF TypeOK, Fault
  <1>g. Fault => faults' \in Nat /\ faults <= faults'
    BY FlowAssumption DEF TypeOK, Fault
  <1>1. ASSUME NEW r \in Requests, LookUp(r) PROVE Shape
    BY <1>1, <1>f DEF LookUp, Goto, TypeOK, Shape
  <1>2. ASSUME NEW r \in Requests, Acquire(r) PROVE Shape
    BY <1>2, <1>f DEF Acquire, Goto, TypeOK, Shape
  <1>3. ASSUME NEW r \in Requests, Publish(r) PROVE Shape
    BY <1>3, <1>f, CopyType DEF Publish, Goto, Mark, TypeOK, Shape
  <1>4. ASSUME NEW r \in Requests, GiveUp(r) PROVE Shape
    BY <1>4, <1>f DEF GiveUp, Goto, TypeOK, Shape
  <1>5. ASSUME NEW r \in Requests, Store(r) PROVE Shape
    BY <1>5, <1>f DEF Store, Goto, TypeOK, Shape
  <1>6. ASSUME NEW r \in Requests, Crash(r) PROVE Shape
    BY <1>6, <1>f, <1>g DEF Crash, Goto, TypeOK, Shape
  <1>7. ASSUME NEW c \in Copies, Place(c) PROVE Shape
    BY <1>7, <1>f DEF Place, Become, Mark, TypeOK, Shape
  <1>8. ASSUME NEW c \in Copies, Refuse(c) PROVE Shape
    BY <1>8, <1>f DEF Refuse, Mark, TypeOK, Shape
  <1>9. ASSUME NEW c \in Copies, Reply(c) PROVE Shape
    <2>1. PICK next \in {"yes", "no"} :
              msg[c] \in {"placed", "refused"} /\ \A d \in Copies : msg'[d] = IF d = c THEN next ELSE msg[d]
      BY <1>9 DEF Reply, Mark, TypeOK
    <2> QED
      BY <1>9, <1>f, <2>1, CopyType DEF Reply, Shape
  <1>10. ASSUME NEW c \in Copies, Receive(c) PROVE Shape
    <2>1. /\ msg[c] \in {"yes", "no"} /\ UNCHANGED <<cached, order, faults>>
          /\ \A d \in Copies : msg'[d] = IF d = c THEN "done" ELSE msg[d]
      BY <1>10 DEF Receive, Mark, TypeOK
    <2>2. CASE UNCHANGED pc
      BY <2>1, <2>2, <1>f, CopyType DEF Shape
    <2>3. ASSUME NEW q \in Requests, Key[q] = Key[c[1]], pc[q] = "waiting", NEW next,
                 Goto(q, next), <<msg[c], next>> \in {<<"yes", "store">>, <<"no", "failed">>}
          PROVE  Shape
      <3>1. \A r \in Requests : pc'[r] = IF r = q THEN next ELSE pc[r]
        BY <2>3 DEF Goto, TypeOK
      <3> QED
        BY <2>1, <2>3, <3>1, <1>f, CopyType DEF Shape
    <2> QED
      BY <1>10, <2>2, <2>3 DEF Receive
  <1>11. ASSUME NEW c \in Copies, FinalizeLock(c) PROVE Shape
    BY <1>11, <1>f, <1>g DEF FinalizeLock, Become, TypeOK, Shape
  <1>12. ASSUME NEW c \in Copies, Settle(c) PROVE Shape
    BY <1>12, <1>f DEF Settle, Become, TypeOK, Shape
  <1>13. ASSUME NEW c \in Copies, Redeliver(c) PROVE Shape
    <2>1. msg' = [msg EXCEPT ![Again(c)] = "queued"] /\ msg[Again(c)] = "none" /\ Fresh(c)
      BY <1>13 DEF Redeliver, Mark, Fresh, Again
    <2>2. \A d \in Copies : msg'[d] = IF d = Again(c) THEN "queued" ELSE msg[d]
      BY <2>1 DEF TypeOK
    <2> QED
      BY <1>13, <1>f, <1>g, <2>1, <2>2, AgainLater, CopyType DEF Redeliver, Shape
  <1>14. ASSUME NEW c \in Copies, LoseReply(c) PROVE Shape
    <2>1. msg[c] \in {"placed", "refused"}
      BY <1>14 DEF LoseReply
    <2>2. CASE Mark(c, "done")
      <3>1. \A d \in Copies : msg'[d] = IF d = c THEN "done" ELSE msg[d]
        BY <2>2 DEF Mark, TypeOK
      <3> QED
        BY <1>14, <1>f, <1>g, <2>1, <3>1, CopyType DEF LoseReply, Shape
    <2>3. CASE Fresh(c) /\ msg' = [msg EXCEPT ![c] = "done", ![Again(c)] = "queued"]
      <3>1. msg[Again(c)] = "none" /\ Again(c) \in Copies
        BY <2>3, CopyType DEF Fresh, Again
      <3>2. \A d \in Copies :
                msg'[d] = IF d = Again(c) THEN "queued" ELSE IF d = c THEN "done" ELSE msg[d]
        BY <2>3, <3>1 DEF TypeOK
      <3> QED
        BY <1>14, <1>f, <1>g, <2>1, <3>1, <3>2, AgainLater, CopyType DEF LoseReply, Shape
    <2> QED
      BY <1>14, <2>2, <2>3 DEF LoseReply
  <1>15. CASE UNCHANGED vars
    BY <1>15, <1>f DEF vars, Shape
  <1> QED
    BY <1>1, <1>2, <1>3, <1>4, <1>5, <1>6, <1>7, <1>8, <1>9, <1>10, <1>11, <1>12,
       <1>13, <1>14, <1>15 DEF Next, Handler, Work, Webhook

\* An order was placed for key k.
Placed(k) == \E c \in Copies : Key[c[1]] = k /\ order[c] # "none"

\* Request r was not sent, or a worker has refused a copy with its key.
Refused(r) ==
    \/ msg[<<r, 1>>] = "none"
    \/ \E c \in Copies : Key[c[1]] = Key[r] /\ msg[c] = "done" /\ order[c] = "none"

\* A client repeats a request after its timeout only; a result that is stored or
\* was sent stands for an order, and a refusal for a worker that has refused; and
\* as long as nothing has failed there are first copies only.
AnswerInv ==
    /\ \A r \in Requests : pc[r] # "idle" => \A q \in After[r] : pc[q] = "timeout"
    /\ \A k \in cached : Placed(k)
    /\ \A r \in Requests : pc[r] \in {"store", "ok", "cached"} => Placed(Key[r])
    /\ \A r \in Requests : pc[r] = "failed" => Refused(r)
    /\ faults = 0 => \A c \in Copies : c[2] # 1 => msg[c] = "none"

LEMMA AnswerInvInit == Init => AnswerInv
  BY CopyType DEF Init, AnswerInv

\* Of two requests with one key only one is under way or answered.
LEMMA KeyOfOne ==
    ASSUME AnswerInv, NEW q \in Requests, NEW r \in Requests, Key[q] = Key[r],
           pc[q] \notin {"idle", "timeout"}, pc[r] \notin {"idle", "timeout"}
    PROVE  q = r
  BY FlowAssumption DEF AnswerInv

LEMMA AnswerInvNext ==
    ASSUME TypeOK, OrderInv, AnswerInv, [Next]_vars
    PROVE  AnswerInv'
  <1>0. Shape
    BY StepShape
  <1>1. \A r \in Requests : pc'[r] # "idle" => \A q \in After[r] : pc'[q] = "timeout"
    BY <1>0, FlowAssumption DEF Shape, AnswerInv
  <1>2. \A k : Placed(k) => Placed(k)'
    BY <1>0 DEF Shape, Placed
  <1>3. \A k \in cached' : Placed(k)'
    <2>1. \A r \in Requests : pc[r] = "store" => Placed(Key[r])
      BY DEF AnswerInv
    <2>2. \A k \in cached' : Placed(k)
      BY <1>0, <2>1 DEF Shape, AnswerInv
    <2> QED
      BY <1>2, <2>2
  <1>4. \A r \in Requests : pc'[r] \in {"store", "ok", "cached"} => Placed(Key[r])'
    <2> SUFFICES ASSUME NEW r \in Requests, pc'[r] \in {"store", "ok", "cached"}
                 PROVE  Placed(Key[r])
      BY <1>2
    <2>1. \A c \in Copies : msg[c] = "yes" => Placed(Key[c[1]])
      BY DEF OrderInv, MsgInv, Placed
    <2> QED
      BY <1>0, <2>1 DEF Shape, AnswerInv
  <1>5. ASSUME faults' = 0
        PROVE  \A c \in Copies : c[2] # 1 => msg'[c] = "none"
    <2>1. faults = 0
      BY <1>0, <1>5 DEF Shape, TypeOK
    <2> QED
      BY <1>0, <1>5, <2>1 DEF Shape, AnswerInv
  <1>6. ASSUME NEW r \in Requests, pc'[r] = "failed" PROVE Refused(r)'
    <2> DEFINE d == <<r, 1>>
    <2>1. d \in Copies /\ d[1] = r
      BY CopyType
    <2> HIDE DEF d
    <2>2. CASE pc[r] = "failed"
      <3>1. Refused(r)
        BY <2>2 DEF AnswerInv
      <3>2. msg[<<r, 1>>] = "none" => msg'[<<r, 1>>] = "none"
        BY <1>0, <2>2 DEF Shape
      <3>3. ASSUME NEW c \in Copies, msg[c] = "done", order[c] = "none"
            PROVE  msg'[c] = "done" /\ order'[c] = "none"
        <4>1. pc[c[1]] # "held"
          BY <3>3 DEF OrderInv, MsgInv
        <4> QED
          BY <1>0, <3>3, <4>1 DEF Shape
      <3> QED
        BY <3>1, <3>2, <3>3 DEF Refused
    <2>3. CASE pc[r] = "held" /\ UNCHANGED <<msg, order>>
      <3>1. msg'[d] = "none"
        BY <2>1, <2>3 DEF OrderInv, MsgInv
      <3> QED
        BY <3>1 DEF Refused, d
    <2>4. ASSUME NEW c \in Copies, msg[c] = "no", Key[c[1]] = Key[r], msg'[c] = "done"
          PROVE  Refused(r)'
      <3>1. order'[c] = "none"
        BY <1>0, <2>4 DEF Shape, OrderInv, MsgInv
      <3> QED
        BY <2>4, <3>1 DEF Refused
    <2> QED
      BY <1>0, <1>6, <2>2, <2>3, <2>4 DEF Shape
  <1> QED
    BY <1>1, <1>3, <1>4, <1>5, <1>6 DEF AnswerInv

\* What a request has been told agrees, at every time, with its key, its messages and
\* the orders placed for them.
THEOREM FlowAnswerInvariant == Spec => [](TypeOK /\ OrderInv /\ AnswerInv)
  <1>1. TypeOK /\ OrderInv /\ (TypeOK /\ OrderInv)' /\ AnswerInv /\ [Next]_vars => AnswerInv'
    BY AnswerInvNext
  <1> QED
    BY <1>1, AnswerInvInit, FlowOrderInvariant, PTL DEF Spec

\* The answers are true, however often requests are repeated and messages delivered
\* again or lost: a success stands for an order, and a refusal for a request that was
\* not sent or a copy refused by a worker, with no order at all where it is the only
\* copy that was sent with its key.
THEOREM FlowAnswersTrue == Spec => []AnswersTrue
  <1>1. TypeOK /\ OrderInv /\ AnswerInv => AnswersTrue
    <2> SUFFICES ASSUME TypeOK, OrderInv, AnswerInv PROVE AnswersTrue
      OBVIOUS
    <2>1. \A r \in Requests : pc[r] \in {"store", "ok", "cached"} =>
              \E c \in Copies : Key[c[1]] = Key[r] /\ order[c] # "none"
      BY DEF AnswerInv, Placed
    <2>2. ASSUME NEW r \in Requests, pc[r] = "failed"
          PROVE  \/ <<r, 1>> \notin Sent(Key[r])
                 \/ \E c \in Sent(Key[r]) : msg[c] = "done" /\ order[c] = "none"
      <3>1. Refused(r)
        BY <2>2 DEF AnswerInv
      <3> QED
        BY <3>1 DEF Refused, Sent
    <2>3. ASSUME NEW r \in Requests, pc[r] = "failed", Sent(Key[r]) \subseteq {<<r, 1>>},
                 NEW c \in Copies, Key[c[1]] = Key[r]
          PROVE  order[c] = "none"
      <3>1. CASE msg[c] = "none"
        BY <3>1 DEF OrderInv, MsgInv
      <3>2. CASE msg[c] # "none"
        <4>1. c \in Sent(Key[r])
          BY <2>3, <3>2 DEF Sent
        <4>2. \E e \in Sent(Key[r]) : order[e] = "none"
          BY <2>2, <2>3, <4>1
        <4> QED
          BY <2>3, <4>1, <4>2
      <3> QED
        BY <3>1, <3>2
    <2> QED
      BY <2>1, <2>2, <2>3 DEF AnswersTrue
  <1> QED
    BY <1>1, FlowAnswerInvariant, PTL

\* A second order for one key takes a fault or a timeout: as long as nobody has given
\* up and nothing has failed, there is one order per key, whoever shares the key.
THEOREM FlowOneOrderWhenCalm == Spec => [](Calm => OneOrderPerKey)
  <1>1. TypeOK /\ OrderInv /\ AnswerInv => (Calm => OneOrderPerKey)
    <2> SUFFICES ASSUME OrderInv, AnswerInv, Calm, NEW c \in Copies, NEW d \in Copies,
                        Key[c[1]] = Key[d[1]], order[c] # "none", order[d] # "none"
                 PROVE  c = d
      BY DEF OneOrderPerKey
    <2>1. /\ msg[c] # "none" /\ pc[c[1]] # "idle"
          /\ msg[d] # "none" /\ pc[d[1]] # "idle"
      BY DEF OrderInv, MsgInv
    <2>2. c[1] \in Requests /\ d[1] \in Requests /\ c = <<c[1], c[2]>> /\ d = <<d[1], d[2]>>
      BY CopyType DEF Copies
    <2>3. c[2] = 1 /\ d[2] = 1
      BY <2>1 DEF Calm, AnswerInv
    <2>4. c[1] = d[1]
      BY <2>1, <2>2, KeyOfOne DEF Calm
    <2> QED
      BY <2>2, <2>3, <2>4
  <1> QED
    BY <1>1, FlowAnswerInvariant, PTL

(***************************************************************************)
(* The places: what the counters of the cache and of the database add up   *)
(* to.                                                                     *)
(***************************************************************************)

\* The places that a copy asks for, the copies whose order has places in the
\* database, those whose order gave its places back to the cache, and the requests
\* that account for places they have taken from the cache.
Wants == [c \in Copies |-> Count[c[1]]]
LiveCopies == {c \in Copies : Live(c)}
BackCopies == {c \in Copies : order[c] \in {"releasing", "released"}}
Answered == {r \in Requests : pc[r] \in {"store", "ok"}}
Bound == Locked \cup Answered

\* The rows that are on offer and the live orders make up the stock.
RowSum ==
    /\ IsFiniteSet(LiveCopies)
    /\ \A a \in Areas : dbFree[a] + Places(Wants, a, LiveCopies) = Stock[a]

\* What the cache has too little was taken by a request that has not returned it;
\* a settlement gives places back on top of that, once or more often.
KeySum ==
    /\ IsFiniteSet(Bound) /\ IsFiniteSet(BackCopies)
    /\ \A a \in Areas :
          Stock[a] + Places(Wants, a, BackCopies) <= freeKey[a] + Places(Count, a, Bound)

LEMMA CountType ==
    ASSUME NEW a \in Areas
    PROVE  /\ \A r \in Requests : Count[r][a] \in Nat
           /\ \A c \in Copies : Wants[c][a] = Count[c[1]][a] /\ Wants[c][a] \in Nat
           /\ Stock[a] \in Nat
  BY CopyType, FlowAssumption DEF Wants

\* What a write does to the counters.
LEMMA DropperPlaces ==
    ASSUME TypeOK, NEW r \in Requests, NEW st, NEW a \in Areas
    PROVE  /\ Dropper!Write(r, st, -1) => freeKey'[a] = freeKey[a] - Count[r][a]
           /\ Dropper!Write(r, st, 0) => freeKey'[a] = freeKey[a]
           /\ Dropper!Write(r, st, 1) => freeKey'[a] = freeKey[a] + Count[r][a]
  <1>1. freeKey[a] \in Nat /\ Count[r][a] \in Nat
    BY CountType DEF TypeOK
  <1> QED
    BY <1>1 DEF Dropper!Write

LEMMA RowsPlaces ==
    ASSUME TypeOK, NEW r \in Requests, NEW st, NEW a \in Areas
    PROVE  /\ Rows!Write(r, st, -1) => dbFree'[a] = dbFree[a] - Count[r][a]
           /\ Rows!Write(r, st, 0) => dbFree'[a] = dbFree[a]
           /\ Rows!Write(r, st, 1) => dbFree'[a] = dbFree[a] + Count[r][a]
  <1>1. dbFree[a] \in Nat /\ Count[r][a] \in Nat
    BY CountType DEF TypeOK
  <1> QED
    BY <1>1 DEF Rows!Write

LEMMA SumsInit == Init => RowSum /\ KeySum
  <1> SUFFICES ASSUME Init PROVE RowSum /\ KeySum
    OBVIOUS
  <1>1. LiveCopies = {} /\ BackCopies = {} /\ Bound = {}
    BY DEF Init, LiveCopies, Live, BackCopies, Bound, Locked, Answered
  <1>2. IsFiniteSet(LiveCopies) /\ IsFiniteSet(BackCopies) /\ IsFiniteSet(Bound)
    BY <1>1, FS_EmptySet
  <1>3. ASSUME NEW a \in Areas
        PROVE  /\ dbFree[a] + Places(Wants, a, LiveCopies) = Stock[a]
               /\ Stock[a] + Places(Wants, a, BackCopies) <= freeKey[a] + Places(Count, a, Bound)
    <2>1. Places(Wants, a, {}) = 0 /\ Places(Count, a, {}) = 0
      BY PlacesEmpty
    <2>2. /\ Places(Wants, a, LiveCopies) = 0
          /\ Places(Wants, a, BackCopies) = 0
          /\ Places(Count, a, Bound) = 0
      BY <1>1, <2>1, Zenon
    <2>3. freeKey[a] = Stock[a] /\ dbFree[a] = Stock[a] /\ Stock[a] \in Nat
      BY CountType DEF Init
    <2> QED
      BY <2>2, <2>3
  <1> QED
    BY <1>2, <1>3 DEF RowSum, KeySum

\* Steps that write neither rows nor orders, and steps that write neither keys,
\* locks nor the orders that gave places back.
LEMMA SameRowSum ==
    ASSUME RowSum, UNCHANGED dbFree, LiveCopies' = LiveCopies
    PROVE  RowSum'
  <1>1. IsFiniteSet(LiveCopies')
    BY DEF RowSum
  <1>2. ASSUME NEW a \in Areas
        PROVE  dbFree'[a] + Places(Wants, a, LiveCopies') = Stock[a]
    <2>1. Places(Wants, a, LiveCopies') = Places(Wants, a, LiveCopies)
      BY Zenon
    <2> QED
      BY <2>1 DEF RowSum
  <1>3. Wants' = Wants
    BY DEF Wants, Copies
  <1> QED
    BY <1>1, <1>2 DEF RowSum

LEMMA SameKeySum ==
    ASSUME KeySum, UNCHANGED freeKey, Bound' = Bound, BackCopies' = BackCopies
    PROVE  KeySum'
  <1>1. IsFiniteSet(Bound') /\ IsFiniteSet(BackCopies')
    BY DEF KeySum
  <1>2. ASSUME NEW a \in Areas
        PROVE  Stock[a] + Places(Wants, a, BackCopies')
               <= freeKey'[a] + Places(Count, a, Bound')
    <2>1. /\ Places(Wants, a, BackCopies') = Places(Wants, a, BackCopies)
          /\ Places(Count, a, Bound') = Places(Count, a, Bound)
      BY Zenon
    <2> QED
      BY <2>1 DEF KeySum
  <1> QED
    BY <1>1, <1>2 DEF KeySum

\* A lock is returned, with its places.
LEMMA ReturnKeepsSum ==
    ASSUME TypeOK, KeySum, NEW r \in Requests, pc[r] \in {"held", "waiting"},
           NEW next \in {"failed", "timeout"}, Goto(r, next),
           Dropper!Write(r, "available", 1), UNCHANGED order
    PROVE  KeySum'
  <1>1. \A q \in Requests : pc'[q] = IF q = r THEN next ELSE pc[q]
    BY DEF Goto, TypeOK
  <1>2. r \in Bound /\ Bound' = Bound \ {r} /\ Bound \subseteq Requests
    BY <1>1 DEF Bound, Locked, Answered
  <1>3. BackCopies' = BackCopies /\ BackCopies \subseteq Copies
    BY DEF BackCopies
  <1>4. IsFiniteSet(Bound) /\ IsFiniteSet(BackCopies) /\ IsFiniteSet(Bound')
    BY <1>2, FS_RemoveElement DEF KeySum
  <1>5. ASSUME NEW a \in Areas
        PROVE  Stock[a] + Places(Wants, a, BackCopies')
               <= freeKey'[a] + Places(Count, a, Bound')
    <2>1. freeKey'[a] = freeKey[a] + Count[r][a] /\ freeKey[a] \in Nat /\ Count[r][a] \in Nat
      BY DropperPlaces, CountType DEF TypeOK
    <2>2. /\ Places(Count, a, Bound) \in Nat /\ Places(Count, a, Bound') \in Nat
          /\ Places(Count, a, Bound) = Places(Count, a, Bound') + Count[r][a]
      <3>1. \A q \in Bound : Count[q][a] \in Nat
        BY <1>2, CountType
      <3> QED
        BY <1>2, <1>4, <3>1, PlacesLeave
    <2>3. Places(Wants, a, BackCopies') = Places(Wants, a, BackCopies)
      BY <1>3, Zenon
    <2>4. Stock[a] + Places(Wants, a, BackCopies) <= freeKey[a] + Places(Count, a, Bound)
      BY DEF KeySum
    <2>5. Places(Wants, a, BackCopies) \in Nat /\ Stock[a] \in Nat
      <3>1. \A c \in BackCopies : Wants[c][a] \in Nat
        BY <1>3, CountType
      <3> QED
        BY <1>4, <3>1, CountType, PlacesType
    <2> QED
      BY <2>1, <2>2, <2>3, <2>4, <2>5
  <1> QED
    BY <1>3, <1>4, <1>5 DEF KeySum

\* A lock is taken, with its places.
LEMMA AcquireKeepsSum ==
    ASSUME TypeOK, KeySum, NEW r \in Requests, pc[r] = "miss",
           Goto(r, "held"), Dropper!Write(r, "on-hold", -1), UNCHANGED order
    PROVE  KeySum'
  <1>1. \A q \in Requests : pc'[q] = IF q = r THEN "held" ELSE pc[q]
    BY DEF Goto, TypeOK
  <1>2. r \notin Bound /\ Bound' = Bound \cup {r} /\ Bound \subseteq Requests
    BY <1>1 DEF Bound, Locked, Answered
  <1>3. BackCopies' = BackCopies /\ BackCopies \subseteq Copies
    BY DEF BackCopies
  <1>4. IsFiniteSet(Bound) /\ IsFiniteSet(BackCopies) /\ IsFiniteSet(Bound')
    BY <1>2, FS_AddElement DEF KeySum
  <1>5. ASSUME NEW a \in Areas
        PROVE  Stock[a] + Places(Wants, a, BackCopies')
               <= freeKey'[a] + Places(Count, a, Bound')
    <2>1. freeKey'[a] = freeKey[a] - Count[r][a] /\ freeKey[a] \in Nat /\ Count[r][a] \in Nat
      BY DropperPlaces, CountType DEF TypeOK
    <2>2. /\ Places(Count, a, Bound) \in Nat /\ Places(Count, a, Bound') \in Nat
          /\ Places(Count, a, Bound') = Places(Count, a, Bound) + Count[r][a]
      <3>1. \A q \in Bound \cup {r} : Count[q][a] \in Nat
        BY <1>2, CountType
      <3> QED
        BY <1>2, <1>4, <3>1, PlacesJoin
    <2>3. Places(Wants, a, BackCopies') = Places(Wants, a, BackCopies)
      BY <1>3, Zenon
    <2>4. Stock[a] + Places(Wants, a, BackCopies) <= freeKey[a] + Places(Count, a, Bound)
      BY DEF KeySum
    <2>5. Places(Wants, a, BackCopies) \in Nat /\ Stock[a] \in Nat
      <3>1. \A c \in BackCopies : Wants[c][a] \in Nat
        BY <1>3, CountType
      <3> QED
        BY <1>4, <3>1, CountType, PlacesType
    <2> QED
      BY <2>1, <2>2, <2>3, <2>4, <2>5
  <1> QED
    BY <1>3, <1>4, <1>5 DEF KeySum

\* A settlement gives the places of an order back, the first time or once more.
LEMMA GiveBackKeepsSum ==
    ASSUME TypeOK, KeySum, NEW c \in Copies, order[c] \in {"held", "releasing"},
           Become(c, "releasing"), Dropper!Write(c[1], "available", 1), UNCHANGED pc
    PROVE  KeySum'
  <1>1. \A d \in Copies : order'[d] = IF d = c THEN "releasing" ELSE order[d]
    BY DEF Become, TypeOK
  <1>2. BackCopies' = BackCopies \cup {c} /\ BackCopies \subseteq Copies
    BY <1>1 DEF BackCopies
  <1>3. Bound' = Bound /\ Bound \subseteq Requests
    BY DEF Bound, Locked, Answered
  <1>4. IsFiniteSet(Bound) /\ IsFiniteSet(BackCopies) /\ IsFiniteSet(BackCopies')
    BY <1>2, FS_AddElement DEF KeySum
  <1>5. ASSUME NEW a \in Areas
        PROVE  Stock[a] + Places(Wants, a, BackCopies')
               <= freeKey'[a] + Places(Count, a, Bound')
    <2>1. /\ freeKey'[a] = freeKey[a] + Count[c[1]][a]
          /\ freeKey[a] \in Nat /\ Count[c[1]][a] \in Nat
      BY CopyType, DropperPlaces, CountType DEF TypeOK
    <2>2. Wants[c][a] = Count[c[1]][a] /\ \A d \in BackCopies \cup {c} : Wants[d][a] \in Nat
      BY <1>2, CountType
    <2>3. /\ Places(Wants, a, BackCopies) \in Nat /\ Places(Wants, a, BackCopies') \in Nat
          /\ Places(Wants, a, BackCopies') <= Places(Wants, a, BackCopies) + Count[c[1]][a]
      <3>1. CASE c \in BackCopies
        <4>1. BackCopies' = BackCopies
          BY <1>2, <3>1
        <4>2. Places(Wants, a, BackCopies') = Places(Wants, a, BackCopies)
          BY <4>1, Zenon
        <4>3. Places(Wants, a, BackCopies) \in Nat
          BY <1>4, <2>2, PlacesType
        <4> QED
          BY <2>1, <4>2, <4>3
      <3>2. CASE c \notin BackCopies
        <4>1. /\ Places(Wants, a, BackCopies) \in Nat /\ Places(Wants, a, BackCopies') \in Nat
              /\ Places(Wants, a, BackCopies') = Places(Wants, a, BackCopies) + Wants[c][a]
          BY <1>2, <1>4, <2>2, <3>2, PlacesJoin
        <4> QED
          BY <2>1, <2>2, <4>1
      <3> QED
        BY <3>1, <3>2
    <2>4. Stock[a] + Places(Wants, a, BackCopies) <= freeKey[a] + Places(Count, a, Bound)
      BY DEF KeySum
    <2>5. Places(Count, a, Bound') = Places(Count, a, Bound)
      BY <1>3, Zenon
    <2>6. Places(Count, a, Bound) \in Nat /\ Stock[a] \in Nat
      <3>1. \A q \in Bound : Count[q][a] \in Nat
        BY <1>3, CountType
      <3> QED
        BY <1>4, <3>1, CountType, PlacesType
    <2> QED
      BY <2>1, <2>3, <2>4, <2>5, <2>6
  <1> QED
    BY <1>3, <1>4, <1>5 DEF KeySum

LEMMA KeySumNext == TypeOK /\ OrderInv /\ KeySum /\ [Next]_vars => KeySum'
  <1> SUFFICES ASSUME TypeOK, OrderInv, KeySum, [Next]_vars PROVE KeySum'
    OBVIOUS
  <1> USE DEF redis
  \* Steps of one request that write no key.
  <1>a. ASSUME UNCHANGED <<freeKey, order>>, NEW r \in Requests, NEW next, Goto(r, next),
               next \in {"held", "waiting", "leaked", "store", "ok"}
                   <=> pc[r] \in {"held", "waiting", "leaked", "store", "ok"}
        PROVE  KeySum'
    <2>1. \A q \in Requests : pc'[q] = IF q = r THEN next ELSE pc[q]
      BY <1>a DEF Goto, TypeOK
    <2>2. Bound' = Bound
      BY <1>a, <2>1 DEF Bound, Locked, Answered
    <2>3. BackCopies' = BackCopies
      BY <1>a DEF BackCopies
    <2> QED
      BY <1>a, <2>2, <2>3, SameKeySum
  \* Steps of the workers and the broker.
  <1>b. ASSUME UNCHANGED <<freeKey, pc>>, BackCopies' = BackCopies
        PROVE  KeySum'
    <2>1. Bound' = Bound
      BY <1>b DEF Bound, Locked, Answered
    <2> QED
      BY <1>b, <2>1, SameKeySum
  <1>1. ASSUME NEW r \in Requests, LookUp(r) PROVE KeySum'
    BY <1>1, <1>a DEF LookUp
  <1>2. ASSUME NEW r \in Requests, Acquire(r) PROVE KeySum'
    <2>1. CASE Goto(r, "refused") /\ UNCHANGED redis
      BY <1>2, <2>1, <1>a DEF Acquire
    <2>2. CASE Dropper!Write(r, "on-hold", -1) /\ Goto(r, "held")
      BY <1>2, <2>2, AcquireKeepsSum DEF Acquire
    <2> QED
      BY <1>2, <2>1, <2>2 DEF Acquire
  <1>3. ASSUME NEW r \in Requests, Publish(r) PROVE KeySum'
    <2>1. CASE Goto(r, "waiting") /\ UNCHANGED redis
      BY <1>3, <2>1, <1>a DEF Publish
    <2>2. CASE Goto(r, "failed") /\ Dropper!Write(r, "available", 1)
      BY <1>3, <2>2, ReturnKeepsSum DEF Publish
    <2> QED
      BY <1>3, <2>1, <2>2 DEF Publish
  <1>4. ASSUME NEW r \in Requests, GiveUp(r) PROVE KeySum'
    BY <1>4, ReturnKeepsSum DEF GiveUp
  <1>5. ASSUME NEW r \in Requests, Store(r) PROVE KeySum'
    BY <1>5, <1>a DEF Store
  <1>6. ASSUME NEW r \in Requests, Crash(r) PROVE KeySum'
    BY <1>6, <1>a DEF Crash
  <1>7. ASSUME NEW c \in Copies, Place(c) PROVE KeySum'
    <2>1. order[c] = "none" /\ \A d \in Copies : order'[d] = IF d = c THEN "held" ELSE order[d]
      BY <1>7 DEF Place, Become, OrderInv, MsgInv, TypeOK
    <2>2. BackCopies' = BackCopies
      BY <2>1 DEF BackCopies
    <2> QED
      BY <1>7, <2>2, <1>b DEF Place
  <1>8. ASSUME NEW c \in Copies, Refuse(c) \/ Reply(c) \/ Redeliver(c) \/ LoseReply(c)
        PROVE  KeySum'
    <2>1. UNCHANGED <<freeKey, pc, order>>
      BY <1>8 DEF Refuse, Reply, Redeliver, LoseReply
    <2>2. BackCopies' = BackCopies
      BY <2>1 DEF BackCopies
    <2> QED
      BY <2>1, <2>2, <1>b
  <1>10. ASSUME NEW c \in Copies, Receive(c) PROVE KeySum'
    <2>1. UNCHANGED order
      BY <1>10 DEF Receive
    <2>2. CASE UNCHANGED <<pc, redis>>
      <3>1. BackCopies' = BackCopies
        BY <2>1 DEF BackCopies
      <3> QED
        BY <2>2, <3>1, <1>b
    <2>3. ASSUME NEW q \in Requests, pc[q] = "waiting", Goto(q, "store"), UNCHANGED redis
          PROVE  KeySum'
      BY <2>1, <2>3, <1>a
    <2>4. ASSUME NEW q \in Requests, pc[q] = "waiting", Goto(q, "failed"),
                 Dropper!Write(q, "available", 1)
          PROVE  KeySum'
      BY <2>1, <2>4, ReturnKeepsSum
    <2> QED
      BY <1>10, <2>2, <2>3, <2>4 DEF Receive
  <1>11. ASSUME NEW c \in Copies, FinalizeLock(c) PROVE KeySum'
    <2>0. c[1] \in Requests /\ UNCHANGED pc
      BY <1>11, CopyType DEF FinalizeLock
    <2>1. CASE order[c] \in {"held", "selling"} /\ Become(c, "selling")
               /\ Dropper!Write(c[1], "sold", 0)
      <3>1. \A d \in Copies : order'[d] = IF d = c THEN "selling" ELSE order[d]
        BY <2>1 DEF Become, TypeOK
      <3>2. BackCopies' = BackCopies
        BY <2>1, <3>1 DEF BackCopies
      <3>3. freeKey' = freeKey
        <4>1. \A a \in Areas : freeKey'[a] = freeKey[a]
          BY <2>0, <2>1, DropperPlaces
        <4>2. freeKey' = [a \in Areas |-> freeKey'[a]] /\ freeKey = [a \in Areas |-> freeKey[a]]
          BY <2>1 DEF Dropper!Write, TypeOK
        <4> QED
          BY <4>1, <4>2
      <3> QED
        BY <2>0, <3>2, <3>3, <1>b
    <2>2. CASE order[c] \in {"held", "releasing"} /\ Become(c, "releasing")
               /\ Dropper!Write(c[1], "available", 1)
      BY <2>0, <2>2, GiveBackKeepsSum
    <2> QED
      BY <1>11, <2>1, <2>2 DEF FinalizeLock
  <1>12. ASSUME NEW c \in Copies, Settle(c) PROVE KeySum'
    <2>1. BackCopies' = BackCopies
      BY <1>12 DEF Settle, Become, BackCopies, TypeOK
    <2> QED
      BY <1>12, <2>1, <1>b DEF Settle
  <1>13. CASE UNCHANGED vars
    <2>1. BackCopies' = BackCopies
      BY <1>13 DEF vars, BackCopies
    <2> QED
      BY <1>13, <2>1, <1>b DEF vars
  <1> QED
    BY <1>1, <1>2, <1>3, <1>4, <1>5, <1>6, <1>7, <1>8, <1>10, <1>11, <1>12, <1>13
       DEF Next, Handler, Work, Webhook

\* Which steps write orders or rows.
LEMMA WhoOrders ==
    ASSUME [Next]_vars
    PROVE  \/ UNCHANGED <<order, db>>
           \/ \E c \in Copies : Place(c) \/ FinalizeLock(c) \/ Settle(c)
  BY DEF Next, Handler, Work, Webhook, LookUp, Acquire, Publish, GiveUp, Store, Crash,
         Refuse, Reply, Receive, Redeliver, LoseReply, vars

LEMMA RowSumNext == TypeOK /\ OrderInv /\ RowSum /\ [Next]_vars => RowSum'
  <1> SUFFICES ASSUME TypeOK, OrderInv, RowSum, [Next]_vars PROVE RowSum'
    OBVIOUS
  <1> USE DEF db
  <1>0. LiveCopies \subseteq Copies /\ IsFiniteSet(LiveCopies)
    BY DEF LiveCopies, RowSum
  <1>1. CASE UNCHANGED <<order, db>>
    <2>1. LiveCopies' = LiveCopies
      BY <1>1 DEF LiveCopies, Live
    <2> QED
      BY <1>1, <2>1, SameRowSum
  <1>2. ASSUME NEW c \in Copies, Place(c) PROVE RowSum'
    <2>1. order[c] = "none" /\ \A d \in Copies : order'[d] = IF d = c THEN "held" ELSE order[d]
      BY <1>2 DEF Place, Become, OrderInv, MsgInv, TypeOK
    <2>2. c \notin LiveCopies /\ LiveCopies' = LiveCopies \cup {c}
      BY <2>1 DEF LiveCopies, Live
    <2>3. IsFiniteSet(LiveCopies')
      BY <1>0, <2>2, FS_AddElement
    <2>4. ASSUME NEW a \in Areas
          PROVE  dbFree'[a] + Places(Wants, a, LiveCopies') = Stock[a]
      <3>1. dbFree'[a] = dbFree[a] - Count[c[1]][a] /\ dbFree[a] \in Nat
        BY <1>2, CopyType, RowsPlaces DEF Place, TypeOK
      <3>2. Wants[c][a] = Count[c[1]][a] /\ \A d \in LiveCopies \cup {c} : Wants[d][a] \in Nat
        BY <1>0, CountType
      <3>3. /\ Places(Wants, a, LiveCopies) \in Nat /\ Places(Wants, a, LiveCopies') \in Nat
            /\ Places(Wants, a, LiveCopies') = Places(Wants, a, LiveCopies) + Wants[c][a]
        <4>1. \A d \in LiveCopies \cup {c} : Wants[d][a] \in Nat
          BY <3>2
        <4> QED
          BY <1>0, <2>2, <4>1, PlacesJoin
      <3>4. dbFree[a] + Places(Wants, a, LiveCopies) = Stock[a] /\ Wants[c][a] \in Nat
        BY <3>2 DEF RowSum
      <3> QED
        BY <3>1, <3>2, <3>3, <3>4
    <2>5. Wants' = Wants
      BY DEF Wants, Copies
    <2> QED
      BY <2>3, <2>4 DEF RowSum
  <1>3. ASSUME NEW c \in Copies, FinalizeLock(c) PROVE RowSum'
    <2>1. LiveCopies' = LiveCopies
      BY <1>3 DEF FinalizeLock, Become, LiveCopies, Live, TypeOK
    <2> QED
      BY <1>3, <2>1, SameRowSum DEF FinalizeLock
  <1>4. ASSUME NEW c \in Copies, Settle(c) PROVE RowSum'
    <2>1. CASE order[c] = "selling" /\ Become(c, "sold") /\ Rows!Write(c[1], "sold", 0)
      <3>1. LiveCopies' = LiveCopies
        BY <2>1 DEF Become, LiveCopies, Live, TypeOK
      <3>2. dbFree' = dbFree
        <4>1. \A a \in Areas : dbFree'[a] = dbFree[a]
          BY <2>1, CopyType, RowsPlaces
        <4>2. dbFree' = [a \in Areas |-> dbFree'[a]] /\ dbFree = [a \in Areas |-> dbFree[a]]
          BY <2>1 DEF Rows!Write, TypeOK
        <4> QED
          BY <4>1, <4>2
      <3> QED
        BY <3>1, <3>2, SameRowSum
    <2>2. CASE order[c] = "releasing" /\ Become(c, "released") /\ Rows!Write(c[1], "available", 1)
      <3>1. \A d \in Copies : order'[d] = IF d = c THEN "released" ELSE order[d]
        BY <2>2 DEF Become, TypeOK
      <3>2. c \in LiveCopies /\ LiveCopies' = LiveCopies \ {c}
        BY <2>2, <3>1 DEF LiveCopies, Live
      <3>3. IsFiniteSet(LiveCopies')
        BY <1>0, <3>2, FS_RemoveElement
      <3>4. ASSUME NEW a \in Areas
            PROVE  dbFree'[a] + Places(Wants, a, LiveCopies') = Stock[a]
        <4>1. dbFree'[a] = dbFree[a] + Count[c[1]][a] /\ dbFree[a] \in Nat
          BY <2>2, CopyType, RowsPlaces DEF TypeOK
        <4>2. Wants[c][a] = Count[c[1]][a] /\ \A d \in Copies : Wants[d][a] \in Nat
          BY CountType
        <4>3. /\ Places(Wants, a, LiveCopies) \in Nat /\ Places(Wants, a, LiveCopies') \in Nat
              /\ Places(Wants, a, LiveCopies) = Places(Wants, a, LiveCopies') + Wants[c][a]
          BY <1>0, <3>2, <4>2, PlacesLeave
        <4>4. dbFree[a] + Places(Wants, a, LiveCopies) = Stock[a] /\ Wants[c][a] \in Nat
          BY <4>2 DEF RowSum
        <4> QED
          BY <4>1, <4>2, <4>3, <4>4
      <3>5. Wants' = Wants
        BY DEF Wants, Copies
      <3> QED
        BY <3>3, <3>4 DEF RowSum
    <2> QED
      BY <1>4, <2>1, <2>2 DEF Settle
  <1> QED
    BY <1>1, <1>2, <1>3, <1>4, WhoOrders

\* Requests with one idempotency key want the same places: a client repeats its
\* request as it was.
SamePlaces == \A q, r \in Requests : Key[q] = Key[r] => Count[q] = Count[r]

\* Every request that was told of an order has one of its own, of its own size.
LEMMA AnsweredPlaces ==
    ASSUME SamePlaces, TypeOK, AnswerInv, RowSum, KeySum, NEW a \in Areas
    PROVE  Places(Count, a, Answered)
           <= Places(Wants, a, LiveCopies) + Places(Wants, a, BackCopies)
  <1> DEFINE Own(r, c) == Key[c[1]] = Key[r] /\ order[c] # "none"
             f == [r \in Answered |-> CHOOSE c \in Copies : Own(r, c)]
             T == LiveCopies \cup BackCopies
  <1>1. Answered \subseteq Requests /\ Answered \subseteq Bound /\ T \subseteq Copies
    BY DEF Answered, Bound, LiveCopies, BackCopies
  <1>2. IsFiniteSet(Answered) /\ IsFiniteSet(LiveCopies) /\ IsFiniteSet(BackCopies)
    BY <1>1, FS_Subset DEF KeySum, RowSum
  <1>3. IsFiniteSet(T)
    BY <1>2, FS_Union
  <1>4. /\ \A r \in Requests : Count[r][a] \in Nat
        /\ \A c \in Copies : Wants[c][a] = Count[c[1]][a] /\ Wants[c][a] \in Nat
    BY CountType
  <1>5. ASSUME NEW r \in Answered
        PROVE  f[r] \in Copies /\ Own(r, f[r])
    <2>1. \E c \in Copies : Own(r, c)
      BY <1>1 DEF AnswerInv, Placed, Answered
    <2> HIDE DEF Own
    <2> QED
      BY <2>1
  <1>6. ASSUME NEW c \in Copies, order[c] # "none" PROVE c \in T
    BY <1>6 DEF LiveCopies, Live, BackCopies
  <1> HIDE DEF f, T
  <1>7. \A r \in Answered : f[r] \in T /\ Count[r][a] = Wants[f[r]][a]
    <2> SUFFICES ASSUME NEW r \in Answered
                 PROVE  f[r] \in T /\ Count[r][a] = Wants[f[r]][a]
      OBVIOUS
    <2>1. f[r] \in Copies /\ Key[f[r][1]] = Key[r] /\ order[f[r]] # "none"
      BY <1>5
    <2>2. f[r][1] \in Requests /\ r \in Requests
      BY <1>1, <2>1, CopyType
    <2>3. Count[f[r][1]] = Count[r]
      BY <2>1, <2>2 DEF SamePlaces
    <2> QED
      BY <1>4, <1>6, <2>1, <2>3
  <1>8. \A q, r \in Answered : f[q] = f[r] => q = r
    <2> SUFFICES ASSUME NEW q \in Answered, NEW r \in Answered, f[q] = f[r]
                 PROVE  q = r
      OBVIOUS
    <2>1. Key[q] = Key[r]
      BY <1>5
    <2> QED
      BY <1>1, <2>1, KeyOfOne DEF Answered
  <1>9. Places(Count, a, Answered) <= Places(Wants, a, T)
    <2>1. \A r \in Answered : Count[r][a] \in Nat
      BY <1>1, <1>4
    <2>2. \A c \in T : Wants[c][a] \in Nat
      BY <1>1, <1>4
    <2> QED
      BY <1>2, <1>3, <1>7, <1>8, <2>1, <2>2, PlacesEmbed
  <1>10. Places(Wants, a, T) <= Places(Wants, a, LiveCopies) + Places(Wants, a, BackCopies)
    <2>1. \A c \in LiveCopies \cup BackCopies : Wants[c][a] \in Nat
      BY <1>1, <1>4 DEF T
    <2> QED
      BY <1>2, <2>1, PlacesBound DEF T
  <1>11. /\ Places(Count, a, Answered) \in Nat /\ Places(Wants, a, T) \in Nat
         /\ Places(Wants, a, LiveCopies) \in Nat /\ Places(Wants, a, BackCopies) \in Nat
    <2>1. /\ \A r \in Answered : Count[r][a] \in Nat
          /\ \A c \in T : Wants[c][a] \in Nat
          /\ \A c \in LiveCopies : Wants[c][a] \in Nat
          /\ \A c \in BackCopies : Wants[c][a] \in Nat
      BY <1>1, <1>4 DEF T
    <2> QED
      BY <1>2, <1>3, <2>1, PlacesType
  <1> QED
    BY <1>9, <1>10, <1>11

\* When a request is repeated as it was, no place is lost: the counter of the cache
\* and the locks that are still held cover every place that the database has.
THEOREM FlowNoLostPlace ==
    ASSUME SamePlaces
    PROVE  Spec => []NoLostPlace
  <1> DEFINE Sums == RowSum /\ KeySum
  <1>1. TypeOK /\ OrderInv /\ Sums /\ [Next]_vars => Sums'
    BY RowSumNext, KeySumNext
  <1>2. Init => Sums
    BY SumsInit
  <1>3. TypeOK /\ AnswerInv /\ Sums => NoLostPlace
    <2> SUFFICES ASSUME TypeOK, AnswerInv, RowSum, KeySum, NEW a \in Areas
                 PROVE  dbFree[a] <= freeKey[a] + Places(Count, a, Locked)
      BY DEF NoLostPlace, Places
    <2>1. /\ Locked \subseteq Requests /\ Answered \subseteq Requests /\ Locked \cap Answered = {}
          /\ LiveCopies \subseteq Copies /\ BackCopies \subseteq Copies
      BY DEF Locked, Answered, LiveCopies, BackCopies
    <2>2. IsFiniteSet(Bound) /\ IsFiniteSet(LiveCopies) /\ IsFiniteSet(BackCopies)
      BY DEF RowSum, KeySum
    <2>3. IsFiniteSet(Locked) /\ IsFiniteSet(Answered)
      BY <2>2, FS_Subset DEF Bound
    <2>4. /\ \A r \in Locked \cup Answered : Count[r][a] \in Nat
          /\ \A c \in LiveCopies \cup BackCopies : Wants[c][a] \in Nat
          /\ Stock[a] \in Nat
      BY <2>1, CountType
    <2>5. Places(Count, a, Locked \cup Answered)
          = Places(Count, a, Locked) + Places(Count, a, Answered)
      BY <2>1, <2>3, <2>4, PlacesUnion
    <2>6. /\ Places(Count, a, Locked) \in Nat /\ Places(Count, a, Answered) \in Nat
          /\ Places(Wants, a, LiveCopies) \in Nat /\ Places(Wants, a, BackCopies) \in Nat
      BY <2>2, <2>3, <2>4, PlacesType
    <2>7. dbFree[a] + Places(Wants, a, LiveCopies) = Stock[a]
      BY DEF RowSum
    <2>8. Stock[a] + Places(Wants, a, BackCopies)
          <= freeKey[a] + Places(Count, a, Locked \cup Answered)
      BY DEF KeySum, Bound
    <2>9. Places(Count, a, Answered)
          <= Places(Wants, a, LiveCopies) + Places(Wants, a, BackCopies)
      BY AnsweredPlaces
    <2>10. dbFree[a] \in Nat /\ freeKey[a] \in Nat
      BY DEF TypeOK
    <2> QED
      BY <2>4, <2>5, <2>6, <2>7, <2>8, <2>9, <2>10
  <1> HIDE DEF Sums
  <1> QED
    BY <1>1, <1>2, <1>3, FlowAnswerInvariant, PTL DEF Spec

(***************************************************************************)
(* The cache and the rows, as long as nobody gives up and nothing fails.   *)
(***************************************************************************)

\* The seats of a live order have its status, and the others are available.
RowsExact ==
    /\ \A c \in LiveCopies : \A s \in Ids[c[1]] :
          dbSeat[s] = IF order[c] = "sold" THEN "sold" ELSE "on-hold"
    /\ \A s \in Seats : dbSeat[s] # "available" => \E c \in LiveCopies : s \in Ids[c[1]]

\* How far a request is, its message and its order are.
PhaseInv ==
    \A r \in Requests :
        /\ pc[r] \in {"idle", "miss", "held", "refused", "cached"} => msg[<<r, 1>>] = "none"
        /\ pc[r] = "waiting" => msg[<<r, 1>>] \in {"queued", "placed", "refused", "yes", "no"}
        /\ pc[r] \in {"store", "ok"} => msg[<<r, 1>>] = "done" /\ order[<<r, 1>>] # "none"
        /\ pc[r] = "failed" => msg[<<r, 1>>] \in {"none", "done"} /\ order[<<r, 1>>] = "none"
        /\ pc[r] # "leaked"

\* The requests that have keys of the cache, and whether these are sold.
Takers == {r \in Requests : /\ pc[r] \in {"held", "waiting", "store", "ok"}
                            /\ order[<<r, 1>>] \notin {"releasing", "released"}}
SoldTo(r) == order[<<r, 1>>] \in {"selling", "sold"}

\* The keys are theirs, each taken once, and the places too.
LockInv ==
    /\ IsFiniteSet(Takers)
    /\ \A r \in Takers : \A s \in Ids[r] :
          seatKey[s] = IF SoldTo(r) THEN "sold" ELSE "on-hold"
    /\ \A s \in Seats : seatKey[s] # "available" => \E r \in Takers : s \in Ids[r]
    /\ \A q, r \in Takers : q # r => Ids[q] \cap Ids[r] = {}
    /\ \A a \in Areas : freeKey[a] + Places(Count, a, Takers) = Stock[a]

LEMMA RowsExactInit == Init => RowsExact
  BY DEF Init, RowsExact, LiveCopies, Live

LEMMA RowsExactNext == TypeOK /\ OrderInv /\ RowsExact /\ [Next]_vars => RowsExact'
  <1> SUFFICES ASSUME TypeOK, OrderInv, RowsExact, [Next]_vars PROVE RowsExact'
    OBVIOUS
  <1> USE DEF db
  <1>0. \A c \in Copies : Ids[c[1]] \subseteq Seats
    BY CopyType, FlowAssumption
  <1>1. CASE UNCHANGED <<order, db>>
    BY <1>1 DEF RowsExact, LiveCopies, Live
  <1>2. ASSUME NEW c \in Copies, Place(c) PROVE RowsExact'
    <2>1. \A d \in Copies : order'[d] = IF d = c THEN "held" ELSE order[d]
      BY <1>2 DEF Place, Become, TypeOK
    <2>2. LiveCopies' = LiveCopies \cup {c}
      BY <2>1 DEF LiveCopies, Live
    <2>3. /\ \A s \in Ids[c[1]] : dbSeat[s] = "available"
          /\ \A s \in Seats : dbSeat'[s] = IF s \in Ids[c[1]] THEN "on-hold" ELSE dbSeat[s]
      BY <1>2, RowsWrite, CopyType DEF Place, Rows!Fits, Status
    <2>4. \A d \in LiveCopies : d \in Copies /\ Ids[c[1]] \cap Ids[d[1]] = {}
      BY <2>3 DEF RowsExact, LiveCopies
    <2>5. ASSUME NEW d \in LiveCopies', NEW s \in Ids[d[1]]
          PROVE  dbSeat'[s] = IF order'[d] = "sold" THEN "sold" ELSE "on-hold"
      <3>1. CASE d = c
        BY <1>0, <2>1, <2>3, <2>5, <3>1
      <3>2. CASE d # c
        <4>1. d \in LiveCopies /\ s \notin Ids[c[1]] /\ s \in Seats
          BY <1>0, <2>2, <2>4, <2>5, <3>2
        <4> QED
          BY <2>1, <2>3, <2>4, <3>2, <4>1 DEF RowsExact
      <3> QED
        BY <3>1, <3>2
    <2>6. \A s \in Seats : dbSeat'[s] # "available" => \E d \in LiveCopies' : s \in Ids[d[1]]
      BY <2>2, <2>3 DEF RowsExact
    <2> QED
      BY <2>5, <2>6 DEF RowsExact
  <1>3. ASSUME NEW c \in Copies, FinalizeLock(c) PROVE RowsExact'
    <2>1. UNCHANGED dbSeat /\ order[c] \in {"held", "selling", "releasing"}
      BY <1>3 DEF FinalizeLock
    <2>2. PICK st \in {"selling", "releasing"} : order' = [order EXCEPT ![c] = st]
      BY <1>3 DEF FinalizeLock, Become
    <2>3. \A d \in Copies : order'[d] = IF d = c THEN st ELSE order[d]
      BY <2>2 DEF TypeOK
    <2>4. LiveCopies' = LiveCopies
      BY <2>1, <2>3 DEF LiveCopies, Live
    <2>5. \A d \in LiveCopies : order'[d] = "sold" <=> order[d] = "sold"
      BY <2>1, <2>3 DEF LiveCopies
    <2> QED
      BY <2>1, <2>4, <2>5 DEF RowsExact
  <1>4. ASSUME NEW c \in Copies, Settle(c) PROVE RowsExact'
    <2>1. Live(c) /\ \A d \in LiveCopies : d \in Copies /\ (d # c => Ids[c[1]] \cap Ids[d[1]] = {})
      BY <1>4 DEF Settle, Live, LiveCopies, OrderInv, NoDoubleOrder
    <2>2. CASE order[c] = "selling" /\ Become(c, "sold") /\ Rows!Write(c[1], "sold", 0)
      <3>1. \A d \in Copies : order'[d] = IF d = c THEN "sold" ELSE order[d]
        BY <2>2 DEF Become, TypeOK
      <3>2. LiveCopies' = LiveCopies /\ c \in LiveCopies
        BY <2>2, <3>1 DEF LiveCopies, Live
      <3>3. \A s \in Seats : dbSeat'[s] = IF s \in Ids[c[1]] THEN "sold" ELSE dbSeat[s]
        BY <2>2, RowsWrite, CopyType DEF Status
      <3>4. \A s \in Seats : dbSeat'[s] # "available" => \E d \in LiveCopies' : s \in Ids[d[1]]
        BY <3>2, <3>3 DEF RowsExact
      <3>5. ASSUME NEW d \in LiveCopies', NEW s \in Ids[d[1]]
            PROVE  dbSeat'[s] = IF order'[d] = "sold" THEN "sold" ELSE "on-hold"
        <4>1. d \in LiveCopies /\ d \in Copies /\ s \in Seats
          BY <1>0, <2>1, <3>2, <3>5
        <4>2. CASE d = c
          BY <3>1, <3>3, <3>5, <4>1, <4>2
        <4>3. CASE d # c
          <5>1. dbSeat'[s] = dbSeat[s] /\ order'[d] = order[d]
            BY <2>1, <3>1, <3>3, <3>5, <4>1, <4>3
          <5> QED
            BY <3>5, <4>1, <5>1 DEF RowsExact
        <4> QED
          BY <4>2, <4>3
      <3> QED
        BY <3>4, <3>5 DEF RowsExact
    <2>3. CASE order[c] = "releasing" /\ Become(c, "released") /\ Rows!Write(c[1], "available", 1)
      <3>1. \A d \in Copies : order'[d] = IF d = c THEN "released" ELSE order[d]
        BY <2>3 DEF Become, TypeOK
      <3>2. LiveCopies' = LiveCopies \ {c}
        BY <3>1 DEF LiveCopies, Live
      <3>3. \A s \in Seats : dbSeat'[s] = IF s \in Ids[c[1]] THEN "available" ELSE dbSeat[s]
        BY <2>3, RowsWrite, CopyType DEF Status
      <3>4. \A s \in Seats : dbSeat'[s] # "available" => \E d \in LiveCopies' : s \in Ids[d[1]]
        BY <3>2, <3>3 DEF RowsExact
      <3>5. ASSUME NEW d \in LiveCopies', NEW s \in Ids[d[1]]
            PROVE  dbSeat'[s] = IF order'[d] = "sold" THEN "sold" ELSE "on-hold"
        <4>1. d \in LiveCopies /\ d \in Copies /\ d # c /\ s \in Seats
          BY <1>0, <2>1, <3>2, <3>5
        <4>2. dbSeat'[s] = dbSeat[s] /\ order'[d] = order[d]
          BY <2>1, <3>1, <3>3, <3>5, <4>1
        <4> QED
          BY <3>5, <4>1, <4>2 DEF RowsExact
      <3> QED
        BY <3>4, <3>5 DEF RowsExact
    <2> QED
      BY <1>4, <2>2, <2>3 DEF Settle
  <1> QED
    BY <1>1, <1>2, <1>3, <1>4, WhoOrders

\* Steps that change neither keys, nor who has them, nor what is sold.
LEMMA TakersStay ==
    ASSUME LockInv, UNCHANGED <<seatKey, freeKey>>, Takers' = Takers,
           \A r \in Takers : SoldTo(r)' <=> SoldTo(r)
    PROVE  LockInv'
  <1>1. IsFiniteSet(Takers')
    BY DEF LockInv
  <1>2. \A a \in Areas : freeKey'[a] + Places(Count, a, Takers') = Stock[a]
    <2>1. \A a \in Areas : Places(Count, a, Takers') = Places(Count, a, Takers)
      BY Zenon
    <2> QED
      BY <2>1 DEF LockInv
  <1>3. /\ \A r \in Takers' : \A s \in Ids[r] :
              seatKey'[s] = IF SoldTo(r)' THEN "sold" ELSE "on-hold"
        /\ \A s \in Seats : seatKey'[s] # "available" => \E r \in Takers' : s \in Ids[r]
        /\ \A q, r \in Takers' : q # r => Ids[q] \cap Ids[r] = {}
    BY DEF LockInv
  <1> QED
    BY <1>1, <1>2, <1>3 DEF LockInv

\* A request takes keys that nobody has.
LEMMA TakerComes ==
    ASSUME TypeOK, LockInv, NEW q \in Requests, q \notin Takers, Takers' = Takers \cup {q},
           Dropper!Fits(q), Dropper!Write(q, "on-hold", -1),
           ~SoldTo(q)', \A r \in Takers : SoldTo(r)' <=> SoldTo(r)
    PROVE  LockInv'
  <1>0. Takers \subseteq Requests /\ IsFiniteSet(Takers) /\ \A r \in Requests : Ids[r] \subseteq Seats
    BY FlowAssumption DEF Takers, LockInv
  <1>1. IsFiniteSet(Takers')
    BY <1>0, FS_AddElement
  <1>2. ASSUME NEW a \in Areas PROVE freeKey'[a] + Places(Count, a, Takers') = Stock[a]
    <2>1. \A r \in Takers \cup {q} : Count[r][a] \in Nat
      BY <1>0, CountType
    <2>2. /\ Places(Count, a, Takers) \in Nat /\ Places(Count, a, Takers') \in Nat
          /\ Places(Count, a, Takers') = Places(Count, a, Takers) + Count[q][a]
      BY <1>0, <2>1, PlacesJoin
    <2>3. freeKey'[a] = freeKey[a] - Count[q][a] /\ freeKey[a] \in Nat /\ Count[q][a] \in Nat
      BY DropperPlaces, CountType DEF TypeOK
    <2>4. freeKey[a] + Places(Count, a, Takers) = Stock[a]
      BY DEF LockInv
    <2> QED
      BY <2>2, <2>3, <2>4
  <1>3. /\ \A s \in Ids[q] : seatKey[s] = "available"
        /\ \A s \in Seats : seatKey'[s] = IF s \in Ids[q] THEN "on-hold" ELSE seatKey[s]
    BY DropperWrite DEF Dropper!Fits, Status
  <1>4. \A r \in Takers : Ids[q] \cap Ids[r] = {}
    BY <1>3 DEF LockInv
  <1>5. \A r \in Takers' : \A s \in Ids[r] :
            seatKey'[s] = IF SoldTo(r)' THEN "sold" ELSE "on-hold"
    <2>1. \A r \in Takers : \A s \in Ids[r] :
              seatKey'[s] = IF SoldTo(r)' THEN "sold" ELSE "on-hold"
      BY <1>0, <1>3, <1>4 DEF LockInv
    <2>2. \A s \in Ids[q] : seatKey'[s] = "on-hold"
      BY <1>0, <1>3
    <2> QED
      BY <2>1, <2>2
  <1>6. \A s \in Seats : seatKey'[s] # "available" => \E r \in Takers' : s \in Ids[r]
    BY <1>3 DEF LockInv
  <1>7. \A p, r \in Takers' : p # r => Ids[p] \cap Ids[r] = {}
    BY <1>4 DEF LockInv
  <1> QED
    BY <1>1, <1>2, <1>5, <1>6, <1>7 DEF LockInv

\* A request gives its keys back, or the settlement of its order does.
LEMMA TakerLeaves ==
    ASSUME TypeOK, LockInv, NEW q \in Takers, Takers' = Takers \ {q},
           Dropper!Write(q, "available", 1), \A r \in Takers \ {q} : SoldTo(r)' <=> SoldTo(r)
    PROVE  LockInv'
  <1>0. /\ Takers \subseteq Requests /\ q \in Requests /\ IsFiniteSet(Takers)
        /\ \A r \in Requests : Ids[r] \subseteq Seats
    BY FlowAssumption DEF Takers, LockInv
  <1>1. IsFiniteSet(Takers')
    BY <1>0, FS_RemoveElement
  <1>2. ASSUME NEW a \in Areas PROVE freeKey'[a] + Places(Count, a, Takers') = Stock[a]
    <2>1. \A r \in Takers : Count[r][a] \in Nat
      BY <1>0, CountType
    <2>2. /\ Places(Count, a, Takers) \in Nat /\ Places(Count, a, Takers') \in Nat
          /\ Places(Count, a, Takers) = Places(Count, a, Takers') + Count[q][a]
      BY <1>0, <2>1, PlacesLeave
    <2>3. freeKey'[a] = freeKey[a] + Count[q][a] /\ freeKey[a] \in Nat /\ Count[q][a] \in Nat
      BY <1>0, DropperPlaces, CountType DEF TypeOK
    <2>4. freeKey[a] + Places(Count, a, Takers) = Stock[a]
      BY DEF LockInv
    <2> QED
      BY <2>2, <2>3, <2>4
  <1>3. \A s \in Seats : seatKey'[s] = IF s \in Ids[q] THEN "available" ELSE seatKey[s]
    BY <1>0, DropperWrite DEF Status
  <1>4. \A r \in Takers \ {q} : Ids[q] \cap Ids[r] = {}
    BY DEF LockInv
  <1>5. \A r \in Takers' : \A s \in Ids[r] :
            seatKey'[s] = IF SoldTo(r)' THEN "sold" ELSE "on-hold"
    BY <1>0, <1>3, <1>4 DEF LockInv
  <1>6. \A s \in Seats : seatKey'[s] # "available" => \E r \in Takers' : s \in Ids[r]
    BY <1>3 DEF LockInv
  <1>7. \A p, r \in Takers' : p # r => Ids[p] \cap Ids[r] = {}
    BY DEF LockInv
  <1> QED
    BY <1>1, <1>2, <1>5, <1>6, <1>7 DEF LockInv

\* The settlement sells the keys of a request.
LEMMA TakerBuys ==
    ASSUME TypeOK, LockInv, NEW q \in Takers, Takers' = Takers,
           Dropper!Write(q, "sold", 0), SoldTo(q)',
           \A r \in Takers \ {q} : SoldTo(r)' <=> SoldTo(r)
    PROVE  LockInv'
  <1>0. /\ Takers \subseteq Requests /\ q \in Requests /\ IsFiniteSet(Takers)
        /\ \A r \in Requests : Ids[r] \subseteq Seats
    BY FlowAssumption DEF Takers, LockInv
  <1>1. IsFiniteSet(Takers')
    BY <1>0
  <1>2. ASSUME NEW a \in Areas PROVE freeKey'[a] + Places(Count, a, Takers') = Stock[a]
    <2>1. Places(Count, a, Takers') = Places(Count, a, Takers)
      BY Zenon
    <2>2. freeKey'[a] = freeKey[a]
      BY <1>0, DropperPlaces
    <2> QED
      BY <2>1, <2>2 DEF LockInv
  <1>3. \A s \in Seats : seatKey'[s] = IF s \in Ids[q] THEN "sold" ELSE seatKey[s]
    BY <1>0, DropperWrite DEF Status
  <1>4. \A r \in Takers \ {q} : Ids[q] \cap Ids[r] = {}
    BY DEF LockInv
  <1>5. \A r \in Takers' : \A s \in Ids[r] :
            seatKey'[s] = IF SoldTo(r)' THEN "sold" ELSE "on-hold"
    <2>1. \A r \in Takers \ {q} : \A s \in Ids[r] :
              seatKey'[s] = IF SoldTo(r)' THEN "sold" ELSE "on-hold"
      BY <1>0, <1>3, <1>4 DEF LockInv
    <2>2. \A s \in Ids[q] : seatKey'[s] = "sold"
      BY <1>0, <1>3
    <2> QED
      BY <2>1, <2>2
  <1>6. \A s \in Seats : seatKey'[s] # "available" => \E r \in Takers' : s \in Ids[r]
    BY <1>3 DEF LockInv
  <1>7. \A p, r \in Takers' : p # r => Ids[p] \cap Ids[r] = {}
    BY DEF LockInv
  <1> QED
    BY <1>1, <1>2, <1>5, <1>6, <1>7 DEF LockInv

\* What has gone wrong stays wrong.
LEMMA CalmBack == TypeOK /\ [Next]_vars /\ Calm' => Calm
  <1> SUFFICES ASSUME TypeOK, [Next]_vars, Calm' PROVE Calm
    OBVIOUS
  <1>1. Shape /\ faults \in Nat
    BY StepShape, FlowAssumption DEF TypeOK
  <1> QED
    BY <1>1 DEF Shape, Calm

LEMMA CalmNext ==
    ASSUME TypeOK, OrderInv, AnswerInv, PhaseInv, LockInv, Calm, Calm', [Next]_vars
    PROVE  PhaseInv' /\ LockInv'
  <1> USE DEF redis
  <1>f. ~Fault
    BY DEF Calm, Fault
  <1>t. \A r \in Requests : pc[r] # "timeout" /\ pc'[r] # "timeout"
    BY DEF Calm
  <1>c. \A c \in Copies : /\ c[1] \in Requests
                          /\ msg[c] # "none" => c = <<c[1], 1>>
    BY CopyType DEF AnswerInv, Calm, Copies
  <1>o. \A r \in Requests : order[<<r, 1>>] # "none" => pc[r] \in {"waiting", "store", "ok"}
    <2> SUFFICES ASSUME NEW r \in Requests, order[<<r, 1>>] # "none"
                 PROVE  pc[r] \in {"waiting", "store", "ok"}
      OBVIOUS
    <2> DEFINE c == <<r, 1>>
    <2>1. c \in Copies
      BY CopyType
    <2>2. msg[c] # "none"
      BY <2>1 DEF OrderInv, MsgInv
    <2>3. pc[r] \notin {"idle", "miss", "held", "refused", "cached", "failed", "leaked", "timeout"}
      BY <2>2, <1>t DEF PhaseInv
    <2> QED
      BY <2>3 DEF TypeOK
  \* Steps that change no phase, and those that change one.
  <1>a. ASSUME NEW r \in Requests, UNCHANGED <<order, redis>>,
               \A q \in Requests : q # r => pc'[q] = pc[q] /\ msg'[<<q, 1>>] = msg[<<q, 1>>],
               pc'[r] \in {"held", "waiting", "store", "ok"}
                   <=> pc[r] \in {"held", "waiting", "store", "ok"}
        PROVE  LockInv'
    <2>1. Takers' = Takers
      BY <1>a DEF Takers
    <2>2. \A q \in Takers : SoldTo(q)' <=> SoldTo(q)
      BY <1>a DEF SoldTo
    <2> QED
      BY <1>a, <2>1, <2>2, TakersStay
  <1>b. ASSUME NEW r \in Requests, UNCHANGED <<msg, order>>,
               \A q \in Requests : q # r => pc'[q] = pc[q],
               \/ pc[r] \in {"idle", "miss", "held"} /\ pc'[r] \in {"miss", "held", "refused", "cached"}
               \/ pc[r] = "held" /\ pc'[r] = "failed"
               \/ pc[r] = "store" /\ pc'[r] = "ok"
        PROVE  PhaseInv'
    <2>1. \A q \in Requests : msg'[<<q, 1>>] = msg[<<q, 1>>] /\ order'[<<q, 1>>] = order[<<q, 1>>]
      BY <1>b
    <2>2. msg[<<r, 1>>] = "none" => order[<<r, 1>>] = "none"
      BY CopyType DEF OrderInv, MsgInv
    <2> QED
      BY <1>b, <2>1, <2>2 DEF PhaseInv
  <1>d. ASSUME NEW r \in Requests, pc[r] \in {"held", "waiting"}, order[<<r, 1>>] = "none",
               Goto(r, "failed"), Dropper!Write(r, "available", 1), UNCHANGED order
        PROVE  LockInv'
    <2>1. \A q \in Requests : pc'[q] = IF q = r THEN "failed" ELSE pc[q]
      BY <1>d DEF Goto, TypeOK
    <2>2. r \in Takers /\ Takers' = Takers \ {r}
      BY <1>d, <2>1 DEF Takers
    <2>3. \A q \in Takers : SoldTo(q)' <=> SoldTo(q)
      BY <1>d DEF SoldTo
    <2> QED
      BY <1>d, <2>2, <2>3, TakerLeaves
  <1>1. ASSUME NEW r \in Requests, LookUp(r) PROVE PhaseInv' /\ LockInv'
    <2>1. /\ pc[r] = "idle" /\ pc'[r] \in {"miss", "cached"}
          /\ \A q \in Requests : q # r => pc'[q] = pc[q]
          /\ UNCHANGED <<msg, order, redis>>
      BY <1>1 DEF LookUp, Goto, TypeOK
    <2> QED
      BY <2>1, <1>a, <1>b
  <1>2. ASSUME NEW r \in Requests, Acquire(r) PROVE PhaseInv' /\ LockInv'
    <2>1. CASE Goto(r, "refused") /\ UNCHANGED redis
      <3>1. /\ pc[r] = "miss" /\ pc'[r] = "refused"
            /\ \A q \in Requests : q # r => pc'[q] = pc[q]
            /\ UNCHANGED <<msg, order, redis>>
        BY <1>2, <2>1 DEF Acquire, Goto, TypeOK
      <3> QED
        BY <3>1, <1>a, <1>b
    <2>2. CASE Dropper!Fits(r) /\ Dropper!Write(r, "on-hold", -1) /\ Goto(r, "held")
      <3>1. /\ pc[r] = "miss" /\ UNCHANGED <<msg, order>>
            /\ \A q \in Requests : pc'[q] = IF q = r THEN "held" ELSE pc[q]
        BY <1>2, <2>2 DEF Acquire, Goto, TypeOK
      <3>2. order[<<r, 1>>] = "none"
        BY <3>1, CopyType DEF OrderInv, MsgInv
      <3>3. r \notin Takers /\ Takers' = Takers \cup {r}
        BY <3>1, <3>2 DEF Takers
      <3>4. ~SoldTo(r)' /\ \A q \in Takers : SoldTo(q)' <=> SoldTo(q)
        BY <3>1, <3>2 DEF SoldTo
      <3>5. LockInv'
        BY <2>2, <3>3, <3>4, TakerComes
      <3>6. PhaseInv'
        BY <3>1, <1>b
      <3> QED
        BY <3>5, <3>6
    <2> QED
      BY <1>2, <2>1, <2>2 DEF Acquire
  <1>3. ASSUME NEW r \in Requests, Publish(r) PROVE PhaseInv' /\ LockInv'
    <2>1. pc[r] = "held" /\ order[<<r, 1>>] = "none" /\ UNCHANGED order
      BY <1>3, CopyType DEF Publish, OrderInv, MsgInv
    <2>2. CASE Mark(<<r, 1>>, "queued") /\ Goto(r, "waiting") /\ UNCHANGED redis
      <3>1. /\ \A q \in Requests : pc'[q] = IF q = r THEN "waiting" ELSE pc[q]
            /\ \A q \in Requests : msg'[<<q, 1>>] = IF q = r THEN "queued" ELSE msg[<<q, 1>>]
        BY <2>2, CopyType DEF Goto, Mark, TypeOK
      <3>2. PhaseInv'
        BY <2>1, <3>1 DEF PhaseInv
      <3> QED
        BY <2>1, <2>2, <3>1, <3>2, <1>a
    <2>3. CASE UNCHANGED msg /\ Goto(r, "failed") /\ Dropper!Write(r, "available", 1)
      <3>1. /\ pc'[r] = "failed"
            /\ \A q \in Requests : q # r => pc'[q] = pc[q]
        BY <2>3 DEF Goto, TypeOK
      <3> QED
        BY <2>1, <2>3, <3>1, <1>b, <1>d
    <2> QED
      BY <1>3, <2>2, <2>3 DEF Publish
  <1>4. ASSUME NEW r \in Requests, GiveUp(r) PROVE PhaseInv' /\ LockInv'
    BY <1>4, <1>t DEF GiveUp, Goto, TypeOK
  <1>5. ASSUME NEW r \in Requests, Store(r) PROVE PhaseInv' /\ LockInv'
    <2>1. /\ pc[r] = "store" /\ pc'[r] = "ok"
          /\ \A q \in Requests : q # r => pc'[q] = pc[q]
          /\ UNCHANGED <<msg, order, redis>>
      BY <1>5 DEF Store, Goto, TypeOK
    <2> QED
      BY <2>1, <1>a, <1>b
  <1>6. ASSUME NEW r \in Requests, Crash(r) PROVE PhaseInv' /\ LockInv'
    BY <1>6, <1>f DEF Crash
  <1>7. ASSUME NEW c \in Copies, Place(c) PROVE PhaseInv' /\ LockInv'
    <2> DEFINE q == c[1]
    <2>1. c = <<q, 1>> /\ q \in Requests /\ msg[c] = "queued" /\ order[c] = "none"
      BY <1>7, <1>c DEF Place, OrderInv, MsgInv
    <2>2. /\ \A d \in Copies : order'[d] = IF d = c THEN "held" ELSE order[d]
          /\ \A d \in Copies : msg'[d] = IF d = c THEN "placed" ELSE msg[d]
          /\ UNCHANGED <<pc, redis>>
      BY <1>7 DEF Place, Become, Mark, TypeOK
    <2> HIDE DEF q
    <2>3. \A r \in Requests : <<r, 1>> \in Copies /\ (<<r, 1>> = c <=> r = q)
      BY <2>1, CopyType
    <2>4. pc[q] = "waiting"
      BY <2>1, <1>t DEF PhaseInv, TypeOK
    <2>5. PhaseInv'
      BY <2>1, <2>2, <2>3, <2>4 DEF PhaseInv
    <2>6. \A r \in Requests : /\ order[<<r, 1>>] \in {"releasing", "released"}
                                 <=> order'[<<r, 1>>] \in {"releasing", "released"}
                              /\ SoldTo(r)' <=> SoldTo(r)
      BY <2>1, <2>2, <2>3 DEF SoldTo
    <2>7. Takers' = Takers
      BY <2>2, <2>6 DEF Takers
    <2>8. \A r \in Takers : SoldTo(r)' <=> SoldTo(r)
      BY <2>6 DEF Takers
    <2> QED
      BY <2>2, <2>5, <2>7, <2>8, TakersStay
  <1>8. ASSUME NEW c \in Copies, Refuse(c) \/ Reply(c) PROVE PhaseInv' /\ LockInv'
    <2> DEFINE q == c[1]
    <2>1. c = <<q, 1>> /\ q \in Requests /\ msg[c] \in {"queued", "placed", "refused"}
      BY <1>8, <1>c DEF Refuse, Reply
    <2>2. /\ UNCHANGED <<pc, order, redis>>
          /\ msg'[c] \in {"refused", "yes", "no"} /\ \A d \in Copies : d # c => msg'[d] = msg[d]
      BY <1>8 DEF Refuse, Reply, Mark, TypeOK
    <2> HIDE DEF q
    <2>3. \A r \in Requests : <<r, 1>> \in Copies /\ (<<r, 1>> = c <=> r = q)
      BY <2>1, CopyType
    <2>4. pc[q] = "waiting"
      BY <2>1, <1>t DEF PhaseInv, TypeOK
    <2>5. PhaseInv'
      BY <2>1, <2>2, <2>3, <2>4 DEF PhaseInv
    <2> QED
      BY <2>1, <2>2, <2>3, <2>5, <1>a
  <1>10. ASSUME NEW c \in Copies, Receive(c) PROVE PhaseInv' /\ LockInv'
    <2> DEFINE q == c[1]
    <2>1. c = <<q, 1>> /\ q \in Requests /\ msg[c] \in {"yes", "no"} /\ UNCHANGED order
      BY <1>10, <1>c DEF Receive
    <2>2. \A d \in Copies : msg'[d] = IF d = c THEN "done" ELSE msg[d]
      BY <1>10 DEF Receive, Mark, TypeOK
    <2>n. {r \in Requests : Key[r] = Key[c[1]] /\ pc[r] = "waiting"}
          = {r \in Requests : Key[r] = Key[q] /\ pc[r] = "waiting"}
      OBVIOUS
    <2>s. \/ {r \in Requests : Key[r] = Key[q] /\ pc[r] = "waiting"} = {}
          \/ /\ msg[c] = "yes" /\ UNCHANGED redis
             /\ \E r \in Requests : Key[r] = Key[q] /\ pc[r] = "waiting" /\ Goto(r, "store")
          \/ /\ msg[c] = "no"
             /\ \E r \in Requests : /\ Key[r] = Key[q] /\ pc[r] = "waiting" /\ Goto(r, "failed")
                                    /\ Dropper!Write(r, "available", 1)
      BY <1>10 DEF Receive
    <2> HIDE DEF q
    <2>3. \A r \in Requests : <<r, 1>> \in Copies /\ (<<r, 1>> = c <=> r = q)
      BY <2>1, CopyType
    <2>4. pc[q] = "waiting"
      BY <2>1, <1>t DEF PhaseInv, TypeOK
    <2>5. \A r \in Requests : Key[r] = Key[q] /\ pc[r] = "waiting" => r = q
      BY <2>1, <2>4, KeyOfOne
    <2>6. CASE msg[c] = "yes" /\ Goto(q, "store") /\ UNCHANGED redis
      <3>1. \A r \in Requests : pc'[r] = IF r = q THEN "store" ELSE pc[r]
        BY <2>6 DEF Goto, TypeOK
      <3>2. order[c] # "none"
        BY <2>6 DEF OrderInv, MsgInv
      <3>3. PhaseInv'
        BY <2>1, <2>2, <2>3, <3>1, <3>2 DEF PhaseInv
      <3> QED
        BY <2>1, <2>2, <2>3, <2>4, <2>6, <3>1, <3>3, <1>a
    <2>7. CASE msg[c] = "no" /\ Goto(q, "failed") /\ Dropper!Write(q, "available", 1)
      <3>1. \A r \in Requests : pc'[r] = IF r = q THEN "failed" ELSE pc[r]
        BY <2>7 DEF Goto, TypeOK
      <3>2. order[c] = "none"
        BY <2>7 DEF OrderInv, MsgInv
      <3>3. PhaseInv'
        BY <2>1, <2>2, <2>3, <3>1, <3>2 DEF PhaseInv
      <3> QED
        BY <2>1, <2>4, <2>7, <3>2, <3>3, <1>d
    <2> QED
      BY <2>1, <2>4, <2>5, <2>6, <2>7, <2>s
  <1>11. ASSUME NEW c \in Copies, FinalizeLock(c) PROVE PhaseInv' /\ LockInv'
    <2> DEFINE q == c[1]
    <2>1. order[c] = "held" /\ UNCHANGED <<pc, msg>>
      BY <1>11, <1>f DEF FinalizeLock
    <2>2. c = <<q, 1>> /\ q \in Requests
      BY <2>1, <1>c DEF OrderInv, MsgInv
    <2>s. \/ Become(c, "selling") /\ Dropper!Write(q, "sold", 0)
          \/ Become(c, "releasing") /\ Dropper!Write(q, "available", 1)
      BY <1>11 DEF FinalizeLock
    <2> HIDE DEF q
    <2>3. \A r \in Requests : <<r, 1>> \in Copies /\ (<<r, 1>> = c <=> r = q)
      BY <2>2, CopyType
    <2>4. q \in Takers
      BY <2>1, <2>2, <1>o DEF Takers
    <2>5. ASSUME NEW st \in {"selling", "releasing"}, Become(c, st)
          PROVE  /\ PhaseInv'
                 /\ order'[<<q, 1>>] = st
                 /\ \A r \in Requests : r # q => order'[<<r, 1>>] = order[<<r, 1>>]
      <3>1. \A d \in Copies : order'[d] = IF d = c THEN st ELSE order[d]
        BY <2>5 DEF Become, TypeOK
      <3>2. \A r \in Requests : order'[<<r, 1>>] = IF r = q THEN st ELSE order[<<r, 1>>]
        BY <2>3, <3>1
      <3>3. pc[q] # "failed"
        BY <2>1, <2>2 DEF PhaseInv
      <3> QED
        BY <2>1, <2>2, <3>2, <3>3 DEF PhaseInv
    <2>6. CASE Become(c, "selling") /\ Dropper!Write(q, "sold", 0)
      <3>1. /\ PhaseInv' /\ order'[<<q, 1>>] = "selling"
            /\ \A r \in Requests : r # q => order'[<<r, 1>>] = order[<<r, 1>>]
        BY <2>5, <2>6
      <3>2. Takers' = Takers
        BY <2>1, <2>4, <3>1 DEF Takers
      <3>3. SoldTo(q)' /\ \A r \in Takers \ {q} : SoldTo(r)' <=> SoldTo(r)
        BY <3>1 DEF SoldTo, Takers
      <3> QED
        BY <2>4, <2>6, <3>1, <3>2, <3>3, TakerBuys
    <2>7. CASE Become(c, "releasing") /\ Dropper!Write(q, "available", 1)
      <3>1. /\ PhaseInv' /\ order'[<<q, 1>>] = "releasing"
            /\ \A r \in Requests : r # q => order'[<<r, 1>>] = order[<<r, 1>>]
        BY <2>5, <2>7
      <3>2. Takers' = Takers \ {q}
        BY <2>1, <2>4, <3>1 DEF Takers
      <3>3. \A r \in Takers \ {q} : SoldTo(r)' <=> SoldTo(r)
        BY <3>1 DEF SoldTo, Takers
      <3> QED
        BY <2>4, <2>7, <3>1, <3>2, <3>3, TakerLeaves
    <2> QED
      BY <2>6, <2>7, <2>s
  <1>12. ASSUME NEW c \in Copies, Settle(c) PROVE PhaseInv' /\ LockInv'
    <2>1. /\ UNCHANGED <<pc, msg, redis>>
          /\ \/ order[c] = "selling" /\ order' = [order EXCEPT ![c] = "sold"]
             \/ order[c] = "releasing" /\ order' = [order EXCEPT ![c] = "released"]
      BY <1>12 DEF Settle, Become
    <2>2. \A d \in Copies : /\ order'[d] = "none" <=> order[d] = "none"
                            /\ order'[d] \in {"releasing", "released"}
                               <=> order[d] \in {"releasing", "released"}
                            /\ order'[d] \in {"selling", "sold"} <=> order[d] \in {"selling", "sold"}
      BY <2>1 DEF TypeOK
    <2>3. PhaseInv'
      BY <2>1, <2>2, CopyType DEF PhaseInv
    <2>4. Takers' = Takers /\ \A r \in Takers : SoldTo(r)' <=> SoldTo(r)
      BY <2>1, <2>2, CopyType DEF Takers, SoldTo
    <2> QED
      BY <2>1, <2>3, <2>4, TakersStay
  <1>13. ASSUME NEW c \in Copies, Redeliver(c) \/ LoseReply(c) PROVE PhaseInv' /\ LockInv'
    BY <1>13, <1>f DEF Redeliver, LoseReply
  <1>14. CASE UNCHANGED vars
    <2>1. PhaseInv'
      BY <1>14 DEF vars, PhaseInv
    <2>2. Takers' = Takers /\ \A r \in Takers : SoldTo(r)' <=> SoldTo(r)
      BY <1>14 DEF vars, Takers, SoldTo
    <2> QED
      BY <1>14, <2>1, <2>2, TakersStay DEF vars
  <1> QED
    BY <1>1, <1>2, <1>3, <1>4, <1>5, <1>6, <1>7, <1>8, <1>10, <1>11, <1>12, <1>13, <1>14
       DEF Next, Handler, Work, Webhook

LEMMA CalmInit == Init => PhaseInv /\ LockInv
  <1> SUFFICES ASSUME Init PROVE PhaseInv /\ LockInv
    OBVIOUS
  <1>1. Takers = {}
    BY DEF Init, Takers
  <1>2. IsFiniteSet(Takers)
    BY <1>1, FS_EmptySet
  <1>3. \A a \in Areas : freeKey[a] + Places(Count, a, Takers) = Stock[a]
    <2> SUFFICES ASSUME NEW a \in Areas PROVE freeKey[a] + Places(Count, a, Takers) = Stock[a]
      OBVIOUS
    <2>1. Places(Count, a, {}) = 0
      BY PlacesEmpty
    <2>2. Places(Count, a, Takers) = 0
      BY <1>1, <2>1, Zenon
    <2> QED
      BY <2>2, CountType DEF Init
  <1>4. LockInv
    BY <1>1, <1>2, <1>3 DEF Init, LockInv
  <1>5. PhaseInv
    BY CopyType DEF Init, PhaseInv
  <1> QED
    BY <1>4, <1>5

\* When everything has ended, the takers are the requests whose order is sold, in
\* the cache as in the database.
LEMMA QuietAgrees ==
    ASSUME TypeOK, OrderInv, AnswerInv, RowSum, RowsExact, PhaseInv, LockInv, Calm, Quiet
    PROVE  seatKey = dbSeat /\ freeKey = dbFree
  <1>1. ASSUME NEW r \in Takers
        PROVE  /\ <<r, 1>> \in LiveCopies /\ order[<<r, 1>>] = "sold"
               /\ SoldTo(r) /\ r \in Requests
    <2>1. r \in Requests /\ pc[r] = "ok" /\ <<r, 1>> \in Copies
      BY CopyType DEF Takers, Quiet
    <2>2. order[<<r, 1>>] = "sold"
      BY <2>1 DEF Takers, Quiet, PhaseInv
    <2> QED
      BY <2>1, <2>2 DEF LiveCopies, Live, SoldTo
  <1>2. ASSUME NEW c \in LiveCopies
        PROVE  /\ c = <<c[1], 1>> /\ c[1] \in Takers /\ c \in Copies /\ order[c] = "sold"
    <2>1. c \in Copies /\ c[1] \in Requests /\ order[c] = "sold"
      BY CopyType DEF LiveCopies, Live, Quiet
    <2>2. c = <<c[1], 1>>
      BY <2>1 DEF OrderInv, MsgInv, AnswerInv, Calm, Copies
    <2>3. pc[c[1]] \in {"waiting", "store", "ok"}
      BY <2>1, <2>2 DEF PhaseInv, OrderInv, MsgInv, Calm, TypeOK
    <2> QED
      BY <2>1, <2>2, <2>3 DEF Takers
  <1>3. ASSUME NEW s \in Seats PROVE seatKey[s] = dbSeat[s]
    <2>1. CASE \E r \in Takers : s \in Ids[r]
      <3>1. PICK r \in Takers : s \in Ids[r]
        BY <2>1
      <3>2. seatKey[s] = "sold"
        BY <1>1, <3>1 DEF LockInv
      <3>3. <<r, 1>> \in LiveCopies /\ order[<<r, 1>>] = "sold" /\ s \in Ids[<<r, 1>>[1]]
        BY <1>1, <3>1
      <3>4. dbSeat[s] = "sold"
        BY <3>3 DEF RowsExact
      <3> QED
        BY <3>2, <3>4
    <2>2. CASE ~\E r \in Takers : s \in Ids[r]
      <3>1. seatKey[s] = "available"
        BY <2>2 DEF LockInv
      <3>2. dbSeat[s] = "available"
        BY <1>2, <2>2 DEF RowsExact
      <3> QED
        BY <3>1, <3>2
    <2> QED
      BY <2>1, <2>2
  <1>4. ASSUME NEW a \in Areas PROVE freeKey[a] = dbFree[a]
    <2> DEFINE f == [r \in Takers |-> <<r, 1>>]
               g == [c \in LiveCopies |-> c[1]]
    <2>1. Takers \subseteq Requests /\ LiveCopies \subseteq Copies
      BY DEF Takers, LiveCopies
    <2>2. /\ \A r \in Requests : Count[r][a] \in Nat
          /\ \A c \in Copies : Wants[c][a] = Count[c[1]][a] /\ Wants[c][a] \in Nat
      BY CountType
    <2>3. IsFiniteSet(Takers) /\ IsFiniteSet(LiveCopies)
      BY DEF LockInv, RowSum
    <2>4. \A r \in Takers : Count[r][a] \in Nat
      BY <2>1, <2>2
    <2>5. \A c \in LiveCopies : Wants[c][a] \in Nat
      BY <2>1, <2>2
    <2>6. Places(Count, a, Takers) <= Places(Wants, a, LiveCopies)
      <3>1. \A r \in Takers : f[r] \in LiveCopies /\ Count[r][a] = Wants[f[r]][a]
        BY <1>1, <2>1, <2>2
      <3>2. \A q, r \in Takers : f[q] = f[r] => q = r
        OBVIOUS
      <3> HIDE DEF f
      <3> QED
        BY <2>3, <2>4, <2>5, <3>1, <3>2, PlacesEmbed
    <2>7. Places(Wants, a, LiveCopies) <= Places(Count, a, Takers)
      <3>1. \A c \in LiveCopies : g[c] \in Takers /\ Wants[c][a] = Count[g[c]][a]
        BY <1>2, <2>1, <2>2
      <3>2. \A c, d \in LiveCopies : g[c] = g[d] => c = d
        BY <1>2
      <3> HIDE DEF g
      <3> QED
        BY <2>3, <2>4, <2>5, <3>1, <3>2, PlacesEmbed
    <2>8. Places(Count, a, Takers) \in Nat /\ Places(Wants, a, LiveCopies) \in Nat
      BY <2>3, <2>4, <2>5, PlacesType
    <2>9. /\ freeKey[a] + Places(Count, a, Takers) = Stock[a]
          /\ dbFree[a] + Places(Wants, a, LiveCopies) = Stock[a]
      BY DEF LockInv, RowSum
    <2>10. freeKey[a] \in Nat /\ dbFree[a] \in Nat
      BY DEF TypeOK
    <2> QED
      BY <2>6, <2>7, <2>8, <2>9, <2>10
  <1> QED
    BY <1>3, <1>4 DEF TypeOK

\* When everything has ended, nobody has given up and nothing has failed, the cache
\* says of every seat and of every area what the database says.
THEOREM FlowCacheAgrees == Spec => []CacheAgrees
  <1> DEFINE Base == TypeOK /\ OrderInv /\ AnswerInv
             Rest == RowSum /\ RowsExact /\ (Calm => PhaseInv /\ LockInv)
  <1>1. Base /\ Rest /\ [Next]_vars => Rest'
    <2> SUFFICES ASSUME Base, Rest, [Next]_vars PROVE Rest'
      OBVIOUS
    <2>1. RowSum' /\ RowsExact'
      BY RowSumNext, RowsExactNext
    <2>2. Calm' => PhaseInv' /\ LockInv'
      BY CalmBack, CalmNext
    <2> QED
      BY <2>1, <2>2
  <1>2. Init => Rest
    BY SumsInit, RowsExactInit, CalmInit
  <1>3. Base /\ Rest => CacheAgrees
    BY QuietAgrees DEF CacheAgrees
  <1>4. Spec => []Base
    BY FlowAnswerInvariant
  <1> HIDE DEF Base, Rest
  <1> QED
    BY <1>1, <1>2, <1>3, <1>4, PTL DEF Spec
=============================================================================
