--------------------------- MODULE BookingProofs ---------------------------
(***************************************************************************)
(* Proofs about Booking, for any number of placers, handlers, seats and    *)
(* attempts.                                                               *)
(***************************************************************************)
EXTENDS Booking, PlaceSums, TLAPS

(***************************************************************************)
(* Type correctness.                                                       *)
(***************************************************************************)

LEMMA OrderOfPlacer ==
    ASSUME TypeOK, NEW p \in Placers
    PROVE  <<p, attempt[p]>> \in Orders
  BY DEF TypeOK, Orders

LEMMA SeatsInType ==
    ASSUME NEW S \in SUBSET Seats, NEW a \in Areas
    PROVE  SeatsIn(S, a) \in Nat
  <1>1. {s \in S : AreaOf[s] = a} \subseteq Seats
    OBVIOUS
  <1>2. IsFiniteSet({s \in S : AreaOf[s] = a})
    BY <1>1, FS_Subset, BookingAssumption
  <1> QED
    BY <1>2, FS_CardinalityType DEF SeatsIn

LEMMA TypeInit == Init => TypeOK
  <1> SUFFICES ASSUME Init PROVE TypeOK
    OBVIOUS
  <1>1. avail \in [Areas -> Int]
    <2>1. ASSUME NEW a \in Areas
          PROVE  Cardinality({s \in Seats : AreaOf[s] = a}) \in Nat
      BY <2>1, SeatsInType DEF SeatsIn
    <2> QED
      BY <2>1 DEF Init
  <1>2. payload \in [Placers -> Request]
    BY BookingAssumption DEF Init
  <1> QED
    BY <1>1, <1>2, BookingAssumption DEF Init, TypeOK, Orders, Tx

LEMMA TypeRefuse ==
    ASSUME TypeOK, NEW p \in Placers, NEW code \in {"400", "409", "500"}, Refuse(p, code)
    PROVE  /\ payload' \in [Placers -> Request]
           /\ pc' \in [Placers -> {"begin", "locking", "enrich", "insert", "commit",
                                   "apply", "done"}]
           /\ attempt' \in [Placers -> 1 .. MaxAttempts]
           /\ todo' \in [Placers -> SUBSET Seats]
           /\ held' \in [Placers -> SUBSET Seats]
           /\ reply' \in [Placers -> {"none", "200", "400", "409", "500"}]
           /\ rowLock' \in [Seats -> Tx \cup {NoTx}]
  BY DEF TypeOK, Refuse, LeaveTx, ReleaseRows

LEMMA TypePlace ==
    ASSUME TypeOK, NEW p \in Placers,
           Place(p) \/ PlacerAbort(p) \/ PlacerCrash(p)
    PROVE  TypeOK'
  <1>1. CASE Begin(p)
    <2>1. Candidates(p) \subseteq Seats
      BY DEF Candidates
    <2> QED
      BY SMTT(60), <1>1, <2>1, TypeRefuse DEF TypeOK, Begin, tableVars, handlerVars, gatewayVars
  <1>2. ASSUME NEW s \in Seats, LockRow(p, s) PROVE TypeOK'
    BY SMTT(60), <1>2, TypeRefuse DEF TypeOK, LockRow, tableVars, handlerVars, gatewayVars, Tx
  <1>3. CASE HoldSeats(p)
    BY SMTT(60), <1>3, TypeRefuse DEF TypeOK, HoldSeats, tableVars, handlerVars, gatewayVars
  <1>4. CASE Enrich(p)
    <2>1. CASE \E code \in {"400", "500"} : Refuse(p, code)
      BY <1>4, <2>1, TypeRefuse DEF TypeOK, Enrich, tableVars, handlerVars, gatewayVars
    <2>2. CASE ~\E code \in {"400", "500"} : Refuse(p, code)
      <3> DEFINE full == [seats |-> held[p], free |-> [a \in Areas |-> 0],
                          dup |-> payload[p].dup, area |-> payload[p].area,
                          sale |-> payload[p].sale]
      <3>1. payload' = [payload EXCEPT ![p] = full]
        BY <1>4, <2>2 DEF Enrich
      <3>2. full \in Request
        <4>1. payload[p] \in Request /\ held[p] \in SUBSET Seats
          BY DEF TypeOK
        <4> QED
          BY <4>1 DEF Request
      <3>3. payload' \in [Placers -> Request]
        BY <3>1, <3>2 DEF TypeOK
      <3> QED
        BY <1>4, <2>2, <3>3 DEF TypeOK, Enrich, tableVars, handlerVars, gatewayVars
    <2> QED
      BY <2>1, <2>2
  <1>5. CASE GenerateInvoice(p)
    <2>1. CASE Refuse(p, "500") /\ UNCHANGED pay
      BY <1>5, <2>1, TypeRefuse DEF TypeOK, GenerateInvoice, tableVars, handlerVars
    <2>2. CASE /\ pay' = [pay EXCEPT ![<<p, attempt[p]>>] = "open"]
               /\ pc' = [pc EXCEPT ![p] = "commit"]
               /\ UNCHANGED <<payload, attempt, todo, held, reply, rowLock>>
      <3>1. pay' \in [Orders -> {"none", "open", "paid", "expired", "failed"}]
        BY <2>2, OrderOfPlacer DEF TypeOK
      <3>2. pc' \in [Placers -> {"begin", "locking", "enrich", "insert", "commit",
                                "apply", "done"}]
        BY <2>2 DEF TypeOK
      <3>3. UNCHANGED <<payload, attempt, todo, held, reply, rowLock, tableVars,
                        handlerVars, note, resent, orderLock, avail, faults>>
        BY <1>5, <2>2 DEF GenerateInvoice
      <3>4. UNCHANGED <<seatStatus, orderStatus, orderSeats, issued, hpc, job, tries>>
        BY <3>3 DEF tableVars, handlerVars
      <3> QED
        BY <3>1, <3>2, <3>3, <3>4 DEF TypeOK
    <2> QED
      BY <1>5, <2>1, <2>2 DEF GenerateInvoice
  <1>6. CASE CommitOrder(p)
    <2>1. /\ pc' \in [Placers -> {"begin", "locking", "enrich", "insert", "commit",
                                  "apply", "done"}]
          /\ todo' \in [Placers -> SUBSET Seats]
          /\ held' \in [Placers -> SUBSET Seats]
          /\ rowLock' \in [Seats -> Tx \cup {NoTx}]
      <3>1. CASE LeaveTx(p, "apply")
        BY <3>1 DEF TypeOK, LeaveTx, ReleaseRows
      <3>2. CASE LeaveTx(p, "done")
        BY <3>2 DEF TypeOK, LeaveTx, ReleaseRows
      <3> QED
        BY <1>6, <3>1, <3>2 DEF CommitOrder
    <2>2. /\ orderStatus' \in [Orders -> {"none", "waiting-for-payment", "success", "failed"}]
          /\ orderSeats' \in [Orders -> SUBSET Seats]
          /\ seatStatus' \in [Seats -> {"available", "on-hold", "sold"}]
      BY <1>6 DEF TypeOK, CommitOrder
    <2>3. faults' \in 0 .. MaxFaults /\ reply' \in [Placers -> {"none", "200", "400", "409", "500"}]
      BY SMTT(60), <1>6, BookingAssumption DEF TypeOK, CommitOrder, Fault
    <2> QED
      BY <1>6, <2>1, <2>2, <2>3 DEF TypeOK, CommitOrder, handlerVars, gatewayVars
  <1>7. CASE ApplyAvailability(p)
    <2>1. ASSUME NEW a \in Areas
          PROVE  avail[a] - SeatsIn(orderSeats[<<p, attempt[p]>>], a) \in Int
      BY <2>1, SeatsInType, OrderOfPlacer DEF TypeOK
    <2> QED
      BY <1>7, <2>1 DEF TypeOK, ApplyAvailability, tableVars, handlerVars, gatewayVars
  <1>8. CASE PlacerAbort(p)
    <2>1. faults' \in 0 .. MaxFaults
      BY <1>8, BookingAssumption DEF TypeOK, PlacerAbort, Fault
    <2>2. CASE Refuse(p, "500")
      BY <1>8, <2>1, <2>2, TypeRefuse
         DEF TypeOK, PlacerAbort, tableVars, handlerVars, gatewayVars
    <2>3. CASE /\ attempt[p] < MaxAttempts
               /\ LeaveTx(p, "begin")
               /\ attempt' = [attempt EXCEPT ![p] = @ + 1]
               /\ UNCHANGED <<payload, reply>>
      <3>1. attempt[p] + 1 \in 1 .. MaxAttempts
        BY <2>3, BookingAssumption DEF TypeOK
      <3>2. attempt' \in [Placers -> 1 .. MaxAttempts]
        BY <2>3, <3>1 DEF TypeOK
      <3> QED
        BY <1>8, <2>1, <2>3, <3>2
           DEF TypeOK, PlacerAbort, LeaveTx, ReleaseRows, tableVars, handlerVars, gatewayVars
    <2> QED
      BY <1>8, <2>2, <2>3 DEF PlacerAbort
  <1>9. CASE PlacerCrash(p)
    BY <1>9, BookingAssumption
       DEF TypeOK, PlacerCrash, Fault, LeaveTx, ReleaseRows, tableVars, handlerVars, gatewayVars
  <1> QED
    BY <1>1, <1>2, <1>3, <1>4, <1>5, <1>6, <1>7, <1>8, <1>9 DEF Place

LEMMA TypeSettle ==
    ASSUME TypeOK, NEW o \in Orders, NEW outcome \in Outcomes, Settle(o, outcome)
    PROVE  TypeOK'
  BY BookingAssumption DEF TypeOK, Settle, placerVars, tableVars, handlerVars

LEMMA TypeHandle ==
    ASSUME TypeOK, NEW h \in Handlers,
           Handle(h) \/ HandlerAbort(h) \/ HandlerCrash(h)
    PROVE  TypeOK'
  <1> USE DEF placerVars, tableVars, handlerVars, gatewayVars
  <1>1. ASSUME NEW o \in Orders, Deliver(h, o) PROVE TypeOK'
    <2>1. NoOrder \notin Orders
      BY BookingAssumption DEF Orders
    <2> QED
      BY SMTT(60), <1>1, <2>1 DEF TypeOK, Deliver
  <1>2. CASE UpdateInvoiceStatus(h)
    BY <1>2 DEF TypeOK, UpdateInvoiceStatus
  <1>3. CASE UpdateOrderStatus(h)
    BY <1>3 DEF TypeOK, UpdateOrderStatus
  <1>4. CASE UpdateSeatStatus(h)
    BY <1>4 DEF TypeOK, UpdateSeatStatus, Tx
  <1>5. CASE Effects(h)
    <2>1. CASE UNCHANGED avail
      BY <1>5, <2>1 DEF TypeOK, Effects
    <2>2. CASE avail' = [a \in Areas |-> avail[a] + SeatsIn(orderSeats[job[h]], a)]
      <3>1. job[h] \in Orders
        BY <1>5 DEF TypeOK, Effects
      <3>2. ASSUME NEW a \in Areas
            PROVE  avail[a] + SeatsIn(orderSeats[job[h]], a) \in Int
        BY <3>1, <3>2, SeatsInType DEF TypeOK
      <3> QED
        BY <1>5, <2>2, <3>2 DEF TypeOK, Effects
    <2> QED
      BY <1>5, <2>1, <2>2 DEF Effects
  <1>6. CASE CommitWebhook(h)
    BY <1>6 DEF TypeOK, CommitWebhook, ReleaseAll, ReleaseRows, Settled, SeatAfter
  <1>7. CASE Respond(h)
    BY SMTT(60), <1>7, BookingAssumption DEF TypeOK, Respond, Answer, Fault
  <1>8. CASE HandlerAbort(h)
    <2>1. /\ faults' \in 0 .. MaxFaults
          /\ rowLock' \in [Seats -> Tx \cup {NoTx}]
          /\ orderLock' \in [Orders -> Handlers \cup {NoTx}]
      BY <1>8, BookingAssumption DEF TypeOK, HandlerAbort, Fault, ReleaseAll, ReleaseRows
    <2>2. CASE Answer(h, "queued")
      BY <1>8, <2>1, <2>2, BookingAssumption DEF TypeOK, HandlerAbort, Answer
    <2>3. CASE /\ tries[h] < MaxAttempts
               /\ hpc' = [hpc EXCEPT ![h] = "invoice"]
               /\ tries' = [tries EXCEPT ![h] = @ + 1]
               /\ UNCHANGED <<job, note>>
      <3>1. tries[h] + 1 \in 1 .. MaxAttempts
        BY <2>3, BookingAssumption DEF TypeOK
      <3>2. \A g \in Handlers : hpc'[g] # "idle" => hpc[g] # "idle"
        BY <1>8, <2>3 DEF TypeOK, HandlerAbort
      <3> QED
        BY <1>8, <2>1, <2>3, <3>1, <3>2 DEF TypeOK, HandlerAbort
    <2> QED
      BY <1>8, <2>2, <2>3 DEF HandlerAbort
  <1>9. CASE HandlerCrash(h)
    BY <1>9, BookingAssumption
       DEF TypeOK, HandlerCrash, Answer, Fault, ReleaseAll, ReleaseRows
  <1> QED
    BY <1>1, <1>2, <1>3, <1>4, <1>5, <1>6, <1>7, <1>8, <1>9 DEF Handle

\* Every variable keeps its type, whatever faults happen.
THEOREM TypeCorrect == Spec => []TypeOK
  <1>1. TypeOK /\ [Next]_vars => TypeOK'
    <2> SUFFICES ASSUME TypeOK, [Next]_vars PROVE TypeOK'
      OBVIOUS
    <2>1. CASE UNCHANGED vars
      BY <2>1 DEF TypeOK, vars, placerVars, tableVars, handlerVars, gatewayVars
    <2> QED
      BY <2>1, TypePlace, TypeSettle, TypeHandle DEF Next, Finished
  <1> QED
    BY <1>1, TypeInit, PTL DEF Spec

(***************************************************************************)
(* Locks, ids and answers: what holds whatever becomes of the answers to   *)
(* the notifications.                                                      *)
(***************************************************************************)

\* The row locks are those of the rows that open transactions have taken, and
\* a row that a placer has taken is still available to everybody else.
RowInv ==
    /\ \A p \in Placers : held[p] # {} => InTx(p)
    /\ \A s \in Seats, p \in Placers : rowLock[s] = p <=> s \in held[p]
    /\ \A s \in Seats, h \in Handlers :
          rowLock[s] = h <=> hpc[h] \in {"effects", "commit"} /\ s \in orderSeats[job[h]]
    /\ \A p \in Placers : \A s \in held[p] : seatStatus[s] = "available"

\* An order is there only after the commit of the attempt that inserted it, and
\* its invoice only since that attempt asked for one.
FreshInv ==
    \A o \in Orders :
        /\ orderStatus[o] # "none" => attempt[o[1]] = o[2] /\ pc[o[1]] \in {"apply", "done"}
        /\ pay[o] # "none" =>
              /\ o[2] <= attempt[o[1]]
              /\ o[2] = attempt[o[1]] => pc[o[1]] \in {"commit", "apply", "done"}

\* A handler works on an order that is there.
AliveInv == \A h \in Handlers : hpc[h] # "idle" => orderStatus[job[h]] # "none"

\* An answer is given at the end only, and says whether there is an order.
AnswerInv ==
    \A p \in Placers :
        /\ pc[p] # "done" => reply[p] = "none"
        /\ pc[p] = "apply" \/ reply[p] = "200" => orderStatus[<<p, attempt[p]>>] # "none"
        /\ reply[p] \in {"400", "409"} =>
              \A i \in 1 .. MaxAttempts : orderStatus[<<p, i>>] = "none"

BaseInv == /\ RowInv
           /\ FreshInv
           /\ AliveInv
           /\ AnswerInv

LEMMA OrderShape ==
    ASSUME NEW o \in Orders
    PROVE  o[1] \in Placers /\ o[2] \in 1 .. MaxAttempts /\ o = <<o[1], o[2]>>
  BY DEF Orders

LEMMA BaseInit == Init => BaseInv
  <1> SUFFICES ASSUME Init PROVE BaseInv
    OBVIOUS
  <1>1. RowInv /\ AliveInv
    BY BookingAssumption DEF Init, RowInv, AliveInv
  <1>2. \A p \in Placers, i \in 1 .. MaxAttempts : orderStatus[<<p, i>>] = "none"
    BY DEF Init, Orders
  <1>3. FreshInv /\ AnswerInv
    BY <1>2 DEF Init, FreshInv, AnswerInv
  <1> QED
    BY <1>1, <1>3 DEF BaseInv

\* A transaction that is left releases what it has locked.
LEMMA LeaveTxRows ==
    ASSUME TypeOK, BaseInv, NEW p \in Placers, NEW next \in {"begin", "apply", "done"},
           LeaveTx(p, next), UNCHANGED <<orderSeats, handlerVars>>,
           UNCHANGED seatStatus
    PROVE  RowInv'
  BY BookingAssumption
     DEF TypeOK, BaseInv, RowInv, LeaveTx, ReleaseRows, InTx, handlerVars, Tx

\* Before its commit an attempt has no order, and no earlier attempt left one.
LEMMA NoOrderYet ==
    ASSUME TypeOK, BaseInv, NEW p \in Placers, pc[p] \notin {"apply", "done"}
    PROVE  \A i \in 1 .. MaxAttempts : orderStatus[<<p, i>>] = "none"
  <1>1. \A i \in 1 .. MaxAttempts : <<p, i>> \in Orders /\ <<p, i>>[1] = p
    BY DEF Orders
  <1> QED
    BY <1>1 DEF BaseInv, FreshInv

\* A step that leaves the orders alone and gives no answer keeps the answers.
LEMMA SilentKeepsAnswers ==
    ASSUME TypeOK, BaseInv, NEW p \in Placers, pc[p] # "done",
           UNCHANGED <<orderStatus, reply>>, NEW next, next # "apply",
           pc' = [pc EXCEPT ![p] = next],
           \A q \in Placers : q # p => attempt'[q] = attempt[q]
    PROVE  AnswerInv'
  <1> SUFFICES ASSUME NEW q \in Placers
               PROVE  /\ pc'[q] # "done" => reply[q] = "none"
                      /\ pc'[q] = "apply" \/ reply[q] = "200" =>
                            orderStatus[<<q, attempt'[q]>>] # "none"
                      /\ reply[q] \in {"400", "409"} =>
                            \A i \in 1 .. MaxAttempts : orderStatus[<<q, i>>] = "none"
    BY DEF AnswerInv
  <1>1. /\ pc[q] # "done" => reply[q] = "none"
        /\ pc[q] = "apply" \/ reply[q] = "200" => orderStatus[<<q, attempt[q]>>] # "none"
        /\ reply[q] \in {"400", "409"} =>
              \A i \in 1 .. MaxAttempts : orderStatus[<<q, i>>] = "none"
    BY DEF BaseInv, AnswerInv
  <1>2. CASE q # p
    <2>1. pc'[q] = pc[q] /\ attempt'[q] = attempt[q]
      BY <1>2 DEF TypeOK
    <2> QED
      BY <1>1, <2>1
  <1>3. CASE q = p
    <2>1. pc'[q] # "apply" /\ reply[q] = "none"
      BY <1>1, <1>3 DEF TypeOK
    <2> QED
      BY <2>1
  <1> QED
    BY <1>2, <1>3

LEMMA PlaceBase ==
    ASSUME TypeOK, BaseInv, NEW p \in Placers,
           Place(p) \/ PlacerAbort(p) \/ PlacerCrash(p)
    PROVE  BaseInv'
  <1> USE DEF placerVars, tableVars, handlerVars, gatewayVars
  <1> DEFINE o == <<p, attempt[p]>>
  <1>o. o \in Orders /\ o[1] = p /\ o[2] = attempt[p]
    BY OrderOfPlacer
  <1> HIDE DEF o
  <1>b. ASSUME RowInv', FreshInv', AnswerInv', UNCHANGED <<orderStatus, hpc, job>>
        PROVE  BaseInv'
    BY <1>b DEF BaseInv, AliveInv
  <1>f. ASSUME UNCHANGED <<orderStatus, attempt, pay>>, NEW next,
               pc' = [pc EXCEPT ![p] = next],
               pc[p] \in {"apply", "done"} => next \in {"apply", "done"},
               pc[p] = "commit" => next \in {"commit", "apply", "done"}
        PROVE  FreshInv'
    BY <1>f, OrderShape DEF BaseInv, FreshInv, TypeOK
  <1>r. ASSUME NEW code, Refuse(p, code), pc[p] \notin {"apply", "done"}, code # "200",
               UNCHANGED <<tableVars, handlerVars, pay>>
        PROVE  BaseInv'
    <2>1. RowInv'
      BY <1>r, LeaveTxRows DEF Refuse
    <2>2. FreshInv'
      BY <1>r, <1>f DEF Refuse, LeaveTx
    <2>3. \A i \in 1 .. MaxAttempts : orderStatus[<<p, i>>] = "none"
      BY <1>r, NoOrderYet
    <2>4. /\ \A q \in Placers : q # p => pc'[q] = pc[q] /\ reply'[q] = reply[q]
          /\ pc'[p] = "done" /\ reply'[p] = code /\ UNCHANGED <<attempt, orderStatus>>
      BY <1>r DEF Refuse, LeaveTx, TypeOK
    <2>5. AnswerInv'
      BY <1>r, <2>3, <2>4 DEF BaseInv, AnswerInv
    <2> QED
      BY <1>r, <2>1, <2>2, <2>5, <1>b
  <1>s. ASSUME UNCHANGED <<attempt, held, rowLock, reply, tableVars, handlerVars, pay>>,
               InTx(p) \/ pc[p] = "begin", NEW next \in {"locking", "enrich", "insert"},
               pc[p] # "commit", pc' = [pc EXCEPT ![p] = next]
        PROVE  BaseInv'
    <2>1. RowInv'
      BY <1>s DEF BaseInv, RowInv, InTx, TypeOK
    <2>2. FreshInv'
      BY <1>s, <1>f DEF InTx
    <2>3. AnswerInv'
      BY <1>s, SilentKeepsAnswers DEF InTx
    <2> QED
      BY <1>s, <2>1, <2>2, <2>3, <1>b
  <1>1. CASE Begin(p)
    BY <1>1, <1>r, <1>s DEF Begin
  <1>2. ASSUME NEW s \in Seats, LockRow(p, s) PROVE BaseInv'
    <2>1. CASE UNCHANGED <<pc, attempt, held, rowLock, reply>>
      <3>1. RowInv' /\ FreshInv' /\ AnswerInv'
        BY <1>2, <2>1 DEF LockRow, BaseInv, RowInv, FreshInv, AnswerInv, InTx
      <3> QED
        BY <1>2, <3>1, <1>b DEF LockRow
    <2>2. CASE /\ rowLock[s] = NoTx
               /\ seatStatus[s] = "available"
               /\ held' = [held EXCEPT ![p] = @ \cup {s}]
               /\ rowLock' = [rowLock EXCEPT ![s] = p]
               /\ UNCHANGED <<pc, attempt, reply>>
      <3>1. RowInv'
        BY <1>2, <2>2, BookingAssumption DEF LockRow, BaseInv, RowInv, InTx, TypeOK
      <3>2. FreshInv' /\ AnswerInv'
        BY <1>2, <2>2 DEF LockRow, BaseInv, FreshInv, AnswerInv
      <3> QED
        BY <1>2, <3>1, <3>2, <1>b DEF LockRow
    <2> QED
      BY <1>2, <2>1, <2>2, <1>r DEF LockRow
  <1>3. CASE HoldSeats(p)
    BY <1>3, <1>r, <1>s DEF HoldSeats, InTx
  <1>4. CASE Enrich(p)
    BY <1>4, <1>r, <1>s DEF Enrich, InTx
  <1>5. CASE GenerateInvoice(p)
    <2>1. CASE /\ pay' = [pay EXCEPT ![o] = "open"]
               /\ pc' = [pc EXCEPT ![p] = "commit"]
               /\ UNCHANGED <<attempt, held, rowLock, reply>>
      <3>1. RowInv'
        BY <1>5, <2>1 DEF GenerateInvoice, BaseInv, RowInv, InTx, TypeOK
      <3>2. FreshInv'
        BY <1>5, <2>1, <1>o, OrderShape
           DEF GenerateInvoice, BaseInv, FreshInv, TypeOK
      <3>3. AnswerInv'
        BY <1>5, <2>1, SilentKeepsAnswers DEF GenerateInvoice
      <3> QED
        BY <1>5, <3>1, <3>2, <3>3, <1>b DEF GenerateInvoice
    <2>2. CASE Refuse(p, "500") /\ UNCHANGED pay
      BY <1>5, <2>2, <1>r DEF GenerateInvoice
    <2> QED
      BY <1>5, <2>1, <2>2 DEF GenerateInvoice, o
  <1>6. CASE CommitOrder(p)
    <2>1. /\ pc[p] = "commit"
          /\ orderStatus' = [orderStatus EXCEPT ![o] = "waiting-for-payment"]
          /\ orderSeats' = [orderSeats EXCEPT ![o] = held[p]]
          /\ seatStatus' = [s \in Seats |-> IF s \in held[p] THEN "on-hold" ELSE seatStatus[s]]
          /\ held' = [held EXCEPT ![p] = {}]
          /\ rowLock' = [s \in Seats |-> IF rowLock[s] = p THEN NoTx ELSE rowLock[s]]
          /\ UNCHANGED <<attempt, issued, hpc, job, tries, pay, note>>
      BY <1>6 DEF CommitOrder, LeaveTx, ReleaseRows, o
    <2>2. /\ pc'[p] \in {"apply", "done"}
          /\ pc' \in [Placers -> {"begin", "locking", "enrich", "insert", "commit",
                                "apply", "done"}]
          /\ \A r \in Placers : r # p => pc'[r] = pc[r]
      BY <1>6 DEF CommitOrder, LeaveTx, TypeOK
    <2>3. /\ \A r \in Placers : r # p => reply'[r] = reply[r]
          /\ \/ pc'[p] = "apply" /\ reply'[p] = reply[p]
             \/ pc'[p] = "done" /\ reply'[p] = "500"
      <3>1. CASE LeaveTx(p, "apply") /\ UNCHANGED reply
        BY <3>1 DEF LeaveTx, TypeOK
      <3>2. CASE LeaveTx(p, "done") /\ reply' = [reply EXCEPT ![p] = "500"]
        BY <3>2 DEF LeaveTx, TypeOK
      <3> QED
        BY <1>6, <3>1, <3>2 DEF CommitOrder
    <2>4. orderStatus[o] = "none"
      BY <2>1, <1>o DEF BaseInv, FreshInv, TypeOK
    <2>5. ASSUME NEW q \in Orders, orderStatus[q] # "none"
          PROVE  q # o /\ orderStatus'[q] = orderStatus[q] /\ orderSeats'[q] = orderSeats[q]
      BY <2>1, <2>4, <2>5, <1>o DEF TypeOK
    <2>6. \A h \in Handlers : hpc[h] # "idle" => job[h] \in Orders /\ orderStatus[job[h]] # "none"
      BY DEF BaseInv, AliveInv, TypeOK
    <2>7. RowInv'
      BY <2>1, <2>2, <2>5, <2>6, BookingAssumption DEF BaseInv, RowInv, InTx, TypeOK, Tx
    <2>8. FreshInv'
      BY <2>1, <2>2, <1>o, OrderShape DEF BaseInv, FreshInv, TypeOK
    <2>9. AliveInv'
      BY <2>1, <2>5, <2>6 DEF AliveInv
    <2>10. AnswerInv'
      <3>1. reply[p] = "none"
        BY <2>1 DEF BaseInv, AnswerInv
      <3>2. orderStatus'[<<p, attempt[p]>>] # "none"
        BY <2>1, <1>o DEF TypeOK, o
      <3>3. \A q \in Placers, i \in 1 .. MaxAttempts : q # p =>
                orderStatus'[<<q, i>>] = orderStatus[<<q, i>>]
        BY <2>1 DEF TypeOK, o
      <3>4. \A q \in Placers : attempt[q] \in 1 .. MaxAttempts
        BY DEF TypeOK
      <3> QED
        BY <2>1, <2>2, <2>3, <3>1, <3>2, <3>3, <3>4 DEF BaseInv, AnswerInv
    <2> QED
      BY <2>7, <2>8, <2>9, <2>10 DEF BaseInv
  <1>7. CASE ApplyAvailability(p)
    <2>1. RowInv'
      BY <1>7 DEF ApplyAvailability, BaseInv, RowInv, InTx, TypeOK
    <2>2. FreshInv'
      BY <1>7, <1>f DEF ApplyAvailability
    <2>3. AnswerInv'
      BY <1>7 DEF ApplyAvailability, BaseInv, AnswerInv, TypeOK
    <2> QED
      BY <1>7, <2>1, <2>2, <2>3, <1>b DEF ApplyAvailability
  <1>8. CASE PlacerAbort(p)
    <2>1. CASE LeaveTx(p, "begin") /\ attempt' = [attempt EXCEPT ![p] = @ + 1] /\ UNCHANGED reply
      <3>1. RowInv'
        BY <1>8, <2>1, LeaveTxRows DEF PlacerAbort
      <3>2. FreshInv'
        BY <1>8, <2>1, OrderShape, BookingAssumption
           DEF PlacerAbort, LeaveTx, BaseInv, FreshInv, TypeOK
      <3>3. AnswerInv'
        <4>1. /\ pc[p] # "done" /\ pc' = [pc EXCEPT ![p] = "begin"]
              /\ UNCHANGED <<orderStatus, reply>>
          BY <1>8, <2>1 DEF PlacerAbort, LeaveTx
        <4>2. \A q \in Placers : q # p => attempt'[q] = attempt[q]
          BY <2>1 DEF TypeOK
        <4> QED
          BY <4>1, <4>2, SilentKeepsAnswers
      <3> QED
        BY <1>8, <3>1, <3>2, <3>3, <1>b DEF PlacerAbort
    <2> QED
      BY <1>8, <2>1, <1>r DEF PlacerAbort
  <1>9. CASE PlacerCrash(p)
    <2>1. RowInv'
      BY <1>9, LeaveTxRows DEF PlacerCrash
    <2>2. FreshInv'
      BY <1>9, <1>f DEF PlacerCrash, LeaveTx
    <2>3. AnswerInv'
      BY <1>9, SilentKeepsAnswers DEF PlacerCrash, LeaveTx, InTx
    <2> QED
      BY <1>9, <2>1, <2>2, <2>3, <1>b DEF PlacerCrash
  <1> QED
    BY <1>1, <1>2, <1>3, <1>4, <1>5, <1>6, <1>7, <1>8, <1>9 DEF Place

LEMMA SettleBase ==
    ASSUME TypeOK, BaseInv, NEW o \in Orders, NEW outcome \in Outcomes, Settle(o, outcome)
    PROVE  BaseInv'
  <1> USE DEF placerVars, tableVars, handlerVars
  <1>1. RowInv' /\ AliveInv' /\ AnswerInv'
    BY DEF Settle, BaseInv, RowInv, AliveInv, AnswerInv, InTx
  <1>2. FreshInv'
    BY DEF Settle, BaseInv, FreshInv, TypeOK
  <1> QED
    BY <1>1, <1>2 DEF BaseInv

\* Handlers change orders that are there, and no answer to a placer.
LEMMA HandleBase ==
    ASSUME TypeOK, BaseInv, NEW h \in Handlers,
           Handle(h) \/ HandlerAbort(h) \/ HandlerCrash(h)
    PROVE  BaseInv'
  <1> USE DEF placerVars, tableVars, handlerVars, gatewayVars
  <1>t. ASSUME UNCHANGED <<placerVars, tableVars, pay>>
        PROVE  FreshInv' /\ AnswerInv'
    BY <1>t DEF BaseInv, FreshInv, AnswerInv
  <1>a. ASSUME NEW result, Answer(h, result), hpc[h] # "idle"
        PROVE  \A k \in Handlers : /\ hpc'[k] = IF k = h THEN "idle" ELSE hpc[k]
                                   /\ k # h => job'[k] = job[k]
    BY <1>a DEF Answer, TypeOK
  <1>q. ASSUME Answer(h, "queued"), ReleaseRows(h), hpc[h] # "idle",
               UNCHANGED <<placerVars, tableVars, pay>>
        PROVE  BaseInv'
    <2>1. RowInv'
      BY <1>q, <1>a, BookingAssumption DEF ReleaseRows, BaseInv, RowInv, InTx, TypeOK, Tx
    <2>2. AliveInv'
      BY <1>q, <1>a DEF BaseInv, AliveInv
    <2> QED
      BY <1>q, <1>t, <2>1, <2>2 DEF BaseInv
  <1>1. ASSUME NEW o \in Orders, Deliver(h, o) PROVE BaseInv'
    <2>1. RowInv' /\ AliveInv'
      BY <1>1 DEF Deliver, BaseInv, RowInv, AliveInv, InTx, TypeOK
    <2> QED
      BY <1>1, <1>t, <2>1 DEF BaseInv, Deliver
  <1>2. ASSUME UpdateInvoiceStatus(h) \/ UpdateOrderStatus(h) PROVE BaseInv'
    <2>1. RowInv' /\ AliveInv'
      BY <1>2 DEF UpdateInvoiceStatus, UpdateOrderStatus, BaseInv, RowInv, AliveInv,
                  InTx, TypeOK
    <2> QED
      BY <1>2, <1>t, <2>1 DEF BaseInv, UpdateInvoiceStatus, UpdateOrderStatus
  <1>3. CASE UpdateSeatStatus(h)
    <2>1. RowInv'
      BY <1>3, BookingAssumption DEF UpdateSeatStatus, BaseInv, RowInv, InTx, TypeOK, Tx
    <2>2. AliveInv'
      BY <1>3 DEF UpdateSeatStatus, BaseInv, AliveInv, TypeOK
    <2> QED
      BY <1>3, <1>t, <2>1, <2>2 DEF BaseInv, UpdateSeatStatus
  <1>4. CASE Effects(h)
    <2>1. RowInv' /\ AliveInv'
      BY <1>4 DEF Effects, BaseInv, RowInv, AliveInv, InTx, TypeOK
    <2> QED
      BY <1>4, <1>t, <2>1 DEF BaseInv, Effects
  <1>5. CASE CommitWebhook(h)
    <2> DEFINE o == job[h]
    <2>o. /\ o \in Orders /\ orderStatus[o] # "none"
          /\ \A s \in orderSeats[o] : s \in Seats /\ rowLock[s] = h
      BY <1>5 DEF CommitWebhook, BaseInv, AliveInv, RowInv, TypeOK
    <2>1. /\ orderStatus' = [orderStatus EXCEPT ![o] = Settled(o)]
          /\ seatStatus' = [s \in Seats |-> IF s \in orderSeats[o] THEN SeatAfter(o)
                                            ELSE seatStatus[s]]
          /\ hpc' = [hpc EXCEPT ![h] = "respond"]
          /\ rowLock' = [s \in Seats |-> IF rowLock[s] = h THEN NoTx ELSE rowLock[s]]
          /\ UNCHANGED <<placerVars, orderSeats, job, tries, gatewayVars>>
      BY <1>5 DEF CommitWebhook, ReleaseAll, ReleaseRows
    <2> HIDE DEF o
    <2>2. \A q \in Orders : orderStatus'[q] # "none" <=> orderStatus[q] # "none"
      BY <2>1, <2>o DEF TypeOK, Settled
    <2>3. RowInv'
      BY <2>1, <2>o, BookingAssumption DEF BaseInv, RowInv, InTx, TypeOK, Tx
    <2>4. FreshInv'
      BY <2>1, <2>2 DEF BaseInv, FreshInv
    <2>5. AliveInv'
      BY <2>1, <2>2, <1>5 DEF BaseInv, AliveInv, TypeOK, CommitWebhook
    <2>6. AnswerInv'
      <3>1. \A p \in Placers : \A i \in 1 .. MaxAttempts : <<p, i>> \in Orders
        BY DEF Orders
      <3>2. \A p \in Placers : <<p, attempt[p]>> \in Orders
        BY OrderOfPlacer
      <3> QED
        BY <2>1, <2>2, <3>1, <3>2 DEF BaseInv, AnswerInv
    <2> QED
      BY <2>3, <2>4, <2>5, <2>6 DEF BaseInv
  <1>6. CASE Respond(h)
    <2>1. PICK result : Answer(h, result) /\ hpc[h] = "respond" /\ UNCHANGED rowLock
      BY <1>6 DEF Respond
    <2>2. RowInv' /\ AliveInv'
      BY <1>6, <2>1, <1>a DEF Respond, BaseInv, RowInv, AliveInv, InTx
    <2> QED
      BY <1>6, <1>t, <2>2 DEF BaseInv, Respond
  <1>7. CASE HandlerAbort(h)
    <2>1. CASE Answer(h, "queued")
      BY <1>7, <2>1, <1>q DEF HandlerAbort, ReleaseAll
    <2>2. CASE /\ hpc' = [hpc EXCEPT ![h] = "invoice"]
               /\ UNCHANGED <<job, note>>
      <3>1. RowInv'
        BY <1>7, <2>2, BookingAssumption
           DEF HandlerAbort, ReleaseAll, ReleaseRows, BaseInv, RowInv, InTx, TypeOK, Tx
      <3>2. AliveInv'
        BY <1>7, <2>2 DEF HandlerAbort, BaseInv, AliveInv, TypeOK
      <3> QED
        BY <1>7, <1>t, <3>1, <3>2 DEF BaseInv, HandlerAbort
    <2> QED
      BY <1>7, <2>1, <2>2 DEF HandlerAbort
  <1>8. CASE HandlerCrash(h)
    BY <1>8, <1>q DEF HandlerCrash, ReleaseAll
  <1> QED
    BY <1>1, <1>2, <1>3, <1>4, <1>5, <1>6, <1>7, <1>8 DEF Handle

LEMMA BaseNext == TypeOK /\ BaseInv /\ [Next]_vars => BaseInv'
  <1> SUFFICES ASSUME TypeOK, BaseInv, [Next]_vars PROVE BaseInv'
    OBVIOUS
  <1>1. CASE UNCHANGED vars
    <2> USE <1>1 DEF vars, placerVars, tableVars, handlerVars, gatewayVars
    <2>1. RowInv' /\ FreshInv'
      BY DEF BaseInv, RowInv, FreshInv, InTx
    <2>2. AliveInv' /\ AnswerInv'
      BY DEF BaseInv, AliveInv, AnswerInv
    <2> QED
      BY <2>1, <2>2 DEF BaseInv
  <1> QED
    BY <1>1, PlaceBase, SettleBase, HandleBase DEF Next, Finished

\* Locks, ids and answers are in order whatever faults happen.
THEOREM BaseInvariant == Spec => [](TypeOK /\ BaseInv)
  BY TypeCorrect, BaseInit, BaseNext, PTL DEF Spec

\* No row stays locked when the transaction that locked it is over, also when
\* answers to notifications are lost.
THEOREM NoOrphanLockHolds == Spec => []NoOrphanLock
  <1>1. TypeOK /\ BaseInv => NoOrphanLock
    BY DEF TypeOK, BaseInv, RowInv, NoOrphanLock
  <1> QED
    BY <1>1, BaseInvariant, PTL

\* However often a request is retried it leaves at most one order, a 200 names
\* one that is there, and a 400 or a 409 leaves none.
THEOREM OneOrderPerRequestHolds == Spec => []OneOrderPerRequest
  <1>1. TypeOK /\ BaseInv => OneOrderPerRequest
    <2>1. \A p \in Placers, i \in 1 .. MaxAttempts :
              <<p, i>> \in Orders /\ <<p, i>>[1] = p /\ <<p, i>>[2] = i
      BY DEF Orders
    <2> QED
      BY <2>1 DEF BaseInv, FreshInv, AnswerInv, OneOrderPerRequest
  <1> QED
    BY <1>1, BaseInvariant, PTL

(***************************************************************************)
(* Tickets.  This section needs no hypothesis about the faults: it counts  *)
(* the answers that were lost.                                             *)
(***************************************************************************)

\* A handler works on a notification nobody else works on.  For a paid order it has
\* added one batch to those of the handlings before it once it answers, and none
\* before.
WorkInv ==
    \A h \in Handlers : hpc[h] # "idle" =>
        /\ note[job[h]] = "running"
        /\ \A k \in Handlers : hpc[k] # "idle" /\ job[k] = job[h] => k = h
        /\ pay[job[h]] = "paid" =>
              issued[job[h]] = resent[job[h]] + (IF hpc[h] = "respond" THEN 1 ELSE 0)

\* What is issued for an order between the handlings of its notification.
BatchesOf(o) ==
    /\ note[o] = "none" <=> pay[o] \in {"none", "open"}
    /\ note[o] = "none" => issued[o] = 0 /\ resent[o] = 0
    /\ pay[o] # "paid" => issued[o] = 0
    /\ orderStatus[o] = "success" <=> issued[o] >= 1
    /\ pay[o] = "paid" =>
          /\ issued[o] \in resent[o] .. resent[o] + 1
          /\ note[o] = "queued" => issued[o] = resent[o]
          /\ note[o] = "done" /\ orderStatus[o] = "success" => issued[o] = resent[o] + 1

BatchInv == WorkInv /\ \A o \in Orders : BatchesOf(o)

LEMMA BatchInit == Init => BatchInv
  BY DEF Init, BatchInv, WorkInv, BatchesOf

\* A placer makes orders that wait for payment, and invoices that are open.
LEMMA BatchPlace ==
    ASSUME TypeOK, BaseInv, BatchInv, NEW p \in Placers,
           Place(p) \/ PlacerAbort(p) \/ PlacerCrash(p)
    PROVE  BatchInv'
  <1> USE DEF placerVars, tableVars, handlerVars, gatewayVars
  <1> DEFINE n == <<p, attempt[p]>>
  <1>n. n \in Orders /\ n[1] = p /\ n[2] = attempt[p]
    BY OrderOfPlacer
  <1> HIDE DEF n
  <1>0. UNCHANGED <<issued, note, resent, hpc, job>>
    BY DEF Place, Begin, LockRow, HoldSeats, Enrich, GenerateInvoice, CommitOrder,
           ApplyAvailability, PlacerAbort, PlacerCrash
  <1>1. \A o \in Orders : pay'[o] = pay[o] \/ (pay[o] = "none" /\ pay'[o] = "open")
    <2>1. CASE UNCHANGED pay
      BY <2>1
    <2>2. CASE pc[p] = "insert" /\ pay' = [pay EXCEPT ![n] = "open"]
      <3>1. pay[n] = "none"
        BY <1>n, <2>2 DEF BaseInv, FreshInv
      <3> QED
        BY <1>n, <2>2, <3>1 DEF TypeOK
    <2> QED
      BY <2>1, <2>2 DEF Place, Begin, LockRow, HoldSeats, Enrich, GenerateInvoice, CommitOrder,
                        ApplyAvailability, PlacerAbort, PlacerCrash, n
  <1>2. \A o \in Orders : orderStatus'[o] = "success" <=> orderStatus[o] = "success"
    <2>1. CASE UNCHANGED orderStatus
      BY <2>1
    <2>2. CASE pc[p] = "commit" /\ orderStatus' = [orderStatus EXCEPT ![n] = "waiting-for-payment"]
      <3>1. orderStatus[n] = "none"
        BY <1>n, <2>2 DEF BaseInv, FreshInv
      <3> QED
        BY <1>n, <2>2, <3>1 DEF TypeOK
    <2> QED
      BY <2>1, <2>2 DEF Place, Begin, LockRow, HoldSeats, Enrich, GenerateInvoice, CommitOrder,
                        ApplyAvailability, PlacerAbort, PlacerCrash, n
  <1>3. WorkInv'
    BY <1>0, <1>1 DEF BatchInv, WorkInv, TypeOK
  <1>4. \A o \in Orders : BatchesOf(o)'
    BY <1>0, <1>1, <1>2 DEF BatchInv, BatchesOf
  <1> QED
    BY <1>3, <1>4 DEF BatchInv

\* The first notification of an order finds nothing issued.
LEMMA BatchSettle ==
    ASSUME TypeOK, BatchInv, NEW o \in Orders, NEW outcome \in Outcomes, Settle(o, outcome)
    PROVE  BatchInv'
  <1>1. /\ pay[o] = "open"
        /\ pay' = [pay EXCEPT ![o] = outcome]
        /\ note' = [note EXCEPT ![o] = "queued"]
        /\ UNCHANGED <<issued, orderStatus, resent, hpc, job>>
    BY DEF Settle, tableVars, handlerVars
  <1>2. outcome \in {"paid", "expired", "failed"}
    BY BookingAssumption
  <1>3. note[o] = "none" /\ issued[o] = 0 /\ resent[o] = 0
    BY <1>1 DEF BatchInv, BatchesOf
  <1>4. \A h \in Handlers : hpc[h] # "idle" => job[h] # o
    BY <1>3 DEF BatchInv, WorkInv
  <1>5. WorkInv'
    BY <1>1, <1>4 DEF BatchInv, WorkInv, TypeOK
  <1>6. ASSUME NEW q \in Orders PROVE BatchesOf(q)'
    <2>1. CASE q = o
      <3>1. pay'[q] = outcome /\ note'[q] = "queued"
        BY <1>1, <2>1 DEF TypeOK
      <3>2. orderStatus[q] # "success"
        BY <1>3, <2>1 DEF BatchInv, BatchesOf
      <3> QED
        BY <1>1, <1>2, <1>3, <2>1, <3>1, <3>2 DEF BatchesOf
    <2>2. CASE q # o
      <3>1. pay'[q] = pay[q] /\ note'[q] = note[q]
        BY <1>1, <2>2 DEF TypeOK
      <3> QED
        BY <1>1, <3>1 DEF BatchInv, BatchesOf
    <2> QED
      BY <2>1, <2>2
  <1> QED
    BY <1>5, <1>6 DEF BatchInv

\* An answer of h says what becomes of its notification; with "queued" the batches
\* of the order have to be those of the handlings that will not be told of again.
LEMMA BatchAnswer ==
    ASSUME TypeOK, BatchInv, NEW h \in Handlers, hpc[h] # "idle",
           NEW result \in {"queued", "done"}, Answer(h, result),
           UNCHANGED <<issued, orderStatus, pay>>,
           resent' \in [Orders -> Nat],
           \A o \in Orders : o # job[h] => resent'[o] = resent[o],
           pay[job[h]] = "paid" =>
               issued[job[h]] = resent'[job[h]] + (IF result = "done" THEN 1 ELSE 0)
    PROVE  BatchInv'
  <1> DEFINE o == job[h]
  <1>o. o \in Orders /\ note[o] = "running"
    BY DEF TypeOK, BatchInv, WorkInv
  <1>1. /\ hpc' = [hpc EXCEPT ![h] = "idle"]
        /\ job' = [job EXCEPT ![h] = NoOrder]
        /\ note' = [note EXCEPT ![o] = result]
    BY DEF Answer
  <1>2. \A k \in Handlers : hpc[k] # "idle" /\ k # h => job[k] # o
    BY DEF BatchInv, WorkInv
  <1>3. pay[o] = "paid" => issued[o] = resent'[o] + (IF result = "done" THEN 1 ELSE 0)
    OBVIOUS
  <1>r. \A q \in Orders : q # o => resent'[q] = resent[q]
    OBVIOUS
  <1> HIDE DEF o
  <1>4. WorkInv'
    <2> SUFFICES ASSUME NEW k \in Handlers, hpc'[k] # "idle"
                 PROVE  /\ note'[job'[k]] = "running"
                        /\ \A g \in Handlers : hpc'[g] # "idle" /\ job'[g] = job'[k] => g = k
                        /\ pay[job'[k]] = "paid" =>
                              issued[job'[k]] = resent'[job'[k]]
                                                + (IF hpc'[k] = "respond" THEN 1 ELSE 0)
      BY DEF WorkInv
    <2>1. \A g \in Handlers : hpc'[g] # "idle" => g # h /\ hpc'[g] = hpc[g] /\ job'[g] = job[g]
      BY <1>1 DEF TypeOK
    <2>2. job[k] \in Orders /\ job[k] # o
      BY <1>2, <2>1 DEF TypeOK
    <2>3. note'[job[k]] = note[job[k]] /\ resent'[job[k]] = resent[job[k]]
      BY <1>1, <1>r, <2>2 DEF TypeOK
    <2> QED
      BY <2>1, <2>3 DEF BatchInv, WorkInv
  <1>5. ASSUME NEW q \in Orders PROVE BatchesOf(q)'
    <2>1. CASE q # o
      <3>1. note'[q] = note[q] /\ resent'[q] = resent[q]
        BY <1>1, <1>r, <2>1 DEF TypeOK
      <3> QED
        BY <3>1 DEF BatchInv, BatchesOf
    <2>2. CASE q = o
      <3>1. note'[q] = result /\ pay[q] \notin {"none", "open"}
        BY <1>1, <1>o, <2>2 DEF TypeOK, BatchInv, BatchesOf
      <3>2. resent'[q] \in Nat /\ issued[q] \in Nat
        BY DEF TypeOK
      <3>3. /\ pay[q] # "paid" => issued[q] = 0
            /\ orderStatus[q] = "success" <=> issued[q] >= 1
        BY DEF BatchInv, BatchesOf
      <3> QED
        BY <1>3, <2>2, <3>1, <3>2, <3>3 DEF BatchesOf
    <2> QED
      BY <2>1, <2>2
  <1> QED
    BY <1>4, <1>5 DEF BatchInv

LEMMA BatchHandle ==
    ASSUME TypeOK, BatchInv, NEW h \in Handlers,
           Handle(h) \/ HandlerAbort(h) \/ HandlerCrash(h)
    PROVE  BatchInv'
  <1> USE DEF placerVars, tableVars, handlerVars, gatewayVars
  <1>1. ASSUME NEW o \in Orders, Deliver(h, o) PROVE BatchInv'
    <2>1. /\ hpc[h] = "idle" /\ note[o] = "queued"
          /\ UNCHANGED <<issued, orderStatus, resent, pay>>
          /\ \A k \in Handlers : hpc[k] # "idle" => job[k] # o
      BY <1>1 DEF Deliver, BatchInv, WorkInv
    <2>2. CASE /\ orderStatus[o] = "none"
               /\ note' = [note EXCEPT ![o] = "done"]
               /\ UNCHANGED handlerVars
      <3>1. WorkInv'
        BY <2>1, <2>2 DEF BatchInv, WorkInv, TypeOK
      <3>2. \A q \in Orders : BatchesOf(q)'
        BY <2>1, <2>2 DEF BatchInv, BatchesOf, TypeOK
      <3> QED
        BY <3>1, <3>2 DEF BatchInv
    <2>3. CASE /\ note' = [note EXCEPT ![o] = "running"]
               /\ hpc' = [hpc EXCEPT ![h] = "invoice"]
               /\ job' = [job EXCEPT ![h] = o]
      <3>1. WorkInv'
        <4> SUFFICES ASSUME NEW k \in Handlers, hpc'[k] # "idle"
                     PROVE  /\ note'[job'[k]] = "running"
                            /\ \A g \in Handlers :
                                  hpc'[g] # "idle" /\ job'[g] = job'[k] => g = k
                            /\ pay[job'[k]] = "paid" =>
                                  issued[job'[k]] = resent[job'[k]]
                                                    + (IF hpc'[k] = "respond" THEN 1 ELSE 0)
          BY <2>1 DEF WorkInv
        <4>1. \A g \in Handlers :
                  IF g = h THEN hpc'[g] = "invoice" /\ job'[g] = o
                           ELSE hpc'[g] = hpc[g] /\ job'[g] = job[g]
          BY <2>3 DEF TypeOK
        <4>2. CASE k = h
          <5>1. pay[o] = "paid" => issued[o] = resent[o] + 0
            BY <2>1 DEF BatchInv, BatchesOf, TypeOK
          <5> QED
            BY <2>1, <2>3, <4>1, <4>2, <5>1 DEF TypeOK
        <4>3. CASE k # h
          <5>1. job[k] \in Orders /\ job[k] # o /\ hpc[k] # "idle"
            BY <2>1, <4>1, <4>3 DEF TypeOK
          <5>2. note'[job[k]] = note[job[k]]
            BY <2>3, <5>1 DEF TypeOK
          <5> QED
            BY <4>1, <4>3, <5>1, <5>2 DEF BatchInv, WorkInv
        <4> QED
          BY <4>2, <4>3
      <3>2. \A q \in Orders : BatchesOf(q)'
        BY <2>1, <2>3 DEF BatchInv, BatchesOf, TypeOK
      <3> QED
        BY <3>1, <3>2 DEF BatchInv
    <2> QED
      BY <1>1, <2>2, <2>3 DEF Deliver
  \* Between the statements of a transaction nothing is issued.
  <1>2. ASSUME NEW next \in {"invoice", "order", "seats", "effects", "commit"},
               hpc[h] \notin {"idle", "respond"},
               hpc' = [hpc EXCEPT ![h] = next],
               UNCHANGED <<issued, orderStatus, note, resent, pay, job>>
        PROVE  BatchInv'
    <2>1. WorkInv'
      BY <1>2 DEF BatchInv, WorkInv, TypeOK
    <2>2. \A q \in Orders : BatchesOf(q)'
      BY <1>2 DEF BatchInv, BatchesOf
    <2> QED
      BY <2>1, <2>2 DEF BatchInv
  <1>3. CASE CommitWebhook(h)
    <2> DEFINE o == job[h]
    <2>o. /\ o \in Orders /\ note[o] = "running" /\ hpc[h] = "commit"
          /\ \A k \in Handlers : hpc[k] # "idle" /\ k # h => job[k] # o
          /\ pay[o] = "paid" => issued[o] = resent[o] + 0
      BY <1>3 DEF CommitWebhook, BatchInv, WorkInv, TypeOK
    <2>1. /\ orderStatus' = [orderStatus EXCEPT ![o] = Settled(o)]
          /\ issued' = [issued EXCEPT ![o] = IF pay[o] = "paid" THEN @ + 1 ELSE @]
          /\ hpc' = [hpc EXCEPT ![h] = "respond"]
          /\ UNCHANGED <<job, note, resent, pay>>
      BY <1>3 DEF CommitWebhook
    <2> HIDE DEF o
    <2>2. \A q \in Orders : q # o => orderStatus'[q] = orderStatus[q] /\ issued'[q] = issued[q]
      BY <2>1, <2>o DEF TypeOK
    <2>3. /\ orderStatus'[o] = Settled(o)
          /\ issued'[o] = IF pay[o] = "paid" THEN issued[o] + 1 ELSE issued[o]
      BY <2>1, <2>o DEF TypeOK
    <2>4. issued[o] \in Nat /\ resent[o] \in Nat
      BY <2>o DEF TypeOK
    <2>5. WorkInv'
      <3> SUFFICES ASSUME NEW k \in Handlers, hpc'[k] # "idle"
                   PROVE  /\ note[job[k]] = "running"
                          /\ \A g \in Handlers : hpc'[g] # "idle" /\ job[g] = job[k] => g = k
                          /\ pay[job[k]] = "paid" =>
                                issued'[job[k]] = resent[job[k]]
                                                  + (IF hpc'[k] = "respond" THEN 1 ELSE 0)
        BY <2>1 DEF WorkInv
      <3>1. \A g \in Handlers : /\ g # h => hpc'[g] = hpc[g]
                                /\ hpc'[g] # "idle" => hpc[g] # "idle"
        BY <2>1, <2>o DEF TypeOK
      <3>2. CASE k = h
        <4>1. hpc'[h] = "respond" /\ job[k] = o
          BY <2>1, <3>2 DEF TypeOK, o
        <4> QED
          BY <2>o, <2>3, <2>4, <3>1, <3>2, <4>1
      <3>3. CASE k # h
        <4>1. hpc'[k] = hpc[k] /\ hpc[k] # "idle"
          BY <3>1, <3>3
        <4>2. job[k] \in Orders /\ job[k] # o
          BY <2>o, <3>3, <4>1 DEF TypeOK
        <4>3. issued'[job[k]] = issued[job[k]]
          BY <2>2, <4>2
        <4> QED
          BY <3>1, <4>1, <4>3 DEF BatchInv, WorkInv
      <3> QED
        BY <3>2, <3>3
    <2>6. ASSUME NEW q \in Orders PROVE BatchesOf(q)'
      <3>1. CASE q # o
        BY <2>1, <2>2, <3>1 DEF BatchInv, BatchesOf
      <3>2. CASE q = o
        <4>1. BatchesOf(o)
          BY <2>o DEF BatchInv
        <4> QED
          BY <2>o, <2>1, <2>3, <2>4, <3>2, <4>1 DEF BatchesOf, Settled
      <3> QED
        BY <3>1, <3>2
    <2> QED
      BY <2>5, <2>6 DEF BatchInv
  <1>4. CASE Respond(h)
    <2>1. /\ job[h] \in Orders /\ hpc[h] = "respond"
          /\ pay[job[h]] = "paid" => issued[job[h]] = resent[job[h]] + 1
          /\ resent[job[h]] \in Nat
          /\ UNCHANGED <<issued, orderStatus, pay>>
      BY <1>4 DEF Respond, BatchInv, WorkInv, TypeOK
    <2>2. CASE Answer(h, "done") /\ UNCHANGED resent
      <3>1. resent' \in [Orders -> Nat] /\ \A o \in Orders : resent'[o] = resent[o]
        BY <2>2 DEF TypeOK
      <3> QED
        BY <2>1, <2>2, <3>1, BatchAnswer
    <2>3. CASE Answer(h, "queued") /\ resent' = [resent EXCEPT ![job[h]] = @ + 1]
      <3>1. /\ resent' \in [Orders -> Nat]
            /\ \A o \in Orders : o # job[h] => resent'[o] = resent[o]
            /\ resent'[job[h]] = resent[job[h]] + 1
        BY <2>1, <2>3 DEF TypeOK
      <3>2. pay[job[h]] = "paid" => issued[job[h]] = resent'[job[h]] + 0
        BY <2>1, <3>1
      <3> QED
        BY <2>1, <2>3, <3>1, <3>2, BatchAnswer
    <2> QED
      BY <1>4, <2>2, <2>3 DEF Respond
  <1>5. ASSUME Answer(h, "queued"), hpc[h] \notin {"idle", "respond"},
               UNCHANGED <<issued, orderStatus, pay, resent>>
        PROVE  BatchInv'
    <2>1. resent' \in [Orders -> Nat] /\ \A o \in Orders : resent'[o] = resent[o]
      BY <1>5 DEF TypeOK
    <2>2. job[h] \in Orders /\ (pay[job[h]] = "paid" => issued[job[h]] = resent'[job[h]] + 0)
      BY <1>5 DEF BatchInv, WorkInv, TypeOK
    <2> QED
      BY <1>5, <2>1, <2>2, BatchAnswer
  <1>6. CASE HandlerAbort(h)
    BY <1>2, <1>5, <1>6 DEF HandlerAbort
  <1>7. CASE HandlerCrash(h)
    BY <1>5, <1>7 DEF HandlerCrash
  <1>8. CASE UpdateInvoiceStatus(h) \/ UpdateOrderStatus(h) \/ UpdateSeatStatus(h) \/ Effects(h)
    BY <1>2, <1>8 DEF UpdateInvoiceStatus, UpdateOrderStatus, UpdateSeatStatus, Effects
  <1> QED
    BY <1>1, <1>3, <1>4, <1>6, <1>7, <1>8 DEF Handle

LEMMA BatchNext == TypeOK /\ BaseInv /\ BatchInv /\ [Next]_vars => BatchInv'
  <1> SUFFICES ASSUME TypeOK, BaseInv, BatchInv, [Next]_vars PROVE BatchInv'
    OBVIOUS
  <1>1. CASE UNCHANGED vars
    <2>1. UNCHANGED <<hpc, job, note, pay, issued, resent, orderStatus>>
      BY <1>1 DEF vars, tableVars, handlerVars, gatewayVars
    <2>2. WorkInv'
      BY <2>1 DEF BatchInv, WorkInv
    <2>3. \A o \in Orders : BatchesOf(o)'
      BY <2>1 DEF BatchInv, BatchesOf
    <2> QED
      BY <2>2, <2>3 DEF BatchInv
  <1> QED
    BY <1>1, BatchPlace, BatchSettle, BatchHandle DEF Next, Finished

\* Whatever faults happen, a paid order has one batch of tickets for every handling
\* of its notification that was committed: one, and one more for each lost answer.
THEOREM OneBatchPerHandlingHolds == Spec => []OneBatchPerHandling
  <1>1. TypeOK /\ BatchInv => OneBatchPerHandling
    <2> SUFFICES ASSUME TypeOK, BatchInv, NEW o \in Orders
                 PROVE  IF orderStatus[o] = "success"
                        THEN /\ issued[o] >= 1
                             /\ issued[o] \in resent[o] .. resent[o] + 1
                             /\ note[o] = "done" => issued[o] = resent[o] + 1
                        ELSE issued[o] = 0
      BY DEF OneBatchPerHandling
    <2>1. BatchesOf(o) /\ issued[o] \in Nat /\ resent[o] \in Nat
      BY DEF BatchInv, TypeOK
    <2> QED
      BY <2>1 DEF BatchesOf
  <1>2. TypeOK /\ BaseInv /\ BatchInv /\ [Next]_vars => BatchInv'
    BY BatchNext
  <1> QED
    BY <1>1, <1>2, BatchInit, BaseInvariant, PTL DEF Spec

(***************************************************************************)
(* Seats, orders and notifications.                                        *)
(***************************************************************************)

\* A handler works on a notification nobody else works on, and its order waits
\* for payment until the handler has committed.
JobInv ==
    \A h \in Handlers : hpc[h] # "idle" =>
        /\ note[job[h]] = "running"
        /\ hpc[h] # "respond" => orderStatus[job[h]] = "waiting-for-payment"
        /\ hpc[h] = "respond" => orderStatus[job[h]] \in {"success", "failed"}
        /\ \A k \in Handlers : hpc[k] # "idle" /\ job[k] = job[h] => k = h

\* A notification is only there for a settled invoice, and never waits to be
\* delivered for an order that is no longer waiting for payment.
NoteInv ==
    \A o \in Orders :
        /\ note[o] = "none" <=> pay[o] \in {"none", "open"}
        /\ orderStatus[o] \in {"success", "failed"} => note[o] \in {"running", "done"}

\* A seat of a live order has the status of the order; a seat that is not
\* available has a live order.
SeatInv ==
    /\ \A o \in Orders : \A s \in orderSeats[o] :
          /\ orderStatus[o] = "waiting-for-payment" => seatStatus[s] = "on-hold"
          /\ orderStatus[o] = "success" => seatStatus[s] = "sold"
    /\ \A s \in Seats : seatStatus[s] # "available" =>
          \E o \in LiveOrders : s \in orderSeats[o]

IInv == /\ BaseInv
        /\ JobInv
        /\ NoteInv
        /\ SeatInv
        /\ NoDoubleOrder

LEMMA IInvInit == Init => IInv
  <1>1. Init => JobInv /\ NoteInv /\ SeatInv /\ NoDoubleOrder
    BY BookingAssumption
       DEF Init, JobInv, NoteInv, SeatInv, NoDoubleOrder, LiveOrders
  <1> QED
    BY <1>1, BaseInit DEF IInv

\* As long as the tables, the handlers and the notifications stay as they are,
\* only the facts about locks, ids and answers can change.
LEMMA TablesUnchanged ==
    ASSUME IInv, BaseInv', UNCHANGED <<tableVars, handlerVars, note>>,
           \A o \in Orders : pay'[o] \in {"none", "open"} <=> pay[o] \in {"none", "open"}
    PROVE  IInv'
  <1>1. JobInv' /\ NoDoubleOrder' /\ SeatInv'
    BY DEF IInv, JobInv, NoDoubleOrder, SeatInv, LiveOrders,
           tableVars, handlerVars
  <1>2. NoteInv'
    BY DEF IInv, NoteInv, tableVars
  <1> QED
    BY <1>1, <1>2 DEF IInv

\* Refusals, local steps and the calls outside of the database leave the tables
\* alone; the commit gives seats that were available to an order that is new.
LEMMA PlaceInv ==
    ASSUME TypeOK, IInv, BaseInv', NEW p \in Placers,
           Place(p) \/ PlacerAbort(p) \/ PlacerCrash(p)
    PROVE  IInv'
  <1> USE DEF placerVars, tableVars, handlerVars, gatewayVars
  <1> DEFINE o == <<p, attempt[p]>>
  <1>o. o \in Orders /\ o[1] = p /\ o[2] = attempt[p]
    BY OrderOfPlacer
  <1> HIDE DEF o
  <1>1. CASE CommitOrder(p)
    <2>1. /\ pc[p] = "commit"
          /\ orderStatus' = [orderStatus EXCEPT ![o] = "waiting-for-payment"]
          /\ orderSeats' = [orderSeats EXCEPT ![o] = held[p]]
          /\ seatStatus' = [s \in Seats |-> IF s \in held[p] THEN "on-hold" ELSE seatStatus[s]]
          /\ UNCHANGED <<issued, hpc, job, tries, pay, note>>
      BY <1>1 DEF CommitOrder, o
    <2>2. orderStatus[o] = "none"
      BY <2>1, <1>o DEF IInv, BaseInv, FreshInv, TypeOK
    <2>3. ASSUME NEW q \in Orders, orderStatus[q] # "none"
          PROVE  q # o /\ orderStatus'[q] = orderStatus[q] /\ orderSeats'[q] = orderSeats[q]
      BY <2>1, <2>2, <2>3, <1>o DEF TypeOK
    <2>4. orderStatus'[o] = "waiting-for-payment" /\ orderSeats'[o] = held[p]
      BY <2>1, <1>o DEF TypeOK
    <2>5. \A q \in LiveOrders : orderSeats[q] \cap held[p] = {}
      BY DEF IInv, BaseInv, SeatInv, RowInv, LiveOrders, TypeOK
    <2>6. LiveOrders' = LiveOrders \cup {o}
      BY <2>1, <1>o DEF LiveOrders, TypeOK
    <2>7. JobInv'
      BY <2>1, <2>3 DEF IInv, JobInv, TypeOK
    <2>8. NoteInv'
      BY <2>1, <1>o DEF IInv, NoteInv, TypeOK
    <2>9. SeatInv'
      BY <2>1, <2>3, <2>4, <2>5, <2>6, <1>o
         DEF IInv, BaseInv, SeatInv, RowInv, LiveOrders, TypeOK
    <2>10. NoDoubleOrder'
      BY <2>3, <2>4, <2>5, <2>6 DEF IInv, NoDoubleOrder, LiveOrders
    <2> QED
      BY <2>7, <2>8, <2>9, <2>10 DEF IInv
  <1>2. CASE GenerateInvoice(p)
    <2>1. pay[o] = "none"
      BY <1>2, <1>o DEF GenerateInvoice, IInv, BaseInv, FreshInv
    <2>2. \A q \in Orders : pay'[q] \in {"none", "open"} <=> pay[q] \in {"none", "open"}
      <3>1. CASE pay' = [pay EXCEPT ![o] = "open"]
        BY <2>1, <3>1, <1>o DEF TypeOK
      <3>2. CASE UNCHANGED pay
        BY <3>2
      <3> QED
        BY <1>2, <3>1, <3>2 DEF GenerateInvoice, o
    <2> QED
      BY <1>2, <2>2, TablesUnchanged DEF GenerateInvoice
  <1>3. ASSUME UNCHANGED <<tableVars, handlerVars, gatewayVars>> PROVE IInv'
    BY <1>3, TablesUnchanged
  <1>4. UNCHANGED <<tableVars, handlerVars, gatewayVars>> \/ CommitOrder(p) \/ GenerateInvoice(p)
    BY DEF Place, Begin, LockRow, HoldSeats, Enrich, ApplyAvailability, PlacerAbort, PlacerCrash
  <1> QED
    BY <1>1, <1>2, <1>3, <1>4

LEMMA SettleInv ==
    ASSUME TypeOK, IInv, BaseInv', NEW o \in Orders, NEW outcome \in Outcomes,
           Settle(o, outcome)
    PROVE  IInv'
  <1> USE DEF placerVars, tableVars, handlerVars
  <1>1. /\ pay[o] = "open" /\ note[o] = "none"
        /\ pay' = [pay EXCEPT ![o] = outcome]
        /\ note' = [note EXCEPT ![o] = "queued"]
        /\ UNCHANGED <<tableVars, handlerVars>>
    BY DEF Settle, IInv, NoteInv
  <1>2. outcome \in {"paid", "expired", "failed"}
    BY BookingAssumption
  <1>3. orderStatus[o] \notin {"success", "failed"}
    BY <1>1 DEF IInv, NoteInv
  <1>4. \A h \in Handlers : hpc[h] # "idle" => job[h] # o
    BY <1>1 DEF IInv, JobInv
  <1>5. JobInv'
    BY <1>1, <1>4 DEF IInv, JobInv, TypeOK
  <1>6. NoteInv'
    BY <1>1, <1>2, <1>3 DEF IInv, NoteInv, TypeOK
  <1>7. SeatInv' /\ NoDoubleOrder'
    BY <1>1 DEF IInv, SeatInv, NoDoubleOrder, LiveOrders
  <1> QED
    BY <1>5, <1>6, <1>7 DEF IInv

\* No answer to a notification has been lost.
NoneLost == "lost" \notin FaultKinds \/ faults = 0

\* Handlers change the tables at their commit only, and only for an order that
\* waits for payment and whose rows they have locked.
LEMMA HandleInv ==
    ASSUME TypeOK, IInv, BaseInv', NoneLost', NEW h \in Handlers,
           Handle(h) \/ HandlerAbort(h) \/ HandlerCrash(h)
    PROVE  IInv'
  <1> USE DEF placerVars, tableVars, handlerVars, gatewayVars
  <1>t. ASSUME UNCHANGED tableVars
        PROVE  SeatInv' /\ NoDoubleOrder'
    BY <1>t DEF IInv, SeatInv, NoDoubleOrder, LiveOrders
  <1>a. ASSUME Answer(h, "queued"), hpc[h] # "respond", hpc[h] # "idle",
               UNCHANGED <<tableVars, pay>>
        PROVE  IInv'
    <2>1. /\ job[h] \in Orders /\ note[job[h]] = "running"
          /\ orderStatus[job[h]] = "waiting-for-payment"
          /\ \A k \in Handlers : hpc[k] # "idle" /\ k # h => job[k] # job[h]
      BY <1>a DEF IInv, JobInv, TypeOK
    <2>2. JobInv'
      BY <1>a, <2>1 DEF Answer, IInv, JobInv, TypeOK
    <2>3. NoteInv'
      BY <1>a, <2>1 DEF Answer, IInv, NoteInv, TypeOK
    <2> QED
      BY <1>a, <1>t, <2>2, <2>3 DEF IInv
  <1>1. ASSUME NEW o \in Orders, Deliver(h, o) PROVE IInv'
    <2>1. note[o] = "queued" /\ \A k \in Handlers : hpc[k] # "idle" => job[k] # o
      BY <1>1 DEF Deliver, IInv, JobInv
    <2>2. JobInv'
      BY <1>1, <2>1 DEF Deliver, IInv, JobInv, NoteInv, TypeOK
    <2>3. NoteInv'
      BY <1>1, <2>1 DEF Deliver, IInv, NoteInv, TypeOK
    <2> QED
      BY <1>1, <1>t, <2>2, <2>3 DEF IInv, Deliver
  <1>2. ASSUME UpdateInvoiceStatus(h) \/ UpdateOrderStatus(h) \/ UpdateSeatStatus(h) \/ Effects(h)
        PROVE  IInv'
    <2>1. JobInv' /\ NoteInv'
      BY <1>2 DEF UpdateInvoiceStatus, UpdateOrderStatus, UpdateSeatStatus, Effects, IInv,
                  JobInv, NoteInv, TypeOK
    <2> QED
      BY <1>2, <1>t, <2>1
         DEF IInv, UpdateInvoiceStatus, UpdateOrderStatus, UpdateSeatStatus, Effects
  <1>3. CASE CommitWebhook(h)
    <2> DEFINE o == job[h]
    <2>o. /\ o \in Orders /\ orderStatus[o] = "waiting-for-payment" /\ note[o] = "running"
          /\ \A k \in Handlers : hpc[k] # "idle" /\ k # h => job[k] # o
          /\ \A s \in orderSeats[o] : s \in Seats /\ rowLock[s] = h
      BY <1>3 DEF CommitWebhook, IInv, BaseInv, JobInv, RowInv, TypeOK
    <2>1. /\ orderStatus' = [orderStatus EXCEPT ![o] = Settled(o)]
          /\ seatStatus' = [s \in Seats |-> IF s \in orderSeats[o] THEN SeatAfter(o)
                                            ELSE seatStatus[s]]
          /\ issued' = [issued EXCEPT ![o] = IF pay[o] = "paid" THEN @ + 1 ELSE @]
          /\ hpc' = [hpc EXCEPT ![h] = "respond"]
          /\ UNCHANGED <<orderSeats, job, tries, gatewayVars>>
      BY <1>3 DEF CommitWebhook
    <2> HIDE DEF o
    <2>2. Settled(o) \in {"success", "failed"}
      BY DEF Settled
    <2>3. \A q \in Orders : q # o => orderStatus'[q] = orderStatus[q]
      BY <2>1, <2>o DEF TypeOK
    <2>4. orderStatus'[o] = Settled(o)
      BY <2>1, <2>o DEF TypeOK
    <2>5. \A q \in LiveOrders : q # o => orderSeats[q] \cap orderSeats[o] = {}
      BY <2>o DEF IInv, NoDoubleOrder, LiveOrders
    <2>6. JobInv'
      BY <2>1, <2>2, <2>o, <2>3, <2>4, <1>3 DEF IInv, JobInv, TypeOK, CommitWebhook, o
    <2>7. NoteInv'
      BY <2>1, <2>o, <2>3, <2>4 DEF IInv, NoteInv
    <2>8. SeatInv'
      <3>1. ASSUME NEW q \in Orders, NEW s \in orderSeats'[q]
            PROVE  /\ orderStatus'[q] = "waiting-for-payment" => seatStatus'[s] = "on-hold"
                   /\ orderStatus'[q] = "success" => seatStatus'[s] = "sold"
        <4>1. CASE q = o
          BY <2>1, <2>4, <2>o, <3>1, <4>1 DEF Settled, SeatAfter, TypeOK
        <4>2. CASE q # o
          BY <2>1, <2>3, <2>5, <3>1, <4>2 DEF IInv, SeatInv, LiveOrders, TypeOK
        <4> QED
          BY <4>1, <4>2
      <3>2. ASSUME NEW s \in Seats, seatStatus'[s] # "available"
            PROVE  \E q \in LiveOrders' : s \in orderSeats'[q]
        <4>1. CASE s \in orderSeats[o]
          BY <2>1, <2>4, <2>o, <3>2, <4>1 DEF Settled, SeatAfter, LiveOrders
        <4>2. CASE s \notin orderSeats[o]
          BY <2>1, <2>3, <3>2, <4>2 DEF IInv, SeatInv, LiveOrders
        <4> QED
          BY <4>1, <4>2
      <3> QED
        BY <3>1, <3>2 DEF SeatInv
    <2>9. NoDoubleOrder'
      BY <2>1, <2>3, <2>5, <2>o DEF IInv, NoDoubleOrder, LiveOrders
    <2> QED
      BY <2>6, <2>7, <2>8, <2>9 DEF IInv
  <1>4. CASE Respond(h)
    <2>1. Answer(h, "done") /\ hpc[h] = "respond" /\ job[h] \in Orders
      BY <1>4 DEF Respond, Fault, TypeOK, NoneLost
    <2>2. JobInv' /\ NoteInv'
      BY <1>4, <2>1 DEF Respond, Answer, IInv, JobInv, NoteInv, TypeOK
    <2> QED
      BY <1>4, <1>t, <2>2 DEF IInv, Respond
  <1>5. CASE HandlerAbort(h)
    <2>1. CASE Answer(h, "queued")
      BY <1>5, <2>1, <1>a DEF HandlerAbort
    <2>2. CASE /\ hpc' = [hpc EXCEPT ![h] = "invoice"]
               /\ UNCHANGED <<job, note>>
      <3>1. JobInv' /\ NoteInv'
        BY <1>5, <2>2 DEF HandlerAbort, IInv, JobInv, NoteInv, TypeOK
      <3> QED
        BY <1>5, <1>t, <3>1 DEF IInv, HandlerAbort
    <2> QED
      BY <1>5, <2>1, <2>2 DEF HandlerAbort
  <1>6. CASE HandlerCrash(h)
    BY <1>6, <1>a DEF HandlerCrash
  <1> QED
    BY <1>1, <1>2, <1>3, <1>4, <1>5, <1>6 DEF Handle

\* Faults are only ever counted upwards, and a lost answer stays lost.
LEMMA NoneStillZero == TypeOK /\ [Next]_vars /\ faults' = 0 => faults = 0
  <1> SUFFICES ASSUME TypeOK, [Next]_vars PROVE faults' = 0 => faults = 0
    OBVIOUS
  <1>1. faults' = faults \/ faults' = faults + 1
    BY DEF Next, Finished, vars, Place, Begin, LockRow, HoldSeats, Enrich, GenerateInvoice,
           CommitOrder, ApplyAvailability, PlacerAbort, PlacerCrash, Settle, Handle, Deliver,
           UpdateInvoiceStatus, UpdateOrderStatus, UpdateSeatStatus, Effects, CommitWebhook,
           Respond, HandlerAbort, HandlerCrash, Fault
  <1> QED
    BY <1>1 DEF TypeOK

LEMMA NoneLostBack == TypeOK /\ [Next]_vars /\ NoneLost' => NoneLost
  BY NoneStillZero DEF NoneLost

LEMMA IInvNext ==
    TypeOK /\ BaseInv' /\ (NoneLost => IInv) /\ [Next]_vars => (NoneLost' => IInv')
  <1> SUFFICES ASSUME TypeOK, BaseInv', NoneLost', IInv, [Next]_vars PROVE IInv'
    BY NoneLostBack
  <1>1. CASE UNCHANGED vars
    BY <1>1, TablesUnchanged DEF vars, gatewayVars
  <1> QED
    BY <1>1, PlaceInv, SettleInv, HandleInv DEF Next, Finished

(***************************************************************************)
(* These theorems are about executions in which no answer to a notification*)
(* is lost after the commit: the run booking_duplicate shows that they do  *)
(* not hold otherwise.                                                     *)
(***************************************************************************)

\* The inductive invariant holds, through crashes and serialization failures,
\* for as long as no answer is lost.
THEOREM UntilLost == Spec => [](TypeOK /\ BaseInv /\ (NoneLost => IInv))
  <1>1. TypeOK /\ BaseInv' /\ (NoneLost => IInv) /\ [Next]_vars => (NoneLost => IInv)'
    BY IInvNext
  <1> QED
    BY <1>1, BaseInvariant, IInvInit, PTL DEF Spec

\* Where no answer is ever lost, what the following theorems rest on always holds.
THEOREM InductiveInvariant ==
    ASSUME "lost" \notin FaultKinds
    PROVE  Spec => [](TypeOK /\ IInv)
  <1>1. TypeOK /\ BaseInv /\ (NoneLost => IInv) => TypeOK /\ IInv
    BY DEF NoneLost
  <1> QED
    BY <1>1, UntilLost, PTL

\* No seat is in two orders that have not failed.
THEOREM NoDoubleOrderHolds ==
    ASSUME "lost" \notin FaultKinds
    PROVE  Spec => []NoDoubleOrder
  <1>1. IInv => NoDoubleOrder
    BY DEF IInv
  <1> QED
    BY <1>1, InductiveInvariant, PTL

\* The status of a seat is what its orders say.
THEOREM StatusAgreesHolds ==
    ASSUME "lost" \notin FaultKinds
    PROVE  Spec => []StatusAgrees
  <1>1. TypeOK /\ IInv => StatusAgrees
    BY DEF TypeOK, IInv, SeatInv, NoDoubleOrder, StatusAgrees, Holders, LiveOrders
  <1> QED
    BY <1>1, InductiveInvariant, PTL

\* Which steps write the tables.
LEMMA WhoWrites ==
    ASSUME [Next]_vars
    PROVE  \/ UNCHANGED tableVars
           \/ \E p \in Placers : CommitOrder(p)
           \/ \E h \in Handlers : CommitWebhook(h)
  <1> USE DEF placerVars, tableVars, handlerVars, gatewayVars
  <1>1. ASSUME NEW p \in Placers, Place(p) \/ PlacerAbort(p) \/ PlacerCrash(p)
        PROVE  UNCHANGED tableVars \/ CommitOrder(p)
    BY <1>1 DEF Place, Begin, LockRow, HoldSeats, Enrich, GenerateInvoice, ApplyAvailability,
                PlacerAbort, PlacerCrash
  <1>2. ASSUME NEW h \in Handlers, Handle(h) \/ HandlerAbort(h) \/ HandlerCrash(h)
        PROVE  UNCHANGED tableVars \/ CommitWebhook(h)
    BY <1>2 DEF Handle, Deliver, UpdateInvoiceStatus, UpdateOrderStatus, UpdateSeatStatus,
                Effects, Respond, HandlerAbort, HandlerCrash
  <1>3. ASSUME NEW o \in Orders, NEW outcome \in Outcomes, Settle(o, outcome)
        PROVE  UNCHANGED tableVars
    BY <1>3 DEF Settle
  <1>4. ASSUME UNCHANGED vars
        PROVE  UNCHANGED tableVars
    BY <1>4 DEF vars
  <1> QED
    BY <1>1, <1>2, <1>3, <1>4 DEF Next, Finished

\* The only writers of the seats of a sold order would be a commit of an order
\* that holds them, which holds available seats only, and a webhook of another
\* order that has them, which there is none of.
LEMMA SoldStep ==
    ASSUME TypeOK, IInv, [Next]_vars
    PROVE  \A o \in Orders : orderStatus[o] = "success" =>
               /\ orderStatus'[o] = "success"
               /\ \A s \in orderSeats[o] : seatStatus'[s] = "sold"
  <1> SUFFICES ASSUME NEW o \in Orders, orderStatus[o] = "success"
               PROVE  /\ orderStatus'[o] = "success"
                      /\ \A s \in orderSeats[o] : seatStatus'[s] = "sold"
    OBVIOUS
  <1>1. \A s \in orderSeats[o] : s \in Seats /\ seatStatus[s] = "sold"
    BY DEF IInv, SeatInv, TypeOK
  <1>2. CASE UNCHANGED tableVars
    BY <1>1, <1>2 DEF tableVars
  <1>3. ASSUME NEW p \in Placers, CommitOrder(p)
        PROVE  /\ orderStatus'[o] = "success"
               /\ \A s \in orderSeats[o] : seatStatus'[s] = "sold"
    <2> DEFINE n == <<p, attempt[p]>>
    <2>1. n \in Orders /\ n[1] = p /\ n[2] = attempt[p]
      BY OrderOfPlacer
    <2>2. /\ pc[p] = "commit"
          /\ orderStatus' = [orderStatus EXCEPT ![n] = "waiting-for-payment"]
          /\ seatStatus' = [s \in Seats |-> IF s \in held[p] THEN "on-hold" ELSE seatStatus[s]]
      BY <1>3 DEF CommitOrder
    <2> HIDE DEF n
    <2>3. orderStatus[n] = "none"
      BY <2>1, <2>2 DEF IInv, BaseInv, FreshInv
    <2>4. \A s \in held[p] : seatStatus[s] = "available"
      BY DEF IInv, BaseInv, RowInv
    <2> QED
      BY <1>1, <2>1, <2>2, <2>3, <2>4 DEF TypeOK
  <1>4. ASSUME NEW h \in Handlers, CommitWebhook(h)
        PROVE  /\ orderStatus'[o] = "success"
               /\ \A s \in orderSeats[o] : seatStatus'[s] = "sold"
    <2> DEFINE n == job[h]
    <2>1. n \in Orders /\ orderStatus[n] = "waiting-for-payment"
      BY <1>4 DEF CommitWebhook, IInv, JobInv, TypeOK
    <2>2. /\ orderStatus' = [orderStatus EXCEPT ![n] = Settled(n)]
          /\ seatStatus' = [s \in Seats |-> IF s \in orderSeats[n] THEN SeatAfter(n)
                                            ELSE seatStatus[s]]
      BY <1>4 DEF CommitWebhook
    <2> HIDE DEF n
    <2>3. n # o /\ orderSeats[n] \cap orderSeats[o] = {}
      BY <2>1 DEF IInv, NoDoubleOrder, LiveOrders
    <2> QED
      BY <1>1, <2>1, <2>2, <2>3 DEF TypeOK
  <1> QED
    BY <1>2, <1>3, <1>4, WhoWrites

\* A sold seat stays with the order that paid for it.
THEOREM SoldIsFinalHolds ==
    ASSUME "lost" \notin FaultKinds
    PROVE  Spec => SoldIsFinal
  <1>1. TypeOK /\ IInv /\ [Next]_vars =>
            [\A o \in Orders : orderStatus[o] = "success" =>
                /\ orderStatus'[o] = "success"
                /\ \A s \in orderSeats[o] : seatStatus'[s] = "sold"]_vars
    BY SoldStep
  <1> QED
    BY <1>1, InductiveInvariant, PTL DEF Spec, SoldIsFinal

(***************************************************************************)
(* The counters.  In between, they differ from the rows by the orders that *)
(* are committed and not subtracted yet and by those that are given back   *)
(* and whose webhook is not committed yet.                                 *)
(***************************************************************************)

\* The seats of an order in an area, the orders whose placer still has to
\* subtract them, and the orders whose webhook has added them.
Size == [o \in Orders |-> [a \in Areas |-> SeatsIn(orderSeats[o], a)]]
Owing == {o \in Orders : pc[o[1]] = "apply" /\ attempt[o[1]] = o[2]}
Returned == {o \in Orders : \E h \in Handlers :
                 hpc[h] = "commit" /\ job[h] = o /\ pay[o] # "paid"}

CountInv ==
    /\ IsFiniteSet(Owing) /\ IsFiniteSet(Returned)
    /\ \A a \in Areas : avail[a] = Cardinality(AvailableIn(a))
                                   + Places(Size, a, Owing) + Places(Size, a, Returned)

\* The sums are numbers.
LEMMA CountTypes ==
    ASSUME TypeOK, NEW a \in Areas
    PROVE  /\ \A o \in Orders : Size[o][a] = SeatsIn(orderSeats[o], a) /\ Size[o][a] \in Nat
           /\ IsFiniteSet(AvailableIn(a)) /\ Cardinality(AvailableIn(a)) \in Nat
  <1>1. \A o \in Orders : Size[o][a] = SeatsIn(orderSeats[o], a)
    BY DEF Size
  <1>2. \A o \in Orders : SeatsIn(orderSeats[o], a) \in Nat
    BY SeatsInType DEF TypeOK
  <1>3. AvailableIn(a) \in SUBSET Seats
    BY DEF AvailableIn
  <1> QED
    BY <1>1, <1>2, <1>3, FS_Subset, FS_CardinalityType, BookingAssumption

LEMMA CountInit == Init => CountInv
  <1> SUFFICES ASSUME Init PROVE CountInv
    OBVIOUS
  <1>1. TypeOK
    BY TypeInit
  <1>2. Owing = {} /\ Returned = {}
    BY DEF Init, Owing, Returned, Orders
  <1>3. IsFiniteSet(Owing) /\ IsFiniteSet(Returned)
    BY <1>2, FS_EmptySet
  <1>4. ASSUME NEW a \in Areas
        PROVE  avail[a] = Cardinality(AvailableIn(a))
                          + Places(Size, a, Owing) + Places(Size, a, Returned)
    <2>1. Places(Size, a, Owing) = 0 /\ Places(Size, a, Returned) = 0
      <3>1. Places(Size, a, {}) = 0
        BY PlacesEmpty
      <3> QED
        BY <1>2, <3>1, Zenon
    <2>2. AvailableIn(a) = {s \in Seats : AreaOf[s] = a}
      BY DEF Init, AvailableIn
    <2>3. Cardinality(AvailableIn(a)) = Cardinality({s \in Seats : AreaOf[s] = a})
      BY <2>2, Zenon
    <2>4. avail[a] = Cardinality({s \in Seats : AreaOf[s] = a})
      BY DEF Init
    <2> QED
      BY <1>1, <2>1, <2>3, <2>4, CountTypes
  <1> QED
    BY <1>3, <1>4 DEF CountInv

\* A step that leaves the two sets, the seats and the counters alone.
LEMMA SameCount ==
    ASSUME CountInv, UNCHANGED <<avail, seatStatus, orderSeats>>,
           Owing' = Owing, Returned' = Returned
    PROVE  CountInv'
  <1>1. Size' = Size
    BY DEF Size
  <1>2. \A a \in Areas : AvailableIn(a)' = AvailableIn(a)
    BY DEF AvailableIn
  <1>3. IsFiniteSet(Owing') /\ IsFiniteSet(Returned')
    BY DEF CountInv
  <1>4. ASSUME NEW a \in Areas
        PROVE  avail'[a] = Cardinality(AvailableIn(a)')
                           + Places(Size', a, Owing') + Places(Size', a, Returned')
    <2>1. Cardinality(AvailableIn(a)') = Cardinality(AvailableIn(a))
      BY <1>2, Zenon
    <2>2. /\ Places(Size', a, Owing') = Places(Size, a, Owing)
          /\ Places(Size', a, Returned') = Places(Size, a, Returned)
      BY <1>1, Zenon
    <2> QED
      BY <2>1, <2>2 DEF CountInv
  <1> QED
    BY <1>3, <1>4 DEF CountInv

\* Available seats that are taken leave the rows on offer; seats that are given
\* back join them.
LEMMA SeatsTaken ==
    ASSUME TypeOK, NEW S \in SUBSET Seats, NEW a \in Areas,
           \A s \in S : seatStatus[s] = "available",
           seatStatus' = [s \in Seats |-> IF s \in S THEN "on-hold" ELSE seatStatus[s]]
    PROVE  Cardinality(AvailableIn(a)') = Cardinality(AvailableIn(a)) - SeatsIn(S, a)
  <1> DEFINE part == {s \in S : AreaOf[s] = a}
  <1>1. AvailableIn(a)' = AvailableIn(a) \ part /\ AvailableIn(a) \cap part = part
    BY DEF AvailableIn
  <1>2. IsFiniteSet(AvailableIn(a))
    BY CountTypes
  <1>3. Cardinality(part) = SeatsIn(S, a)
    BY DEF SeatsIn
  <1> HIDE DEF part
  <1>4. Cardinality(AvailableIn(a) \ part)
        = Cardinality(AvailableIn(a)) - Cardinality(AvailableIn(a) \cap part)
    BY <1>2, FS_Difference
  <1>5. /\ Cardinality(AvailableIn(a)') = Cardinality(AvailableIn(a) \ part)
        /\ Cardinality(AvailableIn(a) \cap part) = Cardinality(part)
    BY <1>1, Zenon
  <1> QED
    BY <1>3, <1>4, <1>5

LEMMA SeatsGiven ==
    ASSUME TypeOK, NEW S \in SUBSET Seats, NEW a \in Areas,
           \A s \in S : seatStatus[s] # "available",
           seatStatus' = [s \in Seats |-> IF s \in S THEN "available" ELSE seatStatus[s]]
    PROVE  Cardinality(AvailableIn(a)') = Cardinality(AvailableIn(a)) + SeatsIn(S, a)
  <1> DEFINE part == {s \in S : AreaOf[s] = a}
  <1>1. AvailableIn(a)' = AvailableIn(a) \cup part /\ AvailableIn(a) \cap part = {}
    BY DEF AvailableIn
  <1>2. IsFiniteSet(AvailableIn(a)) /\ Cardinality(AvailableIn(a)) \in Nat
    BY CountTypes
  <1>3. Cardinality(part) = SeatsIn(S, a)
    BY DEF SeatsIn
  <1>4. IsFiniteSet(part) /\ Cardinality(part) \in Nat
    <2>1. part \in SUBSET Seats
      OBVIOUS
    <2> HIDE DEF part
    <2> QED
      BY <2>1, FS_Subset, FS_CardinalityType, BookingAssumption
  <1> HIDE DEF part
  <1>5. Cardinality(AvailableIn(a) \cup part)
        = Cardinality(AvailableIn(a)) + Cardinality(part) - Cardinality(AvailableIn(a) \cap part)
    BY <1>2, <1>4, FS_Union
  <1>6. /\ Cardinality(AvailableIn(a)') = Cardinality(AvailableIn(a) \cup part)
        /\ Cardinality(AvailableIn(a) \cap part) = 0
    <2>1. Cardinality({}) = 0
      BY FS_EmptySet
    <2> QED
      BY <1>1, <2>1, Zenon
  <1> QED
    BY <1>2, <1>3, <1>4, <1>5, <1>6

\* A commit takes seats that are available; its placer owes them.
LEMMA CommitCount ==
    ASSUME TypeOK, BaseInv, CountInv, TypeOK', NEW p \in Placers, CommitOrder(p), faults' = 0
    PROVE  CountInv'
  <1> DEFINE o == <<p, attempt[p]>>
  <1>o. o \in Orders /\ o[1] = p /\ o[2] = attempt[p]
    BY OrderOfPlacer
  <1>1. /\ pc[p] = "commit"
        /\ orderSeats' = [orderSeats EXCEPT ![o] = held[p]]
        /\ seatStatus' = [s \in Seats |-> IF s \in held[p] THEN "on-hold" ELSE seatStatus[s]]
        /\ UNCHANGED <<attempt, hpc, job, pay, avail>>
    BY DEF CommitOrder, handlerVars, gatewayVars
  <1>2. pc' = [pc EXCEPT ![p] = "apply"]
    BY DEF CommitOrder, Fault, LeaveTx, TypeOK
  <1>3. orderStatus[o] = "none"
    BY <1>o, <1>1 DEF BaseInv, FreshInv
  <1>s. \A q \in Orders : q[1] = p /\ q[2] = attempt[p] => q = o
    BY DEF Orders
  <1> HIDE DEF o
  <1>4. Owing' = Owing \cup {o} /\ o \notin Owing
    BY <1>o, <1>1, <1>2, <1>s DEF Owing, Orders, TypeOK
  <1>5. Returned' = Returned /\ o \notin Returned
    BY <1>1, <1>3 DEF Returned, BaseInv, AliveInv
  <1>6. Owing \subseteq Orders /\ Returned \subseteq Orders
    BY DEF Owing, Returned
  <1>7. IsFiniteSet(Owing') /\ IsFiniteSet(Returned')
    BY <1>4, <1>5, FS_AddElement DEF CountInv
  <1>8. held[p] \in SUBSET Seats /\ \A s \in held[p] : seatStatus[s] = "available"
    BY DEF BaseInv, RowInv, TypeOK
  <1>9. ASSUME NEW a \in Areas
        PROVE  avail'[a] = Cardinality(AvailableIn(a)')
                           + Places(Size', a, Owing') + Places(Size', a, Returned')
    <2>1. Cardinality(AvailableIn(a)') = Cardinality(AvailableIn(a)) - SeatsIn(held[p], a)
      BY <1>1, <1>8, SeatsTaken
    <2>2. \A q \in Orders : Size'[q][a] = IF q = o THEN SeatsIn(held[p], a) ELSE Size[q][a]
      BY <1>1, <1>o DEF Size, TypeOK
    <2>3. SeatsIn(held[p], a) \in Nat
      BY <1>8, SeatsInType
    <2>4. \A q \in Orders : Size[q][a] \in Nat
      BY CountTypes
    <2>5. /\ Places(Size', a, Owing) = Places(Size, a, Owing)
          /\ Places(Size', a, Returned) = Places(Size, a, Returned)
      <3>1. \A q \in Owing \cup Returned : Size'[q][a] = Size[q][a]
        BY <1>4, <1>5, <1>6, <2>2
      <3>2. IsFiniteSet(Owing) /\ IsFiniteSet(Returned)
        BY DEF CountInv
      <3> QED
        BY <3>1, <3>2, PlacesSame
    <2>6. Places(Size', a, Owing \cup {o}) = Places(Size', a, Owing) + SeatsIn(held[p], a)
      <3>1. \A q \in Owing \cup {o} : Size'[q][a] \in Nat
        BY <1>o, <1>6, <2>2, <2>3, <2>4
      <3>2. IsFiniteSet(Owing) /\ Size'[o][a] = SeatsIn(held[p], a)
        BY <1>o, <2>2 DEF CountInv
      <3> QED
        BY <1>4, <3>1, <3>2, PlacesPutIn
    <2>7. /\ Places(Size', a, Owing') = Places(Size', a, Owing \cup {o})
          /\ Places(Size', a, Returned') = Places(Size', a, Returned)
      BY <1>4, <1>5, Zenon
    <2>8. /\ Places(Size, a, Owing) \in Nat /\ Places(Size, a, Returned) \in Nat
          /\ Cardinality(AvailableIn(a)) \in Nat
      BY <1>6, <2>4, CountTypes, PlacesType DEF CountInv
    <2>9. avail'[a] = avail[a]
      BY <1>1
    <2>10. avail[a] = Cardinality(AvailableIn(a))
                      + Places(Size, a, Owing) + Places(Size, a, Returned)
      BY DEF CountInv
    <2> QED
      BY <2>1, <2>3, <2>5, <2>6, <2>7, <2>8, <2>9, <2>10
  <1> QED
    BY <1>7, <1>9 DEF CountInv

\* The placer pays what it owes.
LEMMA ApplyCount ==
    ASSUME TypeOK, CountInv, TypeOK', NEW p \in Placers, ApplyAvailability(p)
    PROVE  CountInv'
  <1> DEFINE o == <<p, attempt[p]>>
  <1>o. o \in Orders /\ o[1] = p /\ o[2] = attempt[p]
    BY OrderOfPlacer
  <1>1. /\ pc[p] = "apply" /\ pc' = [pc EXCEPT ![p] = "done"]
        /\ avail' = [a \in Areas |-> avail[a] - SeatsIn(orderSeats[o], a)]
        /\ UNCHANGED <<attempt, hpc, job, pay, seatStatus, orderSeats>>
    BY DEF ApplyAvailability, tableVars, handlerVars, gatewayVars
  <1>s. \A q \in Orders : q[1] = p /\ q[2] = attempt[p] => q = o
    BY DEF Orders
  <1> HIDE DEF o
  <1>4. Owing' = Owing \ {o} /\ o \in Owing
    BY <1>o, <1>1, <1>s DEF Owing, Orders, TypeOK
  <1>5. Returned' = Returned
    BY <1>1 DEF Returned
  <1>6. Owing \subseteq Orders /\ Returned \subseteq Orders
    BY DEF Owing, Returned
  <1>7. IsFiniteSet(Owing') /\ IsFiniteSet(Returned')
    BY <1>4, <1>5, FS_RemoveElement DEF CountInv
  <1>8. Size' = Size /\ \A a \in Areas : AvailableIn(a)' = AvailableIn(a)
    BY <1>1 DEF Size, AvailableIn
  <1>9. ASSUME NEW a \in Areas
        PROVE  avail'[a] = Cardinality(AvailableIn(a)')
                           + Places(Size', a, Owing') + Places(Size', a, Returned')
    <2>1. \A q \in Orders : Size[q][a] = SeatsIn(orderSeats[q], a) /\ Size[q][a] \in Nat
      BY CountTypes
    <2>2. Places(Size, a, Owing) = Places(Size, a, Owing \ {o}) + Size[o][a]
      BY <1>4, <1>6, <2>1, PlacesTakeOut DEF CountInv
    <2>3. Places(Size, a, Owing \ {o}) \in Nat /\ Places(Size, a, Returned) \in Nat
      <3>1. IsFiniteSet(Owing \ {o})
        BY <1>4, <1>7
      <3>2. IsFiniteSet(Returned) /\ \A q \in (Owing \ {o}) \cup Returned : Size[q][a] \in Nat
        BY <1>6, <2>1 DEF CountInv
      <3> QED
        BY <3>1, <3>2, PlacesType
    <2>4. /\ Places(Size', a, Owing') = Places(Size, a, Owing \ {o})
          /\ Places(Size', a, Returned') = Places(Size, a, Returned)
          /\ Cardinality(AvailableIn(a)') = Cardinality(AvailableIn(a))
      BY <1>4, <1>5, <1>8, Zenon
    <2>5. avail'[a] = avail[a] - Size[o][a]
      BY <1>o, <1>1, <2>1
    <2>6. avail[a] = Cardinality(AvailableIn(a))
                     + Places(Size, a, Owing) + Places(Size, a, Returned)
      BY DEF CountInv
    <2>7. Cardinality(AvailableIn(a)) \in Nat /\ Size[o][a] \in Nat
      BY <1>o, <2>1, CountTypes
    <2> QED
      BY <2>2, <2>3, <2>4, <2>5, <2>6, <2>7
  <1> QED
    BY <1>7, <1>9 DEF CountInv

\* A webhook gives the seats to the counters before its commit.
LEMMA EffectsCount ==
    ASSUME TypeOK, IInv, CountInv, TypeOK', NEW h \in Handlers, Effects(h)
    PROVE  CountInv'
  <1> DEFINE o == job[h]
  <1>1. /\ hpc[h] = "effects" /\ hpc' = [hpc EXCEPT ![h] = "commit"]
        /\ UNCHANGED <<pc, attempt, job, pay, seatStatus, orderSeats>>
    BY DEF Effects, placerVars, tableVars, gatewayVars
  <1>o. o \in Orders /\ \A k \in Handlers : hpc[k] # "idle" /\ job[k] = o => k = h
    BY <1>1 DEF IInv, JobInv, TypeOK
  <1>2. Owing' = Owing
    BY <1>1 DEF Owing
  <1>3. CASE pay[o] = "paid"
    <2>1. Returned' = Returned
      BY <1>1, <1>3 DEF Returned, TypeOK
    <2>2. UNCHANGED avail
      BY <1>3 DEF Effects
    <2> QED
      BY <1>1, <1>2, <2>1, <2>2, SameCount
  <1>4. CASE pay[o] # "paid"
    <2>1. avail' = [a \in Areas |-> avail[a] + SeatsIn(orderSeats[o], a)]
      BY <1>4 DEF Effects
    <2>2. Returned' = Returned \cup {o} /\ o \notin Returned
      <3>1. hpc'[h] = "commit" /\ \A k \in Handlers : k # h => hpc'[k] = hpc[k]
        BY <1>1 DEF TypeOK
      <3>2. o \notin Returned
        BY <1>o, <1>1 DEF Returned
      <3>3. \A q \in Orders : q \in Returned' <=> q \in Returned \cup {o}
        BY <1>1, <1>4, <3>1 DEF Returned
      <3>4. Returned' \subseteq Orders /\ Returned \cup {o} \subseteq Orders
        BY <1>o DEF Returned
      <3> QED
        BY <3>2, <3>3, <3>4
    <2> HIDE DEF o
    <2>3. Owing \subseteq Orders /\ Returned \subseteq Orders
      BY DEF Owing, Returned
    <2>4. IsFiniteSet(Owing') /\ IsFiniteSet(Returned')
      BY <1>2, <2>2, FS_AddElement DEF CountInv
    <2>5. Size' = Size /\ \A a \in Areas : AvailableIn(a)' = AvailableIn(a)
      BY <1>1 DEF Size, AvailableIn
    <2>6. ASSUME NEW a \in Areas
          PROVE  avail'[a] = Cardinality(AvailableIn(a)')
                             + Places(Size', a, Owing') + Places(Size', a, Returned')
      <3>1. \A q \in Orders : Size[q][a] = SeatsIn(orderSeats[q], a) /\ Size[q][a] \in Nat
        BY CountTypes
      <3>2. Places(Size, a, Returned \cup {o}) = Places(Size, a, Returned) + Size[o][a]
        <4>1. IsFiniteSet(Returned) /\ \A q \in Returned \cup {o} : Size[q][a] \in Nat
          BY <1>o, <2>3, <3>1 DEF CountInv
        <4> QED
          BY <2>2, <4>1, PlacesPutIn
      <3>3. Places(Size, a, Owing) \in Nat /\ Places(Size, a, Returned) \in Nat
        BY <2>3, <3>1, PlacesType DEF CountInv
      <3>4. /\ Places(Size', a, Owing') = Places(Size, a, Owing)
            /\ Places(Size', a, Returned') = Places(Size, a, Returned \cup {o})
            /\ Cardinality(AvailableIn(a)') = Cardinality(AvailableIn(a))
        BY <1>2, <2>2, <2>5, Zenon
      <3>5. avail'[a] = avail[a] + Size[o][a]
        BY <1>o, <2>1, <3>1
      <3>6. avail[a] = Cardinality(AvailableIn(a))
                       + Places(Size, a, Owing) + Places(Size, a, Returned)
        BY DEF CountInv
      <3>7. Cardinality(AvailableIn(a)) \in Nat /\ Size[o][a] \in Nat
        BY <1>o, <3>1, CountTypes
      <3> QED
        BY <3>2, <3>3, <3>4, <3>5, <3>6, <3>7
    <2> QED
      BY <2>4, <2>6 DEF CountInv
  <1> QED
    BY <1>3, <1>4

\* The commit of the webhook makes the rows follow.
LEMMA WebhookCount ==
    ASSUME TypeOK, IInv, CountInv, TypeOK', NEW h \in Handlers, CommitWebhook(h)
    PROVE  CountInv'
  <1> DEFINE o == job[h]
  <1>1. /\ hpc[h] = "commit" /\ hpc' = [hpc EXCEPT ![h] = "respond"]
        /\ seatStatus' = [s \in Seats |-> IF s \in orderSeats[o] THEN SeatAfter(o)
                                          ELSE seatStatus[s]]
        /\ UNCHANGED <<pc, attempt, job, pay, orderSeats, avail>>
    BY DEF CommitWebhook, placerVars, gatewayVars
  <1>o. /\ o \in Orders /\ orderStatus[o] = "waiting-for-payment"
        /\ \A k \in Handlers : hpc[k] # "idle" /\ job[k] = o => k = h
    BY <1>1 DEF IInv, JobInv, TypeOK
  <1>2. Owing' = Owing
    BY <1>1 DEF Owing
  <1>s. orderSeats[o] \in SUBSET Seats /\ \A s \in orderSeats[o] : seatStatus[s] = "on-hold"
    BY <1>o DEF IInv, SeatInv, TypeOK
  <1>z. Size' = Size
    BY <1>1 DEF Size
  <1>3. CASE pay[o] = "paid"
    <2>1. Returned' = Returned
      BY <1>1, <1>3 DEF Returned, TypeOK
    <2>2. \A a \in Areas : AvailableIn(a)' = AvailableIn(a)
      BY <1>1, <1>3, <1>s DEF AvailableIn, SeatAfter, TypeOK
    <2>3. IsFiniteSet(Owing') /\ IsFiniteSet(Returned')
      BY <1>2, <2>1 DEF CountInv
    <2>4. ASSUME NEW a \in Areas
          PROVE  avail'[a] = Cardinality(AvailableIn(a)')
                             + Places(Size', a, Owing') + Places(Size', a, Returned')
      <3>1. /\ Places(Size', a, Owing') = Places(Size, a, Owing)
            /\ Places(Size', a, Returned') = Places(Size, a, Returned)
            /\ Cardinality(AvailableIn(a)') = Cardinality(AvailableIn(a))
        BY <1>2, <1>z, <2>1, <2>2, Zenon
      <3> QED
        BY <1>1, <3>1 DEF CountInv
    <2> QED
      BY <2>3, <2>4 DEF CountInv
  <1>4. CASE pay[o] # "paid"
    <2>1. seatStatus' = [s \in Seats |-> IF s \in orderSeats[o] THEN "available"
                                         ELSE seatStatus[s]]
      BY <1>1, <1>4 DEF SeatAfter
    <2>2. Returned' = Returned \ {o} /\ o \in Returned
      BY <1>o, <1>1, <1>4 DEF Returned, TypeOK
    <2> HIDE DEF o
    <2>3. Owing \subseteq Orders /\ Returned \subseteq Orders
      BY DEF Owing, Returned
    <2>4. IsFiniteSet(Owing') /\ IsFiniteSet(Returned')
      BY <1>2, <2>2, FS_RemoveElement DEF CountInv
    <2>6. ASSUME NEW a \in Areas
          PROVE  avail'[a] = Cardinality(AvailableIn(a)')
                             + Places(Size', a, Owing') + Places(Size', a, Returned')
      <3>1. \A q \in Orders : Size[q][a] = SeatsIn(orderSeats[q], a) /\ Size[q][a] \in Nat
        BY CountTypes
      <3>2. Places(Size, a, Returned) = Places(Size, a, Returned \ {o}) + Size[o][a]
        BY <2>2, <2>3, <3>1, PlacesTakeOut DEF CountInv
      <3>3. Places(Size, a, Owing) \in Nat /\ Places(Size, a, Returned \ {o}) \in Nat
        <4>1. IsFiniteSet(Returned \ {o})
          BY <2>2, <2>4
        <4>2. IsFiniteSet(Owing) /\ \A q \in Owing \cup (Returned \ {o}) : Size[q][a] \in Nat
          BY <2>3, <3>1 DEF CountInv
        <4> QED
          BY <4>1, <4>2, PlacesType
      <3>4. Cardinality(AvailableIn(a)') = Cardinality(AvailableIn(a)) + SeatsIn(orderSeats[o], a)
        BY <1>s, <2>1, SeatsGiven
      <3>5. /\ Places(Size', a, Owing') = Places(Size, a, Owing)
            /\ Places(Size', a, Returned') = Places(Size, a, Returned \ {o})
        BY <1>2, <1>z, <2>2, Zenon
      <3>6. avail[a] = Cardinality(AvailableIn(a))
                       + Places(Size, a, Owing) + Places(Size, a, Returned)
        BY DEF CountInv
      <3>7. Cardinality(AvailableIn(a)) \in Nat /\ Size[o][a] \in Nat
            /\ Size[o][a] = SeatsIn(orderSeats[o], a) /\ avail'[a] = avail[a]
        BY <1>1, <1>o, <3>1, CountTypes
      <3> QED
        BY <3>2, <3>3, <3>4, <3>5, <3>6, <3>7
    <2> QED
      BY <2>4, <2>6 DEF CountInv
  <1> QED
    BY <1>3, <1>4

\* Every other step of a behaviour without faults.
LEMMA OtherCount ==
    ASSUME TypeOK, IInv, CountInv, TypeOK', [Next]_vars, faults' = 0,
           \A p \in Placers : ~CommitOrder(p) /\ ~ApplyAvailability(p),
           \A h \in Handlers : ~Effects(h) /\ ~CommitWebhook(h)
    PROVE  CountInv'
  <1> USE DEF placerVars, tableVars, handlerVars, gatewayVars
  <1>f. faults = 0 /\ \A k : ~Fault(k)
    <2>1. faults = 0
      BY NoneStillZero
    <2> QED
      BY <2>1 DEF Fault
  <1>1. ASSUME NEW p \in Placers, Place(p) \/ PlacerAbort(p) \/ PlacerCrash(p)
        PROVE  CountInv'
    <2>1. /\ UNCHANGED <<attempt, avail, seatStatus, orderSeats, hpc, job>>
          /\ pc[p] # "apply" /\ pc'[p] # "apply"
          /\ \A q \in Placers : q # p => pc'[q] = pc[q]
          /\ UNCHANGED pay \/ GenerateInvoice(p)
      BY <1>1, <1>f DEF Place, Begin, LockRow, HoldSeats, Enrich, GenerateInvoice, Refuse,
                        LeaveTx, PlacerAbort, PlacerCrash, TypeOK
    <2>2. Owing' = Owing
      BY <2>1 DEF Owing, Orders
    <2>3. Returned' = Returned
      <3>1. CASE UNCHANGED pay
        BY <2>1, <3>1 DEF Returned
      <3>2. CASE GenerateInvoice(p)
        <4> DEFINE o == <<p, attempt[p]>>
        <4>1. o \in Orders /\ o[1] = p /\ o[2] = attempt[p]
          BY OrderOfPlacer
        <4>2. pc[p] = "insert" /\ (UNCHANGED pay \/ pay' = [pay EXCEPT ![o] = "open"])
          BY <3>2 DEF GenerateInvoice
        <4> HIDE DEF o
        <4>3. pay[o] = "none"
          BY <4>1, <4>2 DEF IInv, BaseInv, FreshInv
        <4>4. \A q \in Orders : pay'[q] = "paid" <=> pay[q] = "paid"
          BY <4>1, <4>2, <4>3 DEF TypeOK
        <4> QED
          BY <2>1, <4>4 DEF Returned
      <3> QED
        BY <2>1, <3>1, <3>2
    <2> QED
      BY <2>1, <2>2, <2>3, SameCount
  <1>2. ASSUME NEW o \in Orders, NEW outcome \in Outcomes, Settle(o, outcome)
        PROVE  CountInv'
    <2>1. /\ UNCHANGED <<pc, attempt, avail, seatStatus, orderSeats, hpc, job>>
          /\ pay[o] = "open" /\ pay' = [pay EXCEPT ![o] = outcome]
      BY <1>2 DEF Settle
    <2>2. Owing' = Owing
      BY <2>1 DEF Owing
    <2>3. \A h \in Handlers : hpc[h] # "idle" => job[h] # o
      BY <2>1 DEF IInv, JobInv, NoteInv
    <2>4. Returned' = Returned
      BY <2>1, <2>3 DEF Returned, TypeOK
    <2> QED
      BY <2>1, <2>2, <2>4, SameCount
  <1>3. ASSUME NEW h \in Handlers, Handle(h) \/ HandlerAbort(h) \/ HandlerCrash(h)
        PROVE  CountInv'
    <2>1. /\ UNCHANGED <<pc, attempt, avail, seatStatus, orderSeats, pay>>
          /\ hpc[h] # "commit" /\ hpc'[h] # "commit"
          /\ \A k \in Handlers : k # h => hpc'[k] = hpc[k] /\ job'[k] = job[k]
      BY <1>3, <1>f DEF Handle, Deliver, UpdateInvoiceStatus, UpdateOrderStatus,
                        UpdateSeatStatus, Respond, Answer, HandlerAbort, HandlerCrash, TypeOK
    <2>2. Owing' = Owing
      BY <2>1 DEF Owing
    <2>3. Returned' = Returned
      BY <2>1 DEF Returned
    <2> QED
      BY <2>1, <2>2, <2>3, SameCount
  <1>4. CASE UNCHANGED vars
    <2>1. Owing' = Owing /\ Returned' = Returned
      BY <1>4 DEF vars, Owing, Returned
    <2> QED
      BY <1>4, <2>1, SameCount DEF vars
  <1> QED
    BY <1>1, <1>2, <1>3, <1>4 DEF Next, Finished

LEMMA CountNext ==
    ASSUME TypeOK, IInv, CountInv, TypeOK', [Next]_vars, faults' = 0
    PROVE  CountInv'
  BY CommitCount, ApplyCount, EffectsCount, WebhookCount, OtherCount DEF IInv

\* When everything is answered and nothing went wrong, the counters equal the
\* rows that are available.
THEOREM AvailabilityConvergesHolds == Spec => []AvailabilityConverges
  <1> DEFINE Counted == faults = 0 => CountInv
  <1>1. TypeOK /\ TypeOK' /\ (NoneLost => IInv) /\ Counted /\ [Next]_vars => Counted'
    <2> SUFFICES ASSUME TypeOK, TypeOK', NoneLost => IInv, Counted, [Next]_vars, faults' = 0
                 PROVE  CountInv'
      OBVIOUS
    <2>1. faults = 0
      BY NoneStillZero
    <2> QED
      BY <2>1, CountNext DEF NoneLost
  <1>2. Init => Counted
    BY CountInit
  <1>3. TypeOK /\ Counted => AvailabilityConverges
    <2> SUFFICES ASSUME TypeOK, CountInv, Quiescent, NEW a \in Areas
                 PROVE  avail[a] = Cardinality(AvailableIn(a))
      BY DEF AvailabilityConverges
    <2>1. Owing = {} /\ Returned = {}
      BY DEF Quiescent, Owing, Returned, Orders
    <2>2. Places(Size, a, Owing) = 0 /\ Places(Size, a, Returned) = 0
      <3>1. Places(Size, a, {}) = 0
        BY PlacesEmpty
      <3> QED
        BY <2>1, <3>1, Zenon
    <2> QED
      BY <2>2, CountTypes DEF CountInv
  <1> HIDE DEF Counted
  <1> QED
    BY <1>1, <1>2, <1>3, UntilLost, PTL DEF Spec

(***************************************************************************)
(* What an order is for.  The items of a request are overwritten with the  *)
(* seats that were found; this section says when that changes them.        *)
(***************************************************************************)

\* A request that is past its locking query asks either by id or by area, it has
\* found the seats it names, and from then on it names the seats it has found.
Asking(p) ==
    /\ pc[p] \in {"locking", "enrich"} => ~(ByID(p) /\ ByArea(p))
    /\ pc[p] = "enrich" /\ ByID(p) => held[p] = payload[p].seats
    /\ pc[p] \in {"insert", "commit"} => held[p] = payload[p].seats
    /\ pc[p] \in {"enrich", "insert", "commit"} => \A s \in held[p] : AreaOf[s] = payload[p].area

\* An order has the seats its request names, all in the area it is placed in.
Placed(o) ==
    orderStatus[o] # "none" =>
        /\ orderSeats[o] = payload[o[1]].seats
        /\ \A s \in orderSeats[o] : AreaOf[s] = payload[o[1]].area

AskInv == (\A p \in Placers : Asking(p)) /\ (\A o \in Orders : Placed(o))

LEMMA AskInit == Init => AskInv
  BY DEF Init, AskInv, Asking, Placed

\* A transaction that ends without a commit asks for nothing any more.
LEMMA AskLeave ==
    ASSUME TypeOK, NEW p \in Placers, NEW next \in {"begin", "apply", "done"}, LeaveTx(p, next)
    PROVE  Asking(p)' /\ \A q \in Placers \ {p} : pc'[q] = pc[q] /\ held'[q] = held[q]
  BY DEF TypeOK, LeaveTx, Asking

\* What a step of a placer does to what it asks for.
LEMMA AskStep ==
    ASSUME TypeOK, AskInv, NEW p \in Placers,
           Place(p) \/ PlacerAbort(p) \/ PlacerCrash(p)
    PROVE  /\ Asking(p)'
           /\ \A q \in Placers \ {p} :
                 pc'[q] = pc[q] /\ held'[q] = held[q] /\ payload'[q] = payload[q]
           /\ payload' # payload => Enrich(p)
  <1> DEFINE Mine == Asking(p)'
             Others == \A q \in Placers \ {p} :
                           pc'[q] = pc[q] /\ held'[q] = held[q] /\ payload'[q] = payload[q]
  <1>0. Asking(p)
    BY DEF AskInv
  <1>1. ASSUME NEW next \in {"begin", "apply", "done"}, LeaveTx(p, next), payload' = payload
        PROVE  Mine /\ Others
    BY <1>1, AskLeave
  <1>2. ASSUME NEW code \in {"400", "409", "500"}, Refuse(p, code)
        PROVE  Mine /\ Others /\ payload' = payload
    BY <1>2, <1>1 DEF Refuse
  <1>3. CASE Begin(p)
    <2>1. CASE /\ ~(ByID(p) /\ ByArea(p))
               /\ pc' = [pc EXCEPT ![p] = "locking"]
               /\ UNCHANGED <<payload, held>>
      BY <2>1 DEF TypeOK, Asking, ByID, ByArea
    <2> QED
      BY <1>2, <1>3, <2>1 DEF Begin
  <1>4. ASSUME NEW s \in Seats, LockRow(p, s) PROVE Mine /\ Others /\ payload' = payload
    <2>1. CASE UNCHANGED <<payload, pc>> /\ (held' = held \/ held' = [held EXCEPT ![p] = @ \cup {s}])
      <3>1. pc[p] = "locking"
        BY <1>4 DEF LockRow
      <3> QED
        BY <1>0, <2>1, <3>1 DEF TypeOK, Asking, ByID, ByArea
    <2> QED
      BY <1>2, <1>4, <2>1 DEF LockRow
  <1>5. CASE HoldSeats(p)
    <2>1. CASE /\ GotAll(p)
               /\ pc' = [pc EXCEPT ![p] = "enrich"]
               /\ UNCHANGED <<payload, held>>
      <3>1. pc[p] = "locking"
        BY <1>5 DEF HoldSeats
      <3> QED
        BY <1>0, <2>1, <3>1 DEF TypeOK, Asking, ByID, ByArea, GotAll
    <2> QED
      BY <1>2, <1>5, <2>1 DEF HoldSeats
  <1>6. CASE Enrich(p)
    <2>1. CASE \E code \in {"400", "500"} : Refuse(p, code)
      BY <1>2, <1>6, <2>1
    <2>2. CASE ~\E code \in {"400", "500"} : Refuse(p, code)
      <3> DEFINE full == [seats |-> held[p], free |-> [a \in Areas |-> 0],
                          dup |-> payload[p].dup, area |-> payload[p].area,
                          sale |-> payload[p].sale]
      <3>1. /\ payload' = [payload EXCEPT ![p] = full]
            /\ pc' = [pc EXCEPT ![p] = "insert"]
            /\ held' = held
            /\ pc[p] = "enrich"
        BY <1>6, <2>2 DEF Enrich
      <3>2. full.seats = held[p] /\ full.area = payload[p].area
        OBVIOUS
      <3>3. payload'[p] = full /\ \A q \in Placers \ {p} : payload'[q] = payload[q]
        BY <3>1 DEF TypeOK
      <3> HIDE DEF full
      <3>4. pc'[p] = "insert" /\ \A q \in Placers \ {p} : pc'[q] = pc[q]
        BY <3>1 DEF TypeOK
      <3>5. \A s \in held[p] : AreaOf[s] = payload[p].area
        BY <1>0, <3>1 DEF Asking
      <3>6. Mine
        BY <3>1, <3>2, <3>3, <3>4, <3>5 DEF Asking
      <3> QED
        BY <1>6, <3>1, <3>3, <3>4, <3>6
    <2> QED
      BY <1>6, <2>1, <2>2
  <1>7. CASE GenerateInvoice(p)
    <2>1. CASE pc[p] = "insert" /\ pc' = [pc EXCEPT ![p] = "commit"] /\ UNCHANGED <<payload, held>>
      BY <1>0, <2>1 DEF TypeOK, Asking, ByID, ByArea
    <2> QED
      BY <1>2, <1>7, <2>1 DEF GenerateInvoice
  <1>8. CASE CommitOrder(p) \/ PlacerAbort(p) \/ PlacerCrash(p)
    BY <1>1, <1>2, <1>8 DEF CommitOrder, PlacerAbort, PlacerCrash
  <1>9. CASE ApplyAvailability(p)
    BY <1>0, <1>9 DEF TypeOK, ApplyAvailability, Asking
  <1> QED
    BY <1>3, <1>4, <1>5, <1>6, <1>7, <1>8, <1>9 DEF Place

\* An order is committed with what is held, and its request is over then.
LEMMA AskPlace ==
    ASSUME TypeOK, BaseInv, AskInv, NEW p \in Placers,
           Place(p) \/ PlacerAbort(p) \/ PlacerCrash(p)
    PROVE  AskInv'
  <1>1. \A q \in Placers : Asking(q)'
    <2> SUFFICES ASSUME NEW q \in Placers, q # p PROVE Asking(q)'
      BY AskStep
    <2>1. pc'[q] = pc[q] /\ held'[q] = held[q] /\ payload'[q] = payload[q]
      BY AskStep
    <2> QED
      BY <2>1 DEF AskInv, Asking, ByID, ByArea
  <1>2. ASSUME NEW o \in Orders PROVE Placed(o)'
    <2>1. o[1] \in Placers /\ Placed(o)
      BY OrderShape DEF AskInv
    <2>2. CASE payload' # payload
      <3>1. Enrich(p)
        BY <2>2, AskStep
      <3>2. UNCHANGED <<orderStatus, orderSeats>> /\ pc[p] = "enrich"
        BY <3>1 DEF Enrich, tableVars
      <3>3. orderStatus[o] # "none" => o[1] # p
        BY <3>2 DEF BaseInv, FreshInv
      <3>4. o[1] # p => payload'[o[1]] = payload[o[1]]
        BY <2>1, AskStep
      <3> QED
        BY <2>1, <3>2, <3>3, <3>4 DEF Placed
    <2>3. CASE payload' = payload /\ CommitOrder(p)
      <3> DEFINE n == <<p, attempt[p]>>
      <3>1. n \in Orders /\ n[1] = p
        BY OrderOfPlacer
      <3>2. /\ pc[p] = "commit"
            /\ orderStatus' = [orderStatus EXCEPT ![n] = "waiting-for-payment"]
            /\ orderSeats' = [orderSeats EXCEPT ![n] = held[p]]
        BY <2>3 DEF CommitOrder
      <3> HIDE DEF n
      <3>3. held[p] = payload[p].seats /\ \A s \in held[p] : AreaOf[s] = payload[p].area
        BY <3>2 DEF AskInv, Asking
      <3> QED
        BY <2>1, <2>3, <3>1, <3>2, <3>3 DEF Placed, TypeOK
    <2>4. CASE payload' = payload /\ ~CommitOrder(p)
      <3>1. UNCHANGED <<orderStatus, orderSeats>>
        BY <2>4 DEF Place, Begin, LockRow, HoldSeats, Enrich, GenerateInvoice, ApplyAvailability,
                    PlacerAbort, PlacerCrash, tableVars
      <3> QED
        BY <2>1, <2>4, <3>1 DEF Placed
    <2> QED
      BY <2>2, <2>3, <2>4
  <1> QED
    BY <1>1, <1>2 DEF AskInv

\* A notification gives no order other seats.
LEMMA AskHandle ==
    ASSUME TypeOK, BaseInv, AskInv, UNCHANGED <<payload, pc, held, orderSeats>>,
           \/ UNCHANGED orderStatus
           \/ \E h \in Handlers : CommitWebhook(h)
    PROVE  AskInv'
  <1>1. \A p \in Placers : Asking(p)'
    BY DEF AskInv, Asking, ByID, ByArea
  <1>2. ASSUME NEW o \in Orders PROVE orderStatus'[o] # "none" => orderStatus[o] # "none"
    <2>1. ASSUME NEW h \in Handlers, CommitWebhook(h)
          PROVE  orderStatus'[o] # "none" => orderStatus[o] # "none"
      <3>1. orderStatus[job[h]] # "none"
        BY <2>1 DEF CommitWebhook, BaseInv, AliveInv
      <3> QED
        BY <2>1, <3>1 DEF CommitWebhook, TypeOK
    <2> QED
      BY <2>1
  <1>3. \A o \in Orders : Placed(o)'
    BY <1>2 DEF AskInv, Placed
  <1> QED
    BY <1>1, <1>3 DEF AskInv

LEMMA AskNext == TypeOK /\ BaseInv /\ AskInv /\ [Next]_vars => AskInv'
  <1> SUFFICES ASSUME TypeOK, BaseInv, AskInv, [Next]_vars PROVE AskInv'
    OBVIOUS
  <1> USE DEF placerVars, tableVars, handlerVars, gatewayVars
  <1>1. ASSUME NEW h \in Handlers, Handle(h) \/ HandlerAbort(h) \/ HandlerCrash(h)
        PROVE  AskInv'
    BY <1>1, AskHandle
       DEF Handle, Deliver, UpdateInvoiceStatus, UpdateOrderStatus, UpdateSeatStatus,
           Effects, CommitWebhook, Respond, HandlerAbort, HandlerCrash
  <1>2. ASSUME NEW o \in Orders, NEW outcome \in Outcomes, Settle(o, outcome)
        PROVE  AskInv'
    BY <1>2, AskHandle DEF Settle
  <1>3. CASE UNCHANGED vars
    BY <1>3, AskHandle DEF vars
  <1> QED
    BY <1>1, <1>2, <1>3, AskPlace DEF Next, Finished

LEMMA AskInvariant == Spec => [](TypeOK /\ BaseInv /\ AskInv)
  <1>1. TypeOK /\ BaseInv /\ TypeOK' /\ AskInv /\ [Next]_vars => AskInv'
    BY AskNext
  <1> QED
    BY <1>1, AskInit, BaseInvariant, PTL DEF Spec

\* An order is for the seats its request names at the end, in one area, whatever is
\* retried, rolled back or killed on the way.
THEOREM OrderAsAsked == Spec => [](\A o \in Orders : Placed(o))
  <1>1. AskInv => \A o \in Orders : Placed(o)
    BY DEF AskInv
  <1> QED
    BY <1>1, AskInvariant, PTL

\* The attempt that overwrites the items of a request for a numbered area changes
\* nothing: it is retried as it was, and with OrderAsAsked its order is for the
\* seats the caller named.  What booking_retry shows happens to the others only.
THEOREM NumberedRetriedAsItWas ==
    Spec => [][\A p \in Placers : payload[p].area \in Numbered => payload'[p] = payload[p]]_vars
  <1>1. ASSUME TypeOK, AskInv, [Next]_vars, NEW p \in Placers, payload[p].area \in Numbered
        PROVE  payload'[p] = payload[p]
    <2>1. CASE payload' = payload
      BY <2>1
    <2>2. CASE payload' # payload
      <3>1. PICK q \in Placers : Enrich(q)
        <4>1. ASSUME NEW h \in Handlers, Handle(h) \/ HandlerAbort(h) \/ HandlerCrash(h)
              PROVE  payload' = payload
          BY <4>1
             DEF Handle, Deliver, UpdateInvoiceStatus, UpdateOrderStatus, UpdateSeatStatus,
                 Effects, CommitWebhook, Respond, HandlerAbort, HandlerCrash, placerVars
        <4>2. ASSUME NEW o \in Orders, NEW outcome \in Outcomes, Settle(o, outcome)
              PROVE  payload' = payload
          BY <4>2 DEF Settle, placerVars
        <4>3. CASE UNCHANGED vars
          BY <2>2, <4>3 DEF vars, placerVars
        <4> QED
          BY <1>1, <2>2, <4>1, <4>2, <4>3, AskStep DEF Next, Finished
      <3>2. CASE q # p
        BY <1>1, <3>1, <3>2, AskStep DEF Place
      <3>3. CASE q = p
        <4> DEFINE full == [seats |-> held[p], free |-> [a \in Areas |-> 0],
                            dup |-> payload[p].dup, area |-> payload[p].area,
                            sale |-> payload[p].sale]
        <4>1. pc[p] = "enrich" /\ KindMatches(p) /\ payload' = [payload EXCEPT ![p] = full]
          BY <2>2, <3>1, <3>3 DEF Enrich, Refuse
        <4>2. held[p] = payload[p].seats /\ ~ByArea(p)
          BY <4>1, <1>1 DEF AskInv, Asking, KindMatches
        <4>3. payload[p] \in Request
          BY <1>1 DEF TypeOK
        <4>4. payload[p].free = [a \in Areas |-> 0]
          <5>1. payload[p].free \in [Areas -> Nat]
            BY <4>3 DEF Request
          <5>2. \A a \in Areas : payload[p].free[a] = 0
            BY <4>2, <5>1 DEF ByArea
          <5> QED
            BY <5>1, <5>2
        <4>5. full = payload[p]
          BY <4>2, <4>3, <4>4 DEF Request
        <4> QED
          BY <1>1, <4>1, <4>5 DEF TypeOK
      <3> QED
        BY <3>2, <3>3
    <2> QED
      BY <2>1, <2>2
  <1>2. TypeOK /\ AskInv /\ [Next]_vars =>
            [\A p \in Placers : payload[p].area \in Numbered => payload'[p] = payload[p]]_vars
    BY <1>1
  <1> QED
    BY <1>2, AskInvariant, PTL DEF Spec

(***************************************************************************)
(* The refinement of SeatLedger                                            *)
(***************************************************************************)

\* What a step may do to an order and to its seats: nothing, or what the ledger
\* allows.
LEMMA LedgerStep ==
    ASSUME TypeOK, IInv, TypeOK', [Next]_vars
    PROVE  [Ledger!Next]_(Ledger!ledger)
  <1> USE DEF placerVars, tableVars, handlerVars, gatewayVars
  <1>1. ASSUME UNCHANGED tableVars
        PROVE  UNCHANGED Ledger!ledger
    BY <1>1 DEF Ledger!ledger, LedgerPhase
  <1>2. ASSUME NEW p \in Placers, CommitOrder(p)
        PROVE  Ledger!Next
    <2> DEFINE o == <<p, attempt[p]>>
    <2>1. o \in Orders /\ o[1] = p /\ held[p] \in SUBSET Seats
      BY OrderOfPlacer DEF TypeOK
    <2>2. /\ pc[p] = "commit"
          /\ orderStatus' = [orderStatus EXCEPT ![o] = "waiting-for-payment"]
          /\ orderSeats' = [orderSeats EXCEPT ![o] = held[p]]
      BY <1>2 DEF CommitOrder
    <2> HIDE DEF o
    <2>3. orderStatus[o] = "none"
      BY <2>1, <2>2 DEF IInv, BaseInv, FreshInv
    <2>4. \A q \in Orders : Ledger!Live(q) => orderSeats[q] \cap held[p] = {}
      BY DEF Ledger!Live, LedgerPhase, IInv, BaseInv, SeatInv, RowInv, TypeOK
    <2>5. LedgerPhase[o] = "none"
      BY <2>1, <2>3 DEF LedgerPhase
    <2>6. LedgerPhase' = [LedgerPhase EXCEPT ![o] = "held"]
      BY <2>1, <2>2 DEF LedgerPhase, TypeOK
    <2>7. Ledger!Hold(o, held[p])
      BY <2>2, <2>4, <2>5, <2>6 DEF Ledger!Hold
    <2> QED
      BY <2>1, <2>7 DEF Ledger!Next
  <1>3. ASSUME NEW h \in Handlers, CommitWebhook(h)
        PROVE  Ledger!Next
    <2> DEFINE o == job[h]
    <2>1. o \in Orders /\ orderStatus[o] = "waiting-for-payment"
      BY <1>3 DEF CommitWebhook, IInv, JobInv, TypeOK
    <2>2. /\ orderStatus' = [orderStatus EXCEPT ![o] = Settled(o)]
          /\ UNCHANGED orderSeats
      BY <1>3 DEF CommitWebhook
    <2> HIDE DEF o
    <2>3. LedgerPhase[o] = "held"
      BY <2>1 DEF LedgerPhase
    <2>4. CASE Settled(o) = "success"
      <3>1. LedgerPhase' = [LedgerPhase EXCEPT ![o] = "sold"]
        BY <2>1, <2>2, <2>4 DEF LedgerPhase, TypeOK
      <3> QED
        BY <2>1, <2>2, <2>3, <3>1 DEF Ledger!Next, Ledger!Sell
    <2>5. CASE Settled(o) = "failed"
      <3>1. LedgerPhase' = [LedgerPhase EXCEPT ![o] = "released"]
        BY <2>1, <2>2, <2>5 DEF LedgerPhase, TypeOK
      <3> QED
        BY <2>1, <2>2, <2>3, <3>1 DEF Ledger!Next, Ledger!Release
    <2> QED
      BY <2>4, <2>5 DEF Settled
  <1> QED
    BY <1>1, <1>2, <1>3, WhoWrites

\* The transactions implement the seat ledger.
THEOREM BookingImplementsLedger ==
    ASSUME "lost" \notin FaultKinds
    PROVE  Spec => ImplementsLedger
  <1>1. Init => Ledger!Init
    BY DEF Init, Ledger!Init, LedgerPhase
  <1>2. TypeOK /\ IInv /\ (TypeOK /\ IInv)' /\ [Next]_vars => [Ledger!Next]_(Ledger!ledger)
    BY LedgerStep
  <1> QED
    BY <1>1, <1>2, InductiveInvariant, PTL DEF Spec, ImplementsLedger, Ledger!Spec

=============================================================================
