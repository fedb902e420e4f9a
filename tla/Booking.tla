------------------------------ MODULE Booking ------------------------------
(***************************************************************************)
(* Placing an order and settling it, as concurrent database transactions.  *)
(*                                                                         *)
(* A placer is one call of BasePlaceOrderUsecase.PlaceOrder: it locks the  *)
(* seat rows it wants (FOR UPDATE NOWAIT or SKIP LOCKED), marks them       *)
(* on-hold, inserts the order, asks the payment gateway for an invoice and *)
(* commits.  A handler is one goroutine that runs                          *)
(* PGWebhookUsecase.HandleWebhook for the notifications of the payment     *)
(* service.  Everything a transaction writes becomes visible at its commit *)
(* and vanishes at its rollback; row locks are held in between.  The Redis *)
(* availability counters are written outside of the transactions.          *)
(***************************************************************************)
EXTENDS Integers, FiniteSets

CONSTANTS
    Placers,      \* calls of PlaceOrder
    Handlers,     \* goroutines handling webhook requests
    Seats,        \* rows of ticket_seats
    Areas,        \* rows of ticket_areas
    AreaOf,       \* ticket_seats.ticket_area_id
    Numbered,     \* the areas of type numbered-seating; the others are free-standing
    Requests,     \* the PlaceOrderDto values the placers are called with
    Outcomes,     \* the statuses the payment service notifies
    MaxAttempts,  \* attempts of a transaction that meets SQLSTATE 40001
    FaultKinds,   \* the faults that may happen: "abort", "crash", "lost", "unsure"
    MaxFaults,    \* how many of them a behaviour contains
    NoTx,         \* the row lock is free
    NoOrder       \* the handler has no notification

\* A request: the seats it names by id (dup: one is named twice), how many
\* items it has in each area that name no seat, the area it is placed in, and
\* whether the ticket sale is open, closed (or unknown) or sells other areas.
Request == [seats : SUBSET Seats, dup : BOOLEAN, free : [Areas -> Nat],
            area : Areas, sale : {"open", "closed", "other"}]

ASSUME BookingAssumption ==
    /\ Placers \cap Handlers = {}
    /\ NoTx \notin Placers \cup Handlers
    /\ AreaOf \in [Seats -> Areas]
    /\ Numbered \subseteq Areas
    /\ Requests \subseteq Request
    /\ Outcomes \subseteq {"paid", "expired", "failed"}
    /\ MaxAttempts \in Nat \ {0}
    /\ MaxFaults \in Nat
    /\ NoOrder \notin Placers \X (1 .. MaxAttempts)
    /\ IsFiniteSet(Seats)
    /\ \A r \in Requests : r.seats # {} \/ \E a \in Areas : r.free[a] > 0

\* Every attempt inserts its order under a fresh bigserial id.
Orders == Placers \X (1 .. MaxAttempts)

VARIABLES
    payload,      \* payload[p]: the request as the attempts of p see it
    pc, attempt,  \* where placer p is, and in which attempt
    todo, held,   \* rows the locking query still has to visit, rows it returned
    reply,        \* the HTTP status p ended with
    rowLock,      \* the transaction that holds the lock of a ticket_seats row
    seatStatus,   \* committed ticket_seats.status
    orderStatus,  \* committed orders.status, "none" where there is no row
    orderSeats,   \* committed order_items.ticket_seat_id of an order
    orderLock,    \* the transaction that locks the invoice and order rows
    issued,       \* committed batches of issued_tickets of an order
    pay,          \* the payment service's status of the invoice of an order
    note,         \* its notification: none, queued, running, done
    resent,       \* history: how often its handling was committed, but the answer lost
    hpc, job, tries, \* where handler h is, for which order, in which attempt
    avail,        \* the availability counters in Redis
    faults        \* faults so far

placerVars == <<payload, pc, attempt, todo, held, reply>>
tableVars == <<seatStatus, orderStatus, orderSeats, issued>>
handlerVars == <<hpc, job, tries>>
gatewayVars == <<pay, note, resent>>
vars == <<placerVars, tableVars, handlerVars, gatewayVars,
          rowLock, orderLock, avail, faults>>

Tx == Placers \cup Handlers
AvailableIn(a) == {s \in Seats : AreaOf[s] = a /\ seatStatus[s] = "available"}

TypeOK ==
    /\ payload \in [Placers -> Request]
    /\ pc \in [Placers -> {"begin", "locking", "enrich", "insert", "commit",
                           "apply", "done"}]
    /\ attempt \in [Placers -> 1 .. MaxAttempts]
    /\ todo \in [Placers -> SUBSET Seats]
    /\ held \in [Placers -> SUBSET Seats]
    /\ reply \in [Placers -> {"none", "200", "400", "409", "500"}]
    /\ rowLock \in [Seats -> Tx \cup {NoTx}]
    /\ seatStatus \in [Seats -> {"available", "on-hold", "sold"}]
    /\ orderStatus \in [Orders -> {"none", "waiting-for-payment", "success", "failed"}]
    /\ orderSeats \in [Orders -> SUBSET Seats]
    /\ orderLock \in [Orders -> Handlers \cup {NoTx}]
    /\ issued \in [Orders -> Nat]
    /\ pay \in [Orders -> {"none", "open", "paid", "expired", "failed"}]
    /\ note \in [Orders -> {"none", "queued", "running", "done"}]
    /\ resent \in [Orders -> Nat]
    /\ hpc \in [Handlers -> {"idle", "invoice", "order", "seats", "effects",
                             "commit", "respond"}]
    /\ job \in [Handlers -> Orders \cup {NoOrder}]
    /\ tries \in [Handlers -> 1 .. MaxAttempts]
    /\ avail \in [Areas -> Int]
    /\ faults \in 0 .. MaxFaults
    /\ \A h \in Handlers : hpc[h] # "idle" => job[h] # NoOrder

Init ==
    /\ payload \in [Placers -> Requests]
    /\ pc = [p \in Placers |-> "begin"]
    /\ attempt = [p \in Placers |-> 1]
    /\ todo = [p \in Placers |-> {}]
    /\ held = [p \in Placers |-> {}]
    /\ reply = [p \in Placers |-> "none"]
    /\ rowLock = [s \in Seats |-> NoTx]
    /\ seatStatus = [s \in Seats |-> "available"]
    /\ orderStatus = [o \in Orders |-> "none"]
    /\ orderSeats = [o \in Orders |-> {}]
    /\ orderLock = [o \in Orders |-> NoTx]
    /\ issued = [o \in Orders |-> 0]
    /\ pay = [o \in Orders |-> "none"]
    /\ note = [o \in Orders |-> "none"]
    /\ resent = [o \in Orders |-> 0]
    /\ hpc = [h \in Handlers |-> "idle"]
    /\ job = [h \in Handlers |-> NoOrder]
    /\ tries = [h \in Handlers |-> 1]
    /\ avail = [a \in Areas |-> Cardinality({s \in Seats : AreaOf[s] = a})]
    /\ faults = 0

-----------------------------------------------------------------------------
(* Placing an order.                                                       *)

\* One more fault of kind k.
Fault(k) ==
    /\ k \in FaultKinds
    /\ faults < MaxFaults
    /\ faults' = faults + 1

\* tx.Rollback or tx.Commit of transaction t lets go of its row locks.
ReleaseRows(t) ==
    rowLock' = [s \in Seats |-> IF rowLock[s] = t THEN NoTx ELSE rowLock[s]]

\* Variant: the deferred Rollback is missing.
LeaveTxOpen(p, next) ==
    /\ pc' = [pc EXCEPT ![p] = next]
    /\ todo' = [todo EXCEPT ![p] = {}]
    /\ held' = [held EXCEPT ![p] = {}]
    /\ UNCHANGED rowLock

\* The transaction of p is over and the next statement of p is at "next".
LeaveTx(p, next) ==
    /\ pc' = [pc EXCEPT ![p] = next]
    /\ todo' = [todo EXCEPT ![p] = {}]
    /\ held' = [held EXCEPT ![p] = {}]
    /\ ReleaseRows(p)

\* placeOrder returns an HttpError that is not a serialization failure.
Refuse(p, code) ==
    /\ LeaveTx(p, "done")
    /\ reply' = [reply EXCEPT ![p] = code]
    /\ UNCHANGED <<payload, attempt>>

ByID(p) == payload[p].seats # {}
ByArea(p) == \E a \in Areas : payload[p].free[a] > 0

\* The rows the WHERE clause of the locking query selects in its snapshot.
Candidates(p) ==
    {s \in Seats :
        /\ seatStatus[s] = "available"
        /\ \/ s \in payload[p].seats /\ AreaOf[s] = payload[p].area
           \/ payload[p].free[AreaOf[s]] > 0}

\* The query for area a has returned fewer rows than its LIMIT.
Lacking(p, a) ==
    Cardinality({s \in held[p] : AreaOf[s] = a}) < payload[p].free[a]

\* The request is refused before a row is locked, or its locking query starts.
Begin(p) ==
    /\ pc[p] = "begin"
    /\ \/ /\ payload[p].sale = "closed"
          /\ Refuse(p, "400")
       \/ /\ payload[p].sale # "closed"
          /\ ByID(p) /\ ByArea(p)
          /\ Refuse(p, "500")
       \/ /\ payload[p].sale # "closed"
          /\ ~(ByID(p) /\ ByArea(p))
          /\ pc' = [pc EXCEPT ![p] = "locking"]
          /\ todo' = [todo EXCEPT ![p] = Candidates(p)]
          /\ UNCHANGED <<payload, attempt, held, reply, rowLock>>
    /\ UNCHANGED <<tableVars, handlerVars, gatewayVars, orderLock, avail, faults>>

\* Variant: plain FOR UPDATE, which waits for the lock of another transaction.
LockRowWaits(p, s) ==
    /\ pc[p] = "locking"
    /\ s \in todo[p]
    /\ ByID(p) \/ Lacking(p, AreaOf[s])
    /\ rowLock[s] = NoTx
    /\ todo' = [todo EXCEPT ![p] = @ \ {s}]
    /\ IF seatStatus[s] = "available"
       THEN /\ held' = [held EXCEPT ![p] = @ \cup {s}]
            /\ rowLock' = [rowLock EXCEPT ![s] = p]
       ELSE UNCHANGED <<held, rowLock>>
    /\ UNCHANGED <<payload, pc, attempt, reply, tableVars, handlerVars, gatewayVars,
                   orderLock, avail, faults>>

\* Variant: a row of the snapshot is taken without looking at its new version.
LockRowStale(p, s) ==
    /\ pc[p] = "locking"
    /\ s \in todo[p]
    /\ rowLock[s] = NoTx
    /\ todo' = [todo EXCEPT ![p] = @ \ {s}]
    /\ held' = [held EXCEPT ![p] = @ \cup {s}]
    /\ rowLock' = [rowLock EXCEPT ![s] = p]
    /\ UNCHANGED <<payload, pc, attempt, reply, tableVars, handlerVars, gatewayVars,
                   orderLock, avail, faults>>

\* The locking query visits row s.  A row locked by another transaction ends a
\* NOWAIT query and is skipped by SKIP LOCKED; a row that is not available any
\* more is skipped by both (the condition is evaluated again on the new version).
LockRow(p, s) ==
    /\ pc[p] = "locking"
    /\ s \in todo[p]
    /\ ByID(p) \/ Lacking(p, AreaOf[s])
    /\ \/ /\ ByID(p)
          /\ rowLock[s] # NoTx
          /\ Refuse(p, "409")
       \/ /\ ~ByID(p)
          /\ rowLock[s] # NoTx
          /\ todo' = [todo EXCEPT ![p] = @ \ {s}]
          /\ UNCHANGED <<payload, pc, attempt, held, reply, rowLock>>
       \/ /\ rowLock[s] = NoTx
          /\ seatStatus[s] # "available"
          /\ todo' = [todo EXCEPT ![p] = @ \ {s}]
          /\ UNCHANGED <<payload, pc, attempt, held, reply, rowLock>>
       \/ /\ rowLock[s] = NoTx
          /\ seatStatus[s] = "available"
          /\ todo' = [todo EXCEPT ![p] = @ \ {s}]
          /\ held' = [held EXCEPT ![p] = @ \cup {s}]
          /\ rowLock' = [rowLock EXCEPT ![s] = p]
          /\ UNCHANGED <<payload, pc, attempt, reply>>
    /\ UNCHANGED <<tableVars, handlerVars, gatewayVars, orderLock, avail, faults>>

\* Every row has been visited, or every LIMIT has been reached.
ScanOver(p) ==
    \A s \in todo[p] : ~ByID(p) /\ ~Lacking(p, AreaOf[s])

\* The query returned as many rows as were asked for, in the area of the order:
\* the UPDATE to on-hold touches only that area and must touch them all.
GotAll(p) ==
    /\ IF ByID(p) THEN held[p] = payload[p].seats /\ ~payload[p].dup
                  ELSE \A a \in Areas : ~Lacking(p, a)
    /\ \A s \in held[p] : AreaOf[s] = payload[p].area

\* Book compares lengths and marks the rows on-hold inside the transaction.
HoldSeats(p) ==
    /\ pc[p] = "locking"
    /\ ScanOver(p)
    /\ \/ /\ ~GotAll(p)
          /\ Refuse(p, "409")
       \/ /\ GotAll(p)
          /\ pc' = [pc EXCEPT ![p] = "enrich"]
          /\ todo' = [todo EXCEPT ![p] = {}]
          /\ UNCHANGED <<payload, attempt, held, reply, rowLock>>
    /\ UNCHANGED <<tableVars, handlerVars, gatewayVars, orderLock, avail, faults>>

\* Numbered areas are ordered by seat id, free-standing areas are not.
KindMatches(p) == ByID(p) <=> payload[p].area \in Numbered

\* Every item gets its seat and its price.  The items are written back into the
\* slice the caller passed, so the next attempt sees the seat ids.
Enrich(p) ==
    /\ pc[p] = "enrich"
    /\ \/ /\ payload[p].sale = "other"
          /\ Refuse(p, "500")
       \/ /\ payload[p].sale = "open"
          /\ ~KindMatches(p)
          /\ Refuse(p, "400")
       \/ /\ payload[p].sale = "open"
          /\ KindMatches(p)
          /\ payload' = [payload EXCEPT ![p] =
                             [seats |-> held[p], free |-> [a \in Areas |-> 0],
                              dup |-> @.dup, area |-> @.area, sale |-> @.sale]]
          /\ pc' = [pc EXCEPT ![p] = "insert"]
          /\ UNCHANGED <<attempt, todo, held, reply, rowLock>>
    /\ UNCHANGED <<tableVars, handlerVars, gatewayVars, orderLock, avail, faults>>

\* The order and its items are inserted, and the payment service creates an
\* invoice: it keeps it whatever becomes of the transaction.
GenerateInvoice(p) ==
    /\ pc[p] = "insert"
    /\ \/ /\ pay' = [pay EXCEPT ![<<p, attempt[p]>>] = "open"]
          /\ pc' = [pc EXCEPT ![p] = "commit"]
          /\ UNCHANGED <<payload, attempt, todo, held, reply, rowLock>>
       \/ /\ Refuse(p, "500")
          /\ UNCHANGED pay
    /\ UNCHANGED <<tableVars, handlerVars, note, resent, orderLock, avail, faults>>

\* The invoice row is inserted and the transaction commits.  When the answer to
\* the commit does not arrive, Commit returns an error of the connection: the
\* caller gets a 500 and the counters are left alone, but the order is there.
CommitOrder(p) ==
    LET o == <<p, attempt[p]>> IN
    /\ pc[p] = "commit"
    /\ orderStatus' = [orderStatus EXCEPT ![o] = "waiting-for-payment"]
    /\ orderSeats' = [orderSeats EXCEPT ![o] = held[p]]
    /\ seatStatus' = [s \in Seats |-> IF s \in held[p] THEN "on-hold" ELSE seatStatus[s]]
    /\ \/ LeaveTx(p, "apply") /\ UNCHANGED <<reply, faults>>
       \/ LeaveTx(p, "done") /\ reply' = [reply EXCEPT ![p] = "500"] /\ Fault("unsure")
    /\ UNCHANGED <<payload, attempt, issued, handlerVars, gatewayVars, orderLock, avail>>

\* How many items of an order change the counter of area a.
SeatsIn(S, a) == Cardinality({s \in S : AreaOf[s] = a})

\* After the commit the counters lose the seats; an error is only logged.
ApplyAvailability(p) ==
    /\ pc[p] = "apply"
    /\ avail' = [a \in Areas |-> avail[a] - SeatsIn(orderSeats[<<p, attempt[p]>>], a)]
    /\ pc' = [pc EXCEPT ![p] = "done"]
    /\ reply' = [reply EXCEPT ![p] = "200"]
    /\ UNCHANGED <<payload, attempt, todo, held, rowLock, tableVars, handlerVars,
                   gatewayVars, orderLock, faults>>

InTx(p) == pc[p] \in {"locking", "enrich", "insert", "commit"}

\* Variant: an error after the commit makes PlaceOrder try again, too.
PlacerAbortAnyTime(p) ==
    /\ pc[p] \in {"locking", "insert", "commit", "apply"}
    /\ Fault("abort")
    /\ attempt[p] < MaxAttempts
    /\ LeaveTx(p, "begin")
    /\ attempt' = [attempt EXCEPT ![p] = @ + 1]
    /\ UNCHANGED <<payload, reply, tableVars, handlerVars, gatewayVars, orderLock, avail>>

\* A statement, or the commit, fails with SQLSTATE 40001: the transaction is
\* rolled back and PlaceOrder calls placeOrder again, three times at most.
PlacerAbort(p) ==
    /\ pc[p] \in {"locking", "insert", "commit"}
    /\ Fault("abort")
    /\ \/ /\ attempt[p] < MaxAttempts
          /\ LeaveTx(p, "begin")
          /\ attempt' = [attempt EXCEPT ![p] = @ + 1]
          /\ UNCHANGED <<payload, reply>>
       \/ /\ attempt[p] = MaxAttempts
          /\ Refuse(p, "500")
    /\ UNCHANGED <<tableVars, handlerVars, gatewayVars, orderLock, avail>>

\* The process dies: the database rolls its transaction back.
PlacerCrash(p) ==
    /\ InTx(p) \/ pc[p] = "apply"
    /\ Fault("crash")
    /\ LeaveTx(p, "done")
    /\ UNCHANGED <<payload, attempt, reply, tableVars, handlerVars, gatewayVars,
                   orderLock, avail>>

-----------------------------------------------------------------------------
(* The payment service.                                                    *)

\* The customer pays or the invoice expires.  Nobody but the reply names the
\* invoice and it lives for 15 minutes, so the transaction that created it is
\* over by then; it may have been rolled back.
Settle(o, outcome) ==
    /\ pay[o] = "open"
    /\ ~(pc[o[1]] = "commit" /\ attempt[o[1]] = o[2])
    /\ pay' = [pay EXCEPT ![o] = outcome]
    /\ note' = [note EXCEPT ![o] = "queued"]
    /\ UNCHANGED <<placerVars, tableVars, handlerVars, resent, rowLock, orderLock, avail, faults>>

-----------------------------------------------------------------------------
(* Handling a notification.                                                *)

\* The order status the webhook writes.
Settled(o) == IF pay[o] = "paid" THEN "success" ELSE "failed"

\* Variants: the status of the invoice ends up in the seat; the branch for an
\* unpaid order leaves the seat on-hold.
SeatAfterInvoice(o) == IF pay[o] = "paid" THEN "sold" ELSE pay[o]
SeatAfterHeld(o) == IF pay[o] = "paid" THEN "sold" ELSE "on-hold"

\* The seat status the webhook writes.
SeatAfter(o) == IF pay[o] = "paid" THEN "sold" ELSE "available"

\* Variant: the notifier takes every answer as final.
AnswerFinal(h, result) ==
    /\ hpc' = [hpc EXCEPT ![h] = "idle"]
    /\ job' = [job EXCEPT ![h] = NoOrder]
    /\ tries' = [tries EXCEPT ![h] = 1]
    /\ note' = [note EXCEPT ![job[h]] = "done"]

\* The handler answers: with an error the notifier queues the job again.
Answer(h, result) ==
    /\ hpc' = [hpc EXCEPT ![h] = "idle"]
    /\ job' = [job EXCEPT ![h] = NoOrder]
    /\ tries' = [tries EXCEPT ![h] = 1]
    /\ note' = [note EXCEPT ![job[h]] = result]

\* The transaction of h is over: its locks are free.
ReleaseAll(h) ==
    /\ ReleaseRows(h)
    /\ orderLock' = [o \in Orders |-> IF orderLock[o] = h THEN NoTx ELSE orderLock[o]]

\* GetOrder reads outside of the transaction; an unknown order is a 404, which
\* the notifier takes as final.  An order never changes its seats, so what was
\* read stays true and the transaction begins in the same step.
Deliver(h, o) ==
    /\ hpc[h] = "idle"
    /\ note[o] = "queued"
    /\ \/ /\ orderStatus[o] = "none"
          /\ note' = [note EXCEPT ![o] = "done"]
          /\ UNCHANGED handlerVars
       \/ /\ orderStatus[o] # "none"
          /\ note' = [note EXCEPT ![o] = "running"]
          /\ hpc' = [hpc EXCEPT ![h] = "invoice"]
          /\ job' = [job EXCEPT ![h] = o]
          /\ UNCHANGED tries
    /\ UNCHANGED <<placerVars, tableVars, rowLock, orderLock, pay, resent, avail, faults>>

\* The UPDATE of the invoice row waits until no other transaction has it.
UpdateInvoiceStatus(h) ==
    /\ hpc[h] = "invoice"
    /\ orderLock[job[h]] = NoTx
    /\ orderLock' = [orderLock EXCEPT ![job[h]] = h]
    /\ hpc' = [hpc EXCEPT ![h] = "order"]
    /\ UNCHANGED <<placerVars, tableVars, job, tries, gatewayVars, rowLock, avail, faults>>

\* The order row is written after the invoice row, under the same lock order.
UpdateOrderStatus(h) ==
    /\ hpc[h] = "order"
    /\ hpc' = [hpc EXCEPT ![h] = "seats"]
    /\ UNCHANGED <<placerVars, tableVars, job, tries, gatewayVars, rowLock, orderLock,
                   avail, faults>>

\* The UPDATE of the seat rows waits for their locks and asks for no status.
UpdateSeatStatus(h) ==
    /\ hpc[h] = "seats"
    /\ \A s \in orderSeats[job[h]] : rowLock[s] = NoTx
    /\ rowLock' = [s \in Seats |-> IF s \in orderSeats[job[h]] THEN h ELSE rowLock[s]]
    /\ hpc' = [hpc EXCEPT ![h] = "effects"]
    /\ UNCHANGED <<placerVars, tableVars, job, tries, gatewayVars, orderLock, avail, faults>>

\* Variant: the counters get the seats of a paid order back, too.
EffectsAlways(h) ==
    /\ hpc[h] = "effects"
    /\ hpc' = [hpc EXCEPT ![h] = "commit"]
    /\ avail' = [a \in Areas |-> avail[a] + SeatsIn(orderSeats[job[h]], a)]
    /\ UNCHANGED <<placerVars, tableVars, job, tries, gatewayVars, rowLock, orderLock, faults>>

\* A paid order gets its tickets (rows of the transaction); for another one the
\* Redis counters get the seats back at once, before the commit.
Effects(h) ==
    /\ hpc[h] = "effects"
    /\ hpc' = [hpc EXCEPT ![h] = "commit"]
    /\ \/ pay[job[h]] = "paid" /\ UNCHANGED avail
       \/ /\ pay[job[h]] # "paid"
          /\ avail' = [a \in Areas |-> avail[a] + SeatsIn(orderSeats[job[h]], a)]
    /\ UNCHANGED <<placerVars, tableVars, job, tries, gatewayVars, rowLock, orderLock, faults>>

\* Variant: tickets are issued whatever the status of the invoice.
CommitWebhookIssues(h) ==
    LET o == job[h] IN
    /\ hpc[h] = "commit"
    /\ orderStatus' = [orderStatus EXCEPT ![o] = Settled(o)]
    /\ seatStatus' = [s \in Seats |-> IF s \in orderSeats[o] THEN SeatAfter(o)
                                      ELSE seatStatus[s]]
    /\ issued' = [issued EXCEPT ![o] = @ + 1]
    /\ ReleaseAll(h)
    /\ hpc' = [hpc EXCEPT ![h] = "respond"]
    /\ UNCHANGED <<placerVars, orderSeats, job, tries, gatewayVars, avail, faults>>

\* Everything the transaction wrote becomes visible and its locks are free.
CommitWebhook(h) ==
    LET o == job[h] IN
    /\ hpc[h] = "commit"
    /\ orderStatus' = [orderStatus EXCEPT ![o] = Settled(o)]
    /\ seatStatus' = [s \in Seats |-> IF s \in orderSeats[o] THEN SeatAfter(o)
                                      ELSE seatStatus[s]]
    /\ issued' = [issued EXCEPT ![o] = IF pay[o] = "paid" THEN @ + 1 ELSE @]
    /\ ReleaseAll(h)
    /\ hpc' = [hpc EXCEPT ![h] = "respond"]
    /\ UNCHANGED <<placerVars, orderSeats, job, tries, gatewayVars, avail, faults>>

\* The answer reaches the notifier, or is lost on the way.
Respond(h) ==
    /\ hpc[h] = "respond"
    /\ \/ Answer(h, "done") /\ UNCHANGED <<resent, faults>>
       \/ /\ Answer(h, "queued")
          /\ Fault("lost")
          /\ resent' = [resent EXCEPT ![job[h]] = @ + 1]
    /\ UNCHANGED <<placerVars, tableVars, pay, rowLock, orderLock, avail>>

\* The error at this point of the transaction of h is SQLSTATE 40001 and seen.
Retryable(h) ==
    \/ hpc[h] \in {"invoice", "seats", "commit"}
    \/ hpc[h] = "effects" /\ pay[job[h]] = "paid"

\* SQLSTATE 40001 in the transaction of h: HandleWebhook runs handleWebhook
\* again, three times at most.  UpdateOrderStatus looks at RowsAffected before
\* it looks at the error, and reports an unknown order instead: no retry.  Nor
\* is there one when Redis fails to give the counters back.
HandlerAbort(h) ==
    /\ hpc[h] \in {"invoice", "order", "seats", "effects", "commit"}
    /\ Fault("abort")
    /\ \/ /\ Retryable(h)
          /\ tries[h] < MaxAttempts
          /\ hpc' = [hpc EXCEPT ![h] = "invoice"]
          /\ tries' = [tries EXCEPT ![h] = @ + 1]
          /\ UNCHANGED <<job, note>>
       \/ /\ ~Retryable(h) \/ tries[h] = MaxAttempts
          /\ Answer(h, "queued")
    /\ ReleaseAll(h)
    /\ UNCHANGED <<placerVars, tableVars, pay, resent, avail>>

\* The server dies while it handles a notification.
HandlerCrash(h) ==
    /\ hpc[h] \notin {"idle", "respond"}
    /\ Fault("crash")
    /\ Answer(h, "queued")
    /\ ReleaseAll(h)
    /\ UNCHANGED <<placerVars, tableVars, pay, resent, avail>>

-----------------------------------------------------------------------------
Place(p) ==
    \/ Begin(p) \/ (\E s \in Seats : LockRow(p, s)) \/ HoldSeats(p) \/ Enrich(p)
    \/ GenerateInvoice(p) \/ CommitOrder(p) \/ ApplyAvailability(p)

Handle(h) ==
    \/ (\E o \in Orders : Deliver(h, o)) \/ UpdateInvoiceStatus(h) \/ UpdateOrderStatus(h)
    \/ UpdateSeatStatus(h) \/ Effects(h) \/ CommitWebhook(h) \/ Respond(h)

\* Every request is answered and every notification delivered.
Quiescent ==
    /\ \A p \in Placers : pc[p] = "done"
    /\ \A h \in Handlers : hpc[h] = "idle"
    /\ \A o \in Orders : note[o] # "queued" /\ pay[o] # "open"

Finished == Quiescent /\ UNCHANGED vars

Next ==
    \/ \E p \in Placers : Place(p) \/ PlacerAbort(p) \/ PlacerCrash(p)
    \/ \E o \in Orders, outcome \in Outcomes : Settle(o, outcome)
    \/ \E h \in Handlers : Handle(h) \/ HandlerAbort(h) \/ HandlerCrash(h)
    \/ Finished

Spec == Init /\ [][Next]_vars

\* A running goroutine goes on and an invoice settles in the end: it expires.
\* A handler that is retried for a bounded number of faults needs no more.
Fairness ==
    /\ \A p \in Placers : WF_vars(Place(p))
    /\ \A o \in Orders : WF_vars(\E outcome \in Outcomes : Settle(o, outcome))
    /\ \A h \in Handlers : WF_vars(Handle(h))

FairSpec == Spec /\ Fairness

-----------------------------------------------------------------------------
(* Properties.                                                             *)

LiveOrders == {o \in Orders : orderStatus[o] \in {"waiting-for-payment", "success"}}
Holders(s) == {o \in LiveOrders : s \in orderSeats[o]}

\* The tables as a ledger of seats.
LedgerPhase ==
    [o \in Orders |-> CASE orderStatus[o] = "none" -> "none"
                        [] orderStatus[o] = "waiting-for-payment" -> "held"
                        [] orderStatus[o] = "success" -> "sold"
                        [] OTHER -> "released"]

Ledger == INSTANCE SeatLedger WITH phase <- LedgerPhase, seatsOf <- orderSeats

\* The transactions of placers and handlers, statement by statement, keep the
\* promise of the ledger: a commit is a hold of seats nobody has, a sale or a
\* release of held ones, and every other step changes nothing a reader sees.
ImplementsLedger == Ledger!Spec

\* No seat belongs to two orders that have not failed: what the CheckDoubleOrder
\* query of pg_check.go counts, over the placers, the handlers and their faults.
NoDoubleOrder ==
    \A o1, o2 \in LiveOrders : o1 # o2 => orderSeats[o1] \cap orderSeats[o2] = {}

\* The status column of a seat says what the orders say: it is on-hold for the
\* order that waits, sold for the one that succeeded, available for none.  The
\* three are written by different statements of different transactions.
StatusAgrees ==
    \A s \in Seats :
        /\ seatStatus[s] = "available" <=> Holders(s) = {}
        /\ seatStatus[s] = "sold" <=> \E o \in Holders(s) : orderStatus[o] = "success"

\* A paid order gets one batch of tickets for every time the handling of its
\* notification is committed: one, and one more for each time the answer was lost
\* afterwards, when the notifier delivers again and HandleWebhook issues again
\* without looking at the order.  Serialization failures, crashes and redeliveries
\* of what was rolled back add none and cost none; an unpaid order has none.
OneBatchPerHandling ==
    \A o \in Orders :
        IF orderStatus[o] = "success"
        THEN /\ issued[o] >= 1
             /\ issued[o] \in resent[o] .. resent[o] + 1
             /\ note[o] = "done" => issued[o] = resent[o] + 1
        ELSE issued[o] = 0

\* A request that is retried after serialization failures leaves at most one
\* order behind, the attempt it answered with is the one that has it, and a
\* refusal leaves none (a 500 may be a commit whose answer did not arrive).
OneOrderPerRequest ==
    \A p \in Placers :
        /\ \A i, j \in 1 .. MaxAttempts :
              orderStatus[<<p, i>>] # "none" /\ orderStatus[<<p, j>>] # "none" => i = j
        /\ reply[p] = "200" => orderStatus[<<p, attempt[p]>>] # "none"
        /\ reply[p] \in {"400", "409"} =>
              \A i \in 1 .. MaxAttempts : orderStatus[<<p, i>>] = "none"

\* When everything is answered the Redis counters equal the rows that are
\* available: ApplyAvailability after the commit of an order and
\* RevertAvailability before the commit of its webhook cancel out, in whatever
\* order they reach Redis, as long as no fault comes between them.
AvailabilityConverges ==
    Quiescent /\ faults = 0 => \A a \in Areas : avail[a] = Cardinality(AvailableIn(a))

\* A locked row is locked for a transaction that is still open, so that no
\* abort, crash or refusal leaves a seat that no later request can lock.
NoOrphanLock ==
    \A s \in Seats :
        /\ rowLock[s] \in Placers => InTx(rowLock[s])
        /\ rowLock[s] \in Handlers => hpc[rowLock[s]] \in {"effects", "commit"}

\* An order that asks for what it may ask for is not a bad request, in whatever
\* attempt: the comment of PlaceOrder says it retries the transaction.
RetryIsNoBadRequest ==
    \A p \in Placers : attempt[p] > 1 => reply[p] # "400"

\* A sold seat stays with the order that paid for it.
SoldIsFinal ==
    [][\A o \in Orders : orderStatus[o] = "success" =>
          /\ orderStatus'[o] = "success"
          /\ \A s \in orderSeats[o] : seatStatus'[s] = "sold"]_vars

\* Every request is answered or its process is dead.
EveryRequestEnds == \A p \in Placers : <>(pc[p] = "done")

\* Every seat that is held is sold or on offer again in the end, whatever
\* faults the notifications of its order meet.
EveryHoldEnds ==
    \A s \in Seats : seatStatus[s] = "on-hold" ~> seatStatus[s] # "on-hold"
=============================================================================
