---------------------------- MODULE FlowControl ----------------------------
(***************************************************************************)
(* Placing an order with flow control.  The server asks the early dropper  *)
(* for the keys of a request, puts the request into a queue and waits for  *)
(* the answer of a worker; a worker places the order in the database and   *)
(* answers; later the webhook settles the order in the cache and in the    *)
(* database.  The acquisition is the atomic step that SeatCache promises,  *)
(* and the transaction of the worker the one that SeatLedger promises.     *)
(***************************************************************************)
EXTENDS Integers, FiniteSetsExt

CONSTANTS
    Requests,    \* requests that reach the server
    Keys,        \* idempotency keys
    Key,         \* Key[r]: the idempotency key of request r
    After,       \* After[r]: the requests of which r is the client's repetition
    Seats,       \* numbered seats
    Areas,       \* free-standing areas
    Ids,         \* Ids[r]: the seats request r names
    Count,       \* Count[r][a]: how many places it wants in area a
    Stock,       \* the places of an area
    MaxFaults    \* crashes, redeliveries, lost replies and aborted settlements

ASSUME FlowAssumption ==
    /\ Key \in [Requests -> Keys]
    /\ After \in [Requests -> SUBSET Requests]
    /\ Ids \in [Requests -> SUBSET Seats]
    /\ Count \in [Requests -> [Areas -> Nat]]
    /\ Stock \in [Areas -> Nat]
    /\ MaxFaults \in Nat
    \* a client uses a key again only to repeat a request that timed out
    /\ \A q, r \in Requests : Key[q] = Key[r] /\ q # r => q \in After[r] \/ r \in After[q]

VARIABLES
    pc,          \* where the handler of a request is, or what it answered
    cached,      \* idempotency keys with a stored result
    msg,         \* the request messages and the answers to them
    order,       \* the order that a worker placed for a copy of a message
    seatKey,     \* early dropper: status of a seat
    freeKey,     \* early dropper: places left
    dbSeat,      \* database: status of a seat
    dbFree,      \* database: free-standing seats available
    faults       \* faults so far

redis == <<seatKey, freeKey>>
db == <<dbSeat, dbFree>>
vars == <<pc, cached, msg, order, redis, db, faults>>

\* A message that is delivered again, or published twice, is another copy of it.
Copies == Requests \X (1 .. MaxFaults + 1)

Status == {"available", "on-hold", "sold"}

TypeOK ==
    /\ pc \in [Requests -> {"idle", "miss", "held", "waiting", "leaked", "store",
                            "ok", "cached", "refused", "failed", "timeout"}]
    /\ cached \subseteq Keys
    /\ msg \in [Copies -> {"none", "queued", "placed", "refused", "yes", "no", "done"}]
    /\ order \in [Copies -> {"none", "held", "selling", "releasing", "sold", "released"}]
    /\ seatKey \in [Seats -> Status]
    /\ freeKey \in [Areas -> Nat]
    /\ dbSeat \in [Seats -> Status]
    /\ dbFree \in [Areas -> Nat]
    /\ faults \in 0 .. MaxFaults

Init ==
    /\ pc = [r \in Requests |-> "idle"]
    /\ cached = {}
    /\ msg = [c \in Copies |-> "none"]
    /\ order = [c \in Copies |-> "none"]
    /\ seatKey = [s \in Seats |-> "available"]
    /\ freeKey = Stock
    /\ dbSeat = [s \in Seats |-> "available"]
    /\ dbFree = Stock
    /\ faults = 0

\* What a request asks of the cache and of the database, and how either changes.
Dropper == INSTANCE SeatCache WITH Clients <- Requests, lock <- pc
Rows == INSTANCE SeatCache WITH Clients <- Requests, lock <- pc,
                                seatKey <- dbSeat, freeKey <- dbFree

Goto(r, next) == pc' = [pc EXCEPT ![r] = next]
Mark(c, next) == msg' = [msg EXCEPT ![c] = next]
Become(c, next) == order' = [order EXCEPT ![c] = next]
Fault == faults < MaxFaults /\ faults' = faults + 1

-----------------------------------------------------------------------------
(* The handler of a request in the server.                                 *)

\* The stored result of an earlier request with this key is the answer.
LookUp(r) ==
    /\ pc[r] = "idle"
    /\ \A q \in After[r] : pc[q] = "timeout"
    /\ IF Key[r] \in cached THEN Goto(r, "cached") ELSE Goto(r, "miss")
    /\ UNCHANGED <<cached, msg, order, redis, db, faults>>

\* TryAcquireLock takes all keys, or answers 409, 423 or 500.
Acquire(r) ==
    /\ pc[r] = "miss"
    /\ \/ Dropper!Fits(r) /\ Dropper!Write(r, "on-hold", -1) /\ Goto(r, "held")
       \/ Goto(r, "refused") /\ UNCHANGED redis
    /\ UNCHANGED <<cached, msg, order, db, faults>>

\* Variant: the lock is not released when the message cannot be published.
PublishKeeps(r) ==
    /\ pc[r] = "held"
    /\ \/ Mark(<<r, 1>>, "queued") /\ Goto(r, "waiting")
       \/ UNCHANGED msg /\ Goto(r, "failed")
    /\ UNCHANGED <<cached, order, redis, db, faults>>

\* The answer is listened for and the request is published, or it is refused by
\* the broker client and the lock is released.
Publish(r) ==
    /\ pc[r] = "held"
    /\ \/ Mark(<<r, 1>>, "queued") /\ Goto(r, "waiting") /\ UNCHANGED redis
       \/ UNCHANGED msg /\ Goto(r, "failed") /\ Dropper!Write(r, "available", 1)
    /\ UNCHANGED <<cached, order, db, faults>>

\* The answer to a copy reaches the request that listens with its key, or nobody.
Receive(c) ==
    LET to == {q \in Requests : Key[q] = Key[c[1]] /\ pc[q] = "waiting"} IN
    /\ msg[c] \in {"yes", "no"}
    /\ Mark(c, "done")
    /\ \/ /\ to = {}
          /\ UNCHANGED <<pc, redis>>
       \/ /\ msg[c] = "yes"
          /\ \E q \in to : Goto(q, "store")
          /\ UNCHANGED redis
       \/ /\ msg[c] = "no"
          /\ \E q \in to : Goto(q, "failed") /\ Dropper!Write(q, "available", 1)
    /\ UNCHANGED <<cached, order, db, faults>>

\* Variant: the lock is not released on a timeout.
GiveUpKeeps(r) ==
    /\ pc[r] = "waiting"
    /\ Goto(r, "timeout")
    /\ UNCHANGED <<cached, msg, order, redis, db, faults>>

\* Variant: whoever is answered by a worker waits for the answer to arrive.
GiveUpQueued(r) ==
    /\ pc[r] = "waiting"
    /\ \E c \in Copies : c[1] = r /\ msg[c] = "queued"
    /\ Goto(r, "timeout")
    /\ Dropper!Write(r, "available", 1)
    /\ UNCHANGED <<cached, msg, order, db, faults>>

\* No answer in time, or the client has gone: the lock is released.
GiveUp(r) ==
    /\ pc[r] = "waiting"
    /\ Goto(r, "timeout")
    /\ Dropper!Write(r, "available", 1)
    /\ UNCHANGED <<cached, msg, order, db, faults>>

\* A placed order is remembered under the key.
Store(r) ==
    /\ pc[r] = "store"
    /\ cached' = cached \cup {Key[r]}
    /\ Goto(r, "ok")
    /\ UNCHANGED <<msg, order, redis, db, faults>>

\* The server dies with the handler; nobody releases its lock.
Crash(r) ==
    /\ pc[r] \in {"held", "waiting"}
    /\ Fault
    /\ Goto(r, "leaked")
    /\ UNCHANGED <<cached, msg, order, redis, db>>

-----------------------------------------------------------------------------
(* The workers and the broker.                                             *)

\* Variant: the worker does not look at the seats.
PlaceBlindly(c) ==
    /\ msg[c] = "queued"
    /\ Rows!Write(c[1], "on-hold", -1)
    /\ Become(c, "held")
    /\ Mark(c, "placed")
    /\ UNCHANGED <<pc, cached, redis, faults>>

\* PlaceOrder of the worker commits an order.
Place(c) ==
    /\ msg[c] = "queued"
    /\ Rows!Fits(c[1])
    /\ Rows!Write(c[1], "on-hold", -1)
    /\ Become(c, "held")
    /\ Mark(c, "placed")
    /\ UNCHANGED <<pc, cached, redis, faults>>

\* It places none: the seats are taken or locked by others, or an error occurs.
Refuse(c) ==
    /\ msg[c] = "queued"
    /\ Mark(c, "refused")
    /\ UNCHANGED <<pc, cached, order, redis, db, faults>>

\* Variant: the answer does not carry the error.
ReplyYes(c) ==
    /\ msg[c] \in {"placed", "refused"}
    /\ Mark(c, "yes")
    /\ UNCHANGED <<pc, cached, order, redis, db, faults>>

\* The worker publishes its answer and acknowledges the request.
Reply(c) ==
    /\ \/ msg[c] = "placed" /\ Mark(c, "yes")
       \/ msg[c] = "refused" /\ Mark(c, "no")
    /\ UNCHANGED <<pc, cached, order, redis, db, faults>>

\* A copy of the message that nobody has seen.
Fresh(c) == c[2] <= MaxFaults /\ msg[<<c[1], c[2] + 1>>] = "none"
Again(c) == <<c[1], c[2] + 1>>

\* The message is published twice, or delivered again because its delivery was
\* not acknowledged in time; the first delivery goes on.
Redeliver(c) ==
    /\ msg[c] \in {"queued", "placed", "refused", "yes", "no"}
    /\ Fresh(c)
    /\ Fault
    /\ Mark(Again(c), "queued")
    /\ UNCHANGED <<pc, cached, order, redis, db>>

\* The answer cannot be published: the request is acknowledged all the same, or
\* the worker has died and the request is delivered to another one.
LoseReply(c) ==
    /\ msg[c] \in {"placed", "refused"}
    /\ Fault
    /\ \/ Mark(c, "done")
       \/ Fresh(c) /\ msg' = [msg EXCEPT ![c] = "done", ![Again(c)] = "queued"]
    /\ UNCHANGED <<pc, cached, order, redis, db>>

-----------------------------------------------------------------------------
(* The webhook.                                                            *)

\* Variant: the cache is told about sales only.
FinalizeLockSold(c) ==
    /\ \/ order[c] \in {"held", "selling"}
          /\ Become(c, "selling") /\ Dropper!Write(c[1], "sold", 0)
       \/ order[c] \in {"held", "releasing"}
          /\ Become(c, "releasing") /\ UNCHANGED redis
    /\ IF order[c] = "held" THEN UNCHANGED faults ELSE Fault
    /\ UNCHANGED <<pc, cached, msg, db>>

\* The payment is settled and the cache is told so, once more for every attempt
\* of the transaction that failed after that.
FinalizeLock(c) ==
    /\ \/ order[c] \in {"held", "selling"}
          /\ Become(c, "selling") /\ Dropper!Write(c[1], "sold", 0)
       \/ order[c] \in {"held", "releasing"}
          /\ Become(c, "releasing") /\ Dropper!Write(c[1], "available", 1)
    /\ IF order[c] = "held" THEN UNCHANGED faults ELSE Fault
    /\ UNCHANGED <<pc, cached, msg, db>>

\* The transaction that follows sells the seats or releases them.
Settle(c) ==
    /\ \/ order[c] = "selling" /\ Become(c, "sold") /\ Rows!Write(c[1], "sold", 0)
       \/ order[c] = "releasing" /\ Become(c, "released") /\ Rows!Write(c[1], "available", 1)
    /\ UNCHANGED <<pc, cached, msg, redis, faults>>

Handler(r) == LookUp(r) \/ Acquire(r) \/ Publish(r) \/ GiveUp(r) \/ Store(r)
Work(c) == Place(c) \/ Refuse(c) \/ Reply(c) \/ Receive(c)
Webhook(c) == FinalizeLock(c) \/ Settle(c)

Next ==
    \/ \E r \in Requests : Handler(r) \/ Crash(r)
    \/ \E c \in Copies : Work(c) \/ Webhook(c) \/ Redeliver(c) \/ LoseReply(c)

Spec == Init /\ [][Next]_vars

\* The timeout ends every wait, messages are handled, and invoices expire.
Fairness ==
    /\ \A r \in Requests : WF_vars(Handler(r))
    /\ \A c \in Copies : WF_vars(Work(c)) /\ WF_vars(Webhook(c))

FairSpec == Spec /\ Fairness

-----------------------------------------------------------------------------
(* Properties.                                                             *)

\* The requests whose handler has the lock and will release it or report an order.
Holding == {r \in Requests : pc[r] \in {"held", "waiting"}}

\* The requests whose lock no handler has released: the server of some has died.
Locked == {r \in Requests : pc[r] \in {"held", "waiting", "leaked"}}

\* The requests that a worker is about to handle.
Queued == {r \in Requests : \E c \in Copies : c[1] = r /\ msg[c] = "queued"}

\* The server of the request died while it had the lock, and the request has no
\* order whose settlement could release it: its lock stays for good, unless the
\* broker still delivers the request again.
Stranded ==
    {r \in Requests : /\ pc[r] = "leaked"
                      /\ r \notin Queued
                      /\ \A c \in Copies : c[1] = r => order[c] = "none"}

\* A seat is lost in one way only.  When the cache turns requests for a seat away,
\* the seat is taken in the database, or a live handler has the lock, or a worker
\* is about to handle the request that took it, also when answers come late, twice
\* or never; the exception is a server that died with the lock and left no order.
NoLostSeat ==
    \A s \in Seats :
        \/ seatKey[s] = "available"
        \/ dbSeat[s] # "available"
        \/ \E r \in Holding \cup (Locked \cap Queued) \cup Stranded : s \in Ids[r]

\* No place is lost but to a server that died with a lock: the counter of the cache
\* and the locks nobody has released, a dead server's among them, account for
\* every place that the database has.
NoLostPlace ==
    \A a \in Areas :
        dbFree[a] <= freeKey[a] + MapThenSumSet(LAMBDA r : Count[r][a], Locked)

\* A seat belongs to one order, whatever the cache says and however often a
\* request is delivered.
NoDoubleOrder ==
    \A c, d \in Copies :
        /\ order[c] \notin {"none", "released"}
        /\ order[d] \notin {"none", "released"}
        /\ Ids[c[1]] \cap Ids[d[1]] # {}
        => c = d

\* The copies of messages that were sent with key k.
Sent(k) == {c \in Copies : Key[c[1]] = k /\ msg[c] # "none"}

\* The answer to a client is true, whatever times out, is delivered again or lost.
\* A success stands for an order of its key.  A refusal stands for a request that
\* was not sent, or for a copy with its key that a worker has handled without an
\* order; where no other copy was sent with the key, no order was placed for it.
AnswersTrue ==
    \A r \in Requests :
        /\ pc[r] \in {"store", "ok", "cached"} =>
              \E c \in Copies : Key[c[1]] = Key[r] /\ order[c] # "none"
        /\ pc[r] = "failed" =>
              \/ <<r, 1>> \notin Sent(Key[r])
              \/ \E c \in Sent(Key[r]) : msg[c] = "done" /\ order[c] = "none"
        /\ pc[r] = "failed" /\ Sent(Key[r]) \subseteq {<<r, 1>>} =>
              \A c \in Copies : Key[c[1]] = Key[r] => order[c] = "none"

\* Nobody has given up waiting and nothing has failed.
Calm == faults = 0 /\ \A r \in Requests : pc[r] # "timeout"

\* Everything has ended: what the server answered is final, no message is under
\* way and every order is sold or released.
Quiet ==
    /\ \A r \in Requests : pc[r] \notin {"miss", "held", "waiting", "store"}
    /\ \A c \in Copies : /\ msg[c] \in {"none", "done"}
                         /\ order[c] \in {"none", "sold", "released"}

\* When everything has ended, the cache says what the database says, unless
\* somebody has given up waiting or something has failed.
CacheAgrees == Quiet /\ Calm => seatKey = dbSeat /\ freeKey = dbFree

\* Everything ends: no handler waits for ever, and no order stays on hold, also
\* when answers and workers are lost.
EverythingEnds == <>[]Quiet

\* Repeating a request that timed out, with its idempotency key, makes no new order.
OneOrderPerKey ==
    \A c, d \in Copies :
        Key[c[1]] = Key[d[1]] /\ order[c] # "none" /\ order[d] # "none" => c = d
=============================================================================
