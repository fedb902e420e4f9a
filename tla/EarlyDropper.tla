---------------------------- MODULE EarlyDropper ----------------------------
(***************************************************************************)
(* The early dropper: a cache of seat states in Redis that turns away      *)
(* requests which cannot succeed.  TryAcquireLock is an optimistic         *)
(* transaction: WATCH the keys, read them, and EXEC the writes, which      *)
(* Redis refuses when a watched key was written since the WATCH.  A client *)
(* is one request that goes through TryAcquireLock, its releaser and, when *)
(* an order was placed, FinalizeLock of the webhook.                       *)
(***************************************************************************)
EXTENDS Integers, FiniteSetsExt

CONSTANTS
    Clients,     \* requests
    Seats,       \* numbered seats
    Areas,       \* ticket areas
    Missing,     \* the areas that have no free-standing counter
    Stock,       \* the counter of an area when the requests come
    Ids,         \* Ids[c]: the seats request c names
    Count,       \* Count[c][a]: how many of its items name area a and no seat
    AreaOf,      \* AreaOf[c]: payload.TicketAreaID, the hash tag of its seat keys
    MaxRetries,  \* attempts of the optimistic transaction
    MaxFaults    \* how many replies to EXEC are lost

ASSUME DropperAssumption ==
    /\ Ids \in [Clients -> SUBSET Seats]
    /\ Count \in [Clients -> [Areas -> Nat]]
    /\ AreaOf \in [Clients -> Areas]
    /\ Stock \in [Areas -> Nat]
    /\ IsFiniteSet(Clients)
    /\ Seats \cap Areas = {}
    /\ MaxRetries \in Nat \ {0}
    /\ MaxFaults \in Nat

VARIABLES
    seatKey,   \* status:numbered of a seat, "nil" when the seat has no such key
    freeKey,   \* status:free-standing of an area
    pc,        \* where request c is, or how it ended
    short,     \* the reply to MGET shows a seat that is not available
    dirty,     \* a key watched by c was written since its WATCH
    tries,     \* attempts so far
    faults     \* replies lost so far

vars == <<seatKey, freeKey, pc, short, dirty, tries, faults>>

Trying == {"watch", "seats", "areas", "exec"}

TypeOK ==
    /\ seatKey \in [Seats -> {"available", "on-hold", "sold", "nil"}]
    /\ freeKey \in [Areas -> Int]
    /\ pc \in [Clients -> Trying \cup {"held", "placed", "leaked", "refused", "busy",
                                       "failed", "returned", "sold"}]
    /\ short \in [Clients -> BOOLEAN]
    /\ dirty \in [Clients -> BOOLEAN]
    /\ tries \in [Clients -> 1 .. MaxRetries]
    /\ faults \in 0 .. MaxFaults

\* refreshData has filled the keys from the rows before the requests come.
Init ==
    /\ seatKey \in [Seats -> {"available", "sold", "nil"}]
    /\ freeKey = Stock
    /\ pc = [c \in Clients |-> "watch"]
    /\ short = [c \in Clients |-> FALSE]
    /\ dirty = [c \in Clients |-> FALSE]
    /\ tries = [c \in Clients |-> 1]
    /\ faults = 0

-----------------------------------------------------------------------------
Counted(c) == {a \in Areas : Count[c][a] > 0}

\* The keys request c watches.
Keys(c) == Ids[c] \cup Counted(c)

\* A cluster client watches keys of one hash slot only, and the area of a key
\* is its hash tag.
Slots(c) == Counted(c) \cup {a \in Areas : Ids[c] # {} /\ a = AreaOf[c]}
OneSlot(c) == \A a, b \in Slots(c) : a = b

Goto(c, next) == pc' = [pc EXCEPT ![c] = next]

\* WATCH: from here on a write to one of the keys fails the transaction.
Watch(c) ==
    /\ pc[c] = "watch"
    /\ IF OneSlot(c) THEN Goto(c, "seats") ELSE Goto(c, "failed")
    /\ dirty' = [dirty EXCEPT ![c] = FALSE]
    /\ UNCHANGED <<seatKey, freeKey, short, tries, faults>>

\* MGET of the seats: one that is not available decides the request already.
ReadSeats(c) ==
    /\ pc[c] = "seats"
    /\ short' = [short EXCEPT ![c] = \E s \in Ids[c] : seatKey[s] # "available"]
    /\ Goto(c, "areas")
    /\ UNCHANGED <<seatKey, freeKey, dirty, tries, faults>>

\* GET of the counter, then the two replies are looked at, the seats first.
ReadArea(c) ==
    /\ pc[c] = "areas"
    /\ \/ short[c] /\ Goto(c, "refused")
       \/ ~short[c] /\ Counted(c) \cap Missing # {} /\ Goto(c, "failed")
       \/ /\ ~short[c] /\ Counted(c) \cap Missing = {}
          /\ IF \A a \in Counted(c) : Count[c][a] <= freeKey[a]
             THEN Goto(c, "exec")
             ELSE Goto(c, "refused")
    /\ short' = [short EXCEPT ![c] = FALSE]
    /\ UNCHANGED <<seatKey, freeKey, dirty, tries, faults>>

\* A transaction sets the seats of c to st and adds d times its counts; whoever
\* watches one of the keys it writes is dirty.
Write(c, st, d) ==
    LET written == Ids[c] \cup (IF d = 0 THEN {} ELSE Counted(c)) IN
    /\ seatKey' = [s \in Seats |-> IF s \in Ids[c] THEN st ELSE seatKey[s]]
    /\ freeKey' = [a \in Areas |-> freeKey[a] + d * Count[c][a]]
    /\ dirty' = [e \in Clients |-> dirty[e] \/ Keys(e) \cap written # {}]

\* Variant: the writes are sent without the protection of WATCH.
ExecBlind(c) ==
    /\ pc[c] = "exec"
    /\ Write(c, "on-hold", -1)
    /\ Goto(c, "held")
    /\ UNCHANGED <<short, tries, faults>>

\* Variant: a conflict is reported although attempts are left.
ExecImpatient(c) ==
    /\ pc[c] = "exec"
    /\ \/ /\ ~dirty[c]
          /\ Write(c, "on-hold", -1)
          /\ Goto(c, "held")
          /\ UNCHANGED <<short, tries, faults>>
       \/ /\ dirty[c]
          /\ Goto(c, "busy")
          /\ UNCHANGED <<seatKey, freeKey, dirty, short, tries, faults>>

\* Variant: the loop runs once too often.
ExecOnceMore(c) ==
    /\ pc[c] = "exec"
    /\ \/ /\ ~dirty[c]
          /\ Write(c, "on-hold", -1)
          /\ Goto(c, "held")
          /\ UNCHANGED <<short, tries, faults>>
       \/ /\ dirty[c]
          /\ tries[c] <= MaxRetries
          /\ tries' = [tries EXCEPT ![c] = @ + 1]
          /\ Goto(c, "watch")
          /\ UNCHANGED <<seatKey, freeKey, dirty, short, faults>>

\* EXEC: the keys are taken, or the transaction is started again, five times.
Exec(c) ==
    /\ pc[c] = "exec"
    /\ \/ /\ ~dirty[c]
          /\ Write(c, "on-hold", -1)
          /\ Goto(c, "held")
          /\ UNCHANGED <<short, tries, faults>>
       \/ /\ dirty[c]
          /\ tries[c] < MaxRetries
          /\ tries' = [tries EXCEPT ![c] = @ + 1]
          /\ Goto(c, "watch")
          /\ UNCHANGED <<seatKey, freeKey, dirty, short, faults>>
       \/ /\ dirty[c]
          /\ tries[c] = MaxRetries
          /\ Goto(c, "busy")
          /\ UNCHANGED <<seatKey, freeKey, dirty, short, tries, faults>>

\* Redis runs the transaction but its reply does not arrive: TryAcquireLock
\* returns the error and no releaser, and the keys stay taken.
ExecLost(c) ==
    /\ pc[c] = "exec"
    /\ ~dirty[c]
    /\ faults < MaxFaults
    /\ faults' = faults + 1
    /\ Write(c, "on-hold", -1)
    /\ Goto(c, "leaked")
    /\ UNCHANGED <<short, tries>>

\* An order was placed: nothing is written until its payment is settled.
OnSuccess(c) ==
    /\ pc[c] = "held"
    /\ Goto(c, "placed")
    /\ UNCHANGED <<seatKey, freeKey, short, dirty, tries, faults>>

\* Variant: only the seats are put back.
OnFailedSeatsOnly(c) ==
    /\ pc[c] = "held"
    /\ Write(c, "available", 0)
    /\ Goto(c, "returned")
    /\ UNCHANGED <<short, tries, faults>>

\* No order was placed: seats and counters are put back in one transaction.
OnFailed(c) ==
    /\ pc[c] = "held"
    /\ Write(c, "available", 1)
    /\ Goto(c, "returned")
    /\ UNCHANGED <<short, tries, faults>>

\* The webhook settles the order: a sale touches the numbered seats only.
FinalizeLock(c) ==
    /\ pc[c] = "placed"
    /\ \/ Write(c, "sold", 0) /\ Goto(c, "sold")
       \/ Write(c, "available", 1) /\ Goto(c, "returned")
    /\ UNCHANGED <<short, tries, faults>>

TryAcquireLock(c) == Watch(c) \/ ReadSeats(c) \/ ReadArea(c) \/ Exec(c) \/ ExecLost(c)

Next ==
    \E c \in Clients : TryAcquireLock(c) \/ OnSuccess(c) \/ OnFailed(c) \/ FinalizeLock(c)

Spec == Init /\ [][Next]_vars

-----------------------------------------------------------------------------
(* Properties.                                                             *)

\* The requests that have taken their keys and not given them back.
Owners == {c \in Clients : pc[c] \in {"held", "placed", "leaked", "sold"}}

CacheLock ==
    [c \in Clients |->
        CASE pc[c] \in Trying -> IF short[c] THEN "refused" ELSE "none"
          [] pc[c] \in {"held", "placed", "leaked"} -> "held"
          [] pc[c] \in {"busy", "failed"} -> "failed"
          [] OTHER -> pc[c]]

Cache == INSTANCE SeatCache WITH lock <- CacheLock

\* The rounds of WATCH, reads and EXEC amount to one step that takes all keys or
\* none: a request that is refused was refused rightly when it read the keys,
\* and one that succeeds found them all free when its transaction ran.
ImplementsCache == Cache!Spec

\* A seat is taken by one request at most, and its key says so: the optimistic
\* transactions of two requests for one seat do not both succeed.
KeysAgree ==
    \A s \in Seats :
        /\ \A c, d \in Owners : s \in Ids[c] \cap Ids[d] => c = d
        /\ seatKey[s] = "on-hold" <=> \E c \in Owners : s \in Ids[c] /\ pc[c] # "sold"

\* No counter goes below zero, whatever the requests that read it at one time
\* do, and it misses exactly the places of the requests that have taken some.
CountersAgree ==
    \A a \in Areas :
        /\ freeKey[a] >= 0
        /\ freeKey[a] + MapThenSumSet(LAMBDA c : Count[c][a], Owners) = Stock[a]

\* TryAcquireLock gives up with CannotAcquireLock only when other requests have
\* written its keys once in every attempt: it never fails for a quiet cache.
BusyNeedsWriters ==
    \A c \in Clients : pc[c] = "busy" =>
        LET near == {d \in Clients \ {c} : Keys(d) \cap Keys(c) # {}} IN
        MaxRetries <= Cardinality({d \in near : pc[d] \in {"held", "placed", "leaked"}})
                      + 2 * Cardinality({d \in near : pc[d] \in {"returned", "sold"}})
=============================================================================
