---------------------------- MODULE ReplyRouting ----------------------------
(***************************************************************************)
(* How the answer of a worker finds the request that waits for it, inside  *)
(* one server process.  A request makes a channel with room for one reply, *)
(* lists it under its idempotency key, publishes its message and waits;    *)
(* when it is done it deletes the key and closes the channel.  Every reply *)
(* that is delivered gets a goroutine of its own, which looks the channel  *)
(* up and sends to it later.  Sending to a channel that is closed by then  *)
(* panics, and nothing recovers that goroutine: the process dies and is    *)
(* started again.                                                          *)
(***************************************************************************)
EXTENDS Naturals

CONSTANTS
    Requests,    \* requests that reach the server
    Keys,        \* idempotency keys
    MaxFaults,   \* messages or replies that are delivered twice
    None         \* no channel, no reply

ASSUME RoutingAssumption ==
    /\ MaxFaults \in Nat
    /\ None \notin Requests

\* The replies to the message of a request: a message or a reply that is
\* delivered once more makes another one.
Replies == Requests \X (1 .. MaxFaults + 1)

ASSUME ReplyAssumption == None \notin Replies

VARIABLES
    key,         \* the key a request comes with; several may use one at a time
    pc,          \* where the handler of a request is
    result,      \* what it returns
    saved,       \* keys with a stored result
    listener,    \* ListenerChan: the request whose channel is listed under a key
    buffer,      \* the reply in the channel of a request
    reply,       \* where a reply is: with the worker, in the queue, in its goroutine
    says,        \* what the worker says in it
    target,      \* the channel its goroutine has loaded
    panicked,    \* the server has died of a panic
    faults       \* faults so far

handlerVars == <<key, pc, result, saved>>
replyVars == <<reply, says, target>>
vars == <<handlerVars, listener, buffer, replyVars, panicked, faults>>

TypeOK ==
    /\ key \in [Requests -> Keys]
    /\ pc \in [Requests -> {"idle", "miss", "listed", "published", "waiting", "leaving",
                            "closing", "saving", "done"}]
    /\ result \in [Requests -> {"none", "saved", "refused", "unpublished", "yes", "no",
                                "timeout", "dead"}]
    /\ saved \subseteq Keys
    /\ listener \in [Keys -> Requests \cup {None}]
    /\ buffer \in [Requests -> Replies \cup {None}]
    /\ reply \in [Replies -> {"none", "asked", "queued", "sending", "sent", "acked"}]
    /\ says \in [Replies -> {"none", "yes", "no"}]
    /\ target \in [Replies -> Requests \cup {None}]
    /\ panicked \in BOOLEAN
    /\ faults \in 0 .. MaxFaults

Init ==
    /\ key \in [Requests -> Keys]
    /\ pc = [r \in Requests |-> "idle"]
    /\ result = [r \in Requests |-> "none"]
    /\ saved = {}
    /\ listener = [k \in Keys |-> None]
    /\ buffer = [r \in Requests |-> None]
    /\ reply = [d \in Replies |-> "none"]
    /\ says = [d \in Replies |-> "none"]
    /\ target = [d \in Replies |-> None]
    /\ panicked = FALSE
    /\ faults = 0

Goto(r, next) == pc' = [pc EXCEPT ![r] = next]
Return(r, value) == result' = [result EXCEPT ![r] = value]

-----------------------------------------------------------------------------
(* The handler of a request.                                               *)

\* WrapIdempotency: a stored result is the answer; an error of Redis is a 500.
LookUp(r) ==
    /\ pc[r] = "idle"
    /\ \/ key[r] \notin saved /\ Goto(r, "miss") /\ UNCHANGED result
       \/ key[r] \in saved /\ Goto(r, "done") /\ Return(r, "saved")
       \/ Goto(r, "done") /\ Return(r, "refused")
    /\ UNCHANGED <<key, saved, listener, buffer, replyVars, panicked, faults>>

\* The early dropper refuses the request, or its channel is made and listed:
\* the channel of another request with this key is not listed any more.
Listen(r) ==
    /\ pc[r] = "miss"
    /\ \/ Goto(r, "done") /\ Return(r, "refused") /\ UNCHANGED listener
       \/ Goto(r, "listed") /\ UNCHANGED result
          /\ listener' = [listener EXCEPT ![key[r]] = r]
    /\ UNCHANGED <<key, saved, buffer, replyVars, panicked, faults>>

\* The message is on its way before Push returns, or Push refuses it.
Publish(r) ==
    /\ pc[r] = "listed"
    /\ \/ Goto(r, "published") /\ reply' = [reply EXCEPT ![<<r, 1>>] = "asked"]
          /\ UNCHANGED result
       \/ Goto(r, "leaving") /\ Return(r, "unpublished") /\ UNCHANGED reply
    /\ UNCHANGED <<key, saved, listener, buffer, says, target, panicked, faults>>

\* Push has its confirmation; the handler waits.
Wait(r) ==
    /\ pc[r] = "published"
    /\ Goto(r, "waiting")
    /\ UNCHANGED <<key, result, saved, listener, buffer, replyVars, panicked, faults>>

\* The reply in the channel is the answer; the lock is kept or released.
Take(r) ==
    /\ pc[r] = "waiting"
    /\ buffer[r] # None
    /\ Goto(r, "leaving")
    /\ Return(r, says[buffer[r]])
    /\ buffer' = [buffer EXCEPT ![r] = None]
    /\ UNCHANGED <<key, saved, listener, replyVars, panicked, faults>>

\* Variant: nobody gives up on a request that a worker has answered.
GiveUpUnanswered(r) ==
    /\ pc[r] = "waiting"
    /\ reply[<<r, 1>>] = "asked"
    /\ Goto(r, "leaving")
    /\ Return(r, "timeout")
    /\ UNCHANGED <<key, saved, listener, buffer, replyVars, panicked, faults>>

\* 132 s are over or the client is gone; select may choose this with a reply
\* in the channel.
GiveUp(r) ==
    /\ pc[r] = "waiting"
    /\ Goto(r, "leaving")
    /\ Return(r, "timeout")
    /\ UNCHANGED <<key, saved, listener, buffer, replyVars, panicked, faults>>

\* Variant: the deferred Delete is missing.
DeleteNothing(r) ==
    /\ pc[r] = "leaving"
    /\ Goto(r, "closing")
    /\ UNCHANGED <<key, result, saved, listener, buffer, replyVars, panicked, faults>>

\* The deferred Delete: whoever is listed under the key.
Delete(r) ==
    /\ pc[r] = "leaving"
    /\ Goto(r, "closing")
    /\ listener' = [listener EXCEPT ![key[r]] = None]
    /\ UNCHANGED <<key, result, saved, buffer, replyVars, panicked, faults>>

\* The deferred close; nobody reads what is left in the channel.
Close(r) ==
    /\ pc[r] = "closing"
    /\ IF result[r] = "yes" THEN Goto(r, "saving") ELSE Goto(r, "done")
    /\ buffer' = [buffer EXCEPT ![r] = None]
    /\ UNCHANGED <<key, result, saved, listener, replyVars, panicked, faults>>

\* Variant: the result is stored under the id of the request.
SaveElsewhere(r) ==
    /\ pc[r] = "saving"
    /\ Goto(r, "done")
    /\ saved' = saved \cup {r} \/ UNCHANGED saved
    /\ UNCHANGED <<key, result, listener, buffer, replyVars, panicked, faults>>

\* WrapIdempotency stores a success; an error of Redis is only logged.
Save(r) ==
    /\ pc[r] = "saving"
    /\ Goto(r, "done")
    /\ saved' = saved \cup {key[r]} \/ UNCHANGED saved
    /\ UNCHANGED <<key, result, listener, buffer, replyVars, panicked, faults>>

-----------------------------------------------------------------------------
(* The worker and the goroutine of a reply.                                *)

Become(d, next) == reply' = [reply EXCEPT ![d] = next]

\* A worker has placed the order or refused it, and publishes its reply.  It may
\* take for ever, die, or fail to publish the reply.
Answer(d) ==
    /\ reply[d] = "asked"
    /\ Become(d, "queued")
    /\ \E value \in {"yes", "no"} : says' = [says EXCEPT ![d] = value]
    /\ UNCHANGED <<handlerVars, listener, buffer, target, panicked, faults>>

\* Variant: LoadAndDelete, so that a second reply finds nobody.
LoadAndDelete(d) ==
    LET to == listener[key[d[1]]] IN
    /\ reply[d] = "queued"
    /\ \/ /\ to = None
          /\ Become(d, "acked")
          /\ UNCHANGED <<target, listener>>
       \/ /\ to # None
          /\ Become(d, "sending")
          /\ target' = [target EXCEPT ![d] = to]
          /\ listener' = [listener EXCEPT ![key[d[1]]] = None]
    /\ UNCHANGED <<handlerVars, buffer, says, panicked, faults>>

\* The reply is delivered.  Its goroutine loads the channel listed under the
\* key, or acknowledges the reply of a request that does not listen any more.
Load(d) ==
    LET to == listener[key[d[1]]] IN
    /\ reply[d] = "queued"
    /\ \/ /\ to = None
          /\ Become(d, "acked")
          /\ UNCHANGED target
       \/ /\ to # None
          /\ Become(d, "sending")
          /\ target' = [target EXCEPT ![d] = to]
    /\ UNCHANGED <<handlerVars, listener, buffer, says, panicked, faults>>

\* The channel of r is there and not closed.
Open(r) == pc[r] \in {"listed", "published", "waiting", "leaving", "closing"}

\* ch <- payload waits for room in the channel.
Send(d) ==
    /\ reply[d] = "sending"
    /\ Open(target[d])
    /\ buffer[target[d]] = None
    /\ buffer' = [buffer EXCEPT ![target[d]] = d]
    /\ Become(d, "sent")
    /\ UNCHANGED <<handlerVars, listener, says, target, panicked, faults>>

\* Variant: a reply that cannot be acknowledged is sent to the channel again.
AckOrSend(d) ==
    /\ reply[d] = "sent"
    /\ Become(d, "acked") \/ Become(d, "sending")
    /\ UNCHANGED <<handlerVars, listener, buffer, says, target, panicked, faults>>

Ack(d) ==
    /\ reply[d] = "sent"
    /\ Become(d, "acked")
    /\ UNCHANGED <<handlerVars, listener, buffer, says, target, panicked, faults>>

\* The channel was closed before the send, or while it waited: the process dies
\* with every request in it.  Its successor starts with no listener and gets the
\* replies that were not acknowledged.
Panic(d) ==
    LET died == {r \in Requests : pc[r] \notin {"idle", "done"}} IN
    /\ reply[d] = "sending"
    /\ ~Open(target[d])
    /\ pc' = [r \in Requests |-> IF r \in died THEN "done" ELSE pc[r]]
    /\ result' = [r \in Requests |-> IF r \in died THEN "dead" ELSE result[r]]
    /\ listener' = [k \in Keys |-> None]
    /\ buffer' = [r \in Requests |-> None]
    /\ reply' = [e \in Replies |-> IF reply[e] \in {"sending", "sent"} THEN "queued"
                                   ELSE reply[e]]
    /\ target' = [e \in Replies |-> None]
    /\ panicked' = TRUE
    /\ UNCHANGED <<key, saved, says, faults>>

\* The next reply to the same request, not used yet.
Again(d) == <<d[1], d[2] + 1>>
Fault(d) ==
    /\ faults < MaxFaults
    /\ d[2] <= MaxFaults
    /\ reply[Again(d)] = "none"
    /\ faults' = faults + 1

\* The message of the request is published twice, or delivered again.
AskAgain(d) ==
    /\ reply[d] # "none"
    /\ Fault(d)
    /\ Become(Again(d), "asked")
    /\ UNCHANGED <<handlerVars, listener, buffer, says, target, panicked>>

\* The connection is lost before the reply is acknowledged: it is queued again,
\* and the goroutine that has it goes on.
Requeue(d) ==
    /\ reply[d] \in {"sending", "sent"}
    /\ Fault(d)
    /\ Become(Again(d), "queued")
    /\ says' = [says EXCEPT ![Again(d)] = says[d]]
    /\ UNCHANGED <<handlerVars, listener, buffer, target, panicked>>

Handler(r) ==
    \/ LookUp(r) \/ Listen(r) \/ Publish(r) \/ Wait(r) \/ Take(r) \/ GiveUp(r)
    \/ Delete(r) \/ Close(r) \/ Save(r)

Goroutine(d) == Load(d) \/ Send(d) \/ Ack(d) \/ Panic(d)

\* Every request has ended and every reply that was published is acknowledged.
Quiet ==
    /\ \A r \in Requests : pc[r] = "done"
    /\ \A d \in Replies : reply[d] \in {"none", "asked", "acked"}

Finished == Quiet /\ UNCHANGED vars

Next ==
    \/ \E r \in Requests : Handler(r)
    \/ \E d \in Replies : Answer(d) \/ Goroutine(d) \/ AskAgain(d) \/ Requeue(d)
    \/ Finished

Spec == Init /\ [][Next]_vars

\* Handlers and goroutines go on and time.After ends every wait; a worker may
\* never answer.
Fairness ==
    /\ \A r \in Requests : WF_vars(Handler(r))
    /\ \A d \in Replies : WF_vars(Goroutine(d))

FairSpec == Spec /\ Fairness

-----------------------------------------------------------------------------
(* Properties.                                                             *)

\* A listed channel is open, and listed under the key of its request, although a
\* handler deletes the key without looking whose channel is listed: a goroutine
\* can meet a closed channel only when it has loaded it before.
ListenerOpen ==
    \A k \in Keys : listener[k] # None =>
        key[listener[k]] = k /\ pc[listener[k]] \in {"listed", "published", "waiting", "leaving"}

\* The server dies of a reply only when the one it goes to has left without a reply or
\* another reply was there for the key: a request that is answered once takes its
\* reply, and nobody sends after that.
PanicIsLate ==
    \A d \in Replies :
        reply[d] = "sending" /\ ~Open(target[d]) =>
            \/ result[target[d]] \in {"timeout", "unpublished"}
            \/ \E e \in Replies :
                  e # d /\ key[e[1]] = key[d[1]] /\ reply[e] \in {"sent", "acked"}

\* Nobody else uses the key of r.
OwnKey(r) == \A q \in Requests : key[q] = key[r] => q = r

\* A reply is not lost while its request waits for it: when it has been handled,
\* it is in the channel, however early it came.
NoLostReply ==
    \A d \in Replies :
        /\ OwnKey(d[1])
        /\ pc[d[1]] \in {"published", "waiting"}
        /\ reply[d] \in {"sent", "acked"}
        => buffer[d[1]] # None

\* No goroutine and no handler waits for ever: a send that finds no room is ended
\* by the handler that takes the reply in the channel or closes it.
EverythingEnds == <>[]Quiet

\* A reply that comes too late is only acknowledged, as the comment on that
\* branch of the reply consumer says.
LateReplyIsHarmless == ~panicked
=============================================================================
