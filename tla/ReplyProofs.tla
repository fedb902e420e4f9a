---------------------------- MODULE ReplyProofs ----------------------------
(***************************************************************************)
(* Proofs about ReplyRouting, for any number of requests, keys and faults. *)
(***************************************************************************)
EXTENDS ReplyRouting, TLAPS

LEMMA ReplyType ==
    /\ \A d \in Replies : d[1] \in Requests /\ d[2] \in 1 .. MaxFaults + 1
    /\ \A r \in Requests : <<r, 1>> \in Replies /\ <<r, 1>>[1] = r
    /\ \A d \in Replies : d[2] <= MaxFaults => Again(d) \in Replies
    /\ \A d \in Replies : Again(d)[1] = d[1]
  BY RoutingAssumption DEF Replies, Again

LEMMA FaultType ==
    ASSUME TypeOK, NEW d \in Replies, Fault(d)
    PROVE  /\ faults' \in 0 .. MaxFaults
           /\ Again(d) \in Replies
           /\ reply[Again(d)] = "none"
  BY RoutingAssumption, ReplyType DEF TypeOK, Fault

LEMMA TypeInit == Init => TypeOK
  <1> SUFFICES ASSUME Init PROVE TypeOK
    OBVIOUS
  <1>1. /\ buffer \in [Requests -> Replies \cup {None}]
        /\ listener \in [Keys -> Requests \cup {None}]
        /\ target \in [Replies -> Requests \cup {None}]
    BY DEF Init
  <1>2. pc \in [Requests -> {"idle", "miss", "listed", "published", "waiting", "leaving",
                             "closing", "saving", "done"}]
    BY DEF Init
  <1>3. result \in [Requests -> {"none", "saved", "refused", "unpublished", "yes", "no",
                                 "timeout", "dead"}]
    BY DEF Init
  <1>4. /\ reply \in [Replies -> {"none", "asked", "queued", "sending", "sent", "acked"}]
        /\ says \in [Replies -> {"none", "yes", "no"}]
    BY DEF Init
  <1>5. key \in [Requests -> Keys] /\ saved \subseteq Keys /\ panicked \in BOOLEAN
    BY DEF Init
  <1>6. faults \in 0 .. MaxFaults
    BY RoutingAssumption DEF Init
  <1> QED
    BY <1>1, <1>2, <1>3, <1>4, <1>5, <1>6 DEF TypeOK

LEMMA TypeNext == TypeOK /\ [Next]_vars => TypeOK'
  <1> SUFFICES ASSUME TypeOK, [Next]_vars PROVE TypeOK'
    OBVIOUS
  <1> USE DEF Goto, Return, Become, handlerVars, replyVars
  <1>1. ASSUME NEW r \in Requests, LookUp(r) PROVE TypeOK'
    BY <1>1 DEF TypeOK, LookUp
  <1>2. ASSUME NEW r \in Requests, Listen(r) PROVE TypeOK'
    BY <1>2 DEF TypeOK, Listen
  <1>3. ASSUME NEW r \in Requests, Publish(r) PROVE TypeOK'
    BY SMTT(60), <1>3, ReplyType DEF TypeOK, Publish
  <1>4. ASSUME NEW r \in Requests, Wait(r) PROVE TypeOK'
    BY <1>4 DEF TypeOK, Wait
  <1>5. ASSUME NEW r \in Requests, Take(r) PROVE TypeOK'
    BY <1>5 DEF TypeOK, Take
  <1>6. ASSUME NEW r \in Requests, GiveUp(r) PROVE TypeOK'
    BY <1>6 DEF TypeOK, GiveUp
  <1>7. ASSUME NEW r \in Requests, Delete(r) PROVE TypeOK'
    BY <1>7 DEF TypeOK, Delete
  <1>8. ASSUME NEW r \in Requests, Close(r) PROVE TypeOK'
    BY <1>8 DEF TypeOK, Close
  <1>9. ASSUME NEW r \in Requests, Save(r) PROVE TypeOK'
    BY <1>9 DEF TypeOK, Save
  <1>10. ASSUME NEW d \in Replies, Answer(d) PROVE TypeOK'
    BY <1>10 DEF TypeOK, Answer
  <1>11. ASSUME NEW d \in Replies, Load(d) PROVE TypeOK'
    <2>1. listener[key[d[1]]] \in Requests \cup {None}
      BY ReplyType DEF TypeOK
    <2>2. reply' \in [Replies -> {"none", "asked", "queued", "sending", "sent", "acked"}]
      BY <1>11 DEF TypeOK, Load
    <2>3. target' \in [Replies -> Requests \cup {None}]
      BY <1>11, <2>1 DEF TypeOK, Load
    <2>4. UNCHANGED <<pc, result, key, saved, listener, buffer, says, panicked, faults>>
      BY <1>11 DEF Load
    <2> QED
      BY <2>2, <2>3, <2>4 DEF TypeOK
  <1>12. ASSUME NEW d \in Replies, Send(d) PROVE TypeOK'
    BY <1>12 DEF TypeOK, Send
  <1>13. ASSUME NEW d \in Replies, Ack(d) PROVE TypeOK'
    BY <1>13 DEF TypeOK, Ack
  <1>14. ASSUME NEW d \in Replies, Panic(d) PROVE TypeOK'
    BY <1>14 DEF TypeOK, Panic
  <1>15. ASSUME NEW d \in Replies, AskAgain(d) PROVE TypeOK'
    <2>1. faults' \in 0 .. MaxFaults /\ Again(d) \in Replies
      BY <1>15, FaultType DEF AskAgain
    <2> QED
      BY <1>15, <2>1 DEF TypeOK, AskAgain
  <1>16. ASSUME NEW d \in Replies, Requeue(d) PROVE TypeOK'
    <2>1. faults' \in 0 .. MaxFaults /\ Again(d) \in Replies
      BY <1>16, FaultType DEF Requeue
    <2> QED
      BY <1>16, <2>1 DEF TypeOK, Requeue
  <1>17. CASE UNCHANGED vars
    BY <1>17 DEF TypeOK, vars
  <1> QED
    BY <1>1, <1>2, <1>3, <1>4, <1>5, <1>6, <1>7, <1>8, <1>9, <1>10, <1>11, <1>12, <1>13,
       <1>14, <1>15, <1>16, <1>17 DEF Next, Handler, Goroutine, Finished

\* Every variable keeps its type, through faults and panics.
THEOREM ReplyTypeCorrect == Spec => []TypeOK
  BY TypeInit, TypeNext, PTL DEF Spec

-----------------------------------------------------------------------------
(* The inductive invariant.                                                *)

\* A request has a result as soon as it leaves.
ResultInv ==
    \A r \in Requests :
        /\ pc[r] \in {"idle", "miss", "listed", "published", "waiting"} => result[r] = "none"
        /\ pc[r] \in {"leaving", "closing"} =>
              result[r] \in {"yes", "no", "timeout", "unpublished"}
        /\ pc[r] = "saving" => result[r] = "yes"

\* Before its message is published a request has no replies; a published reply
\* says something.
ReplyInv ==
    \A d \in Replies :
        /\ pc[d[1]] \in {"idle", "miss", "listed"} => reply[d] = "none"
        /\ reply[d] \in {"queued", "sending", "sent", "acked"} => says[d] \in {"yes", "no"}

\* The channel of a request with a key of its own is listed until it leaves.
ListedInv ==
    \A r \in Requests :
        OwnKey(r) /\ pc[r] \in {"listed", "published", "waiting"} => listener[key[r]] = r

\* A goroutine has the channel of a request with its key that has listened.
TargetInv ==
    \A d \in Replies : reply[d] = "sending" =>
        /\ target[d] \in Requests
        /\ key[target[d]] = key[d[1]]
        /\ Open(target[d]) \/ result[target[d]] \in {"yes", "no", "timeout", "unpublished"}

\* A reply with the key of r has been sent to a channel or acknowledged.
Handled(r) == \E e \in Replies : key[e[1]] = key[r] /\ reply[e] \in {"sent", "acked"}

\* A reply in a channel has the key of its request and has been sent.
BufferInv ==
    \A r \in Requests : buffer[r] # None =>
        /\ buffer[r] \in Replies
        /\ key[buffer[r][1]] = key[r]
        /\ reply[buffer[r]] \in {"sent", "acked"}

\* A request that has taken its answer has taken it from a reply, as long as
\* anybody can still send to it.
TakenInv ==
    \A r \in Requests :
        /\ result[r] \in {"yes", "no"}
        /\ \/ pc[r] \in {"leaving", "closing"}
           \/ \E d \in Replies : reply[d] = "sending" /\ target[d] = r
        => Handled(r)

IInv ==
    /\ ListenerOpen
    /\ NoLostReply
    /\ ResultInv
    /\ ReplyInv
    /\ ListedInv
    /\ TargetInv
    /\ BufferInv
    /\ TakenInv

LEMMA IInvInit == Init => IInv
  <1> SUFFICES ASSUME Init PROVE IInv
    OBVIOUS
  <1>1. /\ \A r \in Requests : pc[r] = "idle" /\ result[r] = "none" /\ buffer[r] = None
        /\ \A k \in Keys : listener[k] = None
        /\ \A d \in Replies : reply[d] = "none"
    BY DEF Init
  <1> QED
    BY <1>1, ReplyType DEF IInv, ListenerOpen, NoLostReply, ResultInv, ReplyInv, ListedInv,
       TargetInv, BufferInv, TakenInv

-----------------------------------------------------------------------------
(* Every action keeps the invariant: one lemma per action, one step per     *)
(* conjunct that the action can disturb.                                   *)

LEMMA LookUpKeeps ==
    ASSUME TypeOK, IInv, NEW r \in Requests, LookUp(r)
    PROVE  IInv'
  <1>1. BufferInv'
    BY DEF IInv, LookUp, handlerVars, replyVars, BufferInv
  <1>2. ListenerOpen'
    BY DEF IInv, TypeOK, LookUp, Goto, ListenerOpen
  <1>3. NoLostReply'
    BY ReplyType DEF IInv, TypeOK, LookUp, Goto, replyVars, NoLostReply, OwnKey
  <1>4. ResultInv'
    BY DEF IInv, TypeOK, LookUp, Goto, Return, ResultInv
  <1>5. ReplyInv'
    BY ReplyType DEF IInv, TypeOK, LookUp, Goto, replyVars, ReplyInv
  <1>6. ListedInv'
    BY DEF IInv, TypeOK, LookUp, Goto, ListedInv, OwnKey
  <1>7. TargetInv'
    BY DEF IInv, TypeOK, LookUp, Goto, Return, replyVars, TargetInv, ResultInv, Open
  <1>8. TakenInv'
    BY DEF IInv, TypeOK, LookUp, Goto, Return, replyVars, TakenInv, Handled
  <1> QED
    BY <1>1, <1>2, <1>3, <1>4, <1>5, <1>6, <1>7, <1>8 DEF IInv

LEMMA ListenKeeps ==
    ASSUME TypeOK, IInv, NEW r \in Requests, Listen(r)
    PROVE  IInv'
  <1>1. BufferInv'
    BY DEF IInv, Listen, handlerVars, replyVars, BufferInv
  <1>2. ListenerOpen'
    BY DEF IInv, TypeOK, Listen, Goto, ListenerOpen
  <1>3. NoLostReply'
    BY ReplyType DEF IInv, TypeOK, Listen, Goto, replyVars, NoLostReply, OwnKey
  <1>4. ResultInv'
    BY DEF IInv, TypeOK, Listen, Goto, Return, ResultInv
  <1>5. ReplyInv'
    BY ReplyType DEF IInv, TypeOK, Listen, Goto, replyVars, ReplyInv
  <1>6. ListedInv'
    BY DEF IInv, TypeOK, Listen, Goto, ListedInv, OwnKey
  <1>7. TargetInv'
    BY DEF IInv, TypeOK, Listen, Goto, Return, replyVars, TargetInv, ResultInv, Open
  <1>8. TakenInv'
    BY DEF IInv, TypeOK, Listen, Goto, Return, replyVars, TakenInv, Handled
  <1> QED
    BY <1>1, <1>2, <1>3, <1>4, <1>5, <1>6, <1>7, <1>8 DEF IInv

LEMMA PublishKeeps ==
    ASSUME TypeOK, IInv, NEW r \in Requests, Publish(r)
    PROVE  IInv'
  <1>1. /\ pc[r] = "listed" /\ key' = key /\ buffer' = buffer /\ says' = says /\ target' = target
        /\ \A q \in Requests \ {r} : pc'[q] = pc[q] /\ result'[q] = result[q]
        /\ pc'[r] \in {"published", "leaving"} /\ result'[r] \in {"none", "unpublished"}
    BY DEF Publish, TypeOK, IInv, ResultInv, Goto, Return
  <1>2. \A d \in Replies : d[1] = r => reply[d] = "none"
    BY <1>1 DEF IInv, ReplyInv
  <1>3. \A d \in Replies : reply'[d] = reply[d] \/ (d[1] = r /\ reply'[d] = "asked")
    BY DEF Publish, TypeOK
  <1>4. ReplyInv'
    BY <1>1, <1>2, <1>3, ReplyType DEF IInv, ReplyInv
  <1>5. \A d \in Replies : reply'[d] = reply[d] \/ (reply'[d] = "asked" /\ reply[d] = "none")
    BY <1>2, <1>3
  <1>6. TargetInv'
    BY <1>1, <1>5 DEF IInv, TargetInv, Open, TypeOK
  <1>7. BufferInv'
    BY <1>1, <1>5 DEF IInv, BufferInv, TypeOK
  <1>8. TakenInv'
    BY <1>1, <1>5 DEF IInv, TakenInv, Handled, TypeOK
  <1>9. ListenerOpen'
    BY DEF IInv, TypeOK, Publish, Goto, ListenerOpen
  <1>10. NoLostReply'
    BY SMTT(60), ReplyType DEF IInv, TypeOK, Publish, Goto, NoLostReply, OwnKey, ListedInv, ReplyInv,
       TargetInv, BufferInv, Open
  <1>11. ResultInv'
    BY DEF IInv, TypeOK, Publish, Goto, Return, ResultInv
  <1>12. ListedInv'
    BY DEF IInv, TypeOK, Publish, Goto, ListedInv, OwnKey
  <1> QED
    BY <1>4, <1>6, <1>7, <1>8, <1>9, <1>10, <1>11, <1>12 DEF IInv

LEMMA WaitKeeps ==
    ASSUME TypeOK, IInv, NEW r \in Requests, Wait(r)
    PROVE  IInv'
  <1>1. BufferInv'
    BY DEF IInv, Wait, handlerVars, replyVars, BufferInv
  <1>2. ListenerOpen'
    BY DEF IInv, TypeOK, Wait, Goto, ListenerOpen
  <1>3. NoLostReply'
    BY DEF IInv, TypeOK, Wait, Goto, replyVars, NoLostReply, OwnKey
  <1>4. ResultInv'
    BY DEF IInv, TypeOK, Wait, Goto, ResultInv
  <1>5. ReplyInv'
    BY DEF IInv, TypeOK, Wait, Goto, replyVars, ReplyInv
  <1>6. ListedInv'
    BY DEF IInv, TypeOK, Wait, Goto, ListedInv, OwnKey
  <1>7. TargetInv'
    BY DEF IInv, TypeOK, Wait, Goto, replyVars, TargetInv, Open
  <1>8. TakenInv'
    BY DEF IInv, TypeOK, Wait, Goto, replyVars, TakenInv, Handled
  <1> QED
    BY <1>1, <1>2, <1>3, <1>4, <1>5, <1>6, <1>7, <1>8 DEF IInv

LEMMA TakeKeeps ==
    ASSUME TypeOK, IInv, NEW r \in Requests, Take(r)
    PROVE  IInv'
  <1>1. ListenerOpen'
    BY DEF IInv, TypeOK, Take, Goto, ListenerOpen
  <1>2. NoLostReply'
    BY DEF IInv, TypeOK, Take, Goto, replyVars, NoLostReply, OwnKey
  <1>3. ResultInv'
    BY DEF IInv, TypeOK, Take, Goto, Return, ResultInv, BufferInv, ReplyInv
  <1>4. ReplyInv'
    BY DEF IInv, TypeOK, Take, Goto, replyVars, ReplyInv
  <1>5. ListedInv'
    BY DEF IInv, TypeOK, Take, Goto, ListedInv, OwnKey
  <1>6. TargetInv'
    BY DEF IInv, TypeOK, Take, Goto, Return, replyVars, TargetInv, Open
  <1>7. BufferInv'
    BY DEF IInv, TypeOK, Take, Goto, replyVars, BufferInv
  <1>8. TakenInv'
    BY DEF IInv, TypeOK, Take, Goto, Return, replyVars, TakenInv, Handled, BufferInv
  <1> QED
    BY <1>1, <1>2, <1>3, <1>4, <1>5, <1>6, <1>7, <1>8 DEF IInv

LEMMA GiveUpKeeps ==
    ASSUME TypeOK, IInv, NEW r \in Requests, GiveUp(r)
    PROVE  IInv'
  <1>1. BufferInv'
    BY DEF IInv, GiveUp, handlerVars, replyVars, BufferInv
  <1>2. ListenerOpen'
    BY DEF IInv, TypeOK, GiveUp, Goto, ListenerOpen
  <1>3. NoLostReply'
    BY DEF IInv, TypeOK, GiveUp, Goto, replyVars, NoLostReply, OwnKey
  <1>4. ResultInv'
    BY DEF IInv, TypeOK, GiveUp, Goto, Return, ResultInv
  <1>5. ReplyInv'
    BY DEF IInv, TypeOK, GiveUp, Goto, replyVars, ReplyInv
  <1>6. ListedInv'
    BY DEF IInv, TypeOK, GiveUp, Goto, ListedInv, OwnKey
  <1>7. TargetInv'
    BY DEF IInv, TypeOK, GiveUp, Goto, Return, replyVars, TargetInv, Open
  <1>8. TakenInv'
    BY DEF IInv, TypeOK, GiveUp, Goto, Return, replyVars, TakenInv, Handled
  <1> QED
    BY <1>1, <1>2, <1>3, <1>4, <1>5, <1>6, <1>7, <1>8 DEF IInv

LEMMA DeleteKeeps ==
    ASSUME TypeOK, IInv, NEW r \in Requests, Delete(r)
    PROVE  IInv'
  <1>1. BufferInv'
    BY DEF IInv, Delete, handlerVars, replyVars, BufferInv
  <1>2. ListenerOpen'
    BY DEF IInv, TypeOK, Delete, Goto, ListenerOpen
  <1>3. NoLostReply'
    BY DEF IInv, TypeOK, Delete, Goto, replyVars, NoLostReply, OwnKey
  <1>4. ResultInv'
    BY DEF IInv, TypeOK, Delete, Goto, ResultInv
  <1>5. ReplyInv'
    BY DEF IInv, TypeOK, Delete, Goto, replyVars, ReplyInv
  <1>6. ListedInv'
    BY DEF IInv, TypeOK, Delete, Goto, ListedInv, OwnKey
  <1>7. TargetInv'
    BY DEF IInv, TypeOK, Delete, Goto, replyVars, TargetInv, Open
  <1>8. TakenInv'
    BY DEF IInv, TypeOK, Delete, Goto, replyVars, TakenInv, Handled
  <1> QED
    BY <1>1, <1>2, <1>3, <1>4, <1>5, <1>6, <1>7, <1>8 DEF IInv

LEMMA CloseKeeps ==
    ASSUME TypeOK, IInv, NEW r \in Requests, Close(r)
    PROVE  IInv'
  <1>1. ListenerOpen'
    BY DEF IInv, TypeOK, Close, Goto, ListenerOpen
  <1>2. NoLostReply'
    BY ReplyType DEF IInv, TypeOK, Close, Goto, replyVars, NoLostReply, OwnKey
  <1>3. ResultInv'
    BY DEF IInv, TypeOK, Close, Goto, ResultInv
  <1>4. ReplyInv'
    BY ReplyType DEF IInv, TypeOK, Close, Goto, replyVars, ReplyInv
  <1>5. ListedInv'
    BY DEF IInv, TypeOK, Close, Goto, ListedInv, OwnKey
  <1>6. TargetInv'
    BY DEF IInv, TypeOK, Close, Goto, replyVars, TargetInv, ResultInv, Open
  <1>7. BufferInv'
    BY DEF IInv, TypeOK, Close, Goto, replyVars, BufferInv
  <1>8. TakenInv'
    BY DEF IInv, TypeOK, Close, Goto, replyVars, TakenInv, Handled
  <1> QED
    BY <1>1, <1>2, <1>3, <1>4, <1>5, <1>6, <1>7, <1>8 DEF IInv

LEMMA SaveKeeps ==
    ASSUME TypeOK, IInv, NEW r \in Requests, Save(r)
    PROVE  IInv'
  <1>1. BufferInv'
    BY DEF IInv, Save, handlerVars, replyVars, BufferInv
  <1>2. ListenerOpen'
    BY DEF IInv, TypeOK, Save, Goto, ListenerOpen
  <1>3. NoLostReply'
    BY DEF IInv, TypeOK, Save, Goto, replyVars, NoLostReply, OwnKey
  <1>4. ResultInv'
    BY DEF IInv, TypeOK, Save, Goto, ResultInv
  <1>5. ReplyInv'
    BY DEF IInv, TypeOK, Save, Goto, replyVars, ReplyInv
  <1>6. ListedInv'
    BY DEF IInv, TypeOK, Save, Goto, ListedInv, OwnKey
  <1>7. TargetInv'
    BY DEF IInv, TypeOK, Save, Goto, replyVars, TargetInv, Open
  <1>8. TakenInv'
    BY DEF IInv, TypeOK, Save, Goto, replyVars, TakenInv, Handled
  <1> QED
    BY <1>1, <1>2, <1>3, <1>4, <1>5, <1>6, <1>7, <1>8 DEF IInv

LEMMA AnswerKeeps ==
    ASSUME TypeOK, IInv, NEW d \in Replies, Answer(d)
    PROVE  IInv'
  <1>1. ListenerOpen' /\ ResultInv' /\ ListedInv'
    BY DEF IInv, Answer, handlerVars, replyVars, ListenerOpen, ResultInv, ListedInv, OwnKey
  <1>2. NoLostReply'
    BY DEF IInv, TypeOK, Answer, Become, handlerVars, NoLostReply, OwnKey
  <1>3. ReplyInv'
    BY DEF IInv, TypeOK, Answer, Become, handlerVars, ReplyInv
  <1>4. TargetInv'
    BY DEF IInv, TypeOK, Answer, Become, handlerVars, TargetInv, Open
  <1>5. BufferInv'
    BY DEF IInv, TypeOK, Answer, Become, handlerVars, BufferInv
  <1>6. TakenInv'
    BY DEF IInv, TypeOK, Answer, Become, handlerVars, TakenInv, Handled
  <1> QED
    BY <1>1, <1>2, <1>3, <1>4, <1>5, <1>6 DEF IInv

LEMMA LoadKeeps ==
    ASSUME TypeOK, IInv, NEW d \in Replies, Load(d)
    PROVE  IInv'
  <1>1. ListenerOpen' /\ ResultInv' /\ ListedInv'
    BY DEF IInv, Load, handlerVars, replyVars, ListenerOpen, ResultInv, ListedInv, OwnKey
  <1>2. NoLostReply'
    <2>1. /\ key' = key /\ pc' = pc /\ buffer' = buffer
          /\ \A e \in Replies \ {d} : reply'[e] = reply[e]
          /\ reply'[d] = "sending" \/ listener[key[d[1]]] = None
      BY DEF Load, TypeOK, Become, handlerVars
    <2>2. \A r \in Requests : OwnKey(r)' = OwnKey(r)
      BY <2>1 DEF OwnKey
    <2>3. OwnKey(d[1]) /\ pc[d[1]] \in {"published", "waiting"} => listener[key[d[1]]] = d[1]
      BY ReplyType DEF IInv, ListedInv
    <2> QED
      BY <2>1, <2>2, <2>3, RoutingAssumption, ReplyType DEF IInv, NoLostReply
  <1>3. ReplyInv'
    BY DEF IInv, TypeOK, Load, Become, handlerVars, ReplyInv
  <1>4. TargetInv'
    BY SMTT(60), ReplyType DEF IInv, TypeOK, Load, Become, handlerVars, TargetInv, Open, ListenerOpen
  <1>5. BufferInv'
    BY DEF IInv, TypeOK, Load, Become, handlerVars, BufferInv
  <1>6. TakenInv'
    BY ReplyType DEF IInv, TypeOK, Load, Become, handlerVars, TakenInv, Handled, ListenerOpen,
       ResultInv
  <1> QED
    BY <1>1, <1>2, <1>3, <1>4, <1>5, <1>6 DEF IInv

LEMMA SendKeeps ==
    ASSUME TypeOK, IInv, NEW d \in Replies, Send(d)
    PROVE  IInv'
  <1>1. ListenerOpen' /\ ResultInv' /\ ListedInv'
    BY DEF IInv, Send, handlerVars, replyVars, ListenerOpen, ResultInv, ListedInv, OwnKey
  <1>2. NoLostReply'
    <2>1. /\ key' = key /\ pc' = pc /\ reply[d] = "sending"
          /\ \A e \in Replies \ {d} : reply'[e] = reply[e]
      BY DEF Send, TypeOK, Become, handlerVars
    <2>2. /\ target[d] \in Requests /\ key[target[d]] = key[d[1]]
          /\ buffer'[target[d]] = d
          /\ \A r \in Requests \ {target[d]} : buffer'[r] = buffer[r]
      BY DEF Send, TypeOK, IInv, TargetInv
    <2>3. \A r \in Requests : OwnKey(r)' = OwnKey(r)
      BY <2>1 DEF OwnKey
    <2>4. OwnKey(d[1]) => target[d] = d[1]
      BY <2>2 DEF OwnKey
    <2> QED
      BY <2>1, <2>2, <2>3, <2>4, ReplyAssumption, ReplyType DEF IInv, NoLostReply
  <1>3. ReplyInv'
    BY DEF IInv, TypeOK, Send, Become, handlerVars, ReplyInv
  <1>4. TargetInv'
    BY DEF IInv, TypeOK, Send, Become, handlerVars, TargetInv, Open
  <1>5. BufferInv'
    BY DEF IInv, TypeOK, Send, Become, handlerVars, BufferInv, TargetInv
  <1>6. TakenInv'
    BY DEF IInv, TypeOK, Send, Become, handlerVars, TakenInv, Handled
  <1> QED
    BY <1>1, <1>2, <1>3, <1>4, <1>5, <1>6 DEF IInv

LEMMA AckKeeps ==
    ASSUME TypeOK, IInv, NEW d \in Replies, Ack(d)
    PROVE  IInv'
  <1>1. ListenerOpen' /\ ResultInv' /\ ListedInv'
    BY DEF IInv, Ack, handlerVars, replyVars, ListenerOpen, ResultInv, ListedInv, OwnKey
  <1>2. NoLostReply'
    BY DEF IInv, TypeOK, Ack, Become, handlerVars, NoLostReply, OwnKey
  <1>3. ReplyInv'
    BY DEF IInv, TypeOK, Ack, Become, handlerVars, ReplyInv
  <1>4. TargetInv'
    BY DEF IInv, TypeOK, Ack, Become, handlerVars, TargetInv, Open
  <1>5. BufferInv'
    BY DEF IInv, TypeOK, Ack, Become, handlerVars, BufferInv
  <1>6. TakenInv'
    BY DEF IInv, TypeOK, Ack, Become, handlerVars, TakenInv, Handled
  <1> QED
    BY <1>1, <1>2, <1>3, <1>4, <1>5, <1>6 DEF IInv

LEMMA PanicKeeps ==
    ASSUME TypeOK, IInv, NEW d \in Replies, Panic(d)
    PROVE  IInv'
  <1>1. ListenerOpen'
    BY DEF IInv, TypeOK, Panic, Become, ListenerOpen
  <1>2. NoLostReply'
    BY ReplyType DEF IInv, TypeOK, Panic, Become, NoLostReply, OwnKey
  <1>3. ResultInv'
    BY DEF IInv, TypeOK, Panic, Become, ResultInv
  <1>4. ReplyInv'
    BY ReplyType DEF IInv, TypeOK, Panic, Become, ReplyInv
  <1>5. ListedInv'
    BY DEF IInv, TypeOK, Panic, Become, ListedInv, OwnKey
  <1>6. TargetInv'
    BY DEF IInv, TypeOK, Panic, Become, TargetInv
  <1>7. BufferInv'
    BY DEF IInv, TypeOK, Panic, Become, BufferInv
  <1>8. TakenInv'
    BY DEF IInv, TypeOK, Panic, Become, TakenInv, Handled
  <1> QED
    BY <1>1, <1>2, <1>3, <1>4, <1>5, <1>6, <1>7, <1>8 DEF IInv

LEMMA AskAgainKeeps ==
    ASSUME TypeOK, IInv, NEW d \in Replies, AskAgain(d)
    PROVE  IInv'
  <1>1. ListenerOpen' /\ ResultInv' /\ ListedInv'
    BY DEF IInv, AskAgain, handlerVars, replyVars, ListenerOpen, ResultInv, ListedInv, OwnKey
  <1>2. NoLostReply'
    BY DEF IInv, TypeOK, AskAgain, Become, handlerVars, NoLostReply, OwnKey
  <1>3. ReplyInv'
    BY ReplyType DEF IInv, TypeOK, AskAgain, Become, handlerVars, ReplyInv
  <1>4. TargetInv'
    BY DEF IInv, TypeOK, AskAgain, Become, handlerVars, TargetInv, Open
  <1>5. BufferInv'
    BY FaultType DEF IInv, TypeOK, AskAgain, Become, handlerVars, BufferInv
  <1>6. TakenInv'
    BY FaultType DEF IInv, TypeOK, AskAgain, Become, handlerVars, TakenInv, Handled
  <1> QED
    BY <1>1, <1>2, <1>3, <1>4, <1>5, <1>6 DEF IInv

LEMMA RequeueKeeps ==
    ASSUME TypeOK, IInv, NEW d \in Replies, Requeue(d)
    PROVE  IInv'
  <1>1. ListenerOpen' /\ ResultInv' /\ ListedInv'
    BY DEF IInv, Requeue, handlerVars, replyVars, ListenerOpen, ResultInv, ListedInv, OwnKey
  <1>2. NoLostReply'
    BY DEF IInv, TypeOK, Requeue, Become, handlerVars, NoLostReply, OwnKey
  <1>3. ReplyInv'
    BY ReplyType DEF IInv, TypeOK, Requeue, Become, handlerVars, ReplyInv
  <1>4. TargetInv'
    BY DEF IInv, TypeOK, Requeue, Become, handlerVars, TargetInv, Open
  <1>5. BufferInv'
    BY FaultType DEF IInv, TypeOK, Requeue, Become, handlerVars, BufferInv
  <1>6. TakenInv'
    BY FaultType DEF IInv, TypeOK, Requeue, Become, handlerVars, TakenInv, Handled
  <1> QED
    BY <1>1, <1>2, <1>3, <1>4, <1>5, <1>6 DEF IInv

LEMMA IInvNext == TypeOK /\ IInv /\ [Next]_vars => IInv'
  <1> SUFFICES ASSUME TypeOK, IInv, [Next]_vars PROVE IInv'
    OBVIOUS
  <1>1. ASSUME NEW r \in Requests, Handler(r) PROVE IInv'
    BY <1>1, LookUpKeeps, ListenKeeps, PublishKeeps, WaitKeeps, TakeKeeps, GiveUpKeeps,
       DeleteKeeps, CloseKeeps, SaveKeeps DEF Handler
  <1>2. ASSUME NEW d \in Replies, Answer(d) \/ Goroutine(d) PROVE IInv'
    BY <1>2, AnswerKeeps, LoadKeeps, SendKeeps, AckKeeps, PanicKeeps DEF Goroutine
  <1>3. ASSUME NEW d \in Replies, AskAgain(d) \/ Requeue(d) PROVE IInv'
    BY <1>3, AskAgainKeeps, RequeueKeeps
  <1>4. CASE UNCHANGED vars
    BY <1>4 DEF IInv, vars, handlerVars, replyVars, ListenerOpen, NoLostReply, OwnKey,
       ResultInv, ReplyInv, ListedInv, TargetInv, Open, BufferInv, TakenInv, Handled
  <1> QED
    BY <1>1, <1>2, <1>3, <1>4 DEF Next, Finished

-----------------------------------------------------------------------------
(* The theorems.                                                           *)

\* What a request, its channel, its listener and the replies to it know of each
\* other holds at every time, however replies are delayed, doubled or late.
THEOREM ReplyInvariant == Spec => [](TypeOK /\ IInv)
  <1>1. Init => TypeOK /\ IInv
    BY TypeInit, IInvInit
  <1>2. TypeOK /\ IInv /\ [Next]_vars => (TypeOK /\ IInv)'
    BY TypeNext, IInvNext
  <1> QED
    BY <1>1, <1>2, PTL DEF Spec

\* consumeReply never finds a closed channel in ListenerChan, although PlaceOrder
\* deletes the key of its request without a look at whose channel is there.
THEOREM ListenerOpenHolds == Spec => []ListenerOpen
  <1>1. TypeOK /\ IInv => ListenerOpen
    BY DEF IInv
  <1> QED
    BY <1>1, ReplyInvariant, PTL

\* A request with a key of its own has the reply in its channel as soon as a
\* goroutine has handled it.
THEOREM NoLostReplyHolds == Spec => []NoLostReply
  <1>1. TypeOK /\ IInv => NoLostReply
    BY DEF IInv
  <1> QED
    BY <1>1, ReplyInvariant, PTL

LEMMA IInvPanicIsLate == TypeOK /\ IInv => PanicIsLate
  <1> SUFFICES ASSUME TypeOK, IInv, NEW d \in Replies, reply[d] = "sending", ~Open(target[d])
               PROVE  \/ result[target[d]] \in {"timeout", "unpublished"}
                      \/ \E e \in Replies :
                            e # d /\ key[e[1]] = key[d[1]] /\ reply[e] \in {"sent", "acked"}
    BY DEF PanicIsLate
  <1>1. /\ target[d] \in Requests /\ key[target[d]] = key[d[1]]
        /\ result[target[d]] \in {"yes", "no", "timeout", "unpublished"}
    BY DEF IInv, TargetInv
  <1>2. CASE result[target[d]] \in {"yes", "no"}
    <2>1. Handled(target[d])
      BY <1>1, <1>2 DEF IInv, TakenInv
    <2> QED
      BY <1>1, <2>1 DEF Handled
  <1> QED
    BY <1>1, <1>2

\* consumeReply panics only when the request has given up or a second reply was
\* there for the key.
THEOREM PanicIsLateHolds == Spec => []PanicIsLate
  BY IInvPanicIsLate, ReplyInvariant, PTL
=============================================================================
