------------------------------ MODULE Purchase ------------------------------
(***************************************************************************)
(* One iteration of a virtual user against the payment service, through a  *)
(* ticket backend reduced to what both see of it: an order is placed with  *)
(* an invoice of its own, is shown to the user, and takes the status that  *)
(* the last notification of its invoice brings.                            *)
(***************************************************************************)
EXTENDS LoadAgent, Payment

CONSTANT None   \* no invoice

ASSUME PurchaseAssumption ==
    /\ None \notin Invoices
    /\ MaxCalls >= MaxTries   \* a payment call for every try of the user

VARIABLES
    order,    \* orders.status of the order of an invoice, "none" before its commit
    billing,  \* the invoice of the place-order request that the backend works on
    saved,    \* the order saved under the idempotency key of the current placeOrder
    mine      \* the order that the user got

orderVars == <<order, billing, saved, mine>>
vars == <<agentVars, paymentVars, orderVars>>

TypeOK ==
    /\ AgentTypeOK
    /\ PaymentTypeOK
    /\ order \in [Invoices -> {"none", "waiting-for-payment", "success", "failed"}]
    /\ {billing, saved, mine} \subseteq Invoices \cup {None}

Init ==
    /\ AgentInit
    /\ PaymentInit
    /\ order = [i \in Invoices |-> "none"]
    /\ billing = None
    /\ saved = None
    /\ mine = None

-----------------------------------------------------------------------------
(* The user, before it has an order.                                       *)

\* A call of placeOrder makes its idempotency key before its loop: nothing is saved
\* under it, and every repetition of the request, counted or not, has the same key.
FreshKey == saved' = IF pc' = "order" THEN None ELSE saved

\* Calls that change nothing in the services; the last one is followed by placeOrder.
Look ==
    /\ \/ \E reply \in EventAnswers : GetEvent(reply)
       \/ \E reply \in AvailabilityAnswers : SearchArea(reply)
       \/ \E reply \in SeatsAnswers : FetchSeats(reply)
    /\ FreshKey
    /\ UNCHANGED <<paymentVars, order, billing, mine>>

\* placeOrder sends its request.
Order ==
    /\ SendOrder
    /\ UNCHANGED <<paymentVars, orderVars>>

\* The backend answers without having asked for an invoice; when there is an order
\* under the key, only because it cannot read it, or because the answer is lost.
Refused ==
    /\ billing = None
    /\ \E reply \in IF saved = None THEN OrderAnswers \ {"ok"} ELSE {"error", "other"} :
          AnswerOrder(reply)
    /\ UNCHANGED <<paymentVars, orderVars>>

\* The backend has inserted the order and asks for its invoice.
Bill(i) ==
    /\ pc = "ordering"
    /\ billing = None
    /\ saved = None
    /\ Store(i)
    /\ billing' = i
    /\ UNCHANGED <<agentVars, order, saved, mine>>

\* The rest of the creation.
Created(i) ==
    /\ AddJob(i) \/ CreateDies(i)
    /\ UNCHANGED <<agentVars, orderVars>>

\* The transaction is rolled back: the creation failed or took too long, or the
\* commit was refused.  A serialization error makes the backend start again.
Rollback ==
    /\ billing # None
    /\ AnswerOrder("error") \/ UNCHANGED agentVars
    /\ billing' = None
    /\ UNCHANGED <<paymentVars, order, saved, mine>>

\* The creation has answered, the order is committed and the user gets it.
Commit ==
    /\ billing # None
    /\ job[billing] # "none"
    /\ order' = [order EXCEPT ![billing] = "waiting-for-payment"]
    /\ billing' = None
    /\ mine' = billing
    /\ AnswerOrder("ok")
    /\ UNCHANGED <<paymentVars, saved>>

\* The order is committed but its answer does not reach the user; the result may
\* have been saved under the idempotency key.
CommitLost ==
    /\ billing # None
    /\ job[billing] # "none"
    /\ order' = [order EXCEPT ![billing] = "waiting-for-payment"]
    /\ billing' = None
    /\ saved' \in {billing, None}
    /\ \E reply \in {"error", "other"} : AnswerOrder(reply)
    /\ UNCHANGED <<paymentVars, mine>>

\* A repeated request is answered with the saved order.
Repeated ==
    /\ saved # None
    /\ mine' = saved
    /\ AnswerOrder("ok")
    /\ UNCHANGED <<paymentVars, order, billing, saved>>

-----------------------------------------------------------------------------
(* The user, with its order.                                               *)

PayCall == <<mine, tries + 1>>

Pay ==
    /\ SendPayment
    /\ Arrive(PayCall, payMode)
    /\ UNCHANGED orderVars

\* Variant: the user takes an error of the payment for an answer.
PaidBlindly ==
    /\ pc = "paying"
    /\ \/ answer[PayCall] \in {"ok", "error"} /\ AnswerPayment("ok")
       \/ AnswerPayment("broken")
    /\ UNCHANGED <<paymentVars, orderVars>>

\* The answer of the payment service, unless the connection breaks first.
Paid ==
    /\ pc = "paying"
    /\ \/ answer[PayCall] # "none" /\ AnswerPayment(answer[PayCall])
       \/ AnswerPayment("broken")
    /\ UNCHANGED <<paymentVars, orderVars>>

\* The user looks at the status of its order, and at its tickets.
Verify ==
    /\ pc \in {"verify", "tickets"}
    /\ \/ \E reply \in {order[mine], "error", "broken"} : VerifyOrder(reply)
       \/ \E reply \in TicketsAnswers : GetTickets(reply)
    /\ UNCHANGED <<paymentVars, orderVars>>

-----------------------------------------------------------------------------
(* The payment service, and what its notifications do to the orders.       *)

\* Nothing takes fifteen minutes while the backend places the order.
Expires(i) ==
    /\ billing # i
    /\ Late(i)
    /\ UNCHANGED <<agentVars, orderVars>>

Handle(c) ==
    /\ PayHandler(c) \/ TimeOut(c) \/ PayDies(c)
    /\ UNCHANGED <<agentVars, orderVars>>

Process(i) ==
    /\ Due(i) \/ Notifier(i) \/ Stall(i)
    /\ UNCHANGED <<agentVars, orderVars>>

\* Variant: an expired invoice leaves its order alone.
SettleUnlessExpired(i) ==
    order' = [order EXCEPT ![i] = IF order[i] = "none" \/ seen[i] = "expired" THEN order[i]
                                  ELSE IF seen[i] = "paid" THEN "success" ELSE "failed"]

\* handleWebhook: the order takes the status of the notification, whatever its own.
Settle(i) ==
    order' = [order EXCEPT ![i] = IF order[i] = "none" THEN order[i]
                                  ELSE IF seen[i] = "paid" THEN "success" ELSE "failed"]

\* The notification arrives and is answered, or the answer is lost.
Notified(i) ==
    /\ Settle(i)
    /\ Posted(i) \/ PostFails(i)
    /\ UNCHANGED <<agentVars, billing, saved, mine>>

\* The notification does not arrive, or the backend fails.
NotNotified(i) ==
    /\ PostFails(i)
    /\ UNCHANGED <<agentVars, orderVars>>

User ==
    Look \/ Order \/ Refused \/ Rollback \/ Commit \/ CommitLost \/ Repeated \/ Pay \/ Paid
    \/ Verify

Next ==
    \/ User
    \/ \E i \in Invoices :
          Bill(i) \/ Created(i) \/ Expires(i) \/ Process(i) \/ Notified(i) \/ NotNotified(i)
    \/ \E c \in Calls : Handle(c)

\* The user and the handlers go on, time passes, the queue runs.
Fairness ==
    /\ WF_vars(User)
    /\ \A c \in Calls : WF_vars(PayHandler(c) /\ UNCHANGED <<agentVars, orderVars>>)
    /\ \A i \in Invoices :
          /\ WF_vars(Created(i)) /\ WF_vars(Expires(i)) /\ WF_vars(Process(i))
          /\ WF_vars(Notified(i) \/ NotNotified(i))

Spec == Init /\ [][Next]_vars /\ Fairness

-----------------------------------------------------------------------------
(* Properties.                                                             *)

\* An invoice is settled once: neither a payment nor the expiry changes a settled
\* invoice, as long as no payment's read and write have the expiry between them.
InvoiceSettlesOnce ==
    [][\A i \in Invoices :
          invoice[i] \in Settled /\ i \notin overtaken' => invoice'[i] = invoice[i]]_vars

\* What the code says of itself: only a pending invoice is paid, without exception.
OnlyPendingIsPaid ==
    [][\A i \in Invoices : invoice[i] \in Settled => invoice'[i] = invoice[i]]_vars

\* The order ends as its invoice did, with every interleaving of payment calls,
\* promotion, retries and the death of workers, unless the expiry overtook a payment.
OrderFollowsInvoice ==
    \A i \in Invoices \ overtaken :
        /\ order[i] = "success" => invoice[i] = "paid"
        /\ order[i] = "failed" => invoice[i] \in {"failed", "expired"}

\* An order that waits for its payment will hear of it: its job is on its way, or has
\* used up its attempts.
NoForgottenOrder ==
    \A i \in Invoices : order[i] = "waiting-for-payment" => job[i] # "none" /\ job[i] # "completed"

\* The end states the load test counts as successes are what happened to the order,
\* and an unexpected state of the order has only one cause.
EndStateTrue ==
    \A k \in DOMAIN reported :
        /\ reported[k] = "SUCCESS_PURCHASED" => order[mine] = "success"
        /\ reported[k] = "SUCCESS_PAYMENT_FAILED_EXPECTED" => order[mine] = "failed"
        /\ reported[k] = "ERROR_UNEXPECTED_ORDER_STATE" => mine \in overtaken

\* Every order settles, also those whose user never heard of them or gave up, unless
\* the notifier has given up on their job.
EveryOrderSettles ==
    \A i \in Invoices :
        order[i] = "waiting-for-payment" ~> order[i] # "waiting-for-payment" \/ job[i] = "failed"

\* A user who was told that the payment went through has the order it paid for in the
\* end, unless the expiry overtook the payment or the notifier gave up.
PaidOrderSucceeds ==
    \A i \in Invoices :
        pc = "verify" /\ mine = i /\ payMode = "success"
            ~> order[i] = "success" \/ i \in overtaken \/ job[i] = "failed"

\* A step that sends the user round a loop without being counted.
Uncounted == BrowseAnew \/ SpinOrder

\* The iteration ends, unless it goes round one of its two uncounted loops for ever.
IterationEnds == <>(pc = "done") \/ []<><<Uncounted>>_vars
=============================================================================
