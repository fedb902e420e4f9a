--------------------------- MODULE PurchaseProofs ---------------------------
(***************************************************************************)
(* Proofs about a virtual user and the payment service together, for any   *)
(* profiles, invoices, attempts and faults.  Purchase implements the       *)
(* specifications of its two parts, so that their invariants hold in it.   *)
(***************************************************************************)
EXTENDS Purchase, AgentProofs, PaymentProofs

\* The user has an order.
Bought == {"pay", "paying", "verify", "tickets"}

OrderType ==
    /\ order \in [Invoices -> {"none", "waiting-for-payment", "success", "failed"}]
    /\ {billing, saved, mine} \subseteq Invoices \cup {None}

\* The backend asks for an invoice while the user waits for its order and there is none
\* under its key; until the order is committed the invoice is new: not late,
\* not paid, its job not due.
Billing ==
    billing # None =>
        /\ pc = "ordering" /\ saved = None
        /\ billing \notin late
        /\ job[billing] \in {"none", "delayed"} /\ failures[billing] = 0
        /\ \A c \in Calls : c[1] = billing => call[c] = "none"

\* A user with an order has decided how to pay, and only such a user pays.
Payer ==
    /\ pc \in Bought => mine \in Invoices /\ payMode \in {"success", "failed"}
    /\ \A c \in Calls :
          call[c] # "none" => mode[c] = payMode /\ pc \in Bought \cup {"done"}

Inv == /\ AgentInv /\ PaymentInv /\ OrderType /\ Billing /\ Payer
       /\ NoForgottenOrder /\ OrderFollowsInvoice

-----------------------------------------------------------------------------
(* What the actions of the user do to pc and payMode.                      *)

LEMMA Looking ==
    ASSUME NEW a, GetEvent(a) \/ SearchArea(a) \/ FetchSeats(a)
    PROVE  /\ pc \in {"event", "browse", "seats"}
           /\ pc' \in {"event", "browse", "seats", "order", "done"}
           /\ payMode' = payMode
    BY DEF GetEvent, SearchArea, FetchSeats, BrowseAnew, Throw, Exit, Report, Phase, TryAgain

LEMMA Ordering ==
    ASSUME NEW a, AnswerOrder(a)
    PROVE  /\ a \in OrderAnswers
           /\ pc = "ordering"
           /\ a = "ok" => pc' = "pay" /\ payMode' \in {"success", "failed"}
           /\ a # "ok" => pc' \in {"order", "browse", "done"} /\ payMode' = payMode
    BY DEF AnswerOrder, OrderAnswers, SpinOrder, NextAttempt, Exit, Report

LEMMA Finishing ==
    ASSUME NEW a, AnswerPayment(a) \/ VerifyOrder(a) \/ GetTickets(a)
    PROVE  /\ pc \in {"paying", "verify", "tickets"}
           /\ pc' \in {"pay", "verify", "tickets", "done"}
           /\ payMode' = payMode
    BY DEF AnswerPayment, VerifyOrder, GetTickets, Throw, Exit, Report, Phase, TryAgain

-----------------------------------------------------------------------------
(* Purchase implements its parts.                                          *)

\* A step of the whole is a step of the user, or nothing to it.
LEMMA AgentPart == [Next]_vars => [AgentNext]_agentVars
    <1> SUFFICES ASSUME [Next]_vars PROVE [AgentNext]_agentVars
        OBVIOUS
    <1>1. CASE Look
        BY <1>1 DEF Look, AgentNext
    <1>2. CASE Order
        BY <1>2 DEF Order, AgentNext
    <1>3. CASE Refused \/ Rollback \/ Commit \/ CommitLost \/ Repeated
        BY <1>3, Ordering DEF Refused, Rollback, Commit, CommitLost, Repeated, AgentNext
    <1>4. CASE Pay
        BY <1>4 DEF Pay, AgentNext
    <1>5. CASE Paid
        <2>1. \E reply : AnswerPayment(reply)
            BY <1>5 DEF Paid
        <2>2. \A reply : AnswerPayment(reply) => reply \in PaymentAnswers
            BY DEF AnswerPayment, PaymentAnswers
        <2> QED BY <2>1, <2>2 DEF AgentNext
    <1>6. CASE Verify
        <2>1. \E reply : VerifyOrder(reply) \/ GetTickets(reply)
            BY <1>6 DEF Verify
        <2>2. \A reply : VerifyOrder(reply) => reply \in StatusAnswers
            BY DEF VerifyOrder, StatusAnswers, Wanted
        <2>3. \A reply : GetTickets(reply) => reply \in TicketsAnswers
            BY DEF GetTickets, TicketsAnswers
        <2> QED BY <2>1, <2>2, <2>3 DEF AgentNext
    <1>7. CASE \/ UNCHANGED vars
               \/ \E i \in Invoices : \/ Bill(i) \/ Created(i) \/ Expires(i) \/ Process(i)
                                      \/ Notified(i) \/ NotNotified(i)
               \/ \E c \in Calls : Handle(c)
        BY <1>7 DEF vars, Bill, Created, Expires, Process, Notified, NotNotified, Handle
    <1> QED BY <1>1, <1>2, <1>3, <1>4, <1>5, <1>6, <1>7 DEF Next, User

\* The call that the user sends is one of the calls of the payment service.
LEMMA PayCallOf ==
    ASSUME AgentInv, Payer, pc \in {"pay", "paying"}
    PROVE  PayCall \in Calls /\ PayCall[1] = mine /\ payMode \in {"success", "failed"}
    <1>1. tries \in 0 .. 2
        BY Budgets DEF AgentInv, AgentTypeOK
    <1>2. tries + 1 \in 1 .. MaxCalls
        BY <1>1, Budgets, PurchaseAssumption, PaymentAssumption
    <1>3. mine \in Invoices /\ payMode \in {"success", "failed"}
        BY DEF Payer, Bought
    <1> QED BY <1>2, <1>3 DEF PayCall, Calls

\* A step of the whole is a step of the payment service, or nothing to it.
LEMMA PaymentPart ==
    ASSUME AgentInv, Payer, [Next]_vars
    PROVE  [PaymentNext]_paymentVars
    <1>1. CASE Pay
        BY <1>1, PayCallOf DEF Pay, SendPayment, PaymentNext
    <1>2. ASSUME NEW i \in Invoices,
                 \/ Bill(i) \/ Created(i) \/ Expires(i) \/ Process(i)
                 \/ Notified(i) \/ NotNotified(i)
          PROVE  PaymentNext
        BY <1>2 DEF Bill, Created, Expires, Process, Notified, NotNotified, PaymentNext
    <1>3. ASSUME NEW c \in Calls, Handle(c) PROVE PaymentNext
        BY <1>3 DEF Handle, PaymentNext
    <1>4. CASE \/ UNCHANGED vars
               \/ Look \/ Order \/ Refused \/ Rollback \/ Commit \/ CommitLost \/ Repeated \/ Paid
               \/ Verify
        BY <1>4 DEF vars, Look, Order, Refused, Rollback, Commit, CommitLost, Repeated, Paid, Verify
    <1> QED BY <1>1, <1>2, <1>3, <1>4 DEF Next, User
-----------------------------------------------------------------------------
(* The invariant.                                                          *)

\* The variables of the backend keep their types.
LEMMA Orders ==
    ASSUME Inv, Next
    PROVE  OrderType'
    <1> USE DEF Inv, OrderType, PaymentInv, Orderly, PaymentTypeOK,
                callVars, jobVars, workerVars, paymentVars, agentVars, orderVars
    <1>1. CASE Look
        BY <1>1, Looking DEF Look, FreshKey
    <1>2. CASE Order
        BY <1>2 DEF Order, SendOrder
    <1>3. CASE Refused
        BY <1>3, Ordering DEF Refused
    <1>4. ASSUME NEW i \in Invoices, Bill(i) PROVE OrderType'
        BY <1>4 DEF Bill, Store
    <1>5. ASSUME NEW i \in Invoices, Created(i) PROVE OrderType'
        BY <1>5 DEF Created, AddJob, CreateDies
    <1>6. CASE Rollback
        BY <1>6, Ordering DEF Rollback
    <1>7. CASE Commit
        BY <1>7, Ordering DEF Commit
    <1>8. CASE CommitLost
        BY <1>8, Ordering DEF CommitLost
    <1>9. CASE Repeated
        BY <1>9, Ordering DEF Repeated
    <1>10. CASE Pay
        BY <1>10, PayCallOf DEF Pay, SendPayment, Arrive, Goto
    <1>11. CASE Paid
        BY <1>11, Finishing DEF Paid
    <1>12. CASE Verify
        BY <1>12, Finishing DEF Verify
    <1>13. ASSUME NEW i \in Invoices, Expires(i) PROVE OrderType'
        BY <1>13 DEF Expires, Late
    <1>14. ASSUME NEW c \in Calls, Handle(c) PROVE OrderType'
        BY <1>14, CallOf DEF Handle, PayHandler, PayRead, PayWrite, FindJob, Promote, TimeOut, PayDies, Goto, Answer, Paying
    <1>15. ASSUME NEW i \in Invoices, Process(i) PROVE OrderType'
        BY <1>15 DEF Process, Due, Notifier, Take, NotifierRead, ExpireRead, ExpireWrite, Stall, Work, Fail
    <1>16. ASSUME NEW i \in Invoices, Notified(i) PROVE OrderType'
        BY <1>16 DEF Notified, Settle, Posted, PostFails, Work, Fail
    <1>17. ASSUME NEW i \in Invoices, NotNotified(i) PROVE OrderType'
        BY <1>17 DEF NotNotified, PostFails, Work, Fail
    <1> QED BY <1>1, <1>2, <1>3, <1>4, <1>5, <1>6, <1>7, <1>8, <1>9,
               <1>10, <1>11, <1>12, <1>13, <1>14, <1>15, <1>16, <1>17
            DEF Next, User

\* Nothing happens to an invoice before its order is committed.
LEMMA Bills ==
    ASSUME Inv, Next
    PROVE  Billing'
    <1> USE DEF Inv, Billing, Payer, OrderType, Bought, AgentInv, PaymentInv, Orderly, PaymentTypeOK, Queue, Known,
                callVars, jobVars, workerVars, paymentVars, agentVars, orderVars
    <1>1. CASE Look
        BY <1>1, Looking DEF Look
    <1>2. CASE Order
        BY <1>2 DEF Order, SendOrder
    <1>3. CASE Refused
        BY <1>3, Ordering DEF Refused
    <1>4. ASSUME NEW i \in Invoices, Bill(i) PROVE Billing'
        BY <1>4 DEF Bill, Store
    <1>5. ASSUME NEW i \in Invoices, Created(i) PROVE Billing'
        BY <1>5 DEF Created, AddJob, CreateDies
    <1>6. CASE Rollback
        BY <1>6, Ordering DEF Rollback
    <1>7. CASE Commit
        BY <1>7, Ordering DEF Commit
    <1>8. CASE CommitLost
        BY <1>8, Ordering DEF CommitLost
    <1>9. CASE Repeated
        BY <1>9, Ordering DEF Repeated
    <1>10. CASE Pay
        BY <1>10, PayCallOf DEF Pay, SendPayment, Arrive, Goto
    <1>11. CASE Paid
        BY <1>11, Finishing DEF Paid
    <1>12. CASE Verify
        BY <1>12, Finishing DEF Verify
    <1>13. ASSUME NEW i \in Invoices, Expires(i) PROVE Billing'
        BY <1>13 DEF Expires, Late
    <1>14. ASSUME NEW c \in Calls, Handle(c) PROVE Billing'
        BY <1>14, CallOf DEF Handle, PayHandler, PayRead, PayWrite, FindJob, Promote, TimeOut, PayDies, Goto, Answer, Paying
    <1>15. ASSUME NEW i \in Invoices, Process(i) PROVE Billing'
        BY <1>15 DEF Process, Due, Notifier, Take, NotifierRead, ExpireRead, ExpireWrite, Stall, Work, Fail
    <1>16. ASSUME NEW i \in Invoices, Notified(i) PROVE Billing'
        BY <1>16 DEF Notified, Settle, Posted, PostFails, Work, Fail
    <1>17. ASSUME NEW i \in Invoices, NotNotified(i) PROVE Billing'
        BY <1>17 DEF NotNotified, PostFails, Work, Fail
    <1> QED BY <1>1, <1>2, <1>3, <1>4, <1>5, <1>6, <1>7, <1>8, <1>9,
               <1>10, <1>11, <1>12, <1>13, <1>14, <1>15, <1>16, <1>17
            DEF Next, User

\* Only a user with an order pays, and it does not change its mind.
LEMMA Payers ==
    ASSUME Inv, Next
    PROVE  Payer'
    <1> USE DEF Inv, Billing, Payer, OrderType, Bought, AgentInv, PaymentInv, Orderly, PaymentTypeOK,
                callVars, jobVars, workerVars, paymentVars, agentVars, orderVars
    <1>1. CASE Look
        BY <1>1, Looking DEF Look
    <1>2. CASE Order
        BY <1>2 DEF Order, SendOrder
    <1>3. CASE Refused
        BY <1>3, Ordering DEF Refused
    <1>4. ASSUME NEW i \in Invoices, Bill(i) PROVE Payer'
        BY <1>4 DEF Bill, Store
    <1>5. ASSUME NEW i \in Invoices, Created(i) PROVE Payer'
        BY <1>5 DEF Created, AddJob, CreateDies
    <1>6. CASE Rollback
        BY <1>6, Ordering DEF Rollback
    <1>7. CASE Commit
        BY <1>7, Ordering DEF Commit
    <1>8. CASE CommitLost
        BY <1>8, Ordering DEF CommitLost
    <1>9. CASE Repeated
        BY <1>9, Ordering DEF Repeated
    <1>10. CASE Pay
        BY <1>10, PayCallOf DEF Pay, SendPayment, Arrive, Goto
    <1>11. CASE Paid
        BY <1>11, Finishing DEF Paid
    <1>12. CASE Verify
        BY <1>12, Finishing DEF Verify
    <1>13. ASSUME NEW i \in Invoices, Expires(i) PROVE Payer'
        BY <1>13 DEF Expires, Late
    <1>14. ASSUME NEW c \in Calls, Handle(c) PROVE Payer'
        BY <1>14, CallOf DEF Handle, PayHandler, PayRead, PayWrite, FindJob, Promote, TimeOut, PayDies, Goto, Answer, Paying
    <1>15. ASSUME NEW i \in Invoices, Process(i) PROVE Payer'
        BY <1>15 DEF Process, Due, Notifier, Take, NotifierRead, ExpireRead, ExpireWrite, Stall, Work, Fail
    <1>16. ASSUME NEW i \in Invoices, Notified(i) PROVE Payer'
        BY <1>16 DEF Notified, Settle, Posted, PostFails, Work, Fail
    <1>17. ASSUME NEW i \in Invoices, NotNotified(i) PROVE Payer'
        BY <1>17 DEF NotNotified, PostFails, Work, Fail
    <1> QED BY <1>1, <1>2, <1>3, <1>4, <1>5, <1>6, <1>7, <1>8, <1>9,
               <1>10, <1>11, <1>12, <1>13, <1>14, <1>15, <1>16, <1>17
            DEF Next, User

\* No order is left waiting without a job.
LEMMA Remembers ==
    ASSUME Inv, Next
    PROVE  NoForgottenOrder'
    <1> USE DEF Inv, NoForgottenOrder, Billing, OrderType, PaymentInv, Orderly, PaymentTypeOK, Queue, Known,
                callVars, jobVars, workerVars, paymentVars, agentVars, orderVars
    <1>1. CASE Look
        BY <1>1, Looking DEF Look
    <1>2. CASE Order
        BY <1>2 DEF Order, SendOrder
    <1>3. CASE Refused
        BY <1>3, Ordering DEF Refused
    <1>4. ASSUME NEW i \in Invoices, Bill(i) PROVE NoForgottenOrder'
        BY <1>4 DEF Bill, Store
    <1>5. ASSUME NEW i \in Invoices, Created(i) PROVE NoForgottenOrder'
        BY <1>5 DEF Created, AddJob, CreateDies
    <1>6. CASE Rollback
        BY <1>6, Ordering DEF Rollback
    <1>7. CASE Commit
        BY <1>7, Ordering DEF Commit
    <1>8. CASE CommitLost
        BY <1>8, Ordering DEF CommitLost
    <1>9. CASE Repeated
        BY <1>9, Ordering DEF Repeated
    <1>10. CASE Pay
        BY <1>10, PayCallOf DEF Pay, SendPayment, Arrive, Goto
    <1>11. CASE Paid
        BY <1>11, Finishing DEF Paid
    <1>12. CASE Verify
        BY <1>12, Finishing DEF Verify
    <1>13. ASSUME NEW i \in Invoices, Expires(i) PROVE NoForgottenOrder'
        BY <1>13 DEF Expires, Late
    <1>14. ASSUME NEW c \in Calls, Handle(c) PROVE NoForgottenOrder'
        BY <1>14, CallOf DEF Handle, PayHandler, PayRead, PayWrite, FindJob, Promote, TimeOut, PayDies, Goto, Answer, Paying
    <1>15. ASSUME NEW i \in Invoices, Process(i) PROVE NoForgottenOrder'
        BY <1>15 DEF Process, Due, Notifier, Take, NotifierRead, ExpireRead, ExpireWrite, Stall, Work, Fail
    <1>16. ASSUME NEW i \in Invoices, Notified(i) PROVE NoForgottenOrder'
        BY <1>16 DEF Notified, Settle, Posted, PostFails, Work, Fail
    <1>17. ASSUME NEW i \in Invoices, NotNotified(i) PROVE NoForgottenOrder'
        BY <1>17 DEF NotNotified, PostFails, Work, Fail
    <1> QED BY <1>1, <1>2, <1>3, <1>4, <1>5, <1>6, <1>7, <1>8, <1>9,
               <1>10, <1>11, <1>12, <1>13, <1>14, <1>15, <1>16, <1>17
            DEF Next, User

\* No order gets a status that its invoice does not have.
LEMMA Follows ==
    ASSUME Inv, Next
    PROVE  OrderFollowsInvoice'
    <1> USE DEF Inv, OrderFollowsInvoice, OrderType, PaymentInv, Orderly, PaymentTypeOK, Queue, Writes, Settled,
                callVars, jobVars, workerVars, paymentVars, agentVars, orderVars
    <1>0. \A i \in Invoices :
             invoice[i] \in Settled /\ i \notin overtaken' => invoice'[i] = invoice[i]
        BY PaymentPart, Settling
    <1>1. CASE Look
        BY <1>1, Looking, <1>0 DEF Look
    <1>2. CASE Order
        BY <1>2, <1>0 DEF Order, SendOrder
    <1>3. CASE Refused
        BY <1>3, Ordering, <1>0 DEF Refused
    <1>4. ASSUME NEW i \in Invoices, Bill(i) PROVE OrderFollowsInvoice'
        BY <1>4, <1>0 DEF Bill, Store
    <1>5. ASSUME NEW i \in Invoices, Created(i) PROVE OrderFollowsInvoice'
        BY <1>5, <1>0 DEF Created, AddJob, CreateDies
    <1>6. CASE Rollback
        BY <1>6, Ordering, <1>0 DEF Rollback
    <1>7. CASE Commit
        BY <1>7, Ordering, <1>0 DEF Commit
    <1>8. CASE CommitLost
        BY <1>8, Ordering, <1>0 DEF CommitLost
    <1>9. CASE Repeated
        BY <1>9, Ordering, <1>0 DEF Repeated
    <1>10. CASE Pay
        BY <1>10, PayCallOf, <1>0 DEF Pay, SendPayment, Arrive, Goto
    <1>11. CASE Paid
        BY <1>11, Finishing, <1>0 DEF Paid
    <1>12. CASE Verify
        BY <1>12, Finishing, <1>0 DEF Verify
    <1>13. ASSUME NEW i \in Invoices, Expires(i) PROVE OrderFollowsInvoice'
        BY <1>13, <1>0 DEF Expires, Late
    <1>14. ASSUME NEW c \in Calls, Handle(c) PROVE OrderFollowsInvoice'
        BY <1>14, CallOf, <1>0 DEF Handle, PayHandler, PayRead, PayWrite, FindJob, Promote, TimeOut, PayDies, Goto, Answer, Paying
    <1>15. ASSUME NEW i \in Invoices, Process(i) PROVE OrderFollowsInvoice'
        BY <1>15, <1>0 DEF Process, Due, Notifier, Take, NotifierRead, ExpireRead, ExpireWrite, Stall, Work, Fail
    <1>16. ASSUME NEW i \in Invoices, Notified(i) PROVE OrderFollowsInvoice'
        BY <1>16, <1>0 DEF Notified, Settle, Posted, PostFails, Work, Fail
    <1>17. ASSUME NEW i \in Invoices, NotNotified(i) PROVE OrderFollowsInvoice'
        BY <1>17, <1>0 DEF NotNotified, PostFails, Work, Fail
    <1> QED BY <1>1, <1>2, <1>3, <1>4, <1>5, <1>6, <1>7, <1>8, <1>9,
               <1>10, <1>11, <1>12, <1>13, <1>14, <1>15, <1>16, <1>17
            DEF Next, User

-----------------------------------------------------------------------------
LEMMA Starts == Init => Inv
    <1> SUFFICES ASSUME Init PROVE Inv
        OBVIOUS
    <1>1. AgentInv /\ PaymentInv
        BY AgentStarts, PaymentStarts DEF Init
    <1>2. OrderType /\ Billing /\ NoForgottenOrder /\ OrderFollowsInvoice
        BY DEF Init, OrderType, Billing, NoForgottenOrder, OrderFollowsInvoice
    <1>3. Payer
        BY DEF Init, Payer, Bought, AgentInit, PaymentInit
    <1> QED BY <1>1, <1>2, <1>3 DEF Inv

LEMMA Keeps == Inv /\ [Next]_vars => Inv'
    <1> SUFFICES ASSUME Inv, [Next]_vars PROVE Inv'
        OBVIOUS
    <1>1. AgentInv'
        BY AgentPart, AgentStep DEF Inv
    <1>2. PaymentInv'
        <2>1. OneMode
            BY DEF Inv, Payer, OneMode
        <2> QED BY <2>1, PaymentPart, PaymentStep DEF Inv
    <1>3. CASE Next
        BY <1>1, <1>2, <1>3, Orders, Bills, Payers, Remembers, Follows DEF Inv
    <1>4. CASE UNCHANGED vars
        <2> USE <1>4 DEF vars, agentVars, paymentVars, callVars, jobVars, workerVars, orderVars
        <2>1. OrderType' /\ Billing'
            BY DEF Inv, OrderType, Billing
        <2>2. Payer'
            BY DEF Inv, Payer, Bought
        <2>3. NoForgottenOrder' /\ OrderFollowsInvoice'
            BY DEF Inv, NoForgottenOrder, OrderFollowsInvoice
        <2> QED BY <1>1, <1>2, <2>1, <2>2, <2>3 DEF Inv
    <1> QED BY <1>3, <1>4

LEMMA Invariant == Spec => []Inv
    BY Starts, Keeps, PTL DEF Spec

\* A virtual user among the services behaves as one iteration does on its own.
THEOREM ImplementsAgent == Spec => AgentSpec
    <1>1. Init => AgentInit
        BY DEF Init
    <1> QED BY <1>1, AgentPart, PTL DEF Spec, AgentSpec

\* The payment service behaves as on its own, whatever the user and the backend do.
THEOREM ImplementsPayment == Spec => PaymentSpec
    <1>1. Init => PaymentInit
        BY DEF Init
    <1>2. Inv /\ [Next]_vars => [PaymentNext]_paymentVars
        BY PaymentPart DEF Inv
    <1> QED BY <1>1, <1>2, Invariant, PTL DEF Spec, PaymentSpec

\* For any profiles, invoices, attempts and faults, all variables keep their types.
THEOREM PurchaseTypeCorrect == Spec => []TypeOK
    <1>1. Inv => TypeOK
        BY DEF Inv, AgentInv, PaymentInv, Orderly, OrderType, TypeOK
    <1> QED BY <1>1, Invariant, PTL

\* An iteration among the services is counted once.
THEOREM PurchaseReportsOnce == Spec => []ReportedOnce
    BY ImplementsAgent, AgentReportsOnce, PTL

\* An invoice that has settled is not settled otherwise, unless the expiry comes between
\* the read and the write of a payment: the whole race of payInvoice and expireInvoice.
THEOREM PurchaseSettlesOnce == Spec => InvoiceSettlesOnce
    <1>1. ASSUME Inv, [Next]_vars
          PROVE  [\A i \in Invoices : invoice[i] \in Settled /\ i \notin overtaken'
                                          => invoice'[i] = invoice[i]]_vars
        BY <1>1, PaymentPart, Settling DEF Inv
    <1> QED BY <1>1, Invariant, PTL DEF Spec, InvoiceSettlesOnce

\* Among a user and the backend, which supply that payments agree, the payment service
\* is a gateway whose invoices end once and whose notifications tell how, in every
\* execution in which no expiry overtakes a payment.
THEOREM PurchaseImplementsGateway == Spec /\ [](overtaken = {}) => ImplementsGateway
    <1>1. Inv => OneMode
        BY DEF Inv, Payer, OneMode
    <1> QED BY <1>1, Invariant, ImplementsPayment, PaymentImplementsGateway, PTL

\* The status of an order is that of its invoice, under the same exception.
THEOREM PurchaseOrderFollows == Spec => []OrderFollowsInvoice
    <1>1. Inv => OrderFollowsInvoice
        BY DEF Inv
    <1> QED BY <1>1, Invariant, PTL

\* An order that waits for its payment has a job that will tell it, or that failed.
THEOREM PurchaseForgetsNoOrder == Spec => []NoForgottenOrder
    <1>1. Inv => NoForgottenOrder
        BY DEF Inv
    <1> QED BY <1>1, Invariant, PTL
-----------------------------------------------------------------------------
(* The end states of the metric.                                           *)

\* The end states that say what became of the order.
Telling == {"SUCCESS_PURCHASED", "SUCCESS_PAYMENT_FAILED_EXPECTED", "ERROR_UNEXPECTED_ORDER_STATE"}

\* What is reported tells nothing of the order.
Quiet(states) == \A k \in DOMAIN states : states[k] \notin Telling

LEMMA QuietExit ==
    ASSUME AgentInv, pc # "done", NEW e, e \notin Telling, Exit(e)
    PROVE  Quiet(reported')
    BY DEF AgentInv, Underway, Exit, Report, Quiet

LEMMA QuietThrow == ASSUME AgentInv, pc # "done", Throw PROVE Quiet(reported')
    BY QuietExit DEF Throw, Telling

LEMMA QuietTries ==
    ASSUME AgentInv, pc # "done", NEW start, NEW e, e \notin Telling, TryAgain(start, e)
    PROVE  /\ Quiet(reported')
           /\ pc' = start \/ pc' = "done"
    <1>1. reported' = reported => Quiet(reported')
        BY DEF AgentInv, Underway, Quiet
    <1>2. Exit(e) => pc' = "done"
        BY DEF Exit, Report
    <1> QED BY <1>1, <1>2, QuietExit DEF TryAgain

LEMMA QuietPhase ==
    ASSUME AgentInv, pc # "done", NEW next, Phase(next)
    PROVE  Quiet(reported') /\ pc' = next
    BY DEF Phase, AgentInv, Underway, Quiet

\* Nothing that happens before the user looks at its order tells of the order.
LEMMA QuietBefore ==
    ASSUME AgentInv,
           NEW a, GetEvent(a) \/ SearchArea(a) \/ FetchSeats(a) \/ AnswerOrder(a)
    PROVE  Quiet(reported')
    <1>0. reported' = reported /\ pc # "done" => Quiet(reported')
        BY DEF AgentInv, Underway, Quiet
    <1>1. CASE GetEvent(a)
        BY <1>1, QuietPhase, QuietTries, QuietThrow DEF GetEvent, Telling
    <1>2. CASE SearchArea(a)
        <2>1. Quiet(<<"FAIL_SEAT_NOT_FOUND", "FAIL_ORDER_ATTEMPTS_EXCEEDED">>)
            BY DEF Quiet, Telling
        <2>2. ASSUME Report(<<"FAIL_SEAT_NOT_FOUND", "FAIL_ORDER_ATTEMPTS_EXCEEDED">>), pc # "done"
              PROVE  Quiet(reported')
            BY <2>1, <2>2 DEF Report, AgentInv, Underway
        <2> QED BY <1>0, <1>2, <2>2, QuietPhase, QuietThrow DEF SearchArea
    <1>3. CASE FetchSeats(a)
        BY <1>0, <1>3, QuietPhase, QuietThrow DEF FetchSeats, BrowseAnew
    <1>4. CASE AnswerOrder(a)
        <2>1. Quiet(<<"FAIL_ORDER_ATTEMPTS_EXCEEDED">>)
            BY DEF Quiet, Telling
        <2>2. ASSUME NextAttempt, pc # "done" PROVE Quiet(reported')
            BY <1>0, <2>1, <2>2 DEF NextAttempt, Report, AgentInv, Underway
        <2> QED BY <1>0, <1>4, <2>2, QuietExit DEF AnswerOrder, SpinOrder, Telling
    <1> QED BY <1>1, <1>2, <1>3, <1>4

LEMMA AfterPayment ==
    ASSUME AgentInv, NEW a, AnswerPayment(a)
    PROVE  /\ pc = "paying" /\ Quiet(reported')
           /\ (pc' = "verify" /\ a = "ok") \/ pc' \in {"pay", "done"}
    <1>0. pc = "paying"
        BY DEF AnswerPayment
    <1>1. CASE a = "ok" /\ Phase("verify")
        BY <1>0, <1>1, QuietPhase
    <1>2. CASE TryAgain("pay", "FAIL_PAYMENT_SYSTEM_ERROR")
        BY <1>0, <1>2, QuietTries DEF Telling
    <1>3. CASE Throw
        BY <1>0, <1>3, QuietThrow DEF Throw, Exit, Report
    <1> QED BY <1>0, <1>1, <1>2, <1>3 DEF AnswerPayment

LEMMA AfterVerify ==
    ASSUME AgentInv, NEW a, VerifyOrder(a)
    PROVE  /\ pc = "verify"
           /\ \/ pc' = "verify" /\ Quiet(reported')
              \/ pc' = "tickets" /\ a = "success" /\ payMode = "success" /\ Quiet(reported')
              \/ /\ pc' = "done" /\ a = "failed" /\ payMode = "failed"
                 /\ reported' = <<"SUCCESS_PAYMENT_FAILED_EXPECTED">>
              \/ /\ pc' = "done" /\ a \in {"success", "failed"} \ {Wanted}
                 /\ reported' = <<"ERROR_UNEXPECTED_ORDER_STATE">>
              \/ pc' = "done" /\ Quiet(reported')
    <1>0. pc = "verify"
        BY DEF VerifyOrder
    <1>1. CASE a = Wanted /\ payMode = "success" /\ Phase("tickets")
        BY <1>0, <1>1, QuietPhase DEF Wanted
    <1>2. CASE a = Wanted /\ payMode = "failed" /\ Exit("SUCCESS_PAYMENT_FAILED_EXPECTED")
        BY <1>0, <1>2 DEF Wanted, Exit, Report, AgentInv, Underway
    <1>3. CASE a \in {"success", "failed"} \ {Wanted} /\ Exit("ERROR_UNEXPECTED_ORDER_STATE")
        BY <1>0, <1>3 DEF Exit, Report, AgentInv, Underway
    <1>4. CASE TryAgain("verify", "FAIL_ORDER_VERIFICATION")
        BY <1>0, <1>4, QuietTries DEF Telling
    <1>5. CASE Throw
        BY <1>0, <1>5, QuietThrow DEF Throw, Exit, Report
    <1> QED BY <1>0, <1>1, <1>2, <1>3, <1>4, <1>5 DEF VerifyOrder

LEMMA AfterTickets ==
    ASSUME AgentInv, NEW a, GetTickets(a)
    PROVE  /\ pc = "tickets"
           /\ \/ pc' = "done" /\ reported' = <<"SUCCESS_PURCHASED">>
              \/ pc' \in {"tickets", "done"} /\ Quiet(reported')
    <1>0. pc = "tickets"
        BY DEF GetTickets
    <1>1. CASE Exit("SUCCESS_PURCHASED")
        BY <1>0, <1>1 DEF Exit, Report, AgentInv, Underway
    <1>2. CASE TryAgain("tickets", "FAIL_TICKET_ISSUANCE")
        BY <1>0, <1>2, QuietTries DEF Telling
    <1>3. CASE Throw
        BY <1>0, <1>3, QuietThrow DEF Throw, Exit, Report
    <1> QED BY <1>0, <1>1, <1>2, <1>3 DEF GetTickets

\* A payment that was answered with success is in the invoice.
Answered ==
    \A c \in Calls :
        /\ c[1] \notin overtaken /\ (call[c] \in {"find", "promote"} \/ answer[c] = "ok")
               => invoice[c[1]] = Outcome(mode[c])
        /\ call[c] = "none" => answer[c] = "none"

\* Paid is paid: with no payment that asks for anything else, it is for good, and so is
\* the success of the order.
Success ==
    \A i \in Invoices :
        /\ invoice[i] = "paid" => payMode = "success" /\ pc \in Bought \cup {"done"}
        /\ worker[i] = "post" /\ seen[i] = "paid" => invoice[i] = "paid"
        /\ order[i] = "success" => /\ invoice[i] = "paid" /\ worker[i] # "write"
                                   /\ worker[i] = "post" => seen[i] = "paid"

\* What the user goes by when it looks at its order.
Confirmed ==
    /\ pc \in {"verify", "tickets"} /\ mine \notin overtaken => invoice[mine] = Outcome(payMode)
    /\ pc = "tickets" => order[mine] = "success"

\* EndStateTrue, with what keeps it true.
Told ==
    /\ EndStateTrue
    /\ \A k \in DOMAIN reported :
          reported[k] \in Telling =>
              /\ pc = "done" /\ mine \in Invoices
              /\ reported[k] = "SUCCESS_PAYMENT_FAILED_EXPECTED" => payMode = "failed"

EndInv == Inv /\ Answered /\ Success /\ Confirmed /\ Told

\* An answer of success stays true.
LEMMA Answers ==
    ASSUME EndInv, Next
    PROVE  Answered'
    <1> USE DEF EndInv, Inv, Answered, Payer, Bought, AgentInv, PaymentInv, Orderly, PaymentTypeOK, Settled, Outcome,
                agentVars, callVars, jobVars, workerVars, paymentVars, orderVars
    <1>0. \A i \in Invoices :
             invoice[i] \in Settled /\ i \notin overtaken' => invoice'[i] = invoice[i]
        BY PaymentPart, Settling
    <1>1. CASE Look
        BY <1>1, <1>0, Looking DEF Look
    <1>2. CASE Order
        BY <1>2, <1>0 DEF Order, SendOrder
    <1>3. CASE Refused
        BY <1>3, <1>0, Ordering DEF Refused
    <1>4. ASSUME NEW i \in Invoices, Bill(i) PROVE Answered'
        BY <1>4, <1>0 DEF Bill, Store
    <1>5. ASSUME NEW i \in Invoices, Created(i) PROVE Answered'
        BY <1>5, <1>0 DEF Created, AddJob, CreateDies
    <1>6. CASE Rollback
        BY <1>6, <1>0, Ordering DEF Rollback
    <1>7. CASE Commit
        BY <1>7, <1>0, Ordering DEF Commit
    <1>8. CASE CommitLost
        BY <1>8, <1>0, Ordering DEF CommitLost
    <1>9. CASE Repeated
        BY <1>9, <1>0, Ordering DEF Repeated
    <1>10. CASE Pay
        BY <1>10, <1>0, PayCallOf DEF Pay, SendPayment, Arrive, Goto
    <1>11. CASE Paid
        BY <1>11, <1>0, Finishing DEF Paid
    <1>12. CASE Verify
        BY <1>12, <1>0, Finishing DEF Verify
    <1>13. ASSUME NEW i \in Invoices, Expires(i) PROVE Answered'
        BY <1>13, <1>0 DEF Expires, Late
    <1>14. ASSUME NEW c \in Calls, Handle(c) PROVE Answered'
        BY <1>14, <1>0, CallOf DEF Handle, PayHandler, PayRead, PayWrite, FindJob, Promote, TimeOut, PayDies, Goto, Answer, Paying
    <1>15. ASSUME NEW i \in Invoices, Process(i) PROVE Answered'
        <2>1. overtaken \subseteq overtaken' /\ UNCHANGED callVars
            BY <1>15 DEF Process, Due, Notifier, Take, NotifierRead, ExpireRead, ExpireWrite, Stall,
                         Fail
        <2> QED BY <1>0, <2>1, CallOf
    <1>16. ASSUME NEW i \in Invoices, Notified(i) PROVE Answered'
        BY <1>16, <1>0 DEF Notified, Settle, Posted, PostFails, Work, Fail
    <1>17. ASSUME NEW i \in Invoices, NotNotified(i) PROVE Answered'
        BY <1>17, <1>0 DEF NotNotified, PostFails, Work, Fail
    <1> QED BY <1>1, <1>2, <1>3, <1>4, <1>5, <1>6, <1>7, <1>8, <1>9,
               <1>10, <1>11, <1>12, <1>13, <1>14, <1>15, <1>16, <1>17
            DEF Next, User

\* No paid invoice is written, and no successful order fails.
LEMMA Succeeds ==
    ASSUME EndInv, Next
    PROVE  Success'
    <1> USE DEF EndInv, Inv, Success, Payer, Bought, OrderType, AgentInv, PaymentInv, Orderly, PaymentTypeOK, Queue, Known, Writes, Outcome, Settled,
                agentVars, callVars, jobVars, workerVars, paymentVars, orderVars
    <1>1. CASE Look
        BY <1>1, Looking DEF Look
    <1>2. CASE Order
        BY <1>2 DEF Order, SendOrder
    <1>3. CASE Refused
        BY <1>3, Ordering DEF Refused
    <1>4. ASSUME NEW i \in Invoices, Bill(i) PROVE Success'
        BY <1>4 DEF Bill, Store
    <1>5. ASSUME NEW i \in Invoices, Created(i) PROVE Success'
        BY <1>5 DEF Created, AddJob, CreateDies
    <1>6. CASE Rollback
        BY <1>6, Ordering DEF Rollback
    <1>7. CASE Commit
        BY <1>7, Ordering DEF Commit
    <1>8. CASE CommitLost
        BY <1>8, Ordering DEF CommitLost
    <1>9. CASE Repeated
        BY <1>9, Ordering DEF Repeated
    <1>10. CASE Pay
        BY <1>10, PayCallOf DEF Pay, SendPayment, Arrive, Goto
    <1>11. CASE Paid
        BY <1>11, Finishing DEF Paid
    <1>12. CASE Verify
        BY <1>12, Finishing DEF Verify
    <1>13. ASSUME NEW i \in Invoices, Expires(i) PROVE Success'
        BY <1>13 DEF Expires, Late
    <1>14. ASSUME NEW c \in Calls, Handle(c) PROVE Success'
        BY <1>14, CallOf DEF Handle, PayHandler, PayRead, PayWrite, FindJob, Promote, TimeOut, PayDies, Goto, Answer, Paying
    <1>15. ASSUME NEW i \in Invoices, Process(i) PROVE Success'
        BY <1>15 DEF Process, Due, Notifier, Take, NotifierRead, ExpireRead, ExpireWrite, Stall, Work, Fail
    <1>16. ASSUME NEW i \in Invoices, Notified(i) PROVE Success'
        BY <1>16 DEF Notified, Settle, Posted, PostFails, Work, Fail
    <1>17. ASSUME NEW i \in Invoices, NotNotified(i) PROVE Success'
        BY <1>17 DEF NotNotified, PostFails, Work, Fail
    <1> QED BY <1>1, <1>2, <1>3, <1>4, <1>5, <1>6, <1>7, <1>8, <1>9,
               <1>10, <1>11, <1>12, <1>13, <1>14, <1>15, <1>16, <1>17
            DEF Next, User

\* What the user has seen of its order stays true.
LEMMA Confirms ==
    ASSUME EndInv, Next
    PROVE  Confirmed'
    <1> USE DEF EndInv, Inv, Confirmed, Answered, Success, Payer, Billing, Bought, OrderType, AgentInv, PaymentInv, Orderly, PaymentTypeOK, Outcome, Settled,
                agentVars, callVars, jobVars, workerVars, paymentVars, orderVars
    <1>0. \A i \in Invoices :
             invoice[i] \in Settled /\ i \notin overtaken' => invoice'[i] = invoice[i]
        BY PaymentPart, Settling
    <1>1. CASE Look
        BY <1>1, <1>0, Looking, QuietBefore DEF Look
    <1>2. CASE Order
        BY <1>2, <1>0 DEF Order, SendOrder
    <1>3. CASE Refused
        BY <1>3, <1>0, Ordering, QuietBefore DEF Refused
    <1>4. ASSUME NEW i \in Invoices, Bill(i) PROVE Confirmed'
        BY <1>4, <1>0 DEF Bill, Store
    <1>5. ASSUME NEW i \in Invoices, Created(i) PROVE Confirmed'
        BY <1>5, <1>0 DEF Created, AddJob, CreateDies
    <1>6. CASE Rollback
        BY <1>6, <1>0, Ordering, QuietBefore DEF Rollback
    <1>7. CASE Commit
        BY <1>7, <1>0, Ordering, QuietBefore DEF Commit
    <1>8. CASE CommitLost
        BY <1>8, <1>0, Ordering, QuietBefore DEF CommitLost
    <1>9. CASE Repeated
        BY <1>9, <1>0, Ordering, QuietBefore DEF Repeated
    <1>10. CASE Pay
        BY <1>10, <1>0, PayCallOf DEF Pay, SendPayment, Arrive, Goto
    <1>11. CASE Paid
        <2>1. PICK reply : AnswerPayment(reply) /\ (reply = answer[PayCall] \/ reply = "broken")
            BY <1>11 DEF Paid
        <2>2. UNCHANGED <<paymentVars, orderVars>> /\ payMode' = payMode
            BY <1>11, Finishing DEF Paid
        <2>3. CASE pc' = "verify" /\ reply = "ok"
            <3>1. pc = "paying" /\ PayCall \in Calls /\ PayCall[1] = mine /\ answer[PayCall] = "ok"
                BY <2>1, <2>3, AfterPayment, PayCallOf
            <3>2. call[PayCall] # "none" /\ mode[PayCall] = payMode
                BY <3>1
            <3>3. mine \notin overtaken => invoice[mine] = Outcome(payMode)
                BY <3>1, <3>2
            <3> QED BY <2>2, <2>3, <3>3
        <2>4. CASE pc' \in {"pay", "done"}
            BY <2>4
        <2> QED BY <2>1, <2>3, <2>4, AfterPayment
    <1>12. CASE Verify
        BY <1>12, <1>0, Finishing, AfterVerify, AfterTickets DEF Verify
    <1>13. ASSUME NEW i \in Invoices, Expires(i) PROVE Confirmed'
        BY <1>13, <1>0 DEF Expires, Late
    <1>14. ASSUME NEW c \in Calls, Handle(c) PROVE Confirmed'
        BY <1>14, <1>0, CallOf DEF Handle, PayHandler, PayRead, PayWrite, FindJob, Promote, TimeOut, PayDies, Goto, Answer, Paying
    <1>15. ASSUME NEW i \in Invoices, Process(i) PROVE Confirmed'
        BY <1>15, <1>0 DEF Process, Due, Notifier, Take, NotifierRead, ExpireRead, ExpireWrite, Stall, Work, Fail
    <1>16. ASSUME NEW i \in Invoices, Notified(i) PROVE Confirmed'
        BY <1>16, <1>0 DEF Notified, Settle, Posted, PostFails, Work, Fail
    <1>17. ASSUME NEW i \in Invoices, NotNotified(i) PROVE Confirmed'
        BY <1>17, <1>0 DEF NotNotified, PostFails, Work, Fail
    <1> QED BY <1>1, <1>2, <1>3, <1>4, <1>5, <1>6, <1>7, <1>8, <1>9,
               <1>10, <1>11, <1>12, <1>13, <1>14, <1>15, <1>16, <1>17
            DEF Next, User

\* What was reported was true, and stays true.
LEMMA Tells ==
    ASSUME EndInv, Next
    PROVE  Told'
    <1> USE DEF EndInv, Inv, Told, EndStateTrue, Confirmed, Success, Payer, Billing, Bought, OrderType, OrderFollowsInvoice, Queue, Writes, Quiet, Telling, AgentInv, Underway, PaymentInv, Orderly, PaymentTypeOK, Outcome, Settled, Wanted,
                agentVars, callVars, jobVars, workerVars, paymentVars, orderVars
    <1>1. CASE Look
        BY <1>1, Looking, QuietBefore DEF Look
    <1>2. CASE Order
        BY <1>2 DEF Order, SendOrder
    <1>3. CASE Refused
        BY <1>3, Ordering, QuietBefore DEF Refused
    <1>4. ASSUME NEW i \in Invoices, Bill(i) PROVE Told'
        BY <1>4 DEF Bill, Store
    <1>5. ASSUME NEW i \in Invoices, Created(i) PROVE Told'
        BY <1>5 DEF Created, AddJob, CreateDies
    <1>6. CASE Rollback
        BY <1>6, Ordering, QuietBefore DEF Rollback
    <1>7. CASE Commit
        BY <1>7, Ordering, QuietBefore DEF Commit
    <1>8. CASE CommitLost
        BY <1>8, Ordering, QuietBefore DEF CommitLost
    <1>9. CASE Repeated
        BY <1>9, Ordering, QuietBefore DEF Repeated
    <1>10. CASE Pay
        BY <1>10, PayCallOf DEF Pay, SendPayment, Arrive, Goto
    <1>11. CASE Paid
        BY <1>11, Finishing, AfterPayment DEF Paid
    <1>12. CASE Verify
        <2>1. mine \in Invoices /\ UNCHANGED <<paymentVars, orderVars, payMode>>
            BY <1>12, Finishing DEF Verify
        <2>2. CASE \E reply \in {order[mine], "error", "broken"} : VerifyOrder(reply)
            <3>1. PICK reply \in {order[mine], "error", "broken"} : VerifyOrder(reply)
                BY <2>2
            <3>2. reply \in {"success", "failed"} => reply = order[mine]
                OBVIOUS
            <3>3. reply \in {"success", "failed"} \ {Wanted} => mine \in overtaken
                <4> SUFFICES ASSUME order[mine] \in {"success", "failed"} \ {Wanted},
                                    mine \notin overtaken
                             PROVE  FALSE
                    BY <3>2
                <4>1. invoice[mine] = Outcome(payMode)
                    BY <3>1, AfterVerify
                <4> QED BY <2>1, <4>1
            <3> QED BY <2>1, <3>1, <3>2, <3>3, AfterVerify
        <2>3. CASE \E reply \in TicketsAnswers : GetTickets(reply)
            BY <2>1, <2>3, AfterTickets
        <2> QED BY <1>12, <2>2, <2>3 DEF Verify
    <1>13. ASSUME NEW i \in Invoices, Expires(i) PROVE Told'
        BY <1>13 DEF Expires, Late
    <1>14. ASSUME NEW c \in Calls, Handle(c) PROVE Told'
        BY <1>14, CallOf DEF Handle, PayHandler, PayRead, PayWrite, FindJob, Promote, TimeOut, PayDies, Goto, Answer, Paying
    <1>15. ASSUME NEW i \in Invoices, Process(i) PROVE Told'
        BY <1>15 DEF Process, Due, Notifier, Take, NotifierRead, ExpireRead, ExpireWrite, Stall, Work, Fail
    <1>16. ASSUME NEW i \in Invoices, Notified(i) PROVE Told'
        BY <1>16 DEF Notified, Settle, Posted, PostFails, Work, Fail
    <1>17. ASSUME NEW i \in Invoices, NotNotified(i) PROVE Told'
        BY <1>17 DEF NotNotified, PostFails, Work, Fail
    <1> QED BY <1>1, <1>2, <1>3, <1>4, <1>5, <1>6, <1>7, <1>8, <1>9,
               <1>10, <1>11, <1>12, <1>13, <1>14, <1>15, <1>16, <1>17
            DEF Next, User

LEMMA EndStarts == Init => EndInv
    <1> SUFFICES ASSUME Init PROVE EndInv
        OBVIOUS
    <1>1. Answered /\ Success /\ Confirmed
        BY DEF Init, AgentInit, PaymentInit, Answered, Success, Confirmed
    <1>2. Told
        BY DEF Init, AgentInit, Told, EndStateTrue
    <1> QED BY <1>1, <1>2, Starts DEF EndInv

LEMMA EndKeeps == EndInv /\ [Next]_vars => EndInv'
    <1> SUFFICES ASSUME EndInv, [Next]_vars PROVE EndInv'
        OBVIOUS
    <1>1. Inv'
        BY Keeps DEF EndInv
    <1>2. CASE Next
        BY <1>1, <1>2, Answers, Succeeds, Confirms, Tells DEF EndInv
    <1>3. CASE UNCHANGED vars
        <2> USE <1>3 DEF vars, agentVars, paymentVars, callVars, jobVars, workerVars, orderVars
        <2>1. Answered' /\ Success' /\ Confirmed'
            BY DEF EndInv, Answered, Success, Confirmed
        <2>2. Told'
            BY DEF EndInv, Told, EndStateTrue
        <2> QED BY <1>1, <2>1, <2>2 DEF EndInv
    <1> QED BY <1>2, <1>3

\* What the load test counts as a success is what became of the order, and only a payment
\* that the expiry overtook leaves the user with an order it did not expect.
THEOREM PurchaseEndStateTrue == Spec => []EndStateTrue
    <1>1. EndInv => EndStateTrue
        BY DEF EndInv, Told
    <1> QED BY <1>1, EndStarts, EndKeeps, PTL DEF Spec
=============================================================================
