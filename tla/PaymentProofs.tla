--------------------------- MODULE PaymentProofs ---------------------------
(***************************************************************************)
(* Proofs about the payment service, for any number of invoices, calls and *)
(* faults: the types, and how payments and expiry share an invoice.        *)
(***************************************************************************)
EXTENDS Payment, TLAPS

\* A worker is busy with a job exactly while the job is active, a job that has not
\* failed has an attempt left, and only a job that was added can fail.
Queue ==
    \A i \in Invoices :
        /\ worker[i] # "idle" <=> job[i] = "active"
        /\ job[i] # "failed" => failures[i] < MaxAttempts
        /\ job[i] = "none" => failures[i] = 0

\* What is done for an invoice is done after it is stored, and what follows the write
\* of a payment is done when the invoice has settled.
Known ==
    /\ \A i \in Invoices :
          /\ i \in creating \/ i \in late \/ job[i] # "none" => invoice[i] # "none"
          /\ i \in creating => job[i] = "none"
    /\ \A c \in Calls :
          /\ call[c] # "none" => invoice[c[1]] # "none"
          /\ call[c] \in {"find", "promote"} => invoice[c[1]] \in Settled

\* The job of an invoice has been due.
Begun(i) == job[i] \notin {"none", "delayed"} \/ failures[i] > 0

Outcome(m) == IF m = "success" THEN "paid" ELSE "failed"

\* A job is due once its invoice is late or settled; a payment that is then about to
\* write was overtaken, or comes after another payment.
Races ==
    /\ \A i \in Invoices : Begun(i) => i \in late \/ invoice[i] \in Settled
    /\ \A c \in Calls :
          Begun(c[1]) /\ call[c] = "write" => c[1] \in overtaken \/ invoice[c[1]] \in Settled

\* The worker that is about to write an invoice as expired finds it as it read it,
\* a payment that is about to write a settled invoice writes what is there, and
\* the worker posts what is there, all unless the payment was overtaken.
Writes ==
    /\ \A i \in Invoices \ overtaken :
          worker[i] = "write" => /\ invoice[i] = "pending"
                                 /\ \A c \in Calls : c[1] = i => call[c] # "write"
    /\ \A c \in Calls :
          call[c] = "write" /\ invoice[c[1]] \in Settled /\ c[1] \notin overtaken
              => invoice[c[1]] = Outcome(mode[c])
    /\ \A i \in Invoices :
          worker[i] = "post" => /\ seen[i] \in Settled
                                /\ i \notin overtaken => seen[i] = invoice[i]

\* Only a late invoice is or will be expired; an invoice that is about to be written as
\* expired is pending and an expired one stays so, unless the expiry overtook a payment.
Expiry ==
    /\ \A i \in Invoices :
          worker[i] \in {"expire", "write"} \/ "expired" \in {seen[i], invoice[i]} => i \in late
    /\ \A i \in Invoices \ overtaken :
          /\ worker[i] = "write" => invoice[i] = "pending"
          /\ worker[i] = "write" \/ invoice[i] = "expired" =>
                 \A c \in Calls : c[1] = i => call[c] # "write"

Orderly == PaymentTypeOK /\ Queue /\ Known /\ Races
PaymentInv == Orderly /\ Writes

\* The payment calls for an invoice all ask for the same outcome, as those of one
\* user do.
OneMode ==
    \A c, d \in Calls :
        c[1] = d[1] /\ call[c] # "none" /\ call[d] # "none" => mode[c] = mode[d]

LEMMA CallOf == \A c \in Calls : c[1] \in Invoices
    BY DEF Calls

LEMMA PaymentStarts == PaymentInit => PaymentInv
    <1> SUFFICES ASSUME PaymentInit PROVE PaymentInv
        OBVIOUS
    <1>1. PaymentTypeOK
        BY PaymentAssumption DEF PaymentInit, PaymentTypeOK
    <1>2. Queue
        BY PaymentAssumption DEF PaymentInit, Queue
    <1>3. Known
        BY CallOf DEF PaymentInit, Known
    <1>4. Races
        BY CallOf DEF PaymentInit, Races, Begun
    <1>5. Writes
        BY CallOf DEF PaymentInit, Writes
    <1> QED BY <1>1, <1>2, <1>3, <1>4, <1>5 DEF PaymentInv, Orderly

\* No step breaks the types.
LEMMA Typed ==
    ASSUME Orderly, PaymentNext
    PROVE  PaymentTypeOK'
    <1> USE CallOf, PaymentAssumption DEF Orderly, callVars, jobVars, workerVars, PaymentTypeOK, Queue, InvoiceStatus, Settled
    <1>1. ASSUME NEW i \in Invoices, Store(i) PROVE PaymentTypeOK'
        BY <1>1 DEF Store
    <1>2. ASSUME NEW i \in Invoices, AddJob(i) PROVE PaymentTypeOK'
        BY <1>2 DEF AddJob
    <1>3. ASSUME NEW i \in Invoices, CreateDies(i) PROVE PaymentTypeOK'
        BY <1>3 DEF CreateDies, Fault
    <1>4. ASSUME NEW i \in Invoices, Late(i) PROVE PaymentTypeOK'
        BY <1>4 DEF Late
    <1>5. ASSUME NEW i \in Invoices, Due(i) PROVE PaymentTypeOK'
        BY <1>5 DEF Due
    <1>6. ASSUME NEW i \in Invoices, Take(i) PROVE PaymentTypeOK'
        BY <1>6 DEF Take
    <1>7. ASSUME NEW i \in Invoices, NotifierRead(i) PROVE PaymentTypeOK'
        BY <1>7 DEF NotifierRead, Work
    <1>8. ASSUME NEW i \in Invoices, ExpireRead(i) PROVE PaymentTypeOK'
        BY <1>8 DEF ExpireRead, Work, Fail
    <1>9. ASSUME NEW i \in Invoices, ExpireWrite(i) PROVE PaymentTypeOK'
        BY <1>9 DEF ExpireWrite, Work
    <1>10. ASSUME NEW i \in Invoices, Posted(i) PROVE PaymentTypeOK'
        BY <1>10 DEF Posted, Work
    <1>11. ASSUME NEW i \in Invoices, PostFails(i) PROVE PaymentTypeOK'
        BY <1>11 DEF PostFails, Work, Fail, Fault
    <1>12. ASSUME NEW i \in Invoices, Stall(i) PROVE PaymentTypeOK'
        BY <1>12 DEF Stall, Work, Fault
    <1>13. ASSUME NEW c \in Calls, NEW m \in {"success", "failed"}, Arrive(c, m) PROVE PaymentTypeOK'
        BY <1>13 DEF Arrive, Goto
    <1>14. ASSUME NEW c \in Calls, PayRead(c) PROVE PaymentTypeOK'
        BY <1>14 DEF PayRead, Answer, Goto
    <1>15. ASSUME NEW c \in Calls, PayWrite(c) PROVE PaymentTypeOK'
        BY <1>15 DEF PayWrite, Goto
    <1>16. ASSUME NEW c \in Calls, FindJob(c) PROVE PaymentTypeOK'
        BY <1>16 DEF FindJob, Answer, Goto
    <1>17. ASSUME NEW c \in Calls, Promote(c) PROVE PaymentTypeOK'
        BY <1>17 DEF Promote, Answer
    <1>18. ASSUME NEW c \in Calls, TimeOut(c) PROVE PaymentTypeOK'
        BY <1>18 DEF TimeOut, Fault, Paying
    <1>19. ASSUME NEW c \in Calls, PayDies(c) PROVE PaymentTypeOK'
        BY <1>19 DEF PayDies, Goto, Fault, Paying
    <1> QED BY <1>1, <1>2, <1>3, <1>4, <1>5, <1>6, <1>7, <1>8, <1>9, <1>10,
               <1>11, <1>12, <1>13, <1>14, <1>15, <1>16, <1>17, <1>18, <1>19
            DEF PaymentNext, Notifier, PayHandler

\* No step breaks the bookkeeping of the jobs.
LEMMA Queued ==
    ASSUME Orderly, PaymentNext
    PROVE  Queue'
    <1> USE CallOf, PaymentAssumption DEF Orderly, callVars, jobVars, workerVars, PaymentTypeOK, Queue, Known, Settled, InvoiceStatus
    <1>1. ASSUME NEW i \in Invoices, Store(i) PROVE Queue'
        BY <1>1 DEF Store
    <1>2. ASSUME NEW i \in Invoices, AddJob(i) PROVE Queue'
        BY <1>2 DEF AddJob
    <1>3. ASSUME NEW i \in Invoices, CreateDies(i) PROVE Queue'
        BY <1>3 DEF CreateDies, Fault
    <1>4. ASSUME NEW i \in Invoices, Late(i) PROVE Queue'
        BY <1>4 DEF Late
    <1>5. ASSUME NEW i \in Invoices, Due(i) PROVE Queue'
        BY <1>5 DEF Due
    <1>6. ASSUME NEW i \in Invoices, Take(i) PROVE Queue'
        BY <1>6 DEF Take
    <1>7. ASSUME NEW i \in Invoices, NotifierRead(i) PROVE Queue'
        BY <1>7 DEF NotifierRead, Work
    <1>8. ASSUME NEW i \in Invoices, ExpireRead(i) PROVE Queue'
        BY <1>8 DEF ExpireRead, Work, Fail
    <1>9. ASSUME NEW i \in Invoices, ExpireWrite(i) PROVE Queue'
        BY <1>9 DEF ExpireWrite, Work
    <1>10. ASSUME NEW i \in Invoices, Posted(i) PROVE Queue'
        BY <1>10 DEF Posted, Work
    <1>11. ASSUME NEW i \in Invoices, PostFails(i) PROVE Queue'
        BY <1>11 DEF PostFails, Work, Fail, Fault
    <1>12. ASSUME NEW i \in Invoices, Stall(i) PROVE Queue'
        BY <1>12 DEF Stall, Work, Fault
    <1>13. ASSUME NEW c \in Calls, NEW m \in {"success", "failed"}, Arrive(c, m) PROVE Queue'
        BY <1>13 DEF Arrive, Goto
    <1>14. ASSUME NEW c \in Calls, PayRead(c) PROVE Queue'
        BY <1>14 DEF PayRead, Answer, Goto
    <1>15. ASSUME NEW c \in Calls, PayWrite(c) PROVE Queue'
        BY <1>15 DEF PayWrite, Goto
    <1>16. ASSUME NEW c \in Calls, FindJob(c) PROVE Queue'
        BY <1>16 DEF FindJob, Answer, Goto
    <1>17. ASSUME NEW c \in Calls, Promote(c) PROVE Queue'
        BY <1>17 DEF Promote, Answer
    <1>18. ASSUME NEW c \in Calls, TimeOut(c) PROVE Queue'
        BY <1>18 DEF TimeOut, Fault, Paying
    <1>19. ASSUME NEW c \in Calls, PayDies(c) PROVE Queue'
        BY <1>19 DEF PayDies, Goto, Fault, Paying
    <1> QED BY <1>1, <1>2, <1>3, <1>4, <1>5, <1>6, <1>7, <1>8, <1>9, <1>10,
               <1>11, <1>12, <1>13, <1>14, <1>15, <1>16, <1>17, <1>18, <1>19
            DEF PaymentNext, Notifier, PayHandler

\* No step is taken for an invoice that is not there.
LEMMA Knowing ==
    ASSUME Orderly, PaymentNext
    PROVE  Known'
    <1> USE CallOf, PaymentAssumption DEF Orderly, callVars, jobVars, workerVars, PaymentTypeOK, Known, Queue, Settled, InvoiceStatus
    <1>1. ASSUME NEW i \in Invoices, Store(i) PROVE Known'
        BY <1>1 DEF Store
    <1>2. ASSUME NEW i \in Invoices, AddJob(i) PROVE Known'
        BY <1>2 DEF AddJob
    <1>3. ASSUME NEW i \in Invoices, CreateDies(i) PROVE Known'
        BY <1>3 DEF CreateDies, Fault
    <1>4. ASSUME NEW i \in Invoices, Late(i) PROVE Known'
        BY <1>4 DEF Late
    <1>5. ASSUME NEW i \in Invoices, Due(i) PROVE Known'
        BY <1>5 DEF Due
    <1>6. ASSUME NEW i \in Invoices, Take(i) PROVE Known'
        BY <1>6 DEF Take
    <1>7. ASSUME NEW i \in Invoices, NotifierRead(i) PROVE Known'
        BY <1>7 DEF NotifierRead, Work
    <1>8. ASSUME NEW i \in Invoices, ExpireRead(i) PROVE Known'
        BY <1>8 DEF ExpireRead, Work, Fail
    <1>9. ASSUME NEW i \in Invoices, ExpireWrite(i) PROVE Known'
        BY <1>9 DEF ExpireWrite, Work
    <1>10. ASSUME NEW i \in Invoices, Posted(i) PROVE Known'
        BY <1>10 DEF Posted, Work
    <1>11. ASSUME NEW i \in Invoices, PostFails(i) PROVE Known'
        BY <1>11 DEF PostFails, Work, Fail, Fault
    <1>12. ASSUME NEW i \in Invoices, Stall(i) PROVE Known'
        BY <1>12 DEF Stall, Work, Fault
    <1>13. ASSUME NEW c \in Calls, NEW m \in {"success", "failed"}, Arrive(c, m) PROVE Known'
        BY <1>13 DEF Arrive, Goto
    <1>14. ASSUME NEW c \in Calls, PayRead(c) PROVE Known'
        BY <1>14 DEF PayRead, Answer, Goto
    <1>15. ASSUME NEW c \in Calls, PayWrite(c) PROVE Known'
        BY <1>15 DEF PayWrite, Goto
    <1>16. ASSUME NEW c \in Calls, FindJob(c) PROVE Known'
        BY <1>16 DEF FindJob, Answer, Goto
    <1>17. ASSUME NEW c \in Calls, Promote(c) PROVE Known'
        BY <1>17 DEF Promote, Answer
    <1>18. ASSUME NEW c \in Calls, TimeOut(c) PROVE Known'
        BY <1>18 DEF TimeOut, Fault, Paying
    <1>19. ASSUME NEW c \in Calls, PayDies(c) PROVE Known'
        BY <1>19 DEF PayDies, Goto, Fault, Paying
    <1> QED BY <1>1, <1>2, <1>3, <1>4, <1>5, <1>6, <1>7, <1>8, <1>9, <1>10,
               <1>11, <1>12, <1>13, <1>14, <1>15, <1>16, <1>17, <1>18, <1>19
            DEF PaymentNext, Notifier, PayHandler

\* No step is due too early.
LEMMA Racing ==
    ASSUME Orderly, PaymentNext
    PROVE  Races'
    <1> USE CallOf, PaymentAssumption DEF Orderly, callVars, jobVars, workerVars, PaymentTypeOK, Known, Races, Queue, Begun, Settled, InvoiceStatus
    <1>1. ASSUME NEW i \in Invoices, Store(i) PROVE Races'
        BY <1>1 DEF Store
    <1>2. ASSUME NEW i \in Invoices, AddJob(i) PROVE Races'
        BY <1>2 DEF AddJob
    <1>3. ASSUME NEW i \in Invoices, CreateDies(i) PROVE Races'
        BY <1>3 DEF CreateDies, Fault
    <1>4. ASSUME NEW i \in Invoices, Late(i) PROVE Races'
        BY <1>4 DEF Late
    <1>5. ASSUME NEW i \in Invoices, Due(i) PROVE Races'
        BY <1>5 DEF Due
    <1>6. ASSUME NEW i \in Invoices, Take(i) PROVE Races'
        BY <1>6 DEF Take
    <1>7. ASSUME NEW i \in Invoices, NotifierRead(i) PROVE Races'
        BY <1>7 DEF NotifierRead, Work
    <1>8. ASSUME NEW i \in Invoices, ExpireRead(i) PROVE Races'
        BY <1>8 DEF ExpireRead, Work, Fail
    <1>9. ASSUME NEW i \in Invoices, ExpireWrite(i) PROVE Races'
        BY <1>9 DEF ExpireWrite, Work
    <1>10. ASSUME NEW i \in Invoices, Posted(i) PROVE Races'
        BY <1>10 DEF Posted, Work
    <1>11. ASSUME NEW i \in Invoices, PostFails(i) PROVE Races'
        BY <1>11 DEF PostFails, Work, Fail, Fault
    <1>12. ASSUME NEW i \in Invoices, Stall(i) PROVE Races'
        BY <1>12 DEF Stall, Work, Fault
    <1>13. ASSUME NEW c \in Calls, NEW m \in {"success", "failed"}, Arrive(c, m) PROVE Races'
        BY <1>13 DEF Arrive, Goto
    <1>14. ASSUME NEW c \in Calls, PayRead(c) PROVE Races'
        BY <1>14 DEF PayRead, Answer, Goto
    <1>15. ASSUME NEW c \in Calls, PayWrite(c) PROVE Races'
        BY <1>15 DEF PayWrite, Goto
    <1>16. ASSUME NEW c \in Calls, FindJob(c) PROVE Races'
        BY <1>16 DEF FindJob, Answer, Goto
    <1>17. ASSUME NEW c \in Calls, Promote(c) PROVE Races'
        BY <1>17 DEF Promote, Answer
    <1>18. ASSUME NEW c \in Calls, TimeOut(c) PROVE Races'
        BY <1>18 DEF TimeOut, Fault, Paying
    <1>19. ASSUME NEW c \in Calls, PayDies(c) PROVE Races'
        BY <1>19 DEF PayDies, Goto, Fault, Paying
    <1> QED BY <1>1, <1>2, <1>3, <1>4, <1>5, <1>6, <1>7, <1>8, <1>9, <1>10,
               <1>11, <1>12, <1>13, <1>14, <1>15, <1>16, <1>17, <1>18, <1>19
            DEF PaymentNext, Notifier, PayHandler

\* No step expires an invoice before its time or under a payment it did not overtake.
LEMMA Expiring ==
    ASSUME Orderly, Expiry, PaymentNext
    PROVE  Expiry'
    <1> USE CallOf, PaymentAssumption DEF Orderly, callVars, jobVars, workerVars, PaymentTypeOK, Known, Races, Queue, Expiry, Begun, Settled, InvoiceStatus
    <1>1. ASSUME NEW i \in Invoices, Store(i) PROVE Expiry'
        BY <1>1 DEF Store
    <1>2. ASSUME NEW i \in Invoices, AddJob(i) PROVE Expiry'
        BY <1>2 DEF AddJob
    <1>3. ASSUME NEW i \in Invoices, CreateDies(i) PROVE Expiry'
        BY <1>3 DEF CreateDies, Fault
    <1>4. ASSUME NEW i \in Invoices, Late(i) PROVE Expiry'
        BY <1>4 DEF Late
    <1>5. ASSUME NEW i \in Invoices, Due(i) PROVE Expiry'
        BY <1>5 DEF Due
    <1>6. ASSUME NEW i \in Invoices, Take(i) PROVE Expiry'
        BY <1>6 DEF Take
    <1>7. ASSUME NEW i \in Invoices, NotifierRead(i) PROVE Expiry'
        BY <1>7 DEF NotifierRead, Work
    <1>8. ASSUME NEW i \in Invoices, ExpireRead(i) PROVE Expiry'
        BY <1>8 DEF ExpireRead, Work, Fail
    <1>9. ASSUME NEW i \in Invoices, ExpireWrite(i) PROVE Expiry'
        BY <1>9 DEF ExpireWrite, Work
    <1>10. ASSUME NEW i \in Invoices, Posted(i) PROVE Expiry'
        BY <1>10 DEF Posted, Work
    <1>11. ASSUME NEW i \in Invoices, PostFails(i) PROVE Expiry'
        BY <1>11 DEF PostFails, Work, Fail, Fault
    <1>12. ASSUME NEW i \in Invoices, Stall(i) PROVE Expiry'
        BY <1>12 DEF Stall, Work, Fault
    <1>13. ASSUME NEW c \in Calls, NEW m \in {"success", "failed"}, Arrive(c, m) PROVE Expiry'
        BY <1>13 DEF Arrive, Goto
    <1>14. ASSUME NEW c \in Calls, PayRead(c) PROVE Expiry'
        BY <1>14 DEF PayRead, Answer, Goto
    <1>15. ASSUME NEW c \in Calls, PayWrite(c) PROVE Expiry'
        BY <1>15 DEF PayWrite, Goto
    <1>16. ASSUME NEW c \in Calls, FindJob(c) PROVE Expiry'
        BY <1>16 DEF FindJob, Answer, Goto
    <1>17. ASSUME NEW c \in Calls, Promote(c) PROVE Expiry'
        BY <1>17 DEF Promote, Answer
    <1>18. ASSUME NEW c \in Calls, TimeOut(c) PROVE Expiry'
        BY <1>18 DEF TimeOut, Fault, Paying
    <1>19. ASSUME NEW c \in Calls, PayDies(c) PROVE Expiry'
        BY <1>19 DEF PayDies, Goto, Fault, Paying
    <1> QED BY <1>1, <1>2, <1>3, <1>4, <1>5, <1>6, <1>7, <1>8, <1>9, <1>10,
               <1>11, <1>12, <1>13, <1>14, <1>15, <1>16, <1>17, <1>18, <1>19
            DEF PaymentNext, Notifier, PayHandler

\* No step writes or posts over something newer, while all payments agree.
LEMMA Writing ==
    ASSUME PaymentInv, OneMode, PaymentNext
    PROVE  Writes'
    <1> USE CallOf, PaymentAssumption DEF PaymentInv, Orderly, callVars, jobVars, workerVars, PaymentTypeOK, Known, Races, Queue, Writes, Begun, Settled, Outcome, InvoiceStatus, OneMode
    <1>1. ASSUME NEW i \in Invoices, Store(i) PROVE Writes'
        BY <1>1 DEF Store
    <1>2. ASSUME NEW i \in Invoices, AddJob(i) PROVE Writes'
        BY <1>2 DEF AddJob
    <1>3. ASSUME NEW i \in Invoices, CreateDies(i) PROVE Writes'
        BY <1>3 DEF CreateDies, Fault
    <1>4. ASSUME NEW i \in Invoices, Late(i) PROVE Writes'
        BY <1>4 DEF Late
    <1>5. ASSUME NEW i \in Invoices, Due(i) PROVE Writes'
        BY <1>5 DEF Due
    <1>6. ASSUME NEW i \in Invoices, Take(i) PROVE Writes'
        BY <1>6 DEF Take
    <1>7. ASSUME NEW i \in Invoices, NotifierRead(i) PROVE Writes'
        BY <1>7 DEF NotifierRead, Work
    <1>8. ASSUME NEW i \in Invoices, ExpireRead(i) PROVE Writes'
        BY <1>8 DEF ExpireRead, Work, Fail
    <1>9. ASSUME NEW i \in Invoices, ExpireWrite(i) PROVE Writes'
        BY <1>9 DEF ExpireWrite, Work
    <1>10. ASSUME NEW i \in Invoices, Posted(i) PROVE Writes'
        BY <1>10 DEF Posted, Work
    <1>11. ASSUME NEW i \in Invoices, PostFails(i) PROVE Writes'
        BY <1>11 DEF PostFails, Work, Fail, Fault
    <1>12. ASSUME NEW i \in Invoices, Stall(i) PROVE Writes'
        BY <1>12 DEF Stall, Work, Fault
    <1>13. ASSUME NEW c \in Calls, NEW m \in {"success", "failed"}, Arrive(c, m) PROVE Writes'
        BY <1>13 DEF Arrive, Goto
    <1>14. ASSUME NEW c \in Calls, PayRead(c) PROVE Writes'
        BY <1>14 DEF PayRead, Answer, Goto
    <1>15. ASSUME NEW c \in Calls, PayWrite(c) PROVE Writes'
        BY <1>15 DEF PayWrite, Goto
    <1>16. ASSUME NEW c \in Calls, FindJob(c) PROVE Writes'
        BY <1>16 DEF FindJob, Answer, Goto
    <1>17. ASSUME NEW c \in Calls, Promote(c) PROVE Writes'
        BY <1>17 DEF Promote, Answer
    <1>18. ASSUME NEW c \in Calls, TimeOut(c) PROVE Writes'
        BY <1>18 DEF TimeOut, Fault, Paying
    <1>19. ASSUME NEW c \in Calls, PayDies(c) PROVE Writes'
        BY <1>19 DEF PayDies, Goto, Fault, Paying
    <1> QED BY <1>1, <1>2, <1>3, <1>4, <1>5, <1>6, <1>7, <1>8, <1>9, <1>10,
               <1>11, <1>12, <1>13, <1>14, <1>15, <1>16, <1>17, <1>18, <1>19
            DEF PaymentNext, Notifier, PayHandler

LEMMA OrderlyStep == Orderly /\ [PaymentNext]_paymentVars => Orderly'
    <1>1. CASE UNCHANGED paymentVars
        BY <1>1 DEF paymentVars, callVars, jobVars, workerVars, Orderly, PaymentTypeOK, Queue,
                    Known, Races, Begun
    <1> QED BY <1>1, Typed, Queued, Knowing, Racing DEF Orderly

LEMMA PaymentStep == PaymentInv /\ OneMode /\ [PaymentNext]_paymentVars => PaymentInv'
    <1>1. CASE UNCHANGED paymentVars
        <2>1. UNCHANGED <<invoice, call, mode, worker, seen, overtaken>>
            BY <1>1 DEF paymentVars, callVars, workerVars
        <2>2. ASSUME Writes PROVE Writes'
            BY <2>1, <2>2 DEF Writes
        <2> QED BY <1>1, <2>2, OrderlyStep DEF PaymentInv
    <1> QED BY <1>1, OrderlyStep, Writing DEF PaymentInv

LEMMA ExpiryStep ==
    Orderly /\ Expiry /\ [PaymentNext]_paymentVars => (Orderly /\ Expiry)'
    <1>1. CASE UNCHANGED paymentVars
        <2>1. UNCHANGED <<invoice, call, late, worker, seen, overtaken>>
            BY <1>1 DEF paymentVars, callVars, workerVars
        <2>2. ASSUME Expiry PROVE Expiry'
            BY <2>1, <2>2 DEF Expiry
        <2> QED BY <1>1, <2>2, OrderlyStep
    <1> QED BY <1>1, OrderlyStep, Expiring

\* The steps that write an invoice.
LEMMA Writers ==
    ASSUME [PaymentNext]_paymentVars
    PROVE  \/ invoice' = invoice
           \/ \E j \in Invoices : Store(j) \/ ExpireWrite(j)
           \/ \E c \in Calls : PayWrite(c)
    BY DEF PaymentNext, Notifier, PayHandler, paymentVars, AddJob, CreateDies, Late, Due, Take,
           NotifierRead, ExpireRead, Posted, PostFails, Stall, Arrive, PayRead, FindJob,
           Promote, TimeOut, PayDies

\* A settled invoice stays expired or not expired, unless the expiry overtook a payment.
LEMMA Ending ==
    ASSUME Orderly, Expiry, [PaymentNext]_paymentVars,
           NEW i \in Invoices, invoice[i] \in Settled, i \notin overtaken'
    PROVE  invoice'[i] \in Settled /\ (invoice'[i] = "expired" <=> invoice[i] = "expired")
    <1> DEFINE Goal == invoice'[i] \in Settled /\ (invoice'[i] = "expired" <=> invoice[i] = "expired")
    <1> USE DEF Orderly, PaymentTypeOK, Settled
    <1>1. ASSUME NEW j \in Invoices, Store(j) PROVE Goal
        BY <1>1 DEF Store
    <1>2. ASSUME NEW c \in Calls, PayWrite(c) PROVE Goal
        BY <1>2, CallOf DEF PayWrite, Expiry
    <1>3. ASSUME NEW j \in Invoices, ExpireWrite(j) PROVE Goal
        BY <1>3 DEF ExpireWrite, Expiry
    <1> QED BY <1>1, <1>2, <1>3, Writers

\* An invoice that has settled is written only with what is there, unless the expiry
\* overtook a payment.
LEMMA Settling ==
    ASSUME PaymentInv, [PaymentNext]_paymentVars,
           NEW i \in Invoices, invoice[i] \in Settled, i \notin overtaken'
    PROVE  invoice'[i] = invoice[i]
    <1> USE DEF PaymentInv, Orderly, PaymentTypeOK, Settled
    <1>1. ASSUME NEW j \in Invoices, Store(j) PROVE invoice'[i] = invoice[i]
        BY <1>1 DEF Store
    <1>2. ASSUME NEW c \in Calls, PayWrite(c) PROVE invoice'[i] = invoice[i]
        BY <1>2, CallOf DEF PayWrite, Writes, Outcome
    <1>3. ASSUME NEW j \in Invoices, ExpireWrite(j) PROVE invoice'[i] = invoice[i]
        BY <1>3 DEF ExpireWrite, Writes
    <1> QED BY <1>1, <1>2, <1>3, Writers

\* For any number of invoices, payment calls, attempts and faults, the variables of
\* the payment service keep their types.
THEOREM PaymentTypeCorrect == PaymentSpec => []PaymentTypeOK
    <1>1. PaymentInit => Orderly
        BY PaymentStarts DEF PaymentInv
    <1>2. Orderly => PaymentTypeOK
        BY DEF Orderly
    <1> QED BY <1>1, <1>2, OrderlyStep, PTL DEF PaymentSpec

\* A worker is busy with a job exactly while the job is active, and a job that has
\* not failed for good has an attempt left.
THEOREM PaymentQueue == PaymentSpec => []Queue
    <1>1. PaymentInit => Orderly
        BY PaymentStarts DEF PaymentInv
    <1>2. Orderly => Queue
        BY DEF Orderly
    <1> QED BY <1>1, <1>2, OrderlyStep, PTL DEF PaymentSpec

\* An invoice is expired, or about to be, only after its time; a payment is not about
\* to write an expired invoice unless the expiry overtook it (expireInvoice and
\* payInvoice, each a read and a later write).
THEOREM PaymentExpiresLate == PaymentSpec => []Expiry
    <1>1. PaymentInit => Orderly /\ Expiry
        BY PaymentStarts, CallOf DEF PaymentInv, PaymentInit, Expiry
    <1>2. Orderly /\ Expiry /\ [PaymentNext]_paymentVars => (Orderly /\ Expiry)'
        BY ExpiryStep
    <1> QED BY <1>1, <1>2, PTL DEF PaymentSpec

\* A settled invoice stays settled, and a paid or failed one never becomes expired nor
\* an expired one paid or failed, unless the expiry overtook a payment: whatever the
\* users ask for, that race is the only way for payInvoice and expireInvoice to overrule
\* one another.
THEOREM PaymentExpiryFinal ==
    PaymentSpec =>
        [][\A i \in Invoices :
              invoice[i] \in Settled /\ i \notin overtaken' =>
                  /\ invoice'[i] \in Settled
                  /\ invoice'[i] = "expired" <=> invoice[i] = "expired"]_paymentVars
    <1>1. PaymentInit => Orderly /\ Expiry
        BY PaymentStarts, CallOf DEF PaymentInv, PaymentInit, Expiry
    <1>2. Orderly /\ Expiry /\ [PaymentNext]_paymentVars => (Orderly /\ Expiry)'
        BY ExpiryStep
    <1>3. Orderly /\ Expiry /\ [PaymentNext]_paymentVars =>
              [\A i \in Invoices :
                  invoice[i] \in Settled /\ i \notin overtaken' =>
                      /\ invoice'[i] \in Settled
                      /\ invoice'[i] = "expired" <=> invoice[i] = "expired"]_paymentVars
        BY Ending
    <1> QED BY <1>1, <1>2, <1>3, PTL DEF PaymentSpec

\* When the payments of an invoice all ask for the same outcome, a settled invoice keeps
\* its status unless the expiry overtook a payment.
THEOREM PaymentSettlesOnce ==
    PaymentSpec /\ []OneMode =>
        [][\A i \in Invoices :
              invoice[i] \in Settled /\ i \notin overtaken' => invoice'[i] = invoice[i]]_paymentVars
    <1>1. PaymentInv /\ [PaymentNext]_paymentVars =>
              [\A i \in Invoices :
                  invoice[i] \in Settled /\ i \notin overtaken' => invoice'[i] = invoice[i]]_paymentVars
        BY Settling
    <1> QED BY <1>1, PaymentStarts, PaymentStep, PTL DEF PaymentSpec

\* What the notifier posts to the webhook is the status of the invoice, and stays so
\* until it is answered, for payments that agree and unless the expiry overtook one.
THEOREM PaymentTellsTruth ==
    PaymentSpec /\ []OneMode =>
        [](\A i \in Invoices \ overtaken : worker[i] = "post" => seen[i] = invoice[i])
    <1>1. PaymentInv => \A i \in Invoices \ overtaken : worker[i] = "post" => seen[i] = invoice[i]
        BY DEF PaymentInv, Writes
    <1> QED BY <1>1, PaymentStarts, PaymentStep, PTL DEF PaymentSpec

-----------------------------------------------------------------------------
(* The refinement of Gateway                                               *)

\* What the ticket backend sees of the invoices.
Invoiced == [i \in Invoices |-> IF invoice[i] = "pending" THEN "open" ELSE invoice[i]]

\* A notification is under way while the notifier posts it.
Notice == [i \in Invoices |-> IF worker[i] = "post" THEN seen[i] ELSE "none"]

Backend == INSTANCE Gateway WITH status <- Invoiced, telling <- Notice

\* The payment service keeps its promise to the ticket backend.
ImplementsGateway == Backend!Spec

\* The abstract variables at one invoice.
LEMMA Seen ==
    ASSUME NEW i \in Invoices
    PROVE  /\ Invoiced[i] = IF invoice[i] = "pending" THEN "open" ELSE invoice[i]
           /\ Notice[i] = IF worker[i] = "post" THEN seen[i] ELSE "none"
    BY DEF Invoiced, Notice

LEMMA GatewayStarts == PaymentInit => Backend!Init
    BY DEF PaymentInit, Backend!Init, Invoiced, Notice

\* The writes of an invoice: it is created, paid, or paid again as it was.
LEMMA GatewayPays ==
    ASSUME PaymentInv, overtaken = {},
           \/ \E i \in Invoices : Store(i)
           \/ \E c \in Calls : PayWrite(c)
    PROVE  [Backend!Next]_(Backend!gateway)
    <1> USE DEF PaymentInv, Orderly, PaymentTypeOK
    <1>1. ASSUME NEW i \in Invoices, Store(i) PROVE Backend!Open(i)
        BY <1>1, Seen DEF Store, workerVars, Backend!Open, Invoiced, Notice
    <1>2. ASSUME NEW c \in Calls, PayWrite(c), invoice[c[1]] = "pending"
          PROVE  Backend!Pay(c[1], Outcome(mode[c]))
        BY <1>2, CallOf, Seen DEF PayWrite, workerVars, Outcome, Backend!Pay, Invoiced, Notice
    <1>3. ASSUME NEW c \in Calls, PayWrite(c), invoice[c[1]] # "pending"
          PROVE  UNCHANGED Backend!gateway
        <2>1. invoice[c[1]] = Outcome(mode[c])
            BY <1>3, CallOf DEF PayWrite, Known, Writes, InvoiceStatus, Settled
        <2>2. invoice' = invoice
            BY <1>3, <2>1, CallOf DEF PayWrite, Outcome
        <2> QED BY <1>3, <2>2 DEF PayWrite, workerVars, Backend!gateway, Invoiced, Notice
    <1>4. \A c \in Calls : Outcome(mode[c]) \in {"paid", "failed"}
        BY DEF Outcome
    <1> QED BY <1>1, <1>2, <1>3, <1>4, CallOf DEF Backend!Next

\* The steps of the notifier that the backend sees.
LEMMA GatewayTells ==
    ASSUME PaymentInv, overtaken = {}, NEW i \in Invoices,
           NotifierRead(i) \/ ExpireWrite(i) \/ Posted(i) \/ PostFails(i) \/ Stall(i)
    PROVE  [Backend!Next]_(Backend!gateway)
    <1> USE DEF PaymentInv, Orderly, PaymentTypeOK
    <1>1. ASSUME NotifierRead(i), invoice[i] # "pending" PROVE Backend!Tell(i)
        <2>1. invoice[i] \in Settled
            BY <1>1 DEF NotifierRead, Queue, Known, InvoiceStatus, Settled
        <2>2. worker[i] = "read" /\ Work(i, "post", invoice[i]) /\ UNCHANGED invoice
            BY <1>1 DEF NotifierRead
        <2>3. Invoiced[i] = invoice[i] /\ Notice[i] = "none"
            BY <1>1, <2>2, Seen
        <2>4. Notice' = [Notice EXCEPT ![i] = invoice[i]]
            BY <2>2 DEF Work, Notice
        <2>5. Invoiced' = Invoiced
            BY <2>2 DEF Invoiced
        <2> QED BY <2>1, <2>3, <2>4, <2>5 DEF Settled, Backend!Tell, Backend!Ends
    <1>2. ASSUME ExpireWrite(i) PROVE Backend!Expire(i)
        <2>1. invoice[i] = "pending"
            BY <1>2 DEF ExpireWrite, Writes
        <2> QED BY <1>2, <2>1, Seen DEF ExpireWrite, Work, Backend!Expire, Invoiced, Notice
    <1>3. ASSUME worker[i] = "post", UNCHANGED invoice, Work(i, "idle", "none")
          PROVE  Backend!Told(i)
        <2>1. Notice[i] # "none"
            BY <1>3, Seen DEF Writes, Settled
        <2> QED BY <1>3, <2>1 DEF Work, Backend!Told, Invoiced, Notice
    <1>4. ASSUME worker[i] # "post", UNCHANGED invoice, worker'[i] # "post",
                 NEW next, NEW s, Work(i, next, s)
          PROVE  UNCHANGED Backend!gateway
        BY <1>4 DEF Work, Backend!gateway, Invoiced, Notice
    <1>5. ASSUME NotifierRead(i), invoice[i] = "pending" PROVE UNCHANGED Backend!gateway
        BY <1>5, <1>4 DEF NotifierRead, Work
    <1>6. ASSUME Posted(i) \/ PostFails(i) PROVE Backend!Told(i)
        BY <1>6, <1>3 DEF Posted, PostFails, Fail
    <1>7. ASSUME Stall(i) PROVE Backend!Told(i) \/ UNCHANGED Backend!gateway
        <2>1. Work(i, "idle", "none") /\ UNCHANGED invoice /\ worker'[i] # "post"
            BY <1>7 DEF Stall, Work
        <2> QED BY <2>1, <1>3, <1>4
    <1> QED BY <1>1, <1>2, <1>5, <1>6, <1>7 DEF Backend!Next

\* Every step of the payment service is one of the abstract gateway, or none.
LEMMA GatewayStep ==
    ASSUME PaymentInv, overtaken = {}, [PaymentNext]_paymentVars
    PROVE  [Backend!Next]_(Backend!gateway)
    <1>1. CASE \E i \in Invoices : Store(i)
        BY <1>1, GatewayPays
    <1>2. CASE \E c \in Calls : PayWrite(c)
        BY <1>2, GatewayPays
    <1>3. CASE \E i \in Invoices :
                  NotifierRead(i) \/ ExpireWrite(i) \/ Posted(i) \/ PostFails(i) \/ Stall(i)
        BY <1>3, GatewayTells
    <1>4. CASE \E i \in Invoices : Take(i) \/ ExpireRead(i)
        <2>1. invoice' = invoice
            BY <1>4 DEF Take, ExpireRead
        <2>2. Notice' = Notice
            BY <1>4 DEF PaymentInv, Orderly, PaymentTypeOK, Take, ExpireRead, Fail, Work, Notice, Queue
        <2> QED BY <2>1, <2>2 DEF Backend!gateway, Invoiced
    <1>5. CASE UNCHANGED <<invoice, worker, seen>>
        BY <1>5 DEF Backend!gateway, Invoiced, Notice
    <1> QED BY <1>1, <1>2, <1>3, <1>4, <1>5
            DEF PaymentNext, Notifier, PayHandler, paymentVars, workerVars, AddJob, CreateDies,
                Late, Due, Arrive, PayRead, FindJob, Promote, TimeOut, PayDies

\* Towards the ticket backend the payment service is a gateway whose invoices end once
\* and whose notifications tell how, in every execution where the payments of an invoice
\* agree and no expiry overtakes one, whatever dies, times out or is posted again.
THEOREM PaymentImplementsGateway ==
    PaymentSpec /\ []OneMode /\ [](overtaken = {}) => ImplementsGateway
    <1>1. PaymentInv /\ overtaken = {} /\ [PaymentNext]_paymentVars =>
              [Backend!Next]_(Backend!gateway)
        BY GatewayStep
    <1> QED BY <1>1, GatewayStarts, PaymentStarts, PaymentStep, PTL
            DEF PaymentSpec, ImplementsGateway, Backend!Spec

\* Whatever implements the gateway never posts to the webhook what is not, or is no
\* longer, the end of the invoice.
THEOREM GatewayTellsTruth == Backend!Spec => []Backend!TellsTruth
    <1> DEFINE Told == Backend!TypeOK /\ Backend!TellsTruth
    <1>1. Backend!Init => Told
        BY Z3 DEF Backend!Init, Backend!TypeOK, Backend!TellsTruth
    <1>2. Told /\ [Backend!Next]_(Backend!gateway) => Told'
        <2> SUFFICES ASSUME Told, [Backend!Next]_(Backend!gateway) PROVE Told'
            OBVIOUS
        <2> USE DEF Backend!TypeOK, Backend!TellsTruth, Backend!Ends
        <2>1. ASSUME NEW i \in Invoices, Backend!Open(i) PROVE Told'
            BY <2>1 DEF Backend!Open
        <2>2. ASSUME NEW i \in Invoices, NEW s \in {"paid", "failed"}, Backend!Pay(i, s) PROVE Told'
            BY <2>2 DEF Backend!Pay
        <2>3. ASSUME NEW i \in Invoices, Backend!Expire(i) PROVE Told'
            BY <2>3 DEF Backend!Expire
        <2>4. ASSUME NEW i \in Invoices, Backend!Tell(i) PROVE Told'
            BY <2>4 DEF Backend!Tell
        <2>5. ASSUME NEW i \in Invoices, Backend!Told(i) PROVE Told'
            BY <2>5 DEF Backend!Told
        <2>6. CASE UNCHANGED Backend!gateway
            BY <2>6 DEF Backend!gateway
        <2> QED BY <2>1, <2>2, <2>3, <2>4, <2>5, <2>6 DEF Backend!Next
    <1> QED BY <1>1, <1>2, PTL DEF Backend!Spec

=============================================================================
