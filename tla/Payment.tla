------------------------------ MODULE Payment ------------------------------
(***************************************************************************)
(* The payment service: the HTTP handlers that create and pay invoices,    *)
(* the BullMQ queue that delays one notification per invoice until it      *)
(* expires, and the notifier that tells the ticket backend how an invoice  *)
(* ended.  Invoices are values in Redis that every handler reads and       *)
(* writes as a whole, with nothing between its read and its write that     *)
(* would keep the others away.                                             *)
(***************************************************************************)
EXTENDS Integers, FiniteSets

CONSTANTS
    Invoices,     \* ids of invoices
    MaxCalls,     \* payment calls for one invoice
    MaxAttempts,  \* attempts of a job of the queue (10 in the code)
    MaxFaults     \* deaths of a server, timeouts and posts that fail

ASSUME PaymentAssumption ==
    /\ MaxCalls \in Nat \ {0}
    /\ MaxAttempts \in Nat \ {0}
    /\ MaxFaults \in Nat

\* The payment calls of an invoice: <<invoice, number>>.
Calls == Invoices \X (1 .. MaxCalls)

VARIABLES
    invoice,     \* the status in Redis
    creating,    \* invoices whose creation is not over
    late,        \* invoices whose expiredAt has passed
    call, mode, answer,  \* where a payment call is, what it asks for, what it answered
    job,         \* the state of the job of an invoice in the queue
    failures,    \* failed attempts of the job
    stalled,     \* invoices whose job has been recovered from a dead worker
    worker, seen, \* where the notifier is with a job, and the status it will post
    overtaken,   \* invoices that came due between the read and the write of a payment
    faults       \* the failures so far

callVars == <<call, mode, answer>>
jobVars == <<job, failures, stalled>>
workerVars == <<worker, seen>>
paymentVars == <<invoice, creating, late, callVars, jobVars, workerVars, overtaken, faults>>

InvoiceStatus == {"pending", "expired", "paid", "failed"}
Settled == {"paid", "failed", "expired"}

PaymentTypeOK ==
    /\ invoice \in [Invoices -> InvoiceStatus \cup {"none"}]
    /\ creating \subseteq Invoices
    /\ late \subseteq Invoices
    /\ call \in [Calls -> {"none", "read", "write", "find", "promote", "over"}]
    /\ mode \in [Calls -> {"none", "success", "failed"}]
    /\ answer \in [Calls -> {"none", "ok", "error"}]
    /\ job \in [Invoices -> {"none", "delayed", "waiting", "active", "completed", "failed"}]
    /\ failures \in [Invoices -> 0 .. MaxAttempts]
    /\ stalled \subseteq Invoices
    /\ worker \in [Invoices -> {"idle", "read", "expire", "write", "post"}]
    /\ seen \in [Invoices -> {"none", "expired", "paid", "failed"}]
    /\ overtaken \subseteq Invoices
    /\ faults \in 0 .. MaxFaults

PaymentInit ==
    /\ invoice = [i \in Invoices |-> "none"]
    /\ creating = {}
    /\ late = {}
    /\ call = [c \in Calls |-> "none"]
    /\ mode = [c \in Calls |-> "none"]
    /\ answer = [c \in Calls |-> "none"]
    /\ job = [i \in Invoices |-> "none"]
    /\ failures = [i \in Invoices |-> 0]
    /\ stalled = {}
    /\ worker = [i \in Invoices |-> "idle"]
    /\ seen = [i \in Invoices |-> "none"]
    /\ overtaken = {}
    /\ faults = 0

Fault == faults < MaxFaults /\ faults' = faults + 1

-----------------------------------------------------------------------------
(* Creating an invoice.                                                    *)

\* createInvoice stores the invoice as pending.
Store(i) ==
    /\ invoice[i] = "none"
    /\ invoice' = [invoice EXCEPT ![i] = "pending"]
    /\ creating' = creating \cup {i}
    /\ UNCHANGED <<late, callVars, jobVars, workerVars, overtaken, faults>>

\* The handler then adds the job, delayed until a second after the expiry.
AddJob(i) ==
    /\ i \in creating
    /\ creating' = creating \ {i}
    /\ job' = [job EXCEPT ![i] = "delayed"]
    /\ UNCHANGED <<invoice, late, callVars, failures, stalled, workerVars, overtaken, faults>>

\* The server dies, or the queue refuses the job, after the invoice is stored.
CreateDies(i) ==
    /\ Fault
    /\ i \in creating
    /\ creating' = creating \ {i}
    /\ UNCHANGED <<invoice, late, callVars, jobVars, workerVars, overtaken>>

\* expiredAt passes.
Late(i) ==
    /\ invoice[i] # "none"
    /\ i \notin creating \cup late
    /\ late' = late \cup {i}
    /\ UNCHANGED <<invoice, creating, callVars, jobVars, workerVars, overtaken, faults>>

-----------------------------------------------------------------------------
(* Paying an invoice.                                                      *)

\* c goes on at "next", or ends with answer a unless its time was already up.
Goto(c, next) == call' = [call EXCEPT ![c] = next] /\ UNCHANGED answer

Answer(c, a) ==
    /\ call' = [call EXCEPT ![c] = "over"]
    /\ answer' = [answer EXCEPT ![c] = IF answer[c] = "none" THEN a ELSE answer[c]]

\* A request to pay arrives.
Arrive(c, m) ==
    /\ call[c] = "none"
    /\ invoice[c[1]] # "none"
    /\ Goto(c, "read")
    /\ mode' = [mode EXCEPT ![c] = m]
    /\ UNCHANGED <<invoice, creating, late, jobVars, workerVars, overtaken, faults>>

\* Variant: the expiry of the invoice is not looked at.
PayReadLate(c) ==
    /\ call[c] = "read"
    /\ \/ invoice[c[1]] = "pending" /\ Goto(c, "write")
       \/ invoice[c[1]] # "pending" /\ Answer(c, "error")
    /\ UNCHANGED <<invoice, creating, late, mode, jobVars, workerVars, overtaken, faults>>

\* payInvoice reads the invoice; it must be pending and not expired.
PayRead(c) ==
    /\ call[c] = "read"
    /\ \/ invoice[c[1]] = "pending" /\ c[1] \notin late /\ Goto(c, "write")
       \/ ~(invoice[c[1]] = "pending" /\ c[1] \notin late) /\ Answer(c, "error")
    /\ UNCHANGED <<invoice, creating, late, mode, jobVars, workerVars, overtaken, faults>>

\* Variant: the outcome is not written.
PayForgets(c) ==
    /\ call[c] = "write"
    /\ Goto(c, "find")
    /\ UNCHANGED <<invoice, creating, late, mode, jobVars, workerVars, overtaken, faults>>

\* It writes what it has read back, with the new status, over whatever is there.
PayWrite(c) ==
    /\ call[c] = "write"
    /\ Goto(c, "find")
    /\ invoice' = [invoice EXCEPT ![c[1]] = IF mode[c] = "success" THEN "paid" ELSE "failed"]
    /\ UNCHANGED <<creating, late, mode, jobVars, workerVars, overtaken, faults>>

\* getJob and isDelayed: only a delayed job is promoted.
FindJob(c) ==
    /\ call[c] = "find"
    /\ \/ job[c[1]] = "delayed" /\ Goto(c, "promote")
       \/ job[c[1]] # "delayed" /\ Answer(c, "ok")
    /\ UNCHANGED <<invoice, creating, late, mode, jobVars, workerVars, overtaken, faults>>

\* promote: a job that is not delayed any more makes it throw.
Promote(c) ==
    /\ call[c] = "promote"
    /\ \/ /\ job[c[1]] = "delayed"
          /\ job' = [job EXCEPT ![c[1]] = "waiting"]
          /\ Answer(c, "ok")
       \/ /\ job[c[1]] # "delayed"
          /\ Answer(c, "error")
          /\ UNCHANGED job
    /\ UNCHANGED <<invoice, creating, late, mode, failures, stalled, workerVars, overtaken, faults>>

Paying(c) == call[c] \in {"read", "write", "find", "promote"}

\* The timeout of 30 seconds answers with an error; the handler goes on.
TimeOut(c) ==
    /\ Fault
    /\ Paying(c)
    /\ answer[c] = "none"
    /\ answer' = [answer EXCEPT ![c] = "error"]
    /\ UNCHANGED <<invoice, creating, late, call, mode, jobVars, workerVars, overtaken>>

\* The server dies, or is shut down by force five seconds after a signal.
PayDies(c) ==
    /\ Fault
    /\ Paying(c)
    /\ Goto(c, "over")
    /\ UNCHANGED <<invoice, creating, late, mode, jobVars, workerVars, overtaken>>

-----------------------------------------------------------------------------
(* The queue and the notifier.                                             *)

\* The delay of a job is over: a second after the expiry, or after a backoff.
Due(i) ==
    /\ job[i] = "delayed"
    /\ i \in late \/ failures[i] > 0
    /\ job' = [job EXCEPT ![i] = "waiting"]
    /\ overtaken' = IF \E c \in Calls : c[1] = i /\ call[c] = "write"
                    THEN overtaken \cup {i} ELSE overtaken
    /\ UNCHANGED <<invoice, creating, late, callVars, failures, stalled, workerVars, faults>>

\* A worker takes the job.
Take(i) ==
    /\ job[i] = "waiting"
    /\ job' = [job EXCEPT ![i] = "active"]
    /\ worker' = [worker EXCEPT ![i] = "read"]
    /\ UNCHANGED <<invoice, creating, late, callVars, failures, stalled, seen, overtaken, faults>>

\* The worker is at "next" and will post status s.
Work(i, next, s) ==
    /\ worker' = [worker EXCEPT ![i] = next]
    /\ seen' = [seen EXCEPT ![i] = s]

\* Variant: the error is caught and not thrown again, so the job has completed.
Swallow(i) ==
    /\ Work(i, "idle", "none")
    /\ job' = [job EXCEPT ![i] = "completed"]
    /\ UNCHANGED <<failures, stalled>>

\* The attempt fails: the job is delayed by the backoff, or fails for good.
Fail(i) ==
    /\ Work(i, "idle", "none")
    /\ failures' = [failures EXCEPT ![i] = failures[i] + 1]
    /\ job' = [job EXCEPT ![i] = IF failures[i] + 1 < MaxAttempts THEN "delayed" ELSE "failed"]
    /\ UNCHANGED stalled

\* The notifier reads the invoice: a pending one has expired.
NotifierRead(i) ==
    /\ worker[i] = "read"
    /\ \/ invoice[i] = "pending" /\ Work(i, "expire", "none")
       \/ invoice[i] # "pending" /\ Work(i, "post", invoice[i])
    /\ UNCHANGED <<invoice, creating, late, callVars, jobVars, overtaken, faults>>

\* expireInvoice reads it again and throws unless it is still pending.
ExpireRead(i) ==
    /\ worker[i] = "expire"
    /\ \/ invoice[i] = "pending" /\ Work(i, "write", "none") /\ UNCHANGED jobVars
       \/ invoice[i] # "pending" /\ Fail(i)
    /\ UNCHANGED <<invoice, creating, late, callVars, overtaken, faults>>

\* Variant: the status is posted but not written.
ExpireForgets(i) ==
    /\ worker[i] = "write"
    /\ Work(i, "post", "expired")
    /\ UNCHANGED <<invoice, creating, late, callVars, jobVars, overtaken, faults>>

\* It writes the invoice back as expired.
ExpireWrite(i) ==
    /\ worker[i] = "write"
    /\ invoice' = [invoice EXCEPT ![i] = "expired"]
    /\ Work(i, "post", "expired")
    /\ UNCHANGED <<creating, late, callVars, jobVars, overtaken, faults>>

\* The webhook is posted and answered with success or 404.
Posted(i) ==
    /\ worker[i] = "post"
    /\ Work(i, "idle", "none")
    /\ job' = [job EXCEPT ![i] = "completed"]
    /\ UNCHANGED <<invoice, creating, late, callVars, failures, stalled, overtaken, faults>>

\* The webhook is answered with another status of at least 400, or not at all.
PostFails(i) ==
    /\ Fault
    /\ worker[i] = "post"
    /\ Fail(i)
    /\ UNCHANGED <<invoice, creating, late, callVars, overtaken>>

\* The notifier dies: BullMQ gives the job to another worker, but only once.
Stall(i) ==
    /\ Fault
    /\ job[i] = "active"
    /\ Work(i, "idle", "none")
    /\ stalled' = stalled \cup {i}
    /\ job' = [job EXCEPT ![i] = IF i \in stalled THEN "failed" ELSE "waiting"]
    /\ UNCHANGED <<invoice, creating, late, callVars, failures, overtaken>>

PayHandler(c) == PayRead(c) \/ PayWrite(c) \/ FindJob(c) \/ Promote(c)
Notifier(i) == Take(i) \/ NotifierRead(i) \/ ExpireRead(i) \/ ExpireWrite(i)

PaymentNext ==
    \/ \E i \in Invoices :
          \/ Store(i) \/ AddJob(i) \/ CreateDies(i) \/ Late(i) \/ Due(i)
          \/ Notifier(i) \/ Posted(i) \/ PostFails(i) \/ Stall(i)
    \/ \E c \in Calls :
          \/ \E m \in {"success", "failed"} : Arrive(c, m)
          \/ PayHandler(c) \/ TimeOut(c) \/ PayDies(c)

PaymentSpec == PaymentInit /\ [][PaymentNext]_paymentVars
=============================================================================
