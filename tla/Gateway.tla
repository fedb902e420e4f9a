------------------------------ MODULE Gateway ------------------------------
(***************************************************************************)
(* What the payment service promises the ticket backend, whatever queue    *)
(* and store are underneath: an invoice that was opened ends once, paid,   *)
(* failed or expired, and every notification says how it ended, as often   *)
(* as it is sent.                                                          *)
(***************************************************************************)
CONSTANT Invoices

VARIABLES
    status,   \* status[i]: none, open, paid, failed or expired
    telling   \* telling[i]: none, or what the notification under way says

gateway == <<status, telling>>

Ends == {"paid", "failed", "expired"}

TypeOK ==
    /\ status \in [Invoices -> {"none", "open"} \cup Ends]
    /\ telling \in [Invoices -> {"none"} \cup Ends]

Init ==
    /\ status = [i \in Invoices |-> "none"]
    /\ telling = [i \in Invoices |-> "none"]

\* Invoice i is created.
Open(i) ==
    /\ status[i] = "none"
    /\ status' = [status EXCEPT ![i] = "open"]
    /\ UNCHANGED telling

\* The customer pays, or the payment fails.
Pay(i, s) ==
    /\ status[i] = "open"
    /\ status' = [status EXCEPT ![i] = s]
    /\ UNCHANGED telling

\* The invoice is told to have expired when it does.
Expire(i) ==
    /\ status[i] = "open"
    /\ status' = [status EXCEPT ![i] = "expired"]
    /\ telling' = [telling EXCEPT ![i] = "expired"]

\* A notification, the first or another one, is sent for an invoice that has ended.
Tell(i) ==
    /\ status[i] \in Ends
    /\ telling[i] = "none"
    /\ telling' = [telling EXCEPT ![i] = status[i]]
    /\ UNCHANGED status

\* The notification is answered, or lost.
Told(i) ==
    /\ telling[i] # "none"
    /\ telling' = [telling EXCEPT ![i] = "none"]
    /\ UNCHANGED status

Next ==
    \E i \in Invoices :
        \/ Open(i) \/ Expire(i) \/ Tell(i) \/ Told(i)
        \/ \E s \in {"paid", "failed"} : Pay(i, s)

Spec == Init /\ [][Next]_gateway

\* What a notification says is how the invoice ended.
TellsTruth == \A i \in Invoices : telling[i] # "none" => telling[i] = status[i]
=============================================================================
