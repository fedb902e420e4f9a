----------------------------- MODULE LoadAgent -----------------------------
(***************************************************************************)
(* One iteration of a virtual user of the load test: find the event, look  *)
(* for seats, place an order, pay its invoice, wait for the order to       *)
(* settle, fetch the tickets.  The answers of the services are parameters  *)
(* of the actions; the iteration decides what to do next, counts its       *)
(* attempts and reports end states.  Virtual users share nothing.          *)
(*                                                                         *)
(* A call may end in three ways: with what was asked for, with an error    *)
(* whose body is JSON, or "broken": without a body the script can use,     *)
(* whereupon response.json() or a check throws and the catch-all reports.  *)
(***************************************************************************)
EXTENDS Profile

CONSTANTS
    Personas   \* the rows of the table of profiles that the virtual users draw

ASSUME AgentAssumption ==
    /\ Personas \subseteq DOMAIN userProfilesData
    /\ Personas # {}

VARIABLES
    persona,     \* the row drawn
    pc,          \* where the iteration is
    browse,      \* state.currentBrowseAttempt
    attempt,     \* state.currentOrderAttempt
    tries,       \* the counter of the innermost loop of three
    payMode,     \* the mode of the payment, "success" or "failed"
    reported     \* the end states added to the metric vu_end_state

agentVars == <<persona, pc, browse, attempt, tries, payMode, reported>>

MaxTries == 3
MaxBrowse == MaxBrowseAttempt(userProfilesData[persona].persistence)
MaxOrder == MaxOrderAttempt(userProfilesData[persona].persistence)
Seated == AreaType(userProfilesData[persona].tier) = "Seated"

EndStates ==
    {"SUCCESS_PURCHASED", "SUCCESS_PAYMENT_FAILED_EXPECTED", "FAIL_EVENT_NOT_FOUND",
     "FAIL_SEAT_NOT_FOUND", "FAIL_ORDER_BAD_REQUEST", "FAIL_ORDER_ATTEMPTS_EXCEEDED",
     "FAIL_PAYMENT_SYSTEM_ERROR", "FAIL_ORDER_VERIFICATION", "FAIL_TICKET_ISSUANCE",
     "ERROR_UNEXPECTED_ORDER_STATE", "UNKNOWN_EXIT"}

AgentTypeOK ==
    /\ persona \in Personas
    /\ pc \in {"event", "browse", "seats", "order", "ordering", "pay", "paying", "verify",
               "tickets", "done"}
    /\ browse \in 0 .. IF Seated THEN MaxBrowse + 1 ELSE MaxBrowse
    /\ attempt \in 0 .. MaxOrder
    /\ tries \in 0 .. MaxTries - 1
    /\ payMode \in {"unset", "success", "failed"}
    /\ reported \in Seq(EndStates)

AgentInit ==
    /\ persona \in Personas
    /\ pc = "event"
    /\ browse = 0
    /\ attempt = 0
    /\ tries = 0
    /\ payMode = "unset"
    /\ reported = <<>>

-----------------------------------------------------------------------------
(* What the clients of the two services give back.                         *)

EventAnswers == {"event", "error", "broken"}
\* "none": no area has as many seats as wanted in a category that is wanted.
AvailabilityAnswers == {"area", "none", "broken"}
\* "short": fewer seats are available than wanted, and the slice is short.
SeatsAnswers == {"seats", "empty", "short", "broken"}
\* 200, 400, 409, at least 500 or 408, and any other status, 0 for none at all.
OrderAnswers == {"ok", "bad request", "conflict", "error", "other"}
PaymentAnswers == {"ok", "error", "broken"}
StatusAnswers == {"success", "failed", "waiting-for-payment", "error", "broken"}
TicketsAnswers == {"tickets", "error", "broken"}

-----------------------------------------------------------------------------
\* submitMetric and return.
Report(states) ==
    /\ pc' = "done"
    /\ reported' = reported \o states

Exit(endState) ==
    /\ Report(<<endState>>)
    /\ UNCHANGED <<persona, browse, attempt, tries, payMode>>

\* An exception reaches the catch-all.
Throw == Exit("UNKNOWN_EXIT")

\* The next phase of the iteration.
Phase(next) ==
    /\ pc' = next
    /\ tries' = 0
    /\ UNCHANGED <<persona, browse, attempt, reported>>

\* One more try of a loop of three; the last one ends the iteration.
TryAgain(start, endState) ==
    \/ /\ tries + 1 < MaxTries
       /\ tries' = tries + 1
       /\ pc' = start
       /\ UNCHANGED <<persona, browse, attempt, payMode, reported>>
    \/ /\ tries + 1 = MaxTries
       /\ Exit(endState)

\* getEvent: an error of either call is tried again; an empty list of events throws.
GetEvent(answer) ==
    /\ pc = "event"
    /\ \/ answer = "event" /\ Phase("browse") /\ UNCHANGED payMode
       \/ answer = "error" /\ TryAgain("event", "FAIL_EVENT_NOT_FOUND")
       \/ answer = "broken" /\ Throw

\* Variant: the search for an area does not count the last failure.
SearchAreaOffByOne(answer) ==
    /\ pc = "browse"
    /\ \/ /\ answer = "area"
          /\ Phase(IF Seated THEN "seats" ELSE "order")
          /\ UNCHANGED payMode
       \/ /\ answer = "none"
          /\ browse <= MaxBrowse
          /\ browse' = browse + 1
          /\ UNCHANGED <<persona, pc, attempt, tries, payMode, reported>>
       \/ answer = "broken" /\ Throw

\* One search for an area with enough seats, in the loop of getSeatCaseArea.  The
\* failure that uses up the browse budget leaves all loops (getSeatCaseNumbered
\* counts once more on its way out), reports, and reports again since there
\* is no order.  An answer without data makes the check throw.
SearchArea(answer) ==
    /\ pc = "browse"
    /\ \/ /\ answer = "area"
          /\ Phase(IF Seated THEN "seats" ELSE "order")
          /\ UNCHANGED payMode
       \/ /\ answer = "none"
          /\ browse + 1 < MaxBrowse
          /\ browse' = browse + 1
          /\ UNCHANGED <<persona, pc, attempt, tries, payMode, reported>>
       \/ /\ answer = "none"
          /\ browse + 1 = MaxBrowse
          /\ browse' = IF Seated THEN MaxBrowse + 1 ELSE MaxBrowse
          /\ Report(<<"FAIL_SEAT_NOT_FOUND", "FAIL_ORDER_ATTEMPTS_EXCEEDED">>)
          /\ UNCHANGED <<persona, attempt, tries, payMode>>
       \/ answer = "broken" /\ Throw

\* Three empty lists of seats send the user back to the search; the budget does
\* not count it.
BrowseAnew ==
    /\ pc = "seats"
    /\ tries + 1 = MaxTries
    /\ Phase("browse")
    /\ UNCHANGED payMode

\* getSeats and the items of the order; reading a seat that a short list lacks throws.
FetchSeats(answer) ==
    /\ pc = "seats"
    /\ \/ answer = "seats" /\ Phase("order") /\ UNCHANGED payMode
       \/ /\ answer = "empty"
          /\ tries + 1 < MaxTries
          /\ tries' = tries + 1
          /\ UNCHANGED <<persona, pc, browse, attempt, payMode, reported>>
       \/ answer = "empty" /\ BrowseAnew
       \/ answer \in {"short", "broken"} /\ Throw

\* placeOrder sends the request, with one idempotency key for all its tries.
SendOrder ==
    /\ pc = "order"
    /\ pc' = "ordering"
    /\ UNCHANGED <<persona, browse, attempt, tries, payMode, reported>>

\* Variant: the attempt that exceeds the limit is reported, and another one made.
NextAttemptGoesOn ==
    /\ attempt + 1 <= MaxOrder
    /\ attempt' = attempt + 1
    /\ pc' = "browse"
    /\ tries' = 0
    /\ reported' = IF attempt + 1 < MaxOrder THEN reported
                   ELSE Append(reported, "FAIL_ORDER_ATTEMPTS_EXCEEDED")
    /\ UNCHANGED <<persona, browse, payMode>>

\* Variant: the attempt is not counted.
NextAttemptUncounted ==
    /\ pc' = "browse"
    /\ tries' = 0
    /\ UNCHANGED <<persona, browse, attempt, payMode, reported>>

\* state "Retry": other seats, unless the order attempts are used up.
NextAttempt ==
    /\ attempt' = attempt + 1
    /\ \/ /\ attempt + 1 < MaxOrder
          /\ pc' = "browse"
          /\ tries' = 0
          /\ UNCHANGED <<persona, browse, payMode, reported>>
       \/ /\ attempt + 1 = MaxOrder
          /\ Report(<<"FAIL_ORDER_ATTEMPTS_EXCEEDED">>)
          /\ UNCHANGED <<persona, browse, tries, payMode>>

\* A status the loop of placeOrder has no branch for (a lost connection, 404, 423):
\* it sends the request again, without counting and without sleeping.
SpinOrder ==
    /\ pc = "ordering"
    /\ pc' = "order"
    /\ UNCHANGED <<persona, browse, attempt, tries, payMode, reported>>

\* placeOrder's answer, and what the loop of the order attempts does with it.
\* With an order in hand the two budgets are never looked at again, and forgotten.
AnswerOrder(answer) ==
    /\ pc = "ordering"
    /\ \/ /\ answer = "ok"
          /\ pc' = "pay"
          /\ payMode' \in {"success", "failed"}
          /\ browse' = 0 /\ attempt' = 0 /\ tries' = 0
          /\ UNCHANGED <<persona, reported>>
       \/ answer = "bad request" /\ Exit("FAIL_ORDER_BAD_REQUEST")
       \/ answer = "conflict" /\ NextAttempt
       \/ /\ answer = "error"
          /\ tries + 1 < MaxTries
          /\ tries' = tries + 1
          /\ pc' = "order"
          /\ UNCHANGED <<persona, browse, attempt, payMode, reported>>
       \/ answer = "error" /\ tries + 1 = MaxTries /\ NextAttempt
       \/ answer = "other" /\ SpinOrder

\* The payment call is sent.
SendPayment ==
    /\ pc = "pay"
    /\ pc' = "paying"
    /\ UNCHANGED <<persona, browse, attempt, tries, payMode, reported>>

\* payOrder: logging an answer that is not JSON throws.
AnswerPayment(answer) ==
    /\ pc = "paying"
    /\ \/ answer = "ok" /\ Phase("verify") /\ UNCHANGED payMode
       \/ answer = "error" /\ TryAgain("pay", "FAIL_PAYMENT_SYSTEM_ERROR")
       \/ answer = "broken" /\ Throw

\* The status of the order that the payment asked for.
Wanted == IF payMode = "success" THEN "success" ELSE "failed"

\* getOrder: the status of the order is compared with the payment.
VerifyOrder(answer) ==
    /\ pc = "verify"
    /\ \/ /\ answer = Wanted
          /\ \/ payMode = "success" /\ Phase("tickets") /\ UNCHANGED payMode
             \/ payMode = "failed" /\ Exit("SUCCESS_PAYMENT_FAILED_EXPECTED")
       \/ /\ answer \in {"success", "failed"} \ {Wanted}
          /\ Exit("ERROR_UNEXPECTED_ORDER_STATE")
       \/ /\ answer \in {"waiting-for-payment", "error"}
          /\ TryAgain("verify", "FAIL_ORDER_VERIFICATION")
       \/ answer = "broken" /\ Throw

\* getIssuedTickets: a wrong number of tickets is only logged.
GetTickets(answer) ==
    /\ pc = "tickets"
    /\ \/ answer = "tickets" /\ Exit("SUCCESS_PURCHASED")
       \/ answer = "error" /\ TryAgain("tickets", "FAIL_TICKET_ISSUANCE")
       \/ answer = "broken" /\ Throw

AgentNext ==
    \/ \E answer \in EventAnswers : GetEvent(answer)
    \/ \E answer \in AvailabilityAnswers : SearchArea(answer)
    \/ \E answer \in SeatsAnswers : FetchSeats(answer)
    \/ SendOrder
    \/ \E answer \in OrderAnswers : AnswerOrder(answer)
    \/ SendPayment
    \/ \E answer \in PaymentAnswers : AnswerPayment(answer)
    \/ \E answer \in StatusAnswers : VerifyOrder(answer)
    \/ \E answer \in TicketsAnswers : GetTickets(answer)

AgentSpec == AgentInit /\ [][AgentNext]_agentVars

\* An iteration that ends is counted once, except that a user who found no seats is
\* counted under a second end state too.
ReportedOnce ==
    pc = "done" =>
        \/ Len(reported) = 1
        \/ reported = <<"FAIL_SEAT_NOT_FOUND", "FAIL_ORDER_ATTEMPTS_EXCEEDED">>

-----------------------------------------------------------------------------
(* Properties of the profiles, looked at where an iteration starts.        *)

Start == pc = "event" /\ tries = 0

\* How many of the draws 1 .. totalProbability give a profile that satisfies P.
Share(P(_)) == Cardinality({draw \in 1 .. totalProbability : P(getUserProfile(draw))})

\* The table, its running sums and the draw together give the population that
\* the README of the agent documents, by tier, day, persistence and quantity.
SharesAsDocumented == Start =>
    /\ totalProbability = 100
    /\ \A known \in {<<"Seated-Low", 27>>, <<"Seated-Mid", 26>>, <<"Seated-High", 19>>,
                     <<"Area-Mid", 17>>, <<"Area-High", 11>>} :
          Share(LAMBDA p : p.tier = known[1]) = known[2]
    /\ \A known \in {<<"Specific", 52>>, <<"Any Day", 48>>} :
          Share(LAMBDA p : p.day = known[1]) = known[2]
    /\ \A known \in {<<"Low", 19>>, <<"Medium", 51>>, <<"High", 30>>} :
          Share(LAMBDA p : p.persistence = known[1]) = known[2]
    /\ \A known \in {<<"Solo", 28>>, <<"Couple", 48>>, <<"Group", 24>>} :
          Share(LAMBDA p : p.quantity = known[1]) = known[2]

\* Every order of the sales (of up to four) comes from exactly one sequence of
\* draws: the shuffle favours no day of the event.
ShuffleIsFair == Start =>
    \A n \in 0 .. 4 :
        LET identity == [k \in 1 .. n |-> k]
            results == {shuffle(identity, choice) : choice \in Choices(n)}
        IN  /\ results = {p \in [1 .. n -> 1 .. n] : {p[k] : k \in 1 .. n} = 1 .. n}
            /\ Cardinality(results) = Cardinality(Choices(n))

\* A user who insists on the category never gets a worse one than a user with the
\* same order of categories who insists on the day, and finds nothing only
\* when no sale that it looks at offers any.
SameCategoryNeverWorse == Start =>
    \A tier \in {"Seated-Low", "Seated-Mid", "Seated-High", "Area-Mid", "Area-High"} :
      \A order \in TierOrders(tier),
         n \in SelectedSales("Specific", 4) \cup SelectedSales("Any Day", 3) :
        \A offer \in [1 .. n -> SUBSET {order[c] : c \in DOMAIN order}] :
          LET best == getAreaPreferSameCategory(order, offer) IN
          /\ best = 0 => \A s \in 1 .. n : offer[s] = {}
          /\ \A s \in 1 .. n :
                LET here == getAreaPreferSameDay(order, offer[s])
                IN  here # 0 => best # 0 /\ best <= here
=============================================================================
