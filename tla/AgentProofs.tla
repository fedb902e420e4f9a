---------------------------- MODULE AgentProofs ----------------------------
(***************************************************************************)
(* Proofs about one iteration of a virtual user, whatever the services     *)
(* answer: the types, the budgets, and the end states it reports; then     *)
(* about the functions of Profile, for arguments of any size.              *)
(***************************************************************************)
EXTENDS LoadAgent, FiniteSetTheorems, TLAPS

Sums == INSTANCE PlaceSums

\* The budgets are positive numbers.
LEMMA Budgets ==
    /\ MaxBrowse \in Nat /\ MaxBrowse >= 9
    /\ MaxOrder \in Nat /\ MaxOrder >= 3
    /\ MaxTries = 3
    BY DEF MaxBrowse, MaxOrder, MaxBrowseAttempt, MaxOrderAttempt, MaxTries

\* The budgets and the type of the area are those of the row drawn.
LEMMA SameBudgets ==
    ASSUME persona' = persona
    PROVE  MaxBrowse' = MaxBrowse /\ MaxOrder' = MaxOrder /\ (Seated' <=> Seated)
    BY DEF MaxBrowse, MaxOrder, Seated

\* While the iteration runs, both budgets have something left and nothing is
\* reported; when it is over, one end state is, or the two of a user
\* who found no seats.
Underway ==
    /\ pc # "done" => browse < MaxBrowse /\ attempt < MaxOrder /\ reported = <<>>
    /\ ReportedOnce

AgentInv == AgentTypeOK /\ Underway

LEMMA AgentStarts == AgentInit => AgentInv
    <1> SUFFICES ASSUME AgentInit PROVE AgentInv
        OBVIOUS
    <1> USE Budgets
    <1>1. AgentTypeOK
        BY DEF AgentInit, AgentTypeOK
    <1>2. Underway
        BY DEF AgentInit, Underway, ReportedOnce
    <1> QED BY <1>1, <1>2 DEF AgentInv

\* Reporting, once, ends the iteration.
LEMMA Reporting ==
    ASSUME AgentInv, pc # "done",
           NEW states \in {<<e>> : e \in EndStates} \cup
                          {<<"FAIL_SEAT_NOT_FOUND", "FAIL_ORDER_ATTEMPTS_EXCEEDED">>},
           Report(states)
    PROVE  pc' = "done" /\ reported' \in Seq(EndStates) /\ Underway'
    <1>1. pc' = "done" /\ reported' = states
        BY DEF Report, AgentInv, Underway
    <1>2. ASSUME NEW e \in EndStates PROVE <<e>> \in Seq(EndStates) /\ Len(<<e>>) = 1
        OBVIOUS
    <1>3. <<"FAIL_SEAT_NOT_FOUND", "FAIL_ORDER_ATTEMPTS_EXCEEDED">> \in Seq(EndStates)
        <2>1. {"FAIL_SEAT_NOT_FOUND", "FAIL_ORDER_ATTEMPTS_EXCEEDED"} \subseteq EndStates
            BY DEF EndStates
        <2> QED BY <2>1
    <1> QED BY <1>1, <1>2, <1>3 DEF Underway, ReportedOnce

LEMMA Exits ==
    ASSUME AgentInv, pc # "done", NEW endState \in EndStates, Exit(endState)
    PROVE  AgentInv'
    <1>1. /\ pc' = "done" /\ reported' \in Seq(EndStates) /\ Underway'
        BY Reporting DEF Exit
    <1>2. UNCHANGED <<persona, browse, attempt, tries, payMode>>
        BY DEF Exit
    <1>3. AgentTypeOK'
        BY <1>1, <1>2, SameBudgets DEF AgentInv, AgentTypeOK
    <1> QED BY <1>1, <1>3 DEF AgentInv

\* A step that does not report keeps the invariant if it keeps the types of what it
\* changes and the budgets.
LEMMA GoesOn ==
    ASSUME AgentInv, pc # "done", UNCHANGED <<persona, reported>>,
           pc' \in {"event", "browse", "seats", "order", "ordering", "pay", "paying", "verify",
                    "tickets"},
           browse' \in 0 .. MaxBrowse - 1, attempt' \in 0 .. MaxOrder - 1,
           tries' \in 0 .. MaxTries - 1, payMode' \in {"unset", "success", "failed"}
    PROVE  AgentInv'
    <1>1. MaxBrowse' = MaxBrowse /\ MaxOrder' = MaxOrder /\ (Seated' <=> Seated)
        BY SameBudgets
    <1>2. AgentTypeOK'
        BY <1>1, Budgets DEF AgentInv, AgentTypeOK, MaxTries
    <1>3. Underway'
        BY <1>1, Budgets DEF AgentInv, Underway, ReportedOnce
    <1> QED BY <1>2, <1>3 DEF AgentInv

\* What GoesOn wants of variables that do not change.
LEMMA WithinBudgets ==
    ASSUME AgentInv, pc # "done"
    PROVE  /\ browse \in 0 .. MaxBrowse - 1 /\ attempt \in 0 .. MaxOrder - 1
           /\ tries \in 0 .. MaxTries - 1 /\ payMode \in {"unset", "success", "failed"}
           /\ 0 \in 0 .. MaxBrowse - 1 /\ 0 \in 0 .. MaxOrder - 1 /\ 0 \in 0 .. MaxTries - 1
    <1>1. browse < MaxBrowse /\ attempt < MaxOrder
        BY DEF AgentInv, Underway
    <1> QED BY <1>1, Budgets DEF AgentInv, AgentTypeOK

LEMMA Phases ==
    ASSUME AgentInv, pc # "done", payMode' = payMode,
           NEW next \in {"browse", "seats", "order", "verify", "tickets"}, Phase(next)
    PROVE  AgentInv'
    BY WithinBudgets, GoesOn DEF Phase

LEMMA Tries ==
    ASSUME AgentInv, pc # "done", NEW start \in {"event", "pay", "verify", "tickets"},
           NEW endState \in EndStates, TryAgain(start, endState)
    PROVE  AgentInv'
    <1>1. CASE /\ tries + 1 < MaxTries
               /\ tries' = tries + 1
               /\ pc' = start
               /\ UNCHANGED <<persona, browse, attempt, payMode, reported>>
        <2>1. tries' \in 0 .. MaxTries - 1
            BY <1>1, Budgets DEF AgentInv, AgentTypeOK
        <2> QED BY <1>1, <2>1, WithinBudgets, GoesOn
    <1>2. CASE Exit(endState)
        BY <1>2, Exits
    <1> QED BY <1>1, <1>2 DEF TryAgain

LEMMA Throws == ASSUME AgentInv, pc # "done", Throw PROVE AgentInv'
    BY Exits DEF Throw, EndStates

-----------------------------------------------------------------------------
LEMMA SearchKeeps ==
    ASSUME AgentInv, NEW answer, SearchArea(answer)
    PROVE  AgentInv'
    <1> USE Budgets
    <1>0. pc # "done"
        BY DEF SearchArea
    <1>1. CASE Phase(IF Seated THEN "seats" ELSE "order") /\ payMode' = payMode
        BY <1>0, <1>1, Phases
    <1>2. CASE /\ browse + 1 < MaxBrowse
               /\ browse' = browse + 1
               /\ UNCHANGED <<persona, pc, attempt, tries, payMode, reported>>
        <2>1. browse' \in 0 .. MaxBrowse - 1
            BY <1>2 DEF AgentInv, AgentTypeOK
        <2>2. pc' = "browse"
            BY <1>2 DEF SearchArea
        <2> QED BY <1>0, <1>2, <2>1, <2>2, WithinBudgets, GoesOn
    <1>3. CASE /\ browse + 1 = MaxBrowse
               /\ browse' = IF Seated THEN MaxBrowse + 1 ELSE MaxBrowse
               /\ Report(<<"FAIL_SEAT_NOT_FOUND", "FAIL_ORDER_ATTEMPTS_EXCEEDED">>)
               /\ UNCHANGED <<persona, attempt, tries, payMode>>
        <2>1. pc' = "done" /\ reported' \in Seq(EndStates) /\ Underway'
            BY <1>0, <1>3, Reporting
        <2>2. AgentTypeOK'
            BY <1>3, <2>1, SameBudgets DEF AgentInv, AgentTypeOK
        <2> QED BY <2>1, <2>2 DEF AgentInv
    <1>4. CASE Throw
        BY <1>0, <1>4, Throws
    <1> QED BY <1>1, <1>2, <1>3, <1>4 DEF SearchArea

LEMMA SeatsKeep ==
    ASSUME AgentInv, NEW answer, FetchSeats(answer)
    PROVE  AgentInv'
    <1>0. pc = "seats"
        BY DEF FetchSeats
    <1>1. CASE Phase("order") /\ payMode' = payMode
        BY <1>0, <1>1, Phases
    <1>2. CASE /\ tries + 1 < MaxTries
               /\ tries' = tries + 1
               /\ UNCHANGED <<persona, pc, browse, attempt, payMode, reported>>
        <2>1. tries' \in 0 .. MaxTries - 1
            BY <1>2, Budgets DEF AgentInv, AgentTypeOK
        <2> QED BY <1>0, <1>2, <2>1, WithinBudgets, GoesOn
    <1>3. CASE BrowseAnew
        BY <1>0, <1>3, Phases DEF BrowseAnew
    <1>4. CASE Throw
        BY <1>0, <1>4, Throws
    <1> QED BY <1>1, <1>2, <1>3, <1>4 DEF FetchSeats

LEMMA AttemptKeeps ==
    ASSUME AgentInv, pc = "ordering", NextAttempt
    PROVE  AgentInv'
    <1> USE Budgets
    <1>1. CASE attempt + 1 < MaxOrder
        <2>1. /\ attempt' = attempt + 1 /\ pc' = "browse" /\ tries' = 0
              /\ UNCHANGED <<persona, browse, payMode, reported>>
            BY <1>1 DEF NextAttempt, AgentInv, AgentTypeOK
        <2>2. attempt' \in 0 .. MaxOrder - 1
            BY <1>1, <2>1 DEF AgentInv, AgentTypeOK
        <2> QED BY <2>1, <2>2, WithinBudgets, GoesOn
    <1>2. CASE attempt + 1 = MaxOrder
        <2>1. /\ attempt' = attempt + 1
              /\ Report(<<"FAIL_ORDER_ATTEMPTS_EXCEEDED">>)
              /\ UNCHANGED <<persona, browse, tries, payMode>>
            BY <1>2 DEF NextAttempt, AgentInv, AgentTypeOK
        <2>2. pc' = "done" /\ reported' \in Seq(EndStates) /\ Underway'
            BY <2>1, Reporting DEF EndStates
        <2>3. AgentTypeOK'
            BY <1>2, <2>1, <2>2, SameBudgets DEF AgentInv, AgentTypeOK
        <2> QED BY <2>2, <2>3 DEF AgentInv
    <1> QED BY <1>1, <1>2 DEF NextAttempt

LEMMA OrderKeeps ==
    ASSUME AgentInv, NEW answer, AnswerOrder(answer)
    PROVE  AgentInv'
    <1>0. pc = "ordering"
        BY DEF AnswerOrder
    <1>1. CASE /\ pc' = "pay"
               /\ payMode' \in {"success", "failed"}
               /\ browse' = 0 /\ attempt' = 0 /\ tries' = 0
               /\ UNCHANGED <<persona, reported>>
        BY <1>0, <1>1, WithinBudgets, GoesOn
    <1>2. CASE Exit("FAIL_ORDER_BAD_REQUEST")
        BY <1>0, <1>2, Exits DEF EndStates
    <1>3. CASE NextAttempt
        BY <1>0, <1>3, AttemptKeeps
    <1>4. CASE /\ tries + 1 < MaxTries
               /\ tries' = tries + 1
               /\ pc' = "order"
               /\ UNCHANGED <<persona, browse, attempt, payMode, reported>>
        <2>1. tries' \in 0 .. MaxTries - 1
            BY <1>4, Budgets DEF AgentInv, AgentTypeOK
        <2> QED BY <1>0, <1>4, <2>1, WithinBudgets, GoesOn
    <1>5. CASE SpinOrder
        BY <1>0, <1>5, WithinBudgets, GoesOn DEF SpinOrder
    <1> QED BY <1>1, <1>2, <1>3, <1>4, <1>5 DEF AnswerOrder

LEMMA AgentStep == AgentInv /\ [AgentNext]_agentVars => AgentInv'
    <1> SUFFICES ASSUME AgentInv, [AgentNext]_agentVars PROVE AgentInv'
        OBVIOUS
    <1>1. ASSUME NEW answer \in EventAnswers, GetEvent(answer) PROVE AgentInv'
        BY <1>1, Phases, Tries, Throws DEF GetEvent, EndStates
    <1>2. ASSUME NEW answer \in AvailabilityAnswers, SearchArea(answer) PROVE AgentInv'
        BY <1>2, SearchKeeps
    <1>3. ASSUME NEW answer \in SeatsAnswers, FetchSeats(answer) PROVE AgentInv'
        BY <1>3, SeatsKeep
    <1>4. CASE SendOrder
        BY <1>4, WithinBudgets, GoesOn DEF SendOrder
    <1>5. ASSUME NEW answer \in OrderAnswers, AnswerOrder(answer) PROVE AgentInv'
        BY <1>5, OrderKeeps
    <1>6. CASE SendPayment
        BY <1>6, WithinBudgets, GoesOn DEF SendPayment
    <1>7. ASSUME NEW answer \in PaymentAnswers, AnswerPayment(answer) PROVE AgentInv'
        BY <1>7, Phases, Tries, Throws DEF AnswerPayment, EndStates
    <1>8. ASSUME NEW answer \in StatusAnswers, VerifyOrder(answer) PROVE AgentInv'
        BY <1>8, Phases, Tries, Throws, Exits DEF VerifyOrder, EndStates
    <1>9. ASSUME NEW answer \in TicketsAnswers, GetTickets(answer) PROVE AgentInv'
        BY <1>9, Tries, Throws, Exits DEF GetTickets, EndStates
    <1>10. CASE UNCHANGED agentVars
        <2>1. UNCHANGED <<persona, pc, browse, attempt, tries, payMode, reported>>
            BY <1>10 DEF agentVars
        <2>2. MaxBrowse' = MaxBrowse /\ MaxOrder' = MaxOrder /\ (Seated' <=> Seated)
            BY <2>1, SameBudgets
        <2>3. AgentTypeOK'
            BY <2>1, <2>2 DEF AgentInv, AgentTypeOK
        <2>4. Underway'
            BY <2>1, <2>2 DEF AgentInv, Underway, ReportedOnce
        <2> QED BY <2>3, <2>4 DEF AgentInv
    <1> QED BY <1>1, <1>2, <1>3, <1>4, <1>5, <1>6, <1>7, <1>8, <1>9, <1>10 DEF AgentNext

\* Whatever the services answer, an iteration keeps its types, never tries more than
\* three times and stays within the budgets of its profile, but for the one
\* attempt to browse that is counted twice.
THEOREM AgentTypeCorrect == AgentSpec => []AgentTypeOK
    <1>1. AgentInv => AgentTypeOK
        BY DEF AgentInv
    <1> QED BY AgentStarts, AgentStep, <1>1, PTL DEF AgentSpec

\* Whatever the services answer, the metric of end states counts an iteration that
\* is over once, or under both end states of a user who found no seats.
THEOREM AgentReportsOnce == AgentSpec => []ReportedOnce
    <1>1. AgentInv => ReportedOnce
        BY DEF AgentInv, Underway
    <1> QED BY AgentStarts, AgentStep, <1>1, PTL DEF AgentSpec

-----------------------------------------------------------------------------
(* The two ways to choose an area, for any order and any offer.  Both are  *)
(* a search from the first position to the last.                           *)

\* f looks from each position on for one of H; value says what it gives for it.
Searches(f, H, value, first, last) ==
    f = [k \in first .. last |-> IF k = last THEN 0
                                 ELSE IF k \in H THEN value[k] ELSE f[k + 1]]

\* What a search gives is the value of the first position of H, or 0.
LEMMA SearchFinds ==
    ASSUME NEW H, NEW value, NEW first \in Nat, NEW last \in Nat, first <= last,
           NEW f, Searches(f, H, value, first, last)
    PROVE  \/ f[first] = 0 /\ \A i \in first .. last - 1 : i \notin H
           \/ \E j \in first .. last - 1 : /\ j \in H /\ f[first] = value[j]
                                           /\ \A i \in first .. j - 1 : i \notin H
  <1> DEFINE Right(k) ==
                 \/ f[k] = 0 /\ \A i \in k .. last - 1 : i \notin H
                 \/ \E j \in k .. last - 1 : /\ j \in H /\ f[k] = value[j]
                                             /\ \A i \in k .. j - 1 : i \notin H
             Wrong == {d \in 0 .. last : last - d \in first .. last /\ ~ Right(last - d)}
  <1>1. ASSUME Wrong # {} PROVE FALSE
    <2>1. \E d \in Wrong : \A e \in Wrong : d <= e
      <3>1. Wrong \subseteq 0 .. last
        OBVIOUS
      <3> HIDE DEF Wrong
      <3> QED
        BY <1>1, <3>1, Sums!SmallestNumber
    <2>2. PICK d \in Wrong : \A e \in Wrong : d <= e
      BY <2>1
    <2> DEFINE k == last - d
    <2>3. d \in 0 .. last /\ k \in first .. last /\ ~ Right(k)
      BY <2>2
    <2>4. f[k] = IF k = last THEN 0 ELSE IF k \in H THEN value[k] ELSE f[k + 1]
      BY <2>3 DEF Searches
    <2>5. d # 0
      BY <2>3, <2>4
    <2>6. k + 1 = last - (d - 1) /\ k + 1 \in first .. last /\ d - 1 \in 0 .. last
      BY <2>3, <2>5
    <2>7. Right(k + 1)
      <3> HIDE DEF Right, k, Wrong
      <3>1. d - 1 \notin Wrong
        BY <2>2, <2>3
      <3> QED
        BY <2>6, <3>1 DEF Wrong
    <2> HIDE DEF k
    <2>8. CASE k \in H
      <3>1. k \in k .. last - 1 /\ f[k] = value[k] /\ k .. k - 1 = {}
        BY <2>3, <2>4, <2>6, <2>8
      <3> QED
        BY <2>3, <2>8, <3>1
    <2>9. CASE k \notin H
      <3>1. f[k] = f[k + 1]
        BY <2>3, <2>4, <2>6, <2>9
      <3>2. \A i \in k .. last - 1 : i = k \/ i \in k + 1 .. last - 1
        BY <2>3
      <3>3. CASE f[k + 1] = 0 /\ \A i \in k + 1 .. last - 1 : i \notin H
        BY <2>3, <2>9, <3>1, <3>2, <3>3
      <3>4. CASE \E j \in k + 1 .. last - 1 : /\ j \in H /\ f[k + 1] = value[j]
                                              /\ \A i \in k + 1 .. j - 1 : i \notin H
        <4>1. PICK j \in k + 1 .. last - 1 : /\ j \in H /\ f[k + 1] = value[j]
                                             /\ \A i \in k + 1 .. j - 1 : i \notin H
          BY <3>4
        <4>2. j \in k .. last - 1 /\ \A i \in k .. j - 1 : i \notin H
          BY <2>3, <2>9, <4>1
        <4> QED
          BY <2>3, <3>1, <4>1, <4>2
      <3> QED
        BY <2>7, <3>3, <3>4
    <2> QED
      BY <2>8, <2>9
  <1>2. Right(first)
    <2>1. last - (last - first) = first /\ last - first \in 0 .. last /\ first \in first .. last
      OBVIOUS
    <2> HIDE DEF Right
    <2> QED
      BY <1>1, <2>1
  <1> QED
    BY <1>2

\* There is such a function.
LEMMA SearchExists ==
    ASSUME NEW H, NEW value, NEW first \in Nat, NEW last \in Nat
    PROVE  \E f : Searches(f, H, value, first, last)
  <1> DEFINE Hits(k) == {i \in k .. last - 1 : i \in H}
             f == [k \in first .. last |->
                      IF Hits(k) = {} THEN 0
                      ELSE value[CHOOSE j \in Hits(k) : \A i \in Hits(k) : j <= i]]
  <1>1. ASSUME NEW k \in first .. last
        PROVE  f[k] = IF k = last THEN 0 ELSE IF k \in H THEN value[k] ELSE f[k + 1]
    <2>1. CASE k = last
      BY <2>1
    <2>2. CASE k # last /\ k \in H
      <3>1. k \in Hits(k) /\ \A i \in Hits(k) : k <= i
        BY <2>2
      <3>2. \A j \in Hits(k) : (\A i \in Hits(k) : j <= i) => j = k
        BY <3>1
      <3> HIDE DEF Hits
      <3>3. (CHOOSE j \in Hits(k) : \A i \in Hits(k) : j <= i) = k
        BY <3>1, <3>2
      <3> QED
        BY <2>2, <3>1, <3>3
    <2>3. CASE k # last /\ k \notin H
      <3>1. Hits(k) = Hits(k + 1) /\ k + 1 \in first .. last
        BY <2>3
      <3> HIDE DEF Hits
      <3> QED
        BY <2>3, <3>1
    <2> QED
      BY <2>1, <2>2, <2>3
  <1>2. Searches(f, H, value, first, last)
    <2> HIDE DEF Hits
    <2>1. f = [k \in first .. last |-> f[k]]
      OBVIOUS
    <2> HIDE DEF f
    <2> QED
      BY <1>1, <2>1 DEF Searches
  <1> QED
    BY <1>2

\* Lists are functions on their positions, and functions on 1 .. n are lists.
LEMMA ListType ==
    ASSUME NEW T, NEW s \in Seq(T)
    PROVE  Len(s) \in Nat /\ DOMAIN s = 1 .. Len(s)
  OBVIOUS

\* Its length is n.
LEMMA LenOfFunction ==
    ASSUME NEW T, NEW n \in Nat, NEW f \in [1 .. n -> T]
    PROVE  f \in Seq(T) /\ Len(f) = n
  <1>1. f \in Seq(T) /\ DOMAIN f = 1 .. n
    OBVIOUS
  <1> QED
    BY <1>1

\* The categories of seats that the users order by.
Categories == {"Bronze", "Silver", "Gold", "Platinum", "VIP", "Zone A", "Zone B"}

\* What a tier may end up with is a list of them.
LEMMA TierOrdersType ==
    ASSUME NEW tier
    PROVE  TierOrders(tier) \subseteq Seq(Categories)
  <1> DEFINE T == Categories
  <1>1. /\ "Bronze" \in T /\ "Silver" \in T /\ "Gold" \in T /\ "Platinum" \in T
        /\ "VIP" \in T /\ "Zone A" \in T /\ "Zone B" \in T
    BY DEF Categories
  <1> HIDE DEF T
  <1>2. \A a, b \in T : <<a, b>> \in Seq(T)
    OBVIOUS
  <1>3. \A a, b, c \in T : <<a, b, c>> \in Seq(T)
    OBVIOUS
  <1>4. \A s \in TierOrders(tier) : \/ \E a, b \in T : s = <<a, b>>
                                    \/ \E a, b, c \in T : s = <<a, b, c>>
    BY <1>1 DEF TierOrders
  <1>5. TierOrders(tier) \subseteq Seq(T)
    <2> SUFFICES ASSUME NEW s \in TierOrders(tier) PROVE s \in Seq(T)
      OBVIOUS
    <2>1. CASE \E a, b \in T : s = <<a, b>>
      BY <1>2, <2>1, Zenon
    <2>2. CASE \E a, b, c \in T : s = <<a, b, c>>
      BY <1>3, <2>2, Zenon
    <2> QED
      BY <1>4, <2>1, <2>2
  <1> QED
    BY <1>5 DEF T

\* The position in the order that the first choice gives, or 0.
LEMMA SameDayFinds ==
    ASSUME NEW order, Len(order) \in Nat, NEW offered
    PROVE  LET here == getAreaPreferSameDay(order, offered) IN
           \/ here = 0 /\ \A c \in 1 .. Len(order) : order[c] \notin offered
           \/ here \in 1 .. Len(order) /\ order[here] \in offered
  <1> DEFINE H == {c \in 1 .. Len(order) : order[c] \in offered}
             value == [c \in 1 .. Len(order) |-> c]
             last == Len(order) + 1
  <1>1. \A f : Searches(f, H, value, 1, last)
               <=> f = [c \in 1 .. last |-> IF c > Len(order) THEN 0
                                            ELSE IF order[c] \in offered THEN c ELSE f[c + 1]]
    <2> TAKE f
    <2>1. \A c \in 1 .. last :
              (IF c = last THEN 0 ELSE IF c \in H THEN value[c] ELSE f[c + 1])
              = (IF c > Len(order) THEN 0 ELSE IF order[c] \in offered THEN c ELSE f[c + 1])
      OBVIOUS
    <2>2. [c \in 1 .. last |-> IF c = last THEN 0 ELSE IF c \in H THEN value[c] ELSE f[c + 1]]
          = [c \in 1 .. last |-> IF c > Len(order) THEN 0
                                 ELSE IF order[c] \in offered THEN c ELSE f[c + 1]]
      BY <2>1
    <2> HIDE DEF H, value, last
    <2> QED
      BY <2>2, Zenon DEF Searches
  <1>2. \E f : Searches(f, H, value, 1, last)
    <2>1. last \in Nat
      OBVIOUS
    <2> HIDE DEF H, value, last
    <2> QED
      BY <2>1, SearchExists
  <1>3. \E f : /\ f = [c \in 1 .. last |-> IF c > Len(order) THEN 0
                                           ELSE IF order[c] \in offered THEN c ELSE f[c + 1]]
               /\ getAreaPreferSameDay(order, offered) = f[1]
    BY <1>1, <1>2, Zenon DEF getAreaPreferSameDay
  <1>4. PICK f : Searches(f, H, value, 1, last) /\ getAreaPreferSameDay(order, offered) = f[1]
    BY <1>1, <1>3, Zenon
  <1>5. \/ f[1] = 0 /\ \A i \in 1 .. last - 1 : i \notin H
        \/ \E j \in 1 .. last - 1 : /\ j \in H /\ f[1] = value[j]
                                    /\ \A i \in 1 .. j - 1 : i \notin H
    <2>1. last \in Nat /\ 1 <= last
      OBVIOUS
    <2> HIDE DEF H, value, last
    <2> QED
      BY <1>4, <2>1, SearchFinds
  <1>6. last - 1 = Len(order)
    OBVIOUS
  <1> QED
    BY <1>4, <1>5, <1>6

\* A position of an order and a sale, in one number.
LEMMA Positions ==
    ASSUME NEW n \in Nat, NEW q \in Nat, NEW r \in 0 .. n - 1
    PROVE  (q * n + r) \div n = q /\ (q * n + r) % n = r
  OBVIOUS

\* Every number below n * l stands for one of n sales and one of l positions.
LEMMA PositionsBack ==
    ASSUME NEW n \in Nat \ {0}, NEW l \in Nat, NEW k \in 0 .. n * l - 1
    PROVE  k \div n \in 0 .. l - 1 /\ k % n \in 0 .. n - 1 /\ k = ((k \div n) * n) + (k % n)
  <1> DEFINE q == k \div n
             r == k % n
  <1>1. q \in Nat /\ r \in 0 .. n - 1 /\ k = (q * n) + r
    OBVIOUS
  <1> HIDE DEF q, r
  <1>2. ASSUME q >= l PROVE FALSE
    <2>1. q * n >= l * n
      BY <1>1, <1>2
    <2>2. l * n = n * l
      OBVIOUS
    <2> QED
      BY <1>1, <2>1, <2>2
  <1>3. q \in 0 .. l - 1 /\ r \in 0 .. n - 1 /\ k = (q * n) + r
    BY <1>1, <1>2
  <1> QED
    BY <1>3 DEF q, r

\* A later number is of no earlier position.
LEMMA PositionsGrow ==
    ASSUME NEW n \in Nat \ {0}, NEW j \in Nat, NEW k \in Nat, j <= k
    PROVE  j \div n <= k \div n
  OBVIOUS

\* The category that the second choice gives, or 0: no sale offers one before it.
LEMMA SameCategoryFinds ==
    ASSUME NEW order, Len(order) \in Nat, NEW offer, Len(offer) \in Nat
    PROVE  LET best == getAreaPreferSameCategory(order, offer) IN
           \/ /\ best = 0
              /\ \A c \in 1 .. Len(order), s \in 1 .. Len(offer) : order[c] \notin offer[s]
           \/ /\ best \in 1 .. Len(order)
              /\ \E s \in 1 .. Len(offer) : order[best] \in offer[s]
              /\ \A c \in 1 .. best - 1, s \in 1 .. Len(offer) : order[c] \notin offer[s]
  <1> DEFINE n == Len(offer)
             l == Len(order)
             last == n * l
             H == {k \in 0 .. last - 1 : order[(k \div n) + 1] \in offer[(k % n) + 1]}
             value == [k \in 0 .. last - 1 |-> (k \div n) + 1]
  <1>0. n \in Nat /\ l \in Nat /\ last \in Nat /\ 0 <= last
    OBVIOUS
  <1>1. \A f : Searches(f, H, value, 0, last)
               <=> f = [k \in 0 .. last |->
                          IF k = last THEN 0
                          ELSE IF order[(k \div n) + 1] \in offer[(k % n) + 1]
                               THEN (k \div n) + 1 ELSE f[k + 1]]
    <2> TAKE f
    <2> HIDE DEF n, l, last
    <2>1. \A k \in 0 .. last : k # last => k \in 0 .. last - 1
      BY <1>0
    <2>2. \A k \in 0 .. last :
              (IF k = last THEN 0 ELSE IF k \in H THEN value[k] ELSE f[k + 1])
              = (IF k = last THEN 0
                 ELSE IF order[(k \div n) + 1] \in offer[(k % n) + 1]
                      THEN (k \div n) + 1 ELSE f[k + 1])
      BY <2>1, Zenon
    <2> HIDE DEF H, value
    <2>3. [k \in 0 .. last |-> IF k = last THEN 0 ELSE IF k \in H THEN value[k] ELSE f[k + 1]]
          = [k \in 0 .. last |-> IF k = last THEN 0
                                 ELSE IF order[(k \div n) + 1] \in offer[(k % n) + 1]
                                      THEN (k \div n) + 1 ELSE f[k + 1]]
      BY <2>2, Zenon
    <2> QED
      BY <2>3, Zenon DEF Searches
  <1>2. \E f : Searches(f, H, value, 0, last)
    <2> HIDE DEF H, value, last, n, l
    <2> QED
      BY <1>0, SearchExists
  <1>3. \E f : /\ f = [k \in 0 .. last |->
                         IF k = last THEN 0
                         ELSE IF order[(k \div n) + 1] \in offer[(k % n) + 1]
                              THEN (k \div n) + 1 ELSE f[k + 1]]
               /\ getAreaPreferSameCategory(order, offer) = f[0]
    BY <1>1, <1>2, Zenon DEF getAreaPreferSameCategory
  <1>4. PICK f : Searches(f, H, value, 0, last) /\ getAreaPreferSameCategory(order, offer) = f[0]
    BY <1>1, <1>3, Zenon
  <1> DEFINE best == getAreaPreferSameCategory(order, offer)
  <1>5. \/ best = 0 /\ \A i \in 0 .. last - 1 : i \notin H
        \/ \E j \in 0 .. last - 1 : /\ j \in H /\ best = value[j]
                                    /\ \A i \in 0 .. j - 1 : i \notin H
    <2> HIDE DEF H, value, last, n, l
    <2> QED
      BY <1>0, <1>4, SearchFinds
  <1> HIDE DEF best
  \* Where a category and a sale are looked at, and what is looked at before.
  <1>6. ASSUME NEW c \in 1 .. l, NEW s \in 1 .. n
        PROVE  LET k == ((c - 1) * n) + (s - 1) IN
               /\ k \in 0 .. last - 1 /\ (k \div n) + 1 = c
               /\ k \in H <=> order[c] \in offer[s]
    <2> DEFINE k == ((c - 1) * n) + (s - 1)
    <2> HIDE DEF n, l
    <2>1. c - 1 \in Nat /\ s - 1 \in 0 .. n - 1 /\ n # 0
      BY <1>0
    <2>2. k \div n = c - 1 /\ k % n = s - 1
      BY <1>0, <2>1, Positions
    <2>3. k \in 0 .. last - 1
      <3>1. (c - 1) * n <= (l - 1) * n /\ (l - 1) * n = last - n /\ (c - 1) * n \in Nat
        BY <1>0, <2>1
      <3> QED
        BY <1>0, <2>1, <3>1
    <2> HIDE DEF k, last
    <2>4. (k \div n) + 1 = c /\ (k % n) + 1 = s
      BY <2>2
    <2> QED
      BY <2>3, <2>4 DEF k
  <1>7. CASE best = 0 /\ \A i \in 0 .. last - 1 : i \notin H
    <2>1. \A c \in 1 .. l, s \in 1 .. n : order[c] \notin offer[s]
      <3> HIDE DEF H, last, n, l
      <3> QED
        BY <1>6, <1>7
    <2> QED
      BY <1>7, <2>1 DEF best
  <1>8. CASE \E j \in 0 .. last - 1 : /\ j \in H /\ best = value[j]
                                      /\ \A i \in 0 .. j - 1 : i \notin H
    <2>1. PICK j \in 0 .. last - 1 : /\ j \in H /\ best = value[j]
                                     /\ \A i \in 0 .. j - 1 : i \notin H
      BY <1>8
    <2>2. n # 0
      <3>1. n = 0 => last = 0
        BY <1>0
      <3> QED
        BY <2>1, <3>1
    <2>3. j \div n \in 0 .. l - 1 /\ j % n \in 0 .. n - 1
      <3> HIDE DEF n, l
      <3> QED
        BY <1>0, <2>2, PositionsBack
    <2>4. best = (j \div n) + 1 /\ order[best] \in offer[(j % n) + 1]
      BY <2>1
    <2>5. best \in 1 .. l /\ (j % n) + 1 \in 1 .. n
      <3> HIDE DEF n, l, last
      <3> QED
        BY <1>0, <2>3, <2>4
    <2>6. ASSUME NEW c \in 1 .. best - 1, NEW s \in 1 .. n PROVE order[c] \notin offer[s]
      <3> DEFINE k == ((c - 1) * n) + (s - 1)
      <3>1. c \in 1 .. l
        BY <2>5
      <3>2. k \in 0 .. last - 1 /\ (k \div n) + 1 = c /\ (k \in H <=> order[c] \in offer[s])
        BY <1>6, <3>1
      <3> HIDE DEF k, H, last, n, l
      <3>3. k < j
        <4>1. n \in Nat \ {0} /\ j \in Nat /\ k \in Nat
          BY <1>0, <2>1, <2>2, <3>2
        <4>2. j <= k => j \div n <= k \div n
          BY <4>1, PositionsGrow
        <4>3. ~ (j \div n <= k \div n)
          <5> DEFINE x == j \div n
                     y == k \div n
          <5>1. x \in Nat /\ x + 1 = best /\ y + 1 = c
            BY <2>3, <2>4, <3>2
          <5>2. y \in Int
            BY <4>1
          <5> HIDE DEF x, y
          <5>3. c <= best - 1 /\ c \in Int
            BY <2>5
          <5>4. ~ (x <= y)
            BY <5>1, <5>2, <5>3
          <5> QED
            BY <5>4 DEF x, y
        <4> QED
          BY <4>1, <4>2, <4>3
      <3>4. k \notin H
        BY <1>0, <2>1, <3>2, <3>3
      <3> QED
        BY <3>2, <3>4
    <2> QED
      BY <2>4, <2>5, <2>6 DEF best
  <1> QED
    BY <1>5, <1>7, <1>8

\* Whatever the order of the categories and the offers: a user who insists on the
\* category finds something if any sale has some category of the order, and then
\* nothing worse than what a user who insists on the day finds in any of the sales.
THEOREM SameCategoryFirst ==
    ASSUME NEW order, Len(order) \in Nat, NEW offer, Len(offer) \in Nat,
           NEW best, best = getAreaPreferSameCategory(order, offer)
    PROVE  /\ best = 0 => \A c \in 1 .. Len(order), s \in 1 .. Len(offer) :
                              order[c] \notin offer[s]
           /\ \A s \in 1 .. Len(offer) :
                 LET here == getAreaPreferSameDay(order, offer[s])
                 IN  here # 0 => best # 0 /\ best <= here
  <1>1. \/ /\ best = 0
           /\ \A c \in 1 .. Len(order), s \in 1 .. Len(offer) : order[c] \notin offer[s]
        \/ /\ best \in 1 .. Len(order)
           /\ \E s \in 1 .. Len(offer) : order[best] \in offer[s]
           /\ \A c \in 1 .. best - 1, s \in 1 .. Len(offer) : order[c] \notin offer[s]
    BY SameCategoryFinds, Zenon
  <1>2. ASSUME NEW s \in 1 .. Len(offer), NEW here,
               here = getAreaPreferSameDay(order, offer[s]), here # 0
        PROVE  best # 0 /\ best <= here
    <2>1. here \in 1 .. Len(order) /\ order[here] \in offer[s]
      BY <1>2, SameDayFinds, Zenon
    <2> QED
      BY <1>1, <2>1
  <1> QED
    BY <1>1, <1>2

\* A user who insists on the category never gets a worse one than a user with the
\* same order of categories who insists on the day (getAreaPreferSameCategory and
\* getAreaPreferSameDay), whatever the sales offer.
THEOREM AgentSameCategory == AgentSpec => []SameCategoryNeverWorse
  <1>1. SameCategoryNeverWorse
    <2> SUFFICES ASSUME NEW tier \in {"Seated-Low", "Seated-Mid", "Seated-High",
                                      "Area-Mid", "Area-High"},
                        NEW order \in TierOrders(tier),
                        NEW n \in SelectedSales("Specific", 4) \cup SelectedSales("Any Day", 3),
                        NEW offer \in [1 .. n -> SUBSET {order[c] : c \in DOMAIN order}]
                 PROVE  LET best == getAreaPreferSameCategory(order, offer) IN
                        /\ best = 0 => \A s \in 1 .. n : offer[s] = {}
                        /\ \A s \in 1 .. n :
                              LET here == getAreaPreferSameDay(order, offer[s])
                              IN  here # 0 => best # 0 /\ best <= here
      BY Zenon DEF SameCategoryNeverWorse
    <2>1. n \in Nat
      BY DEF SelectedSales
    <2>2. Len(order) \in Nat /\ DOMAIN order = 1 .. Len(order)
      <3>1. order \in Seq(Categories)
        BY TierOrdersType
      <3> QED
        BY <3>1, ListType, Zenon
    <2>3. Len(offer) = n
      <3> DEFINE T == SUBSET {order[c] : c \in DOMAIN order}
      <3>1. offer \in [1 .. n -> T]
        OBVIOUS
      <3> HIDE DEF T
      <3> QED
        BY <2>1, <3>1, LenOfFunction
    <2> DEFINE best == getAreaPreferSameCategory(order, offer)
    <2>4. /\ best = 0 => \A c \in 1 .. Len(order), s \in 1 .. n : order[c] \notin offer[s]
          /\ \A s \in 1 .. n :
                LET here == getAreaPreferSameDay(order, offer[s])
                IN  here # 0 => best # 0 /\ best <= here
      <3> HIDE DEF best
      <3>1. best = getAreaPreferSameCategory(order, offer)
        BY DEF best
      <3> QED
        BY <2>1, <2>2, <2>3, <3>1, SameCategoryFirst
    <2>5. \A s \in 1 .. n : offer[s] \subseteq {order[c] : c \in 1 .. Len(order)}
      BY <2>2
    <2> HIDE DEF best
    <2>6. best = 0 => \A s \in 1 .. n : offer[s] = {}
      <3>1. SUFFICES ASSUME best = 0, NEW s \in 1 .. n, NEW x \in offer[s] PROVE FALSE
        OBVIOUS
      <3>2. \A c \in 1 .. Len(order) : order[c] \notin offer[s]
        BY <2>4, <3>1, Zenon
      <3>3. x \in {order[c] : c \in 1 .. Len(order)}
        BY <2>5
      <3> QED
        BY <3>2, <3>3
    <2> QED
      BY <2>4, <2>6, Zenon DEF best
  <1> QED
    BY <1>1, PTL

-----------------------------------------------------------------------------
(* The shuffle, for lists of any length.                                   *)

\* The arrangements of 1 .. n, as ShuffleIsFair has them, and as functions that
\* take no value twice.
Identity(n) == [k \in 1 .. n |-> k]
Arrangements(n) == {p \in [1 .. n -> 1 .. n] : {p[k] : k \in 1 .. n} = 1 .. n}
Onto(p, S) == {p[k] : k \in S} = S
NoneTwice(p, n) == \A a, b \in 1 .. n : p[a] = p[b] => a = b

\* An arrangement takes no value twice, since it takes them all.
LEMMA ArrangedOnce ==
    ASSUME NEW n \in Nat, NEW p \in Arrangements(n)
    PROVE  NoneTwice(p, n)
  <1> DEFINE S == 1 .. n
  <1>1. IsFiniteSet(S)
    BY FS_Interval
  <1>2. p \in Surjection(S, S)
    BY DEF Arrangements, Surjection
  <1>3. p \in Injection(S, S)
    <2> HIDE DEF S
    <2> QED
      BY <1>1, <1>2, FS_SurjSameCardinalityImpliesInj
  <1> QED
    BY <1>3 DEF Injection, IsInjective, NoneTwice

\* A swap, position by position.
LEMMA Swapped ==
    ASSUME NEW S, NEW p \in [S -> S], NEW a \in S, NEW b \in S, NEW q, q = Swap(p, a, b)
    PROVE  /\ q \in [S -> S] /\ q[b] = p[a] /\ q[a] = p[b]
           /\ \A k \in S : k # a /\ k # b => q[k] = p[k]
  BY DEF Swap

\* An arrangement takes every value.
LEMMA ArrangedAll ==
    ASSUME NEW n, NEW p \in Arrangements(n)
    PROVE  p \in [1 .. n -> 1 .. n] /\ \A v \in 1 .. n : \E k \in 1 .. n : p[k] = v
  <1> DEFINE S == 1 .. n
  <1>1. p \in [S -> S] /\ {p[k] : k \in S} = S
    BY DEF Arrangements
  <1> HIDE DEF S
  <1>2. ASSUME NEW v \in S PROVE \E k \in S : p[k] = v
    BY <1>1
  <1>3. p \in [S -> S] /\ \A v \in S : \E k \in S : p[k] = v
    BY <1>1, <1>2
  <1> QED
    BY <1>3 DEF S

\* A swap loses no value, so that it leaves an arrangement behind.
LEMMA SwapOnto ==
    ASSUME NEW S, NEW p \in [S -> S], Onto(p, S), NEW a \in S, NEW b \in S,
           NEW q, q = Swap(p, a, b)
    PROVE  q \in [S -> S] /\ Onto(q, S)
  <1>1. /\ q \in [S -> S] /\ q[b] = p[a] /\ q[a] = p[b]
        /\ \A k \in S : k # a /\ k # b => q[k] = p[k]
    BY Swapped
  <1>2. ASSUME NEW v \in S PROVE \E k \in S : q[k] = v
    <2>1. PICK k \in S : p[k] = v
      BY DEF Onto
    <2>2. CASE k = a
      BY <1>1, <2>1, <2>2
    <2>3. CASE k = b
      BY <1>1, <2>1, <2>3
    <2>4. CASE k # a /\ k # b
      BY <1>1, <2>1, <2>4
    <2> QED
      BY <2>2, <2>3, <2>4
  <1>3. Onto(q, S)
    BY <1>1, <1>2 DEF Onto
  <1> QED
    BY <1>1, <1>3

\* The same for arrangements.
LEMMA SwapArranges ==
    ASSUME NEW n \in Nat, NEW p \in Arrangements(n), NEW a, NEW b,
           a \in 1 .. n, b \in 1 .. n
    PROVE  Swap(p, a, b) \in Arrangements(n)
  <1> DEFINE S == 1 .. n
  <1>1. p \in [S -> S] /\ Onto(p, S) /\ a \in S /\ b \in S
    BY DEF Arrangements, Onto
  <1> HIDE DEF S
  <1>2. \A q : q = Swap(p, a, b) => q \in [S -> S] /\ Onto(q, S)
    BY <1>1, SwapOnto
  <1> QED
    BY <1>2 DEF S, Arrangements, Onto

\* g has the list as it is after 0, 1, ... n swaps.
Shuffles(g, choice, n) ==
    g = [k \in 0 .. n |-> IF k = 0 THEN Identity(n)
                          ELSE Swap(g[k - 1], n - k + 1, choice[n - k + 1])]

\* There is such a function, for one more swap at a time.
LEMMA ShuffleExists ==
    ASSUME NEW n \in Nat, NEW choice
    PROVE  \E g : Shuffles(g, choice, n)
  <1> DEFINE Step(g, k) == IF k = 0 THEN Identity(n)
                           ELSE Swap(g[k - 1], n - k + 1, choice[n - k + 1])
             UpTo(g, m) == g = [k \in 0 .. n |-> g[k]] /\ \A k \in 0 .. m : g[k] = Step(g, k)
             Fails == {m \in 0 .. n : ~ \E g : UpTo(g, m)}
  <1>1. ASSUME Fails # {} PROVE FALSE
    <2>1. \E m \in Fails : \A l \in Fails : m <= l
      <3>1. Fails \subseteq 0 .. n
        OBVIOUS
      <3> HIDE DEF Fails
      <3> QED
        BY <1>1, <3>1, Sums!SmallestNumber
    <2>2. PICK m \in Fails : \A l \in Fails : m <= l
      BY <2>1
    <2>3. m \in 0 .. n /\ ~ \E g : UpTo(g, m)
      BY <2>2
    <2>4. m # 0
      <3> DEFINE g == [k \in 0 .. n |-> Identity(n)]
      <3>1. g = [k \in 0 .. n |-> g[k]]
        OBVIOUS
      <3>2. \A k \in 0 .. 0 : g[k] = Step(g, k)
        OBVIOUS
      <3>3. UpTo(g, 0)
        BY <3>1, <3>2
      <3> HIDE DEF UpTo, g
      <3> QED
        BY <2>3, <3>3
    <2>5. m - 1 \in 0 .. n /\ m - 1 \notin Fails
      <3> HIDE DEF Fails
      <3> QED
        BY <2>2, <2>3, <2>4
    <2>6. PICK g : UpTo(g, m - 1)
      BY <2>5
    <2> DEFINE h == [k \in 0 .. n |-> IF k = m THEN Step(g, m) ELSE g[k]]
    <2>7. \A k \in 0 .. n : h[k] = IF k = m THEN Step(g, m) ELSE g[k]
      OBVIOUS
    <2>8. h = [k \in 0 .. n |-> h[k]]
      OBVIOUS
    <2> HIDE DEF h
    <2>9. \A k \in 0 .. m : h[k] = Step(h, k)
      <3>1. ASSUME NEW k \in 0 .. m PROVE h[k] = Step(h, k)
        <4>1. k \in 0 .. n /\ (k # 0 => k - 1 \in 0 .. n /\ k - 1 # m)
          BY <2>3
        <4>2. k # 0 => h[k - 1] = g[k - 1]
          BY <2>7, <4>1
        <4>3. Step(h, k) = Step(g, k)
          BY <4>2
        <4>4. h[k] = Step(g, k)
          <5>1. CASE k = m
            BY <2>7, <4>1, <5>1
          <5>2. CASE k # m
            <6>1. k \in 0 .. m - 1
              BY <2>3, <5>2
            <6> HIDE DEF Step
            <6> QED
              BY <2>6, <2>7, <4>1, <5>2, <6>1
          <5> QED
            BY <5>1, <5>2
        <4> QED
          BY <4>3, <4>4
      <3> QED
        BY <3>1
    <2>10. UpTo(h, m)
      BY <2>8, <2>9
    <2> QED
      BY <2>3, <2>10
  <1>2. PICK g : UpTo(g, n)
    BY <1>1
  <1>3. Shuffles(g, choice, n)
    <2>1. g = [k \in 0 .. n |-> Step(g, k)]
      <3> HIDE DEF Step
      <3> QED
        BY <1>2
    <2> QED
      BY <2>1 DEF Shuffles
  <1> QED
    BY <1>3

\* The list after k of the swaps.
After(choice, n) == CHOOSE g : Shuffles(g, choice, n)

\* shuffle is the last of these lists.
LEMMA ShuffleIs ==
    ASSUME NEW n \in Nat, NEW choice
    PROVE  /\ Shuffles(After(choice, n), choice, n)
           /\ shuffle(Identity(n), choice) = After(choice, n)[n]
  <1>1. Shuffles(After(choice, n), choice, n)
    BY ShuffleExists DEF After
  <1>2. Len(Identity(n)) = n
    BY DEF Identity
  <1>3. shuffle(Identity(n), choice) = After(choice, n)[n]
    BY <1>2, Zenon DEF shuffle, After, Shuffles
  <1> QED
    BY <1>1, <1>3

\* The recursion of the shuffle.
LEMMA AfterStep ==
    ASSUME NEW n \in Nat, NEW choice, NEW k \in 1 .. n
    PROVE  After(choice, n)[k] = Swap(After(choice, n)[k - 1], n - k + 1, choice[n - k + 1])
  <1> DEFINE g == After(choice, n)
  <1>1. g = [i \in 0 .. n |-> IF i = 0 THEN Identity(n)
                              ELSE Swap(g[i - 1], n - i + 1, choice[n - i + 1])]
    BY ShuffleIs DEF Shuffles
  <1> HIDE DEF g
  <1>2. k \in 0 .. n /\ k # 0
    OBVIOUS
  <1>3. g[k] = Swap(g[k - 1], n - k + 1, choice[n - k + 1])
    BY <1>1, <1>2
  <1> QED
    BY <1>3 DEF g

\* Before the first swap the list is as it was.
LEMMA AfterStart ==
    ASSUME NEW n \in Nat, NEW choice
    PROVE  After(choice, n)[0] = Identity(n)
  <1> DEFINE g == After(choice, n)
  <1>1. g = [i \in 0 .. n |-> IF i = 0 THEN Identity(n)
                              ELSE Swap(g[i - 1], n - i + 1, choice[n - i + 1])]
    BY ShuffleIs DEF Shuffles
  <1> HIDE DEF g
  <1>2. g[0] = Identity(n)
    BY <1>1
  <1> QED
    BY <1>2 DEF g

\* A set of stages that has the first one, and with each the next, has them all.
LEMMA Stages ==
    ASSUME NEW n \in Nat, NEW first \in 0 .. n, NEW Good, first \in Good,
           \A k \in first + 1 .. n : k - 1 \in Good => k \in Good
    PROVE  first .. n \subseteq Good
  <1> DEFINE Bad == {k \in first .. n : k \notin Good}
  <1> SUFFICES ASSUME Bad # {} PROVE FALSE
    OBVIOUS
  <1>1. Bad \subseteq 0 .. n
    OBVIOUS
  <1>2. \E k \in Bad : \A l \in Bad : k <= l
    <2> HIDE DEF Bad
    <2> QED
      BY <1>1, Sums!SmallestNumber
  <1>3. PICK k \in Bad : \A l \in Bad : k <= l
    BY <1>2
  <1>4. k \in first .. n /\ k \notin Good
    OBVIOUS
  <1>5. k \in first + 1 .. n
    BY <1>4
  <1>6. k - 1 \notin Good
    BY <1>4, <1>5
  <1>7. k - 1 \in Bad
    BY <1>5, <1>6
  <1> HIDE DEF Bad
  <1> QED
    BY <1>3, <1>4, <1>7

\* Swap k is for position n - k + 1, and draws one that is not behind it.
LEMMA ChoiceType ==
    ASSUME NEW n \in Nat, NEW choice \in Choices(n), NEW k \in 1 .. n
    PROVE  /\ n - k + 1 \in 1 .. n /\ choice[n - k + 1] \in 1 .. n
           /\ choice[n - k + 1] <= n - k + 1
  BY DEF Choices

\* The list is an arrangement all the time.
LEMMA AfterArranges ==
    ASSUME NEW n \in Nat, NEW choice \in Choices(n), NEW k \in 0 .. n
    PROVE  After(choice, n)[k] \in Arrangements(n)
  <1> DEFINE Good == {i \in 0 .. n : After(choice, n)[i] \in Arrangements(n)}
  <1>1. 0 \in Good
    <2>1. Identity(n) \in Arrangements(n)
      <3> DEFINE S == 1 .. n
      <3>1. Identity(n) = [i \in S |-> i]
        BY DEF Identity
      <3> HIDE DEF S
      <3>2. Identity(n) \in [S -> S] /\ {Identity(n)[i] : i \in S} = S
        BY <3>1
      <3> QED
        BY <3>2 DEF S, Arrangements
    <2> QED
      BY <2>1, AfterStart
  <1>2. ASSUME NEW i \in 1 .. n, i - 1 \in Good PROVE i \in Good
    <2>1. After(choice, n)[i - 1] \in Arrangements(n)
      BY <1>2
    <2>2. n - i + 1 \in 1 .. n /\ choice[n - i + 1] \in 1 .. n
      BY ChoiceType
    <2>3. Swap(After(choice, n)[i - 1], n - i + 1, choice[n - i + 1]) \in Arrangements(n)
      BY <2>1, <2>2, SwapArranges
    <2> QED
      BY <2>3, AfterStep
  <1> HIDE DEF Good
  <1>3. 0 .. n \subseteq Good
    BY <1>1, <1>2, Stages
  <1> QED
    BY <1>3 DEF Good

\* One swap, position by position.
LEMMA AfterSwap ==
    ASSUME NEW n \in Nat, NEW choice \in Choices(n), NEW k \in 1 .. n
    PROVE  LET c == n - k + 1
               q == After(choice, n)[k - 1]
           IN  /\ After(choice, n)[k][c] = q[choice[c]]
               /\ \A d \in c + 1 .. n : After(choice, n)[k][d] = q[d]
  <1> DEFINE c == n - k + 1
             q == After(choice, n)[k - 1]
  <1>1. c \in 1 .. n /\ choice[c] \in 1 .. n /\ choice[c] <= c
    BY ChoiceType
  <1>2. q \in [1 .. n -> 1 .. n]
    <2>1. k - 1 \in 0 .. n
      OBVIOUS
    <2> QED
      BY <2>1, AfterArranges DEF Arrangements
  <1>3. After(choice, n)[k] = Swap(q, c, choice[c])
    BY AfterStep
  <1> HIDE DEF q, c
  <1>4. /\ Swap(q, c, choice[c])[c] = q[choice[c]]
        /\ \A d \in 1 .. n : d # c /\ d # choice[c] => Swap(q, c, choice[c])[d] = q[d]
    <2> DEFINE S == 1 .. n
               m == choice[c]
    <2>1. q \in [S -> S] /\ c \in S /\ m \in S
      BY <1>1, <1>2
    <2> HIDE DEF S, m
    <2>2. ASSUME NEW r, r = Swap(q, c, m)
          PROVE  r[c] = q[m] /\ \A d \in S : d # c /\ d # m => r[d] = q[d]
      BY <2>1, <2>2, Swapped
    <2> QED
      BY <2>2 DEF S, m
  <1>5. After(choice, n)[k][c] = q[choice[c]]
    BY <1>1, <1>3, <1>4
  <1>6. ASSUME NEW d \in c + 1 .. n PROVE After(choice, n)[k][d] = q[d]
    <2>1. d \in 1 .. n /\ d # c /\ d # choice[c]
      BY <1>1
    <2> QED
      BY <1>3, <1>4, <2>1
  <1> QED
    BY <1>5, <1>6 DEF q, c

\* A position that has had its swap stays as it is.
LEMMA AfterStays ==
    ASSUME NEW n \in Nat, NEW choice \in Choices(n), NEW k \in 0 .. n,
           NEW d \in n - k + 1 .. n
    PROVE  After(choice, n)[n][d] = After(choice, n)[k][d]
  <1> DEFINE g == After(choice, n)
             Good == {i \in k .. n : g[i][d] = g[k][d]}
  <1>1. k \in Good
    OBVIOUS
  <1>2. ASSUME NEW i \in k + 1 .. n, i - 1 \in Good PROVE i \in Good
    <2>1. i \in 1 .. n /\ d \in n - i + 1 + 1 .. n
      OBVIOUS
    <2>2. g[i][d] = g[i - 1][d]
      BY <2>1, AfterSwap
    <2> HIDE DEF g
    <2> QED
      BY <1>2, <2>2
  <1> HIDE DEF Good
  <1>3. k .. n \subseteq Good
    BY <1>1, <1>2, Stages
  <1>4. n \in Good
    BY <1>3
  <1> QED
    BY <1>4 DEF Good

\* What the shuffle leaves at a position: the draw decides among what is there before.
LEMMA ShuffleAt ==
    ASSUME NEW n \in Nat, NEW choice \in Choices(n), NEW c \in 1 .. n
    PROVE  After(choice, n)[n][c] = After(choice, n)[n - c][choice[c]]
  <1> DEFINE k == n - c + 1
  <1>1. k \in 1 .. n /\ k \in 0 .. n /\ n - k + 1 = c /\ k - 1 = n - c
    OBVIOUS
  <1>2. c \in n - k + 1 .. n
    OBVIOUS
  <1> HIDE DEF k
  <1>3. After(choice, n)[n][c] = After(choice, n)[k][c]
    BY <1>1, <1>2, AfterStays
  <1>4. After(choice, n)[k][c] = After(choice, n)[k - 1][choice[c]]
    BY <1>1, AfterSwap
  <1> QED
    BY <1>1, <1>3, <1>4

\* The draws for the last positions decide the first swaps.
LEMMA AfterSame ==
    ASSUME NEW n \in Nat, NEW a, NEW b, NEW c \in 0 .. n,
           \A d \in c + 1 .. n : a[d] = b[d]
    PROVE  After(a, n)[n - c] = After(b, n)[n - c]
  <1> DEFINE Good == {i \in 0 .. n : i <= n - c => After(a, n)[i] = After(b, n)[i]}
  <1>1. 0 \in Good
    BY AfterStart
  <1>2. ASSUME NEW i \in 1 .. n, i - 1 \in Good PROVE i \in Good
    <2>1. CASE i <= n - c
      <3>1. n - i + 1 \in c + 1 .. n
        BY <2>1
      <3>2. After(a, n)[i - 1] = After(b, n)[i - 1]
        BY <1>2, <2>1
      <3>3. a[n - i + 1] = b[n - i + 1]
        BY <3>1
      <3>4. After(a, n)[i] = After(b, n)[i]
        BY <3>2, <3>3, AfterStep
      <3> QED
        BY <3>4
    <2>2. CASE ~ (i <= n - c)
      BY <2>2
    <2> QED
      BY <2>1, <2>2
  <1> HIDE DEF Good
  <1>3. 0 .. n \subseteq Good
    BY <1>1, <1>2, Stages
  <1>4. n - c \in 0 .. n
    OBVIOUS
  <1> QED
    BY <1>3, <1>4 DEF Good

\* Different draws give different lists.
LEMMA ShuffleDiffers ==
    ASSUME NEW n \in Nat, NEW a \in Choices(n), NEW b \in Choices(n),
           After(a, n)[n] = After(b, n)[n]
    PROVE  a = b
  <1> DEFINE Good == {i \in 0 .. n : \A d \in n - i + 1 .. n : a[d] = b[d]}
  <1>1. 0 \in Good
    OBVIOUS
  <1>2. ASSUME NEW i \in 1 .. n, i - 1 \in Good PROVE i \in Good
    <2> DEFINE c == n - i + 1
               q == After(a, n)[n - c]
    <2>1. c \in 1 .. n /\ c \in 0 .. n /\ \A d \in c + 1 .. n : a[d] = b[d]
      <3>1. n - (i - 1) + 1 = c + 1
        OBVIOUS
      <3> QED
        BY <1>2, <3>1
    <2>2. n - i + 1 = c
      OBVIOUS
    <2> HIDE DEF c
    <2>3. q = After(b, n)[n - c]
      BY <2>1, AfterSame
    <2>4. q[a[c]] = q[b[c]]
      BY <2>1, <2>3, ShuffleAt
    <2>5. NoneTwice(q, n)
      <3>1. n - c \in 0 .. n
        BY <2>1
      <3> QED
        BY <3>1, AfterArranges, ArrangedOnce
    <2>6. a[c] \in 1 .. n /\ b[c] \in 1 .. n
      BY <2>1 DEF Choices
    <2> HIDE DEF q
    <2>7. a[c] = b[c]
      BY <2>4, <2>5, <2>6 DEF NoneTwice
    <2>8. \A d \in c .. n : d = c \/ d \in c + 1 .. n
      BY <2>1
    <2> QED
      BY <2>1, <2>2, <2>7, <2>8
  <1> HIDE DEF Good
  <1>3. 0 .. n \subseteq Good
    BY <1>1, <1>2, Stages
  <1>4. \A d \in 1 .. n : a[d] = b[d]
    <2>1. n \in Good /\ n - n + 1 = 1
      BY <1>3
    <2> QED
      BY <2>1 DEF Good
  <1> QED
    BY <1>4 DEF Choices

\* Every arrangement comes from some draws.
LEMMA ShuffleReaches ==
    ASSUME NEW n \in Nat, NEW p \in Arrangements(n)
    PROVE  \E choice \in Choices(n) : After(choice, n)[n] = p
  <1> DEFINE Reaches(choice, i) == \A d \in n - i + 1 .. n : After(choice, n)[n][d] = p[d]
             Good == {i \in 0 .. n : \E choice \in Choices(n) : Reaches(choice, i)}
  <1>0. p \in [1 .. n -> 1 .. n] /\ NoneTwice(p, n)
    BY ArrangedOnce DEF Arrangements
  <1>1. 0 \in Good
    <2>1. Identity(n) \in Choices(n)
      BY DEF Identity, Choices
    <2>2. Reaches(Identity(n), 0)
      OBVIOUS
    <2> QED
      BY <2>1, <2>2
  <1>2. ASSUME NEW i \in 1 .. n, i - 1 \in Good PROVE i \in Good
    <2> DEFINE c == n - i + 1
    <2>1. PICK old \in Choices(n) : Reaches(old, i - 1)
      BY <1>2
    <2>2. /\ c \in 1 .. n /\ n - c \in 0 .. n /\ n - (n - c) + 1 = c + 1 /\ n - i + 1 = c
          /\ n - (i - 1) + 1 = c + 1 /\ c \in 0 .. n
      OBVIOUS
    <2>3. \A d \in c + 1 .. n : After(old, n)[n][d] = p[d]
      BY <2>1, <2>2
    <2> HIDE DEF c
    <2> DEFINE q == After(old, n)[n - c]
    <2>4. q \in Arrangements(n)
      BY <2>2, AfterArranges
    <2>5. PICK j \in 1 .. n : q[j] = p[c]
      <3>1. p[c] \in 1 .. n
        BY <1>0, <2>2
      <3> HIDE DEF q
      <3> QED
        BY <2>4, <3>1, ArrangedAll
    <2>6. \A d \in c + 1 .. n : q[d] = p[d]
      <3> TAKE d \in c + 1 .. n
      <3>1. d \in n - (n - c) + 1 .. n
        BY <2>2
      <3>2. After(old, n)[n][d] = After(old, n)[n - c][d]
        BY <2>2, <3>1, AfterStays
      <3> QED
        BY <2>3, <3>2
    <2> HIDE DEF q
    <2>7. j <= c
      <3> SUFFICES ASSUME j > c PROVE FALSE
        BY <2>2
      <3>1. j \in c + 1 .. n
        BY <2>2
      <3>2. p[j] = p[c]
        BY <2>5, <2>6, <3>1
      <3> QED
        BY <1>0, <2>2, <3>2 DEF NoneTwice
    <2> DEFINE new == [old EXCEPT ![c] = j]
    <2>8. new \in Choices(n) /\ new[c] = j /\ \A d \in c + 1 .. n : new[d] = old[d]
      <3>1. old \in [1 .. n -> 1 .. n] /\ \A d \in 1 .. n : old[d] <= d
        BY DEF Choices
      <3>2. new \in [1 .. n -> 1 .. n]
        BY <3>1
      <3>3. \A d \in 1 .. n : new[d] = IF d = c THEN j ELSE old[d]
        BY <3>1
      <3>4. \A d \in c + 1 .. n : d \in 1 .. n /\ d # c
        BY <2>2
      <3> HIDE DEF new
      <3>5. \A d \in 1 .. n : new[d] <= d
        BY <2>7, <3>1, <3>3
      <3> QED
        BY <2>2, <3>2, <3>3, <3>4, <3>5 DEF Choices
    <2> HIDE DEF new
    <2>9. After(new, n)[n - c] = q
      BY <2>2, <2>8, AfterSame DEF q
    <2>10. After(new, n)[n][c] = p[c]
      BY <2>2, <2>5, <2>8, <2>9, ShuffleAt
    <2>11. \A d \in c + 1 .. n : After(new, n)[n][d] = p[d]
      <3> TAKE d \in c + 1 .. n
      <3>1. d \in n - (n - c) + 1 .. n
        BY <2>2
      <3>2. After(new, n)[n][d] = After(new, n)[n - c][d]
        BY <2>2, <2>8, <3>1, AfterStays
      <3> QED
        BY <2>6, <2>9, <3>2
    <2>12. \A d \in c .. n : d = c \/ d \in c + 1 .. n
      BY <2>2
    <2>13. Reaches(new, i)
      BY <2>2, <2>10, <2>11, <2>12
    <2> HIDE DEF Reaches
    <2> QED
      BY <2>8, <2>13
  <1> HIDE DEF Good
  <1>3. 0 .. n \subseteq Good
    BY <1>1, <1>2, Stages
  <1>4. n \in Good /\ n - n + 1 = 1
    BY <1>3
  <1>5. PICK choice \in Choices(n) : \A d \in 1 .. n : After(choice, n)[n][d] = p[d]
    BY <1>4 DEF Good
  <1>6. After(choice, n)[n] \in [1 .. n -> 1 .. n]
    <2>1. n \in 0 .. n
      OBVIOUS
    <2> QED
      BY <2>1, AfterArranges DEF Arrangements
  <1>7. After(choice, n)[n] = p
    BY <1>0, <1>5, <1>6
  <1> QED
    BY <1>7

\* There are finitely many sequences of draws.
LEMMA ChoicesFinite == ASSUME NEW n \in Nat PROVE IsFiniteSet(Choices(n))
  <1> DEFINE S == 1 .. n
             Pairs(f) == {<<k, f[k]>> : k \in S}
             F == [f \in [S -> S] |-> Pairs(f)]
  <1>1. IsFiniteSet(SUBSET (S \X S))
    <2>1. IsFiniteSet(S)
      BY FS_Interval
    <2> HIDE DEF S
    <2> QED
      BY <2>1, FS_Product, FS_SUBSET
  <1>2. Choices(n) \subseteq [S -> S]
    BY DEF Choices
  <1> HIDE DEF S
  <1>3. F \in [[S -> S] -> SUBSET (S \X S)]
    OBVIOUS
  <1>4. ASSUME NEW f \in [S -> S], NEW g \in [S -> S], F[f] = F[g] PROVE f = g
    <2>1. Pairs(f) = Pairs(g)
      BY <1>4
    <2>2. ASSUME NEW k \in S PROVE f[k] = g[k]
      <3>1. <<k, f[k]>> \in Pairs(g)
        BY <2>1
      <3> QED
        BY <3>1
    <2> QED
      BY <2>2
  <1> HIDE DEF F, Pairs
  <1>5. F \in Injection([S -> S], SUBSET (S \X S))
    BY <1>3, <1>4 DEF Injection, IsInjective
  <1>6. IsFiniteSet([S -> S])
    BY <1>1, <1>5, FS_Injection
  <1> QED
    BY <1>2, <1>6, FS_Subset

\* Whatever the length of the list: each arrangement of it comes from one sequence of
\* draws and no other.
THEOREM ShuffleFair ==
    ASSUME NEW n \in Nat,
           NEW results, results = {shuffle(Identity(n), choice) : choice \in Choices(n)}
    PROVE  results = Arrangements(n) /\ Cardinality(results) = Cardinality(Choices(n))
  <1> DEFINE C == Choices(n)
             F == [choice \in C |-> After(choice, n)[n]]
  <1>1. \A choice \in C : shuffle(Identity(n), choice) = F[choice]
    BY ShuffleIs
  <1>2. \A choice \in C : F[choice] \in Arrangements(n)
    <2>1. n \in 0 .. n
      OBVIOUS
    <2> QED
      BY <2>1, AfterArranges
  <1>3. \A p \in Arrangements(n) : \E choice \in C : F[choice] = p
    BY ShuffleReaches
  <1>4. \A a, b \in C : F[a] = F[b] => a = b
    BY ShuffleDiffers
  <1>5. F = [choice \in C |-> F[choice]]
    OBVIOUS
  <1>6. IsFiniteSet(C)
    BY ChoicesFinite
  <1>7. results = {shuffle(Identity(n), choice) : choice \in C}
    OBVIOUS
  <1> HIDE DEF F, C
  <1>8. results = Arrangements(n)
    BY <1>1, <1>2, <1>3, <1>7
  <1>9. F \in [C -> results] /\ \A p \in results : \E choice \in C : F[choice] = p
    BY <1>2, <1>3, <1>5, <1>8
  <1>10. F \in Bijection(C, results)
    BY <1>4, <1>9 DEF Bijection, Injection, Surjection, IsInjective
  <1>11. Cardinality(results) = Cardinality(C)
    BY <1>6, <1>10, FS_Bijection DEF ExistsBijection
  <1> QED
    BY <1>8, <1>11 DEF C

\* Every order of up to four sales comes from one sequence of draws and no other (the
\* shuffle of utils/random.ts); ShuffleFair says so for any number.
THEOREM AgentShuffleIsFair == AgentSpec => []ShuffleIsFair
  <1>1. ShuffleIsFair
    <2> SUFFICES ASSUME NEW n \in 0 .. 4
                 PROVE  LET identity == [k \in 1 .. n |-> k]
                            results == {shuffle(identity, choice) : choice \in Choices(n)}
                        IN  /\ results = {p \in [1 .. n -> 1 .. n] : {p[k] : k \in 1 .. n} = 1 .. n}
                            /\ Cardinality(results) = Cardinality(Choices(n))
      BY Zenon DEF ShuffleIsFair
    <2>1. n \in Nat
      OBVIOUS
    <2> QED
      BY <2>1, ShuffleFair, Zenon DEF Identity, Arrangements
  <1> QED
    BY <1>1, PTL
=============================================================================
