------------------------------ MODULE Profile ------------------------------
(***************************************************************************)
(* What a simulated user is like: the table of profiles, the draw of one,  *)
(* the state an iteration starts from, and the choice of a ticket area.    *)
(* Everything here is a function of its arguments; a random number is an   *)
(* argument.                                                               *)
(***************************************************************************)
EXTENDS Integers, Sequences, FiniteSets

\* The profiles of one kind of user: <<quantity, persistence, percent>>.
Rows(day, tier, rows) ==
    [k \in DOMAIN rows |->
        [day |-> day, tier |-> tier, quantity |-> rows[k][1],
         persistence |-> rows[k][2], percent |-> rows[k][3]]]

SpecificSeated ==
    Rows("Specific", "Seated-Low",
         << <<"Solo", "Medium", 1>>, <<"Solo", "High", 2>>, <<"Couple", "Low", 2>>,
            <<"Couple", "Medium", 3>>, <<"Couple", "High", 2>>, <<"Group", "Low", 2>>,
            <<"Group", "Medium", 2>> >>) \o
    Rows("Specific", "Seated-Mid",
         << <<"Solo", "Medium", 1>>, <<"Solo", "High", 2>>, <<"Couple", "Low", 2>>,
            <<"Couple", "Medium", 2>>, <<"Couple", "High", 2>>, <<"Group", "Low", 3>>,
            <<"Group", "Medium", 2>> >>) \o
    Rows("Specific", "Seated-High",
         << <<"Solo", "Medium", 2>>, <<"Solo", "High", 2>>, <<"Couple", "Medium", 2>>,
            <<"Couple", "High", 2>>, <<"Group", "Medium", 2>> >>)

SpecificArea ==
    Rows("Specific", "Area-Mid",
         << <<"Solo", "Low", 1>>, <<"Solo", "Medium", 2>>, <<"Couple", "Low", 1>>,
            <<"Couple", "Medium", 2>>, <<"Couple", "High", 1>>, <<"Group", "Medium", 2>> >>) \o
    Rows("Specific", "Area-High",
         << <<"Solo", "Medium", 2>>, <<"Solo", "High", 1>>, <<"Couple", "Medium", 1>>,
            <<"Couple", "High", 1>> >>)

\* Variant: two rows of the table have their percentages exchanged.
AnyDaySeatedSlip ==
    Rows("Any Day", "Seated-Low",
         << <<"Solo", "Medium", 3>>, <<"Couple", "Low", 2>>, <<"Couple", "Medium", 3>>,
            <<"Couple", "High", 3>>, <<"Group", "Medium", 2>> >>) \o
    Rows("Any Day", "Seated-Mid",
         << <<"Solo", "Medium", 2>>, <<"Couple", "Low", 3>>, <<"Couple", "Medium", 1>>,
            <<"Couple", "High", 2>>, <<"Group", "Medium", 4>> >>) \o
    Rows("Any Day", "Seated-High",
         << <<"Solo", "Medium", 2>>, <<"Solo", "High", 2>>, <<"Group", "Medium", 3>>,
            <<"Couple", "High", 2>> >>)

AnyDaySeated ==
    Rows("Any Day", "Seated-Low",
         << <<"Solo", "Medium", 2>>, <<"Couple", "Low", 3>>, <<"Couple", "Medium", 3>>,
            <<"Couple", "High", 3>>, <<"Group", "Medium", 2>> >>) \o
    Rows("Any Day", "Seated-Mid",
         << <<"Solo", "Medium", 2>>, <<"Couple", "Low", 3>>, <<"Couple", "Medium", 1>>,
            <<"Couple", "High", 2>>, <<"Group", "Medium", 4>> >>) \o
    Rows("Any Day", "Seated-High",
         << <<"Solo", "Medium", 2>>, <<"Solo", "High", 2>>, <<"Group", "Medium", 3>>,
            <<"Couple", "High", 2>> >>)

AnyDayArea ==
    Rows("Any Day", "Area-Mid",
         << <<"Solo", "Medium", 2>>, <<"Couple", "Low", 2>>, <<"Couple", "High", 2>>,
            <<"Group", "Medium", 2>> >>) \o
    Rows("Any Day", "Area-High",
         << <<"Solo", "High", 2>>, <<"Couple", "Medium", 2>>, <<"Couple", "High", 2>> >>)

userProfilesData == SpecificSeated \o SpecificArea \o AnyDaySeated \o AnyDayArea

\* The running sums.
cumulative[k \in 0 .. Len(userProfilesData)] ==
    IF k = 0 THEN 0 ELSE cumulative[k - 1] + userProfilesData[k].percent

totalProbability == cumulative[Len(userProfilesData)]

\* The profile for a random value in the interval (draw - 1, draw].
getUserProfile(draw) ==
    LET reached == {k \in DOMAIN userProfilesData : draw <= cumulative[k]}
    IN  userProfilesData[CHOOSE k \in reached : \A j \in reached : k <= j]

-----------------------------------------------------------------------------
(* The state of an iteration, from its profile.                            *)

MaxBrowseAttempt(persistence) ==
    CASE persistence = "High" -> 27 [] persistence = "Medium" -> 18 [] OTHER -> 9

MaxOrderAttempt(persistence) ==
    CASE persistence = "High" -> 9 [] persistence = "Medium" -> 6 [] OTHER -> 3

\* The category orders a tier may end up with; the shuffles are the choices.
TierOrders(tier) ==
    CASE tier = "Seated-Low" -> {<<"Bronze", "Silver">>}
      [] tier = "Seated-Mid" -> {<<"Silver", "Gold", "Bronze">>, <<"Silver", "Bronze", "Gold">>}
      [] tier = "Seated-High" -> {<<"Platinum", "Gold">>, <<"Gold", "Platinum">>}
      [] tier = "Area-Mid" -> {<<"VIP", "Zone A">>}
      [] OTHER -> {<<"Zone A", "Zone B">>, <<"Zone B", "Zone A">>}

AreaType(tier) == IF tier \in {"Area-Mid", "Area-High"} THEN "Area" ELSE "Seated"

\* How many of the n shuffled sales the user looks at.  randomIntBetween(1, 0) is 1.
SelectedSales(day, n) ==
    IF day = "Any Day" THEN {n}
    ELSE IF n < 2 THEN {n} ELSE 1 .. (n \div 2)

-----------------------------------------------------------------------------
(* Shuffling.                                                              *)

Swap(s, a, b) == [s EXCEPT ![a] = s[b], ![b] = s[a]]

\* The random indices the loop may draw: one of the first c when c remain.
\* Variant: one of all of them, every time.
ChoicesOfAll(n) == [1 .. n -> 1 .. n]
Choices(n) == {choice \in [1 .. n -> 1 .. n] : \A c \in 1 .. n : choice[c] <= c}

\* shuffle(s) with the given draws, from the last position to the first.
shuffle(s, choice) ==
    LET after[k \in 0 .. Len(s)] ==
          IF k = 0 THEN s
          ELSE LET c == Len(s) - k + 1 IN Swap(after[k - 1], c, choice[c])
    IN  after[Len(s)]

-----------------------------------------------------------------------------
(* Choosing an area.  offer[s] is the set of categories of sale s with an  *)
(* area that has as many seats as the user wants; it is empty when the     *)
(* query of the availability of s gave nothing.                            *)

\* Same Day: the first category of the order that one sale offers; 0 is none.
getAreaPreferSameDay(order, offered) ==
    LET from[c \in 1 .. Len(order) + 1] ==
          IF c > Len(order) THEN 0
          ELSE IF order[c] \in offered THEN c ELSE from[c + 1]
    IN  from[1]

\* Variant: the loop over the sales is the outer one.
SalesFirst(order, offer) ==
    LET n == Len(order)
        from[k \in 0 .. n * Len(offer)] ==
          IF k = n * Len(offer) THEN 0
          ELSE IF order[(k % n) + 1] \in offer[(k \div n) + 1]
               THEN (k % n) + 1 ELSE from[k + 1]
    IN  from[0]

\* Same Category: category by category, sale by sale.
getAreaPreferSameCategory(order, offer) ==
    LET n == Len(offer)
        from[k \in 0 .. n * Len(order)] ==
          IF k = n * Len(order) THEN 0
          ELSE IF order[(k \div n) + 1] \in offer[(k % n) + 1]
               THEN (k \div n) + 1 ELSE from[k + 1]
    IN  from[0]
=============================================================================
