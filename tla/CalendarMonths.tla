--------------------------- MODULE CalendarMonths ---------------------------
(***************************************************************************)
(* The calendar arithmetic of paid terms: addCalendarMonthsUtc of          *)
(* packages/db/src/cloud-entitlement.ts, and a customer who extends a term *)
(* again and again with it.  CloudEntitlement counts a term in ticks; this *)
(* module is about what a term is in days.                                 *)
(*                                                                         *)
(* A date is its UTC year, its month counted from 0 as JavaScript does,    *)
(* and its day.  The time of day is carried along unchanged and left out.  *)
(***************************************************************************)
EXTENDS Integers

CONSTANTS
    Years,      \* the years in which a first term may begin
    Days,       \* the days of the month on which it may begin
    Terms,      \* the months a purchase may add (config.accessMonths)
    MaxMonths   \* bound: how far one customer extends

ASSUME CalendarParameters ==
    /\ Years \subseteq Nat
    /\ Days \subseteq 1..31
    /\ Terms \subseteq Nat
    /\ MaxMonths \in Nat

VARIABLES first, until, months

vars == <<first, until, months>>

Leap(y) == y % 4 = 0 /\ (y % 100 # 0 \/ y % 400 = 0)

\* Date.UTC(y, m + 1, 0): the day before the first of the next month.
LastDay(y, m) ==
    CASE m \in {3, 5, 8, 10} -> 30
      [] m = 1               -> IF Leap(y) THEN 29 ELSE 28
      [] OTHER               -> 31

Date == {d \in [y : Nat, m : 0..11, day : 1..31] : d.day <= LastDay(d.y, d.m)}

Starts == {d \in [y : Years, m : 0..11, day : Days] : d.day <= LastDay(d.y, d.m)}

Clamp(day, last) == IF day <= last THEN day ELSE last

\* Mutant of AddCalendarMonths: the last of a month stays the last.
AddCalendarMonths_Sticky(d, n) ==
    LET y == d.y + (d.m + n) \div 12
        m == (d.m + n) % 12 IN
    [y |-> y, m |-> m,
     day |-> IF d.day = LastDay(d.y, d.m) THEN LastDay(y, m)
             ELSE Clamp(d.day, LastDay(y, m))]

AddCalendarMonths(d, n) ==
    LET y == d.y + (d.m + n) \div 12
        m == (d.m + n) % 12 IN
    [y |-> y, m |-> m, day |-> Clamp(d.day, LastDay(y, m))]

MonthOf(d) == 12 * d.y + d.m

NotAfter(d, e) ==
    \/ MonthOf(d) < MonthOf(e)
    \/ MonthOf(d) = MonthOf(e) /\ d.day <= e.day
-----------------------------------------------------------------------------
Init == first \in Starts /\ until = first /\ months = 0

\* Another purchase before the term ends is stacked on its end.
Extend(n) ==
    /\ months + n <= MaxMonths
    /\ until' = AddCalendarMonths(until, n)
    /\ months' = months + n
    /\ UNCHANGED first

Next == \E n \in Terms : Extend(n)

Spec == Init /\ [][Next]_vars
-----------------------------------------------------------------------------
TypeOK == first \in Starts /\ until \in Date /\ months \in 0..MaxMonths

\* Stacked terms are whole calendar months: neither the turn of a year nor a
\* short month adds or drops one.
WholeMonths == MonthOf(until) = MonthOf(first) + months

\* The day of the month a customer started on is kept, or the term ends at
\* most three days before it, on the 28th or later: clamping never accumulates.
DriftIsBounded ==
    \/ until.day = first.day
    \/ until.day \in 28..first.day /\ first.day - until.day <= 3

\* Buying several terms one after the other never ends later than one long
\* term: there is nothing to gain from splitting a purchase.
SplittingGainsNothing == NotAfter(until, AddCalendarMonths(first, months))

\* Who starts later never ends earlier, clamped or not: the comparison of ends
\* that applyPaidCloudPayment stacks by agrees with the order of purchases.
LaterStartsEndLater ==
    \A d \in Starts :
        NotAfter(first, d) => NotAfter(AddCalendarMonths(first, months),
                                       AddCalendarMonths(d, months))

\* Both: neither the number of purchases nor their order is worth a day.
TermsAreFair == SplittingGainsNothing /\ LaterStartsEndLater
=============================================================================
