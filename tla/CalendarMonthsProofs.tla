------------------------ MODULE CalendarMonthsProofs ------------------------
(***************************************************************************)
(* Proofs about CalendarMonths, for all years, days and terms: a stacked   *)
(* term is valid and whole, and who starts later never ends earlier.       *)
(***************************************************************************)
EXTENDS CalendarMonths, TLAPS

\* Every month has between 28 and 31 days.
LEMMA LastDayBounds ==
    ASSUME NEW y \in Nat, NEW m \in 0..11
    PROVE  LastDay(y, m) \in 28..31
BY DEF LastDay

\* Carrying months over years with \div and % loses none of them.
LEMMA Carry ==
    ASSUME NEW a \in Nat
    PROVE  /\ a \div 12 \in Nat /\ a % 12 \in 0..11
           /\ a = 12 * (a \div 12) + (a % 12)
OBVIOUS

\* Adding months to a date yields a date, exactly that many months later.
LEMMA AddedMonths ==
    ASSUME NEW d \in Date, NEW n \in Nat
    PROVE  /\ AddCalendarMonths(d, n) \in Date
           /\ MonthOf(AddCalendarMonths(d, n)) = MonthOf(d) + n
<1> DEFINE a == d.m + n
           q == a \div 12
           m == a % 12
           y == d.y + q
<1>1. d.y \in Nat /\ d.m \in 0..11 /\ d.day \in 1..31
  BY DEF Date
<1>2. a \in Nat
  BY <1>1
<1>3. q \in Nat /\ m \in 0..11 /\ a = 12 * q + m
  <2> HIDE DEF a
  <2> QED BY <1>2, Carry
<1>4. AddCalendarMonths(d, n) = [y |-> y, m |-> m,
                                 day |-> Clamp(d.day, LastDay(y, m))]
  BY DEF AddCalendarMonths
<1>5. 12 * y + m = 12 * d.y + d.m + n
  <2>1. a = d.m + n /\ y = d.y + q
    OBVIOUS
  <2> HIDE DEF a, q, m, y
  <2> QED BY <1>1, <1>3, <2>1
<1>6. y \in Nat
  <2> HIDE DEF a, q, m
  <2> QED BY <1>1, <1>3
<1> HIDE DEF a, q, m, y
<1>7. LastDay(y, m) \in 28..31
  BY <1>3, <1>6, LastDayBounds
<1>8. /\ Clamp(d.day, LastDay(y, m)) \in 1..31
      /\ Clamp(d.day, LastDay(y, m)) <= LastDay(y, m)
  BY <1>1, <1>7 DEF Clamp
<1>9. AddCalendarMonths(d, n) \in Date
  BY <1>3, <1>4, <1>6, <1>8 DEF Date
<1>10. MonthOf(AddCalendarMonths(d, n)) = MonthOf(d) + n
  BY <1>4, <1>5 DEF MonthOf
<1> QED BY <1>9, <1>10

\* A first term begins on a date.
LEMMA StartsAreDates == Starts \subseteq Date
BY CalendarParameters DEF Starts, Date

\* Every date a customer reaches is one, after whole calendar months.
IInv == TypeOK /\ WholeMonths

\* The first term begins on a date, before any month was added.
LEMMA InitIInv == Init => IInv
<1> SUFFICES ASSUME Init PROVE IInv
  OBVIOUS
<1>1. first \in Date
  BY StartsAreDates DEF Init
<1>2. MonthOf(first) \in Nat
  BY <1>1 DEF MonthOf, Date
<1>3. WholeMonths
  BY <1>2 DEF Init, WholeMonths
<1>4. TypeOK
  BY <1>1, CalendarParameters DEF Init, TypeOK
<1> QED BY <1>3, <1>4 DEF IInv

\* Extending a term keeps its end a date and adds the months of the term.
LEMMA NextIInv == IInv /\ [Next]_vars => IInv'
<1> SUFFICES ASSUME IInv, [Next]_vars PROVE IInv'
  OBVIOUS
<1>1. first \in Date /\ until \in Date /\ months \in Nat /\ MaxMonths \in Nat
  BY StartsAreDates, CalendarParameters DEF IInv, TypeOK
<1>2. MonthOf(first) \in Nat
  BY <1>1 DEF MonthOf, Date
<1>3. ASSUME NEW n \in Terms, Extend(n) PROVE IInv'
  <2>1. n \in Nat /\ until' = AddCalendarMonths(until, n)
    BY <1>3, CalendarParameters DEF Extend
  <2>2. until' \in Date /\ MonthOf(until') = MonthOf(until) + n
    BY <1>1, <2>1, AddedMonths
  <2>3. months' = months + n /\ months + n <= MaxMonths /\ first' = first
    BY <1>3 DEF Extend
  <2>4. MonthOf(first') = MonthOf(first) /\ MonthOf(until)' = MonthOf(until')
    BY <2>3 DEF MonthOf
  <2>5. MonthOf(until) = MonthOf(first) + months
    BY DEF IInv, WholeMonths
  <2>6. WholeMonths'
    <3>1. MonthOf(until') = MonthOf(first) + months'
      BY <1>1, <1>2, <2>1, <2>2, <2>3, <2>5
    <3> QED BY <2>4, <3>1 DEF WholeMonths
  <2>7. TypeOK'
    BY <1>1, <2>1, <2>2, <2>3 DEF IInv, TypeOK
  <2> QED BY <2>6, <2>7 DEF IInv
<1>4. CASE UNCHANGED vars
  BY <1>4 DEF IInv, TypeOK, WholeMonths, vars
<1> QED BY <1>3, <1>4 DEF Next

\* Stacked terms, however many, are whole calendar months: no turn of a year
\* and no short month adds or drops one.
THEOREM TermsAreWholeMonths == Spec => []WholeMonths
<1>1. IInv => WholeMonths
  BY DEF IInv
<1> QED BY <1>1, InitIInv, NextIInv, PTL DEF Spec

\* The absolute month determines the year and the month of the year.
LEMMA MonthDeterminesDate ==
    ASSUME NEW i \in Nat, NEW j \in Nat, NEW k \in 0..11, NEW l \in 0..11,
           12 * i + k = 12 * j + l
    PROVE  i = j /\ k = l
OBVIOUS

\* Clamping keeps the order of days.
LEMMA ClampIsMonotone ==
    ASSUME NEW i \in 1..31, NEW j \in 1..31, NEW last \in 28..31, i <= j
    PROVE  Clamp(i, last) <= Clamp(j, last)
BY DEF Clamp

\* Who starts later never ends earlier, for every pair of dates and any number
\* of months, clamped or not.
LEMMA AddingKeepsOrder ==
    ASSUME NEW d \in Date, NEW e \in Date, NEW n \in Nat, NotAfter(d, e)
    PROVE  NotAfter(AddCalendarMonths(d, n), AddCalendarMonths(e, n))
<1> DEFINE D == AddCalendarMonths(d, n)
           E == AddCalendarMonths(e, n)
<1>1. /\ MonthOf(d) \in Nat /\ d.y \in Nat /\ d.m \in 0..11 /\ d.day \in 1..31
      /\ MonthOf(e) \in Nat /\ e.y \in Nat /\ e.m \in 0..11 /\ e.day \in 1..31
  BY DEF Date, MonthOf
<1>2. MonthOf(D) = MonthOf(d) + n /\ MonthOf(E) = MonthOf(e) + n
  BY AddedMonths
<1>3. CASE MonthOf(d) < MonthOf(e)
  <2>1. MonthOf(D) < MonthOf(E)
    BY <1>1, <1>2, <1>3
  <2> QED BY <2>1 DEF NotAfter
<1>4. CASE MonthOf(d) = MonthOf(e) /\ d.day <= e.day
  <2>1. d.y = e.y /\ d.m = e.m
    <3>1. 12 * d.y + d.m = 12 * e.y + e.m
      BY <1>4 DEF MonthOf
    <3> QED BY <1>1, <3>1, MonthDeterminesDate
  <2> DEFINE y == d.y + (d.m + n) \div 12
             m == (d.m + n) % 12
  <2>2. D.day = Clamp(d.day, LastDay(y, m)) /\ E.day = Clamp(e.day, LastDay(y, m))
    BY <2>1 DEF AddCalendarMonths
  <2>3. y \in Nat /\ m \in 0..11
    <3>1. D \in Date /\ D.y = y /\ D.m = m
      BY AddedMonths DEF AddCalendarMonths
    <3> HIDE DEF D, y, m
    <3> QED BY <3>1 DEF Date
  <2> HIDE DEF y, m
  <2>4. LastDay(y, m) \in 28..31
    BY <2>3, LastDayBounds
  <2>5. D.day <= E.day
    BY <1>1, <1>4, <2>2, <2>4, ClampIsMonotone
  <2>6. MonthOf(D) = MonthOf(E)
    BY <1>2, <1>4
  <2> QED BY <2>5, <2>6 DEF NotAfter
<1> QED BY <1>3, <1>4 DEF NotAfter

\* In every state of the model: the comparison of ends that decides what a
\* purchase is stacked on agrees with the order of the beginnings.
THEOREM LaterStartsNeverEndEarlier == Spec => []LaterStartsEndLater
<1>1. IInv => LaterStartsEndLater
  <2> SUFFICES ASSUME IInv, NEW d \in Starts, NotAfter(first, d)
               PROVE  NotAfter(AddCalendarMonths(first, months),
                               AddCalendarMonths(d, months))
    BY DEF LaterStartsEndLater
  <2>1. first \in Date /\ d \in Date /\ months \in Nat
    BY StartsAreDates, CalendarParameters DEF IInv, TypeOK
  <2> QED BY <2>1, AddingKeepsOrder
<1> QED BY <1>1, InitIInv, NextIInv, PTL DEF Spec

\* Every end a customer reaches is a date that exists, and the whole state is
\* of its type.
THEOREM TypeCorrect == Spec => []TypeOK
<1>1. IInv => TypeOK
  BY DEF IInv
<1> QED BY <1>1, InitIInv, NextIInv, PTL DEF Spec

\* One extension moves the day of the month back only to the end of a month.
LEMMA DriftIsKept ==
    ASSUME IInv, DriftIsBounded, [Next]_vars
    PROVE  DriftIsBounded'
<1>1. first \in Date /\ until \in Date
  BY StartsAreDates DEF IInv, TypeOK
<1>2. first.day \in 1..31 /\ until.day \in 1..31
  BY <1>1 DEF Date
<1>3. ASSUME NEW n \in Terms, Extend(n) PROVE DriftIsBounded'
  <2> DEFINE y == until.y + (until.m + n) \div 12
             m == (until.m + n) % 12
  <2>1. n \in Nat /\ until' = AddCalendarMonths(until, n) /\ first' = first
    BY <1>3, CalendarParameters DEF Extend
  <2>2. until'.day = Clamp(until.day, LastDay(y, m)) /\ until'.y = y /\ until'.m = m
    BY <2>1 DEF AddCalendarMonths
  <2>3. until' \in Date
    BY <1>1, <2>1, AddedMonths
  <2> HIDE DEF y, m
  <2>4. LastDay(y, m) \in 28..31
    BY <2>2, <2>3, LastDayBounds DEF Date
  <2>5. first'.day = first.day
    BY <2>1
  <2> QED BY <1>2, <2>2, <2>4, <2>5 DEF Clamp, DriftIsBounded
<1>4. CASE UNCHANGED vars
  BY <1>4 DEF DriftIsBounded, vars
<1> QED BY <1>3, <1>4 DEF Next

\* Clamping never accumulates: however many terms are stacked, the day of the
\* month is the first one's or at most three days before it.
THEOREM DriftNeverAccumulates == Spec => []DriftIsBounded
<1>1. Init => DriftIsBounded
  BY DEF Init, DriftIsBounded
<1> QED BY <1>1, InitIInv, NextIInv, DriftIsKept, PTL DEF Spec

\* Buying terms one by one never ends later than one long term.
THEOREM SplittingNeverGains == Spec => []SplittingGainsNothing
<1>1. IInv /\ DriftIsBounded => SplittingGainsNothing
  <2> SUFFICES ASSUME IInv, DriftIsBounded PROVE SplittingGainsNothing
    OBVIOUS
  <2> DEFINE once == AddCalendarMonths(first, months)
  <2>1. first \in Date /\ until \in Date /\ months \in Nat
    BY StartsAreDates, CalendarParameters DEF IInv, TypeOK
  <2>2. once \in Date /\ MonthOf(once) = MonthOf(first) + months
    BY <2>1, AddedMonths
  <2>3. MonthOf(until) = MonthOf(once)
    BY <2>2 DEF IInv, WholeMonths
  <2>4. once.day = Clamp(first.day, LastDay(once.y, once.m))
    BY DEF AddCalendarMonths
  <2> HIDE DEF once
  <2>5. once.y = until.y /\ once.m = until.m
    <3>1. 12 * once.y + once.m = 12 * until.y + until.m
      BY <2>3 DEF MonthOf
    <3>2. /\ once.y \in Nat /\ once.m \in 0..11
          /\ until.y \in Nat /\ until.m \in 0..11
      BY <2>1, <2>2 DEF Date
    <3> QED BY <3>1, <3>2, MonthDeterminesDate
  <2>6. until.day <= LastDay(once.y, once.m)
    BY <2>1, <2>5 DEF Date
  <2>7. first.day \in 1..31 /\ until.day \in 1..31
    BY <2>1 DEF Date
  <2>8. until.day <= once.day
    <3>1. until.day <= first.day
      BY <2>7 DEF DriftIsBounded
    <3> QED BY <2>4, <2>6, <2>7, <3>1 DEF Clamp
  <2> QED BY <2>3, <2>8 DEF SplittingGainsNothing, NotAfter, once
<1>2. Init => DriftIsBounded
  BY DEF Init, DriftIsBounded
<1> QED BY <1>1, <1>2, InitIInv, NextIInv, DriftIsKept, PTL DEF Spec

\* Neither the number of purchases nor their order is worth a day.
THEOREM TermsAreAlwaysFair == Spec => []TermsAreFair
  BY SplittingNeverGains, LaterStartsNeverEndEarlier, PTL DEF TermsAreFair
=============================================================================
