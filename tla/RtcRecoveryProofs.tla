-------------------------- MODULE RtcRecoveryProofs --------------------------
(***************************************************************************)
(* What holds for every set of start times, days and errors: the clock     *)
(* through the self tests of the RTC watchdog (RtcTest, with the calendar  *)
(* of Clock), and the error code that the watchdog recovers from the       *)
(* clock's RAM (ErrorRecovery).                                            *)
(***************************************************************************)
EXTENDS RtcTest, ErrorRecovery, WellFoundedInduction, TLAPS

(***************************************************************************)
(* The calendar                                                            *)
(***************************************************************************)

\* The days before a year and, as a table, before a month
YearStart(year) == 365 * year + ((year + 3) \div 4)
MonthStart(year, month) ==
  LET leap == IF year % 4 = 0 THEN 1 ELSE 0 IN
  CASE month <= 1 -> 31 * (month - 1)
    [] month = 2 -> 31
    [] month = 3 -> 59 + leap
    [] month = 4 -> 90 + leap
    [] month = 5 -> 120 + leap
    [] month = 6 -> 151 + leap
    [] month = 7 -> 181 + leap
    [] month = 8 -> 212 + leap
    [] month = 9 -> 243 + leap
    [] month = 10 -> 273 + leap
    [] month = 11 -> 304 + leap
    [] month = 12 -> 334 + leap
    [] OTHER -> 365 + leap + 31 * (month - 13)

\* What the loop goes through, and the dates of the century
Entries == [year : Nat, month : Nat, date : Nat]
Exists(year, month, date) == month \in 1 .. 12 /\ date \in 1 .. DaysInMonth(year, month)
Valid(year, month, date) == year < 100 /\ Exists(year, month, date)
DayNumber(year, month, date) == (YearStart(year) + MonthStart(year, month)) + (date - 1)

Least(S) == CHOOSE n \in S : \A m \in S : n <= m

LEMMA LeastIsLeast ==
  ASSUME NEW S, S \subseteq Nat, S # {}
  PROVE  Least(S) \in S /\ \A m \in S : Least(S) <= m
<1>1. PICK n \in S : \A m \in S : <<m, n>> \notin OpToRel(<, Nat)
  BY WFMin, NatLessThanWellFounded
<1>2. ASSUME NEW m \in S PROVE n <= m
  <2>1. n \in Nat /\ m \in Nat
    OBVIOUS
  <2>2. ~(m < n)
    BY <1>1, <2>1 DEF OpToRel
  <2> QED BY <2>1, <2>2
<1> QED BY <1>2 DEF Least

\* A year and a month are as long as the distance to the next one.
LEMMA YearStartStep ==
  ASSUME NEW year \in Nat
  PROVE  /\ YearStart(year + 1) = YearStart(year) + DaysInYear(year)
         /\ YearStart(year) \in Nat /\ DaysInYear(year) \in {365, 366}
BY DEF YearStart, DaysInYear

LEMMA YearStartMonotone ==
  ASSUME NEW y \in Nat, NEW z \in Nat, y <= z
  PROVE  YearStart(y) <= YearStart(z)
BY DEF YearStart

LEMMA MonthStartStep ==
  ASSUME NEW year \in Nat, NEW month \in Nat
  PROVE  /\ MonthStart(year, month + 1) = MonthStart(year, month) + DaysInMonth(year, month)
         /\ MonthStart(year, month) \in Int /\ DaysInMonth(year, month) \in 28 .. 31
<1> DEFINE leap == IF year % 4 = 0 THEN 1 ELSE 0
<1>1. leap \in {0, 1} /\ (year % 4 = 0 <=> leap = 1)
  OBVIOUS
<1>2. CASE month > 12
  BY <1>2 DEF MonthStart, DaysInMonth
<1>3. CASE month \in {0, 1}
  BY <1>3 DEF MonthStart, DaysInMonth
<1>4. CASE month = 2
  BY <1>4 DEF MonthStart, DaysInMonth
<1>5. CASE month \in {4, 6, 9, 11}
  BY <1>5 DEF MonthStart, DaysInMonth
<1>6. CASE month \in {3, 5, 7, 8, 10, 12}
  BY <1>6 DEF MonthStart, DaysInMonth
<1> QED
  BY <1>2, <1>3, <1>4, <1>5, <1>6

LEMMA MonthStarts ==
  ASSUME NEW year \in Nat
  PROVE  MonthStart(year, 1) = 0 /\ MonthStart(year, 13) = DaysInYear(year)
BY DEF MonthStart, DaysInYear

LEMMA MonthStartTable ==
  ASSUME NEW year \in Nat
  PROVE  \E leap \in {0, 1} :
           /\ MonthStart(year, 1) = 0 /\ MonthStart(year, 2) = 31 /\ MonthStart(year, 3) = 59 + leap
           /\ MonthStart(year, 4) = 90 + leap /\ MonthStart(year, 5) = 120 + leap
           /\ MonthStart(year, 6) = 151 + leap /\ MonthStart(year, 7) = 181 + leap
           /\ MonthStart(year, 8) = 212 + leap /\ MonthStart(year, 9) = 243 + leap
           /\ MonthStart(year, 10) = 273 + leap /\ MonthStart(year, 11) = 304 + leap
           /\ MonthStart(year, 12) = 334 + leap /\ MonthStart(year, 13) = 365 + leap
BY DEF MonthStart

LEMMA MonthNumbers == \A m \in 1 .. 13 : m \in {1, 2, 3, 4, 5, 6, 7, 8, 9, 10, 11, 12, 13}
OBVIOUS

LEMMA MonthStartBounds ==
  ASSUME NEW year \in Nat, NEW m \in 1 .. 13
  PROVE  MonthStart(year, m) \in Nat /\ MonthStart(year, m) <= 366
<1>1. m \in {1, 2, 3, 4, 5, 6, 7, 8, 9, 10, 11, 12, 13}
  BY MonthNumbers
<1> QED
  BY <1>1, MonthStartTable

LEMMA MonthStartMonotone ==
  ASSUME NEW year \in Nat, NEW m \in 1 .. 13, NEW n \in 1 .. 13, m <= n
  PROVE  MonthStart(year, m) <= MonthStart(year, n)
<1>1. m \in {1, 2, 3, 4, 5, 6, 7, 8, 9, 10, 11, 12, 13} /\ n \in {1, 2, 3, 4, 5, 6, 7, 8, 9, 10, 11, 12, 13}
  BY MonthNumbers
<1> QED
  BY <1>1, MonthStartTable

\* The loop over the months sums up what the table says.
LEMMA DaysBeforeEquation ==
  ASSUME NEW year \in Nat, NEW month \in Nat
  PROVE  DaysBefore(year)[month] =
           IF month <= 1 THEN 0 ELSE DaysBefore(year)[month - 1] + DaysInMonth(year, month - 1)
<1> DEFINE F == [m \in Nat |-> IF m = 0 THEN 0 ELSE MonthStart(year, m)]
           G(f) == [m \in Nat |-> IF m <= 1 THEN 0 ELSE f[m - 1] + DaysInMonth(year, m - 1)]
<1>1. F = G(F)
  <2>1. ASSUME NEW m \in Nat
        PROVE  (IF m = 0 THEN 0 ELSE MonthStart(year, m))
                 = IF m <= 1 THEN 0 ELSE F[m - 1] + DaysInMonth(year, m - 1)
    <3>1. CASE m <= 1
      BY <3>1, MonthStarts
    <3>2. CASE m > 1
      <4>1. m - 1 \in Nat /\ m - 1 >= 1 /\ (m - 1) + 1 = m
        BY <3>2
      <4>2. F[m - 1] = MonthStart(year, m - 1)
        BY <4>1
      <4> HIDE DEF F
      <4>3. MonthStart(year, (m - 1) + 1) = MonthStart(year, m - 1) + DaysInMonth(year, m - 1)
        BY <4>1, MonthStartStep
      <4> QED BY <4>1, <4>2, <3>2, <4>3
    <3> QED BY <3>1, <3>2
  <2> QED BY <2>1
<1>2. DaysBefore(year) = CHOOSE f : f = G(f)
  BY DEF DaysBefore
<1> HIDE DEF G
<1>3. DaysBefore(year) = G(DaysBefore(year))
  <2> HIDE DEF F
  <2> QED BY <1>1, <1>2
<1> QED
  BY <1>3 DEF G

LEMMA DaysBeforeIsMonthStart ==
  ASSUME NEW year \in Nat, NEW month \in Nat \ {0}
  PROVE  DaysBefore(year)[month] = MonthStart(year, month)
<1> DEFINE wrong == {m \in Nat \ {0} : DaysBefore(year)[m] # MonthStart(year, m)}
<1> SUFFICES ASSUME wrong # {} PROVE FALSE
  OBVIOUS
<1>1. PICK m \in wrong : \A n \in wrong : m <= n
  <2>1. wrong \subseteq Nat
    OBVIOUS
  <2> HIDE DEF wrong
  <2> QED BY <2>1, LeastIsLeast
<1>2. m # 1
  BY DaysBeforeEquation, MonthStarts
<1>3. m - 1 \in Nat /\ m - 1 >= 1 /\ (m - 1) + 1 = m
  BY <1>2
<1>4. m - 1 \notin wrong
  BY <1>1, <1>3
<1>5. DaysBefore(year)[m - 1] = MonthStart(year, m - 1)
  BY <1>4, <1>3
<1>6. DaysBefore(year)[m] = DaysBefore(year)[m - 1] + DaysInMonth(year, m - 1)
  BY DaysBeforeEquation, <1>3
<1>7. MonthStart(year, (m - 1) + 1) = MonthStart(year, m - 1) + DaysInMonth(year, m - 1)
  BY <1>3, MonthStartStep
<1> QED
  BY <1>3, <1>5, <1>6, <1>7

LEMMA EntryIsDate ==
  ASSUME NEW e \in Entries
  PROVE  e = Date(e.year, e.month, e.date)
BY DEF Entries, Date

LEMMA EntryFields ==
  ASSUME NEW y, NEW m, NEW a
  PROVE  /\ Date(y, m, a).year = y /\ Date(y, m, a).month = m /\ Date(y, m, a).date = a
         /\ y \in Nat /\ m \in Nat /\ a \in Nat => Date(y, m, a) \in Entries
BY DEF Date, Entries

LEMMA EntryTypes ==
  ASSUME NEW e \in Entries
  PROVE  e.year \in Nat /\ e.month \in Nat /\ e.date \in Nat
BY DEF Entries

\* The loop over years and months has the fixed point that its definition
\* asks for: here it is, by the first year and month that hold the day.
LEMMA TakeDaysEquation ==
  ASSUME NEW d \in Entries
  PROVE  TakeDays[d] =
           IF d.date > DaysInYear(d.year) THEN TakeDays[Date(d.year + 1, d.month, d.date - DaysInYear(d.year))]
           ELSE IF d.date > DaysInMonth(d.year, d.month)
           THEN TakeDays[Date(d.year, d.month + 1, d.date - DaysInMonth(d.year, d.month))]
           ELSE d
<1> DEFINE
      NextYear(e) == Date(e.year + 1, e.month, e.date - DaysInYear(e.year))
      NextMonth(e) == Date(e.year, e.month + 1, e.date - DaysInMonth(e.year, e.month))
      G(f) == [e \in Entries |->
                 IF e.date > DaysInYear(e.year) THEN f[NextYear(e)]
                 ELSE IF e.date > DaysInMonth(e.year, e.month) THEN f[NextMonth(e)] ELSE e]
      Years(e) == {y \in Nat : y >= e.year /\ e.date + YearStart(e.year) <= YearStart(y + 1)}
      Left(e) == (e.date + YearStart(e.year)) - YearStart(Least(Years(e)))
      Months(y, left, month) == {m \in Nat : m >= month /\ left + MonthStart(y, month) <= MonthStart(y, m + 1)}
      Ends(y, left, month) ==
        Date(y, Least(Months(y, left, month)),
              (left + MonthStart(y, month)) - MonthStart(y, Least(Months(y, left, month))))
      F == [e \in Entries |-> Ends(Least(Years(e)), Left(e), e.month)]
<1>1. ASSUME NEW e \in Entries, e.date > DaysInYear(e.year)
      PROVE  NextYear(e) \in Entries /\ F[NextYear(e)] = F[e]
  <2> DEFINE n == NextYear(e)
  <2>1. e.year \in Nat /\ e.date \in Nat /\ e.month \in Nat /\ DaysInYear(e.year) \in {365, 366}
    BY YearStartStep, EntryTypes
  <2>0. n = Date(e.year + 1, e.month, e.date - DaysInYear(e.year))
    OBVIOUS
  <2>2. n \in Entries /\ n.year = e.year + 1 /\ n.date = e.date - DaysInYear(e.year) /\ n.month = e.month
    <3>1. e.date - DaysInYear(e.year) \in Nat
      BY <1>1, <2>1
    <3> HIDE DEF n
    <3> QED BY <2>0, <2>1, <3>1, EntryFields
  <2>3. n.date + YearStart(n.year) = e.date + YearStart(e.year)
    BY <2>1, <2>2, YearStartStep
  <2>4. e.date + YearStart(e.year) > YearStart(e.year + 1)
    BY <1>1, <2>1, YearStartStep
  <2>5. Years(n) = Years(e)
    <3> HIDE DEF n
    <3>1. ASSUME NEW y \in Nat, y >= e.year, e.date + YearStart(e.year) <= YearStart(y + 1)
          PROVE  y >= e.year + 1
      <4>1. y # e.year
        BY <2>1, <2>4, <3>1, YearStartStep
      <4> QED BY <2>1, <3>1, <4>1
    <3>2. \A y \in Nat : y >= e.year + 1 => y >= e.year
      BY <2>1
    <3> QED BY <2>2, <2>3, <3>1, <3>2
  <2>6. Left(n) = Left(e)
    <3> DEFINE Minus(x, z) == x - z
    <3>1. Left(n) = Minus(n.date + YearStart(n.year), YearStart(Least(Years(n))))
      OBVIOUS
    <3>2. Left(e) = Minus(e.date + YearStart(e.year), YearStart(Least(Years(e))))
      OBVIOUS
    <3> HIDE DEF n, Years, Left, Minus
    <3> QED BY <2>3, <2>5, <3>1, <3>2
  <2> HIDE DEF n, Left, Years, Ends
  <2>7. F[n] = Ends(Least(Years(n)), Left(n), n.month) /\ F[e] = Ends(Least(Years(e)), Left(e), e.month)
    BY <2>2
  <2> QED BY <2>2, <2>5, <2>6, <2>7 DEF n
<1>2. ASSUME NEW e \in Entries, e.date <= DaysInYear(e.year)
      PROVE  Least(Years(e)) = e.year /\ Left(e) = e.date
  <2>1. e.year \in Nat /\ e.date \in Nat
    BY DEF Entries
  <2>2. e.year \in Years(e)
    BY <1>2, <2>1, YearStartStep
  <2>3. Years(e) \subseteq Nat /\ \A y \in Years(e) : y >= e.year
    OBVIOUS
  <2>4. Least(Years(e)) = e.year
    <3> HIDE DEF Years
    <3>1. Least(Years(e)) \in Years(e) /\ Least(Years(e)) <= e.year
      BY <2>2, <2>3, LeastIsLeast
    <3> QED BY <2>1, <2>3, <3>1
  <2>5. YearStart(e.year) \in Nat
    BY <2>1, YearStartStep
  <2> QED BY <2>1, <2>4, <2>5
<1>3. ASSUME NEW e \in Entries, e.date <= DaysInYear(e.year), e.date > DaysInMonth(e.year, e.month)
      PROVE  NextMonth(e) \in Entries /\ F[NextMonth(e)] = F[e]
  <2> DEFINE n == NextMonth(e)
  <2>1. e.year \in Nat /\ e.date \in Nat /\ e.month \in Nat /\ DaysInMonth(e.year, e.month) \in 28 .. 31
    BY MonthStartStep, EntryTypes
  <2>0. n = Date(e.year, e.month + 1, e.date - DaysInMonth(e.year, e.month))
    OBVIOUS
  <2>2. n \in Entries /\ n.year = e.year /\ n.date = e.date - DaysInMonth(e.year, e.month) /\ n.month = e.month + 1
    <3>1. e.date - DaysInMonth(e.year, e.month) \in Nat
      BY <1>3, <2>1
    <3> HIDE DEF n
    <3> QED BY <2>0, <2>1, <3>1, EntryFields
  <2>3. Least(Years(e)) = e.year /\ Left(e) = e.date
    BY <1>2, <1>3
  <2>4. Least(Years(n)) = e.year /\ Left(n) = n.date
    <3>1. n.date <= DaysInYear(n.year)
      BY <1>3, <2>1, <2>2, YearStartStep
    <3> HIDE DEF n, Years, Left
    <3> QED BY <1>2, <2>2, <3>1
  <2> HIDE DEF n, Years, Left
  <2>5. /\ MonthStart(e.year, e.month) \in Int
        /\ MonthStart(e.year, e.month + 1) = MonthStart(e.year, e.month) + DaysInMonth(e.year, e.month)
    BY <2>1, MonthStartStep
  <2>6. n.date + MonthStart(e.year, n.month) = e.date + MonthStart(e.year, e.month)
    BY <2>1, <2>2, <2>5
  <2>7. e.date + MonthStart(e.year, e.month) > MonthStart(e.year, e.month + 1)
    BY <1>3, <2>1, <2>5
  <2>8. Months(e.year, n.date, n.month) = Months(e.year, e.date, e.month)
    <3>1. ASSUME NEW m \in Nat, m >= e.month, e.date + MonthStart(e.year, e.month) <= MonthStart(e.year, m + 1)
          PROVE  m >= e.month + 1
      <4>1. m # e.month
        BY <2>1, <2>5, <2>7, <3>1
      <4> QED BY <2>1, <3>1, <4>1
    <3>2. \A m \in Nat : m >= e.month + 1 => m >= e.month
      BY <2>1
    <3> QED BY <2>2, <2>6, <3>1, <3>2
  <2>9. Ends(e.year, n.date, n.month) = Ends(e.year, e.date, e.month)
    <3> DEFINE EndsAt(total, months) == Date(e.year, Least(months), total - MonthStart(e.year, Least(months)))
    <3>1. Ends(e.year, n.date, n.month)
            = EndsAt(n.date + MonthStart(e.year, n.month), Months(e.year, n.date, n.month))
      OBVIOUS
    <3>2. Ends(e.year, e.date, e.month)
            = EndsAt(e.date + MonthStart(e.year, e.month), Months(e.year, e.date, e.month))
      OBVIOUS
    <3> HIDE DEF EndsAt, Ends, Months
    <3> QED BY <2>6, <2>8, <3>1, <3>2
  <2> HIDE DEF Ends
  <2>10. F[n] = Ends(Least(Years(n)), Left(n), n.month) /\ F[e] = Ends(Least(Years(e)), Left(e), e.month)
    BY <2>2
  <2> QED BY <2>2, <2>3, <2>4, <2>9, <2>10 DEF n
<1>4. ASSUME NEW e \in Entries, e.date <= DaysInYear(e.year), e.date <= DaysInMonth(e.year, e.month)
      PROVE  F[e] = e
  <2>1. e.year \in Nat /\ e.date \in Nat /\ e.month \in Nat
    BY DEF Entries
  <2>2. Least(Years(e)) = e.year /\ Left(e) = e.date
    BY <1>2, <1>4
  <2> DEFINE M == Months(e.year, e.date, e.month)
  <2>3. /\ MonthStart(e.year, e.month) \in Int
        /\ MonthStart(e.year, e.month + 1) = MonthStart(e.year, e.month) + DaysInMonth(e.year, e.month)
        /\ DaysInMonth(e.year, e.month) \in 28 .. 31
    BY <2>1, MonthStartStep
  <2>4. e.month \in M
    BY <1>4, <2>1, <2>3
  <2>5. M \subseteq Nat /\ \A m \in M : m >= e.month
    OBVIOUS
  <2> HIDE DEF M
  <2>6. Least(M) = e.month
    <3>1. Least(M) \in M /\ Least(M) <= e.month
      BY <2>4, <2>5, LeastIsLeast
    <3>2. Least(M) \in Nat /\ Least(M) >= e.month
      BY <2>5, <3>1
    <3> QED BY <2>1, <3>1, <3>2
  <2>7. Ends(e.year, e.date, e.month) = Date(e.year, e.month, e.date)
    <3>1. (e.date + MonthStart(e.year, e.month)) - MonthStart(e.year, e.month) = e.date
      BY <2>1, <2>3
    <3> QED BY <2>6, <3>1 DEF M
  <2>8. Date(e.year, e.month, e.date) = e
    BY EntryIsDate
  <2> HIDE DEF Years, Left, Ends
  <2>9. F[e] = Ends(Least(Years(e)), Left(e), e.month)
    OBVIOUS
  <2> QED BY <2>2, <2>7, <2>8, <2>9
<1>5. F = G(F)
  <2>1. ASSUME NEW e \in Entries
        PROVE  F[e] = IF e.date > DaysInYear(e.year) THEN F[NextYear(e)]
                      ELSE IF e.date > DaysInMonth(e.year, e.month) THEN F[NextMonth(e)] ELSE e
    <3>1. e.date \in Nat /\ DaysInYear(e.year) \in Nat /\ DaysInMonth(e.year, e.month) \in Nat
      <4>1. e.date \in Nat /\ e.year \in Nat /\ e.month \in Nat
        BY EntryTypes
      <4>2. DaysInYear(e.year) \in Nat
        BY <4>1, YearStartStep
      <4>3. DaysInMonth(e.year, e.month) \in Nat
        <5>1. DaysInMonth(e.year, e.month) \in 28 .. 31
          BY <4>1, MonthStartStep
        <5> QED BY <5>1
      <4> QED BY <4>1, <4>2, <4>3
    <3> HIDE DEF F, NextYear, NextMonth
    <3> QED BY <1>1, <1>3, <1>4, <3>1
  <2>2. F = [e \in Entries |-> F[e]]
    <3> HIDE DEF Ends, Left, Years
    <3> QED OBVIOUS
  <2> HIDE DEF F, NextYear, NextMonth
  <2> QED BY <2>1, <2>2, Zenon
<1>6. TakeDays = CHOOSE f : f = G(f)
  BY DEF TakeDays, Entries
<1> HIDE DEF G
<1>7. TakeDays = G(TakeDays)
  <2> HIDE DEF F
  <2> QED BY <1>5, <1>6
<1> QED
  <2> HIDE DEF F
  <2>1. TakeDays[d] = G(TakeDays)[d]
    BY <1>7
  <2> HIDE DEF NextYear, NextMonth
  <2>2. G(TakeDays)[d] = IF d.date > DaysInYear(d.year) THEN TakeDays[NextYear(d)]
                 ELSE IF d.date > DaysInMonth(d.year, d.month) THEN TakeDays[NextMonth(d)] ELSE d
    BY DEF G
  <2> QED BY <2>1, <2>2 DEF NextYear, NextMonth

\* What get_clock_datetime_to_seconds counts, as a formula
LEMMA DaysOfDate ==
  ASSUME NEW y \in Nat, NEW m \in Nat \ {0}, NEW a \in Nat
  PROVE  DaysOf(Date(y, m, a)) = DayNumber(y % 100, m, a) /\ DayNumber(y, m, a) \in Int
<1> DEFINE z == y % 100
<1>1. z \in 0 .. 99
  OBVIOUS
<1>2. DaysBefore(z)[m] = MonthStart(z, m)
  BY <1>1, DaysBeforeIsMonthStart
<1>3. Date(y, m, a).year = y /\ Date(y, m, a).month = m /\ Date(y, m, a).date = a
  BY EntryFields
<1>4. DaysOf(Date(y, m, a)) =
        365 * z + (IF z > 0 THEN ((z - 1) \div 4) + 1 ELSE 0) + MonthStart(z, m) + (a - 1)
  BY <1>2, <1>3 DEF DaysOf
<1>5. 365 * z + (IF z > 0 THEN ((z - 1) \div 4) + 1 ELSE 0) = YearStart(z)
  <2> HIDE DEF z
  <2> QED BY <1>1 DEF YearStart
<1>6. MonthStart(z, m) \in Int /\ MonthStart(y, m) \in Int /\ YearStart(z) \in Nat /\ YearStart(y) \in Nat
  <2>1. z \in Nat /\ m \in Nat
    BY <1>1
  <2> HIDE DEF z
  <2> QED BY <2>1, MonthStartStep, YearStartStep
<1> QED
  <2> HIDE DEF z
  <2>1. DayNumber(y, m, a) \in Int
    BY <1>6 DEF DayNumber
  <2>2. DaysOf(Date(y, m, a)) = DayNumber(z, m, a)
    <3> DEFINE years == 365 * z + (IF z > 0 THEN ((z - 1) \div 4) + 1 ELSE 0)
    <3>1. years = YearStart(z) /\ DaysOf(Date(y, m, a)) = years + MonthStart(z, m) + (a - 1)
      BY <1>4, <1>5
    <3> HIDE DEF years
    <3> QED BY <1>6, <3>1 DEF DayNumber
  <2> QED BY <2>1, <2>2 DEF z

\* A day lies between the starts of its month and its year and the next ones.
LEMMA DayInYear ==
  ASSUME NEW y \in Nat, NEW m \in Nat, NEW a \in Nat, Exists(y, m, a)
  PROVE  /\ MonthStart(y, m) + a \in 1 .. DaysInYear(y)
         /\ MonthStart(y, m) \in Nat /\ MonthStart(y, m) + a <= MonthStart(y, m + 1)
         /\ YearStart(y) <= DayNumber(y, m, a) /\ DayNumber(y, m, a) < YearStart(y + 1)
         /\ DayNumber(y, m, a) \in Nat
<1>1. m \in 1 .. 12 /\ a \in 1 .. DaysInMonth(y, m) /\ m + 1 \in 1 .. 13 /\ m \in 1 .. 13
  BY DEF Exists
<1>2. /\ MonthStart(y, m + 1) = MonthStart(y, m) + DaysInMonth(y, m)
      /\ MonthStart(y, m) \in Int /\ DaysInMonth(y, m) \in 28 .. 31
  BY <1>1, MonthStartStep
<1>3. MonthStart(y, m) \in Nat /\ MonthStart(y, m + 1) \in Nat
  <2>1. MonthStart(y, m) \in Nat
    BY <1>1, MonthStartBounds
  <2>2. MonthStart(y, m) + DaysInMonth(y, m) \in Nat
    BY <1>2, <2>1
  <2> QED BY <1>2, <2>1, <2>2
<1>4. MonthStart(y, m + 1) <= DaysInYear(y)
  <2>1. m + 1 <= 13 /\ 13 \in 1 .. 13
    BY <1>1
  <2>2. MonthStart(y, m + 1) <= MonthStart(y, 13)
    BY <1>1, <2>1, MonthStartMonotone
  <2> QED BY <2>2, MonthStarts
<1>5. /\ YearStart(y + 1) = YearStart(y) + DaysInYear(y)
      /\ YearStart(y) \in Nat /\ DaysInYear(y) \in {365, 366}
  BY YearStartStep
<1> QED
  BY <1>1, <1>2, <1>3, <1>4, <1>5 DEF DayNumber

LEMMA CenturyEnds ==
  /\ \A y, m, a \in Nat : Valid(y, m, a) => DayNumber(y, m, a) \in Nat /\ DayNumber(y, m, a) < 36525
  /\ \A y, m, a \in Nat : Exists(y, m, a) /\ DayNumber(y, m, a) < 36525 => Valid(y, m, a)
  /\ \A y, m, a \in Nat : Exists(y, m, a) /\ DayNumber(y, m, a) < 36891 => y <= 100
<1> SUFFICES ASSUME NEW y \in Nat, NEW m \in Nat, NEW a \in Nat, Exists(y, m, a)
             PROVE  /\ y <= 99 => DayNumber(y, m, a) \in Nat /\ DayNumber(y, m, a) < 36525
                    /\ DayNumber(y, m, a) < 36525 => y <= 99
                    /\ DayNumber(y, m, a) < 36891 => y <= 100
  BY DEF Valid
<1>1. /\ YearStart(y) <= DayNumber(y, m, a) /\ DayNumber(y, m, a) < YearStart(y + 1)
      /\ DayNumber(y, m, a) \in Nat
  BY DayInYear
<1>2. YearStart(100) = 36525 /\ YearStart(101) = 36891
  BY DEF YearStart
<1>3. y <= 99 => YearStart(y + 1) <= YearStart(100)
  BY YearStartMonotone
<1>4. y > 99 => YearStart(100) <= YearStart(y)
  BY YearStartMonotone
<1>5. y > 100 => YearStart(101) <= YearStart(y)
  BY YearStartMonotone
<1>6. YearStart(y) \in Nat /\ YearStart(y + 1) \in Nat
  BY YearStartStep
<1> QED
  BY <1>1, <1>2, <1>3, <1>4, <1>5, <1>6

\* The loop takes off the years that a day is past, and then the months.
LEMMA TakeYears ==
  ASSUME NEW y \in Nat, NEW n \in Nat, n > YearStart(y)
  PROVE  TakeDays[Date(0, 1, n)] = TakeDays[Date(y, 1, n - YearStart(y))]
<1> DEFINE wrong == {k \in Nat : k <= y /\ TakeDays[Date(0, 1, n)] # TakeDays[Date(k, 1, n - YearStart(k))]}
<1> SUFFICES ASSUME wrong # {} PROVE FALSE
  OBVIOUS
<1>1. PICK k \in wrong : \A j \in wrong : k <= j
  <2>1. wrong \subseteq Nat
    OBVIOUS
  <2> HIDE DEF wrong
  <2> QED BY <2>1, LeastIsLeast
<1>2. k # 0
  BY DEF YearStart
<1>3. k - 1 \in Nat /\ (k - 1) + 1 = k /\ k <= y /\ k - 1 < k
  BY <1>2
<1> DEFINE j == k - 1
<1>4. j \notin wrong
  BY <1>1, <1>3
<1>5. TakeDays[Date(0, 1, n)] = TakeDays[Date(j, 1, n - YearStart(j))]
  BY <1>4, <1>3
<1>6. YearStart(j + 1) = YearStart(j) + DaysInYear(j) /\ YearStart(j) \in Nat /\ DaysInYear(j) \in {365, 366}
  BY <1>3, YearStartStep
<1>7. YearStart(k) <= YearStart(y) /\ YearStart(y) \in Nat
  BY <1>3, YearStartMonotone, YearStartStep
<1> DEFINE left == n - YearStart(j)
<1>8. left \in Nat /\ left > DaysInYear(j) /\ left - DaysInYear(j) = n - YearStart(k)
  BY <1>3, <1>6, <1>7
<1> DEFINE d == Date(j, 1, left)
<1>9. d \in Entries /\ d.year = j /\ d.month = 1 /\ d.date = left
  <2> HIDE DEF left, j
  <2> QED BY <1>3, <1>8, EntryFields DEF j
<1>10. TakeDays[d] = TakeDays[Date(j + 1, 1, left - DaysInYear(j))]
  <2> HIDE DEF d, left
  <2> QED BY <1>8, <1>9, TakeDaysEquation
<1>11. TakeDays[d] = TakeDays[Date(k, 1, n - YearStart(k))]
  <2>1. j + 1 = k /\ left - DaysInYear(j) = n - YearStart(k)
    BY <1>3, <1>8
  <2> HIDE DEF d, left, j
  <2> QED BY <1>10, <2>1
<1> QED
  BY <1>5, <1>11

LEMMA TakeMonths ==
  ASSUME NEW y \in Nat, NEW m \in 1 .. 12, NEW n \in Nat, n > MonthStart(y, m), n <= DaysInYear(y)
  PROVE  TakeDays[Date(y, 1, n)] = TakeDays[Date(y, m, n - MonthStart(y, m))]
<1> DEFINE wrong == {k \in 1 .. m : TakeDays[Date(y, 1, n)] # TakeDays[Date(y, k, n - MonthStart(y, k))]}
<1> SUFFICES ASSUME wrong # {} PROVE FALSE
  OBVIOUS
<1>1. PICK k \in wrong : \A j \in wrong : k <= j
  <2>1. wrong \subseteq Nat
    OBVIOUS
  <2> HIDE DEF wrong
  <2> QED BY <2>1, LeastIsLeast
<1>2. k # 1
  BY MonthStarts
<1> DEFINE j == k - 1
<1>3. j \in 1 .. m /\ j + 1 = k /\ k <= m /\ j < k /\ j \in 1 .. 13 /\ k \in 1 .. 13 /\ m \in 1 .. 13 /\ j \in Nat
  BY <1>2
<1>4. j \notin wrong
  <2> HIDE DEF j, wrong
  <2>1. k \in Nat
    BY <1>1, <1>3
  <2> QED BY <1>1, <1>3, <2>1
<1>5. TakeDays[Date(y, 1, n)] = TakeDays[Date(y, j, n - MonthStart(y, j))]
  BY <1>4, <1>3
<1>6. /\ MonthStart(y, k) = MonthStart(y, j) + DaysInMonth(y, j) /\ MonthStart(y, j) \in Int
      /\ DaysInMonth(y, j) \in 28 .. 31
  <2> HIDE DEF j
  <2> QED BY <1>3, MonthStartStep
<1>7. MonthStart(y, k) <= MonthStart(y, m) /\ MonthStart(y, m) \in Nat /\ MonthStart(y, j) \in Nat
  <2> HIDE DEF j
  <2>1. MonthStart(y, k) <= MonthStart(y, m)
    BY <1>3, MonthStartMonotone
  <2> QED BY <1>3, <2>1, MonthStartBounds
<1> DEFINE left == n - MonthStart(y, j)
<1> HIDE DEF j
<1>8. /\ left \in Nat /\ left > DaysInMonth(y, j) /\ left - DaysInMonth(y, j) = n - MonthStart(y, k)
      /\ ~(left > DaysInYear(y))
  <2>1. DaysInYear(y) \in {365, 366}
    BY YearStartStep
  <2> QED BY <1>6, <1>7, <2>1
<1> DEFINE d == Date(y, j, left)
<1>9. d \in Entries /\ d.year = y /\ d.month = j /\ d.date = left
  <2> HIDE DEF left
  <2> QED BY <1>3, <1>8, EntryFields
<1>10. TakeDays[d] = TakeDays[Date(y, j + 1, left - DaysInMonth(y, j))]
  <2> HIDE DEF d, left
  <2> QED BY <1>8, <1>9, TakeDaysEquation
<1>11. TakeDays[d] = TakeDays[Date(y, k, n - MonthStart(y, k))]
  <2> HIDE DEF d, left
  <2> QED BY <1>3, <1>8, <1>10
<1> QED
  BY <1>5, <1>11

\* get_clock_seconds_to_datetime finds the date of every day's number.
LEMMA DateOfDay ==
  ASSUME NEW y \in Nat, NEW m \in Nat, NEW a \in Nat, Exists(y, m, a)
  PROVE  DateOf(DayNumber(y, m, a)) = Date(y, m, a)
<1> DEFINE n == DayNumber(y, m, a) + 1
           left == MonthStart(y, m) + a
<1>1. /\ left \in 1 .. DaysInYear(y) /\ MonthStart(y, m) \in Nat
      /\ DayNumber(y, m, a) \in Nat
  BY DayInYear
<1>2. YearStart(y) \in Nat /\ DaysInYear(y) \in {365, 366}
  BY YearStartStep
<1>3. n \in Nat /\ n > YearStart(y) /\ n - YearStart(y) = left
  BY <1>1, <1>2 DEF DayNumber
<1>4. TakeDays[Date(0, 1, n)] = TakeDays[Date(y, 1, left)]
  <2> HIDE DEF n, left
  <2> QED BY <1>3, TakeYears
<1>5. m \in 1 .. 12 /\ a \in 1 .. DaysInMonth(y, m) /\ DaysInMonth(y, m) \in 28 .. 31
  BY MonthStartStep DEF Exists
<1>6. left \in Nat /\ left > MonthStart(y, m) /\ left <= DaysInYear(y) /\ left - MonthStart(y, m) = a
  BY <1>1, <1>2, <1>5
<1>7. TakeDays[Date(y, 1, left)] = TakeDays[Date(y, m, a)]
  <2> HIDE DEF left
  <2>1. TakeDays[Date(y, 1, left)] = TakeDays[Date(y, m, left - MonthStart(y, m))]
    BY <1>5, <1>6, TakeMonths
  <2> QED BY <1>6, <2>1
<1> DEFINE d == Date(y, m, a)
<1>8. d \in Entries /\ d.year = y /\ d.month = m /\ d.date = a
  BY EntryFields
<1>9. ~(a > DaysInYear(y)) /\ ~(a > DaysInMonth(y, m))
  BY <1>2, <1>5
<1>10. TakeDays[d] = d
  <2> HIDE DEF d
  <2> QED BY <1>8, <1>9, TakeDaysEquation
<1> QED
  BY <1>4, <1>7, <1>10 DEF DateOf

\* Every day has its date.
HasDate(n) == \E y \in Nat, m \in Nat, a \in Nat : Exists(y, m, a) /\ DayNumber(y, m, a) = n

LEMMA SomeDate ==
  ASSUME NEW n \in Nat
  PROVE  HasDate(n)
<1> DEFINE years == {y \in Nat : n < YearStart(y + 1)}
           y == Least(years)
<1>1. y \in years /\ \A z \in years : y <= z
  <2>1. n \in years
    BY DEF YearStart
  <2>2. years \subseteq Nat
    OBVIOUS
  <2> HIDE DEF years
  <2> QED BY <2>1, <2>2, LeastIsLeast
<1>2. y \in Nat /\ n < YearStart(y + 1)
  BY <1>1
<1>3. YearStart(y) <= n
  <2>1. CASE y = 0
    BY <2>1 DEF YearStart
  <2>2. CASE y # 0
    <3> HIDE DEF y
    <3>1. y - 1 \in Nat /\ (y - 1) + 1 = y /\ ~(y <= y - 1)
      BY <1>2, <2>2
    <3>2. y - 1 \notin years
      <4> HIDE DEF years
      <4> QED BY <1>1, <3>1
    <3>3. YearStart(y) \in Nat
      BY <1>2, YearStartStep
    <3> QED BY <3>1, <3>2, <3>3
  <2> QED BY <2>1, <2>2
<1> HIDE DEF y
<1>4. YearStart(y) \in Nat /\ YearStart(y + 1) = YearStart(y) + DaysInYear(y) /\ DaysInYear(y) \in {365, 366}
  BY <1>2, YearStartStep
<1> DEFINE left == n - YearStart(y)
           months == {m \in Nat : left < MonthStart(y, m + 1)}
           m == Least(months)
<1>5. left \in Nat /\ left < DaysInYear(y)
  BY <1>2, <1>3, <1>4
<1>6. m \in months /\ \A k \in months : m <= k
  <2>1. 12 \in months
    BY <1>2, <1>5, MonthStarts
  <2>2. months \subseteq Nat
    OBVIOUS
  <2> HIDE DEF months
  <2> QED BY <2>1, <2>2, LeastIsLeast
<1>7. m \in Nat /\ left < MonthStart(y, m + 1)
  BY <1>6
<1>8. 12 \in months
  BY <1>2, <1>5, MonthStarts
<1> HIDE DEF left
<1>9. m # 0
  BY <1>2, <1>5, <1>7, MonthStarts
<1>10. m <= 12
  <2> HIDE DEF m, months
  <2> QED BY <1>6, <1>8
<1>11. /\ MonthStart(y, m) \in Int /\ MonthStart(y, m + 1) = MonthStart(y, m) + DaysInMonth(y, m)
       /\ DaysInMonth(y, m) \in 28 .. 31
  <2> HIDE DEF m
  <2> QED BY <1>2, <1>7, MonthStartStep
<1>12. MonthStart(y, m) <= left
  <2> HIDE DEF m
  <2>1. m - 1 \in Nat /\ (m - 1) + 1 = m /\ ~(m <= m - 1)
    BY <1>7, <1>9
  <2>2. m - 1 \notin months
    <3> HIDE DEF months
    <3> QED BY <1>6, <2>1
  <2> QED BY <1>5, <1>11, <2>1, <2>2
<1> DEFINE a == (left - MonthStart(y, m)) + 1
<1> HIDE DEF m
<1>13. a \in Nat /\ Exists(y, m, a)
  BY <1>5, <1>7, <1>9, <1>10, <1>11, <1>12 DEF Exists
<1>14. DayNumber(y, m, a) = n
  BY <1>4, <1>5, <1>11 DEF DayNumber, left
<1> QED
  BY <1>2, <1>7, <1>13, <1>14 DEF HasDate

\* The chip's calendar goes on by a day, up to the end of the century.
LEMMA NextDay ==
  ASSUME NEW y \in Nat, NEW m \in Nat, NEW a \in Nat, Valid(y, m, a), DayNumber(y, m, a) < 36524
  PROVE  \E y2, m2, a2 \in Nat :
            /\ NextDate(Date(y, m, a)) = Date(y2, m2, a2) /\ Valid(y2, m2, a2)
            /\ DayNumber(y2, m2, a2) = DayNumber(y, m, a) + 1
            /\ \/ y2 = y /\ m2 = m /\ a2 = a + 1
               \/ y2 = y /\ m2 = m + 1 /\ a2 = 1
               \/ y2 = y + 1 /\ m2 = 1 /\ a2 = 1
<1> DEFINE d == Date(y, m, a)
<1>1. d.year = y /\ d.month = m /\ d.date = a
  BY EntryFields
<1>2. y < 100 /\ m \in 1 .. 12 /\ a \in 1 .. DaysInMonth(y, m) /\ Exists(y, m, a)
  BY DEF Valid, Exists
<1>3. /\ MonthStart(y, m + 1) = MonthStart(y, m) + DaysInMonth(y, m) /\ MonthStart(y, m) \in Int
      /\ DaysInMonth(y, m) \in 28 .. 31
  BY MonthStartStep
<1>4. YearStart(y) \in Nat /\ YearStart(y + 1) = YearStart(y) + DaysInYear(y) /\ DaysInYear(y) \in {365, 366}
  BY YearStartStep
<1>5. NextDate(d) = IF a < DaysInMonth(y, m) THEN Date(y, m, a + 1)
                    ELSE IF m < 12 THEN Date(y, m + 1, 1) ELSE Date((y + 1) % 100, 1, 1)
  <2> HIDE DEF d
  <2>1. DaysInMonth(y, m) = IF m = 2 THEN IF y % 4 = 0 THEN 29 ELSE 28
                            ELSE IF m \in {4, 6, 9, 11} THEN 30 ELSE 31
    BY DEF DaysInMonth
  <2> QED BY <1>1, <2>1 DEF NextDate
<1> HIDE DEF d
<1>6. CASE a < DaysInMonth(y, m)
  <2>1. NextDate(d) = Date(y, m, a + 1)
    BY <1>5, <1>6
  <2>2. Valid(y, m, a + 1)
    BY <1>2, <1>3, <1>6 DEF Valid, Exists
  <2>3. DayNumber(y, m, a + 1) = DayNumber(y, m, a) + 1
    BY <1>3, <1>4 DEF DayNumber
  <2> QED BY <2>1, <2>2, <2>3 DEF d
<1>7. CASE a = DaysInMonth(y, m) /\ m < 12
  <2>1. NextDate(d) = Date(y, m + 1, 1)
    BY <1>3, <1>5, <1>7
  <2>2. Valid(y, m + 1, 1)
    <3>1. DaysInMonth(y, m + 1) \in 28 .. 31
      BY MonthStartStep
    <3> QED BY <1>2, <1>7, <3>1 DEF Valid, Exists
  <2>3. DayNumber(y, m + 1, 1) = DayNumber(y, m, a) + 1
    BY <1>3, <1>4, <1>7 DEF DayNumber
  <2> QED BY <2>1, <2>2, <2>3 DEF d
<1>8. CASE a = DaysInMonth(y, m) /\ m = 12
  <2>1. y + 1 < 100
    <3>1. MonthStart(y, 13) = DaysInYear(y)
      BY MonthStarts
    <3>2. DayNumber(y, m, a) = YearStart(y + 1) - 1
      BY <1>3, <1>4, <1>8, <3>1 DEF DayNumber
    <3>3. y # 99
      BY <3>2 DEF YearStart
    <3> QED BY <1>2, <3>3
  <2>2. (y + 1) % 100 = y + 1
    BY <2>1
  <2>3. NextDate(d) = Date(y + 1, 1, 1)
    BY <1>3, <1>5, <1>8, <2>2
  <2>4. Valid(y + 1, 1, 1)
    <3>1. DaysInMonth(y + 1, 1) \in 28 .. 31
      BY MonthStartStep
    <3> QED BY <2>1, <3>1 DEF Valid, Exists
  <2>5. DayNumber(y + 1, 1, 1) = DayNumber(y, m, a) + 1
    <3>1. MonthStart(y + 1, 1) = 0 /\ MonthStart(y, 13) = DaysInYear(y)
      BY MonthStarts
    <3> QED BY <1>3, <1>4, <1>8, <3>1 DEF DayNumber
  <2> QED BY <2>3, <2>4, <2>5 DEF d
<1> QED
  BY <1>2, <1>3, <1>6, <1>7, <1>8

(***************************************************************************)
(* The registers                                                           *)
(***************************************************************************)
AllFields == {"cent", "year", "month", "date", "hour", "min", "sec"}

\* What registers show, and what a register can show
Shown(r) == [f \in AllFields |->
  IF f = "cent" THEN r["cent"] ELSE Decode(IF f = "hour" THEN r["hour"] % 64 ELSE r[f])]
Chip == Shown(regs)
Coded(c) == [f \in AllFields |-> IF f = "cent" THEN c[f] ELSE Encode(c[f])]
Lowest(f) == IF f \in {"month", "date"} THEN 1 ELSE 0
Highest(f) ==
  CASE f = "cent" -> 255 [] f = "year" -> 100 [] f = "month" -> 12 [] f = "date" -> 31
    [] f = "hour" -> 23 [] OTHER -> 59
InRange(f, v) == v \in Nat /\ Lowest(f) <= v /\ v <= Highest(f)
FaceOK(c) == c = [f \in AllFields |-> c[f]] /\ \A f \in AllFields : InRange(f, c[f])

Face(year, month, date, second_, cent) == [f \in AllFields |->
  CASE f = "cent" -> cent [] f = "year" -> year [] f = "month" -> month [] f = "date" -> date
    [] f = "hour" -> second_ \div 3600 [] f = "min" -> (second_ \div 60) % 60 [] OTHER -> second_ % 60]

\* The date and the time that a face shows
ValidFace(c) == Valid(c["year"], c["month"], c["date"])
DayOf(c) == DayNumber(c["year"], c["month"], c["date"])
SecondOf(c) == (c["hour"] * 60 + c["min"]) * 60 + c["sec"]

LEMMA EncodeDecode ==
  ASSUME NEW x \in Nat, x < 160
  PROVE  Encode(x) \in 0 .. 255 /\ Decode(Encode(x)) = x /\ (x < 40 => Encode(x) % 64 = Encode(x))
<1>1. Encode(x) \in Nat /\ Encode(x) < 256
  BY DEF Encode
<1>2. Encode(x) \div 16 = x \div 10 /\ Encode(x) % 16 = x % 10
  BY DEF Encode
<1>3. x < 40 => Encode(x) < 64
  BY DEF Encode
<1>4. Decode(Encode(x)) = x
  BY <1>1, <1>2 DEF Decode
<1> QED
  BY <1>1, <1>3, <1>4

\* The order of the registers: the seconds are the last, and every register of
\* a date or a time has its place.
LEMMA FieldsOrder ==
  /\ Len(Fields) \in {6, 7} /\ Len(DateFields) \in {3, 4} /\ Len(DateFields) < Len(Fields)
  /\ \A i \in 1 .. Len(Fields) : Fields[i] \in AllFields /\ (Fields[i] = "sec" <=> i = Len(Fields))
  /\ \A i, j \in 1 .. Len(Fields) : Fields[i] = Fields[j] => i = j
  /\ \A f \in AllFields \ {"cent"} : \E i \in 1 .. Len(Fields) : Fields[i] = f
<1>1. CASE build = "DS1307"
  <2>1. Fields = <<"cent", "year", "month", "date", "hour", "min", "sec">> /\ Len(DateFields) = 4
    BY <1>1 DEF Fields, DateFields
  <2>2. /\ Len(Fields) = 7 /\ Fields[1] = "cent" /\ Fields[2] = "year" /\ Fields[3] = "month" /\ Fields[4] = "date"
        /\ Fields[5] = "hour" /\ Fields[6] = "min" /\ Fields[7] = "sec"
    BY <2>1
  <2>3. \A i \in 1 .. 7 : i \in {1, 2, 3, 4, 5, 6, 7}
    OBVIOUS
  <2> QED BY <2>1, <2>2, <2>3 DEF AllFields
<1>2. CASE build # "DS1307"
  <2>1. Fields = <<"year", "month", "date", "hour", "min", "sec">> /\ Len(DateFields) = 3
    BY <1>2 DEF Fields, DateFields
  <2>2. /\ Len(Fields) = 6 /\ Fields[1] = "year" /\ Fields[2] = "month" /\ Fields[3] = "date"
        /\ Fields[4] = "hour" /\ Fields[5] = "min" /\ Fields[6] = "sec"
    BY <2>1
  <2>3. \A i \in 1 .. 6 : i \in {1, 2, 3, 4, 5, 6}
    OBVIOUS
  <2> QED BY <2>1, <2>2, <2>3 DEF AllFields
<1> QED
  BY <1>1, <1>2

LEMMA ShownCoded ==
  ASSUME NEW c, FaceOK(c)
  PROVE  Shown(Coded(c)) = c
<1>1. \A f \in AllFields : c[f] \in Nat /\ c[f] < 256
  BY DEF FaceOK, InRange, Lowest, Highest
<1>2. \A f \in AllFields \ {"cent"} : c[f] < 160
  BY DEF FaceOK, InRange, Lowest, Highest, AllFields
<1>3. c["hour"] < 40
  BY DEF FaceOK, InRange, Lowest, Highest, AllFields
<1>4. \A f \in AllFields : Coded(c)[f] = IF f = "cent" THEN c[f] ELSE Encode(c[f])
  BY DEF Coded
<1>5. "cent" \in AllFields /\ "hour" \in AllFields
  BY DEF AllFields
<1>6. ASSUME NEW f \in AllFields
      PROVE  (IF f = "cent" THEN Coded(c)["cent"]
              ELSE Decode(IF f = "hour" THEN Coded(c)["hour"] % 64 ELSE Coded(c)[f])) = c[f]
  <2>1. CASE f = "cent"
    BY <1>4, <2>1
  <2>2. CASE f = "hour"
    BY <1>1, <1>2, <1>3, <1>4, <2>2, EncodeDecode
  <2>3. CASE f \notin {"cent", "hour"}
    BY <1>1, <1>2, <1>4, <2>3, EncodeDecode
  <2> QED BY <2>1, <2>2, <2>3
<1>7. Shown(Coded(c)) = [f \in AllFields |-> c[f]]
  BY <1>6 DEF Shown
<1> QED
  BY <1>7 DEF FaceOK

\* A face and its registers with one of them written
With(c, f, v) == [c EXCEPT ![f] = v]
Written(r, f, v) == [r EXCEPT ![f] = IF f = "cent" THEN v ELSE Encode(v)]

LEMMA PutFace ==
  ASSUME NEW c, FaceOK(c), NEW f \in AllFields, NEW v, InRange(f, v), NEW d, d = With(c, f, v)
  PROVE  /\ Written(Coded(c), f, v) = Coded(d)
         /\ FaceOK(d)
         /\ \A g \in AllFields : d[g] = IF g = f THEN v ELSE c[g]
<1>1. c = [g \in AllFields |-> c[g]]
  BY DEF FaceOK
<1>2. d = [g \in AllFields |-> IF g = f THEN v ELSE c[g]]
  BY <1>1 DEF With
<1>3. \A g \in AllFields : d[g] = IF g = f THEN v ELSE c[g]
  BY <1>2
<1>4. FaceOK(d)
  <2>1. \A g \in AllFields : InRange(g, d[g])
    BY <1>3, Zenon DEF FaceOK
  <2>2. d = [g \in AllFields |-> d[g]]
    BY <1>2
  <2> QED BY <2>1, <2>2, Zenon DEF FaceOK
<1>5. Written(Coded(c), f, v) = Coded(d)
  <2>1. ASSUME NEW g \in AllFields
        PROVE  (IF g = f THEN IF f = "cent" THEN v ELSE Encode(v) ELSE IF g = "cent" THEN c[g] ELSE Encode(c[g]))
                 = IF g = "cent" THEN d[g] ELSE Encode(d[g])
    BY <1>3
  <2>2. Written(Coded(c), f, v)
          = [g \in AllFields |-> IF g = f THEN IF f = "cent" THEN v ELSE Encode(v)
                                ELSE IF g = "cent" THEN c[g] ELSE Encode(c[g])]
    BY DEF Coded, Written
  <2> QED BY <2>1, <2>2 DEF Coded
<1> QED
  BY <1>3, <1>4, <1>5

LEMMA RegistersFace ==
  ASSUME NEW y \in Nat, NEW m \in Nat, NEW a \in Nat, NEW s \in Nat, NEW c
  PROVE  Registers(Date(y, m, a), s, c) = Coded(Face(y, m, a, s, c))
<1> DEFINE d == Date(y, m, a)
<1>1. d.year = y /\ d.month = m /\ d.date = a
  BY EntryFields
<1>2. DOMAIN Blank = AllFields
  BY DEF Blank, AllFields
<1>3. \A f \in AllFields \ {"cent"} : Clockface(d, s)[f] = Face(y, m, a, s, c)[f]
  <2> HIDE DEF d
  <2> QED BY <1>1 DEF Clockface, Face, Blank, AllFields
<1>4. Face(y, m, a, s, c)["cent"] = c
  BY DEF Face, AllFields
<1> HIDE DEF d
<1> QED
  <2>1. Registers(d, s, c) = [f \in AllFields |-> IF f = "cent" THEN c ELSE Encode(Clockface(d, s)[f])]
    BY <1>2 DEF Registers
  <2> QED BY <1>3, <1>4, <2>1 DEF Coded, d

LEMMA TimeOfDay ==
  ASSUME NEW s \in Nat, s < 86400
  PROVE  /\ s \div 3600 \in Nat /\ s \div 3600 <= 23 /\ (s \div 60) % 60 \in Nat /\ (s \div 60) % 60 <= 59
         /\ s % 60 \in Nat /\ s % 60 <= 59
         /\ ((s \div 3600) * 60 + ((s \div 60) % 60)) * 60 + (s % 60) = s
OBVIOUS

LEMMA FaceIs ==
  ASSUME NEW y \in Nat, NEW m \in Nat, NEW a \in Nat, NEW s \in Nat, NEW c \in Nat,
         y <= 100, 1 <= m, m <= 12, 1 <= a, a <= 31, s < 86400, c <= 255, NEW d, d = Face(y, m, a, s, c)
  PROVE  FaceOK(d) /\ SecondOf(d) = s
<1>1. /\ d["cent"] = c /\ d["year"] = y /\ d["month"] = m /\ d["date"] = a
      /\ d["hour"] = s \div 3600 /\ d["min"] = (s \div 60) % 60 /\ d["sec"] = s % 60
  BY DEF Face, AllFields
<1>2. d = [f \in AllFields |-> d[f]]
  BY DEF Face
<1>3. /\ s \div 3600 \in Nat /\ s \div 3600 <= 23 /\ (s \div 60) % 60 \in Nat /\ (s \div 60) % 60 <= 59
      /\ s % 60 \in Nat /\ s % 60 <= 59
      /\ ((s \div 3600) * 60 + ((s \div 60) % 60)) * 60 + (s % 60) = s
  BY TimeOfDay
<1>4. \A f \in AllFields : InRange(f, d[f])
  BY <1>1, <1>3 DEF InRange, Lowest, Highest, AllFields
<1>5. SecondOf(d) = s
  BY <1>1, <1>3 DEF SecondOf
<1> QED
  BY <1>1, <1>2, <1>4, <1>5 DEF FaceOK

(***************************************************************************)
(* The chip goes on by a second                                            *)
(***************************************************************************)

\* The seconds since 2000-01-01 that a face shows
TimeOf(c) == DayOf(c) * 86400 + SecondOf(c)

\* The face a second later
NextFace(c) ==
  LET today == Date(c["year"], c["month"], c["date"])
      d == IF SecondOf(c) = 86399 THEN NextDate(today) ELSE today
      s == IF SecondOf(c) = 86399 THEN 0 ELSE SecondOf(c) + 1
  IN Face(d.year, d.month, d.date, s, c["cent"])

\* The chip shows what its registers hold, field by field and as a date and a time.
LEMMA ChipShows ==
  ASSUME NEW c, FaceOK(c), regs = Coded(c)
  PROVE  /\ Chip = c /\ \A f \in AllFields : Got(f) = c[f]
         /\ ChipDate = Date(c["year"], c["month"], c["date"]) /\ ChipSecond = SecondOf(c)
         /\ regs.cent = c["cent"] /\ Decode(regs.sec) = c["sec"]
         /\ \A f \in AllFields : regs[f] \in 0 .. 255
<1>1. Chip = c
  BY ShownCoded DEF Chip
<1>2. \A f \in AllFields : c[f] = IF f = "cent" THEN regs["cent"] ELSE Decode(IF f = "hour" THEN regs["hour"] % 64 ELSE regs[f])
  BY <1>1 DEF Chip, Shown
<1>3. \A f \in AllFields : Got(f) = c[f]
  BY <1>2 DEF Got
<1>4. regs["hour"] % 64 = regs["hour"]
  <2>1. regs["hour"] = Encode(c["hour"])
    BY DEF Coded, AllFields
  <2>2. c["hour"] \in Nat /\ c["hour"] < 40
    BY DEF FaceOK, InRange, Lowest, Highest, AllFields
  <2> QED BY <2>1, <2>2, EncodeDecode
<1>5. /\ Decode(regs["year"]) = c["year"] /\ Decode(regs["month"]) = c["month"] /\ Decode(regs["date"]) = c["date"]
      /\ Decode(regs["hour"]) = c["hour"] /\ Decode(regs["min"]) = c["min"] /\ Decode(regs["sec"]) = c["sec"]
      /\ regs["cent"] = c["cent"]
  BY <1>2, <1>4 DEF AllFields
<1>6. ASSUME NEW f \in AllFields
      PROVE  regs[f] \in 0 .. 255
  <2>1. CASE f = "cent"
    BY <1>5, <2>1 DEF FaceOK, InRange, Lowest, Highest
  <2>2. CASE f # "cent"
    <3>1. regs[f] = Encode(c[f])
      BY <2>2 DEF Coded
    <3>2. c[f] \in Nat /\ c[f] < 160
      BY <2>2 DEF FaceOK, InRange, Lowest, Highest, AllFields
    <3> QED BY <3>1, <3>2, EncodeDecode
  <2> QED BY <2>1, <2>2
<1> QED
  BY <1>1, <1>3, <1>5, <1>6 DEF ChipDate, ChipSecond, SecondOf

LEMMA FaceTypes ==
  ASSUME NEW c, FaceOK(c)
  PROVE  /\ c["cent"] \in Nat /\ c["cent"] <= 255 /\ c["year"] \in Nat /\ c["year"] <= 100
         /\ c["month"] \in Nat /\ 1 <= c["month"] /\ c["month"] <= 12
         /\ c["date"] \in Nat /\ 1 <= c["date"] /\ c["date"] <= 31
         /\ c["hour"] \in Nat /\ c["hour"] <= 23 /\ c["min"] \in Nat /\ c["min"] <= 59
         /\ c["sec"] \in Nat /\ c["sec"] <= 59
         /\ SecondOf(c) \in Nat /\ SecondOf(c) < 86400 /\ (SecondOf(c) = 86399 => c["sec"] = 59)
         /\ DayOf(c) \in Int /\ TimeOf(c) \in Int
<1>1. /\ c["cent"] \in Nat /\ c["cent"] <= 255 /\ c["year"] \in Nat /\ c["year"] <= 100
      /\ c["month"] \in Nat /\ 1 <= c["month"] /\ c["month"] <= 12
      /\ c["date"] \in Nat /\ 1 <= c["date"] /\ c["date"] <= 31
      /\ c["hour"] \in Nat /\ c["hour"] <= 23 /\ c["min"] \in Nat /\ c["min"] <= 59
      /\ c["sec"] \in Nat /\ c["sec"] <= 59
  BY DEF FaceOK, InRange, Lowest, Highest, AllFields
<1>2. SecondOf(c) \in Nat /\ SecondOf(c) < 86400 /\ (SecondOf(c) = 86399 => c["sec"] = 59)
  BY <1>1 DEF SecondOf
<1>3. DayOf(c) \in Int
  <2>1. c["month"] \in Nat \ {0}
    BY <1>1
  <2> QED BY <1>1, <2>1, DaysOfDate DEF DayOf
<1> QED
  BY <1>1, <1>2, <1>3 DEF TimeOf

LEMMA ChipTicks ==
  ASSUME NEW c, FaceOK(c), regs = Coded(c)
  PROVE  Ticked = Coded(NextFace(c))
<1>1. /\ ChipDate = Date(c["year"], c["month"], c["date"]) /\ ChipSecond = SecondOf(c) /\ regs.cent = c["cent"]
  BY ChipShows
<1> DEFINE today == Date(c["year"], c["month"], c["date"])
           d == IF SecondOf(c) = 86399 THEN NextDate(today) ELSE today
           s == IF SecondOf(c) = 86399 THEN 0 ELSE SecondOf(c) + 1
<1>2. today \in Entries /\ today.year = c["year"] /\ today.month = c["month"] /\ today.date = c["date"]
  BY FaceTypes, EntryFields
<1>3. NextDate(today) \in Entries
  <2> HIDE DEF today
  <2> QED BY <1>2, EntryFields DEF NextDate, Entries
<1>4. d \in Entries /\ s \in Nat
  <2> HIDE DEF today
  <2> QED BY <1>2, <1>3, FaceTypes
<1>5. Ticked = Registers(d, s, c["cent"])
  BY <1>1 DEF Ticked
<1>6. NextFace(c) = Face(d.year, d.month, d.date, s, c["cent"])
  BY DEF NextFace
<1> HIDE DEF d, s
<1>7. d = Date(d.year, d.month, d.date) /\ d.year \in Nat /\ d.month \in Nat /\ d.date \in Nat
  BY <1>4, EntryIsDate, EntryTypes
<1> QED
  BY <1>4, <1>5, <1>6, <1>7, RegistersFace

\* Within a minute only the seconds change; after it they are 0.
LEMMA NextFaceIs ==
  ASSUME NEW c, FaceOK(c)
  PROVE  /\ FaceOK(NextFace(c)) /\ NextFace(c)["cent"] = c["cent"]
         /\ NextFace(c)["sec"] = (c["sec"] + 1) % 60
         /\ c["sec"] # 59 => /\ \A f \in AllFields \ {"sec"} : NextFace(c)[f] = c[f]
                             /\ NextFace(c) = With(c, "sec", c["sec"] + 1)
<1>1. /\ c["cent"] \in Nat /\ c["cent"] <= 255 /\ c["year"] \in Nat /\ c["year"] <= 100
      /\ c["month"] \in Nat /\ 1 <= c["month"] /\ c["month"] <= 12
      /\ c["date"] \in Nat /\ 1 <= c["date"] /\ c["date"] <= 31
      /\ c["hour"] \in Nat /\ c["hour"] <= 23 /\ c["min"] \in Nat /\ c["min"] <= 59
      /\ c["sec"] \in Nat /\ c["sec"] <= 59
      /\ SecondOf(c) \in Nat /\ SecondOf(c) < 86400
  BY FaceTypes
<1> DEFINE today == Date(c["year"], c["month"], c["date"])
           d == IF SecondOf(c) = 86399 THEN NextDate(today) ELSE today
           s == IF SecondOf(c) = 86399 THEN 0 ELSE SecondOf(c) + 1
           n == Face(d.year, d.month, d.date, s, c["cent"])
<1>2. today.year = c["year"] /\ today.month = c["month"] /\ today.date = c["date"]
  BY EntryFields
<1>3. \E y, m, a \in Nat : NextDate(today) = Date(y, m, a) /\ y <= 100 /\ m \in Nat /\ 1 <= m /\ m <= 12 /\ a \in Nat /\ 1 <= a /\ a <= 31
  <2> HIDE DEF today
  <2>1. CASE today.date < (IF today.month = 2 THEN IF today.year % 4 = 0 THEN 29 ELSE 28
                           ELSE IF today.month \in {4, 6, 9, 11} THEN 30 ELSE 31)
    <3>1. NextDate(today) = Date(c["year"], c["month"], c["date"] + 1)
      BY <1>2, <2>1 DEF NextDate
    <3>2. c["date"] + 1 <= 31
      BY <1>1, <1>2, <2>1
    <3> QED BY <1>1, <3>1, <3>2
  <2>2. CASE ~(today.date < (IF today.month = 2 THEN IF today.year % 4 = 0 THEN 29 ELSE 28
                             ELSE IF today.month \in {4, 6, 9, 11} THEN 30 ELSE 31))
    <3>1. CASE c["month"] < 12
      <4>1. NextDate(today) = Date(c["year"], c["month"] + 1, 1)
        BY <1>2, <2>2, <3>1 DEF NextDate
      <4>2. c["month"] + 1 \in Nat /\ c["month"] + 1 <= 12
        BY <1>1, <3>1
      <4> QED BY <1>1, <4>1, <4>2
    <3>2. CASE ~(c["month"] < 12)
      <4>1. NextDate(today) = Date((c["year"] + 1) % 100, 1, 1)
        BY <1>2, <2>2, <3>2 DEF NextDate
      <4>2. (c["year"] + 1) % 100 \in Nat /\ (c["year"] + 1) % 100 <= 100
        BY <1>1
      <4> QED BY <4>1, <4>2
    <3> QED BY <3>1, <3>2
  <2> QED BY <2>1, <2>2
<1>4. /\ d.year \in Nat /\ d.year <= 100 /\ d.month \in Nat /\ 1 <= d.month /\ d.month <= 12
      /\ d.date \in Nat /\ 1 <= d.date /\ d.date <= 31
  <2>1. CASE SecondOf(c) = 86399
    <3>1. d = NextDate(today)
      BY <2>1
    <3> HIDE DEF d, today
    <3> QED BY <1>3, <3>1, EntryFields
  <2>2. CASE SecondOf(c) # 86399
    <3>1. d = today
      BY <2>2
    <3> HIDE DEF d, today
    <3> QED BY <1>1, <1>2, <3>1
  <2> QED BY <2>1, <2>2
<1>5. s \in Nat /\ s < 86400 /\ s % 60 = (c["sec"] + 1) % 60
  <2> HIDE DEF d
  <2> QED BY <1>1 DEF SecondOf
<1>6. NextFace(c) = n
  BY DEF NextFace
<1>7. ASSUME c["sec"] # 59
      PROVE  /\ d.year = c["year"] /\ d.month = c["month"] /\ d.date = c["date"]
             /\ s \div 3600 = c["hour"] /\ (s \div 60) % 60 = c["min"] /\ s % 60 = c["sec"] + 1
  <2>1. SecondOf(c) # 86399
    BY <1>1, <1>7 DEF SecondOf
  <2>2. d = today /\ s = SecondOf(c) + 1
    BY <2>1
  <2> HIDE DEF d, s, today
  <2>3. s = 3600 * c["hour"] + (60 * c["min"] + (c["sec"] + 1)) /\ c["sec"] + 1 < 60
    BY <1>1, <1>7, <2>2 DEF SecondOf
  <2>4. s \div 3600 = c["hour"]
    BY <1>1, <2>3
  <2>5. s \div 60 = 60 * c["hour"] + c["min"] /\ s % 60 = c["sec"] + 1
    BY <1>1, <2>3
  <2>6. (60 * c["hour"] + c["min"]) % 60 = c["min"]
    BY <1>1
  <2> QED BY <1>2, <2>2, <2>4, <2>5, <2>6
<1> HIDE DEF d, s
<1>8. /\ FaceOK(n) /\ n["cent"] = c["cent"] /\ n["year"] = d.year /\ n["month"] = d.month /\ n["date"] = d.date
      /\ n["hour"] = s \div 3600 /\ n["min"] = (s \div 60) % 60 /\ n["sec"] = s % 60
  <2> DEFINE y == d.year
             m == d.month
             a == d.date
  <2>1. n = Face(y, m, a, s, c["cent"])
    OBVIOUS
  <2>2. y \in Nat /\ y <= 100 /\ m \in Nat /\ 1 <= m /\ m <= 12 /\ a \in Nat /\ 1 <= a /\ a <= 31
    BY <1>4
  <2>3. c["cent"] \in Nat /\ c["cent"] <= 255 /\ s \in Nat /\ s < 86400
    BY <1>1, <1>5
  <2> HIDE DEF n, y, m, a
  <2>4. FaceOK(n)
    BY <2>1, <2>2, <2>3, FaceIs
  <2>5. /\ n["cent"] = c["cent"] /\ n["year"] = y /\ n["month"] = m /\ n["date"] = a
        /\ n["hour"] = s \div 3600 /\ n["min"] = (s \div 60) % 60 /\ n["sec"] = s % 60
    BY <2>1 DEF Face, AllFields
  <2> QED BY <2>4, <2>5 DEF y, m, a
<1> HIDE DEF n
<1>9. ASSUME c["sec"] # 59
      PROVE  \A f \in AllFields \ {"sec"} : n[f] = c[f]
  BY <1>7, <1>8, <1>9 DEF AllFields
<1>10. ASSUME c["sec"] # 59
       PROVE  n = With(c, "sec", c["sec"] + 1)
  <2>1. c = [f \in AllFields |-> c[f]] /\ n = [f \in AllFields |-> n[f]]
    BY <1>8 DEF FaceOK
  <2>2. With(c, "sec", c["sec"] + 1) = [f \in AllFields |-> IF f = "sec" THEN c["sec"] + 1 ELSE c[f]]
    BY <2>1 DEF With
  <2>3. \A f \in AllFields : n[f] = IF f = "sec" THEN c["sec"] + 1 ELSE c[f]
    BY <1>7, <1>8, <1>9, <1>10
  <2> QED BY <2>1, <2>2, <2>3
<1> QED
  BY <1>5, <1>6, <1>8, <1>9, <1>10

\* The first days of a month and of a year are no later than another day of it.
LEMMA EarlierDays ==
  ASSUME NEW y \in Nat, NEW m \in Nat, NEW a \in Nat, Valid(y, m, a)
  PROVE  /\ Valid(y, m, 1) /\ DayNumber(y, m, 1) \in Int /\ DayNumber(y, m, 1) <= DayNumber(y, m, a)
         /\ Valid(y, 1, 1) /\ DayNumber(y, 1, 1) \in Int /\ DayNumber(y, 1, 1) <= DayNumber(y, m, a)
         /\ DayNumber(y, m, a) \in Int
<1>1. m \in 1 .. 12 /\ a \in 1 .. DaysInMonth(y, m) /\ Exists(y, m, a) /\ y < 100
  BY DEF Valid, Exists
<1>2. DaysInMonth(y, m) \in 28 .. 31 /\ DaysInMonth(y, 1) \in 28 .. 31
  BY MonthStartStep
<1>3. MonthStart(y, m) \in Nat /\ MonthStart(y, 1) = 0 /\ YearStart(y) \in Nat
  BY <1>1, MonthStarts, DayInYear, YearStartStep
<1> QED
  BY <1>1, <1>2, <1>3 DEF Valid, Exists, DayNumber

\* How a minute's end changes the minute, the hour and the date
Follows(c, n) ==
  \/ /\ n["year"] = c["year"] /\ n["month"] = c["month"] /\ n["date"] = c["date"]
     /\ \/ n["hour"] = c["hour"] /\ n["min"] = c["min"] + 1
        \/ n["hour"] = c["hour"] + 1 /\ c["min"] = 59 /\ n["min"] = 0
  \/ /\ n["hour"] = 0 /\ n["min"] = 0 /\ n["sec"] = 0
     /\ \/ n["year"] = c["year"] /\ n["month"] = c["month"] /\ n["date"] = c["date"] + 1
        \/ n["year"] = c["year"] /\ n["month"] = c["month"] + 1 /\ n["date"] = 1
        \/ n["year"] = c["year"] + 1 /\ n["month"] = 1 /\ n["date"] = 1

\* Up to the end of the century a second is a second.
LEMMA NextFaceTime ==
  ASSUME NEW c, FaceOK(c), ValidFace(c), SecondOf(c) = 86399 => DayOf(c) < 36524
  PROVE  /\ ValidFace(NextFace(c)) /\ TimeOf(NextFace(c)) = TimeOf(c) + 1
         /\ c["sec"] = 59 => Follows(c, NextFace(c))
<1>1. /\ c["cent"] \in Nat /\ c["cent"] <= 255 /\ c["year"] \in Nat /\ c["year"] <= 100
      /\ c["month"] \in Nat /\ 1 <= c["month"] /\ c["month"] <= 12
      /\ c["date"] \in Nat /\ 1 <= c["date"] /\ c["date"] <= 31
      /\ c["hour"] \in Nat /\ c["hour"] <= 23 /\ c["min"] \in Nat /\ c["min"] <= 59
      /\ c["sec"] \in Nat /\ c["sec"] <= 59
      /\ SecondOf(c) \in Nat /\ SecondOf(c) < 86400 /\ DayOf(c) \in Int
  BY FaceTypes
<1> DEFINE today == Date(c["year"], c["month"], c["date"])
           n == NextFace(c)
<1>2. today.year = c["year"] /\ today.month = c["month"] /\ today.date = c["date"]
  BY EntryFields
<1>3. CASE SecondOf(c) = 86399
  <2>1. PICK y2 \in Nat, m2 \in Nat, a2 \in Nat :
            /\ NextDate(today) = Date(y2, m2, a2) /\ Valid(y2, m2, a2)
            /\ DayNumber(y2, m2, a2) = DayOf(c) + 1
            /\ \/ y2 = c["year"] /\ m2 = c["month"] /\ a2 = c["date"] + 1
               \/ y2 = c["year"] /\ m2 = c["month"] + 1 /\ a2 = 1
               \/ y2 = c["year"] + 1 /\ m2 = 1 /\ a2 = 1
    <3> DEFINE y == c["year"]
               m == c["month"]
               a == c["date"]
    <3>1. y \in Nat /\ m \in Nat /\ a \in Nat
      BY <1>1
    <3>2. Valid(y, m, a) /\ DayNumber(y, m, a) = DayOf(c)
      BY DEF ValidFace, DayOf
    <3>3. DayNumber(y, m, a) < 36524
      BY <1>3, <3>2
    <3>4. today = Date(y, m, a)
      OBVIOUS
    <3> HIDE DEF today, n, y, m, a
    <3>5. \E y2, m2, a2 \in Nat :
            /\ NextDate(Date(y, m, a)) = Date(y2, m2, a2) /\ Valid(y2, m2, a2)
            /\ DayNumber(y2, m2, a2) = DayNumber(y, m, a) + 1
            /\ \/ y2 = y /\ m2 = m /\ a2 = a + 1
               \/ y2 = y /\ m2 = m + 1 /\ a2 = 1
               \/ y2 = y + 1 /\ m2 = 1 /\ a2 = 1
      BY <3>1, <3>2, <3>3, NextDay
    <3> QED BY <3>2, <3>4, <3>5 DEF y, m, a
  <2>2. n = Face(y2, m2, a2, 0, c["cent"])
    <3>1. n = Face(NextDate(today).year, NextDate(today).month, NextDate(today).date, 0, c["cent"])
      BY <1>3 DEF NextFace
    <3> HIDE DEF n, today
    <3> QED BY <2>1, <3>1, EntryFields
  <2> HIDE DEF n, today
  <2>3. /\ n["year"] = y2 /\ n["month"] = m2 /\ n["date"] = a2
        /\ n["hour"] = 0 /\ n["min"] = 0 /\ n["sec"] = 0
    <3>1. 0 \div 3600 = 0 /\ (0 \div 60) % 60 = 0 /\ 0 % 60 = 0
      OBVIOUS
    <3> QED BY <2>2, <3>1 DEF Face, AllFields
  <2>4. ValidFace(n) /\ DayOf(n) = DayOf(c) + 1
    BY <2>1, <2>3 DEF ValidFace, DayOf
  <2>5. SecondOf(n) = 0
    BY <2>3 DEF SecondOf
  <2>6. TimeOf(n) = TimeOf(c) + 1
    BY <1>1, <1>3, <2>4, <2>5 DEF TimeOf
  <2>7. Follows(c, n)
    BY <2>1, <2>3 DEF Follows
  <2> QED BY <2>4, <2>6, <2>7 DEF n
<1>4. CASE SecondOf(c) # 86399
  <2> DEFINE s == SecondOf(c) + 1
  <2>1. s \in Nat /\ s < 86400
    BY <1>1, <1>4
  <2>2. n = Face(c["year"], c["month"], c["date"], s, c["cent"])
    <3>1. n = Face(today.year, today.month, today.date, s, c["cent"])
      BY <1>4 DEF NextFace
    <3> HIDE DEF n, today, s
    <3> QED BY <1>2, <3>1
  <2> HIDE DEF n, today, s
  <2>3. /\ n["year"] = c["year"] /\ n["month"] = c["month"] /\ n["date"] = c["date"]
        /\ n["hour"] = s \div 3600 /\ n["min"] = (s \div 60) % 60 /\ n["sec"] = s % 60
    BY <2>2 DEF Face, AllFields
  <2>4. ValidFace(n) /\ DayOf(n) = DayOf(c)
    BY <2>3 DEF ValidFace, DayOf
  <2>5. SecondOf(n) = s
    <3>1. ((s \div 3600) * 60 + ((s \div 60) % 60)) * 60 + (s % 60) = s
      BY <2>1, TimeOfDay
    <3> QED BY <2>3, <3>1 DEF SecondOf
  <2>6. TimeOf(n) = TimeOf(c) + 1
    BY <1>1, <2>4, <2>5 DEF TimeOf, s
  <2>7. ASSUME c["sec"] = 59
        PROVE  Follows(c, n)
    <3>1. s = 3600 * c["hour"] + 60 * (c["min"] + 1)
      BY <1>1, <2>7 DEF s, SecondOf
    <3>2. CASE c["min"] = 59
      <4>1. s = 3600 * (c["hour"] + 1)
        BY <1>1, <3>1, <3>2
      <4>2. s \div 3600 = c["hour"] + 1
        BY <1>1, <4>1
      <4>3. s \div 60 = 60 * (c["hour"] + 1)
        BY <1>1, <4>1
      <4>4. (60 * (c["hour"] + 1)) % 60 = 0
        BY <1>1
      <4> QED BY <2>3, <3>2, <4>2, <4>3, <4>4 DEF Follows
    <3>3. CASE c["min"] # 59
      <4>1. s \div 3600 = c["hour"]
        <5> DEFINE r == 60 * (c["min"] + 1)
        <5>1. s = 3600 * c["hour"] + r /\ r \in Nat /\ r < 3600
          BY <1>1, <3>1, <3>3
        <5> HIDE DEF r
        <5> QED BY <1>1, <5>1
      <4>2. s \div 60 = 60 * c["hour"] + (c["min"] + 1)
        BY <1>1, <3>1
      <4>3. (60 * c["hour"] + (c["min"] + 1)) % 60 = c["min"] + 1
        BY <1>1, <3>3
      <4> QED BY <2>3, <4>1, <4>2, <4>3 DEF Follows
    <3> QED BY <3>2, <3>3
  <2> QED BY <2>4, <2>6, <2>7 DEF n
<1> QED
  BY <1>3, <1>4

\* A face put together from the fields before a minute's end and, from some
\* field on, those after it, is a date, and no later.
LEMMA MixedFace ==
  ASSUME NEW c, NEW n, NEW x, FaceOK(c), FaceOK(n), FaceOK(x), ValidFace(c), ValidFace(n),
         TimeOf(n) = TimeOf(c) + 1, c["sec"] = 59, n["sec"] = 0, x["sec"] = 0, Follows(c, n),
         NEW k \in 0 .. 5,
         x["year"] = IF k >= 1 THEN c["year"] ELSE n["year"],
         x["month"] = IF k >= 2 THEN c["month"] ELSE n["month"],
         x["date"] = IF k >= 3 THEN c["date"] ELSE n["date"],
         x["hour"] = IF k >= 4 THEN c["hour"] ELSE n["hour"],
         x["min"] = IF k >= 5 THEN c["min"] ELSE n["min"]
  PROVE  ValidFace(x) /\ TimeOf(x) <= TimeOf(n)
<1>1. /\ c["year"] \in Nat /\ c["month"] \in Nat /\ c["date"] \in Nat /\ c["hour"] \in Nat /\ c["min"] \in Nat
      /\ SecondOf(c) \in Nat /\ SecondOf(c) < 86400 /\ DayOf(c) \in Int
  BY FaceTypes
<1>2. /\ n["year"] \in Nat /\ n["month"] \in Nat /\ n["date"] \in Nat /\ n["hour"] \in Nat /\ n["min"] \in Nat
      /\ SecondOf(n) \in Nat /\ SecondOf(n) < 86400 /\ DayOf(n) \in Int
  BY FaceTypes
<1>3. SecondOf(x) \in Nat /\ SecondOf(x) < 86400 /\ DayOf(x) \in Int
  BY FaceTypes
<1>4. CASE k >= 3
  <2>1. ValidFace(x) /\ DayOf(x) = DayOf(c)
    BY <1>4 DEF ValidFace, DayOf
  <2>2. CASE n["hour"] = 0 /\ n["min"] = 0 /\ DayOf(n) = DayOf(c) + 1
    <3>1. SecondOf(n) = 0
      BY <2>2 DEF SecondOf
    <3> QED BY <1>1, <1>2, <1>3, <2>1, <2>2, <3>1 DEF TimeOf
  <2>3. CASE DayOf(n) = DayOf(c)
    <3>1. SecondOf(n) = SecondOf(c) + 1
      BY <1>1, <1>2, <2>3 DEF TimeOf
    <3>2. /\ SecondOf(n) = (n["hour"] * 60 + n["min"]) * 60
          /\ SecondOf(x) = (x["hour"] * 60 + x["min"]) * 60
          /\ SecondOf(c) = (c["hour"] * 60 + c["min"]) * 60 + 59
      BY <1>1, <1>2, FaceTypes DEF SecondOf
    <3>3. n["hour"] * 60 + n["min"] = (c["hour"] * 60 + c["min"]) + 1
      <4> DEFINE later == n["hour"] * 60 + n["min"]
                 earlier == c["hour"] * 60 + c["min"]
      <4>1. later \in Nat /\ earlier \in Nat
        BY <1>1, <1>2
      <4>2. later * 60 = (earlier * 60 + 59) + 1
        BY <3>1, <3>2
      <4> HIDE DEF later, earlier
      <4>3. later = earlier + 1
        BY <4>1, <4>2
      <4> QED BY <4>3 DEF later, earlier
    <3>4. c["hour"] <= n["hour"]
      <4>1. n["min"] <= 59 /\ c["min"] <= 59
        BY FaceTypes
      <4> QED BY <1>1, <1>2, <3>3, <4>1
    <3>5. x["hour"] * 60 + x["min"] <= n["hour"] * 60 + n["min"] /\ x["hour"] \in Nat /\ x["min"] \in Nat
      <4>1. CASE k \in {3, 4}
        BY <1>1, <1>2, <3>4, <4>1
      <4>2. CASE k = 5
        BY <1>1, <1>2, <3>3, <4>2
      <4> QED BY <1>4, <4>1, <4>2
    <3>6. SecondOf(x) <= SecondOf(n)
      BY <1>2, <3>2, <3>5
    <3> QED BY <1>1, <1>2, <1>3, <2>1, <2>3, <3>6 DEF TimeOf
  <2>4. DayOf(n) = DayOf(c) \/ (n["hour"] = 0 /\ n["min"] = 0 /\ DayOf(n) = DayOf(c) + 1)
    <3>1. CASE n["year"] = c["year"] /\ n["month"] = c["month"] /\ n["date"] = c["date"]
      BY <3>1 DEF DayOf
    <3>2. CASE n["hour"] = 0 /\ n["min"] = 0 /\ n["sec"] = 0
      <4>1. SecondOf(n) = 0
        BY <3>2 DEF SecondOf
      <4> QED BY <1>1, <1>2, <3>2, <4>1 DEF TimeOf
    <3> QED BY <3>1, <3>2 DEF Follows
  <2> QED BY <2>2, <2>3, <2>4
<1>5. CASE k < 3
  <2>0. DayOf(c) <= DayOf(n)
    BY <1>1, <1>2 DEF TimeOf
  <2>1. x["hour"] = n["hour"] /\ x["min"] = n["min"]
    BY <1>5
  <2>2. SecondOf(x) = SecondOf(n)
    BY <2>1 DEF SecondOf
  <2>3. CASE x["year"] = n["year"] /\ x["month"] = n["month"] /\ x["date"] = n["date"]
    BY <1>2, <2>2, <2>3 DEF ValidFace, DayOf, TimeOf
  <2>4. CASE n["date"] = 1 /\ k = 2
    <3>1. x["year"] = c["year"] /\ x["month"] = c["month"] /\ x["date"] = 1
      BY <2>4
    <3>2. ValidFace(x) /\ DayOf(x) <= DayOf(c)
      BY <1>1, <3>1, EarlierDays DEF ValidFace, DayOf
    <3> QED BY <1>1, <1>2, <1>3, <2>2, <3>2, <2>0 DEF TimeOf
  <2>6. CASE n["month"] = 1 /\ n["date"] = 1 /\ k = 1
    <3>1. x["year"] = c["year"] /\ x["month"] = 1 /\ x["date"] = 1
      BY <2>6
    <3>2. ValidFace(x) /\ DayOf(x) <= DayOf(c)
      BY <1>1, <3>1, EarlierDays DEF ValidFace, DayOf
    <3> QED BY <1>1, <1>2, <1>3, <2>2, <3>2, <2>0 DEF TimeOf
  <2>7. k \in {0, 1, 2}
    BY <1>5
  <2> QED BY <2>3, <2>4, <2>6, <2>7 DEF Follows
<1> QED
  BY <1>4, <1>5

(***************************************************************************)
(* The dump and the time that passed                                       *)
(***************************************************************************)

LEMMA ClockfaceIsFace ==
  ASSUME NEW y \in Nat, NEW m \in Nat, NEW a \in Nat, NEW s \in Nat
  PROVE  Clockface(Date(y, m, a), s) = Face(y, m, a, s, 0)
<1> DEFINE d == Date(y, m, a)
<1>1. d.year = y /\ d.month = m /\ d.date = a
  BY EntryFields
<1> HIDE DEF d
<1>2. \A f \in AllFields : Clockface(d, s)[f] = Face(y, m, a, s, 0)[f]
  BY <1>1 DEF Clockface, Face, Blank, AllFields
<1>3. Clockface(d, s) = [f \in AllFields |-> Clockface(d, s)[f]]
  BY DEF Clockface, Blank, AllFields
<1>4. Face(y, m, a, s, 0) = [f \in AllFields |-> Face(y, m, a, s, 0)[f]]
  BY DEF Face
<1> QED
  BY <1>2, <1>3, <1>4 DEF d

\* A date that a face can show, and that of a day's number
Showable(y, m, a) == y <= 100 /\ 1 <= m /\ m <= 12 /\ 1 <= a /\ a <= 31
IsDateOf(n, y, m, a) ==
  /\ DateOf(n) = Date(y, m, a) /\ DayNumber(y, m, a) = n
  /\ Showable(y, m, a) /\ (n < 36525 => Valid(y, m, a))

LEMMA SomeDay ==
  ASSUME NEW n \in Nat, n < 36891
  PROVE  \E y, m, a \in Nat : IsDateOf(n, y, m, a)
<1>1. PICK y \in Nat, m \in Nat, a \in Nat : Exists(y, m, a) /\ DayNumber(y, m, a) = n
  <2>1. HasDate(n)
    BY SomeDate
  <2> QED BY <2>1 DEF HasDate
<1>2. DateOf(n) = Date(y, m, a)
  <2>1. DateOf(DayNumber(y, m, a)) = Date(y, m, a)
    BY <1>1, DateOfDay
  <2> QED BY <1>1, <2>1
<1>3. y <= 100 /\ (n < 36525 => Valid(y, m, a))
  BY <1>1, CenturyEnds
<1>4. 1 <= m /\ m <= 12 /\ 1 <= a /\ a <= 31
  <2>1. DaysInMonth(y, m) \in 28 .. 31
    BY MonthStartStep
  <2> QED BY <1>1, <2>1 DEF Exists
<1> QED
  BY <1>1, <1>2, <1>3, <1>4 DEF IsDateOf, Showable

\* The restored face is the dumped one and the seconds that were counted, if the
\* dump was a date at all.
LEMMA RestoredFace ==
  ASSUME FaceOK(dump), NEW elapsed \in Nat, elapsed < 60
  PROVE  /\ FaceOK(Restored(elapsed))
         /\ ValidFace(dump) /\ TimeOf(dump) + elapsed < 36525 * 86400 =>
              ValidFace(Restored(elapsed)) /\ TimeOf(Restored(elapsed)) = TimeOf(dump) + elapsed
<1> DEFINE y0 == dump["year"]
           m0 == dump["month"]
           a0 == dump["date"]
           total == SecondOf(dump) + elapsed
           n == DumpDay + (total \div 86400)
           tod == total % 86400
<1>1. /\ y0 \in Nat /\ m0 \in Nat /\ 1 <= m0 /\ m0 <= 12 /\ a0 \in Nat /\ 1 <= a0 /\ a0 <= 31
      /\ SecondOf(dump) \in Nat /\ SecondOf(dump) < 86400 /\ DayOf(dump) \in Int
  BY FaceTypes
<1>2. DumpSecond = SecondOf(dump)
  BY DEF DumpSecond, SecondOf
<1>3. Restored(elapsed) = Clockface(DateOf(n), tod)
  BY <1>2 DEF Restored
<1>4. DumpDay = DayNumber(y0 % 100, m0, a0)
  <2>1. y0 \in Nat /\ m0 \in Nat \ {0} /\ a0 \in Nat
    BY <1>1
  <2> HIDE DEF y0, m0, a0
  <2>2. DaysOf(Date(y0, m0, a0)) = DayNumber(y0 % 100, m0, a0)
    BY <2>1, DaysOfDate
  <2> QED BY <2>2 DEF DumpDay, y0, m0, a0
<1>5. DumpDay \in Nat /\ DumpDay < 36889
  <2> DEFINE z == y0 % 100
  <2>1. z \in Nat /\ z < 100
    BY <1>1
  <2> HIDE DEF z, m0, a0
  <2>2. MonthStart(z, m0) \in Nat /\ MonthStart(z, m0) <= 366
    <3>1. m0 \in 1 .. 13
      BY <1>1
    <3> QED BY <2>1, <3>1, MonthStartBounds
  <2>3. YearStart(z) \in Nat /\ YearStart(z) <= 36160
    BY <2>1 DEF YearStart
  <2>4. DumpDay = (YearStart(z) + MonthStart(z, m0)) + (a0 - 1)
    BY <1>4 DEF DayNumber, z
  <2> QED BY <1>1, <2>2, <2>3, <2>4
<1>6. /\ total \in Nat /\ total < 86460 /\ tod \in Nat /\ tod < 86400
      /\ total = 86400 * (total \div 86400) + tod /\ total \div 86400 \in {0, 1}
  <2>1. total \in Nat /\ total < 86460
    BY <1>1
  <2> HIDE DEF total
  <2> QED BY <2>1
<1> HIDE DEF y0, m0, a0, total, tod
<1>7. n \in Nat /\ n < 36891
  BY <1>5, <1>6
<1> HIDE DEF n
<1>8. PICK y \in Nat, m \in Nat, a \in Nat : IsDateOf(n, y, m, a)
  BY <1>7, SomeDay
<1> DEFINE r == Restored(elapsed)
<1>9. r = Face(y, m, a, tod, 0)
  <2>1. DateOf(n) = Date(y, m, a)
    BY <1>8 DEF IsDateOf
  <2> QED BY <1>3, <1>6, <2>1, ClockfaceIsFace
<1> HIDE DEF r
<1>10. FaceOK(r) /\ SecondOf(r) = tod
  <2>1. y <= 100 /\ 1 <= m /\ m <= 12 /\ 1 <= a /\ a <= 31
    BY <1>8 DEF IsDateOf, Showable
  <2> QED BY <1>6, <1>9, <2>1, FaceIs
<1>11. r["year"] = y /\ r["month"] = m /\ r["date"] = a
  BY <1>9 DEF Face, AllFields
<1>12. ASSUME ValidFace(dump), TimeOf(dump) + elapsed < 36525 * 86400
       PROVE  ValidFace(r) /\ TimeOf(r) = TimeOf(dump) + elapsed
  <2>1. DumpDay = DayOf(dump)
    <3>1. y0 % 100 = y0
      BY <1>1, <1>12 DEF ValidFace, Valid, y0
    <3> QED BY <1>4, <3>1 DEF DayOf, y0, m0, a0
  <2>2. TimeOf(dump) + elapsed = n * 86400 + tod
    <3>1. TimeOf(dump) + elapsed = DayOf(dump) * 86400 + total
      BY <1>1 DEF TimeOf, total
    <3>2. n = DayOf(dump) + (total \div 86400)
      BY <2>1 DEF n
    <3> QED BY <1>1, <1>6, <3>1, <3>2
  <2>3. n < 36525
    BY <1>6, <1>7, <1>12, <2>2
  <2>4. ValidFace(r) /\ DayOf(r) = n
    BY <1>8, <1>11, <2>3 DEF ValidFace, DayOf, IsDateOf
  <2> QED BY <1>10, <2>2, <2>4 DEF TimeOf
<1> QED
  BY <1>10, <1>12 DEF r

(***************************************************************************)
(* The inductive invariant                                                 *)
(***************************************************************************)
TrueTime == day * 86400 + second

\* The first n registers of two faces agree.
Agree(c, d, n) == \A i \in 1 .. n : c[Fields[i]] = d[Fields[i]]

\* What the dump will be if no second passes any more
IsDumped(f) == \E i \in 1 .. at - 1 : Fields[i] = f
Mixed == [f \in AllFields |-> IF IsDumped(f) THEN dump[f] ELSE Chip[f]]

\* What was read is what a register can show, or was not read yet.
PartOK(c) == c = [f \in AllFields |-> c[f]] /\ \A f \in AllFields : c[f] = 0 \/ InRange(f, c[f])

ChipOK == FaceOK(Chip) /\ regs = Coded(Chip)

Bounded ==
  /\ day \in Nat /\ second \in Nat /\ second < 86400
  /\ day <= LastDay \/ (day = LastDay + 1 /\ second < passed)
  /\ passed \in Nat /\ passed <= MaxTicks /\ began \in Nat /\ began <= passed
  /\ failures \in Nat /\ failures <= MaxFailures

Flags ==
  /\ build \in Builds /\ started \in BOOLEAN /\ clockTested \in BOOLEAN /\ rtcError \in BOOLEAN
  /\ torn \in BOOLEAN /\ spoilt \in BOOLEAN

Control ==
  /\ phase \in {"idle", "begin", "dump", "save", "check", "restore", "recheck", "ram"}
  /\ at \in Nat /\ 1 <= at /\ at <= Len(Fields)
  /\ phase \notin {"idle", "begin"} => started
  /\ phase # "idle" => passed <= began + TestTicks
  /\ spoilt => started \/ failures > 0

Copies ==
  /\ PartOK(dump) /\ PartOK(got)
  /\ phase = "dump" => \A i \in 1 .. at - 1 : InRange(Fields[i], dump[Fields[i]])
  /\ phase \in {"save", "check", "restore", "recheck", "ram"} => FaceOK(dump)

\* Less than a minute passes in a test, so that a second's register that was
\* written tells how many seconds did.
Late == (Chip["sec"] - dump["sec"] + 60) % 60
Minute ==
  /\ phase = "dump" => Agree(Chip, dump, at - 1) \/ (torn /\ Chip["sec"] <= passed - began)
  /\ phase \in {"check", "restore"} => Chip["sec"] <= passed - began
  /\ phase = "restore" => Agree(Chip, dump, at - 1)
  /\ phase = "recheck" => Late <= passed - began /\ (Late = 0 => Agree(Chip, dump, Len(Fields)))

\* Until the device is switched on the chip keeps the true time.
Untouched ==
  ~started /\ failures = 0 /\ passed = 0 =>
    ValidFace(Chip) /\ TimeOf(Chip) = TrueTime /\ (phase = "begin" => got["sec"] = Chip["sec"])

\* The dates are dates, and no later than the seconds that passed can explain:
\* a start or a dump that a minute's end tears gains a minute at most, and the
\* dump is put back with the seconds since dumpMs, a start's among them.
Gain == 61 * began + 60 * (passed - began)
Dated ==
  ~spoilt =>
    /\ phase \in {"idle", "begin", "dump", "ram"} => ValidFace(Chip) /\ TimeOf(Chip) <= TrueTime + 61 * passed
    /\ phase = "begin" =>
         TimeOf(Chip) <= TrueTime + Gain /\ TimeOf(Chip) + (got["sec"] - Chip["sec"]) <= TrueTime + Gain
    /\ phase = "dump" => TimeOf(Chip) <= TrueTime + Gain /\ ValidFace(Mixed) /\ TimeOf(Mixed) <= TimeOf(Chip)
    /\ phase \in {"save", "check"} => ValidFace(dump) /\ TimeOf(dump) <= TrueTime + Gain
    /\ phase \in {"restore", "recheck"} => ValidFace(dump) /\ TimeOf(dump) <= TrueTime + 61 * passed

\* The time is off by no more than the seconds that passed.
Timed ==
  ~spoilt /\ ~torn =>
    /\ phase \in {"idle", "begin", "dump", "ram"} =>
         TrueTime <= TimeOf(Chip) + passed /\ TimeOf(Chip) <= TrueTime + passed
    /\ phase \in {"begin", "dump"} => TimeOf(Chip) <= TrueTime + began
    /\ phase = "begin" =>
         got["sec"] <= Chip["sec"] /\ TrueTime <= (TimeOf(Chip) + (got["sec"] - Chip["sec"])) + passed
    /\ phase \in {"save", "check"} => TrueTime <= TimeOf(dump) + passed /\ TimeOf(dump) <= TrueTime + began
    /\ phase \in {"restore", "recheck"} => TrueTime <= TimeOf(dump) + passed /\ TimeOf(dump) <= TrueTime + passed

RtcInv == ChipOK /\ Bounded /\ Flags /\ Control /\ Copies /\ Minute /\ Untouched /\ Dated /\ Timed

LEMMA Constants ==
  /\ MaxTicks \in Nat /\ MaxTicks <= 1200 /\ TestTicks \in Nat /\ TestTicks <= 59 /\ MaxFailures \in Nat
  /\ LastDay \in Nat /\ LastDay <= 36523 /\ TestDays \subseteq Nat
  /\ Century \in Nat /\ Century <= 255
  /\ \A s \in StartSeconds : s \in Nat /\ s < 86400
<1>1. /\ MaxTicks \in Nat /\ TestTicks \in Nat /\ MaxFailures \in Nat /\ LastDay \in Nat /\ Century \in Nat
      /\ TestDays \subseteq Nat /\ StartSeconds \subseteq Nat
  BY RtcAssumption
<1>2. MaxTicks <= 1200 /\ TestTicks < 60 /\ LastDay < 36524 /\ Century < 256
  BY RtcAssumption
<1>3. \A s \in StartSeconds : s < 86400
  BY RtcAssumption
<1> QED
  BY <1>1, <1>2, <1>3

\* Faces that agree on everything but the century show the same time.
LEMMA SameTime ==
  ASSUME NEW c, NEW d, \A f \in AllFields \ {"cent"} : c[f] = d[f]
  PROVE  TimeOf(c) = TimeOf(d) /\ (ValidFace(c) <=> ValidFace(d)) /\ DayOf(c) = DayOf(d) /\ SecondOf(c) = SecondOf(d)
<1>1. /\ c["year"] = d["year"] /\ c["month"] = d["month"] /\ c["date"] = d["date"]
      /\ c["hour"] = d["hour"] /\ c["min"] = d["min"] /\ c["sec"] = d["sec"]
  BY DEF AllFields
<1>2. DayOf(c) = DayOf(d) /\ (ValidFace(c) <=> ValidFace(d))
  BY <1>1 DEF DayOf, ValidFace
<1>3. SecondOf(c) = SecondOf(d)
  BY <1>1 DEF SecondOf
<1> QED
  BY <1>2, <1>3 DEF TimeOf

LEMMA AgreeIsSameTime ==
  ASSUME NEW c, NEW d, Agree(c, d, Len(Fields))
  PROVE  TimeOf(c) = TimeOf(d) /\ (ValidFace(c) <=> ValidFace(d)) /\ c["sec"] = d["sec"]
<1>1. ASSUME NEW f \in AllFields \ {"cent"}
      PROVE  c[f] = d[f]
  <2>1. PICK i \in 1 .. Len(Fields) : Fields[i] = f
    BY FieldsOrder
  <2> QED BY <2>1 DEF Agree
<1>2. c["sec"] = d["sec"]
  BY <1>1 DEF AllFields
<1> QED
  BY <1>1, <1>2, SameTime

\* The second's register alone
LEMMA SecondWritten ==
  ASSUME NEW c, FaceOK(c), NEW v \in Nat, v <= 59, NEW d, d = With(c, "sec", v)
  PROVE  /\ FaceOK(d) /\ (ValidFace(d) <=> ValidFace(c)) /\ TimeOf(d) = TimeOf(c) + (v - c["sec"])
         /\ Coded(d) = Written(Coded(c), "sec", v) /\ d["sec"] = v
<1>1. "sec" \in AllFields /\ InRange("sec", v)
  BY DEF AllFields, InRange, Lowest, Highest
<1>2. FaceOK(d) /\ \A g \in AllFields : d[g] = IF g = "sec" THEN v ELSE c[g]
  BY <1>1, PutFace
<1>3. Coded(d) = Written(Coded(c), "sec", v)
  BY <1>1, PutFace
<1>4. /\ d["year"] = c["year"] /\ d["month"] = c["month"] /\ d["date"] = c["date"]
      /\ d["hour"] = c["hour"] /\ d["min"] = c["min"] /\ d["sec"] = v
  BY <1>2 DEF AllFields
<1>5. /\ c["hour"] \in Nat /\ c["min"] \in Nat /\ c["sec"] \in Nat /\ DayOf(c) \in Int
  BY FaceTypes
<1>6. DayOf(d) = DayOf(c) /\ (ValidFace(d) <=> ValidFace(c))
  BY <1>4 DEF DayOf, ValidFace
<1>7. SecondOf(d) = SecondOf(c) + (v - c["sec"])
  BY <1>4, <1>5 DEF SecondOf
<1>8. SecondOf(c) \in Nat /\ SecondOf(d) \in Nat
  BY <1>2, FaceTypes
<1>9. TimeOf(d) = TimeOf(c) + (v - c["sec"])
  BY <1>5, <1>6, <1>7, <1>8 DEF TimeOf
<1> QED
  BY <1>2, <1>3, <1>4, <1>6, <1>9

\* What the chip shows after a step that leaves its registers alone, or leaves
\* the code of a face in them.
LEMMA ChipAfter ==
  /\ UNCHANGED regs => Chip' = Chip
  /\ \A c : FaceOK(c) /\ regs' = Coded(c) => Chip' = c
<1>1. UNCHANGED regs => Chip' = Chip
  BY DEF Chip, Shown
<1>2. ASSUME NEW c, FaceOK(c), regs' = Coded(c)
      PROVE  Chip' = c
  BY <1>2, ShownCoded DEF Chip
<1> QED
  BY <1>1, <1>2

(***************************************************************************)
(* The steps                                                               *)
(***************************************************************************)
LEMMA ChipFacts ==
  ASSUME RtcInv
  PROVE  /\ FaceOK(Chip) /\ regs = Coded(Chip) /\ (\A f \in AllFields : Got(f) = Chip[f])
         /\ Decode(regs.sec) = Chip["sec"] /\ Got("sec") = Chip["sec"]
<1>1. FaceOK(Chip) /\ regs = Coded(Chip)
  BY DEF RtcInv, ChipOK
<1>2. Decode(regs.sec) = Chip["sec"] /\ \A f \in AllFields : Got(f) = Chip[f]
  BY <1>1, ChipShows
<1>3. Got("sec") = Chip["sec"]
  BY <1>2 DEF AllFields
<1> QED
  BY <1>1, <1>2, <1>3

LEMMA TimeFacts ==
  ASSUME RtcInv
  PROVE  /\ TimeOf(Chip) \in Int /\ DayOf(Chip) \in Int /\ TrueTime \in Int
         /\ SecondOf(Chip) \in Nat /\ SecondOf(Chip) < 86400 /\ Chip["sec"] \in Nat /\ Chip["sec"] <= 59
<1>1. FaceOK(Chip)
  BY DEF RtcInv, ChipOK
<1>2. TrueTime \in Int
  BY DEF RtcInv, Bounded, TrueTime
<1>3. /\ TimeOf(Chip) \in Int /\ DayOf(Chip) \in Int /\ SecondOf(Chip) \in Nat /\ SecondOf(Chip) < 86400
      /\ Chip["sec"] \in Nat /\ Chip["sec"] <= 59
  BY <1>1, FaceTypes
<1> QED
  BY <1>2, <1>3

LEMMA PassedFacts ==
  ASSUME RtcInv
  PROVE  passed \in Nat /\ began \in Nat /\ began <= passed /\ passed <= MaxTicks
BY DEF RtcInv, Bounded

LEMMA GotFacts ==
  ASSUME RtcInv
  PROVE  got["sec"] \in Nat /\ got["sec"] <= 59
<1>1. PartOK(got) /\ "sec" \in AllFields
  BY DEF RtcInv, Copies, AllFields
<1>2. got["sec"] = 0 \/ InRange("sec", got["sec"])
  BY <1>1 DEF PartOK
<1> QED
  BY <1>2 DEF InRange, Highest

\* Blank and the test date are what registers can show, or were never read.
LEMMA BlankAndTestDate ==
  /\ PartOK(Blank) /\ Blank["sec"] = 0
  /\ PartOK(TestDate) /\ (\A f \in AllFields : InRange(f, TestDate[f])) /\ TestDate["sec"] = 0
<1>1. /\ Blank = [f \in AllFields |-> Blank[f]] /\ \A f \in AllFields : Blank[f] = 0
  BY DEF Blank, AllFields
<1>2. TestDate = [f \in AllFields |-> TestDate[f]]
  BY <1>1 DEF TestDate
<1>3. /\ TestDate["cent"] = 0 /\ TestDate["year"] = 24 /\ TestDate["month"] = 4 /\ TestDate["date"] = 28
      /\ TestDate["hour"] = 13 /\ TestDate["min"] = 37 /\ TestDate["sec"] = 0
  BY DEF TestDate, Blank
<1>4. \A f \in AllFields : InRange(f, TestDate[f])
  BY <1>3 DEF AllFields, InRange, Lowest, Highest
<1>5. Blank["sec"] = 0
  BY <1>1 DEF AllFields
<1> QED
  BY <1>1, <1>2, <1>3, <1>4, <1>5 DEF PartOK

\* A register that was read goes where it belongs.
LEMMA PartRead ==
  ASSUME NEW c, PartOK(c), NEW f \in AllFields, NEW v, InRange(f, v), NEW d, d = With(c, f, v)
  PROVE  PartOK(d) /\ d[f] = v /\ \A g \in AllFields \ {f} : d[g] = c[g]
<1>1. c = [g \in AllFields |-> c[g]]
  BY DEF PartOK
<1>2. d = [g \in AllFields |-> IF g = f THEN v ELSE c[g]]
  BY <1>1 DEF With
<1>3. \A g \in AllFields : d[g] = IF g = f THEN v ELSE c[g]
  BY <1>2
<1>4. d = [g \in AllFields |-> d[g]]
  BY <1>2
<1>5. \A g \in AllFields : d[g] = 0 \/ InRange(g, d[g])
  BY <1>3, Zenon DEF PartOK
<1> QED
  BY <1>3, <1>4, <1>5, Zenon DEF PartOK

LEMMA RtcInitInv == RtcInit => RtcInv
<1> SUFFICES ASSUME RtcInit PROVE RtcInv
  OBVIOUS
<1>0. /\ build \in Builds /\ day = 0 /\ second \in StartSeconds /\ regs = Registers(Date(0, 1, 1), second, Century)
      /\ started = FALSE /\ clockTested = FALSE /\ rtcError = FALSE /\ phase = "idle" /\ at = 1
      /\ dump = Blank /\ got = Blank /\ began = 0 /\ passed = 0 /\ failures = 0 /\ torn = FALSE /\ spoilt = FALSE
  BY DEF RtcInit
<1>1. second \in Nat /\ second < 86400
  BY <1>0, Constants
<1> DEFINE c == Face(0, 1, 1, second, Century)
<1>2. regs = Coded(c)
  BY <1>0, <1>1, RegistersFace
<1>3. FaceOK(c) /\ SecondOf(c) = second
  BY <1>1, FaceIs, Constants
<1>4. c["year"] = 0 /\ c["month"] = 1 /\ c["date"] = 1
  BY DEF Face, AllFields
<1> HIDE DEF c
<1>5. Chip = c
  BY <1>2, <1>3, ShownCoded DEF Chip
<1>6. ValidFace(c) /\ DayOf(c) = 0
  <2>1. Valid(0, 1, 1) /\ DayNumber(0, 1, 1) = 0
    BY DEF Valid, Exists, DaysInMonth, DayNumber, YearStart, MonthStart
  <2> QED BY <1>4, <2>1 DEF ValidFace, DayOf
<1>7. TimeOf(c) = TrueTime /\ TrueTime \in Int
  BY <1>0, <1>1, <1>3, <1>6 DEF TimeOf, TrueTime
<1>8. ChipOK
  BY <1>2, <1>3, <1>5 DEF ChipOK
<1>9. Bounded
  <2>1. 0 <= MaxTicks /\ 0 <= MaxFailures /\ 0 <= LastDay
    BY Constants
  <2>2. day = 0 /\ began = 0 /\ passed = 0 /\ failures = 0
    BY <1>0
  <2> QED BY <1>1, <2>1, <2>2 DEF Bounded
<1>10. Flags
  BY <1>0, Zenon DEF Flags
<1>11. Control
  <2>1. Len(Fields) \in {6, 7}
    BY FieldsOrder
  <2>2. at \in Nat /\ 1 <= at /\ at <= Len(Fields)
    <3> DEFINE n == Len(Fields)
    <3>1. at = 1 /\ n \in {6, 7}
      BY <1>0, <2>1
    <3> HIDE DEF n
    <3>2. at \in Nat /\ 1 <= at /\ at <= n
      BY <3>1
    <3> QED BY <3>2 DEF n
  <2>3. phase = "idle" /\ ~spoilt
    BY <1>0
  <2> QED BY <2>2, <2>3, Zenon DEF Control
<1>12. Copies
  BY <1>0, BlankAndTestDate DEF Copies
<1>13. Minute /\ Untouched /\ Dated /\ Timed
  BY <1>0, <1>5, <1>6, <1>7 DEF Minute, Untouched, Dated, Timed
<1> QED
  BY <1>8, <1>9, <1>10, <1>11, <1>12, <1>13 DEF RtcInv

LEMMA RtcStutters ==
  ASSUME RtcInv, UNCHANGED rtcVars
  PROVE  RtcInv'
<1>1. Chip' = Chip /\ Fields' = Fields
  BY ChipAfter DEF rtcVars, chipVars, Fields
<1>2. ChipOK' /\ Bounded' /\ Flags' /\ Control' /\ Copies'
  BY <1>1 DEF RtcInv, ChipOK, Bounded, Flags, Control, Copies, rtcVars, chipVars, trueVars, flagVars, dataVars, pastVars
<1>3. Agree(Chip, dump, at - 1)' = Agree(Chip, dump, at - 1) /\ Agree(Chip, dump, Len(Fields))' = Agree(Chip, dump, Len(Fields))
  BY <1>1 DEF Agree, rtcVars, dataVars
<1>4. Minute'
  BY <1>1, <1>3 DEF RtcInv, Minute, Late, rtcVars, chipVars, trueVars, flagVars, dataVars, pastVars
<1>5. Mixed' = Mixed /\ TrueTime' = TrueTime
  BY <1>1 DEF Mixed, IsDumped, TrueTime, rtcVars, chipVars, trueVars, dataVars
<1>6. Untouched' /\ Dated' /\ Timed'
  BY <1>1, <1>5 DEF RtcInv, Untouched, Dated, Gain, Timed, rtcVars, chipVars, trueVars, flagVars, dataVars, pastVars
<1> QED
  BY <1>2, <1>4, <1>6 DEF RtcInv

LEMMA ReadyComesStep ==
  ASSUME RtcInv, ReadyComes
  PROVE  RtcInv'
<1>0. /\ clockTested' = FALSE
      /\ UNCHANGED <<build, regs, day, second, started, rtcError, phase, at, dump, got, began, passed, failures, torn, spoilt>>
  BY DEF ReadyComes, chipVars, trueVars, dataVars, pastVars
<1>1. phase = "idle"
  BY DEF ReadyComes, Idle
<1>2. Chip' = Chip /\ Fields' = Fields /\ TrueTime' = TrueTime
  BY <1>0, ChipAfter DEF Fields, TrueTime
<1>3. ChipOK' /\ Bounded' /\ Control' /\ Copies'
  BY <1>0, <1>2 DEF RtcInv, ChipOK, Bounded, Control, Copies
<1>4. Flags'
  BY <1>0, Zenon DEF RtcInv, Flags
<1>5. Minute' /\ Untouched'
  BY <1>0, <1>1, <1>2 DEF RtcInv, Minute, Untouched
<1>6. Dated' /\ Timed'
  BY <1>0, <1>1, <1>2 DEF RtcInv, Dated, Timed
<1> QED
  BY <1>3, <1>4, <1>5, <1>6 DEF RtcInv

LEMMA BeginReadStep ==
  ASSUME RtcInv, BeginRead
  PROVE  RtcInv'
<1>0. /\ phase = "idle" /\ ~started /\ phase' = "begin" /\ at' = 1 /\ began' = passed
      /\ UNCHANGED <<build, regs, day, second, started, clockTested, rtcError, dump, passed, failures, torn, spoilt>>
  BY DEF BeginRead, Idle, Go, chipVars, trueVars, flagVars, pastVars
<1>1. Chip' = Chip /\ Fields' = Fields /\ TrueTime' = TrueTime
  BY <1>0, ChipAfter DEF Fields, TrueTime
<1>2. PartOK(got') /\ got'["sec"] = Chip["sec"]
  <2>1. got' = With(got, "sec", Got("sec"))
    BY DEF BeginRead, With
  <2>2. "sec" \in AllFields /\ InRange("sec", Chip["sec"])
    BY TimeFacts DEF AllFields, InRange, Lowest, Highest
  <2>3. PartOK(got) /\ Got("sec") = Chip["sec"]
    BY ChipFacts DEF RtcInv, Copies
  <2> QED BY <2>1, <2>2, <2>3, PartRead
<1>3. ChipOK' /\ Bounded' /\ Flags'
  BY <1>0, <1>1 DEF RtcInv, ChipOK, Bounded, Flags
<1>4. Control'
  <2>1. Len(Fields) \in {6, 7}
    BY FieldsOrder
  <2>2. TestTicks \in Nat /\ passed \in Nat
    BY Constants, PassedFacts
  <2> QED BY <1>0, <1>1, <2>1, <2>2 DEF RtcInv, Control
<1>5. Copies'
  BY <1>0, <1>1, <1>2 DEF RtcInv, Copies
<1>6. Minute'
  BY <1>0 DEF Minute
<1>7. Untouched'
  BY <1>0, <1>1, <1>2 DEF RtcInv, Untouched
<1>8. Dated'
  BY <1>0, <1>1, <1>2, TimeFacts, PassedFacts DEF RtcInv, Dated, Gain
<1>9. Timed'
  BY <1>0, <1>1, <1>2, TimeFacts, PassedFacts DEF RtcInv, Timed
<1> QED
  BY <1>3, <1>4, <1>5, <1>6, <1>7, <1>8, <1>9 DEF RtcInv

LEMMA BeginWriteStep ==
  ASSUME RtcInv, BeginWrite
  PROVE  RtcInv'
<1>0. /\ phase = "begin" /\ phase' = "dump" /\ at' = 1 /\ started' = TRUE /\ clockTested' = FALSE /\ got' = Blank
      /\ UNCHANGED <<build, day, second, rtcError, dump, began, passed, failures, torn, spoilt>>
  BY DEF BeginWrite, Go, trueVars, pastVars
<1> DEFINE v == got["sec"]
           c == With(Chip, "sec", v)
<1>1. regs' = Written(regs, "sec", v)
  BY DEF BeginWrite, Put, Written
<1>2. v \in Nat /\ v <= 59 /\ FaceOK(Chip) /\ regs = Coded(Chip)
  BY GotFacts, ChipFacts
<1> HIDE DEF v
<1>3. /\ FaceOK(c) /\ (ValidFace(c) <=> ValidFace(Chip)) /\ TimeOf(c) = TimeOf(Chip) + (v - Chip["sec"])
      /\ regs' = Coded(c)
  BY <1>1, <1>2, SecondWritten
<1> HIDE DEF c
<1>4. Chip' = c /\ Fields' = Fields /\ TrueTime' = TrueTime
  BY <1>0, <1>3, ChipAfter DEF Fields, TrueTime
<1>5. ChipOK'
  BY <1>3, <1>4 DEF ChipOK
<1>6. Bounded' /\ Flags'
  <2>1. Bounded'
    BY <1>0 DEF RtcInv, Bounded
  <2>2. Flags'
    BY <1>0, Zenon DEF RtcInv, Flags
  <2> QED BY <2>1, <2>2
<1>7. Control'
  <2>1. Len(Fields) \in {6, 7}
    BY FieldsOrder
  <2> QED BY <1>0, <1>4, <2>1 DEF RtcInv, Control
<1>8. Copies'
  BY <1>0, BlankAndTestDate DEF RtcInv, Copies
<1>9. Minute' /\ Untouched'
  <2>1. Agree(Chip, dump, at - 1)'
    BY <1>0 DEF Agree
  <2> QED BY <1>0, <2>1 DEF Minute, Untouched
<1>10. Mixed' = Chip'
  <2>1. \A f \in AllFields : ~IsDumped(f)'
    BY <1>0 DEF IsDumped
  <2>2. Mixed' = [f \in AllFields |-> Chip'[f]]
    BY <2>1 DEF Mixed
  <2> QED BY <1>3, <1>4, <2>2 DEF FaceOK
<1>11. /\ TimeOf(c) \in Int /\ TimeOf(Chip) \in Int /\ TrueTime \in Int /\ Chip["sec"] \in Nat
       /\ passed \in Nat /\ began \in Nat /\ began <= passed
  BY <1>3, FaceTypes, TimeFacts, PassedFacts
<1>12. Dated'
  <2>1. ASSUME ~spoilt
        PROVE  ValidFace(c) /\ TimeOf(c) <= TrueTime + Gain
    BY <1>0, <1>3, <2>1 DEF RtcInv, Dated, v
  <2>2. Gain \in Int /\ Gain <= 61 * passed /\ Gain' = Gain
    BY <1>0, <1>11 DEF Gain
  <2>3. ASSUME ~spoilt
        PROVE  TimeOf(c) <= TrueTime + 61 * passed
    BY <1>11, <2>1, <2>2, <2>3
  <2> QED BY <1>0, <1>4, <1>10, <1>11, <2>1, <2>2, <2>3 DEF Dated
<1>13. Timed'
  <2>1. ASSUME ~spoilt, ~torn
        PROVE  TrueTime <= TimeOf(c) + passed /\ TimeOf(c) <= TrueTime + began
    <3>1. /\ TimeOf(Chip) <= TrueTime + began
          /\ v <= Chip["sec"] /\ TrueTime <= (TimeOf(Chip) + (v - Chip["sec"])) + passed
      BY <1>0, <2>1 DEF RtcInv, Timed, v
    <3> QED BY <1>2, <1>3, <1>11, <3>1
  <2>2. ASSUME ~spoilt, ~torn
        PROVE  TimeOf(c) <= TrueTime + passed
    BY <1>11, <2>1, <2>2
  <2> QED BY <1>0, <1>4, <2>1, <2>2 DEF Timed
<1> QED
  BY <1>5, <1>6, <1>7, <1>8, <1>9, <1>12, <1>13 DEF RtcInv

LEMMA StartTestStep ==
  ASSUME RtcInv, StartTest
  PROVE  RtcInv'
<1>0. /\ phase = "idle" /\ started /\ phase' = "dump" /\ at' = 1 /\ clockTested' = FALSE /\ began' = passed
      /\ UNCHANGED <<build, regs, day, second, started, rtcError, dump, got, passed, failures, torn, spoilt>>
  BY DEF StartTest, Idle, Go, chipVars, trueVars, pastVars
<1>1. Chip' = Chip /\ Fields' = Fields /\ TrueTime' = TrueTime
  BY <1>0, ChipAfter DEF Fields, TrueTime
<1>2. ChipOK' /\ Flags' /\ Bounded'
  <2>1. ChipOK'
    BY <1>0, <1>1 DEF RtcInv, ChipOK
  <2>2. Flags'
    BY <1>0, Zenon DEF RtcInv, Flags
  <2>3. Bounded'
    BY <1>0 DEF RtcInv, Bounded
  <2> QED BY <2>1, <2>2, <2>3
<1>3. Control'
  <2>1. Len(Fields) \in {6, 7} /\ 0 <= TestTicks /\ TestTicks \in Nat
    BY FieldsOrder, Constants
  <2> QED BY <1>0, <1>1, <2>1, PassedFacts DEF RtcInv, Control
<1>4. Copies'
  BY <1>0, <1>1 DEF RtcInv, Copies
<1>5. Agree(Chip, dump, at - 1)'
  BY <1>0 DEF Agree
<1>6. Minute' /\ Untouched'
  BY <1>0, <1>5 DEF Minute, Untouched
<1>7. Mixed' = Chip
  <2>1. \A f \in AllFields : ~IsDumped(f)'
    BY <1>0 DEF IsDumped
  <2>2. Mixed' = [f \in AllFields |-> Chip[f]]
    BY <1>1, <2>1 DEF Mixed
  <2>3. FaceOK(Chip)
    BY ChipFacts
  <2> QED BY <2>2, <2>3 DEF FaceOK
<1>8. Dated'
  BY <1>0, <1>1, <1>7, TimeFacts, PassedFacts DEF RtcInv, Dated, Gain
<1>9. Timed'
  BY <1>0, <1>1 DEF RtcInv, Timed
<1> QED
  BY <1>2, <1>3, <1>4, <1>6, <1>8, <1>9 DEF RtcInv

\* The register that a step accesses
LEMMA FieldAt ==
  ASSUME RtcInv
  PROVE  /\ at \in 1 .. Len(Fields) /\ Fields[at] \in AllFields /\ Len(Fields) \in Nat
         /\ (Fields[at] = "sec" <=> at = Len(Fields))
         /\ \A i \in 1 .. Len(Fields) : Fields[i] \in AllFields /\ (i # at => Fields[i] # Fields[at])
<1>1. at \in 1 .. Len(Fields) /\ Len(Fields) \in Nat
  <2>1. Len(Fields) \in {6, 7}
    BY FieldsOrder
  <2> QED BY <2>1 DEF RtcInv, Control
<1> QED
  BY <1>1, FieldsOrder

\* The next register, or the next part of the test
LEMMA Advances ==
  ASSUME RtcInv, NEW next, Advance(next)
  PROVE  \/ at < Len(Fields) /\ at' = at + 1 /\ phase' = phase
         \/ at = Len(Fields) /\ at' = 1 /\ phase' = next
BY FieldAt DEF Advance, Go

LEMMA AllRead ==
  ASSUME NEW c, PartOK(c), \A i \in 1 .. Len(Fields) : InRange(Fields[i], c[Fields[i]])
  PROVE  FaceOK(c)
<1>1. ASSUME NEW f \in AllFields
      PROVE  InRange(f, c[f])
  <2>1. CASE f = "cent"
    <3>1. c[f] = 0 \/ InRange(f, c[f])
      BY DEF PartOK
    <3> QED BY <2>1, <3>1 DEF InRange, Lowest, Highest
  <2>2. CASE f # "cent"
    <3>1. PICK i \in 1 .. Len(Fields) : Fields[i] = f
      BY <2>2, FieldsOrder
    <3> QED BY <3>1
  <2> QED BY <2>1, <2>2
<1> QED
  BY <1>1, Zenon DEF FaceOK, PartOK

LEMMA DumpStep ==
  ASSUME RtcInv, Dump
  PROVE  RtcInv'
<1>0. /\ phase = "dump" /\ Advance("save")
      /\ UNCHANGED <<build, regs, day, second, started, clockTested, rtcError, got, began, passed, failures, torn, spoilt>>
  BY DEF Dump, chipVars, trueVars, flagVars, pastVars
<1> DEFINE f == Fields[at]
<1>1. Chip' = Chip /\ Fields' = Fields /\ TrueTime' = TrueTime
  BY <1>0, ChipAfter DEF Fields, TrueTime
<1>2. /\ at \in 1 .. Len(Fields) /\ f \in AllFields /\ Len(Fields) \in Nat
      /\ \A i \in 1 .. Len(Fields) : Fields[i] \in AllFields /\ (i # at => Fields[i] # f)
  BY FieldAt
<1>3. InRange(f, Chip[f]) /\ Got(f) = Chip[f] /\ PartOK(dump)
  <2>1. FaceOK(Chip)
    BY ChipFacts
  <2> QED BY <1>2, <2>1, ChipFacts DEF FaceOK, RtcInv, Copies
<1>4. dump' = With(dump, f, Got(f))
  BY DEF Dump, With
<1> HIDE DEF f
<1>5. PartOK(dump') /\ dump'[f] = Chip[f] /\ \A g \in AllFields \ {f} : dump'[g] = dump[g]
  BY <1>2, <1>3, <1>4, PartRead
<1>6. \A i \in 1 .. at : dump'[Fields[i]] = IF i = at THEN Chip[f] ELSE dump[Fields[i]]
  BY <1>2, <1>5 DEF f
<1>7. \A i \in 1 .. at : InRange(Fields[i], dump'[Fields[i]])
  <2>1. \A i \in 1 .. at - 1 : InRange(Fields[i], dump[Fields[i]])
    BY <1>0 DEF RtcInv, Copies
  <2> QED BY <1>2, <1>3, <1>6, <2>1 DEF f
<1>8. Agree(Chip, dump, at - 1) => Agree(Chip, dump', at)
  <2>1. ASSUME Agree(Chip, dump, at - 1), NEW i \in 1 .. at
        PROVE  Chip[Fields[i]] = dump'[Fields[i]]
    <3>1. CASE i = at
      BY <1>6, <3>1 DEF f
    <3>2. CASE i # at
      <4>1. i \in 1 .. at - 1
        BY <1>2, <3>2
      <4> QED BY <1>6, <2>1, <3>2, <4>1 DEF Agree
    <3> QED BY <3>1, <3>2
  <2> QED BY <2>1 DEF Agree
<1>9. \A g \in AllFields : (\E i \in 1 .. at : Fields[i] = g) => dump'[g] = Mixed[g]
  <2>1. ASSUME NEW g \in AllFields, NEW i \in 1 .. at, Fields[i] = g
        PROVE  dump'[g] = Mixed[g]
    <3>1. CASE i = at
      <4>1. ~IsDumped(g)
        BY <1>2, <2>1, <3>1 DEF IsDumped, f
      <4> QED BY <1>6, <2>1, <3>1, <4>1 DEF Mixed, f
    <3>2. CASE i # at
      <4>1. i \in 1 .. at - 1
        BY <1>2, <3>2
      <4>2. IsDumped(g)
        BY <2>1, <4>1 DEF IsDumped
      <4> QED BY <1>6, <2>1, <3>2, <4>2 DEF Mixed
    <3> QED BY <3>1, <3>2
  <2> QED BY <2>1
<1>10. ChipOK' /\ Flags' /\ Bounded'
  BY <1>0, <1>1 DEF RtcInv, ChipOK, Bounded, Flags
<1>11. ~spoilt => ValidFace(Chip) /\ TimeOf(Chip) <= TrueTime + Gain /\ ValidFace(Mixed) /\ TimeOf(Mixed) <= TimeOf(Chip)
  BY <1>0 DEF RtcInv, Dated
<1>12. CASE at < Len(Fields) /\ at' = at + 1 /\ phase' = phase
  <2>0. at' - 1 = at /\ phase' = "dump"
    BY <1>0, <1>2, <1>12
  <2>1. Control'
    BY <1>0, <1>1, <1>2, <1>12 DEF RtcInv, Control
  <2>2. Copies'
    BY <1>0, <1>1, <1>5, <1>7, <2>0 DEF RtcInv, Copies
  <2>3. Agree(Chip, dump, at - 1)' <=> Agree(Chip, dump', at)
    BY <1>1, <2>0 DEF Agree
  <2>4. Minute' /\ Untouched'
    BY <1>0, <1>1, <1>8, <2>0, <2>3 DEF RtcInv, Minute, Untouched
  <2>5. Mixed' = Mixed
    <3>1. \A g \in AllFields : IsDumped(g)' <=> \E i \in 1 .. at : Fields[i] = g
      BY <1>1, <2>0 DEF IsDumped
    <3>2. ASSUME NEW g \in AllFields
          PROVE  (IF IsDumped(g)' THEN dump'[g] ELSE Chip[g]) = Mixed[g]
      <4>1. CASE IsDumped(g)'
        BY <1>9, <3>1, <4>1
      <4>2. CASE ~IsDumped(g)'
        <5>1. ~IsDumped(g)
          BY <1>2, <3>1, <4>2 DEF IsDumped
        <5> QED BY <4>2, <5>1 DEF Mixed
      <4> QED BY <4>1, <4>2
    <3>3. Mixed = [g \in AllFields |-> Mixed[g]]
      BY DEF Mixed
    <3>4. Mixed' = [g \in AllFields |-> IF IsDumped(g)' THEN dump'[g] ELSE Chip[g]]
      BY <1>1 DEF Mixed
    <3> QED BY <3>2, <3>3, <3>4
  <2>6. Dated'
    BY <1>0, <1>1, <2>0, <2>5 DEF RtcInv, Dated, Gain
  <2>7. Timed'
    BY <1>0, <1>1, <2>0 DEF RtcInv, Timed
  <2> QED BY <1>10, <2>1, <2>2, <2>4, <2>6, <2>7 DEF RtcInv
<1>13. CASE at = Len(Fields) /\ at' = 1 /\ phase' = "save"
  <2>1. Control'
    BY <1>0, <1>1, <1>2, <1>13 DEF RtcInv, Control
  <2>2. FaceOK(dump')
    BY <1>5, <1>7, <1>13, AllRead
  <2>3. Copies'
    BY <1>0, <1>1, <1>5, <1>13, <2>2 DEF RtcInv, Copies
  <2>4. Minute' /\ Untouched'
    BY <1>0, <1>1, <1>13 DEF RtcInv, Minute, Untouched
  <2>5. \A g \in AllFields \ {"cent"} : dump'[g] = Mixed[g]
    BY <1>9, <1>13, FieldsOrder
  <2>6. TimeOf(dump') = TimeOf(Mixed) /\ (ValidFace(dump') <=> ValidFace(Mixed))
    BY <2>5, SameTime
  <2>7. TimeOf(dump') \in Int
    BY <2>2, FaceTypes
  <2>8. Dated'
    BY <1>0, <1>1, <1>11, <1>13, <2>6, <2>7, TimeFacts, PassedFacts DEF Dated, Gain
  <2>9. ~torn => TimeOf(dump') = TimeOf(Chip)
    <3>1. ~torn => Agree(Chip, dump', Len(Fields))
      BY <1>0, <1>8, <1>13 DEF RtcInv, Minute
    <3> QED BY <3>1, AgreeIsSameTime
  <2>10. Timed'
    BY <1>0, <1>1, <1>13, <2>9, TimeFacts, PassedFacts DEF RtcInv, Timed
  <2> QED BY <1>10, <2>1, <2>3, <2>4, <2>8, <2>10 DEF RtcInv
<1> QED
  BY <1>0, <1>12, <1>13, Advances

\* A register is written with what a face has for it.
LEMMA WriteChip ==
  ASSUME RtcInv, NEW what, Write(what), InRange(Fields[at], what[Fields[at]])
  PROVE  /\ FaceOK(Chip') /\ regs' = Coded(Chip')
         /\ \A g \in AllFields : Chip'[g] = IF g = Fields[at] THEN what[g] ELSE Chip[g]
<1> DEFINE f == Fields[at]
           v == what[f]
           c == With(Chip, f, v)
<1>1. regs' = Written(regs, f, v)
  BY DEF Write, Put, Written
<1>2. f \in AllFields /\ FaceOK(Chip) /\ regs = Coded(Chip) /\ InRange(f, v)
  BY FieldAt, ChipFacts
<1> HIDE DEF f, v
<1>3. FaceOK(c) /\ regs' = Coded(c) /\ \A g \in AllFields : c[g] = IF g = f THEN v ELSE Chip[g]
  BY <1>1, <1>2, PutFace
<1> HIDE DEF c
<1>4. Chip' = c
  BY <1>3, ChipAfter
<1> QED
  BY <1>3, <1>4 DEF f, v

LEMMA SaveStep ==
  ASSUME RtcInv, Save
  PROVE  RtcInv'
<1>0. /\ phase = "save" /\ Write(TestDate) /\ Advance("check")
      /\ UNCHANGED <<build, day, second, started, clockTested, rtcError, dump, got, began, passed, failures, torn, spoilt>>
  BY DEF Save, Write, trueVars, flagVars, dataVars, pastVars
<1>1. /\ at \in 1 .. Len(Fields) /\ Fields[at] \in AllFields /\ Len(Fields) \in Nat
      /\ (Fields[at] = "sec" <=> at = Len(Fields))
  BY FieldAt
<1>2. /\ FaceOK(Chip') /\ regs' = Coded(Chip')
      /\ \A g \in AllFields : Chip'[g] = IF g = Fields[at] THEN TestDate[g] ELSE Chip[g]
  <2>1. InRange(Fields[at], TestDate[Fields[at]])
    BY <1>1, BlankAndTestDate
  <2> QED BY <1>0, <2>1, WriteChip
<1>3. Fields' = Fields /\ TrueTime' = TrueTime
  BY <1>0 DEF Fields, TrueTime
<1>4. ChipOK'
  BY <1>2 DEF ChipOK
<1>5. Bounded'
  BY <1>0 DEF RtcInv, Bounded
<1>6. Flags'
  BY <1>0, Zenon DEF RtcInv, Flags
<1>7. CASE at < Len(Fields) /\ at' = at + 1 /\ phase' = phase
  <2>1. Control'
    BY <1>0, <1>1, <1>3, <1>7 DEF RtcInv, Control
  <2>2. Copies' /\ Minute' /\ Untouched' /\ Dated' /\ Timed'
    BY <1>0, <1>3, <1>7 DEF RtcInv, Copies, Minute, Untouched, Dated, Gain, Timed, Control
  <2> QED BY <1>4, <1>5, <1>6, <2>1, <2>2 DEF RtcInv
<1>8. CASE at = Len(Fields) /\ at' = 1 /\ phase' = "check"
  <2>1. Control'
    BY <1>0, <1>1, <1>3, <1>8 DEF RtcInv, Control
  <2>2. Chip'["sec"] = 0
    BY <1>1, <1>2, <1>8, BlankAndTestDate DEF AllFields
  <2>3. Minute'
    BY <1>0, <1>8, <2>2, PassedFacts DEF Minute
  <2>4. Copies' /\ Untouched' /\ Dated' /\ Timed'
    BY <1>0, <1>3, <1>8 DEF RtcInv, Copies, Untouched, Dated, Gain, Timed, Control
  <2> QED BY <1>4, <1>5, <1>6, <2>1, <2>3, <2>4 DEF RtcInv
<1> QED
  BY <1>0, <1>7, <1>8, Advances

LEMMA RestoreStep ==
  ASSUME RtcInv, Restore
  PROVE  RtcInv'
<1>0. /\ phase = "restore" /\ Write(dump) /\ Advance("recheck")
      /\ UNCHANGED <<build, day, second, started, clockTested, rtcError, dump, got, began, passed, failures, torn, spoilt>>
  BY DEF Restore, Write, trueVars, flagVars, dataVars, pastVars
<1>1. /\ at \in 1 .. Len(Fields) /\ Fields[at] \in AllFields /\ Len(Fields) \in Nat
      /\ (Fields[at] = "sec" <=> at = Len(Fields))
      /\ \A i \in 1 .. Len(Fields) : Fields[i] \in AllFields /\ (i # at => Fields[i] # Fields[at])
  BY FieldAt
<1>2. FaceOK(dump) /\ Chip["sec"] <= passed - began /\ Agree(Chip, dump, at - 1)
  BY <1>0 DEF RtcInv, Copies, Minute
<1>3. /\ FaceOK(Chip') /\ regs' = Coded(Chip')
      /\ \A g \in AllFields : Chip'[g] = IF g = Fields[at] THEN dump[g] ELSE Chip[g]
  <2>1. InRange(Fields[at], dump[Fields[at]])
    BY <1>1, <1>2 DEF FaceOK
  <2> QED BY <1>0, <2>1, WriteChip
<1>4. Fields' = Fields /\ TrueTime' = TrueTime /\ dump' = dump
  BY <1>0 DEF Fields, TrueTime
<1>5. Agree(Chip', dump, at)
  <2>1. ASSUME NEW i \in 1 .. at
        PROVE  Chip'[Fields[i]] = dump[Fields[i]]
    <3>1. CASE i = at
      BY <1>1, <1>3, <3>1
    <3>2. CASE i # at
      <4>1. i \in 1 .. at - 1 /\ i \in 1 .. Len(Fields)
        BY <1>1, <3>2
      <4> QED BY <1>1, <1>2, <1>3, <3>2, <4>1 DEF Agree
    <3> QED BY <3>1, <3>2
  <2> QED BY <2>1 DEF Agree
<1>6. ChipOK'
  BY <1>3 DEF ChipOK
<1>7. Bounded'
  BY <1>0 DEF RtcInv, Bounded
<1>8. Flags'
  BY <1>0, Zenon DEF RtcInv, Flags
<1>9. CASE at < Len(Fields) /\ at' = at + 1 /\ phase' = phase
  <2>1. Control'
    BY <1>0, <1>1, <1>4, <1>9 DEF RtcInv, Control
  <2>2. Chip'["sec"] = Chip["sec"]
    BY <1>1, <1>3, <1>9 DEF AllFields
  <2>3. Agree(Chip, dump, at - 1)'
    <3>1. at' - 1 = at
      BY <1>1, <1>9
    <3> QED BY <1>4, <1>5, <3>1 DEF Agree
  <2>4. Minute'
    BY <1>0, <1>2, <1>9, <2>2, <2>3 DEF Minute
  <2>5. Copies' /\ Untouched' /\ Dated' /\ Timed'
    BY <1>0, <1>4, <1>9 DEF RtcInv, Copies, Untouched, Dated, Gain, Timed, Control
  <2> QED BY <1>6, <1>7, <1>8, <2>1, <2>4, <2>5 DEF RtcInv
<1>10. CASE at = Len(Fields) /\ at' = 1 /\ phase' = "recheck"
  <2>1. Control'
    BY <1>0, <1>1, <1>4, <1>10 DEF RtcInv, Control
  <2>2. Chip'["sec"] = dump["sec"] /\ dump["sec"] \in Nat
    BY <1>1, <1>2, <1>3, <1>10, FaceTypes DEF AllFields
  <2>3. Late' = 0
    BY <1>4, <2>2 DEF Late
  <2>4. Agree(Chip, dump, Len(Fields))'
    BY <1>4, <1>5, <1>10 DEF Agree
  <2>5. Minute'
    BY <1>0, <1>10, <2>3, <2>4, PassedFacts DEF Minute
  <2>6. Copies' /\ Untouched' /\ Dated' /\ Timed'
    BY <1>0, <1>4, <1>10 DEF RtcInv, Copies, Untouched, Dated, Gain, Timed, Control
  <2> QED BY <1>6, <1>7, <1>8, <2>1, <2>5, <2>6 DEF RtcInv
<1> QED
  BY <1>0, <1>9, <1>10, Advances

\* The register is read into what was got.
LEMMA NowOK ==
  ASSUME RtcInv
  PROVE  PartOK(Now) /\ Now[Fields[at]] = Chip[Fields[at]]
<1> DEFINE f == Fields[at]
<1>1. f \in AllFields /\ FaceOK(Chip) /\ Got(f) = Chip[f] /\ PartOK(got)
  BY FieldAt, ChipFacts DEF RtcInv, Copies
<1>2. InRange(f, Chip[f])
  BY <1>1 DEF FaceOK
<1>3. Now = With(got, f, Got(f))
  BY DEF Now, With
<1> HIDE DEF f
<1>4. PartOK(Now) /\ Now[f] = Chip[f]
  BY <1>1, <1>2, <1>3, PartRead
<1> QED
  BY <1>4 DEF f

LEMMA CheckStep ==
  ASSUME RtcInv, Check
  PROVE  RtcInv'
<1>0. /\ phase = "check" /\ Advance("restore") /\ got' = Now
      /\ UNCHANGED <<build, regs, day, second, started, clockTested, rtcError, began, passed, failures, torn, spoilt>>
  BY DEF Check, chipVars, trueVars, flagVars, pastVars
<1>1. PICK elapsed \in Elapsed : dump' = IF at = Len(Fields) THEN Restored(elapsed) ELSE dump
  BY DEF Check
<1>2. at \in 1 .. Len(Fields) /\ Len(Fields) \in Nat
  BY FieldAt
<1>3. Chip' = Chip /\ Fields' = Fields /\ TrueTime' = TrueTime
  BY <1>0, ChipAfter DEF Fields, TrueTime
<1>4. FaceOK(dump) /\ Chip["sec"] <= passed - began /\ PartOK(got')
  BY <1>0, NowOK DEF RtcInv, Copies, Minute
<1>5. elapsed \in Nat /\ elapsed <= passed - began /\ elapsed < 60
  <2>1. passed <= began + TestTicks
    BY <1>0 DEF RtcInv, Control
  <2> QED BY <2>1, Constants, PassedFacts DEF Elapsed
<1>6. ChipOK'
  BY <1>0, <1>3 DEF RtcInv, ChipOK
<1>7. Bounded'
  BY <1>0 DEF RtcInv, Bounded
<1>8. Flags'
  BY <1>0, Zenon DEF RtcInv, Flags
<1>9. CASE at < Len(Fields) /\ at' = at + 1 /\ phase' = phase
  <2>1. Control'
    BY <1>0, <1>2, <1>3, <1>9 DEF RtcInv, Control
  <2>2. dump' = dump
    BY <1>1, <1>2, <1>9
  <2>3. Copies' /\ Minute'
    BY <1>0, <1>3, <1>4, <1>9, <2>2 DEF RtcInv, Copies, Minute
  <2>4. Untouched' /\ Dated' /\ Timed'
    BY <1>0, <1>3, <1>9, <2>2 DEF RtcInv, Untouched, Dated, Gain, Timed, Control
  <2> QED BY <1>6, <1>7, <1>8, <2>1, <2>3, <2>4 DEF RtcInv
<1>10. CASE at = Len(Fields) /\ at' = 1 /\ phase' = "restore"
  <2>1. Control'
    BY <1>0, <1>2, <1>3, <1>10 DEF RtcInv, Control
  <2>2. dump' = Restored(elapsed)
    BY <1>1, <1>10
  <2>3. FaceOK(dump')
    BY <1>4, <1>5, <2>2, RestoredFace
  <2>4. TimeOf(dump) \in Int /\ TimeOf(dump') \in Int
    BY <1>4, <2>3, FaceTypes
  <2>5. PartOK(dump')
    BY <2>3, Zenon DEF FaceOK, PartOK
  <2>6. Copies'
    BY <1>0, <1>4, <1>10, <2>3, <2>5 DEF Copies
  <2>7. Agree(Chip, dump, at - 1)'
    BY <1>10 DEF Agree
  <2>8. Minute'
    BY <1>0, <1>3, <1>4, <1>10, <2>7 DEF Minute
  <2>9. Untouched'
    BY <1>0, <1>10 DEF RtcInv, Untouched, Control
  <2>10. ASSUME ~spoilt
         PROVE  ValidFace(dump') /\ TimeOf(dump') = TimeOf(dump) + elapsed /\ TimeOf(dump) <= TrueTime + Gain
    <3>1. ValidFace(dump) /\ TimeOf(dump) <= TrueTime + Gain
      BY <1>0, <2>10 DEF RtcInv, Dated
    <3>2. TrueTime < 36524 * 86400 + 1200
      BY Constants DEF RtcInv, Bounded, TrueTime
    <3>3. TimeOf(dump) + elapsed < 36525 * 86400
      <4>1. began <= 1200 /\ Gain + elapsed <= 61 * 1200
        BY <1>5, Constants, PassedFacts DEF Gain
      <4>2. Gain \in Int
        BY PassedFacts DEF Gain
      <4> QED BY <1>5, <2>4, <4>2, <3>1, <3>2, <4>1, TimeFacts, PassedFacts
    <3> QED BY <1>4, <1>5, <2>2, <3>1, <3>3, RestoredFace
  <2>11. Dated'
    <3>1. ASSUME ~spoilt
          PROVE  ValidFace(dump') /\ TimeOf(dump') <= TrueTime + 61 * passed
      <4>1. Gain \in Int /\ Gain + elapsed <= 61 * passed
        BY <1>5, PassedFacts DEF Gain
      <4> QED BY <1>5, <2>4, <2>10, <3>1, <4>1, TimeFacts, PassedFacts
    <3> QED BY <1>0, <1>3, <1>10, <3>1 DEF Dated
  <2>12. Timed'
    <3>1. ~spoilt /\ ~torn => TrueTime <= TimeOf(dump) + passed /\ TimeOf(dump) <= TrueTime + began
      BY <1>0 DEF RtcInv, Timed
    <3>2. ~spoilt /\ ~torn => TrueTime <= TimeOf(dump') + passed /\ TimeOf(dump') <= TrueTime + passed
      BY <1>5, <2>4, <2>10, <3>1, TimeFacts, PassedFacts
    <3> QED BY <1>0, <1>3, <1>10, <3>2 DEF Timed
  <2> QED BY <1>6, <1>7, <1>8, <2>1, <2>6, <2>8, <2>9, <2>11, <2>12 DEF RtcInv
<1> QED
  BY <1>0, <1>9, <1>10, Advances

LEMMA RecheckStep ==
  ASSUME RtcInv, Recheck
  PROVE  RtcInv'
<1>0. /\ phase = "recheck" /\ Advance("ram") /\ got' = Now /\ ~Differs(dump)
      /\ UNCHANGED <<build, regs, day, second, started, dump, began, passed, failures, torn, spoilt>>
  BY DEF Recheck, chipVars, trueVars, pastVars
<1>1. clockTested' \in BOOLEAN /\ rtcError' \in BOOLEAN
  BY DEF Recheck
<1>2. at \in 1 .. Len(Fields) /\ Len(Fields) \in Nat /\ (Fields[at] = "sec" <=> at = Len(Fields))
  BY FieldAt
<1>3. Chip' = Chip /\ Fields' = Fields /\ TrueTime' = TrueTime
  BY <1>0, ChipAfter DEF Fields, TrueTime
<1>4. FaceOK(dump) /\ PartOK(got')
  BY <1>0, NowOK DEF RtcInv, Copies
<1>5. Late <= passed - began /\ (Late = 0 => Agree(Chip, dump, Len(Fields)))
  BY <1>0 DEF RtcInv, Minute
<1>6. ChipOK'
  BY <1>0, <1>3 DEF RtcInv, ChipOK
<1>7. Bounded'
  BY <1>0 DEF RtcInv, Bounded
<1>8. Flags'
  BY <1>0, <1>1, Zenon DEF RtcInv, Flags
<1>9. Copies'
  BY <1>0, <1>3, <1>4 DEF RtcInv, Copies, Advance, Go
<1>10. CASE at < Len(Fields) /\ at' = at + 1 /\ phase' = phase
  <2>1. Control'
    BY <1>0, <1>2, <1>3, <1>10 DEF RtcInv, Control
  <2>2. Late' = Late /\ Agree(Chip, dump, Len(Fields))' = Agree(Chip, dump, Len(Fields))
    BY <1>0, <1>3 DEF Late, Agree
  <2>3. Minute'
    BY <1>0, <1>5, <1>10, <2>2 DEF Minute
  <2>4. Untouched' /\ Dated' /\ Timed'
    BY <1>0, <1>3, <1>10 DEF RtcInv, Untouched, Dated, Timed, Control
  <2> QED BY <1>6, <1>7, <1>8, <1>9, <2>1, <2>3, <2>4 DEF RtcInv
<1>11. CASE at = Len(Fields) /\ at' = 1 /\ phase' = "ram"
  <2>1. Control'
    BY <1>0, <1>2, <1>3, <1>11 DEF RtcInv, Control
  <2>2. Chip["sec"] = dump["sec"]
    <3>1. Now["sec"] = dump["sec"]
      BY <1>0, <1>2, <1>11 DEF Differs
    <3>2. Now["sec"] = Chip["sec"]
      BY <1>2, <1>11, NowOK
    <3> QED BY <3>1, <3>2
  <2>3. Late = 0
    BY <2>2, TimeFacts DEF Late
  <2>4. TimeOf(Chip) = TimeOf(dump) /\ (ValidFace(Chip) <=> ValidFace(dump))
    BY <1>5, <2>3, AgreeIsSameTime
  <2>5. Minute' /\ Untouched'
    BY <1>0, <1>11 DEF RtcInv, Minute, Untouched, Control
  <2>6. Dated' /\ Timed'
    BY <1>0, <1>3, <1>11, <2>4 DEF RtcInv, Dated, Timed
  <2> QED BY <1>6, <1>7, <1>8, <1>9, <2>1, <2>5, <2>6 DEF RtcInv
<1> QED
  BY <1>0, <1>10, <1>11, Advances

LEMMA FirstField ==
  ASSUME at' = 1, Fields' = Fields
  PROVE  at' \in Nat /\ 1 <= at' /\ at' <= Len(Fields')
BY FieldsOrder

\* Leaving the test, with the chip as it is
LEMMA LeaveStep ==
  ASSUME RtcInv, Leave, UNCHANGED <<build, regs, day, second, passed, torn>>,
         failures' = failures \/ (failures < MaxFailures /\ failures' = failures + 1),
         started' = started \/ (started' = FALSE /\ failures' # failures),
         phase \in {"idle", "begin"} => failures' # failures,
         clockTested' \in BOOLEAN, rtcError' \in BOOLEAN
  PROVE  RtcInv'
<1>0. /\ phase' = "idle" /\ at' = 1 /\ dump' = Blank /\ got' = Blank /\ began' = 0
      /\ (~spoilt' => ~spoilt /\ phase \in {"idle", "begin", "dump", "ram"})
  BY DEF Leave, Go, Writing, RtcInv, Control
<1>1. spoilt' \in BOOLEAN /\ started' \in BOOLEAN
  <2>1. spoilt \in BOOLEAN /\ started \in BOOLEAN
    BY DEF RtcInv, Flags
  <2>2. Writing \in BOOLEAN
    BY DEF Writing
  <2>3. spoilt' \in BOOLEAN
    BY <2>1, <2>2, Zenon DEF Leave
  <2> QED BY <2>1, <2>3
<1>2. Chip' = Chip /\ Fields' = Fields /\ TrueTime' = TrueTime
  BY ChipAfter DEF Fields, TrueTime
<1>3. ChipOK'
  BY <1>2 DEF RtcInv, ChipOK
<1>4. failures' \in Nat /\ failures' <= MaxFailures /\ (failures' # failures => failures' > 0) /\ failures' >= failures
  BY Constants DEF RtcInv, Bounded
<1>5. Bounded'
  BY <1>0, <1>4 DEF RtcInv, Bounded
<1>6. Flags'
  BY <1>1, Zenon DEF RtcInv, Flags
<1>7. Control'
  <2>2. spoilt' => started' \/ failures' > 0
    <3>1. CASE failures' # failures
      BY <1>4, <3>1
    <3>2. CASE failures' = failures
      <4>1. started' = started /\ phase \notin {"idle", "begin"}
        BY <3>2
      <4> QED BY <4>1 DEF RtcInv, Control
    <3> QED BY <3>1, <3>2
  <2>3. phase' \in {"idle", "begin", "dump", "save", "check", "restore", "recheck", "ram"} /\ phase' \in {"idle", "begin"}
    BY <1>0
  <2>4. at' \in Nat /\ 1 <= at' /\ at' <= Len(Fields')
    <3>1. at' = 1 /\ Fields' = Fields
      BY <1>0, <1>2, Zenon
    <3> QED BY <3>1, FirstField, Zenon
  <2>5. ~(phase' # "idle")
    BY <1>0
  <2> QED BY <2>2, <2>3, <2>4, <2>5, Zenon DEF Control
<1>8. Copies'
  BY <1>0, BlankAndTestDate DEF Copies
<1>9. Minute'
  BY <1>0 DEF Minute
<1>10. Untouched'
  <2>1. started' \/ failures' > 0
    <3>1. CASE failures' # failures
      BY <1>4, <3>1
    <3>2. CASE failures' = failures
      <4>1. started' = started /\ phase \notin {"idle", "begin"}
        BY <3>2
      <4> QED BY <4>1 DEF RtcInv, Control
    <3> QED BY <3>1, <3>2
  <2> QED BY <1>4, <2>1 DEF Untouched
<1>11. Dated'
  BY <1>0, <1>2 DEF RtcInv, Dated
<1>12. ASSUME ~spoilt, ~torn, phase \in {"idle", "begin", "dump", "ram"}
       PROVE  TrueTime <= TimeOf(Chip) + passed /\ TimeOf(Chip) <= TrueTime + passed
  BY <1>12 DEF RtcInv, Timed
<1>13. Timed'
  BY <1>0, <1>2, <1>12 DEF Timed
<1> QED
  BY <1>3, <1>5, <1>6, <1>7, <1>8, <1>9, <1>10, <1>11, <1>13 DEF RtcInv

LEMMA MismatchStep ==
  ASSUME RtcInv, Mismatch
  PROVE  RtcInv'
<1>1. /\ Leave /\ UNCHANGED <<build, regs, day, second, passed, torn>> /\ failures' = failures /\ started' = started
      /\ phase \notin {"idle", "begin"}
  BY DEF Mismatch, DoError, chipVars, trueVars
<1>2. clockTested' \in BOOLEAN /\ rtcError' \in BOOLEAN
  BY DEF RtcInv, Flags, Mismatch, DoError
<1> QED
  BY <1>1, <1>2, LeaveStep

LEMMA TestRamStep ==
  ASSUME RtcInv, TestRam
  PROVE  RtcInv'
<1>1. /\ Leave /\ UNCHANGED <<build, regs, day, second, passed, torn>> /\ failures' = failures /\ started' = started
      /\ phase \notin {"idle", "begin"}
  BY DEF TestRam, chipVars, trueVars, flagVars
<1>2. clockTested' \in BOOLEAN /\ rtcError' \in BOOLEAN
  BY DEF RtcInv, Flags, TestRam, flagVars
<1> QED
  BY <1>1, <1>2, LeaveStep

LEMMA AccessFailsStep ==
  ASSUME RtcInv, AccessFails
  PROVE  RtcInv'
<1>1. /\ Leave /\ UNCHANGED <<build, regs, day, second, passed, torn>> /\ started' = started
      /\ phase \notin {"idle", "begin"} /\ failures < MaxFailures /\ failures' = failures + 1
  BY DEF AccessFails, DoError, Fails, chipVars, trueVars
<1>2. clockTested' \in BOOLEAN /\ rtcError' \in BOOLEAN
  BY DEF RtcInv, Flags, AccessFails, DoError
<1> QED
  BY <1>1, <1>2, LeaveStep

LEMMA ResetStep ==
  ASSUME RtcInv, Reset
  PROVE  RtcInv'
<1>1. /\ Leave /\ UNCHANGED <<build, regs, day, second, passed, torn>> /\ started' = FALSE /\ started
      /\ failures < MaxFailures /\ failures' = failures + 1 /\ clockTested' = FALSE /\ rtcError' = FALSE
  BY DEF Reset, Fails, chipVars, trueVars
<1>2. failures' # failures
  BY <1>1 DEF RtcInv, Bounded
<1> QED
  BY <1>1, <1>2, LeaveStep

LEMMA BeginFailsStep ==
  ASSUME RtcInv, BeginFails
  PROVE  RtcInv'
<1>0. /\ Leave /\ UNCHANGED <<build, day, second, started, clockTested, passed, torn>>
      /\ failures < MaxFailures /\ failures' = failures + 1
  BY DEF BeginFails, Fails, trueVars
<1>1. regs' = regs \/ (phase = "begin" /\ regs' = Put("sec", got["sec"]))
  BY DEF BeginFails
<1>2. failures' # failures /\ failures' \in Nat /\ failures' > 0 /\ failures' <= MaxFailures
  BY <1>0, Constants DEF RtcInv, Bounded
<1>3. started \in BOOLEAN /\ clockTested \in BOOLEAN /\ rtcError \in BOOLEAN /\ spoilt \in BOOLEAN /\ torn \in BOOLEAN
  BY DEF RtcInv, Flags
<1>4. clockTested' \in BOOLEAN /\ rtcError' \in BOOLEAN
  <2>1. rtcError' \in {rtcError, TRUE}
    BY DEF BeginFails
  <2> QED BY <1>0, <1>3, <2>1
<1>5. CASE regs' = regs
  BY <1>0, <1>2, <1>4, <1>5, LeaveStep
<1>6. CASE phase = "begin" /\ regs' = Put("sec", got["sec"])
  <2>0. /\ phase' = "idle" /\ at' = 1 /\ dump' = Blank /\ got' = Blank /\ began' = 0
        /\ spoilt' = (spoilt \/ Writing)
    BY <1>0 DEF Leave, Go
  <2>1. ~Writing
    BY <1>6 DEF Writing
  <2> DEFINE v == got["sec"]
             c == With(Chip, "sec", v)
  <2>2. regs' = Written(regs, "sec", v)
    BY <1>6 DEF Put, Written
  <2>3. v \in Nat /\ v <= 59 /\ FaceOK(Chip) /\ regs = Coded(Chip)
    BY GotFacts, ChipFacts
  <2> HIDE DEF v
  <2>4. /\ FaceOK(c) /\ (ValidFace(c) <=> ValidFace(Chip)) /\ TimeOf(c) = TimeOf(Chip) + (v - Chip["sec"])
        /\ regs' = Coded(c)
    BY <2>2, <2>3, SecondWritten
  <2> HIDE DEF c
  <2>5. Chip' = c /\ Fields' = Fields /\ TrueTime' = TrueTime
    BY <1>0, <2>4, ChipAfter DEF Fields, TrueTime
  <2>6. ChipOK'
    BY <2>4, <2>5 DEF ChipOK
  <2>7. Bounded'
    BY <1>0, <1>2, <2>0 DEF RtcInv, Bounded
  <2>8. spoilt' \in BOOLEAN /\ (spoilt' => spoilt) /\ (spoilt => spoilt')
    BY <1>3, <2>0, <2>1
  <2>9. Flags'
    BY <1>0, <1>4, <2>8, Zenon DEF RtcInv, Flags
  <2>10. Control'
    <3>1. Len(Fields) \in {6, 7}
      BY FieldsOrder
    <3>2. Fields' = Fields /\ at' = 1
      BY <2>0, <2>5
    <3>3. at' \in Nat /\ 1 <= at' /\ at' <= Len(Fields')
      BY <3>1, <3>2
    <3>4. phase' = "idle" /\ failures' > 0
      BY <1>2, <2>0
    <3> QED BY <3>3, <3>4, Zenon DEF Control
  <2>11. Copies'
    BY <2>0, BlankAndTestDate DEF Copies
  <2>12. Minute' /\ Untouched'
    BY <1>2, <2>0 DEF Minute, Untouched
  <2>13. Dated'
    <3>1. ASSUME ~spoilt
          PROVE  ValidFace(c) /\ TimeOf(c) <= TrueTime + Gain
      BY <1>6, <2>4, <3>1 DEF RtcInv, Dated, v
    <3>2. Gain \in Int /\ Gain <= 61 * passed /\ TimeOf(c) \in Int /\ TrueTime \in Int /\ passed \in Nat
      BY <2>4, FaceTypes, TimeFacts, PassedFacts DEF Gain
    <3>3. ASSUME ~spoilt
          PROVE  ValidFace(c) /\ TimeOf(c) <= TrueTime + 61 * passed
      BY <3>1, <3>2, <3>3
    <3> QED BY <1>0, <2>0, <2>5, <2>8, <3>3 DEF Dated
  <2>14. ~spoilt /\ ~torn => TrueTime <= TimeOf(c) + passed /\ TimeOf(c) <= TrueTime + passed
    BY <1>6, <2>3, <2>4, TimeFacts, PassedFacts DEF RtcInv, Timed, v
  <2>15. Timed'
    BY <1>0, <2>0, <2>5, <2>8, <2>14 DEF Timed
  <2> QED BY <2>6, <2>7, <2>9, <2>10, <2>11, <2>12, <2>13, <2>15 DEF RtcInv
<1> QED
  BY <1>1, <1>5, <1>6

Seconds(n, s) == n * 86400 + s

LEMMA SameDay ==
  ASSUME NEW a \in Int, NEW b \in Nat, NEW c \in Int, NEW d \in Nat, b < 86400, d < 86400,
         Seconds(a, b) = Seconds(c, d)
  PROVE  a = c /\ b = d
BY DEF Seconds

\* The chip goes through the days with the true time.
LEMMA DayPassesStep ==
  ASSUME RtcInv, DayPasses
  PROVE  RtcInv'
<1>0. /\ phase = "idle" /\ ~started /\ failures = 0 /\ passed = 0 /\ day < LastDay /\ day' = day + 1
      /\ UNCHANGED <<build, second, started, clockTested, rtcError, phase, at, dump, got, began, passed, failures, torn, spoilt>>
  BY DEF DayPasses, Idle, flagVars, dataVars, pastVars
<1>1. regs' = Registers(NextDate(ChipDate), ChipSecond, regs.cent)
  BY DEF DayPasses
<1>2. ValidFace(Chip) /\ TimeOf(Chip) = TrueTime /\ FaceOK(Chip) /\ regs = Coded(Chip)
  BY <1>0, ChipFacts DEF RtcInv, Untouched
<1>3. day \in Nat /\ second \in Nat /\ second < 86400
  BY DEF RtcInv, Bounded
<1>4. DayOf(Chip) = day /\ SecondOf(Chip) = second
  <2>1. Seconds(DayOf(Chip), SecondOf(Chip)) = Seconds(day, second)
    BY <1>2 DEF TimeOf, TrueTime, Seconds
  <2>2. DayOf(Chip) \in Int /\ SecondOf(Chip) \in Nat /\ SecondOf(Chip) < 86400
    BY TimeFacts
  <2> QED BY <1>3, <2>1, <2>2, SameDay
<1> DEFINE y == Chip["year"]
           m == Chip["month"]
           a == Chip["date"]
           n == Chip["cent"]
<1>5. ChipDate = Date(y, m, a) /\ ChipSecond = second /\ regs.cent = n
  BY <1>2, <1>4, ChipShows
<1>6. y \in Nat /\ m \in Nat /\ a \in Nat /\ n \in Nat /\ n <= 255
  BY <1>2, FaceTypes
<1>7. Valid(y, m, a) /\ DayNumber(y, m, a) = day
  BY <1>2, <1>4 DEF ValidFace, DayOf
<1> HIDE DEF y, m, a, n
<1>8. DayNumber(y, m, a) < 36524
  BY <1>0, <1>3, <1>7, Constants
<1>9. PICK y2 \in Nat, m2 \in Nat, a2 \in Nat :
        NextDate(Date(y, m, a)) = Date(y2, m2, a2) /\ Valid(y2, m2, a2) /\ DayNumber(y2, m2, a2) = DayNumber(y, m, a) + 1
  BY <1>6, <1>7, <1>8, NextDay
<1> DEFINE c == Face(y2, m2, a2, second, n)
<1>10. regs' = Coded(c)
  BY <1>1, <1>3, <1>5, <1>9, RegistersFace
<1>11. y2 <= 100 /\ 1 <= m2 /\ m2 <= 12 /\ 1 <= a2 /\ a2 <= 31
  <2>1. DaysInMonth(y2, m2) \in 28 .. 31
    BY MonthStartStep
  <2> QED BY <1>9, <2>1 DEF Valid, Exists
<1>12. FaceOK(c) /\ SecondOf(c) = second
  BY <1>3, <1>6, <1>11, FaceIs
<1>13. c["year"] = y2 /\ c["month"] = m2 /\ c["date"] = a2
  BY DEF Face, AllFields
<1> HIDE DEF c
<1>14. ValidFace(c) /\ DayOf(c) = day + 1
  BY <1>7, <1>9, <1>13 DEF ValidFace, DayOf
<1>15. Chip' = c /\ Fields' = Fields
  BY <1>0, <1>10, <1>12, ChipAfter DEF Fields
<1>16. TimeOf(c) = TrueTime' /\ TrueTime' = TrueTime + 86400
  BY <1>0, <1>3, <1>12, <1>14 DEF TimeOf, TrueTime
<1>17. ChipOK'
  BY <1>10, <1>12, <1>15 DEF ChipOK
<1>18. Bounded'
  BY <1>0, <1>3, Constants DEF RtcInv, Bounded
<1>19. Flags'
  BY <1>0, Zenon DEF RtcInv, Flags
<1>20. Control' /\ Copies' /\ Minute'
  BY <1>0, <1>15 DEF RtcInv, Control, Copies, Minute
<1>21. Untouched'
  BY <1>0, <1>14, <1>15, <1>16 DEF Untouched
<1>22. TrueTime' \in Int
  BY <1>16, TimeFacts
<1>23. Dated' /\ Timed'
  BY <1>0, <1>14, <1>15, <1>16, <1>22 DEF Dated, Timed
<1> QED
  BY <1>17, <1>18, <1>19, <1>20, <1>21, <1>23 DEF RtcInv

\* The registers that are dumped are the first ones.
LEMMA DumpedFields ==
  ASSUME RtcInv
  PROVE  \E k \in 0 .. 5 :
           /\ (IsDumped("year") <=> k >= 1) /\ (IsDumped("month") <=> k >= 2) /\ (IsDumped("date") <=> k >= 3)
           /\ (IsDumped("hour") <=> k >= 4) /\ (IsDumped("min") <=> k >= 5)
<1>1. at \in 1 .. Len(Fields) /\ Len(Fields) \in Nat
  BY FieldAt
<1>2. ASSUME NEW p \in 1 .. Len(Fields)
      PROVE  IsDumped(Fields[p]) <=> p < at
  <2>1. p < at => p \in 1 .. at - 1
    BY <1>1
  <2>2. \A i \in 1 .. at - 1 : i \in 1 .. Len(Fields) /\ i < at
    BY <1>1
  <2>3. \A i \in 1 .. Len(Fields) : Fields[i] = Fields[p] => i = p
    BY FieldsOrder
  <2> QED BY <2>1, <2>2, <2>3 DEF IsDumped
<1>3. CASE build = "DS1307"
  <2>1. Fields = <<"cent", "year", "month", "date", "hour", "min", "sec">>
    BY <1>3 DEF Fields
  <2>2. /\ Len(Fields) = 7 /\ Fields[2] = "year" /\ Fields[3] = "month" /\ Fields[4] = "date"
        /\ Fields[5] = "hour" /\ Fields[6] = "min"
    BY <2>1
  <2>3. /\ (IsDumped("year") <=> 2 < at) /\ (IsDumped("month") <=> 3 < at) /\ (IsDumped("date") <=> 4 < at)
        /\ (IsDumped("hour") <=> 5 < at) /\ (IsDumped("min") <=> 6 < at)
    <3>1. \A p \in {2, 3, 4, 5, 6} : p \in 1 .. Len(Fields)
      BY <2>2
    <3> QED BY <1>2, <2>2, <3>1
  <2> DEFINE k == IF at = 1 THEN 0 ELSE at - 2
  <2>4. k \in 0 .. 5 /\ (2 < at <=> k >= 1) /\ (3 < at <=> k >= 2) /\ (4 < at <=> k >= 3) /\ (5 < at <=> k >= 4) /\ (6 < at <=> k >= 5)
    BY <1>1, <2>2
  <2> HIDE DEF k
  <2> QED BY <2>3, <2>4
<1>4. CASE build # "DS1307"
  <2>1. Fields = <<"year", "month", "date", "hour", "min", "sec">>
    BY <1>4 DEF Fields
  <2>2. /\ Len(Fields) = 6 /\ Fields[1] = "year" /\ Fields[2] = "month" /\ Fields[3] = "date"
        /\ Fields[4] = "hour" /\ Fields[5] = "min"
    BY <2>1
  <2>3. /\ (IsDumped("year") <=> 1 < at) /\ (IsDumped("month") <=> 2 < at) /\ (IsDumped("date") <=> 3 < at)
        /\ (IsDumped("hour") <=> 4 < at) /\ (IsDumped("min") <=> 5 < at)
    <3>1. \A p \in {1, 2, 3, 4, 5} : p \in 1 .. Len(Fields)
      BY <2>2
    <3> QED BY <1>2, <2>2, <3>1
  <2> DEFINE k == at - 1
  <2>4. k \in 0 .. 5 /\ (1 < at <=> k >= 1) /\ (2 < at <=> k >= 2) /\ (3 < at <=> k >= 3) /\ (4 < at <=> k >= 4) /\ (5 < at <=> k >= 5)
    BY <1>1, <2>2
  <2> HIDE DEF k
  <2> QED BY <2>3, <2>4
<1> QED
  BY <1>3, <1>4

LEMMA MixedOK ==
  ASSUME RtcInv, phase = "dump"
  PROVE  FaceOK(Mixed) /\ Mixed["sec"] = Chip["sec"] /\ ~IsDumped("sec")
<1>1. \A i \in 1 .. at - 1 : InRange(Fields[i], dump[Fields[i]])
  BY DEF RtcInv, Copies
<1>2. FaceOK(Chip)
  BY ChipFacts
<1>3. ASSUME NEW f \in AllFields
      PROVE  InRange(f, Mixed[f])
  <2>1. CASE IsDumped(f)
    BY <1>1, <2>1 DEF IsDumped, Mixed
  <2>2. CASE ~IsDumped(f)
    BY <1>2, <2>2 DEF FaceOK, Mixed
  <2> QED BY <2>1, <2>2
<1>4. Mixed = [f \in AllFields |-> Mixed[f]]
  BY DEF Mixed
<1>5. ~IsDumped("sec")
  <2>1. at \in 1 .. Len(Fields) /\ Len(Fields) \in Nat
    BY FieldAt
  <2>2. \A i \in 1 .. at - 1 : i \in 1 .. Len(Fields) /\ i # Len(Fields)
    BY <2>1
  <2> QED BY <2>2, FieldsOrder DEF IsDumped
<1>6. Mixed["sec"] = Chip["sec"]
  BY <1>5 DEF Mixed, AllFields
<1> QED
  BY <1>3, <1>4, <1>5, <1>6, Zenon DEF FaceOK

LEMMA TickIs ==
  ASSUME RtcInv, Tick
  PROVE  /\ phase # "idle" /\ passed < MaxTicks /\ passed' = passed + 1
         /\ passed < began + TestTicks
         /\ UNCHANGED <<build, started, clockTested, rtcError, phase, at, dump, got, began, failures, spoilt>>
         /\ Chip' = NextFace(Chip) /\ regs' = Coded(Chip') /\ FaceOK(Chip')
         /\ torn' = (torn \/ (Chip["sec"] = 59 /\ (phase = "begin" \/ (phase = "dump" /\ at > 1))))
         /\ second' = (second + 1) % 86400 /\ day' = day + ((second + 1) \div 86400)
<1>1. /\ phase # "idle" /\ passed < MaxTicks /\ passed' = passed + 1
      /\ passed < began + TestTicks
  BY DEF Tick, Idle
<1>2. UNCHANGED <<build, started, clockTested, rtcError, phase, at, dump, got, began, failures, spoilt>>
  BY DEF Tick, flagVars, dataVars
<1>3. regs' = Ticked /\ FaceOK(Chip) /\ regs = Coded(Chip) /\ Decode(regs.sec) = Chip["sec"]
  BY ChipFacts DEF Tick
<1>4. regs' = Coded(NextFace(Chip)) /\ FaceOK(NextFace(Chip))
  BY <1>3, ChipTicks, NextFaceIs
<1>5. Chip' = NextFace(Chip)
  BY <1>4, ChipAfter
<1>6. torn' = (torn \/ (Chip["sec"] = 59 /\ (phase = "begin" \/ (phase = "dump" /\ at > 1))))
  BY <1>3 DEF Tick
<1>7. second' = (second + 1) % 86400 /\ day' = day + ((second + 1) \div 86400)
  BY DEF Tick
<1> QED
  BY <1>1, <1>2, <1>4, <1>5, <1>6, <1>7

LEMMA TickFrame ==
  ASSUME RtcInv, Tick
  PROVE  /\ passed' = passed + 1 /\ phase # "idle" /\ passed - began < 59
         /\ UNCHANGED <<phase, at, began, dump, got, spoilt>> /\ Fields' = Fields
<1>1. /\ passed' = passed + 1 /\ phase # "idle" /\ passed < began + TestTicks
      /\ UNCHANGED <<build, phase, at, began, dump, got, spoilt>>
  BY DEF Tick, Idle, dataVars
<1>2. passed - began < 59
  BY <1>1, PassedFacts, Constants
<1>3. Fields' = Fields
  BY <1>1 DEF Fields
<1> QED
  BY <1>1, <1>2, <1>3

LEMMA TickTorn ==
  ASSUME RtcInv, Tick
  PROVE  /\ torn => torn'
         /\ Chip["sec"] = 59 /\ phase = "begin" => torn'
         /\ Chip["sec"] = 59 /\ phase = "dump" /\ at > 1 => torn'
<1>1. torn' = (torn \/ (Decode(regs.sec) = 59 /\ (phase = "begin" \/ (phase = "dump" /\ at > 1))))
  BY DEF Tick
<1>2. Decode(regs.sec) = Chip["sec"]
  BY ChipFacts
<1> QED
  BY <1>1, <1>2, Zenon

LEMMA TickSecond ==
  ASSUME RtcInv, Tick
  PROVE  /\ Chip["sec"] \in Nat /\ Chip["sec"] <= 59
         /\ Chip["sec"] = 59 => Chip'["sec"] = 0
         /\ Chip["sec"] # 59 => Chip'["sec"] = Chip["sec"] + 1
<1>1. Chip["sec"] \in Nat /\ Chip["sec"] <= 59
  BY TimeFacts
<1>2. NextFace(Chip)["sec"] = (Chip["sec"] + 1) % 60
  BY ChipFacts, NextFaceIs
<1>3. Chip' = NextFace(Chip)
  BY TickIs
<1>4. Chip'["sec"] = (Chip["sec"] + 1) % 60
  BY <1>2, <1>3
<1> QED
  BY <1>1, <1>4

LEMMA TickRest ==
  ASSUME RtcInv, Tick, Chip["sec"] # 59
  PROVE  \A f \in AllFields \ {"sec"} : Chip'[f] = Chip[f]
<1>1. \A f \in AllFields \ {"sec"} : NextFace(Chip)[f] = Chip[f]
  BY ChipFacts, NextFaceIs
<1>2. Chip' = NextFace(Chip)
  BY TickIs
<1> QED
  BY <1>1, <1>2

\* Seconds count on round the minute.
LEMMA SecondsLate ==
  ASSUME NEW s \in Nat, s <= 59, NEW d \in Nat, d <= 59, NEW t,
         t = (IF s = 59 THEN 0 ELSE s + 1), ((s - d) + 60) % 60 < 59
  PROVE  ((t - d) + 60) % 60 = (((s - d) + 60) % 60) + 1
<1>1. CASE s < d
  <2>1. ((s - d) + 60) % 60 = (s - d) + 60
    BY <1>1
  <2>2. t = s + 1 /\ (t - d) + 60 <= 60
    BY <1>1
  <2> QED BY <1>1, <2>1, <2>2
<1>2. CASE s >= d /\ s # 59
  <2>1. ((s - d) + 60) % 60 = s - d
    BY <1>2
  <2>2. ((t - d) + 60) % 60 = t - d
    BY <1>2
  <2> QED BY <1>2, <2>1, <2>2
<1>3. CASE s = 59
  <2>1. ((s - d) + 60) % 60 = s - d
    BY <1>3
  <2>2. d > 0
    BY <1>3, <2>1
  <2>3. ((t - d) + 60) % 60 = 60 - d
    BY <1>3, <2>2
  <2> QED BY <1>3, <2>1, <2>3
<1> QED
  BY <1>1, <1>2, <1>3

LEMMA TickTime ==
  ASSUME RtcInv, Tick
  PROVE  Bounded' /\ TrueTime' = TrueTime + 1
<1>1. /\ day \in Nat /\ second \in Nat /\ second < 86400 /\ passed \in Nat /\ passed < 1200
      /\ day <= LastDay \/ (day = LastDay + 1 /\ second < passed)
  <2>1. passed < MaxTicks
    BY TickIs
  <2> QED BY <2>1, Constants DEF RtcInv, Bounded
<1>2. second' = (second + 1) % 86400 /\ day' = day + ((second + 1) \div 86400) /\ passed' = passed + 1
  BY TickIs
<1>3. CASE second = 86399
  <2>1. second' = 0 /\ day' = day + 1
    BY <1>2, <1>3
  <2>2. day <= LastDay
    BY <1>1, <1>3
  <2>3. /\ day' \in Nat /\ second' \in Nat /\ second' < 86400
        /\ day' <= LastDay \/ (day' = LastDay + 1 /\ second' < passed')
    BY <1>1, <1>2, <2>1, <2>2, Constants
  <2>4. TrueTime' = TrueTime + 1
    BY <1>1, <1>3, <2>1 DEF TrueTime
  <2>5. Bounded'
    BY <2>3, TickIs, Constants DEF RtcInv, Bounded
  <2> QED BY <2>4, <2>5
<1>4. CASE second # 86399
  <2>1. second' = second + 1 /\ day' = day
    BY <1>1, <1>2, <1>4
  <2>2. /\ day' \in Nat /\ second' \in Nat /\ second' < 86400
        /\ day' <= LastDay \/ (day' = LastDay + 1 /\ second' < passed')
    BY <1>1, <1>2, <1>4, <2>1, Constants
  <2>3. TrueTime' = TrueTime + 1
    BY <1>1, <2>1 DEF TrueTime
  <2>4. Bounded'
    BY <2>2, TickIs, Constants DEF RtcInv, Bounded
  <2> QED BY <2>3, <2>4
<1> QED
  BY <1>3, <1>4

\* A date on the chip goes on like the true time: the walk ends before the century.
LEMMA TickValid ==
  ASSUME RtcInv, Tick, ValidFace(Chip), TimeOf(Chip) <= TrueTime + 61 * passed
  PROVE  ValidFace(Chip') /\ TimeOf(Chip') = TimeOf(Chip) + 1 /\ (Chip["sec"] = 59 => Follows(Chip, Chip'))
<1>1. /\ day \in Nat /\ second \in Nat /\ second < 86400 /\ passed \in Nat /\ passed < 1200
      /\ day <= LastDay \/ (day = LastDay + 1 /\ second < passed)
  <2>1. passed < MaxTicks
    BY TickIs
  <2> QED BY <2>1, Constants DEF RtcInv, Bounded
<1>2. TrueTime < 36524 * 86400 + 1200
  BY <1>1, Constants DEF TrueTime
<1>3. SecondOf(Chip) = 86399 => DayOf(Chip) < 36524
  <2>1. TimeOf(Chip) = DayOf(Chip) * 86400 + SecondOf(Chip)
    BY DEF TimeOf
  <2> QED BY <1>1, <1>2, <2>1, TimeFacts
<1>4. FaceOK(Chip)
  BY ChipFacts
<1> QED
  BY <1>3, <1>4, NextFaceTime, TickIs

LEMMA TickControl ==
  ASSUME RtcInv, Tick
  PROVE  ChipOK' /\ Flags' /\ Control' /\ Copies' /\ Untouched'
<1>1. ChipOK'
  BY TickIs DEF ChipOK
<1>2. Flags'
  <2>1. torn' \in BOOLEAN
    BY TickIs DEF RtcInv, Flags
  <2>2. UNCHANGED <<build, started, clockTested, rtcError, spoilt>>
    BY TickIs
  <2> QED BY <2>1, <2>2, Zenon DEF RtcInv, Flags
<1>3. Fields' = Fields
  BY TickIs DEF Fields
<1>4. UNCHANGED <<phase, at, started, began, failures, spoilt, dump, got>>
  BY TickIs
<1>5. passed' <= began + TestTicks
  BY TickIs, PassedFacts, Constants
<1>6. Control'
  BY <1>3, <1>4, <1>5 DEF RtcInv, Control
<1>7. Copies'
  BY <1>3, <1>4 DEF RtcInv, Copies
<1>8. passed' # 0
  BY TickIs, PassedFacts
<1> QED
  BY <1>1, <1>2, <1>6, <1>7, <1>8 DEF Untouched

\* Until the minute ends the registers before the seconds stay.
LEMMA TickAgree ==
  ASSUME RtcInv, Tick, Chip["sec"] # 59, Agree(Chip, dump, at - 1)
  PROVE  Agree(Chip, dump, at - 1)'
<1>1. at \in 1 .. Len(Fields) /\ Len(Fields) \in Nat
  BY FieldAt
<1>2. \A f \in AllFields \ {"sec"} : Chip'[f] = Chip[f]
  BY TickRest
<1>3. Fields' = Fields /\ at' = at /\ dump' = dump
  BY TickFrame
<1>4. ASSUME NEW i \in 1 .. at - 1
      PROVE  Chip'[Fields[i]] = dump[Fields[i]]
  <2>1. i \in 1 .. Len(Fields) /\ i # Len(Fields)
    BY <1>1
  <2>2. Fields[i] \in AllFields \ {"sec"}
    BY <2>1, FieldsOrder
  <2> QED BY <1>2, <2>2 DEF Agree
<1> QED
  BY <1>3, <1>4 DEF Agree

LEMMA TickMinute ==
  ASSUME RtcInv, Tick
  PROVE  Minute'
<1>1. Chip["sec"] \in Nat /\ Chip["sec"] <= 59
  BY TickSecond
<1>2. /\ passed' = passed + 1 /\ passed \in Nat /\ began \in Nat /\ began <= passed
      /\ passed - began < 59
  BY TickFrame, PassedFacts
<1>3. UNCHANGED <<phase, at, began, dump>> /\ Fields' = Fields
  BY TickFrame
<1>4. Chip["sec"] # 59 => Chip'["sec"] = Chip["sec"] + 1
  BY TickSecond
<1>5. Chip["sec"] = 59 => Chip'["sec"] = 0
  BY TickSecond
<1>6. CASE phase = "dump"
  <2>1. Agree(Chip, dump, at - 1) \/ (torn /\ Chip["sec"] <= passed - began)
    BY <1>6 DEF RtcInv, Minute
  <2>2. torn => torn'
    BY TickTorn
  <2>3. CASE Chip["sec"] # 59
    <3>1. Agree(Chip, dump, at - 1) => Agree(Chip, dump, at - 1)'
      BY <2>3, TickAgree
    <3>2. Chip["sec"] <= passed - began => Chip'["sec"] <= passed' - began
      BY <1>1, <1>2, <1>4, <2>3
    <3>3. Agree(Chip, dump, at - 1)' \/ (torn' /\ Chip'["sec"] <= passed' - began)
      BY <2>1, <2>2, <3>1, <3>2
    <3> QED BY <1>3, <1>6, <3>3 DEF Minute
  <2>4. CASE Chip["sec"] = 59
    <3>1. Chip'["sec"] <= passed' - began
      BY <1>2, <1>5, <2>4
    <3>2. CASE at > 1
      <4>1. torn'
        BY <1>6, <2>4, <3>2, TickTorn
      <4> QED BY <1>3, <1>6, <3>1, <4>1 DEF Minute
    <3>3. CASE ~(at > 1)
      <4>1. at = 1
        BY <3>3, FieldAt
      <4>2. Agree(Chip, dump, at - 1)'
        BY <1>3, <4>1 DEF Agree
      <4> QED BY <1>3, <1>6, <4>2 DEF Minute
    <3> QED BY <3>2, <3>3
  <2> QED BY <2>3, <2>4
<1>7. CASE phase \in {"check", "restore"}
  <2>1. Chip["sec"] <= passed - began
    BY <1>7 DEF RtcInv, Minute
  <2>2. Chip["sec"] # 59
    BY <1>1, <1>2, <1>7, <2>1
  <2>3. Chip'["sec"] <= passed' - began
    BY <1>1, <1>2, <1>4, <2>1, <2>2
  <2>4. phase = "restore" => Agree(Chip, dump, at - 1)'
    BY <2>2, TickAgree DEF RtcInv, Minute
  <2> QED BY <1>3, <1>7, <2>3, <2>4 DEF Minute
<1>8. CASE phase = "recheck"
  <2>1. Late <= passed - began
    BY <1>8 DEF RtcInv, Minute
  <2>2. dump["sec"] \in Nat /\ dump["sec"] <= 59
    BY <1>8, FaceTypes DEF RtcInv, Copies
  <2>3. Late \in Nat /\ Late < 59
    BY <1>1, <1>2, <1>8, <2>1, <2>2 DEF Late
  <2>4. Late' = Late + 1
    <3>1. Late' = (Chip'["sec"] - dump["sec"] + 60) % 60
      BY <1>3 DEF Late
    <3>2. Chip'["sec"] = IF Chip["sec"] = 59 THEN 0 ELSE Chip["sec"] + 1
      BY <1>4, <1>5
    <3>3. Late = (Chip["sec"] - dump["sec"] + 60) % 60
      BY DEF Late
    <3> QED BY <1>1, <2>2, <2>3, <3>1, <3>2, <3>3, SecondsLate
  <2> QED BY <1>2, <1>3, <1>8, <2>1, <2>3, <2>4 DEF Minute
<1>9. CASE phase \notin {"dump", "check", "restore", "recheck"}
  BY <1>3, <1>9 DEF Minute
<1> QED
  BY <1>6, <1>7, <1>8, <1>9

\* What the dump will be is a date, and no later than the chip's.
LEMMA TickMixed ==
  ASSUME RtcInv, Tick, phase = "dump", ~spoilt
  PROVE  ValidFace(Mixed') /\ TimeOf(Mixed') <= TimeOf(Chip')
<1>1. /\ ValidFace(Chip) /\ TimeOf(Chip) <= TrueTime + 61 * passed
      /\ ValidFace(Mixed) /\ TimeOf(Mixed) <= TimeOf(Chip)
  BY DEF RtcInv, Dated
<1>2. ValidFace(Chip') /\ TimeOf(Chip') = TimeOf(Chip) + 1 /\ (Chip["sec"] = 59 => Follows(Chip, Chip'))
  BY <1>1, TickValid
<1>3. UNCHANGED <<at, dump>> /\ Fields' = Fields /\ (\A f \in AllFields : IsDumped(f)' = IsDumped(f))
  BY TickFrame DEF IsDumped
<1>4. Mixed' = [f \in AllFields |-> IF IsDumped(f) THEN dump[f] ELSE Chip'[f]]
  BY <1>3 DEF Mixed
<1>5. FaceOK(Mixed) /\ Mixed["sec"] = Chip["sec"] /\ ~IsDumped("sec")
  BY MixedOK
<1>6. Chip["sec"] \in Nat /\ Chip["sec"] <= 59 /\ TimeOf(Chip) \in Int /\ FaceOK(Chip) /\ FaceOK(Chip')
  BY TimeFacts, ChipFacts, TickIs
<1>7. CASE Chip["sec"] # 59
  <2>1. /\ \A f \in AllFields \ {"sec"} : Chip'[f] = Chip[f]
        /\ Chip'["sec"] = Chip["sec"] + 1
    BY <1>7, TickRest, TickSecond
  <2> DEFINE c == With(Mixed, "sec", Chip["sec"] + 1)
  <2>2. Chip["sec"] + 1 \in Nat /\ Chip["sec"] + 1 <= 59
    BY <1>6, <1>7
  <2>3. (ValidFace(c) <=> ValidFace(Mixed)) /\ TimeOf(c) = TimeOf(Mixed) + ((Chip["sec"] + 1) - Mixed["sec"])
    <3> DEFINE v == Chip["sec"] + 1
    <3>1. v \in Nat /\ v <= 59
      BY <2>2
    <3>2. c = With(Mixed, "sec", v)
      OBVIOUS
    <3> HIDE DEF c, v
    <3>3. (ValidFace(c) <=> ValidFace(Mixed)) /\ TimeOf(c) = TimeOf(Mixed) + (v - Mixed["sec"])
      BY <1>5, <3>1, <3>2, SecondWritten
    <3> QED BY <3>3 DEF v
  <2>4. \A f \in AllFields : Mixed'[f] = c[f]
    <3>1. \A f \in AllFields : c[f] = IF f = "sec" THEN Chip["sec"] + 1 ELSE Mixed[f]
      BY <1>5 DEF With, FaceOK
    <3> QED BY <1>4, <1>5, <2>1, <3>1 DEF Mixed
  <2> HIDE DEF c
  <2>5. TimeOf(Mixed') = TimeOf(c) /\ (ValidFace(Mixed') <=> ValidFace(c))
    BY <2>4, SameTime
  <2>6. TimeOf(Mixed) \in Int
    BY <1>5, FaceTypes
  <2> QED BY <1>1, <1>2, <1>5, <1>6, <2>3, <2>5, <2>6
<1>8. CASE Chip["sec"] = 59
  <2>1. Agree(Chip, dump, at - 1)
    <3>1. passed - began < 59
      BY TickFrame
    <3>2. ~(Chip["sec"] <= passed - began)
      BY <1>8, <3>1, PassedFacts
    <3> QED BY <3>2 DEF RtcInv, Minute
  <2>2. \A f \in AllFields : Mixed'[f] = IF IsDumped(f) THEN Chip[f] ELSE Chip'[f]
    BY <1>4, <2>1 DEF IsDumped, Agree
  <2>3. Chip'["sec"] = 0
    BY <1>8, TickSecond
  <2>4. FaceOK(Mixed')
    <3>1. \A f \in AllFields : InRange(f, Mixed'[f])
      BY <1>6, <2>2 DEF FaceOK
    <3>2. Mixed' = [f \in AllFields |-> Mixed'[f]]
      BY <1>4
    <3> QED BY <3>1, <3>2, Zenon DEF FaceOK
  <2>5. PICK k \in 0 .. 5 :
           /\ (IsDumped("year") <=> k >= 1) /\ (IsDumped("month") <=> k >= 2) /\ (IsDumped("date") <=> k >= 3)
           /\ (IsDumped("hour") <=> k >= 4) /\ (IsDumped("min") <=> k >= 5)
    BY DumpedFields
  <2>6. /\ Mixed'["year"] = IF k >= 1 THEN Chip["year"] ELSE Chip'["year"]
        /\ Mixed'["month"] = IF k >= 2 THEN Chip["month"] ELSE Chip'["month"]
        /\ Mixed'["date"] = IF k >= 3 THEN Chip["date"] ELSE Chip'["date"]
        /\ Mixed'["hour"] = IF k >= 4 THEN Chip["hour"] ELSE Chip'["hour"]
        /\ Mixed'["min"] = IF k >= 5 THEN Chip["min"] ELSE Chip'["min"]
    BY <2>2, <2>5 DEF AllFields
  <2>7. Mixed'["sec"] = 0
    BY <1>5, <2>2, <2>3 DEF AllFields
  <2>8. Follows(Chip, Chip')
    BY <1>2, <1>8
  <2> QED BY <1>1, <1>2, <1>6, <1>8, <2>3, <2>4, <2>6, <2>7, <2>8, MixedFace
<1> QED
  BY <1>7, <1>8

LEMMA TickStep ==
  ASSUME RtcInv, Tick
  PROVE  RtcInv'
<1>1. /\ passed' = passed + 1 /\ passed \in Nat /\ began \in Nat /\ began <= passed
      /\ UNCHANGED <<phase, began, dump, got, spoilt>> /\ phase # "idle" /\ (torn => torn')
  BY TickFrame, TickTorn, PassedFacts
<1>2. TrueTime' = TrueTime + 1 /\ TrueTime \in Int /\ TimeOf(Chip) \in Int /\ Bounded'
  BY TickTime, TimeFacts
<1>3. /\ Chip["sec"] \in Nat /\ Chip["sec"] <= 59 /\ (Chip["sec"] = 59 => Chip'["sec"] = 0)
      /\ Chip["sec"] # 59 => Chip'["sec"] = Chip["sec"] + 1
      /\ got["sec"] \in Nat /\ got["sec"] <= 59
  BY TickSecond, GotFacts
<1>4. ASSUME ~spoilt, phase \in {"begin", "dump", "ram"}
      PROVE  /\ ValidFace(Chip') /\ TimeOf(Chip') = TimeOf(Chip) + 1
             /\ TimeOf(Chip) <= TrueTime + 61 * passed
  BY <1>4, TickValid DEF RtcInv, Dated
<1>0. Gain \in Int /\ Gain <= 61 * passed /\ Gain' = Gain + 60
  BY <1>1 DEF Gain
<1>5. phase \in {"save", "check", "restore", "recheck"} => TimeOf(dump) \in Int
  BY FaceTypes DEF RtcInv, Copies
<1>6. CASE phase = "begin"
  <2>1. Dated'
    <3>1. ASSUME ~spoilt
          PROVE  /\ ValidFace(Chip') /\ TimeOf(Chip') <= TrueTime' + Gain'
                 /\ TimeOf(Chip') + (got["sec"] - Chip'["sec"]) <= TrueTime' + Gain'
      <4>1. ValidFace(Chip') /\ TimeOf(Chip') = TimeOf(Chip) + 1
        BY <1>4, <1>6, <3>1
      <4>2. TimeOf(Chip) <= TrueTime + Gain /\ TimeOf(Chip) + (got["sec"] - Chip["sec"]) <= TrueTime + Gain
        BY <1>6, <3>1 DEF RtcInv, Dated
      <4>3. CASE Chip["sec"] # 59
        BY <1>0, <1>2, <1>3, <4>1, <4>2, <4>3
      <4>4. CASE Chip["sec"] = 59
        BY <1>0, <1>2, <1>3, <4>1, <4>2, <4>4
      <4> QED BY <4>3, <4>4
    <3>2. Gain' <= 61 * passed'
      BY <1>1 DEF Gain
    <3>3. ~spoilt => TimeOf(Chip') <= TrueTime' + 61 * passed'
      BY <1>0, <1>1, <1>2, <1>4, <1>6
    <3> QED BY <1>1, <1>6, <3>1, <3>3 DEF Dated
  <2>2. Timed'
    <3>1. ASSUME ~spoilt, ~torn'
          PROVE  /\ TrueTime' <= TimeOf(Chip') + passed' /\ TimeOf(Chip') <= TrueTime' + passed'
                 /\ TimeOf(Chip') <= TrueTime' + began
                 /\ got["sec"] <= Chip'["sec"] /\ TrueTime' <= (TimeOf(Chip') + (got["sec"] - Chip'["sec"])) + passed'
      <4>1. ~torn /\ Chip["sec"] # 59
        BY <1>6, <3>1, TickTorn
      <4>2. Chip'["sec"] = Chip["sec"] + 1
        BY <1>3, <4>1
      <4>3. TimeOf(Chip') = TimeOf(Chip) + 1
        BY <1>4, <1>6, <3>1
      <4>4. /\ TrueTime <= TimeOf(Chip) + passed /\ TimeOf(Chip) <= TrueTime + passed
            /\ TimeOf(Chip) <= TrueTime + began
            /\ got["sec"] <= Chip["sec"] /\ TrueTime <= (TimeOf(Chip) + (got["sec"] - Chip["sec"])) + passed
        BY <1>6, <3>1, <4>1 DEF RtcInv, Timed
      <4> QED BY <1>1, <1>2, <1>3, <4>2, <4>3, <4>4
    <3> QED BY <1>1, <1>6, <3>1 DEF Timed
  <2> QED BY <2>1, <2>2, <1>2, TickControl, TickMinute DEF RtcInv
<1>7. CASE phase = "dump"
  <2>1. Dated'
    <3>1. ASSUME ~spoilt
          PROVE  /\ ValidFace(Chip') /\ TimeOf(Chip') <= TrueTime' + Gain' /\ TimeOf(Chip') <= TrueTime' + 61 * passed'
                 /\ ValidFace(Mixed') /\ TimeOf(Mixed') <= TimeOf(Chip')
      <4>1. ValidFace(Chip') /\ TimeOf(Chip') = TimeOf(Chip) + 1 /\ TimeOf(Chip) <= TrueTime + 61 * passed
        BY <1>4, <1>7, <3>1
      <4>2. TimeOf(Chip) <= TrueTime + Gain
        BY <1>7, <3>1 DEF RtcInv, Dated
      <4>3. ValidFace(Mixed') /\ TimeOf(Mixed') <= TimeOf(Chip')
        BY <1>7, <3>1, TickMixed
      <4> QED BY <1>0, <1>1, <1>2, <4>1, <4>2, <4>3
    <3> QED BY <1>1, <1>7, <3>1 DEF Dated
  <2>2. Timed'
    <3>1. ASSUME ~spoilt, ~torn'
          PROVE  /\ TrueTime' <= TimeOf(Chip') + passed' /\ TimeOf(Chip') <= TrueTime' + passed'
                 /\ TimeOf(Chip') <= TrueTime' + began
      <4>1. TimeOf(Chip') = TimeOf(Chip) + 1
        BY <1>4, <1>7, <3>1
      <4>2. /\ TrueTime <= TimeOf(Chip) + passed /\ TimeOf(Chip) <= TrueTime + passed
            /\ TimeOf(Chip) <= TrueTime + began
        BY <1>1, <1>7, <3>1 DEF RtcInv, Timed
      <4> QED BY <1>1, <1>2, <4>1, <4>2
    <3> QED BY <1>1, <1>7, <3>1 DEF Timed
  <2> QED BY <2>1, <2>2, <1>2, TickControl, TickMinute DEF RtcInv
<1>8. CASE phase = "ram"
  <2>1. Dated'
    <3>1. ASSUME ~spoilt
          PROVE  ValidFace(Chip') /\ TimeOf(Chip') <= TrueTime' + 61 * passed'
      BY <1>1, <1>2, <1>4, <1>8, <3>1
    <3> QED BY <1>1, <1>8, <3>1 DEF Dated
  <2>2. Timed'
    <3>1. ASSUME ~spoilt, ~torn'
          PROVE  TrueTime' <= TimeOf(Chip') + passed' /\ TimeOf(Chip') <= TrueTime' + passed'
      <4>1. TimeOf(Chip') = TimeOf(Chip) + 1
        BY <1>4, <1>8, <3>1
      <4>2. TrueTime <= TimeOf(Chip) + passed /\ TimeOf(Chip) <= TrueTime + passed
        BY <1>1, <1>8, <3>1 DEF RtcInv, Timed
      <4> QED BY <1>1, <1>2, <4>1, <4>2
    <3> QED BY <1>1, <1>8, <3>1 DEF Timed
  <2> QED BY <2>1, <2>2, <1>2, TickControl, TickMinute DEF RtcInv
<1>9. CASE phase \in {"save", "check"}
  <2>1. Dated'
    <3>1. ASSUME ~spoilt
          PROVE  ValidFace(dump) /\ TimeOf(dump) <= TrueTime' + Gain'
      <4>1. ValidFace(dump) /\ TimeOf(dump) <= TrueTime + Gain
        BY <1>9, <3>1 DEF RtcInv, Dated
      <4> QED BY <1>0, <1>1, <1>2, <1>5, <1>9, <4>1
    <3> QED BY <1>1, <1>9, <3>1 DEF Dated
  <2>2. Timed'
    <3>1. ASSUME ~spoilt, ~torn'
          PROVE  TrueTime' <= TimeOf(dump) + passed' /\ TimeOf(dump) <= TrueTime' + began
      <4>1. TrueTime <= TimeOf(dump) + passed /\ TimeOf(dump) <= TrueTime + began
        BY <1>1, <1>9, <3>1 DEF RtcInv, Timed
      <4> QED BY <1>1, <1>2, <1>5, <1>9, <4>1
    <3> QED BY <1>1, <1>9, <3>1 DEF Timed
  <2> QED BY <2>1, <2>2, <1>2, TickControl, TickMinute DEF RtcInv
<1>10. CASE phase \in {"restore", "recheck"}
  <2>1. Dated'
    <3>1. ASSUME ~spoilt
          PROVE  ValidFace(dump) /\ TimeOf(dump) <= TrueTime' + 61 * passed'
      <4>1. ValidFace(dump) /\ TimeOf(dump) <= TrueTime + 61 * passed
        BY <1>10, <3>1 DEF RtcInv, Dated
      <4> QED BY <1>1, <1>2, <1>5, <1>10, <4>1
    <3> QED BY <1>1, <1>10, <3>1 DEF Dated
  <2>2. Timed'
    <3>1. ASSUME ~spoilt, ~torn'
          PROVE  TrueTime' <= TimeOf(dump) + passed' /\ TimeOf(dump) <= TrueTime' + passed'
      <4>1. TrueTime <= TimeOf(dump) + passed /\ TimeOf(dump) <= TrueTime + passed
        BY <1>1, <1>10, <3>1 DEF RtcInv, Timed
      <4> QED BY <1>1, <1>2, <1>5, <1>10, <4>1
    <3> QED BY <1>1, <1>10, <3>1 DEF Timed
  <2> QED BY <2>1, <2>2, <1>2, TickControl, TickMinute DEF RtcInv
<1> QED
  BY <1>1, <1>6, <1>7, <1>8, <1>9, <1>10 DEF RtcInv, Control


LEMMA RtcStep == RtcInv /\ [RtcNext]_rtcVars => RtcInv'
<1> SUFFICES ASSUME RtcInv, [RtcNext]_rtcVars PROVE RtcInv'
  OBVIOUS
<1>1. CASE UNCHANGED rtcVars
  BY <1>1, RtcStutters
<1>2. CASE Watchdog
  <2>1. CASE BeginRead
    BY <2>1, BeginReadStep
  <2>2. CASE BeginWrite
    BY <2>2, BeginWriteStep
  <2>3. CASE StartTest
    BY <2>3, StartTestStep
  <2>4. CASE NothingToTest
    BY <2>4, RtcStutters DEF NothingToTest
  <2>5. CASE Dump
    BY <2>5, DumpStep
  <2>6. CASE Save
    BY <2>6, SaveStep
  <2>7. CASE Restore
    BY <2>7, RestoreStep
  <2>8. CASE Check
    BY <2>8, CheckStep
  <2>9. CASE Recheck
    BY <2>9, RecheckStep
  <2>10. CASE Mismatch
    BY <2>10, MismatchStep
  <2>11. CASE TestRam
    BY <2>11, TestRamStep
  <2> QED
    BY <1>2, <2>1, <2>2, <2>3, <2>4, <2>5, <2>6, <2>7, <2>8, <2>9, <2>10, <2>11 DEF Watchdog
<1>3. CASE BeginFails
  BY <1>3, BeginFailsStep
<1>4. CASE AccessFails
  BY <1>4, AccessFailsStep
<1>5. CASE Reset
  BY <1>5, ResetStep
<1>6. CASE Tick
  BY <1>6, TickStep
<1>7. CASE DayPasses
  BY <1>7, DayPassesStep
<1>8. CASE ReadyComes
  BY <1>8, ReadyComesStep
<1> QED
  BY <1>1, <1>2, <1>3, <1>4, <1>5, <1>6, <1>7, <1>8 DEF RtcNext

LEMMA RtcInvariant == RtcSpec => []RtcInv
<1> QED
  BY RtcInitInv, RtcStep, PTL DEF RtcSpec

(***************************************************************************)
(* The theorems                                                            *)
(***************************************************************************)
LEMMA ValuesOfFields ==
  ASSUME NEW c, c = [f \in AllFields |-> c[f]], \A f \in AllFields : c[f] \in 0 .. 255
  PROVE  c \in Values
<1>1. DOMAIN Blank = AllFields
  BY DEF Blank, AllFields
<1> QED
  BY <1>1 DEF Values

LEMMA PartIsValues ==
  ASSUME NEW c, PartOK(c)
  PROVE  c \in Values
<1>1. ASSUME NEW f \in AllFields
      PROVE  c[f] \in 0 .. 255
  <2>1. c[f] = 0 \/ InRange(f, c[f])
    BY DEF PartOK
  <2>2. Highest(f) \in Nat /\ Highest(f) <= 255
    BY DEF Highest, AllFields
  <2> QED BY <2>1, <2>2 DEF InRange
<1>2. c = [f \in AllFields |-> c[f]]
  BY DEF PartOK
<1> QED
  BY <1>1, <1>2, ValuesOfFields

LEMMA RtcInvTypes == RtcInv => RtcTypeOK
<1> SUFFICES ASSUME RtcInv PROVE RtcTypeOK
  OBVIOUS
<1>1. regs \in Values
  <2>1. FaceOK(Chip) /\ regs = Coded(Chip)
    BY ChipFacts
  <2>2. \A f \in AllFields : regs[f] \in 0 .. 255
    BY <2>1, ChipShows
  <2>3. regs = [f \in AllFields |-> regs[f]]
    BY <2>1 DEF Coded
  <2> QED BY <2>2, <2>3, ValuesOfFields
<1>2. dump \in Values /\ got \in Values
  BY PartIsValues DEF RtcInv, Copies
<1>3. /\ build \in Builds /\ started \in BOOLEAN /\ clockTested \in BOOLEAN /\ rtcError \in BOOLEAN
      /\ torn \in BOOLEAN /\ spoilt \in BOOLEAN
  BY Zenon DEF RtcInv, Flags
<1>4. day \in Nat /\ second \in Nat /\ second < 86400
  BY DEF RtcInv, Bounded
<1>5. passed \in 0 .. MaxTicks /\ began \in 0 .. passed /\ failures \in 0 .. MaxFailures
  <2>1. /\ passed \in Nat /\ passed <= MaxTicks /\ began \in Nat /\ began <= passed
        /\ failures \in Nat /\ failures <= MaxFailures
    BY DEF RtcInv, Bounded
  <2>2. MaxTicks \in Nat /\ MaxFailures \in Nat
    BY Constants
  <2> QED BY <2>1, <2>2
<1>6. phase \in {"idle", "begin", "dump", "save", "check", "restore", "recheck", "ram"}
  BY DEF RtcInv, Control
<1>7. at \in 1 .. Len(Fields)
  BY FieldAt
<1> QED
  BY <1>1, <1>2, <1>3, <1>4, <1>5, <1>6, <1>7 DEF RtcTypeOK

\* The date of the chip, as the code would count it
LEMMA ChipDay ==
  ASSUME RtcInv, ValidFace(Chip)
  PROVE  /\ DaysOf(ChipDate) = DayOf(Chip) /\ ChipSecond = SecondOf(Chip)
         /\ DateOf(DaysOf(ChipDate)) = ChipDate
<1> DEFINE y == Chip["year"]
           m == Chip["month"]
           a == Chip["date"]
<1>1. ChipDate = Date(y, m, a) /\ ChipSecond = SecondOf(Chip)
  BY ChipFacts, ChipShows
<1>2. y \in Nat /\ m \in Nat \ {0} /\ a \in Nat
  <2>1. FaceOK(Chip)
    BY ChipFacts
  <2> QED BY <2>1, FaceTypes
<1>3. y < 100 /\ Exists(y, m, a) /\ DayOf(Chip) = DayNumber(y, m, a)
  BY DEF ValidFace, Valid, DayOf
<1> HIDE DEF y, m, a
<1>4. y % 100 = y
  BY <1>2, <1>3
<1>5. DaysOf(Date(y, m, a)) = DayNumber(y, m, a)
  BY <1>2, <1>4, DaysOfDate
<1>6. DateOf(DayNumber(y, m, a)) = Date(y, m, a)
  BY <1>2, <1>3, DateOfDay
<1> QED
  BY <1>1, <1>3, <1>5, <1>6

LEMMA WeekDays ==
  ASSUME NEW n \in Nat
  PROVE  WeekDayOf(n) = (n + 6) % 7
BY DEF WeekDayOf, Thursday

LEMMA RtcInvDates == RtcInv => DatesAgree
<1> SUFFICES ASSUME RtcInv PROVE DatesAgree
  OBVIOUS
<1>1. ASSUME Idle, ~spoilt
      PROVE  DateOf(DaysOf(ChipDate)) = ChipDate
  <2>1. ValidFace(Chip)
    BY <1>1 DEF Idle, RtcInv, Dated
  <2> QED BY <2>1, ChipDay
<1>2. ASSUME ~started, failures = 0, passed = 0
      PROVE  DaysOf(ChipDate) = day /\ WeekDayOf(day) = (day + 6) % 7
  <2>1. ValidFace(Chip) /\ TimeOf(Chip) = TrueTime
    BY <1>2 DEF RtcInv, Untouched
  <2>2. day \in Nat /\ second \in Nat /\ second < 86400
    BY DEF RtcInv, Bounded
  <2>3. DayOf(Chip) \in Int /\ SecondOf(Chip) \in Nat /\ SecondOf(Chip) < 86400
    BY TimeFacts
  <2>4. Seconds(DayOf(Chip), SecondOf(Chip)) = Seconds(day, second)
    BY <2>1 DEF TimeOf, TrueTime, Seconds
  <2>5. DayOf(Chip) = day
    BY <2>2, <2>3, <2>4, SameDay
  <2>6. WeekDayOf(day) = (day + 6) % 7
    BY <2>2, WeekDays
  <2> QED BY <2>1, <2>5, <2>6, ChipDay
<1> QED
  BY <1>1, <1>2 DEF DatesAgree

\* Times that are less than a day apart are on the same day or on two that follow.
LEMMA DaysApart ==
  ASSUME NEW a \in Int, NEW b \in Nat, NEW c \in Nat, NEW d \in Nat, b < 86400, d < 86400, NEW p \in Nat, p < 86400,
         c * 86400 + d <= (a * 86400 + b) + p, a * 86400 + b <= (c * 86400 + d) + p
  PROVE  a - c \in -1 .. 1 /\ (a - c) * 86400 + (b - d) \in -p .. p
<1>1. (a - c) * 86400 + (b - d) = (a * 86400 + b) - (c * 86400 + d)
  OBVIOUS
<1>2. (a - c) * 86400 + (b - d) \in -p .. p
  BY <1>1
<1>3. a - c <= 1 /\ a - c >= -1
  OBVIOUS
<1> QED
  BY <1>2, <1>3

LEMMA RtcInvTime == RtcInv => TestsKeepTime
<1> SUFFICES ASSUME RtcInv, phase = "idle", ~torn, ~spoilt
             PROVE  DaysOf(ChipDate) - day \in -1 .. 1 /\ Ahead \in -passed .. passed
  BY DEF TestsKeepTime, Idle
<1>1. ValidFace(Chip)
  BY DEF RtcInv, Dated
<1>2. TrueTime <= TimeOf(Chip) + passed /\ TimeOf(Chip) <= TrueTime + passed
  BY DEF RtcInv, Timed
<1>3. day \in Nat /\ second \in Nat /\ second < 86400
  BY DEF RtcInv, Bounded
<1>4. DayOf(Chip) \in Int /\ SecondOf(Chip) \in Nat /\ SecondOf(Chip) < 86400
  BY TimeFacts
<1>5. passed \in Nat /\ passed < 86400
  BY PassedFacts, Constants
<1> DEFINE a == DayOf(Chip)
           b == SecondOf(Chip)
<1>6. day * 86400 + second <= (a * 86400 + b) + passed /\ a * 86400 + b <= (day * 86400 + second) + passed
  BY <1>2 DEF TimeOf, TrueTime
<1>7. a - day \in -1 .. 1 /\ (a - day) * 86400 + (b - second) \in -passed .. passed
  <2> HIDE DEF a, b
  <2>1. a \in Int /\ b \in Nat /\ b < 86400
    BY <1>4 DEF a, b
  <2> QED BY <1>3, <1>5, <1>6, <2>1, DaysApart
<1>8. DaysOf(ChipDate) = a /\ ChipSecond = b
  BY <1>1, ChipDay
<1>9. Ahead = (a - day) * 86400 + (b - second)
  BY <1>3, <1>4, <1>8 DEF Ahead
<1> QED
  BY <1>7, <1>8, <1>9

\* The registers, the dump and what is read back stay what a register can
\* show, through every access, failure, reset and second (g_rtc.cpp:187-293).
THEOREM RtcTypeCorrect == RtcSpec => []RtcTypeOK
<1> QED
  BY RtcInvariant, RtcInvTypes, PTL

\* Whatever the tests do to the chip, a test that was not given up leaves a
\* date that the two conversions of clock.c give back, and before the first
\* test they count the days as the calendar does.
THEOREM DatesAlwaysAgree == RtcSpec => []DatesAgree
<1> QED
  BY RtcInvariant, RtcInvDates, PTL

\* Self tests that no minute's end tears and that are not given up cost the
\* clock no more than the seconds that passed during them.
THEOREM TestsAlwaysKeepTime == RtcSpec => []TestsKeepTime
<1> QED
  BY RtcInvariant, RtcInvTime, PTL

\* On every date of the century the conversion to days and the one back
\* agree, get_clock_datetime_to_seconds with get_clock_seconds_to_datetime
\* (clock.c:350-440).
THEOREM DateConversionsAgree ==
  ASSUME NEW y \in Nat, NEW m \in Nat, NEW a \in Nat, Valid(y, m, a)
  PROVE  DateOf(DaysOf(Date(y, m, a))) = Date(y, m, a)
<1>1. y < 100 /\ Exists(y, m, a)
  BY DEF Valid
<1>2. y % 100 = y /\ m \in Nat \ {0}
  BY <1>1 DEF Exists
<1> QED
  BY <1>1, <1>2, DaysOfDate, DateOfDay

\* Every day has a date, from which the days are counted back to it
\* (clock.c:350-440).
THEOREM DayConversionsAgree ==
  ASSUME NEW n \in Nat, n < 36525
  PROVE  DaysOf(DateOf(n)) = n
<1>1. PICK y \in Nat, m \in Nat, a \in Nat : Exists(y, m, a) /\ DayNumber(y, m, a) = n
  <2>1. HasDate(n)
    BY SomeDate
  <2> QED BY <2>1 DEF HasDate
<1>2. DateOf(n) = Date(y, m, a)
  <2>1. DateOf(DayNumber(y, m, a)) = Date(y, m, a)
    BY <1>1, DateOfDay
  <2> QED BY <1>1, <2>1
<1>3. y < 100
  <2>1. DayNumber(y, m, a) < 36525
    BY <1>1
  <2>2. Valid(y, m, a)
    BY <1>1, <2>1, CenturyEnds
  <2> QED BY <2>2 DEF Valid
<1>4. y % 100 = y /\ m \in Nat \ {0}
  BY <1>1, <1>3 DEF Exists
<1> QED
  BY <1>1, <1>2, <1>4, DaysOfDate

(***************************************************************************)
(* ErrorRecovery keeps its types, and what get_last_error() answers is     *)
(* always a code some handler reported, for every set of errors.           *)
(***************************************************************************)

\* What the clock's RAM and soul.last_err hold was put there by a handler,
\* cleared, or left over from a self test.
RecordSound ==
  /\ record \in reported \cup {NoError, Garbage}
  /\ lastErr = NoError \/ lastErr \in reported

RecoveryInv == TypeOK /\ RecordSound

\* get_first_error names an error that is set.
LEMMA FirstErrorIsSet ==
  ASSUME NEW E \in SUBSET Errors, E # {}
  PROVE  FirstError(E) \in E
<1>1. E \subseteq Nat
  BY ErrorAssumption
<1>2. PICK e \in E : \A f \in E : <<f, e>> \notin OpToRel(<, Nat)
  BY <1>1, WFMin, NatLessThanWellFounded
<1>3. ASSUME NEW f \in E PROVE e <= f
  <2>1. f \in Nat /\ e \in Nat
    BY <1>1
  <2>2. ~(f < e)
    BY <1>2, <2>1 DEF OpToRel
  <2> QED BY <2>1, <2>2
<1> QED BY <1>3 DEF FirstError

\* Every device starts with nothing recorded.
LEMMA InitRecovery == Init => RecoveryInv
<1> SUFFICES ASSUME Init PROVE RecoveryInv
  OBVIOUS
<1> USE DEF Init, ColdRam
<1>1. FlagType
  BY ZenonT(40) DEF FlagType
<1>2. PlaceType
  BY DEF PlaceType
<1>3. CodeType /\ RecordSound
  BY ErrorAssumption DEF CodeType, RecordSound
<1>4. CountType
  BY ErrorAssumption DEF CountType
<1> QED BY <1>1, <1>2, <1>3, <1>4 DEF RecoveryInv, TypeOK

\* A reset clears soul.last_err and leaves the clock's RAM as the caller set it.
LEMMA RebootRecovery ==
  ASSUME RecoveryInv, NEW code \in Errors \cup {NoError}, Reboot(code),
         reported' \in SUBSET Errors,
         record' \in reported' \cup {NoError, Garbage},
         appReady' = appReady, CountType'
  PROVE  RecoveryInv'
<1> USE DEF Reboot, RecoveryInv, TypeOK
<1>1. FlagType'
  BY ZenonT(40) DEF FlagType
<1>2. PlaceType'
  BY DEF PlaceType
<1>3. CodeType' /\ RecordSound'
  BY ErrorAssumption DEF CodeType, RecordSound
<1> QED BY <1>1, <1>2, <1>3

\* Boot and the passing of time change nothing that is recorded.
LEMMA QuietInv == RecoveryInv /\ (BootDone \/ Timers) => RecoveryInv'
<1> SUFFICES ASSUME RecoveryInv, (BootDone \/ Timers) PROVE RecoveryInv'
  OBVIOUS
<1> USE DEF BootDone, Timers, ErrTimerExpires, ResetTimerExpires, RtcTimerExpires, RecoveryInv, TypeOK, soulVars, clockVars, timerVars, histVars, countVars
<1>1. FlagType'
  <2>1. CASE BootDone
    BY <2>1, ZenonT(40) DEF FlagType
  <2>2. CASE ErrTimerExpires
    BY <2>2, ZenonT(40) DEF FlagType
  <2>3. CASE ResetTimerExpires
    BY <2>3, ZenonT(40) DEF FlagType
  <2>4. CASE RtcTimerExpires
    BY <2>4, ZenonT(40) DEF FlagType
  <2> QED BY <2>1, <2>2, <2>3, <2>4
<1>2. PlaceType'
  BY DEF PlaceType
<1>3. CodeType' /\ RecordSound'
  BY ErrorAssumption DEF CodeType, RecordSound
<1>4. CountType'
  BY ErrorAssumption DEF CountType
<1> QED BY <1>1, <1>2, <1>3, <1>4

\* What the application and the system tick's watchdog do is not recorded
\* before a handler runs.
LEMMA ChangeInv == RecoveryInv /\ (SysTickReanimation \/ RtcNotStarted \/ AppWaits) => RecoveryInv'
<1> SUFFICES ASSUME RecoveryInv, (SysTickReanimation \/ RtcNotStarted \/ AppWaits) PROVE RecoveryInv'
  OBVIOUS
<1> USE DEF SysTickReanimation, RtcNotStarted, RtcEnabled, Ticking, AppWaits, Changes, RecoveryInv, TypeOK, soulVars, clockVars, timerVars, histVars, countVars
<1>1. FlagType'
  <2>1. CASE SysTickReanimation
    BY <2>1, ZenonT(40) DEF FlagType
  <2>2. CASE RtcNotStarted
    BY <2>2, ZenonT(40) DEF FlagType
  <2>3. CASE AppWaits
    BY <2>3, ZenonT(40) DEF FlagType
  <2> QED BY <2>1, <2>2, <2>3
<1>2. PlaceType'
  BY DEF PlaceType
<1>3. CodeType' /\ RecordSound'
  BY ErrorAssumption DEF CodeType, RecordSound
<1>4. CountType'
  BY ErrorAssumption DEF CountType
<1> QED BY <1>1, <1>2, <1>3, <1>4

\* Setting or resetting an error of the application keeps to the codes in use.
LEMMA AppErrorInv == RecoveryInv /\ (\E e \in AppErrors : AppSetsError(e) \/ AppResetsError(e)) => RecoveryInv'
<1> SUFFICES ASSUME RecoveryInv, (\E e \in AppErrors : AppSetsError(e) \/ AppResetsError(e)) PROVE RecoveryInv'
  OBVIOUS
<1> USE DEF AppSetsError, AppResetsError, Changes, RecoveryInv, TypeOK, soulVars, clockVars, timerVars, histVars, countVars
<1>1. FlagType'
  BY ZenonT(40) DEF FlagType
<1>2. PlaceType'
  BY DEF PlaceType
<1>3. CodeType' /\ RecordSound'
  BY ErrorAssumption DEF CodeType, RecordSound
<1>4. CountType'
  BY ErrorAssumption DEF CountType
<1> QED BY <1>1, <1>2, <1>3, <1>4

\* The record a handler leaves is the code it was called for, or what the
\* clock's RAM held before.
LEMMA RecordedSound ==
  ASSUME RecoveryInv, NEW e \in Errors, Recorded(e), changes' = changes,
         faults' \in 0..MaxFaults
  PROVE  /\ reported' \in SUBSET Errors /\ e \in reported' /\ reported \subseteq reported'
         /\ record' \in reported' \cup {NoError, Garbage}
         /\ CountType'
BY ErrorAssumption
DEF Recorded, RecoveryInv, TypeOK, CodeType, CountType, RecordSound

\* A handler that stays keeps the invariant, wherever it waits.
LEMMA HandlerStaysInv ==
  ASSUME RecoveryInv, NEW e \in Errors, NEW fault \in BOOLEAN,
         NEW errs \in SUBSET Errors,
         HandlerStays(e, errs, fault), Recorded(e),
         hwReady' \in BOOLEAN, swReady' \in BOOLEAN, appReady' = appReady,
         pc' \in {"loop", "asleep"},
         resetTimer' \in {"off", "gtimer", "system", "expired"},
         changes' = changes, faults' \in 0..MaxFaults
  PROVE  RecoveryInv'
<1> USE DEF HandlerStays, RecoveryInv, TypeOK
<1>1. FlagType'
  BY ZenonT(40) DEF FlagType
<1>2. PlaceType'
  BY DEF PlaceType
<1>3. CodeType' /\ RecordSound' /\ CountType'
  BY RecordedSound, ErrorAssumption DEF CodeType, RecordSound
<1> QED BY <1>1, <1>2, <1>3

\* The handler keeps the invariant whether it loops, sleeps or resets.
LEMMA HandlerInv ==
  ASSUME RecoveryInv, NEW e \in Errors, NEW fault \in BOOLEAN,
         NEW errs \in SUBSET Errors, Handler(e, errs, fault),
         appReady' = appReady, changes' = changes, faults' \in 0..MaxFaults
  PROVE  RecoveryInv'
<1>1. Recorded(e)
  BY DEF Handler
<1>2. CASE Reboot(e)
  BY <1>1, <1>2, RecordedSound, RebootRecovery
<1>3. hwReady \in BOOLEAN /\ swReady \in BOOLEAN
  BY Zenon DEF RecoveryInv, TypeOK, FlagType
<1>4. CASE /\ HandlerStays(e, errs, fault) /\ pc' = "asleep"
           /\ UNCHANGED <<resetTimer, hwReady, swReady>>
  <2>1. resetTimer' \in {"off", "gtimer", "system", "expired"}
    BY <1>4 DEF RecoveryInv, TypeOK, PlaceType
  <2> QED BY <1>1, <1>3, <1>4, <2>1, HandlerStaysInv
<1>5. CASE EnterLoop(e, errs, fault) /\ UNCHANGED <<hwReady, swReady>>
  BY <1>1, <1>3, <1>5, HandlerStaysInv DEF EnterLoop
<1> QED BY <1>2, <1>4, <1>5 DEF Handler

\* The bound on faults is kept.
LEMMA FaultCounted == RecoveryInv /\ Faults => faults' \in 0..MaxFaults
BY ErrorAssumption DEF RecoveryInv, TypeOK, CountType, Faults

\* A failed boot records SYS_TICK_ERROR.
LEMMA BootFailsInv == RecoveryInv /\ BootFails => RecoveryInv'
<1> SUFFICES ASSUME RecoveryInv, BootFails PROVE RecoveryInv'
  OBVIOUS
<1>1. faults' \in 0..MaxFaults
  BY FaultCounted DEF BootFails, Faults
<1>2. SYS_TICK_ERROR \in Errors /\ {SYS_TICK_ERROR} \in SUBSET Errors
  BY ErrorAssumption
<1> QED BY <1>1, <1>2, HandlerInv DEF BootFails

\* The handler's loop ends in a reset.
LEMMA LoopEndsInv == RecoveryInv /\ LoopEnds => RecoveryInv'
<1> SUFFICES ASSUME RecoveryInv, LoopEnds PROVE RecoveryInv'
  OBVIOUS
<1>1. Reboot(pending) /\ UNCHANGED <<appReady, record, reported, countVars>>
  BY DEF LoopEnds
<1>2. /\ pending \in Errors \cup {NoError}
      /\ reported' \in SUBSET Errors
      /\ record' \in reported' \cup {NoError, Garbage}
      /\ CountType'
  BY <1>1 DEF RecoveryInv, TypeOK, CodeType, CountType, RecordSound, countVars
<1> QED BY <1>1, <1>2, RebootRecovery

\* A voltage out of range and a fault of the MCU call the handler, hang the
\* device, or reset it; a power cycle may leave a half finished self test.
LEMMA FaultInv == RecoveryInv /\ (PowerFails \/ HardFault \/ PowerCycle) => RecoveryInv'
<1> SUFFICES ASSUME RecoveryInv, PowerFails \/ HardFault \/ PowerCycle PROVE RecoveryInv'
  OBVIOUS
<1>1. CountType /\ tickFault \in BOOLEAN /\ errors \in SUBSET Errors
      /\ pending \in Errors \cup {NoError} /\ reported \in SUBSET Errors
      /\ record \in reported \cup {NoError, Garbage}
  BY DEF RecoveryInv, TypeOK, FlagType, CodeType, RecordSound
<1>2. CASE PowerFails
  <2>1. faults' \in 0..MaxFaults /\ POWER_ERROR \in Errors
    BY <1>2, FaultCounted, ErrorAssumption DEF PowerFails
  <2> QED BY <1>1, <1>2, <2>1, HandlerInv DEF PowerFails
<1>3. CASE /\ Faults /\ Handler(HARD_FAULT, errors, tickFault)
           /\ UNCHANGED <<appReady, changes>>
  BY <1>1, <1>3, FaultCounted, HandlerInv, ErrorAssumption
<1>4. CASE /\ Faults /\ pc' = "hung" /\ UNCHANGED <<appReady, changes>>
           /\ UNCHANGED <<soulVars, timerVars, record, clockVars, histVars, glitches>>
  <2> USE <1>4 DEF RecoveryInv, TypeOK, soulVars, timerVars, clockVars, histVars
  <2>1. FlagType'
    BY ZenonT(40) DEF FlagType
  <2>2. PlaceType'
    BY DEF PlaceType
  <2>3. CodeType' /\ RecordSound' /\ CountType'
    BY FaultCounted DEF CodeType, RecordSound, CountType
  <2> QED BY <2>1, <2>2, <2>3
<1>5. CASE /\ Faults /\ Reboot(pending)
           /\ UNCHANGED <<record, reported, glitches, appReady, changes>>
  <2>1. CountType'
    BY <1>1, <1>5, FaultCounted DEF CountType
  <2> QED BY <1>1, <1>5, <2>1, RebootRecovery
<1>6. CASE PowerCycle
  <2>1. CountType'
    BY <1>1, <1>6, FaultCounted DEF PowerCycle, CountType
  <2> QED BY <1>1, <1>6, <2>1, RebootRecovery DEF PowerCycle
<1> QED BY <1>2, <1>3, <1>4, <1>5, <1>6 DEF HardFault

\* The readiness check calls the handler for an error that is set, or for
\* LOAD_ERROR.
LEMMA ErrorCheckInv == RecoveryInv /\ ErrorCheck => RecoveryInv'
<1> SUFFICES ASSUME RecoveryInv, ErrorCheck PROVE RecoveryInv'
  OBVIOUS
<1>1. /\ hwReady' \in BOOLEAN /\ swReady' \in BOOLEAN /\ tickFault \in BOOLEAN
      /\ errors \in SUBSET Errors
      /\ appReady' = appReady /\ changes' = changes /\ faults' \in 0..MaxFaults
  <2>1. hwReady' \in BOOLEAN /\ appReady \in BOOLEAN /\ tickFault \in BOOLEAN
    BY Zenon DEF ErrorCheck, RecoveryInv, TypeOK, FlagType
  <2>2. swReady' = (appReady /\ hwReady')
    BY DEF ErrorCheck
  <2>3. swReady' \in BOOLEAN
    BY <2>1, <2>2, Zenon
  <2> QED BY <2>1, <2>3 DEF ErrorCheck, RecoveryInv, TypeOK, CodeType, CountType
<1>2. CASE \E e \in Errors : Recorded(e) /\ EnterLoop(e, errors, tickFault)
  BY <1>1, <1>2, HandlerStaysInv DEF EnterLoop
<1>3. CASE /\ UNCHANGED <<pc, errors, handlerCalled, tickFault, safety, lastErr,
                           resetTimer, record, clockVars, reported, pending,
                           expected, glitches>>
           /\ \/ errTimer' = "wait" /\ cleared' = FALSE
              \/ UNCHANGED <<errTimer, cleared>>
  <2> USE <1>1, <1>3 DEF RecoveryInv, TypeOK, clockVars
  <2>1. FlagType'
    <3>1. cleared' \in BOOLEAN
      BY ZenonT(40) DEF FlagType
    <3> QED BY <3>1, ZenonT(40) DEF FlagType
  <2>2. PlaceType'
    BY DEF PlaceType
  <2>3. CodeType' /\ RecordSound' /\ CountType'
    BY DEF CodeType, RecordSound, CountType
  <2> QED BY <2>1, <2>2, <2>3
<1>4. errors # {} => FirstError(errors) \in Errors
  BY <1>1, FirstErrorIsSet
<1> QED BY <1>2, <1>3, <1>4, ErrorAssumption DEF ErrorCheck

\* The clock's watchdog loads a recorded code, and its self test leaves the
\* record, an empty one or the test word.
LEMMA RtcWatchdogInv == RecoveryInv /\ RtcWatchdog => RecoveryInv'
<1> SUFFICES ASSUME RecoveryInv, RtcWatchdog PROVE RecoveryInv'
  OBVIOUS
<1> USE DEF RecoveryInv, TypeOK
<1>1. PICK l \in LoadOutcomes, answers \in BOOLEAN :
        /\ rtcReady' = (rtcReady \/ answers)
        /\ SetLastError(l.code)
        /\ \/ /\ record' = l.rec /\ UNCHANGED <<errors, tested>>
              /\ glitches' = glitches + l.cost + IF answers \/ rtcReady THEN 0 ELSE 1
           \/ \E t \in TestOutcomes(l.rec) :
                /\ record' = t.rec /\ tested' = t.done
                /\ errors' = IF t.pass THEN errors \ {RTC_ERROR}
                             ELSE errors \cup {RTC_ERROR}
                /\ glitches' = glitches + l.cost
                                + (IF answers \/ rtcReady THEN 0 ELSE 1) + t.cost
  BY DEF RtcWatchdog
<1>2. l.code \in {record, NoError} /\ l.rec \in {record, NoError} /\ l.cost \in 0..1
  BY <1>1 DEF LoadOutcomes
<1>3. \A t \in TestOutcomes(l.rec) :
        /\ t.rec \in {l.rec, NoError, Garbage}
        /\ t.done \in BOOLEAN /\ t.cost \in 0..1
  <2> TAKE t \in TestOutcomes(l.rec)
  <2>1. t.done \in BOOLEAN
    <3>1. t.done = TRUE \/ t.done = FALSE
      BY SMT DEF TestOutcomes
    <3> QED BY <3>1, Zenon
  <2>2. t.rec \in {l.rec, NoError, Garbage} /\ t.cost \in 0..1
    BY DEF TestOutcomes
  <2> QED BY <2>1, <2>2
<1>4. FlagType'
  <2>1. tested' \in BOOLEAN /\ rtcReady' \in BOOLEAN /\ cleared' \in BOOLEAN
    BY <1>1, <1>3, Zenon DEF RtcWatchdog, FlagType
  <2>2. clockStarted' \in BOOLEAN /\ loaded' \in BOOLEAN
    BY Zenon DEF RtcWatchdog
  <2> QED BY <2>1, <2>2, Zenon DEF RtcWatchdog, FlagType
<1>5. PlaceType'
  BY DEF RtcWatchdog, PlaceType, timerVars
<1>6. record' \in {record, NoError, Garbage} /\ errors' \in SUBSET Errors
      /\ glitches' \in 0..MaxGlitches
  <2>1. record' \in {record, NoError, Garbage}
    BY <1>1, <1>2, <1>3
  <2>2. errors' \in SUBSET Errors
    BY <1>1, ErrorAssumption DEF CodeType
  <2>3. glitches' \in Nat
    <3>1. glitches \in Nat
      BY ErrorAssumption DEF CountType
    <3> QED BY <1>1, <1>2, <1>3, <3>1
  <2>4. glitches' <= MaxGlitches
    BY DEF RtcWatchdog
  <2> QED BY <2>1, <2>2, <2>3, <2>4, ErrorAssumption
<1>7. lastErr' \in {lastErr, record} /\ lastErr' \in Errors \cup {NoError}
  BY <1>1, <1>2, ErrorAssumption DEF SetLastError, CodeType
<1>8. CodeType' /\ RecordSound' /\ CountType'
  BY <1>6, <1>7, ErrorAssumption DEF RtcWatchdog, CodeType, RecordSound, CountType
<1> QED BY <1>4, <1>5, <1>8
-----------------------------------------------------------------------------
\* RecoveryInv is inductive.
THEOREM RecoveryInductive == Spec => []RecoveryInv
<1>1. ASSUME RecoveryInv, Next PROVE RecoveryInv'
  BY <1>1, QuietInv, ChangeInv, AppErrorInv, BootFailsInv, LoopEndsInv, FaultInv,
     ErrorCheckInv, RtcWatchdogInv DEF Next, Jobs
<1>2. ASSUME RecoveryInv, UNCHANGED vars PROVE RecoveryInv'
  <2> USE <1>2 DEF RecoveryInv, TypeOK, vars, soulVars, clockVars, timerVars,
                   histVars, countVars
  <2>1. FlagType'
    BY ZenonT(40) DEF FlagType
  <2>2. PlaceType'
    BY DEF PlaceType
  <2>3. CodeType' /\ RecordSound' /\ CountType'
    BY DEF CodeType, RecordSound, CountType
  <2> QED BY <2>1, <2>2, <2>3
<1> QED BY <1>1, <1>2, InitRecovery, PTL DEF Spec

\* Every variable keeps its type: timers, error codes, flags and counters.
THEOREM RecoveryTypeOK == Spec => []TypeOK
BY RecoveryInductive, PTL DEF RecoveryInv

\* get_last_error() never names an error that no handler reported, however the
\* self test, the power and the accesses to the clock chip fail.
THEOREM RecoveryLastErrorGenuine == Spec => []LastErrorGenuine
<1>1. RecoveryInv => LastErrorGenuine
  BY DEF RecoveryInv, RecordSound, LastErrorGenuine
<1> QED BY <1>1, RecoveryInductive, PTL
=============================================================================
