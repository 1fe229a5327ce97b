-------------------------- MODULE DutyCycleProofs --------------------------
(***************************************************************************)
(* The clock of the node and the duty cycle, for every calendar, tick,     *)
(* band and frame that the assumptions of Rtc and DutyCycle allow:         *)
(*                                                                         *)
(*   - the code counts the days of years and months, the chip goes from a  *)
(*     day to the next; they agree, in each century (NextDayCounts,        *)
(*     CenturyCounts), so the clock that is read is the true time          *)
(*     (ClockIsRight);                                                     *)
(*   - the day and time an alarm is set to are those of a tick to come,    *)
(*     not after the one that was asked for (AlarmFinds), so an alarm is   *)
(*     missed only where NeverComes says (AlarmComesInTime);               *)
(*   - what a rounded clock says has passed has passed (Rested), so a band *)
(*     that ScheduleTx takes for open has rested (DutyIsKept).             *)
(*                                                                         *)
(* Division, sums and powers come first: the provers know little of them.  *)
(***************************************************************************)
EXTENDS DutyCycle, Induction

-----------------------------------------------------------------------------
(* Products and divisions.  A sum or difference of products is moved to    *)
(* names of its own before it is compared.                                 *)
LEMMA TimesMonotone ==
  ASSUME NEW a \in Int, NEW b \in Int, NEW c \in Nat, a <= b
  PROVE  a * c <= b * c
<1>1. PICK d \in Nat : b = a + d
  <2>1. b - a \in Nat /\ b = a + (b - a)
    OBVIOUS
  <2> QED BY <2>1
<1>2. b * c = a * c + d * c /\ d * c \in Nat
  BY <1>1
<1> QED
  BY <1>2

LEMMA DivMod ==
  ASSUME NEW a \in Nat, NEW b \in Nat \ {0}
  PROVE  /\ a \div b \in Nat /\ a % b \in 0 .. b - 1
         /\ a = (a \div b) * b + (a % b)
<1>1. a \div b \in Int /\ a % b \in 0 .. b - 1 /\ a = b * (a \div b) + (a % b)
  <2>1. a \div b \in Int
    OBVIOUS
  <2>2. a % b \in 0 .. b - 1
    OBVIOUS
  <2>3. a = b * (a \div b) + (a % b)
    OBVIOUS
  <2> QED
    BY <2>1, <2>2, <2>3
<1> DEFINE q == a \div b
           r == a % b
<1> HIDE DEF q, r
<1>2. a = b * q + r /\ q \in Int /\ r \in 0 .. b - 1
  BY <1>1 DEF q, r
<1>3. ~ (q <= -1)
  <2> SUFFICES ASSUME q <= -1 PROVE FALSE
    OBVIOUS
  <2>1. PICK j \in Nat : q = -1 - j
    <3>1. -1 - q \in Nat /\ q = -1 - (-1 - q)
      BY <1>2
    <3> QED BY <3>1
  <2>2. b * q = -b - b * j /\ b * j \in Nat
    BY <2>1
  <2> QED
    BY <1>2, <2>2
<1>4. q \in Nat /\ b * q = q * b
  BY <1>2, <1>3
<1> QED
  BY <1>2, <1>4 DEF q, r

LEMMA DivModUnique ==
  ASSUME NEW b \in Nat \ {0}, NEW q \in Nat, NEW r \in 0 .. b - 1
  PROVE  (q * b + r) \div b = q /\ (q * b + r) % b = r
<1> DEFINE a == q * b + r
           p == a \div b
           s == a % b
<1>1. a \in Nat /\ q * b \in Nat
  OBVIOUS
<1>2. p \in Nat /\ s \in 0 .. b - 1 /\ a = p * b + s
  <2> HIDE DEF a
  <2> QED
    BY <1>1, DivMod
<1> HIDE DEF p, s
<1>3. ~ (p + 1 <= q)
  <2> SUFFICES ASSUME p + 1 <= q PROVE FALSE
    OBVIOUS
  <2>1. (p + 1) * b <= q * b
    BY <1>2, TimesMonotone
  <2>2. (p + 1) * b = p * b + b
    BY <1>2
  <2> QED
    BY <1>1, <1>2, <2>1, <2>2
<1>4. ~ (q + 1 <= p)
  <2> SUFFICES ASSUME q + 1 <= p PROVE FALSE
    OBVIOUS
  <2>1. (q + 1) * b <= p * b
    BY <1>2, TimesMonotone
  <2>2. (q + 1) * b = q * b + b
    OBVIOUS
  <2> QED
    BY <1>1, <1>2, <2>1, <2>2
<1>5. p = q
  BY <1>2, <1>3, <1>4
<1> QED
  BY <1>1, <1>2, <1>5 DEF p, s

-----------------------------------------------------------------------------
(* Sums: h has the sums of the first numbers of f. *)
Sums(h, f, n) ==
  /\ h \in [0 .. n -> Nat] /\ h[0] = 0
  /\ \A i \in 1 .. n : h[i] = h[i - 1] + f[i]

LEMMA SumUpToSums ==
  ASSUME NEW n \in Nat, NEW f, \A i \in 1 .. n : f[i] \in Nat
  PROVE  \E h : Sums(h, f, n) /\ SumUpTo(f, n) = h[n]
<1> DEFINE g == [i \in 1 .. n |-> [x \in Nat |-> x + f[i]]]
           sum == CHOOSE s : s = [i \in 0 .. n |->
                    IF i = 0 THEN 0 ELSE s[i - 1] + f[i]]
<1>1. g \in [1 .. n -> [Nat -> Nat]]
  OBVIOUS
<1>2. PICK h : Follows(h, n, Nat, 0, g)
  <2>1. 0 \in Nat
    OBVIOUS
  <2> HIDE DEF g
  <2> QED
    BY <1>1, <2>1, FollowsExists, Zenon
<1>3. \A i \in 1 .. n : h[i] = h[i - 1] + f[i]
  <2> SUFFICES ASSUME NEW i \in 1 .. n PROVE h[i] = h[i - 1] + f[i]
    OBVIOUS
  <2>1. i - 1 \in 0 .. n /\ h[i - 1] \in Nat
    BY <1>2 DEF Follows
  <2>2. g[i] = [x \in Nat |-> x + f[i]]
    OBVIOUS
  <2> HIDE DEF g
  <2> QED
    BY <1>2, <2>1, <2>2 DEF Follows
<1> HIDE DEF g
<1>4. h = [i \in 0 .. n |-> IF i = 0 THEN 0 ELSE h[i - 1] + f[i]]
  BY <1>2, <1>3 DEF Follows
<1>5. sum = [i \in 0 .. n |-> IF i = 0 THEN 0 ELSE sum[i - 1] + f[i]]
  BY <1>4
<1>6. SumUpTo(f, n) = sum[n]
  BY Zenon DEF SumUpTo
<1> HIDE DEF sum
<1>7. \A i \in 0 .. n : sum[i] = h[i]
  <2> DEFINE T == {i \in 0 .. n : sum[i] = h[i]}
  <2>1. 0 \in T
    BY <1>2, <1>5 DEF Follows
  <2>2. ASSUME NEW i \in 1 .. n, i - 1 \in T PROVE i \in T
    BY <1>3, <1>5, <2>2
  <2> HIDE DEF T
  <2>3. \A i \in 0 .. n : i \in T
    BY <2>1, <2>2, UpTo
  <2> QED
    BY <2>3 DEF T
<1>8. Sums(h, f, n)
  BY <1>2, <1>3 DEF Follows, Sums
<1>9. n \in 0 .. n
  OBVIOUS
<1> QED
  BY <1>6, <1>7, <1>8, <1>9

LEMMA SumsAgree ==
  ASSUME NEW m \in Nat, NEW n \in Nat, m <= n, NEW f, NEW h, NEW k,
         Sums(h, f, m), Sums(k, f, n)
  PROVE  h[m] = k[m]
<1> DEFINE T == {i \in 0 .. m : h[i] = k[i]}
<1>1. 0 \in T
  BY DEF Sums
<1>2. ASSUME NEW i \in 1 .. m, i - 1 \in T PROVE i \in T
  <2>1. i \in 1 .. n /\ i \in 0 .. m /\ h[i - 1] = k[i - 1]
    BY <1>2
  <2> QED
    BY <2>1 DEF Sums
<1> HIDE DEF T
<1>3. \A i \in 0 .. m : i \in T
  BY <1>1, <1>2, UpTo
<1> QED
  BY <1>3 DEF T

LEMMA SumUpToIs ==
  ASSUME NEW n \in Nat, NEW f, \A i \in 1 .. n : f[i] \in Nat,
         NEW k, Sums(k, f, n), NEW m \in 0 .. n
  PROVE  SumUpTo(f, m) = k[m]
<1>1. m \in Nat /\ m <= n /\ \A i \in 1 .. m : f[i] \in Nat
  OBVIOUS
<1>2. PICK h : Sums(h, f, m) /\ SumUpTo(f, m) = h[m]
  BY <1>1, SumUpToSums
<1>3. h[m] = k[m]
  BY <1>1, <1>2, SumsAgree
<1> QED
  BY <1>2, <1>3

LEMMA SumUpToStep ==
  ASSUME NEW n \in Nat, NEW f, \A i \in 1 .. n : f[i] \in Nat
  PROVE  /\ SumUpTo(f, n) \in Nat /\ SumUpTo(f, 0) = 0
         /\ n > 0 => SumUpTo(f, n) = SumUpTo(f, n - 1) + f[n]
<1>1. PICK h : Sums(h, f, n)
  BY SumUpToSums
<1>2. 0 \in 0 .. n /\ n \in 0 .. n /\ (n > 0 => n - 1 \in 0 .. n)
  OBVIOUS
<1>3. \A m \in 0 .. n : SumUpTo(f, m) = h[m]
  BY <1>1, SumUpToIs
<1> QED
  BY <1>1, <1>2, <1>3 DEF Sums

LEMMA SumUpToMonotone ==
  ASSUME NEW n \in Nat, NEW f, \A i \in 1 .. n : f[i] \in Nat,
         NEW m \in 0 .. n
  PROVE  SumUpTo(f, m) <= SumUpTo(f, n)
<1> DEFINE T == {i \in 0 .. n : m <= i => SumUpTo(f, m) <= SumUpTo(f, i)}
<1>1. \A i \in 0 .. n : SumUpTo(f, i) \in Nat
  BY SumUpToStep
<1>2. 0 \in T
  BY <1>1
<1>3. ASSUME NEW i \in 1 .. n, i - 1 \in T PROVE i \in T
  <2>1. SumUpTo(f, i) = SumUpTo(f, i - 1) + f[i]
    <3>1. i \in Nat /\ i > 0 /\ \A j \in 1 .. i : f[j] \in Nat
      OBVIOUS
    <3> QED
      BY <3>1, SumUpToStep
  <2>2. m = i \/ (m <= i => m <= i - 1)
    OBVIOUS
  <2>3. i - 1 \in 0 .. n /\ f[i] \in Nat
    OBVIOUS
  <2> QED
    BY <1>1, <1>3, <2>1, <2>2, <2>3
<1> HIDE DEF T
<1>4. \A i \in 0 .. n : i \in T
  BY <1>2, <1>3, UpTo
<1> QED
  BY <1>4 DEF T

-----------------------------------------------------------------------------
(* The calendar: dates, and the days until them. *)
L == Len(DaysInMonth)

Dates ==
  {cal \in [year : 0 .. YearsInCentury - 1, month : 1 .. L, date : Nat] :
     cal.date \in 1 .. MonthLength(cal)}

LEMMA YearsInCenturyIs ==
  YearsInCentury \in Nat /\ YearsInCentury >= 4 /\ YearsInCentury % 4 = 0
<1>1. YearsInCentury \in Nat \ {0} /\ YearsInCentury % 4 = 0
  BY RtcAssumption, Zenon
<1> QED
  BY <1>1

LEMMA MonthsAre ==
  /\ L \in Nat \ {0}
  /\ \A leap \in BOOLEAN, m \in 1 .. L :
       /\ MonthsOf(leap)[m] \in Nat \ {0}
       /\ MaxNumberOfDays <= MonthsOf(leap)[m]
<1>1. /\ DaysInMonth \in Seq(Nat \ {0}) /\ DaysInMonth # <<>>
      /\ DaysInMonthLeapYear \in Seq(Nat \ {0})
      /\ Len(DaysInMonthLeapYear) = L
  BY RtcAssumption DEF L
<1>2. L \in Nat \ {0}
  BY <1>1 DEF L
<1>3. DOMAIN DaysInMonth = 1 .. L
  BY <1>1 DEF L
<1>4. \A m \in 1 .. L : /\ DaysInMonth[m] \in Nat \ {0}
                        /\ DaysInMonthLeapYear[m] \in Nat \ {0}
  BY <1>1 DEF L
<1>5. \A m \in 1 .. L : /\ MaxNumberOfDays <= DaysInMonth[m]
                        /\ MaxNumberOfDays <= DaysInMonthLeapYear[m]
  BY <1>3, RtcAssumption
<1> QED
  BY <1>2, <1>4, <1>5 DEF MonthsOf

LEMMA MonthSums ==
  ASSUME NEW leap \in BOOLEAN, NEW m \in 0 .. L
  PROVE  /\ SumUpTo(MonthsOf(leap), m) \in Nat
         /\ SumUpTo(MonthsOf(leap), 0) = 0
         /\ m > 0 => SumUpTo(MonthsOf(leap), m) =
                      SumUpTo(MonthsOf(leap), m - 1) + MonthsOf(leap)[m]
         /\ SumUpTo(MonthsOf(leap), m) <= SumUpTo(MonthsOf(leap), L)
<1>1. L \in Nat /\ m \in Nat
  BY MonthsAre
<1>2. \A i \in 1 .. L : MonthsOf(leap)[i] \in Nat
  BY MonthsAre
<1>3. \A i \in 1 .. m : MonthsOf(leap)[i] \in Nat
  BY <1>1, <1>2
<1> QED
  BY <1>1, <1>2, <1>3, SumUpToStep, SumUpToMonotone

LEMMA YearsAre ==
  ASSUME NEW i \in Nat
  PROVE  /\ Years[i] \in Nat
         /\ Years[i] = SumUpTo(MonthsOf(i = 1 \/ (i - 1) % 4 = 0), L)
<1>1. (i = 1 \/ (i - 1) % 4 = 0) \in BOOLEAN
  OBVIOUS
<1>2. Years[i] = DaysInYear[i = 1 \/ (i - 1) % 4 = 0]
  BY Zenon DEF Years
<1>3. \A leap \in BOOLEAN : DaysInYear[leap] = SumUpTo(MonthsOf(leap), L)
  BY Zenon DEF DaysInYear, L
<1>4. L \in 0 .. L
  BY MonthsAre
<1>5. \A leap \in BOOLEAN : SumUpTo(MonthsOf(leap), L) \in Nat
  BY <1>4, MonthSums
<1> DEFINE b == i = 1 \/ (i - 1) % 4 = 0
<1> HIDE DEF b
<1> QED
  BY <1>1, <1>2, <1>3, <1>5 DEF b

LEMMA YearSums ==
  ASSUME NEW n \in Nat
  PROVE  /\ SumUpTo(Years, n) \in Nat /\ SumUpTo(Years, 0) = 0
         /\ SumUpTo(Years, n + 1) = SumUpTo(Years, n) + Years[n + 1]
         /\ \A m \in 0 .. n : SumUpTo(Years, m) <= SumUpTo(Years, n)
<1>1. \A i \in Nat : Years[i] \in Nat
  BY YearsAre
<1>2. n + 1 \in Nat /\ n + 1 > 0 /\ (n + 1) - 1 = n
  OBVIOUS
<1>3. \A k \in Nat : \A i \in 1 .. k : Years[i] \in Nat
  BY <1>1
<1>4. SumUpTo(Years, n + 1) = SumUpTo(Years, (n + 1) - 1) + Years[n + 1]
  BY <1>2, <1>3, SumUpToStep
<1> QED
  BY <1>2, <1>3, <1>4, SumUpToStep, SumUpToMonotone

(* The code's leap years are those of the chip. *)
LEMMA LeapAgrees ==
  ASSUME NEW y \in Nat, NEW c \in Nat, c % 4 = 0
  PROVE  /\ Leap(y, c) = (y % 4 = 0)
         /\ (y + c + 1 = 1 \/ ((y + c + 1) - 1) % 4 = 0) = (y % 4 = 0)
<1>1. (y + c) % 4 = 0 <=> y % 4 = 0
  OBVIOUS
<1>2. y = 0 => y % 4 = 0
  OBVIOUS
<1>3. y + c = 0 => y % 4 = 0
  OBVIOUS
<1> QED
  BY <1>1, <1>2, <1>3 DEF Leap

(* The century that NextDay(cal) belongs to, if cal belongs to c. *)
Over(cal, c) ==
  IF cal.year = YearsInCentury - 1 /\ NextDay(cal).year = 0
  THEN c + YearsInCentury ELSE c

LEMMA NextDayCounts ==
  ASSUME NEW cal \in Dates, NEW c \in Nat, c % 4 = 0
  PROVE  /\ NextDay(cal) \in Dates
         /\ \/ NextDay(cal).year = cal.year
            \/ /\ cal.year < YearsInCentury - 1
               /\ NextDay(cal).year = cal.year + 1
            \/ /\ cal.year = YearsInCentury - 1
               /\ NextDay(cal).year = 0
               /\ NextDay(cal) = FirstDay
         /\ Days(NextDay(cal), Over(cal, c)) = Days(cal, c) + 1
<1> DEFINE y == cal.year
           m == cal.month
           d == cal.date
           leap == y % 4 = 0
           months == MonthsOf(leap)
           next == NextDay(cal)
<1>1. /\ y \in 0 .. YearsInCentury - 1 /\ m \in 1 .. L /\ d \in 1 .. months[m]
      /\ cal = [year |-> y, month |-> m, date |-> d]
      /\ leap \in BOOLEAN /\ L \in Nat \ {0} /\ months[m] \in Nat \ {0}
      /\ YearsInCentury \in Nat /\ YearsInCentury >= 4 /\ YearsInCentury % 4 = 0
  <2>1. cal \in [year : 0 .. YearsInCentury - 1, month : 1 .. L, date : Nat]
    BY DEF Dates
  <2>2. d \in 1 .. months[m]
    BY DEF Dates, MonthLength
  <2>3. YearsInCentury \in Nat /\ YearsInCentury >= 4 /\ YearsInCentury % 4 = 0
    BY YearsInCenturyIs
  <2>4. leap \in BOOLEAN
    OBVIOUS
  <2>5. m \in 1 .. L
    BY <2>1
  <2>6. months[m] \in Nat \ {0} /\ L \in Nat \ {0}
    <3> HIDE DEF leap
    <3> QED
      BY <2>4, <2>5, MonthsAre
  <2> HIDE DEF months, leap
  <2> QED
    BY <2>1, <2>2, <2>3, <2>4, <2>6
<1>2. Leap(y, c) = leap
  BY <1>1, LeapAgrees
<1>3. Days(cal, c) = SumUpTo(Years, y + c) + SumUpTo(months, m - 1) + d
  BY <1>2, Zenon DEF Days
<1>4. /\ SumUpTo(Years, y + c) \in Nat
      /\ SumUpTo(Years, y + c + 1) = SumUpTo(Years, y + c) + Years[y + c + 1]
      /\ Years[y + c + 1] = SumUpTo(months, L)
  <2>1. y + c \in Nat /\ y + c + 1 \in Nat /\ y \in Nat
    BY <1>1
  <2>2. Years[y + c + 1] =
          SumUpTo(MonthsOf(y + c + 1 = 1 \/ ((y + c + 1) - 1) % 4 = 0), L)
    BY <2>1, YearsAre
  <2>3. (y + c + 1 = 1 \/ ((y + c + 1) - 1) % 4 = 0) = leap
    BY <2>1, LeapAgrees
  <2> QED
    BY <2>1, <2>2, <2>3, YearSums
<1>5. /\ SumUpTo(months, m - 1) \in Nat /\ SumUpTo(months, 0) = 0
      /\ SumUpTo(months, m) = SumUpTo(months, m - 1) + months[m]
  <2> HIDE DEF leap
  <2>1. m \in 0 .. L /\ m - 1 \in 0 .. L /\ m > 0
    BY <1>1
  <2> QED
    BY <1>1, <2>1, MonthSums
<1>6. MonthLength(cal) = months[m]
  BY DEF MonthLength
<1>7. CASE d < months[m]
  <2>1. next = [year |-> y, month |-> m, date |-> d + 1]
    BY <1>1, <1>6, <1>7 DEF NextDay
  <2>2. next.year = y /\ next.month = m /\ next.date = d + 1
    BY <2>1
  <2>3. MonthLength(next) = months[m]
    BY <2>2 DEF MonthLength
  <2>4. next \in Dates
    BY <1>1, <1>7, <2>1, <2>3 DEF Dates
  <2>5. Over(cal, c) = c
    BY <1>1, <2>2 DEF Over
  <2>6. Days(next, c) = SumUpTo(Years, y + c) + SumUpTo(months, m - 1) + (d + 1)
    BY <1>2, <2>2, Zenon DEF Days
  <2> QED
    BY <1>1, <1>3, <1>4, <1>5, <2>2, <2>4, <2>5, <2>6
<1>8. CASE d = months[m] /\ m < L
  <2>1. next = [year |-> y, month |-> m + 1, date |-> 1]
    <3>1. next = NextMonth(cal)
      <4> HIDE DEF months, leap
      <4> QED
        BY <1>1, <1>6, <1>8 DEF NextDay
    <3>2. NextMonth(cal) = [year |-> y, month |-> m + 1, date |-> 1]
      BY <1>8, Zenon DEF NextMonth, L
    <3> QED
      BY <3>1, <3>2
  <2>2. next.year = y /\ next.month = m + 1 /\ next.date = 1
    BY <2>1
  <2>3. MonthLength(next) = months[m + 1]
    BY <2>2 DEF MonthLength
  <2>4. next \in Dates
    <3>1. m + 1 \in 1 .. L
      BY <1>1, <1>8
    <3>2. months[m + 1] \in Nat \ {0}
      <4> HIDE DEF leap
      <4> QED
        BY <1>1, <3>1, MonthsAre
    <3> QED
      BY <1>1, <2>1, <2>3, <3>1, <3>2 DEF Dates
  <2>5. Over(cal, c) = c
    BY <1>1, <2>2 DEF Over
  <2>6. (m + 1) - 1 = m
    BY <1>1
  <2>7. Days(next, c) = SumUpTo(Years, y + c) + SumUpTo(months, m) + 1
    BY <1>2, <2>2, <2>6, Zenon DEF Days
  <2> QED
    BY <1>1, <1>3, <1>4, <1>5, <1>8, <2>2, <2>4, <2>5, <2>7
<1>9. CASE d = months[m] /\ m = L
  <2> DEFINE z == (y + 1) % YearsInCentury
             e == Over(cal, c)
  <2>1. next = [year |-> z, month |-> 1, date |-> 1]
    BY <1>1, <1>6, <1>9 DEF NextDay, NextMonth, L
  <2>2. next.year = z /\ next.month = 1 /\ next.date = 1
    BY <2>1
  <2>3. \/ y < YearsInCentury - 1 /\ z = y + 1
        \/ y = YearsInCentury - 1 /\ z = 0
    <3>1. CASE y < YearsInCentury - 1
      <4> HIDE DEF y
      <4>1. y + 1 \in 0 .. YearsInCentury - 1
        BY <1>1, <3>1
      <4>2. y + 1 = 0 * YearsInCentury + (y + 1) /\ 0 \in Nat
        BY <1>1
      <4>3. YearsInCentury \in Nat \ {0}
        BY YearsInCenturyIs
      <4>4. (0 * YearsInCentury + (y + 1)) % YearsInCentury = y + 1
        BY <4>1, <4>2, <4>3, DivModUnique
      <4> QED
        BY <3>1, <4>2, <4>4
    <3>2. CASE y = YearsInCentury - 1
      <4>1. 0 \in 0 .. YearsInCentury - 1 /\ y + 1 = 1 * YearsInCentury + 0
        BY <1>1, <3>2
      <4>2. z = 0
        BY <1>1, <4>1, DivModUnique
      <4> QED
        BY <3>2, <4>2
    <3> QED
      BY <1>1, <3>1, <3>2
  <2> HIDE DEF z
  <2>4. z \in 0 .. YearsInCentury - 1 /\ z \in Nat
    BY <1>1, <2>3
  <2>5. e \in Nat /\ e % 4 = 0 /\ z + e = y + c + 1
    BY <1>1, <2>2, <2>3 DEF Over
  <2> HIDE DEF e
  <2>6. (z % 4 = 0) \in BOOLEAN /\ 1 \in 1 .. L
    BY <1>1
  <2>7. MonthsOf(z % 4 = 0)[1] \in Nat \ {0}
    BY <2>6, MonthsAre
  <2>8. MonthLength(next) = MonthsOf(z % 4 = 0)[1]
    BY <2>2 DEF MonthLength
  <2>9. next \in Dates
    <3> HIDE DEF next
    <3> QED
      BY <2>1, <2>4, <2>6, <2>7, <2>8 DEF Dates
  <2>10. Leap(z, e) = (z % 4 = 0)
    BY <2>4, <2>5, LeapAgrees
  <2>11. SumUpTo(MonthsOf(z % 4 = 0), 0) = 0
    <3>1. 0 \in 0 .. L
      BY <1>1
    <3> QED
      BY <2>6, <3>1, MonthSums
  <2>12. Days(next, e) = SumUpTo(Years, y + c + 1) + 0 + 1
    <3>1. Days(next, e) = SumUpTo(Years, z + e) + SumUpTo(MonthsOf(Leap(z, e)), 1 - 1) + 1
      BY <2>2, Zenon DEF Days
    <3> QED
      BY <2>5, <2>10, <2>11, <3>1
  <2>13. z = 0 => next = FirstDay
    BY <2>1 DEF FirstDay
  <2> HIDE DEF next
  <2>14. Days(next, e) = Days(cal, c) + 1
    <3> HIDE DEF months
    <3> QED
      BY <1>1, <1>3, <1>4, <1>5, <1>9, <2>12
  <2> QED
    BY <2>2, <2>3, <2>9, <2>13, <2>14 DEF next, e
<1> QED
  BY <1>1, <1>7, <1>8, <1>9

LEMMA FirstDayIs ==
  /\ FirstDay \in Dates
  /\ \A c \in Nat : Days(FirstDay, c) = SumUpTo(Years, c) + 1
<1>1. L \in Nat \ {0} /\ 1 \in 1 .. L /\ 0 \in 0 .. L
  BY MonthsAre
<1>2. FirstDay = [year |-> 0, month |-> 1, date |-> 1]
  BY DEF FirstDay
<1>3. MonthLength(FirstDay) = MonthsOf(0 % 4 = 0)[1] /\ 0 % 4 = 0
  BY <1>2 DEF MonthLength
<1>4. MonthLength(FirstDay) \in Nat \ {0}
  BY <1>1, <1>3, MonthsAre
<1>5. 0 \in 0 .. YearsInCentury - 1
  BY YearsInCenturyIs
<1>6. FirstDay \in Dates
  BY <1>1, <1>2, <1>4, <1>5 DEF Dates
<1>7. ASSUME NEW c \in Nat PROVE Days(FirstDay, c) = SumUpTo(Years, c) + 1
  <2>1. Leap(0, c) \in BOOLEAN
    BY DEF Leap
  <2>2. SumUpTo(MonthsOf(Leap(0, c)), 0) = 0
    BY <1>1, <2>1, MonthSums
  <2>3. Days(FirstDay, c) =
          SumUpTo(Years, 0 + c) + SumUpTo(MonthsOf(Leap(0, c)), 1 - 1) + 1
    BY <1>2, Zenon DEF Days, FirstDay
  <2>4. 0 + c = c /\ 1 - 1 = 0 /\ SumUpTo(Years, c) \in Nat
    BY YearSums
  <2> QED
    BY <2>2, <2>3, <2>4
<1> QED
  BY <1>6, <1>7

LEMMA NextDayType == \A cal \in Dates : NextDay(cal) \in Dates
<1>1. 0 \in Nat /\ 0 % 4 = 0
  OBVIOUS
<1> QED
  BY <1>1, NextDayCounts

(* h has the first days. *)
Follow(h, n) ==
  /\ h \in [0 .. n -> Dates] /\ h[0] = FirstDay
  /\ \A i \in 1 .. n : h[i] = NextDay(h[i - 1])

LEMMA CalendarDayFollows ==
  ASSUME NEW n \in Nat
  PROVE  \E h : Follow(h, n) /\ CalendarDay(n) = h[n]
<1> DEFINE g == [i \in 1 .. n |-> [x \in Dates |-> NextDay(x)]]
           day == CHOOSE s : s = [i \in 0 .. n |->
                    IF i = 0 THEN FirstDay ELSE NextDay(s[i - 1])]
<1>1. g \in [1 .. n -> [Dates -> Dates]]
  BY NextDayType
<1>2. PICK h : Follows(h, n, Dates, FirstDay, g)
  <2> HIDE DEF g
  <2> QED
    BY <1>1, FirstDayIs, FollowsExists, Zenon
<1>3. \A i \in 1 .. n : h[i] = NextDay(h[i - 1])
  <2> SUFFICES ASSUME NEW i \in 1 .. n PROVE h[i] = NextDay(h[i - 1])
    OBVIOUS
  <2>1. i - 1 \in 0 .. n /\ h[i - 1] \in Dates
    BY <1>2 DEF Follows
  <2>2. g[i] = [x \in Dates |-> NextDay(x)]
    OBVIOUS
  <2> HIDE DEF g
  <2> QED
    BY <1>2, <2>1, <2>2 DEF Follows
<1> HIDE DEF g
<1>4. h = [i \in 0 .. n |-> IF i = 0 THEN FirstDay ELSE NextDay(h[i - 1])]
  BY <1>2, <1>3 DEF Follows
<1>5. day = [i \in 0 .. n |-> IF i = 0 THEN FirstDay ELSE NextDay(day[i - 1])]
  BY <1>4
<1>6. CalendarDay(n) = day[n]
  BY Zenon DEF CalendarDay
<1> HIDE DEF day
<1>7. \A i \in 0 .. n : day[i] = h[i]
  <2> DEFINE T == {i \in 0 .. n : day[i] = h[i]}
  <2>1. 0 \in T
    BY <1>2, <1>5 DEF Follows
  <2>2. ASSUME NEW i \in 1 .. n, i - 1 \in T PROVE i \in T
    BY <1>3, <1>5, <2>2
  <2> HIDE DEF T
  <2>3. \A i \in 0 .. n : i \in T
    BY <2>1, <2>2, UpTo
  <2> QED
    BY <2>3 DEF T
<1>8. Follow(h, n)
  BY <1>2, <1>3 DEF Follows, Follow
<1>9. n \in 0 .. n
  OBVIOUS
<1> QED
  BY <1>6, <1>7, <1>8, <1>9

LEMMA FollowAgree ==
  ASSUME NEW m \in Nat, NEW n \in Nat, m <= n, NEW h, NEW k,
         Follow(h, m), Follow(k, n)
  PROVE  h[m] = k[m]
<1> DEFINE T == {i \in 0 .. m : h[i] = k[i]}
<1>1. 0 \in T
  BY DEF Follow
<1>2. ASSUME NEW i \in 1 .. m, i - 1 \in T PROVE i \in T
  <2>1. i \in 1 .. n /\ i \in 0 .. m /\ h[i - 1] = k[i - 1]
    BY <1>2
  <2> QED
    BY <2>1 DEF Follow
<1> HIDE DEF T
<1>3. \A i \in 0 .. m : i \in T
  BY <1>1, <1>2, UpTo
<1> QED
  BY <1>3 DEF T

LEMMA CalendarDayStep ==
  ASSUME NEW n \in Nat
  PROVE  /\ CalendarDay(n) \in Dates /\ CalendarDay(0) = FirstDay
         /\ CalendarDay(n + 1) = NextDay(CalendarDay(n))
<1>1. PICK h : Follow(h, n) /\ CalendarDay(n) = h[n]
  BY CalendarDayFollows
<1>2. PICK k : Follow(k, n + 1) /\ CalendarDay(n + 1) = k[n + 1]
  BY CalendarDayFollows
<1>3. PICK z : Follow(z, 0) /\ CalendarDay(0) = z[0]
  BY CalendarDayFollows
<1>4. h[n] = k[n]
  BY <1>1, <1>2, FollowAgree
<1>5. k[n + 1] = NextDay(k[n])
  <2>1. n + 1 \in 1 .. n + 1 /\ (n + 1) - 1 = n
    OBVIOUS
  <2> QED
    BY <1>2, <2>1 DEF Follow
<1>6. h[n] \in Dates
  <2>1. n \in 0 .. n
    OBVIOUS
  <2> QED
    BY <1>1, <2>1 DEF Follow
<1> QED
  BY <1>1, <1>2, <1>3, <1>4, <1>5, <1>6 DEF Follow

(* A century has room for every date, and its last day comes last. *)
LEMMA DaysBounded ==
  ASSUME NEW cal \in Dates
  PROVE  Days(cal, 0) \in 1 .. DaysInCentury
<1> DEFINE y == cal.year
           m == cal.month
           d == cal.date
           leap == y % 4 = 0
           months == MonthsOf(leap)
<1>1. y \in 0 .. YearsInCentury - 1 /\ m \in 1 .. L /\ d \in 1 .. months[m]
  BY DEF Dates, MonthLength
<1>2. leap \in BOOLEAN
  OBVIOUS
<1>3. Leap(y, 0) = leap /\ Years[y + 1] = SumUpTo(months, L) /\ y \in Nat
  <2>1. y \in Nat /\ 0 \in Nat /\ 0 % 4 = 0 /\ y + 1 \in Nat /\ y + 0 + 1 = y + 1
    BY <1>1, YearsInCenturyIs
  <2>2. Years[y + 0 + 1] =
          SumUpTo(MonthsOf(y + 0 + 1 = 1 \/ ((y + 0 + 1) - 1) % 4 = 0), L)
    BY <2>1, YearsAre
  <2>3. (y + 0 + 1 = 1 \/ ((y + 0 + 1) - 1) % 4 = 0) = leap
    BY <2>1, LeapAgrees
  <2> QED
    BY <2>1, <2>2, <2>3, LeapAgrees
<1>4. Days(cal, 0) = SumUpTo(Years, y + 0) + SumUpTo(months, m - 1) + d
  BY <1>3, Zenon DEF Days
<1> HIDE DEF leap
<1>5. /\ SumUpTo(months, m - 1) \in Nat /\ months[m] \in Nat
      /\ SumUpTo(months, m - 1) + months[m] <= SumUpTo(months, L)
      /\ SumUpTo(months, L) \in Nat
  <2>1. m \in 0 .. L /\ m - 1 \in 0 .. L /\ m > 0 /\ L \in 0 .. L
    BY <1>1, MonthsAre
  <2>2. SumUpTo(months, m) = SumUpTo(months, m - 1) + months[m]
    BY <1>2, <2>1, MonthSums
  <2>3. SumUpTo(months, m) <= SumUpTo(months, L)
    BY <1>2, <2>1, MonthSums
  <2>4. SumUpTo(months, m - 1) \in Nat /\ SumUpTo(months, L) \in Nat
    BY <1>2, <2>1, MonthSums
  <2>5. months[m] \in Nat
    BY <1>1, <1>2, MonthsAre
  <2> QED
    BY <2>2, <2>3, <2>4, <2>5
<1>6. /\ SumUpTo(Years, y) \in Nat
      /\ SumUpTo(Years, y) + SumUpTo(months, L) <= DaysInCentury
      /\ DaysInCentury \in Nat
  <2>1. y + 1 \in 0 .. YearsInCentury /\ YearsInCentury \in Nat
    BY <1>1, YearsInCenturyIs
  <2>2. SumUpTo(Years, y + 1) <= SumUpTo(Years, YearsInCentury)
    BY <2>1, YearSums
  <2>3. SumUpTo(Years, y + 1) = SumUpTo(Years, y) + SumUpTo(months, L)
    BY <1>3, YearSums
  <2>4. SumUpTo(Years, y) \in Nat /\ SumUpTo(Years, YearsInCentury) \in Nat
    BY <1>3, <2>1, YearSums
  <2> QED
    BY <2>2, <2>3, <2>4 DEF DaysInCentury
<1> DEFINE a == SumUpTo(Years, y)
           b == SumUpTo(months, m - 1)
<1>7. Days(cal, 0) = a + b + d
  BY <1>3, <1>4
<1> HIDE DEF a, b, d
<1> QED
  BY <1>1, <1>5, <1>6, <1>7 DEF a, b, d

LEMMA CenturyIs == DaysInCentury \in Nat \ {0}
<1>1. Days(FirstDay, 0) \in 1 .. DaysInCentury
  BY FirstDayIs, DaysBounded
<1>2. DaysInCentury \in Nat
  BY YearsInCenturyIs, YearSums DEF DaysInCentury
<1> QED
  BY <1>1, <1>2

LEMMA CenturyCounts ==
  \A n \in 0 .. DaysInCentury - 1 : Days(CalendarDay(n), 0) = n + 1
<1> DEFINE N == DaysInCentury
           T == {n \in 0 .. N - 1 : Days(CalendarDay(n), 0) = n + 1}
<1>1. N \in Nat /\ N > 0
  BY CenturyIs
<1>2. 0 \in T
  <2>1. Days(FirstDay, 0) = 0 + 1
    BY FirstDayIs, YearSums
  <2> QED
    BY <1>1, <2>1, CalendarDayStep
<1>3. ASSUME NEW i \in 1 .. N - 1, i - 1 \in T PROVE i \in T
  <2> DEFINE cal == CalendarDay(i - 1)
  <2>1. i \in Nat /\ i - 1 \in Nat /\ (i - 1) + 1 = i /\ i < N
    BY <1>1
  <2>2. cal \in Dates /\ CalendarDay(i) = NextDay(cal)
    BY <2>1, CalendarDayStep
  <2>3. Days(cal, 0) = i
    BY <1>3, <2>1
  <2> HIDE DEF cal
  <2>4. 0 \in Nat /\ 0 % 4 = 0 /\ YearsInCentury \in Nat
    BY YearsInCenturyIs
  <2>5. Days(NextDay(cal), Over(cal, 0)) = i + 1
    BY <2>2, <2>3, <2>4, NextDayCounts
  <2>6. Over(cal, 0) = 0
    <3> SUFFICES ASSUME Over(cal, 0) # 0 PROVE FALSE
      OBVIOUS
    <3>1. /\ cal.year = YearsInCentury - 1 /\ NextDay(cal).year = 0
          /\ Over(cal, 0) = YearsInCentury
      BY <2>4 DEF Over
    <3>2. NextDay(cal) = FirstDay
      BY <2>2, <2>4, <3>1, YearsInCenturyIs, NextDayCounts
    <3>3. Days(FirstDay, YearsInCentury) = N + 1
      BY <2>4, FirstDayIs DEF DaysInCentury
    <3> QED
      BY <1>1, <2>1, <2>5, <3>1, <3>2, <3>3
  <2> QED
    BY <2>1, <2>2, <2>5, <2>6
<1> HIDE DEF T
<1>4. \A i \in 0 .. N - 1 : i \in T
  <2>1. N - 1 \in Nat
    BY <1>1
  <2> HIDE DEF N
  <2> QED
    BY <1>2, <1>3, <2>1, UpTo
<1> QED
  BY <1>4 DEF T

LEMMA CenturyEnds == NextDay(CalendarDay(DaysInCentury - 1)) = FirstDay
<1> DEFINE cal == CalendarDay(DaysInCentury - 1)
           N == DaysInCentury
<1>1. N \in Nat /\ N - 1 \in 0 .. N - 1 /\ N - 1 \in Nat
  BY CenturyIs
<1>2. cal \in Dates /\ Days(cal, 0) = N
  BY <1>1, CalendarDayStep, CenturyCounts
<1>3. 0 \in Nat /\ 0 % 4 = 0
  OBVIOUS
<1> HIDE DEF cal
<1>4. NextDay(cal) \in Dates /\ Days(NextDay(cal), Over(cal, 0)) = N + 1
  BY <1>2, <1>3, NextDayCounts
<1>5. Over(cal, 0) # 0
  BY <1>1, <1>4, DaysBounded
<1>6. cal.year = YearsInCentury - 1 /\ NextDay(cal).year = 0
  BY <1>5 DEF Over
<1> QED
  BY <1>2, <1>3, <1>6, YearsInCenturyIs, NextDayCounts DEF cal

(* From day to day, over the ends of centuries. *)
DayAt(d) == CalendarDays[d % DaysInCentury]

LEMMA DayAtStep ==
  ASSUME NEW d \in Nat
  PROVE  DayAt(d) \in Dates /\ DayAt(d + 1) = NextDay(DayAt(d))
<1> DEFINE N == DaysInCentury
           n == d % N
           q == d \div N
<1>1. N \in Nat \ {0}
  BY CenturyIs
<1>2. q \in Nat /\ n \in 0 .. N - 1 /\ d = q * N + n
  <2> HIDE DEF N
  <2> QED
    BY <1>1, DivMod
<1>3. \A i \in 0 .. N - 1 : CalendarDays[i] = CalendarDay(i)
  BY DEF CalendarDays
<1>4. DayAt(d) = CalendarDay(n)
  BY <1>2, <1>3 DEF DayAt
<1> HIDE DEF n, q
<1>5. CASE n < N - 1
  <2>1. n + 1 \in 0 .. N - 1 /\ d + 1 = q * N + (n + 1)
    BY <1>1, <1>2, <1>5
  <2>2. (d + 1) % N = n + 1
    <3> HIDE DEF N
    <3> QED
      BY <1>1, <1>2, <2>1, DivModUnique
  <2> QED
    BY <1>2, <1>3, <1>4, <2>1, <2>2, CalendarDayStep DEF DayAt
<1>6. CASE n = N - 1
  <2>1. 0 \in 0 .. N - 1 /\ q + 1 \in Nat /\ d + 1 = (q + 1) * N + 0
    BY <1>1, <1>2, <1>6
  <2>2. (d + 1) % N = 0
    <3> HIDE DEF N
    <3> QED
      BY <1>1, <2>1, DivModUnique
  <2>3. DayAt(d + 1) = FirstDay
    BY <1>3, <2>1, <2>2, CalendarDayStep DEF DayAt
  <2> QED
    BY <1>2, <1>4, <1>6, <2>3, CenturyEnds, CalendarDayStep
<1> QED
  BY <1>1, <1>2, <1>5, <1>6

-----------------------------------------------------------------------------
(* The clock: what the century and the flag have to be for the calendar    *)
(* to say, at tick t, how many days have passed.                           *)
Belongs(t, c, ready) ==
  IF ready /\ Calendar(t).year = 0 THEN c + YearsInCentury ELSE c

ClockAt(t, c, ready) ==
  /\ t \in Nat /\ c \in Nat /\ c % 4 = 0 /\ ready \in BOOLEAN
  /\ ready => Calendar(t).year \in {0, YearsInCentury - 1}
  /\ Days(Calendar(t), Belongs(t, c, ready)) = t \div SecondsInDay + 1

LEMMA SecondsInDayIs == SecondsInDay \in Nat \ {0}
BY RtcAssumption, Zenon

LEMMA CalendarIs ==
  ASSUME NEW t \in Nat
  PROVE  /\ t \div SecondsInDay \in Nat
         /\ TimeOfDay(t) \in 0 .. SecondsInDay - 1
         /\ t = (t \div SecondsInDay) * SecondsInDay + TimeOfDay(t)
         /\ Calendar(t) = DayAt(t \div SecondsInDay)
         /\ Calendar(t) \in Dates
         /\ Calendar(t).year \in 0 .. YearsInCentury - 1
<1>1. /\ t \div SecondsInDay \in Nat
      /\ TimeOfDay(t) \in 0 .. SecondsInDay - 1
      /\ t = (t \div SecondsInDay) * SecondsInDay + TimeOfDay(t)
  BY SecondsInDayIs, DivMod DEF TimeOfDay
<1>2. Calendar(t) = DayAt(t \div SecondsInDay)
  BY DEF Calendar, DayAt
<1>3. Calendar(t) \in Dates
  BY <1>1, <1>2, DayAtStep
<1>4. Calendar(t).year \in 0 .. YearsInCentury - 1
  BY <1>3 DEF Dates
<1> QED
  BY <1>1, <1>2, <1>3, <1>4

LEMMA NextTick ==
  ASSUME NEW t \in Nat
  PROVE  \/ /\ (t + 1) \div SecondsInDay = t \div SecondsInDay
            /\ Calendar(t + 1) = Calendar(t)
         \/ /\ (t + 1) \div SecondsInDay = t \div SecondsInDay + 1
            /\ Calendar(t + 1) = NextDay(Calendar(t))
<1> DEFINE S == SecondsInDay
           d == t \div S
           r == TimeOfDay(t)
<1>1. S \in Nat \ {0} /\ d \in Nat /\ r \in 0 .. S - 1 /\ t = d * S + r
  BY SecondsInDayIs, CalendarIs
<1> HIDE DEF d, r
<1>2. CASE r + 1 < S
  <2>1. r + 1 \in 0 .. S - 1 /\ t + 1 = d * S + (r + 1)
    BY <1>1, <1>2
  <2>2. (t + 1) \div S = d
    <3> HIDE DEF S
    <3> QED
      BY <1>1, <2>1, DivModUnique
  <2> QED
    BY <2>2 DEF Calendar, d
<1>3. CASE r + 1 = S
  <2>1. 0 \in 0 .. S - 1 /\ t + 1 = (d + 1) * S + 0 /\ d + 1 \in Nat
    BY <1>1, <1>3
  <2>2. (t + 1) \div S = d + 1
    <3> HIDE DEF S
    <3> QED
      BY <1>1, <2>1, DivModUnique
  <2>3. Calendar(t + 1) = DayAt(d + 1) /\ Calendar(t) = DayAt(d)
    BY <2>2 DEF Calendar, DayAt, d
  <2>4. DayAt(d + 1) = NextDay(DayAt(d))
    BY <1>1, DayAtStep
  <2> QED
    BY <2>2, <2>3, <2>4 DEF d
<1> QED
  BY <1>1, <1>2, <1>3

LEMMA ClockTick ==
  ASSUME NEW t, NEW c, NEW ready, ClockAt(t, c, ready),
         Calendar(t + 1).year # Calendar(t).year =>
           ready = (Calendar(t).year = YearsInCentury - 1)
  PROVE  ClockAt(t + 1, c, ready)
<1> DEFINE cal == Calendar(t)
           next == Calendar(t + 1)
           b == Belongs(t, c, ready)
           d == t \div SecondsInDay
<1>1. /\ t \in Nat /\ c \in Nat /\ c % 4 = 0 /\ ready \in BOOLEAN
      /\ ready => cal.year \in {0, YearsInCentury - 1}
      /\ Days(cal, b) = d + 1
  BY DEF ClockAt
<1>2. /\ YearsInCentury \in Nat /\ YearsInCentury >= 4 /\ YearsInCentury % 4 = 0
      /\ cal \in Dates /\ cal.year \in 0 .. YearsInCentury - 1
  BY <1>1, YearsInCenturyIs, CalendarIs
<1>3. d \in Nat /\ t + 1 \in Nat
  BY <1>1, CalendarIs
<1>4. CASE (t + 1) \div SecondsInDay = d /\ next = cal
  BY <1>1, <1>3, <1>4 DEF ClockAt, Belongs
<1>5. CASE (t + 1) \div SecondsInDay = d + 1 /\ next = NextDay(cal)
  <2>1. b \in Nat /\ b % 4 = 0
    BY <1>1, <1>2 DEF Belongs
  <2>2. b = IF ready /\ cal.year = 0 THEN c + YearsInCentury ELSE c
    BY DEF Belongs
  <2>3. Belongs(t + 1, c, ready)
          = IF ready /\ next.year = 0 THEN c + YearsInCentury ELSE c
    BY DEF Belongs
  <2>4. next.year # cal.year => ready = (cal.year = YearsInCentury - 1)
    OBVIOUS
  <2> HIDE DEF b, next, cal
  <2>5. Days(next, Over(cal, b)) = (d + 1) + 1
    BY <1>1, <1>2, <1>5, <2>1, NextDayCounts
  <2>6. \/ next.year = cal.year
        \/ cal.year < YearsInCentury - 1 /\ next.year = cal.year + 1
        \/ cal.year = YearsInCentury - 1 /\ next.year = 0
    BY <1>2, <1>5, <2>1, NextDayCounts
  <2>7. Over(cal, b) = Belongs(t + 1, c, ready)
    BY <1>1, <1>2, <1>5, <2>2, <2>3, <2>4, <2>6 DEF Over
  <2>8. ASSUME ready PROVE next.year \in {0, YearsInCentury - 1}
    <3>1. next.year # cal.year => cal.year = YearsInCentury - 1
      BY <2>4, <2>8, Zenon
    <3>2. cal.year \in {0, YearsInCentury - 1}
      BY <1>1, <2>8
    <3> QED
      BY <1>2, <2>6, <3>1, <3>2
  <2> QED
    BY <1>1, <1>3, <1>5, <2>5, <2>7, <2>8 DEF ClockAt, next
<1> QED
  BY <1>1, <1>4, <1>5, NextTick

LEMMA ClockTime ==
  ASSUME NEW t, NEW c, NEW ready, ClockAt(t, c, ready)
  PROVE  TimerTime(t, Belongs(t, c, ready)) = Ms(t + SecondsInDay)
<1> DEFINE d == t \div SecondsInDay
<1>1. t \in Nat /\ Days(Calendar(t), Belongs(t, c, ready)) = d + 1
  BY DEF ClockAt
<1>2. d \in Nat /\ t = d * SecondsInDay + TimeOfDay(t) /\ SecondsInDay \in Nat
      /\ TimeOfDay(t) \in Nat
  BY <1>1, CalendarIs, SecondsInDayIs
<1> HIDE DEF d
<1>3. (d + 1) * SecondsInDay + TimeOfDay(t) = t + SecondsInDay
  BY <1>2
<1> QED
  BY <1>1, <1>3 DEF TimerTime

(* Reading the clock sets it right. *)
LEMMA ClockRead ==
  ASSUME ClockAt(tick, Century, CalendarRollOverReady), ReadsClock(tick)
  PROVE  /\ Century' = Belongs(tick, Century, CalendarRollOverReady)
         /\ CalendarRollOverReady' = (Calendar(tick).year = YearsInCentury - 1)
         /\ ClockAt(tick, Century', CalendarRollOverReady')
         /\ TimerTime(tick, Century') = Ms(tick + SecondsInDay)
<1> DEFINE cal == Calendar(tick)
           b == Belongs(tick, Century, CalendarRollOverReady)
<1>1. /\ tick \in Nat /\ Century \in Nat /\ Century % 4 = 0
      /\ CalendarRollOverReady \in BOOLEAN
      /\ CalendarRollOverReady => cal.year \in {0, YearsInCentury - 1}
      /\ Days(cal, b) = tick \div SecondsInDay + 1
  BY DEF ClockAt
<1>2. /\ YearsInCentury \in Nat /\ YearsInCentury >= 4 /\ YearsInCentury % 4 = 0
      /\ cal.year \in 0 .. YearsInCentury - 1
  BY <1>1, YearsInCenturyIs, CalendarIs
<1>3. b = IF CalendarRollOverReady /\ cal.year = 0
          THEN Century + YearsInCentury ELSE Century
  BY DEF Belongs
<1>4. /\ Century' = b
      /\ CalendarRollOverReady' = (cal.year = YearsInCentury - 1)
  <2>1. RollsOver(cal.year, CalendarRollOverReady)
          <=> CalendarRollOverReady /\ cal.year = 0
    BY <1>2 DEF RollsOver, Ready
  <2>2. Century' = b
    BY <1>3, <2>1 DEF ReadsClock
  <2>3. CalendarRollOverReady' =
          ((CalendarRollOverReady \/ cal.year = YearsInCentury - 1)
             /\ ~RollsOver(cal.year, CalendarRollOverReady))
    BY Zenon DEF ReadsClock, Ready
  <2>4. cal.year = YearsInCentury - 1 => cal.year # 0
    BY <1>2
  <2>5. CalendarRollOverReady => cal.year = 0 \/ cal.year = YearsInCentury - 1
    BY <1>1
  <2>6. CalendarRollOverReady' = (cal.year = YearsInCentury - 1)
    <3> HIDE DEF cal
    <3> QED
      BY <2>1, <2>3, <2>4, <2>5, Zenon
  <2> QED
    BY <2>2, <2>6
<1>5. b \in Nat /\ b % 4 = 0
  BY <1>1, <1>2, <1>3
<1>6. Belongs(tick, Century', CalendarRollOverReady') = Century'
  <2>1. cal.year = YearsInCentury - 1 => cal.year # 0
    BY <1>2
  <2> HIDE DEF b
  <2> QED
    BY <1>4, <2>1, Zenon DEF Belongs
<1>7. ClockAt(tick, Century', CalendarRollOverReady')
  <2> HIDE DEF b
  <2> QED
    BY <1>1, <1>4, <1>5, <1>6 DEF ClockAt
<1> QED
  BY <1>4, <1>6, <1>7, ClockTime

(* The clock's part of the invariant. *)
ClockInv ==
  /\ ClockAt(tick, Century, CalendarRollOverReady)
  /\ until \in Nat /\ tick <= until
  /\ Ms(until + SecondsInDay) <= MaxTime

LEMMA Start ==
  ASSUME NEW t \in Starts
  PROVE  /\ ClockAt(t, 0, FALSE) /\ t + Horizon \in Nat /\ t <= t + Horizon
         /\ Ms(t + Horizon + SecondsInDay) <= MaxTime
<1>1. Starts \subseteq Nat /\ Horizon \in Nat
  BY RtcAssumption, Zenon
<1>2. /\ t \div SecondsInDay < DaysInCentury
      /\ Ms(t + Horizon + SecondsInDay) <= MaxTime
  BY StartsAssumption
<1>3. t \in Nat
  BY <1>1
<1> DEFINE d == t \div SecondsInDay
<1>4. d \in Nat /\ Calendar(t) = DayAt(d) /\ DaysInCentury \in Nat \ {0}
  BY <1>3, CalendarIs, CenturyIs
<1> HIDE DEF d
<1>5. d \in 0 .. DaysInCentury - 1 /\ d = 0 * DaysInCentury + d /\ 0 \in Nat
  BY <1>2, <1>4 DEF d
<1>6. d % DaysInCentury = d
  BY <1>4, <1>5, DivModUnique
<1>7. Calendar(t) = CalendarDay(d)
  BY <1>4, <1>5, <1>6 DEF DayAt, CalendarDays
<1>8. Days(Calendar(t), 0) = d + 1
  BY <1>5, <1>7, CenturyCounts
<1>9. Belongs(t, 0, FALSE) = 0
  BY DEF Belongs
<1>10. 0 \in Nat /\ 0 % 4 = 0 /\ FALSE \in BOOLEAN
  OBVIOUS
<1>11. ClockAt(t, 0, FALSE)
  BY <1>3, <1>8, <1>9, <1>10, Zenon DEF ClockAt, d
<1>12. t + Horizon \in Nat /\ t <= t + Horizon
  BY <1>1, <1>3
<1> QED
  BY <1>2, <1>11, <1>12

LEMMA ClockInit == Init => ClockInv
<1> SUFFICES ASSUME Init PROVE ClockInv
  OBVIOUS
<1>1. /\ tick \in Starts /\ Century = 0 /\ CalendarRollOverReady = FALSE
      /\ until = tick + Horizon
  BY DEF Init, RtcInit
<1> QED
  BY <1>1, Start DEF ClockInv

(* What a step does to the clock: nothing, a reading, after which a tick   *)
(* may pass, or a tick.                                                    *)
ReadsAndGoesOn ==
  /\ ReadsClock(tick) /\ UNCHANGED until
  /\ tick' = tick \/ (tick' = tick + 1 /\ tick' <= until)

LEMMA TimeoutGoesOn ==
  ASSUME NEW timeout, NEW c, tick \in Nat, until \in Nat,
         RtcSetTimeout(timeout, c)
  PROVE  tick' = tick \/ (tick' = tick + 1 /\ tick' <= until)
<1>1. Late \in {0, 1}
  BY RtcAssumption, Zenon
<1>2. PICK late \in 0 .. Late : tick + late <= until /\ tick' = tick + late
  BY Zenon DEF RtcSetTimeout
<1> QED
  BY <1>1, <1>2

LEMMA ScheduleGoesOn ==
  ASSUME NEW joined, NEW again, tick \in Nat, until \in Nat,
         ScheduleTx(joined, again), tick <= until
  PROVE  ReadsAndGoesOn
<1>1. ReadsClock(tick)
  BY Zenon DEF ScheduleTx
<1>2. \/ \E b, off : Send(b, off)
      \/ \E delay, off, needed : PutOff(delay, off, needed, again)
  BY Zenon DEF ScheduleTx
<1>3. ASSUME NEW b, NEW off, Send(b, off) PROVE tick' = tick /\ until' = until
  BY <1>3 DEF Send, NoAlarm
<1>4. ASSUME NEW delay, NEW off, NEW needed, PutOff(delay, off, needed, again)
      PROVE  /\ tick' = tick \/ (tick' = tick + 1 /\ tick' <= until)
             /\ until' = until
  BY <1>4, TimeoutGoesOn DEF PutOff
<1> QED
  BY <1>1, <1>2, <1>3, <1>4 DEF ReadsAndGoesOn

LEMMA ClockSteps ==
  ASSUME ClockInv, [Next]_vars
  PROVE  \/ UNCHANGED <<tick, Century, CalendarRollOverReady, until>>
         \/ ReadsAndGoesOn
         \/ Tick
<1>1. tick \in Nat /\ until \in Nat /\ tick <= until
  BY DEF ClockInv, ClockAt
<1>2. CASE McpsRequest
  BY <1>1, <1>2, ScheduleGoesOn DEF McpsRequest
<1>3. CASE MlmeJoin
  BY <1>1, <1>3, ScheduleGoesOn DEF MlmeJoin
<1>4. CASE OnRadioTxDone
  BY <1>4 DEF OnRadioTxDone, ReadsAndGoesOn
<1>5. CASE JoinAccepted
  BY <1>5 DEF JoinAccepted, rtcVars
<1>6. ASSUME NEW max, DutyCycleReq(max)
      PROVE  UNCHANGED <<tick, Century, CalendarRollOverReady, until>>
  BY <1>6 DEF DutyCycleReq, rtcVars
<1>7. CASE OnTxDelayedTimerEvent
  BY <1>1, <1>7, ScheduleGoesOn DEF OnTxDelayedTimerEvent
<1>8. CASE Rearm
  BY <1>1, <1>8, TimeoutGoesOn DEF Rearm, ReadsAndGoesOn
<1>9. CASE ReadClock
  BY <1>9 DEF ReadClock, ReadsAndGoesOn
<1>10. CASE TimePasses
  BY <1>10 DEF TimePasses
<1>11. CASE UNCHANGED vars
  BY <1>11 DEF vars, rtcVars
<1> QED
  BY <1>2, <1>3, <1>4, <1>5, <1>6, <1>7, <1>8, <1>9, <1>10, <1>11 DEF Next

LEMMA ClockStep == ClockInv /\ [Next]_vars => ClockInv'
<1> SUFFICES ASSUME ClockInv, [Next]_vars PROVE ClockInv'
  OBVIOUS
<1>1. ClockAt(tick, Century, CalendarRollOverReady)
  BY DEF ClockInv
<1>2. tick \in Nat /\ until \in Nat /\ tick <= until
      /\ Ms(until + SecondsInDay) <= MaxTime
  BY DEF ClockInv, ClockAt
<1>3. CASE UNCHANGED <<tick, Century, CalendarRollOverReady, until>>
  <2>1. ClockAt(tick', Century', CalendarRollOverReady')
    BY <1>1, <1>3, Zenon
  <2> QED
    BY <1>2, <1>3, <2>1 DEF ClockInv
<1>4. CASE ReadsAndGoesOn
  <2>1. ReadsClock(tick) /\ until' = until
    BY <1>4 DEF ReadsAndGoesOn
  <2>2. /\ ClockAt(tick, Century', CalendarRollOverReady')
        /\ CalendarRollOverReady' = (Calendar(tick).year = YearsInCentury - 1)
    BY <1>1, <2>1, ClockRead
  <2>3. ClockAt(tick + 1, Century', CalendarRollOverReady')
    BY <2>2, ClockTick
  <2>4. tick' = tick \/ (tick' = tick + 1 /\ tick' <= until)
    BY <1>4 DEF ReadsAndGoesOn
  <2>5. ClockAt(tick', Century', CalendarRollOverReady') /\ tick' <= until'
    BY <1>2, <2>1, <2>2, <2>3, <2>4
  <2> QED
    BY <1>2, <2>1, <2>5 DEF ClockInv
<1>5. CASE Tick
  <2>1. /\ tick' = tick + 1 /\ tick < until
        /\ Calendar(tick + 1).year # Calendar(tick).year =>
             CalendarRollOverReady = (Calendar(tick).year = YearsInCentury - 1)
        /\ Century' = Century /\ CalendarRollOverReady' = CalendarRollOverReady
        /\ until' = until
    BY <1>5 DEF Tick
  <2>2. ClockAt(tick + 1, Century, CalendarRollOverReady)
    BY <1>1, <2>1, ClockTick
  <2> QED
    BY <1>2, <2>1, <2>2 DEF ClockInv
<1> QED
  BY <1>3, <1>4, <1>5, ClockSteps

(* Whatever is asked of the timers, and whenever the clock is read,        *)
(* Century and CalendarRollOverReady of rtc-board.c stay those of the      *)
(* calendar: the days the code counts are the days that have passed, and   *)
(* the time is within 32 bits.                                             *)
THEOREM ClockKept == Spec => []ClockInv
<1> QED
  BY ClockInit, ClockStep, PTL DEF Spec

LEMMA ClockIsRightNow == ClockInv => ClockRight
<1> SUFFICES ASSUME ClockInv PROVE ClockRight
  OBVIOUS
<1>1. ClockAt(tick, Century, CalendarRollOverReady)
  BY DEF ClockInv
<1>2. TimerTime(tick, Belongs(tick, Century, CalendarRollOverReady))
        = Ms(tick + SecondsInDay)
  BY <1>1, ClockTime
<1>3. RollsOver(Calendar(tick).year, CalendarRollOverReady)
        \/ Belongs(tick, Century, CalendarRollOverReady) = Century
  BY Zenon DEF Belongs, RollsOver, Ready
<1> QED
  BY <1>2, <1>3 DEF ClockRight

(* RtcConvertCalendarTickToTimerTime gives the true time, through leap     *)
(* years and centuries, but for the first reading after a roll-over, which *)
(* RtcGetCalendar makes before RtcCheckCalendarRollOver adds the century.  *)
THEOREM ClockIsRight == Spec => []ClockRight
<1> QED
  BY ClockKept, ClockIsRightNow, PTL

-----------------------------------------------------------------------------
(* Rounding. *)
LEMMA DivMonotone ==
  ASSUME NEW a \in Nat, NEW b \in Nat, NEW c \in Nat \ {0}, a <= b
  PROVE  a \div c <= b \div c
<1> DEFINE p == a \div c
           q == b \div c
           r == a % c
           s == b % c
<1>1. /\ p \in Nat /\ r \in 0 .. c - 1 /\ a = p * c + r
      /\ q \in Nat /\ s \in 0 .. c - 1 /\ b = q * c + s
  BY DivMod
<1> HIDE DEF p, q, r, s
<1>2. ~ (q + 1 <= p)
  <2> SUFFICES ASSUME q + 1 <= p PROVE FALSE
    OBVIOUS
  <2>1. (q + 1) * c <= p * c
    BY <1>1, TimesMonotone
  <2>2. (q + 1) * c = q * c + c
    BY <1>1
  <2> QED
    BY <1>1, <2>1, <2>2
<1> QED
  BY <1>1, <1>2 DEF p, q

LEMMA TickIs == MsNum \in Nat \ {0} /\ MsDen \in Nat \ {0} /\ MsNum <= MsDen
BY RtcAssumption, Zenon

LEMMA MsMonotone ==
  ASSUME NEW a \in Nat, NEW b \in Nat, a <= b
  PROVE  Ms(a) \in Nat /\ Ms(b) \in Nat /\ Ms(a) <= Ms(b)
<1> DEFINE x == a * MsNum
           y == b * MsNum
           D == 2 * MsDen
<1>1. x \in Nat /\ y \in Nat /\ x <= y /\ D \in Nat \ {0}
  BY TickIs, TimesMonotone
<1>2. Ms(a) = (2 * x + MsDen) \div D /\ Ms(b) = (2 * y + MsDen) \div D
  BY DEF Ms, Rounded
<1> HIDE DEF x, y, D
<1>3. 2 * x + MsDen \in Nat /\ 2 * y + MsDen \in Nat
      /\ 2 * x + MsDen <= 2 * y + MsDen
  BY <1>1, TickIs
<1> QED
  BY <1>1, <1>2, <1>3, DivMonotone, DivMod

(* Times, as they are read. *)
LEMMA DaysEarlier ==
  ASSUME NEW cal \in Dates, NEW c \in Nat, c % 4 = 0
  PROVE  /\ Days(cal, c) \in Nat
         /\ Days(cal, c) <= Days(cal, c + YearsInCentury)
<1> DEFINE y == cal.year
           m == cal.month
           d == cal.date
           e == c + YearsInCentury
           leap == y % 4 = 0
           months == SumUpTo(MonthsOf(leap), m - 1)
<1>1. y \in Nat /\ m \in 1 .. L /\ d \in Nat
  BY YearsInCenturyIs DEF Dates
<1>2. e \in Nat /\ e % 4 = 0 /\ c <= e
  BY YearsInCenturyIs
<1> HIDE DEF e
<1>3. Leap(y, c) = leap /\ Leap(y, e) = leap
  BY <1>1, <1>2, LeapAgrees
<1>4. /\ Days(cal, c) = SumUpTo(Years, y + c) + months + d
      /\ Days(cal, e) = SumUpTo(Years, y + e) + months + d
  BY <1>3, Zenon DEF Days
<1>5. months \in Nat
  <2>1. leap \in BOOLEAN /\ m - 1 \in 0 .. L
    BY <1>1, MonthsAre
  <2> HIDE DEF leap
  <2> QED
    BY <2>1, MonthSums
<1>6. /\ SumUpTo(Years, y + c) <= SumUpTo(Years, y + e)
      /\ SumUpTo(Years, y + c) \in Nat /\ SumUpTo(Years, y + e) \in Nat
  <2> HIDE DEF y
  <2>1. y + c \in Nat /\ y + e \in Nat /\ y + c \in 0 .. y + e
    BY <1>1, <1>2
  <2> QED
    BY <2>1, YearSums
<1> HIDE DEF months
<1>7. Days(cal, c) \in Nat /\ Days(cal, c) <= Days(cal, e)
  BY <1>1, <1>4, <1>5, <1>6
<1> QED
  BY <1>7 DEF e

LEMMA TimeFits ==
  ASSUME ClockInv
  PROVE  Ms(tick + SecondsInDay) \in 0 .. MaxTime /\ MaxTime \in Nat
<1> DEFINE S == SecondsInDay
<1>1. MaxTime \in Nat
  BY RtcAssumption, Zenon
<1>2. tick \in Nat /\ until \in Nat /\ tick <= until /\ Ms(until + S) <= MaxTime
  BY DEF ClockInv, ClockAt
<1>3. tick + S \in Nat /\ until + S \in Nat /\ tick + S <= until + S
  BY <1>2, SecondsInDayIs
<1>4. /\ Ms(tick + S) <= Ms(until + S) /\ Ms(until + S) \in Nat
      /\ Ms(tick + S) \in Nat
  BY <1>3, MsMonotone
<1> QED
  BY <1>1, <1>2, <1>4

LEMMA FirstTimeIs ==
  ASSUME ClockInv
  PROVE  FirstTime \in 0 .. MaxTime /\ FirstTime <= Ms(tick + SecondsInDay)
<1> DEFINE S == SecondsInDay
           cal == Calendar(tick)
           r == TimeOfDay(tick)
           b == Belongs(tick, Century, CalendarRollOverReady)
           x == Days(cal, Century)
           z == Days(cal, b)
<1>1. ClockAt(tick, Century, CalendarRollOverReady)
  BY DEF ClockInv
<1>2. tick \in Nat /\ Century \in Nat /\ Century % 4 = 0
  BY <1>1 DEF ClockAt
<1>3. S \in Nat /\ cal \in Dates /\ r \in Nat
  BY <1>2, SecondsInDayIs, CalendarIs
<1>4. Ms(z * S + r) = Ms(tick + S)
  BY <1>1, ClockTime DEF TimerTime
<1>5. x \in Nat /\ z \in Nat /\ x <= z
  <2>1. b = Century \/ b = Century + YearsInCentury
    BY DEF Belongs
  <2>2. b \in Nat /\ b % 4 = 0
    BY <1>2, <2>1, YearsInCenturyIs
  <2> HIDE DEF b, cal
  <2> QED
    BY <1>2, <1>3, <2>1, <2>2, DaysEarlier
<1>6. FirstTime = Ms(x * S + r)
  BY DEF FirstTime, TimerTime
<1> HIDE DEF x, z, r
<1>7. x * S + r \in Nat /\ z * S + r \in Nat /\ x * S + r <= z * S + r
  BY <1>3, <1>5, TimesMonotone
<1>8. Ms(x * S + r) <= Ms(tick + S) /\ Ms(x * S + r) \in Nat
      /\ Ms(tick + S) \in Nat
  BY <1>4, <1>7, MsMonotone
<1> QED
  BY <1>6, <1>8, TimeFits

LEMMA NextTimeIs ==
  ASSUME ClockInv, ReadsClock(tick)
  PROVE  /\ NextTime = Ms(tick + SecondsInDay)
         /\ NextTime \in 0 .. MaxTime
<1>1. ClockAt(tick, Century, CalendarRollOverReady)
  BY DEF ClockInv
<1>2. NextTime = Ms(tick + SecondsInDay)
  BY <1>1, ClockRead DEF NextTime
<1> QED
  BY <1>2, TimeFits

-----------------------------------------------------------------------------
(* The duty cycle: the least and the greatest of two numbers.              *)
LEMMA GreaterOf ==
  ASSUME NEW a \in Int, NEW b \in Int
  PROVE  Max({a, b}) \in {a, b} /\ a <= Max({a, b}) /\ b <= Max({a, b})
<1> DEFINE m == IF a <= b THEN b ELSE a
<1>1. m \in {a, b} /\ \A y \in {a, b} : m >= y
  OBVIOUS
<1>2. \E x \in {a, b} : \A y \in {a, b} : x >= y
  BY <1>1
<1>3. /\ Max({a, b}) \in {a, b}
      /\ \A y \in {a, b} : Max({a, b}) >= y
  BY <1>2, Zenon DEF Max
<1> QED
  BY <1>3

LEMMA LeastIs ==
  ASSUME NEW T, T \subseteq Nat, T # {}
  PROVE  Min(T) \in T /\ \A k \in T : Min(T) <= k
<1>1. PICK m \in T : \A k \in T : m <= k
  BY LeastElement
<1> QED
  BY <1>1, Zenon DEF Min

(* What the band used last costs, and which bands are open. *)
Charged(joined, band) == [TimeOff EXCEPT ![band] = BackOff(joined, band)]

Opened(joined, band, now) ==
  [b \in Bands |-> Left(Charged(joined, band)[b], SinceTx(b, joined, now))]

MacTypes ==
  /\ IsLoRaMacNetworkJoined \in BOOLEAN
  /\ MaxDCycle \in MaxDCycles \cup {0}
  /\ LastTxDoneTime \in [Bands -> 0 .. MaxTime]
  /\ LastJoinTxDoneTime \in [Bands -> 0 .. MaxTime]
  /\ TimeOff \in [Bands -> Nat] /\ AggregatedTimeOff \in Nat
  /\ AggregatedLastTxDoneTime \in 0 .. MaxTime
  /\ TxTimeOnAir \in AirTimes \cup {0}
  /\ LastTxBand \in Bands /\ sending \in Bands \cup {None}
  /\ Timestamp \in Nat \cup {None}
  /\ rest \in [Bands -> Int]

ContextOK ==
  /\ context.tick \in Nat
  /\ context.century \in Nat /\ context.century % 4 = 0
  /\ ring \in Nat

Delayed ==
  /\ sending = None \/ Timestamp = None
  /\ (alarm # Off) = (Timestamp # None)

LEMMA DutyIs ==
  /\ Bands \subseteq Nat /\ Band0 \in Bands /\ JoinBands = {Band0}
  /\ \A b \in Bands : DCycle[b] \in Nat \ {0}
  /\ JoinDc \in Nat /\ AirTimes \subseteq Nat /\ MaxDCycles \subseteq 0 .. 15
  /\ None \notin Bands /\ None \notin Nat
<1>1. /\ DCycle \in Seq(Nat \ {0}) /\ Band0 \in Bands /\ JoinBands = {Band0}
      /\ JoinDc \in Nat /\ AirTimes \subseteq Nat /\ MaxDCycles \subseteq 0 .. 15
  BY DutyCycleAssumption, Zenon DEF Bands
<1>2. /\ Bands \subseteq Nat
      /\ \A b \in Bands : DCycle[b] \in Nat \ {0}
  <2>1. DOMAIN DCycle = 1 .. Len(DCycle) /\ Len(DCycle) \in Nat
    BY <1>1
  <2> QED
    BY <1>1, <2>1 DEF Bands
<1>3. None \notin Nat
  BY DEF None
<1> QED
  BY <1>1, <1>2, <1>3

LEMMA PowersOfTwo == \A max \in 0 .. 15 : AggregatedDCycle(max) \in Nat \ {0}
<1> SUFFICES ASSUME NEW max \in 0 .. 15
             PROVE  AggregatedDCycle(max) \in Nat \ {0}
  OBVIOUS
<1>1. max = 0 => 2 ^ max = 1
  OBVIOUS
<1>2. max = 1 => 2 ^ max = 2
  OBVIOUS
<1>3. max = 2 => 2 ^ max = 4
  OBVIOUS
<1>4. max = 3 => 2 ^ max = 8
  OBVIOUS
<1>5. max = 4 => 2 ^ max = 16
  OBVIOUS
<1>6. max = 5 => 2 ^ max = 32
  OBVIOUS
<1>7. max = 6 => 2 ^ max = 64
  OBVIOUS
<1>8. max = 7 => 2 ^ max = 128
  OBVIOUS
<1>9. max = 8 => 2 ^ max = 256
  OBVIOUS
<1>10. max = 9 => 2 ^ max = 512
  OBVIOUS
<1>11. max = 10 => 2 ^ max = 1024
  OBVIOUS
<1>12. max = 11 => 2 ^ max = 2048
  OBVIOUS
<1>13. max = 12 => 2 ^ max = 4096
  OBVIOUS
<1>14. max = 13 => 2 ^ max = 8192
  OBVIOUS
<1>15. max = 14 => 2 ^ max = 16384
  OBVIOUS
<1>16. max = 15 => 2 ^ max = 32768
  OBVIOUS
<1>17. AggregatedDCycle(max) = 2 ^ max
  BY Zenon DEF AggregatedDCycle
<1> QED
  BY <1>1, <1>2, <1>3, <1>4, <1>5, <1>6, <1>7, <1>8, <1>9,
     <1>10, <1>11, <1>12, <1>13, <1>14, <1>15, <1>16, <1>17

LEMMA TimesLess ==
  ASSUME NEW a \in Nat, NEW c \in Nat \ {0}
  PROVE  a * c - a \in Nat
<1>1. 1 * a <= c * a
  BY TimesMonotone
<1>2. 1 * a = a /\ c * a = a * c /\ a * c \in Int
  OBVIOUS
<1> QED
  BY <1>1, <1>2

LEMMA CostsAre ==
  ASSUME MacTypes, NEW band \in Bands, NEW joined \in BOOLEAN,
         NEW max \in MaxDCycles \cup {0}
  PROVE  /\ TxTimeOnAir \in Nat
         /\ TxTimeOnAir * DCycle[band] - TxTimeOnAir \in Nat
         /\ BackOff(joined, band) \in Nat
         /\ TxTimeOnAir * DCycle[band] - TxTimeOnAir <= BackOff(joined, band)
         /\ Aggregated(max) \in Nat
<1> DEFINE a == TxTimeOnAir
           d == DCycle[band]
           dc == IF joined THEN d ELSE Max({d, JoinDc})
           p == AggregatedDCycle(max)
           old == IF max = 0 THEN 0 ELSE AggregatedTimeOff
<1>1. a \in Nat
  BY DutyIs DEF MacTypes
<1>2. d \in Nat \ {0} /\ JoinDc \in Nat
  BY DutyIs
<1>3. dc \in Nat \ {0} /\ d <= dc
  <2> HIDE DEF d
  <2>1. d \in Int /\ JoinDc \in Int
    BY <1>2
  <2>2. Max({d, JoinDc}) \in {d, JoinDc} /\ d <= Max({d, JoinDc})
        /\ JoinDc <= Max({d, JoinDc})
    BY <2>1, GreaterOf, Zenon
  <2>3. Max({d, JoinDc}) \in Nat \ {0}
    BY <1>2, <2>2
  <2> QED
    BY <1>2, <2>2, <2>3
<1>4. p \in Nat \ {0}
  BY DutyIs, PowersOfTwo
<1>5. old \in Nat
  BY DEF MacTypes
<1>6. BackOff(joined, band) = a * dc - a /\ Aggregated(max) = old + (a * p - a)
  BY Zenon DEF BackOff, Aggregated
<1> HIDE DEF a, d, dc, p, old
<1>7. a * d - a \in Nat /\ a * dc - a \in Nat /\ a * p - a \in Nat
  BY <1>1, <1>2, <1>3, <1>4, TimesLess
<1>8. a * d <= a * dc
  BY <1>1, <1>2, <1>3, TimesMonotone
<1>9. /\ a * d - a <= a * dc - a
      /\ old + (a * p - a) \in Nat
  BY <1>1, <1>2, <1>3, <1>5, <1>7, <1>8
<1> QED
  BY <1>1, <1>6, <1>7, <1>9 DEF a, d

LEMMA ElapsedIs ==
  ASSUME NEW now \in 0 .. MaxTime, NEW event \in 0 .. MaxTime
  PROVE  /\ Since(now, event) \in Nat /\ Elapsed(now, event) \in Nat
         /\ Elapsed(now, 0) = 0
         /\ event <= now => Elapsed(now, event) <= now - event
<1>1. MaxTime \in Nat
  BY RtcAssumption, Zenon
<1> QED
  BY <1>1 DEF Since, Elapsed

LEMMA SinceTxIs ==
  ASSUME MacTypes, NEW now \in 0 .. MaxTime, NEW b \in Bands,
         NEW joined \in BOOLEAN
  PROVE  /\ SinceTx(b, joined, now) \in Nat
         /\ joined => SinceTx(b, joined, now) = Elapsed(now, LastTxDoneTime[b])
         /\ LastJoinTxDoneTime[b] = 0 =>
              SinceTx(b, joined, now) = Elapsed(now, LastTxDoneTime[b])
<1> DEFINE j == Elapsed(now, LastJoinTxDoneTime[b])
           d == Elapsed(now, LastTxDoneTime[b])
<1>1. /\ LastTxDoneTime[b] \in 0 .. MaxTime
      /\ LastJoinTxDoneTime[b] \in 0 .. MaxTime
  BY DEF MacTypes
<1>2. j \in Nat /\ d \in Nat /\ (LastJoinTxDoneTime[b] = 0 => j = 0)
  BY <1>1, ElapsedIs
<1>3. SinceTx(b, joined, now) = IF joined THEN d ELSE Max({j, d})
  BY Zenon DEF SinceTx
<1> HIDE DEF j, d
<1>4. j \in Int /\ d \in Int
  BY <1>2
<1>5. Max({j, d}) \in {j, d} /\ j <= Max({j, d}) /\ d <= Max({j, d})
  BY <1>4, GreaterOf, Zenon
<1> QED
  BY <1>2, <1>3, <1>5 DEF d

LEMMA ChargedIs ==
  ASSUME MacTypes, NEW joined \in BOOLEAN, NEW band \in Bands,
         NEW now \in 0 .. MaxTime
  PROVE  /\ Charged(joined, band) \in [Bands -> Nat]
         /\ Opened(joined, band, now) \in [Bands -> Nat]
         /\ \A b \in Bands :
              Opened(joined, band, now)[b] # 0 =>
                Opened(joined, band, now)[b] - SinceTx(b, joined, now) \in Nat
<1> DEFINE c == Charged(joined, band)
           o == Opened(joined, band, now)
<1>1. BackOff(joined, band) \in Nat
  <2>1. 0 \in MaxDCycles \cup {0}
    OBVIOUS
  <2> QED
    BY <2>1, CostsAre
<1>2. c \in [Bands -> Nat]
  BY <1>1 DEF Charged, MacTypes
<1> HIDE DEF c
<1>3. \A b \in Bands : SinceTx(b, joined, now) \in Nat
  BY SinceTxIs
<1>4. \A b \in Bands : o[b] = Left(c[b], SinceTx(b, joined, now))
  BY Zenon DEF Opened, c
<1>5. o = [b \in Bands |-> o[b]]
  BY Zenon DEF Opened
<1> HIDE DEF o
<1>6. \A b \in Bands :
        o[b] \in Nat /\ (o[b] # 0 => o[b] - SinceTx(b, joined, now) \in Nat)
  BY <1>2, <1>3, <1>4 DEF Left
<1>7. o \in [Bands -> Nat]
  BY <1>5, <1>6
<1> QED
  BY <1>2, <1>6, <1>7 DEF c, o

(* What ScheduleTx does: it sends on an open band, or puts the frame off,  *)
(* with none of the bands open or, kept back by the aggregated duty cycle, *)
(* with no band looked at.                                                 *)
SendsOn(joined, b) ==
  /\ b \in Usable(joined)
  /\ TimeOff' = Opened(joined, LastTxBand', NextTime)
  /\ TimeOff'[b] = 0
  /\ Send(b, TimeOff')

PutsOff(joined, delay, again) ==
  /\ delay \in Nat
  /\ \/ /\ TimeOff' = Opened(joined, LastTxBand', NextTime)
        /\ \A b \in Usable(joined) : TimeOff'[b] # 0
     \/ TimeOff' = Charged(joined, LastTxBand')
  /\ \E needed : PutOff(delay, TimeOff', needed, again)

LEMMA ScheduleCases ==
  ASSUME ClockInv, MacTypes, NEW joined \in BOOLEAN, NEW again,
         LastTxBand' \in Bands, MaxDCycle' \in MaxDCycles \cup {0},
         ScheduleTx(joined, again)
  PROVE  /\ ReadsClock(tick) /\ NextTime \in 0 .. MaxTime
         /\ AggregatedTimeOff' \in Nat
         /\ UNCHANGED <<LastTxDoneTime, LastJoinTxDoneTime,
                        AggregatedLastTxDoneTime>>
         /\ \/ \E b \in Usable(joined) : SendsOn(joined, b)
            \/ \E delay \in Nat : PutsOff(joined, delay, again)
<1> DEFINE band == LastTxBand'
           now == NextTime
           off1 == Charged(joined, band)
           off2 == Opened(joined, band, now)
           aggrOff == Aggregated(MaxDCycle')
           aggr == Elapsed(now, AggregatedLastTxDoneTime)
           open == {b \in Usable(joined) : off2[b] = 0}
<1>1. /\ ReadsClock(tick)
      /\ IF aggrOff <= aggr
         THEN /\ AggregatedTimeOff' = 0
              /\ IF open # {}
                 THEN \E b \in open : Send(b, off2)
                 ELSE PutOff(Delay(off2, now, joined), off2,
                             Needed(off2, now, joined, 0), again)
         ELSE /\ AggregatedTimeOff' = aggrOff
              /\ PutOff(aggrOff - aggr, off1,
                        Needed(off1, now, joined, aggrOff - aggr), again)
      /\ UNCHANGED <<LastTxDoneTime, LastJoinTxDoneTime,
                     AggregatedLastTxDoneTime>>
  BY Zenon DEF ScheduleTx, Charged, Opened
<1>2. now \in 0 .. MaxTime
  BY <1>1, NextTimeIs
<1>3. /\ off1 \in [Bands -> Nat] /\ off2 \in [Bands -> Nat]
      /\ \A b \in Bands :
           off2[b] # 0 => off2[b] - SinceTx(b, joined, now) \in Nat
  BY <1>2, ChargedIs
<1>4. aggrOff \in Nat /\ aggr \in Nat
  <2>1. AggregatedLastTxDoneTime \in 0 .. MaxTime
    BY DEF MacTypes
  <2>2. aggr \in Nat
    BY <1>2, <2>1, ElapsedIs
  <2>3. aggrOff \in Nat
    BY CostsAre
  <2> QED
    BY <2>2, <2>3
<1>5. Usable(joined) \subseteq Bands /\ Usable(joined) # {}
  BY DutyIs DEF Usable
<1> HIDE DEF now, aggrOff, aggr, off1, off2
<1>6. AggregatedTimeOff' \in Nat
  BY <1>1, <1>4
<1>7. CASE aggrOff <= aggr /\ open # {}
  <2>1. PICK b \in Usable(joined) : off2[b] = 0 /\ Send(b, off2)
    BY <1>1, <1>7
  <2>2. TimeOff' = off2
    BY <2>1, Zenon DEF Send
  <2>3. SendsOn(joined, b)
    BY <2>1, <2>2, Zenon DEF SendsOn, off2, now
  <2> QED
    BY <1>1, <1>2, <1>6, <2>3 DEF now
<1>8. CASE aggrOff <= aggr /\ open = {}
  <2> DEFINE delay == Delay(off2, now, joined)
             T == Closed(off2, now, joined)
  <2>1. PutOff(delay, off2, Needed(off2, now, joined, 0), again)
    BY <1>1, <1>8
  <2>2. \A b \in Usable(joined) : off2[b] # 0
    BY <1>8
  <2>3. T \subseteq Nat /\ T # {}
    <3>1. T = {off2[b] - SinceTx(b, joined, now) :
                 b \in {x \in Bands : off2[x] # 0}}
      BY Zenon DEF Closed
    <3> QED
      BY <1>3, <1>5, <2>2, <3>1
  <2>4. delay \in Nat
    <3>1. delay = Min(T)
      BY Zenon DEF Delay
    <3> HIDE DEF T, delay
    <3> QED
      BY <2>3, <3>1, LeastIs
  <2> HIDE DEF delay
  <2>5. TimeOff' = off2
    BY <2>1, Zenon DEF PutOff
  <2>6. PutsOff(joined, delay, again)
    BY <2>1, <2>2, <2>4, <2>5, Zenon DEF PutsOff, off2, now
  <2> QED
    BY <1>1, <1>2, <1>6, <2>4, <2>6 DEF now
<1>9. CASE ~(aggrOff <= aggr)
  <2> DEFINE delay == aggrOff - aggr
  <2>1. PutOff(delay, off1, Needed(off1, now, joined, delay), again)
    BY <1>1, <1>9
  <2>2. delay \in Nat
    BY <1>4, <1>9
  <2> HIDE DEF delay
  <2>3. TimeOff' = off1
    BY <2>1, Zenon DEF PutOff
  <2>4. PutsOff(joined, delay, again)
    BY <2>1, <2>2, <2>3, Zenon DEF PutsOff, off1
  <2> QED
    BY <1>1, <1>2, <1>6, <2>2, <2>4 DEF now
<1> QED
  BY <1>7, <1>8, <1>9

-----------------------------------------------------------------------------
(* The alarm: the ticks to wait, and the days they go ahead. *)
LEMMA WaitIs ==
  ASSUME NEW timeout \in Nat
  PROVE  Wait(timeout) \in 1 .. MaxNumberOfDays * SecondsInDay
<1> DEFINE X == MaxNumberOfDays * SecondsInDay
           P == MsNum
           D == MsDen
           M == MaxTimeout
           low == IF timeout < M THEN timeout ELSE M
           ms == IF low < 1 THEN 1 ELSE low
           q == (2 * (ms * D) + P) \div (2 * P)
<1>1. /\ MaxNumberOfDays \in Nat \ {0} /\ SecondsInDay \in Nat \ {0}
      /\ MsDen <= SecondsInDay * MsNum
  BY RtcAssumption, Zenon
<1>2. P \in Nat \ {0} /\ D \in Nat \ {0} /\ P <= D
  BY TickIs
<1>3. X \in Nat /\ SecondsInDay <= X
  <2>1. 1 * SecondsInDay <= MaxNumberOfDays * SecondsInDay
    BY <1>1, TimesMonotone
  <2> QED
    BY <1>1, <2>1
<1>4. D <= X * P /\ X * P \in Nat
  <2>1. SecondsInDay * P <= X * P
    <3> HIDE DEF X
    <3> QED
      BY <1>1, <1>2, <1>3, TimesMonotone
  <2>2. SecondsInDay * P \in Nat
    BY <1>1, <1>2
  <2> HIDE DEF X
  <2> QED
    BY <1>1, <1>2, <1>3, <2>1, <2>2
<1>5. M = (X * P) \div D
  BY Zenon DEF MaxTimeout
<1>6. Wait(timeout) = q
  BY Zenon DEF Wait, Ticks, Rounded
<1> HIDE DEF X, P, D, M
<1>7. M \in Nat \ {0} /\ M * D <= X * P
  <2> DEFINE z == X * P
  <2>1. z \in Nat /\ D <= z
    BY <1>4
  <2> HIDE DEF z
  <2>2. z \div D \in Nat /\ z % D \in 0 .. D - 1 /\ z = (z \div D) * D + (z % D)
    BY <1>2, <2>1, DivMod
  <2>3. M = z \div D
    BY <1>5 DEF z
  <2> DEFINE u == z % D
  <2> HIDE DEF u
  <2>4. M \in Nat /\ u \in 0 .. D - 1 /\ z = M * D + u
    BY <2>2, <2>3 DEF u
  <2>5. M * D \in Nat /\ M * D <= z
    BY <1>2, <2>4
  <2>6. M # 0
    <3> SUFFICES ASSUME M = 0 PROVE FALSE
      OBVIOUS
    <3>1. M * D = 0
      BY <1>2
    <3> QED
      BY <1>2, <2>1, <2>4, <3>1
  <2> QED
    BY <2>4, <2>5, <2>6 DEF z
<1>8. ms \in 1 .. M
  BY <1>7
<1> HIDE DEF low, ms
<1>9. D <= ms * D /\ ms * D <= X * P /\ ms * D \in Nat
  <2>1. 1 * D <= ms * D /\ ms * D <= M * D
    BY <1>2, <1>7, <1>8, TimesMonotone
  <2>2. ms * D \in Nat /\ M * D \in Nat
    BY <1>2, <1>7, <1>8
  <2> QED
    BY <1>2, <1>4, <1>7, <2>1, <2>2
<1> DEFINE A == 2 * (ms * D) + P
           r == A % (2 * P)
<1>10. q \in Nat /\ r \in 0 .. 2 * P - 1 /\ A = q * (2 * P) + r
  <2>1. A \in Nat /\ 2 * P \in Nat \ {0}
    BY <1>2, <1>9
  <2> HIDE DEF A
  <2> QED
    BY <2>1, DivMod DEF A
<1>11. A \in Nat /\ 2 * P <= A /\ A <= 2 * (X * P) + P
  BY <1>2, <1>4, <1>9
<1> HIDE DEF A, r, q
<1>12. q # 0
  BY <1>2, <1>10, <1>11
<1>13. ~ (X + 1 <= q)
  <2> SUFFICES ASSUME X + 1 <= q PROVE FALSE
    OBVIOUS
  <2>1. (X + 1) * (2 * P) <= q * (2 * P)
    BY <1>2, <1>3, <1>10, TimesMonotone
  <2>2. (X + 1) * (2 * P) = 2 * (X * P) + 2 * P
    BY <1>2, <1>3
  <2>3. q * (2 * P) \in Int /\ q * (2 * P) <= A
    BY <1>2, <1>10
  <2> QED
    BY <1>2, <1>4, <1>11, <2>1, <2>2, <2>3
<1> QED
  BY <1>3, <1>6, <1>10, <1>12, <1>13 DEF X

LEMMA DateIs ==
  ASSUME NEW cal \in Dates
  PROVE  /\ MonthLength(cal) \in Nat \ {0} /\ cal.date \in 1 .. MonthLength(cal)
         /\ MaxNumberOfDays <= MonthLength(cal)
         /\ cal = [year |-> cal.year, month |-> cal.month, date |-> cal.date]
         /\ \A c \in Nat : c % 4 = 0 => Length(cal, c) = MonthLength(cal)
<1>1. /\ cal.month \in 1 .. L /\ cal.date \in 1 .. MonthLength(cal)
      /\ cal = [year |-> cal.year, month |-> cal.month, date |-> cal.date]
      /\ cal.year \in Nat
  BY YearsInCenturyIs DEF Dates
<1>2. (cal.year % 4 = 0) \in BOOLEAN
  OBVIOUS
<1>3. /\ MonthsOf(cal.year % 4 = 0)[cal.month] \in Nat \ {0}
      /\ MaxNumberOfDays <= MonthsOf(cal.year % 4 = 0)[cal.month]
  BY <1>1, <1>2, MonthsAre
<1>4. ASSUME NEW c \in Nat, c % 4 = 0 PROVE Length(cal, c) = MonthLength(cal)
  <2>1. Leap(cal.year, c) = (cal.year % 4 = 0)
    BY <1>1, <1>4, LeapAgrees
  <2> QED
    BY <2>1, Zenon DEF Length, MonthLength
<1> QED
  BY <1>1, <1>3, <1>4 DEF MonthLength

(* Days of the same month. *)
LEMMA SameMonth ==
  ASSUME NEW d \in Nat, NEW k \in Nat,
         DayAt(d).date + k <= MonthLength(DayAt(d))
  PROVE  DayAt(d + k) = [DayAt(d) EXCEPT !.date = @ + k]
<1> DEFINE cal == DayAt(d)
           m == MonthLength(cal)
           T == {i \in 0 .. k : DayAt(d + i) = [cal EXCEPT !.date = @ + i]}
<1>1. /\ cal \in Dates /\ m \in Nat /\ cal.date \in 1 .. m
      /\ cal = [year |-> cal.year, month |-> cal.month, date |-> cal.date]
  BY DateIs, DayAtStep
<1>2. 0 \in T
  <2> HIDE DEF cal
  <2>1. [cal EXCEPT !.date = @ + 0] = cal
    BY <1>1
  <2>2. DayAt(d + 0) = cal
    BY DEF cal
  <2> QED
    BY <2>1, <2>2
<1>3. ASSUME NEW i \in 1 .. k, i - 1 \in T PROVE i \in T
  <2> DEFINE c == DayAt(d + (i - 1))
  <2>1. c = [cal EXCEPT !.date = @ + (i - 1)]
    BY <1>3
  <2>2. d + (i - 1) \in Nat /\ (d + (i - 1)) + 1 = d + i
    OBVIOUS
  <2>3. DayAt(d + i) = NextDay(c)
    BY <2>2, DayAtStep
  <2> HIDE DEF cal, m, c
  <2>4. /\ c.year = cal.year /\ c.month = cal.month
        /\ c.date = cal.date + (i - 1)
        /\ c = [year |-> cal.year, month |-> cal.month,
                date |-> cal.date + (i - 1)]
    BY <1>1, <2>1
  <2>5. MonthLength(c) = m
    BY <2>4 DEF MonthLength, m
  <2>6. cal.date + k <= m
    BY DEF m, cal
  <2>7. c.date < MonthLength(c)
    BY <1>1, <2>4, <2>5, <2>6
  <2>8. NextDay(c) = [c EXCEPT !.date = @ + 1]
    BY <2>7, Zenon DEF NextDay
  <2>9. NextDay(c) = [year |-> cal.year, month |-> cal.month,
                      date |-> cal.date + i]
    BY <1>1, <2>4, <2>8
  <2>10. [cal EXCEPT !.date = @ + i] =
           [year |-> cal.year, month |-> cal.month, date |-> cal.date + i]
    BY <1>1
  <2> QED
    BY <2>3, <2>9, <2>10
<1> HIDE DEF T
<1>4. \A i \in 0 .. k : i \in T
  BY <1>2, <1>3, UpTo
<1>5. k \in 0 .. k
  OBVIOUS
<1> QED
  BY <1>4, <1>5 DEF T

(* Days of the month after. *)
LEMMA MonthAfter ==
  ASSUME NEW d \in Nat, NEW k \in Nat,
         MonthLength(DayAt(d)) < DayAt(d).date + k,
         DayAt(d).date + k - MonthLength(DayAt(d))
           <= MonthLength(NextMonth(DayAt(d)))
  PROVE  DayAt(d + k) = [NextMonth(DayAt(d)) EXCEPT
           !.date = DayAt(d).date + k - MonthLength(DayAt(d))]
<1> DEFINE cal == DayAt(d)
           m == MonthLength(cal)
           next == NextMonth(cal)
           more == m - cal.date
           last == DayAt(d + more)
           e == cal.date + k - m
           first == d + more + 1
<1>1. /\ cal \in Dates /\ m \in Nat /\ cal.date \in 1 .. m
      /\ cal = [year |-> cal.year, month |-> cal.month, date |-> cal.date]
  BY DateIs, DayAtStep
<1>2. more \in Nat /\ cal.date + more = m /\ d + more \in Nat
  <2> HIDE DEF cal, m
  <2> QED
    BY <1>1
<1>3. last = [cal EXCEPT !.date = @ + more]
  <2> HIDE DEF more
  <2>1. DayAt(d).date + more <= MonthLength(DayAt(d))
    BY <1>1, <1>2
  <2> QED
    BY <1>2, <2>1, SameMonth
<1>4. DayAt(first) = NextDay(last)
  <2> HIDE DEF more
  <2> QED
    BY <1>2, DayAtStep
<1>5. next.date = 1 /\ next = [next EXCEPT !.date = 1]
  BY DEF NextMonth
<1>6. e \in Nat \ {0} /\ e <= MonthLength(next)
  <2>1. m < cal.date + k /\ e <= MonthLength(next)
    OBVIOUS
  <2> HIDE DEF cal, m, next
  <2> QED
    BY <1>1, <2>1
<1> HIDE DEF cal, m, next, last
<1>7. NextDay(last) = next
  <2>1. last.year = cal.year /\ last.month = cal.month /\ last.date = m
    BY <1>1, <1>2, <1>3
  <2>2. MonthLength(last) = m
    BY <2>1 DEF MonthLength, m
  <2>3. NextDay(last) = NextMonth(last)
    BY <1>1, <2>1, <2>2 DEF NextDay
  <2>4. NextMonth(last) = next
    BY <2>1, Zenon DEF NextMonth, next
  <2> QED
    BY <2>3, <2>4
<1>8. DayAt(first) = next /\ first \in Nat /\ first + (e - 1) = d + k
  BY <1>1, <1>2, <1>4, <1>7
<1> HIDE DEF first, e, more
<1>9. e - 1 \in Nat /\ next.date + (e - 1) = e
  BY <1>5, <1>6
<1>10. DayAt(first + (e - 1)) = [next EXCEPT !.date = @ + (e - 1)]
  BY <1>6, <1>8, <1>9, SameMonth
<1>11. [next EXCEPT !.date = @ + (e - 1)] = [next EXCEPT !.date = e]
  BY <1>9
<1> QED
  BY <1>8, <1>10, <1>11 DEF e, cal, m, next

LEMMA NextMonthIs ==
  ASSUME NEW cal \in Dates
  PROVE  MonthLength(NextMonth(cal)) \in Nat /\ NextMonth(cal).date = 1
         /\ MaxNumberOfDays <= MonthLength(NextMonth(cal))
<1> DEFINE next == NextMonth(cal)
           leap == next.year % 4 = 0
<1>1. cal.month \in 1 .. L /\ L \in Nat \ {0}
  BY MonthsAre DEF Dates
<1>2. next.month \in 1 .. L /\ next.date = 1
  BY <1>1 DEF NextMonth, L
<1>3. leap \in BOOLEAN
  OBVIOUS
<1> HIDE DEF leap
<1>4. MonthsOf(leap)[next.month] \in Nat
      /\ MaxNumberOfDays <= MonthsOf(leap)[next.month]
  BY <1>2, <1>3, MonthsAre
<1>5. MonthLength(next) = MonthsOf(leap)[next.month]
  BY Zenon DEF MonthLength, leap
<1> QED
  BY <1>2, <1>4, <1>5

(* The alarm that is set for w ticks from t. *)
AlarmAt(t, w, c) ==
  LET time == TimeOfDay(t) + w
  IN  [date |-> Date(Calendar(t), Calendar(t).date + time \div SecondsInDay, c),
       time |-> time % SecondsInDay]

Match(x, t) == x = [date |-> Calendar(t).date, time |-> TimeOfDay(t)]

LEMMA AlarmFinds ==
  ASSUME NEW t \in Nat, NEW c \in Nat, c % 4 = 0,
         NEW w \in 1 .. MaxNumberOfDays * SecondsInDay + 1
  PROVE  /\ AlarmAt(t, w, c).date \in Nat
         /\ \/ AlarmAt(t, w, c).date = 0
            \/ /\ MonthLength(NextMonth(Calendar(t))) < AlarmAt(t, w, c).date
               /\ AlarmAt(t, w, c).date < Calendar(t).date
            \/ \E r \in t + 1 .. t + w : Match(AlarmAt(t, w, c), r)
<1> DEFINE S == SecondsInDay
           N == MaxNumberOfDays
           d == t \div S
           cal == Calendar(t)
           m == MonthLength(cal)
           next == NextMonth(cal)
           time == TimeOfDay(t) + w
           k == time \div S
           u == time % S
           date == Date(cal, cal.date + k, c)
           end == t + w
<1>1. /\ S \in Nat \ {0} /\ N \in Nat \ {0}
      /\ d \in Nat /\ TimeOfDay(t) \in 0 .. S - 1
      /\ t = d * S + TimeOfDay(t)
      /\ cal = DayAt(d) /\ cal \in Dates
  BY SecondsInDayIs, CalendarIs, RtcAssumption
<1>2. /\ m \in Nat \ {0} /\ cal.date \in 1 .. m /\ N <= m
      /\ Length(cal, c) = m
      /\ MonthLength(next) \in Nat /\ N <= MonthLength(next) /\ next.date = 1
  BY <1>1, DateIs, NextMonthIs
<1>3. AlarmAt(t, w, c) = [date |-> date, time |-> u]
  BY Zenon DEF AlarmAt
<1>4. date = IF cal.date + k > m THEN (cal.date + k) % m ELSE cal.date + k
  BY <1>2, Zenon DEF Date
<1>5. w \in Nat \ {0} /\ time \in Nat
  <2> DEFINE X == N * S
  <2>1. X \in Nat
    BY <1>1
  <2>2. w \in 1 .. X + 1
    OBVIOUS
  <2> HIDE DEF X
  <2> QED
    BY <1>1, <2>1, <2>2
<1> HIDE DEF d, cal, m, next, time
<1>6. k \in Nat /\ u \in 0 .. S - 1 /\ time = k * S + u
  BY <1>1, <1>5, DivMod
<1>7. k <= N + 1 /\ (k = N + 1 => u = 0 /\ TimeOfDay(t) = S - 1)
  <2> DEFINE X == N * S
             a == TimeOfDay(t)
  <2> HIDE DEF a
  <2>1. a \in 0 .. S - 1 /\ time = a + w
    BY <1>1 DEF a, time
  <2>2. X \in Nat /\ (N + 1) * S = X + S /\ (N + 2) * S = X + 2 * S
    BY <1>1
  <2>3. w <= X + 1
    OBVIOUS
  <2> HIDE DEF X, k, u
  <2>4. time <= X + S
    BY <1>1, <2>1, <2>2, <2>3, <1>5
  <2>5. k >= N + 2 => (N + 2) * S <= k * S
    BY <1>1, <1>6, TimesMonotone
  <2>6. k * S \in Nat /\ k * S <= time
    BY <1>1, <1>6
  <2>7. k <= N + 1
    BY <1>1, <1>6, <2>2, <2>4, <2>5, <2>6, <1>5
  <2>8. ASSUME k = N + 1 PROVE u = 0 /\ a = S - 1
    <3>1. k * S = X + S
      BY <2>2, <2>8
    <3> QED
      BY <1>1, <1>5, <1>6, <2>1, <2>2, <2>3, <3>1
  <2> QED
    BY <2>7, <2>8 DEF a
<1>8. end \div S = d + k /\ TimeOfDay(end) = u /\ end \in Nat
  <2> DEFINE b == d + k
  <2>1. end = b * S + u
    <3> HIDE DEF k, u
    <3>1. t = d * S + TimeOfDay(t) /\ time = TimeOfDay(t) + w
          /\ time = k * S + u
      BY <1>1, <1>6 DEF time
    <3>2. b * S = d * S + k * S /\ d * S \in Nat /\ k * S \in Nat
      BY <1>1, <1>6
    <3> QED
      BY <1>1, <1>5, <1>6, <3>1, <3>2
  <2>2. b \in Nat
    BY <1>1, <1>6
  <2> HIDE DEF b, k, u, end
  <2>3. end \div S = b /\ end % S = u
    BY <1>1, <1>6, <2>1, <2>2, DivModUnique
  <2>4. end \in Nat
    BY <1>1, <1>5 DEF end
  <2> QED
    BY <2>3, <2>4 DEF TimeOfDay, b
<1> HIDE DEF k, u
<1>9. end \in t + 1 .. t + w /\ Calendar(end) = DayAt(d + k)
  <2>1. end \in t + 1 .. t + w
    BY <1>5
  <2> HIDE DEF end
  <2>2. Calendar(end) = DayAt(end \div SecondsInDay)
    BY <1>8, CalendarIs
  <2> QED
    BY <1>8, <2>1, <2>2
<1> HIDE DEF end
<1>10. CASE cal.date + k <= m
  <2>1. DayAt(d + k) = [cal EXCEPT !.date = @ + k]
    BY <1>1, <1>6, <1>10, SameMonth DEF m
  <2>2. DayAt(d + k).date = cal.date + k
    <3>1. cal = [year |-> cal.year, month |-> cal.month, date |-> cal.date]
      BY <1>1, DateIs
    <3> QED
      BY <2>1, <3>1
  <2>3. date = cal.date + k /\ date \in Nat
    BY <1>2, <1>4, <1>6, <1>10
  <2> HIDE DEF date
  <2>4. Match(AlarmAt(t, w, c), end)
    BY <1>3, <1>8, <1>9, <2>2, <2>3 DEF Match
  <2> QED
    BY <1>3, <1>9, <2>3, <2>4
<1>11. CASE m < cal.date + k
  <2> DEFINE e == cal.date + k - m
  <2>1. e \in Nat \ {0} /\ e <= m + 1 /\ 1 * m + e = cal.date + k
    BY <1>1, <1>2, <1>6, <1>7, <1>11
  <2>2. date = (cal.date + k) % m
    BY <1>2, <1>4, <1>6, <1>11
  <2>3. CASE e < m
    <3>1. date = e
      <4> HIDE DEF e, date
      <4>1. e \in 0 .. m - 1 /\ 1 \in Nat
        BY <1>2, <2>1, <2>3
      <4>2. (1 * m + e) % m = e
        BY <1>2, <4>1, DivModUnique
      <4> QED
        BY <2>1, <2>2, <4>2, Zenon
    <3>2. CASE e <= MonthLength(next)
      <4>1. DayAt(d + k) = [next EXCEPT !.date = e]
        BY <1>1, <1>6, <1>11, <3>2, MonthAfter DEF m, next
      <4>2. next = [year |-> next.year, month |-> next.month,
                    date |-> next.date]
        BY DEF NextMonth, next
      <4>3. DayAt(d + k).date = e
        <5> HIDE DEF e
        <5> QED
          BY <4>1, <4>2
      <4> HIDE DEF e, date
      <4>4. Match(AlarmAt(t, w, c), end)
        BY <1>3, <1>8, <1>9, <3>1, <4>3 DEF Match
      <4> QED
        BY <1>3, <1>9, <2>1, <3>1, <4>4
    <3>3. CASE MonthLength(next) < e
      <4>1. e < cal.date
        BY <1>1, <1>2, <1>6, <1>7, <2>1, <2>3, <3>3
      <4> HIDE DEF e, date
      <4> QED
        BY <1>3, <2>1, <3>1, <3>3, <4>1 DEF cal, next
    <3> QED
      BY <1>2, <2>1, <3>2, <3>3
  <2>4. CASE e = m
    <3>1. 2 * m + 0 = cal.date + k /\ 0 \in 0 .. m - 1 /\ 2 \in Nat
      BY <1>2, <2>1, <2>4
    <3>2. (2 * m + 0) % m = 0
      BY <1>2, <3>1, DivModUnique
    <3>3. date = 0
      <4> HIDE DEF date
      <4> QED
        BY <2>2, <3>1, <3>2, Zenon
    <3> QED
      BY <1>3, <3>3
  <2>5. CASE e = m + 1
    <3>1. cal.date = m /\ k = N + 1 /\ m = N
      BY <1>1, <1>2, <1>6, <1>7, <2>1, <2>5
    <3>2. u = 0 /\ TimeOfDay(t) = S - 1
      BY <1>7, <3>1
    <3>3. CASE m = 1
      <4>1. 3 * m + 0 = cal.date + k /\ 0 \in 0 .. m - 1 /\ 3 \in Nat
        BY <1>2, <2>1, <2>5, <3>3
      <4>2. (3 * m + 0) % m = 0
        BY <1>2, <4>1, DivModUnique
      <4>3. date = 0
        <5> HIDE DEF date
        <5> QED
          BY <2>2, <4>1, <4>2, Zenon
      <4> QED
        BY <1>3, <4>3
    <3>4. CASE m # 1
      <4>1. 2 * m + 1 = cal.date + k /\ 1 \in 0 .. m - 1 /\ 2 \in Nat
        BY <1>2, <2>1, <2>5, <3>4
      <4>2. date = 1
        <5>1. (2 * m + 1) % m = 1
          BY <1>2, <4>1, DivModUnique
        <5> HIDE DEF date
        <5> QED
          BY <2>2, <4>1, <5>1, Zenon
      <4>3. Calendar(t + 1) = next /\ TimeOfDay(t + 1) = 0
        <5>1. (d + 1) * S + 0 = t + 1 /\ 0 \in 0 .. S - 1 /\ d + 1 \in Nat
          BY <1>1, <3>2
        <5>2. (t + 1) \div S = d + 1 /\ (t + 1) % S = 0
          <6>1. /\ ((d + 1) * S + 0) \div S = d + 1
                /\ ((d + 1) * S + 0) % S = 0
            BY <1>1, <5>1, DivModUnique
          <6> QED
            BY <5>1, <6>1, Zenon
        <5>3. Calendar(t + 1) = DayAt(d + 1)
          <6>1. t + 1 \in Nat
            OBVIOUS
          <6> QED
            BY <5>2, <6>1, CalendarIs
        <5>4. DayAt(d + 1) = NextDay(cal)
          BY <1>1, DayAtStep
        <5>5. NextDay(cal) = next
          BY <1>2, <3>1 DEF NextDay, m, next
        <5> QED
          BY <5>2, <5>3, <5>4, <5>5 DEF TimeOfDay
      <4> HIDE DEF date
      <4>4. Match(AlarmAt(t, w, c), t + 1)
        BY <1>2, <1>3, <3>2, <4>2, <4>3 DEF Match
      <4>5. t + 1 \in t + 1 .. t + w
        BY <1>5
      <4> QED
        BY <1>3, <4>2, <4>4, <4>5
    <3> QED
      BY <3>3, <3>4
  <2> QED
    BY <1>2, <2>1, <2>3, <2>4, <2>5
<1> QED
  BY <1>2, <1>6, <1>10, <1>11

(* An alarm that is set either never comes or matches a tick still to come *)
(* and not after the one it was set for.                                   *)
AlarmAhead ==
  alarm # Off =>
    \/ NeverComes
    \/ \E r \in tick .. ring : r > context.tick /\ Match(alarm, r)

LEMMA TimeoutSets ==
  ASSUME ClockInv, ReadsClock(tick), NEW timeout \in Nat,
         RtcSetTimeout(timeout, Century')
  PROVE  alarm' # Off /\ ContextOK' /\ AlarmAhead'
<1>1. tick \in Nat
  BY DEF ClockInv, ClockAt
<1>2. Century' \in Nat /\ Century' % 4 = 0
  <2>1. ClockAt(tick, Century, CalendarRollOverReady)
    BY DEF ClockInv
  <2>2. ClockAt(tick, Century', CalendarRollOverReady')
    BY <2>1, ClockRead
  <2> QED
    BY <2>2 DEF ClockAt
<1>3. PICK more \in {0, 1}, late \in 0 .. Late :
        /\ alarm' = AlarmTick(Wait(timeout) + more, Century')
        /\ context' = [tick |-> tick, century |-> Century']
        /\ ring' = tick + Wait(timeout) + more
        /\ tick' = tick + late
  BY Zenon DEF RtcSetTimeout
<1>4. late \in {0, 1}
  <2>1. Late \in {0, 1}
    BY RtcAssumption, Zenon
  <2> QED
    BY <2>1
<1> DEFINE w == Wait(timeout) + more
           X == MaxNumberOfDays * SecondsInDay
<1>5. w \in 1 .. X + 1 /\ ring' = tick + w /\ w \in Nat
  <2>1. Wait(timeout) \in 1 .. X
    BY WaitIs
  <2>2. X \in Nat
    BY SecondsInDayIs, RtcAssumption
  <2> HIDE DEF X
  <2> QED
    BY <1>1, <1>3, <2>1, <2>2
<1>6. alarm' = AlarmAt(tick, w, Century')
  BY <1>3, Zenon DEF AlarmTick, AlarmAt
<1> HIDE DEF w
<1>7. /\ alarm'.date \in Nat
      /\ \/ alarm'.date = 0
         \/ /\ MonthLength(NextMonth(Calendar(tick))) < alarm'.date
            /\ alarm'.date < Calendar(tick).date
         \/ \E r \in tick + 1 .. tick + w : Match(alarm', r)
  <2> HIDE DEF X
  <2>1. w \in 1 .. MaxNumberOfDays * SecondsInDay + 1
    BY <1>5 DEF X
  <2> QED
    BY <1>1, <1>2, <1>6, <2>1, AlarmFinds, Zenon
<1>8. alarm' # Off
  <2>1. Off.date = -1
    BY DEF Off
  <2>2. -1 \notin Nat
    OBVIOUS
  <2> QED
    BY <1>7, <2>1, <2>2
<1>9. context'.tick = tick /\ context'.century = Century'
  BY <1>3
<1>10. ContextOK'
  <2>1. ring' \in Nat
    <3> HIDE DEF X
    <3> QED
      BY <1>1, <1>5
  <2> QED
    BY <1>1, <1>2, <1>9, <2>1 DEF ContextOK
<1>11. AlarmAhead'
  <2>1. CASE \/ alarm'.date = 0
             \/ /\ MonthLength(NextMonth(Calendar(tick))) < alarm'.date
                /\ alarm'.date < Calendar(tick).date
    <3>1. NeverComes'
      BY <1>9, <2>1, Zenon DEF NeverComes
    <3> QED
      BY <3>1, Zenon DEF AlarmAhead
  <2>2. CASE \E r \in tick + 1 .. tick + w : Match(alarm', r)
    <3>1. PICK r \in tick + 1 .. tick + w : Match(alarm', r)
      BY <2>2
    <3>2. r \in tick' .. ring' /\ r > context'.tick
      BY <1>1, <1>3, <1>4, <1>5, <1>9, <3>1
    <3> QED
      BY <3>1, <3>2, Zenon DEF AlarmAhead, Match
  <2> QED
    BY <1>7, <2>1, <2>2
<1> QED
  BY <1>8, <1>10, <1>11

-----------------------------------------------------------------------------
(* The ticks that a band must rest for a time off of so many ms. *)
Rest(off) == ((off - 1) * MsDen) \div MsNum

LEMMA Floor ==
  ASSUME NEW a \in Int, NEW b \in Nat \ {0}
  PROVE  /\ a \div b \in Int
         /\ (a \div b) * b <= a /\ a < (a \div b) * b + b
<1>1. a \div b \in Int
  OBVIOUS
<1>2. a % b \in 0 .. b - 1
  OBVIOUS
<1>3. a = b * (a \div b) + (a % b)
  OBVIOUS
<1> DEFINE q == a \div b
           r == a % b
<1> HIDE DEF q, r
<1>4. q \in Int /\ r \in 0 .. b - 1 /\ a = b * q + r
  BY <1>1, <1>2, <1>3 DEF q, r
<1>5. b * q = q * b /\ q * b \in Int
  BY <1>4
<1>6. q * b <= a /\ a < q * b + b
  BY <1>4, <1>5
<1> QED
  BY <1>4, <1>6 DEF q

LEMMA MsBounds ==
  ASSUME NEW t \in Nat
  PROVE  /\ Ms(t) \in Nat
         /\ Ms(t) * (2 * MsDen) <= 2 * (t * MsNum) + MsDen
         /\ 2 * (t * MsNum) + MsDen < Ms(t) * (2 * MsDen) + 2 * MsDen
<1> DEFINE x == 2 * (t * MsNum) + MsDen
           D == 2 * MsDen
<1>1. Ms(t) = x \div D
  BY Zenon DEF Ms, Rounded
<1>2. x \in Nat /\ x \in Int /\ D \in Nat \ {0}
  BY TickIs
<1> HIDE DEF x, D
<1>3. (x \div D) * D <= x /\ x < (x \div D) * D + D
  BY <1>2, Floor
<1>4. x \div D \in Nat
  BY <1>2, DivMod
<1> QED
  BY <1>1, <1>3, <1>4 DEF x, D

LEMMA RestMonotone ==
  ASSUME NEW a \in Nat, NEW b \in Nat, a <= b
  PROVE  Rest(a) \in Int /\ Rest(b) \in Int /\ Rest(a) <= Rest(b)
<1> DEFINE N == MsNum
           x == (a - 1) * MsDen
           y == (b - 1) * MsDen
           p == x \div N
           q == y \div N
<1>1. N \in Nat \ {0} /\ x \in Int /\ y \in Int /\ x <= y
  <2>1. a - 1 \in Int /\ b - 1 \in Int /\ a - 1 <= b - 1
    OBVIOUS
  <2>2. x \in Int /\ y \in Int
    BY TickIs
  <2>3. x <= y
    BY <2>1, TickIs, TimesMonotone
  <2> QED
    BY <2>2, <2>3, TickIs
<1>2. Rest(a) = p /\ Rest(b) = q
  BY Zenon DEF Rest
<1> HIDE DEF N, x, y
<1>3. p \in Int /\ p * N <= x /\ q \in Int /\ y < q * N + N
  BY <1>1, Floor
<1> HIDE DEF p, q
<1>4. ~ (q + 1 <= p)
  <2> SUFFICES ASSUME q + 1 <= p PROVE FALSE
    OBVIOUS
  <2>1. (q + 1) * N <= p * N
    BY <1>1, <1>3, TimesMonotone
  <2>2. (q + 1) * N = q * N + N /\ q * N \in Int /\ p * N \in Int
    BY <1>1, <1>3
  <2> QED
    BY <1>1, <1>3, <2>1, <2>2
<1> QED
  BY <1>2, <1>3, <1>4

(* A time off that has passed by the clock has passed in truth. *)
LEMMA Rested ==
  ASSUME NEW a \in Nat, NEW b \in Nat, b <= a, NEW off \in Nat,
         off <= Ms(a) - Ms(b)
  PROVE  Rest(off) <= a - b
<1> DEFINE N == MsNum
           D == MsDen
           A == Ms(a)
           B == Ms(b)
           x == a * N
           y == b * N
           z == (off - 1) * D
           q == z \div N
<1>1. N \in Nat \ {0} /\ D \in Nat \ {0}
  BY TickIs
<1>2. /\ A \in Nat /\ A * (2 * D) <= 2 * x + D
      /\ B \in Nat /\ 2 * y + D < B * (2 * D) + 2 * D
  BY MsBounds
<1>3. off <= A - B
  OBVIOUS
<1>4. Rest(off) = q
  BY Zenon DEF Rest
<1> HIDE DEF N, D, A, B
<1>5. x \in Nat /\ y \in Nat /\ z \in Int /\ (a - b) * N = x - y
  BY <1>1
<1>6. z < x - y
  <2>1. off * (2 * D) <= (A - B) * (2 * D)
    <3>1. A - B \in Int /\ off \in Int /\ 2 * D \in Nat
      BY <1>1, <1>2
    <3> DEFINE E == 2 * D
               C == A - B
    <3> HIDE DEF E, C
    <3>2. C \in Int /\ E \in Nat /\ off <= C
      BY <1>3, <3>1 DEF C, E
    <3>3. off * E <= C * E
      BY <3>1, <3>2, TimesMonotone
    <3> QED
      BY <3>3 DEF C, E
  <2>2. /\ (A - B) * (2 * D) = A * (2 * D) - B * (2 * D)
        /\ off * (2 * D) = 2 * z + 2 * D
        /\ A * (2 * D) \in Int /\ B * (2 * D) \in Int
    BY <1>1, <1>2
  <2> HIDE DEF x, y, z
  <2>3. 2 * z + 2 * D <= A * (2 * D) - B * (2 * D)
    BY <2>1, <2>2
  <2> QED
    BY <1>1, <1>2, <1>5, <2>2, <2>3
<1>7. q \in Int /\ q * N <= z
  <2> HIDE DEF z
  <2> QED
    BY <1>1, <1>5, Floor
<1> DEFINE c == a - b
<1>8. c \in Nat /\ c * N = x - y
  BY <1>5
<1> HIDE DEF q, x, y, z, c
<1>9. ~ (c + 1 <= q)
  <2> SUFFICES ASSUME c + 1 <= q PROVE FALSE
    OBVIOUS
  <2>1. (c + 1) * N <= q * N
    BY <1>1, <1>7, <1>8, TimesMonotone
  <2>2. (c + 1) * N = c * N + N
    BY <1>1, <1>8
  <2>3. c * N \in Int /\ q * N \in Int
    BY <1>1, <1>7, <1>8
  <2> QED
    BY <1>1, <1>5, <1>6, <1>7, <1>8, <2>1, <2>2, <2>3
<1>10. q <= c
  BY <1>7, <1>8, <1>9
<1> QED
  BY <1>4, <1>10 DEF c

(* What a band has to wait for: the time off of its last frame, which the  *)
(* next call of ScheduleTx computes for the band used last.                *)
TimeOffOf(b) ==
  IF b = LastTxBand /\ sending = None
  THEN TxTimeOnAir * DCycle[b] - TxTimeOnAir ELSE TimeOff[b]

MustRest(b) ==
  \/ rest[b] <= tick
  \/ \E tx \in 0 .. tick : /\ LastTxDoneTime[b] = Ms(tx + SecondsInDay)
                           /\ rest[b] <= tx + Rest(TimeOffOf(b))

Resting == \A b \in Bands : b # sending => MustRest(b)

JoinsOnBand0 ==
  /\ \A b \in Bands : b # Band0 => LastJoinTxDoneTime[b] = 0
  /\ ~IsLoRaMacNetworkJoined /\ sending # None => sending = Band0

LEMMA TimeOffOfIs ==
  ASSUME MacTypes, NEW b \in Bands
  PROVE  TimeOffOf(b) \in Nat /\ rest[b] \in Int
<1>1. 0 \in MaxDCycles \cup {0} /\ TRUE \in BOOLEAN
  OBVIOUS
<1>2. TxTimeOnAir * DCycle[b] - TxTimeOnAir \in Nat
  BY <1>1, CostsAre
<1>3. TimeOff[b] \in Nat /\ rest[b] \in Int
  BY DEF MacTypes
<1> QED
  BY <1>2, <1>3 DEF TimeOffOf

LEMMA BandOpens ==
  ASSUME ClockInv, MacTypes, NEW b \in Bands, MustRest(b),
         NEW now \in 0 .. MaxTime, now = Ms(tick + SecondsInDay),
         NEW off \in Nat, TimeOffOf(b) <= off,
         off <= Elapsed(now, LastTxDoneTime[b])
  PROVE  rest[b] <= tick
<1> DEFINE S == SecondsInDay
           event == LastTxDoneTime[b]
<1>1. tick \in Nat /\ S \in Nat
  BY SecondsInDayIs DEF ClockInv, ClockAt
<1>2. TimeOffOf(b) \in Nat /\ rest[b] \in Int
  BY TimeOffOfIs
<1>3. CASE \E tx \in 0 .. tick : /\ event = Ms(tx + S)
                                 /\ rest[b] <= tx + Rest(TimeOffOf(b))
  <2>1. PICK tx \in 0 .. tick : /\ event = Ms(tx + S)
                                /\ rest[b] <= tx + Rest(TimeOffOf(b))
    BY <1>3
  <2>2. tx + S \in Nat /\ tick + S \in Nat /\ tx + S <= tick + S
    BY <1>1
  <2>3. /\ Ms(tx + S) <= Ms(tick + S)
        /\ Ms(tx + S) \in Nat /\ Ms(tick + S) \in Nat
    BY <2>2, MsMonotone
  <2>4. Elapsed(now, event) <= now - event /\ Elapsed(now, event) \in Nat
    <3>1. event \in 0 .. MaxTime
      BY DEF MacTypes
    <3> QED
      BY <2>1, <2>3, <3>1, ElapsedIs
  <2>5. TimeOffOf(b) <= Ms(tick + S) - Ms(tx + S)
    BY <1>2, <2>1, <2>3, <2>4
  <2>6. Rest(TimeOffOf(b)) <= (tick + S) - (tx + S)
    BY <1>2, <2>2, <2>5, Rested
  <2>7. Rest(TimeOffOf(b)) \in Int
    BY <1>2, RestMonotone
  <2> QED
    BY <1>1, <1>2, <2>1, <2>6, <2>7
<1> QED
  BY <1>3 DEF MustRest

(* A band goes on resting when its time off does not shrink. *)
LEMMA GoesOnResting ==
  ASSUME MacTypes, NEW b \in Bands, MustRest(b), tick \in Nat, tick' \in Nat,
         tick <= tick', rest'[b] = rest[b],
         LastTxDoneTime'[b] = LastTxDoneTime[b],
         TimeOffOf(b)' \in Nat, TimeOffOf(b) <= TimeOffOf(b)'
  PROVE  MustRest(b)'
<1>1. TimeOffOf(b) \in Nat /\ rest[b] \in Int
  BY TimeOffOfIs
<1>2. CASE rest[b] <= tick
  <2>1. rest'[b] <= tick'
    BY <1>1, <1>2
  <2> QED
    BY <2>1 DEF MustRest
<1>3. CASE \E tx \in 0 .. tick : /\ LastTxDoneTime[b] = Ms(tx + SecondsInDay)
                                 /\ rest[b] <= tx + Rest(TimeOffOf(b))
  <2>1. PICK tx \in 0 .. tick : /\ LastTxDoneTime[b] = Ms(tx + SecondsInDay)
                                /\ rest[b] <= tx + Rest(TimeOffOf(b))
    BY <1>3
  <2>2. /\ Rest(TimeOffOf(b)) <= Rest(TimeOffOf(b)')
        /\ Rest(TimeOffOf(b)) \in Int /\ Rest(TimeOffOf(b)') \in Int
    BY <1>1, RestMonotone
  <2>3. /\ tx \in 0 .. tick'
        /\ LastTxDoneTime'[b] = Ms(tx + SecondsInDay)
        /\ rest'[b] <= tx + Rest(TimeOffOf(b)')
    BY <1>1, <2>1, <2>2
  <2> QED
    BY <2>3 DEF MustRest
<1> QED
  BY <1>2, <1>3 DEF MustRest

(* ScheduleTx: a band that it uses or forgets about has rested.  The one   *)
(* exception is the band of join requests, when it is used for one.        *)
LEMMA ScheduleRests ==
  ASSUME ClockInv, MacTypes, JoinsOnBand0, sending = None,
         NEW joined \in BOOLEAN, NEW again,
         LastTxBand' \in Bands, MaxDCycle' \in MaxDCycles \cup {0},
         ScheduleTx(joined, again),
         rest' \in [Bands -> Int],
         \A b \in Bands : \/ rest'[b] <= tick
                          \/ /\ rest'[b] = rest[b] /\ MustRest(b)
                             /\ b = LastTxBand' <=> b = LastTxBand
  PROVE  /\ Resting'
         /\ \A b \in Bands : sending' = b /\ joined => rest'[b] <= tick
<1> DEFINE now == NextTime
           off1 == Charged(joined, LastTxBand')
           off2 == Opened(joined, LastTxBand', now)
           Kept(b) == /\ rest'[b] = rest[b] /\ MustRest(b)
                      /\ b = LastTxBand' <=> b = LastTxBand
           Alike(b) == joined \/ b # Band0
<1>1. tick \in Nat /\ tick' \in Nat /\ tick <= tick'
  <2>1. tick \in Nat /\ until \in Nat /\ tick <= until
    BY DEF ClockInv, ClockAt
  <2>2. ReadsAndGoesOn
    BY <2>1, ScheduleGoesOn
  <2> QED
    BY <2>1, <2>2 DEF ReadsAndGoesOn
<1>2. /\ now = Ms(tick + SecondsInDay) /\ now \in 0 .. MaxTime
      /\ LastTxDoneTime' = LastTxDoneTime
      /\ \/ \E b \in Usable(joined) : SendsOn(joined, b)
         \/ \E delay \in Nat : PutsOff(joined, delay, again)
  BY ScheduleCases, NextTimeIs
<1>3. \A b \in Bands : rest'[b] <= tick \/ Kept(b)
  OBVIOUS
<1>4. /\ off1 \in [Bands -> Nat]
      /\ \A b \in Bands : off2[b] = Left(off1[b], SinceTx(b, joined, now))
  <2>1. off1 \in [Bands -> Nat]
    BY <1>2, ChargedIs
  <2>2. \A b \in Bands : off2[b] = Left(off1[b], SinceTx(b, joined, now))
    BY Zenon DEF Opened
  <2> QED
    BY <2>1, <2>2
<1>5. \A b \in Bands :
        /\ rest'[b] \in Int
        /\ TimeOffOf(b) \in Nat
        /\ Kept(b) => TimeOffOf(b) <= off1[b]
  <2> SUFFICES ASSUME NEW b \in Bands
               PROVE  /\ rest'[b] \in Int
                      /\ TimeOffOf(b) \in Nat
                      /\ Kept(b) => TimeOffOf(b) <= off1[b]
    OBVIOUS
  <2>1. TimeOffOf(b) \in Nat
    BY TimeOffOfIs
  <2>2. TxTimeOnAir * DCycle[b] - TxTimeOnAir <= BackOff(joined, b)
    <3>1. 0 \in MaxDCycles \cup {0}
      OBVIOUS
    <3> QED
      BY <3>1, CostsAre
  <2>3. off1[b] = IF b = LastTxBand' THEN BackOff(joined, b) ELSE TimeOff[b]
    BY DEF Charged, MacTypes
  <2>4. CASE Kept(b) /\ b = LastTxBand
    <3>1. TimeOffOf(b) = TxTimeOnAir * DCycle[b] - TxTimeOnAir
      BY <2>4 DEF TimeOffOf
    <3> QED
      BY <2>1, <2>2, <2>3, <2>4, <3>1
  <2>5. CASE Kept(b) /\ b # LastTxBand
    <3>1. TimeOffOf(b) = TimeOff[b]
      BY <2>5 DEF TimeOffOf
    <3> QED
      BY <2>1, <2>3, <2>5, <3>1
  <2> QED
    BY <2>1, <2>4, <2>5
<1> HIDE DEF off1, off2, Kept, now
<1>6. \A b \in Bands :
        /\ SinceTx(b, joined, now) \in Nat
        /\ Alike(b) => SinceTx(b, joined, now) = Elapsed(now, LastTxDoneTime[b])
  BY <1>2, SinceTxIs DEF JoinsOnBand0
<1>7. ASSUME NEW b \in Bands, Alike(b), off1[b] <= SinceTx(b, joined, now)
      PROVE  rest'[b] <= tick
  <2>1. CASE Kept(b)
    <3>1. rest[b] <= tick
      <4>1. MustRest(b)
        BY <2>1 DEF Kept
      <4>2. off1[b] \in Nat /\ TimeOffOf(b) <= off1[b]
        BY <1>4, <1>5, <2>1
      <4>3. off1[b] <= Elapsed(now, LastTxDoneTime[b])
        BY <1>6, <1>7
      <4> QED
        BY <1>2, <4>1, <4>2, <4>3, BandOpens
    <3> QED
      BY <2>1, <3>1 DEF Kept
  <2> QED
    BY <1>3, <2>1
<1>8. ASSUME NEW b \in Bands, rest'[b] <= tick
      PROVE  MustRest(b)'
  <2>1. rest'[b] <= tick'
    BY <1>1, <1>5, <1>8
  <2> QED
    BY <2>1 DEF MustRest
<1>9. ASSUME NEW b \in Bands, Kept(b), TimeOffOf(b)' = off1[b]
      PROVE  MustRest(b)'
  <2>1. TimeOffOf(b)' \in Nat /\ TimeOffOf(b) <= TimeOffOf(b)'
    BY <1>4, <1>5, <1>9
  <2>2. rest'[b] = rest[b] /\ MustRest(b)
    BY <1>9 DEF Kept
  <2>3. LastTxDoneTime'[b] = LastTxDoneTime[b]
    BY <1>2
  <2> QED
    BY <1>1, <2>1, <2>2, <2>3, GoesOnResting
<1>10. ASSUME NEW b \in Bands, TimeOffOf(b)' = off2[b],
              Alike(b) \/ off2[b] # 0
       PROVE  MustRest(b)'
  <2>1. CASE off1[b] <= SinceTx(b, joined, now)
    <3>1. off2[b] = 0
      BY <1>4, <2>1 DEF Left
    <3> QED
      BY <1>7, <1>8, <1>10, <2>1, <3>1
  <2>2. CASE ~(off1[b] <= SinceTx(b, joined, now))
    <3>1. off2[b] = off1[b]
      BY <1>4, <2>2 DEF Left
    <3> QED
      BY <1>3, <1>8, <1>9, <1>10, <3>1
  <2> QED
    BY <2>1, <2>2
<1>11. CASE \E s \in Usable(joined) : SendsOn(joined, s)
  <2>1. PICK s \in Usable(joined) : SendsOn(joined, s)
    BY <1>11
  <2>2. TimeOff' = off2 /\ off2[s] = 0 /\ sending' = s
    BY <2>1, Zenon DEF SendsOn, Send, off2, now
  <2>3. s \in Bands /\ s # None /\ (joined \/ s = Band0)
    BY DutyIs DEF Usable
  <2>4. ASSUME NEW b \in Bands, b # s PROVE MustRest(b)'
    <3>1. TimeOffOf(b)' = off2[b]
      BY <2>2, <2>3 DEF TimeOffOf
    <3>2. Alike(b)
      BY <2>3, <2>4
    <3> QED
      BY <1>10, <3>1, <3>2
  <2>5. ASSUME joined PROVE rest'[s] <= tick
    <3>1. off1[s] <= SinceTx(s, joined, now)
      <4>1. /\ off1[s] \in Nat /\ SinceTx(s, joined, now) \in Nat
            /\ Left(off1[s], SinceTx(s, joined, now)) = 0
        BY <1>4, <1>6, <2>2, <2>3
      <4> QED
        BY <4>1 DEF Left
    <3> QED
      BY <1>7, <2>3, <2>5, <3>1
  <2> QED
    BY <2>2, <2>4, <2>5 DEF Resting
<1>12. CASE \E delay \in Nat : PutsOff(joined, delay, again)
  <2>1. PICK delay \in Nat : PutsOff(joined, delay, again)
    BY <1>12
  <2>2. sending' = None /\ TxTimeOnAir' = TxTimeOnAir
    BY <2>1 DEF PutsOff, PutOff
  <2>3. \/ /\ TimeOff' = off2
           /\ \A b \in Usable(joined) : off2[b] # 0
        \/ TimeOff' = off1
    BY <2>1, Zenon DEF PutsOff, off1, off2, now
  <2>4. ASSUME NEW b \in Bands PROVE MustRest(b)'
    <3>1. CASE rest'[b] <= tick
      BY <1>8, <3>1
    <3>2. CASE Kept(b) /\ b = LastTxBand'
      <4>1. b = LastTxBand /\ rest'[b] = rest[b] /\ MustRest(b)
        BY <3>2 DEF Kept
      <4>2. TimeOffOf(b)' = TimeOffOf(b)
        BY <2>2, <3>2, <4>1 DEF TimeOffOf
      <4>3. TimeOffOf(b) \in Nat /\ TimeOffOf(b) <= TimeOffOf(b)
            /\ LastTxDoneTime'[b] = LastTxDoneTime[b]
        BY <1>2, <1>5
      <4> QED
        BY <1>1, <4>1, <4>2, <4>3, GoesOnResting
    <3>3. CASE Kept(b) /\ b # LastTxBand'
      <4>1. TimeOffOf(b)' = TimeOff'[b]
        BY <3>3 DEF TimeOffOf
      <4>2. CASE TimeOff' = off1
        BY <1>9, <3>3, <4>1, <4>2
      <4>3. CASE TimeOff' = off2 /\ \A x \in Usable(joined) : off2[x] # 0
        <5>1. Alike(b) \/ off2[b] # 0
          BY <4>3, DutyIs DEF Usable
        <5> QED
          BY <1>10, <4>1, <4>3, <5>1
      <4> QED
        BY <2>3, <4>2, <4>3
    <3> QED
      BY <1>3, <3>1, <3>2, <3>3
  <2>5. \A b \in Bands : sending' # b
    BY <2>2, DutyIs
  <2> QED
    BY <2>4, <2>5 DEF Resting
<1> QED
  BY <1>2, <1>11, <1>12

-----------------------------------------------------------------------------
(* The inductive invariant. *)
Inv ==
  /\ ClockInv
  /\ MacTypes /\ ContextOK /\ Delayed
  /\ AlarmAhead
  /\ Resting /\ JoinsOnBand0

LEMMA InitInv == Init => Inv
<1> SUFFICES ASSUME Init PROVE Inv
  OBVIOUS
<1>1. ClockInv
  BY ClockInit
<1>2. MacTypes
  <2>1. MaxTime \in Nat \ {0}
    BY RtcAssumption, Zenon
  <2>2. LastTxDoneTime \in [Bands -> 0 .. MaxTime]
    BY <2>1 DEF Init
  <2>3. LastTxDoneTime[Band0] \in 0 .. MaxTime
    BY <2>2, DutyIs
  <2> QED
    BY <2>2, <2>3, DutyIs DEF Init, MacTypes
<1>3. alarm = Off /\ context = NoContext /\ ring = 0
  BY DEF Init, RtcInit
<1>4. ContextOK /\ AlarmAhead
  BY <1>3 DEF ContextOK, AlarmAhead, NoContext
<1>5. Delayed
  BY <1>3 DEF Init, Delayed
<1>6. Resting
  <2>1. tick \in Nat /\ \A b \in Bands : rest[b] = 0
    BY <1>1 DEF Init, ClockInv, ClockAt
  <2> QED
    BY <2>1 DEF Resting, MustRest
<1>7. JoinsOnBand0
  BY DEF Init, JoinsOnBand0
<1> QED
  BY <1>1, <1>2, <1>4, <1>5, <1>6, <1>7 DEF Inv

LEMMA ScheduleStep ==
  ASSUME Inv, sending = None, NEW joined \in BOOLEAN, NEW again,
         IsLoRaMacNetworkJoined' = joined,
         LastTxBand' \in Bands, MaxDCycle' \in MaxDCycles \cup {0},
         ScheduleTx(joined, again),
         rest' \in [Bands -> Int],
         \A b \in Bands : \/ rest'[b] <= tick
                          \/ /\ rest'[b] = rest[b] /\ MustRest(b)
                             /\ b = LastTxBand' <=> b = LastTxBand
  PROVE  /\ MacTypes' /\ ContextOK' /\ Delayed' /\ AlarmAhead'
         /\ Resting' /\ JoinsOnBand0'
         /\ \A b \in Bands : sending' = b /\ joined => rest'[b] <= tick
<1>1. ClockInv /\ MacTypes /\ JoinsOnBand0
  BY DEF Inv
<1>2. /\ Resting'
      /\ \A b \in Bands : sending' = b /\ joined => rest'[b] <= tick
  BY <1>1, ScheduleRests
<1>3. /\ ReadsClock(tick) /\ NextTime \in 0 .. MaxTime
      /\ AggregatedTimeOff' \in Nat
      /\ UNCHANGED <<LastTxDoneTime, LastJoinTxDoneTime,
                     AggregatedLastTxDoneTime>>
      /\ \/ \E b \in Usable(joined) : SendsOn(joined, b)
         \/ \E delay \in Nat : PutsOff(joined, delay, again)
  BY <1>1, ScheduleCases
<1>4. /\ Charged(joined, LastTxBand') \in [Bands -> Nat]
      /\ Opened(joined, LastTxBand', NextTime) \in [Bands -> Nat]
  BY <1>1, <1>3, ChargedIs
<1>5. CASE \E b \in Usable(joined) : SendsOn(joined, b)
  <2>1. PICK b \in Usable(joined) : SendsOn(joined, b)
    BY <1>5
  <2>2. /\ TimeOff' \in [Bands -> Nat]
        /\ sending' = b /\ TxTimeOnAir' \in AirTimes /\ Timestamp' = None
        /\ alarm' = Off /\ context' = NoContext /\ ring' = 0
    <3>1. TimeOff' \in [Bands -> Nat]
      BY <1>4, <2>1, Zenon DEF SendsOn
    <3> QED
      BY <2>1, <3>1 DEF SendsOn, Send, NoAlarm
  <2>3. b \in Bands /\ (joined \/ b = Band0)
    BY DutyIs DEF Usable
  <2>4. MacTypes'
    BY <1>1, <1>3, <2>2, <2>3 DEF MacTypes
  <2>5. ContextOK' /\ Delayed' /\ AlarmAhead'
    BY <2>2 DEF ContextOK, NoContext, Delayed, AlarmAhead
  <2>6. JoinsOnBand0'
    BY <1>1, <1>3, <2>2, <2>3 DEF JoinsOnBand0
  <2> QED
    BY <1>2, <2>4, <2>5, <2>6
<1>6. CASE \E delay \in Nat : PutsOff(joined, delay, again)
  <2>1. PICK delay \in Nat : PutsOff(joined, delay, again)
    BY <1>6
  <2>2. /\ TimeOff' \in [Bands -> Nat]
        /\ sending' = None /\ TxTimeOnAir' = TxTimeOnAir
        /\ Timestamp' = delay /\ RtcSetTimeout(delay, Century')
    <3>1. TimeOff' \in [Bands -> Nat]
      BY <1>4, <2>1, Zenon DEF PutsOff
    <3> QED
      BY <2>1, <3>1 DEF PutsOff, PutOff
  <2>3. MacTypes'
    BY <1>1, <1>3, <2>2 DEF MacTypes
  <2>4. alarm' # Off /\ ContextOK' /\ AlarmAhead'
    BY <1>1, <1>3, <2>2, TimeoutSets
  <2>5. Delayed'
    BY <2>2, <2>4, DutyIs DEF Delayed
  <2>6. JoinsOnBand0'
    BY <1>1, <1>3, <2>2 DEF JoinsOnBand0
  <2> QED
    BY <1>2, <2>3, <2>4, <2>5, <2>6
<1> QED
  BY <1>3, <1>5, <1>6

(* While the alarm is left alone. *)
LEMMA AlarmStays ==
  ASSUME ContextOK, AlarmAhead, UNCHANGED <<alarm, context, ring>>, tick' = tick
  PROVE  ContextOK' /\ AlarmAhead'
<1>1. alarm' = alarm /\ context' = context /\ ring' = ring
  OBVIOUS
<1>2. ContextOK'
  BY <1>1 DEF ContextOK
<1>3. NeverComes' <=> NeverComes
  BY <1>1, Zenon DEF NeverComes
<1>4. ASSUME alarm' # Off, ~NeverComes'
      PROVE  \E r \in tick' .. ring' : r > context'.tick /\ Match(alarm', r)
  <2>1. PICK r \in tick .. ring : r > context.tick /\ Match(alarm, r)
    BY <1>1, <1>3, <1>4 DEF AlarmAhead
  <2>2. r \in tick' .. ring' /\ r > context'.tick /\ Match(alarm', r)
    BY <1>1, <2>1
  <2> QED
    BY <2>2
<1>5. AlarmAhead'
  BY <1>4 DEF AlarmAhead, Match
<1> QED
  BY <1>2, <1>5

LEMMA AlarmTicks ==
  ASSUME ClockInv, ContextOK, AlarmAhead, Tick
  PROVE  ContextOK' /\ AlarmAhead'
<1>1. /\ alarm' = alarm /\ context' = context /\ ring' = ring
      /\ tick' = tick + 1 /\ tick \in Nat /\ ~Rings
  BY DEF Tick, ClockInv, ClockAt
<1>2. ContextOK'
  BY <1>1 DEF ContextOK
<1>3. NeverComes' <=> NeverComes
  BY <1>1, Zenon DEF NeverComes
<1>4. ASSUME alarm' # Off, ~NeverComes'
      PROVE  \E r \in tick' .. ring' : r > context'.tick /\ Match(alarm', r)
  <2>1. PICK r \in tick .. ring : r > context.tick /\ Match(alarm, r)
    BY <1>1, <1>3, <1>4 DEF AlarmAhead
  <2>2. r # tick
    BY <1>1, <2>1 DEF Rings, Match
  <2>3. r \in tick' .. ring' /\ r > context'.tick /\ Match(alarm', r)
    BY <1>1, <2>1, <2>2
  <2> QED
    BY <2>3
<1>5. AlarmAhead'
  BY <1>4 DEF AlarmAhead, Match
<1> QED
  BY <1>2, <1>5

(* While no frame is sent or put off. *)
LEMMA RestStays ==
  ASSUME MacTypes, Resting, tick \in Nat, tick' \in Nat, tick <= tick',
         UNCHANGED <<LastTxDoneTime, TimeOff, TxTimeOnAir, LastTxBand, sending,
                     rest>>
  PROVE  Resting'
<1> SUFFICES ASSUME NEW b \in Bands, sending' # b PROVE MustRest(b)'
  BY DEF Resting
<1>1. MustRest(b)
  BY DEF Resting
<1>2. TimeOffOf(b)' = TimeOffOf(b)
  BY DEF TimeOffOf
<1>3. TimeOffOf(b) \in Nat
  BY TimeOffOfIs
<1>4. TimeOffOf(b)' \in Nat /\ TimeOffOf(b) <= TimeOffOf(b)'
      /\ rest'[b] = rest[b] /\ LastTxDoneTime'[b] = LastTxDoneTime[b]
  BY <1>2, <1>3
<1> QED
  BY <1>1, <1>4, GoesOnResting

LEMMA AlarmIsTimer ==
  ASSUME MacTypes, Delayed, ClockInv, Rings
  PROVE  Timestamp \in Nat /\ sending = None /\ alarm # Off
<1>1. alarm.date \in Nat
  <2>1. tick \in Nat
    BY DEF ClockInv, ClockAt
  <2>2. Calendar(tick).date \in Nat
    BY <2>1, CalendarIs DEF Dates
  <2> QED
    BY <2>2 DEF Rings
<1>2. alarm # Off
  <2>1. Off.date = -1 /\ -1 \notin Nat
    BY DEF Off
  <2> QED
    BY <1>1, <2>1
<1> QED
  BY <1>2 DEF MacTypes, Delayed

(* The part of the invariant that is not the clock's. *)
MacInv ==
  /\ MacTypes /\ ContextOK /\ Delayed
  /\ AlarmAhead
  /\ Resting /\ JoinsOnBand0

LEMMA McpsRequestStep == Inv /\ McpsRequest => MacInv'
<1> SUFFICES ASSUME Inv, McpsRequest PROVE MacInv'
  OBVIOUS
<1>1. /\ sending = None /\ IsLoRaMacNetworkJoined' = TRUE
      /\ LastTxBand' = LastTxBand /\ MaxDCycle' = MaxDCycle /\ rest' = rest
      /\ ScheduleTx(TRUE, FALSE)
  BY DEF McpsRequest, Idle, Inv, MacTypes
<1>2. LastTxBand' \in Bands /\ MaxDCycle' \in MaxDCycles \cup {0}
      /\ rest' \in [Bands -> Int] /\ \A b \in Bands : MustRest(b)
  BY <1>1, DutyIs DEF Inv, MacTypes, Resting
<1> QED
  BY <1>1, <1>2, ScheduleStep DEF MacInv

LEMMA MlmeJoinStep == Inv /\ MlmeJoin => MacInv'
<1> SUFFICES ASSUME Inv, MlmeJoin PROVE MacInv'
  OBVIOUS
<1>1. /\ sending = None /\ IsLoRaMacNetworkJoined' = FALSE
      /\ LastTxBand' = Band0 /\ MaxDCycle' = 0
      /\ ScheduleTx(FALSE, FALSE)
      /\ rest' = IF LastTxBand = Band0 THEN rest
                 ELSE [rest EXCEPT ![LastTxBand] = 0, ![Band0] = 0]
  BY DEF MlmeJoin, Idle
<1>2. LastTxBand' \in Bands /\ MaxDCycle' \in MaxDCycles \cup {0}
      /\ \A b \in Bands : MustRest(b)
  BY <1>1, DutyIs DEF Inv, Resting
<1>3. /\ rest \in [Bands -> Int] /\ tick \in Nat
      /\ LastTxBand \in Bands /\ Band0 \in Bands
  BY DutyIs DEF Inv, MacTypes, ClockInv, ClockAt
<1>4. rest' \in [Bands -> Int]
  BY <1>1, <1>3
<1>5. \A b \in Bands : \/ rest'[b] <= tick
                       \/ /\ rest'[b] = rest[b] /\ MustRest(b)
                          /\ b = LastTxBand' <=> b = LastTxBand
  <2>1. CASE LastTxBand = Band0
    BY <1>1, <1>2, <2>1
  <2>2. CASE LastTxBand # Band0
    <3>1. \A b \in Bands :
            rest'[b] = IF b \in {Band0, LastTxBand} THEN 0 ELSE rest[b]
      BY <1>1, <1>3, <2>2
    <3> QED
      BY <1>1, <1>2, <1>3, <3>1
  <2> QED
    BY <2>1, <2>2
<1> QED
  BY <1>1, <1>2, <1>4, <1>5, ScheduleStep DEF MacInv

LEMMA TimerEventStep == Inv /\ OnTxDelayedTimerEvent => MacInv'
<1> SUFFICES ASSUME Inv, OnTxDelayedTimerEvent PROVE MacInv'
  OBVIOUS
<1>1. sending = None
  BY AlarmIsTimer DEF Inv, OnTxDelayedTimerEvent
<1>2. /\ IsLoRaMacNetworkJoined' = IsLoRaMacNetworkJoined
      /\ IsLoRaMacNetworkJoined \in BOOLEAN
      /\ LastTxBand' = LastTxBand /\ MaxDCycle' = MaxDCycle /\ rest' = rest
      /\ ScheduleTx(IsLoRaMacNetworkJoined, TRUE)
  BY DEF OnTxDelayedTimerEvent, Inv, MacTypes
<1>3. LastTxBand' \in Bands /\ MaxDCycle' \in MaxDCycles \cup {0}
      /\ rest' \in [Bands -> Int] /\ \A b \in Bands : MustRest(b)
  BY <1>1, <1>2, DutyIs DEF Inv, MacTypes, Resting
<1> QED
  BY <1>1, <1>2, <1>3, ScheduleStep DEF MacInv

LEMMA TxDoneStep == Inv /\ OnRadioTxDone => MacInv'
<1> SUFFICES ASSUME Inv, OnRadioTxDone PROVE MacInv'
  OBVIOUS
<1> DEFINE s == sending
           off == TxTimeOnAir * DCycle[s] - TxTimeOnAir
           stale == RollsOver(Calendar(tick).year, CalendarRollOverReady)
<1>1. /\ s # None
      /\ LastTxDoneTime' = [LastTxDoneTime EXCEPT ![s] = FirstTime]
      /\ LastJoinTxDoneTime' =
           IF IsLoRaMacNetworkJoined THEN LastJoinTxDoneTime
           ELSE [LastJoinTxDoneTime EXCEPT ![s] = FirstTime]
      /\ AggregatedLastTxDoneTime' = FirstTime
      /\ LastTxBand' = s /\ sending' = None
      /\ rest' = [rest EXCEPT ![s] = IF stale THEN 0 ELSE tick + Rest(off)]
      /\ tick' = tick
      /\ UNCHANGED <<alarm, context, ring>>
      /\ UNCHANGED <<IsLoRaMacNetworkJoined, MaxDCycle, TimeOff,
                     AggregatedTimeOff, TxTimeOnAir, Timestamp>>
  BY Zenon DEF OnRadioTxDone, Rest
<1>2. MacTypes /\ ClockInv /\ ContextOK /\ Delayed /\ AlarmAhead
      /\ Resting /\ JoinsOnBand0
  BY DEF Inv
<1>3. s \in Bands /\ tick \in Nat
  BY <1>1, <1>2 DEF MacTypes, ClockInv, ClockAt
<1>4. FirstTime \in 0 .. MaxTime
      /\ (~stale => FirstTime = Ms(tick + SecondsInDay))
  BY <1>2, FirstTimeIs, ClockIsRightNow DEF ClockRight, FirstTime
<1>5. off \in Nat /\ Rest(off) \in Int
  <2>1. 0 \in MaxDCycles \cup {0} /\ TRUE \in BOOLEAN
    OBVIOUS
  <2>2. off \in Nat
    BY <1>2, <1>3, <2>1, CostsAre
  <2> HIDE DEF off
  <2> QED
    BY <2>2, RestMonotone
<1> HIDE DEF s, off, stale
<1>6. MacTypes'
  <2>1. (IF stale THEN 0 ELSE tick + Rest(off)) \in Int
    BY <1>3, <1>5
  <2>2. rest' \in [Bands -> Int]
    BY <1>1, <1>2, <1>3, <2>1 DEF MacTypes
  <2>3. /\ LastTxDoneTime' \in [Bands -> 0 .. MaxTime]
        /\ LastJoinTxDoneTime' \in [Bands -> 0 .. MaxTime]
    BY <1>1, <1>2, <1>3, <1>4 DEF MacTypes
  <2> QED
    BY <1>1, <1>2, <1>3, <1>4, <2>2, <2>3 DEF MacTypes
<1>7. ContextOK' /\ AlarmAhead'
  BY <1>1, <1>2, AlarmStays
<1>8. Delayed'
  BY <1>1, <1>2 DEF Delayed, s
<1>9. JoinsOnBand0'
  BY <1>1, <1>2, <1>3 DEF JoinsOnBand0, s, MacTypes
<1>10. Resting'
  <2> SUFFICES ASSUME NEW b \in Bands PROVE MustRest(b)'
    BY DEF Resting
  <2>1. CASE b = s
    <3>1. TimeOffOf(b)' = off
      BY <1>1, <2>1 DEF TimeOffOf, off
    <3>2. LastTxDoneTime'[b] = FirstTime
          /\ rest'[b] = IF stale THEN 0 ELSE tick + Rest(off)
      BY <1>1, <1>2, <1>3, <2>1 DEF MacTypes
    <3>3. CASE stale
      BY <1>1, <1>3, <3>2, <3>3 DEF MustRest
    <3>4. CASE ~stale
      <4>1. /\ tick \in 0 .. tick'
            /\ LastTxDoneTime'[b] = Ms(tick + SecondsInDay)
            /\ rest'[b] <= tick + Rest(TimeOffOf(b)')
        BY <1>1, <1>3, <1>4, <1>5, <3>1, <3>2, <3>4
      <4> QED
        BY <4>1 DEF MustRest
    <3> QED
      BY <3>3, <3>4
  <2>2. CASE b # s
    <3>1. MustRest(b)
      BY <1>2, <2>2 DEF Resting, s
    <3>2. TimeOffOf(b) = TimeOff[b] /\ TimeOffOf(b)' = TimeOff[b]
      BY <1>1, <2>2 DEF TimeOffOf, s
    <3>3. TimeOff[b] \in Nat
          /\ LastTxDoneTime'[b] = LastTxDoneTime[b] /\ rest'[b] = rest[b]
      BY <1>1, <1>2, <1>3, <2>2 DEF MacTypes
    <3>4. TimeOffOf(b)' \in Nat /\ TimeOffOf(b) <= TimeOffOf(b)'
      BY <3>2, <3>3
    <3> QED
      BY <1>1, <1>2, <1>3, <3>1, <3>3, <3>4, GoesOnResting
  <2> QED
    BY <2>1, <2>2
<1> QED
  BY <1>6, <1>7, <1>8, <1>9, <1>10 DEF MacInv

LEMMA RearmStep == Inv /\ Rearm => MacInv'
<1> SUFFICES ASSUME Inv, Rearm PROVE MacInv'
  OBVIOUS
<1> DEFINE passed == Since(FirstTime, AlarmTime)
<1>1. MacTypes /\ ClockInv /\ ContextOK /\ Delayed /\ AlarmAhead
      /\ Resting /\ JoinsOnBand0
  BY DEF Inv
<1>2. Timestamp \in Nat /\ sending = None
  BY <1>1, AlarmIsTimer DEF Rearm
<1>3. /\ ReadsClock(tick) /\ Timestamp' = Timestamp - passed
      /\ ~(passed >= Timestamp)
      /\ RtcSetTimeout(Timestamp', Century')
      /\ UNCHANGED <<IsLoRaMacNetworkJoined, MaxDCycle, LastTxDoneTime,
                     LastJoinTxDoneTime, TimeOff, AggregatedTimeOff,
                     AggregatedLastTxDoneTime, TxTimeOnAir, LastTxBand,
                     sending, rest>>
  BY Zenon DEF Rearm, Expired
<1>4. passed \in Int
  <2>1. FirstTime \in 0 .. MaxTime /\ MaxTime \in Nat
    BY <1>1, FirstTimeIs, TimeFits
  <2>2. AlarmTime \in Int
    <3> DEFINE t == context.tick
               c == context.century
    <3>1. t \in Nat /\ c \in Nat /\ c % 4 = 0
      BY <1>1 DEF ContextOK
    <3>2. AlarmTime = Ms(Days(Calendar(t), c) * SecondsInDay + TimeOfDay(t))
      BY Zenon DEF AlarmTime, TimerTime
    <3> HIDE DEF t, c
    <3>3. Calendar(t) \in Dates /\ TimeOfDay(t) \in Nat /\ SecondsInDay \in Nat
      BY <3>1, CalendarIs, SecondsInDayIs
    <3>4. Days(Calendar(t), c) \in Nat
      BY <3>1, <3>3, DaysEarlier
    <3>5. Days(Calendar(t), c) * SecondsInDay + TimeOfDay(t) \in Nat
      BY <3>3, <3>4
    <3> QED
      BY <3>2, <3>5, MsBounds
  <2> QED
    BY <2>1, <2>2 DEF Since
<1> HIDE DEF passed
<1>5. Timestamp' \in Nat
  BY <1>2, <1>3, <1>4
<1>6. alarm' # Off /\ ContextOK' /\ AlarmAhead'
  BY <1>1, <1>3, <1>5, TimeoutSets
<1>7. MacTypes' /\ Delayed' /\ JoinsOnBand0'
  BY <1>1, <1>2, <1>3, <1>5, <1>6, DutyIs DEF MacTypes, Delayed, JoinsOnBand0
<1>8. Resting'
  <2>1. tick \in Nat /\ until \in Nat
    BY <1>1 DEF ClockInv, ClockAt
  <2>2. tick' \in Nat /\ tick <= tick'
    BY <1>3, <2>1, TimeoutGoesOn
  <2> QED
    BY <1>1, <1>3, <2>1, <2>2, RestStays
<1> QED
  BY <1>6, <1>7, <1>8 DEF MacInv

LEMMA OtherSteps ==
  ASSUME Inv,
         \/ JoinAccepted \/ (\E max \in MaxDCycles : DutyCycleReq(max))
         \/ ReadClock \/ UNCHANGED vars
  PROVE  MacInv'
<1>1. MacTypes /\ ClockInv /\ ContextOK /\ Delayed /\ AlarmAhead
      /\ Resting /\ JoinsOnBand0
  BY DEF Inv
<1>2. /\ UNCHANGED <<tick, alarm, context, ring>>
      /\ UNCHANGED <<LastTxDoneTime, LastJoinTxDoneTime, TimeOff,
                     AggregatedTimeOff, AggregatedLastTxDoneTime, TxTimeOnAir,
                     LastTxBand, sending, Timestamp, rest>>
      /\ IsLoRaMacNetworkJoined' \in {IsLoRaMacNetworkJoined, TRUE}
      /\ MaxDCycle' \in MaxDCycles \cup {MaxDCycle}
  BY DEF JoinAccepted, DutyCycleReq, ReadClock, vars, rtcVars, macVars
<1>3. ContextOK' /\ AlarmAhead'
  BY <1>1, <1>2, AlarmStays
<1>4. MacTypes'
  BY <1>1, <1>2 DEF MacTypes
<1>5. Delayed'
  BY <1>1, <1>2 DEF Delayed
<1>6. JoinsOnBand0'
  <2>1. ~IsLoRaMacNetworkJoined' => ~IsLoRaMacNetworkJoined
    BY <1>2
  <2> QED
    BY <1>1, <1>2, <2>1 DEF JoinsOnBand0
<1>7. Resting'
  <2>1. tick \in Nat /\ tick' \in Nat /\ tick <= tick'
    BY <1>1, <1>2 DEF ClockInv, ClockAt
  <2> QED
    BY <1>1, <1>2, <2>1, RestStays
<1> QED
  BY <1>3, <1>4, <1>5, <1>6, <1>7 DEF MacInv

LEMMA TimePassesStep == Inv /\ TimePasses => MacInv'
<1> SUFFICES ASSUME Inv, TimePasses PROVE MacInv'
  OBVIOUS
<1>1. MacTypes /\ ClockInv /\ ContextOK /\ Delayed /\ AlarmAhead
      /\ Resting /\ JoinsOnBand0
  BY DEF Inv
<1>2. /\ Tick /\ alarm' = alarm
      /\ UNCHANGED <<IsLoRaMacNetworkJoined, MaxDCycle,
                     LastTxDoneTime, LastJoinTxDoneTime, TimeOff,
                     AggregatedTimeOff, AggregatedLastTxDoneTime, TxTimeOnAir,
                     LastTxBand, sending, Timestamp, rest>>
  BY DEF TimePasses, macVars, Tick
<1>3. ContextOK' /\ AlarmAhead'
  BY <1>1, <1>2, AlarmTicks
<1>4. MacTypes' /\ Delayed' /\ JoinsOnBand0'
  BY <1>1, <1>2 DEF MacTypes, Delayed, JoinsOnBand0
<1>5. Resting'
  <2>1. tick \in Nat /\ tick' \in Nat /\ tick <= tick'
    BY <1>1, <1>2 DEF ClockInv, ClockAt, Tick
  <2> QED
    BY <1>1, <1>2, <2>1, RestStays
<1> QED
  BY <1>3, <1>4, <1>5 DEF MacInv

LEMMA NextInv == Inv /\ [Next]_vars => Inv'
<1> SUFFICES ASSUME Inv, [Next]_vars PROVE Inv'
  OBVIOUS
<1>1. ClockInv'
  BY ClockStep DEF Inv
<1>2. MacInv'
  BY McpsRequestStep, MlmeJoinStep, TimerEventStep, TxDoneStep, RearmStep,
     OtherSteps, TimePassesStep DEF Next
<1> QED
  BY <1>1, <1>2 DEF Inv, MacInv

(* The clock, the alarm, the times and times off of the bands and the one  *)
(* timer fit together after every call of ScheduleTx, OnRadioTxDone and    *)
(* the alarm's interrupt.                                                  *)
THEOREM DutyCycleInvariant == Spec => []Inv
<1> QED
  BY InitInv, NextInv, PTL DEF Spec

(* Types: no delay, time off or remaining time that ScheduleTx or          *)
(* TimerIrqHandler computes is negative; a delayed frame has its alarm.    *)
THEOREM DutyCycleTypes == Spec => []TypeOK
<1>1. Inv => TypeOK
  BY DEF Inv, ClockInv, ClockAt, MacTypes, Delayed, TypeOK
<1> QED
  BY <1>1, DutyCycleInvariant, PTL

(* RtcComputeTimerTimeToAlarmTick sets an alarm that matches no later than *)
(* the tick it is meant for, however months and years end, unless it is    *)
(* one of those of NeverComes.                                             *)
THEOREM AlarmComesInTime == Spec => []AlarmInTime
<1>1. Inv => AlarmInTime
  <2> SUFFICES ASSUME Inv, alarm # Off, ~NeverComes PROVE tick <= ring
    BY DEF AlarmInTime
  <2>1. PICK r \in tick .. ring : r > context.tick /\ Match(alarm, r)
    BY DEF Inv, AlarmAhead
  <2>2. tick \in Nat /\ ring \in Nat
    BY DEF Inv, ClockInv, ClockAt, ContextOK
  <2> QED
    BY <2>1, <2>2
<1> QED
  BY <1>1, DutyCycleInvariant, PTL

LEMMA BandHasRested ==
  ASSUME Inv, [Next]_vars, sending' # None, sending' # sending,
         IsLoRaMacNetworkJoined'
  PROVE  tick >= rest[sending']
<1>1. MacTypes /\ ClockInv /\ Delayed /\ JoinsOnBand0 /\ Resting
  BY DEF Inv
<1>2. \/ McpsRequest /\ sending = None
      \/ OnTxDelayedTimerEvent /\ sending = None
  <2>1. CASE MlmeJoin
    BY <2>1 DEF MlmeJoin
  <2>2. CASE OnRadioTxDone
    BY <2>2 DEF OnRadioTxDone
  <2>3. CASE OnTxDelayedTimerEvent
    BY <1>1, <2>3, AlarmIsTimer DEF OnTxDelayedTimerEvent
  <2>4. CASE McpsRequest
    <3>1. sending = None
      BY <2>4 DEF McpsRequest, Idle
    <3> QED
      BY <2>4, <3>1
  <2>5. CASE Rearm
    BY <2>5 DEF Rearm
  <2>6. CASE TimePasses
    BY <2>6 DEF TimePasses, macVars
  <2>7. CASE \/ JoinAccepted \/ (\E max \in MaxDCycles : DutyCycleReq(max))
             \/ ReadClock \/ UNCHANGED vars
    BY <2>7 DEF JoinAccepted, DutyCycleReq, ReadClock, vars, macVars
  <2> QED
    BY <2>1, <2>2, <2>3, <2>4, <2>5, <2>6, <2>7 DEF Next
<1>3. /\ LastTxBand' = LastTxBand /\ MaxDCycle' = MaxDCycle /\ rest' = rest
      /\ ScheduleTx(TRUE, FALSE) \/ ScheduleTx(TRUE, TRUE)
  <2>1. CASE McpsRequest
    BY <2>1, Zenon DEF McpsRequest
  <2>2. CASE OnTxDelayedTimerEvent
    <3>1. IsLoRaMacNetworkJoined = TRUE
      BY <1>1, <2>2 DEF OnTxDelayedTimerEvent, MacTypes
    <3> QED
      BY <2>2, <3>1, Zenon DEF OnTxDelayedTimerEvent
  <2> QED
    BY <1>2, <2>1, <2>2, Zenon
<1>4. PICK again \in BOOLEAN : ScheduleTx(TRUE, again)
  BY <1>3
<1>5. LastTxBand' \in Bands /\ MaxDCycle' \in MaxDCycles \cup {0}
      /\ rest' \in [Bands -> Int] /\ \A b \in Bands : MustRest(b)
  BY <1>1, <1>2, <1>3, DutyIs DEF MacTypes, Resting
<1>6. \A b \in Bands : sending' = b => rest'[b] <= tick
  BY <1>1, <1>2, <1>3, <1>4, <1>5, ScheduleRests
<1>7. sending' \in Bands
  <2>1. MacInv'
    BY <1>2, McpsRequestStep, TimerEventStep
  <2> QED
    BY <2>1 DEF MacInv, MacTypes
<1>8. rest[sending'] \in Int /\ tick \in Int
  BY <1>1, <1>7 DEF MacTypes, ClockInv, ClockAt
<1> QED
  BY <1>3, <1>6, <1>7, <1>8

(* No data frame is sent by ScheduleTx on a band whose time off is not     *)
(* over in true time: not by the rounding of the clock, not by the bands   *)
(* and frames between, not by a join.                                      *)
THEOREM DutyIsKept == Spec => DutyKept
<1> DEFINE Kept == sending' # None /\ sending' # sending
                     /\ IsLoRaMacNetworkJoined' => tick >= rest[sending']
<1>1. Inv /\ [Next]_vars => [Kept]_vars
  BY BandHasRested
<1> QED
  BY <1>1, DutyCycleInvariant, PTL DEF Spec, DutyKept

=============================================================================
