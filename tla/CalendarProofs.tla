---------------------------- MODULE CalendarProofs ----------------------------
(***************************************************************************)
(* Theorems about the two components of PlatformMC that count in a         *)
(* calendar: the timer of the automatic backup (BackupSchedule), in every  *)
(* calendar that satisfies its assumptions, and the Jalali date field      *)
(* (DatePicker), for all of its years.  Both calendars are recursive       *)
(* functions and sums over many years; induction over a set, SetInduction, *)
(* brings them into a closed form, and the rest is arithmetic.             *)
(***************************************************************************)
EXTENDS PlatformProofs, FiniteSetTheorems, WellFoundedInduction

\* Induction over the natural numbers for a set: one with 0 that is closed under
\* successor has all of them.  It follows from < being well-founded, without an
\* operator as a parameter, and makes the recursive functions of the calendars provable.
LEMMA SetInduction ==
    ASSUME NEW T, 0 \in T, \A n \in Nat : n \in T => n + 1 \in T
    PROVE  Nat \subseteq T
<1> DEFINE R == OpToRel(<, Nat)
<1>1. IsWellFoundedOn(R, Nat)
  BY NatLessThanWellFounded
<1>2. \A i, j \in Nat : i < j => <<i, j>> \in R
  BY DEF OpToRel
<1> HIDE DEF R
<1>3. SUFFICES ASSUME Nat \ T # {} PROVE FALSE
  OBVIOUS
<1>4. PICK n \in Nat \ T : \A m \in Nat \ T : ~(<<m, n>> \in R)
  <2>1. Nat \ T \subseteq Nat
    OBVIOUS
  <2> QED BY <1>1, <1>3, <2>1, WFMin
<1>5. n # 0 /\ n - 1 \in Nat \ T /\ n - 1 < n
  OBVIOUS
<1> QED BY <1>2, <1>4, <1>5

-----------------------------------------------------------------------------
(* The months and the arithmetic of BackupSchedule.                        *)

\* The recursive function has the values its definition names: by induction there is a
\* function on 1..n that satisfies the recursion, for every n.
LEMMA MonthStartDef ==
    MonthStart = [k \in 1..Len(MonthDays) + 1 |->
        IF k = 1 THEN 0 ELSE MonthStart[k - 1] + MonthDays[k - 1]]
<1> DEFINE Value(g, k) == IF k = 1 THEN 0 ELSE g[k - 1] + MonthDays[k - 1]
           T == {n \in Nat : \E g : g = [k \in 1..n |-> Value(g, k)]}
<1>1. 0 \in T
  <2>1. <<>> = [k \in 1..0 |-> Value(<<>>, k)]
    OBVIOUS
  <2> QED BY <2>1
<1>2. ASSUME NEW n \in Nat, n \in T PROVE n + 1 \in T
  <2>1. PICK g : g = [k \in 1..n |-> Value(g, k)]
    BY <1>2
  <2> DEFINE h == [k \in 1..n + 1 |-> IF k = n + 1 THEN Value(g, n + 1) ELSE g[k]]
  <2>2. \A k \in 1..n + 1 : h[k] = Value(h, k)
    BY <2>1
  <2>3. h = [k \in 1..n + 1 |-> Value(h, k)]
    BY <2>2
  <2> HIDE DEF h, Value
  <2>4. \E f : f = [k \in 1..n + 1 |-> Value(f, k)]
    BY <2>3
  <2> QED BY <2>4
<1> HIDE DEF T
<1>3. Len(MonthDays) + 1 \in T
  <2>1. Nat \subseteq T
    BY <1>1, <1>2, SetInduction
  <2>2. Len(MonthDays) + 1 \in Nat
    BY CalendarAssumption
  <2> QED BY <2>1, <2>2
<1>4. PICK g : g = [k \in 1..Len(MonthDays) + 1 |-> Value(g, k)]
  BY <1>3 DEF T
<1> QED BY <1>4, Zenon DEF MonthStart

\* The first month begins on day 0 and each one where the one before it ends.
LEMMA MonthStartStep ==
    /\ Len(MonthDays) \in Nat \ {0}
    /\ MonthStart[1] = 0
    /\ \A k \in 1..Len(MonthDays) :
           MonthDays[k] \in Nat \ {0} /\ MonthStart[k + 1] = MonthStart[k] + MonthDays[k]
<1>1. Len(MonthDays) \in Nat \ {0} /\ \A k \in 1..Len(MonthDays) : MonthDays[k] \in Nat \ {0}
  BY CalendarAssumption, CalendarReach
<1>2. \A k \in 1..Len(MonthDays) + 1 :
          MonthStart[k] = IF k = 1 THEN 0 ELSE MonthStart[k - 1] + MonthDays[k - 1]
  BY MonthStartDef
<1> QED BY <1>1, <1>2

\* Every month begins on a day.
LEMMA MonthStartType == \A k \in 1..Len(MonthDays) + 1 : MonthStart[k] \in Nat
<1> DEFINE T == {n \in Nat : n + 1 \in 1..Len(MonthDays) + 1 => MonthStart[n + 1] \in Nat}
<1>1. 0 \in T
  BY MonthStartStep
<1>2. ASSUME NEW n \in Nat, n \in T PROVE n + 1 \in T
  BY <1>2, MonthStartStep
<1> HIDE DEF T
<1>3. Nat \subseteq T
  BY <1>1, <1>2, SetInduction
<1>4. \A k \in 1..Len(MonthDays) + 1 : k - 1 \in T
  BY <1>3, MonthStartStep
<1> QED BY <1>4 DEF T

\* No month begins before an earlier one has ended.
LEMMA MonthStartIncreases ==
    \A j, k \in 1..Len(MonthDays) + 1 : j < k => MonthStart[j + 1] <= MonthStart[k]
<1> DEFINE T == {n \in Nat : \A j \in 1..Len(MonthDays) :
                     j + 1 + n <= Len(MonthDays) + 1 => MonthStart[j + 1] <= MonthStart[j + 1 + n]}
<1>1. 0 \in T
  BY MonthStartType, MonthStartStep
<1>2. ASSUME NEW n \in Nat, n \in T PROVE n + 1 \in T
  <2>1. ASSUME NEW j \in 1..Len(MonthDays), j + 1 + (n + 1) <= Len(MonthDays) + 1
        PROVE  MonthStart[j + 1] <= MonthStart[j + 1 + (n + 1)]
    <3>1. j + 1 + n \in 1..Len(MonthDays) /\ j + 1 \in 1..Len(MonthDays) + 1
      BY <2>1, MonthStartStep
    <3>2. MonthStart[j + 1] <= MonthStart[j + 1 + n]
      BY <1>2, <2>1, <3>1
    <3>3. MonthStart[(j + 1 + n) + 1] = MonthStart[j + 1 + n] + MonthDays[j + 1 + n]
      BY <3>1, MonthStartStep
    <3>4. MonthStart[j + 1] \in Nat /\ MonthStart[j + 1 + n] \in Nat /\ MonthDays[j + 1 + n] \in Nat
      BY <3>1, MonthStartStep, MonthStartType
    <3>5. (j + 1 + n) + 1 = j + 1 + (n + 1)
      OBVIOUS
    <3> QED BY <3>2, <3>3, <3>4, <3>5
  <2> QED BY <2>1
<1> HIDE DEF T
<1>3. Nat \subseteq T
  BY <1>1, <1>2, SetInduction
<1>4. ASSUME NEW j \in 1..Len(MonthDays) + 1, NEW k \in 1..Len(MonthDays) + 1, j < k
      PROVE  MonthStart[j + 1] <= MonthStart[k]
  <2>1. k - j - 1 \in T /\ j \in 1..Len(MonthDays) /\ j + 1 + (k - j - 1) = k
    BY <1>3, <1>4, MonthStartStep
  <2> QED BY <2>1 DEF T
<1> QED BY <1>4

\* The month of a day is the one between whose beginning and end it lies.
LEMMA MonthIs ==
    ASSUME NEW k \in 1..Len(MonthDays), NEW d \in Nat,
           MonthStart[k] <= d, d < MonthStart[k + 1]
    PROVE  Month(d) = k
<1>1. ASSUME NEW j \in 1..Len(MonthDays), MonthStart[j] <= d, d < MonthStart[j + 1], j # k
      PROVE  FALSE
  <2>1. j < k \/ k < j
    BY <1>1
  <2>2. MonthStart[j + 1] <= MonthStart[k] \/ MonthStart[k + 1] <= MonthStart[j]
    <3>1. j \in 1..Len(MonthDays) + 1 /\ k \in 1..Len(MonthDays) + 1
      BY MonthStartStep
    <3> QED BY <2>1, <3>1, MonthStartIncreases, Zenon
  <2>3. /\ MonthStart[j] \in Nat /\ MonthStart[k] \in Nat
        /\ MonthStart[j + 1] \in Nat /\ MonthStart[k + 1] \in Nat
    BY MonthStartType, MonthStartStep
  <2> QED BY <1>1, <2>2, <2>3
<1> QED BY <1>1 DEF Month

\* Every day before the calendar's end is in a month of it.
LEMMA MonthOf ==
    ASSUME NEW d \in Nat, d < MonthStart[Len(MonthDays) + 1]
    PROVE  /\ Month(d) \in 1..Len(MonthDays)
           /\ MonthStart[Month(d)] <= d /\ d < MonthStart[Month(d) + 1]
<1> DEFINE Holds(k) == MonthStart[k] <= d /\ d < MonthStart[k + 1]
           T == {n \in Nat : n \in 1..Len(MonthDays) /\ d < MonthStart[n + 1]
                                 => \E k \in 1..Len(MonthDays) : Holds(k)}
<1>1. 0 \in T
  OBVIOUS
<1>2. ASSUME NEW n \in Nat, n \in T PROVE n + 1 \in T
  <2>1. CASE n = 0
    BY <2>1, MonthStartStep
  <2>2. CASE n # 0
    <3>1. SUFFICES ASSUME n + 1 \in 1..Len(MonthDays), d < MonthStart[(n + 1) + 1]
                   PROVE  \E k \in 1..Len(MonthDays) : Holds(k)
      OBVIOUS
    <3>2. MonthStart[n + 1] \in Nat /\ n \in 1..Len(MonthDays)
      BY <2>2, <3>1, MonthStartType, MonthStartStep
    <3>3. CASE MonthStart[n + 1] <= d
      BY <3>1, <3>3
    <3>4. CASE d < MonthStart[n + 1]
      BY <1>2, <3>2, <3>4
    <3> QED BY <3>2, <3>3, <3>4
  <2> QED BY <2>1, <2>2
<1> HIDE DEF T
<1>3. Len(MonthDays) \in T
  BY <1>1, <1>2, SetInduction, MonthStartStep
<1>4. PICK k \in 1..Len(MonthDays) : Holds(k)
  BY <1>3, MonthStartStep DEF T
<1> QED BY <1>4, MonthIs

-----------------------------------------------------------------------------

\* Multiplication keeps the order.
LEMMA TimesMonotonic ==
    ASSUME NEW a \in Int, NEW b \in Int, NEW n \in Nat, a <= b
    PROVE  a * n <= b * n
OBVIOUS

\* A number is quotient times divisor plus remainder.
LEMMA Division ==
    ASSUME NEW t \in Int, NEW n \in Nat \ {0}
    PROVE  /\ t \div n \in Int /\ t % n \in 0..n - 1
           /\ t = (t \div n) * n + (t % n)
OBVIOUS

\* Quotient and remainder are determined by that equation.
LEMMA Quotient ==
    ASSUME NEW q \in Int, NEW n \in Nat \ {0}, NEW r \in 0..n - 1
    PROVE  (q * n + r) \div n = q /\ (q * n + r) % n = r
<1> DEFINE t == q * n + r
           p == t \div n
           m == t % n
<1>1. p \in Int /\ m \in 0..n - 1 /\ t = p * n + m
  BY Division
<1>2. t = q * n + r /\ t \in Int
  OBVIOUS
<1> HIDE DEF t, p, m
<1>3. p * n \in Int /\ q * n \in Int /\ (q + 1) * n = q * n + n /\ (p + 1) * n = p * n + n
  BY <1>1
<1>4. ~(p > q)
  <2>1. p > q => (q + 1) * n <= p * n
    BY <1>1, TimesMonotonic
  <2> QED BY <1>1, <1>2, <1>3, <2>1
<1>5. ~(p < q)
  <2>1. p < q => (p + 1) * n <= q * n
    BY <1>1, TimesMonotonic
  <2> QED BY <1>1, <1>2, <1>3, <2>1
<1>6. p = q /\ m = r
  BY <1>1, <1>2, <1>3, <1>4, <1>5
<1> QED BY <1>6 DEF t, p, m

\* The quotient of a natural number is one.
LEMMA NaturalQuotient ==
    ASSUME NEW t \in Nat, NEW n \in Nat \ {0}
    PROVE  t \div n \in Nat
OBVIOUS

\* A factor of both sides cancels in an order.
LEMMA TimesCancels ==
    ASSUME NEW a \in Int, NEW b \in Int, NEW n \in Nat, a * n < b * n
    PROVE  a < b
<1>1. SUFFICES ASSUME b <= a PROVE FALSE
  OBVIOUS
<1>2. b * n <= a * n
  BY <1>1, TimesMonotonic
<1>3. a * n \in Int /\ b * n \in Int
  OBVIOUS
<1> QED BY <1>2, <1>3

-----------------------------------------------------------------------------

\* The fields of a schedule lie in their ranges.
LEMMA SettingsType ==
    ASSUME NEW s \in Settings
    PROVE  /\ s.frequency \in Frequency
           /\ s.hour \in 0..DayHours - 1 /\ s.minute \in 0..HourLength - 1
           /\ s.weekday \in 0..WeekDays - 1 /\ s.monthDay \in Nat \ {0}
BY SettingsAssumption

\* A day has minutes.
LEMMA DayLengthType == DayLength \in Nat \ {0} /\ DayLength = DayHours * HourLength
<1>1. DayLength = DayHours * HourLength
  BY CalendarAssumption DEF DayLength
<1>2. 1 * HourLength <= DayHours * HourLength
  BY CalendarAssumption, TimesMonotonic
<1>3. DayHours * HourLength \in Nat
  BY CalendarAssumption
<1> QED BY <1>1, <1>2, <1>3, CalendarAssumption

\* A day holds the instant at which a backup of it stands.
LEMMA TimeOfDay ==
    ASSUME NEW s \in Settings
    PROVE  s.hour * HourLength + s.minute \in 0..DayLength - 1
<1>1. s.hour * HourLength <= (DayHours - 1) * HourLength
  <2>1. s.hour \in Int /\ DayHours - 1 \in Int /\ s.hour <= DayHours - 1 /\ HourLength \in Nat
    BY SettingsType, CalendarAssumption
  <2> QED BY <2>1, TimesMonotonic
<1>2. (DayHours - 1) * HourLength = DayLength - HourLength
  BY CalendarAssumption, DayLengthType
<1>3. s.hour * HourLength \in Nat /\ s.minute \in 0..HourLength - 1
  BY SettingsType, CalendarAssumption
<1> QED BY <1>1, <1>2, <1>3, CalendarAssumption, DayLengthType

\* An instant is a day and a time of that day.
LEMMA DayOf ==
    ASSUME NEW t \in Nat
    PROVE  /\ Day(t) \in Nat /\ t % DayLength \in 0..DayLength - 1
           /\ t = Day(t) * DayLength + (t % DayLength)
<1>1. t \in Int /\ DayLength \in Nat \ {0}
  BY DayLengthType
<1>2. Day(t) = t \div DayLength
  BY DEF Day
<1>3. Day(t) \in Nat
  BY <1>1, <1>2, NaturalQuotient
<1> QED BY <1>1, <1>2, <1>3, Division

\* The day never goes back as the clock advances.
LEMMA DayMonotonic ==
    ASSUME NEW t \in Nat, NEW v \in Nat, t <= v
    PROVE  Day(t) <= Day(v)
<1>1. Day(t) * DayLength < (Day(v) + 1) * DayLength
  <2>1. (Day(v) + 1) * DayLength = Day(v) * DayLength + DayLength
    BY DayOf, DayLengthType
  <2>2. Day(t) * DayLength \in Int /\ Day(v) * DayLength \in Int
    <3>1. Day(t) \in Nat /\ Day(v) \in Nat
      BY DayOf, Zenon
    <3> QED BY <3>1, DayLengthType
  <2>3. Day(t) * DayLength <= t /\ v < Day(v) * DayLength + DayLength
    <3>1. /\ t = Day(t) * DayLength + (t % DayLength) /\ t % DayLength \in 0..DayLength - 1
          /\ v = Day(v) * DayLength + (v % DayLength) /\ v % DayLength \in 0..DayLength - 1
      BY DayOf
    <3> QED BY <3>1, <2>2, DayLengthType
  <2> QED BY <2>1, <2>2, <2>3, DayLengthType
<1>2. Day(t) < Day(v) + 1
  BY <1>1, TimesCancels, DayOf, DayLengthType
<1> QED BY <1>2, DayOf

\* The instant of a backup on day d lies on that day, at its hour and its minute.
LEMMA AtOnDay ==
    ASSUME NEW s \in Settings, NEW d \in Nat
    PROVE  /\ At(d, s) \in Nat /\ Day(At(d, s)) = d
           /\ At(d, s) % DayLength = s.hour * HourLength + s.minute
           /\ At(d, s) % HourLength = s.minute
<1> DEFINE m == s.hour * HourLength + s.minute
<1>1. m \in 0..DayLength - 1
  BY TimeOfDay
<1>2. At(d, s) = d * DayLength + m /\ d * DayLength \in Nat
  BY DayLengthType, SettingsType, CalendarAssumption DEF At
<1>3. At(d, s) = (d * DayHours + s.hour) * HourLength + s.minute
  BY DayLengthType, SettingsType, CalendarAssumption DEF At
<1>4. At(d, s) % HourLength = s.minute
  <2>1. d * DayHours + s.hour \in Int /\ s.minute \in 0..HourLength - 1
    BY SettingsType, CalendarAssumption
  <2> QED BY <1>3, <2>1, Quotient, CalendarAssumption
<1> HIDE DEF m
<1>5. Day(At(d, s)) = d /\ At(d, s) % DayLength = m
  BY <1>1, <1>2, Quotient, DayLengthType DEF Day
<1> QED BY <1>1, <1>2, <1>4, <1>5, DayLengthType DEF m

\* An instant at that hour and minute is the backup's on its own day.
LEMMA OnDayAt ==
    ASSUME NEW s \in Settings, NEW t \in Nat,
           t % DayLength = s.hour * HourLength + s.minute
    PROVE  t = At(Day(t), s)
<1>1. t = Day(t) * DayLength + (s.hour * HourLength + s.minute)
  BY DayOf
<1>2. At(Day(t), s) = Day(t) * DayLength + s.hour * HourLength + s.minute
  BY DEF At
<1>3. Day(t) * DayLength \in Int /\ s.hour * HourLength \in Int /\ s.minute \in Int
  <2>1. Day(t) \in Int /\ DayLength \in Int
    BY DayOf, DayLengthType
  <2>2. s.hour \in Int /\ HourLength \in Int /\ s.minute \in Int
    BY SettingsType, CalendarAssumption
  <2> QED BY <2>1, <2>2
<1> QED BY <1>1, <1>2, <1>3

\* The same time of a later day is later, and conversely.
LEMMA AtMonotonic ==
    ASSUME NEW s \in Settings, NEW d \in Nat, NEW e \in Nat
    PROVE  /\ d < e => At(d, s) < At(e, s)
           /\ At(d, s) < At(e, s) => d < e
<1>1. ASSUME NEW i \in Nat, NEW j \in Nat, i <= j PROVE At(i, s) <= At(j, s)
  <2>1. i * DayLength <= j * DayLength /\ i * DayLength \in Int /\ j * DayLength \in Int
    BY <1>1, TimesMonotonic, DayLengthType
  <2>2. s.hour * HourLength \in Int /\ s.minute \in Int
    BY SettingsType, CalendarAssumption
  <2>3. /\ At(i, s) = i * DayLength + s.hour * HourLength + s.minute
        /\ At(j, s) = j * DayLength + s.hour * HourLength + s.minute
    BY DEF At
  <2> QED BY <2>1, <2>2, <2>3
<1>2. At(d, s) # At(e, s) \/ d = e
  BY AtOnDay
<1> QED BY <1>1, <1>2, AtOnDay

-----------------------------------------------------------------------------
\* The candidate c that calculateNextRunAt computes from the instant t and its
\* successor l: both are slots, the successor lies after t, no other slot lies
\* between, and a slot of the period of t is the candidate.
Advances(s, t, c, l) ==
    /\ c \in Nat /\ l \in Nat
    /\ Slot(s, c) /\ Slot(s, l)
    /\ c < l /\ t < l
    /\ Fits(s) => \A v \in Nat : Slot(s, v) /\ t < v /\ v < l => v = c
    /\ \A v \in 0..t : Slot(s, v) /\ Period(s, v) = Period(s, t) => v = c

\* calculateNextRunAt of an hourly schedule: the minute in this hour, or in the next.
LEMMA HourlyAdvances ==
    ASSUME NEW s \in Settings, s.frequency = "HOURLY", NEW t \in Nat
    PROVE  LET c == (t - (t % HourLength)) + s.minute
           IN  Advances(s, t, c, c + HourLength)
<1> DEFINE H == HourLength
           q == t \div H
           m == s.minute
           c == (t - (t % H)) + m
<1>1. H \in Nat \ {0} /\ m \in 0..H - 1
  BY SettingsType, CalendarAssumption
<1>2. q \in Nat /\ t % H \in 0..H - 1 /\ t = q * H + (t % H) /\ q * H \in Nat
  <2>1. t \in Int /\ H \in Nat \ {0}
    BY <1>1
  <2>2. q \in Nat
    BY <2>1, NaturalQuotient
  <2> QED BY <2>1, <2>2, Division
<1>3. \A v \in Nat : Slot(s, v) <=> v % H = m
  BY DEF Slot
<1>4. \A v \in Nat : Period(s, v) = v \div H
  BY DEF Period
<1>5. c = q * H + m /\ (q + 1) * H = q * H + H /\ c + H = (q + 1) * H + m
  BY <1>1, <1>2
<1>6. c % H = m /\ (c + H) % H = m
  <2>1. q \in Int /\ q + 1 \in Int
    BY <1>2
  <2> HIDE DEF q, m, c
  <2>2. (q * H + m) % H = m /\ ((q + 1) * H + m) % H = m
    BY <1>1, <2>1, Quotient
  <2> QED BY <1>5, <2>2
<1>7. ASSUME NEW v \in Nat, v % H = m
      PROVE  /\ t < v /\ v < c + H => v = c
             /\ v \div H = q => v = c
  <2> DEFINE p == v \div H
  <2>1. p \in Nat /\ v = p * H + m /\ p * H \in Nat
    <3>1. v \in Int /\ H \in Nat \ {0}
      BY <1>1
    <3>2. p \in Nat
      BY <3>1, NaturalQuotient
    <3> QED BY <3>1, <3>2, <1>7, Division
  <2>2. p = q => v = c
    BY <2>1, <1>5
  <2> HIDE DEF p, q
  <2>3. p < q => p * H <= (q - 1) * H /\ (q - 1) * H = q * H - H
    BY <1>1, <1>2, <2>1, TimesMonotonic
  <2>4. p > q => (q + 1) * H <= p * H
    BY <1>1, <1>2, <2>1, TimesMonotonic
  <2>5. p < q => ~(t < v)
    BY <1>1, <1>2, <2>1, <2>3
  <2>6. p > q => ~(v < c + H)
    BY <1>1, <1>2, <1>5, <2>1, <2>4
  <2>7. t < v /\ v < c + H => v = c
    BY <1>2, <2>1, <2>2, <2>5, <2>6
  <2> QED BY <2>2, <2>7 DEF p
<1>8. c \in Nat /\ c + H \in Nat /\ t < c + H /\ c < c + H
  BY <1>1, <1>2, <1>5
<1> HIDE DEF H, q, m, c
<1>9. Advances(s, t, c, c + H)
  <2>1. Slot(s, c) /\ Slot(s, c + H)
    BY <1>3, <1>6, <1>8
  <2>2. \A v \in Nat : Slot(s, v) /\ t < v /\ v < c + H => v = c
    BY <1>3, <1>7
  <2>3. \A v \in 0..t : Slot(s, v) /\ Period(s, v) = Period(s, t) => v = c
    BY <1>3, <1>4, <1>7 DEF q
  <2> QED BY <1>8, <2>1, <2>2, <2>3 DEF Advances
<1> QED BY <1>9 DEF H, m, c

\* calculateNextRunAt of a daily schedule: the time of today, or of tomorrow.
LEMMA DailyAdvances ==
    ASSUME NEW s \in Settings, s.frequency = "DAILY", NEW t \in Nat
    PROVE  Advances(s, t, At(Day(t), s), At(Day(t), s) + DayLength)
<1> DEFINE d == Day(t)
           c == At(d, s)
           l == At(d + 1, s)
<1>1. d \in Nat /\ d + 1 \in Nat
  <2>1. d \in Nat
    BY DayOf, Zenon
  <2> QED BY <2>1
<1> HIDE DEF d
<1>2. l = c + DayLength
  <2>1. d * DayLength \in Int /\ (d + 1) * DayLength = d * DayLength + DayLength
    BY <1>1, DayLengthType
  <2>2. s.hour * HourLength \in Int /\ s.minute \in Int
    BY SettingsType, CalendarAssumption
  <2> QED BY <2>1, <2>2, DayLengthType DEF At
<1>3. /\ c \in Nat /\ Slot(s, c) /\ Day(c) = d
      /\ l \in Nat /\ Slot(s, l) /\ Day(l) = d + 1
  BY <1>1, AtOnDay DEF Slot
<1>4. ASSUME NEW v \in Nat, Slot(s, v)
      PROVE  v = At(Day(v), s) /\ Day(v) \in Nat
  BY <1>4, OnDayAt, DayOf DEF Slot
<1>5. t < l
  <2>1. ~(l <= t)
    BY <1>1, <1>3, DayMonotonic DEF d
  <2> QED BY <1>3, <2>1
<1>6. ASSUME NEW v \in Nat, Slot(s, v), t < v, v < l PROVE v = c
  <2>1. d <= Day(v)
    BY <1>6, DayMonotonic DEF d
  <2>2. Day(v) < d + 1
    BY <1>1, <1>4, <1>6, AtMonotonic
  <2> QED BY <1>1, <1>4, <1>6, <2>1, <2>2
<1>7. ASSUME NEW v \in 0..t, Slot(s, v), Period(s, v) = Period(s, t) PROVE v = c
  BY <1>4, <1>7 DEF Period, d
<1>8. c < l
  BY <1>2, <1>3, DayLengthType
<1> HIDE DEF c, l
<1>9. Advances(s, t, c, l)
  BY <1>3, <1>5, <1>6, <1>7, <1>8 DEF Advances
<1> QED BY <1>2, <1>9 DEF c, d

\* calculateNextRunAt of a weekly schedule: the time on the next such weekday, today
\* included, or a week after.
LEMMA WeeklyAdvances ==
    ASSUME NEW s \in Settings, s.frequency = "WEEKLY", NEW t \in Nat
    PROVE  LET diff == ((s.weekday - (Day(t) % WeekDays)) + WeekDays) % WeekDays
               c == At(Day(t) + diff, s)
           IN  Advances(s, t, c, c + WeekDays * DayLength)
<1> DEFINE W == WeekDays
           d == Day(t)
           w == s.weekday
           b == d % W
           diff == ((w - b) + W) % W
           e == d + diff
           c == At(e, s)
           l == At(e + W, s)
<1>1. d \in Nat /\ W \in Nat \ {0} /\ w \in 0..W - 1
  <2>1. d \in Nat
    BY DayOf, Zenon
  <2> QED BY <2>1, SettingsType, CalendarAssumption
<1> HIDE DEF d, W, w
\* The candidate is on the weekday, in the week that begins with today.
<1>2. PICK p \in Int : diff \in 0..W - 1 /\ e = p * W + w
  <2> DEFINE a == d \div W
  <2>1. a \in Int /\ b \in 0..W - 1 /\ d = a * W + b
    BY <1>1, Division
  <2> HIDE DEF a, b
  <2>2. CASE b <= w
    <3>1. w - b \in 0..W - 1
      BY <1>1, <2>1, <2>2
    <3>2. ((w - b) + W) % W = w - b
      <4>1. PICK q \in Int : q = 1
        OBVIOUS
      <4>2. (q * W + (w - b)) % W = w - b
        BY <1>1, <3>1, Quotient
      <4> QED BY <1>1, <3>1, <4>1, <4>2
    <3>3. diff = w - b /\ e = a * W + w
      BY <1>1, <2>1, <3>1, <3>2
    <3> QED BY <2>1, <3>1, <3>3
  <2>3. CASE w < b
    <3>1. w - b + W \in 0..W - 1
      BY <1>1, <2>1, <2>3
    <3>2. ((w - b) + W) % W = w - b + W
      BY <1>1, <3>1
    <3>3. diff = w - b + W /\ e = (a + 1) * W + w
      BY <1>1, <2>1, <3>1, <3>2
    <3>4. a + 1 \in Int
      BY <2>1
    <3> QED BY <3>1, <3>3, <3>4
  <2> QED BY <1>1, <2>1, <2>2, <2>3
<1> HIDE DEF diff
<1>3. e \in Nat /\ e + W \in Nat /\ e + W = (p + 1) * W + w
  BY <1>1, <1>2
<1>4. l = c + W * DayLength
  <2>1. e * DayLength \in Int /\ (e + W) * DayLength = e * DayLength + W * DayLength
    BY <1>1, <1>3, DayLengthType
  <2>2. s.hour * HourLength \in Int /\ s.minute \in Int /\ W * DayLength \in Int
    BY <1>1, SettingsType, CalendarAssumption, DayLengthType
  <2> HIDE DEF e
  <2> QED BY <2>1, <2>2 DEF At
<1>5. e % W = w /\ (e + W) % W = w
  <2>1. p + 1 \in Int
    BY <1>2
  <2>2. (p * W + w) % W = w /\ ((p + 1) * W + w) % W = w
    BY <1>1, <2>1, Quotient
  <2> QED BY <1>2, <1>3, <2>2
<1> HIDE DEF e
<1>6. /\ c \in Nat /\ Slot(s, c) /\ Day(c) = e
      /\ l \in Nat /\ Slot(s, l) /\ Day(l) = e + W
  BY <1>3, <1>5, AtOnDay DEF Slot, W, w
<1>7. ASSUME NEW v \in Nat, Slot(s, v)
      PROVE  v = At(Day(v), s) /\ Day(v) \in Nat /\ Day(v) % W = w
  BY <1>7, OnDayAt, DayOf DEF Slot, W, w
<1>8. d <= e /\ e < d + W
  BY <1>1, <1>2 DEF e
<1>9. t < l
  <2>1. ~(l <= t)
    BY <1>1, <1>3, <1>6, <1>8, DayMonotonic DEF d
  <2> QED BY <1>6, <2>1
\* Between today and the week after there is one day of that weekday.
<1>10. ASSUME NEW f \in Nat, f % W = w, d <= f, f < e + W PROVE f = e
  <2> DEFINE k == f \div W
  <2>1. k \in Int /\ f = k * W + w
    <3>1. f \in Int
      OBVIOUS
    <3> QED BY <1>1, <1>10, <3>1, Division
  <2> HIDE DEF k
  <2>2. k < p + 1
    <3>1. k * W < (p + 1) * W
      BY <1>1, <1>2, <1>3, <1>10, <2>1
    <3> QED BY <1>1, <1>2, <2>1, <3>1, TimesCancels
  <2>3. p - 1 < k
    <3>1. (p - 1) * W = p * W - W /\ p * W \in Int /\ k * W \in Int
      BY <1>1, <1>2, <2>1
    <3>2. (p - 1) * W < k * W
      BY <1>1, <1>2, <1>8, <1>10, <2>1, <3>1
    <3> QED BY <1>1, <1>2, <2>1, <3>2, TimesCancels
  <2>4. k = p
    BY <1>2, <2>1, <2>2, <2>3
  <2> QED BY <1>2, <2>1, <2>4
<1>11. ASSUME NEW v \in Nat, Slot(s, v), t < v, v < l PROVE v = c
  <2>1. d <= Day(v)
    BY <1>11, DayMonotonic DEF d
  <2>2. Day(v) < e + W
    BY <1>3, <1>7, <1>11, AtMonotonic
  <2> QED BY <1>7, <1>10, <1>11, <2>1, <2>2
<1>12. ASSUME NEW v \in 0..t, Slot(s, v), Period(s, v) = Period(s, t) PROVE v = c
  <2>1. v \in Nat /\ Day(v) = d
    BY <1>12 DEF Period, d
  <2>2. d % W = w
    BY <1>7, <1>12, <2>1
  <2>3. d < e + W
    BY <1>1, <1>8, <1>3
  <2>4. d = e
    BY <1>1, <1>10, <2>2, <2>3
  <2> QED BY <1>7, <1>12, <2>1, <2>4
<1>13. c < l
  <2>1. e < e + W
    BY <1>1, <1>3
  <2> QED BY <1>3, <2>1, AtMonotonic
<1> HIDE DEF c, l
<1>14. Advances(s, t, c, l)
  BY <1>6, <1>9, <1>11, <1>12, <1>13 DEF Advances
<1> QED BY <1>4, <1>14 DEF c, e, diff, b, w, d, W

\* The clock's day is in a month of the calendar, which goes on after it long
\* enough for setMonth to spill into.
LEMMA ClockInCalendar ==
    ASSUME NEW t \in 0..LastInstant
    PROVE  LET k == Month(Day(t))
           IN  /\ k \in 1..Len(MonthDays)
               /\ MonthStart[k] <= Day(t) /\ Day(t) < MonthStart[k + 1]
               /\ MonthStart[k + 1] + MonthDays[k] <= MonthStart[Len(MonthDays) + 1]
<1> DEFINE d == Day(t)
<1>1. d \in Nat /\ d * DayLength \in Nat /\ d * DayLength <= LastInstant
  <2>1. t \in Nat /\ t <= LastInstant
    BY BoundAssumption
  <2>2. d \in Nat /\ t = d * DayLength + (t % DayLength) /\ t % DayLength \in 0..DayLength - 1
    BY <2>1, DayOf
  <2>3. d * DayLength \in Nat
    BY <2>2, DayLengthType
  <2> HIDE DEF d
  <2> QED BY <2>1, <2>2, <2>3, DayLengthType, BoundAssumption
<1> HIDE DEF d
<1>2. ASSUME NEW k \in 1..Len(MonthDays), MonthStart[k] <= d
      PROVE  MonthStart[k + 1] + MonthDays[k] <= MonthStart[Len(MonthDays) + 1]
  <2>1. MonthStart[k] \in Nat
    BY MonthStartType, MonthStartStep
  <2>2. MonthStart[k] * DayLength <= d * DayLength /\ MonthStart[k] * DayLength \in Nat
    BY <1>1, <1>2, <2>1, TimesMonotonic, DayLengthType
  <2>3. MonthStart[k] * DayLength <= LastInstant
    BY <1>1, <2>2, BoundAssumption
  <2> QED BY <2>3, CalendarReach
<1>3. d < MonthStart[Len(MonthDays) + 1]
  <2> DEFINE n == Len(MonthDays)
  <2>1. n \in 1..n /\ n + 1 \in 1..n + 1 /\ MonthDays[n] \in Nat \ {0}
    BY MonthStartStep
  <2>2. MonthStart[n] \in Nat /\ MonthStart[n + 1] \in Nat /\ MonthStart[n] <= MonthStart[n + 1]
    BY <2>1, MonthStartType, MonthStartStep
  <2> HIDE DEF n
  <2>3. MonthStart[n] <= d => MonthStart[n + 1] + MonthDays[n] <= MonthStart[n + 1]
    BY <1>2, <2>1 DEF n
  <2>4. d < MonthStart[n + 1]
    BY <1>1, <2>1, <2>2, <2>3
  <2> QED BY <2>4 DEF n
<1> QED BY <1>1, <1>2, <1>3, MonthOf DEF d

\* The monthly day lies in its month.
LEMMA MonthlyDayIn ==
    ASSUME NEW s \in Settings, NEW k \in 1..Len(MonthDays)
    PROVE  /\ MonthlyDay(k, s) \in Nat
           /\ MonthStart[k] <= MonthlyDay(k, s)
           /\ MonthlyDay(k, s) < MonthStart[k] + MonthDays[k]
           /\ MonthStart[k + 1] = MonthStart[k] + MonthDays[k]
           /\ Month(MonthlyDay(k, s)) = k
<1>1. /\ MonthStart[k] \in Nat /\ MonthDays[k] \in Nat \ {0}
      /\ MonthStart[k + 1] = MonthStart[k] + MonthDays[k]
  BY MonthStartType, MonthStartStep
<1>2. ClampDayOfMonth(k, s.monthDay) \in 1..MonthDays[k]
  BY <1>1, SettingsType DEF ClampDayOfMonth
<1>3. /\ MonthlyDay(k, s) \in Nat /\ MonthStart[k] <= MonthlyDay(k, s)
      /\ MonthlyDay(k, s) < MonthStart[k] + MonthDays[k]
  BY <1>1, <1>2 DEF MonthlyDay
<1>4. Month(MonthlyDay(k, s)) = k
  BY <1>1, <1>3, MonthIs
<1> QED BY <1>1, <1>3, <1>4

\* calculateNextRunAt of a monthly schedule: the day of this month, cut to its length,
\* or that of the month setMonth arrives in.
LEMMA MonthlyAdvances ==
    ASSUME NEW s \in Settings, s.frequency = "MONTHLY", NEW t \in 0..LastInstant
    PROVE  LET d == MonthlyDay(Month(Day(t)), s)
           IN  Advances(s, t, At(d, s), At(MonthlyDay(NextMonth(d), s), s))
<1> DEFINE today == Day(t)
           k == Month(today)
           n == Len(MonthDays)
           d == MonthlyDay(k, s)
           spilt == MonthStart[k + 1] + (d - MonthStart[k])
           j == NextMonth(d)
           e == MonthlyDay(j, s)
           c == At(d, s)
           l == At(e, s)
<1>1. /\ k \in 1..n /\ MonthStart[k] <= today /\ today < MonthStart[k + 1]
      /\ MonthStart[k + 1] + MonthDays[k] <= MonthStart[n + 1]
  BY ClockInCalendar
<1>2. t \in Nat /\ today \in Nat
  BY DayOf, BoundAssumption
<1> HIDE DEF today, k
<1>3. /\ d \in Nat /\ MonthStart[k] <= d /\ d < MonthStart[k] + MonthDays[k]
      /\ MonthStart[k + 1] = MonthStart[k] + MonthDays[k] /\ Month(d) = k
  BY <1>1, MonthlyDayIn
<1>4. /\ MonthStart[k] \in Nat /\ MonthStart[k + 1] \in Nat /\ MonthStart[n + 1] \in Nat
      /\ MonthDays[k] \in Nat \ {0}
  BY <1>1, MonthStartType, MonthStartStep
<1>5. j = Month(spilt)
  BY <1>3 DEF NextMonth
<1> HIDE DEF d, j
<1>6. spilt \in Nat /\ MonthStart[k + 1] <= spilt /\ spilt < MonthStart[n + 1]
  <2>1. PICK x \in Nat : x = d - MonthStart[k] /\ x < MonthDays[k]
    <3>1. d - MonthStart[k] \in Nat /\ d - MonthStart[k] < MonthDays[k]
      BY <1>3, <1>4
    <3> QED BY <3>1
  <2>2. spilt = MonthStart[k + 1] + x
    BY <2>1
  <2> HIDE DEF spilt
  <2> QED BY <1>1, <1>4, <2>1, <2>2, SMTT(40)
<1> HIDE DEF spilt
<1>7. j \in 1..n /\ MonthStart[j] <= spilt /\ spilt < MonthStart[j + 1]
  BY <1>5, <1>6, MonthOf
<1>8. MonthStart[j] \in Nat /\ MonthStart[j + 1] \in Nat
  BY <1>7, MonthStartType, MonthStartStep
<1>9. k < j /\ MonthStart[k + 1] <= MonthStart[j]
  <2>1. k \in Nat /\ j \in Nat /\ k \in 1..n + 1 /\ j \in 1..n + 1
    BY <1>1, <1>7, MonthStartStep
  <2>2. j < k => MonthStart[j + 1] <= MonthStart[k]
    BY <2>1, MonthStartIncreases
  <2>3. j = k => MonthStart[j + 1] = MonthStart[k + 1]
    OBVIOUS
  <2>4. k < j
    BY <1>3, <1>4, <1>6, <1>7, <1>8, <2>1, <2>2, <2>3, SMTT(40)
  <2> QED BY <2>1, <2>4, MonthStartIncreases
<1>10. e \in Nat /\ MonthStart[j] <= e /\ e < MonthStart[j + 1] /\ Month(e) = j
  BY <1>7, MonthlyDayIn
<1> HIDE DEF e
<1>11. d < e /\ today < e
  BY <1>1, <1>2, <1>3, <1>4, <1>8, <1>9, <1>10
<1>12. /\ c \in Nat /\ Slot(s, c) /\ Day(c) = d
       /\ l \in Nat /\ Slot(s, l) /\ Day(l) = e
  <2>1. Day(c) = d /\ Day(l) = e /\ c \in Nat /\ l \in Nat
    BY <1>3, <1>10, AtOnDay
  <2>2. d = MonthlyDay(Month(d), s) /\ e = MonthlyDay(Month(e), s)
    BY <1>3, <1>10 DEF d, e
  <2> QED BY <1>3, <1>10, <2>1, <2>2, AtOnDay DEF Slot
<1>13. ASSUME NEW v \in Nat, Slot(s, v)
       PROVE  v = At(Day(v), s) /\ Day(v) \in Nat /\ Day(v) = MonthlyDay(Month(Day(v)), s)
  BY <1>13, OnDayAt, DayOf DEF Slot
<1>14. t < l
  <2>1. ~(l <= t)
    BY <1>2, <1>10, <1>11, <1>12, DayMonotonic DEF today
  <2> QED BY <1>2, <1>12, <2>1
<1>15. c < l
  BY <1>3, <1>10, <1>11, AtMonotonic
<1>16. ASSUME Fits(s), NEW v \in Nat, Slot(s, v), t < v, v < l PROVE v = c
  <2> DEFINE f == Day(v)
             i == Month(f)
  \* The day of the month is one that the next month has, so that is where it goes.
  <2>1. j = k + 1
    <3>1. k + 1 \in 1..n /\ k + 2 \in 1..n + 1
      BY <1>1, <1>7, <1>9
    <3>2. s.monthDay \in Nat \ {0} /\ s.monthDay <= MonthDays[k] /\ s.monthDay <= MonthDays[k + 1]
      BY <1>1, <1>16, <3>1, SettingsType DEF Fits
    <3>3. d = MonthStart[k] + s.monthDay - 1
      BY <3>2 DEF d, MonthlyDay, ClampDayOfMonth
    <3>4. spilt < MonthStart[k + 1] + MonthDays[k + 1]
      <4>1. MonthDays[k + 1] \in Nat
        BY <3>1, MonthStartStep
      <4>2. spilt = MonthStart[k + 1] + (s.monthDay - 1)
        BY <1>4, <3>2, <3>3 DEF spilt
      <4> QED BY <1>4, <3>2, <4>1, <4>2
    <3>5. MonthStart[(k + 1) + 1] = MonthStart[k + 1] + MonthDays[k + 1]
      BY <3>1, MonthStartStep
    <3> QED BY <1>5, <1>6, <3>1, <3>4, <3>5, MonthIs
  <2>2. f \in Nat /\ v = At(f, s) /\ f = MonthlyDay(i, s)
    BY <1>13, <1>16
  <2>3. today <= f
    BY <1>2, <1>16, DayMonotonic DEF today
  <2>4. f < e
    BY <1>10, <1>16, <2>2, AtMonotonic
  <2> HIDE DEF f
  <2>5. i \in 1..n /\ MonthStart[i] <= f /\ f < MonthStart[i + 1]
    <3>1. MonthStart[j + 1] <= MonthStart[n + 1]
      <4>1. j \in 1..n + 1 /\ n + 1 \in 1..n + 1 /\ j < n + 1
        BY <1>7, MonthStartStep
      <4> QED BY <4>1, MonthStartIncreases, Zenon
    <3>2. f < MonthStart[n + 1]
      BY <1>4, <1>8, <1>10, <2>2, <2>4, <3>1
    <3> QED BY <2>2, <3>2, MonthOf
  <2> HIDE DEF i
  <2>6. MonthStart[i] \in Nat /\ MonthStart[i + 1] \in Nat
    BY <2>5, MonthStartType, MonthStartStep
  <2>7. ~(i < k)
    <3>1. i < k => MonthStart[i + 1] <= MonthStart[k]
      <4>1. i \in 1..n + 1 /\ k \in 1..n + 1
        BY <1>1, <2>5, MonthStartStep
      <4> QED BY <4>1, MonthStartIncreases, Zenon
    <3> QED BY <1>1, <1>2, <1>4, <2>2, <2>3, <2>5, <2>6, <3>1
  <2>8. ~(j < i)
    <3>1. j < i => MonthStart[j + 1] <= MonthStart[i]
      <4>1. i \in 1..n + 1 /\ j \in 1..n + 1
        BY <1>7, <2>5, MonthStartStep
      <4> QED BY <4>1, MonthStartIncreases, Zenon
    <3> QED BY <1>8, <1>10, <2>2, <2>4, <2>5, <2>6, <3>1
  <2>9. i # j
    BY <1>10, <2>2, <2>4 DEF e
  <2>10. i = k
    BY <1>1, <1>7, <2>1, <2>5, <2>7, <2>8, <2>9
  <2> QED BY <2>2, <2>10 DEF d
<1>17. ASSUME NEW v \in 0..t, Slot(s, v), Period(s, v) = Period(s, t) PROVE v = c
  <2>1. v \in Nat /\ Month(Day(v)) = k
    BY <1>17 DEF Period, k, today
  <2> QED BY <1>13, <1>17, <2>1 DEF d
<1> HIDE DEF c, l
<1>18. Advances(s, t, c, l)
  BY <1>12, <1>14, <1>15, <1>16, <1>17 DEF Advances
<1> QED BY <1>18 DEF c, l, d, e, j, k, today

\* calculateNextRunAt returns its candidate or the successor.
LEMMA Calculated ==
    ASSUME NEW s \in Settings, NEW t \in 0..LastInstant
    PROVE  \E c, l \in Nat :
               /\ Advances(s, t, c, l)
               /\ \A forced \in BOOLEAN : CalculateNextRunAt(s, t, forced) = OrLater(c, l, t, forced)
<1> USE DEF CalculateNextRunAt
<1>1. t \in Nat
  BY BoundAssumption
<1>2. ASSUME NEW c, NEW l, Advances(s, t, c, l) PROVE c \in Nat /\ l \in Nat
  BY <1>2 DEF Advances
<1>3. CASE s.frequency = "HOURLY"
  <2> DEFINE c == (t - (t % HourLength)) + s.minute
             l == c + HourLength
  <2>1. Advances(s, t, c, l)
    BY <1>1, <1>3, HourlyAdvances
  <2>2. \A forced \in BOOLEAN : CalculateNextRunAt(s, t, forced) = OrLater(c, l, t, forced)
    BY <1>3 DEF Hourly
  <2> HIDE DEF c, l
  <2> QED BY <1>2, <2>1, <2>2
<1>4. CASE s.frequency = "DAILY"
  <2> DEFINE c == At(Day(t), s)
             l == c + DayLength
  <2>1. Advances(s, t, c, l)
    BY <1>1, <1>4, DailyAdvances
  <2>2. \A forced \in BOOLEAN : CalculateNextRunAt(s, t, forced) = OrLater(c, l, t, forced)
    BY <1>4 DEF Daily
  <2> HIDE DEF c, l
  <2> QED BY <1>2, <2>1, <2>2
<1>5. CASE s.frequency = "WEEKLY"
  <2> DEFINE diff == ((s.weekday - (Day(t) % WeekDays)) + WeekDays) % WeekDays
             c == At(Day(t) + diff, s)
             l == c + WeekDays * DayLength
  <2>1. Advances(s, t, c, l)
    BY <1>1, <1>5, WeeklyAdvances
  <2>2. \A forced \in BOOLEAN : CalculateNextRunAt(s, t, forced) = OrLater(c, l, t, forced)
    BY <1>5 DEF Weekly
  <2> HIDE DEF c, l
  <2> QED BY <1>2, <2>1, <2>2
<1>6. CASE s.frequency = "MONTHLY"
  <2> DEFINE d == MonthlyDay(Month(Day(t)), s)
             c == At(d, s)
             l == At(MonthlyDay(NextMonth(d), s), s)
  <2>1. Advances(s, t, c, l)
    BY <1>6, MonthlyAdvances
  <2>2. \A forced \in BOOLEAN : CalculateNextRunAt(s, t, forced) = OrLater(c, l, t, forced)
    BY <1>6 DEF Monthly
  <2> HIDE DEF c, l
  <2> QED BY <1>2, <2>1, <2>2
<1> QED BY <1>3, <1>4, <1>5, <1>6, SettingsType DEF Frequency

\* What is calculated without force, as when the settings change, is the very next
\* slot, for settings whose day every month has.
LEMMA CalculatedIsNext ==
    ASSUME NEW s \in Settings, NEW t \in 0..LastInstant, Fits(s)
    PROVE  IsNextSlot(CalculateNextRunAt(s, t, FALSE), s, t)
<1>0. t \in Nat
  BY BoundAssumption
<1>1. PICK c, l \in Nat :
          /\ Advances(s, t, c, l)
          /\ \A forced \in BOOLEAN : CalculateNextRunAt(s, t, forced) = OrLater(c, l, t, forced)
  BY Calculated
<1>2. CASE c <= t
  <2>1. CalculateNextRunAt(s, t, FALSE) = l
    BY <1>1, <1>2 DEF OrLater
  <2>2. \A v \in t + 1..l - 1 : ~Slot(s, v)
    BY <1>0, <1>1, <1>2 DEF Advances
  <2> QED BY <1>1, <2>1, <2>2 DEF Advances, IsNextSlot
<1>3. CASE ~(c <= t)
  <2>1. CalculateNextRunAt(s, t, FALSE) = c
    BY <1>1, <1>3 DEF OrLater
  <2>2. \A v \in t + 1..c - 1 : ~Slot(s, v)
    BY <1>0, <1>1, <1>3 DEF Advances
  <2>3. c > t /\ Slot(s, c)
    BY <1>0, <1>1, <1>3 DEF Advances
  <2> QED BY <2>1, <2>2, <2>3 DEF IsNextSlot
<1> QED BY <1>2, <1>3

\* What is calculated with force, as after a run, lies ahead and is a slot.
LEMMA ForcedLiesAhead ==
    ASSUME NEW s \in Settings, NEW t \in 0..LastInstant
    PROVE  /\ CalculateNextRunAt(s, t, TRUE) > t
           /\ Slot(s, CalculateNextRunAt(s, t, TRUE))
           /\ \A forced \in BOOLEAN : CalculateNextRunAt(s, t, forced) \in Nat
<1>0. t \in Nat
  BY BoundAssumption
<1>1. PICK c, l \in Nat :
          /\ Advances(s, t, c, l)
          /\ \A forced \in BOOLEAN : CalculateNextRunAt(s, t, forced) = OrLater(c, l, t, forced)
  BY Calculated
<1>2. CalculateNextRunAt(s, t, TRUE) = l
  BY <1>1 DEF OrLater
<1>3. \A forced \in BOOLEAN : CalculateNextRunAt(s, t, forced) \in Nat
  BY <1>1 DEF OrLater
<1> QED BY <1>1, <1>2, <1>3 DEF Advances

\* Forcing the next one changes nothing when the one that is due has been taken.
LEMMA ForcedAfterSlot ==
    ASSUME NEW s \in Settings, NEW t \in 0..LastInstant, NEW v \in 0..t,
           Slot(s, v), Period(s, v) = Period(s, t)
    PROVE  CalculateNextRunAt(s, t, TRUE) = CalculateNextRunAt(s, t, FALSE)
<1>0. t \in Nat
  BY BoundAssumption
<1>1. PICK c, l \in Nat :
          /\ Advances(s, t, c, l)
          /\ \A forced \in BOOLEAN : CalculateNextRunAt(s, t, forced) = OrLater(c, l, t, forced)
  BY Calculated
<1>2. v = c
  BY <1>1 DEF Advances
<1>3. c <= t
  BY <1>0, <1>2
<1> QED BY <1>1, <1>3 DEF OrLater

\* Type correctness of the timer: the instants it keeps are natural numbers and its
\* run's settings are settings, for every calendar.
LEMMA ScheduleType == Spec => []TypeOK
<1>1. Init => TypeOK
  <2> SUFFICES ASSUME Init PROVE TypeOK
    OBVIOUS
  <2>1. 0 \in 0..LastInstant
    BY BoundAssumption
  <2>2. nextRunAt \in Nat
    BY <2>1, ForcedLiesAhead DEF Init
  <2>3. run \in [on: BOOLEAN, due: 0..now, settings: Settings]
    BY DEF Init, NotRunning
  <2> QED BY <2>1, <2>2, <2>3 DEF Init, TypeOK
<1>2. TypeOK /\ [Next]_vars => TypeOK'
  <2> SUFFICES ASSUME TypeOK, [Next]_vars PROVE TypeOK'
    OBVIOUS
  <2> USE DEF TypeOK
  <2>1. CASE Minute
    BY <2>1, BoundAssumption DEF Minute
  <2>2. CASE StartRun
    BY <2>2 DEF StartRun
  <2>3. CASE FinishRun
    <3>1. run' \in [on: BOOLEAN, due: 0..now', settings: Settings]
      BY <2>3 DEF FinishRun, NotRunning
    <3>2. nextRunAt' \in Nat
      BY <2>3, ForcedLiesAhead DEF FinishRun
    <3> QED BY <2>3, <3>1, <3>2 DEF FinishRun
  <2>4. CASE FailRun
    BY <2>4 DEF FailRun, NotRunning
  <2>5. ASSUME NEW s \in Settings, UpdateSettings(s) PROVE TypeOK'
    BY <2>5, ForcedLiesAhead DEF UpdateSettings
  <2>6. CASE UNCHANGED vars
    BY <2>6 DEF vars
  <2> QED BY <2>1, <2>2, <2>3, <2>4, <2>5, <2>6 DEF Next
<1> QED BY <1>1, <1>2, PTL DEF Spec

\* Every step that changes the settings or the next run leaves the next slot, except
\* for days some month lacks and runs that were not punctual, and a run that ends
\* leaves a slot of its own settings that lies ahead.
LEMMA ScheduleStep ==
    ASSUME TypeOK, Next
    PROVE  /\ settings' # settings \/ nextRunAt' # nextRunAt =>
                  \/ IsNextSlot(nextRunAt', settings', now)
                  \/ ~Fits(settings')
                  \/ FinishRun /\ ~Punctual
           /\ FinishRun => nextRunAt' > now /\ Slot(run.settings, nextRunAt')
<1>1. CASE FinishRun
  <2>1. now \in 0..LastInstant /\ run.settings \in Settings /\ run.due \in 0..now
    BY DEF TypeOK
  <2>2. nextRunAt' = CalculateNextRunAt(run.settings, now, TRUE) /\ settings' = settings
    BY <1>1 DEF FinishRun
  <2>3. nextRunAt' > now /\ Slot(run.settings, nextRunAt')
    BY <2>1, <2>2, ForcedLiesAhead
  <2>4. Punctual /\ Fits(settings') => IsNextSlot(nextRunAt', settings', now)
    BY <2>1, <2>2, ForcedAfterSlot, CalculatedIsNext DEF Punctual
  <2> QED BY <1>1, <2>3, <2>4
<1>2. CASE ~FinishRun /\ \E s \in Settings : UpdateSettings(s)
  BY <1>2, CalculatedIsNext DEF UpdateSettings, TypeOK
<1>3. CASE ~FinishRun /\ (Minute \/ StartRun \/ FailRun)
  BY <1>3 DEF Minute, StartRun, FailRun
<1> QED BY <1>1, <1>2, <1>3 DEF Next

\* The timer runs a slot once and skips none (BackupSchedule.SlotsRunOnce): for every
\* calendar, every set of settings and every pace of the clock.
THEOREM ScheduleSlotsRunOnce == Spec => SlotsRunOnce
<1>1. TypeOK /\ [Next]_vars =>
          [/\ settings' # settings \/ nextRunAt' # nextRunAt =>
                  \/ IsNextSlot(nextRunAt', settings', now)
                  \/ ~Fits(settings')
                  \/ FinishRun /\ ~Punctual
           /\ FinishRun => nextRunAt' > now /\ Slot(run.settings, nextRunAt')]_vars
  BY ScheduleStep
<1> QED BY <1>1, ScheduleType, PTL DEF Spec, SlotsRunOnce

\* In the system PlatformMC composes, the timer runs a slot once and skips none.
THEOREM SlotsRunOnceHolds == PlatformSpec => SlotsRunOnce
<1>1. PlatformSpec => Spec
  <2>1. PlatformInit => Init
    BY DEF PlatformInit
  <2>2. [PlatformNext]_platformVars => [Next]_vars
    BY DEF PlatformNext, platformVars, Schedules, Caches, Workspaces, SmtpAdministration,
           Directories, FileShares, Sessions, DateField, scheduleVars
  <2> QED BY <2>1, <2>2, PTL DEF PlatformSpec, Spec
<1> QED BY <1>1, ScheduleSlotsRunOnce

-----------------------------------------------------------------------------
(* jalCal: the leap years and the first days of the years.                 *)

\* The recursive function that jalCal's loop computes has the values its definition names.
LEMMA LeapJDef ==
    Picker!LeapJ = [k \in 1..Len(Picker!Breaks) |->
        IF k = 1 THEN -14
        ELSE Picker!LeapJ[k - 1] + Picker!LeapYearsIn(Picker!Breaks[k] - Picker!Breaks[k - 1], 0)]
<1> DEFINE Value(g, k) == IF k = 1 THEN -14
                          ELSE g[k - 1] + Picker!LeapYearsIn(Picker!Breaks[k] - Picker!Breaks[k - 1], 0)
           T == {n \in Nat : \E g : g = [k \in 1..n |-> Value(g, k)]}
<1>1. 0 \in T
  <2>1. <<>> = [k \in 1..0 |-> Value(<<>>, k)]
    OBVIOUS
  <2> QED BY <2>1
<1>2. ASSUME NEW n \in Nat, n \in T PROVE n + 1 \in T
  <2>1. PICK g : g = [k \in 1..n |-> Value(g, k)]
    BY <1>2
  <2> DEFINE h == [k \in 1..n + 1 |-> IF k = n + 1 THEN Value(g, n + 1) ELSE g[k]]
  <2>2. \A k \in 1..n + 1 : h[k] = Value(h, k)
    BY <2>1
  <2>3. h = [k \in 1..n + 1 |-> Value(h, k)]
    BY <2>2
  <2> HIDE DEF h, Value
  <2>4. \E f : f = [k \in 1..n + 1 |-> Value(f, k)]
    BY <2>3
  <2> QED BY <2>4
<1> HIDE DEF T
<1>3. Len(Picker!Breaks) \in T
  <2>1. Len(Picker!Breaks) \in Nat
    BY DEF Picker!Breaks
  <2> QED BY <1>1, <1>2, <2>1, SetInduction
<1>4. PICK g : g = [k \in 1..Len(Picker!Breaks) |-> Value(g, k)]
  BY <1>3 DEF T
<1> QED BY <1>4, Zenon DEF Picker!LeapJ

\* The table of breaks, of which only those up to 1635 matter here.
LEMMA BreaksAre ==
    /\ Len(Picker!Breaks) = 20 /\ Picker!Breaks[1] = -61 /\ Picker!Breaks[2] = 9 /\ Picker!Breaks[3] = 38
    /\ Picker!Breaks[4] = 199 /\ Picker!Breaks[5] = 426 /\ Picker!Breaks[6] = 686
    /\ Picker!Breaks[7] = 756 /\ Picker!Breaks[8] = 818
    /\ Picker!Breaks[9] = 1111 /\ Picker!Breaks[10] = 1181 /\ Picker!Breaks[11] = 1210 /\ Picker!Breaks[12] = 1635
    /\ \A k \in 13..20 : Picker!Breaks[k] \in Int /\ Picker!Breaks[k] >= 1635
BY DEF Picker!Breaks

\* One turn of jalCal's loop.
LEMMA LeapJStep ==
    /\ Picker!LeapJ[1] = -14
    /\ \A k \in 2..11 :
           Picker!LeapJ[k] = Picker!LeapJ[k - 1] + Picker!LeapYearsIn(Picker!Breaks[k] - Picker!Breaks[k - 1], 0)
<1>1. \A k \in 1..20 : Picker!LeapJ[k] =
         IF k = 1 THEN -14
         ELSE Picker!LeapJ[k - 1] + Picker!LeapYearsIn(Picker!Breaks[k] - Picker!Breaks[k - 1], 0)
  BY LeapJDef, BreaksAre
<1> QED BY <1>1

\* The leap years of n years of the 33-year cycle, three years into it, without the
\* truncating division.
LEMMA LeapYears ==
    ASSUME NEW n \in Nat
    PROVE  Picker!LeapYearsIn(n, 3) = (n \div 33) * 8 + (((n % 33) + 3) \div 4)
BY DEF Picker!LeapYearsIn, Picker!Div, Picker!Mod

\* After the loop, a year of the field has 294 leap years before its break, 1210.
LEMMA LeapYearsBefore1210 == Picker!LeapJ[11] = 294
<1> USE DEF Picker!LeapYearsIn, Picker!Div, Picker!Mod
<1>2. Picker!LeapJ[2] = 3
  BY LeapJStep, BreaksAre
<1>3. Picker!LeapJ[3] = 10
  BY <1>2, LeapJStep, BreaksAre
<1>4. Picker!LeapJ[4] = 49
  BY <1>3, LeapJStep, BreaksAre
<1>5. Picker!LeapJ[5] = 104
  BY <1>4, LeapJStep, BreaksAre
<1>6. Picker!LeapJ[6] = 167
  BY <1>5, LeapJStep, BreaksAre
<1>7. Picker!LeapJ[7] = 184
  BY <1>6, LeapJStep, BreaksAre
<1>8. Picker!LeapJ[8] = 199
  BY <1>7, LeapJStep, BreaksAre
<1>9. Picker!LeapJ[9] = 270
  BY <1>8, LeapJStep, BreaksAre
<1>10. Picker!LeapJ[10] = 287
  BY <1>9, LeapJStep, BreaksAre
<1> QED BY <1>10, LeapJStep, BreaksAre

\* Every year of the field lies between the breaks 1210 and 1635.
LEMMA BreakOf ==
    ASSUME NEW jy \in 1300..1501
    PROVE  Picker!BreakAfter(jy) = 12
<1>1. \A k \in 2..20 : Picker!Breaks[k - 1] <= jy /\ jy < Picker!Breaks[k] => k = 12
  <2>1. \A k \in 2..11 : Picker!Breaks[k] <= jy
    BY BreaksAre
  <2>2. \A k \in 13..20 : jy < Picker!Breaks[k - 1]
    BY BreaksAre
  <2>3. \A k \in 13..20 : Picker!Breaks[k - 1] \in Int
    BY BreaksAre
  <2>4. \A k \in 2..11 : Picker!Breaks[k] \in Int
    BY BreaksAre
  <2>5. \A k \in 2..20 : k \in 2..11 \/ k = 12 \/ k \in 13..20
    OBVIOUS
  <2> QED BY <2>1, <2>2, <2>3, <2>4, <2>5
<1>2. Picker!Breaks[12 - 1] <= jy /\ jy < Picker!Breaks[12] /\ 12 \in 2..20
  BY BreaksAre
<1> QED BY <1>1, <1>2, BreaksAre DEF Picker!BreakAfter

\* So jalCal needs no correction at the end of a cycle for any of them.
LEMMA JalCalIs ==
    ASSUME NEW jy \in 1300..1501
    PROVE  LET n == jy - 1210
               gy == jy + 621
               m == Picker!Mod(Picker!Mod(n + 1, 33) - 1, 4)
           IN  Picker!JalCal(jy) = [leap |-> IF m = -1 THEN 4 ELSE m, gy |-> gy,
                   march |-> 20 + (294 + Picker!LeapYearsIn(n, 3))
                       - (Picker!Div(gy, 4) - Picker!Div((Picker!Div(gy, 100) + 1) * 3, 4) - 150)]
<1>1. Picker!Breaks[12] - Picker!Breaks[12 - 1] = 425 /\ Picker!Breaks[12 - 1] = 1210 /\ Picker!LeapJ[12 - 1] = 294
  BY BreaksAre, LeapYearsBefore1210
<1>2. Picker!Mod(425, 33) # 4 /\ ~(425 - (jy - 1210) < 6)
  BY DEF Picker!Mod, Picker!Div
<1>3. Picker!LeapYearsIn(jy - 1210, 3) \in Int
  <2>1. jy - 1210 \in Nat
    OBVIOUS
  <2> QED BY <2>1, LeapYears
<1> DEFINE Break == Picker!BreakAfter(jy)
           Cal(jump, start, before) ==
               LET n == jy - start
                   gy == jy + 621
                   leapJ == before + Picker!LeapYearsIn(n, 3)
                            + (IF Picker!Mod(jump, 33) = 4 /\ jump - n = 4 THEN 1 ELSE 0)
                   leapG == Picker!Div(gy, 4) - Picker!Div((Picker!Div(gy, 100) + 1) * 3, 4) - 150
                   m == IF jump - n < 6 THEN n - jump + Picker!Div(jump + 4, 33) * 33 ELSE n
                   leap == Picker!Mod(Picker!Mod(m + 1, 33) - 1, 4)
               IN  [leap |-> IF leap = -1 THEN 4 ELSE leap, gy |-> gy, march |-> 20 + leapJ - leapG]
<1>4. Picker!JalCal(jy) = Cal(Picker!Breaks[Break] - Picker!Breaks[Break - 1],
                               Picker!Breaks[Break - 1], Picker!LeapJ[Break - 1])
  BY DEF Picker!JalCal
<1>5. Break = 12
  BY BreakOf
<1>6. Cal(425, 1210, 294) =
          LET n == jy - 1210
              gy == jy + 621
              m == Picker!Mod(Picker!Mod(n + 1, 33) - 1, 4)
          IN  [leap |-> IF m = -1 THEN 4 ELSE m, gy |-> gy,
               march |-> 20 + (294 + Picker!LeapYearsIn(n, 3))
                   - (Picker!Div(gy, 4) - Picker!Div((Picker!Div(gy, 100) + 1) * 3, 4) - 150)]
  <2>1. (IF Picker!Mod(425, 33) = 4 /\ 425 - (jy - 1210) = 4 THEN 1 ELSE 0) = 0
    BY <1>2
  <2>2. (IF 425 - (jy - 1210) < 6 THEN jy - 1210 - 425 + Picker!Div(425 + 4, 33) * 33 ELSE jy - 1210) = jy - 1210
    BY <1>2
  <2>3. 294 + Picker!LeapYearsIn(jy - 1210, 3) + 0 = 294 + Picker!LeapYearsIn(jy - 1210, 3)
    BY <1>3
  <2> QED BY <2>1, <2>2, <2>3
<1> HIDE DEF Break, Cal
<1> QED BY <1>1, <1>4, <1>5, <1>6

\* The years of the field and the one after them, and the Gregorian years they begin in,
\* with the one after them.
JalaliYear == 1300..1501
MarchYear == 1921..2123

\* jalCal's count of years since the last leap year is 0 for the leap years of the
\* rule and 1 for the years after them: what d2j and the month's length ask of it.
LEMMA LeapOf ==
    ASSUME NEW jy \in JalaliYear, NEW before, before = jy - 1
    PROVE  /\ Picker!JalCal(jy).leap = 0 <=> Picker!JalaliLeap(jy)
           /\ Picker!JalCal(jy).leap = 1 <=> Picker!JalaliLeap(before)
<1> USE DEF JalaliYear
<1> DEFINE n == jy - 1210
           m == Picker!Mod(Picker!Mod(n + 1, 33) - 1, 4)
<1>1. Picker!JalCal(jy).leap = IF m = -1 THEN 4 ELSE m
  BY JalCalIs
<1>2. n \in Nat /\ n + 1 \in Nat /\ Picker!Mod(n + 1, 33) = (n + 1) % 33
  BY DEF Picker!Mod, Picker!Div
<1> DEFINE x == (n + 1) % 33
<1>3. x \in 0..32 /\ m = IF x = 0 THEN -1 ELSE (x - 1) % 4
  BY <1>2 DEF Picker!Mod, Picker!Div
<1>4. jy % 33 = IF x < 12 THEN x + 21 ELSE x - 12
  BY <1>2
<1>5. before % 33 = IF x = 0 THEN 20 ELSE IF x < 13 THEN x + 20 ELSE x - 13
  BY <1>2
<1> HIDE DEF x, m
<1>6. (IF m = -1 THEN 4 ELSE m) = 0 <=> x \in {1, 5, 9, 13, 17, 21, 25, 29}
  BY <1>3
<1>7. (IF m = -1 THEN 4 ELSE m) = 1 <=> x \in {2, 6, 10, 14, 18, 22, 26, 30}
  BY <1>3
<1>8. jy % 33 \in {1, 5, 9, 13, 17, 22, 26, 30} <=> x \in {1, 5, 9, 13, 17, 21, 25, 29}
  BY <1>3, <1>4
<1>9. before % 33 \in {1, 5, 9, 13, 17, 22, 26, 30} <=> x \in {2, 6, 10, 14, 18, 22, 26, 30}
  BY <1>3, <1>5
<1> QED BY <1>1, <1>6, <1>7, <1>8, <1>9 DEF Picker!JalaliLeap

\* Leap years from the break to a year.
LeapsBefore(jy) == Picker!LeapYearsIn(jy - 1210, 3)

\* It grows by one at every leap year of the rule: eight in each 33 years.
LEMMA LeapYearsStep ==
    ASSUME NEW jy \in JalaliYear, NEW next \in JalaliYear, next = jy + 1
    PROVE  /\ LeapsBefore(jy) \in Nat
           /\ LeapsBefore(next) = LeapsBefore(jy) + (IF Picker!JalaliLeap(jy) THEN 1 ELSE 0)
<1> USE DEF JalaliYear, MarchYear
<1>1. PICK n \in Nat : n = jy - 1210
  BY SMT
<1>2. PICK k \in Nat : k = n + 1
  BY SMT
<1>3. PICK q \in Nat, x \in 0..32 : q = n \div 33 /\ x = n % 33 /\ n = 33 * q + x
  BY SMT
<1>4. jy % 33 = IF x < 11 THEN x + 22 ELSE x - 11
  BY <1>1, <1>3, SMT
<1>5. k \div 33 = (IF x = 32 THEN q + 1 ELSE q) /\ k % 33 = (IF x = 32 THEN 0 ELSE x + 1)
  BY <1>2, <1>3, SMT
<1>6. Picker!LeapYearsIn(n, 3) = q * 8 + ((x + 3) \div 4)
  BY <1>3, LeapYears, SMT
<1>7. Picker!LeapYearsIn(k, 3) = (IF x = 32 THEN q + 1 ELSE q) * 8
                           + (((IF x = 32 THEN 0 ELSE x + 1) + 3) \div 4)
  <2>1. Picker!LeapYearsIn(k, 3) = (k \div 33) * 8 + (((k % 33) + 3) \div 4)
    BY LeapYears, SMT
  <2> QED BY <1>5, <2>1, SMT
<1>8. Picker!JalaliLeap(jy) <=> x \in {0, 4, 8, 12, 16, 20, 24, 28}
  BY <1>3, <1>4, SMT DEF Picker!JalaliLeap
<1>9. Picker!LeapYearsIn(k, 3) = Picker!LeapYearsIn(n, 3) + (IF Picker!JalaliLeap(jy) THEN 1 ELSE 0)
  <2>1. CASE x = 32
    BY <1>6, <1>7, <1>8, <2>1, SMT
  <2>2. CASE x # 32
    <3>1. ((x + 1 + 3) \div 4) = ((x + 3) \div 4) + (IF x \in {0, 4, 8, 12, 16, 20, 24, 28} THEN 1 ELSE 0)
      BY <2>2, SMT
    <3> QED BY <1>6, <1>7, <1>8, <2>2, <3>1, SMT
  <2> QED BY <2>1, <2>2
<1>10. Picker!LeapYearsIn(n, 3) \in Nat
  BY <1>6, SMT
<1>11. next - 1210 = k
  BY <1>1, <1>2, SMT
<1> QED BY <1>1, <1>9, <1>10, <1>11, SMT DEF LeapsBefore

\* The number of the day on which a Jalali year begins.
Nowruz(jy) == Picker!GregorianToDay(Picker!JalCal(jy).gy, 3, Picker!JalCal(jy).march)

\* The years concerned lie in three centuries.
LEMMA Centuries ==
    ASSUME NEW y \in MarchYear
    PROVE  /\ y \div 100 \in {19, 20, 21}
           /\ y \div 100 = 19 <=> y < 2000
           /\ y \div 100 = 21 <=> y >= 2100
BY SMT DEF MarchYear

\* The number of the first of March.
FirstOfMarch(y) == 1721120 + 365 * y + (y \div 4) - (IF y < 2100 THEN 15 ELSE 16)

\* g2d of a day of March: the day counted from the first of March.
LEMMA MarchDay ==
    ASSUME NEW y \in MarchYear, NEW d \in Int
    PROVE  Picker!GregorianToDay(y, 3, d) = FirstOfMarch(y) + (d - 1)
<1> USE DEF JalaliYear, MarchYear
<1>1. Picker!Div(3 - 8, 6) = 0 /\ Picker!Mod(3 + 9, 12) = 0 /\ Picker!Div(153 * 0 + 2, 5) = 0
  BY SMT DEF Picker!Div, Picker!Mod
<1>2. Picker!Div((y + 100100) * 1461, 4) = 365 * y + 36561525 + (y \div 4)
  BY SMT DEF Picker!Div
<1>3. Picker!Div(Picker!Div(y + 100100, 100) * 3, 4) = IF y < 2100 THEN 765 ELSE 766
  <2>1. (y + 100100) \div 100 \in {1020, 1021, 1022} /\ ((y + 100100) \div 100 = 1022 <=> y >= 2100)
    BY SMT
  <2>2. Picker!Div(y + 100100, 100) = (y + 100100) \div 100
    BY SMT DEF Picker!Div
  <2> HIDE DEF Picker!Div
  <2>3. Picker!Div(1020 * 3, 4) = 765 /\ Picker!Div(1021 * 3, 4) = 765 /\ Picker!Div(1022 * 3, 4) = 766
    BY SMT DEF Picker!Div
  <2> QED BY <2>1, <2>2, <2>3, SMT
<1>4. y \div 4 \in Int
  BY SMT
<1> DEFINE a == Picker!Div((y + 100100) * 1461, 4)
           c == Picker!Div(Picker!Div(y + 100100, 100) * 3, 4)
<1>5. Picker!GregorianToDay(y, 3, d) = (a + 0 + d - 34840408) - c + 752
  <2>1. Picker!GregorianToDay(y, 3, d) =
           (Picker!Div((y + (Picker!Div(3 - 8, 6) + 100100)) * 1461, 4)
            + Picker!Div(153 * Picker!Mod(3 + 9, 12) + 2, 5) + d - 34840408)
             - Picker!Div(Picker!Div(y + (Picker!Div(3 - 8, 6) + 100100), 100) * 3, 4) + 752
    BY SMT DEF Picker!GregorianToDay
  <2>2. 0 + 100100 = 100100
    BY SMT
  <2> QED BY <1>1, <2>1, <2>2, SMT
<1> QED BY <1>2, <1>3, <1>4, <1>5, SMT DEF FirstOfMarch

\* The number of the first day of a year in closed form.
LEMMA NowruzIs ==
    ASSUME NEW jy \in JalaliYear
    PROVE  /\ Picker!JalCal(jy).gy = jy + 621
           /\ Picker!JalCal(jy).march \in Int
           /\ Nowruz(jy) = 1948248 + 365 * jy + LeapsBefore(jy)
<1> USE DEF JalaliYear, MarchYear
<1>1. PICK y \in MarchYear, n \in Nat : y = jy + 621 /\ n = jy - 1210
  BY SMT
<1>2. PICK l \in Int : l = Picker!LeapYearsIn(n, 3)
  BY LeapYears, SMT
<1>3. Picker!Div(y, 4) = y \div 4 /\ y \div 4 \in Int
  BY SMT DEF Picker!Div
<1>4. Picker!Div((Picker!Div(y, 100) + 1) * 3, 4) = IF y < 2100 THEN 15 ELSE 16
  <2>1. Picker!Div(y, 100) = y \div 100
    BY SMT DEF Picker!Div
  <2>2. Picker!Div((19 + 1) * 3, 4) = 15 /\ Picker!Div((20 + 1) * 3, 4) = 15 /\ Picker!Div((21 + 1) * 3, 4) = 16
    BY SMT DEF Picker!Div
  <2> QED BY <2>1, <2>2, Centuries, SMT
<1>5. PICK d \in Int : d = 20 + (294 + l) - ((y \div 4) - (IF y < 2100 THEN 15 ELSE 16) - 150)
  BY <1>3, SMT
<1>6. Picker!JalCal(jy).gy = jy + 621 /\ Picker!JalCal(jy).march =
          20 + (294 + Picker!LeapYearsIn(jy - 1210, 3))
             - (Picker!Div(jy + 621, 4) - Picker!Div((Picker!Div(jy + 621, 100) + 1) * 3, 4) - 150)
  BY JalCalIs, SMTT(40)
<1>7. Picker!JalCal(jy).gy = y
  BY <1>1, <1>6, SMT
<1>8. Picker!JalCal(jy).march = d
  BY <1>1, <1>2, <1>3, <1>4, <1>5, <1>6, SMT
<1>9. Nowruz(jy) = Picker!GregorianToDay(y, 3, d)
  BY <1>7, <1>8, SMT DEF Nowruz
<1>10. Picker!GregorianToDay(y, 3, d) = FirstOfMarch(y) + (d - 1)
  BY MarchDay, SMT
<1>11. LeapsBefore(jy) = l
  BY <1>1, <1>2, SMT DEF LeapsBefore
<1>12. Nowruz(jy) = 1948248 + 365 * jy + l
  BY <1>1, <1>3, <1>5, <1>9, <1>10, SMT DEF FirstOfMarch
<1> QED BY <1>1, <1>7, <1>8, <1>11, <1>12, SMT

\* A Jalali year has 365 days, a leap year one more.
LEMMA NowruzStep ==
    ASSUME NEW jy \in JalaliYear, NEW next \in JalaliYear, next = jy + 1
    PROVE  /\ Nowruz(jy) \in Int
           /\ Nowruz(next) = Nowruz(jy) + 365 + (IF Picker!JalaliLeap(jy) THEN 1 ELSE 0)
<1>2. PICK l \in Nat : l = LeapsBefore(jy) /\ LeapsBefore(next) = l + (IF Picker!JalaliLeap(jy) THEN 1 ELSE 0)
  <2>1. /\ LeapsBefore(jy) \in Nat
        /\ LeapsBefore(next) = LeapsBefore(jy) + (IF Picker!JalaliLeap(jy) THEN 1 ELSE 0)
    BY LeapYearsStep
  <2> QED BY <2>1
<1>4. Nowruz(jy) = 1948248 + 365 * jy + l
  BY <1>2, NowruzIs, SMT
<1>5. Nowruz(next) = 1948248 + 365 * next + LeapsBefore(next)
  BY NowruzIs
<1> QED BY <1>2, <1>4, <1>5, SMT DEF JalaliYear

\* Of the years concerned, 2100 is the only fourth one that is no leap year.
LEMMA GregorianLeapIs ==
    ASSUME NEW y \in MarchYear
    PROVE  Picker!GregorianLeap(y) <=> y % 4 = 0 /\ y # 2100
<1> USE DEF JalaliYear, MarchYear
<1>1. y % 100 = 0 <=> y = 2000 \/ y = 2100
  BY SMT
<1>2. 2000 % 400 = 0 /\ 2100 % 400 = 100
  BY SMT
<1> QED BY <1>1, <1>2, SMT DEF Picker!GregorianLeap

\* From one first of March to the next there are 365 days, and one more if the later
\* year is a leap year.
LEMMA MarchStep ==
    ASSUME NEW y \in MarchYear, NEW next \in MarchYear, next = y + 1
    PROVE  /\ FirstOfMarch(y) \in Int
           /\ FirstOfMarch(next) = FirstOfMarch(y) + 365 + (IF Picker!GregorianLeap(next) THEN 1 ELSE 0)
<1> USE DEF JalaliYear, MarchYear
<1>2. Picker!GregorianLeap(next) <=> next % 4 = 0 /\ next # 2100
  BY GregorianLeapIs, SMT
<1>3. (next \div 4) = (y \div 4) + (IF next % 4 = 0 THEN 1 ELSE 0) /\ y \div 4 \in Int
  BY SMT
<1> QED BY <1>2, <1>3, SMT DEF FirstOfMarch

\* Every year of the field begins on the 20th, the 21st or the 22nd of March.
LEMMA NowruzInMarch ==
    ASSUME NEW jy \in JalaliYear
    PROVE  Nowruz(jy) - FirstOfMarch(jy + 621) \in 19..21
<1> USE DEF JalaliYear, MarchYear
<1>1. PICK n \in Nat, y \in MarchYear : n = jy - 1210 /\ y = jy + 621
  BY SMT
<1>2. PICK q \in 2..8, x \in 0..32 : n = 33 * q + x /\ q = n \div 33 /\ x = n % 33
  BY <1>1, SMT
<1>3. PICK e \in Int : e = ((x + 3) \div 4)
  BY SMT
<1>4. PICK p \in Int : p = (y \div 4)
  BY SMT
<1>5. LeapsBefore(jy) = q * 8 + e
  <2>1. Picker!LeapYearsIn(n, 3) = (n \div 33) * 8 + (((n % 33) + 3) \div 4)
    BY LeapYears, SMT
  <2> QED BY <1>1, <1>2, <1>3, <2>1, SMT DEF LeapsBefore
<1>6. Nowruz(jy) = 1948248 + 365 * jy + (q * 8 + e)
  BY <1>5, NowruzIs, SMT
<1>7. FirstOfMarch(y) = 1721120 + 365 * y + p - (IF y < 2100 THEN 15 ELSE 16)
  BY <1>4 DEF FirstOfMarch
<1>8. 4 * e <= x + 3 /\ x + 3 < 4 * e + 4 /\ 4 * p <= y /\ y < 4 * p + 4
  BY <1>3, <1>4, SMT
<1>9. Nowruz(jy) - FirstOfMarch(y) = 478 + q * 8 + e - p + (IF y < 2100 THEN 0 ELSE 1)
  BY <1>1, <1>6, <1>7, SMT
<1>10. y = 33 * q + x + 1831
  BY <1>1, <1>2, SMT
<1>11. 478 + q * 8 + e - p + (IF y < 2100 THEN 0 ELSE 1) \in 19..21
  BY <1>8, <1>10, SMT
<1> USE DEF JalaliYear, MarchYear
<1> QED BY <1>1, <1>9, <1>11, SMT

\* Counting one number more.
LEMMA CountUpTo ==
    ASSUME NEW S, NEW a \in Int, NEW b \in Int, NEW next \in Int, next = b + 1, a <= next
    PROVE  /\ Cardinality({z \in a..b : z \in S}) \in Nat
           /\ Cardinality({z \in a..next : z \in S})
                  = Cardinality({z \in a..b : z \in S}) + (IF next \in S THEN 1 ELSE 0)
<1> DEFINE Before == {z \in a..b : z \in S}
           After == {z \in a..next : z \in S}
<1>1. IsFiniteSet(a..b)
  BY FS_Interval
<1>2. IsFiniteSet(Before) /\ Cardinality(Before) \in Nat
  <2>1. Before \subseteq a..b
    OBVIOUS
  <2> QED BY <1>1, <2>1, FS_Subset, FS_CardinalityType
<1>3. next \notin Before
  BY SMT
<1>4. After = IF next \in S THEN Before \cup {next} ELSE Before
  BY SMT
<1>5. Cardinality(Before \cup {next}) = Cardinality(Before) + 1
  BY <1>2, <1>3, FS_AddElement
<1> HIDE DEF Before, After
<1>6. Cardinality(After) = Cardinality(Before) + (IF next \in S THEN 1 ELSE 0)
  BY <1>2, <1>4, <1>5
<1> QED BY <1>2, <1>6 DEF Before, After

\* The date field's module has the operator under a name of its own.
LEMMA SameCardinality == \A S : Picker!Cardinality(S) = Cardinality(S)
BY DEF Picker!Cardinality, Cardinality

\* The leap years the reference definitions of the two calendars count.
JalaliLeapYears(jy) == Cardinality({z \in 1300..(jy - 1) : Picker!JalaliLeap(z)})
GregorianLeapYears(y) == Cardinality({z \in 1921..(y - 1) : Picker!GregorianLeap(z)})

\* The count of Jalali leap years grows with every one.
LEMMA JalaliLeapYearsStep ==
    /\ JalaliLeapYears(1300) = 0
    /\ \A jy, next \in JalaliYear : next = jy + 1 =>
           /\ JalaliLeapYears(jy) \in Nat
           /\ JalaliLeapYears(next) = JalaliLeapYears(jy) + (IF Picker!JalaliLeap(jy) THEN 1 ELSE 0)
<1>1. JalaliLeapYears(1300) = 0
  <2>1. {z \in 1300..(1300 - 1) : Picker!JalaliLeap(z)} = {}
    BY SMT
  <2> QED BY <2>1, FS_EmptySet DEF JalaliLeapYears
<1>2. ASSUME NEW jy \in JalaliYear, NEW next \in JalaliYear, next = jy + 1
      PROVE  /\ JalaliLeapYears(jy) \in Nat
             /\ JalaliLeapYears(next) = JalaliLeapYears(jy) + (IF Picker!JalaliLeap(jy) THEN 1 ELSE 0)
  <2> DEFINE S == {z \in Int : Picker!JalaliLeap(z)}
  <2>1. PICK last \in Int : last = jy - 1
    BY DEF JalaliYear
  <2>2. {z \in 1300..last : Picker!JalaliLeap(z)} = {z \in 1300..last : z \in S}
    BY SMT
  <2>3. {z \in 1300..jy : Picker!JalaliLeap(z)} = {z \in 1300..jy : z \in S}
    BY SMT DEF JalaliYear
  <2>4. jy \in S <=> Picker!JalaliLeap(jy)
    BY DEF JalaliYear
  <2>5. jy = last + 1 /\ jy \in Int /\ 1300 \in Int /\ 1300 <= jy /\ next - 1 = jy /\ jy - 1 = last
    BY <1>2, <2>1, SMT DEF JalaliYear
  <2>6. /\ JalaliLeapYears(jy) = Cardinality({z \in 1300..last : z \in S})
        /\ JalaliLeapYears(next) = Cardinality({z \in 1300..jy : z \in S})
    BY <2>2, <2>3, <2>5, SMT DEF JalaliLeapYears
  <2> HIDE DEF S
  <2>7. /\ Cardinality({z \in 1300..last : z \in S}) \in Nat
        /\ Cardinality({z \in 1300..jy : z \in S})
               = Cardinality({z \in 1300..last : z \in S}) + (IF jy \in S THEN 1 ELSE 0)
    BY <2>5, CountUpTo, SMT
  <2> QED BY <2>4, <2>6, <2>7, SMT
<1> QED BY <1>1, <1>2

\* The count of Gregorian leap years grows with every one.
LEMMA GregorianLeapYearsStep ==
    /\ GregorianLeapYears(1921) = 0
    /\ \A y, next \in MarchYear : next = y + 1 =>
           /\ GregorianLeapYears(y) \in Nat
           /\ GregorianLeapYears(next) = GregorianLeapYears(y) + (IF Picker!GregorianLeap(y) THEN 1 ELSE 0)
<1>1. GregorianLeapYears(1921) = 0
  <2>1. {z \in 1921..(1921 - 1) : Picker!GregorianLeap(z)} = {}
    BY SMT
  <2> QED BY <2>1, FS_EmptySet DEF GregorianLeapYears
<1>2. ASSUME NEW y \in MarchYear, NEW next \in MarchYear, next = y + 1
      PROVE  /\ GregorianLeapYears(y) \in Nat
             /\ GregorianLeapYears(next) = GregorianLeapYears(y) + (IF Picker!GregorianLeap(y) THEN 1 ELSE 0)
  <2> DEFINE S == {z \in Int : Picker!GregorianLeap(z)}
  <2>1. PICK last \in Int : last = y - 1
    BY DEF MarchYear
  <2>2. {z \in 1921..last : Picker!GregorianLeap(z)} = {z \in 1921..last : z \in S}
    BY SMT
  <2>3. {z \in 1921..y : Picker!GregorianLeap(z)} = {z \in 1921..y : z \in S}
    BY SMT DEF MarchYear
  <2>4. y \in S <=> Picker!GregorianLeap(y)
    BY DEF MarchYear
  <2>5. y = last + 1 /\ y \in Int /\ 1921 \in Int /\ 1921 <= y /\ next - 1 = y /\ y - 1 = last
    BY <1>2, <2>1, SMT DEF MarchYear
  <2>6. /\ GregorianLeapYears(y) = Cardinality({z \in 1921..last : z \in S})
        /\ GregorianLeapYears(next) = Cardinality({z \in 1921..y : z \in S})
    BY <2>2, <2>3, <2>5, SMT DEF GregorianLeapYears
  <2> HIDE DEF S
  <2>7. /\ Cardinality({z \in 1921..last : z \in S}) \in Nat
        /\ Cardinality({z \in 1921..y : z \in S})
               = Cardinality({z \in 1921..last : z \in S}) + (IF y \in S THEN 1 ELSE 0)
    <3>1. PICK a \in Int : a = 1921
      BY SMT
    <3>2. a <= y /\ y \in Int /\ y = last + 1
      BY <2>5, <3>1, SMT
    <3>3. /\ Cardinality({z \in a..last : z \in S}) \in Nat
          /\ Cardinality({z \in a..y : z \in S})
                 = Cardinality({z \in a..last : z \in S}) + (IF y \in S THEN 1 ELSE 0)
      BY <3>2, CountUpTo
    <3> QED BY <3>1, <3>3, SMT
  <2> QED BY <2>4, <2>6, <2>7, SMT
<1> QED BY <1>1, <1>2

\* By induction over the years, jalCal's arithmetic counts the very leap years of the
\* rule: 2422770 is the day 1 Farvardin 1300.
LEMMA NowruzCount ==
    \A jy \in JalaliYear : /\ JalaliLeapYears(jy) \in Nat
                           /\ Nowruz(jy) = 2422770 + 365 * (jy - 1300) + JalaliLeapYears(jy)
<1> DEFINE Counted(jy) == /\ JalaliLeapYears(jy) \in Nat
                          /\ Nowruz(jy) = 2422770 + 365 * (jy - 1300) + JalaliLeapYears(jy)
           T == {n \in Nat : \A jy \in JalaliYear : jy = 1300 + n => Counted(jy)}
<1>1. 0 \in T
  <2>1. LeapsBefore(1300) = 22
    <3>1. Picker!LeapYearsIn(90, 3) = 22
      BY SMT DEF Picker!LeapYearsIn, Picker!Div, Picker!Mod
    <3>2. 1300 - 1210 = 90
      BY SMT
    <3> QED BY <3>1, <3>2, SMT DEF LeapsBefore
  <2>2. 1300 \in JalaliYear
    BY SMT DEF JalaliYear
  <2>3. Nowruz(1300) = 1948248 + 365 * 1300 + LeapsBefore(1300)
    BY <2>2, NowruzIs, SMT
  <2>4. Counted(1300)
    BY <2>1, <2>3, JalaliLeapYearsStep, SMT
  <2> HIDE DEF Counted
  <2> QED BY <2>4, SMT
<1>2. ASSUME NEW n \in Nat, n \in T PROVE n + 1 \in T
  <2> SUFFICES ASSUME NEW next \in JalaliYear, next = 1300 + (n + 1) PROVE Counted(next)
    BY SMT
  <2>1. PICK jy \in JalaliYear : jy = 1300 + n /\ next = jy + 1
    BY SMT DEF JalaliYear
  <2>2. Counted(jy)
    BY <1>2, <2>1, SMT
  <2>3. /\ JalaliLeapYears(jy) \in Nat
        /\ JalaliLeapYears(next) = JalaliLeapYears(jy) + (IF Picker!JalaliLeap(jy) THEN 1 ELSE 0)
    BY <2>1, JalaliLeapYearsStep
  <2>4. Nowruz(next) = Nowruz(jy) + 365 + (IF Picker!JalaliLeap(jy) THEN 1 ELSE 0)
    BY <2>1, NowruzStep
  <2> QED BY <2>1, <2>2, <2>3, <2>4, SMT DEF JalaliYear
<1> HIDE DEF T
<1>3. Nat \subseteq T
  BY <1>1, <1>2, SetInduction
<1> SUFFICES ASSUME NEW jy \in JalaliYear PROVE Counted(jy)
  OBVIOUS
<1>4. PICK n \in Nat : jy = 1300 + n
  <2>1. jy - 1300 \in Nat /\ jy = 1300 + (jy - 1300)
    BY SMT DEF JalaliYear
  <2> QED BY <2>1
<1> QED BY <1>3, <1>4 DEF T

\* By induction over the years, g2d's arithmetic counts the very leap years of the
\* Gregorian rule: 2422750 is the day 1 March 1921.
LEMMA MarchCount ==
    \A y \in MarchYear :
        /\ GregorianLeapYears(y) \in Nat
        /\ FirstOfMarch(y) = 2422750 + 365 * (y - 1921) + GregorianLeapYears(y)
                             + (IF Picker!GregorianLeap(y) THEN 1 ELSE 0)
<1> DEFINE Counted(y) ==
        FirstOfMarch(y) = 2422750 + 365 * (y - 1921) + GregorianLeapYears(y)
                             + (IF Picker!GregorianLeap(y) THEN 1 ELSE 0)
           Number(y) == GregorianLeapYears(y) \in Nat
           T == {n \in Nat : \A y \in MarchYear : y = 1921 + n => Number(y) /\ Counted(y)}
<1>1. 0 \in T
  <2>1. Picker!GregorianLeap(1921) = FALSE
    BY SMT DEF Picker!GregorianLeap
  <2>2. FirstOfMarch(1921) = 2422750
    BY SMT DEF FirstOfMarch
  <2>3. Number(1921) /\ Counted(1921)
    BY <2>1, <2>2, GregorianLeapYearsStep, SMT
  <2> HIDE DEF Counted, Number
  <2> QED BY <2>3, SMT
<1>2. ASSUME NEW n \in Nat, n \in T PROVE n + 1 \in T
  <2> SUFFICES ASSUME NEW next \in MarchYear, next = 1921 + (n + 1) PROVE Number(next) /\ Counted(next)
    BY SMT
  <2>1. PICK y \in MarchYear : y = 1921 + n /\ next = y + 1
    BY SMT DEF MarchYear
  <2>2. Counted(y)
    BY <1>2, <2>1, SMT
  <2>3. /\ GregorianLeapYears(y) \in Nat
        /\ GregorianLeapYears(next) = GregorianLeapYears(y) + (IF Picker!GregorianLeap(y) THEN 1 ELSE 0)
    BY <2>1, GregorianLeapYearsStep
  <2>4. FirstOfMarch(next) = FirstOfMarch(y) + 365 + (IF Picker!GregorianLeap(next) THEN 1 ELSE 0)
    BY <2>1, MarchStep
  <2>5. y \in Int /\ next \in Int
    BY DEF MarchYear
  <2>6. Number(next)
    BY <2>3, SMT
  <2>7. Counted(next)
    BY <2>1, <2>2, <2>3, <2>4, <2>5, SMT
  <2> QED BY <2>6, <2>7
<1> HIDE DEF T
<1>3. Nat \subseteq T
  BY <1>1, <1>2, SetInduction
<1> SUFFICES ASSUME NEW y \in MarchYear PROVE Number(y) /\ Counted(y)
  OBVIOUS
<1>4. PICK n \in Nat : y = 1921 + n
  <2>1. y - 1921 \in Nat /\ y = 1921 + (y - 1921)
    BY SMT DEF MarchYear
  <2> QED BY <2>1
<1> QED BY <1>3, <1>4 DEF T

-----------------------------------------------------------------------------
(* g2d and d2g, j2d and d2j.                                               *)

\* The days from the first of March to the first of a month.
MonthOffset(m) == Picker!Div(153 * Picker!Mod(m + 9, 12) + 2, 5)

\* The first of March is a day.
LEMMA FirstOfMarchType ==
    ASSUME NEW y \in MarchYear
    PROVE  FirstOfMarch(y) \in Int
BY SMT DEF FirstOfMarch, MarchYear

\* They are those of a year that begins in March.
LEMMA MonthOffsets ==
    /\ MonthOffset(3) = 0   /\ MonthOffset(4) = 31   /\ MonthOffset(5) = 61
    /\ MonthOffset(6) = 92  /\ MonthOffset(7) = 122  /\ MonthOffset(8) = 153
    /\ MonthOffset(9) = 184 /\ MonthOffset(10) = 214 /\ MonthOffset(11) = 245
    /\ MonthOffset(12) = 275 /\ MonthOffset(1) = 306 /\ MonthOffset(2) = 337
BY SMT DEF MonthOffset, Picker!Div, Picker!Mod

\* g2d of any date, January and February counted to the year before.
LEMMA DayNumber ==
    ASSUME NEW m \in 1..12, NEW d \in Int, NEW y \in MarchYear, NEW gy,
           gy = IF m <= 2 THEN y + 1 ELSE y
    PROVE  Picker!GregorianToDay(gy, m, d) = FirstOfMarch(y) + MonthOffset(m) + (d - 1)
<1> DEFINE day(n, offset, x) == 
    (Picker!Div(n * 1461, 4) + offset + x - 34840408) - Picker!Div(Picker!Div(n, 100) * 3, 4) + 752
<1>1. gy + (Picker!Div(m - 8, 6) + 100100) = y + 100100
  <2>1. Picker!Div(m - 8, 6) = IF m <= 2 THEN -1 ELSE 0
    BY SMT DEF Picker!Div
  <2> QED BY <2>1, SMT DEF MarchYear
<1>2. Picker!GregorianToDay(gy, m, d) = day(gy + (Picker!Div(m - 8, 6) + 100100), MonthOffset(m), d)
  BY SMT DEF Picker!GregorianToDay, MonthOffset
<1>3. Picker!GregorianToDay(y, 3, 1) = day(y + (Picker!Div(3 - 8, 6) + 100100), MonthOffset(3), 1)
  BY SMT DEF Picker!GregorianToDay, MonthOffset
<1>4. y + (Picker!Div(3 - 8, 6) + 100100) = y + 100100
  BY SMT DEF MarchYear, Picker!Div
<1>5. Picker!GregorianToDay(y, 3, 1) = FirstOfMarch(y)
  <2>1. Picker!GregorianToDay(y, 3, 1) = FirstOfMarch(y) + (1 - 1)
    BY MarchDay, SMT
  <2> QED BY <2>1, FirstOfMarchType, SMT
<1>6. MonthOffset(m) \in Int /\ MonthOffset(3) = 0
  BY MonthOffsets, SMT
<1>7. PICK a \in Int : a = Picker!Div((y + 100100) * 1461, 4)
  BY SMT DEF MarchYear, Picker!Div
<1>8. PICK c \in Int : c = Picker!Div(Picker!Div(y + 100100, 100) * 3, 4)
  BY SMT DEF MarchYear, Picker!Div
<1>9. Picker!GregorianToDay(gy, m, d) = (a + MonthOffset(m) + d - 34840408) - c + 752
  BY <1>1, <1>2, <1>7, <1>8, SMT
<1>10. FirstOfMarch(y) = (a + 0 + 1 - 34840408) - c + 752
  BY <1>3, <1>4, <1>5, <1>6, <1>7, <1>8, SMT
<1> QED BY <1>6, <1>9, <1>10, SMT

\* The date of a day, counted from the first of March.
DateOfYear(g, y, next, n) ==
    /\ g \in {y, next} \X (1..12) \X (1..31)
    /\ g[1] = IF g[2] <= 2 THEN next ELSE y
    /\ n = MonthOffset(g[2]) + (g[3] - 1)
    /\ g[3] <= Picker!GregorianMonth(g[1], g[2])

\* d2g inverts it: the date of the n-th day after a first of March is in the right
\* month and has the day of the month that is left.
LEMMA DayToGregorianIs ==
    ASSUME NEW y \in MarchYear, NEW next \in MarchYear, next = y + 1,
           NEW n \in 0..365, n = 365 => Picker!GregorianLeap(next)
    PROVE  DateOfYear(Picker!DayToGregorian(FirstOfMarch(y) + n), y, next, n)
<1>1. PICK i \in Nat : i = 5 * n + 308
  BY SMT
<1>2. PICK k \in 2..13, x \in 0..152 : k = (i \div 153) /\ x = i % 153 /\ i = 153 * k + x
  BY <1>1, SMT
<1>3. PICK e \in 0..30 : e = (x \div 5)
  BY SMT
<1>4. PICK m \in 1..12 : m = IF k < 12 THEN k + 1 ELSE k - 11
  BY SMT
<1>5. k < 12 <=> ~(m <= 2)
  BY <1>4, SMT
<1>6. Picker!DayToGregorian(FirstOfMarch(y) + n) =
          <<IF k < 12 THEN y ELSE next, IF k < 12 THEN k + 1 ELSE k - 11, (x \div 5) + 1>>
  <2> USE DEF MarchYear
  <2>1. PICK p \in Int, r \in 0..3 : p = (y \div 4) /\ y = 4 * p + r
    BY SMT
  <2>2. n = 365 => r = 3
    BY <2>1, GregorianLeapIs, SMT
  <2>3. PICK day \in Int : day = FirstOfMarch(y) + n
    BY FirstOfMarchType, SMT
  <2>4. day = 1721120 + 365 * y + p - (IF y < 2100 THEN 15 ELSE 16) + n
    BY <2>1, <2>3, SMT DEF FirstOfMarch
  <2>5. Picker!Div(Picker!Div(4 * day + 183187720, 146097) * 3, 4) = IF y < 2100 THEN 990 ELSE 991
    <3>1. PICK c \in Int : c = ((4 * day + 183187720) \div 146097)
      BY SMT
    <3>2. 4 * day + 183187720 >= 0
      BY <2>1, <2>4, SMT
    <3> DEFINE century == IF y < 2000 THEN 1320 ELSE IF y < 2100 THEN 1321 ELSE 1322
    <3>3. c = century
      <4>1. PICK a \in Int : a = 4 * day + 183187720
        BY SMT
      <4>2. PICK b \in Int : b = century
        BY SMT
      <4>3. a = 190072200 + 1460 * y + 4 * p - (IF y < 2100 THEN 60 ELSE 64) + 4 * n
        BY <2>4, <4>1, SMT
      <4>4. 146097 * b <= a /\ a < 146097 * b + 146097
        <5>1. CASE y < 2000
          <6>1. b = 1320 /\ a = 190072140 + 1460 * y + 4 * p + 4 * n
            BY <4>2, <4>3, <5>1, SMT
          <6> QED BY <2>1, <2>2, <5>1, <6>1, SMT
        <5>2. CASE 2000 <= y /\ y < 2100
          <6>1. b = 1321 /\ a = 190072140 + 1460 * y + 4 * p + 4 * n
            BY <4>2, <4>3, <5>2, SMT
          <6>2. n = 365 => y # 2099
            BY <2>1, GregorianLeapIs, SMT
          <6> QED BY <2>1, <2>2, <5>2, <6>1, <6>2, SMT
        <5>3. CASE 2100 <= y
          <6>1. b = 1322 /\ a = 190072136 + 1460 * y + 4 * p + 4 * n
            BY <4>2, <4>3, <5>3, SMT
          <6> QED BY <2>1, <2>2, <5>3, <6>1, SMT
        <5> QED BY <5>1, <5>2, <5>3, SMT
      <4> HIDE DEF century
      <4>5. (a \div 146097) = b
        BY <4>4, SMT
      <4> QED BY <3>1, <4>1, <4>2, <4>5, SMT
    <3>4. Picker!Div(4 * day + 183187720, 146097) = c
      BY <3>1, <3>2, SMT DEF Picker!Div
    <3>5. Picker!Div(1320 * 3, 4) = 990 /\ Picker!Div(1321 * 3, 4) = 990 /\ Picker!Div(1322 * 3, 4) = 991
      BY SMT DEF Picker!Div
    <3> QED BY <3>3, <3>4, <3>5, SMT
  <2>6. PICK j \in Int :
            j = 4 * day + 139361631 + Picker!Div(Picker!Div(4 * day + 183187720, 146097) * 3, 4) * 4 - 3908
    BY <2>5, SMT
  <2>7. j = 1461 * (y + 100100) + (4 * n + 3 - r)
    BY <2>1, <2>4, <2>5, <2>6, SMT
  <2>8. Picker!Div(j, 1461) = y + 100100 /\ Picker!Div(Picker!Mod(j, 1461), 4) = n
    <3>1. 0 <= 4 * n + 3 - r /\ 4 * n + 3 - r < 1461
      BY <2>2, SMT
    <3>2. j >= 0 /\ (j \div 1461) = y + 100100
      BY <2>7, <3>1, SMT
    <3>3. Picker!Div(j, 1461) = y + 100100
      BY <3>2, SMT DEF Picker!Div
    <3>4. Picker!Mod(j, 1461) = 4 * n + 3 - r
      BY <2>7, <3>3, SMT DEF Picker!Mod
    <3>5. ((4 * n + 3 - r) \div 4) = n
      BY SMT
    <3> QED BY <3>1, <3>3, <3>4, <3>5, SMT DEF Picker!Div
  <2>9. i = n * 5 + 308
    BY <1>1, SMT
  <2>10. Picker!Div(i, 153) = k /\ Picker!Mod(i, 153) = x
    <3>1. (i \div 153) = k /\ i % 153 = x
      BY <1>2, SMT
    <3> QED BY <3>1, SMT DEF Picker!Div, Picker!Mod
  <2>11. Picker!Mod(k, 12) + 1 = IF k < 12 THEN k + 1 ELSE k - 11
    BY SMT DEF Picker!Mod, Picker!Div
  <2>12. Picker!Div(8 - (Picker!Mod(k, 12) + 1), 6) = IF k < 12 THEN 0 ELSE 1
    <3>1. CASE k < 12
      BY <3>1, <2>11, SMT DEF Picker!Div
    <3>2. CASE ~(k < 12)
      BY <3>2, <2>11, SMT DEF Picker!Div
    <3> QED BY <3>1, <3>2
  <2>13. Picker!Div(x, 5) = (x \div 5)
    BY SMT DEF Picker!Div
  <2>14. Picker!DayToGregorian(day) =
             <<Picker!Div(j, 1461) - 100100
               + Picker!Div(8 - (Picker!Mod(Picker!Div(
                                    Picker!Div(Picker!Mod(j, 1461), 4) * 5 + 308, 153), 12) + 1), 6),
               Picker!Mod(Picker!Div(Picker!Div(Picker!Mod(j, 1461), 4) * 5 + 308, 153), 12) + 1,
               Picker!Div(Picker!Mod(Picker!Div(Picker!Mod(j, 1461), 4) * 5 + 308, 153), 5) + 1>>
    BY <2>6, SMT DEF Picker!DayToGregorian
  <2>15. Picker!DayToGregorian(day) =
             <<y + 100100 - 100100 + Picker!Div(8 - (Picker!Mod(k, 12) + 1), 6),
               Picker!Mod(k, 12) + 1, Picker!Div(x, 5) + 1>>
    BY <2>8, <2>9, <2>10, <2>14, SMT
  <2>16. Picker!DayToGregorian(day) =
             <<IF k < 12 THEN y ELSE next, IF k < 12 THEN k + 1 ELSE k - 11, (x \div 5) + 1>>
    BY <2>11, <2>12, <2>13, <2>15, SMT
  <2> QED BY <2>3, <2>16, SMT
<1>7. Picker!DayToGregorian(FirstOfMarch(y) + n) = <<IF m <= 2 THEN next ELSE y, m, e + 1>>
  BY <1>3, <1>4, <1>5, <1>6, SMT
<1>8. 5 * e <= x /\ x < 5 * e + 5 /\ 5 * n + 308 = 153 * k + x
  BY <1>1, <1>2, <1>3, SMT
<1>9. n = MonthOffset(m) + e
  <2>1. CASE k \in 2..5
    BY <1>4, <1>8, <2>1, MonthOffsets, SMT
  <2>2. CASE k \in 6..9
    BY <1>4, <1>8, <2>2, MonthOffsets, SMT
  <2>3. CASE k \in 10..13
    BY <1>4, <1>8, <2>3, MonthOffsets, SMT
  <2> QED BY <2>1, <2>2, <2>3, SMT
<1>10. PICK gy \in {y, next} : gy = IF m <= 2 THEN next ELSE y
  BY SMT
<1>11. e + 1 <= Picker!GregorianMonth(gy, m)
  <2>1. CASE m = 2
    BY <1>8, <1>9, <1>10, <2>1, MonthOffsets, SMT DEF Picker!GregorianMonth, MarchYear
  <2>2. CASE m # 2
    BY <1>4, <1>8, <2>2, SMT DEF Picker!GregorianMonth
  <2> QED BY <2>1, <2>2
<1>12. PICK d \in 1..31 : d = e + 1 /\ e = d - 1
  BY SMT
<1>13. Picker!DayToGregorian(FirstOfMarch(y) + n) = <<gy, m, d>>
  BY <1>7, <1>10, <1>12, Zenon
<1>14. DateOfYear(<<gy, m, d>>, y, next, n)
  BY <1>9, <1>10, <1>11, <1>12, SMT DEF DateOfYear
<1> QED BY <1>13, <1>14, Zenon

\* 1 January 1921, where the reference definition begins to count.
Origin == 2422691

\* g2d agrees with the reference definition, but for where they begin to count.
LEMMA GregorianDaysIs ==
    ASSUME NEW y \in MarchYear, NEW next \in MarchYear, next = y + 1,
           NEW m \in 1..12, NEW d \in Int, NEW gy, gy = IF m <= 2 THEN next ELSE y
    PROVE  /\ Picker!GregorianToDay(gy, m, d) = FirstOfMarch(y) + MonthOffset(m) + (d - 1)
           /\ Picker!GregorianDays(gy, m, d) = Picker!GregorianToDay(gy, m, d) - Origin
<1> DEFINE before == <<0, 31, 59, 90, 120, 151, 181, 212, 243, 273, 304, 334>>
<1>1. Picker!GregorianToDay(gy, m, d) = FirstOfMarch(y) + MonthOffset(m) + (d - 1)
  <2>1. gy = IF m <= 2 THEN y + 1 ELSE y
    OBVIOUS
  <2> QED BY <2>1, DayNumber
<1>2. Picker!GregorianDays(gy, m, d) =
          365 * (gy - 1921) + GregorianLeapYears(gy) + before[m]
          + (IF m > 2 /\ Picker!GregorianLeap(gy) THEN 1 ELSE 0) + d - 1
  BY SameCardinality, SMT DEF Picker!GregorianDays, GregorianLeapYears
<1>3. before[m] = MonthOffset(m) + (IF m <= 2 THEN -306 ELSE 59) /\ MonthOffset(m) \in Int
  BY MonthOffsets, SMT
<1>4. /\ GregorianLeapYears(y) \in Nat
      /\ FirstOfMarch(y) = 2422750 + 365 * (y - 1921) + GregorianLeapYears(y)
                           + (IF Picker!GregorianLeap(y) THEN 1 ELSE 0)
  BY MarchCount, SMT
<1>5. GregorianLeapYears(next) = GregorianLeapYears(y) + (IF Picker!GregorianLeap(y) THEN 1 ELSE 0)
  BY GregorianLeapYearsStep
<1>6. y \in Int
  BY DEF MarchYear
<1> SUFFICES Picker!GregorianDays(gy, m, d) = Picker!GregorianToDay(gy, m, d) - Origin
  BY <1>1, Zenon
<1> HIDE DEF before
<1>7. CASE m <= 2
  <2>1. gy = y + 1 /\ GregorianLeapYears(gy) = GregorianLeapYears(y) + (IF Picker!GregorianLeap(y) THEN 1 ELSE 0)
    BY <1>5, <1>7, SMT
  <2>2. Picker!GregorianDays(gy, m, d) = (FirstOfMarch(y) + MonthOffset(m) + (d - 1)) - Origin
    BY <1>2, <1>3, <1>4, <1>6, <1>7, <2>1, SMT DEF Origin
  <2> QED BY <1>1, <2>2, Zenon
<1>8. CASE ~(m <= 2)
  <2>1. gy = y
    BY <1>8, SMT
  <2>2. Picker!GregorianDays(gy, m, d) = (FirstOfMarch(y) + MonthOffset(m) + (d - 1)) - Origin
    BY <1>2, <1>3, <1>4, <1>6, <1>8, <2>1, SMT DEF Origin
  <2> QED BY <1>1, <2>2, Zenon
<1> QED BY <1>7, <1>8

\* The first day of a year is a day.
LEMMA NowruzType ==
    ASSUME NEW jy \in JalaliYear
    PROVE  Nowruz(jy) \in Int
<1>1. PICK l \in Nat : l = JalaliLeapYears(jy)
  BY NowruzCount, SMT
<1>2. Nowruz(jy) = 2422770 + 365 * (jy - 1300) + l
  BY <1>1, NowruzCount, SMT
<1> QED BY <1>2, SMT DEF JalaliYear

\* j2d agrees with the reference definition: its months of 31 and of 30 days and its
\* leap years.
LEMMA JalaliToDayIs ==
    ASSUME NEW jy \in JalaliYear, NEW jm \in 1..12, NEW jd \in Int
    PROVE  /\ Picker!JalaliToDay(jy, jm, jd) = Nowruz(jy) + (30 * (jm - 1) + Picker!Least(jm - 1, 6) + jd - 1)
           /\ Picker!JalaliDays(jy, jm, jd) + 79 = Picker!JalaliToDay(jy, jm, jd) - Origin
<1>1. PICK first \in Int : first = Nowruz(jy)
  BY NowruzType, Zenon
<1>2. Picker!JalaliToDay(jy, jm, jd) = first + (jm - 1) * 31 - Picker!Div(jm, 7) * (jm - 7) + jd - 1
  BY <1>1, Zenon DEF Picker!JalaliToDay, Nowruz
<1>3. (jm - 1) * 31 - Picker!Div(jm, 7) * (jm - 7) = 30 * (jm - 1) + Picker!Least(jm - 1, 6)
  <2>1. CASE jm < 7
    <3>1. Picker!Div(jm, 7) = 0
      BY <2>1, SMT DEF Picker!Div
    <3> QED BY <2>1, <3>1, SMT DEF Picker!Least
  <2>2. CASE ~(jm < 7)
    <3>1. Picker!Div(jm, 7) = 1
      BY <2>2, SMT DEF Picker!Div
    <3> QED BY <2>2, <3>1, SMT DEF Picker!Least
  <2> QED BY <2>1, <2>2
<1>4. PICK a \in Int : a = 30 * (jm - 1) + Picker!Least(jm - 1, 6)
  BY SMT DEF Picker!Least
<1>5. PICK b \in Int : b = Picker!Div(jm, 7) * (jm - 7)
  BY SMT DEF Picker!Div
<1>6. Picker!JalaliToDay(jy, jm, jd) = first + (a + jd - 1)
  BY <1>2, <1>3, <1>4, <1>5, SMT
<1>7. PICK l \in Nat : l = JalaliLeapYears(jy) /\ first = 2422770 + 365 * (jy - 1300) + l
  BY <1>1, NowruzCount, SMT
<1>8. Picker!JalaliDays(jy, jm, jd) = 365 * (jy - 1300) + l + 30 * (jm - 1) + Picker!Least(jm - 1, 6) + jd - 1
  BY <1>7, SameCardinality, SMT DEF Picker!JalaliDays, JalaliLeapYears
<1>9. Picker!JalaliDays(jy, jm, jd) = 365 * (jy - 1300) + l + a + jd - 1
  BY <1>4, <1>8, SMT DEF JalaliYear, Picker!Least
<1> QED BY <1>1, <1>4, <1>6, <1>7, <1>9, SMT DEF Origin, JalaliYear

\* A date of the Gregorian calendar and its day.
DateOfDay(g, day) ==
    /\ g \in MarchYear \X (1..12) \X (1..31)
    /\ g[3] <= Picker!GregorianMonth(g[1], g[2])
    /\ Picker!GregorianToDay(g[1], g[2], g[3]) = day
    /\ Picker!GregorianDays(g[1], g[2], g[3]) = day - Origin

\* The days of a year that begins in March.
DayOfMarchYear(next, n) == n \in 0..365 /\ (n = 365 => Picker!GregorianLeap(next))

\* d2g of a day of such a year is its Gregorian date.
LEMMA DateInMarchYear ==
    ASSUME NEW y \in MarchYear, NEW next \in MarchYear, next = y + 1,
           NEW n, DayOfMarchYear(next, n),
           NEW day \in Int, day = FirstOfMarch(y) + n
    PROVE  /\ DateOfDay(Picker!DayToGregorian(day), day)
           /\ Picker!DayToGregorian(day)[1] = IF n < 306 THEN y ELSE next
<1>1. DateOfYear(Picker!DayToGregorian(day), y, next, n)
  BY DayToGregorianIs DEF DayOfMarchYear
<1>2. PICK m \in 1..12, d \in 1..31, gy \in {y, next} :
          /\ Picker!DayToGregorian(day) = <<gy, m, d>>
          /\ DateOfYear(<<gy, m, d>>, y, next, n)
  <2> DEFINE g == Picker!DayToGregorian(day)
  <2>1. g \in {y, next} \X (1..12) \X (1..31)
    BY <1>1 DEF DateOfYear
  <2> HIDE DEF g
  <2>2. PICK m \in 1..12, d \in 1..31, gy \in {y, next} : g = <<gy, m, d>>
    BY <2>1, SMT
  <2>3. DateOfYear(<<gy, m, d>>, y, next, n)
    BY <1>1, <2>2 DEF g
  <2> QED BY <2>2, <2>3, Zenon DEF g
<1>3. n = MonthOffset(m) + (d - 1) /\ d <= Picker!GregorianMonth(gy, m) /\ gy = IF m <= 2 THEN next ELSE y
  BY <1>2, SMT DEF DateOfYear
<1>4. d \in Int
  OBVIOUS
<1>5. /\ Picker!GregorianToDay(gy, m, d) = FirstOfMarch(y) + MonthOffset(m) + (d - 1)
      /\ Picker!GregorianDays(gy, m, d) = Picker!GregorianToDay(gy, m, d) - Origin
  BY <1>3, <1>4, GregorianDaysIs
<1>6. MonthOffset(m) \in Int /\ FirstOfMarch(y) \in Int
  BY FirstOfMarchType, MonthOffsets, SMT
<1>7. Picker!GregorianToDay(gy, m, d) = day
  BY <1>3, <1>5, <1>6, SMT
<1>8. gy \in MarchYear
  BY <1>3, Zenon
<1>9. n < 306 <=> ~(m <= 2)
  <2>1. CASE m <= 2
    BY <1>3, <2>1, MonthOffsets, SMT
  <2>2. CASE m \in {3, 4, 5, 6, 7, 8, 9, 10, 11, 12}
    <3>1. MonthOffset(m) <= 275 /\ MonthOffset(m) \in Int
      BY <2>2, MonthOffsets, SMT
    <3>2. ~(m <= 2) /\ (MonthOffset(m) = 275 => m = 12) /\ (m # 12 => MonthOffset(m) <= 245)
      BY <2>2, MonthOffsets, SMT
    <3>3. n < 306
      BY <1>3, <3>1, SMT
    <3> QED BY <3>2, <3>3
  <2> QED BY <2>1, <2>2, SMT
<1> QED BY <1>2, <1>3, <1>5, <1>7, <1>8, <1>9, SMT DEF DateOfDay

\* The place of a day in a year of the Iranian calendar.
DayOfJalaliYear(jy, n) == n \in 0..365 /\ (n = 365 => Picker!JalaliLeap(jy))

\* d2g of a day of a Jalali year is its Gregorian date, and its year is the one the
\* Jalali year begins in or, after 186 days and more, the next.
LEMMA DateInJalaliYear ==
    ASSUME NEW jy \in JalaliYear, NEW next \in JalaliYear, next = jy + 1,
           NEW n, DayOfJalaliYear(jy, n), NEW day \in Int, day = Nowruz(jy) + n
    PROVE  /\ DateOfDay(Picker!DayToGregorian(day), day)
           /\ \/ Picker!DayToGregorian(day)[1] = jy + 621
              \/ Picker!DayToGregorian(day)[1] = next + 621 /\ n >= 186
<1>1. PICK y1 \in MarchYear, y2 \in MarchYear, y3 \in MarchYear :
          y1 = jy + 621 /\ y2 = y1 + 1 /\ y3 = y2 + 1 /\ y2 = next + 621
  BY SMT DEF JalaliYear, MarchYear
<1>2. PICK f1 \in Int, f2 \in Int, f3 \in Int :
          f1 = FirstOfMarch(y1) /\ f2 = FirstOfMarch(y2) /\ f3 = FirstOfMarch(y3)
  BY FirstOfMarchType, Zenon
<1>3. f2 = f1 + 365 + (IF Picker!GregorianLeap(y2) THEN 1 ELSE 0)
  BY <1>1, <1>2, MarchStep
<1>4. f3 = f2 + 365 + (IF Picker!GregorianLeap(y3) THEN 1 ELSE 0)
  BY <1>1, <1>2, MarchStep
<1>5. PICK first \in Int, last \in Int : first = Nowruz(jy) /\ last = Nowruz(next)
  BY NowruzType, Zenon
<1>6. last = first + 365 + (IF Picker!JalaliLeap(jy) THEN 1 ELSE 0)
  BY <1>5, NowruzStep
<1>7. first - f1 \in 19..21 /\ last - f2 \in 19..21
  <2>1. Nowruz(jy) - FirstOfMarch(jy + 621) \in 19..21
    BY NowruzInMarch
  <2>2. Nowruz(next) - FirstOfMarch(next + 621) \in 19..21
    BY NowruzInMarch
  <2>3. jy + 621 = y1 /\ next + 621 = y2
    BY <1>1, Zenon
  <2> QED BY <1>2, <1>5, <2>1, <2>2, <2>3, ZenonT(40)
<1>8. day = first + n /\ n \in 0..365 /\ (n = 365 => Picker!JalaliLeap(jy))
  BY <1>5, Zenon DEF DayOfJalaliYear
<1>9. CASE day < f2
  <2>1. PICK k \in 0..365 : day = f1 + k
    BY <1>3, <1>7, <1>8, <1>9, SMT
  <2>2. DayOfMarchYear(y2, k)
    BY <1>3, <1>9, <2>1, SMT DEF DayOfMarchYear
  <2>3. /\ DateOfDay(Picker!DayToGregorian(day), day)
        /\ Picker!DayToGregorian(day)[1] = IF k < 306 THEN y1 ELSE y2
    BY <1>1, <1>2, <2>1, <2>2, DateInMarchYear, SMT
  <2>4. ~(k < 306) => n >= 186
    BY <1>7, <1>8, <2>1, SMT
  <2> QED BY <1>1, <2>3, <2>4, SMT
<1>10. CASE ~(day < f2)
  <2>1. PICK k \in 0..365 : day = f2 + k /\ k < 306
    BY <1>6, <1>7, <1>8, <1>10, SMT
  <2>2. DayOfMarchYear(y3, k)
    BY <2>1, SMT DEF DayOfMarchYear
  <2>3. /\ DateOfDay(Picker!DayToGregorian(day), day)
        /\ Picker!DayToGregorian(day)[1] = IF k < 306 THEN y2 ELSE y3
    BY <1>1, <1>2, <2>1, <2>2, DateInMarchYear, SMT
  <2>4. n >= 186
    BY <1>3, <1>7, <1>8, <1>10, SMT
  <2> QED BY <1>1, <2>1, <2>3, <2>4, SMT
<1> QED BY <1>9, <1>10

\* A date of the Iranian calendar by its day of the year.
JalaliOf(jy, n) ==
    IF n < 186 THEN <<jy, 1 + (n \div 31), (n % 31) + 1>>
    ELSE <<jy, 7 + ((n - 186) \div 30), ((n - 186) % 30) + 1>>

\* d2j finds the month and the day, whichever of the two Gregorian years it comes from:
\* from the later one it takes the remaining days of the year before, and one more if
\* that was a leap year.
LEMMA DayToJalaliIs ==
    ASSUME NEW jy \in JalaliYear, NEW next \in JalaliYear, next = jy + 1,
           NEW n, DayOfJalaliYear(jy, n), NEW day \in Int, day = Nowruz(jy) + n
    PROVE  Picker!DayToJalali(day) = JalaliOf(jy, n)
<1>1. n \in 0..365 /\ (n = 365 => Picker!JalaliLeap(jy))
  BY Zenon DEF DayOfJalaliYear
<1> DEFINE Answer(y, leap, k) ==
        LET rest == CASE k >= 0 -> k - 186
                      [] k < 0 /\ leap = 1 -> k + 180
                      [] OTHER -> k + 179
        IN  IF 0 <= k /\ k <= 185 THEN <<y, 1 + Picker!Div(k, 31), Picker!Mod(k, 31) + 1>>
            ELSE <<IF k < 0 THEN y - 1 ELSE y, 7 + Picker!Div(rest, 30), Picker!Mod(rest, 30) + 1>>
<1>2. Picker!DayToJalali(day) =
          Answer(Picker!DayToGregorian(day)[1] - 621, Picker!JalCal(Picker!DayToGregorian(day)[1] - 621).leap,
                 day - Nowruz(Picker!DayToGregorian(day)[1] - 621))
  BY Zenon DEF Picker!DayToJalali, Nowruz
<1>3. PICK first \in Int, last \in Int : first = Nowruz(jy) /\ last = Nowruz(next)
  BY NowruzType, Zenon
<1>4. last = first + 365 + (IF Picker!JalaliLeap(jy) THEN 1 ELSE 0)
  BY <1>3, NowruzStep
<1>5. PICK y : y = Picker!DayToGregorian(day)[1] - 621
  BY Zenon
<1>6. y = jy \/ (y = next /\ n >= 186)
  <2>1. \/ Picker!DayToGregorian(day)[1] = jy + 621
        \/ Picker!DayToGregorian(day)[1] = next + 621 /\ n >= 186
    BY DateInJalaliYear
  <2> QED BY <1>5, <2>1, SMT DEF JalaliYear
<1> HIDE DEF Answer
<1>7. Picker!DayToJalali(day) = Answer(y, Picker!JalCal(y).leap, day - Nowruz(y))
  BY <1>2, <1>5, SMT
<1>8. CASE y = jy
  <2>1. day - Nowruz(y) = n
    BY <1>1, <1>3, <1>8, SMT
  <2>2. Answer(jy, Picker!JalCal(jy).leap, n) = JalaliOf(jy, n)
    BY <1>1, SMT DEF Answer, JalaliOf, Picker!Div, Picker!Mod, JalaliYear
  <2> QED BY <1>7, <1>8, <2>1, <2>2, Zenon
<1>9. CASE y = next /\ n >= 186
  <2>1. PICK k \in Int : k = day - last
    OBVIOUS
  <2>2. k < 0 /\ k = n - 365 - (IF Picker!JalaliLeap(jy) THEN 1 ELSE 0)
    BY <1>1, <1>3, <1>4, <2>1, SMT
  <2>3. Picker!JalCal(next).leap = 1 <=> Picker!JalaliLeap(jy)
    <3>1. jy = next - 1
      BY SMT DEF JalaliYear
    <3> QED BY <3>1, LeapOf
  <2>4. Answer(next, Picker!JalCal(next).leap, k) = JalaliOf(jy, n)
    <3>1. next - 1 = jy
      BY SMT DEF JalaliYear
    <3>2. Answer(next, Picker!JalCal(next).leap, k)
              = <<next - 1, 7 + Picker!Div(n - 186, 30), Picker!Mod(n - 186, 30) + 1>>
      <4>1. CASE Picker!JalaliLeap(jy)
        <5>1. k + 180 = n - 186
          BY <1>1, <2>2, <4>1, SMT
        <5> QED BY <2>2, <2>3, <4>1, <5>1, SMT DEF Answer
      <4>2. CASE ~Picker!JalaliLeap(jy)
        <5>1. k + 179 = n - 186
          BY <1>1, <2>2, <4>2, SMT
        <5> QED BY <2>2, <2>3, <4>2, <5>1, SMT DEF Answer
      <4> QED BY <4>1, <4>2
    <3> QED BY <1>1, <1>9, <3>1, <3>2, SMT DEF JalaliOf, Picker!Div, Picker!Mod
  <2> QED BY <1>3, <1>7, <1>9, <2>1, <2>4, Zenon
<1> QED BY <1>6, <1>8, <1>9

\* A date of the Iranian calendar in the years that are chosen from.
JalaliDate(jy, jm, jd) ==
    jy \in 1300..1500 /\ jm \in 1..12 /\ jd \in 1..31 /\ jd <= Picker!JalaliMonth(jy, jm)

\* getJalaliMonthLength is the length of the month by the rule.
LEMMA MonthLength ==
    ASSUME NEW jy \in JalaliYear, NEW jm \in 1..12
    PROVE  Picker!GetJalaliMonthLength(jy, jm) = Picker!JalaliMonth(jy, jm)
<1>1. Picker!JalCal(jy).leap = 0 <=> Picker!JalaliLeap(jy)
  <2>1. PICK before : before = jy - 1
    OBVIOUS
  <2> QED BY <2>1, LeapOf
<1> QED BY <1>1, SMT DEF Picker!GetJalaliMonthLength, Picker!JalaliMonth

\* The days from the first of Farvardin to a day.
JalaliDayOfYear(jm, jd) == 30 * (jm - 1) + Picker!Least(jm - 1, 6) + jd - 1

\* The day of the year of a date is of that year and has that date.
LEMMA DayOfJalaliDate ==
    ASSUME NEW jy, NEW jm, NEW jd, JalaliDate(jy, jm, jd), NEW n \in Int, n = JalaliDayOfYear(jm, jd)
    PROVE  DayOfJalaliYear(jy, n) /\ JalaliOf(jy, n) = <<jy, jm, jd>>
<1>1. jy \in 1300..1500 /\ jm \in 1..12 /\ jd \in 1..31 /\ jd <= Picker!JalaliMonth(jy, jm)
  BY Zenon DEF JalaliDate
<1>2. CASE jm <= 6
  <2>1. n = 31 * (jm - 1) + (jd - 1) /\ n \in 0..185
    BY <1>1, <1>2, SMT DEF JalaliDayOfYear, Picker!Least
  <2>2. PICK a \in Int, b \in Int : a = (n \div 31) /\ b = n % 31
    BY <1>1, <2>1, SMT
  <2>3. JalaliOf(jy, n) = <<jy, 1 + a, b + 1>>
    <3>1. n < 186
      BY <1>1, <2>1, SMT
    <3>2. JalaliOf(jy, n) = <<jy, 1 + (n \div 31), (n % 31) + 1>>
      BY <1>1, <3>1, SMT DEF JalaliOf
    <3> QED BY <2>2, <3>2, SMT
  <2>4. 1 + a = jm /\ b + 1 = jd
    BY <1>1, <2>1, <2>2, SMT
  <2>5. DayOfJalaliYear(jy, n)
    BY <1>1, <2>1, SMT DEF DayOfJalaliYear
  <2> QED BY <2>3, <2>4, <2>5, SMT
<1>3. CASE ~(jm <= 6)
  <2>1. PICK k \in Int : k = n - 186 /\ k = 30 * (jm - 7) + (jd - 1)
    BY <1>1, <1>3, SMT DEF JalaliDayOfYear, Picker!Least
  <2>2. jd <= 30 /\ (jm = 12 /\ jd = 30 => Picker!JalaliLeap(jy))
    BY <1>1, <1>3, SMT DEF Picker!JalaliMonth
  <2>3. PICK a \in Int, b \in Int : a = (k \div 30) /\ b = k % 30 /\ 7 + a = jm /\ b + 1 = jd
    <3>1. PICK a \in Int, b \in 0..29 : a = (k \div 30) /\ b = k % 30 /\ k = 30 * a + b
      BY SMT
    <3>2. jm - 7 \in Int /\ jd - 1 \in 0..29 /\ k = 30 * (jm - 7) + (jd - 1)
      BY <1>1, <2>1, <2>2, SMT
    <3>3. a = jm - 7 /\ b = jd - 1
      BY <3>1, <3>2, SMT
    <3> QED BY <1>1, <3>1, <3>3, SMT
  <2>4. n \in 186..365 /\ (n = 365 => jm = 12 /\ jd = 30)
    BY <1>1, <1>3, <2>1, <2>2, SMT DEF JalaliDayOfYear, Picker!Least
  <2>5. JalaliOf(jy, n) = <<jy, 7 + a, b + 1>>
    <3>1. ~(n < 186)
      BY <1>1, <2>4, SMT
    <3>2. JalaliOf(jy, n) = <<jy, 7 + ((n - 186) \div 30), ((n - 186) % 30) + 1>>
      BY <1>1, <3>1, SMT DEF JalaliOf
    <3> QED BY <2>1, <2>3, <3>2, SMT
  <2>6. DayOfJalaliYear(jy, n)
    BY <1>1, <2>2, <2>4, SMT DEF DayOfJalaliYear
  <2> QED BY <2>3, <2>5, <2>6, SMT
<1> QED BY <1>2, <1>3

\* Every day of a year has a date the calendar knows.
LEMMA JalaliDateOfDay ==
    ASSUME NEW jy \in 1300..1500, NEW n, DayOfJalaliYear(jy, n), NEW j, j = JalaliOf(jy, n)
    PROVE  JalaliDate(j[1], j[2], j[3])
<1>1. n \in 0..365 /\ (n = 365 => Picker!JalaliLeap(jy))
  BY SMT DEF DayOfJalaliYear
<1>2. CASE n < 186
  <2>1. PICK a \in 0..5, b \in 0..30 : a = (n \div 31) /\ b = n % 31
    BY <1>1, <1>2, SMT
  <2>2. j = <<jy, 1 + a, b + 1>>
    BY <1>2, <2>1, SMT DEF JalaliOf
  <2>3. JalaliDate(jy, 1 + a, b + 1)
    BY SMT DEF JalaliDate, Picker!JalaliMonth
  <2> QED BY <2>2, <2>3
<1>3. CASE ~(n < 186)
  <2>1. PICK k \in 0..179 : k = n - 186
    BY <1>1, <1>3, SMT
  <2>2. PICK a \in 0..5, b \in 0..29 : a = (k \div 30) /\ b = k % 30 /\ k = 30 * a + b
    BY <2>1, SMT
  <2>3. j = <<jy, 7 + a, b + 1>>
    BY <1>1, <1>3, <2>1, <2>2, SMT DEF JalaliOf
  <2>4. a = 5 /\ b = 29 => Picker!JalaliLeap(jy)
    BY <1>1, <2>1, <2>2, SMT
  <2>5. b + 1 <= Picker!JalaliMonth(jy, 7 + a)
    BY <2>4, SMT DEF Picker!JalaliMonth
  <2>6. JalaliDate(jy, 7 + a, b + 1)
    BY <2>5, SMT DEF JalaliDate
  <2> QED BY <2>3, <2>6
<1> QED BY <1>2, <1>3

\* A date of the Gregorian calendar.
GregorianDate(g) == g \in (1921..2122) \X (1..12) \X (1..31) /\ g[3] <= Picker!GregorianMonth(g[1], g[2])

\* Every date of the Jalali calendar from 1300 to 1500 survives the way into the form and
\* back (jalaliToGregorian, gregorianToJalali of lib/jalali.ts): it becomes a date of the
\* Gregorian calendar, the same day by the rules of both calendars, and comes back as it was.
THEOREM RoundTrip ==
    ASSUME NEW jy, NEW jm, NEW jd, JalaliDate(jy, jm, jd), NEW g, g = Picker!JalaliToGregorian(jy, jm, jd)
    PROVE  /\ GregorianDate(g)
           /\ Picker!GregorianToJalali(g) = <<jy, jm, jd>>
           /\ Picker!GregorianDays(g[1], g[2], g[3]) = Picker!JalaliDays(jy, jm, jd) + 79
<1>1. /\ jy \in 1300..1500 /\ jm \in 1..12 /\ jd \in 1..31 /\ jd <= Picker!JalaliMonth(jy, jm)
      /\ jy \in JalaliYear /\ jd \in Int
  BY SMT DEF JalaliDate, JalaliYear
<1>2. PICK next \in JalaliYear : next = jy + 1
  BY <1>1, SMT DEF JalaliYear
<1>3. PICK n \in Int : n = JalaliDayOfYear(jm, jd)
  BY <1>1, SMT DEF JalaliDayOfYear, Picker!Least
<1>4. DayOfJalaliYear(jy, n) /\ JalaliOf(jy, n) = <<jy, jm, jd>>
  BY <1>3, DayOfJalaliDate
<1>5. PICK day \in Int : day = Nowruz(jy) + n
  BY <1>1, NowruzType, SMT
<1>6. Picker!JalaliToDay(jy, jm, jd) = day /\ Picker!JalaliDays(jy, jm, jd) + 79 = day - Origin
  <2>1. /\ Picker!JalaliToDay(jy, jm, jd) = Nowruz(jy) + (30 * (jm - 1) + Picker!Least(jm - 1, 6) + jd - 1)
        /\ Picker!JalaliDays(jy, jm, jd) + 79 = Picker!JalaliToDay(jy, jm, jd) - Origin
    BY <1>1, JalaliToDayIs
  <2> QED BY <1>3, <1>5, <2>1, SMT DEF JalaliDayOfYear
<1>7. g = Picker!DayToGregorian(day)
  BY <1>6, Zenon DEF Picker!JalaliToGregorian
<1>8. /\ DateOfDay(g, day)
      /\ g[1] = jy + 621 \/ (g[1] = next + 621 /\ n >= 186)
  BY <1>1, <1>2, <1>4, <1>5, <1>7, DateInJalaliYear, SMT
<1>9. Picker!GregorianToDay(g[1], g[2], g[3]) = day /\ Picker!GregorianDays(g[1], g[2], g[3]) = day - Origin
  BY <1>8, Zenon DEF DateOfDay
<1>10. GregorianDate(g)
  <2>1. g \in MarchYear \X (1..12) \X (1..31) /\ g[3] <= Picker!GregorianMonth(g[1], g[2])
    BY <1>8, Zenon DEF DateOfDay
  <2>2. g[1] \in 1921..2122
    BY <1>1, <1>2, <1>8, SMT DEF JalaliYear
  <2> QED BY <2>1, <2>2, SMT DEF GregorianDate
<1>11. Picker!DayToJalali(day) = <<jy, jm, jd>>
  <2>1. Picker!DayToJalali(day) = JalaliOf(jy, n)
    BY <1>1, <1>2, <1>4, <1>5, DayToJalaliIs
  <2> QED BY <1>4, <2>1, Zenon
<1>12. Picker!GregorianToJalali(g) = <<jy, jm, jd>>
  BY <1>9, <1>11, Zenon DEF Picker!GregorianToJalali
<1>13. Picker!GregorianDays(g[1], g[2], g[3]) = Picker!JalaliDays(jy, jm, jd) + 79
  BY <1>6, <1>9, Zenon
<1> QED BY <1>10, <1>12, <1>13

-----------------------------------------------------------------------------
(* The field.                                                              *)

\* What getCurrentJalaliDate starts from.
TodayYear == 1922..2121
MonthOfYear == 1..12
DayOfMonth == 1..31

ShownAs(j, gy, m, d) == j = Picker!DayToJalali(Picker!GregorianToDay(gy, m, d))

\* Today has a Jalali date too, also in the months before Nowruz.
LEMMA TodayIsJalali ==
    ASSUME NEW gy \in TodayYear, NEW m \in MonthOfYear, NEW d \in DayOfMonth,
           NEW j, ShownAs(j, gy, m, d)
    PROVE  JalaliDate(j[1], j[2], j[3])
<1> USE DEF TodayYear, MonthOfYear, DayOfMonth
<1>2. PICK y \in MarchYear, next \in MarchYear :
          next = y + 1 /\ gy = (IF m <= 2 THEN next ELSE y) /\ y <= 2121
  <2>1. CASE m <= 2
    <3>1. gy - 1 \in MarchYear /\ gy \in MarchYear /\ gy = gy - 1 + 1 /\ gy - 1 <= 2121
      BY SMT DEF MarchYear
    <3> QED BY <2>1, <3>1
  <2>2. CASE ~(m <= 2)
    <3>1. gy + 1 \in MarchYear /\ gy \in MarchYear /\ gy <= 2121
      BY SMT DEF MarchYear
    <3> QED BY <2>2, <3>1
  <2> QED BY <2>1, <2>2
<1>3. PICK day \in Int : day = Picker!GregorianToDay(gy, m, d) /\ day = FirstOfMarch(y) + MonthOffset(m) + (d - 1)
  <2>1. d \in Int
    OBVIOUS
  <2>2. Picker!GregorianToDay(gy, m, d) = FirstOfMarch(y) + MonthOffset(m) + (d - 1)
    BY <1>2, <2>1, GregorianDaysIs, SMT
  <2>3. FirstOfMarch(y) \in Int /\ MonthOffset(m) \in Int
    BY FirstOfMarchType, MonthOffsets, SMT
  <2> QED BY <2>2, <2>3, SMT
<1>4. PICK f \in Int : f = FirstOfMarch(y)
  BY FirstOfMarchType
<1>5. PICK k \in 0..367 : k = day - f /\ (m <= 2 => k >= 306)
  <2>1. PICK o \in 0..337 : o = MonthOffset(m) /\ (m <= 2 => o >= 306)
    BY MonthOffsets, SMT
  <2>2. PICK e \in 0..30 : e = d - 1
    BY SMT
  <2>3. o + e = day - f
    BY <1>3, <1>4, <2>1, <2>2, SMT
  <2>4. o + e \in 0..367
    BY SMT
  <2>5. o >= 306 => o + e >= 306
    BY SMT
  <2> QED BY <2>1, <2>3, <2>4, <2>5
<1>6. PICK jy \in JalaliYear, after \in JalaliYear : y = jy + 621 /\ after = jy + 1
  <2>1. y - 621 \in JalaliYear /\ y - 620 \in JalaliYear /\ y = y - 621 + 621 /\ y - 620 = y - 621 + 1
    BY <1>2, SMT DEF JalaliYear, MarchYear
  <2> QED BY <2>1
<1>7. PICK first \in Int : first = Nowruz(jy) /\ first - f \in 19..21
  <2>1. Nowruz(jy) - FirstOfMarch(jy + 621) \in 19..21
    BY NowruzInMarch
  <2>2. Nowruz(jy) \in Int
    BY NowruzType
  <2> QED BY <1>4, <1>5, <1>6, <2>1, <2>2, SMT
<1>8. j = Picker!DayToJalali(day)
  BY <1>3 DEF ShownAs
<1>9. CASE first <= day
  <2>1. PICK n \in Int : n = day - first /\ n \in 0..348
    BY <1>4, <1>5, <1>7, <1>9, SMT
  <2>2. DayOfJalaliYear(jy, n) /\ day = Nowruz(jy) + n
    BY <1>7, <2>1, SMT DEF DayOfJalaliYear
  <2>3. Picker!DayToJalali(day) = JalaliOf(jy, n)
    BY <1>6, <2>2, DayToJalaliIs
  <2>4. jy \in 1300..1500
    BY <1>6, SMT DEF JalaliYear
  <2> QED BY <1>8, <2>2, <2>3, <2>4, JalaliDateOfDay
<1>10. CASE ~(first <= day)
  <2>1. ~(m <= 2) /\ gy = y
    BY <1>2, <1>4, <1>5, <1>7, <1>10, SMT
  <2>2. PICK before \in JalaliYear : jy = before + 1 /\ before \in 1300..1500
    <3>1. jy - 1 \in JalaliYear /\ jy = jy - 1 + 1 /\ jy - 1 \in 1300..1500
      BY <1>6, <2>1, SMT DEF JalaliYear
    <3> QED BY <3>1
  <2>3. PICK start \in Int : start = Nowruz(before)
    BY NowruzType
  <2>4. Nowruz(jy) = Nowruz(before) + 365 + (IF Picker!JalaliLeap(before) THEN 1 ELSE 0)
    BY <2>2, NowruzStep
  <2>5. first = start + 365 + (IF Picker!JalaliLeap(before) THEN 1 ELSE 0)
    BY <1>7, <2>3, <2>4, SMT
  <2>6. PICK n \in Int : n = day - start
    OBVIOUS
  <2>7. DayOfJalaliYear(before, n) /\ day = Nowruz(before) + n
    BY <1>4, <1>5, <1>7, <1>10, <2>3, <2>5, <2>6, SMT DEF DayOfJalaliYear
  <2>8. Picker!DayToJalali(day) = JalaliOf(before, n)
    BY <2>2, <2>7, DayToJalaliIs
  <2> QED BY <1>8, <2>2, <2>7, <2>8, JalaliDateOfDay, SMTT(40)
<1> QED BY <1>9, <1>10

\* The dates that are asked for, the day of one cut to the month's length, and the
\* Gregorian date the field then holds.
Asked == (1300..1500) \X (1..12) \X (1..31)
Cut(c) == Picker!Least(c[3], Picker!JalaliMonth(c[1], c[2]))
Held(c) == Picker!JalaliToGregorian(c[1], c[2], Cut(c))

\* The inductive invariant: the field is empty, or holds the date that was asked for with
\* its day cut to the month's length.
PickerInv ==
    \/ value = None /\ chosen = None
    \/ chosen \in Asked /\ value = Held(chosen)

\* Such a date is shown as it was asked for.
LEMMA ShownIsAsked ==
    ASSUME NEW c \in Asked
    PROVE  /\ JalaliDate(c[1], c[2], Cut(c))
           /\ GregorianDate(Held(c))
           /\ Picker!GregorianToJalali(Held(c)) = <<c[1], c[2], Cut(c)>>
           /\ Picker!GregorianDays(Held(c)[1], Held(c)[2], Held(c)[3]) = Picker!JalaliDays(c[1], c[2], Cut(c)) + 79
<1>1. JalaliDate(c[1], c[2], Cut(c))
  <2>1. c[1] \in 1300..1500 /\ c[2] \in 1..12 /\ c[3] \in 1..31
    BY SMT DEF Asked
  <2>2. Picker!JalaliMonth(c[1], c[2]) \in 29..31
    BY SMT DEF Picker!JalaliMonth
  <2>3. Cut(c) \in 1..31 /\ Cut(c) <= Picker!JalaliMonth(c[1], c[2])
    BY <2>1, <2>2, SMT DEF Cut, Picker!Least
  <2> QED BY <2>1, <2>3, SMT DEF JalaliDate
<1>2. PICK jy, jm, jd : jy = c[1] /\ jm = c[2] /\ jd = Cut(c)
  BY Zenon
<1>3. PICK g : g = Held(c)
  BY Zenon
<1>4. g = Picker!JalaliToGregorian(jy, jm, jd) /\ JalaliDate(jy, jm, jd)
  BY <1>1, <1>2, <1>3, Zenon DEF Held
<1>5. /\ GregorianDate(g)
      /\ Picker!GregorianToJalali(g) = <<jy, jm, jd>>
      /\ Picker!GregorianDays(g[1], g[2], g[3]) = Picker!JalaliDays(jy, jm, jd) + 79
  BY <1>4, RoundTrip
<1> QED BY <1>1, <1>2, <1>3, <1>5, Zenon

\* What the field starts a choice from, today or its own date, is a Jalali date.
LEMMA SelectedIsJalali ==
    ASSUME PickerInv
    PROVE  JalaliDate(Picker!Selected[1], Picker!Selected[2], Picker!Selected[3])
<1>1. CASE value = None
  <2>1. Picker!Selected = Picker!GregorianToJalali(Today)
    BY <1>1, Zenon DEF Picker!Selected
  <2>2. Today[1] \in TodayYear /\ Today[2] \in MonthOfYear /\ Today[3] \in DayOfMonth
    BY PickerAssumption DEF TodayYear, MonthOfYear, DayOfMonth
  <2>3. PICK y \in TodayYear, m \in MonthOfYear, d \in DayOfMonth : y = Today[1] /\ m = Today[2] /\ d = Today[3]
    BY <2>2, Zenon
  <2>4. PICK j : j = Picker!DayToJalali(Picker!GregorianToDay(y, m, d))
    BY Zenon
  <2>5. JalaliDate(j[1], j[2], j[3])
    BY <2>4, TodayIsJalali, Zenon DEF ShownAs
  <2>6. Picker!Selected = j
    BY <2>1, <2>3, <2>4, Zenon DEF Picker!GregorianToJalali
  <2> QED BY <2>5, <2>6, Zenon
<1>2. CASE value # None
  <2>1. chosen \in Asked /\ value = Held(chosen)
    BY <1>2, Zenon DEF PickerInv
  <2>2. JalaliDate(chosen[1], chosen[2], Cut(chosen))
        /\ Picker!GregorianToJalali(value) = <<chosen[1], chosen[2], Cut(chosen)>>
    BY <2>1, ShownIsAsked, Zenon
  <2>3. Picker!Selected = <<chosen[1], chosen[2], Cut(chosen)>>
    BY <1>2, <2>2, Zenon DEF Picker!Selected
  <2>4. Picker!Selected[1] = chosen[1] /\ Picker!Selected[2] = chosen[2] /\ Picker!Selected[3] = Cut(chosen)
    BY <2>3
  <2> QED BY <2>2, <2>4, Zenon
<1> QED BY <1>1, <1>2

\* A choice keeps the invariant.
LEMMA UpdateKeepsInv ==
    ASSUME NEW jy, NEW jm, NEW jd, <<jy, jm, jd>> \in Asked, Picker!Update(jy, jm, jd)
    PROVE  PickerInv'
<1>1. jy \in 1300..1500 /\ jm \in 1..12 /\ jd \in 1..31
  BY SMT DEF Asked
<1>2. Picker!GetJalaliMonthLength(jy, jm) = Picker!JalaliMonth(jy, jm)
  <2>1. jy \in JalaliYear
    BY <1>1, SMT DEF JalaliYear
  <2> QED BY <1>1, <2>1, MonthLength
<1>3. PICK cut : cut = Picker!Least(jd, Picker!JalaliMonth(jy, jm))
  BY Zenon
<1>4. value' = Picker!JalaliToGregorian(jy, jm, cut) /\ chosen' = <<jy, jm, jd>>
  <2> DEFINE date == <<jy, jm, Picker!Least(jd, Picker!GetJalaliMonthLength(jy, jm))>>
  <2>1. value' = Picker!JalaliToGregorian(date[1], date[2], date[3]) /\ chosen' = <<jy, jm, jd>>
    BY Zenon DEF Picker!Update
  <2>2. date[1] = jy /\ date[2] = jm /\ date[3] = cut
    BY <1>2, <1>3
  <2> QED BY <2>1, <2>2, Zenon
<1>5. chosen'[1] = jy /\ chosen'[2] = jm /\ chosen'[3] = jd
  BY <1>4
<1>6. Cut(chosen') = cut
  BY <1>3, <1>5, Zenon DEF Cut
<1>7. value' = Held(chosen')
  BY <1>4, <1>5, <1>6, Zenon DEF Held
<1>8. chosen' \in Asked
  BY <1>4, Zenon
<1> QED BY <1>7, <1>8, SMT DEF PickerInv, Asked, Held, Cut

\* Every step keeps the invariant.
LEMMA PickerStep ==
    ASSUME PickerInv, [Picker!Next]_(Picker!vars)
    PROVE  PickerInv'
<1>1. Picker!Selected[1] \in 1300..1500 /\ Picker!Selected[2] \in 1..12 /\ Picker!Selected[3] \in 1..31
  BY SelectedIsJalali, SMT DEF JalaliDate
<1>2. CASE \E jy \in Years : Picker!ChooseYear(jy)
  <2>1. PICK jy \in Years : Picker!ChooseYear(jy)
    BY <1>2
  <2>2. <<jy, Picker!Selected[2], Picker!Selected[3]>> \in Asked
    BY <1>1, PickerAssumption DEF Asked
  <2> QED BY <2>1, <2>2, UpdateKeepsInv, Zenon DEF Picker!ChooseYear
<1>3. CASE \E jm \in 1..12 : Picker!ChooseMonth(jm)
  <2>1. PICK jm \in 1..12 : Picker!ChooseMonth(jm)
    BY <1>3
  <2>2. <<Picker!Selected[1], jm, Picker!Selected[3]>> \in Asked
    BY <1>1 DEF Asked
  <2> QED BY <2>1, <2>2, UpdateKeepsInv, Zenon DEF Picker!ChooseMonth
<1>4. CASE \E jd \in 1..31 : Picker!ChooseDay(jd)
  <2>1. PICK jd \in 1..31 : Picker!ChooseDay(jd)
    BY <1>4
  <2>2. <<Picker!Selected[1], Picker!Selected[2], jd>> \in Asked
    BY <1>1 DEF Asked
  <2> QED BY <2>1, <2>2, UpdateKeepsInv, Zenon DEF Picker!ChooseDay
<1>5. CASE UNCHANGED Picker!vars
  <2>1. value' = value /\ chosen' = chosen
    BY <1>5, Zenon DEF Picker!vars
  <2> QED BY <2>1, SMT DEF PickerInv, Asked, Held, Cut
<1>6. Picker!Next \/ UNCHANGED Picker!vars
  OBVIOUS
<1> QED BY <1>2, <1>3, <1>4, <1>5, <1>6, Zenon DEF Picker!Next

\* The invariant is what the field promises.
LEMMA PickerInvShows ==
    ASSUME PickerInv
    PROVE  Picker!TypeOK /\ Picker!PickerShowsPick
<1>1. CASE value = None /\ chosen = None
  BY <1>1, Zenon DEF Picker!TypeOK, Picker!PickerShowsPick
<1>2. CASE chosen \in Asked /\ value = Held(chosen)
  <2>1. PICK c \in Asked : c = chosen
    BY <1>2, Zenon
  <2>2. /\ GregorianDate(value)
        /\ Picker!GregorianToJalali(value) = <<c[1], c[2], Cut(c)>>
        /\ Picker!GregorianDays(value[1], value[2], value[3]) = Picker!JalaliDays(c[1], c[2], Cut(c)) + 79
    BY <1>2, <2>1, ShownIsAsked, Zenon
  <2>3. value # None
    <3>1. value \in Int \X Int \X Int
      BY <2>2, SMT DEF GregorianDate
    <3>2. None \notin Int \X Int \X Int
      BY PickerAssumption, SMT
    <3> QED BY <3>1, <3>2, Zenon
  <2>4. Picker!Selected = <<c[1], c[2], Cut(c)>>
    BY <2>2, <2>3, Zenon DEF Picker!Selected
  <2>5. Picker!TypeOK
    <3>1. chosen \in (1300..1500) \X (1..12) \X (1..31)
      BY <1>2, SMT DEF Asked
    <3>2. value \in (1921..2122) \X (1..12) \X (1..31) /\ value[3] <= Picker!GregorianMonth(value[1], value[2])
      BY <2>2, SMT DEF GregorianDate
    <3> QED BY <3>1, <3>2, SMT DEF Picker!TypeOK
  <2>6. Picker!Selected[1] = c[1] /\ Picker!Selected[2] = c[2] /\ Picker!Selected[3] = Cut(c)
    BY <2>4
  <2>7. Picker!PickerShowsPick
    BY <2>1, <2>2, <2>4, <2>6, Zenon DEF Picker!PickerShowsPick, Cut
  <2> QED BY <2>5, <2>7
<1> QED BY <1>1, <1>2, Zenon DEF PickerInv

\* The field holds a Gregorian date and shows the year, the month and the day that were
\* asked for, after any sequence of choices of any years from 1300 to 1500, on any day
\* (DatePicker.TypeOK, DatePicker.PickerShowsPick).
THEOREM PickerCorrect == Picker!Spec => [](Picker!TypeOK /\ Picker!PickerShowsPick)
<1>1. Picker!Init => PickerInv
  BY DEF Picker!Init, PickerInv
<1>2. PickerInv /\ [Picker!Next]_(Picker!vars) => PickerInv'
  BY PickerStep
<1>3. PickerInv => Picker!TypeOK /\ Picker!PickerShowsPick
  BY PickerInvShows
<1> QED BY <1>1, <1>2, <1>3, PTL DEF Picker!Spec

\* In the system PlatformMC composes, the date field shows and holds what was picked.
COROLLARY PickerShowsPickHolds == PlatformSpec => []PickerShowsPick
<1>1. PlatformInit /\ focus = "picker" => Picker!Init
  BY DEF PlatformInit
<1>2. (focus # "picker" => PickerShowsPick) /\ (Picker!PickerShowsPick => PickerShowsPick)
  BY DEF PickerShowsPick
<1>3. focus # "picker" /\ [PlatformNext]_platformVars => (focus # "picker")'
  BY PlatformStep
<1>4. focus = "picker" /\ [PlatformNext]_platformVars
          => (focus = "picker")' /\ [Picker!Next]_(Picker!vars)
  BY PlatformStep
<1>5. focus = "picker" \/ focus # "picker"
  OBVIOUS
<1> QED BY <1>1, <1>2, <1>3, <1>4, <1>5, PickerCorrect, PTL DEF PlatformSpec, Picker!Spec
=============================================================================
