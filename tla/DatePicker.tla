----------------------------- MODULE DatePicker -----------------------------
(***************************************************************************)
(* The Jalali date field of the portal's forms (PersianDateInput.tsx) with *)
(* the conversions it rests on (lib/jalali.ts).  The field keeps a         *)
(* Gregorian date and shows it in the Jalali calendar: every choice of a   *)
(* year, a month or a day goes from Gregorian to Jalali, is cut to the     *)
(* length of the month, and goes back.                                     *)
(*                                                                         *)
(* Dates are triples <<year, month, day>>; the field's text, its popup and *)
(* the field for the time of day are left out.                             *)
(***************************************************************************)
EXTENDS Integers, Sequences, FiniteSets

CONSTANTS
    Years,   \* the Jalali years that are chosen, of those the list offers
    Today,   \* the Gregorian date of the day, in UTC
    Empty    \* no date

VARIABLES
    value,   \* the field's Gregorian date
    chosen   \* history: the Jalali date that was asked for

vars == <<value, chosen>>

-----------------------------------------------------------------------------
(* lib/jalali.ts.                                                          *)

\* Division and remainder truncate toward zero.
Div(a, b) == IF a >= 0 THEN a \div b ELSE -((-a) \div b)
Mod(a, b) == a - Div(a, b) * b

Breaks == <<-61, 9, 38, 199, 426, 686, 756, 818, 1111, 1181, 1210, 1635,
            2060, 2097, 2192, 2262, 2324, 2394, 2456, 3178>>

\* Leap years of the cycles of 33 years in this many years.
LeapYearsIn(years, rest) == Div(years, 33) * 8 + Div(Mod(years, 33) + rest, 4)

\* leapJ of jalCal at a break: the leap years before it.
LeapJ[k \in 1..Len(Breaks)] ==
    IF k = 1 THEN -14 ELSE LeapJ[k - 1] + LeapYearsIn(Breaks[k] - Breaks[k - 1], 0)

\* The first break after a year.
BreakAfter(jy) == CHOOSE k \in 2..Len(Breaks) : Breaks[k - 1] <= jy /\ jy < Breaks[k]

\* jalCal: the place of a year in its cycle and the day of March it begins on.
JalCal(jy) ==
    LET i == BreakAfter(jy)
        jump == Breaks[i] - Breaks[i - 1]
        n == jy - Breaks[i - 1]
        gy == jy + 621
        leapJ == LeapJ[i - 1] + LeapYearsIn(n, 3)
                 + (IF Mod(jump, 33) = 4 /\ jump - n = 4 THEN 1 ELSE 0)
        leapG == Div(gy, 4) - Div((Div(gy, 100) + 1) * 3, 4) - 150
        m == IF jump - n < 6 THEN n - jump + Div(jump + 4, 33) * 33 ELSE n
        leap == Mod(Mod(m + 1, 33) - 1, 4)  \* years since the last leap year
    IN  [leap |-> IF leap = -1 THEN 4 ELSE leap, gy |-> gy, march |-> 20 + leapJ - leapG]

\* g2d, d2g: days are counted from a common origin.
GregorianToDay(gy, gm, gd) ==
    LET shift == Div(gm - 8, 6) + 100100
        d == Div((gy + shift) * 1461, 4) + Div(153 * Mod(gm + 9, 12) + 2, 5) + gd - 34840408
    IN  d - Div(Div(gy + shift, 100) * 3, 4) + 752

DayToGregorian(day) ==
    LET j == 4 * day + 139361631 + Div(Div(4 * day + 183187720, 146097) * 3, 4) * 4 - 3908
        i == Div(Mod(j, 1461), 4) * 5 + 308
        gm == Mod(Div(i, 153), 12) + 1
    IN  <<Div(j, 1461) - 100100 + Div(8 - gm, 6), gm, Div(Mod(i, 153), 5) + 1>>

\* j2d.
JalaliToDay(jy, jm, jd) ==
    LET r == JalCal(jy)
    IN  GregorianToDay(r.gy, 3, r.march) + (jm - 1) * 31 - Div(jm, 7) * (jm - 7) + jd - 1

\* Fault: the last day of a leap year is forgotten.
DayToJalaliUnleaped(day) ==
    LET jy == DayToGregorian(day)[1] - 621
        r == JalCal(jy)
        k == day - GregorianToDay(r.gy, 3, r.march)
        rest == IF k >= 0 THEN k - 186 ELSE k + 179
    IN  IF 0 <= k /\ k <= 185 THEN <<jy, 1 + Div(k, 31), Mod(k, 31) + 1>>
        ELSE <<IF k < 0 THEN jy - 1 ELSE jy, 7 + Div(rest, 30), Mod(rest, 30) + 1>>

\* d2j.
DayToJalali(day) ==
    LET jy == DayToGregorian(day)[1] - 621
        r == JalCal(jy)
        k == day - GregorianToDay(r.gy, 3, r.march)
        rest == CASE k >= 0 -> k - 186
                  [] k < 0 /\ r.leap = 1 -> k + 180
                  [] OTHER -> k + 179
    IN  IF 0 <= k /\ k <= 185 THEN <<jy, 1 + Div(k, 31), Mod(k, 31) + 1>>
        ELSE <<IF k < 0 THEN jy - 1 ELSE jy, 7 + Div(rest, 30), Mod(rest, 30) + 1>>

GregorianToJalali(g) == DayToJalali(GregorianToDay(g[1], g[2], g[3]))
JalaliToGregorian(jy, jm, jd) == DayToGregorian(JalaliToDay(jy, jm, jd))

GetJalaliMonthLength(jy, jm) ==
    CASE jm <= 6 -> 31
      [] jm \in 7..11 -> 30
      [] jm = 12 -> IF JalCal(jy).leap = 0 THEN 30 ELSE 29

-----------------------------------------------------------------------------
(* PersianDateInput.                                                       *)

Least(a, b) == IF a <= b THEN a ELSE b
Selected == GregorianToJalali(IF value = Empty THEN Today ELSE value)

Init ==
    /\ value = Empty
    /\ chosen = Empty

\* update: one of the three is chosen, the day is cut to the month's length.
Update(jy, jm, jd) ==
    LET date == <<jy, jm, Least(jd, GetJalaliMonthLength(jy, jm))>>
    IN  /\ value' = JalaliToGregorian(date[1], date[2], date[3])
        /\ chosen' = <<jy, jm, jd>>

ChooseYear(jy) == Update(jy, Selected[2], Selected[3])
ChooseMonth(jm) == Update(Selected[1], jm, Selected[3])
ChooseDay(jd) ==
    /\ jd <= GetJalaliMonthLength(Selected[1], Selected[2])
    /\ Update(Selected[1], Selected[2], jd)

Next ==
    \/ \E jy \in Years : ChooseYear(jy)
    \/ \E jm \in 1..12 : ChooseMonth(jm)
    \/ \E jd \in 1..31 : ChooseDay(jd)

Spec == Init /\ [][Next]_vars

-----------------------------------------------------------------------------
(* Both calendars by their rules: the Gregorian one with its leap years,   *)
(* the Iranian one with eight leap years in each 33, which is known to     *)
(* agree with the observed calendar from 1178 to 1633.                     *)

GregorianLeap(y) == y % 4 = 0 /\ (y % 100 # 0 \/ y % 400 = 0)
GregorianMonth(y, m) ==
    IF m = 2 THEN IF GregorianLeap(y) THEN 29 ELSE 28
    ELSE IF m \in {4, 6, 9, 11} THEN 30 ELSE 31
JalaliLeap(y) == y % 33 \in {1, 5, 9, 13, 17, 22, 26, 30}
JalaliMonth(y, m) == IF m <= 6 THEN 31 ELSE IF m <= 11 \/ JalaliLeap(y) THEN 30 ELSE 29

\* Days since 1 January 1921 and since 1 Farvardin 1300, which was 21 March 1921.
GregorianDays(y, m, d) ==
    LET before == <<0, 31, 59, 90, 120, 151, 181, 212, 243, 273, 304, 334>>
    IN  365 * (y - 1921) + Cardinality({z \in 1921..(y - 1) : GregorianLeap(z)})
        + before[m] + (IF m > 2 /\ GregorianLeap(y) THEN 1 ELSE 0) + d - 1
JalaliDays(y, m, d) ==
    365 * (y - 1300) + Cardinality({z \in 1300..(y - 1) : JalaliLeap(z)})
    + 30 * (m - 1) + Least(m - 1, 6) + d - 1

\* The field's date is one of the Gregorian calendar.
TypeOK ==
    \/ value = Empty /\ chosen = Empty
    \/ /\ value \in (1921..2122) \X (1..12) \X (1..31)
       /\ value[3] <= GregorianMonth(value[1], value[2])
       /\ chosen \in (1300..1500) \X (1..12) \X (1..31)

\* After every choice the field shows the year, the month and the day that
\* were asked for, the day cut to the month's length in the Iranian calendar,
\* and holds that very day of the Gregorian calendar.
PickerShowsPick ==
    chosen # Empty =>
        LET shown == Selected
        IN  /\ shown = <<chosen[1], chosen[2], Least(chosen[3], JalaliMonth(chosen[1], chosen[2]))>>
            /\ GregorianDays(value[1], value[2], value[3]) = JalaliDays(shown[1], shown[2], shown[3]) + 79
=============================================================================
