--------------------------- MODULE BackupSchedule ---------------------------
(***************************************************************************)
(* When the automatic backup runs (backups/backups.service.ts):            *)
(* calculateNextRunAt, the settings it reads, and the timer that runs a    *)
(* backup once nextRunAt has passed and then moves nextRunAt on.           *)
(*                                                                         *)
(* Instants are minutes of local time, from 0.  The calendar's lengths are *)
(* constants, so that TLC can check a small calendar of the same shape.    *)
(***************************************************************************)
EXTENDS Integers, Sequences

CONSTANTS
    HourLength,    \* minutes in an hour
    DayHours,      \* hours in a day
    WeekDays,      \* days in a week; day 0 is the week's day 0
    MonthDays,     \* days of each month of the calendar
    Settings,      \* backup_setting rows: frequency, hour, minute, weekday, monthDay
    LastInstant,   \* bound: where the clock stops
    LongestDelay,  \* bound: minutes a due backup may wait to be started
    LongestRun,    \* bound: minutes more until it has ended, repetitions included
    EditsDuringRun \* whether settings may be saved while a backup runs

Frequency == {"HOURLY", "DAILY", "WEEKLY", "MONTHLY"}

ASSUME CalendarAssumption ==
    /\ HourLength \in Nat \ {0} /\ DayHours \in Nat \ {0} /\ WeekDays \in Nat \ {0}
    /\ MonthDays \in Seq(Nat \ {0})
ASSUME SettingsAssumption ==
    Settings \subseteq [frequency: Frequency, hour: 0..DayHours - 1, minute: 0..HourLength - 1,
                        weekday: 0..WeekDays - 1, monthDay: Nat \ {0}]
ASSUME BoundAssumption ==
    /\ LastInstant \in Nat /\ LongestRun \in Nat /\ LongestDelay \in Nat
    /\ EditsDuringRun \in BOOLEAN

VARIABLES
    now,        \* the clock
    settings,   \* the backup_setting row
    nextRunAt,  \* its nextRunAt
    run         \* the automatic backup under way, with the settings it has read

vars == <<now, settings, nextRunAt, run>>

-----------------------------------------------------------------------------
(* The calendar of JavaScript's Date.                                      *)

DayLength == HourLength * DayHours
Day(t) == t \div DayLength

\* The first day of month k; the calendar ends where month Len(MonthDays) + 1 begins.
MonthStart[k \in 1..Len(MonthDays) + 1] ==
    IF k = 1 THEN 0 ELSE MonthStart[k - 1] + MonthDays[k - 1]

\* JavaScript's calendar never ends; this one goes on after the clock's last month for
\* as long as a month may spill.
ASSUME CalendarReach ==
    /\ MonthDays # <<>>
    /\ \A k \in 1..Len(MonthDays) : MonthStart[k] * DayLength <= LastInstant =>
           MonthStart[k + 1] + MonthDays[k] <= MonthStart[Len(MonthDays) + 1]

Month(d) == CHOOSE k \in 1..Len(MonthDays) : MonthStart[k] <= d /\ d < MonthStart[k + 1]

At(d, s) == d * DayLength + s.hour * HourLength + s.minute

\* clampDayOfMonth: the day asked for, or the month's last.
ClampDayOfMonth(k, day) == IF day <= MonthDays[k] THEN day ELSE MonthDays[k]

\* The day of month k on which a monthly backup stands.
MonthlyDay(k, s) == MonthStart[k] + ClampDayOfMonth(k, s.monthDay) - 1

\* setMonth(getMonth() + 1) keeps the day of the month: past the end of a shorter
\* month it spills into the month after.
NextMonth(d) == Month(MonthStart[Month(d) + 1] + (d - MonthStart[Month(d)]))

\* A candidate not later than now, or any candidate when the next one is forced,
\* gives way to its successor.
OrLater(next, later, t, forceNext) == IF forceNext \/ next <= t THEN later ELSE next

Hourly(s, t, forceNext) ==
    LET next == (t - (t % HourLength)) + s.minute
    IN  OrLater(next, next + HourLength, t, forceNext)

\* Fault: the day is not moved on.
DailyStays(s, t, forceNext) == At(Day(t), s)

Daily(s, t, forceNext) ==
    LET next == At(Day(t), s)
    IN  OrLater(next, next + DayLength, t, forceNext)

Weekly(s, t, forceNext) ==
    LET diff == ((s.weekday - (Day(t) % WeekDays)) + WeekDays) % WeekDays
        next == At(Day(t) + diff, s)
    IN  OrLater(next, next + WeekDays * DayLength, t, forceNext)

Monthly(s, t, forceNext) ==
    LET d == MonthlyDay(Month(Day(t)), s)
    IN  OrLater(At(d, s), At(MonthlyDay(NextMonth(d), s), s), t, forceNext)

CalculateNextRunAt(s, t, forceNext) ==
    CASE s.frequency = "HOURLY"  -> Hourly(s, t, forceNext)
      [] s.frequency = "DAILY"   -> Daily(s, t, forceNext)
      [] s.frequency = "WEEKLY"  -> Weekly(s, t, forceNext)
      [] s.frequency = "MONTHLY" -> Monthly(s, t, forceNext)

-----------------------------------------------------------------------------
NotRunning == [on |-> FALSE, due |-> 0, settings |-> CHOOSE s \in Settings : TRUE]

TypeOK ==
    /\ now \in 0..LastInstant
    /\ settings \in Settings
    /\ nextRunAt \in Nat
    /\ run \in [on: BOOLEAN, due: 0..now, settings: Settings]

Init ==
    /\ now = 0
    /\ settings \in Settings
    /\ nextRunAt = CalculateNextRunAt(settings, 0, FALSE)
    /\ run = NotRunning

\* Time goes on, but a backup under way or due does not wait past its bound.
Minute ==
    /\ now < LastInstant
    /\ run.on => now < run.due + LongestDelay + LongestRun
    /\ ~run.on => now < nextRunAt + LongestDelay
    /\ now' = now + 1
    /\ UNCHANGED <<settings, nextRunAt, run>>

\* updateSettings computes nextRunAt anew from what is saved.
UpdateSettings(s) ==
    /\ EditsDuringRun \/ ~run.on
    /\ settings' = s
    /\ nextRunAt' = CalculateNextRunAt(s, now, FALSE)
    /\ UNCHANGED <<now, run>>

\* runAutoBackupIfDue reads the settings once, at its start.
StartRun ==
    /\ ~run.on /\ nextRunAt <= now
    /\ run' = [on |-> TRUE, due |-> nextRunAt, settings |-> settings]
    /\ UNCHANGED <<now, settings, nextRunAt>>

\* At its end it writes a nextRunAt computed from what it has read.
FinishRun ==
    /\ run.on
    /\ nextRunAt' = CalculateNextRunAt(run.settings, now, TRUE)
    /\ run' = NotRunning
    /\ UNCHANGED <<now, settings>>

\* The backup throws, or the API dies: nextRunAt stays as it was.
FailRun ==
    /\ run.on
    /\ run' = NotRunning
    /\ UNCHANGED <<now, settings, nextRunAt>>

Next ==
    \/ Minute \/ StartRun \/ FinishRun \/ FailRun
    \/ \E s \in Settings : UpdateSettings(s)

Spec == Init /\ [][Next]_vars

-----------------------------------------------------------------------------
(* Properties.                                                             *)

\* What the settings say: every instant at which a backup is to be taken.  A
\* monthly backup whose day a month lacks is taken on that month's last day.
Slot(s, t) ==
    /\ t % HourLength = s.minute
    /\ s.frequency # "HOURLY" => t % DayLength = s.hour * HourLength + s.minute
    /\ s.frequency = "WEEKLY" => Day(t) % WeekDays = s.weekday
    /\ s.frequency = "MONTHLY" => Day(t) = MonthlyDay(Month(Day(t)), s)

\* u is the first of them after t.
IsNextSlot(u, s, t) == u > t /\ Slot(s, u) /\ \A v \in t + 1..u - 1 : ~Slot(s, v)

\* Every slot gets its backup: nextRunAt is the first instant after now that the
\* current settings name.
NextRunIsNextSlot == nextRunAt > now /\ ~run.on => IsNextSlot(nextRunAt, settings, now)

\* A day of the month that every month has.
Fits(s) == s.frequency = "MONTHLY" => \A k \in 1..Len(MonthDays) : s.monthDay <= MonthDays[k]

Period(s, t) ==
    CASE s.frequency = "HOURLY"              -> t \div HourLength
      [] s.frequency \in {"DAILY", "WEEKLY"} -> Day(t)
      [] s.frequency = "MONTHLY"             -> Month(Day(t))

\* The backup under way ran for a slot of the current settings and is still in the
\* hour, the day or, for a monthly one, the month of that slot.
Punctual ==
    /\ run.settings = settings /\ Slot(settings, run.due)
    /\ Period(settings, run.due) = Period(settings, now)

\* Whatever is edited, fails or is late: whenever settings are saved, and whenever
\* a punctual backup ends, nextRunAt becomes the next instant the settings name,
\* so no scheduled backup is passed over and none is added.  However late a backup
\* starts and however long it takes, once it has ended the next one lies ahead, on
\* an instant the settings it ran under name, so it is not run again.
SlotsRunOnce ==
    [][/\ settings' # settings \/ nextRunAt' # nextRunAt =>
              \/ IsNextSlot(nextRunAt', settings', now)
              \/ ~Fits(settings')
              \/ FinishRun /\ ~Punctual
       /\ FinishRun => nextRunAt' > now /\ Slot(run.settings, nextRunAt')]_vars

=============================================================================
