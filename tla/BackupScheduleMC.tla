-------------------------- MODULE BackupScheduleMC --------------------------
(* A small calendar: hours of four minutes, days of three hours, weeks of    *)
(* three days, months of three to five days.                                 *)
EXTENDS BackupSchedule

MC_MonthDays == <<5, 3, 5, 4, 5, 3, 5, 4>>

Of(frequencies, hours, minutes, days) ==
    [frequency: frequencies, hour: hours, minute: minutes, weekday: {1}, monthDay: days]

\* Slots at the beginning and at the end of the hour, the day and the month; day 5
\* is one that short months lack.
MC_AnySettings == Of({"HOURLY"}, {0}, {0, 3}, {1})
                      \cup Of({"DAILY"}, {0}, {0}, {1})
                      \cup Of({"DAILY", "WEEKLY"}, {2}, {3}, {1})
                      \cup Of({"MONTHLY"}, {2}, {3}, {1, 3})

MC_MonthEnd == Of({"MONTHLY"}, {1}, {1}, {5})

=============================================================================
