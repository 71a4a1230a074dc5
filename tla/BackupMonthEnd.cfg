CONSTANTS
    HourLength = 4
    DayHours = 3
    WeekDays = 3
    MonthDays <- MC_MonthDays
    Settings <- MC_MonthEnd
    LastInstant = 160
    LongestRun = 2
    LongestDelay = 0
    EditsDuringRun = FALSE
SPECIFICATION Spec
INVARIANT NextRunIsNextSlot

