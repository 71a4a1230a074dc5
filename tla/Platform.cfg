CONSTANTS
    Fetch = {r1, r2, o1}
    Task = {i1, i2}
    Save = {r1, r2}
    Pass = {r1, r2}
    Endpoint = {o1}
    MaxRevision = 2
    Crashes = TRUE
    Server = {i1, i2, o1}
    SmtpRequest = {r1, r2}
    Keep = Keep
    Account = {u1, u2}
    Name = {x1, x2}
    Uid = {i1, i2}
    Sync = {r1, r2}
    Profile = {o1}
    MaxChange = 2
    Share = {o1}
    Person = {u1, u2}
    ShareRequest = {o1}
    Dto <- MC_Dto
    MaxEdits = 3
    Group = {o1}
    Tab = {r1, r2}
    User = {u1, u2}
    MaxLogins = 2
    MaxCalls = 2
    Years = {1300, 1375, 1403, 1500}
    Today <- MC_Today
    None = None
    HourLength = 4
    DayHours = 3
    WeekDays = 3
    MonthDays <- MC_MonthDays
    Settings <- MC_AnySettings
    LastInstant = 100
    LongestRun = 6
    LongestDelay = 13
    EditsDuringRun = TRUE
SPECIFICATION PlatformSpec
INVARIANTS
    ServedIsWhole
    
    
    
    OnePrimary
    SteadyStaysActive
    
    FormIsOwn
    PickerShowsPick
PROPERTIES
    SlotsRunOnce
    MirrorsDirectory
    IdentityIsStable
SYMMETRY Symmetry
CHECK_DEADLOCK FALSE
