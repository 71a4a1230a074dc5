CONSTANTS
    Survey = {i1, i2}
    Voter = {u1, u2}
    Submission = {r1, r2}
    Editor = {o1}
    Kind = {"required"}
    First <- MC_First
    Update <- MC_Update
    MaxEdition = 2
    Person = {u1, u2}
    Manager = {i1, i2}
    Conversation = {o1}
    Reply = {r1, r2}
    Save = {r1, r2}
    MaxStatus = 1
    Folder = {i1, i2}
    File = {o1}
    Scheduled = {r1, r2}
    Manual = {o1}
    MaxShareEdits = 2
    Name = {x1, x2}
    Local = {x1}
    Login = {r1, r2}
    MaxChange = 2
    Announcement = {x1}
    Meeting = {o1}
    Invited = {o1}
    PortalOnly = {x1}
    Unreached = {x2}
    Everyone = None
    Request = {r1, r2}
    Rules <- MC_Rules
    Lists <- MC_Lists
    MaxSaves = 3
    MaxTurns = 1
    MaxFaults = 1
    Keep = Keep
    None = None
SPECIFICATION Spec
INVARIANTS
    SubmittedIsComplete
    OneCeo
    UnreadShows
    LoginSucceeds
    GuardsFindPerson
    ToldOnce
PROPERTIES
    SensitiveFieldsHold
    ShutTakesLateRepliesOnly
    SyncMatchesListing
SYMMETRY Symmetry
CHECK_DEADLOCK FALSE
