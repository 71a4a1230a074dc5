CONSTANTS
    s1 = s1
    s2 = s2
    s3 = s3
    c1 = c1
    System = {s1, s2, s3}
    Manual = {c1}
    Take = 2
    MaxEdits = 4
SPECIFICATION Spec
PROPERTIES
    ManualStatusStays
    DueIsChecked
    NewIsChecked
CHECK_DEADLOCK FALSE
