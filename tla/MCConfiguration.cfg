\* Two of three cameras, two saves, and three starts.
SPECIFICATION FairSpec
CONSTANTS
    a = a
    b = b
    c = c
    other = other
    Cameras = {a, b, c}
    Settings = {normal, other}
    Default = normal
    Nowhere = Nowhere
    Absent = Absent
    Torn = Torn
    Files <- EarlierFiles
    MaxSaves = 2
    MaxStarts = 3
INVARIANTS
    TypeOK
    FileIsWhole
    SavedIsDurable
    CopiesAgree
    RolesAgree
    ScansAsConfigured
    AlwaysAssignable
PROPERTIES
    SettingsSurvive
    SaveEnds
CHECK_DEADLOCK FALSE
