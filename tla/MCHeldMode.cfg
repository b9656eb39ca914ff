\* Two steps of other programs, two failing calls and two crashes, the log on the same
\* file system or on another one.
CONSTANTS
    InitialModes <- SomeModes
    Changes <- Everything
    SameFilesystem = {TRUE, FALSE}
    MaxChanges = 2
    MaxFaults = 2
    MaxCrashes = 2
SPECIFICATION Spec
INVARIANTS
    TypeOK
    EvidenceIsCurrent
    OverwritesOnlyWhatItSaw
    LogTellsTheMode
    LineageIsLogged
    SealKeepsWritersOut
\* The restored directory is the end.
CHECK_DEADLOCK FALSE
