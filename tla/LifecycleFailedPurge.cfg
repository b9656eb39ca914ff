\* A staging that leaves a Pending record, a purge of it that fails half way, an undo.
CONSTANTS
    Items = {a}
    MaxSeq = 1
    MaxClaims = 1
    MaxIno = 2
    MaxLog = 6
    MaxCommands = 3
    MaxFaults = 1
    MaxCrashes = 1
    MaxExternal = 1
    MaxDay = 1
    CrashKinds = {}
    Foreign = {}
    CleanPurges = {TRUE, FALSE}
    Commands = {"clean", "purge", "undo"}
SPECIFICATION Spec
INVARIANTS PurgeFailedIsUndoable
CHECK_DEADLOCK FALSE
