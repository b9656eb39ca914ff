\* A kill, one step of another program, and the next command.
SPECIFICATION Spec
CONSTANTS
  Items = {a}
  Old = {}
  MaxFaults = 0
  MaxCrashes = 1
  MaxTouches = 1
  MaxCommands = 2
INVARIANTS
  RetainedIsUndoable
CHECK_DEADLOCK FALSE
