CONSTANTS
  Threads = {a, b}
  MaxServer = 2
  MaxSwitches = 5
  MaxReloads = 2
  MaxMarks = 2
  MaxCancels = 1
  Impatient = {"reload", "mark"}
SPECIFICATION Spec
INVARIANTS LogComplete BufferNumbered EditsNoted ShowsWholeLog LocksReleased LogKeepsThread
PROPERTY MarkKept
