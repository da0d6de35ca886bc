CONSTANTS
  Threads = {a, b}
  MaxServer = 2
  MaxSwitches = 2
  MaxReloads = 0
  MaxMarks = 0
  MaxCancels = 0
  Impatient = {"open"}
SPECIFICATION Spec
SYMMETRY Symmetry
INVARIANT ExpectedDelegation
