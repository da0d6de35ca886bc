CONSTANTS
  Threads = {a, b}
  MaxServer = 2
  MaxSwitches = 4
  MaxReloads = 1
  MaxMarks = 0
  MaxCancels = 1
  Impatient = {"open", "reload", "mark"}
SPECIFICATION FairSpec
PROPERTIES ShowsCurrentThread RestsAgain
