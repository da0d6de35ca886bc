CONSTANTS
  Threads = {a, b}
  MaxServer = 3
  MaxSwitches = 3
  MaxReloads = 2
  MaxMarks = 0
  MaxCancels = 0
  Impatient = {"reload"}
SPECIFICATION Spec
PROPERTY DownloaderWaits
