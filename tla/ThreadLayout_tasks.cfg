\* Loads, arrivals and a cancellation that interrupt and follow one another,
\* with fair threads.
CONSTANTS
  EllipsisLength = 2
  PerOnTheFly = 1
  Total = 3
  PerLayout = 2
  MarkedLength = 1
  MaxVisible = 2
  MaxAboned = 0
  MaxLoads = 2
  MaxEdits = 1
  UserOps = {"cancel"}
  EditsWhileComposing = FALSE
SPECIFICATION FairSpec
INVARIANTS RangesMatchText HeaderMarksArrival IncompleteIsInvalidated
PROPERTY ComesToRest
