\* Edits of a page at rest: threads of up to four messages, loaded once.
CONSTANTS
  EllipsisLength = 2
  PerOnTheFly = 1
  Total = 4
  PerLayout = 2
  MarkedLength = 1
  MaxVisible = 1
  MaxAboned = 1
  MaxLoads = 1
  MaxEdits = 2
  UserOps = {"restyle", "abone", "expand"}
  EditsWhileComposing = FALSE
SPECIFICATION Spec
INVARIANTS
  TypeOK
  RangesMatchText
  TextIsComposed
  NoRangeException
  EllipsisForHidden
