SPECIFICATION FairSpec
CONSTANTS
  Works = {w1, w2}
  Callers = {main, other}
  Main = main
  Worker = worker
  Dummy = dummy
  NoWork = nil
  NoThread = nobody
  MaxCalls = 3
INVARIANTS ConditionMatchesQueue WokenWithWork CurrentWorkIsPublished RemoveAllReachesCurrent NoAnswerWhileRunning
PROPERTIES ExecutorSpec CallsReturn PushedWorkIsServed ShutdownOfRunningEnds
CHECK_DEADLOCK FALSE
