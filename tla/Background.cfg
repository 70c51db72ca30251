CONSTANTS
  Callers = {a, b}
  Keys = {k}
  TaskId = {t1, t2, t3}
  None = none
  MaxWorkers = 1
  MaxRetries = 1
  MaxSubmits = 3
  MaxRestarts = 1
SPECIFICATION FairSpec
CHECK_DEADLOCK FALSE
INVARIANT BackgroundInv
INVARIANT EffectsBounded
PROPERTY ImplementsTaskLife
PROPERTY TasksEnd
