SPECIFICATION Spec
CONSTANTS
  t1 = t1
  t2 = t2
  h1 = h1
  h2 = h2
  s1 = s1
  NoTask = NoTask
  Tasks = {t1}
  Batched = {}
  BatchSize = 1
  Limit = 1
  Procs = {h1, h2, s1}
  Sweepers = {s1}
  Operators = {}
  LateTriggers = TRUE
  Failing = {"submit"}
  MaxFaults = 1
  MaxCrashes = 0
  MaxMsgs = 1
  MaxOrders = 1
SYMMETRY HandlerSymmetry
INVARIANT NoStolenSlot
CHECK_DEADLOCK FALSE
