SPECIFICATION Spec
CONSTANTS
  t1 = t1
  t2 = t2
  h1 = h1
  h2 = h2
  s1 = s1
  NoTask = NoTask
  Tasks = {t1, t2}
  Batched = {t1}
  BatchSize = 1
  Limit = 1
  Procs = {h1, h2}
  Sweepers = {}
  Operators = {"requeue"}
  LateTriggers = FALSE
  Failing = {}
  MaxFaults = 0
  MaxCrashes = 0
  MaxMsgs = 1
  MaxOrders = 1
SYMMETRY HandlerSymmetry
INVARIANT InFlightHoldsSlot
CHECK_DEADLOCK FALSE
