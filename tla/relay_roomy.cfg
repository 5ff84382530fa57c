SPECIFICATION Spec
CONSTANTS
  t1 = t1
  t2 = t2
  h1 = h1
  h2 = h2
  s1 = s1
  NoTask = NoTask
  Tasks = {t1}
  Batched = {t1}
  BatchSize = 1
  Limit = 2
  Procs = {h1, h2, s1}
  Sweepers = {s1}
  Operators = {"replay"}
  LateTriggers = TRUE
  Failing = {"insert", "trigger", "send", "leave", "schedule", "landed", "final", "claim", "notify", "clear"}
  MaxFaults = 2
  MaxCrashes = 1
  MaxMsgs = 2
  MaxOrders = 3
SYMMETRY HandlerSymmetry
INVARIANT SlotOwed
INVARIANT SingleReleaser
INVARIANT OrdersExplained
PROPERTY TerminalIsFinal
CHECK_DEADLOCK FALSE
