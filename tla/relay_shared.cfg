SPECIFICATION Spec
CONSTANTS
  t1 = t1
  t2 = t2
  h1 = h1
  h2 = h2
  s1 = s1
  NoTask = NoTask
  Tasks = {t1, t2}
  Batched = {t1}
  BatchSize = 1
  Limit = 1
  Procs = {h1, s1}
  Sweepers = {s1}
  Operators = {}
  LateTriggers = TRUE
  Failing = {"insert", "join", "due", "trigger", "unclaim", "mask", "send", "decr", "leave", "conc", "meta", "claim", "acquire", "requeue", "schedule", "slot", "landed", "final", "notify", "clear", "cancel", "advance"}
  MaxFaults = 1
  MaxCrashes = 0
  MaxMsgs = 1
  MaxOrders = 1
SYMMETRY HandlerSymmetry
INVARIANT NoStolenSlot
INVARIANT ConcurrencyGate
INVARIANT NotStranded
CHECK_DEADLOCK FALSE
