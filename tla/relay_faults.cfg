SPECIFICATION Spec
CONSTANTS
  t1 = t1
  t2 = t2
  h1 = h1
  h2 = h2
  s1 = s1
  NoTask = NoTask
  Tasks = {t1}
  Batched = {t1}
  BatchSize = 1
  Limit = 1
  Procs = {h1, s1}
  Sweepers = {s1}
  Operators = {"requeue", "replay", "repeat"}
  LateTriggers = TRUE
  Failing = {"insert", "join", "due", "trigger", "submit", "unclaim", "mask", "send", "decr", "leave", "conc", "meta", "claim", "acquire", "requeue", "schedule", "recheck", "failcas", "slot", "landed", "final", "notify", "clear", "cancel", "advance"}
  MaxFaults = 1
  MaxCrashes = 1
  MaxMsgs = 1
  MaxOrders = 1
INVARIANT TypeOK
PROPERTY ImplementsLifecycle
CHECK_DEADLOCK FALSE
