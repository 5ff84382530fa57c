SPECIFICATION Spec
CONSTANTS
  t1 = t1
  t2 = t2
  s1 = s1
  s2 = s2
  Tasks = {t1, t2}
  Rounds = {s1, s2}
  Size = 2
  Wait = 1
  Grace = 1
  Period = 1
  LockTTL = 2
  Late = 1
  Slow = 2
  LastArrival = 3
  MaxTime = 12
  MaxCancels = 2
  MaxCrashes = 1
SYMMETRY WindowSymmetry
INVARIANT TypeOK
INVARIANT DueIsDeadline
INVARIANT TriggerArmed
INVARIANT Timely
INVARIANT LockDiscipline
INVARIANT OnceUnlessOverlap
PROPERTY EarlyForAReason
CHECK_DEADLOCK FALSE
