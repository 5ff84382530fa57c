SPECIFICATION Spec
CONSTANTS
  t1 = t1
  w1 = w1
  w2 = w2
  p1 = p1
  o1 = o1
  Tasks = {t1}
  Callbacks = {t1}
  Workers = {w1, w2}
  Probers = {p1}
  Replayers = {o1}
  EventMaxAttempts = 2
  Threshold = 2
  ReplayLimit = 2
  MaxReplays = 1
  MaxRequeues = 1
  MaxMishaps = 1
INVARIANT TypeOK
INVARIANT NothingLost
INVARIANT BoundedOvershoot
PROPERTY BreakerHeals
PROPERTY Settled
CHECK_DEADLOCK FALSE
