SPECIFICATION Spec
CONSTANTS
  r1 = r1
  r2 = r2
  a1 = a1
  a2 = a2
  p1 = p1
  p2 = p2
  k1 = k1
  NoTask = NoTask
  Pending = Pending
  NoKey = NoKey
  Unset = Unset
  Absent = Absent
  Garbage = Garbage
  NoName = NoName
  Readers = {r1, r2}
  Admins = {a1, a2}
  Processes = {p1, p2}
  Home <- HomeDef
  MUTABLE <- Keywords
  Allowed <- AllowedDef
  Settings <- SettingsDef
  Updates <- UpdatesDef
  Clean <- CleanDef
  Profiles <- ProfilesDef
  Keys = {k1}
  MAX_BATCH = 3
  MaxWait = 3
  GroupBy = "model"
  CacheTTL = 1
  MaxWrites = 1
  MaxMisses = 1
  Failing = {"place", "free", "conc", "insert", "fill", "announce", "unslot", "unplace"}
  MaxFaults = 1
SYMMETRY RequestSymmetry
INVARIANT TypeOK
INVARIANT OneTaskPerKey
INVARIANT RejectedLeavesNoTrace
INVARIANT PlanInBounds
INVARIANT BoundedStaleness
INVARIANT WriterSeesWrite
PROPERTY FilledKeyStays
PROPERTY LimitHonoured
CHECK_DEADLOCK FALSE
