SPECIFICATION Spec
CONSTANTS
  s1 = s1
  s2 = s2
  s3 = s3
  e1 = e1
  e2 = e2
  e3 = e3
  Session = {s1, s2}
  Edit = {e1, e2, e3}
  NoOne = NoOne
  Unknown = Unknown
  LocksOn = TRUE
  LockFails = TRUE
  MayTakeOver = TRUE
  MaySaveAs = TRUE
  Database = TRUE
  SeesDead = FALSE
  Overlap = FALSE
INVARIANT ChangeIsSeen
INVARIANT NoFalseAlarm
CHECK_DEADLOCK FALSE
SYMMETRY Alike
