SPECIFICATION Spec
CONSTANTS
  s1 = s1
  s2 = s2
  s3 = s3
  e1 = e1
  e2 = e2
  e3 = e3
  Session = {s1, s2}
  Edit = {e1, e2, e3}
  NoOne = NoOne
  Unknown = Unknown
  LocksOn = TRUE
  LockFails = TRUE
  MayTakeOver = FALSE
  MaySaveAs = FALSE
  Database = FALSE
  SeesDead = TRUE
  Overlap = TRUE
INVARIANT OneWriter
PROPERTY NoLostEdit
PROPERTY InTurns
CHECK_DEADLOCK FALSE
SYMMETRY Alike
