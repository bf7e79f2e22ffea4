SPECIFICATION Spec
CONSTANTS
  s1 = s1
  s2 = s2
  s3 = s3
  p1 = p1
  p2 = p2
  p3 = p3
  pcA = pcA
  pcB = pcB
  Session = {s1, s2}
  Path = {p1, p2, p3}
  Writable = {p1, p2}
  HostOf <- OneMachineHosts
  MayTakeOver = TRUE
  MayDrop = TRUE
  MayFail = TRUE
  BeatsApart = FALSE
  NoFile = NoFile
  Blank = Blank
  NoPath = NoPath
INVARIANT TypeOK
INVARIANT NoGhostLock
INVARIANT ExclusiveUntilReplaced
PROPERTY TakenBySomeone
CHECK_DEADLOCK FALSE
SYMMETRY Alike
