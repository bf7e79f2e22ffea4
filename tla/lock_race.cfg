SPECIFICATION Spec
CONSTANTS
  s1 = s1
  s2 = s2
  s3 = s3
  p1 = p1
  p2 = p2
  p3 = p3
  pcA = pcA
  pcB = pcB
  Session = {s1, s2, s3}
  Path = {p1}
  Writable = {p1}
  HostOf <- TwoMachineHosts
  MayTakeOver = FALSE
  MayDrop = FALSE
  MayFail = FALSE
  BeatsApart = FALSE
  NoFile = NoFile
  Blank = Blank
  NoPath = NoPath
INVARIANT MutualExclusion
CHECK_DEADLOCK FALSE
