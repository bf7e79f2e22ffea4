SPECIFICATION FairSpec
CONSTANTS
  s1 = s1
  s2 = s2
  s3 = s3
  p1 = p1
  p2 = p2
  p3 = p3
  pcA = pcA
  pcB = pcB
  Session = {s1, s3}
  Path = {p1}
  Writable = {p1}
  HostOf <- TwoMachineHosts
  MayTakeOver = TRUE
  MayDrop = FALSE
  MayFail = FALSE
  BeatsApart = TRUE
  NoFile = NoFile
  Blank = Blank
  NoPath = NoPath
PROPERTY Learns
CHECK_DEADLOCK FALSE
