SPECIFICATION Spec
CONSTANTS
  Files = {f1, f2}
  Windows = {w1, w2}
  Projects = {p1, p2, p3}
  None = None
  Circumstances <- Starting
  MaxRequests = 4
  MaxStarts = 2
CHECK_DEADLOCK FALSE
INVARIANT NothingDropped
