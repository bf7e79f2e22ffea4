SPECIFICATION FairSpec
CONSTANTS
  Files = {f1, f2}
  Windows = {w1, w2}
  Projects = {p1, p2, p3}
  None = None
  Circumstances <- MCCircumstances
  MaxRequests = 4
  MaxStarts = 2
CHECK_DEADLOCK FALSE
INVARIANT AskedBeforeGone
INVARIANT OneProjectPerFile
INVARIANT WindowsOutlive
INVARIANT ReopensWhatWasOpen
PROPERTY HandedOverIsOpened
PROPERTY EndsWithoutWindows
