SPECIFICATION FairSpec
CONSTANTS
  Generations = 2
  MaxEdits = 2
  MaxOptions = 1
  MaxCrashes = 1
  Circumstances <- MCCircumstances
  Torn = Torn
  None = None
INVARIANT TypeOK
INVARIANT UnsavedIsKnown
INVARIANT CopyKeepsEdits
INVARIANT SnapshotIsCurrent
PROPERTY SnapshotKept
PROPERTY EditReachesASnapshot
