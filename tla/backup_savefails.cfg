SPECIFICATION Spec
CONSTANTS
  Generations = 3
  MaxEdits = 2
  MaxOptions = 1
  MaxCrashes = 1
  Circumstances <- SavesFailOnly
  Torn = Torn
  None = None
INVARIANT CloseAsks
