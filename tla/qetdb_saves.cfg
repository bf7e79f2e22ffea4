SPECIFICATION Spec
SYMMETRY MCSymmetry
CONSTANTS
  p1 = p1  p2 = p2  t1 = t1  t2 = t2
  None = None
  Paths = {p1, p2}
  Tables = {t1}
  Values = {"a", "b", "a_"}
  Normal <- MCNormal
  Outside = {"b"}
  Limits = {2}
  MaxVersions = 1
  MaxRevisions = 2
  MaxEdits = 1
INVARIANT TypeOK
INVARIANT OpensAgain
INVARIANT HistoryGoesBack
PROPERTY VersionsStay
PROPERTY WholeOrNothing
