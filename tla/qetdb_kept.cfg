SPECIFICATION Spec
CONSTANTS
  p1 = p1  p2 = p2  t1 = t1  t2 = t2
  None = None
  Paths = {p1}
  Tables = {t1, t2}
  Values = {"a", "b", "a_"}
  Normal <- MCNormal
  Outside = {"a_", "b"}
  Limits = {2}
  MaxVersions = 1
  MaxRevisions = 2
  MaxEdits = 1
PROPERTY SavesSound
