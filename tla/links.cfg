SPECIFICATION Spec
CONSTANTS
  m1 = m1  m2 = m2  s1 = s1  s2 = s2  p1 = p1  p2 = p2  q1 = q1  n1 = n1  v1 = v1  v2 = v2
  r1 = r1  r2 = r2
  NoRow = NoRow  NoLabel = NoLabel
  Elements = {m1, m2, s1, s2, p1, p2, q1, n1, v1, v2}
  Kind <- MCKind
  RowsOf <- MCRowsOf
  Label <- MCLabel
  Folio <- MCFolio
  Scenes <- MCScenes
  Removals <- MCRemovals
  Chains = {TRUE, FALSE}
  MaxDone = 2
INVARIANT TypeOK
INVARIANT LinksMutual
INVARIANT OnePartner
INVARIANT OnlyDrawn
INVARIANT RowsOfLinked
PROPERTY UndoRestores
