SPECIFICATION Spec
CONSTANTS
  r1 = r1  r2 = r2  r3 = r3  sp = sp  A = A  B = B
  None = None
  Strips = {A, B}
  Drawn = {r1, r2, r3}
  Spare = {sp}
  Phys = {1, 2, 3, 4, 5, 6, 7, 8, 9}
  Bridges = {21, 22, 23}
  Place <- MCPlace
  Layouts <- MCLayouts
  Habits <- AllHabits
  MaxLevels = 3
INVARIANT OnePlace
INVARIANT BridgesOnStrip
PROPERTY UndoRestores
CHECK_DEADLOCK FALSE
