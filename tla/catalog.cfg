SPECIFICATION Spec
CONSTANTS
  Products = {p1, p2, p3}
  Unknown = p3
  Categories = {c1, c2, c3}
  Locations = {l1, l2, l3}
  Skus = {k1, k2}
  CategoryNames = {n1, n2}
  LocationNames = {m1, m2}
  Requests = {r1, r2}
  None = None
  Gone = Gone
  MaxCalls = 4
SYMMETRY Symmetry
INVARIANTS NothingDangles NamesakesCrossed BornCategorised ErrorsExplained DoneIsDone
CHECK_DEADLOCK FALSE
