CONSTANTS
  Rows = {r1, r2, r3, r4}
  NoRow = NoRow
  Keys = {1, 2, 3, 4, 5}
  MaxChanges = 2
  Limits = {1, 2}
SPECIFICATION PagesSpec
INVARIANTS
  PagesTypeOK
  CursorPagesAreExact
  PageNumbersCostOneRowPerChange
SYMMETRY Symmetry
CHECK_DEADLOCK FALSE
