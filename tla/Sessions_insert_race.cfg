SPECIFICATION Spec
CONSTANTS
  c1 = c1
  c2 = c2
  nopage = nopage
  NoPage = nopage
  Connections <- MCTwo
  PAGE_SIZE = 11
  Columns <- MCColumns
  MaxStatements = 3
CHECK_DEADLOCK FALSE
SYMMETRY MCSymmetry
INVARIANT InsertedRowsVisible
