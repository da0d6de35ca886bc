CONSTANTS
  Downloads = {d1, d2, d3}
  Composings = {c1, c2}
  Identifiers = {a, b}
  NoTask = nil
SPECIFICATION Spec
SYMMETRY Symmetry
INVARIANT RowsAreRemoved
