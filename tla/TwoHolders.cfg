\* Three runs of one tree.
SPECIFICATION HoldSpec
CONSTANTS
  Runs = {p1, p2, p3}
  NoFile = NoFile
  Nobody = Nobody
SYMMETRY Symmetry
INVARIANT OneRunPerTree
\* Every run ends.
CHECK_DEADLOCK FALSE
