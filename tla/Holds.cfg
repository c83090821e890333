\* Three runs: one that dies, and two that find what it left.
SPECIFICATION HoldSpec
CONSTANTS
  Runs = {p1, p2, p3}
  NoFile = NoFile
  Nobody = Nobody
SYMMETRY Symmetry
INVARIANTS LitterNeverShutsTheTree NoHoldOutlivesItsRun
\* Every run ends.
CHECK_DEADLOCK FALSE
