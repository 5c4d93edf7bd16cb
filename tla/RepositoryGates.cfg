SPECIFICATION Spec
CONSTANTS
  Authors = {a1, a2}
  MaxPulls = 3
INVARIANTS TypeOK DocumentsAgree FreezeHolds CutoverStaysOpen
PROPERTIES StatusEdges OneCutover
SYMMETRY Symmetry
CHECK_DEADLOCK FALSE
