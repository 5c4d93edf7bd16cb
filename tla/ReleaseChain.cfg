SPECIFICATION Spec
CONSTANTS
  Runs = {r1, r2}
  Clicks = {}
  Candidates = {c1, c2}
  Heads = {h1}
  MaxAttempt = 2
  MaxTime = 0
  Nothing = Nothing
SYMMETRY RunSymmetry
INVARIANTS TypeOK
PROPERTIES CanaryIsOfItsRun StagingIsItsOwn
CHECK_DEADLOCK FALSE
