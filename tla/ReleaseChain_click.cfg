SPECIFICATION Spec
CONSTANTS
  Runs = {r1, r2}
  Clicks = {k1}
  Candidates = {c1}
  Heads = {h1, h2}
  MaxAttempt = 1
  MaxTime = 1
  Nothing = Nothing
SYMMETRY RunSymmetry
PROPERTIES ClickIsTrue
CHECK_DEADLOCK FALSE
