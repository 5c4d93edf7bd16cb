SPECIFICATION Spec
CONSTANTS
  Runs = {r1, r2}
  Clicks = {k1}
  Candidates = {c1}
  Heads = {h1}
  MaxAttempt = 1
  MaxTime = 1
  Nothing = Nothing
INVARIANTS ClickWatchesItsRun
CHECK_DEADLOCK FALSE
