SPECIFICATION Spec
CONSTANTS
  Cutovers = {c1, c2}
  Attempts = 2
  MaxSignals = 2
  Invocations = {p1, p2, p3}
  Polls = 2
  Backups = {b1, b2}
  Databases = {d1, d2}
  Archives = {a1}
  MaxTime = 1
  MaxEvents = 4
INVARIANTS TypeOK RedeployFits PublishedIsWhole PassNamesItsOwn InventoryIsTrue
PROPERTIES PassWasAnswered RestoredOrTold DriftIsKept DataSurvives IntakePassIsServed AppliedAsReviewed
