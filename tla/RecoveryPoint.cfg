SPECIFICATION FairSpec
CONSTANTS
  Files = {f1, f2}
  MaxVersion = 1
INVARIANTS TypeOK AcceptedIsOneMoment OffsiteIsVerified NothingLeftBehind
PROPERTIES Ends
CHECK_DEADLOCK FALSE
