SPECIFICATION FairSpec
CONSTANTS
  Invocations = {p1, p2}
  AtOnce = 2
  Services = {gateway, worker}
  Gateway = gateway
  Disturbances = {"fault", "kill", "expire"}
INVARIANTS UnapprovedUntouched
PROPERTIES Ends
