SPECIFICATION Spec
CONSTANTS
  Invocations = {p1}
  AtOnce = 1
  Services = {gateway, worker}
  Gateway = gateway
  Disturbances = {"expire"}
PROPERTIES FailedDeployIsRolledBack
