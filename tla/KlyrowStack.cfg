SPECIFICATION Spec
CONSTANTS
  Invocations = {p1, p2}
  AtOnce = 1
  Services = {gateway, worker}
  Gateway = gateway
  Disturbances = {"fault", "kill", "expire", "inputs", "mail"}
INVARIANTS TypeOK
PROPERTIES PassIsTrue DeploySettles
