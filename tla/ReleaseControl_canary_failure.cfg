SPECIFICATION Spec
CONSTANTS
  Jobs = {j1, j2, j3}
  Runs = {r1, r2}
  Manifests = {m1, m2}
  Workloads = {w1, w2}
  Images = {v0, v1, v2}
  Runners = {u1, s1, k1}
  StagingRunners = {s1}
  CanaryRunners = {k1}
  NoManifest = NoManifest
  NoRun = NoRun
  j1 = j1  j2 = j2
  m1 = m1  m2 = m2  w1 = w1  w2 = w2  v0 = v0  v1 = v1  v2 = v2
  r1 = r1  r2 = r2  s1 = s1  k1 = k1  u1 = u1
  CandidateImage <- MCCandidateImage
  PreviousImage <- MCPreviousImage
  Dispatches <- FailureDispatches
SYMMETRY JobSymmetry
PROPERTIES CanaryFailureRollsBack
