CONSTANTS
  NodeID = {n1}
  HbHandler = {h1, h2}
  FailureTimeout = 3
SPECIFICATION RegistrySpec
INVARIANTS
  RegistryTypeOK
  PunctualNeverDown
PROPERTIES
  RunningBecomesHealthy
  StoppedBecomesDown
  GaugeConverges
