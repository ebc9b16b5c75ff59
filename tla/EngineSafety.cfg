SPECIFICATION EngineSpec
CONSTANTS
  m1 = m1
  m2 = m2
  w1 = w1
  w2 = w2
  w3 = w3
  Machines = {m1}
  Workflows = {w1, w2}
  Sessions = {s1, s2, s3}
  NoSession = NoSession
  NoWorkflow = NoWorkflow
  MachineOf <- OneMachine
  OfferedTypes = {"provision", "decommission", "health_check", "custom"}
  InitialStates = {"none", "ready"}
  MaxRetries = 1
  ProvisionOptions = {"configure_bios"}
  CustomTarget = "none"
  CustomFinal = "in_use"
  CustomSteps <- TwoSteps
  PoolSize = 2
  MaxCrashes = 1
SYMMETRY Symmetric
INVARIANTS
  EngineTypeOK
  ExclusiveDrive
  NoTransientCommitted
  RetryBound
  OnlySkippingRunsCollide
PROPERTIES
  UndisturbedDrive
  ImplementsStore
