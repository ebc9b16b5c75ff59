SPECIFICATION EngineSpec
CONSTANTS
  m1 = m1
  m2 = m2
  w1 = w1
  w2 = w2
  w3 = w3
  Machines = {m1}
  Workflows = {w1, w2}
  Sessions = {s1, s2}
  NoSession = NoSession
  NoWorkflow = NoWorkflow
  MachineOf <- OneMachine
  OfferedTypes = {"provision", "decommission"}
  InitialStates = {"ready"}
  MaxRetries = 0
  ProvisionOptions = {"configure_bios"}
  CustomTarget = "maintenance"
  CustomFinal = "ready"
  CustomSteps <- TwoSteps
  PoolSize = 2
  MaxCrashes = 0
PROPERTY LifecycleFollowed
