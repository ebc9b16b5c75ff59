SPECIFICATION FairEngineSpec
CONSTANTS
  m1 = m1
  m2 = m2
  w1 = w1
  w2 = w2
  w3 = w3
  Machines = {m1}
  Workflows = {w1, w2}
  Sessions = {s1, s2}
  NoSession = NoSession
  NoWorkflow = NoWorkflow
  MachineOf <- OneMachine
  OfferedTypes = {"decommission", "health_check", "custom"}
  InitialStates = {"enrolled"}
  MaxRetries = 1
  ProvisionOptions = {"configure_bios"}
  CustomTarget = "none"
  CustomFinal = "in_use"
  CustomSteps <- TwoSteps
  PoolSize = 2
  MaxCrashes = 0
INVARIANT NoOrphanedWorkflow
PROPERTY EveryWorkflowSettles
