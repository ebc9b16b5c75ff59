SPECIFICATION ProvSpec
CONSTANTS
  m1 = m1
  j1 = j1
  j2 = j2
  h1 = h1
  Machines = {m1}
  Workflows = {j1, j2}
  MachineOf <- OneMachine
  HostOf <- OneName
  MethodOf <- Tools
  OfferedTypes = {"provision"}
  InitialStates = {"enrolled"}
  MaxRetries = 1
  ProvisionOptions = {}
  CustomTarget = "none"
  CustomFinal = "none"
  CustomSteps <- NoSteps
  Callbacks = {c1}
  MaxFaults = 1
CHECK_DEADLOCK FALSE
INVARIANTS
  ProvTypeOK
  InstallNeedsPrep
  NoCallbackBeforeDispatch
  WaitsForAnInstaller
PROPERTIES
  JobsStayEnded
  JobsLeavePending
