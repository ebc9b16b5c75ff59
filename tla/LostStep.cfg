SPECIFICATION DirectSpec
CONSTANTS
  r1 = r1
  r2 = r2
  r3 = r3
  q1 = q1
  q2 = q2
  Runs = {r1, r2}
  NoRun = NoRun
  StepLists <- OneList
  Target = "maintenance"
  Final = "ready"
  InitialState = "ready"
  MaxRetries = 1
  MaxCrashes = 1
  Requests = {}
  Offered = {"power_action", "get_tpm_status"}
CHECK_DEADLOCK FALSE
INVARIANT CompletedMeansAllSteps
