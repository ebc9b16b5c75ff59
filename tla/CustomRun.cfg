SPECIFICATION FairDirectSpec
CONSTANTS
  r1 = r1
  r2 = r2
  r3 = r3
  q1 = q1
  q2 = q2
  Runs = {r1, r2}
  NoRun = NoRun
  StepLists <- Lists
  Target = "maintenance"
  Final = "ready"
  InitialState = "ready"
  MaxRetries = 1
  MaxCrashes = 1
  Requests = {q1}
  Offered = {"power_action", "get_tpm_status"}
CHECK_DEADLOCK FALSE
INVARIANTS
  DirectTypeOK
  NoStepLost
  NoCircularWait
PROPERTIES
  RefinesStore
  EveryRequestAnswered
