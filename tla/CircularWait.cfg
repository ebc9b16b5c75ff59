SPECIFICATION FairDirectSpec
CONSTANTS
  r1 = r1
  r2 = r2
  r3 = r3
  q1 = q1
  q2 = q2
  Runs = {r1, r2, r3}
  NoRun = NoRun
  StepLists <- OnlyWait
  Target = "none"
  Final = "none"
  InitialState = "ready"
  MaxRetries = 1
  MaxCrashes = 0
  Requests = {}
  Offered = {"power_action"}
CHECK_DEADLOCK FALSE
PROPERTY EveryRunEnds
