SPECIFICATION FirmwareSpec
CONSTANTS
  h1 = h1
  h2 = h2
  h3 = h3
  b1 = b1
  b2 = b2
  Hosts = {h1, h2, h3}
  Baselines = {b1, b2}
  Applies <- MostApply
  Versions = {1, 2, 3, 4}
  NoRules = {4}
  Scans = {s1}
SYMMETRY Symmetry
CHECK_DEADLOCK FALSE
INVARIANTS
  FirmwareTypeOK
  ScanIsComplete
  ReportsKeepTheirRows
  OneRuleSet
