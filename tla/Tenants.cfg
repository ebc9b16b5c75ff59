SPECIFICATION TenantSpec
CONSTANTS
  ann = ann
  bob = bob
  Users = {ann, bob}
  SystemAdmins = {bob}
  GivenRoles = {"admin", "guest"}
  MemberIds = {1, 2}
  TenantRequests = {t1, t2}
  NoOne = NoOne
SYMMETRY Interchangeable
CHECK_DEADLOCK FALSE
INVARIANTS
  TenantTypeOK
PROPERTIES
  AppearsWithOwner
  DeactivatedStays
  RemovedStaysRemoved
  Frozen
