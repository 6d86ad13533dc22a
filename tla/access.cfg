SPECIFICATION Spec
CONSTANTS
  u1 = u1
  u2 = u2
  Users <- TwoUsers
  FirstAdmins <- OneAdmin
  AccessTTL = 3
  MaxDelay = 1
  MaxFaults = 1
  Limit = 2
  Window = 3
INVARIANTS
  RoleIsRecent
  LimitHolds
PROPERTY LastAdminFallsToAnother
