SPECIFICATION Spec
CONSTANTS
  Members = {1, 3}
  Users = {"u1", "u2"}
  Roles = {"admin", "audit", "owner"}
  PermissionGroups = {"Admin", "Audit"}
  PolicyIds = {1, 2, 3, 4, 5, 6, 7}
  PageSize = 1
  UserOf <- MCUserOf
  MirrorOf <- MCMirrorOf
  None = None
  Tasks = {t1, t2}
  Slots = 1
  MaxAttempts = 1
  MaxEdits = 0
  MaxSyncs = 0
  LateWrites = FALSE
  InitialAccounts <- TwoPeople
  Standings <- AnyStanding
  Requests <- TwoPeoplesRequests
SYMMETRY Symmetry
CHECK_DEADLOCK FALSE
PROPERTY KeepsPromise
