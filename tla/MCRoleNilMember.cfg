SPECIFICATION Spec
CONSTANTS
  Members = {1, 2}
  Users = {"u1", "u2"}
  Roles = {"admin", "audit", "owner"}
  PermissionGroups = {"Admin", "Audit"}
  PolicyIds = {1, 2, 3, 4, 5, 6, 7}
  PageSize = 1
  UserOf <- MCUserOf
  MirrorOf <- MCMirrorOf
  None = None
  Tasks = {t1}
  Slots = 1
  MaxAttempts = 1
  MaxEdits = 1
  MaxSyncs = 1
  LateWrites = FALSE
  InitialAccounts <- OnePerson
  Standings <- AnyStanding
  Requests <- RoleChanges
CHECK_DEADLOCK FALSE
INVARIANT NilMeansNoMember
