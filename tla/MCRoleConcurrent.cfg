SPECIFICATION Spec
CONSTANTS
  Members = {1}
  Users = {"u1", "u2"}
  Roles = {"admin", "audit", "owner"}
  PermissionGroups = {"Admin", "Audit"}
  PolicyIds = {1, 2, 3, 4, 5, 6, 7}
  PageSize = 1
  UserOf <- MCUserOf
  MirrorOf <- MCMirrorOf
  None = None
  Tasks = {t1, t2}
  Slots = 2
  MaxAttempts = 1
  MaxEdits = 0
  MaxSyncs = 0
  LateWrites = TRUE
  InitialAccounts <- OnePerson
  Standings <- AnyStanding
  Requests <- RoleChanges
CHECK_DEADLOCK FALSE
INVARIANTS TypeOK AnswersWereTrue
PROPERTIES OnlyTheRoleMoves
