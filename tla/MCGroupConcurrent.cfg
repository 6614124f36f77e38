SPECIFICATION FairSpec
CONSTANTS
  Addresses <- MCAddresses
  FoldOf <- MCFoldOf
  Domains <- MCDomains
  DomainOf <- MCDomainOf
  GroupIds <- MCGroupIds
  ContextKeys <- MCContextKeys
  IdentityKeys <- MCIdentityKeys
  Names <- MCNames
  Blank = Blank
  Malformed = Malformed
  Tasks = {t1, t2}
  Slots = 2
  MaxAttempts = 1
  MaxEdits = 1
  LateWrites = TRUE
  InitialGroups <- FewGroups
  AdminGroups <- EditedGroups
  Requests <- AnnBobAndNoUser
CHECK_DEADLOCK FALSE
INVARIANTS TypeOK NeverEmptyInclude AnswersWereTrue GrantCanBeRevoked
PROPERTIES OnlyTheUserMoves EveryTaskAnswered
