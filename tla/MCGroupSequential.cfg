SPECIFICATION Spec
CONSTANTS
  Addresses <- MCAddresses
  FoldOf <- MCFoldOf
  Domains <- MCDomains
  DomainOf <- MCDomainOf
  GroupIds <- MCGroupIds
  ContextKeys <- MCContextKeys
  IdentityKeys <- MCIdentityKeys
  Names <- MCNames
  Blank = Blank
  Malformed = Malformed
  Tasks = {t1, t2}
  Slots = 1
  MaxAttempts = 1
  MaxEdits = 0
  LateWrites = FALSE
  InitialGroups <- ManyGroups
  AdminGroups <- EditedGroups
  Requests <- TwoSpellings
CHECK_DEADLOCK FALSE
PROPERTY KeepsPromise
