SPECIFICATION FairSpec
CONSTANTS
  Addresses <- MCThree
  FoldOf <- MCFoldOf
  Domains <- MCDomains
  DomainOf <- MCDomainOf
  GroupIds <- MCThreeGroups
  ContextKeys <- MCContextKeys
  IdentityKeys <- MCIdentityKeys
  Names <- MCNames
  Blank = Blank
  Malformed = Malformed
  PageSize = 2
  Styles = {"count"}
  Workers = 2
  Roles <- MCTwoRoles
  GroupRank <- MCThreeRanks
  AccessUserLists <- OneAccessUser
  InitialDirectories <- TwoOrThree
  GroupSets <- EditedGroups
  GroupVersions <- SomeVersions
  MaxMembers = 3
  MaxEdits = 1
  MaxAccessEdits = 0
  MaxGroupEdits = 1
  MaxFinds = 1
  MaxCrashes = 0
  Sought <- OneSought
  Expiry = FALSE
CHECK_DEADLOCK FALSE
INVARIANTS EveryGroupFetched PrincipalsWereSynced GrantsWereGiven SteadyGrantsFound
PROPERTY SyncEnds
