SPECIFICATION FairSpec
CONSTANTS
  Addresses <- MCAddresses
  FoldOf <- MCFoldOf
  Domains <- MCDomains
  DomainOf <- MCDomainOf
  GroupIds <- MCGroupIds
  ContextKeys <- MCContextKeys
  IdentityKeys <- MCIdentityKeys
  Names <- MCNames
  Blank = Blank
  Malformed = Malformed
  PageSize = 2
  Styles = {"pages", "none"}
  Workers = 1
  Roles <- MCRoles
  GroupRank <- MCGroupRank
  AccessUserLists <- ThreeAccessUsers
  InitialDirectories <- SomeDirectories
  GroupSets <- NestingGroups
  GroupVersions <- SomeVersions
  MaxMembers = 4
  MaxEdits = 0
  MaxAccessEdits = 1
  MaxGroupEdits = 0
  MaxFinds = 0
  MaxCrashes = 1
  Sought <- OneSought
  Expiry = TRUE
CHECK_DEADLOCK FALSE
INVARIANTS TypeOK EveryUserFetched ExpansionIsSound DifferencesAreLogged
PROPERTY SyncEnds
