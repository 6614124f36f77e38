---------------------------- MODULE AccountSync ----------------------------
(***************************************************************************)
(* One sync.  The SDK's syncer lists users, groups and roles, plans a job  *)
(* for each group it stored, and lists that group's grants.  Each call of  *)
(* a builder is one page: what it returns is stored and its page token     *)
(* checkpointed.  Workers take up jobs and see each through to its last    *)
(* page.  Pages of members pass through the HTTP cache, which              *)
(* findMemberByUserID shares: a lookup, a call if the page is not there,   *)
(* and a fill, with other callers in between.  Groups are read afresh for  *)
(* every page.  Calls may fail.  Administrators change Access users,       *)
(* members and groups meanwhile.                                           *)
(***************************************************************************)
EXTENDS AccessRules, Paging

CONSTANTS
  Styles,              \* paging metadata Cloudflare may answer with
  Workers,             \* workers of the syncer
  Roles,               \* the account's roles, in Cloudflare's order
  GroupRank,           \* Cloudflare's order of groups
  AccessUserLists,     \* Access users the account may have
  InitialDirectories,  \* members the account may start with
  GroupSets,           \* Access groups the account may start with
  GroupVersions,       \* what administrators may make of a group
  MaxMembers,          \* bound: members at a time
  MaxEdits,            \* bound: edits of members
  MaxAccessEdits,      \* bound: edits of Access users
  MaxGroupEdits,       \* bound: edits of groups
  MaxFinds,            \* bound: searches by provisioning tasks
  MaxCrashes,          \* bound: crashes of the connector
  Sought,              \* users that tasks search the members for
  Expiry               \* whether cached pages expire

\* A member; a pending one has no user ID yet.  Users are named by address.
Entries == [user : Addresses, pending : BOOLEAN]

\* The function f, with v at x.
with(f, x, v) == [y \in {x} \cup DOMAIN f |-> IF y = x THEN v ELSE f[y]]

usersOf(rows) == {rows[i].user : i \in {j \in DOMAIN rows : ~rows[j].pending}}

\* A job lists the resources of a type or the grants of a group.
Listings == {"users", "groups", "roles"}
Jobs     == Listings \cup GroupIds

\* Those who list members: jobs, and the search for a provisioning task.
Callers == Jobs \cup {"finder"}

ASSUME SyncAssumption ==
  /\ Styles \subseteq {"pages", "count", "none"}
  /\ Workers \in Nat \ {0}
  /\ Roles \in Seq(ToSet(Roles))
  /\ GroupRank \in [GroupIds -> Nat] /\ IsInjective(GroupRank)
  /\ GroupIds \cap (Listings \cup Addresses \cup {"finder"}) = {}
  /\ AccessUserLists \subseteq Seq(Addresses)
  /\ \A list \in InitialDirectories :
       /\ list \in Seq(Entries)
       /\ Len(list) <= MaxMembers
       /\ \A i, j \in DOMAIN list : list[i].user = list[j].user => i = j
  /\ \A gs \in GroupSets : DOMAIN gs \subseteq GroupIds /\ Range(gs) \subseteq Groups
  /\ GroupVersions \subseteq Groups
  /\ Sought \subseteq Addresses
  /\ {MaxMembers, MaxEdits, MaxAccessEdits, MaxGroupEdits, MaxFinds, MaxCrashes} \subseteq Nat
  /\ Expiry \in BOOLEAN

VARIABLES
  style,         \* the paging metadata Cloudflare answers with
  accessUsers,   \* the account's Access users, in Cloudflare's order
  groups,        \* the account's Access groups, by ID
  directory,     \* the account's members, in Cloudflare's order
  edits,         \* how many edits of members there have been
  accessEdits,   \* how many edits of Access users
  groupEdits,    \* how many edits of groups
  cache,         \* the pages of members in the HTTP cache, with their answers
  call,          \* per caller with a call under way, the answer to it
  phase,         \* where the sync is
  todo,          \* the jobs of the phase that are not finished
  bag,           \* per job, the page token of its next call
  resources,     \* per user, the resource stored for it
  storedGroups,  \* the groups stored
  storedRoles,   \* the roles stored
  grants,        \* the grants stored, as <<group, user>>
  nested,        \* the expandable grants stored, as <<group, nested group>>
  logged,        \* the groups logged to have rules that were skipped
  finder,        \* the search under way
  finds,         \* how many searches have begun
  crashes,       \* how many crashes there have been
  stayed,        \* history: the groups that are there since the sync began
  versions,      \* history: per group, what it has been since the sync began
  owed,          \* history: the Access users that are there since the sync
                 \* began, or none once one has left
  overwritten    \* history: whether a fill replaced a cached page by another

upstream == <<style, accessUsers, groups, directory, edits, accessEdits, groupEdits>>
network  == <<cache, call, overwritten>>
store    == <<resources, storedGroups, storedRoles, grants, nested, logged>>
cursor   == <<phase, todo, bag>>
finding  == <<finder, finds>>
history  == <<stayed, versions, owed>>
vars     == <<upstream, network, cursor, store, finding, crashes, history>>

Page == Nat \ {0}

Idle == [user |-> Blank, page |-> 0]

unstarted == [j \in Jobs |-> <<>>]

Init ==
  /\ style \in Styles
  /\ accessUsers \in AccessUserLists
  /\ groups \in GroupSets
  /\ directory \in InitialDirectories
  /\ edits = 0 /\ accessEdits = 0 /\ groupEdits = 0
  /\ cache = <<>> /\ call = <<>> /\ overwritten = FALSE
  /\ phase = "before" /\ todo = {} /\ bag = unstarted
  /\ resources = [a \in Addresses |-> "none"]
  /\ storedGroups = {} /\ storedRoles = {} /\ grants = {} /\ nested = {} /\ logged = {}
  /\ finder = Idle /\ finds = 0
  /\ crashes = 0
  /\ stayed = {} /\ versions = [g \in GroupIds |-> {}] /\ owed = {}

\* A state of a page bag.
States == [type : {"access_users", "account_members"} \cup Jobs, token : Nat]

\* A page of members as it was answered.
MembersPage(answered) ==
  answered.rows \in Seq(Entries) /\ Len(answered.rows) <= PageSize

TypeOK ==
  /\ style \in Styles /\ accessUsers \in Seq(Addresses)
  /\ DOMAIN groups \subseteq GroupIds /\ Range(groups) \subseteq Groups
  /\ directory \in Seq(Entries) /\ Len(directory) <= MaxMembers
  /\ edits \in 0..MaxEdits /\ accessEdits \in 0..MaxAccessEdits
  /\ groupEdits \in 0..MaxGroupEdits
  /\ finds \in 0..MaxFinds /\ crashes \in 0..MaxCrashes
  /\ DOMAIN cache \subseteq Page /\ \A p \in DOMAIN cache : MembersPage(cache[p])
  /\ DOMAIN call \subseteq todo \cup {"finder"}
  /\ \A x \in DOMAIN call : MembersPage(call[x])
  /\ overwritten \in BOOLEAN
  /\ phase \in {"before", "resources", "grants", "done", "failed"}
  /\ phase \in {"before", "done", "failed"} => todo = {}
  /\ phase = "resources" => todo \subseteq Listings
  /\ phase = "grants" => todo \subseteq storedGroups
  /\ bag \in [Jobs -> Seq(States)]
  /\ \A j \in Jobs :
       /\ Len(bag[j]) <= IF j = "users" THEN 2 ELSE 1
       /\ bag[j] # <<>> => j \in todo
  /\ resources \in [Addresses -> {"none", "access", "member"}]
  /\ storedGroups \subseteq GroupIds /\ storedRoles \subseteq ToSet(Roles)
  /\ grants \subseteq storedGroups \X Addresses
  /\ nested \subseteq storedGroups \X GroupIds
  /\ logged \subseteq storedGroups
  /\ finder = Idle \/ finder \in [user : Addresses, page : Page]
  /\ "finder" \in DOMAIN call => finder # Idle
  /\ stayed \subseteq GroupIds
  /\ versions \in [GroupIds -> SUBSET Groups]
  /\ owed \subseteq ToSet(accessUsers)

(***************************************************************************)
(* Jobs, workers and page tokens                                           *)
(***************************************************************************)

started == {j \in todo : bag[j] # <<>> \/ j \in DOMAIN call}

\* A worker takes up a job and sees it through.
mayRun(j) == j \in todo /\ (j \in started \/ Cardinality(started) < Workers)

\* Seeded fault: the two states are pushed in the order they are listed in.
userBagFifo ==
  IF bag["users"] = <<>> THEN Push(Push(<<>>, "access_users"), "account_members")
  ELSE bag["users"]

userBag ==
  IF bag["users"] = <<>> THEN Push(Push(<<>>, "account_members"), "access_users")
  ELSE bag["users"]

\* The plain token of the other listings is a bag of one state.
jobBag(j) ==
  CASE j = "users" -> userBag
    [] j # "users" /\ bag[j] = <<>> -> Push(<<>>, j)
    [] OTHER -> bag[j]

kind(j)   == Last(jobBag(j)).type
pageAt(j) == parsePageToken(Last(jobBag(j)).token)

\* The token the call returned is checkpointed; a job without one is over.
advance(j, token) ==
  LET b == NextToken(jobBag(j), token)
  IN  /\ bag' = [bag EXCEPT ![j] = b]
      /\ todo' = IF b = <<>> THEN todo \ {j} ELSE todo
      /\ UNCHANGED phase

(***************************************************************************)
(* What a call lists                                                       *)
(***************************************************************************)

\* ListAccountMembers is answered from the cache, or by Cloudflare.
answer(page) ==
  IF page \in DOMAIN cache THEN cache[page]
  ELSE [rows |-> pageOf(directory, page), info |-> resultInfo(style, Len(directory))]

\* The HTTP client looks the page up and, if it is not there, calls.
ask(x, page) == call' = with(call, x, answer(page))

hangUp(callers) == call' = Restrict(call, DOMAIN call \ callers)

\* The answer arrives and is put in the cache, over what is there by now; a
\* page that was in the cache is put back too.
receive(x, page) ==
  /\ cache' = with(cache, page, call[x])
  /\ overwritten' = (overwritten \/ (page \in DOMAIN cache /\ cache[page] # call[x]))
  /\ hangUp({x})

membersNext(x, page) == nextPageToken(page, call[x].info, Len(call[x].rows))

\* Whether the job's next call lists members.
listsMembers(j) == j \in GroupIds \/ (j = "users" /\ kind(j) = "account_members")

\* Cloudflare's token after a page of any other list.
listNext(list, page) ==
  nextPageToken(page, resultInfo(style, Len(list)), Len(pageOf(list, page)))

\* The groups on a page: so many of those that are there come first.
groupsOn(page) ==
  {g \in DOMAIN groups :
     LET place == Cardinality({h \in DOMAIN groups : GroupRank[h] <= GroupRank[g]})
     IN  (page - 1) * PageSize < place /\ place <= page * PageSize}

groupsNext(page) ==
  nextPageToken(page, resultInfo(style, Cardinality(DOMAIN groups)), Cardinality(groupsOn(page)))

(***************************************************************************)
(* What a call stores                                                      *)
(***************************************************************************)

\* The users on the page, and what their resources are.
usersListed ==
  IF kind("users") = "access_users" THEN ToSet(pageOf(accessUsers, pageAt("users")))
  ELSE usersOf(call["users"].rows)

userKind == IF kind("users") = "access_users" THEN "access" ELSE "member"

\* Seeded fault: pending invites are matched against the rules as well.
grantedPending(g) ==
  LET rows == call[g].rows
  IN  {<<g, u>> : u \in {a \in {rows[i].user : i \in DOMAIN rows} :
                           isMember(groups[g], groups[g].include, a)}}

\* Seeded fault: Require and Exclude are left to Cloudflare.
grantedUngated(g) ==
  {<<g, u>> : u \in {a \in usersOf(call[g].rows) :
                       anyRuleMatches(directRules(groups[g].include), a)}}

\* The users on the page that the group admits by its direct rules.
granted(g) ==
  {<<g, u>> : u \in {a \in usersOf(call[g].rows) :
                       isMember(groups[g], groups[g].include, a)}}

firstPage(g) == Last(jobBag(g)).token = NoToken

\* Nested groups, on the first page, unless Require or Exclude restrict them.
expandable(g) ==
  IF firstPage(g) /\ ~restrictsNestedExpansion(groups[g])
  THEN {<<g, n>> : n \in nestedGroupIDs(groups[g].include)} ELSE {}

\* The syncer stores the page each of these jobs is at, a page of members as
\* its call was answered; it keeps the latest observation of a resource.  A
\* group that is gone has no page.
StorePages(jobs) ==
  LET there == jobs \cap DOMAIN groups
  IN  /\ resources' = [a \in Addresses |->
           IF "users" \in jobs /\ a \in usersListed THEN userKind ELSE resources[a]]
      /\ storedGroups' = storedGroups \cup
           IF "groups" \in jobs THEN groupsOn(pageAt("groups")) ELSE {}
      /\ storedRoles' = storedRoles \cup
           IF "roles" \in jobs THEN ToSet(pageOf(Roles, pageAt("roles"))) ELSE {}
      /\ grants' = grants \cup UNION {granted(g) : g \in there}
      /\ nested' = nested \cup UNION {expandable(g) : g \in there}
      /\ logged' = logged \cup {g \in there : firstPage(g) /\ logsSkippedRules(groups[g])}

(***************************************************************************)
(* The sync                                                                *)
(***************************************************************************)

Begin ==
  /\ phase = "before"
  /\ phase' = "resources" /\ todo' = Listings
  /\ stayed' = DOMAIN groups
  /\ versions' = [g \in GroupIds |-> IF g \in DOMAIN groups THEN {groups[g]} ELSE {}]
  /\ owed' = ToSet(accessUsers)
  /\ UNCHANGED <<upstream, network, bag, store, finding, crashes>>

\* A job calls ListAccountMembers.  What it finds in the cache, or Cloudflare
\* answers, may be old when it arrives.
AskMembers(j) ==
  /\ mayRun(j)
  /\ listsMembers(j)
  /\ j \notin DOMAIN call
  /\ j \in GroupIds => j \in DOMAIN groups
  /\ ask(j, pageAt(j))
  /\ UNCHANGED <<upstream, cache, overwritten, cursor, store, finding, crashes, history>>

\* A call of userBuilder.List, over the Access users and then the members.
ListUsers ==
  /\ mayRun("users")
  /\ \/ /\ kind("users") = "access_users"
        /\ advance("users", listNext(accessUsers, pageAt("users")))
        /\ UNCHANGED network
     \/ /\ kind("users") = "account_members"
        /\ "users" \in DOMAIN call
        /\ advance("users", membersNext("users", pageAt("users")))
        /\ receive("users", pageAt("users"))
  /\ StorePages({"users"})
  /\ UNCHANGED <<upstream, finding, crashes, history>>

\* A call of groupBuilder.List.
ListGroups ==
  /\ mayRun("groups")
  /\ StorePages({"groups"})
  /\ advance("groups", groupsNext(pageAt("groups")))
  /\ UNCHANGED <<upstream, network, finding, crashes, history>>

\* A call of roleBuilder.List.
ListRoles ==
  /\ mayRun("roles")
  /\ StorePages({"roles"})
  /\ advance("roles", listNext(Roles, pageAt("roles")))
  /\ UNCHANGED <<upstream, network, finding, crashes, history>>

\* Each group stored becomes a job; roles are marked to have no grants.
PlanGrants ==
  /\ phase = "resources" /\ todo = {}
  /\ phase' = "grants" /\ todo' = storedGroups
  /\ UNCHANGED <<upstream, network, bag, store, finding, crashes, history>>

\* A call of groupBuilder.Grants: the group is read afresh, then a page of
\* members through the cache.  Between that read and this step nobody else
\* reads the group, so an edit of it meanwhile is as one after the step.
ListGrants(g) ==
  /\ mayRun(g)
  /\ g \in DOMAIN groups /\ g \in DOMAIN call
  /\ StorePages({g})
  /\ advance(g, membersNext(g, pageAt(g)))
  /\ receive(g, pageAt(g))
  /\ UNCHANGED <<upstream, finding, crashes, history>>

\* Seeded fault: NotFound is an error like others, and the call is repeated.
SkipGrantsRetrying(g) ==
  /\ mayRun(g)
  /\ g \notin DOMAIN groups
  /\ UNCHANGED vars

\* The group is gone: NotFound is a warning, and the job is over.
SkipGrants(g) ==
  /\ mayRun(g)
  /\ g \notin DOMAIN groups
  /\ bag' = [bag EXCEPT ![g] = <<>>]
  /\ todo' = todo \ {g}
  /\ hangUp({g})
  /\ UNCHANGED <<upstream, cache, overwritten, phase, store, finding, crashes, history>>

Finish ==
  /\ phase = "grants" /\ todo = {}
  /\ phase' = "done"
  /\ UNCHANGED <<upstream, network, todo, bag, store, finding, crashes, history>>

Sync ==
  \/ Begin \/ ListUsers \/ ListGroups \/ ListRoles \/ PlanGrants \/ Finish
  \/ \E j \in Jobs : AskMembers(j)
  \/ \E g \in GroupIds : ListGrants(g) \/ SkipGrants(g)

\* A call fails with an error that may be transient: the syncer makes it again,
\* as often as it takes.  (Of the other listings, which nobody shares, such a
\* failure leaves no trace.)
CallFails(j) ==
  /\ j \in DOMAIN call
  /\ hangUp({j})
  /\ UNCHANGED <<upstream, cache, overwritten, cursor, store, finding, crashes, history>>

\* A call fails with another error: the sync ends there, its workers' calls
\* with it, and the file it stored into is removed.  (The connector run once
\* stops instead, and the next run resumes: a crash.)
Abort ==
  /\ todo # {}
  /\ phase' = "failed" /\ todo' = {} /\ bag' = unstarted
  /\ hangUp(Jobs)
  /\ resources' = [a \in Addresses |-> "none"]
  /\ storedGroups' = {} /\ storedRoles' = {} /\ grants' = {} /\ nested' = {} /\ logged' = {}
  /\ UNCHANGED <<upstream, cache, overwritten, finding, crashes, history>>

(***************************************************************************)
(* Crashes, the cache, searches, administrators.  The sync that is modelled*)
(* is over when it has ended: what they do after it is left out.           *)
(***************************************************************************)

ended == phase \in {"done", "failed"}

\* The sync resumes with these jobs, none of them begun.
resumeAt(p, jobs) == phase' = p /\ todo' = jobs /\ bag' = unstarted

\* The connector stops; its cache and its calls are gone.  What it stored
\* stays, the pages its workers were at perhaps among it.  The last checkpoint
\* is of the page, or, as checkpoints are only taken between batches and not
\* within ten seconds of each other, of the start of this phase or of the one
\* before.
Crash ==
  /\ phase \in {"resources", "grants"}
  /\ crashes < MaxCrashes
  /\ crashes' = crashes + 1
  /\ \E running \in SUBSET {j \in todo : mayRun(j) /\ (listsMembers(j) => j \in DOMAIN call)} :
       /\ Cardinality(running \cup started) <= Workers
       /\ StorePages(running)
  /\ \/ UNCHANGED cursor
     \/ resumeAt("resources", Listings)
     \/ phase = "grants" /\ resumeAt("grants", storedGroups)
  /\ cache' = <<>> /\ call' = <<>>
  /\ finder' = Idle
  /\ UNCHANGED <<upstream, overwritten, finds, history>>

\* An hour is over, or the cache is full.
Expire ==
  /\ Expiry /\ ~ended
  /\ \E p \in DOMAIN cache : cache' = Restrict(cache, DOMAIN cache \ {p})
  /\ UNCHANGED <<upstream, call, overwritten, cursor, store, finding, crashes, history>>

\* findMemberByUserID, for a role grant or revoke: page by page until the
\* user or the last page is found.
StartFind ==
  /\ ~ended
  /\ finder = Idle /\ finds < MaxFinds
  /\ finds' = finds + 1
  /\ \E u \in Sought : finder' = [user |-> u, page |-> 1]
  /\ UNCHANGED <<upstream, network, cursor, store, crashes, history>>

FindAsks ==
  /\ ~ended
  /\ finder # Idle /\ "finder" \notin DOMAIN call
  /\ ask("finder", finder.page)
  /\ UNCHANGED <<upstream, cache, overwritten, cursor, store, finding, crashes, history>>

FindPage ==
  /\ ~ended
  /\ "finder" \in DOMAIN call
  /\ receive("finder", finder.page)
  /\ LET next == membersNext("finder", finder.page)
     IN  finder' = IF finder.user \in usersOf(call["finder"].rows) \/ next = NoToken
                   THEN Idle ELSE [finder EXCEPT !.page = next]
  /\ UNCHANGED <<upstream, cursor, store, finds, crashes, history>>

\* Its call fails: the task is over, or tries again from the first page.
FindFails ==
  /\ ~ended
  /\ "finder" \in DOMAIN call
  /\ hangUp({"finder"})
  /\ finder' \in {Idle, [finder EXCEPT !.page = 1]}
  /\ UNCHANGED <<upstream, cache, overwritten, cursor, store, finds, crashes, history>>

\* An invite, an acceptance, a removal.
EditMembers ==
  /\ ~ended /\ edits < MaxEdits
  /\ edits' = edits + 1
  /\ \/ /\ Len(directory) < MaxMembers
        /\ \E e \in Entries :
             /\ \A i \in DOMAIN directory : directory[i].user # e.user
             /\ directory' = Append(directory, e)
     \/ \E i \in DOMAIN directory :
          /\ directory[i].pending
          /\ directory' = [directory EXCEPT ![i].pending = FALSE]
     \/ \E i \in DOMAIN directory : directory' = RemoveAt(directory, i)
  /\ UNCHANGED <<style, accessUsers, groups, accessEdits, groupEdits, network, cursor, store,
                 finding, crashes, history>>

\* An Access user joins, anywhere in the list, or leaves, until the sync has
\* listed them; it would notice a later edit only if it fell back to list them
\* again, as one then.
EditAccessUsers ==
  /\ "users" \in todo /\ kind("users") = "access_users"
  /\ accessEdits < MaxAccessEdits
  /\ accessEdits' = accessEdits + 1
  /\ \/ /\ \E a \in Addresses \ ToSet(accessUsers), i \in 1..Len(accessUsers) + 1 :
             accessUsers' = InsertAt(accessUsers, i, a)
        /\ UNCHANGED owed
     \/ /\ \E i \in DOMAIN accessUsers : accessUsers' = RemoveAt(accessUsers, i)
        /\ owed' = {}
  /\ UNCHANGED <<style, groups, directory, edits, groupEdits, network, cursor, store, finding,
                 crashes, stayed, versions>>

\* A group is changed, made, or deleted, while a sync is under way.
EditGroup(g) ==
  /\ phase \in {"resources", "grants"} /\ groupEdits < MaxGroupEdits
  /\ groupEdits' = groupEdits + 1
  /\ \/ /\ g \in DOMAIN groups \/ versions[g] = {}
        /\ \E v \in GroupVersions :
             /\ groups' = with(groups, g, v)
             /\ versions' = [versions EXCEPT ![g] = @ \cup {v}]
        /\ UNCHANGED stayed
     \/ /\ g \in DOMAIN groups
        /\ groups' = Restrict(groups, DOMAIN groups \ {g})
        /\ stayed' = stayed \ {g}
        /\ UNCHANGED versions
  /\ UNCHANGED <<style, accessUsers, directory, edits, accessEdits, network, cursor, store,
                 finding, crashes, owed>>

Next ==
  \/ Sync \/ Abort \/ \E j \in Jobs : CallFails(j)
  \/ Crash \/ Expire \/ StartFind \/ FindAsks \/ FindPage \/ FindFails
  \/ EditMembers \/ EditAccessUsers \/ \E g \in GroupIds : EditGroup(g)

Spec == Init /\ [][Next]_vars

\* The syncer calls on until every job is over, and calls that are made again
\* and again do not fail for ever.
FairSpec ==
  Spec /\ WF_vars(Sync) /\ SF_vars(ListUsers \/ \E g \in GroupIds : ListGrants(g))

(***************************************************************************)
(* Properties                                                              *)
(***************************************************************************)

\* "So that a sync fetches every user" (users.go): the syncer goes on to grants
\* with every Access user that was there throughout, whoever joined among them,
\* unless one left and moved the others up a place; and, if no member was
\* edited, with every account member as a member, so with its role_ids, even
\* one that is an Access user too.
EveryUserFetched ==
  phase \in {"grants", "done"} =>
    /\ \A a \in owed : resources[a] # "none"
    /\ edits = 0 => \A u \in usersOf(directory) : resources[u] = "member"

\* Every role, and every group that was there throughout, is stored before
\* grants are listed, whatever the metadata, unless a group was deleted and
\* moved the others up a place.
EveryGroupFetched ==
  phase \in {"grants", "done"} =>
    /\ storedRoles = ToSet(Roles)
    /\ (\A g \in GroupIds : versions[g] # {} => g \in DOMAIN groups)
         => stayed \subseteq storedGroups

\* A grant never names a user the sync has no resource for, though members
\* join, accept and leave between the two listings: pending invites are
\* skipped by both, and both see the same cached pages, unless two callers
\* missed a page at once and the later fill brought an answer that differs.
PrincipalsWereSynced ==
  ~overwritten => \A gr \in grants : resources[gr[2]] # "none"

\* The group admits the user by its direct rules, or lets those of a nested
\* group in by expansion.
lets(group, u)    == isMember(group, group.include, u)
expands(group, n) == n \in nestedGroupIDs(group.include) /\ ~restrictsNestedExpansion(group)

\* A group's pages are matched against different versions of it, its nested
\* groups are those of one version.  Still each grant and each expandable
\* grant is one that some version during the sync gives.
GrantsWereGiven ==
  /\ \A gr \in grants : \E v \in versions[gr[1]] : lets(v, gr[2])
  /\ \A gn \in nested : \E v \in versions[gn[1]] : expands(v, gn[2])

\* A sync that ends has the grants that every version of a group gives to
\* members that did not change, on whichever pages and in whichever versions
\* it came upon them.
SteadyGrantsFound ==
  phase = "done" /\ edits = 0 =>
    \A g \in stayed \cap storedGroups :
      /\ \A u \in usersOf(directory) :
           (\A v \in versions[g] : lets(v, u)) => <<g, u>> \in grants
      /\ \A n \in GroupIds :
           (\A v \in versions[g] : expands(v, n)) => <<g, n>> \in nested

\* The group lets the user in, where others let in those of into: by a rule of
\* its Include list or a group nested there, with Require and Exclude having the
\* last word.  claims are the rules the connector cannot resolve that hold.
letsIn(into, claims, g, u) ==
  /\ letsPass(groups[g], claims, u)
  /\ \/ includes(groups[g], claims, u)
     \/ \E m \in nestedGroupIDs(groups[g].include) : <<m, u>> \in into

\* Whom Cloudflare admits to these groups, which nest no others: those let in,
\* however deep they nest.
admitted(among, claims) ==
  LET pairs == among \X usersOf(directory)
  IN  {gr \in pairs : \A into \in SUBSET pairs :
         (\A other \in pairs : letsIn(into, claims, other[1], other[2]) => other \in into)
           => gr \in into}

\* No group that is there is nested in one of these, but them.
closed(among) == \A g \in among : nestedGroupIDs(groups[g].include) \cap DOMAIN groups \subseteq among

\* What C1 makes of the grants: they spread along expandable grants.
expanded ==
  LET pairs == GroupIds \X Addresses
  IN  {gr \in pairs : \A into \in SUBSET pairs :
         /\ grants \subseteq into
         /\ \A gn \in nested, u \in Addresses : <<gn[2], u>> \in into => <<gn[1], u>> \in into
         => gr \in into}

\* Expanded, the grants of groups of which nothing is logged, nor of those they
\* nest, never name a user Cloudflare keeps out, whichever of the rules that the
\* connector cannot resolve hold; and they name every user it admits if none of
\* the groups restricts what it nests.
ExpansionIsSound ==
  phase = "done" /\ edits = 0 /\ groupEdits = 0 =>
    \A among \in SUBSET (DOMAIN groups \ logged) : closed(among) =>
      LET reported == {gr \in expanded : gr[1] \in among}
          rules    == UNION {groups[g].include \cup groups[g].require \cup groups[g].exclude
                             : g \in among}
      IN  \A claims \in SUBSET {rule \in rules : opaque(rule)} :
            /\ reported \subseteq admitted(among, claims)
            /\ (\A g \in among : restrictsNestedExpansion(groups[g])
                                 => nestedGroupIDs(groups[g].include) = {})
                 => reported = admitted(among, claims)

\* "Every group carrying such a rule is logged at sync time"
\* (docs/connector.mdx): wherever the direct grants of a group are not those
\* of Cloudflare, as they may be for every way the rules that were skipped
\* turn out, the sync has logged that it skipped some.
DifferencesAreLogged ==
  phase = "done" /\ edits = 0 /\ groupEdits = 0 =>
    \A g \in DOMAIN groups, u \in usersOf(directory) :
      LET rules == groups[g].include \cup groups[g].require \cup groups[g].exclude
      IN  \A claims \in SUBSET {rule \in rules : opaque(rule)} :
            admits(groups[g], claims, u) # (<<g, u>> \in grants) => g \in logged

\* A sync comes to an end, though groups it has planned for are deleted and
\* calls fail and are made again.
SyncEnds == <>ended

=============================================================================
