# A verification project for baton-cloudflare-zero-trust

The connector reads an organisation's Cloudflare Zero Trust account for
ConductorOne, C1 (Access users, account members, account roles, Access groups
and who holds them) and grants and revokes group membership and account roles.
The modules here model its decision logic and its concurrency: what the
provisioning code does to a group or a member that others change at the same
time, what a failed, lost or late write may leave behind, what a sync of many
pages reports of an account that moves, and how the client keeps to Cloudflare's
rate limits.

The connector itself is `src/cmd` and `src/pkg`; everything else under `src` is
vendored. The parts of the vendored SDK (`baton-sdk`) that schedule the
connector's code, retry it, cache its reads and page its listings decide what
interleavings exist, and they are modelled with it.

## 1. The system

| Part | Source | State | Operations |
|---|---|---|---|
| Access rule evaluation | `pkg/connector/access_rules_helper.go` | none | match a rule against an address; split an Include list; decide membership; decide whether nested groups may be expanded; tell which rules are skipped |
| Group provisioning | `pkg/connector/groups.go` 262-458 | none of its own: the group lives in Cloudflare, each call holds the copy it read | `Grant`, `Revoke` |
| Group sync | `groups.go` 32-260, `pagination.go` | page token | `List`, `Entitlements`, `Grants` |
| User sync | `pkg/connector/users.go` | page token with two endpoints in one bag | `List`, `Grants` (from the `role_ids` of the profile) |
| Role provisioning | `pkg/connector/roles.go` 106-296, `helpers.go` | the copy of the member a call read | `Grant`, `Revoke`, `findMemberByUserID` |
| Role sync | `roles.go` 33-104 | page token | `List` |
| Cloudflare client | `pkg/client/*.go` | none | list, read, replace; paging metadata |
| Rate limits | `pkg/client/helpers.go` 111-279, vendored `ratelimit/http.go` | none | read the headers of an answer, attach them to an error |
| Request limiter | vendored `go.uber.org/ratelimit`, `uhttp/wrapper.go` | one word, the slot of the last permit | `Take` |
| Task runner, retryer | vendored `connectorrunner`, `connectorbuilder`, `retry` | a slot semaphore; the count of failed calls per task | run a task in a goroutine of its own, wait, call again, answer |
| HTTP cache | vendored `uhttp` | responses to GETs, with a time to live of one hour | fill, answer from, expire, clear at the end of a sync |
| Syncer, page bag | vendored `sync`, `pagination` | the phase, the jobs and their page tokens, checkpointed; the store | plan jobs, run them on workers page by page, store, resume |
| Wiring, configuration, errors | `connector.go`, `resource_types.go`, `errors.go`, `config/`, `main.go` | none | construction and declarations |

How they interact:

- The **runner** starts a goroutine for each provisioning task while a slot is
  free (three by default) and does not look at what the tasks are about: two
  tasks on one group, or on one member, run at the same time, and beside a sync.
- A task calls **Grant or Revoke**, which reads (GET with the cache bypassed),
  decides, and replaces the whole group or the member's whole role or policy
  list (PUT). No lock or precondition connects the read and the write.
- The **retryer** calls the whole operation again after an error coded
  Unavailable or DeadlineExceeded, at the time the rate-limit headers of the
  error name or after a delay that grows. The write it failed on may or may not
  have been carried out, or may be carried out later.
- Every call of every task and worker takes a permit of one **limiter**, calls
  that the HTTP cache answers included.
- The **syncer** lists users, groups and roles, then plans a job for each group
  it stored and lists that group's grants. Workers run jobs side by side; each
  page is stored and its token checkpointed.
- **Role provisioning finds its member** in the account member listing, which
  goes through the HTTP cache. The same cached pages serve `userBuilder.List`,
  `groupBuilder.Grants` and every other search, until a sync ends. A page is
  looked up when a call sets out and cached when its answer arrives; callers that
  miss it at once do not wait for each other.
- **Administrators** act in the Cloudflare dashboard between any two steps.

What is hard here: two writers on one record, decisions on a copy, a PUT whose
outcome is unknown, caches shared by readers of different freshness and filled
in an order of their own, page numbers over a list that moves, groups that change between their pages, rules
whose meaning (who is admitted) is not what the connector edits (which rule
names whom), and several clocks that have to agree on when to call again.
`PROJECT.json` lists each hazard at its line, with the properties that would
notice it going wrong.

What makes each part correct:

- *Rules*: a rule that names an address admits it; dropping the rules that name
  an address changes nobody else; Cloudflare's Require and Exclude win; where
  skipped rules make a difference, the group is logged.
- *Group provisioning*: the Include list is never emptied; answers are true;
  only the named user moves; a grant can be undone; a task is answered.
- *Role provisioning*: a member never ends without roles and policies or with
  both; answers are true; only the role, or its mirror group, moves.
- *Sync*: everybody and every group is listed that nothing moved up a page; the
  roles reported of a user are those it had at one recent moment; a group grant
  is one that a version of the group gave, and names somebody the sync reported
  as long as cached pages are not replaced by other answers; of groups whose
  rules the connector can resolve, expansion never claims a membership
  Cloudflare denies (of the others it may, as `docs/connector.mdx` 85-93 says,
  and they are logged); a sync ends.
- *Rate limits*: permits are spaced; a refused task comes back when the
  policies that refused it are reset, neither before nor much later.

## 2. The modules

| Module | Builds on | Theorems about it | Instances for TLC |
|---|---|---|---|
| `AccessRules` | | `AccessRulesProofs` | those of the modules that use it |
| `Provisioner` | | `GroupProvisioningProofs`, `RoleProvisioningProofs` | those of the modules that use it |
| `GroupProvisioning` | `AccessRules`, `Provisioner`, `GroupMembership` (implements it) | `GroupProvisioningProofs`, `GroupRefinementProofs` | `MCGroupProvisioning` |
| `RoleProvisioning` | `Provisioner`, `RoleAssignment` (implements it) | `RoleProvisioningProofs`, `RoleRefinementProofs` | `MCRoleProvisioning` |
| `Paging` | | `AccountSyncProofs` | those of `AccountSync` |
| `AccountSync` | `AccessRules`, `Paging` | `AccountSyncProofs`, `SyncCompletenessProofs` | `MCAccountSync` |
| `Throttle`, `RateLimitHeaders` | | `RateLimitingProofs` | those of `RateLimiting` |
| `RateLimiting` | `Throttle` (implements it), `RateLimitHeaders` | `RateLimitingProofs` | `MCRateLimiting` |

**AccessRules** holds the pure decisions of `access_rules_helper.go` and of
`groups.go` on an Include list, one operator for each Go function and named
after it. A rule is a record of the key of its JSON object and the value under
it; rules with an unusable value and elements that are no object are members of
`Rules` too. Addresses are an abstract set with a folding function (`FoldOf`,
for `strings.EqualFold`) and a domain (`DomainOf`, Blank where `emailDomain`
finds none). `admits` is Cloudflare's own evaluation, for every way the rules
the connector cannot resolve may turn out.

**Provisioner** is what the SDK does for each task: claim a slot, count failed
calls, wait, call again, answer. The group and role modules extend it.

**GroupProvisioning** is `groupBuilder.Grant` and `Revoke` on one group. The
state is the stored group, the PUTs that outlive their client (`inflight`), and
for each task its place, the copy it read (`snapshot`) and the Include list it
is about to write. Each network call is split where the world can move: the
GET answers and the code decides on it (`Read`: the decision involves no
further call), the PUT is carried out (`Apply`), its answer arrives
(`Acknowledge`) or does not (`LoseAnswer`), is not carried out (`WriteFails`),
or is given up on by the client and carried out later (`Abandon`, `Land`).

**GroupMembership** is the promise: a group is a set of users; a request moves
its user at most once and nobody else; an answer tells the truth about the set
at that moment; a failure promises nothing. `GroupProvisioning` with one slot
and no other writer implements it (`KeepsPromise`): `members` is the set of
folded addresses that `isMember` admits under direct rules, so the refinement
crosses the gap between rules edited and users admitted.

**RoleProvisioning** is `roleBuilder.Grant` and `Revoke` on the members of an
account, together with what shares their cached listing: `userBuilder.List` and
`Grants` of a sync. A member holds classic roles or policies. A task goes
through the search, page by page, the GET of the member, the lookup of the
permission group that mirrors the role when the member is on policies, and the
PUT. Members are numbered in the order they are listed; `pageOf` is the page
Cloudflare answers with, `listing` the pages in the cache, each of its own age,
and `page` the page a task or the sync is at. A page on its way (`fetched`) is
what the cache had, or Cloudflare, when the call set out (`fetch`); it is put
into the cache when it arrives (`receive`), even if it came from there and the
cache was cleared in between, as the wrapper does.

**RoleAssignment** is the promise: each user that is a member holds a set of
things, a role or a permission group, on the account or a zone, allowed or
denied. A request gives its user the one thing it names on the whole account, or
takes that thing away wherever the user holds it; nobody else is touched, nobody
is left with nothing, and an answer tells the truth. `RoleProvisioning` with one
slot and no other writer implements it (`KeepsPromise`): what a user holds is
`holdings`, flattened out of the roles or policies of its member, and what a
request names (`named`) is the role, or the group that mirrors it once the member
is on policies. Policies, their IDs, bundles and repetitions are gone in the
promise, and so are the listing and its cache: however old the page the member
was found on, the write must be built on a fresh read. With two tasks at once it
does not hold, any more than for groups.

**Paging** is the client's page arithmetic and the SDK's bag. **AccountSync** is
one sync through it. Its jobs are the listings of users, groups and roles and
then one for each group stored; `mayRun` is the pool of workers. `ListUsers`,
`ListGroups`, `ListRoles` and `ListGrants(g)` are one call of a builder each,
with what it returned stored (`StorePages`) and its token checkpointed
(`advance`). Where a builder lists members, the call sets out in a step before
(`AskMembers`), with what the cache has or Cloudflare answers then (`ask`), and
the page is cached when the call is over (`receive`), over what others have put
there since. A call that fails is made again (`CallFails`), or the sync ends
with it (`Abort`). Meanwhile Access users, members and groups change
(`EditAccessUsers`, `EditMembers`, `EditGroup`), a provisioning task searches the
same pages (`FindAsks`, `FindPage`, `FindFails`), cached pages expire, and the
connector crashes: the cache is lost, the store stays, the pages at hand may have
been stored before their tokens were, and the sync resumes at that checkpoint,
at the start of its phase, or at the start of the one before.

**Throttle** is the limiter, each of whose calls reads the clock, loads the
shared word and tries to swap it. **RateLimitHeaders** is what the client and
the SDK make of the headers of an answer. **RateLimiting** composes both with
Cloudflare's policies and the retryer: tasks of several calls take permits, are
served or refused, wait and start over.

Names that start with *Seeded fault* in their comment are plausible slips (a
dropped guard, a swapped order, a check on the wrong question). No action uses
them. Each stands in for the definition after it in one entry of the
`mutants` list of `PROJECT.json`: with it in place, the property named there
fails, which shows that the property constrains that code.

## 3. The runs

| Run | Instance | Checks |
|---|---|---|
| `MCGroupSequential` | one slot, two tasks, one retry, every Include list of one or two rules of nine kinds with Require and Exclude lists, two spellings of one address | `KeepsPromise` |
| `MCGroupConcurrent` | two slots, two tasks, one retry, one edit, late writes | `TypeOK`, `NeverEmptyInclude`, `AnswersWereTrue`, `GrantCanBeRevoked`, `OnlyTheUserMoves`, and under fairness `EveryTaskAnswered` |
| `MCGroupStaleCopy` | two tasks that revoke | finds `AnsweredChangesStay` violated |
| `MCRoleConcurrent` | two slots, two tasks, one retry, late writes, one member on roles or on (bundled, zone, deny) policies, expiring pages | `TypeOK`, `AnswersWereTrue`, `OnlyTheRoleMoves` |
| `MCRoleSequential` | one slot, two tasks, one retry, two people of whom one may still be invited, members on roles, on plain and on (bundled, zone, deny) policies, a role without a mirror group, pages of one member that are cached and expire one by one | `KeepsPromise` |
| `MCRoleSync` | one task, two members on a page each, two edits, two syncs, failing calls, late writes, roles with and without a mirror group | `MembersStayWellFormed`, `AnswersWereTrue`, `ReportsRecentRoles` |
| `MCRoleNilMember` | one task, one sync, one edit | finds `NilMeansNoMember` violated |
| `MCSyncStatic` | members and groups stand still, and one of three Access users leaves or one joins; directories of zero to two pages of two, full and short last pages, paging metadata or none, two groups that may nest each other and hold unresolvable rules, failing calls, a crash, expiring cache entries | `TypeOK`, `EveryUserFetched`, `ExpansionIsSound`, `DifferencesAreLogged`, and under fairness `SyncEnds` |
| `MCSyncEdits` | two workers, two or three members of whom one may be pending, an edit of members and one of groups (changed, made, deleted), one search by a provisioning task, overlapping and failing calls, no expiry | `EveryGroupFetched`, `PrincipalsWereSynced`, `GrantsWereGiven`, `SteadyGrantsFound`, and under fairness `SyncEnds` |
| `MCRateLimits` | two tasks of two calls, one retry, a burst policy and a longer one, another program's call, an outage, all combinations of headers that are read differently | `TypeOK`, `PermitsAreSpaced`, `RetryAfterReset`, `RetryIsPrompt` |
| `MCRateQuota` | one task of six calls, a policy as generous as the limiter's rate | finds `NeverOverQuota` violated |
| `MCRateEarly` | one task, a window longer than the longest delay | finds `RetryAfterReset` violated |

Why these bounds show something. Group and role provisioning touch one record,
so one group is every group; every disagreement between tasks needs two of
them, one to read and one to write in between, and a third adds a second writer
of the same kind. One retry is the shortest run in which an operation meets the
effect of its own lost write; a second repeats it. One edit suffices to make a
copy stale, two to move a member away and back. `Rules` has every class the code
distinguishes, and an Include list of two rules has every pair of an edited
rule and one that stays. Policies of a member are numbered from 1 to 7: two tasks
that both make two calls add four at most to the three it may start with, so an
ID is never wanting. Pages hold one member in the role runs, so that two members
are two pages that are cached and lost apart, and two rows in the sync runs, so
that listings below, at and above a page boundary have at most four. Nothing
tells the tasks of `MCRoleSequential` apart, which is why it may identify states
that differ by a permutation of them (`SYMMETRY`). Two groups suffice to nest each other; `MCSyncEdits` has the ID of a third
that an administrator may make. In `RateLimiting` a unit of time is the 250 ms
between two permits, and quotas and windows are scaled down with it: what
matters is which of them is shorter, and that two tasks meet in the limiter.
`CHECK_DEADLOCK FALSE` is in every configuration because the modelled system
does stop: all tasks answered, the sync done, the edits used up.

The bounds are the constants `MaxEdits`, `MaxAccessEdits`, `MaxGroupEdits`, `MaxSyncs`,
`MaxFinds`, `MaxCrashes`, `MaxMembers`, `MaxOthers`, `MaxOutages` (all of them
on what the environment does), `PolicyIds`, and `Horizon`, how far time runs.
`MaxAttempts`, `Slots`, `PageSize`, `Workers`, `Per`, `Slack`, `InitialDelay`,
`MaxDelay`, `DefaultWait` and `Calls` are the code's own parameters; a scaled
`DefaultWait` and `MaxDelay` keep the order they have in the code, where both
are 60 seconds.

### Fairness

`GroupProvisioning!FairSpec` has weak fairness of each task's `Work`. Each step
of a task is bounded in the code: an HTTP call by the client's timeout
(`uhttp/client.go` 77-101), a wait by the retryer's delay (at most 60 seconds,
`retry.go` 80-142), and a task has a goroutine of its own, so no other task
holds it back except for its slot, which another task's answer frees. Nothing is
assumed of administrators or late writes. `AccountSync!FairSpec` has weak
fairness of `Sync`: a worker calls a job again until it returns no token, and
the syncer goes on to the next phase when none is left. It has strong fairness of
the calls that page members, because the syncer's retryer has no limit
(`parallel_syncer.go` 158-162): a call that keeps failing is made again until it
does not, and one that fails for ever keeps the sync from ending in the code as
well. Searches, expiry,
crashes and administrators are under no fairness; that crashes and edits are
bounded is an assumption of the liveness properties.

## 4. What the runs found

Four statements in the repository's own words do not hold of the code
(`findings` in `PROJECT.json` quotes each):

1. `client.go` 115-116: a write is "never built on a stale copy". Bypassing the
   cache makes the read fresh; another task's write can fall between the read
   and the write. Two tasks revoke two users: both read the group, the first
   removes its user and is answered with success, the second writes what it read
   without its own user, and the first one's user is back.
2. `helpers.go` 77-78: nil means that no member has the user ID. The page
   may have been cached before the member accepted its invite.
3. `client.go` 64-66: requests are throttled so as not to go over Cloudflare's
   quota. The rate is the quota exactly, and the limiter's default slack lets a
   client that was idle send ten calls more within one window.
4. `client/helpers.go` 125-126: the later reset wins "so the retryer never comes
   back before the server will accept requests". The retryer cuts every wait to
   60 seconds (`retry.go` 121); the window may have minutes to run.

Five more observations, for which there is no run:

- `users.go` 27-28 says that both lists of users are paged "so that a sync fetches
  every user". Paging is by page number: whoever is removed from a page already
  fetched moves another one onto it, Access user or member, and a member that
  joins may be past the end of a listing cached before. `EveryUserFetched`
  therefore speaks of Access users only as long as none leaves (they may join),
  and of members only as long as none is edited.
- Two callers that miss a page of members at once both call, and the answer that
  arrives last is the one cached, be it the older or the newer. A search by a
  provisioning task that asks before a member is removed, and is answered after
  the users' job has listed and cached that page without it, puts the member
  back into the cache, where `groupBuilder.Grants` finds it: a grant for a user
  the sync never listed, with no expiry and no crash. `PrincipalsWereSynced`
  therefore excepts syncs in which a fill replaced a page by another answer
  (`overwritten`); without that exception TLC finds the trace in `MCSyncEdits`.
- `docs/connector.mdx` 128-130 says that name, Require and Exclude are "written
  back unchanged". They are written back as they were read; an administrator's
  edit in between is undone, by the same interleaving as in the first finding.
- `roles.go` 229-231 says that a role is revoked from a member on policies by
  removing "the equivalent Policy". `policiesRevoked` takes the group out of
  every policy, zone-scoped and deny policies included.
- A contextual rule in Include is skipped without a log line when evaluable
  rules stand beside it. It decides on requests and not on who is a member, so
  `DifferencesAreLogged` does not count it as a difference.

## 5. The proofs

All theorems hold for every value of the constants under the named assumptions
of the modules, which say what the code and Cloudflare give: no address folds to
the empty one and addresses that fold alike have one domain (`FoldAssumption`),
the classes of rule keys are apart (`KeyAssumption`), slots and retries are
positive (`ProvisionerAssumption`), requests, groups, accounts and directories
are well typed, Cloudflare never holds a group without Include
(`ProvisioningAssumption`) nor two accepted members of one user
(`RoleAssumption`, which also keeps `None` apart from users, roles and groups), and pages hold at least one row (`PageSizeAssumption`,
`SyncAssumption`; likewise `ThrottleAssumption`).

| Module | Theorem | States |
|---|---|---|
| `GroupProvisioningProofs` | `ProvisioningInvariant` | `Spec => []ProvisioningInv`, the inductive invariant |
| | `TypeCorrect` | `Spec => []TypeOK` |
| | `IncludeNeverEmptied` | `Spec => []NeverEmptyInclude` |
| | `AnswersAreTrue` | `Spec => []AnswersWereTrue` |
| | `GrantsAreRevocable` | `Spec => []GrantCanBeRevoked` |
| | `NobodyElseMoves` | `Spec => OnlyTheUserMoves` |
| `GroupRefinementProofs` | `SequentialKeepsPromise` | with one slot, no edits and no late writes, `Spec => KeepsPromise` |
| `RoleProvisioningProofs` | `RolesInvariant` | `Spec => []RolesInv`, the inductive invariant |
| | `RolesTypeCorrect` | `Spec => []TypeOK` |
| | `NobodyLeftBare` | `Spec => []MembersStayWellFormed` |
| | `RoleAnswersAreTrue` | `Spec => []AnswersWereTrue` |
| | `ReportsAreRecent` | `Spec => []ReportsRecentRoles` |
| | `NothingElseMoves` | `Spec => OnlyTheRoleMoves` |
| `RoleRefinementProofs` | `SequentialRolesKeepPromise` | with one slot, no edits and no late writes, `Spec => KeepsPromise`, for any page size |
| `AccessRulesProofs` | `SilentGroupsAreExact` | a group nothing is logged about is reported as Cloudflare admits |
| | `SkippingOverReports` | without an unresolvable direct rule, whoever Cloudflare admits is reported |
| `AccountSyncProofs` | `SyncTypeCorrect` | `Spec => []TypeOK` |
| | `GrantsComeFromRules` | `Spec => []GrantsWereGiven` |
| | `PrincipalsSynced` | without expiry and crashes, `Spec => []PrincipalsWereSynced`, which excepts syncs in which a fill replaced a page by another |
| | `EveryoneFetched` | `Spec => []EveryUserFetched`, though Access users join anywhere in their listing |
| `SyncCompletenessProofs` | `SteadyGrantsAreFound` | `Spec => []SteadyGrantsFound` |
| | `EveryGroupIsFetched` | with finitely many groups, `Spec => []EveryGroupFetched` |
| | `DifferencesAreAlwaysLogged` | with finitely many groups, `Spec => []DifferencesAreLogged` |
| | `ExpansionSound` | with finitely many groups, `Spec => []ExpansionIsSound`, which is about groups nothing is logged about |
| `RateLimitingProofs` | `LimiterSpacesPermits` | `ThrottleSpec => []PermitsAreSpaced` |
| | `TasksUseTheLimiter` | `Spec => ThrottleSpec`: the composed system implements the limiter's |
| | `CallsAreSpaced` | `Spec => []PermitsAreSpaced` |
| | `RateTypeCorrect` | `Spec => []TypeOK` |
| | `NeverEarly` | `Spec => []NotEarly`: a refused task calls again no sooner than the reset, or than the longest delay after the refusal, whichever is earlier |
| | `RetriesAfterReset` | where no window outlasts the longest delay, `Spec => []RetryAfterReset` |
| | `RetriesArePrompt` | `Spec => []RetryIsPrompt` |

**Group provisioning.** `AnswersWereTrue` is not inductive: nothing in it says
what a task about to write holds. `ProvisioningInv` adds, for each task: what it
will write follows from what it read and does what was asked (`PendingWrite`);
while a task runs, the group's present answer about its user is in the task's
history; and once the PUT is carried out, the answer asked for is.
`PendingWrite` speaks of the copy alone, which is why no step of another task,
an administrator or a late write can disturb it (lemma `Undisturbed`). The proof
has one lemma for each kind of step, and `NextPreserves` splits `Next` among
them. `GrantCanBeRevoked` and `OnlyTheUserMoves` follow from the same invariant
with lemmas about the rule operators: an appended rule admits its address
(`AppendAdmits`), dropping or adding rules that name an address moves no other
(`EditsMoveNobodyElse`), and filtering undoes appending when nothing named the
address before (`FilterUndoesAppend`).

**The promise.** `AloneInv` says that only one task runs, that no write is out,
and that the copy a task read is still the group (`TaskAlone`): the facts that
concurrency takes away. Each kind of step then maps to one step of
`GroupMembership` or to a stutter, under a mapping that folds addresses
(`MembershipFolds`). Beside `OneAtATime` it assumes finitely many tasks, since
slots are counted with `Cardinality`.

**Role provisioning.** `RolesInv` adds to types and answers: late writes carry
roles or policies and never both (`LateInv`); every page, cached or on its way,
shows of each user sets of roles it had since the caches were last cleared, and
as accepted only members that have accepted by now (`ListingsInv`);
and what a task is about to write follows from the copy it read and goes to its
own user's member (`TaskInv`), which uses that a member ID belongs to one user
for good. That a body differs from its copy by the thing asked for and nothing
else (`WriteMovesTheRole`) is used twice: for `NothingElseMoves`, where the copy
is still the member, and for the promise.

**The promise about roles.** `RoleRefinementProofs` has the shape of the one about
groups. What concurrency takes away is again in `AloneInv`: only one task runs, no
write is out, the copy a task read is still the member. New is that every page,
cached or on its way, shows the members Cloudflare would answer with
(`PagesInv`), which makes a search through old pages as good as one through new
ones, and that a search has not gone past the member it is for (`SoughtAhead`),
so that it ends in nil only where there is none. Since places on pages are
counted, members are assumed finitely many, like tasks. Nobody's
status or model of access changes, so requests go on naming what they named
(`NamesStand`); a carried out write moves one user's set (`OneUserMoves`) and
leaves something in it (`NobodyIsLeftBare`).

**The sync.** `TypeOK` needs the shapes of page bags (`CursorOK`): a users job
has one of two, and `Own` is that of the others. `GrantsWereGiven` needs that
what a group is now is among its versions (`VersionsInv`). `PagesInv`, for
`PrincipalsWereSynced`, says that the cached pages before the one at hand are
covered and that each leads to the next, so that the listings of grants
(`ListedUpTo`) can only walk pages the listing of users went through and end
where it ended; all that holds until a fill replaces a page by another answer,
which is where the property stops. `FetchedInv`, for `EveryUserFetched`, says that everyone on the
pages before the one at hand is fetched, and, as long as no member is edited,
that cached pages are what Cloudflare still answers (`TruthStep`);
`LastPageEnds` and `EveryPlaceListed` are the page arithmetic that turns this
into everyone once the client stops. Access users may join meanwhile: none of those
there throughout moves to an earlier place (`OnlyJoined`), so whoever is not
fetched yet is still ahead (`AccessBefore`). It needs no assumption on expiry and
crashes, where `PrincipalsSynced` needs one and none on edits.

**Completeness of a sync.** `SteadyInv`, for `SteadyGrantsFound`, follows the job
of one group as `FetchedInv` follows the users job: what every version of the
group gives to members on the pages before the one at hand is granted, and what
the first page tells is known once that page is past; a group that stays is not
skipped. `GroupsInv`, for `EveryGroupFetched`, follows the listing of groups by
their places among those that are there: a group that joins moves others to later
pages only (`PlacesGrow`), and a page that groups go beyond is full (`FullPage`),
so the client goes on even without metadata. `DifferencesAreAlwaysLogged`
composes these with `GrantsWereGiven` and with `SilentGroupsAreExact`, which is
about one group: where nobody edits members or groups, the grants of a group
nothing is logged about are exactly those of its rules. Groups are assumed
finitely many, since places are counted with `Cardinality`.

Whom C1 takes for a member is the least set closed under the grants and the
expandable grants a sync reported; whom Cloudflare admits is the least set closed
under rules that name other groups, where any of the rules the connector cannot
resolve may hold (`claims`). `ExpansionSound` puts each inside the other, for
groups nothing is logged about that nest only such groups; of the others the
connector reports more than Cloudflare admits, as `docs/connector.mdx` says.
Of a group nothing is logged about, both make the same of the direct rules, and
of Require and Exclude (`SilentRules`).
What Cloudflare admits is closed under the grants, because a group is made
expandable only if nothing in it keeps a member of a nested group out
(`ExpandableKeepsNobodyOut`). Conversely the pairs that expansion reaches are
closed under Cloudflare's rules once every group is listed (`GroupsInv`) and its
job is done (`SteadyInv`); that everybody granted is a member there is is an
invariant of its own, `MembersInv`.

**Rate limits.** `SlotsInv` says that the shared word is the slot of the last
permit, that slots are `Per` apart, and that a permit is used at its slot or at
most the slack later; the clock of a caller in the loop started before. `RateInv`
adds to it and to the types what holds of each task: which of its fields go with
the place it is at (`PlaceOk`), that what it was told of is the reset of a policy,
in the past (`ToldOk`), that the headers of a refusal name that reset whenever they
are read (`RefusalOk`), and that whoever is not waiting has waited and whoever
waits does so for long enough (`WaitOk`). The reset that counts is the latest of
several; that a finite set of numbers has a greatest is proved without induction,
from a smallest set that has none (`AttainedMaximum`). `NeverEarly` needs no assumption about windows: a call
comes back before the reset only if that is further away than the longest
delay. `RetriesAfterReset` is what is left of `RetryAfterReset` where that cannot bite
(`WindowsFit`: no window is longer than the longest delay); `MCRateEarly` finds it
violated on the other side of that boundary, where Cloudflare's windows of five
minutes are.

Each invariant that a proof adds was checked by TLC on the constants of the runs
before it was proved.

**Only model-checked.** `EveryTaskAnswered` and `SyncEnds`: liveness under
fairness is outside what TLAPS proves. Every safety property that a passing run
checks has a theorem.

## 6. What is abstracted

- A rule list is a set. No code here depends on order or on a repeated rule;
  the code prepends or appends and filters. Rules with more than one key are
  left out (`ruleKey` returns any one of them; Cloudflare does not store them).
- `strings.EqualFold` is an equivalence, so it is the equality of a folded form;
  domains are compared in folded form as well.
- `GetAccessGroup` decoding a null result into a group without an ID, which
  `UpdateAccessGroupInclude` refuses (`client.go` 307), is one of the failures
  of a call.
- Cloudflare is external: a PUT replaces what it names, or fails; a group with
  no Include and a Roles body for a member with Policies are refused, as the
  code's comments say; new policies get unused IDs. Listing order is stable, new
  members come last, and IDs of groups are not used again.
- Which errors are retryable is left open in the provisioning modules: each
  failure may be either, and every call may fail at any time.
- A page of members is what Cloudflare answers at the moment the call sets out,
  or what the cache has then. An answer is never older than that, and one that is
  younger is as a call that set out later, since nothing else happens to a caller
  between its lookup and the moment it is answered.
- In `RoleProvisioning` Cloudflare's answers have the total number of pages; the
  other kinds of paging metadata are in `AccountSync`. That has the search of
  `findMemberByUserID` too (`FindAsks`, `FindPage`), for what it does to the pages
  the sync reads.
- `ListGrants` reads the group in the step in which its page of members arrives.
  The group is read before, but nobody else reads it in between, so an edit of it
  in between is as one after the step. Only a group that is gone when it is read
  is NotFound; the page of members of one that goes later is left to arrive.
- The other listings have one reader each in a sync, and a call of theirs that
  fails and is made again leaves no trace; `ListUsers` (Access users),
  `ListGroups` and `ListRoles` are therefore one step, and the other way to fail
  is `Abort`.
- Access users are edited until the sync has listed them. A later edit can only
  matter to a sync that falls back and lists them again, and is then as one at
  that time. The sync that is modelled is over once it has ended.
- Cleanup, which clears the caches, runs at the end of a successful sync only
  (`syncer.go` 1205): a failed one leaves them (`SyncFails`). `AccountSync` starts
  with an empty cache all the same, as after a successful sync or a start; what an
  older cache does to a sync is what `RoleProvisioning` shows of roles.
- Only the member listing is cached in `AccountSync`: listings of roles and
  groups are read once in a sync. A user is named by its address. A users' job for grants makes no call
  (`role_ids` are in the profile); `RoleProvisioning` has what it reports.
- More than ten warnings end a sync when they are more than a tenth of what it
  completed; the instances have fewer groups. A resumed sync falls back by one phase at most.
- In `MCSyncEdits` cached pages last as long as the sync (`Expiry` is FALSE and
  there is no crash). With expiry or a crash between the two listings,
  `PrincipalsWereSynced` does not hold: a member that accepts in between is
  granted a membership and was never reported. The time to live is an hour, so
  this is the usual case and not a guarantee for long syncs.
- `ExpansionIsSound` and `DifferencesAreLogged` compare with Cloudflare's state
  at the end, so they speak of accounts that stand still.
- Rate limits: quotas and statuses, which are only reported to C1, are left out,
  and so are the headers of successes, which no decision reads. Header texts are
  numbers, absent or unreadable. Windows are fixed, and refused requests do not
  count. The retryer's division by the remaining count is not reached: on a 429
  the client reports none remaining, and Cloudflare sends none of the older
  headers.

## 7. What is not modelled

Connector wiring and configuration: construction and declarations without state
or decisions. The rendering of rules for profiles and logs (`describe*`),
resource profiles other than `role_ids`, entitlements (constants), credentials,
`Validate`'s probe and JSON decoding: data that no property tells apart. Of the
SDK: its expansion of grants as an algorithm (its result is `expanded`), its
store, and the ledgered mode of the syncer (that of Pebble stores), which records
pages with their tokens instead of checkpointing them apart.

## 8. What could follow

1. `AccountSync` starting from the cache a failed sync left behind.
2. The several kinds of paging metadata in `RoleProvisioning`.
