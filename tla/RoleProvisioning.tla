-------------------------- MODULE RoleProvisioning --------------------------
(***************************************************************************)
(* Granting, revoking and reporting account roles.  roleBuilder.Grant and  *)
(* roleBuilder.Revoke find the user's member in the account's member       *)
(* listing, read the member (GET, cache bypassed) and replace its roles,   *)
(* or its policies once it has any (PUT).  userBuilder.List reports roles  *)
(* from the same listing.  Both go through it page by page, and the SDK's  *)
(* HTTP client caches each page until a sync ends or its entry expires.    *)
(* Administrators act in Cloudflare meanwhile.                             *)
(***************************************************************************)
EXTENDS Provisioner

CONSTANTS
  Members,           \* account members, numbered in the order they are listed
  Users,             \* Cloudflare user IDs
  UserOf,            \* the user behind a member ID, once it has accepted
  Roles,             \* classic account roles
  PermissionGroups,  \* permission groups of policies
  MirrorOf,          \* the group found under a role's name, or None
  None,
  PolicyIds,         \* IDs Cloudflare gives the policies of a member
  PageSize,          \* members on a page
  Requests,          \* requests a task may carry
  InitialAccounts,   \* accounts to start from
  Standings,         \* what an administrator may make of a member
  MaxEdits,          \* bound: edits administrators make
  MaxSyncs,          \* bound: syncs
  LateWrites         \* whether a write the client gave up on may still land

\* A policy; one that is not stored yet has the ID 0.
Policies == [id : PolicyIds \cup {0}, groups : SUBSET PermissionGroups,
             scope : {"account", "zone"}, access : {"allow", "deny"}]

\* A member ID is invited, accepted and removed, and never given out again.
Statuses == {"uninvited", "pending", "accepted", "removed"}

mayBecome == [uninvited |-> {"uninvited", "pending", "accepted"},
              pending   |-> {"pending", "accepted", "removed"},
              accepted  |-> {"accepted", "removed"},
              removed   |-> {"removed"}]

Standing == [status : Statuses, roles : SUBSET Roles, policies : SUBSET Policies]

present(s) == s.status \in {"pending", "accepted"}

\* "Either as legacy Roles or as Policies, never both" (models.go).
eitherOr(roles, policies) == (roles # {}) # (policies # {})

wellFormed(s) == present(s) => eitherOr(s.roles, s.policies)

membersOf(u, a) == {m \in Members : a[m].status = "accepted" /\ UserOf[m] = u}

NoMember == [status |-> "uninvited", roles |-> {}, policies |-> {}]

\* Members as Cloudflare may hold them: a user has one member at a time.
Accounts ==
  {a \in [Members -> Standing] :
     /\ \A m \in Members : wellFormed(a[m])
     /\ \A m, n \in Members : a[m].status = "accepted" /\ a[n].status = "accepted"
                              /\ UserOf[m] = UserOf[n] => m = n}

\* A page of the listing: the members on it, and whether there are more pages.
\* Members that are not on it look uninvited.
Pages == [rows : Accounts, more : BOOLEAN]

ASSUME RoleAssumption ==
  /\ UserOf \in [Members -> Users]
  /\ MirrorOf \in [Roles -> PermissionGroups \cup {None}]
  /\ Members \subseteq Nat
  /\ PageSize \in Nat \ {0}
  /\ None \notin Users \cup Roles \cup PermissionGroups \cup Pages
  /\ PolicyIds \subseteq Nat \ {0}
  /\ Requests \subseteq [op : {"grant", "revoke"}, type : {"user", "other"},
                         user : Users, role : Roles]
  /\ InitialAccounts \subseteq Accounts
  /\ Standings \subseteq Standing
  /\ MaxEdits \in Nat /\ MaxSyncs \in Nat
  /\ LateWrites \in BOOLEAN
  /\ "sync" \notin Tasks

VARIABLES
  account,   \* the account's members as Cloudflare stores them
  edits,     \* how many edits administrators have made
  inflight,  \* writes whose client gave up and that have not landed
  request,   \* per task, the request it carries
  page,      \* per task, and for the sync, the number of the page it is at
  fetched,   \* per task, and for the sync, the page on its way to it
  member,    \* per task, the member ID it found
  snapshot,  \* per task, the member as its call read it
  body,      \* per task, the roles and policies its call writes
  seen,      \* history, per task: how its user stood since the task began
  listing,   \* the pages of the member listing in the HTTP cache, by number
  syncs,     \* how many listings syncs have begun
  syncing,   \* where the sync is
  reported,  \* per user, the roles the sync has reported, or None
  views      \* history, per user: the sets of roles it has had since a sync
             \* last ended, and those on pages then on their way

taskVars == <<request, attempts, result, member, snapshot, body>>
syncVars == <<syncs, syncing, reported>>
vars == <<account, edits, inflight, pc, page, fetched, listing, seen, views,
          taskVars, syncVars>>

Nothing == [roles |-> {}, policies |-> {}]

isGrant(t) == request[t].op = "grant"

(***************************************************************************)
(* What members hold                                                       *)
(***************************************************************************)

\* A role, or a permission group, held on the whole account.
whole(x) == <<x, "account", "allow">>

\* What a member holds, policy by policy and group by group.
held(h) ==
  {whole(r) : r \in h.roles} \cup
  UNION {{<<g, p.scope, p.access>> : g \in p.groups} : p \in h.policies}

\* What a request is about: the role, or the group that mirrors it.
subject(t, h) == IF h.policies # {} THEN MirrorOf[request[t].role] ELSE request[t].role

\* How the task's user stands in an account.
stands(t, a) ==
  LET mine == membersOf(request[t].user, a)
  IN  {how \in {"granted", "revoked", "absent"} :
         \/ how = "absent"  /\ mine = {}
         \/ how = "granted" /\ \E m \in mine : whole(subject(t, a[m])) \in held(a[m])
         \/ how = "revoked" /\ \A m \in mine : \A e \in held(a[m]) : e[1] # subject(t, a[m])}

\* The roles a user is shown to have, once for each member it has: userBuilder
\* skips members with no user ID yet, and does not look at policies.
shown(a, u) == {a[m].roles : m \in membersOf(u, a)}

(***************************************************************************)
(* Pages of the member listing                                             *)
(***************************************************************************)

\* How many members the pages before page p have.
before(p) == (p - 1) * PageSize

listed(a) == {m \in Members : present(a[m])}

place(m, a) == Cardinality({n \in listed(a) : n <= m})

membersOn(p, a) ==
  {m \in listed(a) : before(p) < place(m, a) /\ place(m, a) <= before(p + 1)}

pageOf(p, a) ==
  [rows |-> [m \in Members |-> IF m \in membersOn(p, a) THEN a[m] ELSE NoMember],
   more |-> before(p + 1) < Cardinality(listed(a))]

(***************************************************************************)
(* Bodies of writes                                                        *)
(***************************************************************************)

\* Grant: the role before those there are, or one more policy.
rolesGranted(h, r) == [roles |-> h.roles \cup {r}, policies |-> {}]

policiesGranted(h, g) ==
  [roles |-> {},
   policies |-> h.policies \cup
                {[id |-> 0, groups |-> {g}, scope |-> "account", access |-> "allow"]}]

rolesRevoked(h, r) == [roles |-> h.roles \ {r}, policies |-> {}]

\* Seeded fault: a policy that carries the group is dropped whole.
policiesRevokedWhole(h, g) ==
  [roles |-> {}, policies |-> {p \in h.policies : g \notin p.groups}]

\* Seeded fault: a policy is only stripped if the group is all it carries.
policiesRevokedAlone(h, g) ==
  [roles |-> {}, policies |-> {p \in h.policies : p.groups # {g}}]

\* Seeded fault: one of several policies that carry the group is stripped.
policiesRevokedOnce(h, g) ==
  LET carriers == {p \in h.policies : g \in p.groups}
      first    == CHOOSE p \in carriers : \A q \in carriers : p.id <= q.id
  IN  [roles |-> {},
       policies |-> IF carriers = {} THEN h.policies
                    ELSE (h.policies \ {first}) \cup
                         {p \in {[first EXCEPT !.groups = @ \ {g}]} : p.groups # {}}]

\* Revoke: the group is stripped from every policy, and a policy left with no
\* group is dropped.
policiesRevoked(h, g) ==
  [roles |-> {},
   policies |-> {p \in {[q EXCEPT !.groups = @ \ {g}] : q \in h.policies} : p.groups # {}}]

\* What Cloudflare makes of a body: a new policy gets an ID.
stored(b, id) ==
  [b EXCEPT !.policies = {IF p.id = 0 THEN [p EXCEPT !.id = id] ELSE p : p \in b.policies}]

nextId(b, id) ==
  /\ id \in PolicyIds
  /\ \A p \in b.policies : p.id # id
  /\ \A i \in PolicyIds : i < id => \E p \in b.policies : p.id = i

\* Cloudflare refuses Roles for a member that has Policies.
accepts(s, b) == present(s) /\ (s.policies # {} => b.roles = {})

(***************************************************************************)
(* State                                                                   *)
(***************************************************************************)

TypeOK ==
  /\ account \in Accounts
  /\ edits \in 0..MaxEdits
  /\ inflight \subseteq [member : Members, roles : SUBSET Roles, policies : SUBSET Policies]
  /\ request \in [Tasks -> Requests]
  /\ pc \in [Tasks -> {"queued", "call", "list", "get", "mirror", "put", "ack",
                       "wait", "done"}]
  /\ attempts \in [Tasks -> 0..MaxAttempts + 1]
  /\ result \in [Tasks -> {"none", "ok", "noMember", "failed"}]
  /\ page \in [Tasks \cup {"sync"} -> Nat \ {0}]
  /\ fetched \in [Tasks \cup {"sync"} -> Pages \cup {None}]
  /\ member \in [Tasks -> Members \cup {None}]
  /\ snapshot \in [Tasks -> Standing]
  /\ body \in [Tasks -> [roles : SUBSET Roles, policies : SUBSET Policies]]
  /\ seen \in [Tasks -> SUBSET {"granted", "revoked", "absent"}]
  /\ DOMAIN listing \subseteq Nat \ {0}
  /\ \A p \in DOMAIN listing : listing[p] \in Pages
  /\ syncs \in 0..MaxSyncs
  /\ syncing \in {"idle", "listing", "listed"}
  /\ reported \in [Users -> (SUBSET Roles) \cup {None}]
  /\ views \in [Users -> SUBSET SUBSET Roles]

Init ==
  /\ account \in InitialAccounts
  /\ edits = 0
  /\ inflight = {}
  /\ request \in [Tasks -> Requests]
  /\ pc = [t \in Tasks |-> "queued"]
  /\ attempts = [t \in Tasks |-> 0]
  /\ result = [t \in Tasks |-> "none"]
  /\ page = [x \in Tasks \cup {"sync"} |-> 1]
  /\ fetched = [x \in Tasks \cup {"sync"} |-> None]
  /\ member = [t \in Tasks |-> None]
  /\ snapshot = [t \in Tasks |-> NoMember]
  /\ body = [t \in Tasks |-> Nothing]
  /\ seen = [t \in Tasks |-> {}]
  /\ listing = <<>>
  /\ syncs = 0 /\ syncing = "idle" /\ reported = [u \in Users |-> None]
  /\ views = [u \in Users |-> shown(account, u)]

accountVars == <<account, edits, inflight>>
cacheVars   == <<page, listing, fetched, views>>

\* Cloudflare's account becomes a.
become(a) ==
  /\ account' = a
  /\ seen' = [t \in Tasks |-> IF running(t) THEN seen[t] \cup stands(t, a) ELSE seen[t]]
  /\ views' = [u \in Users |-> views[u] \cup shown(a, u)]

(***************************************************************************)
(* The runner and the retryer                                              *)
(***************************************************************************)

Start(t) ==
  /\ claim(t)
  /\ seen' = [seen EXCEPT ![t] = stands(t, account)]
  /\ UNCHANGED <<accountVars, cacheVars, taskVars, syncVars>>

Resume(t) ==
  /\ callAgain(t)
  /\ UNCHANGED <<accountVars, cacheVars, seen, taskVars, syncVars>>

Cancel(t) ==
  /\ stopWaiting(t)
  /\ UNCHANGED <<accountVars, cacheVars, seen, request, attempts, member, snapshot,
                 body, syncVars>>

(***************************************************************************)
(* The member listing and its cache                                        *)
(***************************************************************************)

\* GET members?page=: a cached response, or what Cloudflare answers, sets out.
fetch(x) ==
  LET p == page[x]
  IN  fetched' = [fetched EXCEPT ![x] = IF p \in DOMAIN listing THEN listing[p]
                                        ELSE pageOf(p, account)]

\* The response arrives and is cached, whatever has happened to the cache
\* since; one that came from the cache is stored again.
receive(x) ==
  /\ fetched[x] # None
  /\ listing' = [p \in DOMAIN listing \cup {page[x]} |->
                   IF p = page[x] THEN fetched[x] ELSE listing[p]]
  /\ fetched' = [fetched EXCEPT ![x] = None]

lose(x) == fetched[x] # None /\ fetched' = [fetched EXCEPT ![x] = None]

turnTo(x, p) == page' = [page EXCEPT ![x] = p]

\* The entry of a page outlives its time, or is evicted.
Expire ==
  /\ \E p \in DOMAIN listing : listing' = [q \in DOMAIN listing \ {p} |-> listing[q]]
  /\ UNCHANGED <<accountVars, pc, page, fetched, seen, views, taskVars, syncVars>>

(***************************************************************************)
(* Grant and Revoke: finding the member                                    *)
(***************************************************************************)

\* Finding the member changes nothing else.
accountAsIs == UNCHANGED <<accountVars, seen, views, request, snapshot, body, syncVars>>

\* The principal is not a user: an error with no code.
Reject(t) ==
  /\ pc[t] = "call"
  /\ request[t].type # "user"
  /\ returnError(t, FALSE)
  /\ UNCHANGED <<page, listing, fetched, member>> /\ accountAsIs

\* findMemberByUserID, at a page's members: the user's member, the next page,
\* or nil, which getMemberId makes a NotFound that is not retried.
findMember(t, at) ==
  LET found == membersOf(request[t].user, at.rows)
  IN  \/ /\ found # {}
         /\ \E m \in found : member' = [member EXCEPT ![t] = m]
         /\ pc' = [pc EXCEPT ![t] = "get"]
         /\ turnTo(t, 1)
         /\ UNCHANGED result
      \/ /\ found = {} /\ at.more
         /\ pc' = [pc EXCEPT ![t] = "call"]
         /\ turnTo(t, page[t] + 1)
         /\ UNCHANGED <<result, member>>
      \/ /\ found = {} /\ ~at.more
         /\ answer(t, "noMember")
         /\ turnTo(t, 1)
         /\ UNCHANGED member

List(t) ==
  /\ pc[t] = "call"
  /\ request[t].type = "user"
  /\ fetch(t)
  /\ pc' = [pc EXCEPT ![t] = "list"]
  /\ UNCHANGED <<attempts, result, page, listing, member>> /\ accountAsIs

Find(t) ==
  /\ pc[t] = "list"
  /\ receive(t)
  /\ findMember(t, fetched[t])
  /\ UNCHANGED attempts /\ accountAsIs

\* A retried call starts from the first page.
ListFails(t) ==
  /\ pc[t] = "list"
  /\ lose(t)
  /\ turnTo(t, 1)
  /\ \E retryable \in BOOLEAN : returnError(t, retryable)
  /\ UNCHANGED <<listing, member>> /\ accountAsIs

(***************************************************************************)
(* Grant and Revoke: reading the member and writing it back                *)
(***************************************************************************)

\* Seeded fault: a body with neither roles nor policies is sent.
writeUnchecked(t, b) ==
  /\ body' = [body EXCEPT ![t] = b]
  /\ pc' = [pc EXCEPT ![t] = "put"]
  /\ UNCHANGED <<attempts, result>>

\* UpdateAccountMember refuses a body that is not roles or else policies.
write(t, b) ==
  \/ /\ eitherOr(b.roles, b.policies)
     /\ body' = [body EXCEPT ![t] = b]
     /\ pc' = [pc EXCEPT ![t] = "put"]
     /\ UNCHANGED <<attempts, result>>
  \/ /\ ~eitherOr(b.roles, b.policies)
     /\ returnError(t, FALSE)
     /\ UNCHANGED body

\* Seeded fault: the member is taken from a cached page where one has it.
accountMemberCached(t) ==
  LET having == {p \in DOMAIN listing : listing[p].rows[member[t]].status = "accepted"}
  IN  IF having = {} THEN account[member[t]]
      ELSE listing[CHOOSE p \in having : TRUE].rows[member[t]]

\* AccountMember bypasses the cache: Cloudflare answers with the member as it is.
accountMember(t) == account[member[t]]

\* AccountMember answers.
Read(t) ==
  /\ pc[t] = "get"
  /\ LET s == accountMember(t)
         r == request[t].role
     IN  /\ present(s)
         /\ snapshot' = [snapshot EXCEPT ![t] = s]
         /\ IF s.policies # {}
            THEN pc' = [pc EXCEPT ![t] = "mirror"] /\ UNCHANGED <<attempts, result, body>>
            ELSE write(t, IF isGrant(t) THEN rolesGranted(s, r) ELSE rolesRevoked(s, r))
  /\ UNCHANGED <<accountVars, cacheVars, seen, request, member, syncVars>>

\* RolePermissionGroup answers with the group that mirrors the role.
Mirror(t) ==
  /\ pc[t] = "mirror"
  /\ LET g == MirrorOf[request[t].role]
         s == snapshot[t]
     IN  /\ g # None
         /\ write(t, IF isGrant(t) THEN policiesGranted(s, g) ELSE policiesRevoked(s, g))
  /\ UNCHANGED <<accountVars, cacheVars, seen, request, member, snapshot, syncVars>>

\* The member is gone, the role has no group, or a call fails.
CallFails(t) ==
  /\ pc[t] \in {"get", "mirror", "put"}
  /\ \E retryable \in BOOLEAN : returnError(t, retryable)
  /\ UNCHANGED <<accountVars, cacheVars, seen, request, member, snapshot, body, syncVars>>

\* Cloudflare carries a write out on a member.
carryOut(m, b) ==
  /\ accepts(account[m], b)
  /\ \E id \in PolicyIds :
       /\ nextId(b, id)
       /\ become([account EXCEPT ![m] = [status   |-> @.status,
                                         roles    |-> b.roles,
                                         policies |-> stored(b, id).policies]])

Apply(t) ==
  /\ pc[t] = "put"
  /\ carryOut(member[t], body[t])
  /\ pc' = [pc EXCEPT ![t] = "ack"]
  /\ UNCHANGED <<edits, inflight, page, listing, fetched, taskVars, syncVars>>

Acknowledge(t) ==
  /\ pc[t] = "ack"
  /\ answer(t, "ok")
  /\ UNCHANGED <<accountVars, cacheVars, seen, request, attempts, member, snapshot,
                 body, syncVars>>

\* The write was carried out, and its answer is lost or cannot be decoded.
LoseAnswer(t) ==
  /\ pc[t] = "ack"
  /\ \E retryable \in BOOLEAN : returnError(t, retryable)
  /\ UNCHANGED <<accountVars, cacheVars, seen, request, member, snapshot, body, syncVars>>

\* The HTTP client times out with the write still on its way.
Abandon(t) ==
  /\ LateWrites
  /\ pc[t] = "put"
  /\ returnError(t, TRUE)
  /\ inflight' = inflight \cup
       {[member |-> member[t], roles |-> body[t].roles, policies |-> body[t].policies]}
  /\ UNCHANGED <<account, edits, cacheVars, seen, request, member, snapshot, body, syncVars>>

Land ==
  \E late \in inflight :
    /\ carryOut(late.member, [roles |-> late.roles, policies |-> late.policies])
    /\ inflight' = inflight \ {late}
    /\ UNCHANGED <<edits, pc, page, listing, fetched, taskVars, syncVars>>

(***************************************************************************)
(* Syncs and administrators                                                *)
(***************************************************************************)

\* A sync starts with an empty store.
SyncBegin ==
  /\ syncing = "idle" /\ syncs < MaxSyncs
  /\ syncs' = syncs + 1
  /\ syncing' = "listing"
  /\ reported' = [u \in Users |-> None]
  /\ UNCHANGED <<accountVars, pc, cacheVars, seen, taskVars>>

SyncAsk ==
  /\ syncing = "listing" /\ fetched["sync"] = None
  /\ fetch("sync")
  /\ UNCHANGED <<accountVars, pc, page, listing, seen, views, taskVars, syncVars>>

\* userBuilder.List on a page, and userBuilder.Grants on the users it made: a
\* user that an earlier page had is stored again.
report(at) ==
  reported' = [u \in Users |->
                 LET mine == membersOf(u, at.rows)
                 IN  IF mine = {} THEN reported[u] ELSE at.rows[CHOOSE m \in mine : TRUE].roles]

SyncReport ==
  /\ syncing = "listing"
  /\ receive("sync")
  /\ report(fetched["sync"])
  /\ \/ /\ fetched["sync"].more
        /\ turnTo("sync", page["sync"] + 1)
        /\ UNCHANGED syncing
     \/ /\ ~fetched["sync"].more
        /\ turnTo("sync", 1)
        /\ syncing' = "listed"
  /\ UNCHANGED <<accountVars, pc, seen, views, taskVars, syncs>>

\* The page fails to come: the syncer asks for it again, or gives the sync up
\* and leaves the caches as they are.
SyncFails ==
  /\ lose("sync")
  /\ \/ UNCHANGED <<page, syncing>>
     \/ turnTo("sync", 1) /\ syncing' = "idle"
  /\ UNCHANGED <<accountVars, pc, listing, seen, views, taskVars, syncs, reported>>

\* What a user has, and what pages on their way show it to have.
stillAround(u) ==
  shown(account, u) \cup
  UNION {shown(fetched[x].rows, u) : x \in {y \in DOMAIN fetched : fetched[y] # None}}

\* Seeded fault: the sync ends and the caches keep what they hold.
SyncEndKeepingCaches ==
  /\ syncing = "listed"
  /\ syncing' = "idle"
  /\ views' = [u \in Users |-> stillAround(u)]
  /\ UNCHANGED <<accountVars, pc, page, listing, fetched, seen, taskVars, syncs, reported>>

\* Cleanup, at the end of a sync, clears the HTTP caches; responses on their
\* way are not called back.
SyncEnd ==
  /\ syncing = "listed"
  /\ syncing' = "idle"
  /\ listing' = <<>>
  /\ views' = [u \in Users |-> stillAround(u)]
  /\ UNCHANGED <<accountVars, pc, page, fetched, seen, taskVars, syncs, reported>>

\* An administrator invites, removes or changes a member, or an invite is
\* accepted.
Edit ==
  /\ edits < MaxEdits
  /\ edits' = edits + 1
  /\ \E m \in Members, s \in Standings :
       /\ s # account[m]
       /\ s.status \in mayBecome[account[m].status]
       /\ [account EXCEPT ![m] = s] \in Accounts
       /\ become([account EXCEPT ![m] = s])
  /\ UNCHANGED <<inflight, pc, page, listing, fetched, taskVars, syncVars>>

Work(t) ==
  \/ Start(t) \/ Reject(t)
  \/ List(t) \/ Find(t) \/ ListFails(t)
  \/ Read(t) \/ Mirror(t) \/ CallFails(t)
  \/ Apply(t) \/ Acknowledge(t) \/ LoseAnswer(t) \/ Abandon(t)
  \/ Resume(t) \/ Cancel(t)

Sync == SyncBegin \/ SyncAsk \/ SyncReport \/ SyncFails \/ SyncEnd

Next == (\E t \in Tasks : Work(t)) \/ Land \/ Sync \/ Expire \/ Edit

Spec == Init /\ [][Next]_vars

(***************************************************************************)
(* Properties                                                              *)
(***************************************************************************)

\* However writes, late writes and administrators interleave, a member of the
\* account always has roles or policies, never both and never neither:
\* UpdateAccountMember refuses to revoke the last of either.
MembersStayWellFormed == \A m \in Members : wellFormed(account[m])

\* A request answered with success was true at some moment of its task, under
\* the model of access the member was then on: the role, or an account-wide
\* policy for its mirror group, held after Grant; neither the role nor any
\* policy that carries the group after Revoke.
AnswersWereTrue ==
  \A t \in Tasks :
    result[t] = "ok" => (IF isGrant(t) THEN "granted" ELSE "revoked") \in seen[t]

\* A write built on the member as it still is adds or takes away what the
\* request is about and nothing else the member holds, the groups that share
\* a policy with it included; and a Revoke leaves none of what retried Grants
\* left several times over.
OnlyTheRoleMoves ==
  [][\A t \in Tasks :
       LET was == snapshot[t]
           is  == account'[member[t]]
       IN  Apply(t) /\ was = account[member[t]] =>
             held(is) = IF isGrant(t) THEN held(was) \cup {whole(subject(t, was))}
                        ELSE {e \in held(was) : e[1] # subject(t, was)}]_vars

\* Whatever filled the pages it goes through, at whatever moments, a sync
\* reports of each user a set of roles the user had at one moment since a sync
\* last cleared the caches, or that a page then on its way showed: nothing an
\* earlier sync saw is reported again, and no two moments of a user are mixed.
ReportsRecentRoles ==
  syncing # "idle" => \A u \in Users : reported[u] \in views[u] \cup {None}

\* "A nil member with a nil error means no account member has this user ID"
\* (helpers.go): a task told so had at some moment no member for its user.
NilMeansNoMember ==
  \A t \in Tasks : result[t] = "noMember" => "absent" \in seen[t]

(***************************************************************************)
(* One task at a time, no other writer: users hold sets of things          *)
(***************************************************************************)

\* What each user that is a member holds.
holdings(a) ==
  [u \in {v \in Users : membersOf(v, a) # {}} |-> UNION {held(a[m]) : m \in membersOf(u, a)}]

\* What a request names: a user, and what its role is on the user's model.
named(t, a) ==
  LET mine == membersOf(request[t].user, a)
  IN  [op   |-> request[t].op,
       who  |-> IF request[t].type = "user" THEN request[t].user ELSE None,
       what |-> IF request[t].type = "user" /\ mine # {}
                THEN subject(t, a[CHOOSE m \in mine : TRUE]) ELSE None]

Promise == INSTANCE RoleAssignment WITH
  Things  <- Roles \cup PermissionGroups,
  Nobody  <- None,
  Nothing <- None,
  holds   <- holdings(account),
  asked   <- [t \in Tasks |-> named(t, account)],
  status  <- [t \in Tasks |-> IF running(t) THEN "running"
                              ELSE IF pc[t] = "queued" THEN "queued" ELSE result[t]]

\* Sequential provisioning keeps the promise of RoleAssignment, however old
\* the listing it finds the member in.
KeepsPromise == Promise!Spec

=============================================================================
