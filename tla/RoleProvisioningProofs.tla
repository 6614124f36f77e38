---------------------- MODULE RoleProvisioningProofs ----------------------
(***************************************************************************)
(* Safety of RoleProvisioning for every set of tasks, requests, members,   *)
(* roles and policies, any number of edits, syncs and late writes.         *)
(***************************************************************************)
EXTENDS RoleProvisioning, TLAPS

Bodies == [roles : SUBSET Roles, policies : SUBSET Policies]

\* The member is, or was until it was removed, the one of the task's user.
FoundMember(t) ==
  /\ member[t] \in Members
  /\ UserOf[member[t]] = request[t].user
  /\ account[member[t]].status \in {"accepted", "removed"}

\* What a task writes follows from the copy it read.
PendingWrite(t) ==
  LET s == snapshot[t]
      r == request[t].role
  IN  /\ eitherOr(body[t].roles, body[t].policies)
      /\ s.policies # {} => MirrorOf[r] # None
      /\ body[t] = IF s.policies = {}
                   THEN IF isGrant(t) THEN rolesGranted(s, r) ELSE rolesRevoked(s, r)
                   ELSE IF isGrant(t) THEN policiesGranted(s, MirrorOf[r])
                        ELSE policiesRevoked(s, MirrorOf[r])

asked(t) == IF isGrant(t) THEN "granted" ELSE "revoked"

TaskInv(t) ==
  /\ pc[t] = "queued" => result[t] = "none"
  /\ pc[t] # "done" => attempts[t] <= MaxAttempts
  /\ pc[t] = "list" => fetched[t] # None
  /\ pc[t] \in {"get", "mirror", "put", "ack"} => FoundMember(t)
  /\ pc[t] = "mirror" => snapshot[t].policies # {}
  /\ pc[t] = "put" => PendingWrite(t)
  /\ pc[t] = "ack" => asked(t) \in seen[t]

\* Whoever a page shows as accepted has been accepted in the account.
Behind(at) ==
  \A m \in Members : at.rows[m].status = "accepted" =>
                       account[m].status \in {"accepted", "removed"}

\* What a page shows of a user is something the user was recently.
Recent(at) == \A u \in Users : shown(at.rows, u) \subseteq views[u]

\* The pages that are cached or on their way, and those Cloudflare has now.
Listings ==
  {listing[p] : p \in DOMAIN listing} \cup
  ({fetched[x] : x \in Tasks \cup {"sync"}} \ {None})

Fresh == {pageOf(p, account) : p \in Nat \ {0}}

ListingsInv ==
  /\ \A u \in Users : shown(account, u) \subseteq views[u]
  /\ \A at \in Listings : Behind(at) /\ Recent(at)
  /\ ReportsRecentRoles

LateInv == \A late \in inflight : eitherOr(late.roles, late.policies)

RolesInv ==
  /\ TypeOK
  /\ LateInv
  /\ ListingsInv
  /\ \A t \in Tasks : TaskInv(t)
  /\ AnswersWereTrue

(***************************************************************************)
(* Lemmas about what members hold and what is written                      *)
(***************************************************************************)

\* A request names one of the users and one of the roles.
LEMMA RequestTyped ==
  ASSUME TypeOK, NEW t \in Tasks
  PROVE  request[t].user \in Users /\ request[t].role \in Roles
BY RoleAssumption DEF TypeOK

\* An account gives every member a standing, and every user roles.
LEMMA AccountTyped ==
  ASSUME NEW a \in Accounts
  PROVE  /\ a \in [Members -> Standing]
         /\ \A u \in Users : shown(a, u) \in SUBSET SUBSET Roles
<1>1. a \in [Members -> Standing]
  BY DEF Accounts
<1>2. \A m \in Members : a[m].roles \in SUBSET Roles
  BY <1>1 DEF Standing
<1> QED
  BY <1>1, <1>2 DEF shown, membersOf

\* A page Cloudflare answers with shows members as they are.
LEMMA PageTyped ==
  ASSUME NEW a \in Accounts, NEW p \in Nat \ {0}
  PROVE  /\ pageOf(p, a) \in Pages
         /\ \A m \in Members : pageOf(p, a).rows[m] \in {a[m], NoMember}
         /\ \A m \in Members : pageOf(p, a).rows[m].status = "accepted" =>
                                pageOf(p, a).rows[m] = a[m]
         /\ \A u \in Users : shown(pageOf(p, a).rows, u) \subseteq shown(a, u)
<1> DEFINE r == pageOf(p, a).rows
<1>1. a \in [Members -> Standing]
  BY AccountTyped
<1>2. /\ r = [m \in Members |-> IF m \in membersOn(p, a) THEN a[m] ELSE NoMember]
      /\ pageOf(p, a) = [rows |-> r, more |-> pageOf(p, a).more]
      /\ pageOf(p, a).more \in BOOLEAN
  BY DEF pageOf
<1>3. NoMember \in Standing /\ NoMember.status = "uninvited" /\ wellFormed(NoMember)
  BY DEF NoMember, Standing, Statuses, wellFormed, present
<1> HIDE DEF r
<1>4. /\ r \in [Members -> Standing]
      /\ \A m \in Members : r[m] = a[m] \/ r[m] = NoMember
  BY <1>1, <1>2, <1>3
<1>5. \A m \in Members : r[m].status = "accepted" => r[m] = a[m]
  BY <1>3, <1>4
<1>6. r \in Accounts
  <2>1. \A m \in Members : wellFormed(r[m])
    BY <1>3, <1>4 DEF Accounts
  <2>2. \A m, n \in Members : r[m].status = "accepted" /\ r[n].status = "accepted"
                              /\ UserOf[m] = UserOf[n] => m = n
    BY <1>5 DEF Accounts
  <2> QED
    BY <1>4, <2>1, <2>2 DEF Accounts
<1>7. \A u \in Users : shown(r, u) \subseteq shown(a, u)
  BY <1>5 DEF shown, membersOf
<1> QED
  BY <1>2, <1>4, <1>5, <1>6, <1>7 DEF Pages, r

\* The two ways of holding something.
LEMMA HeldMembers ==
  ASSUME NEW h, NEW e
  PROVE  e \in held(h) <=> \/ \E r \in h.roles : e = whole(r)
                           \/ \E p \in h.policies : \E g \in p.groups :
                                e = <<g, p.scope, p.access>>
BY DEF held

\* The four bodies are well typed.
LEMMA BodiesTyped ==
  ASSUME NEW s \in Standing, NEW r \in Roles, NEW g \in PermissionGroups
  PROVE  /\ rolesGranted(s, r) \in Bodies
         /\ rolesRevoked(s, r) \in Bodies
         /\ policiesGranted(s, g) \in Bodies
         /\ policiesRevoked(s, g) \in Bodies
<1>1. s.roles \in SUBSET Roles /\ s.policies \in SUBSET Policies
  BY DEF Standing
<1>2. rolesGranted(s, r) \in Bodies /\ rolesRevoked(s, r) \in Bodies
  BY <1>1 DEF rolesGranted, rolesRevoked, Bodies
<1>3. [id |-> 0, groups |-> {g}, scope |-> "account", access |-> "allow"] \in Policies
  BY DEF Policies
<1>4. policiesGranted(s, g) \in Bodies
  BY <1>1, <1>3 DEF policiesGranted, Bodies
<1>5. \A q \in Policies : [q EXCEPT !.groups = @ \ {g}] \in Policies
  BY DEF Policies
<1>6. policiesRevoked(s, g) \in Bodies
  BY <1>1, <1>5 DEF policiesRevoked, Bodies
<1> QED
  BY <1>2, <1>4, <1>6

\* Cloudflare numbers the new policies and stores the rest as it is.
LEMMA StoredTyped ==
  ASSUME NEW b \in Bodies, NEW id \in PolicyIds
  PROVE  /\ stored(b, id) \in Bodies
         /\ stored(b, id).roles = b.roles
         /\ stored(b, id).policies = {} <=> b.policies = {}
         /\ held(stored(b, id)) = held(b)
<1> DEFINE numbered(p) == IF p.id = 0 THEN [p EXCEPT !.id = id] ELSE p
<1>1. b.roles \in SUBSET Roles /\ b.policies \in SUBSET Policies
  BY DEF Bodies
<1>2. \A p \in Policies : /\ numbered(p) \in Policies
                          /\ numbered(p).groups = p.groups
                          /\ numbered(p).scope = p.scope
                          /\ numbered(p).access = p.access
  BY DEF Policies
<1>3. /\ stored(b, id).policies = {numbered(p) : p \in b.policies}
      /\ stored(b, id).roles = b.roles
      /\ stored(b, id) = [roles |-> b.roles, policies |-> {numbered(p) : p \in b.policies}]
  BY DEF stored, Bodies
<1>4. stored(b, id) \in Bodies
  BY <1>1, <1>2, <1>3 DEF Bodies
<1>5. ASSUME NEW e PROVE e \in held(stored(b, id)) <=> e \in held(b)
  <2>1. (\E q \in stored(b, id).policies : \E g \in q.groups : e = <<g, q.scope, q.access>>)
          <=> (\E p \in b.policies : \E g \in p.groups : e = <<g, p.scope, p.access>>)
    BY <1>1, <1>2, <1>3
  <2> QED
    BY <1>3, <2>1, HeldMembers
<1> QED
  BY <1>3, <1>4, <1>5

(***************************************************************************)
(* Lemmas about single pieces of the state                                 *)
(***************************************************************************)

\* A write that is carried out leaves an account, on the body's model of
\* access, and every member's status.
LEMMA CarriedOut ==
  ASSUME TypeOK, NEW m \in Members, NEW b \in Bodies,
         eitherOr(b.roles, b.policies), carryOut(m, b)
  PROVE  /\ account' \in Accounts
         /\ become(account')
         /\ \A n \in Members : account'[n].status = account[n].status
         /\ \A n \in Members : n # m => account'[n] = account[n]
         /\ account'[m].policies = {} <=> b.policies = {}
         /\ held(account'[m]) = held(b)
<1>1. PICK id \in PolicyIds :
        become([account EXCEPT ![m] = [status   |-> @.status,
                                       roles    |-> b.roles,
                                       policies |-> stored(b, id).policies]])
  BY DEF carryOut
<1> DEFINE s  == [status |-> account[m].status, roles |-> b.roles,
                  policies |-> stored(b, id).policies]
<1>2. account \in Accounts /\ account \in [Members -> Standing]
  BY AccountTyped DEF TypeOK
<1>3. /\ s \in Standing /\ eitherOr(s.roles, s.policies)
      /\ s.policies = {} <=> b.policies = {}
  BY <1>2, StoredTyped DEF Standing, Bodies, eitherOr
<1>4. account' = [account EXCEPT ![m] = s]
  BY <1>1 DEF become
<1>5. become(account')
  BY <1>1 DEF become
<1>6. /\ account' \in [Members -> Standing] /\ account'[m] = s
      /\ \A n \in Members : n # m => account'[n] = account[n]
      /\ \A n \in Members : account'[n].status = account[n].status
  BY <1>2, <1>3, <1>4
<1>7. account' \in Accounts
  <2>1. \A n \in Members : wellFormed(account'[n])
    BY <1>2, <1>3, <1>6 DEF Accounts, wellFormed
  <2>2. \A n, k \in Members : account'[n].status = "accepted" /\ account'[k].status = "accepted"
                              /\ UserOf[n] = UserOf[k] => n = k
    BY <1>2, <1>6 DEF Accounts
  <2> QED
    BY <1>6, <2>1, <2>2 DEF Accounts
<1>8. held(s) = held(stored(b, id))
  <2>1. s.roles = stored(b, id).roles /\ s.policies = stored(b, id).policies
    BY StoredTyped
  <2> QED
    BY <2>1 DEF held
<1> QED
  BY <1>3, <1>5, <1>6, <1>7, <1>8, StoredTyped

\* When the account becomes another, tasks and views see no less than before.
LEMMA BecomeTyped ==
  ASSUME TypeOK, account' \in Accounts, become(account')
  PROVE  /\ seen' \in [Tasks -> SUBSET {"granted", "revoked", "absent"}]
         /\ \A u \in Tasks : /\ seen[u] \subseteq seen'[u]
                             /\ running(u) => stands(u, account') \subseteq seen'[u]
         /\ \A u \in Users : /\ views[u] \subseteq views'[u]
                             /\ shown(account', u) \subseteq views'[u]
         /\ views' \in [Users -> SUBSET SUBSET Roles]
<1>1. \A u \in Tasks : stands(u, account') \subseteq {"granted", "revoked", "absent"}
  BY DEF stands
<1>2. seen' = [u \in Tasks |-> IF running(u) THEN seen[u] \cup stands(u, account') ELSE seen[u]]
      /\ views' = [u \in Users |-> views[u] \cup shown(account', u)]
  BY DEF become
<1>3. \A u \in Users : shown(account', u) \in SUBSET SUBSET Roles
  BY AccountTyped
<1> QED
  BY <1>1, <1>2, <1>3 DEF TypeOK

\* Whatever an error leads to, the retryer's count keeps its bound.
LEMMA ReturnErrorTyped ==
  ASSUME TypeOK, NEW t \in Tasks, pc[t] # "done", TaskInv(t),
         NEW retryable \in BOOLEAN, returnError(t, retryable)
  PROVE  /\ attempts' \in [Tasks -> 0..MaxAttempts + 1]
         /\ attempts' = [attempts EXCEPT ![t] = attempts'[t]]
         /\ \/ /\ pc' = [pc EXCEPT ![t] = "wait"]
               /\ result' = result
               /\ attempts'[t] <= MaxAttempts
            \/ answer(t, "failed")
<1>1. attempts[t] \in 0..MaxAttempts /\ MaxAttempts \in Nat
  BY ProvisionerAssumption DEF TypeOK, TaskInv
<1> QED
  BY <1>1 DEF returnError, TypeOK

\* A page fetched now is as the account is; the others stay what they were.
LEMMA ListingsStand ==
  ASSUME TypeOK, ListingsInv,
         Listings' \subseteq Listings \cup Fresh,
         \A m \in Members : account[m].status \in {"accepted", "removed"} =>
                              account'[m].status \in {"accepted", "removed"},
         \A u \in Users : /\ views[u] \subseteq views'[u]
                           /\ shown(account', u) \subseteq views'[u],
         \/ UNCHANGED <<syncing, reported>>
         \/ syncing' = "idle"
         \/ ReportsRecentRoles'
  PROVE  ListingsInv'
<1>1. \A at \in Fresh : /\ Recent(at)
                        /\ \A m \in Members : at.rows[m].status = "accepted" =>
                                               account[m].status = "accepted"
  <2>1. \A p \in Nat \ {0} :
          /\ \A m \in Members : pageOf(p, account).rows[m].status = "accepted" =>
                                 pageOf(p, account).rows[m] = account[m]
          /\ \A u \in Users : shown(pageOf(p, account).rows, u) \subseteq shown(account, u)
    BY PageTyped DEF TypeOK
  <2> QED
    BY <2>1 DEF Fresh, ListingsInv, Recent
<1>2. ASSUME NEW at \in Listings' PROVE Behind(at)' /\ Recent(at)'
  <2>1. Recent(at)
    BY <1>1 DEF ListingsInv
  <2>2. \A m \in Members : at.rows[m].status = "accepted" =>
                            account[m].status \in {"accepted", "removed"}
    BY <1>1 DEF ListingsInv, Behind
  <2> QED
    BY <2>1, <2>2 DEF Recent, Behind
<1>3. ReportsRecentRoles'
  BY DEF ListingsInv, ReportsRecentRoles
<1> QED
  BY <1>2, <1>3 DEF ListingsInv

\* Nothing the statement about pages speaks of moves.
LEMMA ListingsAsTheyAre ==
  ASSUME ListingsInv, UNCHANGED <<account, listing, fetched, views, syncing, reported>>
  PROVE  ListingsInv'
BY DEF ListingsInv, Listings, Behind, Recent, ReportsRecentRoles, shown, membersOf

\* A page is asked for, of the cache or of Cloudflare.
LEMMA Fetched ==
  ASSUME TypeOK, NEW x \in Tasks \cup {"sync"}, fetch(x), listing' = listing
  PROVE  /\ fetched' \in [Tasks \cup {"sync"} -> Pages \cup {None}]
         /\ fetched'[x] # None
         /\ fetched' = [fetched EXCEPT ![x] = fetched'[x]]
         /\ Listings' \subseteq Listings \cup Fresh
<1> DEFINE at == IF page[x] \in DOMAIN listing THEN listing[page[x]]
                 ELSE pageOf(page[x], account)
<1>1. fetched' = [fetched EXCEPT ![x] = at] /\ page[x] \in Nat \ {0}
  BY DEF fetch, TypeOK
<1>2. at \in Listings \cup Fresh
  BY <1>1 DEF Listings, Fresh
<1>3. at \in Pages /\ at # None
  BY <1>1, PageTyped, RoleAssumption DEF TypeOK
<1> HIDE DEF at
<1>4. /\ fetched' \in [Tasks \cup {"sync"} -> Pages \cup {None}]
      /\ fetched'[x] = at
      /\ \A y \in Tasks \cup {"sync"} : fetched'[y] \in {fetched[y], at}
  BY <1>1, <1>3 DEF TypeOK
<1>5. Listings' \subseteq Listings \cup {at}
  BY <1>4 DEF Listings
<1> QED
  BY <1>1, <1>2, <1>3, <1>4, <1>5

\* A page arrives and is cached.
LEMMA Received ==
  ASSUME TypeOK, NEW x \in Tasks \cup {"sync"}, receive(x)
  PROVE  /\ fetched[x] \in Listings /\ fetched[x] \in Pages
         /\ fetched' \in [Tasks \cup {"sync"} -> Pages \cup {None}]
         /\ fetched' = [fetched EXCEPT ![x] = None]
         /\ DOMAIN listing' \subseteq Nat \ {0}
         /\ \A p \in DOMAIN listing' : listing'[p] \in Pages
         /\ Listings' \subseteq Listings
<1>1. /\ fetched[x] # None /\ fetched' = [fetched EXCEPT ![x] = None]
      /\ listing' = [p \in DOMAIN listing \cup {page[x]} |->
                       IF p = page[x] THEN fetched[x] ELSE listing[p]]
      /\ page[x] \in Nat \ {0}
  BY DEF receive, TypeOK
<1>2. fetched[x] \in Listings /\ fetched[x] \in Pages
  BY <1>1 DEF TypeOK, Listings
<1>3. /\ fetched' \in [Tasks \cup {"sync"} -> Pages \cup {None}]
      /\ \A y \in Tasks \cup {"sync"} : fetched'[y] \in {fetched[y], None}
  BY <1>1 DEF TypeOK
<1>4. /\ DOMAIN listing' = DOMAIN listing \cup {page[x]}
      /\ \A p \in DOMAIN listing' : \/ listing'[p] = fetched[x]
                                    \/ p \in DOMAIN listing /\ listing'[p] = listing[p]
  BY <1>1
<1>5. /\ DOMAIN listing' \subseteq Nat \ {0}
      /\ \A p \in DOMAIN listing' : listing'[p] \in Pages
  BY <1>1, <1>2, <1>4 DEF TypeOK
<1>6. Listings' \subseteq Listings
  BY <1>2, <1>3, <1>4 DEF Listings
<1> QED
  BY <1>1, <1>2, <1>3, <1>5, <1>6

\* A page is lost, or nothing is on its way.
LEMMA Lost ==
  ASSUME TypeOK, NEW x \in Tasks \cup {"sync"}, listing' = listing,
         fetched' = fetched \/ fetched' = [fetched EXCEPT ![x] = None]
  PROVE  /\ fetched' \in [Tasks \cup {"sync"} -> Pages \cup {None}]
         /\ Listings' \subseteq Listings
<1>1. /\ fetched' \in [Tasks \cup {"sync"} -> Pages \cup {None}]
      /\ \A y \in Tasks \cup {"sync"} : fetched'[y] \in {fetched[y], None}
  BY DEF TypeOK
<1> QED
  BY <1>1 DEF Listings

\* A step that leaves a task alone, or only shows it more of the account.
LEMMA Undisturbed ==
  ASSUME NEW u \in Tasks, TaskInv(u), request' = request,
         pc'[u] = pc[u], attempts'[u] = attempts[u], result'[u] = result[u],
         fetched'[u] = fetched[u], member'[u] = member[u], snapshot'[u] = snapshot[u],
         body'[u] = body[u], seen[u] \subseteq seen'[u],
         \A m \in Members : account[m].status \in {"accepted", "removed"} =>
                              account'[m].status \in {"accepted", "removed"}
  PROVE  TaskInv(u)'
<1>1. isGrant(u)' = isGrant(u) /\ asked(u)' = asked(u)
  BY DEF isGrant, asked
<1>2. FoundMember(u) => FoundMember(u)'
  BY DEF FoundMember
<1>3. PendingWrite(u) => PendingWrite(u)'
  BY <1>1 DEF PendingWrite
<1> QED
  BY <1>1, <1>2, <1>3 DEF TaskInv

\* An answered task's verdict stands when it has seen no less.
LEMMA AnswersStand ==
  ASSUME AnswersWereTrue, request' = request,
         \A u \in Tasks : \/ result'[u] = result[u] /\ seen[u] \subseteq seen'[u]
                          \/ result'[u] \in {"none", "noMember", "failed"}
                          \/ result'[u] = "ok" /\ asked(u) \in seen'[u]
  PROVE  AnswersWereTrue'
BY DEF AnswersWereTrue, isGrant, asked

\* A step of one task: what it must establish, the others being left alone or
\* shown more of the account.
LEMMA TaskStep ==
  ASSUME RolesInv, NEW t \in Tasks, TypeOK', LateInv', ListingsInv', TaskInv(t)',
         request' = request,
         \A m \in Members : account[m].status \in {"accepted", "removed"} =>
                              account'[m].status \in {"accepted", "removed"},
         \A u \in Tasks \ {t} :
           /\ pc'[u] = pc[u] /\ attempts'[u] = attempts[u] /\ result'[u] = result[u]
           /\ fetched'[u] = fetched[u] /\ member'[u] = member[u]
           /\ snapshot'[u] = snapshot[u] /\ body'[u] = body[u]
           /\ seen[u] \subseteq seen'[u],
         \/ result'[t] = result[t] /\ seen[t] \subseteq seen'[t]
         \/ result'[t] \in {"none", "noMember", "failed"}
         \/ result'[t] = "ok" /\ asked(t) \in seen'[t]
  PROVE  RolesInv'
<1>1. AnswersWereTrue /\ \A u \in Tasks : TaskInv(u)
  BY DEF RolesInv
<1>2. \A u \in Tasks : TaskInv(u)'
  BY <1>1, Undisturbed
<1>3. AnswersWereTrue'
  BY <1>1, AnswersStand
<1> QED
  BY <1>2, <1>3 DEF RolesInv

\* A step of nobody's task.
LEMMA OtherStep ==
  ASSUME RolesInv, TypeOK', LateInv', ListingsInv',
         \A m \in Members : account[m].status \in {"accepted", "removed"} =>
                              account'[m].status \in {"accepted", "removed"},
         \A u \in Tasks : fetched'[u] = fetched[u] /\ seen[u] \subseteq seen'[u],
         UNCHANGED <<request, pc, attempts, result, member, snapshot, body>>
  PROVE  RolesInv'
<1>1. AnswersWereTrue /\ \A u \in Tasks : TaskInv(u)
  BY DEF RolesInv
<1>2. \A u \in Tasks : TaskInv(u)'
  BY <1>1, Undisturbed
<1>3. AnswersWereTrue'
  BY <1>1, AnswersStand
<1> QED
  BY <1>2, <1>3 DEF RolesInv

LEMMA InitEstablishes == Init => RolesInv
<1> SUFFICES ASSUME Init PROVE RolesInv
  OBVIOUS
<1>1. account \in Accounts
  BY RoleAssumption DEF Init
<1>2. \A u \in Users : shown(account, u) \in SUBSET SUBSET Roles
  BY <1>1, AccountTyped
<1>3. NoMember \in Standing /\ Nothing \in Bodies
  BY DEF NoMember, Nothing, Standing, Statuses, Bodies
<1>4. TypeOK
  BY <1>1, <1>2, <1>3, RoleAssumption, ProvisionerAssumption DEF Init, TypeOK, Bodies
<1>5. ListingsInv
  BY DEF Init, ListingsInv, Listings, ReportsRecentRoles
<1>6. LateInv /\ AnswersWereTrue
  BY DEF Init, LateInv, AnswersWereTrue
<1>7. \A t \in Tasks : TaskInv(t)
  BY ProvisionerAssumption DEF Init, TaskInv
<1> QED
  BY <1>4, <1>5, <1>6, <1>7 DEF RolesInv

(***************************************************************************)
(* Each kind of step preserves the invariant                               *)
(***************************************************************************)

\* A call returned an error; a page on its way to it is lost.
LEMMA ErrorPreserves ==
  ASSUME RolesInv, NEW t \in Tasks, pc[t] \notin {"queued", "done"},
         NEW retryable \in BOOLEAN, returnError(t, retryable),
         UNCHANGED <<account, edits, request, member, body, seen, views, listing, syncVars>>,
         inflight' \subseteq [member : Members, roles : SUBSET Roles,
                              policies : SUBSET Policies],
         LateInv',
         snapshot' \in [Tasks -> Standing],
         \A u \in Tasks \ {t} : snapshot'[u] = snapshot[u],
         fetched' = fetched \/ fetched' = [fetched EXCEPT ![t] = None],
         page' = page \/ page' = [page EXCEPT ![t] = 1]
  PROVE  RolesInv'
<1>1. TypeOK /\ ListingsInv /\ TaskInv(t)
  BY DEF RolesInv
<1>2. /\ attempts' \in [Tasks -> 0..MaxAttempts + 1]
      /\ attempts' = [attempts EXCEPT ![t] = attempts'[t]]
      /\ \/ /\ pc' = [pc EXCEPT ![t] = "wait"]
            /\ result' = result
            /\ attempts'[t] <= MaxAttempts
         \/ answer(t, "failed")
  BY <1>1, ReturnErrorTyped
<1>3. /\ fetched' \in [Tasks \cup {"sync"} -> Pages \cup {None}]
      /\ \A u \in Tasks \ {t} : fetched'[u] = fetched[u]
      /\ page' \in [Tasks \cup {"sync"} -> Nat \ {0}]
      /\ Listings' \subseteq Listings
  <2>1. t \in Tasks \cup {"sync"} /\ listing' = listing
    OBVIOUS
  <2>2. /\ fetched' \in [Tasks \cup {"sync"} -> Pages \cup {None}]
        /\ Listings' \subseteq Listings
    BY <1>1, <2>1, Lost
  <2>3. /\ \A u \in Tasks \ {t} : fetched'[u] = fetched[u]
        /\ page' \in [Tasks \cup {"sync"} -> Nat \ {0}]
    BY <1>1 DEF TypeOK
  <2> QED
    BY <2>2, <2>3
<1>4. TypeOK'
  BY <1>1, <1>2, <1>3 DEF TypeOK, answer, syncVars
<1>5. ListingsInv'
  BY <1>1, <1>3, ListingsStand DEF ListingsInv, syncVars
<1>6. TaskInv(t)'
  BY <1>1, <1>2 DEF TypeOK, TaskInv, answer
<1>7. \A u \in Tasks \ {t} : pc'[u] = pc[u] /\ attempts'[u] = attempts[u] /\ result'[u] = result[u]
  BY <1>1, <1>2 DEF TypeOK, answer
<1>8. result'[t] = result[t] \/ result'[t] \in {"none", "noMember", "failed"}
  BY <1>1, <1>2 DEF TypeOK, answer
<1> QED
  BY <1>3, <1>4, <1>5, <1>6, <1>7, <1>8, TaskStep

\* Steps that move a task and change nothing else: the runner's, the
\* retryer's, the answer "ok".
LEMMA LocalPreserves ==
  ASSUME RolesInv, NEW t \in Tasks, Acknowledge(t) \/ Resume(t) \/ Cancel(t)
  PROVE  RolesInv'
<1>1. TypeOK /\ LateInv /\ ListingsInv /\ TaskInv(t)
  BY DEF RolesInv
<1>2. /\ UNCHANGED <<account, edits, inflight, page, listing, fetched, views, seen,
                     request, attempts, member, snapshot, body, syncs, syncing, reported>>
      /\ \/ pc[t] = "ack" /\ answer(t, "ok")
         \/ pc[t] = "wait" /\ pc' = [pc EXCEPT ![t] = "call"] /\ result' = result
         \/ pc[t] = "wait" /\ answer(t, "failed")
  BY DEF Acknowledge, Resume, Cancel, callAgain, stopWaiting, accountVars, cacheVars,
         taskVars, syncVars
<1>3. TypeOK'
  BY <1>1, <1>2 DEF TypeOK, answer
<1>4. LateInv' /\ ListingsInv'
  BY <1>1, <1>2, ListingsAsTheyAre DEF LateInv
<1>5. TaskInv(t)'
  BY <1>1, <1>2 DEF TypeOK, TaskInv, answer
<1>6. \/ result'[t] = result[t]
      \/ result'[t] = "failed"
      \/ result'[t] = "ok" /\ asked(t) \in seen'[t]
  BY <1>1, <1>2 DEF TypeOK, TaskInv, answer
<1> QED
  BY <1>1, <1>2, <1>3, <1>4, <1>5, <1>6, TaskStep DEF TypeOK, answer

LEMMA StartPreserves ==
  ASSUME RolesInv, NEW t \in Tasks, Start(t)
  PROVE  RolesInv'
<1>1. TypeOK /\ LateInv /\ ListingsInv /\ TaskInv(t)
  BY DEF RolesInv
<1>2. /\ UNCHANGED <<account, edits, inflight, page, listing, fetched, views, request,
                     attempts, result, member, snapshot, body, syncs, syncing, reported>>
      /\ pc[t] = "queued" /\ pc' = [pc EXCEPT ![t] = "call"]
      /\ seen' = [seen EXCEPT ![t] = stands(t, account)]
  BY DEF Start, claim, accountVars, cacheVars, taskVars, syncVars
<1>3. stands(t, account) \subseteq {"granted", "revoked", "absent"}
  BY DEF stands
<1>4. TypeOK'
  BY <1>1, <1>2, <1>3 DEF TypeOK
<1>5. LateInv' /\ ListingsInv'
  BY <1>1, <1>2, ListingsAsTheyAre DEF LateInv
<1>6. TaskInv(t)' /\ result'[t] = "none"
  BY <1>1, <1>2 DEF TypeOK, TaskInv
<1> QED
  BY <1>1, <1>2, <1>4, <1>5, <1>6, TaskStep DEF TypeOK

\* The search: a page is asked for, or gone through.
LEMMA SearchPreserves ==
  ASSUME RolesInv, NEW t \in Tasks, List(t) \/ Find(t)
  PROVE  RolesInv'
<1>1. TypeOK /\ LateInv /\ ListingsInv /\ TaskInv(t)
  BY DEF RolesInv
<1>2. /\ UNCHANGED <<account, edits, inflight, views, seen, request, attempts, snapshot,
                     body, syncs, syncing, reported>>
      /\ pc[t] \in {"call", "list"}
  BY DEF List, Find, accountAsIs, accountVars, syncVars
<1>3. ASSUME Listings' \subseteq Listings \cup Fresh PROVE LateInv' /\ ListingsInv'
  BY <1>1, <1>2, <1>3, ListingsStand DEF ListingsInv, LateInv
<1>4. CASE List(t)
  <2>1. fetch(t) /\ pc' = [pc EXCEPT ![t] = "list"] /\ UNCHANGED <<result, page, listing, member>>
    BY <1>4 DEF List
  <2>2. /\ fetched' \in [Tasks \cup {"sync"} -> Pages \cup {None}]
        /\ fetched'[t] # None
        /\ fetched' = [fetched EXCEPT ![t] = fetched'[t]]
        /\ Listings' \subseteq Listings \cup Fresh
    BY <1>1, <2>1, Fetched
  <2>3. \A u \in Tasks \ {t} : fetched'[u] = fetched[u]
    BY <1>1, <2>2 DEF TypeOK
  <2>4. TypeOK'
    BY <1>1, <1>2, <2>1, <2>2 DEF TypeOK
  <2>5. TaskInv(t)'
    BY <1>1, <1>2, <2>1, <2>2 DEF TypeOK, TaskInv
  <2> QED
    BY <1>1, <1>2, <1>3, <2>1, <2>2, <2>3, <2>4, <2>5, TaskStep DEF TypeOK
<1>5. CASE Find(t)
  <2> DEFINE at == fetched[t]
  <2>1. receive(t) /\ findMember(t, at)
    BY <1>5 DEF Find
  <2>2. /\ at \in Listings
        /\ fetched' \in [Tasks \cup {"sync"} -> Pages \cup {None}]
        /\ fetched' = [fetched EXCEPT ![t] = None]
        /\ DOMAIN listing' \subseteq Nat \ {0}
        /\ \A p \in DOMAIN listing' : listing'[p] \in Pages
        /\ Listings' \subseteq Listings
    BY <1>1, <2>1, Received
  <2>3. \A u \in Tasks \ {t} : fetched'[u] = fetched[u]
    BY <1>1, <2>2 DEF TypeOK
  <2>4. Behind(at)
    BY <1>1, <2>2 DEF ListingsInv
  <2> HIDE DEF at
  <2>5. /\ \/ /\ pc' = [pc EXCEPT ![t] = "get"] /\ result' = result
              /\ \E m \in membersOf(request[t].user, at.rows) : member' = [member EXCEPT ![t] = m]
           \/ pc' = [pc EXCEPT ![t] = "call"] /\ result' = result /\ member' = member
           \/ answer(t, "noMember") /\ member' = member
        /\ page' = [page EXCEPT ![t] = page[t] + 1] \/ page' = [page EXCEPT ![t] = 1]
    BY <2>1 DEF findMember, turnTo
  <2>6. TypeOK'
    <3>1. member' \in [Tasks -> Members \cup {None}]
      BY <1>1, <2>5 DEF TypeOK, membersOf
    <3>2. /\ pc' \in [Tasks -> {"queued", "call", "list", "get", "mirror", "put", "ack",
                                "wait", "done"}]
          /\ result' \in [Tasks -> {"none", "ok", "noMember", "failed"}]
      BY <1>1, <2>5 DEF TypeOK, answer
    <3>3. page' \in [Tasks \cup {"sync"} -> Nat \ {0}]
      <4>1. page \in [Tasks \cup {"sync"} -> Nat \ {0}] /\ page[t] + 1 \in Nat \ {0}
        BY <1>1 DEF TypeOK
      <4> QED
        BY <2>5, <4>1
    <3> QED
      BY <1>1, <1>2, <2>2, <3>1, <3>2, <3>3 DEF TypeOK
  <2>7. TaskInv(t)'
    <3>1. CASE answer(t, "noMember")
      BY <1>1, <3>1 DEF TypeOK, TaskInv, answer
    <3>2. CASE /\ pc' = [pc EXCEPT ![t] = "get"] /\ result' = result
               /\ \E m \in membersOf(request[t].user, at.rows) : member' = [member EXCEPT ![t] = m]
      <4>1. PICK m \in membersOf(request[t].user, at.rows) : member' = [member EXCEPT ![t] = m]
        BY <3>2
      <4>2. FoundMember(t)'
        BY <1>1, <1>2, <2>4, <4>1 DEF TypeOK, FoundMember, Behind, membersOf
      <4> QED
        BY <1>1, <1>2, <3>2, <4>2 DEF TypeOK, TaskInv
    <3>3. CASE pc' = [pc EXCEPT ![t] = "call"] /\ result' = result
      BY <1>1, <1>2, <3>3 DEF TypeOK, TaskInv
    <3> QED
      BY <2>5, <3>1, <3>2, <3>3
  <2> QED
    BY <1>1, <1>2, <1>3, <2>2, <2>3, <2>5, <2>6, <2>7, TaskStep DEF TypeOK, answer
<1> QED
  BY <1>4, <1>5

\* A body is refused, or becomes the pending write.
LEMMA WritePreserves ==
  ASSUME RolesInv, NEW t \in Tasks, pc[t] \in {"get", "mirror"},
         NEW b \in Bodies, write(t, b),
         UNCHANGED <<account, edits, inflight, page, listing, fetched, views, seen, request,
                     member, syncs, syncing, reported>>,
         snapshot' \in [Tasks -> Standing],
         \A u \in Tasks \ {t} : snapshot'[u] = snapshot[u],
         eitherOr(b.roles, b.policies) /\ body' = [body EXCEPT ![t] = b] => PendingWrite(t)'
  PROVE  RolesInv'
<1>1. TypeOK /\ LateInv /\ ListingsInv /\ TaskInv(t)
  BY DEF RolesInv
<1>2. LateInv' /\ ListingsInv'
  BY <1>1, ListingsAsTheyAre DEF LateInv
<1>3. CASE returnError(t, FALSE) /\ body' = body
  <2>1. inflight' \subseteq [member : Members, roles : SUBSET Roles, policies : SUBSET Policies]
    BY <1>1 DEF TypeOK
  <2> QED
    BY <1>2, <1>3, <2>1, ErrorPreserves DEF syncVars
<1>4. CASE /\ eitherOr(b.roles, b.policies)
           /\ body' = [body EXCEPT ![t] = b]
           /\ pc' = [pc EXCEPT ![t] = "put"]
           /\ UNCHANGED <<attempts, result>>
  <2>1. TypeOK'
    BY <1>1, <1>4 DEF TypeOK, Bodies
  <2>2. FoundMember(t)'
    BY <1>1 DEF TaskInv, FoundMember
  <2>3. TaskInv(t)'
    BY <1>1, <1>4, <2>2 DEF TypeOK, TaskInv
  <2> QED
    BY <1>1, <1>2, <1>4, <2>1, <2>3, TaskStep DEF TypeOK
<1> QED
  BY <1>3, <1>4 DEF write

LEMMA ReadPreserves ==
  ASSUME RolesInv, NEW t \in Tasks, Read(t)
  PROVE  RolesInv'
<1> DEFINE s == account[member[t]]
           r == request[t].role
<1>1. TypeOK /\ LateInv /\ ListingsInv /\ TaskInv(t)
  BY DEF RolesInv
<1>2. /\ pc[t] = "get"
      /\ snapshot' = [snapshot EXCEPT ![t] = s]
      /\ UNCHANGED <<account, edits, inflight, page, listing, fetched, views, seen, request,
                     member, syncs, syncing, reported>>
  BY DEF Read, accountMember, accountVars, cacheVars, syncVars
<1>3. s \in Standing /\ r \in Roles
  BY <1>1, <1>2, AccountTyped, RequestTyped DEF TypeOK, TaskInv, FoundMember
<1>4. /\ snapshot' \in [Tasks -> Standing] /\ snapshot'[t] = s
      /\ \A u \in Tasks \ {t} : snapshot'[u] = snapshot[u]
  BY <1>1, <1>2, <1>3 DEF TypeOK
<1>5. CASE s.policies # {}
  <2>1. pc' = [pc EXCEPT ![t] = "mirror"] /\ UNCHANGED <<attempts, result, body>>
    BY <1>5 DEF Read, accountMember
  <2>2. TypeOK'
    BY <1>1, <1>2, <1>4, <2>1 DEF TypeOK
  <2>3. LateInv' /\ ListingsInv'
    BY <1>1, <1>2, ListingsAsTheyAre DEF LateInv
  <2>4. FoundMember(t)'
    BY <1>1, <1>2 DEF TaskInv, FoundMember
  <2>5. TaskInv(t)'
    BY <1>1, <1>2, <1>4, <1>5, <2>1, <2>4 DEF TypeOK, TaskInv
  <2> QED
    BY <1>1, <1>2, <1>4, <2>1, <2>2, <2>3, <2>5, TaskStep DEF TypeOK
<1>6. CASE s.policies = {}
  <2> DEFINE b == IF isGrant(t) THEN rolesGranted(s, r) ELSE rolesRevoked(s, r)
  <2>1. write(t, b)
    BY <1>6 DEF Read, accountMember
  <2>2. b \in Bodies
    <3>1. s.roles \in SUBSET Roles
      BY <1>3 DEF Standing
    <3> QED
      BY <1>3, <3>1 DEF Bodies, rolesGranted, rolesRevoked
  <2>3. ASSUME eitherOr(b.roles, b.policies), body' = [body EXCEPT ![t] = b]
        PROVE  PendingWrite(t)'
    <3>1. body'[t] = b
      BY <1>1, <2>3 DEF TypeOK
    <3>2. isGrant(t)' = isGrant(t) /\ request'[t].role = r
      BY <1>2 DEF isGrant
    <3> HIDE DEF s
    <3> QED
      BY <1>4, <1>6, <2>3, <3>1, <3>2 DEF PendingWrite
  <2> HIDE DEF b
  <2> QED
    BY <1>1, <1>2, <1>4, <2>1, <2>2, <2>3, WritePreserves
<1> QED
  BY <1>5, <1>6

LEMMA MirrorPreserves ==
  ASSUME RolesInv, NEW t \in Tasks, Mirror(t)
  PROVE  RolesInv'
<1> DEFINE s == snapshot[t]
           g == MirrorOf[request[t].role]
           b == IF isGrant(t) THEN policiesGranted(s, g) ELSE policiesRevoked(s, g)
<1>1. TypeOK /\ LateInv /\ ListingsInv /\ TaskInv(t)
  BY DEF RolesInv
<1>2. /\ pc[t] = "mirror" /\ g # None /\ write(t, b)
      /\ UNCHANGED <<account, edits, inflight, page, listing, fetched, views, seen, request,
                     member, snapshot, syncs, syncing, reported>>
  BY DEF Mirror, accountVars, cacheVars, syncVars
<1>3. s \in Standing /\ g \in PermissionGroups /\ s.policies # {}
  BY <1>1, <1>2, RoleAssumption, RequestTyped DEF TypeOK, TaskInv
<1>4. b \in Bodies
  <2>1. request[t].role \in Roles
    BY <1>1, RequestTyped
  <2> QED
    BY <1>3, <2>1, BodiesTyped
<1>5. ASSUME eitherOr(b.roles, b.policies), body' = [body EXCEPT ![t] = b]
      PROVE  PendingWrite(t)'
  <2>1. body'[t] = b
    BY <1>1, <1>5 DEF TypeOK
  <2>2. isGrant(t)' = isGrant(t)
    BY <1>2 DEF isGrant
  <2> QED
    BY <1>2, <1>3, <1>5, <2>1, <2>2 DEF PendingWrite
<1>6. snapshot' \in [Tasks -> Standing] /\ pc[t] \in {"get", "mirror"}
  BY <1>1, <1>2 DEF TypeOK
<1> HIDE DEF b
<1> QED
  BY <1>1, <1>2, <1>4, <1>5, <1>6, WritePreserves

\* What a pending write leaves its user with.
LEMMA WriteDoesWhatWasAsked ==
  ASSUME TypeOK, NEW t \in Tasks, PendingWrite(t), FoundMember(t),
         NEW a \in Accounts, a[member[t]].status = account[member[t]].status,
         present(a[member[t]]),
         a[member[t]].policies = {} <=> body[t].policies = {},
         held(a[member[t]]) = held(body[t])
  PROVE  asked(t) \in stands(t, a)
<1> DEFINE m == member[t]
           s == snapshot[t]
           r == request[t].role
<1>1. /\ s \in Standing /\ s.roles \in SUBSET Roles /\ s.policies \in SUBSET Policies
      /\ r \in Roles
  BY RequestTyped DEF TypeOK, Standing
<1>2. /\ m \in Members /\ a[m].status = "accepted" /\ UserOf[m] = request[t].user
  BY DEF FoundMember, present
<1>3. membersOf(request[t].user, a) = {m}
  BY <1>2 DEF membersOf, Accounts
<1>4. body[t].policies = {} <=> s.policies = {}
  BY DEF PendingWrite, rolesGranted, rolesRevoked, policiesGranted, policiesRevoked, eitherOr
<1>5. subject(t, a[m]) = IF s.policies = {} THEN r ELSE MirrorOf[r]
  BY <1>4 DEF subject
<1>6. CASE isGrant(t)
  <2>1. whole(subject(t, a[m])) \in held(body[t])
    <3>1. CASE s.policies = {}
      <4>1. r \in body[t].roles
        BY <1>6, <3>1 DEF PendingWrite, rolesGranted
      <4> QED
        BY <1>5, <3>1, <4>1, HeldMembers
    <3>2. CASE s.policies # {}
      <4> DEFINE p == [id |-> 0, groups |-> {MirrorOf[r]}, scope |-> "account",
                       access |-> "allow"]
      <4>1. p \in body[t].policies
        BY <1>6, <3>2 DEF PendingWrite, policiesGranted
      <4>2. MirrorOf[r] \in p.groups /\ whole(MirrorOf[r]) = <<MirrorOf[r], p.scope, p.access>>
        BY DEF whole
      <4> QED
        BY <1>5, <3>2, <4>1, <4>2, HeldMembers
    <3> QED
      BY <3>1, <3>2
  <2> QED
    BY <1>3, <1>6, <2>1 DEF stands, asked
<1>7. CASE ~isGrant(t)
  <2>1. \A e \in held(body[t]) : e[1] # subject(t, a[m])
    <3>1. CASE s.policies = {}
      <4>1. body[t].roles = s.roles \ {r} /\ body[t].policies = {}
        BY <1>7, <3>1 DEF PendingWrite, rolesRevoked
      <4>2. \A e \in held(body[t]) : \E x \in s.roles \ {r} : e = whole(x)
        BY <4>1, HeldMembers
      <4> QED
        BY <1>5, <3>1, <4>2 DEF whole
    <3>2. CASE s.policies # {}
      <4>1. /\ body[t].roles = {}
            /\ \A p \in body[t].policies : MirrorOf[r] \notin p.groups
        <5>1. body[t] = policiesRevoked(s, MirrorOf[r])
          BY <1>7, <3>2 DEF PendingWrite
        <5>2. \A q \in Policies : MirrorOf[r] \notin [q EXCEPT !.groups = @ \ {MirrorOf[r]}].groups
          BY DEF Policies
        <5>3. /\ body[t].roles = {}
              /\ \A p \in body[t].policies : \E q \in s.policies :
                   p = [q EXCEPT !.groups = @ \ {MirrorOf[r]}]
          BY <5>1 DEF policiesRevoked
        <5> QED
          BY <1>1, <5>2, <5>3
      <4>2. \A e \in held(body[t]) : \E p \in body[t].policies : \E g \in p.groups :
              e = <<g, p.scope, p.access>>
        BY <4>1, HeldMembers
      <4> QED
        BY <1>5, <3>2, <4>1, <4>2
    <3> QED
      BY <3>1, <3>2
  <2> QED
    BY <1>3, <1>7, <2>1 DEF stands, asked
<1> QED
  BY <1>6, <1>7

\* The body of a pending write differs from the copy by what the request is
\* about: what shares a policy with it stays, and a Revoke leaves none of it.
LEMMA WriteMovesTheRole ==
  ASSUME TypeOK, NEW t \in Tasks, PendingWrite(t),
         eitherOr(snapshot[t].roles, snapshot[t].policies)
  PROVE  held(body[t]) = IF isGrant(t)
                         THEN held(snapshot[t]) \cup {whole(subject(t, snapshot[t]))}
                         ELSE {e \in held(snapshot[t]) : e[1] # subject(t, snapshot[t])}
<1> DEFINE s == snapshot[t]
           r == request[t].role
           g == MirrorOf[r]
           b == body[t]
<1>1. /\ s \in Standing /\ s.roles \in SUBSET Roles /\ s.policies \in SUBSET Policies
      /\ eitherOr(s.roles, s.policies)
  BY DEF TypeOK, Standing
<1>2. PendingWrite(t)
  OBVIOUS
<1>3. subject(t, s) = IF s.policies = {} THEN r ELSE g
  BY DEF subject
<1> SUFFICES held(b) = IF isGrant(t) THEN held(s) \cup {whole(subject(t, s))}
                       ELSE {e \in held(s) : e[1] # subject(t, s)}
  OBVIOUS
<1> HIDE DEF s, b
<1>4. CASE s.policies = {}
  <2>1. b.policies = {} /\ b.roles = IF isGrant(t) THEN s.roles \cup {r} ELSE s.roles \ {r}
    BY <1>2, <1>4 DEF PendingWrite, rolesGranted, rolesRevoked, s, b
  <2>2. \A e : e \in held(b) <=> \E x \in b.roles : e = whole(x)
    BY <2>1, HeldMembers
  <2>3. \A e : e \in held(s) <=> \E x \in s.roles : e = whole(x)
    BY <1>4, HeldMembers
  <2>4. \A x, y : whole(x) = whole(y) <=> x = y
    BY DEF whole
  <2>5. \A x : whole(x)[1] = x
    BY DEF whole
  <2> QED
    BY <1>3, <1>4, <2>1, <2>2, <2>3, <2>4, <2>5
<1>5. CASE s.policies # {} /\ isGrant(t)
  <2> DEFINE p == [id |-> 0, groups |-> {g}, scope |-> "account", access |-> "allow"]
  <2>1. b.roles = {} /\ s.roles = {} /\ b.policies = s.policies \cup {p}
    BY <1>1, <1>2, <1>5 DEF PendingWrite, policiesGranted, eitherOr, s, b
  <2>2. \A e : (\E h \in p.groups : e = <<h, p.scope, p.access>>) <=> e = whole(g)
    BY DEF whole
  <2> HIDE DEF p
  <2>3. \A e : e \in held(b) <=> e \in held(s) \/ e = whole(g)
    BY <2>1, <2>2, HeldMembers
  <2> QED
    BY <1>3, <1>5, <2>3
<1>6. CASE s.policies # {} /\ ~isGrant(t)
  <2> DEFINE stripped(q) == [q EXCEPT !.groups = @ \ {g}]
  <2>1. /\ b.roles = {} /\ s.roles = {}
        /\ b.policies = {p \in {stripped(q) : q \in s.policies} : p.groups # {}}
    BY <1>1, <1>2, <1>6 DEF PendingWrite, policiesRevoked, eitherOr, s, b
  <2>2. \A q \in Policies : /\ stripped(q).groups = q.groups \ {g}
                            /\ stripped(q).scope = q.scope
                            /\ stripped(q).access = q.access
    BY DEF Policies
  <2> HIDE DEF stripped
  <2>3. ASSUME NEW e PROVE e \in held(b) <=> e \in held(s) /\ e[1] # g
    <3>1. e \in held(b) <=> \E p \in b.policies : \E h \in p.groups :
                              e = <<h, p.scope, p.access>>
      BY <2>1, HeldMembers
    <3>2. e \in held(s) <=> \E q \in s.policies : \E h \in q.groups :
                              e = <<h, q.scope, q.access>>
      BY <2>1, HeldMembers
    <3>3. (\E p \in b.policies : \E h \in p.groups : e = <<h, p.scope, p.access>>)
            <=> (\E q \in s.policies : \E h \in q.groups \ {g} : e = <<h, q.scope, q.access>>)
      BY <1>1, <2>1, <2>2
    <3>4. (\E q \in s.policies : \E h \in q.groups \ {g} : e = <<h, q.scope, q.access>>)
            <=> (\E q \in s.policies : \E h \in q.groups : e = <<h, q.scope, q.access>>)
                  /\ e[1] # g
      OBVIOUS
    <3> QED
      BY <3>1, <3>2, <3>3, <3>4
  <2> QED
    BY <1>3, <1>6, <2>3
<1> QED
  BY <1>4, <1>5, <1>6

LEMMA ApplyPreserves ==
  ASSUME RolesInv, NEW t \in Tasks, Apply(t)
  PROVE  RolesInv'
<1>1. TypeOK /\ LateInv /\ ListingsInv /\ TaskInv(t)
  BY DEF RolesInv
<1>2. /\ pc[t] = "put" /\ carryOut(member[t], body[t]) /\ pc' = [pc EXCEPT ![t] = "ack"]
      /\ UNCHANGED <<edits, inflight, page, listing, fetched, request, attempts, result,
                     member, snapshot, body, syncs, syncing, reported>>
  BY DEF Apply, taskVars, syncVars
<1>3. PendingWrite(t) /\ FoundMember(t) /\ body[t] \in Bodies
  BY <1>1, <1>2 DEF TaskInv, TypeOK, Bodies
<1>4. /\ account' \in Accounts /\ become(account')
      /\ \A n \in Members : account'[n].status = account[n].status
      /\ account'[member[t]].policies = {} <=> body[t].policies = {}
      /\ held(account'[member[t]]) = held(body[t])
  BY <1>1, <1>2, <1>3, CarriedOut DEF PendingWrite, FoundMember
<1>5. /\ seen' \in [Tasks -> SUBSET {"granted", "revoked", "absent"}]
      /\ \A u \in Tasks : /\ seen[u] \subseteq seen'[u]
                          /\ running(u) => stands(u, account') \subseteq seen'[u]
      /\ \A u \in Users : /\ views[u] \subseteq views'[u]
                          /\ shown(account', u) \subseteq views'[u]
      /\ views' \in [Users -> SUBSET SUBSET Roles]
  BY <1>1, <1>4, BecomeTyped
<1>6. TypeOK'
  BY <1>1, <1>2, <1>4, <1>5 DEF TypeOK
<1>7. LateInv'
  BY <1>1, <1>2 DEF LateInv
<1>8. ListingsInv'
  <2>1. Listings' = Listings
    BY <1>2 DEF Listings
  <2> QED
    BY <1>1, <1>2, <1>4, <1>5, <2>1, ListingsStand DEF ListingsInv
<1>9. TaskInv(t)'
  <2>1. present(account'[member[t]])
    BY <1>2, <1>3, <1>4 DEF carryOut, accepts, present, FoundMember
  <2>2. asked(t) \in stands(t, account')
    BY <1>1, <1>3, <1>4, <2>1, WriteDoesWhatWasAsked DEF FoundMember
  <2>3. running(t) /\ asked(t)' = asked(t)
    BY <1>2 DEF running, asked, isGrant
  <2>4. FoundMember(t)'
    BY <1>2, <1>3, <1>4 DEF FoundMember
  <2> QED
    BY <1>1, <1>2, <1>5, <2>2, <2>3, <2>4 DEF TypeOK, TaskInv
<1> QED
  BY <1>1, <1>2, <1>4, <1>5, <1>6, <1>7, <1>8, <1>9, TaskStep DEF TypeOK

\* The account changes by a late write or an administrator.
LEMMA ChangePreserves ==
  ASSUME RolesInv, account' \in Accounts, become(account'),
         \A m \in Members : account[m].status \in {"accepted", "removed"} =>
                              account'[m].status \in {"accepted", "removed"},
         edits' \in 0..MaxEdits, inflight' \subseteq inflight,
         UNCHANGED <<pc, page, listing, fetched, taskVars, syncVars>>
  PROVE  RolesInv'
<1>1. TypeOK /\ LateInv /\ ListingsInv
  BY DEF RolesInv
<1>2. /\ seen' \in [Tasks -> SUBSET {"granted", "revoked", "absent"}]
      /\ \A u \in Tasks : seen[u] \subseteq seen'[u]
      /\ \A u \in Users : /\ views[u] \subseteq views'[u]
                          /\ shown(account', u) \subseteq views'[u]
      /\ views' \in [Users -> SUBSET SUBSET Roles]
  BY <1>1, BecomeTyped
<1>3. TypeOK'
  BY <1>1, <1>2 DEF TypeOK, taskVars, syncVars
<1>4. LateInv'
  BY <1>1 DEF LateInv
<1>5. ListingsInv'
  <2>1. Listings' = Listings
    BY DEF Listings
  <2> QED
    BY <1>1, <1>2, <2>1, ListingsStand DEF ListingsInv, syncVars
<1> QED
  BY <1>2, <1>3, <1>4, <1>5, OtherStep DEF taskVars

\* The entry of a page expires.
LEMMA ExpirePreserves ==
  ASSUME RolesInv, Expire
  PROVE  RolesInv'
<1>1. TypeOK /\ LateInv /\ ListingsInv
  BY DEF RolesInv
<1>2. UNCHANGED <<account, edits, inflight, pc, page, fetched, seen, views, taskVars, syncVars>>
  BY DEF Expire, accountVars
<1>3. /\ DOMAIN listing' \subseteq DOMAIN listing
      /\ \A p \in DOMAIN listing' : listing'[p] = listing[p]
  BY DEF Expire
<1>4. TypeOK'
  BY <1>1, <1>2, <1>3 DEF TypeOK, taskVars, syncVars
<1>5. Listings' \subseteq Listings
  BY <1>2, <1>3 DEF Listings
<1>6. ListingsInv'
  BY <1>1, <1>2, <1>5, ListingsStand DEF ListingsInv, syncVars
<1>7. LateInv'
  BY <1>1, <1>2 DEF LateInv
<1> QED
  BY <1>2, <1>4, <1>6, <1>7, OtherStep DEF taskVars

\* A sync ends and clears the cache: what is recent starts anew.
LEMMA EndPreserves ==
  ASSUME RolesInv, SyncEnd
  PROVE  RolesInv'
<1>1. TypeOK /\ LateInv /\ ListingsInv
  BY DEF RolesInv
<1>2. /\ UNCHANGED <<account, edits, inflight, pc, page, fetched, seen, taskVars, syncs, reported>>
      /\ syncing' = "idle" /\ listing' = <<>>
      /\ views' = [u \in Users |-> stillAround(u)]
  BY DEF SyncEnd, accountVars
<1>3. DOMAIN fetched = Tasks \cup {"sync"} /\ DOMAIN listing' = {}
  BY <1>1, <1>2 DEF TypeOK
<1>4. /\ Listings' = {fetched[x] : x \in Tasks \cup {"sync"}} \ {None}
      /\ Listings' \subseteq Listings
      /\ Listings' \subseteq Pages
  BY <1>1, <1>2, <1>3 DEF Listings, TypeOK
<1>5. ASSUME NEW u \in Users
      PROVE  /\ stillAround(u) \in SUBSET SUBSET Roles
             /\ shown(account, u) \subseteq stillAround(u)
             /\ \A at \in Listings' : shown(at.rows, u) \subseteq stillAround(u)
  <2>1. stillAround(u) = shown(account, u) \cup UNION {shown(at.rows, u) : at \in Listings'}
    BY <1>3, <1>4 DEF stillAround
  <2>2. \A at \in Listings' : at.rows \in Accounts
    BY <1>4 DEF Pages
  <2>3. \A at \in Listings' : shown(at.rows, u) \in SUBSET SUBSET Roles
    BY <2>2, AccountTyped
  <2>4. shown(account, u) \in SUBSET SUBSET Roles
    BY <1>1, AccountTyped DEF TypeOK
  <2> QED
    BY <2>1, <2>3, <2>4
<1>6. views' \in [Users -> SUBSET SUBSET Roles]
  BY <1>2, <1>5
<1>7. TypeOK'
  BY <1>1, <1>2, <1>3, <1>6 DEF TypeOK, taskVars
<1>8. ListingsInv'
  <2>1. \A u \in Users : shown(account', u) \subseteq views'[u]
    BY <1>2, <1>5
  <2>2. ASSUME NEW at \in Listings' PROVE Behind(at)' /\ Recent(at)'
    <3>1. Behind(at)'
      BY <1>1, <1>2, <1>4 DEF ListingsInv, Behind
    <3>2. \A u \in Users : shown(at.rows, u) \subseteq views'[u]
      BY <1>2, <1>5
    <3> QED
      BY <3>1, <3>2 DEF Recent
  <2>3. \A u \in Users : shown(account, u)' = shown(account', u)
    BY DEF shown, membersOf
  <2> QED
    BY <1>2, <2>1, <2>2, <2>3 DEF ListingsInv, ReportsRecentRoles
<1>9. LateInv'
  BY <1>1, <1>2 DEF LateInv
<1> QED
  BY <1>2, <1>7, <1>8, <1>9, OtherStep DEF taskVars

\* A sync begins, asks for a page, or fails to get it.
LEMMA SyncPreserves ==
  ASSUME RolesInv, SyncBegin \/ SyncAsk \/ SyncFails
  PROVE  RolesInv'
<1>1. TypeOK /\ LateInv /\ ListingsInv
  BY DEF RolesInv
<1>2. /\ UNCHANGED <<account, edits, inflight, pc, listing, seen, views, request, attempts,
                     result, member, snapshot, body>>
      /\ syncs' \in 0..MaxSyncs
      /\ syncing' \in {"idle", "listing", "listed"}
      /\ page' = page \/ page' = [page EXCEPT !["sync"] = 1]
      /\ reported' = reported \/ reported' = [u \in Users |-> None]
      /\ UNCHANGED syncing \/ syncing' = "idle" \/ reported' = [u \in Users |-> None]
  BY <1>1, RoleAssumption DEF TypeOK, SyncBegin, SyncAsk, SyncFails, turnTo,
                              accountVars, cacheVars, taskVars, syncVars
<1>3. /\ fetched' \in [Tasks \cup {"sync"} -> Pages \cup {None}]
      /\ \A u \in Tasks : fetched'[u] = fetched[u]
      /\ Listings' \subseteq Listings \cup Fresh
  <2>1. CASE SyncAsk
    <3>1. fetch("sync")
      BY <2>1 DEF SyncAsk
    <3>2. /\ fetched' \in [Tasks \cup {"sync"} -> Pages \cup {None}]
          /\ fetched' = [fetched EXCEPT !["sync"] = fetched'["sync"]]
          /\ Listings' \subseteq Listings \cup Fresh
      BY <1>1, <1>2, <3>1, Fetched
    <3> QED
      BY <1>1, <3>2, RoleAssumption DEF TypeOK
  <2>2. CASE SyncBegin \/ SyncFails
    <3>1. fetched' = fetched \/ fetched' = [fetched EXCEPT !["sync"] = None]
      BY <2>2 DEF SyncBegin, SyncFails, lose, cacheVars
    <3>2. /\ fetched' \in [Tasks \cup {"sync"} -> Pages \cup {None}]
          /\ Listings' \subseteq Listings
      BY <1>1, <1>2, <3>1, Lost
    <3> QED
      BY <1>1, <3>1, <3>2, RoleAssumption DEF TypeOK
  <2> QED
    BY <2>1, <2>2
<1>4. TypeOK'
  BY <1>1, <1>2, <1>3 DEF TypeOK
<1>5. LateInv'
  BY <1>1, <1>2 DEF LateInv
<1>6. ListingsInv'
  <2>1. UNCHANGED reported \/ reported' = [u \in Users |-> None]
    BY <1>2
  <2>2. \/ UNCHANGED <<syncing, reported>>
        \/ syncing' = "idle"
        \/ ReportsRecentRoles'
    BY <1>2 DEF ReportsRecentRoles
  <2> QED
    BY <1>1, <1>2, <1>3, <2>2, ListingsStand DEF ListingsInv
<1> QED
  BY <1>2, <1>3, <1>4, <1>5, <1>6, OtherStep

\* The sync goes through a page: what it reports was recent.
LEMMA ReportPreserves ==
  ASSUME RolesInv, SyncReport
  PROVE  RolesInv'
<1> DEFINE at == fetched["sync"]
<1>1. TypeOK /\ LateInv /\ ListingsInv
  BY DEF RolesInv
<1>2. /\ receive("sync") /\ report(at) /\ syncing = "listing"
      /\ UNCHANGED <<account, edits, inflight, pc, seen, views, request, attempts,
                     result, member, snapshot, body, syncs>>
      /\ syncing' \in {"idle", "listing", "listed"}
      /\ page' = [page EXCEPT !["sync"] = page["sync"] + 1] \/ page' = [page EXCEPT !["sync"] = 1]
  BY <1>1 DEF SyncReport, turnTo, accountVars, taskVars
<1>3. /\ at \in Listings /\ at \in Pages
      /\ fetched' \in [Tasks \cup {"sync"} -> Pages \cup {None}]
      /\ fetched' = [fetched EXCEPT !["sync"] = None]
      /\ DOMAIN listing' \subseteq Nat \ {0}
      /\ \A p \in DOMAIN listing' : listing'[p] \in Pages
      /\ Listings' \subseteq Listings
  BY <1>1, <1>2, Received
<1>4. \A u \in Tasks : fetched'[u] = fetched[u]
  BY <1>1, <1>3, RoleAssumption DEF TypeOK
<1>5. Recent(at)
  BY <1>1, <1>3 DEF ListingsInv
<1> HIDE DEF at
<1>6. reported' = [u \in Users |->
                     IF membersOf(u, at.rows) = {} THEN reported[u]
                     ELSE at.rows[CHOOSE m \in membersOf(u, at.rows) : TRUE].roles]
  BY <1>2 DEF report
<1>7. ASSUME NEW u \in Users PROVE reported'[u] \in views[u] \cup {None}
  <2>1. CASE membersOf(u, at.rows) = {}
    BY <1>1, <1>2, <1>6, <2>1 DEF ListingsInv, ReportsRecentRoles
  <2>2. CASE membersOf(u, at.rows) # {}
    <3>1. (CHOOSE m \in membersOf(u, at.rows) : TRUE) \in membersOf(u, at.rows)
      BY <2>2
    <3>2. reported'[u] \in shown(at.rows, u)
      BY <1>6, <2>2, <3>1 DEF shown
    <3> QED
      BY <1>5, <3>2 DEF Recent
  <2> QED
    BY <2>1, <2>2
<1>8. reported' \in [Users -> (SUBSET Roles) \cup {None}]
  <2>1. \A u \in Users : views[u] \subseteq SUBSET Roles
    BY <1>1 DEF TypeOK
  <2>2. \A u \in Users : reported'[u] \in (SUBSET Roles) \cup {None}
    BY <1>7, <2>1
  <2>3. reported' = [u \in Users |-> reported'[u]]
    BY <1>6
  <2> QED
    BY <2>2, <2>3
<1>9. page' \in [Tasks \cup {"sync"} -> Nat \ {0}]
  <2>1. page \in [Tasks \cup {"sync"} -> Nat \ {0}] /\ page["sync"] + 1 \in Nat \ {0}
    BY <1>1 DEF TypeOK
  <2> QED
    BY <1>2, <2>1
<1>10. TypeOK'
  BY <1>1, <1>2, <1>3, <1>8, <1>9 DEF TypeOK
<1>11. LateInv'
  BY <1>1, <1>2 DEF LateInv
<1>12. ListingsInv'
  <2>1. ReportsRecentRoles'
    BY <1>2, <1>7 DEF ReportsRecentRoles
  <2> QED
    BY <1>1, <1>2, <1>3, <2>1, ListingsStand DEF ListingsInv
<1> QED
  BY <1>2, <1>4, <1>10, <1>11, <1>12, OtherStep

LEMMA NextPreserves == RolesInv /\ [Next]_vars => RolesInv'
<1> SUFFICES ASSUME RolesInv, [Next]_vars PROVE RolesInv'
  OBVIOUS
<1>1. TypeOK /\ LateInv /\ ListingsInv /\ AnswersWereTrue /\ \A u \in Tasks : TaskInv(u)
  BY DEF RolesInv
<1>2. /\ inflight \subseteq [member : Members, roles : SUBSET Roles, policies : SUBSET Policies]
      /\ snapshot \in [Tasks -> Standing]
  BY <1>1 DEF TypeOK
<1>3. inflight' = inflight => LateInv'
  BY <1>1 DEF LateInv
<1>4. ASSUME NEW t \in Tasks, Work(t) PROVE RolesInv'
  <2>1. CASE Start(t)
    BY <2>1, StartPreserves
  <2>2. CASE Reject(t)
    BY <1>2, <1>3, <2>2, ErrorPreserves DEF Reject, accountAsIs, accountVars
  <2>3. CASE List(t) \/ Find(t)
    BY <2>3, SearchPreserves
  <2>4. CASE ListFails(t)
    BY <1>2, <1>3, <2>4, ErrorPreserves DEF ListFails, lose, turnTo, accountAsIs,
                                             accountVars
  <2>5. CASE Read(t)
    BY <2>5, ReadPreserves
  <2>6. CASE Mirror(t)
    BY <2>6, MirrorPreserves
  <2>7. CASE CallFails(t)
    BY <1>2, <1>3, <2>7, ErrorPreserves DEF CallFails, accountVars, cacheVars
  <2>8. CASE Apply(t)
    BY <2>8, ApplyPreserves
  <2>9. CASE Acknowledge(t) \/ Resume(t) \/ Cancel(t)
    BY <2>9, LocalPreserves
  <2>10. CASE LoseAnswer(t)
    BY <1>2, <1>3, <2>10, ErrorPreserves DEF LoseAnswer, accountVars, cacheVars
  <2>11. CASE Abandon(t)
    <3> DEFINE late == [member |-> member[t], roles |-> body[t].roles,
                        policies |-> body[t].policies]
    <3>1. /\ PendingWrite(t) /\ FoundMember(t) /\ body[t] \in Bodies
      BY <1>1, <2>11 DEF Abandon, TaskInv, TypeOK, Bodies
    <3>2. /\ late \in [member : Members, roles : SUBSET Roles, policies : SUBSET Policies]
          /\ eitherOr(late.roles, late.policies)
      BY <3>1 DEF PendingWrite, FoundMember, Bodies
    <3>3. inflight' = inflight \cup {late}
      BY <2>11 DEF Abandon
    <3>4. LateInv'
      BY <1>1, <3>2, <3>3 DEF LateInv
    <3> HIDE DEF late
    <3> QED
      BY <1>2, <2>11, <3>2, <3>3, <3>4, ErrorPreserves DEF Abandon, cacheVars
  <2> QED
    BY <1>4, <2>1, <2>2, <2>3, <2>4, <2>5, <2>6, <2>7, <2>8, <2>9, <2>10, <2>11 DEF Work
<1>5. CASE Land
  <2>1. PICK late \in inflight :
          /\ carryOut(late.member, [roles |-> late.roles, policies |-> late.policies])
          /\ inflight' = inflight \ {late}
          /\ UNCHANGED <<edits, pc, page, listing, fetched, taskVars, syncVars>>
    BY <1>5 DEF Land
  <2>2. /\ late.member \in Members
        /\ [roles |-> late.roles, policies |-> late.policies] \in Bodies
        /\ eitherOr(late.roles, late.policies)
    BY <1>1, <1>2, <2>1 DEF LateInv, Bodies
  <2>3. /\ account' \in Accounts /\ become(account')
        /\ \A n \in Members : account'[n].status = account[n].status
    BY <1>1, <2>1, <2>2, CarriedOut
  <2> QED
    BY <1>1, <2>1, <2>3, ChangePreserves DEF TypeOK
<1>6. CASE Edit
  <2>1. PICK m \in Members, s \in Standings :
          /\ s.status \in mayBecome[account[m].status]
          /\ [account EXCEPT ![m] = s] \in Accounts
          /\ become([account EXCEPT ![m] = s])
    BY <1>6 DEF Edit
  <2>2. account' = [account EXCEPT ![m] = s]
    BY <2>1 DEF become
  <2>3. /\ account' \in Accounts /\ become(account')
        /\ account \in [Members -> Standing]
    BY <1>1, <2>1, <2>2, AccountTyped DEF TypeOK
  <2>4. \A n \in Members : account[n].status \in {"accepted", "removed"} =>
                             account'[n].status \in {"accepted", "removed"}
    BY <2>1, <2>2, <2>3 DEF mayBecome
  <2>5. edits' \in 0..MaxEdits
    BY <1>1, <1>6, RoleAssumption DEF Edit, TypeOK
  <2> QED
    BY <1>6, <2>3, <2>4, <2>5, ChangePreserves DEF Edit
<1>7. CASE Sync
  <2>1. CASE SyncEnd
    BY <2>1, EndPreserves
  <2>2. CASE SyncBegin \/ SyncAsk \/ SyncFails
    BY <2>2, SyncPreserves
  <2>3. CASE SyncReport
    BY <2>3, ReportPreserves
  <2> QED
    BY <1>7, <2>1, <2>2, <2>3 DEF Sync
<1>8. CASE Expire
  BY <1>8, ExpirePreserves
<1>9. CASE UNCHANGED vars
  <2>1. TypeOK'
    BY <1>1, <1>9 DEF vars, taskVars, syncVars, TypeOK
  <2>2. LateInv' /\ ListingsInv'
    BY <1>1, <1>9, ListingsAsTheyAre DEF vars, syncVars, LateInv
  <2> QED
    BY <1>9, <2>1, <2>2, OtherStep DEF vars, taskVars
<1> QED
  BY <1>4, <1>5, <1>6, <1>7, <1>8, <1>9 DEF Next

(***************************************************************************)
(* Theorems                                                                *)
(***************************************************************************)

\* The inductive invariant: a pending write follows from the copy it was built
\* on and goes to a member of its user, and every page in the cache or on its
\* way shows of each user what the user has had since a sync last ended, or
\* what a page already on its way then showed.
THEOREM RolesInvariant == Spec => []RolesInv
<1>1. Init => RolesInv
  BY InitEstablishes
<1>2. RolesInv /\ [Next]_vars => RolesInv'
  BY NextPreserves
<1> QED
  BY <1>1, <1>2, PTL DEF Spec

\* Every variable keeps its type; in particular a user never has two accepted
\* members, and no write gives a member roles and policies at once.
THEOREM RolesTypeCorrect == Spec => []TypeOK
<1>1. RolesInv => TypeOK
  BY DEF RolesInv
<1> QED
  BY <1>1, RolesInvariant, PTL

\* Revoke never takes a member's last role or last policy, whatever it races
\* with: the check of UpdateAccountMember (client.go) on the body is enough.
THEOREM NobodyLeftBare == Spec => []MembersStayWellFormed
<1>1. RolesInv => MembersStayWellFormed
  BY DEF RolesInv, TypeOK, Accounts, MembersStayWellFormed
<1> QED
  BY <1>1, RolesInvariant, PTL

\* What roleBuilder.Grant and Revoke answer was true of the user while the
\* task ran, under any interleaving with tasks, administrators and late writes.
THEOREM RoleAnswersAreTrue == Spec => []AnswersWereTrue
<1>1. RolesInv => AnswersWereTrue
  BY DEF RolesInv
<1> QED
  BY <1>1, RolesInvariant, PTL

\* Whatever fills the shared pages, at whatever moments and for any size of
\* page, a sync reports of each user roles it had at one moment since a sync
\* last cleared the cache.
THEOREM ReportsAreRecent == Spec => []ReportsRecentRoles
<1>1. RolesInv => ReportsRecentRoles
  BY DEF RolesInv, ListingsInv
<1> QED
  BY <1>1, RolesInvariant, PTL

\* A write built on the member as it still is moves what the request is about
\* and nothing else: what shares a policy with it stays, and a Revoke leaves
\* none of what retried Grants left several times over.
THEOREM NothingElseMoves == Spec => OnlyTheRoleMoves
<1> DEFINE was(t) == snapshot[t]
           is(t)  == account'[member[t]]
           A == \A t \in Tasks :
                  Apply(t) /\ was(t) = account[member[t]] =>
                    held(is(t)) = IF isGrant(t)
                                  THEN held(was(t)) \cup {whole(subject(t, was(t)))}
                                  ELSE {e \in held(was(t)) : e[1] # subject(t, was(t))}
<1>1. RolesInv /\ [Next]_vars => [A]_vars
  <2> SUFFICES ASSUME RolesInv, NEW t \in Tasks, Apply(t), snapshot[t] = account[member[t]]
               PROVE  held(account'[member[t]])
                        = IF isGrant(t)
                          THEN held(snapshot[t]) \cup {whole(subject(t, snapshot[t]))}
                          ELSE {e \in held(snapshot[t]) : e[1] # subject(t, snapshot[t])}
    OBVIOUS
  <2> DEFINE b == body[t]
  <2>1. /\ TypeOK /\ PendingWrite(t) /\ FoundMember(t) /\ b \in Bodies
        /\ carryOut(member[t], b)
    BY DEF RolesInv, TaskInv, Apply, TypeOK, Bodies
  <2>2. held(account'[member[t]]) = held(b)
    BY <2>1, CarriedOut DEF PendingWrite, FoundMember
  <2>3. eitherOr(snapshot[t].roles, snapshot[t].policies)
    BY <2>1 DEF TypeOK, Accounts, FoundMember, wellFormed, carryOut, accepts
  <2> QED
    BY <2>1, <2>2, <2>3, WriteMovesTheRole
<1> QED
  BY <1>1, RolesInvariant, PTL DEF Spec, OnlyTheRoleMoves

=============================================================================
