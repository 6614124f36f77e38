------------------------ MODULE RoleRefinementProofs ------------------------
(***************************************************************************)
(* RoleProvisioning implements RoleAssignment when tasks run one at a time *)
(* and nobody else changes members: for every number of tasks and retries, *)
(* every account, every set of roles, permission groups and policies, and  *)
(* however syncs fill the cache that requests find their member in.        *)
(***************************************************************************)
EXTENDS RoleProvisioningProofs, FiniteSetTheorems

\* One task at a time and no other writer.
OneAtATime ==
  /\ Slots = 1 /\ MaxEdits = 0 /\ LateWrites = FALSE
  /\ IsFiniteSet(Tasks) /\ IsFiniteSet(Members)

\* A page shows the members that are on that page of the account.
SamePage(p, at) ==
  /\ \A m \in Members :
       at.rows[m].status = IF m \in membersOn(p, account) THEN account[m].status
                           ELSE "uninvited"
  /\ at.more = (before(p + 1) < Cardinality(listed(account)))

\* So do all that are cached or on their way.
PagesInv ==
  /\ \A p \in DOMAIN listing : SamePage(p, listing[p])
  /\ \A x \in Tasks \cup {"sync"} : fetched[x] # None => SamePage(page[x], fetched[x])

\* A search has left nobody behind that it looks for.
Searching(t) == pc[t] \in {"call", "list"} /\ request[t].type = "user"

SoughtAhead(t) ==
  \A m \in membersOf(request[t].user, account) : before(page[t]) < place(m, account)

\* The request has been carried out on the member.
CarriedThrough(t) ==
  LET h == account[member[t]]
  IN  /\ subject(t, h) # None
      /\ IF isGrant(t) THEN whole(subject(t, h)) \in held(h)
                       ELSE \A e \in held(h) : e[1] # subject(t, h)

\* What the task that runs knows: who its member is, and from its read to its
\* write what that member holds.
TaskAlone(t) ==
  /\ pc[t] \in {"list", "get", "mirror", "put", "ack"} => request[t].type = "user"
  /\ pc[t] \in {"get", "mirror", "put", "ack"} =>
       member[t] \in membersOf(request[t].user, account)
  /\ pc[t] \in {"mirror", "put"} => snapshot[t] = account[member[t]]
  /\ pc[t] = "ack" => CarriedThrough(t)
  /\ Searching(t) => SoughtAhead(t)
  /\ ~Searching(t) => page[t] = 1

AloneInv ==
  /\ inflight = {}
  /\ edits = 0
  /\ PagesInv
  /\ \A t, u \in Tasks : running(t) /\ running(u) => t = u
  /\ \A t \in Tasks : TaskAlone(t)

\* What the variables of RoleAssignment are mapped to.
Asked  == [t \in Tasks |-> named(t, account)]
Status == [t \in Tasks |-> IF running(t) THEN "running"
                           ELSE IF pc[t] = "queued" THEN "queued" ELSE result[t]]

(***************************************************************************)
(* What users hold, and what requests name                                 *)
(***************************************************************************)

\* A user has one member, and holds what it holds.
LEMMA OneMember ==
  ASSUME NEW a \in Accounts, NEW u, NEW m \in membersOf(u, a)
  PROVE  /\ membersOf(u, a) = {m}
         /\ u \in Users /\ m \in Members /\ UserOf[m] = u
         /\ u \in DOMAIN holdings(a)
         /\ holdings(a)[u] = held(a[m])
<1>1. m \in Members /\ a[m].status = "accepted" /\ UserOf[m] = u /\ u \in Users
  BY RoleAssumption DEF membersOf
<1>2. membersOf(u, a) = {m}
  BY <1>1 DEF membersOf, Accounts
<1>3. u \in {v \in Users : membersOf(v, a) # {}}
  BY <1>1, <1>2
<1>4. UNION {held(a[n]) : n \in membersOf(u, a)} = held(a[m])
  BY <1>2
<1> QED
  BY <1>1, <1>2, <1>3, <1>4 DEF holdings

\* What a request for a user that is a member names.
LEMMA NamedOfMember ==
  ASSUME NEW a \in Accounts, NEW t, request[t].type = "user",
         NEW m \in membersOf(request[t].user, a)
  PROVE  /\ named(t, a).op = request[t].op
         /\ named(t, a).who = request[t].user
         /\ named(t, a).what = subject(t, a[m])
<1>1. membersOf(request[t].user, a) = {m}
  BY OneMember
<1>2. (CHOOSE n \in {m} : TRUE) = m
  OBVIOUS
<1> QED
  BY <1>1, <1>2 DEF named

\* While nobody's status and nobody's model of access changes, requests name
\* what they named.
LEMMA NamesStand ==
  ASSUME request' = request, NEW t,
         \A m \in Members : /\ account'[m].status = account[m].status
                            /\ account'[m].policies = {} <=> account[m].policies = {}
  PROVE  /\ \A u : membersOf(u, account') = membersOf(u, account)
         /\ named(t, account)' = named(t, account)
<1>1. \A u : membersOf(u, account') = membersOf(u, account)
  BY DEF membersOf
<1>2. ASSUME NEW m \in Members PROVE subject(t, account[m])' = subject(t, account[m])
  BY DEF subject
<1>3. ASSUME membersOf(request[t].user, account) # {}
      PROVE  (CHOOSE m \in membersOf(request[t].user, account) : TRUE) \in Members
  <2>1. membersOf(request[t].user, account) \subseteq Members
    BY DEF membersOf
  <2> QED
    BY <1>3, <2>1
<1> QED
  BY <1>1, <1>2, <1>3 DEF named

(***************************************************************************)
(* Pages of a listing nobody changes                                       *)
(***************************************************************************)

\* Members have places from the first page on, up to as many as there are.
LEMMA Places ==
  ASSUME IsFiniteSet(Members), NEW a, NEW m \in listed(a)
  PROVE  /\ place(m, a) \in Nat /\ Cardinality(listed(a)) \in Nat
         /\ before(1) < place(m, a)
         /\ place(m, a) <= Cardinality(listed(a))
<1> DEFINE P == {n \in listed(a) : n <= m}
<1>1. /\ IsFiniteSet(listed(a)) /\ Cardinality(listed(a)) \in Nat
  BY FS_Subset, FS_CardinalityType DEF listed
<1>2. /\ IsFiniteSet(P) /\ Cardinality(P) \in Nat
      /\ Cardinality(P) <= Cardinality(listed(a))
  <2>1. P \subseteq listed(a)
    OBVIOUS
  <2> QED
    BY <1>1, <2>1, FS_Subset, FS_CardinalityType
<1>3. m \in P
  BY RoleAssumption DEF listed
<1>4. Cardinality(P) # 0
  BY <1>2, <1>3, FS_EmptySet
<1>5. before(1) = 0
  BY RoleAssumption DEF before
<1> QED
  BY <1>1, <1>2, <1>4, <1>5 DEF place

\* Pages before a page have a number of members.
LEMMA PagesBefore ==
  ASSUME NEW p \in Nat
  PROVE  before(p + 1) \in Int
<1> DEFINE i == p + 1 - 1
<1>1. i \in Int /\ PageSize \in Int
  BY RoleAssumption
<1>2. before(p + 1) = i * PageSize
  BY DEF before
<1> HIDE DEF i
<1>3. i * PageSize \in Int
  BY <1>1
<1> QED
  BY <1>2, <1>3

\* Whoever has accepted is listed.
LEMMA AcceptedListed ==
  ASSUME NEW a, NEW u
  PROVE  membersOf(u, a) \subseteq listed(a)
BY DEF membersOf, listed, present

\* The first page is as far as a search has come before it starts.
LEMMA SearchStarts ==
  ASSUME IsFiniteSet(Members), NEW t, page'[t] = 1
  PROVE  SoughtAhead(t)'
<1>1. \A m \in listed(account') : before(1) < place(m, account')
  BY Places
<1>2. \A u : membersOf(u, account') \subseteq listed(account')
  BY AcceptedListed
<1> QED
  BY <1>1, <1>2 DEF SoughtAhead, place, membersOf, listed, before

\* While nobody's status changes, pages hold the same members.
LEMMA PlacesStand ==
  ASSUME \A m \in Members : account'[m].status = account[m].status
  PROVE  /\ \A p, at : SamePage(p, at)' <=> SamePage(p, at)
         /\ \A m : place(m, account') = place(m, account)
         /\ \A u : membersOf(u, account') = membersOf(u, account)
<1>1. listed(account') = listed(account)
  BY DEF listed, present
<1>2. \A m : place(m, account') = place(m, account)
  BY <1>1 DEF place
<1>3. \A p : membersOn(p, account') = membersOn(p, account)
  BY <1>1, <1>2 DEF membersOn
<1>4. \A u : membersOf(u, account') = membersOf(u, account)
  BY DEF membersOf
<1>5. ASSUME NEW p, NEW at PROVE SamePage(p, at)' <=> SamePage(p, at)
  <2>1. /\ membersOn(p, account)' = membersOn(p, account)
        /\ listed(account)' = listed(account)
    BY <1>1, <1>3 DEF membersOn, listed, place, present
  <2>2. \A m \in Members : account'[m].status = account[m].status
    OBVIOUS
  <2> QED
    BY <2>1, <2>2 DEF SamePage
<1> QED
  BY <1>2, <1>4, <1>5

\* The page Cloudflare answers with is one of those pages.
LEMMA FreshPage ==
  ASSUME NEW p
  PROVE  SamePage(p, pageOf(p, account))
BY DEF SamePage, pageOf, NoMember

\* No page moves.
LEMMA PagesAsTheyAre ==
  ASSUME PagesInv, \A m \in Members : account'[m].status = account[m].status,
         UNCHANGED <<page, listing, fetched>>
  PROVE  PagesInv'
<1>1. \A p, at : SamePage(p, at)' <=> SamePage(p, at)
  BY PlacesStand
<1>2. \A p \in DOMAIN listing : SamePage(p, listing[p])'
  BY <1>1 DEF PagesInv
<1>3. \A x \in Tasks \cup {"sync"} : fetched[x] # None => SamePage(page[x], fetched[x])'
  BY <1>1 DEF PagesInv
<1> QED
  BY <1>2, <1>3 DEF PagesInv

\* One page is asked for, arrives or is lost, or some leave the cache.
LEMMA PagesMove ==
  ASSUME TypeOK, PagesInv, UNCHANGED account, NEW x \in Tasks \cup {"sync"},
         \A y \in (Tasks \cup {"sync"}) \ {x} : fetched'[y] = fetched[y] /\ page'[y] = page[y],
         \/ fetch(x) /\ UNCHANGED <<page, listing>>
         \/ receive(x)
         \/ fetched'[x] = None /\ UNCHANGED listing
         \/ /\ UNCHANGED <<page, fetched>>
            /\ DOMAIN listing' \subseteq DOMAIN listing
            /\ \A p \in DOMAIN listing' : listing'[p] = listing[p]
  PROVE  PagesInv'
<1>1. \A p, at : SamePage(p, at)' <=> SamePage(p, at)
  BY PlacesStand
<1> SUFFICES /\ \A p \in DOMAIN listing' : SamePage(p, listing'[p])
             /\ \A y \in Tasks \cup {"sync"} :
                  fetched'[y] # None => SamePage(page'[y], fetched'[y])
  <2>1. \A p \in DOMAIN listing' : SamePage(p, listing'[p]) => SamePage(p, listing[p])'
    BY DEF SamePage, membersOn, listed, place, present
  <2>2. \A y \in Tasks \cup {"sync"} :
          SamePage(page'[y], fetched'[y]) => SamePage(page[y], fetched[y])'
    BY DEF SamePage, membersOn, listed, place, present
  <2> QED
    BY <2>1, <2>2 DEF PagesInv
<1>2. \A y \in (Tasks \cup {"sync"}) \ {x} :
        fetched'[y] # None => SamePage(page'[y], fetched'[y])
  BY DEF PagesInv
<1>3. CASE fetch(x) /\ UNCHANGED <<page, listing>>
  <2>1. fetched'[x] = IF page[x] \in DOMAIN listing THEN listing[page[x]]
                      ELSE pageOf(page[x], account)
    BY <1>3 DEF fetch, TypeOK
  <2>2. SamePage(page[x], fetched'[x])
    BY <2>1, FreshPage DEF PagesInv
  <2> QED
    BY <1>2, <1>3, <2>2 DEF PagesInv
<1>4. CASE receive(x)
  <2>1. /\ fetched[x] # None /\ fetched'[x] = None
        /\ listing' = [p \in DOMAIN listing \cup {page[x]} |->
                         IF p = page[x] THEN fetched[x] ELSE listing[p]]
    BY <1>4 DEF receive, TypeOK
  <2>2. ASSUME NEW p \in DOMAIN listing' PROVE SamePage(p, listing'[p])
    <3>1. SamePage(page[x], fetched[x])
      BY <2>1 DEF PagesInv
    <3>2. CASE p = page[x]
      <4>1. listing'[p] = fetched[x]
        BY <2>1, <3>2
      <4> QED
        BY <3>1, <3>2, <4>1
    <3>3. CASE p # page[x]
      <4>1. p \in DOMAIN listing /\ listing'[p] = listing[p]
        BY <2>1, <3>3
      <4> QED
        BY <4>1 DEF PagesInv
    <3> QED
      BY <3>2, <3>3
  <2> QED
    BY <1>2, <2>1, <2>2
<1>5. CASE fetched'[x] = None /\ UNCHANGED listing
  BY <1>2, <1>5 DEF PagesInv
<1>6. CASE /\ UNCHANGED <<page, fetched>>
           /\ DOMAIN listing' \subseteq DOMAIN listing
           /\ \A p \in DOMAIN listing' : listing'[p] = listing[p]
  BY <1>6 DEF PagesInv
<1> QED
  BY <1>3, <1>4, <1>5, <1>6

(***************************************************************************)
(* Each kind of step keeps the task alone and is a step of the promise     *)
(***************************************************************************)

\* The task at work is the only one there is to look at.
LEMMA AloneStep ==
  ASSUME AloneInv, NEW t \in Tasks, TaskAlone(t)', inflight' = inflight, edits' = edits,
         PagesInv',
         \A u \in Tasks \ {t} : ~running(u) /\ pc'[u] = pc[u] /\ page'[u] = page[u]
  PROVE  AloneInv'
<1>1. \A u \in Tasks \ {t} : ~running(u)'
  BY DEF running
<1>2. ASSUME NEW u \in Tasks \ {t} PROVE TaskAlone(u)'
  <2>1. pc[u] \in {"queued", "done"} /\ pc'[u] \in {"queued", "done"}
    BY DEF running
  <2>2. page[u] = 1
    BY <2>1 DEF AloneInv, TaskAlone, Searching
  <2> QED
    BY <2>1, <2>2 DEF TaskAlone, Searching
<1>3. \A u, v \in Tasks : running(u)' /\ running(v)' => u = v
  BY <1>1
<1> QED
  BY <1>2, <1>3 DEF AloneInv

\* While a task runs, no other does.
LEMMA NobodyElseRuns ==
  ASSUME AloneInv, NEW t \in Tasks, running(t)
  PROVE  \A u \in Tasks \ {t} : ~running(u)
BY DEF AloneInv

\* With one slot, a task is only claimed when none runs.
LEMMA ClaimedAlone ==
  ASSUME OneAtATime, NEW t \in Tasks, claim(t)
  PROVE  \A u \in Tasks : ~running(u)
<1> DEFINE R == {u \in Tasks : running(u)}
<1>1. IsFiniteSet(R) /\ Cardinality(R) < 1
  BY FS_Subset DEF OneAtATime, claim
<1>2. Cardinality(R) = 0
  BY <1>1, FS_CardinalityType
<1> QED
  BY <1>1, <1>2, FS_EmptySet

\* How the mapped status follows a task.
LEMMA StatusFollows ==
  ASSUME TypeOK, NEW t \in Tasks, running(t)
  PROVE  /\ Status[t] = "running"
         /\ \A a : answer(t, a) => Status' = [Status EXCEPT ![t] = a]
         /\ \A p : pc' = [pc EXCEPT ![t] = p] /\ p \notin {"queued", "done"}
                   /\ result' = result => Status' = Status
<1>1. ASSUME NEW a, answer(t, a) PROVE Status' = [Status EXCEPT ![t] = a]
  <2>1. /\ \A u \in Tasks \ {t} : pc'[u] = pc[u] /\ result'[u] = result[u]
        /\ pc'[t] = "done" /\ result'[t] = a
    BY <1>1 DEF TypeOK, answer
  <2> QED
    BY <2>1 DEF Status, running
<1>2. ASSUME NEW p, pc' = [pc EXCEPT ![t] = p], p \notin {"queued", "done"}, result' = result
      PROVE  Status' = Status
  <2>1. /\ \A u \in Tasks \ {t} : pc'[u] = pc[u]
        /\ pc'[t] = p
    BY <1>2 DEF TypeOK
  <2> QED
    BY <1>2, <2>1 DEF Status, running
<1> QED
  BY <1>1, <1>2 DEF Status

\* While the account is as it is, so is everything a request is about.
LEMMA AccountStands ==
  ASSUME account' = account, request' = request
  PROVE  holdings(account)' = holdings(account) /\ Asked' = Asked
<1>1. \A t : named(t, account)' = named(t, account)
  BY NamesStand
<1> QED
  BY <1>1 DEF Asked, holdings, membersOf

\* A step of the one task that runs which leaves the account alone: it goes on,
\* or is answered with a failure.
LEMMA QuietStep ==
  ASSUME RolesInv, AloneInv, NEW t \in Tasks, running(t), TaskAlone(t)',
         UNCHANGED <<account, edits, inflight, request>>,
         PagesInv', \A u \in Tasks \ {t} : page'[u] = page[u],
         \/ answer(t, "failed")
         \/ result' = result /\ \E p \in {"call", "list", "get", "mirror", "put", "wait"} :
                                   pc' = [pc EXCEPT ![t] = p]
  PROVE  /\ AloneInv'
         /\ Promise!Fail(t) \/ UNCHANGED Promise!vars
<1>1. TypeOK
  BY DEF RolesInv
<1>2. \A u \in Tasks \ {t} : ~running(u) /\ pc'[u] = pc[u] /\ page'[u] = page[u]
  BY <1>1, NobodyElseRuns DEF TypeOK, answer
<1>3. AloneInv'
  BY <1>2, AloneStep
<1>4. holdings(account)' = holdings(account) /\ Asked' = Asked
  BY AccountStands
<1>5. CASE answer(t, "failed")
  <2>1. Status[t] = "running" /\ Status' = [Status EXCEPT ![t] = "failed"]
    BY <1>1, <1>5, StatusFollows
  <2> QED
    BY <1>3, <1>4, <2>1 DEF Promise!Fail, Asked, Status
<1>6. CASE result' = result /\ \E p \in {"call", "list", "get", "mirror", "put", "wait"} :
                                  pc' = [pc EXCEPT ![t] = p]
  <2>1. Status' = Status
    BY <1>1, <1>6, StatusFollows
  <2> QED
    BY <1>3, <1>4, <2>1 DEF Promise!vars, Asked, Status
<1> QED
  BY <1>5, <1>6

\* A call that fails, or a wait that ends: the next search starts anew.
LEMMA ErrorKeepsPromise ==
  ASSUME IsFiniteSet(Members), RolesInv, AloneInv, NEW t \in Tasks, running(t),
         UNCHANGED <<account, edits, inflight, request>>,
         PagesInv', \A u \in Tasks \ {t} : page'[u] = page[u], page'[t] = 1,
         \/ answer(t, "failed")
         \/ result' = result /\ \E p \in {"wait", "call"} : pc' = [pc EXCEPT ![t] = p]
  PROVE  /\ AloneInv'
         /\ Promise!Fail(t) \/ UNCHANGED Promise!vars
<1>1. pc'[t] \in {"wait", "call", "done"}
  BY DEF RolesInv, TypeOK, answer
<1>2. TaskAlone(t)'
  <2>1. SoughtAhead(t)'
    BY SearchStarts
  <2> QED
    BY <1>1, <2>1 DEF TaskAlone
<1> QED
  BY <1>2, QuietStep

LEMMA StartKeepsPromise ==
  ASSUME OneAtATime, RolesInv, AloneInv, NEW t \in Tasks, Start(t)
  PROVE  AloneInv' /\ Promise!Begin(t)
<1>1. TypeOK
  BY DEF RolesInv
<1>2. /\ pc[t] = "queued" /\ pc' = [pc EXCEPT ![t] = "call"]
      /\ UNCHANGED <<account, edits, inflight, request, result, page, listing, fetched>>
      /\ \A u \in Tasks : ~running(u)
  BY ClaimedAlone DEF Start, claim, accountVars, cacheVars, taskVars
<1>3. /\ \A u \in Tasks \ {t} : pc'[u] = pc[u]
      /\ pc'[t] = "call"
  BY <1>1, <1>2 DEF TypeOK
<1>4. TaskAlone(t)' /\ PagesInv'
  <2>1. page[t] = 1 /\ PagesInv
    BY <1>2 DEF AloneInv, TaskAlone, Searching
  <2>2. SoughtAhead(t)'
    BY <1>2, <2>1, SearchStarts DEF OneAtATime
  <2>3. PagesInv'
    BY <1>2, <2>1, PagesAsTheyAre
  <2> QED
    BY <1>2, <1>3, <2>1, <2>2, <2>3 DEF TaskAlone
<1>5. AloneInv'
  BY <1>2, <1>3, <1>4, AloneStep
<1>6. holdings(account)' = holdings(account) /\ Asked' = Asked
  BY <1>2, AccountStands
<1>7. Status[t] = "queued" /\ Status' = [Status EXCEPT ![t] = "running"]
  <2>1. running(t)' /\ \A u \in Tasks \ {t} : running(u)' = running(u)
    BY <1>3 DEF running
  <2> QED
    BY <1>2, <1>3, <2>1 DEF Status
<1>8. \A u \in Tasks : Status[u] # "running"
  BY <1>1, <1>2 DEF Status, TypeOK
<1> QED
  BY <1>5, <1>6, <1>7, <1>8 DEF Promise!Begin, Asked, Status

\* A page gone through: the user's member is found, or the search goes on to the
\* next page, or ends with nobody; the user is then no member.
LEMMA FoundKeepsPromise ==
  ASSUME IsFiniteSet(Members), RolesInv, AloneInv, NEW t \in Tasks,
         NEW at, SamePage(page[t], at), findMember(t, at),
         running(t), Searching(t),
         UNCHANGED <<account, edits, inflight, request>>, PagesInv'
  PROVE  /\ AloneInv'
         /\ Promise!FindNobody(t) \/ Promise!Fail(t) \/ UNCHANGED Promise!vars
<1> DEFINE u     == request[t].user
           there == membersOf(u, account)
           found == membersOf(u, at.rows)
           p     == page[t]
<1>1. TypeOK /\ u \in Users /\ request[t].type = "user"
  BY RequestTyped DEF RolesInv, Searching
<1>2. found = there \cap membersOn(p, account)
  BY DEF SamePage, membersOf
<1>3. \A v \in Tasks \ {t} : page'[v] = page[v]
  BY <1>1 DEF findMember, turnTo, TypeOK
<1>4. ASSUME found = {} PROVE \A m \in there : before(p + 1) < place(m, account)
  <2> SUFFICES ASSUME NEW m \in there PROVE before(p + 1) < place(m, account)
    OBVIOUS
  <2>1. m \in listed(account) /\ m \notin membersOn(p, account)
    BY <1>2, <1>4, AcceptedListed
  <2>2. before(p) < place(m, account)
    BY DEF AloneInv, TaskAlone, SoughtAhead
  <2>3. ~(place(m, account) <= before(p + 1))
    BY <2>1, <2>2 DEF membersOn
  <2>4. place(m, account) \in Nat /\ before(p + 1) \in Int
    BY <1>1, <2>1, Places, PagesBefore DEF TypeOK
  <2> QED
    BY <2>3, <2>4
<1>5. CASE found # {}
  <2>1. /\ pc' = [pc EXCEPT ![t] = "get"] /\ result' = result
        /\ page' = [page EXCEPT ![t] = 1]
        /\ \E m \in there : member' = [member EXCEPT ![t] = m]
    BY <1>2, <1>5 DEF findMember, turnTo
  <2>2. pc'[t] = "get" /\ member'[t] \in there /\ page'[t] = 1
    BY <1>1, <2>1 DEF TypeOK
  <2>3. there' = there
    BY DEF membersOf
  <2>4. TaskAlone(t)'
    BY <1>1, <2>2, <2>3 DEF TaskAlone, Searching
  <2> QED
    BY <1>3, <2>1, <2>4, QuietStep
<1>6. CASE found = {} /\ at.more
  <2>1. /\ pc' = [pc EXCEPT ![t] = "call"] /\ result' = result
        /\ page' = [page EXCEPT ![t] = p + 1]
    BY <1>6 DEF findMember, turnTo
  <2>2. pc'[t] = "call" /\ page'[t] = p + 1
    BY <1>1, <2>1 DEF TypeOK
  <2>3. SoughtAhead(t)'
    <3>1. /\ \A m : place(m, account') = place(m, account)
          /\ membersOf(u, account') = there
      BY PlacesStand
    <3>2. \A m \in there : before(p + 1) < place(m, account)
      BY <1>4, <1>6
    <3>3. \A m \in membersOf(u, account') : before(page'[t]) < place(m, account')
      BY <2>2, <3>1, <3>2
    <3> QED
      BY <3>3 DEF SoughtAhead, place, membersOf, listed, before
  <2>4. TaskAlone(t)'
    BY <1>1, <2>2, <2>3 DEF TaskAlone, Searching
  <2> QED
    BY <1>3, <2>1, <2>4, QuietStep
<1>7. CASE found = {} /\ ~at.more
  <2>1. answer(t, "noMember") /\ page' = [page EXCEPT ![t] = 1]
    BY <1>7 DEF findMember, turnTo
  <2>2. there = {}
    <3>1. ~(before(p + 1) < Cardinality(listed(account)))
      BY <1>7 DEF SamePage
    <3> SUFFICES ASSUME NEW m \in there PROVE FALSE
      OBVIOUS
    <3>2. /\ place(m, account) <= Cardinality(listed(account))
          /\ place(m, account) \in Nat /\ Cardinality(listed(account)) \in Nat
      BY Places, AcceptedListed
    <3>3. before(p + 1) < place(m, account) /\ before(p + 1) \in Int
      BY <1>1, <1>4, <1>7, PagesBefore DEF TypeOK
    <3> QED
      BY <3>1, <3>2, <3>3
  <2>3. \A v \in Tasks \ {t} : ~running(v) /\ pc'[v] = pc[v]
    BY <1>1, <2>1, NobodyElseRuns DEF TypeOK, answer
  <2>4. pc'[t] = "done" /\ page'[t] = 1
    BY <1>1, <2>1 DEF TypeOK, answer
  <2>5. TaskAlone(t)'
    BY <2>4 DEF TaskAlone, Searching
  <2>6. AloneInv'
    BY <1>3, <2>3, <2>5, AloneStep
  <2>7. Status[t] = "running" /\ Status' = [Status EXCEPT ![t] = "noMember"]
    BY <1>1, <2>1, StatusFollows
  <2>8. holdings(account)' = holdings(account) /\ Asked' = Asked
    BY AccountStands
  <2>9. Asked[t].who \in Users \ DOMAIN holdings(account)
    BY <1>1, <2>2 DEF Asked, named, holdings
  <2> QED
    BY <2>6, <2>7, <2>8, <2>9 DEF Promise!FindNobody, Asked, Status
<1> QED
  BY <1>5, <1>6, <1>7 DEF findMember

LEMMA SearchKeepsPromise ==
  ASSUME IsFiniteSet(Members), RolesInv, AloneInv, NEW t \in Tasks, List(t) \/ Find(t)
  PROVE  /\ AloneInv'
         /\ Promise!FindNobody(t) \/ Promise!Fail(t) \/ UNCHANGED Promise!vars
<1>1. TypeOK /\ TaskAlone(t) /\ PagesInv
  BY DEF RolesInv, AloneInv
<1>2. /\ running(t) /\ Searching(t)
      /\ UNCHANGED <<account, edits, inflight, request>>
  BY <1>1 DEF List, Find, accountAsIs, accountVars, running, TaskAlone, Searching
<1>3. PagesInv'
  <2>1. /\ \/ fetch(t) /\ UNCHANGED <<page, listing>>
           \/ receive(t) /\ \E k : page' = [page EXCEPT ![t] = k]
        /\ \E k : fetched' = [fetched EXCEPT ![t] = k]
    BY DEF List, Find, fetch, receive, findMember, turnTo
  <2>2. \A y \in (Tasks \cup {"sync"}) \ {t} : fetched'[y] = fetched[y] /\ page'[y] = page[y]
    BY <1>1, <2>1 DEF TypeOK
  <2>3. t \in Tasks \cup {"sync"}
    OBVIOUS
  <2> QED
    BY <1>1, <1>2, <2>1, <2>2, <2>3, PagesMove
<1>4. CASE Find(t)
  <2>1. findMember(t, fetched[t]) /\ SamePage(page[t], fetched[t])
    BY <1>1, <1>4 DEF Find, receive, PagesInv
  <2> QED
    BY <1>2, <1>3, <2>1, FoundKeepsPromise
<1>5. CASE List(t)
  <2>1. pc' = [pc EXCEPT ![t] = "list"] /\ UNCHANGED <<result, page>>
    BY <1>5 DEF List
  <2>2. pc'[t] = "list"
    BY <1>1, <2>1 DEF TypeOK
  <2>3. SoughtAhead(t)'
    BY <1>1, <1>2, <2>1 DEF TaskAlone, SoughtAhead, place, membersOf, listed, before
  <2>4. TaskAlone(t)'
    BY <1>2, <2>2, <2>3 DEF TaskAlone, Searching
  <2> QED
    BY <1>2, <1>3, <2>1, <2>4, QuietStep
<1> QED
  BY <1>4, <1>5

\* Reading the member and looking up the group change nothing in the account;
\* a write that is refused fails.
LEMMA ReadKeepsPromise ==
  ASSUME RolesInv, AloneInv, NEW t \in Tasks, Read(t) \/ Mirror(t)
  PROVE  /\ AloneInv'
         /\ Promise!Fail(t) \/ UNCHANGED Promise!vars
<1>1. TypeOK /\ TaskAlone(t)
  BY DEF RolesInv, AloneInv
<1>2. /\ running(t) /\ pc[t] \in {"get", "mirror"}
      /\ UNCHANGED <<account, edits, inflight, request, member, page, listing, fetched>>
      /\ snapshot'[t] = account[member[t]]
      /\ \/ answer(t, "failed")
         \/ result' = result /\ \E p \in {"mirror", "put"} : pc' = [pc EXCEPT ![t] = p]
  <2>1. CASE Read(t)
    BY <1>1, <2>1 DEF Read, accountMember, write, returnError, TypeOK, accountVars,
                      cacheVars, running
  <2>2. CASE Mirror(t)
    BY <1>1, <2>2 DEF Mirror, write, returnError, TypeOK, TaskAlone, accountVars,
                      cacheVars, running
  <2> QED
    BY <2>1, <2>2
<1>3. PagesInv'
  BY <1>2, PagesAsTheyAre DEF AloneInv
<1>4. TaskAlone(t)'
  <2>1. pc'[t] \in {"mirror", "put", "done"}
    BY <1>1, <1>2 DEF TypeOK, answer
  <2> QED
    BY <1>1, <1>2, <2>1 DEF TaskAlone, Searching, membersOf
<1> QED
  BY <1>2, <1>3, <1>4, QuietStep

\* Carrying out a pending write leaves the member something to hold.
LEMMA NobodyIsLeftBare ==
  ASSUME TypeOK, NEW t \in Tasks, PendingWrite(t),
         eitherOr(snapshot[t].roles, snapshot[t].policies)
  PROVE  held(body[t]) # {}
<1>1. CASE isGrant(t)
  BY <1>1, WriteMovesTheRole
<1>2. CASE body[t].roles # {}
  <2>1. PICK r \in body[t].roles : TRUE
    BY <1>2
  <2>2. whole(r) \in held(body[t])
    BY <2>1, HeldMembers
  <2> QED
    BY <2>2
<1>3. CASE ~isGrant(t) /\ body[t].roles = {}
  <2>1. /\ body[t].policies # {}
        /\ \A p \in body[t].policies : p.groups # {}
    BY <1>3 DEF PendingWrite, eitherOr, rolesRevoked, policiesRevoked
  <2>2. PICK p \in body[t].policies : \E g \in p.groups : TRUE
    BY <2>1
  <2>3. PICK g \in p.groups : TRUE
    BY <2>2
  <2>4. <<g, p.scope, p.access>> \in held(body[t])
    BY <2>2, <2>3, HeldMembers
  <2> QED
    BY <2>4
<1> QED
  BY <1>1, <1>2, <1>3

\* When one member comes to hold something else, its user does, and nobody
\* else.
LEMMA OneUserMoves ==
  ASSUME NEW old \in Accounts, NEW new \in Accounts,
         NEW u, NEW m \in membersOf(u, old),
         \A n \in Members : new[n].status = old[n].status,
         \A n \in Members : n # m => new[n] = old[n]
  PROVE  holdings(new) = [holdings(old) EXCEPT ![u] = held(new[m])]
<1> DEFINE H(a, v) == UNION {held(a[n]) : n \in membersOf(v, a)}
           D == {v \in Users : membersOf(v, old) # {}}
<1>1. \A v : membersOf(v, new) = membersOf(v, old)
  BY DEF membersOf
<1>2. /\ holdings(new) = [v \in D |-> H(new, v)]
      /\ holdings(old) = [v \in D |-> H(old, v)]
  BY <1>1 DEF holdings
<1>3. u \in D /\ H(new, u) = held(new[m]) /\ UserOf[m] = u
  BY <1>1, OneMember
<1>4. ASSUME NEW v \in D, v # u PROVE H(new, v) = H(old, v)
  <2>1. \A n \in membersOf(v, old) : new[n] = old[n]
    BY <1>3, <1>4 DEF membersOf
  <2> QED
    BY <1>1, <2>1
<1> HIDE DEF H, D
<1> QED
  BY <1>2, <1>3, <1>4

LEMMA ApplyKeepsPromise ==
  ASSUME RolesInv, AloneInv, NEW t \in Tasks, Apply(t)
  PROVE  AloneInv' /\ Promise!Move(t)
<1> DEFINE m == member[t]
           u == request[t].user
           h == account[m]
           after == held(account'[m])
<1>1. /\ TypeOK /\ TaskAlone(t) /\ PendingWrite(t) /\ body[t] \in Bodies
      /\ account \in Accounts
  BY DEF RolesInv, TaskInv, AloneInv, Apply, TypeOK, Bodies
<1>2. /\ pc[t] = "put" /\ running(t) /\ carryOut(m, body[t])
      /\ pc' = [pc EXCEPT ![t] = "ack"]
      /\ UNCHANGED <<edits, inflight, page, listing, fetched, request, result, member>>
  BY DEF Apply, running, taskVars
<1>3. /\ snapshot[t] = h /\ request[t].type = "user"
      /\ m \in Members /\ m \in membersOf(u, account)
  BY <1>1, <1>2 DEF TaskAlone, membersOf
<1>4. eitherOr(h.roles, h.policies)
  BY <1>1, <1>2, <1>3 DEF Accounts, wellFormed, carryOut, accepts
<1>5. /\ account' \in Accounts
      /\ \A n \in Members : account'[n].status = account[n].status
      /\ \A n \in Members : n # m => account'[n] = account[n]
      /\ account'[m].policies = {} <=> body[t].policies = {}
      /\ after = held(body[t])
  BY <1>1, <1>2, <1>3, CarriedOut DEF PendingWrite
<1>6. /\ after = IF isGrant(t) THEN held(h) \cup {whole(subject(t, h))}
                 ELSE {e \in held(h) : e[1] # subject(t, h)}
      /\ after # {}
  BY <1>1, <1>3, <1>4, <1>5, WriteMovesTheRole, NobodyIsLeftBare
<1>7. body[t].policies = {} <=> h.policies = {}
  <2>1. body[t].policies = {} <=> snapshot[t].policies = {}
    BY <1>1 DEF PendingWrite, rolesGranted, rolesRevoked, policiesGranted,
                policiesRevoked, eitherOr
  <2> QED
    BY <1>3, <2>1
<1>8. subject(t, account'[m]) = subject(t, h) /\ subject(t, h) # None
  BY <1>1, <1>3, <1>5, <1>7, RequestTyped, RoleAssumption DEF PendingWrite, subject
<1>9. Asked' = Asked
  <2>1. \A n \in Members : account'[n].policies = {} <=> account[n].policies = {}
    BY <1>5, <1>7
  <2>2. \A v : named(v, account)' = named(v, account)
    BY <1>2, <1>5, <2>1, NamesStand
  <2> QED
    BY <2>2 DEF Asked
<1>10. /\ Asked[t].op = request[t].op /\ Asked[t].who = u
       /\ Asked[t].what = subject(t, h)
  BY <1>1, <1>3, NamedOfMember DEF Asked
<1>11. TaskAlone(t)'
  <2>1. CarriedThrough(t)'
    <3>1. /\ subject(t, account[member[t]])' = subject(t, h)
          /\ held(account[member[t]])' = after
          /\ isGrant(t)' = isGrant(t)
      BY <1>2, <1>8 DEF subject, held, isGrant
    <3> QED
      BY <1>6, <1>8, <3>1 DEF CarriedThrough
  <2>2. /\ pc'[t] = "ack" /\ request'[t].type = "user" /\ member'[t] = m
        /\ page'[t] = 1
    BY <1>1, <1>2, <1>3 DEF TypeOK, TaskAlone, Searching
  <2>3. m \in membersOf(request'[t].user, account')
    BY <1>2, <1>3, <1>5 DEF membersOf
  <2> QED
    BY <2>1, <2>2, <2>3 DEF TaskAlone, Searching
<1>12. AloneInv'
  <2>1. \A v \in Tasks \ {t} : ~running(v) /\ pc'[v] = pc[v]
    BY <1>1, <1>2, NobodyElseRuns DEF TypeOK
  <2>2. PagesInv'
    BY <1>2, <1>5, PagesAsTheyAre DEF AloneInv
  <2> QED
    BY <1>2, <1>5, <1>11, <2>1, <2>2, AloneStep
<1>13. Status[t] = "running" /\ Status' = Status
  <2>1. /\ Status[t] = "running"
        /\ \A p : pc' = [pc EXCEPT ![t] = p] /\ p \notin {"queued", "done"}
                  /\ result' = result => Status' = Status
    BY <1>1, <1>2, StatusFollows
  <2>2. "ack" \notin {"queued", "done"}
    OBVIOUS
  <2> QED
    BY <1>2, <2>1, <2>2
<1>14. /\ u \in DOMAIN holdings(account) /\ holdings(account)[u] = held(h)
       /\ holdings(account)' = [holdings(account) EXCEPT ![u] = after]
  <2>1. holdings(account)' = holdings(account')
    BY DEF holdings, membersOf
  <2> QED
    BY <1>1, <1>3, <1>5, <2>1, OneMember, OneUserMoves
<1>15. after = IF Asked[t].op = "grant"
               THEN holdings(account)[u] \cup {<<Asked[t].what, "account", "allow">>}
               ELSE {e \in holdings(account)[u] : e[1] # Asked[t].what}
  BY <1>6, <1>10, <1>14 DEF isGrant, whole
<1> HIDE DEF m, h, u, after
<1> QED
  BY <1>6, <1>8, <1>9, <1>10, <1>12, <1>13, <1>14, <1>15
     DEF Promise!Move, Promise!Sensible, Promise!After, Asked, Status

LEMMA AcknowledgeKeepsPromise ==
  ASSUME RolesInv, AloneInv, NEW t \in Tasks, Acknowledge(t)
  PROVE  AloneInv' /\ Promise!Succeed(t)
<1> DEFINE m == member[t]
           u == request[t].user
           h == account[m]
<1>1. TypeOK /\ TaskAlone(t) /\ account \in Accounts
  BY DEF RolesInv, AloneInv, TypeOK
<1>2. /\ pc[t] = "ack" /\ running(t) /\ answer(t, "ok")
      /\ UNCHANGED <<account, edits, inflight, request, page, listing, fetched>>
  BY DEF Acknowledge, running, accountVars, cacheVars
<1>3. /\ CarriedThrough(t) /\ request[t].type = "user"
      /\ m \in membersOf(u, account)
  BY <1>1, <1>2 DEF TaskAlone
<1>4. /\ \A v \in Tasks \ {t} : ~running(v) /\ pc'[v] = pc[v]
      /\ pc'[t] = "done"
  BY <1>1, <1>2, NobodyElseRuns DEF TypeOK, answer
<1>5. AloneInv'
  <2>1. TaskAlone(t)'
    BY <1>1, <1>2, <1>4 DEF TaskAlone, Searching
  <2>2. PagesInv'
    BY <1>2, PagesAsTheyAre DEF AloneInv
  <2> QED
    BY <1>2, <1>4, <2>1, <2>2, AloneStep
<1>6. holdings(account)' = holdings(account) /\ Asked' = Asked
  BY <1>2, AccountStands
<1>7. Status[t] = "running" /\ Status' = [Status EXCEPT ![t] = "ok"]
  BY <1>1, <1>2, StatusFollows
<1>8. /\ Asked[t].op = request[t].op /\ Asked[t].who = u
      /\ Asked[t].what = subject(t, h) /\ subject(t, h) # None
  BY <1>1, <1>3, NamedOfMember DEF Asked, CarriedThrough
<1>9. u \in DOMAIN holdings(account) /\ holdings(account)[u] = held(h)
  BY <1>1, <1>3, OneMember
<1>10. held(h) = IF Asked[t].op = "grant"
                 THEN held(h) \cup {<<Asked[t].what, "account", "allow">>}
                 ELSE {e \in held(h) : e[1] # Asked[t].what}
  BY <1>3, <1>8 DEF CarriedThrough, isGrant, whole
<1> HIDE DEF m, h, u
<1> QED
  BY <1>5, <1>6, <1>7, <1>8, <1>9, <1>10
     DEF Promise!Succeed, Promise!Sensible, Promise!After, Asked, Status

\* What a member holds is made of roles and permission groups.
LEMMA HeldItems ==
  ASSUME NEW h \in Standing
  PROVE  held(h) \subseteq (Roles \cup PermissionGroups) \X {"account", "zone"}
                             \X {"allow", "deny"}
<1>1. h.roles \subseteq Roles /\ h.policies \subseteq Policies
  BY DEF Standing
<1>2. \A r \in h.roles : whole(r) \in Roles \X {"account", "zone"} \X {"allow", "deny"}
  BY <1>1 DEF whole
<1>3. \A p \in h.policies : \A g \in p.groups :
        <<g, p.scope, p.access>> \in PermissionGroups \X {"account", "zone"} \X {"allow", "deny"}
  BY <1>1 DEF Policies
<1> QED
  BY <1>2, <1>3, HeldMembers

LEMMA InitIsInitial == OneAtATime /\ Init => AloneInv /\ Promise!Init
<1> SUFFICES ASSUME OneAtATime, Init PROVE AloneInv /\ Promise!Init
  OBVIOUS
<1>1. TypeOK /\ account \in Accounts /\ account \in [Members -> Standing]
  BY InitEstablishes, AccountTyped DEF RolesInv, TypeOK
<1>2. \A t \in Tasks : pc[t] = "queued" /\ ~running(t)
  BY DEF Init, running
<1>3. AloneInv
  <2>1. PagesInv
    BY DEF Init, PagesInv
  <2> QED
    BY <1>2, <2>1 DEF Init, AloneInv, TaskAlone, Searching
<1>4. Status = [t \in Tasks |-> "queued"]
  BY <1>2 DEF Status
<1>5. \E members \in SUBSET Users :
        holdings(account) \in [members -> SUBSET Promise!Items]
  <2> DEFINE D == {v \in Users : membersOf(v, account) # {}}
  <2>1. \A m \in Members : held(account[m]) \subseteq Promise!Items
    BY <1>1, HeldItems DEF Promise!Items
  <2>2. \A v : UNION {held(account[m]) : m \in membersOf(v, account)} \subseteq Promise!Items
    BY <2>1 DEF membersOf
  <2>3. holdings(account) \in [D -> SUBSET Promise!Items]
    BY <2>2 DEF holdings
  <2> QED
    BY <2>3
<1>6. Asked \in [Tasks -> [op : {"grant", "revoke"}, who : Users \cup {None},
                           what : Roles \cup PermissionGroups \cup {None}]]
  <2>1. ASSUME NEW t \in Tasks
        PROVE  /\ named(t, account).op \in {"grant", "revoke"}
               /\ named(t, account).who \in Users \cup {None}
               /\ named(t, account).what \in Roles \cup PermissionGroups \cup {None}
    <3>1. /\ request[t].op \in {"grant", "revoke"}
          /\ request[t].user \in Users /\ request[t].role \in Roles
      BY <1>1, RoleAssumption DEF TypeOK
    <3>2. \A h : subject(t, h) \in Roles \cup PermissionGroups \cup {None}
      BY <3>1, RoleAssumption DEF subject
    <3> QED
      BY <3>1, <3>2 DEF named
  <2>2. ASSUME NEW t \in Tasks
        PROVE  named(t, account) = [op   |-> named(t, account).op,
                                    who  |-> named(t, account).who,
                                    what |-> named(t, account).what]
    BY DEF named
  <2> QED
    BY <2>1, <2>2 DEF Asked
<1>7. Promise!TypeOK
  <2>1. Status \in [Tasks -> {"queued", "running"} \cup Promise!Answers]
    BY <1>4
  <2> QED
    BY <1>5, <1>6, <2>1 DEF Promise!TypeOK, Asked, Status
<1> QED
  BY <1>3, <1>4, <1>7 DEF Promise!Init, Asked, Status

\* Syncs, and cached listings that expire, are no business of the promise.
LEMMA BackgroundStep ==
  ASSUME AloneInv, PagesInv', \A t \in Tasks : page'[t] = page[t],
         UNCHANGED <<account, edits, inflight, pc, request, result, member, snapshot>>
  PROVE  AloneInv' /\ UNCHANGED Promise!vars
<1>1. \A t \in Tasks : TaskAlone(t)' = TaskAlone(t) /\ running(t)' = running(t)
  BY DEF TaskAlone, running, membersOf, CarriedThrough, subject, isGrant, held,
         Searching, SoughtAhead, place, listed, before
<1>3. AloneInv'
  BY <1>1 DEF AloneInv
<1>4. holdings(account)' = holdings(account) /\ Asked' = Asked
  BY AccountStands
<1>5. Status' = Status
  BY <1>1 DEF Status
<1> QED
  BY <1>3, <1>4, <1>5 DEF Promise!vars, Asked, Status

LEMMA NextKeepsPromise ==
  ASSUME OneAtATime, RolesInv, AloneInv, [Next]_vars
  PROVE  AloneInv' /\ [Promise!Next]_(Promise!vars)
<1>1. TypeOK
  BY DEF RolesInv
<1>2. ASSUME NEW t \in Tasks, Work(t)
      PROVE  AloneInv' /\ [Promise!Next]_(Promise!vars)
  <2>1. CASE Start(t)
    BY <2>1, StartKeepsPromise DEF Promise!Next
  <2>2. CASE List(t) \/ Find(t)
    BY <2>2, SearchKeepsPromise DEF OneAtATime, Promise!Next
  <2>3. CASE Read(t) \/ Mirror(t)
    BY <2>3, ReadKeepsPromise DEF Promise!Next
  <2>4. CASE Apply(t)
    BY <2>4, ApplyKeepsPromise DEF Promise!Next
  <2>5. CASE Acknowledge(t)
    BY <2>5, AcknowledgeKeepsPromise DEF Promise!Next
  <2>6. CASE Reject(t) \/ ListFails(t) \/ CallFails(t) \/ LoseAnswer(t) \/ Resume(t) \/ Cancel(t)
    <3>1. /\ running(t)
          /\ UNCHANGED <<account, edits, inflight, request, listing>>
          /\ \/ /\ fetched' = [fetched EXCEPT ![t] = None]
                /\ page' = [page EXCEPT ![t] = 1]
             \/ UNCHANGED <<page, fetched>> /\ ~Searching(t)
      BY <2>6 DEF Reject, ListFails, CallFails, LoseAnswer, Resume, Cancel, callAgain, lose,
                  stopWaiting, running, accountAsIs, accountVars, cacheVars, taskVars,
                  turnTo, Searching
    <3>2. /\ \A y \in (Tasks \cup {"sync"}) \ {t} : fetched'[y] = fetched[y] /\ page'[y] = page[y]
          /\ page'[t] = 1
      BY <1>1, <3>1 DEF TypeOK, AloneInv, TaskAlone
    <3>4. PagesInv'
      <4>1. CASE UNCHANGED <<page, fetched>>
        BY <3>1, <4>1, PagesAsTheyAre DEF AloneInv
      <4>2. CASE fetched'[t] = None
        BY <1>1, <3>1, <3>2, <4>2, PagesMove DEF AloneInv
      <4>3. fetched'[t] = None \/ UNCHANGED <<page, fetched>>
        BY <1>1, <3>1 DEF TypeOK
      <4> QED
        BY <3>1, <4>1, <4>2, <4>3
    <3>3. \/ answer(t, "failed")
          \/ result' = result /\ \E p \in {"wait", "call"} : pc' = [pc EXCEPT ![t] = p]
      <4>1. CASE Resume(t) \/ Cancel(t)
        BY <4>1 DEF Resume, Cancel, callAgain, stopWaiting, taskVars
      <4>2. CASE \E retryable \in BOOLEAN : returnError(t, retryable)
        BY <4>2 DEF returnError
      <4> QED
        BY <2>6, <4>1, <4>2 DEF Reject, ListFails, CallFails, LoseAnswer
    <3> QED
      BY <3>1, <3>2, <3>3, <3>4, ErrorKeepsPromise DEF OneAtATime, Promise!Next
  <2>7. CASE Abandon(t)
    BY <2>7 DEF Abandon, OneAtATime
  <2> QED
    BY <1>2, <2>1, <2>2, <2>3, <2>4, <2>5, <2>6, <2>7 DEF Work
<1>3. CASE Sync \/ Expire
  <2>1. UNCHANGED <<account, edits, inflight, pc, request, result, member, snapshot>>
    BY <1>3 DEF Sync, SyncBegin, SyncAsk, SyncReport, SyncFails, SyncEnd, Expire,
                accountVars, taskVars
  <2>2. PagesInv
    BY DEF AloneInv
  <2>3. CASE Expire
    <3>1. /\ UNCHANGED <<account, page, fetched>>
          /\ DOMAIN listing' \subseteq DOMAIN listing
          /\ \A p \in DOMAIN listing' : listing'[p] = listing[p]
      BY <2>3 DEF Expire, accountVars
    <3>2. PagesInv'
      BY <1>1, <2>2, <3>1, PagesMove
    <3> QED
      BY <2>1, <3>1, <3>2, BackgroundStep
  <2>4. CASE SyncEnd
    <3>1. UNCHANGED <<account, page, fetched>> /\ DOMAIN listing' = {}
      BY <2>4 DEF SyncEnd, accountVars
    <3>2. PagesInv'
      BY <1>1, <2>2, <3>1, PagesMove
    <3> QED
      BY <2>1, <3>1, <3>2, BackgroundStep
  <2>5. CASE SyncBegin
    <3>1. UNCHANGED <<account, page, listing, fetched>>
      BY <2>5 DEF SyncBegin, accountVars, cacheVars
    <3>2. PagesInv'
      BY <2>2, <3>1, PagesAsTheyAre
    <3> QED
      BY <2>1, <3>1, <3>2, BackgroundStep
  <2>6. CASE SyncAsk \/ SyncReport \/ SyncFails
    <3>1. /\ \/ fetch("sync") /\ UNCHANGED <<page, listing>>
             \/ receive("sync")
             \/ lose("sync") /\ UNCHANGED listing
          /\ UNCHANGED page \/ \E k : page' = [page EXCEPT !["sync"] = k]
          /\ UNCHANGED account
      BY <2>6 DEF SyncAsk, SyncReport, SyncFails, turnTo, accountVars
    <3>2. \E k : fetched' = [fetched EXCEPT !["sync"] = k]
      BY <3>1 DEF fetch, receive, lose
    <3>3. /\ \A y \in (Tasks \cup {"sync"}) \ {"sync"} :
               fetched'[y] = fetched[y] /\ page'[y] = page[y]
          /\ lose("sync") => fetched'["sync"] = None
      BY <1>1, <3>1, <3>2 DEF TypeOK, lose
    <3>4. \A t \in Tasks : page'[t] = page[t]
      BY <3>3, RoleAssumption
    <3>5. PagesInv'
      BY <1>1, <2>2, <3>1, <3>3, PagesMove
    <3> QED
      BY <2>1, <3>4, <3>5, BackgroundStep
  <2> QED
    BY <1>3, <2>3, <2>4, <2>5, <2>6 DEF Sync
<1>4. CASE Land
  BY <1>4 DEF Land, AloneInv
<1>5. CASE Edit
  BY <1>5 DEF Edit, AloneInv, OneAtATime
<1>6. CASE UNCHANGED vars
  <2>1. UNCHANGED <<account, edits, inflight, pc, page, listing, fetched, request, result,
                    member, snapshot>>
    BY <1>6 DEF vars, taskVars
  <2>2. PagesInv'
    BY <2>1, PagesAsTheyAre DEF AloneInv
  <2> QED
    BY <2>1, <2>2, BackgroundStep
<1> QED
  BY <1>2, <1>3, <1>4, <1>5, <1>6 DEF Next

(***************************************************************************)
(* Theorem                                                                 *)
(***************************************************************************)

\* One task at a time, with no other writer, Grant and Revoke keep the promise
\* of RoleAssignment, retries, lost answers and cached pages included: a
\* request moves the one thing it names, for its own user and nobody else,
\* leaves nobody without anything, and its answer is the truth.
THEOREM SequentialRolesKeepPromise ==
  ASSUME OneAtATime
  PROVE  Spec => KeepsPromise
<1>1. Init => AloneInv /\ Promise!Init
  BY InitIsInitial
<1>2. RolesInv /\ AloneInv /\ [Next]_vars
        => AloneInv' /\ [Promise!Next]_(Promise!vars)
  BY NextKeepsPromise
<1> QED
  BY <1>1, <1>2, RolesInvariant, PTL DEF Spec, KeepsPromise, Promise!Spec

=============================================================================
