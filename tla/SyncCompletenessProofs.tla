---------------------- MODULE SyncCompletenessProofs ----------------------
(***************************************************************************)
(* What a sync of AccountSync that ends has missed nothing of: roles and   *)
(* groups, the grants that a group gave throughout, and what it logs of    *)
(* the rules it skipped.                                                   *)
(***************************************************************************)
EXTENDS AccountSyncProofs, AccessRulesProofs, FiniteSetTheorems

(***************************************************************************)
(* Grants that every version of a group gives are found                    *)
(***************************************************************************)

\* The grants that all versions of a group give, to users on the pages before
\* one and to all users; and what is found with the first page, the members
\* of nested groups and that rules are skipped.
Steady(g, u)     == \A v \in versions[g] : lets(v, u)
GrantedBefore(g, k) ==
  \A p \in Page : p < k => \A u \in usersOf(pageOf(directory, p)) : Steady(g, u) => <<g, u>> \in grants
GrantedToAll(g)  == \A u \in usersOf(directory) : Steady(g, u) => <<g, u>> \in grants
FirstFound(g)    ==
  /\ \A n \in GroupIds : (\A v \in versions[g] : expands(v, n)) => <<g, n>> \in nested
  /\ (\A v \in versions[g] : logsSkippedRules(v)) => g \in logged

\* How far the grants of a group have come.
GrantsSteady(g) ==
  /\ \A n \in Nat : phase = "grants" /\ g \in todo /\ bag[g] = Own(g, n)
       => GrantedBefore(g, parsePageToken(n)) /\ FirstFound(g)
  /\ phase = "done" \/ (phase = "grants" /\ g \notin todo) => GrantedToAll(g) /\ FirstFound(g)

SteadyInv ==
  /\ phase # "before" => stayed \subseteq DOMAIN groups
  /\ edits = 0 => Truthful /\ \A g \in stayed \cap storedGroups : GrantsSteady(g)

\* While grants are not dropped, versions only added and the group's job at
\* its place, what was found stays found.
LEMMA SteadyStays ==
  ASSUME TypeInv, NEW g \in GroupIds, GrantsSteady(g), directory' = directory,
         phase' = phase, grants \subseteq grants', nested \subseteq nested', logged \subseteq logged',
         versions[g] \subseteq versions'[g], g \in todo' <=> g \in todo,
         bag'[g] = bag[g]
  PROVE  GrantsSteady(g)'
<1>1. \A u : Steady(g, u)' => Steady(g, u)
  BY DEF Steady, lets, isMember
<1>2. FirstFound(g) => FirstFound(g)'
  BY DEF FirstFound
<1>3. GrantedToAll(g) => GrantedToAll(g)'
  BY <1>1 DEF GrantedToAll, usersOf
<1>4. \A k : GrantedBefore(g, k) => GrantedBefore(g, k)'
  <2>1. \A p \in Page : usersOf(pageOf(directory, p))' = usersOf(pageOf(directory, p))
    BY DEF usersOf, pageOf
  <2> QED
    BY <1>1, <2>1 DEF GrantedBefore
<1>5. \A n \in Nat : parsePageToken(n)' = parsePageToken(n) /\ Own(g, n)' = Own(g, n)
  BY DEF parsePageToken, Own, One, At
<1> QED
  BY <1>2, <1>3, <1>4, <1>5 DEF GrantsSteady

\* A call of Grants finds what its group gives to the users on its page, and
\* with the first page the nested groups.
LEMMA ListGrantsFinds ==
  ASSUME TypeInv, VersionsInv, Truthful, NEW g \in GroupIds, ListGrants(g), GrantsSteady(g),
         Truthful', directory' = directory
  PROVE  GrantsSteady(g)'
<1>1. /\ g \in todo /\ g \in Jobs /\ g # "users" /\ StorePages({g}) /\ g \in DOMAIN groups
      /\ phase = "grants" /\ phase' = phase /\ versions' = versions
  BY JobsAreStored, SyncAssumption
     DEF ListGrants, mayRun, advance, history, TypeInv, Jobs, Listings
<1>2. groups[g] \in versions[g]
  BY <1>1 DEF VersionsInv
<1>3. directory \in Seq(Entries) /\ style \in {"pages", "count", "none"}
  BY SyncAssumption DEF TypeInv, UpstreamOK
<1>4. PICK n \in Nat : /\ pageAt(g) = parsePageToken(n) /\ jobBag(g) = Own(g, n)
                       /\ bag[g] # <<>> => bag[g] = Own(g, n)
                       /\ bag[g] = <<>> => n = 0
  BY <1>1, WhereOthers DEF TypeInv
<1>5. PICK q \in Page : q = pageAt(g)
  BY <1>4, PageOfToken
<1>0. call[g].rows = pageOf(directory, q) /\ call[g].info = resultInfo(style, Len(directory))
  <2>1. g \in DOMAIN call /\ callPage(g) = q
    BY <1>1, <1>5, MembersOnly DEF ListGrants, callPage
  <2>2. call[g] = currentPage(q)
    BY <2>1 DEF Truthful
  <2> QED
    BY <2>2 DEF currentPage
<1>6. GrantedBefore(g, q) /\ (bag[g] # <<>> => FirstFound(g))
  <2>1. CASE bag[g] = <<>>
    BY <1>4, <1>5, <2>1 DEF GrantedBefore, parsePageToken, NoToken, Page
  <2>2. CASE bag[g] # <<>>
    BY <1>1, <1>4, <1>5, <2>2 DEF GrantsSteady
  <2> QED
    BY <2>1, <2>2
<1>7. /\ grants \subseteq grants' /\ granted(g) \subseteq grants'
      /\ nested \subseteq nested' /\ expandable(g) \subseteq nested' /\ logged \subseteq logged'
      /\ firstPage(g) /\ logsSkippedRules(groups[g]) => g \in logged'
  BY <1>1 DEF StorePages
<1>8. \A u : Steady(g, u)' <=> Steady(g, u)
  BY <1>1 DEF Steady
<1>9. \A p \in Page : p < q + 1 => \A u \in usersOf(pageOf(directory, p)) :
        Steady(g, u) => <<g, u>> \in grants'
  <2> SUFFICES ASSUME NEW p \in Page, p < q + 1, NEW u \in usersOf(pageOf(directory, p)), Steady(g, u)
               PROVE  <<g, u>> \in grants'
    OBVIOUS
  <2>1. CASE p < q
    BY <1>6, <1>7, <2>1 DEF GrantedBefore
  <2>2. CASE p = q
    <3>1. isMember(groups[g], groups[g].include, u)
      BY <1>2 DEF Steady, lets
    <3> QED
      BY <1>0, <1>7, <2>2, <3>1 DEF granted
  <2> QED
    BY <2>1, <2>2 DEF Page
<1>10. FirstFound(g)'
  <2>1. CASE bag[g] # <<>>
    BY <1>1, <1>6, <1>7, <2>1 DEF FirstFound
  <2>2. CASE bag[g] = <<>>
    <3>1. firstPage(g)
      BY <1>1, <1>4, <2>2, OwnForm DEF firstPage, At, NoToken
    <3>2. \A m \in GroupIds : (\A v \in versions[g] : expands(v, m)) => <<g, m>> \in expandable(g)
      BY <1>2, <3>1 DEF expandable, expands
    <3> QED
      BY <1>1, <1>2, <1>7, <3>1, <3>2 DEF FirstFound
  <2> QED
    BY <2>1, <2>2
<1>11. PICK token \in Nat : token = membersNext(g, q)
  BY NextType
<1>12. token \in {0, q + 1}
  BY <1>11, NextType
<1>13. /\ todo' = IF token = 0 THEN todo \ {g} ELSE todo
       /\ bag'[g] = IF token = 0 THEN <<>> ELSE Own(g, token)
  <2>1. storedGroups \subseteq storedGroups' /\ storedGroups' \subseteq GroupIds
    BY <1>1, StoringTyped DEF ListGrants
  <2>2. advance(g, token)
    BY <1>5, <1>11 DEF ListGrants
  <2> QED
    BY <1>1, <2>1, <2>2, OthersAdvance DEF TypeInv
<1>14. CASE token = 0
  <2>1. nextPageToken(q, resultInfo(style, Len(directory)), Len(pageOf(directory, q))) = 0
    BY <1>0, <1>11, <1>14 DEF membersNext
  <2>2. \A u \in usersOf(directory) : \E p \in Page : p <= q /\ u \in usersOf(pageOf(directory, p))
    BY <1>3, <2>1, PagesHoldUsers
  <2>3. GrantedToAll(g)'
    <3>1. \A u \in usersOf(directory) : Steady(g, u) => <<g, u>> \in grants'
      BY <1>9, <2>2 DEF Page
    <3> QED
      BY <1>8, <3>1 DEF GrantedToAll, usersOf
  <2>4. g \notin todo' /\ \A m \in Nat : bag'[g] # Own(g, m)
    BY <1>1, <1>13, <1>14, FormsDiffer
  <2> QED
    BY <1>10, <2>3, <2>4 DEF GrantsSteady, Own
<1>15. CASE token = q + 1
  <2>1. bag'[g] = Own(g, token) /\ todo' = todo /\ parsePageToken(token) = q + 1
    BY <1>13, <1>15 DEF Page, parsePageToken, NoToken
  <2>2. \A m \in Nat : bag'[g] = Own(g, m) => parsePageToken(m) = q + 1
    BY <1>1, <1>11, <2>1, FormsDiffer
  <2>3. GrantedBefore(g, q + 1)'
    <3>1. \A p \in Page : usersOf(pageOf(directory, p))' = usersOf(pageOf(directory, p))
      BY DEF usersOf, pageOf
    <3> QED
      BY <1>8, <1>9, <3>1 DEF GrantedBefore
  <2> QED
    BY <1>1, <1>10, <2>1, <2>2, <2>3 DEF GrantsSteady, Own, parsePageToken
<1> QED
  BY <1>12, <1>14, <1>15

\* Before the listing of grants, where none of its jobs has begun, and after a
\* sync that failed, there is nothing to find.
LEMMA NothingToFind ==
  ASSUME TypeInv, NEW g \in GroupIds,
         phase' \in {"before", "resources", "failed"}
           \/ (phase' = "grants" /\ g \in todo' /\ bag'[g] = <<>>)
  PROVE  GrantsSteady(g)'
<1>1. \A n \in Nat : Own(g, n) # <<>> /\ Own(g, n)' = Own(g, n)
  BY FormsDiffer DEF Jobs, Own, One, At
<1> QED
  BY <1>1 DEF GrantsSteady

\* A crash keeps what was found, and the sync finds it again where it falls
\* back.
LEMMA CrashKeepsSteady ==
  ASSUME TypeInv, NEW g \in GroupIds, g \in storedGroups', Crash,
         g \in storedGroups => GrantsSteady(g)
  PROVE  GrantsSteady(g)'
<1>1. PICK running \in SUBSET todo : StorePages(running)
  BY DEF Crash
<1>2. /\ phase \in {"resources", "grants"} /\ UNCHANGED <<directory, versions>>
      /\ grants \subseteq grants' /\ nested \subseteq nested' /\ logged \subseteq logged'
  BY <1>1 DEF Crash, StorePages, upstream, history
<1>3. phase = "grants" => storedGroups' = storedGroups
  <2> SUFFICES ASSUME phase = "grants" PROVE storedGroups' = storedGroups
    OBVIOUS
  <2>1. "groups" \notin GroupIds
    BY SyncAssumption DEF Listings
  <2>2. "groups" \notin running
    BY <2>1 DEF TypeInv, CursorOK
  <2> QED
    BY <1>1, <2>2 DEF StorePages
<1>4. g \in Jobs
  BY DEF Jobs
<1>5. CASE UNCHANGED cursor
  <2>1. phase' = phase /\ todo' = todo /\ bag' = bag
    BY <1>5 DEF cursor
  <2>2. CASE phase = "resources"
    BY <2>1, <2>2, NothingToFind
  <2>3. CASE phase = "grants"
    BY <1>2, <1>3, <2>1, <2>3, SteadyStays
  <2> QED
    BY <1>2, <2>2, <2>3
<1>6. CASE resumeAt("resources", Listings)
  BY <1>6, NothingToFind DEF resumeAt
<1>7. CASE phase = "grants" /\ resumeAt("grants", storedGroups)
  <2>1. phase' = "grants" /\ g \in todo' /\ bag'[g] = <<>>
    BY <1>3, <1>4, <1>7 DEF resumeAt, unstarted
  <2> QED
    BY <2>1, NothingToFind
<1> QED
  BY <1>5, <1>6, <1>7 DEF Crash

\* The calls of Grants for one group leave the others where they are.
LEMMA GrantsKeepSteady ==
  ASSUME TypeInv, VersionsInv, Truthful, Truthful', directory' = directory,
         NEW h \in GroupIds, ListGrants(h) \/ SkipGrants(h),
         NEW g \in GroupIds, g \in DOMAIN groups, GrantsSteady(g)
  PROVE  GrantsSteady(g)' /\ storedGroups' = storedGroups
<1>1. h # "groups" /\ h # "users" /\ h \in Jobs /\ g \in Jobs
  BY SyncAssumption DEF Jobs, Listings
<1>2. CASE ListGrants(h)
  <2>1. /\ h \in todo /\ StorePages({h}) /\ phase' = phase /\ versions' = versions
        /\ grants \subseteq grants' /\ nested \subseteq nested' /\ logged \subseteq logged'
        /\ storedGroups' = storedGroups
    BY <1>1, <1>2 DEF ListGrants, mayRun, advance, history, StorePages
  <2>2. PICK token \in Nat : advance(h, token)
    BY <1>1, <1>2, PageAtType, NextType DEF ListGrants, TypeInv
  <2>3. storedGroups \subseteq storedGroups' /\ storedGroups' \subseteq GroupIds
    BY <2>1 DEF TypeInv, CursorOK
  <2>4. /\ \A j \in Jobs \ {h} : bag'[j] = bag[j]
        /\ todo' = IF token = 0 THEN todo \ {h} ELSE todo
    BY <1>1, <2>1, <2>2, <2>3, OthersAdvance DEF TypeInv
  <2>5. CASE g = h
    BY <1>2, <2>1, <2>5, ListGrantsFinds
  <2>6. CASE g # h
    <3>1. bag'[g] = bag[g] /\ (g \in todo' <=> g \in todo)
      BY <1>1, <2>4, <2>6
    <3> QED
      BY <2>1, <3>1, SteadyStays
  <2> QED
    BY <2>1, <2>5, <2>6
<1>3. CASE SkipGrants(h)
  <2>1. /\ h # g /\ bag' = [bag EXCEPT ![h] = <<>>] /\ todo' = todo \ {h} /\ phase' = phase
        /\ UNCHANGED <<grants, nested, logged, storedGroups, versions>>
    BY <1>3 DEF SkipGrants, store, history
  <2>2. bag'[g] = bag[g] /\ (g \in todo' <=> g \in todo)
    BY <1>1, <2>1 DEF TypeInv, CursorOK
  <2> QED
    BY <2>1, <2>2, SteadyStays
<1> QED
  BY <1>2, <1>3

\* A group that is there throughout is not one whose job is skipped.
LEMMA StayingIsThere ==
  ASSUME TypeInv, SteadyInv, [Next]_vars
  PROVE  phase' # "before" => stayed' \subseteq DOMAIN groups'
<1>1. CASE Begin
  BY <1>1, SyncAssumption, UsersOfType DEF Begin, upstream, TypeInv, UpstreamOK
<1>2. ASSUME NEW g \in GroupIds, EditGroup(g)
      PROVE  phase' # "before" => stayed' \subseteq DOMAIN groups'
  BY <1>2 DEF EditGroup, SteadyInv, Restrict, with
<1>3. CASE ~(Begin \/ (\E g \in GroupIds : EditGroup(g)))
  <2>1. UNCHANGED <<groups, stayed>>
    BY <1>3 DEF Next, Sync, AskMembers, ListUsers, ListGroups, ListRoles, PlanGrants, Finish,
       ListGrants, SkipGrants, CallFails, Abort, Crash, Expire, StartFind, FindAsks, FindPage,
       FindFails, EditMembers, EditAccessUsers, upstream, history, vars
  <2>2. phase = "before" => phase' = "before"
    <3>1. phase = "before" => todo = {}
      BY DEF TypeInv, CursorOK
    <3> QED
      BY <1>3, <3>1 DEF Next, Sync, AskMembers, ListUsers, ListGroups, ListRoles, PlanGrants,
         Finish, ListGrants, SkipGrants, mayRun, CallFails, Abort, Crash, Expire, StartFind,
         FindAsks, FindPage, FindFails, EditMembers, EditAccessUsers, cursor, vars
  <2> QED
    BY <2>1, <2>2 DEF SteadyInv
<1> QED
  BY <1>1, <1>2, <1>3

LEMMA SteadyStep ==
  ASSUME TypeInv, VersionsInv, SteadyInv, [Next]_vars
  PROVE  SteadyInv'
<1> SUFFICES ASSUME edits' = 0 PROVE (Truthful /\ \A g \in stayed \cap storedGroups : GrantsSteady(g))'
  BY StayingIsThere DEF SteadyInv
<1>1. edits = 0 /\ directory' = directory /\ ~EditMembers
  <2>1. edits \in Nat /\ ~EditMembers
    BY DEF TypeInv, UpstreamOK, EditMembers
  <2>2. UNCHANGED <<edits, directory>>
    BY <2>1 DEF Next, Sync, Begin, AskMembers, ListUsers, ListGroups, ListRoles, PlanGrants, Finish,
       ListGrants, SkipGrants, CallFails, Abort, Crash, Expire, StartFind, FindAsks, FindPage,
       FindFails, EditAccessUsers, EditGroup, upstream, vars
  <2> QED
    BY <2>1, <2>2
<1>2. Truthful /\ \A g \in stayed \cap storedGroups : GrantsSteady(g)
  BY <1>1 DEF SteadyInv
<1>3. Truthful'
  BY <1>2, TruthStep
<1> SUFFICES ASSUME NEW g \in GroupIds, g \in stayed', g \in storedGroups' PROVE GrantsSteady(g)'
  <2>1. TypeInv'
    BY TypeStep
  <2>2. storedGroups' \subseteq GroupIds
    BY <2>1 DEF TypeInv, CursorOK
  <2> QED
    BY <1>3, <2>2
<1>4. ASSUME UNCHANGED <<phase, todo, bag, grants, nested, logged, storedGroups>>, stayed' \subseteq stayed,
             versions[g] \subseteq versions'[g]
      PROVE  GrantsSteady(g)'
  BY <1>1, <1>2, <1>4, SteadyStays
<1>5. CASE Begin \/ ListUsers \/ ListGroups \/ ListRoles
  <2>1. phase' = "resources"
    BY <1>5, SyncAssumption DEF Begin, ListUsers, ListGroups, ListRoles, mayRun, advance, TypeInv,
       CursorOK, Listings
  <2> QED
    BY <2>1, NothingToFind
<1>6. CASE PlanGrants
  <2>1. phase' = "grants" /\ todo' = storedGroups /\ storedGroups' = storedGroups /\ bag' = unstarted
    BY <1>6, NothingBegun DEF PlanGrants, store, TypeInv
  <2>2. bag'[g] = <<>>
    BY <2>1 DEF unstarted, Jobs
  <2> QED
    BY <2>1, <2>2, NothingToFind
<1>7. CASE Finish
  <2>1. /\ phase = "grants" /\ phase' = "done" /\ todo = {} /\ g \in stayed \cap storedGroups
        /\ UNCHANGED <<grants, nested, logged, versions>>
    BY <1>7 DEF Finish, store, history
  <2>2. GrantedToAll(g) /\ FirstFound(g)
    BY <1>2, <2>1 DEF GrantsSteady
  <2>3. GrantedToAll(g)' /\ FirstFound(g)'
    BY <1>1, <2>1, <2>2 DEF GrantedToAll, FirstFound, Steady, usersOf
  <2> QED
    BY <2>1, <2>3 DEF GrantsSteady
<1>8. ASSUME NEW h \in GroupIds, ListGrants(h) \/ SkipGrants(h) PROVE GrantsSteady(g)'
  <2>1. phase # "before" /\ g \in stayed
    BY <1>8 DEF ListGrants, SkipGrants, mayRun, history, TypeInv, CursorOK
  <2>2. storedGroups' = storedGroups
    BY <1>8, MembersOnly DEF ListGrants, SkipGrants, store, StorePages
  <2>3. g \in DOMAIN groups
    BY <2>1 DEF SteadyInv
  <2> QED
    BY <1>1, <1>2, <1>3, <1>8, <2>1, <2>2, <2>3, GrantsKeepSteady
<1>9. CASE Crash
  BY <1>2, <1>9, CrashKeepsSteady DEF Crash, history
<1>10. CASE Expire \/ StartFind \/ FindAsks \/ FindPage \/ FindFails \/ EditAccessUsers
            \/ UNCHANGED vars
  BY <1>4, <1>10 DEF Expire, StartFind, FindAsks, FindPage, FindFails, EditAccessUsers, vars, cursor,
     store, history
<1>12. ASSUME NEW j \in Jobs, AskMembers(j) \/ CallFails(j) PROVE GrantsSteady(g)'
  BY <1>4, <1>12 DEF AskMembers, CallFails, cursor, store, history
<1>13. CASE Abort
  BY <1>13, NothingToFind DEF Abort
<1>11. ASSUME NEW h \in GroupIds, EditGroup(h) PROVE GrantsSteady(g)'
  <2>1. versions[g] \subseteq versions'[g] /\ stayed' \subseteq stayed
    BY <1>11 DEF EditGroup, TypeInv, RestOK
  <2> QED
    BY <1>4, <1>11, <2>1 DEF EditGroup, cursor, store
<1> QED
  BY <1>1, <1>5, <1>6, <1>7, <1>8, <1>9, <1>10, <1>11, <1>12, <1>13 DEF Next, Sync

\* At first nothing is cached, on its way or to be found.
LEMMA SteadyInit == Init => VersionsInv /\ SteadyInv
<1> SUFFICES ASSUME Init PROVE VersionsInv /\ SteadyInv
  OBVIOUS
<1>1. /\ DOMAIN cache = {} /\ DOMAIN call = {} /\ phase = "before" /\ stayed = {}
      /\ grants = {} /\ nested = {}
  BY DEF Init
<1>2. VersionsInv
  BY <1>1 DEF VersionsInv, GrantsWereGiven
<1>3. SteadyInv
  BY <1>1 DEF SteadyInv, Truthful
<1> QED
  BY <1>2, <1>3

\* While members stand still, a sync that ends has the grants that every
\* version of a group gives, whichever of them its pages were matched
\* against, wherever pages were cached by others or dropped, and though it
\* began again after crashes: a group's listing passes every member between
\* its first page and its last.
THEOREM SteadyGrantsAreFound == Spec => []SteadyGrantsFound
<1>1. Spec => []TypeInv
  BY TypeInit, TypeStep, PTL DEF Spec
<1>2. Init => VersionsInv /\ SteadyInv
  BY SteadyInit
<1>3. TypeInv /\ VersionsInv /\ [Next]_vars => VersionsInv'
  BY VersionsStep
<1>4. TypeInv /\ VersionsInv /\ SteadyInv /\ [Next]_vars => SteadyInv'
  BY SteadyStep
<1>5. TypeInv /\ SteadyInv => SteadyGrantsFound
  <2> SUFFICES ASSUME TypeInv, SteadyInv, phase = "done", edits = 0,
                      NEW g \in stayed \cap storedGroups
               PROVE  GrantedToAll(g) /\ FirstFound(g)
    BY DEF SteadyGrantsFound, GrantedToAll, FirstFound, Steady
  <2> QED
    BY DEF SteadyInv, GrantsSteady
<1> QED
  BY <1>1, <1>2, <1>3, <1>4, <1>5, PTL DEF Spec

(***************************************************************************)
(* Places of groups: their numbers among those that are there              *)
(***************************************************************************)

\* How many of these groups come no later than the group, itself included.
PlaceIn(S, g) == Cardinality({h \in S : GroupRank[h] <= GroupRank[g]})

\* Groups are finitely many.
FinitelyMany == IsFiniteSet(GroupIds)

LEMMA PlaceBounds ==
  ASSUME FinitelyMany, NEW S \in SUBSET GroupIds, NEW g \in S
  PROVE  /\ IsFiniteSet(S) /\ Cardinality(S) \in Nat
         /\ PlaceIn(S, g) \in 1..Cardinality(S) /\ PlaceIn(S, g) \in Nat
<1> DEFINE upTo == {h \in S : GroupRank[h] <= GroupRank[g]}
<1>1. IsFiniteSet(S) /\ Cardinality(S) \in Nat
  BY FS_Subset, FS_CardinalityType DEF FinitelyMany
<1>2. g \in upTo /\ upTo \in SUBSET S
  BY SyncAssumption
<1> HIDE DEF upTo
<1>3. IsFiniteSet(upTo) /\ Cardinality(upTo) <= Cardinality(S)
  BY <1>1, <1>2, FS_Subset
<1>4. Cardinality(upTo) \in Nat /\ Cardinality(upTo) # 0
  BY <1>2, <1>3, FS_CardinalityType, FS_EmptySet
<1> QED
  BY <1>1, <1>3, <1>4 DEF PlaceIn, upTo

\* No two groups share a place.
LEMMA PlacesDiffer ==
  ASSUME FinitelyMany, NEW S \in SUBSET GroupIds, NEW g \in S, NEW h \in S, g # h
  PROVE  PlaceIn(S, g) # PlaceIn(S, h)
<1>1. ASSUME NEW x \in S, NEW y \in S, GroupRank[x] < GroupRank[y]
      PROVE  PlaceIn(S, x) # PlaceIn(S, y)
  <2> DEFINE lower == {i \in S : GroupRank[i] <= GroupRank[x]}
             upper == {i \in S : GroupRank[i] <= GroupRank[y]}
  <2>1. GroupRank \in [GroupIds -> Nat]
    BY SyncAssumption
  <2>2. lower \in SUBSET upper
    BY <1>1, <2>1
  <2>3. y \in upper /\ y \notin lower
    BY <1>1, <2>1
  <2>4. IsFiniteSet(upper)
    BY FS_Subset DEF FinitelyMany
  <2> HIDE DEF lower, upper
  <2>5. Cardinality(upper) # Cardinality(lower)
    BY <2>2, <2>3, <2>4, FS_Subset
  <2> QED
    BY <2>5 DEF PlaceIn, lower, upper
<1>2. GroupRank[g] \in Nat /\ GroupRank[h] \in Nat /\ GroupRank[g] # GroupRank[h]
  BY SyncAssumption DEF IsInjective
<1> QED
  BY <1>1, <1>2

\* Groups that join move others up, never down.
LEMMA PlacesGrow ==
  ASSUME FinitelyMany, NEW S, NEW T \in SUBSET GroupIds, S \subseteq T, NEW g \in S
  PROVE  PlaceIn(S, g) <= PlaceIn(T, g)
<1> DEFINE few  == {h \in S : GroupRank[h] <= GroupRank[g]}
           many == {h \in T : GroupRank[h] <= GroupRank[g]}
<1>1. IsFiniteSet(many) /\ few \in SUBSET many
  BY FS_Subset DEF FinitelyMany
<1> HIDE DEF few, many
<1>2. Cardinality(few) <= Cardinality(many)
  BY <1>1, FS_Subset
<1> QED
  BY <1>2 DEF PlaceIn, few, many

\* The places are numbered through.
LEMMA PlacesFill ==
  ASSUME FinitelyMany, NEW S \in SUBSET GroupIds, NEW m \in 1..Cardinality(S)
  PROVE  \E g \in S : PlaceIn(S, g) = m
<1> DEFINE f == [g \in S |-> PlaceIn(S, g)]
           n == Cardinality(S)
<1>1. IsFiniteSet(S) /\ n \in Nat
  BY FS_Subset, FS_CardinalityType DEF FinitelyMany
<1>2. f \in [S -> 1..n]
  BY PlaceBounds
<1>3. \A g, h \in S : f[g] = f[h] => g = h
  BY PlacesDiffer
<1> HIDE DEF f
<1>4. f \in Injection(S, 1..n)
  BY <1>2, <1>3 DEF Injection, IsInjective
<1>5. IsFiniteSet(1..n) /\ Cardinality(1..n) = n
  BY <1>1, FS_Interval
<1>6. f \in Surjection(S, 1..n)
  BY <1>4, <1>5, FS_Injection
<1>7. \E g \in S : f[g] = m
  BY <1>6 DEF Surjection
<1> QED
  BY <1>7 DEF f

\* The groups at the places of a page.
PageIn(S, page) ==
  {g \in S : (page - 1) * PageSize < PlaceIn(S, g) /\ PlaceIn(S, g) <= page * PageSize}

\* A page that groups go beyond is full.
LEMMA FullPage ==
  ASSUME FinitelyMany, NEW S \in SUBSET GroupIds, NEW page \in Page,
         page * PageSize <= Cardinality(S)
  PROVE  Cardinality(PageIn(S, page)) = PageSize
<1> DEFINE P == PageIn(S, page)
           a == (page - 1) * PageSize
           b == page * PageSize
           f == [g \in P |-> PlaceIn(S, g)]
<1>1. PageSize \in Nat \ {0} /\ a \in Nat /\ b \in Nat /\ b = a + PageSize
  <2>1. PageSize \in Nat \ {0} /\ page - 1 \in Nat /\ page \in Nat
    BY PageSizeAssumption DEF Page
  <2>2. page * PageSize = (page - 1) * PageSize + PageSize
    BY <2>1
  <2> QED
    BY <2>1, <2>2
<1>2. b <= Cardinality(S) /\ Cardinality(S) \in Nat
  BY FS_Subset, FS_CardinalityType DEF FinitelyMany
<1>3. P \subseteq S /\ \A g \in P : PlaceIn(S, g) \in Nat /\ a < PlaceIn(S, g) /\ PlaceIn(S, g) <= b
  BY PlaceBounds DEF PageIn
<1>4. \A g \in S : a < PlaceIn(S, g) /\ PlaceIn(S, g) <= b => g \in P
  BY DEF PageIn
<1> HIDE DEF P, a, b
<1>5. f \in [P -> (a + 1)..b]
  BY <1>1, <1>3
<1>6. \A g, h \in P : f[g] = f[h] => g = h
  BY <1>3, PlacesDiffer
<1>7. \A m \in (a + 1)..b : \E g \in P : f[g] = m
  <2> SUFFICES ASSUME NEW m \in (a + 1)..b PROVE \E g \in P : f[g] = m
    OBVIOUS
  <2>1. m \in 1..Cardinality(S) /\ a < m /\ m <= b
    BY <1>1, <1>2
  <2>2. PICK g \in S : PlaceIn(S, g) = m
    BY <2>1, PlacesFill
  <2> QED
    BY <1>4, <2>1, <2>2
<1> HIDE DEF f
<1>8. f \in Injection(P, (a + 1)..b) /\ f \in Surjection(P, (a + 1)..b)
  BY <1>5, <1>6, <1>7 DEF Injection, IsInjective, Surjection
<1>9. IsFiniteSet((a + 1)..b) /\ Cardinality((a + 1)..b) = PageSize
  <2>1. a + 1 \in Int /\ b \in Int /\ ~(a + 1 > b) /\ b - (a + 1) + 1 = PageSize
    BY <1>1
  <2> QED
    BY <2>1, FS_Interval
<1>10. Cardinality(P) = Cardinality((a + 1)..b)
  BY <1>8, <1>9, FS_Injection
<1> QED
  BY <1>9, <1>10 DEF P

\* The client stops only at a page that no group is beyond.
LEMMA GroupsEnd ==
  ASSUME FinitelyMany, TypeInv, NEW page \in Page, groupsNext(page) = 0
  PROVE  Cardinality(DOMAIN groups) <= page * PageSize
<1> DEFINE count == Cardinality(DOMAIN groups)
           info == resultInfo(style, count)
           received == Cardinality(groupsOn(page))
           t == pagesFor(count, PageSize)
<1>1. DOMAIN groups \in SUBSET GroupIds /\ style \in {"pages", "count", "none"}
  BY SyncAssumption DEF TypeInv, UpstreamOK
<1>2. count \in Nat
  BY <1>1, FS_Subset, FS_CardinalityType DEF FinitelyMany
<1>3. PageSize \in Nat \ {0} /\ page \in Nat \ {0} /\ page * PageSize \in Nat
  BY PageSizeAssumption DEF Page
<1>4. page * PageSize <= count => received = PageSize
  <2>1. groupsOn(page) = PageIn(DOMAIN groups, page)
    BY DEF groupsOn, PageIn, PlaceIn
  <2> QED
    BY <1>1, <2>1, FullPage
<1>5. groupsNext(page) = nextPageToken(page, info, received)
  BY DEF groupsNext
<1> HIDE DEF count, received
<1>6. t \in Nat /\ count <= t * PageSize
  BY <1>2, PagesForAll
<1>7. totalPages(info) = t \/ totalPages(info) = 0
  BY <1>1, <1>2 DEF totalPages, resultInfo
<1> HIDE DEF info, t
<1>8. /\ ~(totalPages(info) > 0 /\ page < totalPages(info))
      /\ ~(totalPages(info) = 0 /\ received = PageSize)
  BY <1>3, <1>5 DEF nextPageToken, NoToken
<1>9. CASE totalPages(info) = 0
  BY <1>2, <1>3, <1>4, <1>8, <1>9 DEF count
<1>10. CASE totalPages(info) = t /\ t # 0
  <2>1. t <= page
    BY <1>3, <1>6, <1>8, <1>10
  <2>2. t * PageSize <= page * PageSize /\ t * PageSize \in Nat
    BY <1>3, <1>6, <2>1, TimesMonotone
  <2> QED
    BY <1>2, <1>3, <1>6, <2>2 DEF count
<1> QED
  BY <1>7, <1>9, <1>10

(***************************************************************************)
(* Every role and group is listed                                          *)
(***************************************************************************)

\* A group that was there during the sync is deleted.
gone == \E g \in GroupIds : versions[g] # {} /\ g \notin DOMAIN groups

listing(j) == phase = "resources" /\ j \in todo
over(j)    == phase \in {"grants", "done"} \/ (phase = "resources" /\ j \notin todo)

\* What is on the pages before one is stored.
RolesBefore(k)  == \A p \in Page : p < k => ToSet(pageOf(Roles, p)) \subseteq storedRoles
GroupsBefore(k) ==
  \A g \in stayed :
    PlaceIn(DOMAIN groups, g) <= (k - 1) * PageSize => g \in storedGroups

RolesInv ==
  /\ \A n \in Nat : listing("roles") /\ bag["roles"] = Own("roles", n) => RolesBefore(parsePageToken(n))
  /\ over("roles") => storedRoles = ToSet(Roles)

GroupsInv ==
  ~gone =>
    /\ \A n \in Nat : listing("groups") /\ bag["groups"] = Own("groups", n)
         => GroupsBefore(parsePageToken(n))
    /\ over("groups") => stayed \subseteq storedGroups

ListingsInv == RolesInv /\ GroupsInv

\* A group that is gone does not come back.
LEMMA GoneStays ==
  ASSUME TypeInv, VersionsInv, [Next]_vars, phase # "before", ~gone'
  PROVE  ~gone /\ DOMAIN groups \subseteq DOMAIN groups'
<1>1. ASSUME NEW g \in GroupIds, EditGroup(g) PROVE ~gone /\ DOMAIN groups \subseteq DOMAIN groups'
  <2>1. versions \in [GroupIds -> SUBSET Groups] /\ DOMAIN groups \subseteq GroupIds
    BY DEF TypeInv, RestOK, UpstreamOK
  <2>2. CASE groups' = Restrict(groups, DOMAIN groups \ {g}) /\ g \in DOMAIN groups /\ versions' = versions
    <3>1. versions'[g] # {} /\ g \notin DOMAIN groups'
      BY <2>2 DEF VersionsInv, Restrict
    <3> QED
      BY <3>1 DEF gone
  <2>3. ASSUME NEW v, versions' = [versions EXCEPT ![g] = @ \cup {v}],
               DOMAIN groups' = {g} \cup DOMAIN groups, g \in DOMAIN groups \/ versions[g] = {}
        PROVE  ~gone /\ DOMAIN groups \subseteq DOMAIN groups'
    <3>1. \A h \in GroupIds : versions[h] # {} => versions'[h] # {}
      BY <2>1, <2>3
    <3> QED
      BY <2>3, <3>1 DEF gone
  <2> QED
    BY <1>1, <2>1, <2>2, <2>3 DEF EditGroup, with
<1>2. CASE \A g \in GroupIds : ~EditGroup(g)
  <2>1. UNCHANGED <<groups, versions>>
    BY <1>2 DEF Next, Sync, Begin, AskMembers, ListUsers, ListGroups, ListRoles, PlanGrants, Finish,
       ListGrants, SkipGrants, CallFails, Abort, Crash, Expire, StartFind, FindAsks, FindPage,
       FindFails, EditMembers, EditAccessUsers, upstream, history, vars
  <2> QED
    BY <2>1 DEF gone
<1> QED
  BY <1>1, <1>2

\* What is stored before a page stays so while groups join.
LEMMA BeforeStays ==
  ASSUME FinitelyMany, TypeInv, TypeInv', NEW k \in Page, GroupsBefore(k),
         stayed \subseteq DOMAIN groups,
         DOMAIN groups \subseteq DOMAIN groups', stayed' \subseteq stayed,
         storedGroups \subseteq storedGroups'
  PROVE  GroupsBefore(k)'
<1> SUFFICES ASSUME NEW g \in stayed',
                    PlaceIn(DOMAIN groups', g) <= (k - 1) * PageSize
             PROVE  g \in storedGroups'
  BY DEF GroupsBefore, PlaceIn
<1>1. g \in stayed /\ g \in DOMAIN groups
  OBVIOUS
<1>2. DOMAIN groups \in SUBSET GroupIds /\ DOMAIN groups' \in SUBSET GroupIds
  BY DEF TypeInv, UpstreamOK
<1>3. PlaceIn(DOMAIN groups, g) <= PlaceIn(DOMAIN groups', g)
  BY <1>1, <1>2, PlacesGrow
<1>4. PlaceIn(DOMAIN groups, g) \in Nat /\ PlaceIn(DOMAIN groups', g) \in Nat
  <2>1. g \in DOMAIN groups'
    BY <1>1
  <2> QED
    BY <1>1, <1>2, <2>1, PlaceBounds
<1>5. (k - 1) * PageSize \in Nat
  BY PageSizeAssumption DEF Page
<1>6. PlaceIn(DOMAIN groups, g) <= (k - 1) * PageSize
  BY <1>3, <1>4, <1>5
<1> QED
  BY <1>1, <1>6 DEF GroupsBefore

\* Storing drops neither roles nor groups.
LEMMA StoresGrow ==
  ASSUME TypeInv, NEW jobs, StorePages(jobs)
  PROVE  storedGroups \subseteq storedGroups' /\ storedRoles \subseteq storedRoles'
BY DEF StorePages

\* Steps that leave the cursor of roles alone.
LEMMA RolesSteady ==
  ASSUME TypeInv', RolesInv, phase' = phase, "roles" \in todo' <=> "roles" \in todo,
         bag'["roles"] = bag["roles"], storedRoles \subseteq storedRoles'
  PROVE  RolesInv'
<1>1. listing("roles")' = listing("roles") /\ over("roles")' = over("roles")
  BY DEF listing, over
<1>2. \A n \in Nat : parsePageToken(n)' = parsePageToken(n) /\ Own("roles", n)' = Own("roles", n)
  BY DEF parsePageToken, Own, One, At
<1>3. \A k : RolesBefore(k) => RolesBefore(k)'
  BY DEF RolesBefore, ToSet, pageOf
<1>4. \A n \in Nat : listing("roles") /\ bag["roles"] = Own("roles", n) => RolesBefore(parsePageToken(n))'
  BY <1>2, <1>3 DEF RolesInv
<1>5. over("roles") => storedRoles' = ToSet(Roles)
  <2>1. storedRoles' \subseteq ToSet(Roles)
    BY DEF TypeInv, StoreOK, ToSet
  <2> QED
    BY <2>1 DEF RolesInv
<1>6. over("roles")' => (storedRoles = ToSet(Roles))'
  BY <1>1, <1>5 DEF ToSet
<1>7. \A n \in Nat : listing("roles")' /\ bag'["roles"] = Own("roles", n)' => RolesBefore(parsePageToken(n))'
  BY <1>1, <1>2, <1>4
<1> QED
  BY <1>6, <1>7 DEF RolesInv

\* Steps that leave the cursor of groups alone.
LEMMA GroupsSteady ==
  ASSUME FinitelyMany, TypeInv, TypeInv', VersionsInv, GroupsInv, [Next]_vars,
         phase # "before" => stayed \subseteq DOMAIN groups,
         phase' = phase, phase # "before" => stayed' \subseteq stayed,
         "groups" \in todo' <=> "groups" \in todo, bag'["groups"] = bag["groups"],
         storedGroups \subseteq storedGroups'
  PROVE  GroupsInv'
<1>1. listing("groups")' = listing("groups") /\ over("groups")' = over("groups")
  BY DEF listing, over
<1>2. \A n \in Nat : /\ parsePageToken(n) \in Page /\ parsePageToken(n)' = parsePageToken(n)
                     /\ Own("groups", n)' = Own("groups", n)
  BY PageOfToken DEF parsePageToken, Own, One, At
<1>3. CASE phase = "before"
  BY <1>3 DEF GroupsInv, listing, over
<1>4. ASSUME phase # "before", ~gone' PROVE GroupsInv'
  <2>1. ~gone /\ DOMAIN groups \subseteq DOMAIN groups'
    BY <1>4, GoneStays
  <2>2. \A k \in Page : GroupsBefore(k) => GroupsBefore(k)'
    BY <1>4, <2>1, BeforeStays
  <2>3. ASSUME NEW n \in Nat, listing("groups"), bag["groups"] = Own("groups", n)
        PROVE  GroupsBefore(parsePageToken(n))'
    <3>1. PICK k \in Page : k = parsePageToken(n)
      BY <1>2
    <3>2. GroupsBefore(k)'
      BY <2>1, <2>2, <2>3, <3>1 DEF GroupsInv
    <3> QED
      BY <1>2, <3>1, <3>2 DEF GroupsBefore
  <2>4. over("groups") => stayed' \subseteq storedGroups'
    BY <1>4, <2>1 DEF GroupsInv
  <2> QED
    BY <1>1, <1>2, <2>3, <2>4 DEF GroupsInv
<1> QED
  BY <1>3, <1>4 DEF GroupsInv

\* A call of roleBuilder.List.
LEMMA RolesStore ==
  ASSUME TypeInv, TypeInv', RolesInv, ListRoles
  PROVE  RolesInv'
<1>1. /\ "roles" \in todo /\ "roles" \in Jobs /\ "roles" # "users" /\ "roles" \notin GroupIds
      /\ StorePages({"roles"}) /\ phase' = phase /\ advance("roles", listNext(Roles, pageAt("roles")))
  BY SyncAssumption DEF ListRoles, mayRun, advance, Jobs, Listings
<1>2. phase = "resources"
  BY <1>1 DEF TypeInv, CursorOK
<1>3. style \in {"pages", "count", "none"} /\ Roles \in Seq(ToSet(Roles))
  BY SyncAssumption DEF TypeInv, UpstreamOK
<1>4. PICK n \in Nat : /\ pageAt("roles") = parsePageToken(n)
                       /\ bag["roles"] # <<>> => bag["roles"] = Own("roles", n)
                       /\ bag["roles"] = <<>> => n = 0
  BY <1>1, WhereOthers DEF TypeInv
<1>5. PICK q \in Page : q = pageAt("roles")
  BY <1>4, PageOfToken
<1>6. RolesBefore(q)
  <2>1. CASE bag["roles"] = <<>>
    BY <1>4, <1>5, <2>1 DEF RolesBefore, parsePageToken, NoToken, Page
  <2>2. CASE bag["roles"] # <<>>
    BY <1>1, <1>2, <1>4, <1>5, <2>2 DEF RolesInv, listing
  <2> QED
    BY <2>1, <2>2
<1>7. storedRoles' = storedRoles \cup ToSet(pageOf(Roles, q))
  BY <1>1, <1>5 DEF StorePages
<1>8. \A p \in Page : p < q + 1 => ToSet(pageOf(Roles, p)) \subseteq storedRoles'
  <2> SUFFICES ASSUME NEW p \in Page, p < q + 1 PROVE ToSet(pageOf(Roles, p)) \subseteq storedRoles'
    OBVIOUS
  <2>1. CASE p < q
    BY <1>6, <1>7, <2>1 DEF RolesBefore
  <2>2. CASE p = q
    BY <1>7, <2>2
  <2> QED
    BY <2>1, <2>2 DEF Page
<1>9. PICK token \in Nat : token = listNext(Roles, q)
  BY NextType
<1>10. token \in {0, q + 1}
  BY <1>9, NextPage DEF listNext
<1>11. /\ todo' = IF token = 0 THEN todo \ {"roles"} ELSE todo
       /\ bag'["roles"] = IF token = 0 THEN <<>> ELSE Own("roles", token)
  <2>1. storedGroups \subseteq storedGroups' /\ storedGroups' \subseteq GroupIds
    BY <1>1, MembersOnly, StoringTyped
  <2> QED
    BY <1>1, <1>5, <1>9, <2>1, OthersAdvance DEF TypeInv
<1>12. CASE token = 0
  <2>1. \A x \in ToSet(Roles) : \E p \in Page : p <= q /\ x \in ToSet(pageOf(Roles, p))
    BY <1>3, <1>9, <1>12, PagesHoldAll DEF listNext
  <2>2. ToSet(Roles) \subseteq storedRoles'
    BY <1>8, <2>1 DEF Page
  <2>3. storedRoles' \subseteq ToSet(Roles)
    BY DEF TypeInv, StoreOK, ToSet
  <2>4. "roles" \notin todo'
    BY <1>11, <1>12
  <2> QED
    BY <2>2, <2>3, <2>4 DEF RolesInv, listing, ToSet
<1>13. CASE token = q + 1
  <2>1. bag'["roles"] = Own("roles", token) /\ todo' = todo /\ parsePageToken(token) = q + 1
    BY <1>11, <1>13 DEF Page, parsePageToken, NoToken
  <2>2. \A m \in Nat : bag'["roles"] = Own("roles", m) => parsePageToken(m) = q + 1
    BY <1>1, <1>9, <2>1, FormsDiffer
  <2>3. RolesBefore(q + 1)'
    BY <1>8 DEF RolesBefore, ToSet, pageOf
  <2>4. ~over("roles")'
    BY <1>1, <1>2, <2>1 DEF over
  <2> QED
    BY <2>2, <2>3, <2>4 DEF RolesInv, Own, parsePageToken
<1> QED
  BY <1>10, <1>12, <1>13

\* A call of groupBuilder.List.
LEMMA GroupsStore ==
  ASSUME FinitelyMany, TypeInv, GroupsInv, ListGroups, stayed \subseteq DOMAIN groups
  PROVE  GroupsInv'
<1> DEFINE place(g) == PlaceIn(DOMAIN groups, g)
<1>1. /\ "groups" \in todo /\ "groups" \in Jobs /\ "groups" # "users" /\ "groups" \notin GroupIds
      /\ StorePages({"groups"}) /\ phase' = phase /\ advance("groups", groupsNext(pageAt("groups")))
      /\ UNCHANGED <<groups, stayed, versions>>
  BY SyncAssumption DEF ListGroups, mayRun, advance, Jobs, Listings, upstream, history
<1>2. phase = "resources"
  BY <1>1 DEF TypeInv, CursorOK
<1> SUFFICES ASSUME ~gone
             PROVE  /\ \A m \in Nat : listing("groups")' /\ bag'["groups"] = Own("groups", m)
                         => GroupsBefore(parsePageToken(m))'
                    /\ over("groups")' => stayed \subseteq storedGroups'
  BY <1>1 DEF GroupsInv, gone, Own, One, At
<1>3. PICK n \in Nat : /\ pageAt("groups") = parsePageToken(n)
                       /\ bag["groups"] # <<>> => bag["groups"] = Own("groups", n)
                       /\ bag["groups"] = <<>> => n = 0
  BY <1>1, WhereOthers DEF TypeInv
<1>4. PICK q \in Page : q = pageAt("groups")
  BY <1>3, PageOfToken
<1>5. /\ (q - 1) * PageSize \in Nat /\ q * PageSize \in Nat /\ q # 0 /\ (q + 1) - 1 = q
      /\ q = 1 => (q - 1) * PageSize = 0
  BY PageSizeAssumption DEF Page
<1>6. \A g \in stayed : g \in DOMAIN groups /\ place(g) \in 1..Cardinality(DOMAIN groups)
                                      /\ place(g) \in Nat
  <2>1. DOMAIN groups \in SUBSET GroupIds
    BY DEF TypeInv, UpstreamOK
  <2> QED
    BY <2>1, PlaceBounds
<1>7. GroupsBefore(q)
  <2>1. CASE bag["groups"] = <<>>
    <3>1. q = 1
      BY <1>3, <1>4, <2>1 DEF parsePageToken, NoToken
    <3>2. \A g \in stayed : ~(place(g) <= 0)
      BY <1>6
    <3> QED
      BY <1>5, <3>1, <3>2 DEF GroupsBefore
  <2>2. CASE bag["groups"] # <<>>
    BY <1>1, <1>2, <1>3, <1>4, <2>2 DEF GroupsInv, listing
  <2> QED
    BY <2>1, <2>2
<1>8. \A g \in stayed : place(g) <= q * PageSize => g \in storedGroups'
  <2> SUFFICES ASSUME NEW g \in stayed, place(g) <= q * PageSize
               PROVE  g \in storedGroups'
    OBVIOUS
  <2>1. storedGroups' = storedGroups \cup groupsOn(q)
    BY <1>1, <1>4 DEF StorePages
  <2>2. CASE place(g) <= (q - 1) * PageSize
    BY <1>7, <2>1, <2>2 DEF GroupsBefore
  <2>3. CASE (q - 1) * PageSize < place(g)
    BY <1>6, <2>1, <2>3 DEF groupsOn, PlaceIn
  <2>4. (q - 1) * PageSize \in Nat /\ place(g) \in Nat
    BY <1>5, <1>6
  <2> QED
    BY <2>2, <2>3, <2>4
<1>9. PICK token \in Nat : token = groupsNext(q)
  BY NextType
<1>10. token \in {0, q + 1}
  BY <1>9, NextPage DEF groupsNext
<1>11. /\ todo' = IF token = 0 THEN todo \ {"groups"} ELSE todo
       /\ bag'["groups"] = IF token = 0 THEN <<>> ELSE Own("groups", token)
  <2>1. storedGroups \subseteq storedGroups' /\ storedGroups' \subseteq GroupIds
    BY <1>1, MembersOnly, StoringTyped
  <2> QED
    BY <1>1, <1>4, <1>9, <2>1, OthersAdvance DEF TypeInv
<1>12. CASE token = 0
  <2>1. Cardinality(DOMAIN groups) <= q * PageSize /\ Cardinality(DOMAIN groups) \in Nat
    <3>1. DOMAIN groups \in SUBSET GroupIds
      BY DEF TypeInv, UpstreamOK
    <3> QED
      BY <1>9, <1>12, <3>1, GroupsEnd, FS_Subset, FS_CardinalityType DEF FinitelyMany
  <2>2. \A g \in stayed : place(g) <= q * PageSize
    BY <1>5, <1>6, <2>1
  <2>3. stayed \subseteq storedGroups'
    BY <1>8, <2>2
  <2>4. "groups" \notin todo'
    BY <1>11, <1>12
  <2> QED
    BY <2>3, <2>4 DEF listing
<1>13. CASE token = q + 1
  <2>1. bag'["groups"] = Own("groups", token) /\ todo' = todo /\ parsePageToken(token) = q + 1
    BY <1>11, <1>13 DEF Page, parsePageToken, NoToken
  <2>2. \A m \in Nat : bag'["groups"] = Own("groups", m) => parsePageToken(m) = q + 1
    BY <1>1, <1>9, <2>1, FormsDiffer
  <2>3. GroupsBefore(q + 1)'
    BY <1>1, <1>5, <1>8 DEF GroupsBefore, PlaceIn
  <2>4. ~over("groups")'
    BY <1>1, <1>2, <2>1 DEF over
  <2> QED
    BY <2>2, <2>3, <2>4 DEF parsePageToken
<1> QED
  BY <1>10, <1>12, <1>13

\* A sync that falls back begins both listings anew, or neither.
LEMMA CrashKeepsListings ==
  ASSUME FinitelyMany, TypeInv, TypeInv', VersionsInv, ListingsInv, Crash,
         stayed \subseteq DOMAIN groups
  PROVE  ListingsInv'
<1>1. PICK running \in SUBSET todo : StorePages(running)
  BY DEF Crash
<1>2. /\ phase \in {"resources", "grants"} /\ UNCHANGED <<groups, stayed, versions>>
      /\ storedGroups \subseteq storedGroups' /\ storedRoles \subseteq storedRoles'
  BY <1>1, StoresGrow DEF Crash, upstream, history
<1>3. "roles" \in Listings /\ "groups" \in Listings /\ Listings \subseteq Jobs
  BY DEF Jobs, Listings
<1>4. CASE UNCHANGED cursor
  <2>1. phase' = phase /\ todo' = todo /\ bag' = bag /\ stayed' = stayed
    BY <1>2, <1>4 DEF cursor
  <2>2. [Next]_vars
    BY DEF Next
  <2> QED
    BY <1>2, <2>1, <2>2, RolesSteady, GroupsSteady DEF ListingsInv
<1>5. CASE resumeAt("resources", Listings)
  <2>1. \A j \in {"roles", "groups"} : bag'[j] = <<>> /\ j \in todo'
    BY <1>3, <1>5 DEF resumeAt, unstarted
  <2>2. \A j \in {"roles", "groups"}, n \in Nat : Own(j, n)' # <<>>
    BY <1>3, FormsDiffer DEF Own, One, At
  <2>3. phase' = "resources"
    BY <1>5 DEF resumeAt
  <2> QED
    BY <2>1, <2>2, <2>3 DEF ListingsInv, RolesInv, GroupsInv, listing, over
<1>6. CASE phase = "grants" /\ resumeAt("grants", storedGroups)
  <2>1. phase = "grants" /\ phase' = "grants" /\ over("roles") /\ over("groups")
    BY <1>6 DEF resumeAt, over
  <2>2. storedRoles' \subseteq ToSet(Roles)
    BY DEF TypeInv, StoreOK, ToSet
  <2>3. RolesInv'
    BY <1>2, <2>1, <2>2 DEF ListingsInv, RolesInv, listing, ToSet
  <2>4. GroupsInv'
    BY <1>2, <2>1 DEF ListingsInv, GroupsInv, gone, listing
  <2> QED
    BY <2>3, <2>4 DEF ListingsInv
<1> QED
  BY <1>4, <1>5, <1>6 DEF Crash

LEMMA ListingsStep ==
  ASSUME FinitelyMany, TypeInv, VersionsInv, SteadyInv, ListingsInv, [Next]_vars
  PROVE  ListingsInv'
<1>1. TypeInv' /\ (phase # "before" => stayed \subseteq DOMAIN groups)
  BY TypeStep DEF SteadyInv
<1>2. /\ {"roles", "groups", "users"} \subseteq Jobs /\ GroupIds \subseteq Jobs
      /\ \A g \in GroupIds : g \notin {"roles", "groups", "users"}
  BY SyncAssumption DEF Jobs, Listings
<1>3. \A j \in {"roles", "groups"}, n \in Nat : Own(j, n)' # <<>>
  BY <1>2, FormsDiffer DEF Own, One, At
<1>4. ASSUME UNCHANGED <<phase, todo, bag, storedGroups, storedRoles>>,
             phase # "before" => stayed' \subseteq stayed
      PROVE  ListingsInv'
  BY <1>1, <1>4, RolesSteady, GroupsSteady DEF ListingsInv
<1>5. CASE Begin
  <2>1. phase' = "resources" /\ todo' = Listings /\ bag' = unstarted
    BY <1>5, NothingBegun DEF Begin, TypeInv, CursorOK
  <2>2. \A j \in {"roles", "groups"} : bag'[j] = <<>> /\ j \in todo'
    BY <1>2, <2>1 DEF unstarted, Listings
  <2> QED
    BY <1>3, <2>1, <2>2 DEF ListingsInv, RolesInv, GroupsInv, listing, over
<1>6. CASE PlanGrants \/ Finish
  <2>1. /\ over("roles") /\ over("groups") /\ phase' \in {"grants", "done"}
        /\ UNCHANGED <<groups, stayed, versions, storedGroups, storedRoles>>
    BY <1>6 DEF PlanGrants, Finish, over, upstream, store, history
  <2>2. RolesInv'
    BY <2>1 DEF ListingsInv, RolesInv, listing, ToSet
  <2>3. GroupsInv'
    BY <2>1 DEF ListingsInv, GroupsInv, gone, listing
  <2> QED
    BY <2>2, <2>3 DEF ListingsInv
<1>7. ASSUME NEW j \in todo, NEW token \in Nat, StorePages({j}), advance(j, token), stayed' = stayed
      PROVE  (j # "roles" => RolesInv') /\ (j # "groups" => GroupsInv')
  <2>1. storedGroups \subseteq storedGroups' /\ storedRoles \subseteq storedRoles' /\ phase' = phase
    BY <1>7, StoresGrow DEF advance
  <2>2. \A i \in {"roles", "groups"} : i # j => bag'[i] = bag[i] /\ (i \in todo' <=> i \in todo)
    BY <1>2, <1>7 DEF advance, TypeInv, CursorOK
  <2>3. j # "roles" => RolesInv'
    BY <1>1, <2>1, <2>2, RolesSteady DEF ListingsInv
  <2>4. j # "groups" => GroupsInv'
    BY <1>1, <1>7, <2>1, <2>2, GroupsSteady DEF ListingsInv
  <2> QED
    BY <2>3, <2>4
<1>8. CASE ListUsers
  <2>1. pageAt("users") \in Page /\ "users" \in todo /\ stayed' = stayed /\ StorePages({"users"})
    BY <1>2, <1>8, PageAtType DEF ListUsers, mayRun, history, TypeInv
  <2>2. PICK token \in Nat : advance("users", token)
    BY <1>8, <2>1, NextType DEF ListUsers
  <2> QED
    BY <1>7, <2>1, <2>2 DEF ListingsInv
<1>9. CASE ListRoles
  <2>1. listNext(Roles, pageAt("roles")) \in Nat
    BY <1>2, PageAtType, NextType DEF TypeInv
  <2>2. GroupsInv'
    BY <1>7, <1>9, <2>1 DEF ListRoles, mayRun, history
  <2> QED
    BY <1>1, <1>9, <2>2, RolesStore DEF ListingsInv
<1>10. CASE ListGroups
  <2>1. groupsNext(pageAt("groups")) \in Nat
    BY <1>2, PageAtType, NextType DEF TypeInv
  <2>2. RolesInv'
    BY <1>7, <1>10, <2>1 DEF ListGroups, mayRun, history
  <2>3. phase # "before"
    BY <1>10 DEF ListGroups, mayRun, TypeInv, CursorOK
  <2> QED
    BY <1>1, <1>10, <2>2, <2>3, GroupsStore DEF ListingsInv
<1>11. ASSUME NEW g \in GroupIds, ListGrants(g) PROVE ListingsInv'
  <2>1. membersNext(g, pageAt(g)) \in Nat
    BY <1>2, PageAtType, NextType DEF TypeInv
  <2> QED
    BY <1>2, <1>7, <1>11, <2>1 DEF ListGrants, mayRun, history, ListingsInv
<1>12. ASSUME NEW g \in GroupIds, SkipGrants(g) PROVE ListingsInv'
  <2>1. /\ UNCHANGED <<phase, storedGroups, storedRoles, stayed>>
        /\ bag' = [bag EXCEPT ![g] = <<>>] /\ todo' = todo \ {g}
    BY <1>12 DEF SkipGrants, store, history
  <2>2. \A j \in {"roles", "groups"} : bag'[j] = bag[j] /\ (j \in todo' <=> j \in todo)
    BY <1>2, <2>1 DEF TypeInv, CursorOK
  <2> QED
    BY <1>1, <2>1, <2>2, RolesSteady, GroupsSteady DEF ListingsInv
<1>13. CASE Crash
  BY <1>1, <1>13, CrashKeepsListings DEF Crash
<1>14. CASE Expire \/ StartFind \/ FindAsks \/ FindPage \/ FindFails \/ EditMembers
            \/ EditAccessUsers \/ UNCHANGED vars
  BY <1>4, <1>14 DEF Expire, StartFind, FindAsks, FindPage, FindFails, EditMembers,
     EditAccessUsers, vars, cursor, store, history
<1>16. ASSUME NEW j \in Jobs, AskMembers(j) \/ CallFails(j) PROVE ListingsInv'
  BY <1>4, <1>16 DEF AskMembers, CallFails, cursor, store, history
<1>17. CASE Abort
  <2>1. phase' = "failed"
    BY <1>17 DEF Abort
  <2> QED
    BY <2>1 DEF ListingsInv, RolesInv, GroupsInv, listing, over
<1>15. ASSUME NEW g \in GroupIds, EditGroup(g) PROVE ListingsInv'
  <2>1. stayed' \subseteq stayed
    BY <1>15 DEF EditGroup
  <2> QED
    BY <1>4, <1>15, <2>1 DEF EditGroup, cursor, store
<1> QED
  BY <1>5, <1>6, <1>8, <1>9, <1>10, <1>11, <1>12, <1>13, <1>14, <1>15, <1>16, <1>17 DEF Next, Sync

\* Every role is stored before grants are listed, and, unless one is deleted,
\* every group that is there throughout, whatever the size of pages and the
\* metadata Cloudflare pages with, though groups join on pages already read
\* and the connector crashes: a group that joins moves the others to later
\* pages only.
THEOREM EveryGroupIsFetched ==
  ASSUME FinitelyMany
  PROVE  Spec => []EveryGroupFetched
<1>1. Spec => []TypeInv
  BY TypeInit, TypeStep, PTL DEF Spec
<1>2. Init => VersionsInv /\ SteadyInv
  BY SteadyInit
<1>3. TypeInv /\ VersionsInv /\ SteadyInv /\ [Next]_vars => VersionsInv' /\ SteadyInv'
  BY VersionsStep, SteadyStep
<1>4. Init => ListingsInv
  BY DEF Init, ListingsInv, RolesInv, GroupsInv, listing, over
<1>5. TypeInv /\ VersionsInv /\ SteadyInv /\ ListingsInv /\ [Next]_vars => ListingsInv'
  BY ListingsStep
<1>6. ListingsInv => EveryGroupFetched
  BY DEF ListingsInv, RolesInv, GroupsInv, over, gone, EveryGroupFetched
<1> QED
  BY <1>1, <1>2, <1>3, <1>4, <1>5, <1>6, PTL DEF Spec

(***************************************************************************)
(* Where grants are not Cloudflare's, that is logged                       *)
(***************************************************************************)

\* Without edits of groups, each is one version.
UneditedInv ==
  groupEdits = 0 /\ phase # "before" =>
    /\ DOMAIN groups \subseteq stayed
    /\ \A g \in GroupIds : versions[g] = IF g \in DOMAIN groups THEN {groups[g]} ELSE {}

LEMMA UneditedStep ==
  ASSUME TypeInv, UneditedInv, [Next]_vars
  PROVE  UneditedInv'
<1>1. ASSUME NEW g \in GroupIds, EditGroup(g) PROVE UneditedInv'
  <2>1. groupEdits' = groupEdits + 1 /\ groupEdits \in Nat
    BY <1>1, SyncAssumption DEF EditGroup, TypeInv, UpstreamOK
  <2> QED
    BY <2>1 DEF UneditedInv
<1>2. CASE Begin
  BY <1>2 DEF Begin, upstream, UneditedInv
<1>3. CASE ~(Begin \/ (\E g \in GroupIds : EditGroup(g)))
  <2>1. UNCHANGED <<groups, groupEdits, stayed, versions>>
    BY <1>3 DEF Next, Sync, AskMembers, ListUsers, ListGroups, ListRoles, PlanGrants, Finish,
       ListGrants, SkipGrants, CallFails, Abort, Crash, Expire, StartFind, FindAsks, FindPage,
       FindFails, EditMembers, EditAccessUsers, upstream, history, vars
  <2>2. phase = "before" => phase' = "before"
    <3>1. phase = "before" => todo = {}
      BY DEF TypeInv, CursorOK
    <3> QED
      BY <1>3, <3>1 DEF Next, Sync, AskMembers, ListUsers, ListGroups, ListRoles, PlanGrants,
         Finish, ListGrants, SkipGrants, mayRun, CallFails, Abort, Crash, Expire, StartFind,
         FindAsks, FindPage, FindFails, EditMembers, EditAccessUsers, cursor, vars
  <2> QED
    BY <2>1, <2>2 DEF UneditedInv
<1> QED
  BY <1>1, <1>2, <1>3

\* A group that was edited by nobody and of which nothing is logged has no
\* rules that were skipped, and all it gives was found.
LEMMA SilentGroups ==
  ASSUME TypeInv, SteadyInv, ListingsInv, UneditedInv, phase = "done", edits = 0, groupEdits = 0,
         NEW g \in DOMAIN groups, g \notin logged
  PROVE  /\ g \in GroupIds /\ groups[g] \in Groups /\ versions[g] = {groups[g]}
         /\ GrantedToAll(g) /\ FirstFound(g) /\ ~logsSkippedRules(groups[g])
<1>1. g \in GroupIds /\ groups[g] \in Groups /\ versions[g] = {groups[g]} /\ g \in stayed
  BY DEF TypeInv, UpstreamOK, Range, UneditedInv
<1>2. g \in storedGroups
  <2>1. ~gone
    BY DEF gone, UneditedInv
  <2> QED
    BY <1>1, <2>1 DEF ListingsInv, GroupsInv, over
<1>3. GrantedToAll(g) /\ FirstFound(g)
  BY <1>1, <1>2 DEF SteadyInv, GrantsSteady
<1>4. ~logsSkippedRules(groups[g])
  BY <1>1, <1>3 DEF FirstFound
<1> QED
  BY <1>1, <1>3, <1>4

\* It has the grants that Cloudflare's own evaluation gives, whatever of the
\* rules that cannot be resolved holds.
LEMMA SilentGrantsAreExact ==
  ASSUME TypeInv, VersionsInv, SteadyInv, ListingsInv, UneditedInv,
         phase = "done", edits = 0, groupEdits = 0,
         NEW g \in DOMAIN groups, NEW u \in usersOf(directory), g \notin logged,
         NEW claims \in SUBSET {rule \in Rules : opaque(rule)}
  PROVE  admits(groups[g], claims, u) <=> <<g, u>> \in grants
<1>1. /\ groups[g] \in Groups /\ versions[g] = {groups[g]}
      /\ GrantedToAll(g) /\ ~logsSkippedRules(groups[g])
  BY SilentGroups
<1>2. u \in Emails
  BY UsersOfType DEF TypeInv, UpstreamOK, Emails
<1>3. <<g, u>> \in grants <=> lets(groups[g], u)
  <2>1. ASSUME <<g, u>> \in grants PROVE lets(groups[g], u)
    <3>1. PICK v \in versions[<<g, u>>[1]] : lets(v, <<g, u>>[2])
      BY <2>1 DEF VersionsInv, GrantsWereGiven
    <3> QED
      BY <1>1, <3>1
  <2>2. ASSUME lets(groups[g], u) PROVE <<g, u>> \in grants
    BY <1>1, <2>2 DEF GrantedToAll, Steady
  <2> QED
    BY <2>1, <2>2
<1> QED
  BY <1>1, <1>2, <1>3, SilentGroupsAreExact DEF lets

\* "Logged at sync time" (docs/connector.mdx) holds for every account: where
\* the direct grants of a group differ from Cloudflare's own evaluation, for
\* any way the skipped rules may turn out, the sync has logged the group, on
\* whichever page the difference is and wherever the sync was interrupted.
THEOREM DifferencesAreAlwaysLogged ==
  ASSUME FinitelyMany
  PROVE  Spec => []DifferencesAreLogged
<1>1. Spec => []TypeInv
  BY TypeInit, TypeStep, PTL DEF Spec
<1>2. Init => VersionsInv /\ SteadyInv /\ ListingsInv /\ UneditedInv
  BY SteadyInit DEF Init, ListingsInv, RolesInv, GroupsInv, listing, over, UneditedInv
<1>3. TypeInv /\ VersionsInv /\ SteadyInv /\ ListingsInv /\ UneditedInv /\ [Next]_vars
        => VersionsInv' /\ SteadyInv' /\ ListingsInv' /\ UneditedInv'
  BY VersionsStep, SteadyStep, ListingsStep, UneditedStep
<1>4. TypeInv /\ VersionsInv /\ SteadyInv /\ ListingsInv /\ UneditedInv => DifferencesAreLogged
  <2> SUFFICES ASSUME TypeInv, VersionsInv, SteadyInv, ListingsInv, UneditedInv,
                      phase = "done", edits = 0, groupEdits = 0,
                      NEW g \in DOMAIN groups, NEW u \in usersOf(directory), g \notin logged,
                      NEW claims \in SUBSET {rule \in groups[g].include \cup groups[g].require
                                                        \cup groups[g].exclude : opaque(rule)}
               PROVE  admits(groups[g], claims, u) = (<<g, u>> \in grants)
    BY DEF DifferencesAreLogged
  <2>1. groups[g] \in Groups
    BY DEF TypeInv, UpstreamOK, Range
  <2>2. claims \in SUBSET {rule \in Rules : opaque(rule)}
    BY <2>1 DEF Groups
  <2>3. admits(groups[g], claims, u) <=> <<g, u>> \in grants
    BY <2>2, SilentGrantsAreExact
  <2>4. admits(groups[g], claims, u) \in BOOLEAN
    BY DEF admits
  <2> QED
    BY <2>3, <2>4
<1> QED
  BY <1>1, <1>2, <1>3, <1>4, PTL DEF Spec

(***************************************************************************)
(* What C1 makes of the grants is what Cloudflare admits                   *)
(***************************************************************************)

\* Without edits of members, grants are to members there are.
MembersInv == edits = 0 => \A gr \in grants : gr[2] \in usersOf(directory)

\* The users on a page are users of the list.
LEMMA PageUsers ==
  ASSUME NEW list \in Seq(Entries), NEW page \in Page
  PROVE  usersOf(pageOf(list, page)) \subseteq usersOf(list)
<1>1. pageOf(list, page) \in Seq(ToSet(list))
  <2>1. list \in Seq(ToSet(list))
    BY DEF ToSet
  <2> QED
    BY <2>1, PageOfType
<1>2. ToSet(pageOf(list, page)) \subseteq ToSet(list)
  BY <1>1 DEF ToSet
<1> QED
  BY <1>2, UsersAreRows

\* The pages that are stored are of the members there are.
LEMMA StoredAreMembers ==
  ASSUME TypeInv, Truthful, \A gr \in grants : gr[2] \in usersOf(directory),
         NEW jobs \in SUBSET todo, StorePages(jobs), \A g \in jobs \cap GroupIds : g \in DOMAIN call
  PROVE  \A gr \in grants' : gr[2] \in usersOf(directory)
<1> SUFFICES ASSUME NEW g \in jobs \cap DOMAIN groups, NEW gr \in granted(g)
             PROVE  gr[2] \in usersOf(directory)
  BY DEF StorePages
<1>1. pageAt(g) \in Page
  <2>1. g \in Jobs
    BY DEF TypeInv, UpstreamOK, Jobs
  <2> QED
    BY <2>1, PageAtType DEF TypeInv
<1>2. call[g].rows = pageOf(directory, pageAt(g))
  <2>1. g \in GroupIds
    BY DEF TypeInv, UpstreamOK
  <2>2. g \in DOMAIN call /\ callPage(g) = pageAt(g)
    BY <2>1, MembersOnly DEF callPage
  <2>3. call[g] = currentPage(pageAt(g))
    BY <2>2 DEF Truthful
  <2> QED
    BY <2>3 DEF currentPage
<1>3. PICK u \in usersOf(pageOf(directory, pageAt(g))) : gr = <<g, u>>
  BY <1>2 DEF granted
<1>4. u \in usersOf(directory)
  BY <1>1, <1>3, PageUsers DEF TypeInv, UpstreamOK
<1> QED
  BY <1>3, <1>4

LEMMA MembersStep ==
  ASSUME TypeInv, SteadyInv, MembersInv, [Next]_vars
  PROVE  MembersInv'
<1> SUFFICES ASSUME edits' = 0 PROVE MembersInv'
  BY DEF MembersInv
<1>1. Truthful
  <2>1. CASE edits = 0
    BY <2>1 DEF SteadyInv
  <2>2. CASE EditMembers
    BY <2>2 DEF EditMembers, TypeInv, UpstreamOK
  <2>3. CASE ~EditMembers
    BY <2>3 DEF SteadyInv, Next, Sync, Begin, AskMembers, ListUsers, ListGroups, ListRoles,
       PlanGrants, Finish, ListGrants, SkipGrants, CallFails, Abort, Crash, Expire, StartFind,
       FindAsks, FindPage, FindFails, EditAccessUsers, EditGroup, upstream, vars
  <2> QED
    BY <2>2, <2>3
<1>2. edits = 0 /\ directory' = directory
  BY <1>1, TruthStep
<1>3. usersOf(directory)' = usersOf(directory) /\ \A gr \in grants : gr[2] \in usersOf(directory)
  BY <1>2 DEF MembersInv, usersOf
<1>4. ASSUME NEW jobs \in SUBSET todo, StorePages(jobs), \A g \in jobs \cap GroupIds : g \in DOMAIN call
      PROVE  MembersInv'
  BY <1>1, <1>3, <1>4, StoredAreMembers DEF MembersInv
<1>5. ASSUME NEW j, mayRun(j), StorePages({j}), j \in GroupIds => j \in DOMAIN call PROVE MembersInv'
  BY <1>4, <1>5 DEF mayRun
<1>6. ASSUME grants' \subseteq grants PROVE MembersInv'
  BY <1>3, <1>6 DEF MembersInv
<1>7. CASE ListUsers \/ ListGroups \/ ListRoles
  BY <1>5, <1>7, MembersOnly DEF ListUsers, ListGroups, ListRoles
<1>8. ASSUME NEW g \in GroupIds, ListGrants(g) PROVE MembersInv'
  BY <1>5, <1>8 DEF ListGrants
<1>9. CASE Crash
  <2>1. PICK running \in SUBSET {j \in todo : mayRun(j) /\ (listsMembers(j) => j \in DOMAIN call)} :
          StorePages(running)
    BY <1>9 DEF Crash
  <2> QED
    BY <1>4, <2>1 DEF listsMembers
<1>10. CASE ~(Crash \/ ListUsers \/ ListGroups \/ ListRoles \/ \E g \in GroupIds : ListGrants(g))
  <2>1. grants' \in {grants, {}}
    BY <1>10 DEF Next, Sync, Begin, PlanGrants, Finish, SkipGrants, AskMembers, CallFails, Abort,
       Expire, StartFind, FindAsks, FindPage, FindFails, EditMembers, EditAccessUsers, EditGroup,
       store, vars
  <2> QED
    BY <1>6, <2>1
<1> QED
  BY <1>7, <1>8, <1>9, <1>10

\* The pairs of one of these groups and a member.
pairsOf(among) == among \X usersOf(directory)

\* Cloudflare admits whomever it lets in: admitted is closed, as it is what
\* all closed sets have in common and letting more in keeps nobody out.
LEMMA AdmittedIsClosed ==
  ASSUME NEW among, NEW claims, NEW g \in among, NEW u \in usersOf(directory),
         letsIn(admitted(among, claims), claims, g, u)
  PROVE  <<g, u>> \in admitted(among, claims)
<1> SUFFICES ASSUME NEW into \in SUBSET pairsOf(among),
                    \A other \in pairsOf(among) :
                      letsIn(into, claims, other[1], other[2]) => other \in into
             PROVE  <<g, u>> \in into
  BY DEF admitted, pairsOf
<1>1. admitted(among, claims) \subseteq into
  BY DEF admitted, pairsOf
<1>2. letsIn(into, claims, g, u)
  BY <1>1 DEF letsIn
<1>3. <<g, u>> \in pairsOf(among) /\ <<g, u>>[1] = g /\ <<g, u>>[2] = u
  BY DEF pairsOf
<1> QED
  BY <1>2, <1>3

\* And whom all closed sets have in common is in each of them.
LEMMA AdmittedIsLeast ==
  ASSUME NEW among, NEW claims, NEW into \in SUBSET pairsOf(among),
         \A g \in among, u \in usersOf(directory) : letsIn(into, claims, g, u) => <<g, u>> \in into
  PROVE  admitted(among, claims) \subseteq into
<1>1. ASSUME NEW other \in pairsOf(among), letsIn(into, claims, other[1], other[2])
      PROVE  other \in into
  <2>1. PICK g \in among, u \in usersOf(directory) : other = <<g, u>>
    BY DEF pairsOf
  <2>2. letsIn(into, claims, g, u)
    BY <1>1, <2>1
  <2> QED
    BY <2>1, <2>2
<1> QED
  BY <1>1 DEF admitted, pairsOf

\* The same of what C1 makes of the grants.
LEMMA ExpandedIsClosed ==
  ASSUME TypeInv
  PROVE  /\ grants \subseteq expanded
         /\ \A gn \in nested, u \in Addresses : <<gn[2], u>> \in expanded => <<gn[1], u>> \in expanded
<1>1. storedGroups \subseteq GroupIds
  BY DEF TypeInv, CursorOK
<1>2. grants \subseteq expanded
  BY <1>1 DEF expanded, TypeInv, StoreOK
<1>3. ASSUME NEW gn \in nested, NEW u \in Addresses, <<gn[2], u>> \in expanded
      PROVE  <<gn[1], u>> \in expanded
  <2>1. gn[1] \in GroupIds
    BY <1>1 DEF TypeInv, StoreOK
  <2> SUFFICES ASSUME NEW into \in SUBSET (GroupIds \X Addresses), grants \subseteq into,
                      \A gm \in nested, v \in Addresses : <<gm[2], v>> \in into => <<gm[1], v>> \in into
               PROVE  <<gn[1], u>> \in into
    BY <2>1 DEF expanded
  <2>2. <<gn[2], u>> \in into
    BY <1>3 DEF expanded
  <2> QED
    BY <2>2
<1> QED
  BY <1>2, <1>3

LEMMA ExpandedIsLeast ==
  ASSUME NEW into \in SUBSET (GroupIds \X Addresses), grants \subseteq into,
         \A gn \in nested, u \in Addresses : <<gn[2], u>> \in into => <<gn[1], u>> \in into
  PROVE  expanded \subseteq into
BY DEF expanded

\* What groups and users are.
LEMMA PairsType ==
  ASSUME TypeInv
  PROVE  /\ DOMAIN groups \subseteq GroupIds /\ usersOf(directory) \subseteq Addresses
         /\ \A g \in DOMAIN groups : groups[g] \in Groups
BY UsersOfType DEF TypeInv, UpstreamOK, Range

\* Without edits of groups, what is stored is given by what a group is.
LEMMA GivenByGroups ==
  ASSUME TypeInv, VersionsInv, UneditedInv, groupEdits = 0, phase # "before"
  PROVE  /\ \A gr \in grants : gr[1] \in DOMAIN groups /\ lets(groups[gr[1]], gr[2])
         /\ \A gn \in nested : gn[1] \in DOMAIN groups /\ expands(groups[gn[1]], gn[2])
<1>1. \A g \in GroupIds : \A v \in versions[g] : g \in DOMAIN groups /\ v = groups[g]
  BY DEF UneditedInv
<1>2. \A gr \in grants : gr[1] \in GroupIds
  BY DEF TypeInv, StoreOK, CursorOK
<1>3. \A gn \in nested : gn[1] \in GroupIds
  BY DEF TypeInv, StoreOK, CursorOK
<1>4. \A gr \in grants : \E v \in versions[gr[1]] : lets(v, gr[2])
  BY DEF VersionsInv, GrantsWereGiven
<1>5. \A gn \in nested : \E v \in versions[gn[1]] : expands(v, gn[2])
  BY DEF VersionsInv, GrantsWereGiven
<1>6. \A gr \in grants : gr[1] \in DOMAIN groups /\ lets(groups[gr[1]], gr[2])
  BY <1>1, <1>2, <1>4
<1>7. \A gn \in nested : gn[1] \in DOMAIN groups /\ expands(groups[gn[1]], gn[2])
  BY <1>1, <1>3, <1>5
<1> QED
  BY <1>6, <1>7

\* Of groups of which nothing is logged, nor of those they nest, nobody is
\* reported whom Cloudflare keeps out: a grant is one that direct rules give,
\* and an expandable one comes from a group that keeps nobody out.
LEMMA NobodyElseExpanded ==
  ASSUME TypeInv, VersionsInv, SteadyInv, ListingsInv, UneditedInv, MembersInv,
         phase = "done", edits = 0, groupEdits = 0,
         NEW among \in SUBSET (DOMAIN groups \ logged), closed(among),
         NEW claims \in SUBSET {rule \in Rules : opaque(rule)},
         NEW gr \in expanded, gr[1] \in among
  PROVE  gr \in admitted(among, claims)
<1> DEFINE admits0 == admitted(among, claims)
           into == {x \in GroupIds \X Addresses :
                      x[1] \in DOMAIN groups /\ (x[1] \in among => x \in admits0)}
<1>1. \A x \in admits0 : x[1] \in among /\ x[2] \in usersOf(directory)
  BY DEF admitted
<1>2. ASSUME NEW g \in among, NEW u \in usersOf(directory)
      PROVE  /\ includes(groups[g], claims, u) <=> anyRuleMatches(directRules(groups[g].include), u)
             /\ letsPass(groups[g], claims, u) <=> satisfiesRequireExclude(groups[g], u)
             /\ groups[g] \in Groups /\ u \in Emails
  <2>1. groups[g] \in Groups /\ ~logsSkippedRules(groups[g])
    BY SilentGroups
  <2>2. u \in Emails
    BY PairsType DEF Emails
  <2> QED
    BY <2>1, <2>2, SilentRules
<1>3. ASSUME NEW g, NEW u, <<g, u>> \in grants PROVE <<g, u>> \in into
  <2>1. <<g, u>>[1] \in DOMAIN groups /\ lets(groups[<<g, u>>[1]], <<g, u>>[2])
    BY <1>3, GivenByGroups
  <2>2. <<g, u>>[2] \in usersOf(directory)
    BY <1>3 DEF MembersInv
  <2>3. g \in DOMAIN groups /\ lets(groups[g], u) /\ u \in usersOf(directory)
    BY <2>1, <2>2
  <2>4. ASSUME g \in among PROVE <<g, u>> \in admits0
    <3>1. letsIn(admits0, claims, g, u)
      BY <1>2, <2>3, <2>4 DEF lets, isMember, matchesDirectRules, letsIn
    <3> QED
      BY <2>3, <2>4, <3>1, AdmittedIsClosed
  <2> QED
    BY <2>3, <2>4, PairsType
<1>4. grants \subseteq into
  BY <1>3 DEF TypeInv, StoreOK
<1>5. ASSUME NEW gn \in nested, NEW u \in Addresses, <<gn[2], u>> \in into
      PROVE  <<gn[1], u>> \in into
  <2>1. gn[1] \in DOMAIN groups /\ expands(groups[gn[1]], gn[2]) /\ gn[2] \in DOMAIN groups
    BY <1>5, GivenByGroups
  <2>2. ASSUME gn[1] \in among PROVE <<gn[1], u>> \in admits0
    <3>1. gn[2] \in among
      BY <2>1, <2>2 DEF closed, expands
    <3>2. <<gn[2], u>> \in admits0
      BY <1>5, <3>1
    <3>3. u \in usersOf(directory)
      BY <1>1, <3>2
    <3>4. satisfiesRequireExclude(groups[gn[1]], u)
      BY <1>2, <2>1, <2>2, <3>3, ExpandableKeepsNobodyOut DEF expands
    <3>5. letsIn(admits0, claims, gn[1], u)
      BY <1>2, <2>1, <2>2, <3>2, <3>3, <3>4 DEF letsIn, expands
    <3> QED
      BY <2>2, <3>3, <3>5, AdmittedIsClosed
  <2> QED
    BY <2>1, <2>2, PairsType
<1>6. into \in SUBSET (GroupIds \X Addresses)
  OBVIOUS
<1> HIDE DEF into
<1>7. gr \in into
  BY <1>4, <1>5, <1>6, ExpandedIsLeast
<1> QED
  BY <1>7 DEF into

\* Everybody Cloudflare admits to them is reported at the end, if none of them
\* restricts what it nests: direct rules have given their grants by then, and
\* nested groups their expandable ones.
LEMMA EverybodyExpanded ==
  ASSUME TypeInv, SteadyInv, ListingsInv, UneditedInv,
         phase = "done", edits = 0, groupEdits = 0,
         NEW among \in SUBSET (DOMAIN groups \ logged),
         NEW claims \in SUBSET {rule \in Rules : opaque(rule)},
         \A g \in among : restrictsNestedExpansion(groups[g])
                          => nestedGroupIDs(groups[g].include) = {}
  PROVE  admitted(among, claims) \subseteq expanded
<1> DEFINE into == expanded \cap pairsOf(among)
<1> SUFFICES ASSUME NEW g \in among, NEW u \in usersOf(directory), letsIn(into, claims, g, u)
             PROVE  <<g, u>> \in into
  BY AdmittedIsLeast
<1>1. /\ g \in GroupIds /\ u \in Addresses /\ u \in Emails /\ <<g, u>> \in pairsOf(among)
      /\ groups[g] \in Groups /\ versions[g] = {groups[g]}
      /\ GrantedToAll(g) /\ FirstFound(g) /\ ~logsSkippedRules(groups[g])
  BY SilentGroups, PairsType DEF pairsOf, Emails
<1>2. CASE includes(groups[g], claims, u)
  <2>1. lets(groups[g], u)
    BY <1>1, <1>2, SilentRules DEF letsIn, lets, isMember, matchesDirectRules
  <2>2. <<g, u>> \in grants
    BY <1>1, <2>1 DEF GrantedToAll, Steady
  <2> QED
    BY <1>1, <2>2, ExpandedIsClosed
<1>3. ASSUME NEW m \in nestedGroupIDs(groups[g].include), <<m, u>> \in into
      PROVE  <<g, u>> \in into
  <2>1. m \in GroupIds
    BY <1>1, NestedType DEF Groups
  <2>2. expands(groups[g], m)
    BY DEF expands
  <2>3. <<g, m>> \in nested
    BY <1>1, <2>1, <2>2 DEF FirstFound
  <2>4. <<g, m>>[1] = g /\ <<g, m>>[2] = m
    OBVIOUS
  <2> QED
    BY <1>1, <1>3, <2>3, <2>4, ExpandedIsClosed
<1> QED
  BY <1>2, <1>3 DEF letsIn

\* However deep groups nest, in circles too, and whatever Require and Exclude
\* say: of groups of which the sync logs nothing, nor of those they nest, C1's
\* expansion of a finished sync's grants keeps out whom Cloudflare keeps out,
\* whichever of the rules that cannot be resolved hold; and is all Cloudflare
\* admits where none of them restricts what it nests.  Leaving restricted
\* groups out of the expansion (restrictsNestedExpansion,
\* access_rules_helper.go) suffices for that, for every account.
THEOREM ExpansionSound ==
  ASSUME FinitelyMany
  PROVE  Spec => []ExpansionIsSound
<1>1. Spec => []TypeInv
  BY TypeInit, TypeStep, PTL DEF Spec
<1>2. Init => VersionsInv /\ SteadyInv /\ ListingsInv /\ UneditedInv /\ MembersInv
  BY SteadyInit DEF Init, ListingsInv, RolesInv, GroupsInv, listing, over, UneditedInv, MembersInv
<1>3. TypeInv /\ VersionsInv /\ SteadyInv /\ ListingsInv /\ UneditedInv /\ MembersInv /\ [Next]_vars
        => VersionsInv' /\ SteadyInv' /\ ListingsInv' /\ UneditedInv' /\ MembersInv'
  BY VersionsStep, SteadyStep, ListingsStep, UneditedStep, MembersStep
<1>4. TypeInv /\ VersionsInv /\ SteadyInv /\ ListingsInv /\ UneditedInv /\ MembersInv
        => ExpansionIsSound
  <2> SUFFICES ASSUME TypeInv, VersionsInv, SteadyInv, ListingsInv, UneditedInv, MembersInv,
                      phase = "done", edits = 0, groupEdits = 0,
                      NEW among \in SUBSET (DOMAIN groups \ logged), closed(among),
                      NEW claims \in SUBSET {rule \in UNION {groups[g].include \cup groups[g].require
                                                             \cup groups[g].exclude : g \in among} :
                                               opaque(rule)}
               PROVE  /\ {gr \in expanded : gr[1] \in among} \subseteq admitted(among, claims)
                      /\ (\A g \in among : restrictsNestedExpansion(groups[g])
                                           => nestedGroupIDs(groups[g].include) = {})
                           => {gr \in expanded : gr[1] \in among} = admitted(among, claims)
    BY DEF ExpansionIsSound
  <2>1. claims \in SUBSET {rule \in Rules : opaque(rule)}
    <3>1. \A g \in among : groups[g] \in Groups
      BY PairsType
    <3> QED
      BY <3>1 DEF Groups
  <2>2. {gr \in expanded : gr[1] \in among} \subseteq admitted(among, claims)
    BY <2>1, NobodyElseExpanded
  <2>3. \A gr \in admitted(among, claims) : gr[1] \in among
    BY DEF admitted
  <2>4. ASSUME \A g \in among : restrictsNestedExpansion(groups[g])
                                => nestedGroupIDs(groups[g].include) = {}
        PROVE  admitted(among, claims) \subseteq expanded
    BY <2>1, <2>4, EverybodyExpanded
  <2> QED
    BY <2>2, <2>3, <2>4
<1> QED
  BY <1>1, <1>2, <1>3, <1>4, PTL DEF Spec

=============================================================================
