------------------------- MODULE AccountSyncProofs -------------------------
(***************************************************************************)
(* Theorems about AccountSync, for every account, size of page, number of  *)
(* workers and history of edits.                                           *)
(***************************************************************************)
EXTENDS AccountSync, SequenceTheorems, TLAPS

(***************************************************************************)
(* Page tokens                                                             *)
(***************************************************************************)

\* A state of a bag.
At(type, token) == [type |-> type, token |-> token]

\* A bag of one state, and one with a state under the one at hand.
One(x)    == Append(<<>>, x)
Two(x, y) == Append(One(x), y)

LEMMA LastOfAppend ==
  ASSUME NEW S, NEW s \in Seq(S), NEW x \in S
  PROVE  Last(Append(s, x)) = x /\ Front(Append(s, x)) = s /\ Append(s, x) # <<>>
<1>1. /\ Len(Append(s, x)) = Len(s) + 1 /\ Len(s) \in Nat
      /\ Append(s, x)[Len(s) + 1] = x
      /\ Append(s, x) # <<>>
  BY AppendProperties
<1>2. SubSeq(Append(s, x), 1, Len(s)) = s
  OBVIOUS
<1>3. Len(Append(s, x)) - 1 = Len(s)
  BY <1>1
<1>4. Front(Append(s, x)) = s
  BY <1>2, <1>3 DEF Front
<1>5. Last(Append(s, x)) = x
  BY <1>1 DEF Last
<1> QED
  BY <1>1, <1>4, <1>5

\* The state at hand goes on to its next page, or those under it remain.
LEMMA NextOfAppend ==
  ASSUME NEW S, NEW s \in Seq(S), NEW type, NEW n, NEW token, At(type, n) \in S
  PROVE  /\ Last(Append(s, At(type, n))) = At(type, n)
         /\ NextToken(Append(s, At(type, n)), token) =
              IF token = 0 THEN s ELSE Append(s, At(type, token))
<1>1. /\ Last(Append(s, At(type, n))) = At(type, n)
      /\ Front(Append(s, At(type, n))) = s
  BY LastOfAppend
<1>2. [At(type, n) EXCEPT !.token = token] = At(type, token)
  BY DEF At
<1> QED
  BY <1>1, <1>2 DEF NextToken, NoToken

\* The client goes on to the next page or stops.
LEMMA NextPage ==
  ASSUME NEW page \in Page, NEW info, NEW received
  PROVE  nextPageToken(page, info, received) \in {0, page + 1}
BY DEF nextPageToken, NoToken

\* A token is a page, or stands for the first one.
LEMMA PageOfToken ==
  ASSUME NEW n \in Nat
  PROVE  parsePageToken(n) \in Page /\ (n # 0 => parsePageToken(n) = n)
BY DEF parsePageToken, NoToken, Page

(***************************************************************************)
(* Pages of a list                                                         *)
(***************************************************************************)

\* Where a page begins and how far it goes.
firstOn(page)      == (page - 1) * PageSize + 1
lastOn(list, page) == IF page * PageSize < Len(list) THEN page * PageSize ELSE Len(list)

LEMMA PageBounds ==
  ASSUME NEW S, NEW list \in Seq(S), NEW page \in Page
  PROVE  /\ firstOn(page) \in Page /\ lastOn(list, page) \in Nat
         /\ lastOn(list, page) <= Len(list)
         /\ lastOn(list, page) <= page * PageSize
         /\ page * PageSize = firstOn(page) + PageSize - 1
<1>1. PageSize \in Nat \ {0} /\ Len(list) \in Nat
  BY PageSizeAssumption
<1>2. page - 1 \in Nat /\ (page - 1) * PageSize \in Nat /\ page * PageSize \in Nat
  BY <1>1 DEF Page
<1>3. page * PageSize = (page - 1) * PageSize + PageSize
  BY <1>1 DEF Page
<1> QED
  BY <1>1, <1>2, <1>3 DEF firstOn, lastOn, Page

\* A page holds elements of the list, and no more than fit on it.
LEMMA PageOfType ==
  ASSUME NEW S, NEW list \in Seq(S), NEW page \in Page
  PROVE  /\ pageOf(list, page) \in Seq(S)
         /\ Len(pageOf(list, page)) <= PageSize
<1> DEFINE m == firstOn(page)
           n == lastOn(list, page)
<1>1. m \in Page /\ n \in Nat /\ n <= Len(list) /\ n <= m + PageSize - 1
  BY PageBounds
<1>2. pageOf(list, page) = SubSeq(list, m, n)
  BY DEF pageOf, firstOn, lastOn
<1>3. SubSeq(list, m, n) \in Seq(S)
  BY <1>1 DEF Page
<1>4. Len(SubSeq(list, m, n)) <= PageSize
  BY <1>1, PageSizeAssumption DEF Page
<1> QED
  BY <1>2, <1>3, <1>4

(***************************************************************************)
(* The cursor: phase, jobs and their page tokens                           *)
(***************************************************************************)

\* The bags a job may have: before its first page, at a page of its own
\* listing, and, for users, at a page of either of two endpoints.
AccessUsers(n)    == Two(At("account_members", 0), At("access_users", n))
AccountMembers(n) == One(At("account_members", n))
Own(j, n)         == One(At(j, n))

Shape(j) ==
  \/ bag[j] = <<>>
  \/ j = "users" /\ \E n \in Nat : bag[j] \in {AccessUsers(n), AccountMembers(n)}
  \/ j # "users" /\ \E n \in Nat : bag[j] = Own(j, n)

CursorOK ==
  /\ phase \in {"before", "resources", "grants", "done", "failed"}
  /\ phase \in {"before", "done", "failed"} => todo = {}
  /\ phase = "resources" => todo \subseteq Listings
  /\ phase = "grants" => todo \subseteq storedGroups
  /\ storedGroups \subseteq GroupIds
  /\ bag \in [Jobs -> Seq(States)]
  /\ \A j \in Jobs : Shape(j) /\ (bag[j] # <<>> => j \in todo)

LEMMA BagForms ==
  ASSUME NEW n \in Nat
  PROVE  /\ AccountMembers(n) \in Seq(States) /\ AccountMembers(n) # <<>>
         /\ AccessUsers(n) \in Seq(States) /\ AccessUsers(n) # <<>>
         /\ Len(AccountMembers(n)) = 1 /\ Len(AccessUsers(n)) = 2
         /\ Last(AccountMembers(n)) = At("account_members", n)
         /\ Last(AccessUsers(n)) = At("access_users", n)
         /\ \A token \in Nat :
              /\ NextToken(AccountMembers(n), token) =
                   IF token = 0 THEN <<>> ELSE AccountMembers(token)
              /\ NextToken(AccessUsers(n), token) =
                   IF token = 0 THEN AccountMembers(0) ELSE AccessUsers(token)
<1>1. /\ At("account_members", n) \in States /\ At("access_users", n) \in States
      /\ At("account_members", 0) \in States /\ <<>> \in Seq(States)
  BY DEF At, States
<1>2. AccountMembers(0) \in Seq(States) /\ Len(AccountMembers(0)) = 1
  BY <1>1 DEF AccountMembers, One
<1>3. AccessUsers(n) = Append(AccountMembers(0), At("access_users", n))
  BY DEF AccessUsers, AccountMembers, Two, One
<1>4. AccountMembers(n) = Append(<<>>, At("account_members", n))
  BY DEF AccountMembers, One
<1>5. \A token \in Nat :
        /\ NextToken(AccountMembers(n), token) =
             IF token = 0 THEN <<>> ELSE AccountMembers(token)
        /\ Last(AccountMembers(n)) = At("account_members", n)
  <2> TAKE token \in Nat
  <2> DEFINE none == <<>>
  <2>0. none \in Seq(States)
    OBVIOUS
  <2> HIDE DEF none
  <2>1. /\ NextToken(Append(none, At("account_members", n)), token) =
             IF token = 0 THEN none ELSE Append(none, At("account_members", token))
        /\ Last(Append(none, At("account_members", n))) = At("account_members", n)
    BY <1>1, <2>0, NextOfAppend
  <2>2. /\ Append(none, At("account_members", token)) = AccountMembers(token)
        /\ Append(none, At("account_members", n)) = AccountMembers(n)
        /\ none = <<>>
    BY DEF none, AccountMembers, One
  <2> QED
    BY <2>1, <2>2
<1>6. \A token \in Nat :
        /\ NextToken(AccessUsers(n), token) =
             IF token = 0 THEN AccountMembers(0) ELSE AccessUsers(token)
        /\ Last(AccessUsers(n)) = At("access_users", n)
  <2> TAKE token \in Nat
  <2> DEFINE under == AccountMembers(0)
  <2>0. under \in Seq(States)
    BY <1>2
  <2> HIDE DEF under
  <2>1. /\ NextToken(Append(under, At("access_users", n)), token) =
             IF token = 0 THEN under ELSE Append(under, At("access_users", token))
        /\ Last(Append(under, At("access_users", n))) = At("access_users", n)
    BY <1>1, <2>0, NextOfAppend
  <2>2. Append(under, At("access_users", token)) = AccessUsers(token)
    BY DEF under, AccessUsers, AccountMembers, Two, One
  <2>3. AccessUsers(n) = Append(under, At("access_users", n))
    BY <1>3 DEF under
  <2>4. under = AccountMembers(0)
    BY DEF under
  <2> QED
    BY <2>1, <2>2, <2>3, <2>4
<1>7. /\ AccountMembers(n) \in Seq(States) /\ AccountMembers(n) # <<>>
      /\ Len(AccountMembers(n)) = 1
  BY <1>1, <1>4, AppendProperties
<1>8. /\ AccessUsers(n) \in Seq(States) /\ AccessUsers(n) # <<>>
      /\ Len(AccessUsers(n)) = 2
  BY <1>1, <1>2, <1>3, AppendProperties
<1> QED
  BY <1>5, <1>6, <1>7, <1>8

LEMMA OwnForm ==
  ASSUME NEW j \in Jobs, NEW n \in Nat
  PROVE  /\ Own(j, n) \in Seq(States) /\ Own(j, n) # <<>> /\ Len(Own(j, n)) = 1
         /\ Last(Own(j, n)) = At(j, n)
         /\ \A token \in Nat :
              NextToken(Own(j, n), token) = IF token = 0 THEN <<>> ELSE Own(j, token)
<1>1. At(j, n) \in States /\ <<>> \in Seq(States) /\ Len(<<>>) = 0
  BY DEF At, States
<1>2. Own(j, n) = Append(<<>>, At(j, n))
  BY DEF Own, One
<1>3. \A token \in Nat :
        /\ NextToken(Own(j, n), token) = IF token = 0 THEN <<>> ELSE Own(j, token)
        /\ Last(Own(j, n)) = At(j, n)
  <2> TAKE token \in Nat
  <2> DEFINE none == <<>>
  <2>0. none \in Seq(States)
    OBVIOUS
  <2> HIDE DEF none
  <2>1. /\ NextToken(Append(none, At(j, n)), token) =
             IF token = 0 THEN none ELSE Append(none, At(j, token))
        /\ Last(Append(none, At(j, n))) = At(j, n)
    BY <1>1, <2>0, NextOfAppend
  <2>2. /\ Append(none, At(j, token)) = Own(j, token)
        /\ Append(none, At(j, n)) = Own(j, n)
        /\ none = <<>>
    BY DEF none, Own, One
  <2> QED
    BY <2>1, <2>2
<1>4. Own(j, n) \in Seq(States) /\ Own(j, n) # <<>> /\ Len(Own(j, n)) = 1
  BY <1>1, <1>2, AppendProperties
<1> QED
  BY <1>3, <1>4

\* Where a job is.  The page of a job not begun is the first one.
LEMMA WhereUsers ==
  ASSUME CursorOK
  PROVE  \E n \in Nat :
           /\ pageAt("users") = parsePageToken(n)
           /\ \/ jobBag("users") = AccessUsers(n) /\ kind("users") = "access_users"
              \/ /\ jobBag("users") = AccountMembers(n) /\ kind("users") = "account_members"
                 /\ bag["users"] = AccountMembers(n)
<1>1. "users" \in Jobs /\ Shape("users")
  BY DEF CursorOK, Jobs, Listings
<1>2. CASE bag["users"] = <<>>
  <2>1. Push(Push(<<>>, "account_members"), "access_users") = AccessUsers(0)
    BY DEF Push, AccessUsers, Two, One, At, NoToken
  <2>2. jobBag("users") = AccessUsers(0)
    BY <1>2, <2>1 DEF jobBag, userBag
  <2> QED
    BY <2>2, BagForms DEF kind, pageAt, At
<1>3. ASSUME NEW n \in Nat, bag["users"] \in {AccessUsers(n), AccountMembers(n)}
      PROVE  /\ pageAt("users") = parsePageToken(n)
             /\ \/ jobBag("users") = AccessUsers(n) /\ kind("users") = "access_users"
                \/ /\ jobBag("users") = AccountMembers(n) /\ kind("users") = "account_members"
                   /\ bag["users"] = AccountMembers(n)
  <2>1. bag["users"] # <<>>
    BY <1>3, BagForms
  <2>2. jobBag("users") = bag["users"]
    BY <2>1 DEF jobBag, userBag
  <2> QED
    BY <1>3, <2>2, BagForms DEF kind, pageAt, At
<1> QED
  BY <1>1, <1>2, <1>3 DEF Shape

LEMMA WhereOthers ==
  ASSUME CursorOK, NEW j \in Jobs, j # "users"
  PROVE  \E n \in Nat :
           /\ pageAt(j) = parsePageToken(n) /\ jobBag(j) = Own(j, n)
           /\ bag[j] # <<>> => bag[j] = Own(j, n)
           /\ bag[j] = <<>> => n = 0
<1>1. CASE bag[j] = <<>>
  <2>1. Push(<<>>, j) = Own(j, 0)
    BY DEF Push, Own, One, At, NoToken
  <2>2. jobBag(j) = Own(j, 0)
    BY <1>1, <2>1 DEF jobBag
  <2> QED
    BY <1>1, <2>2, OwnForm DEF pageAt, At
<1>2. ASSUME NEW n \in Nat, bag[j] = Own(j, n)
      PROVE  jobBag(j) = Own(j, n) /\ pageAt(j) = parsePageToken(n) /\ bag[j] # <<>>
  <2>1. bag[j] # <<>>
    BY <1>2, OwnForm
  <2>2. jobBag(j) = bag[j]
    BY <2>1 DEF jobBag
  <2> QED
    BY <1>2, <2>1, <2>2, OwnForm DEF pageAt, At
<1> QED
  BY <1>1, <1>2 DEF CursorOK, Shape

\* A job that moves on leaves the cursor well formed.
LEMMA CursorMoves ==
  ASSUME CursorOK, NEW j \in todo, NEW b \in Seq(States),
         bag' = [bag EXCEPT ![j] = b],
         todo' = IF b = <<>> THEN todo \ {j} ELSE todo,
         phase' = phase,
         storedGroups \subseteq storedGroups', storedGroups' \subseteq GroupIds,
         Shape(j)'
  PROVE  CursorOK'
<1>1. j \in Jobs
  BY DEF CursorOK, Jobs, Listings
<1>2. \A i \in Jobs \ {j} : bag'[i] = bag[i] /\ (i \in todo => i \in todo')
  BY <1>1 DEF CursorOK
<1>3. bag' \in [Jobs -> Seq(States)] /\ bag'[j] = b /\ (b # <<>> => j \in todo')
  BY <1>1 DEF CursorOK
<1>4. \A i \in Jobs : Shape(i)' /\ (bag'[i] # <<>> => i \in todo')
  <2> SUFFICES ASSUME NEW i \in Jobs PROVE Shape(i)' /\ (bag'[i] # <<>> => i \in todo')
    OBVIOUS
  <2>1. CASE i = j
    BY <1>3, <2>1
  <2>2. CASE i # j
    BY <1>2, <2>2 DEF CursorOK, Shape
  <2> QED
    BY <2>1, <2>2
<1>5. todo' \subseteq todo
  OBVIOUS
<1> QED
  BY <1>3, <1>4, <1>5 DEF CursorOK

\* The users job: from the Access users to the account members to its end.
LEMMA UsersAdvance ==
  ASSUME CursorOK, "users" \in todo, NEW token \in Nat, advance("users", token),
         storedGroups \subseteq storedGroups', storedGroups' \subseteq GroupIds
  PROVE  /\ CursorOK'
         /\ \A g \in Jobs \ {"users"} : bag'[g] = bag[g]
         /\ kind("users") = "access_users" =>
              /\ todo' = todo
              /\ bag'["users"] = IF token = 0 THEN AccountMembers(0) ELSE AccessUsers(token)
         /\ kind("users") # "access_users" =>
              /\ todo' = IF token = 0 THEN todo \ {"users"} ELSE todo
              /\ bag'["users"] = IF token = 0 THEN <<>> ELSE AccountMembers(token)
<1>1. "users" \in Jobs
  BY DEF Jobs, Listings
<1> DEFINE b == NextToken(jobBag("users"), token)
<1>2. /\ bag' = [bag EXCEPT !["users"] = b] /\ phase' = phase
      /\ todo' = IF b = <<>> THEN todo \ {"users"} ELSE todo
  BY DEF advance
<1>3. PICK n \in Nat :
        \/ jobBag("users") = AccessUsers(n) /\ kind("users") = "access_users"
        \/ jobBag("users") = AccountMembers(n) /\ kind("users") = "account_members"
  BY WhereUsers
<1> HIDE DEF b
<1>4. b = IF kind("users") = "access_users"
          THEN IF token = 0 THEN AccountMembers(0) ELSE AccessUsers(token)
          ELSE IF token = 0 THEN <<>> ELSE AccountMembers(token)
  BY <1>3, BagForms DEF b
<1>5. /\ b \in Seq(States)
      /\ b = <<>> <=> kind("users") # "access_users" /\ token = 0
      /\ b = <<>> \/ \E m \in Nat : b \in {AccessUsers(m), AccountMembers(m)}
  BY <1>4, BagForms
<1>6. bag'["users"] = b /\ \A g \in Jobs \ {"users"} : bag'[g] = bag[g]
  BY <1>1, <1>2 DEF CursorOK
<1>7. Shape("users")'
  BY <1>5, <1>6 DEF Shape
<1>8. CursorOK'
  BY <1>2, <1>5, <1>7, CursorMoves
<1> QED
  BY <1>2, <1>4, <1>5, <1>6, <1>8

\* Any other job: page by page to its end.
LEMMA OthersAdvance ==
  ASSUME CursorOK, NEW j \in todo, j # "users", NEW token \in Nat, advance(j, token),
         storedGroups \subseteq storedGroups', storedGroups' \subseteq GroupIds
  PROVE  /\ CursorOK'
         /\ \A g \in Jobs \ {j} : bag'[g] = bag[g]
         /\ bag'[j] = IF token = 0 THEN <<>> ELSE Own(j, token)
         /\ todo' = IF token = 0 THEN todo \ {j} ELSE todo
<1>1. j \in Jobs
  BY DEF CursorOK, Jobs, Listings
<1> DEFINE b == NextToken(jobBag(j), token)
<1>2. /\ bag' = [bag EXCEPT ![j] = b] /\ phase' = phase
      /\ todo' = IF b = <<>> THEN todo \ {j} ELSE todo
  BY DEF advance
<1>3. PICK n \in Nat : jobBag(j) = Own(j, n)
  BY <1>1, WhereOthers
<1> HIDE DEF b
<1>4. b = IF token = 0 THEN <<>> ELSE Own(j, token)
  BY <1>1, <1>3, OwnForm DEF b
<1>5. b \in Seq(States) /\ (b = <<>> <=> token = 0)
  BY <1>1, <1>4, OwnForm
<1>6. bag'[j] = b /\ \A g \in Jobs \ {j} : bag'[g] = bag[g]
  BY <1>1, <1>2 DEF CursorOK
<1>7. Shape(j)'
  BY <1>4, <1>6 DEF Shape
<1>8. CursorOK'
  BY <1>2, <1>5, <1>7, CursorMoves
<1> QED
  BY <1>2, <1>4, <1>5, <1>6, <1>8

\* A phase begins with none of its jobs begun.
LEMMA CursorResets ==
  ASSUME NEW p \in {"before", "resources", "grants", "done", "failed"}, NEW jobs,
         phase' = p, todo' = jobs,
         p \in {"before", "done", "failed"} => jobs = {},
         p = "resources" => jobs \subseteq Listings,
         p = "grants" => jobs \subseteq storedGroups',
         storedGroups' \subseteq GroupIds,
         bag' = unstarted
  PROVE  CursorOK'
<1>1. \A j \in Jobs : bag'[j] = <<>>
  BY DEF unstarted
<1>2. bag' \in [Jobs -> Seq(States)]
  BY DEF unstarted
<1> QED
  BY <1>1, <1>2 DEF CursorOK, Shape

\* With no job left, no bag has pages.
LEMMA NothingBegun ==
  ASSUME CursorOK, todo = {}
  PROVE  bag = unstarted
BY DEF CursorOK, unstarted

(***************************************************************************)
(* Type correctness                                                        *)
(***************************************************************************)

UpstreamOK ==
  /\ style \in Styles /\ accessUsers \in Seq(Addresses)
  /\ DOMAIN groups \subseteq GroupIds /\ Range(groups) \subseteq Groups
  /\ directory \in Seq(Entries) /\ Len(directory) <= MaxMembers
  /\ edits \in 0..MaxEdits /\ accessEdits \in 0..MaxAccessEdits
  /\ groupEdits \in 0..MaxGroupEdits

\* Calls under way are for pages of members.
CallsOK ==
  /\ \A x \in DOMAIN call :
       /\ MembersPage(call[x])
       /\ x = "finder" \/ (x \in todo /\ x \in Jobs /\ listsMembers(x))
  /\ "finder" \in DOMAIN call => finder # Idle

NetworkOK ==
  /\ DOMAIN cache \subseteq Page
  /\ \A p \in DOMAIN cache : MembersPage(cache[p])
  /\ CallsOK
  /\ overwritten \in BOOLEAN

StoreOK ==
  /\ resources \in [Addresses -> {"none", "access", "member"}]
  /\ storedRoles \subseteq ToSet(Roles)
  /\ grants \subseteq storedGroups \X Addresses
  /\ nested \subseteq storedGroups \X GroupIds
  /\ logged \subseteq storedGroups

RestOK ==
  /\ finds \in 0..MaxFinds /\ crashes \in 0..MaxCrashes
  /\ finder = Idle \/ finder \in [user : Addresses, page : Page]
  /\ stayed \subseteq GroupIds
  /\ versions \in [GroupIds -> SUBSET Groups]
  /\ owed \subseteq ToSet(accessUsers)

TypeInv == UpstreamOK /\ NetworkOK /\ CursorOK /\ StoreOK /\ RestOK

LEMMA TypeInvTypes == TypeInv => TypeOK
<1> SUFFICES ASSUME TypeInv PROVE TypeOK
  OBVIOUS
<1>1. \A j \in Jobs : Len(bag[j]) <= IF j = "users" THEN 2 ELSE 1
  <2> SUFFICES ASSUME NEW j \in Jobs PROVE Len(bag[j]) <= IF j = "users" THEN 2 ELSE 1
    OBVIOUS
  <2>1. Shape(j) /\ Len(<<>>) = 0
    BY DEF TypeInv, CursorOK
  <2>2. CASE bag[j] = <<>>
    BY <2>1, <2>2
  <2>3. CASE j = "users" /\ bag[j] # <<>>
    <3>1. PICK n \in Nat : bag[j] \in {AccessUsers(n), AccountMembers(n)}
      BY <2>1, <2>3 DEF Shape
    <3>2. Len(AccessUsers(n)) = 2 /\ Len(AccountMembers(n)) = 1
      BY BagForms
    <3>3. Len(bag[j]) = 2 \/ Len(bag[j]) = 1
      BY <3>1, <3>2
    <3>4. (IF j = "users" THEN 2 ELSE 1) = 2
      BY <2>3
    <3> DEFINE length == Len(bag[j])
    <3>5. length = 2 \/ length = 1
      BY <3>3
    <3> HIDE DEF length
    <3>6. length <= 2
      BY <3>5
    <3> QED
      BY <3>4, <3>6 DEF length
  <2>4. CASE j # "users" /\ bag[j] # <<>>
    <3>1. PICK n \in Nat : bag[j] = Own(j, n)
      BY <2>1, <2>4 DEF Shape
    <3>2. Len(Own(j, n)) = 1
      BY OwnForm
    <3> QED
      BY <2>4, <3>1, <3>2
  <2> QED
    BY <2>2, <2>3, <2>4
<1> QED
  BY <1>1 DEF TypeInv, UpstreamOK, NetworkOK, CallsOK, CursorOK, StoreOK, RestOK, TypeOK

\* Users are addresses.
LEMMA UsersOfType ==
  ASSUME NEW rows \in Seq(Entries)
  PROVE  usersOf(rows) \subseteq Addresses
<1>1. \A i \in DOMAIN rows : rows[i] \in Entries
  OBVIOUS
<1>2. \A e \in Entries : e.user \in Addresses
  BY DEF Entries
<1> QED
  BY <1>1, <1>2 DEF usersOf

LEMMA PageAtType ==
  ASSUME CursorOK, NEW j \in Jobs
  PROVE  pageAt(j) \in Page
<1>1. CASE j = "users"
  BY <1>1, WhereUsers, PageOfToken
<1>2. CASE j # "users"
  BY <1>2, WhereOthers, PageOfToken
<1> QED
  BY <1>1, <1>2

\* A page of members is made of members, cached or not.
LEMMA AnswerType ==
  ASSUME TypeInv, NEW page \in Page
  PROVE  MembersPage(answer(page))
<1>1. CASE page \in DOMAIN cache
  BY <1>1 DEF answer, TypeInv, NetworkOK
<1>2. ASSUME page \notin DOMAIN cache
      PROVE  MembersPage(answer(page))
  <2>1. answer(page).rows = pageOf(directory, page)
    BY <1>2 DEF answer
  <2>2. directory \in Seq(Entries)
    BY DEF TypeInv, UpstreamOK
  <2> QED
    BY <2>1, <2>2, PageOfType DEF MembersPage
<1> QED
  BY <1>1, <1>2

\* A caller that waits for an answer has asked for a page.
LEMMA AskTyped ==
  ASSUME TypeInv, NEW x, NEW page \in Page, ask(x, page),
         x = "finder" \/ (x \in todo /\ x \in Jobs /\ listsMembers(x)),
         x = "finder" => finder # Idle,
         UNCHANGED <<cache, overwritten, cursor, finder>>
  PROVE  NetworkOK'
<1>1. /\ DOMAIN call' = {x} \cup DOMAIN call /\ call'[x] = answer(page)
      /\ \A y \in DOMAIN call \ {x} : call'[y] = call[y]
  BY DEF ask, with
<1>2. \A y \in DOMAIN call' : MembersPage(call'[y])
  BY <1>1, AnswerType DEF TypeInv, NetworkOK, CallsOK, MembersPage
<1>3. \A y : listsMembers(y)' = listsMembers(y)
  BY DEF listsMembers, kind, jobBag, userBag, cursor, Push
<1>4. CallsOK'
  BY <1>1, <1>2, <1>3 DEF TypeInv, NetworkOK, CallsOK, cursor, MembersPage, Idle
<1> QED
  BY <1>4 DEF TypeInv, NetworkOK, MembersPage

\* Calls come to an end, and the rest stand.
LEMMA HangUpTyped ==
  ASSUME TypeInv, NEW gone, hangUp(gone), finder' = finder \/ "finder" \in gone,
         \A x \in DOMAIN call \ gone : x # "finder" =>
           x \in todo' /\ (x = "users" => bag'[x] = bag[x])
  PROVE  CallsOK'
<1>1. DOMAIN call' = DOMAIN call \ gone /\ \A y \in DOMAIN call \ gone : call'[y] = call[y]
  BY DEF hangUp, Restrict
<1>2. \A y \in DOMAIN call' : MembersPage(call'[y])
  BY <1>1 DEF TypeInv, NetworkOK, CallsOK, MembersPage
<1>3. ASSUME NEW x \in DOMAIN call', x # "finder"
      PROVE  x \in todo' /\ x \in Jobs /\ listsMembers(x)'
  <2>1. x \in todo' /\ x \in Jobs /\ listsMembers(x) /\ (x = "users" => bag'[x] = bag[x])
    BY <1>1, <1>3 DEF TypeInv, NetworkOK, CallsOK
  <2>2. CASE x \in GroupIds
    BY <2>1, <2>2 DEF listsMembers
  <2>3. CASE x \notin GroupIds
    <3>1. x = "users" /\ kind("users") = "account_members" /\ bag'["users"] = bag["users"]
      BY <2>1, <2>3 DEF listsMembers
    <3>2. kind("users")' = kind("users")
      BY <3>1 DEF kind, jobBag, userBag, Push
    <3> QED
      BY <2>1, <3>1, <3>2 DEF listsMembers
  <2> QED
    BY <2>1, <2>2, <2>3
<1> QED
  BY <1>1, <1>2, <1>3 DEF TypeInv, NetworkOK, CallsOK, MembersPage, Idle

\* An answer that arrives is cached.
LEMMA ReceiveTyped ==
  ASSUME TypeInv, NEW x \in DOMAIN call, NEW page \in Page, receive(x, page), CallsOK'
  PROVE  NetworkOK'
<1>1. /\ DOMAIN cache' = {page} \cup DOMAIN cache /\ cache'[page] = call[x]
      /\ \A p \in DOMAIN cache \ {page} : cache'[p] = cache[p]
  BY DEF receive, with
<1>2. \A p \in DOMAIN cache' : MembersPage(cache'[p])
  BY <1>1 DEF TypeInv, NetworkOK, CallsOK, MembersPage
<1>3. overwritten' \in BOOLEAN
  BY DEF receive, TypeInv, NetworkOK
<1>4. DOMAIN cache' \subseteq Page
  BY <1>1 DEF TypeInv, NetworkOK
<1> QED
  BY <1>2, <1>3, <1>4 DEF NetworkOK, MembersPage

\* Nested groups are groups.
LEMMA NestedType ==
  ASSUME NEW include \in SUBSET Rules
  PROVE  nestedGroupIDs(include) \subseteq GroupIds
<1> SUFFICES ASSUME NEW rule \in include, isNestedGroupRule(rule), rule.value # Blank
             PROVE  rule.value \in GroupIds
  BY DEF nestedGroupIDs
<1>1. rule \in Rules /\ rule.key = "group" /\ rule.value # Malformed
  BY DEF isNestedGroupRule
<1>2. "group" \notin ContextKeys \cup IdentityKeys
  BY KeyAssumption
<1>3. \A keys, values : rule \in [key : keys, value : values] => "group" \in keys
  BY <1>1
<1>5. NotAnObject.key # "group"
  BY DEF NotAnObject
<1>4. rule \in [key : {"group"}, value : GroupIds \cup {Blank, Malformed}]
  BY <1>1, <1>2, <1>3, <1>5 DEF Rules
<1> QED
  BY <1>1, <1>4

\* A group whose grants are listed is one that was stored.
LEMMA JobsAreStored ==
  ASSUME CursorOK, NEW g \in todo \cap GroupIds
  PROVE  phase = "grants" /\ g \in storedGroups
<1>1. g \notin Listings
  BY SyncAssumption
<1> QED
  BY <1>1 DEF CursorOK

LEMMA StoringTyped ==
  ASSUME TypeInv, NEW jobs \in SUBSET todo, StorePages(jobs),
         \A g \in jobs \cap GroupIds : g \in DOMAIN call
  PROVE  StoreOK' /\ storedGroups \subseteq storedGroups' /\ storedGroups' \subseteq GroupIds
<1> DEFINE there == jobs \cap DOMAIN groups
<1>1. \A g \in there : g \in storedGroups /\ g \in Jobs
  BY JobsAreStored DEF TypeInv, UpstreamOK, Jobs
<1>2. storedGroups \subseteq storedGroups' /\ storedGroups' \subseteq GroupIds
  BY DEF StorePages, groupsOn, TypeInv, UpstreamOK, CursorOK
<1>3. resources' \in [Addresses -> {"none", "access", "member"}]
  BY DEF StorePages, userKind, TypeInv, StoreOK
<1>4. storedRoles' \subseteq ToSet(Roles)
  <2>1. CASE "roles" \in jobs
    <3>1. pageAt("roles") \in Page
      BY PageAtType DEF TypeInv, Jobs, Listings
    <3>2. pageOf(Roles, pageAt("roles")) \in Seq(ToSet(Roles))
      BY <3>1, SyncAssumption, PageOfType
    <3>3. ToSet(pageOf(Roles, pageAt("roles"))) \subseteq ToSet(Roles)
      <4> DEFINE part == pageOf(Roles, pageAt("roles"))
                 all == ToSet(Roles)
      <4> HIDE DEF part, all
      <4>1. part \in Seq(all)
        BY <3>2 DEF part, all
      <4>2. ToSet(part) \subseteq all
        BY <4>1 DEF ToSet
      <4> QED
        BY <4>2 DEF part, all
    <3> QED
      BY <2>1, <3>3 DEF StorePages, TypeInv, StoreOK
  <2>2. CASE "roles" \notin jobs
    BY <2>2 DEF StorePages, TypeInv, StoreOK
  <2> QED
    BY <2>1, <2>2
<1>5. grants' \subseteq storedGroups' \X Addresses
  <2> SUFFICES ASSUME NEW gr \in grants' PROVE gr \in storedGroups' \X Addresses
    OBVIOUS
  <2>1. CASE gr \in grants
    BY <1>2, <2>1 DEF TypeInv, StoreOK
  <2>2. ASSUME NEW g \in there, gr \in granted(g) PROVE gr \in storedGroups' \X Addresses
    <3>1. g \in DOMAIN call
      BY DEF TypeInv, UpstreamOK
    <3>2. usersOf(call[g].rows) \subseteq Addresses
      BY <3>1, UsersOfType DEF TypeInv, NetworkOK, CallsOK, MembersPage
    <3> QED
      BY <1>1, <1>2, <2>2, <3>2 DEF granted
  <2>3. grants' = grants \cup UNION {granted(g) : g \in there}
    BY DEF StorePages
  <2> QED
    BY <2>1, <2>2, <2>3
<1>6. nested' \subseteq storedGroups' \X GroupIds
  <2> SUFFICES ASSUME NEW gn \in nested' PROVE gn \in storedGroups' \X GroupIds
    OBVIOUS
  <2>1. CASE gn \in nested
    BY <1>2, <2>1 DEF TypeInv, StoreOK
  <2>2. ASSUME NEW g \in there, gn \in expandable(g) PROVE gn \in storedGroups' \X GroupIds
    <3>1. groups[g] \in Groups
      BY DEF TypeInv, UpstreamOK, Range
    <3>2. nestedGroupIDs(groups[g].include) \subseteq GroupIds
      BY <3>1, NestedType DEF Groups
    <3>3. gn \in {<<g, n>> : n \in nestedGroupIDs(groups[g].include)}
      BY <2>2 DEF expandable
    <3> QED
      BY <1>1, <1>2, <3>2, <3>3
  <2>3. nested' = nested \cup UNION {expandable(g) : g \in there}
    BY DEF StorePages
  <2> QED
    BY <2>1, <2>2, <2>3
<1>7. logged' \subseteq storedGroups'
  BY <1>1, <1>2 DEF StorePages, TypeInv, StoreOK
<1> QED
  BY <1>2, <1>3, <1>4, <1>5, <1>6, <1>7 DEF StoreOK

\* Steps that leave a part of the state alone leave it typed.
LEMMA UntouchedTyped ==
  ASSUME TypeInv
  PROVE  /\ UNCHANGED upstream => UpstreamOK'
         /\ UNCHANGED <<network, cursor, finder>> => NetworkOK'
         /\ UNCHANGED <<cursor, storedGroups>> => CursorOK'
         /\ UNCHANGED store => StoreOK'
         /\ UNCHANGED <<accessUsers, finding, crashes, history>> => RestOK'
<1>1. UNCHANGED upstream => UpstreamOK'
  BY DEF TypeInv, UpstreamOK, upstream
<1>2. UNCHANGED <<network, cursor, finder>> => NetworkOK'
  BY DEF TypeInv, NetworkOK, CallsOK, MembersPage, Idle, network, cursor, listsMembers, kind,
     jobBag, userBag, Push
<1>3. UNCHANGED <<cursor, storedGroups>> => CursorOK'
  BY DEF TypeInv, CursorOK, cursor, Shape
<1>4. UNCHANGED store => StoreOK'
  BY DEF TypeInv, StoreOK, store
<1>5. UNCHANGED <<accessUsers, finding, crashes, history>> => RestOK'
  BY DEF TypeInv, RestOK, finding, history, Idle, ToSet
<1> QED
  BY <1>1, <1>2, <1>3, <1>4, <1>5

LEMMA TypeInit == Init => TypeInv
<1> SUFFICES ASSUME Init PROVE TypeInv
  OBVIOUS
<1>1. UpstreamOK
  BY SyncAssumption DEF Init, UpstreamOK
<1>2. NetworkOK
  <2>1. DOMAIN cache = {} /\ DOMAIN call = {}
    BY DEF Init
  <2> QED
    BY <2>1 DEF Init, NetworkOK, CallsOK
<1>3. CursorOK
  <2>1. \A j \in Jobs : bag[j] = <<>>
    BY DEF Init, unstarted
  <2>2. bag \in [Jobs -> Seq(States)]
    BY DEF Init, unstarted
  <2> QED
    BY <2>1, <2>2 DEF Init, CursorOK, Shape
<1>4. StoreOK
  BY DEF Init, StoreOK
<1>5. RestOK
  BY SyncAssumption DEF Init, RestOK
<1> QED
  BY <1>1, <1>2, <1>3, <1>4, <1>5 DEF TypeInv

\* An element more, or one less, of a list.
LEMMA Inserted ==
  ASSUME NEW S, NEW list \in Seq(S), NEW i \in 1..Len(list) + 1, NEW a \in S
  PROVE  /\ InsertAt(list, i, a) \in Seq(S)
         /\ Len(InsertAt(list, i, a)) = Len(list) + 1
         /\ \A m \in DOMAIN list :
              InsertAt(list, i, a)[IF m < i THEN m ELSE m + 1] = list[m]
<1> DEFINE before == SubSeq(list, 1, i - 1)
           after  == SubSeq(list, i, Len(list))
<1>1. Len(list) \in Nat /\ i \in 1..Len(list) + 1 /\ DOMAIN list = 1..Len(list)
  OBVIOUS
<1>2. /\ before \in Seq(S) /\ Len(before) = i - 1
      /\ \A m \in 1..i - 1 : before[m] = list[m]
  BY <1>1
<1>3. /\ after \in Seq(S) /\ Len(after) = Len(list) - i + 1
      /\ \A m \in 1..Len(list) - i + 1 : after[m] = list[i + m - 1]
  BY <1>1
<1>4. InsertAt(list, i, a) = (before \o <<a>>) \o after
  BY DEF InsertAt
<1> HIDE DEF before, after
<1>5. /\ before \o <<a>> \in Seq(S) /\ Len(before \o <<a>>) = i
      /\ \A m \in 1..i - 1 : (before \o <<a>>)[m] = before[m]
  <2>1. /\ <<a>> \in Seq(S) /\ Len(<<a>>) = 1
    OBVIOUS
  <2>2. /\ before \o <<a>> \in Seq(S) /\ Len(before \o <<a>>) = Len(before) + Len(<<a>>)
        /\ \A m \in 1..Len(before) + Len(<<a>>) :
             (before \o <<a>>)[m] = IF m <= Len(before) THEN before[m] ELSE <<a>>[m - Len(before)]
    BY <1>2, <2>1, ConcatProperties
  <2> QED
    BY <1>1, <1>2, <2>1, <2>2
<1> DEFINE front == before \o <<a>>
<1>6. front \in Seq(S) /\ Len(front) = i /\ \A m \in 1..i - 1 : front[m] = list[m]
  BY <1>2, <1>5
<1> HIDE DEF front
<1>7. /\ front \o after \in Seq(S) /\ Len(front \o after) = i + (Len(list) - i + 1)
      /\ \A m \in 1..i + (Len(list) - i + 1) :
           (front \o after)[m] = IF m <= i THEN front[m] ELSE after[m - i]
  BY <1>3, <1>6, ConcatProperties
<1>8. ASSUME NEW m \in DOMAIN list
      PROVE  (front \o after)[IF m < i THEN m ELSE m + 1] = list[m]
  <2>1. CASE m < i
    BY <1>1, <1>6, <1>7, <2>1
  <2>2. CASE i <= m
    <3>0. m + 1 \in 1..i + (Len(list) - i + 1) /\ ~(m + 1 <= i)
      BY <1>1, <2>2
    <3>1. (front \o after)[m + 1] = after[m + 1 - i]
      BY <1>7, <3>0
    <3>2. m + 1 - i \in 1..Len(list) - i + 1 /\ i + (m + 1 - i) - 1 = m
      BY <1>1, <2>2
    <3>3. after[m + 1 - i] = list[m]
      BY <1>3, <3>2
    <3>4. (IF m < i THEN m ELSE m + 1) = m + 1
      BY <1>1, <2>2
    <3> QED
      BY <3>1, <3>3, <3>4
  <2>3. m < i \/ i <= m
    BY <1>1
  <2> QED
    BY <2>1, <2>2, <2>3
<1>9. InsertAt(list, i, a) = front \o after
  BY <1>4 DEF front
<1> QED
  BY <1>1, <1>7, <1>8, <1>9

LEMMA Removed ==
  ASSUME NEW S, NEW list \in Seq(S), NEW i \in DOMAIN list
  PROVE  RemoveAt(list, i) \in Seq(S) /\ Len(RemoveAt(list, i)) = Len(list) - 1
<1>1. i \in 1..Len(list) /\ Len(list) \in Nat
  OBVIOUS
<1>2. /\ SubSeq(list, 1, i - 1) \in Seq(S)
      /\ Len(SubSeq(list, 1, i - 1)) = i - 1
  BY <1>1
<1>3. /\ SubSeq(list, i + 1, Len(list)) \in Seq(S)
      /\ Len(SubSeq(list, i + 1, Len(list))) = Len(list) - i
  BY <1>1
<1>4. RemoveAt(list, i) = SubSeq(list, 1, i - 1) \o SubSeq(list, i + 1, Len(list))
  BY DEF RemoveAt
<1>5. /\ RemoveAt(list, i) \in Seq(S)
      /\ Len(RemoveAt(list, i)) = (i - 1) + (Len(list) - i)
  BY <1>2, <1>3, <1>4, ConcatProperties
<1> QED
  BY <1>1, <1>5

\* Edits of members keep a list of members.
LEMMA EditMembersTyped ==
  ASSUME TypeInv, EditMembers
  PROVE  TypeInv'
<1>1. /\ directory \in Seq(Entries) /\ Len(directory) <= MaxMembers
      /\ Len(directory) \in Nat /\ MaxMembers \in Nat /\ MaxEdits \in Nat
      /\ edits \in 0..MaxEdits
  BY SyncAssumption DEF TypeInv, UpstreamOK
<1>2. directory' \in Seq(Entries) /\ Len(directory') <= MaxMembers
  <2>1. ASSUME Len(directory) < MaxMembers, NEW e \in Entries, directory' = Append(directory, e)
        PROVE  directory' \in Seq(Entries) /\ Len(directory') <= MaxMembers
    BY <1>1, <2>1, AppendProperties
  <2>2. ASSUME NEW i \in DOMAIN directory, directory' = [directory EXCEPT ![i].pending = FALSE]
        PROVE  directory' \in Seq(Entries) /\ Len(directory') <= MaxMembers
    <3> DEFINE e == [directory[i] EXCEPT !.pending = FALSE]
    <3>1. directory[i] \in Entries
      BY <1>1
    <3>2. e \in Entries /\ directory' = [directory EXCEPT ![i] = e]
      BY <2>2, <3>1 DEF Entries
    <3> HIDE DEF e
    <3> QED
      BY <1>1, <3>2
  <2>3. ASSUME NEW i \in DOMAIN directory, directory' = RemoveAt(directory, i)
        PROVE  directory' \in Seq(Entries) /\ Len(directory') <= MaxMembers
    BY <1>1, <2>3, Removed
  <2> QED
    BY <2>1, <2>2, <2>3 DEF EditMembers
<1>3. UpstreamOK'
  BY <1>1, <1>2 DEF EditMembers, TypeInv, UpstreamOK
<1>4. RestOK'
  BY UntouchedTyped DEF EditMembers
<1>5. NetworkOK' /\ CursorOK' /\ StoreOK'
  BY UntouchedTyped DEF EditMembers, store, finding
<1> QED
  BY <1>3, <1>4, <1>5 DEF TypeInv

\* Edits of Access users keep a list of them, with those that stay.
LEMMA EditAccessTyped ==
  ASSUME TypeInv, EditAccessUsers
  PROVE  TypeInv'
<1>1. /\ accessUsers \in Seq(Addresses) /\ MaxAccessEdits \in Nat
      /\ accessEdits \in 0..MaxAccessEdits
  BY SyncAssumption DEF TypeInv, UpstreamOK
<1>2. accessUsers' \in Seq(Addresses) /\ owed' \subseteq ToSet(accessUsers')
  <2>1. ASSUME NEW a \in Addresses, NEW i \in 1..Len(accessUsers) + 1,
               accessUsers' = InsertAt(accessUsers, i, a), owed' = owed
        PROVE  accessUsers' \in Seq(Addresses) /\ owed' \subseteq ToSet(accessUsers')
    <3>1. /\ accessUsers' \in Seq(Addresses) /\ Len(accessUsers') = Len(accessUsers) + 1
          /\ \A m \in DOMAIN accessUsers :
               accessUsers'[IF m < i THEN m ELSE m + 1] = accessUsers[m]
      BY <1>1, <2>1, Inserted
    <3>2. \A m \in DOMAIN accessUsers : (IF m < i THEN m ELSE m + 1) \in DOMAIN accessUsers'
      BY <1>1, <3>1
    <3>3. ToSet(accessUsers) \subseteq ToSet(accessUsers')
      BY <3>1, <3>2 DEF ToSet
    <3> QED
      BY <2>1, <3>1, <3>3 DEF TypeInv, RestOK
  <2>2. ASSUME NEW i \in DOMAIN accessUsers, accessUsers' = RemoveAt(accessUsers, i), owed' = {}
        PROVE  accessUsers' \in Seq(Addresses) /\ owed' \subseteq ToSet(accessUsers')
    BY <1>1, <2>2, Removed
  <2> QED
    BY <2>1, <2>2 DEF EditAccessUsers
<1>3. UpstreamOK'
  BY <1>1, <1>2 DEF EditAccessUsers, TypeInv, UpstreamOK
<1>4. RestOK'
  BY <1>2 DEF EditAccessUsers, TypeInv, RestOK, finding, Idle
<1>5. NetworkOK' /\ CursorOK' /\ StoreOK'
  BY UntouchedTyped DEF EditAccessUsers, store, finding
<1> QED
  BY <1>3, <1>4, <1>5 DEF TypeInv

LEMMA EditGroupTyped ==
  ASSUME TypeInv, NEW g \in GroupIds, EditGroup(g)
  PROVE  TypeInv'
<1>1. /\ DOMAIN groups \subseteq GroupIds /\ \A h \in DOMAIN groups : groups[h] \in Groups
      /\ GroupVersions \subseteq Groups /\ MaxGroupEdits \in Nat
      /\ groupEdits \in 0..MaxGroupEdits /\ versions \in [GroupIds -> SUBSET Groups]
      /\ stayed \subseteq GroupIds
  BY SyncAssumption DEF TypeInv, UpstreamOK, RestOK, Range
<1>2. /\ DOMAIN groups' \subseteq GroupIds /\ Range(groups') \subseteq Groups
      /\ versions' \in [GroupIds -> SUBSET Groups]
      /\ stayed' \subseteq GroupIds
  <2>1. ASSUME NEW v \in GroupVersions,
               groups' = with(groups, g, v),
               versions' = [versions EXCEPT ![g] = @ \cup {v}], UNCHANGED stayed
        PROVE  /\ DOMAIN groups' \subseteq GroupIds /\ Range(groups') \subseteq Groups
               /\ versions' \in [GroupIds -> SUBSET Groups]
               /\ stayed' \subseteq GroupIds
    <3>1. DOMAIN groups' = {g} \cup DOMAIN groups /\ \A h \in DOMAIN groups' : groups'[h] \in Groups
      BY <1>1, <2>1 DEF with
    <3>2. versions' \in [GroupIds -> SUBSET Groups]
      BY <1>1, <2>1
    <3> QED
      BY <1>1, <2>1, <3>1, <3>2 DEF Range
  <2> QED
    BY <1>1, <2>1 DEF EditGroup, Range, Restrict
<1>3. UpstreamOK'
  BY <1>1, <1>2 DEF EditGroup, TypeInv, UpstreamOK
<1>4. RestOK'
  BY <1>2 DEF EditGroup, TypeInv, RestOK, finding, Idle
<1>5. NetworkOK' /\ CursorOK' /\ StoreOK'
  BY UntouchedTyped DEF EditGroup, store, finding
<1> QED
  BY <1>3, <1>4, <1>5 DEF TypeInv

\* The syncer's steps, but for those that store pages.
LEMMA PlanningTyped ==
  ASSUME TypeInv, Begin \/ PlanGrants \/ Finish
  PROVE  TypeInv'
<1>0. todo = {}
  BY DEF Begin, PlanGrants, Finish, TypeInv, CursorOK
<1>1. UpstreamOK' /\ StoreOK'
  BY UntouchedTyped DEF Begin, PlanGrants, Finish
<1>9. NetworkOK'
  BY <1>0 DEF Begin, PlanGrants, Finish, network, finding, TypeInv, NetworkOK, CallsOK,
     MembersPage, Idle
<1>2. RestOK'
  <2>1. CASE Begin
    <3>1. versions' \in [GroupIds -> SUBSET Groups]
      BY <2>1 DEF Begin, TypeInv, UpstreamOK, Range
    <3>2. owed' = ToSet(accessUsers')
      BY <2>1 DEF Begin, upstream, ToSet
    <3> QED
      BY <2>1, <3>1, <3>2 DEF Begin, finding, TypeInv, UpstreamOK, RestOK, Idle
  <2> QED
    BY <2>1, UntouchedTyped DEF PlanGrants, Finish, upstream
<1>3. bag = unstarted /\ bag' = bag /\ storedGroups' = storedGroups
  BY NothingBegun DEF TypeInv, CursorOK, Begin, PlanGrants, Finish, store
<1>4. storedGroups' \subseteq GroupIds
  BY <1>3 DEF TypeInv, CursorOK
<1>5. CASE Begin
  <2>1. phase' = "resources" /\ todo' = Listings
    BY <1>5 DEF Begin
  <2> QED
    BY <1>1, <1>2, <1>3, <1>4, <1>9, <2>1, CursorResets DEF TypeInv
<1>6. CASE PlanGrants
  <2>1. phase' = "grants" /\ todo' = storedGroups
    BY <1>6 DEF PlanGrants
  <2> QED
    BY <1>1, <1>2, <1>3, <1>4, <1>9, <2>1, CursorResets DEF TypeInv
<1>7. CASE Finish
  <2>1. phase' = "done" /\ todo' = {}
    BY <1>7 DEF Finish
  <2> QED
    BY <1>1, <1>2, <1>3, <1>4, <1>9, <2>1, CursorResets DEF TypeInv
<1> QED
  BY <1>5, <1>6, <1>7

\* Tokens are page numbers.
LEMMA NextType ==
  ASSUME NEW page \in Page
  PROVE  /\ \A x : membersNext(x, page) \in {0, page + 1} /\ membersNext(x, page) \in Nat
         /\ \A list : listNext(list, page) \in Nat
         /\ groupsNext(page) \in Nat
BY NextPage DEF membersNext, listNext, groupsNext, Page

\* Only the members are listed by calls that others' answers may overtake.
LEMMA MembersOnly ==
  /\ "groups" \notin GroupIds /\ "roles" \notin GroupIds /\ "users" \notin GroupIds
  /\ "finder" \notin Jobs
  /\ Listings \subseteq Jobs /\ GroupIds \subseteq Jobs
  /\ TypeInv => "groups" \notin DOMAIN call /\ "roles" \notin DOMAIN call
BY SyncAssumption DEF Listings, Jobs, TypeInv, NetworkOK, CallsOK, listsMembers

\* A page of Access users, or of members as it was answered.
LEMMA ListUsersTyped ==
  ASSUME TypeInv, ListUsers
  PROVE  TypeInv'
<1>1. "users" \in todo /\ StorePages({"users"}) /\ pageAt("users") \in Page
  BY MembersOnly, PageAtType DEF ListUsers, mayRun, TypeInv, Listings
<1>2. StoreOK' /\ storedGroups \subseteq storedGroups' /\ storedGroups' \subseteq GroupIds
  BY <1>1, MembersOnly, StoringTyped
<1>3. UpstreamOK' /\ RestOK'
  BY UntouchedTyped DEF ListUsers, upstream
<1>4. CASE kind("users") = "access_users"
  <2>1. PICK token \in Nat : advance("users", token) /\ UNCHANGED network
    BY <1>1, <1>4, NextType DEF ListUsers
  <2>2. /\ CursorOK' /\ todo' = todo
        /\ \A g \in Jobs \ {"users"} : bag'[g] = bag[g]
    BY <1>1, <1>2, <1>4, <2>1, UsersAdvance DEF TypeInv
  <2>3. "users" \notin DOMAIN call
    BY <1>4, MembersOnly DEF TypeInv, NetworkOK, CallsOK, listsMembers
  <2>4. \A x \in DOMAIN call : x = "finder" \/ (x \in todo' /\ x \in Jobs /\ listsMembers(x)')
    BY <2>2, <2>3 DEF TypeInv, NetworkOK, CallsOK, listsMembers
  <2>5. NetworkOK'
    BY <2>1, <2>4 DEF ListUsers, network, finding, TypeInv, NetworkOK, CallsOK, MembersPage, Idle
  <2> QED
    BY <1>2, <1>3, <2>2, <2>5 DEF TypeInv
<1>5. CASE kind("users") # "access_users"
  <2>1. /\ "users" \in DOMAIN call /\ receive("users", pageAt("users"))
        /\ advance("users", membersNext("users", pageAt("users")))
        /\ finder' = finder
    BY <1>5 DEF ListUsers, finding
  <2>2. PICK token \in Nat : advance("users", token)
    BY <1>1, <2>1, NextType
  <2>3. /\ CursorOK' /\ todo \ {"users"} \subseteq todo'
        /\ \A g \in Jobs \ {"users"} : bag'[g] = bag[g]
    BY <1>1, <1>2, <1>5, <2>2, UsersAdvance DEF TypeInv
  <2>4. CallsOK'
    BY <2>1, <2>3, HangUpTyped DEF receive, TypeInv, NetworkOK, CallsOK
  <2>5. NetworkOK'
    BY <1>1, <2>1, <2>4, ReceiveTyped
  <2> QED
    BY <1>2, <1>3, <2>3, <2>5 DEF TypeInv
<1> QED
  BY <1>4, <1>5

LEMMA ListGrantsTyped ==
  ASSUME TypeInv, NEW g \in GroupIds, ListGrants(g)
  PROVE  TypeInv'
<1>1. /\ g \in todo /\ StorePages({g}) /\ g \in Jobs /\ pageAt(g) \in Page /\ g # "users"
      /\ g \in DOMAIN call /\ receive(g, pageAt(g)) /\ finder' = finder
  BY MembersOnly, PageAtType DEF ListGrants, mayRun, TypeInv, finding
<1>2. UpstreamOK' /\ RestOK'
  BY UntouchedTyped DEF ListGrants, upstream
<1>3. StoreOK' /\ storedGroups \subseteq storedGroups' /\ storedGroups' \subseteq GroupIds
  BY <1>1, StoringTyped
<1>4. PICK token \in Nat : advance(g, token)
  BY <1>1, NextType DEF ListGrants
<1>5. /\ CursorOK' /\ todo \ {g} \subseteq todo'
      /\ \A h \in Jobs \ {g} : bag'[h] = bag[h]
  BY <1>1, <1>3, <1>4, OthersAdvance DEF TypeInv
<1>6. CallsOK'
  BY <1>1, <1>5, HangUpTyped DEF receive, TypeInv, NetworkOK, CallsOK
<1>7. NetworkOK'
  BY <1>1, <1>6, ReceiveTyped
<1> QED
  BY <1>2, <1>3, <1>5, <1>7 DEF TypeInv

\* The listings of groups and of roles.
LEMMA CallsTyped ==
  ASSUME TypeInv, ListGroups \/ ListRoles
  PROVE  TypeInv'
<1>1. UpstreamOK' /\ RestOK'
  BY UntouchedTyped DEF ListGroups, ListRoles, upstream
<1>2. ASSUME NEW j \in {"groups", "roles"}, j \in todo, StorePages({j}), NEW token \in Nat,
             advance(j, token)
      PROVE  TypeInv'
  <2>1. StoreOK' /\ storedGroups \subseteq storedGroups' /\ storedGroups' \subseteq GroupIds
    BY <1>2, MembersOnly, StoringTyped
  <2>2. /\ CursorOK' /\ todo \ {j} \subseteq todo'
        /\ \A h \in Jobs \ {j} : bag'[h] = bag[h]
    BY <1>2, <2>1, OthersAdvance DEF TypeInv
  <2>3. \A x : x # j /\ x \in Jobs => listsMembers(x)' = listsMembers(x)
    BY <1>2, <2>2, MembersOnly DEF listsMembers, kind, jobBag, userBag, Push, Listings
  <2>4. network' = network /\ finder' = finder /\ j \notin DOMAIN call
    BY <1>2, MembersOnly DEF ListGroups, ListRoles, finding
  <2>5. NetworkOK'
    BY <2>2, <2>3, <2>4 DEF network, TypeInv, NetworkOK, CallsOK, MembersPage, Idle
  <2> QED
    BY <1>1, <2>1, <2>2, <2>5 DEF TypeInv
<1>3. pageAt("groups") \in Page /\ pageAt("roles") \in Page
  BY MembersOnly, PageAtType DEF TypeInv, Listings
<1>4. CASE ListGroups
  BY <1>2, <1>3, <1>4, NextType DEF ListGroups, mayRun
<1>5. CASE ListRoles
  BY <1>2, <1>3, <1>5, NextType DEF ListRoles, mayRun
<1> QED
  BY <1>4, <1>5

LEMMA SkipTyped ==
  ASSUME TypeInv, NEW g \in GroupIds, SkipGrants(g)
  PROVE  TypeInv'
<1>1. UpstreamOK' /\ StoreOK' /\ RestOK'
  BY UntouchedTyped DEF SkipGrants, upstream
<1>2. CursorOK'
  <2>1. /\ g \in todo /\ bag' = [bag EXCEPT ![g] = <<>>] /\ todo' = todo \ {g} /\ phase' = phase
        /\ storedGroups' = storedGroups /\ storedGroups \subseteq GroupIds
    BY DEF SkipGrants, mayRun, store, TypeInv, CursorOK
  <2>2. Shape(g)'
    BY <2>1 DEF Shape, TypeInv, CursorOK, Jobs
  <2> DEFINE b == <<>>
  <2>3. /\ b \in Seq(States) /\ bag' = [bag EXCEPT ![g] = b]
        /\ todo' = IF b = <<>> THEN todo \ {g} ELSE todo
    BY <2>1
  <2> HIDE DEF b
  <2> QED
    BY <2>1, <2>2, <2>3, CursorMoves DEF TypeInv
<1>3. CallsOK'
  <2>1. /\ hangUp({g}) /\ finder' = finder /\ todo' = todo \ {g}
        /\ bag' = [bag EXCEPT ![g] = <<>>] /\ bag \in [Jobs -> Seq(States)]
    BY DEF SkipGrants, finding, TypeInv, CursorOK
  <2>2. g # "users" /\ "users" \in Jobs
    BY MembersOnly DEF Listings
  <2> QED
    BY <2>1, <2>2, HangUpTyped DEF TypeInv, NetworkOK, CallsOK
<1>4. NetworkOK'
  BY <1>3 DEF SkipGrants, TypeInv, NetworkOK, MembersPage
<1> QED
  BY <1>1, <1>2, <1>4 DEF TypeInv

\* A sync that resumes finds no call of before the crash.
LEMMA CrashTyped ==
  ASSUME TypeInv, Crash
  PROVE  TypeInv'
<1>1. UpstreamOK'
  BY UntouchedTyped DEF Crash
<1>2. NetworkOK'
  BY DEF Crash, TypeInv, NetworkOK, CallsOK
<1>3. RestOK'
  BY SyncAssumption DEF Crash, history, upstream, TypeInv, RestOK, ToSet
<1>4. PICK running \in SUBSET {j \in todo : mayRun(j) /\ (listsMembers(j) => j \in DOMAIN call)} :
        StorePages(running)
  BY DEF Crash
<1>5. StoreOK' /\ storedGroups \subseteq storedGroups' /\ storedGroups' \subseteq GroupIds
  BY <1>4, StoringTyped DEF listsMembers
<1>6. CursorOK'
  <2>1. CASE UNCHANGED cursor
    BY <1>5, <2>1 DEF cursor, TypeInv, CursorOK, Shape
  <2>2. CASE resumeAt("resources", Listings)
    BY <1>5, <2>2, CursorResets DEF resumeAt
  <2>3. CASE resumeAt("grants", storedGroups)
    BY <1>5, <2>3, CursorResets DEF resumeAt
  <2> QED
    BY <2>1, <2>2, <2>3 DEF Crash
<1> QED
  BY <1>1, <1>2, <1>3, <1>5, <1>6 DEF TypeInv

\* A sync that fails leaves nothing stored, and no job with a call.
LEMMA AbortTyped ==
  ASSUME TypeInv, Abort
  PROVE  TypeInv'
<1>1. UpstreamOK' /\ RestOK'
  BY UntouchedTyped DEF Abort, upstream
<1>2. StoreOK'
  BY DEF Abort, StoreOK
<1>3. CursorOK'
  <2>1. phase' = "failed" /\ todo' = {} /\ bag' = unstarted /\ storedGroups' = {}
    BY DEF Abort
  <2> QED
    BY <2>1, CursorResets
<1>4. NetworkOK'
  <2>1. \A x \in DOMAIN call \ Jobs : x = "finder"
    BY DEF TypeInv, NetworkOK, CallsOK
  <2>2. CallsOK'
    BY <2>1, HangUpTyped DEF Abort, finding
  <2> QED
    BY <2>2 DEF Abort, TypeInv, NetworkOK, MembersPage
<1> QED
  BY <1>1, <1>2, <1>3, <1>4 DEF TypeInv

\* Calls that begin, and calls that fail.
LEMMA CallingTyped ==
  ASSUME TypeInv, (\E j \in Jobs : AskMembers(j) \/ CallFails(j)) \/ FindAsks
  PROVE  TypeInv'
<1>1. UpstreamOK' /\ CursorOK' /\ StoreOK' /\ RestOK'
  BY UntouchedTyped DEF AskMembers, CallFails, FindAsks, upstream, store
<1>2. ASSUME NEW j \in Jobs, AskMembers(j) PROVE NetworkOK'
  <2>1. pageAt(j) \in Page /\ j \in todo /\ listsMembers(j) /\ j # "finder"
    BY <1>2, MembersOnly, PageAtType DEF AskMembers, mayRun, TypeInv
  <2> QED
    BY <1>2, <2>1, AskTyped DEF AskMembers, finding
<1>3. ASSUME FindAsks PROVE NetworkOK'
  <2>1. finder.page \in Page
    BY <1>3 DEF FindAsks, TypeInv, RestOK
  <2> QED
    BY <1>3, <2>1, AskTyped DEF FindAsks, finding, TypeInv
<1>4. ASSUME NEW j \in Jobs, CallFails(j) PROVE NetworkOK'
  <2>1. CallsOK'
    BY <1>4, HangUpTyped DEF CallFails, finding, cursor, TypeInv, NetworkOK, CallsOK
  <2> QED
    BY <1>4, <2>1 DEF CallFails, TypeInv, NetworkOK, MembersPage
<1> QED
  BY <1>1, <1>2, <1>3, <1>4 DEF TypeInv

LEMMA CacheStepsTyped ==
  ASSUME TypeInv, Expire \/ StartFind \/ FindPage \/ FindFails
  PROVE  TypeInv'
<1>1. UpstreamOK' /\ CursorOK' /\ StoreOK'
  BY UntouchedTyped DEF Expire, StartFind, FindPage, FindFails, store
<1>2. CASE Expire
  <2>1. CallsOK'
    BY <1>2 DEF Expire, finding, cursor, TypeInv, NetworkOK, CallsOK, MembersPage, Idle,
       listsMembers, kind, jobBag, userBag, Push
  <2>2. NetworkOK'
    BY <1>2, <2>1 DEF Expire, Restrict, TypeInv, NetworkOK, MembersPage
  <2> QED
    BY <1>1, <1>2, <2>2, UntouchedTyped DEF Expire, TypeInv, upstream
<1>3. CASE StartFind
  <2>1. RestOK'
    BY <1>3, SyncAssumption DEF StartFind, upstream, history, TypeInv, RestOK, Page, ToSet
  <2>2. finder = Idle /\ finder' # Idle
    <3>1. Blank \notin Addresses
      BY FoldAssumption
    <3> QED
      BY <1>3, <3>1, SyncAssumption DEF StartFind, Idle, Page
  <2>3. NetworkOK'
    BY <1>3, <2>2 DEF StartFind, network, cursor, TypeInv, NetworkOK, CallsOK, MembersPage,
       listsMembers, kind, jobBag, userBag, Push
  <2> QED
    BY <1>1, <2>1, <2>3 DEF TypeInv
<1>4. CASE FindPage \/ FindFails
  <2>1. /\ "finder" \in DOMAIN call /\ finder \in [user : Addresses, page : Page]
        /\ finder.page \in Page /\ hangUp({"finder"})
    BY <1>4 DEF FindPage, FindFails, receive, TypeInv, NetworkOK, CallsOK, RestOK
  <2>2. membersNext("finder", finder.page) # NoToken => membersNext("finder", finder.page) \in Page
    BY <2>1, NextType DEF NoToken, Page
  <2>3. finder' = Idle \/ finder' \in [user : Addresses, page : Page]
    BY <1>4, <2>1, <2>2 DEF FindPage, FindFails, Page
  <2>4. RestOK'
    BY <1>4, <2>3 DEF FindPage, FindFails, upstream, history, TypeInv, RestOK, ToSet
  <2>5. CallsOK'
    BY <1>4, <2>1, HangUpTyped DEF FindPage, FindFails, cursor, TypeInv, NetworkOK, CallsOK
  <2>6. NetworkOK'
    BY <1>4, <2>1, <2>5, ReceiveTyped
       DEF FindPage, FindFails, TypeInv, NetworkOK, MembersPage
  <2> QED
    BY <1>1, <2>4, <2>6 DEF TypeInv
<1> QED
  BY <1>2, <1>3, <1>4

\* Every step of the sync, of searches, crashes and administrators.
LEMMA TypeStep == TypeInv /\ [Next]_vars => TypeInv'
<1> SUFFICES ASSUME TypeInv, [Next]_vars PROVE TypeInv'
  OBVIOUS
<1>1. CASE Sync
  BY <1>1, PlanningTyped, ListUsersTyped, ListGrantsTyped, CallsTyped, SkipTyped, CallingTyped
     DEF Sync
<1>2. CASE Crash \/ Abort \/ Expire \/ StartFind \/ FindAsks \/ FindPage \/ FindFails
  BY <1>2, CrashTyped, AbortTyped, CacheStepsTyped, CallingTyped
<1>3. CASE EditMembers \/ EditAccessUsers
  BY <1>3, EditMembersTyped, EditAccessTyped
<1>4. ASSUME NEW g \in GroupIds, EditGroup(g) PROVE TypeInv'
  BY <1>4, EditGroupTyped
<1>5. ASSUME NEW j \in Jobs, CallFails(j) PROVE TypeInv'
  BY <1>5, CallingTyped
<1>6. CASE UNCHANGED vars
  BY <1>6, UntouchedTyped DEF vars, store, upstream, network, finding, TypeInv
<1> QED
  BY <1>1, <1>2, <1>3, <1>4, <1>5, <1>6 DEF Next

\* The state of a sync keeps its types, page bags and cached pages included,
\* whatever the sizes of pages and listings and wherever it is interrupted.
THEOREM SyncTypeCorrect == Spec => []TypeOK
<1>1. Spec => []TypeInv
  BY TypeInit, TypeStep, PTL DEF Spec
<1> QED
  BY <1>1, TypeInvTypes, PTL

(***************************************************************************)
(* Grants are given by a version of their group                            *)
(***************************************************************************)

\* What a group is now is one of its versions since the sync began.
VersionsInv ==
  /\ phase = "before" => grants = {} /\ nested = {}
  /\ phase # "before" => \A g \in DOMAIN groups : groups[g] \in versions[g]
  /\ GrantsWereGiven

\* The pages that are stored are matched against what the group is now.
LEMMA StoredAreGiven ==
  ASSUME TypeInv, VersionsInv, NEW jobs \in SUBSET todo, StorePages(jobs), versions' = versions
  PROVE  GrantsWereGiven'
<1>1. phase # "before" \/ jobs = {}
  BY DEF TypeInv, CursorOK
<1> DEFINE there == jobs \cap DOMAIN groups
<1>2. \A g \in there : groups[g] \in versions[g]
  BY <1>1 DEF VersionsInv
<1>3. ASSUME NEW gr \in grants' PROVE \E v \in versions[gr[1]] : lets(v, gr[2])
  <2>1. ASSUME NEW g \in there, gr \in granted(g) PROVE \E v \in versions[gr[1]] : lets(v, gr[2])
    <3>1. PICK u : gr = <<g, u>> /\ isMember(groups[g], groups[g].include, u)
      BY <2>1 DEF granted
    <3>2. lets(groups[g], u) /\ gr[1] = g /\ gr[2] = u
      BY <3>1 DEF lets
    <3> QED
      BY <1>2, <3>2
  <2>2. gr \in grants \/ \E g \in there : gr \in granted(g)
    BY <1>3 DEF StorePages
  <2> QED
    BY <2>1, <2>2 DEF VersionsInv, GrantsWereGiven
<1>4. ASSUME NEW gn \in nested' PROVE \E v \in versions[gn[1]] : expands(v, gn[2])
  <2>1. ASSUME NEW g \in there, gn \in expandable(g)
        PROVE  \E v \in versions[gn[1]] : expands(v, gn[2])
    <3>1. PICK n : /\ gn = <<g, n>> /\ n \in nestedGroupIDs(groups[g].include)
                   /\ ~restrictsNestedExpansion(groups[g])
      BY <2>1 DEF expandable
    <3>2. expands(groups[g], n) /\ gn[1] = g /\ gn[2] = n
      BY <3>1 DEF expands
    <3> QED
      BY <1>2, <3>2
  <2>2. gn \in nested \/ \E g \in there : gn \in expandable(g)
    BY <1>4 DEF StorePages
  <2> QED
    BY <2>1, <2>2 DEF VersionsInv, GrantsWereGiven
<1> QED
  BY <1>3, <1>4 DEF GrantsWereGiven

LEMMA VersionsStep ==
  ASSUME TypeInv, VersionsInv, [Next]_vars
  PROVE  VersionsInv'
<1>1. ASSUME UNCHANGED <<groups, versions>>, phase' # "before", phase # "before",
             GrantsWereGiven'
      PROVE  VersionsInv'
  BY <1>1 DEF VersionsInv
<1>2. ASSUME UNCHANGED <<groups, versions, phase, grants, nested>> PROVE VersionsInv'
  BY <1>2 DEF VersionsInv, GrantsWereGiven
<1>3. CASE Begin
  <2>1. phase = "before" /\ phase' = "resources" /\ groups' = groups /\ grants' = grants /\ nested' = nested
    BY <1>3 DEF Begin, upstream, store
  <2>2. \A g \in DOMAIN groups' : groups'[g] \in versions'[g]
    BY <1>3, <2>1 DEF Begin, TypeInv, UpstreamOK
  <2> QED
    BY <2>1, <2>2 DEF VersionsInv, GrantsWereGiven
<1>4. ASSUME NEW jobs \in SUBSET todo, jobs # {}, StorePages(jobs),
             UNCHANGED <<groups, versions>>, phase' # "before"
      PROVE  VersionsInv'
  <2>1. phase # "before"
    BY <1>4 DEF TypeInv, CursorOK
  <2> QED
    BY <1>1, <1>4, <2>1, StoredAreGiven
<1>5. ASSUME NEW j \in todo, StorePages({j}), UNCHANGED <<groups, versions, phase>>
      PROVE  VersionsInv'
  <2>1. phase # "before"
    BY DEF TypeInv, CursorOK
  <2> QED
    BY <1>4, <1>5, <2>1
<1>6. CASE ListUsers \/ ListGroups \/ ListRoles \/ \E g \in GroupIds : ListGrants(g)
  BY <1>5, <1>6 DEF ListUsers, ListGroups, ListRoles, ListGrants, mayRun, advance, upstream, history
<1>7. CASE PlanGrants \/ Finish
  <2>1. phase # "before" /\ phase' # "before" /\ UNCHANGED <<groups, versions, grants, nested>>
    BY <1>7 DEF PlanGrants, Finish, upstream, store, history
  <2>2. GrantsWereGiven'
    BY <2>1 DEF VersionsInv, GrantsWereGiven
  <2> QED
    BY <1>1, <2>1, <2>2
<1>8. ASSUME NEW g \in GroupIds, SkipGrants(g) PROVE VersionsInv'
  BY <1>2, <1>8 DEF SkipGrants, upstream, store, history
<1>9. CASE Crash
  <2>1. PICK running \in SUBSET todo : StorePages(running)
    BY <1>9 DEF Crash
  <2>2. phase # "before" /\ phase' # "before" /\ UNCHANGED <<groups, versions>>
    BY <1>9 DEF Crash, upstream, history, cursor, resumeAt
  <2> QED
    BY <1>1, <2>1, <2>2, StoredAreGiven
<1>10. CASE Expire \/ StartFind \/ FindAsks \/ FindPage \/ FindFails
            \/ EditMembers \/ EditAccessUsers \/ UNCHANGED vars
  BY <1>2, <1>10 DEF Expire, StartFind, FindAsks, FindPage, FindFails, EditMembers, EditAccessUsers,
     vars, upstream, store, cursor, history
<1>12. ASSUME NEW j \in Jobs, AskMembers(j) \/ CallFails(j) PROVE VersionsInv'
  BY <1>2, <1>12 DEF AskMembers, CallFails, upstream, store, cursor, history
<1>13. CASE Abort
  <2>1. phase # "before" /\ phase' # "before" /\ UNCHANGED <<groups, versions>>
    BY <1>13 DEF Abort, upstream, history, TypeInv, CursorOK
  <2>2. GrantsWereGiven'
    BY <1>13 DEF Abort, GrantsWereGiven
  <2> QED
    BY <1>1, <2>1, <2>2
<1>11. ASSUME NEW g \in GroupIds, EditGroup(g) PROVE VersionsInv'
  <2>1. phase # "before" /\ UNCHANGED <<phase, grants, nested>>
    BY <1>11 DEF EditGroup, cursor, store
  <2>2. \A h \in GroupIds : versions[h] \subseteq versions'[h]
    BY <1>11 DEF EditGroup, TypeInv, RestOK
  <2>3. GrantsWereGiven'
    <3>1. /\ \A gr \in grants : gr[1] \in GroupIds
          /\ \A gn \in nested : gn[1] \in GroupIds
      BY DEF TypeInv, StoreOK, CursorOK
    <3> QED
      BY <2>1, <2>2, <3>1 DEF VersionsInv, GrantsWereGiven
  <2>4. \A h \in DOMAIN groups' : groups'[h] \in versions'[h]
    BY <1>11, <2>1 DEF EditGroup, VersionsInv, TypeInv, UpstreamOK, RestOK, Restrict, with
  <2> QED
    BY <2>1, <2>3, <2>4 DEF VersionsInv
<1> QED
  BY <1>3, <1>6, <1>7, <1>8, <1>9, <1>10, <1>11, <1>12, <1>13 DEF Next, Sync

\* However groups change between their pages and wherever a sync stops and
\* resumes, a grant and an expandable grant are ones that the group's rules
\* gave at some time of the sync.
THEOREM GrantsComeFromRules == Spec => []GrantsWereGiven
<1>1. Spec => []TypeInv
  BY TypeInit, TypeStep, PTL DEF Spec
<1>2. Init => VersionsInv
  BY DEF Init, VersionsInv, GrantsWereGiven
<1>3. TypeInv /\ VersionsInv /\ [Next]_vars => VersionsInv'
  BY VersionsStep
<1>4. VersionsInv => GrantsWereGiven
  BY DEF VersionsInv
<1> QED
  BY <1>1, <1>2, <1>3, <1>4, PTL DEF Spec

(***************************************************************************)
(* Grants name users the sync has a resource for, while the cache lasts    *)
(***************************************************************************)

\* No page of members leaves the cache during the sync.
CacheLasts == Expiry = FALSE /\ MaxCrashes = 0

\* The page is cached and its users have resources.
Covered(p) == p \in DOMAIN cache /\ \A u \in usersOf(cache[p].rows) : resources[u] # "none"

\* The page that follows a cached one, as its answer has it.
cachedNext(p) == nextPageToken(p, cache[p].info, Len(cache[p].rows))

\* Cached pages lead from the first one to k, where the listing ends, and
\* the listings of grants have not left them.
ListedUpTo(k) ==
  /\ \A p \in Page : p <= k => Covered(p) /\ cachedNext(p) = IF p = k THEN 0 ELSE p + 1
  /\ \A g \in GroupIds, n \in Nat : bag[g] = Own(g, n) => parsePageToken(n) <= k

PagesInv ==
  ~overwritten =>
    /\ phase = "resources" /\ "users" \in todo =>
         \A n \in Nat, p \in Page :
           bag["users"] = AccountMembers(n) /\ p < parsePageToken(n)
             => Covered(p) /\ cachedNext(p) = p + 1
    /\ phase = "grants" \/ (phase = "resources" /\ "users" \notin todo) =>
         \E k \in Page : ListedUpTo(k)
    /\ \A gr \in grants : resources[gr[2]] # "none"

\* Bags in different places differ.
LEMMA FormsDiffer ==
  /\ \A m, n \in Nat : AccountMembers(m) = AccountMembers(n) => m = n
  /\ \A m, n \in Nat : AccountMembers(m) # AccessUsers(n)
  /\ \A j \in Jobs, m, n \in Nat : Own(j, m) = Own(j, n) => m = n
  /\ \A j \in Jobs, n \in Nat : Own(j, n) # <<>> /\ AccountMembers(n) # <<>>
<1>1. ASSUME NEW m \in Nat, NEW n \in Nat
      PROVE  /\ AccountMembers(m) = AccountMembers(n) => m = n
             /\ AccountMembers(m) # AccessUsers(n)
  <2>1. /\ Last(AccountMembers(m)) = At("account_members", m)
        /\ Last(AccountMembers(n)) = At("account_members", n)
        /\ Last(AccessUsers(n)) = At("access_users", n)
    BY BagForms
  <2>2. /\ At("account_members", m) = At("account_members", n) => m = n
        /\ At("account_members", m) # At("access_users", n)
    BY DEF At
  <2> QED
    BY <2>1, <2>2
<1>2. ASSUME NEW j \in Jobs, NEW m \in Nat, NEW n \in Nat, Own(j, m) = Own(j, n) PROVE m = n
  <2>1. Last(Own(j, m)) = At(j, m) /\ Last(Own(j, n)) = At(j, n)
    BY OwnForm
  <2>2. At(j, m) = At(j, n) => m = n
    BY DEF At
  <2> QED
    BY <1>2, <2>1, <2>2
<1> QED
  BY <1>1, <1>2, BagForms, OwnForm

\* Pages that stay cached stay covered while no resource is dropped.
LEMMA CoveredStays ==
  ASSUME TypeInv, NEW p \in Page, Covered(p),
         p \in DOMAIN cache' /\ cache'[p] = cache[p],
         \A a \in Addresses : resources[a] # "none" => resources'[a] # "none"
  PROVE  Covered(p)' /\ cachedNext(p)' = cachedNext(p)
<1>1. usersOf(cache[p].rows) \subseteq Addresses
  BY UsersOfType DEF TypeInv, NetworkOK, MembersPage, Covered
<1>2. Covered(p)'
  BY <1>1 DEF Covered, usersOf
<1> QED
  BY <1>2 DEF cachedNext, nextPageToken, totalPages

\* An answer that replaces none leaves the cached pages as they are.
LEMMA ReceiveExtends ==
  ASSUME NEW x, NEW page, receive(x, page), ~overwritten'
  PROVE  /\ ~overwritten
         /\ \A p \in DOMAIN cache : p \in DOMAIN cache' /\ cache'[p] = cache[p]
         /\ page \in DOMAIN cache' /\ cache'[page] = call[x]
BY DEF receive, with

\* Storing pages drops no resource, and gives one to every user listed.
LEMMA ResourcesGrow ==
  ASSUME TypeInv, NEW jobs, StorePages(jobs)
  PROVE  /\ \A a \in Addresses : resources[a] # "none" => resources'[a] # "none"
         /\ "users" \in jobs => \A a \in Addresses \cap usersListed : resources'[a] = userKind
         /\ "users" \notin jobs => resources' = resources
<1>1. userKind # "none"
  BY DEF userKind
<1>2. resources = [a \in Addresses |-> resources[a]]
  BY DEF TypeInv, StoreOK
<1> QED
  BY <1>1, <1>2 DEF StorePages

\* Steps that touch neither the cursor of users nor that of grants.
LEMMA PagesSteady ==
  ASSUME TypeInv, PagesInv,
         ~overwritten' =>
           /\ ~overwritten
           /\ \A p \in DOMAIN cache : p \in DOMAIN cache' /\ cache'[p] = cache[p],
         UNCHANGED <<resources, grants>>,
         phase' = phase, "users" \in todo' <=> "users" \in todo,
         bag'["users"] = bag["users"], \A g \in GroupIds : bag'[g] = bag[g] \/ bag'[g] = <<>>
  PROVE  PagesInv'
<1> SUFFICES ASSUME ~overwritten' PROVE PagesInv'
  BY DEF PagesInv
<1>1. \A p \in Page : Covered(p) => Covered(p)' /\ cachedNext(p)' = cachedNext(p)
  <2> SUFFICES ASSUME NEW p \in Page, Covered(p)
               PROVE  Covered(p)' /\ cachedNext(p)' = cachedNext(p)
    OBVIOUS
  <2>1. p \in DOMAIN cache
    BY DEF Covered
  <2> QED
    BY <2>1, CoveredStays
<1>2. \A k \in Page : ListedUpTo(k) => ListedUpTo(k)'
  <2> SUFFICES ASSUME NEW k \in Page, ListedUpTo(k) PROVE ListedUpTo(k)'
    OBVIOUS
  <2>1. \A p \in Page : p <= k => Covered(p)' /\ cachedNext(p)' = IF p = k THEN 0 ELSE p + 1
    BY <1>1 DEF ListedUpTo
  <2>2. \A g \in GroupIds, n \in Nat : bag'[g] = Own(g, n) => parsePageToken(n) <= k
    BY FormsDiffer DEF ListedUpTo, Jobs
  <2> QED
    BY <2>1, <2>2 DEF ListedUpTo, Own, parsePageToken
<1> QED
  BY <1>1, <1>2 DEF PagesInv, AccountMembers, parsePageToken

\* A call of the users job: it covers the page it lists.
LEMMA ListUsersCovers ==
  ASSUME TypeInv, PagesInv, ListUsers
  PROVE  PagesInv'
<1>1. /\ phase = "resources" /\ phase' = phase /\ "users" \in todo /\ grants' = grants
      /\ StorePages({"users"})
  <2>1. "users" \notin GroupIds /\ "users" \in todo
    BY MembersOnly DEF ListUsers, mayRun
  <2>2. phase = "resources"
    BY <2>1 DEF TypeInv, CursorOK
  <2>3. {"users"} \cap DOMAIN groups = {}
    BY <2>1 DEF TypeInv, UpstreamOK
  <2>4. StorePages({"users"}) /\ phase' = phase
    BY DEF ListUsers, advance
  <2>5. grants' = grants
    BY <2>3, <2>4 DEF StorePages
  <2> QED
    BY <2>1, <2>2, <2>4, <2>5
<1>2. \A a \in Addresses : resources[a] # "none" => resources'[a] # "none"
  BY <1>1, ResourcesGrow
<1>3. storedGroups \subseteq storedGroups' /\ storedGroups' \subseteq GroupIds
  BY <1>1, MembersOnly, StoringTyped
<1>4. ~overwritten => \A gr \in grants' : resources'[gr[2]] # "none"
  <2>1. \A gr \in grants : gr[2] \in Addresses
    BY DEF TypeInv, StoreOK
  <2> QED
    BY <1>1, <1>2, <2>1 DEF PagesInv
<1>5. CASE kind("users") = "access_users"
  <2>1. advance("users", listNext(accessUsers, pageAt("users"))) /\ overwritten' = overwritten
    BY <1>5 DEF ListUsers, network
  <2>2. listNext(accessUsers, pageAt("users")) \in Nat
    BY NextType, PageAtType DEF TypeInv, Jobs, Listings
  <2>3. PICK token \in Nat : advance("users", token)
    BY <2>1, <2>2
  <2>4. todo' = todo /\ bag'["users"] = IF token = 0 THEN AccountMembers(0) ELSE AccessUsers(token)
    BY <1>1, <1>3, <1>5, <2>3, UsersAdvance DEF TypeInv
  <2>5. \A n \in Nat : bag'["users"] = AccountMembers(n) => parsePageToken(n) = 1
    BY <2>4, FormsDiffer DEF parsePageToken, NoToken
  <2> QED
    BY <1>1, <1>4, <2>1, <2>4, <2>5 DEF PagesInv, AccountMembers, parsePageToken, Page
<1>6. ASSUME kind("users") # "access_users", ~overwritten'
      PROVE  PagesInv'
  <2>1. PICK n \in Nat : /\ pageAt("users") = parsePageToken(n)
                         /\ bag["users"] = AccountMembers(n)
                         /\ kind("users") = "account_members"
    BY <1>6, WhereUsers DEF TypeInv
  <2>2. PICK q \in Page : q = pageAt("users")
    BY <2>1, PageOfToken
  <2>11. PICK token : token = membersNext("users", q)
    OBVIOUS
  <2>3. advance("users", token) /\ receive("users", q) /\ "users" \in DOMAIN call
    BY <2>1, <2>2, <2>11 DEF ListUsers
  <2>4. /\ \A p \in DOMAIN cache : p \in DOMAIN cache' /\ cache'[p] = cache[p]
        /\ q \in DOMAIN cache' /\ cache'[q] = call["users"]
        /\ ~overwritten
    BY <1>6, <2>3, ReceiveExtends
  <2>5. token \in {0, q + 1} /\ call["users"].rows \in Seq(Entries)
    BY <2>2, <2>3, <2>11, NextType DEF TypeInv, NetworkOK, CallsOK, MembersPage
  <2>6. Covered(q)' /\ cachedNext(q)' = token
    <3>1. usersListed = usersOf(call["users"].rows) /\ userKind # "none"
      BY <2>1, <2>2 DEF usersListed, userKind
    <3>2. \A u \in usersOf(call["users"].rows) : resources'[u] # "none"
      BY <1>1, <2>5, <3>1, ResourcesGrow, UsersOfType
    <3>3. Covered(q)'
      BY <2>4, <3>2 DEF Covered, usersOf
    <3> QED
      BY <2>4, <2>11, <3>3 DEF cachedNext, membersNext, nextPageToken, totalPages
  <2>7. \A p \in Page : p < q => Covered(p)' /\ cachedNext(p)' = p + 1
    <3> SUFFICES ASSUME NEW p \in Page, p < q PROVE Covered(p)' /\ cachedNext(p)' = p + 1
      OBVIOUS
    <3>1. Covered(p) /\ cachedNext(p) = p + 1
      BY <1>1, <2>1, <2>2, <2>4 DEF PagesInv
    <3> QED
      BY <1>2, <2>4, <3>1, CoveredStays DEF Covered
  <2>8. /\ CursorOK'
        /\ \A g \in Jobs \ {"users"} : bag'[g] = bag[g]
        /\ todo' = IF token = 0 THEN todo \ {"users"} ELSE todo
        /\ bag'["users"] = IF token = 0 THEN <<>> ELSE AccountMembers(token)
    <3>1. token \in Nat
      BY <2>2, <2>5 DEF Page
    <3> QED
      BY <1>1, <1>3, <1>6, <2>3, <3>1, UsersAdvance DEF TypeInv
  <2>9. CASE token = 0
    <3>1. ListedUpTo(q)'
      <4>1. \A p \in Page : p <= q => Covered(p)' /\ cachedNext(p)' = IF p = q THEN 0 ELSE p + 1
        BY <2>2, <2>6, <2>7, <2>9 DEF Page
      <4>2. \A g \in GroupIds : bag'[g] = <<>>
        <5>1. \A g \in GroupIds : g \in Jobs /\ g # "users" /\ g \notin Listings
          BY SyncAssumption DEF Jobs, Listings
        <5> QED
          BY <1>1, <2>8, <5>1 DEF TypeInv, CursorOK
      <4>3. \A g \in GroupIds, m \in Nat : bag'[g] = Own(g, m) => parsePageToken(m) <= q
        BY <4>2, FormsDiffer DEF Jobs
      <4> QED
        BY <4>1, <4>3 DEF ListedUpTo, Own, parsePageToken
    <3>2. "users" \notin todo'
      BY <2>8, <2>9
    <3> QED
      BY <1>1, <1>4, <2>2, <2>4, <3>1, <3>2 DEF PagesInv
  <2>10. CASE token = q + 1
    <3>1. token # 0 /\ token \in Nat /\ parsePageToken(token) = q + 1
      BY <2>2, <2>10 DEF Page, parsePageToken, NoToken
    <3>2. todo' = todo /\ bag'["users"] = AccountMembers(token)
      BY <2>8, <3>1
    <3>3. \A p \in Page : p < q + 1 => Covered(p)' /\ cachedNext(p)' = p + 1
      BY <2>2, <2>6, <2>7, <2>10 DEF Page
    <3>4. \A m \in Nat : bag'["users"] = AccountMembers(m) => parsePageToken(m) = q + 1
      BY <3>1, <3>2, FormsDiffer
    <3> QED
      BY <1>1, <1>4, <2>4, <3>2, <3>3, <3>4 DEF PagesInv, AccountMembers, parsePageToken
  <2> QED
    BY <2>5, <2>9, <2>10
<1> QED
  BY <1>5, <1>6 DEF PagesInv

\* A call of Grants: its page is one the users job has covered.
LEMMA ListGrantsCovered ==
  ASSUME TypeInv, PagesInv, NEW g \in GroupIds, ListGrants(g)
  PROVE  PagesInv'
<1> SUFFICES ASSUME ~overwritten' PROVE PagesInv'
  BY DEF PagesInv
<1>1. /\ g \in todo /\ g \in Jobs /\ g # "users" /\ StorePages({g})
      /\ phase = "grants" /\ phase' = phase
      /\ g \in DOMAIN call /\ receive(g, pageAt(g))
  BY JobsAreStored, SyncAssumption DEF ListGrants, mayRun, advance, TypeInv, Jobs, Listings
<1>7. /\ \A p \in DOMAIN cache : p \in DOMAIN cache' /\ cache'[p] = cache[p]
      /\ cache'[pageAt(g)] = call[g] /\ ~overwritten
  BY <1>1, ReceiveExtends
<1>2. PICK k \in Page : ListedUpTo(k)
  BY <1>1, <1>7 DEF PagesInv
<1>3. PICK n \in Nat : /\ pageAt(g) = parsePageToken(n)
                       /\ bag[g] # <<>> => bag[g] = Own(g, n)
                       /\ bag[g] = <<>> => n = 0
  BY <1>1, WhereOthers DEF TypeInv
<1>4. PICK q \in Page : q = pageAt(g)
  BY <1>3, PageOfToken
<1>5. q <= k
  <2>1. CASE bag[g] = <<>>
    BY <1>3, <1>4, <2>1 DEF parsePageToken, NoToken, Page
  <2>2. CASE bag[g] # <<>>
    BY <1>2, <1>3, <1>4, <2>2 DEF ListedUpTo
  <2> QED
    BY <2>1, <2>2
<1>6. Covered(q) /\ call[g] = cache[q] /\ membersNext(g, q) = IF q = k THEN 0 ELSE q + 1
  <2>1. Covered(q) /\ cachedNext(q) = IF q = k THEN 0 ELSE q + 1
    BY <1>2, <1>5 DEF ListedUpTo
  <2>2. call[g] = cache[q]
    BY <1>4, <1>7, <2>1 DEF Covered
  <2> QED
    BY <2>1, <2>2 DEF cachedNext, membersNext
<1>8. resources' = resources
  BY <1>1, ResourcesGrow
<1>9. \A gr \in grants' : resources'[gr[2]] # "none"
  <2>1. ASSUME NEW gr \in granted(g) PROVE resources[gr[2]] # "none"
    BY <1>6, <2>1 DEF granted, Covered
  <2>2. \A gr \in grants' : gr \in grants \/ gr \in granted(g)
    BY <1>1 DEF StorePages
  <2> QED
    BY <1>7, <1>8, <2>1, <2>2 DEF PagesInv
<1>10. PICK token \in Nat : token = membersNext(g, q)
  BY <1>4, NextType
<1>11. /\ \A h \in Jobs \ {g} : bag'[h] = bag[h]
       /\ bag'[g] = IF token = 0 THEN <<>> ELSE Own(g, token)
  <2>1. storedGroups \subseteq storedGroups' /\ storedGroups' \subseteq GroupIds
    BY <1>1, StoringTyped
  <2>2. advance(g, token)
    BY <1>4, <1>10 DEF ListGrants
  <2> QED
    BY <1>1, <2>1, <2>2, OthersAdvance DEF TypeInv
<1>12. ListedUpTo(k)'
  <2>1. \A p \in Page : p <= k => Covered(p)' /\ cachedNext(p)' = IF p = k THEN 0 ELSE p + 1
    <3> SUFFICES ASSUME NEW p \in Page, p <= k
                 PROVE  Covered(p)' /\ cachedNext(p)' = IF p = k THEN 0 ELSE p + 1
      OBVIOUS
    <3>1. Covered(p) /\ cachedNext(p) = IF p = k THEN 0 ELSE p + 1
      BY <1>2 DEF ListedUpTo
    <3> QED
      BY <1>7, <1>8, <3>1, CoveredStays DEF Covered
  <2>2. \A h \in GroupIds, m \in Nat : bag'[h] = Own(h, m) => parsePageToken(m) <= k
    <3> SUFFICES ASSUME NEW h \in GroupIds, NEW m \in Nat, bag'[h] = Own(h, m)
                 PROVE  parsePageToken(m) <= k
      OBVIOUS
    <3>1. CASE h # g
      BY <1>2, <1>11, <3>1 DEF ListedUpTo, Jobs
    <3>2. CASE h = g
      <4>1. token # 0 /\ m = token
        BY <1>1, <1>11, <3>2, FormsDiffer
      <4>2. q # k /\ token = q + 1
        BY <1>6, <1>10, <4>1
      <4> QED
        BY <1>5, <4>1, <4>2 DEF parsePageToken, NoToken, Page
    <3> QED
      BY <3>1, <3>2
  <2> QED
    BY <2>1, <2>2 DEF ListedUpTo, Own, parsePageToken
<1> QED
  BY <1>1, <1>9, <1>12 DEF PagesInv

LEMMA PagesStep ==
  ASSUME CacheLasts, TypeInv, PagesInv, [Next]_vars
  PROVE  PagesInv'
<1>1. "users" \in Listings /\ "users" \notin GroupIds /\ "users" \in Jobs
      /\ \A g \in GroupIds : g \in Jobs
  BY SyncAssumption DEF Listings, Jobs
<1>2. ASSUME UNCHANGED <<phase, todo, bag, resources, grants>>,
             ~overwritten' =>
               /\ ~overwritten
               /\ \A p \in DOMAIN cache : p \in DOMAIN cache' /\ cache'[p] = cache[p]
      PROVE  PagesInv'
  BY <1>2, PagesSteady
<1>3. CASE Begin
  <2>1. /\ phase' = "resources" /\ bag' = bag /\ bag["users"] = <<>>
        /\ UNCHANGED <<grants, resources, overwritten>>
        /\ todo' = Listings
    BY <1>1, <1>3, NothingBegun DEF Begin, store, network, TypeInv, CursorOK, unstarted
  <2> QED
    BY <1>1, <2>1, FormsDiffer DEF PagesInv, AccountMembers, parsePageToken
<1>4. ASSUME NEW j \in {"groups", "roles"}, j \in todo, StorePages({j}), NEW token \in Nat,
             advance(j, token), UNCHANGED network
      PROVE  PagesInv'
  <2>1. j \notin GroupIds /\ j # "users" /\ j \in Jobs
    BY <1>4, SyncAssumption DEF Listings, Jobs
  <2>2. resources' = resources /\ grants' = grants
    <3>1. {j} \cap DOMAIN groups = {}
      BY <2>1 DEF TypeInv, UpstreamOK
    <3> QED
      BY <1>4, <2>1, <3>1, ResourcesGrow DEF StorePages
  <2>3. storedGroups \subseteq storedGroups' /\ storedGroups' \subseteq GroupIds
    BY <1>4, <2>1, StoringTyped
  <2>4. /\ \A g \in Jobs \ {j} : bag'[g] = bag[g]
        /\ todo' = IF token = 0 THEN todo \ {j} ELSE todo
    BY <1>4, <2>1, <2>3, OthersAdvance DEF TypeInv
  <2>5. phase' = phase /\ UNCHANGED <<cache, overwritten>>
    BY <1>4 DEF advance, network
  <2>6. /\ "users" \in todo' <=> "users" \in todo
        /\ bag'["users"] = bag["users"] /\ \A g \in GroupIds : bag'[g] = bag[g]
    BY <1>1, <2>1, <2>4
  <2> QED
    BY <1>4, <2>2, <2>5, <2>6, PagesSteady
<1>5. CASE ListGroups
  <2>1. groupsNext(pageAt("groups")) \in Nat
    BY NextType, PageAtType DEF TypeInv, Jobs, Listings
  <2> QED
    BY <1>4, <1>5, <2>1 DEF ListGroups, mayRun
<1>6. CASE ListRoles
  <2>1. listNext(Roles, pageAt("roles")) \in Nat
    BY NextType, PageAtType DEF TypeInv, Jobs, Listings
  <2> QED
    BY <1>4, <1>6, <2>1 DEF ListRoles, mayRun
<1>7. CASE PlanGrants
  <2>1. /\ phase = "resources" /\ todo = {} /\ phase' = "grants"
        /\ UNCHANGED <<bag, cache, overwritten, resources, grants>>
    BY <1>7 DEF PlanGrants, store, network
  <2> SUFFICES ASSUME ~overwritten' PROVE PagesInv'
    BY DEF PagesInv
  <2>2. PICK k \in Page : ListedUpTo(k)
    BY <2>1 DEF PagesInv
  <2>3. ListedUpTo(k)'
    BY <2>1, <2>2
       DEF ListedUpTo, Covered, cachedNext, nextPageToken, totalPages, usersOf, Own, parsePageToken
  <2> QED
    BY <2>1, <2>3 DEF PagesInv
<1>8. CASE Finish
  BY <1>8 DEF Finish, store, network, PagesInv
<1>9. ASSUME NEW g \in GroupIds, SkipGrants(g) PROVE PagesInv'
  <2>1. /\ UNCHANGED <<phase, cache, overwritten, resources, grants>>
        /\ bag' = [bag EXCEPT ![g] = <<>>] /\ todo' = todo \ {g} /\ g # "users"
        /\ bag \in [Jobs -> Seq(States)]
    BY <1>1, <1>9 DEF SkipGrants, store, TypeInv, CursorOK
  <2>3. bag'["users"] = bag["users"] /\ \A h \in GroupIds : bag'[h] = bag[h] \/ bag'[h] = <<>>
    BY <1>1, <2>1
  <2> QED
    BY <2>1, <2>3, PagesSteady
<1>10. ~Crash /\ ~Expire
  <2>1. crashes \in Nat
    BY SyncAssumption DEF TypeInv, RestOK
  <2> QED
    BY <2>1 DEF CacheLasts, Crash, Expire
<1>11. CASE FindPage
  BY <1>2, <1>11, ReceiveExtends DEF FindPage, cursor, store
<1>12. CASE StartFind \/ FindAsks \/ FindFails \/ EditMembers \/ EditAccessUsers \/ UNCHANGED vars
  BY <1>2, <1>12 DEF StartFind, FindAsks, FindFails, EditMembers, EditAccessUsers, vars, cursor,
     store, network
<1>13. ASSUME NEW g \in GroupIds, EditGroup(g) PROVE PagesInv'
  BY <1>2, <1>13 DEF EditGroup, cursor, store, network
<1>14. ASSUME NEW j \in Jobs, AskMembers(j) \/ CallFails(j) PROVE PagesInv'
  BY <1>2, <1>14 DEF AskMembers, CallFails, cursor, store
<1>15. CASE Abort
  BY <1>15 DEF Abort, PagesInv
<1> QED
  BY <1>3, <1>5, <1>6, <1>7, <1>8, <1>9, <1>10, <1>11, <1>12, <1>13, <1>14, <1>15,
     ListUsersCovers, ListGrantsCovered DEF Next, Sync

\* While no page leaves the cache and no fill replaces one by another answer,
\* a grant never names a user without a resource, whoever joins, accepts or
\* leaves between the listings, whoever else searches them and however their
\* calls overlap: the listing of users has cached each page the listings of
\* grants go through, and an answer of before that would have replaced it.
THEOREM PrincipalsSynced ==
  ASSUME CacheLasts
  PROVE  Spec => []PrincipalsWereSynced
<1>1. Spec => []TypeInv
  BY TypeInit, TypeStep, PTL DEF Spec
<1>2. Init => PagesInv
  BY DEF Init, PagesInv
<1>3. TypeInv /\ PagesInv /\ [Next]_vars => PagesInv'
  BY PagesStep
<1>4. PagesInv => PrincipalsWereSynced
  BY DEF PagesInv, PrincipalsWereSynced
<1> QED
  BY <1>1, <1>2, <1>3, <1>4, PTL DEF Spec

(***************************************************************************)
(* Every user is fetched from an account whose members stand still         *)
(***************************************************************************)

\* Products of pages.
LEMMA TimesMonotone ==
  ASSUME NEW a \in Nat, NEW b \in Nat, NEW n \in Nat, a <= b
  PROVE  a * n <= b * n /\ a * n \in Nat /\ b * n \in Nat
<1>1. PICK c \in Nat : b = a + c
  <2>1. b - a \in Nat /\ b = a + (b - a)
    OBVIOUS
  <2> QED
    BY <2>1
<1>2. b * n = a * n + c * n /\ a * n \in Nat /\ c * n \in Nat /\ b * n \in Nat
  BY <1>1
<1> QED
  BY <1>2

\* So many pages hold everything, and no page is needed for nothing.
LEMMA PagesForAll ==
  ASSUME NEW total \in Nat
  PROVE  /\ pagesFor(total, PageSize) \in Nat
         /\ total <= pagesFor(total, PageSize) * PageSize
<1> DEFINE n == PageSize
           x == total + n - 1
           t == x \div n
<1>1. n \in Nat \ {0} /\ x \in Nat
  BY PageSizeAssumption
<1> HIDE DEF n
<1>2. t \in Nat /\ t * n <= x /\ x < t * n + n
  <2> HIDE DEF x
  <2> QED
    BY <1>1
<1>3. pagesFor(total, PageSize) = t
  BY DEF pagesFor, n
<1>4. t * n \in Nat
  BY <1>1, <1>2
<1> DEFINE tn == t * n
<1>5. tn \in Nat /\ x < tn + n
  BY <1>2, <1>4
<1> HIDE DEF tn, t
<1>6. total <= tn
  BY <1>1, <1>5
<1> QED
  BY <1>2, <1>3, <1>6 DEF tn, n

\* The client stops at a page only where the listing ends.
LEMMA LastPageEnds ==
  ASSUME NEW S, NEW list \in Seq(S), NEW page \in Page, NEW way \in {"pages", "count", "none"},
         nextPageToken(page, resultInfo(way, Len(list)), Len(pageOf(list, page))) = 0
  PROVE  Len(list) <= page * PageSize
<1> DEFINE info == resultInfo(way, Len(list))
           t == pagesFor(Len(list), PageSize)
<1>1. /\ PageSize \in Nat \ {0} /\ Len(list) \in Nat /\ page \in Nat /\ page * PageSize \in Nat
      /\ t \in Nat /\ Len(list) <= t * PageSize
  BY PageSizeAssumption, PagesForAll DEF Page
<1> HIDE DEF t
<1>2. page + 1 # 0
  BY <1>1
<1>3. /\ ~(totalPages(info) > 0 /\ page < totalPages(info))
      /\ ~(totalPages(info) = 0 /\ Len(pageOf(list, page)) = PageSize)
  BY <1>2 DEF nextPageToken, NoToken
<1>4. CASE totalPages(info) = t /\ t > 0
  <2>1. t <= page
    BY <1>1, <1>3, <1>4
  <2>2. t * PageSize <= page * PageSize /\ t * PageSize \in Nat
    BY <1>1, <2>1, TimesMonotone
  <2> QED
    BY <1>1, <2>2
<1>5. CASE Len(list) = 0
  BY <1>1, <1>5
<1>6. CASE totalPages(info) = 0
  <2>1. SUFFICES ASSUME page * PageSize < Len(list) PROVE FALSE
    BY <1>1
  <2>2. pageOf(list, page) = SubSeq(list, firstOn(page), page * PageSize)
    BY <2>1 DEF pageOf, firstOn
  <2>3. firstOn(page) \in Page /\ page * PageSize = firstOn(page) + PageSize - 1
    BY PageBounds
  <2>4. Len(SubSeq(list, firstOn(page), page * PageSize)) = PageSize
    BY <1>1, <2>1, <2>3 DEF Page
  <2> QED
    BY <1>3, <1>6, <2>2, <2>4
<1>7. totalPages(info) = t \/ totalPages(info) = 0
  BY DEF totalPages, resultInfo, t
<1>8. t = 0 => Len(list) = 0
  BY <1>1
<1> QED
  BY <1>1, <1>4, <1>5, <1>6, <1>7, <1>8

\* Whatever is listed is on one of the pages up to the end.
LEMMA EveryPlaceListed ==
  ASSUME NEW S, NEW list \in Seq(S), NEW i \in DOMAIN list,
         NEW k \in Page, Len(list) <= k * PageSize
  PROVE  \E p \in Page : p <= k /\ \E m \in DOMAIN pageOf(list, p) : pageOf(list, p)[m] = list[i]
<1> DEFINE n == PageSize
           x == i - 1
           d == x \div n
<1>1. /\ n \in Nat \ {0} /\ i \in 1..Len(list) /\ x \in Nat /\ Len(list) \in Nat
      /\ k \in Nat \ {0} /\ Len(list) <= k * n /\ k * n \in Nat
  BY PageSizeAssumption DEF Page
<1> HIDE DEF n
<1>2. d \in Nat /\ d * n <= x /\ x < d * n + n /\ d * n \in Nat
  <2> HIDE DEF x
  <2> QED
    BY <1>1
<1> HIDE DEF d
<1>3. d + 1 <= k
  <2> SUFFICES ASSUME k <= d PROVE FALSE
    BY <1>1, <1>2
  <2>1. k * n <= d * n
    BY <1>1, <1>2, TimesMonotone
  <2> QED
    BY <1>1, <1>2, <2>1
<1>4. PICK p \in Page : p = d + 1
  BY <1>2 DEF Page
<1>5. firstOn(p) = d * n + 1 /\ p * PageSize = d * n + n
  <2>1. p - 1 = d
    BY <1>2, <1>4
  <2>2. firstOn(p) = d * n + 1
    BY <2>1 DEF firstOn, n
  <2>3. p * PageSize = firstOn(p) + PageSize - 1
    BY PageBounds
  <2> QED
    BY <1>1, <1>2, <2>2, <2>3 DEF n
<1> DEFINE first == firstOn(p)
           last == lastOn(list, p)
           m == i - first + 1
<1>6. first \in Nat \ {0} /\ last \in Nat /\ last <= Len(list) /\ first <= i /\ i <= last
  <2>1. first \in Nat \ {0} /\ last \in Nat /\ last <= Len(list)
    BY PageBounds DEF Page
  <2>2. first <= i /\ i <= d * n + n
    BY <1>1, <1>2, <1>5
  <2>3. last = d * n + n \/ last = Len(list)
    BY <1>5 DEF lastOn
  <2> QED
    BY <1>1, <2>1, <2>2, <2>3
<1>7. pageOf(list, p) = SubSeq(list, first, last)
  BY DEF pageOf, firstOn, lastOn
<1> HIDE DEF first, last
<1>8. /\ m \in 1..Len(SubSeq(list, first, last)) /\ SubSeq(list, first, last)[m] = list[i]
      /\ DOMAIN SubSeq(list, first, last) = 1..Len(SubSeq(list, first, last))
  <2>1. /\ Len(SubSeq(list, first, last)) = last - first + 1
        /\ \A j \in 1..(last - first + 1) : SubSeq(list, first, last)[j] = list[first + j - 1]
        /\ DOMAIN SubSeq(list, first, last) = 1..(last - first + 1)
    BY <1>1, <1>6
  <2>2. m \in 1..(last - first + 1) /\ first + m - 1 = i
    BY <1>1, <1>6
  <2> QED
    BY <2>1, <2>2
<1> QED
  BY <1>2, <1>3, <1>4, <1>7, <1>8

\* If the client stops after page k, the pages up to k hold the whole list.
LEMMA PagesHoldAll ==
  ASSUME NEW S, NEW list \in Seq(S), NEW k \in Page, NEW way \in {"pages", "count", "none"},
         nextPageToken(k, resultInfo(way, Len(list)), Len(pageOf(list, k))) = 0
  PROVE  \A x \in ToSet(list) : \E p \in Page : p <= k /\ x \in ToSet(pageOf(list, p))
<1>1. Len(list) <= k * PageSize
  BY LastPageEnds
<1> SUFFICES ASSUME NEW x \in ToSet(list)
             PROVE  \E p \in Page : p <= k /\ x \in ToSet(pageOf(list, p))
  OBVIOUS
<1>2. PICK i \in DOMAIN list : list[i] = x
  BY DEF ToSet
<1>3. PICK p \in Page : p <= k /\ \E m \in DOMAIN pageOf(list, p) : pageOf(list, p)[m] = list[i]
  BY <1>1, EveryPlaceListed
<1>4. x \in ToSet(pageOf(list, p))
  BY <1>2, <1>3 DEF ToSet
<1> QED
  BY <1>3, <1>4

LEMMA UsersAreRows ==
  ASSUME NEW rows
  PROVE  usersOf(rows) = {e.user : e \in {x \in ToSet(rows) : ~x.pending}}
BY DEF usersOf, ToSet

LEMMA PagesHoldUsers ==
  ASSUME NEW S, NEW list \in Seq(S), NEW k \in Page, NEW way \in {"pages", "count", "none"},
         nextPageToken(k, resultInfo(way, Len(list)), Len(pageOf(list, k))) = 0
  PROVE  \A u \in usersOf(list) : \E p \in Page : p <= k /\ u \in usersOf(pageOf(list, p))
<1> SUFFICES ASSUME NEW e \in ToSet(list), ~e.pending
             PROVE  \E p \in Page : p <= k /\ e.user \in usersOf(pageOf(list, p))
  BY UsersAreRows
<1>1. PICK p \in Page : p <= k /\ e \in ToSet(pageOf(list, p))
  BY PagesHoldAll
<1> QED
  BY <1>1, UsersAreRows

\* The page a caller has asked for, and what Cloudflare answers now.
callPage(x)    == IF x = "finder" THEN finder.page ELSE pageAt(x)
currentPage(p) == [rows |-> pageOf(directory, p), info |-> resultInfo(style, Len(directory))]

\* Answers, cached or on their way, are what Cloudflare still answers.
Truthful ==
  /\ \A p \in DOMAIN cache : cache[p] = currentPage(p)
  /\ \A x \in DOMAIN call : call[x] = currentPage(callPage(x))

\* The Access users owed are fetched, or on the page at hand or a later one;
\* every member on the pages before it is fetched.  So are all once their
\* listing is over.
AccessBefore(k) ==
  \A a \in owed : resources[a] # "none"
                  \/ \E i \in DOMAIN accessUsers : accessUsers[i] = a /\ firstOn(k) <= i
MembersBefore(k) == \A p \in Page : p < k => \A u \in usersOf(pageOf(directory, p)) : resources[u] = "member"
AccessFetched    == \A a \in owed : resources[a] # "none"
MembersFetched   == \A u \in usersOf(directory) : resources[u] = "member"

inAccess  == phase = "resources" /\ "users" \in todo /\ \E n \in Nat : bag["users"] = AccessUsers(n)
inMembers == phase = "resources" /\ "users" \in todo /\ \E n \in Nat : bag["users"] = AccountMembers(n)
usersOver == phase \in {"grants", "done"} \/ (phase = "resources" /\ "users" \notin todo)

AccessFetchedInv ==
  /\ \A n \in Nat : inAccess /\ bag["users"] = AccessUsers(n) => AccessBefore(parsePageToken(n))
  /\ inMembers \/ usersOver => AccessFetched

MembersFetchedInv ==
  edits = 0 =>
    /\ Truthful
    /\ \A n \in Nat : inMembers /\ bag["users"] = AccountMembers(n)
         => MembersBefore(parsePageToken(n))
    /\ usersOver => MembersFetched

FetchedInv == AccessFetchedInv /\ MembersFetchedInv

\* What is on a page is in the list, and what is not is before or after it.
LEMMA PageWithin ==
  ASSUME NEW S, NEW list \in Seq(S), NEW p \in Page
  PROVE  ToSet(pageOf(list, p)) \subseteq S
<1>1. pageOf(list, p) \in Seq(S)
  BY PageOfType
<1> DEFINE part == pageOf(list, p)
<1> HIDE DEF part
<1>2. part \in Seq(S)
  BY <1>1 DEF part
<1>3. ToSet(part) \subseteq S
  BY <1>2 DEF ToSet
<1> QED
  BY <1>3 DEF part

LEMMA OnPageOrAfter ==
  ASSUME NEW S, NEW list \in Seq(S), NEW p \in Page, NEW i \in DOMAIN list, firstOn(p) <= i
  PROVE  \/ list[i] \in ToSet(pageOf(list, p)) /\ i <= p * PageSize
         \/ firstOn(p + 1) <= i /\ p * PageSize < i
<1> DEFINE first == firstOn(p)
           last  == lastOn(list, p)
           end   == p * PageSize
<1>1. /\ i \in 1..Len(list) /\ Len(list) \in Nat
      /\ first \in Nat \ {0} /\ last \in Nat /\ last <= Len(list) /\ last <= end
      /\ end = first + PageSize - 1 /\ PageSize \in Nat \ {0}
      /\ last = end \/ last = Len(list)
  <2>1. /\ first \in Page /\ last \in Nat /\ last <= Len(list) /\ last <= end
        /\ end = first + PageSize - 1
    BY PageBounds
  <2>2. last = end \/ last = Len(list)
    BY DEF lastOn
  <2> QED
    BY <2>1, <2>2, PageSizeAssumption DEF Page
<1>2. firstOn(p + 1) = end + 1
  BY DEF firstOn, Page
<1>3. pageOf(list, p) = SubSeq(list, first, last)
  BY DEF pageOf, firstOn, lastOn
<1> HIDE DEF first, last, end
<1>4. CASE i <= last
  <2> DEFINE m == i - first + 1
  <2>1. /\ DOMAIN SubSeq(list, first, last) = 1..(last - first + 1)
        /\ \A j \in 1..(last - first + 1) : SubSeq(list, first, last)[j] = list[first + j - 1]
    BY <1>1, <1>4 DEF first
  <2>2. m \in 1..(last - first + 1) /\ first + m - 1 = i
    BY <1>1, <1>4 DEF first
  <2>3. SubSeq(list, first, last)[m] = list[i] /\ m \in DOMAIN SubSeq(list, first, last)
    BY <2>1, <2>2
  <2>4. list[i] \in ToSet(SubSeq(list, first, last))
    BY <2>3 DEF ToSet
  <2> QED
    BY <1>1, <1>3, <1>4, <2>4 DEF end
<1>5. CASE ~(i <= last)
  <2>1. end < i /\ end + 1 <= i
    BY <1>1, <1>5
  <2> QED
    BY <1>2, <2>1 DEF end
<1> QED
  BY <1>4, <1>5

\* Access users only joined: none of those owed has moved to an earlier place.
OnlyJoined ==
  /\ owed' \subseteq owed
  /\ owed' # {} => \A i \in DOMAIN accessUsers : \E n \in DOMAIN accessUsers' :
                     i <= n /\ accessUsers'[n] = accessUsers[i]

LEMMA JoinedStep ==
  ASSUME TypeInv, [Next]_vars, ~Begin
  PROVE  OnlyJoined
<1>1. accessUsers \in Seq(Addresses) /\ DOMAIN accessUsers = 1..Len(accessUsers)
      /\ Len(accessUsers) \in Nat
  BY DEF TypeInv, UpstreamOK
<1>2. CASE UNCHANGED <<accessUsers, owed>>
  BY <1>1, <1>2 DEF OnlyJoined
<1>3. ASSUME EditAccessUsers PROVE OnlyJoined
  <2>1. ASSUME NEW a \in Addresses, NEW i \in 1..Len(accessUsers) + 1,
               accessUsers' = InsertAt(accessUsers, i, a), owed' = owed
        PROVE  OnlyJoined
    <3> DEFINE place(m) == IF m < i THEN m ELSE m + 1
    <3>1. /\ accessUsers' \in Seq(Addresses) /\ Len(accessUsers') = Len(accessUsers) + 1
          /\ \A m \in DOMAIN accessUsers : accessUsers'[place(m)] = accessUsers[m]
      BY <1>1, <2>1, Inserted
    <3>2. \A m \in DOMAIN accessUsers : place(m) \in DOMAIN accessUsers' /\ m <= place(m)
      BY <1>1, <3>1
    <3> QED
      BY <2>1, <3>1, <3>2 DEF OnlyJoined
  <2> QED
    BY <1>3, <2>1 DEF EditAccessUsers, OnlyJoined
<1>4. ASSUME ~EditAccessUsers PROVE UNCHANGED <<accessUsers, owed>>
  BY <1>4 DEF Next, Sync, AskMembers, ListUsers, ListGroups, ListRoles, PlanGrants, Finish, ListGrants,
     SkipGrants, CallFails, Abort, Crash, Expire, StartFind, FindAsks, FindPage, FindFails,
     EditMembers, EditGroup, upstream, history, vars
<1> QED
  BY <1>2, <1>3, <1>4

\* While no resource is dropped, what was fetched stays fetched.
LEMMA FetchedStays ==
  ASSUME TypeInv, TypeInv', OnlyJoined,
         \A a \in Addresses : resources[a] # "none" => resources'[a] # "none"
  PROVE  /\ \A k \in Page : AccessBefore(k) => AccessBefore(k)'
         /\ AccessFetched => AccessFetched'
         /\ /\ directory' = directory
            /\ \A a \in Addresses : resources[a] = "member" => resources'[a] = "member"
            =>
              /\ \A k \in Page : MembersBefore(k) => MembersBefore(k)'
              /\ MembersFetched => MembersFetched'
<1>1. accessUsers \in Seq(Addresses) /\ directory \in Seq(Entries)
  BY DEF TypeInv, UpstreamOK
<1>2. \A p \in Page : usersOf(pageOf(directory, p)) \subseteq Addresses
  BY <1>1, PageOfType, UsersOfType
<1>3. owed \subseteq Addresses /\ usersOf(directory) \subseteq Addresses
  BY <1>1, UsersOfType DEF TypeInv, RestOK, ToSet
<1>4. ASSUME NEW k \in Page, AccessBefore(k) PROVE AccessBefore(k)'
  <2>1. firstOn(k)' = firstOn(k) /\ firstOn(k) \in Nat
    BY <1>1, PageBounds DEF firstOn, Page
  <2> SUFFICES ASSUME NEW a \in owed', resources'[a] = "none"
               PROVE  \E n \in DOMAIN accessUsers' : accessUsers'[n] = a /\ firstOn(k) <= n
    BY <2>1 DEF AccessBefore
  <2>2. a \in owed /\ a \in Addresses /\ resources[a] = "none"
    BY <1>3 DEF OnlyJoined
  <2>3. PICK i \in DOMAIN accessUsers : accessUsers[i] = a /\ firstOn(k) <= i
    BY <1>4, <2>2 DEF AccessBefore
  <2>4. PICK n \in DOMAIN accessUsers' : i <= n /\ accessUsers'[n] = a
    BY <2>3 DEF OnlyJoined
  <2>5. i \in Nat /\ n \in Nat
    <3>1. accessUsers' \in Seq(Addresses)
      BY DEF TypeInv, UpstreamOK
    <3> QED
      BY <1>1, <3>1
  <2> QED
    BY <2>1, <2>3, <2>4, <2>5
<1>5. AccessFetched => AccessFetched'
  BY <1>3 DEF AccessFetched, OnlyJoined
<1>6. ASSUME directory' = directory,
             \A a \in Addresses : resources[a] = "member" => resources'[a] = "member"
      PROVE  /\ \A k \in Page : MembersBefore(k) => MembersBefore(k)'
             /\ MembersFetched => MembersFetched'
  <2>1. \A p \in Page : usersOf(pageOf(directory, p))' = usersOf(pageOf(directory, p))
    BY <1>6 DEF usersOf, pageOf
  <2>2. usersOf(directory)' = usersOf(directory)
    BY <1>6 DEF usersOf
  <2>3. \A k \in Page : MembersBefore(k) => MembersBefore(k)'
    BY <1>2, <1>6, <2>1 DEF MembersBefore
  <2> QED
    BY <1>3, <1>6, <2>2, <2>3 DEF MembersFetched
<1> QED
  BY <1>4, <1>5, <1>6

\* Steps that leave the cursor of users alone.
LEMMA FetchedSteady ==
  ASSUME TypeInv, TypeInv', FetchedInv, OnlyJoined,
         edits' = 0 => edits = 0 /\ Truthful' /\ directory' = directory,
         phase' = phase, "users" \in todo' <=> "users" \in todo, bag'["users"] = bag["users"],
         \A a \in Addresses : resources[a] # "none" => resources'[a] # "none",
         edits = 0 /\ (inMembers \/ usersOver) =>
           \A a \in Addresses : resources[a] = "member" => resources'[a] = "member"
  PROVE  FetchedInv'
<1>1. /\ inAccess' = inAccess /\ inMembers' = inMembers /\ usersOver' = usersOver
  BY DEF inAccess, inMembers, usersOver, AccessUsers, AccountMembers, Two, One, At
<1>2. \A n \in Nat : parsePageToken(n) \in Page /\ parsePageToken(n)' = parsePageToken(n)
  BY PageOfToken DEF parsePageToken
<1>3. \A n \in Nat : inAccess' /\ bag'["users"] = AccessUsers(n) => AccessBefore(parsePageToken(n))'
  <2> SUFFICES ASSUME NEW n \in Nat, inAccess, bag["users"] = AccessUsers(n)
               PROVE  AccessBefore(parsePageToken(n))'
    BY <1>1
  <2>1. PICK k \in Page : k = parsePageToken(n)
    BY <1>2
  <2>2. AccessBefore(k)'
    BY <2>1, FetchedStays DEF FetchedInv, AccessFetchedInv
  <2> QED
    BY <1>2, <2>1, <2>2
<1>4. (inMembers \/ usersOver)' => AccessFetched'
  BY <1>1, FetchedStays DEF FetchedInv, AccessFetchedInv
<1>5. MembersFetchedInv'
  <2> SUFFICES ASSUME edits' = 0 PROVE MembersFetchedInv'
    BY DEF MembersFetchedInv
  <2>1. \A n \in Nat : inMembers' /\ bag'["users"] = AccountMembers(n)
          => MembersBefore(parsePageToken(n))'
    <3> SUFFICES ASSUME NEW n \in Nat, inMembers, bag["users"] = AccountMembers(n)
                 PROVE  MembersBefore(parsePageToken(n))'
      BY <1>1
    <3>1. PICK k \in Page : k = parsePageToken(n)
      BY <1>2
    <3>2. MembersBefore(k)'
      BY <3>1, FetchedStays DEF FetchedInv, MembersFetchedInv
    <3> QED
      BY <1>2, <3>1, <3>2
  <2>2. usersOver' => MembersFetched'
    BY <1>1, FetchedStays DEF FetchedInv, MembersFetchedInv
  <2> QED
    BY <2>1, <2>2 DEF MembersFetchedInv, AccountMembers
<1> QED
  BY <1>3, <1>4, <1>5 DEF FetchedInv, AccessFetchedInv, AccessUsers

\* Where the listing of Access users is: at its first page, or in the bag.
LEMMA WhereAccess ==
  ASSUME CursorOK, kind("users") = "access_users"
  PROVE  \/ bag["users"] = <<>> /\ pageAt("users") = 1
         \/ \E n \in Nat : bag["users"] = AccessUsers(n) /\ pageAt("users") = parsePageToken(n)
<1>1. CASE bag["users"] = <<>>
  <2>1. Push(Push(<<>>, "account_members"), "access_users") = AccessUsers(0)
    BY DEF Push, AccessUsers, Two, One, At, NoToken
  <2>2. jobBag("users") = AccessUsers(0)
    BY <1>1, <2>1 DEF jobBag, userBag
  <2> QED
    BY <1>1, <2>2, BagForms DEF pageAt, At, parsePageToken, NoToken
<1>2. CASE bag["users"] # <<>>
  <2>1. jobBag("users") = bag["users"]
    BY <1>2 DEF jobBag, userBag
  <2> QED
    BY <2>1, WhereUsers
<1> QED
  BY <1>1, <1>2

LEMMA AccessForms ==
  \A m, n \in Nat : AccessUsers(m) = AccessUsers(n) => m = n
<1> SUFFICES ASSUME NEW m \in Nat, NEW n \in Nat, AccessUsers(m) = AccessUsers(n) PROVE m = n
  OBVIOUS
<1>1. At("access_users", m) = At("access_users", n)
  BY BagForms
<1> QED
  BY <1>1 DEF At

LEMMA StoredUsers ==
  ASSUME TypeInv, NEW jobs, "users" \in jobs, StorePages(jobs)
  PROVE  \A a \in Addresses :
           resources'[a] = IF a \in usersListed THEN userKind ELSE resources[a]
BY DEF StorePages

\* A job whose bag stands is at the page it was at.
LEMMA PageStands ==
  ASSUME NEW x, bag'[x] = bag[x]
  PROVE  pageAt(x)' = pageAt(x)
BY DEF pageAt, jobBag, userBag, Push, parsePageToken

\* What is cached was cached or has been answered; who waits, waits for the
\* page asked for, and those that ask now are answered from the cache or by
\* Cloudflare.
AnswersStand ==
  /\ UNCHANGED <<style, directory>>
  /\ \A p \in DOMAIN cache' :
       \/ p \in DOMAIN cache /\ cache'[p] = cache[p]
       \/ \E x \in DOMAIN call : p = callPage(x) /\ cache'[p] = call[x]
  /\ \A x \in DOMAIN call' :
       /\ callPage(x)' = callPage(x)
       /\ (x \in DOMAIN call /\ call'[x] = call[x]) \/ call'[x] = answer(callPage(x))

LEMMA TruthKept ==
  ASSUME Truthful, AnswersStand
  PROVE  Truthful'
<1>1. \A p : answer(p) = currentPage(p)
  BY DEF Truthful, answer, currentPage
<1>2. \A p : currentPage(p)' = currentPage(p)
  BY DEF currentPage, AnswersStand, pageOf, resultInfo, pagesFor
<1>3. \A p \in DOMAIN cache' : cache'[p] = currentPage(p)
  BY DEF Truthful, AnswersStand
<1>4. \A x \in DOMAIN call' : call'[x] = currentPage(callPage(x))
  BY <1>1 DEF Truthful, AnswersStand
<1>5. \A x \in DOMAIN call' : callPage(x)' = callPage(x)
  BY DEF AnswersStand
<1> QED
  BY <1>2, <1>3, <1>4, <1>5 DEF Truthful

\* Steps that hang up the callers whose places move.
LEMMA StandsWithout ==
  ASSUME TypeInv, NEW gone, hangUp(gone), UNCHANGED <<style, directory>>,
         \A p \in DOMAIN cache' :
           \/ p \in DOMAIN cache /\ cache'[p] = cache[p]
           \/ \E x \in DOMAIN call : p = callPage(x) /\ cache'[p] = call[x],
         finder' = finder \/ "finder" \in gone,
         \A j \in Jobs \ gone : bag'[j] = bag[j]
  PROVE  AnswersStand
<1>1. DOMAIN call' = DOMAIN call \ gone /\ \A x \in DOMAIN call \ gone : call'[x] = call[x]
  BY DEF hangUp, Restrict
<1>2. \A x \in DOMAIN call : x = "finder" \/ x \in Jobs
  BY DEF TypeInv, NetworkOK, CallsOK
<1>3. \A x \in DOMAIN call \ gone : callPage(x)' = callPage(x)
  BY <1>2, PageStands DEF callPage
<1> QED
  BY <1>1, <1>3 DEF AnswersStand

LEMMA StandsAsking ==
  ASSUME NEW x, ask(x, callPage(x)), UNCHANGED <<style, directory, cache, bag, finder>>
  PROVE  AnswersStand
<1>1. \A y : callPage(y)' = callPage(y)
  BY PageStands DEF callPage
<1> QED
  BY <1>1 DEF AnswersStand, ask, with

LEMMA StandsUntouched ==
  ASSUME UNCHANGED <<style, directory, cache, call, bag, finder>>
  PROVE  AnswersStand
<1>1. \A y : callPage(y)' = callPage(y)
  BY PageStands DEF callPage
<1> QED
  BY <1>1 DEF AnswersStand

\* While no member has changed, what is cached is what Cloudflare answers, and
\* so is what is on its way.
LEMMA TruthStep ==
  ASSUME TypeInv, Truthful, [Next]_vars, edits' = 0
  PROVE  Truthful' /\ edits = 0 /\ UNCHANGED <<style, directory>>
<1>0. edits \in Nat /\ ~EditMembers
  BY DEF TypeInv, UpstreamOK, EditMembers
<1>1. edits = 0 /\ UNCHANGED <<style, directory>>
  BY <1>0 DEF Next, Sync, Begin, AskMembers, ListUsers, ListGroups, ListRoles, PlanGrants, Finish,
     ListGrants, SkipGrants, CallFails, Abort, Crash, Expire, StartFind, FindAsks, FindPage,
     FindFails, EditAccessUsers, EditGroup, upstream, vars
<1> SUFFICES Truthful'
  BY <1>1
<1>2. ASSUME UNCHANGED <<cache, call, bag, finder>> PROVE Truthful'
  BY <1>1, <1>2, StandsUntouched, TruthKept
<1>3. ASSUME NEW x \in Callers, ask(x, callPage(x)), UNCHANGED <<cache, bag, finder>> PROVE Truthful'
  BY <1>1, <1>3, StandsAsking, TruthKept
<1>4. ASSUME NEW gone, hangUp(gone), finder' = finder \/ "finder" \in gone,
             \A j \in Jobs \ gone : bag'[j] = bag[j], cache' = cache
      PROVE  Truthful'
  BY <1>1, <1>4, StandsWithout, TruthKept
<1>5. ASSUME NEW x \in DOMAIN call, receive(x, callPage(x)), finder' = finder \/ x = "finder",
             \A j \in Jobs \ {x} : bag'[j] = bag[j]
      PROVE  Truthful'
  <2>1. hangUp({x}) /\ \A p \in DOMAIN cache' :
          \/ p \in DOMAIN cache /\ cache'[p] = cache[p]
          \/ p = callPage(x) /\ cache'[p] = call[x]
    BY <1>5 DEF receive, with
  <2> QED
    BY <1>1, <1>5, <2>1, StandsWithout, TruthKept
<1>6. \A j \in Jobs : callPage(j) = pageAt(j)
  BY MembersOnly DEF callPage
<1>7. \A j \in Jobs : \A token : advance(j, token) => \A i \in Jobs \ {j} : bag'[i] = bag[i]
  BY DEF advance, TypeInv, CursorOK
<1>8. CASE Begin \/ PlanGrants \/ Finish
  BY <1>2, <1>8 DEF Begin, PlanGrants, Finish, network, finding
<1>9. ASSUME NEW j \in Jobs, AskMembers(j) PROVE Truthful'
  BY <1>3, <1>6, <1>9 DEF AskMembers, cursor, finding, Callers
<1>10. CASE ListUsers
  <2>1. "users" \in Jobs
    BY DEF Jobs, Listings
  <2>2. CASE kind("users") = "access_users"
    <3>1. "users" \notin DOMAIN call
      BY <2>2, MembersOnly DEF TypeInv, NetworkOK, CallsOK, listsMembers
    <3>2. call' = call /\ cache' = cache /\ finder' = finder
          /\ \A j \in Jobs \ {"users"} : bag'[j] = bag[j]
      BY <1>7, <1>10, <2>1, <2>2 DEF ListUsers, network, finding
    <3>3. \A x \in DOMAIN call : callPage(x)' = callPage(x)
      BY <3>1, <3>2, PageStands DEF callPage, TypeInv, NetworkOK, CallsOK
    <3>4. AnswersStand
      BY <1>1, <3>2, <3>3 DEF AnswersStand
    <3> QED
      BY <3>4, TruthKept
  <2>3. CASE kind("users") # "access_users"
    BY <1>5, <1>6, <1>7, <1>10, <2>1, <2>3 DEF ListUsers, finding
  <2> QED
    BY <2>2, <2>3
<1>11. CASE ListGroups \/ ListRoles
  <2>1. PICK j \in {"groups", "roles"} : \A i \in Jobs \ {j} : bag'[i] = bag[i]
    BY <1>7, <1>11, MembersOnly DEF ListGroups, ListRoles, Listings
  <2>2. UNCHANGED <<cache, call, finder>>
    BY <1>11 DEF ListGroups, ListRoles, network, finding
  <2>3. \A x \in DOMAIN call : x = "finder" \/ (x \in Jobs /\ x # j)
    BY MembersOnly DEF TypeInv, NetworkOK, CallsOK
  <2>4. \A x \in DOMAIN call : callPage(x)' = callPage(x)
    BY <2>1, <2>2, <2>3, PageStands DEF callPage
  <2>5. AnswersStand
    BY <1>1, <2>2, <2>4 DEF AnswersStand
  <2> QED
    BY <2>5, TruthKept
<1>12. ASSUME NEW g \in GroupIds, ListGrants(g) PROVE Truthful'
  BY <1>5, <1>6, <1>7, <1>12, MembersOnly DEF ListGrants, finding
<1>13. ASSUME NEW g \in GroupIds, SkipGrants(g) PROVE Truthful'
  BY <1>4, <1>13 DEF SkipGrants, finding, TypeInv, CursorOK
<1>14. ASSUME NEW j \in Jobs, CallFails(j) PROVE Truthful'
  BY <1>4, <1>14 DEF CallFails, finding, cursor
<1>15. CASE Abort
  BY <1>4, <1>15 DEF Abort, finding
<1>16. CASE Crash
  <2>1. DOMAIN cache' = {} /\ DOMAIN call' = {}
    BY <1>16 DEF Crash
  <2> QED
    BY <2>1 DEF Truthful
<1>17. CASE Expire
  <2>1. UNCHANGED <<call, bag, finder>>
    BY <1>17 DEF Expire, cursor, finding
  <2>2. \A p \in DOMAIN cache' : p \in DOMAIN cache /\ cache'[p] = cache[p]
    BY <1>17 DEF Expire, Restrict
  <2>3. \A y : callPage(y)' = callPage(y)
    BY <2>1, PageStands DEF callPage
  <2> QED
    BY <1>1, <2>1, <2>2, <2>3, TruthKept DEF AnswersStand
<1>18. CASE StartFind
  <2>1. "finder" \notin DOMAIN call /\ UNCHANGED <<cache, call, bag>>
    BY <1>18 DEF StartFind, network, cursor, TypeInv, NetworkOK, CallsOK
  <2>2. \A x \in DOMAIN call : callPage(x)' = callPage(x)
    BY <2>1, PageStands DEF callPage
  <2> QED
    BY <1>1, <2>1, <2>2, TruthKept DEF AnswersStand
<1>19. CASE FindAsks
  BY <1>3, <1>19 DEF FindAsks, cursor, finding, callPage, Callers
<1>20. CASE FindPage
  BY <1>5, <1>20 DEF FindPage, cursor, callPage
<1>21. CASE FindFails
  BY <1>4, <1>21 DEF FindFails, cursor
<1>22. CASE EditAccessUsers
  BY <1>2, <1>22 DEF EditAccessUsers, network, cursor, finding
<1>23. ASSUME NEW g \in GroupIds, EditGroup(g) PROVE Truthful'
  BY <1>2, <1>23 DEF EditGroup, network, cursor, finding
<1>24. CASE UNCHANGED vars
  BY <1>2, <1>24 DEF vars, network, cursor, finding
<1> QED
  BY <1>0, <1>8, <1>9, <1>10, <1>11, <1>12, <1>13, <1>14, <1>15, <1>16, <1>17, <1>18, <1>19, <1>20,
     <1>21, <1>22, <1>23, <1>24 DEF Next, Sync

\* A call of the users job among the Access users.
LEMMA AccessFetches ==
  ASSUME TypeInv, TypeInv', FetchedInv, OnlyJoined, ListUsers, kind("users") = "access_users",
         phase = "resources", edits' = 0 => Truthful'
  PROVE  FetchedInv'
<1>1. /\ "users" \in todo /\ StorePages({"users"}) /\ phase' = phase
      /\ UNCHANGED <<accessUsers, owed>>
      /\ advance("users", listNext(accessUsers, pageAt("users")))
  BY DEF ListUsers, mayRun, advance, upstream, history
<1>2. accessUsers \in Seq(Addresses) /\ style \in {"pages", "count", "none"}
  BY SyncAssumption DEF TypeInv, UpstreamOK
<1>3. PICK q \in Page : q = pageAt("users")
  BY PageAtType DEF TypeInv, Jobs, Listings
<1>4. AccessBefore(q)
  <2>1. CASE q = 1
    <3>1. firstOn(q) = 1
      BY <2>1, PageSizeAssumption DEF firstOn
    <3>2. \A a \in owed : \E i \in DOMAIN accessUsers : accessUsers[i] = a /\ 1 <= i
      BY <1>2 DEF TypeInv, RestOK, ToSet
    <3> QED
      BY <3>1, <3>2 DEF AccessBefore
  <2>2. CASE q # 1
    <3>1. PICK n \in Nat : bag["users"] = AccessUsers(n) /\ q = parsePageToken(n)
      BY <1>3, <2>2, WhereAccess DEF TypeInv
    <3> QED
      BY <1>1, <3>1 DEF FetchedInv, AccessFetchedInv, inAccess
  <2> QED
    BY <2>1, <2>2
<1>5. \A a \in Addresses : resources[a] # "none" => resources'[a] # "none"
  BY <1>1, ResourcesGrow
<1>6. ASSUME NEW a \in owed, resources'[a] = "none"
      PROVE  \E i \in DOMAIN accessUsers : /\ accessUsers[i] = a
                                            /\ firstOn(q + 1) <= i /\ q * PageSize < i
  <2>1. a \in Addresses
    BY <1>2 DEF TypeInv, RestOK, ToSet
  <2>2. PICK i \in DOMAIN accessUsers : accessUsers[i] = a /\ firstOn(q) <= i
    BY <1>4, <1>5, <1>6, <2>1 DEF AccessBefore
  <2>3. a \notin ToSet(pageOf(accessUsers, q))
    <3>1. usersListed = ToSet(pageOf(accessUsers, q)) /\ userKind = "access"
      BY <1>3 DEF usersListed, userKind
    <3> QED
      BY <1>1, <1>6, <2>1, <3>1, ResourcesGrow
  <2> QED
    BY <1>2, <2>2, <2>3, OnPageOrAfter
<1>7. PICK token \in Nat : token = listNext(accessUsers, q)
  BY NextType
<1>8. token \in {0, q + 1}
  BY <1>7, NextPage DEF listNext
<1>9. todo' = todo /\ bag'["users"] = IF token = 0 THEN AccountMembers(0) ELSE AccessUsers(token)
  <2>1. storedGroups \subseteq storedGroups' /\ storedGroups' \subseteq GroupIds
    BY <1>1, MembersOnly, StoringTyped
  <2> QED
    BY <1>1, <1>3, <1>7, <2>1, UsersAdvance DEF TypeInv
<1>11. ~usersOver'
  BY <1>1, <1>9 DEF usersOver
<1>12. CASE token = 0
  <2>1. AccessFetched'
    <3>1. Len(accessUsers) <= q * PageSize
      BY <1>2, <1>7, <1>12, LastPageEnds DEF listNext
    <3>2. q * PageSize \in Nat /\ Len(accessUsers) \in Nat
          /\ \A i \in DOMAIN accessUsers : i \in 1..Len(accessUsers)
      BY <1>2, PageSizeAssumption DEF Page
    <3>3. \A i \in DOMAIN accessUsers : ~(q * PageSize < i)
      BY <3>1, <3>2
    <3> QED
      BY <1>1, <1>6, <3>3 DEF AccessFetched
  <2>2. MembersBefore(1)'
    BY DEF MembersBefore, Page
  <2>3. \A n \in Nat : bag'["users"] # AccessUsers(n)
    BY <1>9, <1>12, FormsDiffer
  <2>4. \A n \in Nat : bag'["users"] = AccountMembers(n) => parsePageToken(n) = 1
    BY <1>9, <1>12, FormsDiffer DEF parsePageToken, NoToken
  <2> QED
    BY <1>11, <2>1, <2>2, <2>3, <2>4
       DEF FetchedInv, AccessFetchedInv, MembersFetchedInv, AccessUsers, AccountMembers,
       parsePageToken
<1>13. CASE token = q + 1
  <2>1. bag'["users"] = AccessUsers(token) /\ parsePageToken(token) = q + 1
    BY <1>9, <1>13 DEF Page, parsePageToken, NoToken
  <2>2. AccessBefore(q + 1)'
    BY <1>1, <1>6 DEF AccessBefore, firstOn
  <2>3. \A n \in Nat : bag'["users"] # AccountMembers(n)
    BY <1>7, <2>1, FormsDiffer
  <2>4. \A n \in Nat : bag'["users"] = AccessUsers(n) => parsePageToken(n) = q + 1
    BY <1>7, <2>1, AccessForms
  <2>5. ~inMembers'
    BY <2>3 DEF inMembers
  <2> QED
    BY <1>11, <2>2, <2>4, <2>5
       DEF FetchedInv, AccessFetchedInv, MembersFetchedInv, AccessUsers, AccountMembers,
       parsePageToken
<1> QED
  BY <1>8, <1>12, <1>13

\* Storing a page of members, in a call or before a crash, drops no member.
LEMMA MembersStay ==
  ASSUME TypeInv, Truthful, inMembers, NEW jobs, StorePages(jobs),
         "users" \in jobs => "users" \in DOMAIN call
  PROVE  /\ \A a \in Addresses : resources[a] = "member" => resources'[a] = "member"
         /\ "users" \in jobs => \A u \in usersOf(pageOf(directory, pageAt("users"))) :
                                  resources'[u] = "member"
<1>1. PICK n \in Nat : bag["users"] = AccountMembers(n)
  BY DEF inMembers
<1>2. kind("users") = "account_members"
  BY <1>1, BagForms DEF kind, jobBag, userBag, At
<1>3. pageAt("users") \in Page
  BY PageAtType DEF TypeInv, Jobs, Listings
<1>4. "users" \in jobs =>
        usersListed = usersOf(pageOf(directory, pageAt("users"))) /\ userKind = "member"
  <2>1. callPage("users") = pageAt("users")
    BY MembersOnly DEF callPage, Listings
  <2> QED
    BY <1>2, <2>1 DEF Truthful, currentPage, usersListed, userKind
<1>5. usersOf(pageOf(directory, pageAt("users"))) \subseteq Addresses
  BY <1>3, PageOfType, UsersOfType DEF TypeInv, UpstreamOK
<1>6. "users" \notin jobs => resources' = resources
  BY ResourcesGrow
<1>7. "users" \in jobs => \A a \in Addresses :
        resources'[a] = IF a \in usersOf(pageOf(directory, pageAt("users"))) THEN "member"
                        ELSE resources[a]
  BY <1>4, StoredUsers
<1> QED
  BY <1>5, <1>6, <1>7

\* A call of the users job among the account's members.
LEMMA MembersFetches ==
  ASSUME TypeInv, TypeInv', FetchedInv, OnlyJoined, ListUsers, kind("users") # "access_users",
         phase = "resources", edits' = 0 => Truthful'
  PROVE  FetchedInv'
<1>1. PICK n \in Nat : /\ pageAt("users") = parsePageToken(n)
                       /\ bag["users"] = AccountMembers(n)
                       /\ kind("users") = "account_members"
  BY WhereUsers DEF TypeInv
<1>2. /\ "users" \in todo /\ StorePages({"users"}) /\ phase' = phase
      /\ UNCHANGED <<style, directory, edits>> /\ "users" \in DOMAIN call
      /\ advance("users", membersNext("users", pageAt("users")))
  BY <1>1 DEF ListUsers, mayRun, advance, upstream
<1>3. directory \in Seq(Entries) /\ style \in {"pages", "count", "none"}
  BY SyncAssumption DEF TypeInv, UpstreamOK
<1>4. PICK q \in Page : q = pageAt("users")
  BY PageAtType DEF TypeInv, Jobs, Listings
<1>5. inMembers /\ AccessFetched
  BY <1>1, <1>2 DEF FetchedInv, AccessFetchedInv, inMembers
<1>6. \A a \in Addresses : resources[a] # "none" => resources'[a] # "none"
  BY <1>2, ResourcesGrow
<1>7. AccessFetched'
  BY <1>5, <1>6, FetchedStays
<1>8. PICK token \in Nat : token = membersNext("users", q)
  BY NextType
<1>9. token \in {0, q + 1}
  BY <1>8, NextType
<1>10. /\ todo' = IF token = 0 THEN todo \ {"users"} ELSE todo
       /\ bag'["users"] = IF token = 0 THEN <<>> ELSE AccountMembers(token)
  <2>1. storedGroups \subseteq storedGroups' /\ storedGroups' \subseteq GroupIds
    BY <1>2, MembersOnly, StoringTyped
  <2> QED
    BY <1>1, <1>2, <1>4, <1>8, <2>1, UsersAdvance DEF TypeInv
<1>11. ASSUME edits' = 0
       PROVE  /\ \A p \in Page : p < q + 1 =>
                   \A u \in usersOf(pageOf(directory, p)) : resources'[u] = "member"
              /\ token = 0 => MembersFetched'
  <2>1. Truthful /\ MembersBefore(q)
    BY <1>1, <1>2, <1>4, <1>5, <1>11 DEF FetchedInv, MembersFetchedInv
  <2>2. /\ \A a \in Addresses : resources[a] = "member" => resources'[a] = "member"
        /\ \A u \in usersOf(pageOf(directory, q)) : resources'[u] = "member"
    BY <1>2, <1>4, <1>5, <2>1, MembersStay
  <2>4. \A p \in Page : p < q + 1 => \A u \in usersOf(pageOf(directory, p)) : resources'[u] = "member"
    <3> SUFFICES ASSUME NEW p \in Page, p < q + 1, NEW u \in usersOf(pageOf(directory, p))
                 PROVE  resources'[u] = "member"
      OBVIOUS
    <3>1. u \in Addresses
      BY <1>3, PageOfType, UsersOfType
    <3>2. CASE p < q
      BY <2>1, <2>2, <3>1, <3>2 DEF MembersBefore
    <3>3. CASE p = q
      BY <2>2, <3>3
    <3> QED
      BY <3>2, <3>3 DEF Page
  <2>5. ASSUME token = 0 PROVE MembersFetched'
    <3>0. call["users"] = currentPage(q)
      BY <1>2, <1>4, <2>1, MembersOnly DEF Truthful, callPage, Listings
    <3>1. nextPageToken(q, resultInfo(style, Len(directory)), Len(pageOf(directory, q))) = 0
      <4>1. /\ call["users"].rows = pageOf(directory, q)
            /\ call["users"].info = resultInfo(style, Len(directory))
        BY <3>0 DEF currentPage
      <4> QED
        BY <1>8, <2>5, <4>1 DEF membersNext
    <3>2. \A u \in usersOf(directory) : \E p \in Page : p <= q /\ u \in usersOf(pageOf(directory, p))
      BY <1>3, <3>1, PagesHoldUsers
    <3>3. \A u \in usersOf(directory) : resources'[u] = "member"
      BY <2>4, <3>2 DEF Page
    <3> QED
      BY <1>2, <3>3 DEF MembersFetched, usersOf
  <2> QED
    BY <2>4, <2>5
<1>12. CASE token = 0
  <2>1. ~inAccess' /\ ~inMembers'
    BY <1>10, <1>12 DEF inAccess, inMembers
  <2> QED
    BY <1>7, <1>11, <1>12, <2>1 DEF FetchedInv, AccessFetchedInv, MembersFetchedInv
<1>13. CASE token = q + 1
  <2>1. /\ bag'["users"] = AccountMembers(token) /\ parsePageToken(token) = q + 1
        /\ todo' = todo
    BY <1>10, <1>13 DEF Page, parsePageToken, NoToken
  <2>2. \A p \in Page : usersOf(pageOf(directory, p))' = usersOf(pageOf(directory, p))
    BY <1>2 DEF usersOf, pageOf
  <2>3. edits' = 0 => MembersBefore(q + 1)'
    BY <1>11, <2>2 DEF MembersBefore
  <2>4. \A m \in Nat : bag'["users"] # AccessUsers(m)
    BY <1>8, <2>1, FormsDiffer
  <2>5. \A m \in Nat : bag'["users"] = AccountMembers(m) => parsePageToken(m) = q + 1
    BY <1>8, <2>1, FormsDiffer
  <2>6. ~usersOver'
    BY <1>2, <2>1 DEF usersOver
  <2> QED
    BY <1>7, <2>3, <2>4, <2>5, <2>6
       DEF FetchedInv, AccessFetchedInv, MembersFetchedInv, AccessUsers, AccountMembers, parsePageToken
<1> QED
  BY <1>9, <1>12, <1>13

\* A crash loses the cache, and perhaps the place, and no user.
LEMMA CrashKeepsFetched ==
  ASSUME TypeInv, TypeInv', FetchedInv, OnlyJoined, Crash, edits' = 0 => Truthful'
  PROVE  FetchedInv'
<1>1. PICK running \in SUBSET {j \in todo : mayRun(j) /\ (listsMembers(j) => j \in DOMAIN call)} :
        StorePages(running)
  BY DEF Crash
<1>2. phase \in {"resources", "grants"} /\ UNCHANGED <<directory, edits>>
  BY DEF Crash, upstream
<1>4. \A a \in Addresses : resources[a] # "none" => resources'[a] # "none"
  BY <1>1, ResourcesGrow
<1>5. usersOver => resources' = resources
  <2>1. usersOver => "users" \notin todo
    BY <1>2, MembersOnly DEF usersOver, TypeInv, CursorOK
  <2> QED
    BY <1>1, <2>1, ResourcesGrow
<1>6. edits = 0 /\ (inMembers \/ usersOver) =>
        \A a \in Addresses : resources[a] = "member" => resources'[a] = "member"
  <2>1. inMembers => listsMembers("users")
    BY BagForms DEF inMembers, listsMembers, kind, jobBag, userBag, At
  <2>2. inMembers /\ "users" \in running => "users" \in DOMAIN call
    BY <1>1, <2>1
  <2> QED
    BY <1>1, <1>5, <2>2, MembersStay DEF FetchedInv, MembersFetchedInv
<1>7. CASE UNCHANGED cursor
  <2>1. phase' = phase /\ todo' = todo /\ bag' = bag
    BY <1>7 DEF cursor
  <2> QED
    BY <1>2, <1>4, <1>6, <2>1, FetchedSteady
<1>8. CASE resumeAt("resources", Listings)
  <2>1. phase' = "resources" /\ todo' = Listings /\ bag'["users"] = <<>>
    BY <1>8 DEF resumeAt, unstarted, Jobs, Listings
  <2>2. ~inAccess' /\ ~inMembers' /\ ~usersOver'
    BY <2>1, BagForms DEF inAccess, inMembers, usersOver, Listings, AccessUsers, AccountMembers,
       Two, One, At
  <2> QED
    BY <2>2 DEF FetchedInv, AccessFetchedInv, MembersFetchedInv
<1>9. CASE phase = "grants" /\ resumeAt("grants", storedGroups)
  <2>1. phase = "grants" /\ phase' = "grants" /\ usersOver
    BY <1>9 DEF resumeAt, usersOver
  <2>2. AccessFetched' /\ (edits' = 0 => MembersFetched')
    BY <1>2, <1>4, <1>6, <2>1, FetchedStays DEF FetchedInv, AccessFetchedInv, MembersFetchedInv
  <2> QED
    BY <2>1, <2>2 DEF FetchedInv, AccessFetchedInv, MembersFetchedInv, inAccess, inMembers
<1> QED
  BY <1>7, <1>8, <1>9 DEF Crash

LEMMA FetchedStep ==
  ASSUME TypeInv, FetchedInv, [Next]_vars
  PROVE  FetchedInv'
<1>0. TypeInv'
  BY TypeStep
<1>1. "users" \in Listings /\ "users" \notin GroupIds /\ "users" \in Jobs
      /\ \A g \in GroupIds : g \in Jobs
  BY SyncAssumption DEF Listings, Jobs
<1>2. edits' = 0 => edits = 0 /\ Truthful' /\ directory' = directory
  <2>1. edits' = 0 => edits = 0
    <3>1. edits \in Nat /\ (EditMembers => edits' # 0)
      BY DEF TypeInv, UpstreamOK, EditMembers
    <3>2. ~EditMembers => edits' = edits
      BY DEF Next, Sync, Begin, AskMembers, ListUsers, ListGroups, ListRoles, PlanGrants, Finish,
         ListGrants, SkipGrants, CallFails, Abort, Crash, Expire, StartFind, FindAsks, FindPage,
         FindFails, EditAccessUsers, EditGroup, upstream, vars
    <3> QED
      BY <3>1, <3>2
  <2> QED
    BY <2>1, TruthStep DEF FetchedInv, MembersFetchedInv
<1>3. ~Begin => OnlyJoined
  BY JoinedStep
<1>4. ASSUME UNCHANGED <<phase, todo, bag, resources>>, ~Begin PROVE FetchedInv'
  BY <1>0, <1>2, <1>3, <1>4, FetchedSteady
<1>5. CASE Begin
  <2>1. phase' = "resources" /\ todo' = Listings /\ bag'["users"] = <<>>
    BY <1>1, <1>5, NothingBegun DEF Begin, TypeInv, CursorOK, unstarted
  <2>2. ~inAccess' /\ ~inMembers' /\ ~usersOver'
    BY <2>1, BagForms DEF inAccess, inMembers, usersOver, Listings, AccessUsers, AccountMembers,
       Two, One, At
  <2> QED
    BY <1>2, <2>2 DEF FetchedInv, AccessFetchedInv, MembersFetchedInv
<1> SUFFICES ASSUME ~Begin PROVE FetchedInv'
  BY <1>5
<1>6. CASE ListUsers
  <2>1. phase = "resources"
    BY <1>1, <1>6 DEF ListUsers, mayRun, TypeInv, CursorOK
  <2> QED
    BY <1>0, <1>2, <1>3, <1>6, <2>1, AccessFetches, MembersFetches
<1>7. ASSUME NEW j \in todo, j # "users", StorePages({j}), NEW token \in Nat, advance(j, token),
             j \in GroupIds => j \in DOMAIN call
      PROVE  FetchedInv'
  <2>1. resources' = resources
    BY <1>7, ResourcesGrow
  <2>2. storedGroups \subseteq storedGroups' /\ storedGroups' \subseteq GroupIds
    BY <1>7, StoringTyped
  <2>3. /\ \A g \in Jobs \ {j} : bag'[g] = bag[g]
        /\ todo' = IF token = 0 THEN todo \ {j} ELSE todo
    BY <1>7, <2>2, OthersAdvance DEF TypeInv
  <2>4. phase' = phase /\ bag'["users"] = bag["users"] /\ ("users" \in todo' <=> "users" \in todo)
    BY <1>1, <1>7, <2>3 DEF advance
  <2> QED
    BY <1>0, <1>2, <1>3, <2>1, <2>4, FetchedSteady
<1>8. CASE ListGroups
  <2>1. groupsNext(pageAt("groups")) \in Nat
    BY NextType, PageAtType DEF TypeInv, Jobs, Listings
  <2> QED
    BY <1>7, <1>8, <2>1, MembersOnly DEF ListGroups, mayRun
<1>9. CASE ListRoles
  <2>1. listNext(Roles, pageAt("roles")) \in Nat
    BY NextType, PageAtType DEF TypeInv, Jobs, Listings
  <2> QED
    BY <1>7, <1>9, <2>1, MembersOnly DEF ListRoles, mayRun
<1>10. ASSUME NEW g \in GroupIds, ListGrants(g) PROVE FetchedInv'
  <2>1. membersNext(g, pageAt(g)) \in Nat
    BY <1>1, NextType, PageAtType DEF TypeInv
  <2> QED
    BY <1>1, <1>7, <1>10, <2>1 DEF ListGrants, mayRun
<1>11. CASE PlanGrants \/ Finish
  <2>1. usersOver /\ usersOver' /\ phase' \in {"grants", "done"} /\ resources' = resources
    BY <1>11 DEF PlanGrants, Finish, store, usersOver
  <2>2. AccessFetched' /\ (edits' = 0 => MembersFetched')
    BY <1>0, <1>2, <1>3, <2>1, FetchedStays DEF FetchedInv, AccessFetchedInv, MembersFetchedInv
  <2> QED
    BY <1>2, <2>1, <2>2 DEF FetchedInv, AccessFetchedInv, MembersFetchedInv, inAccess, inMembers
<1>12. ASSUME NEW g \in GroupIds, SkipGrants(g) PROVE FetchedInv'
  <2>1. /\ UNCHANGED <<phase, resources>>
        /\ bag' = [bag EXCEPT ![g] = <<>>] /\ todo' = todo \ {g} /\ g # "users"
        /\ bag \in [Jobs -> Seq(States)]
    BY <1>1, <1>12 DEF SkipGrants, store, TypeInv, CursorOK
  <2>2. bag'["users"] = bag["users"] /\ ("users" \in todo' <=> "users" \in todo)
    BY <1>1, <2>1
  <2> QED
    BY <1>0, <1>2, <1>3, <2>1, <2>2, FetchedSteady
<1>13. CASE Crash
  BY <1>0, <1>2, <1>3, <1>13, CrashKeepsFetched
<1>14. CASE Expire \/ StartFind \/ FindAsks \/ FindPage \/ FindFails \/ EditMembers
            \/ EditAccessUsers \/ UNCHANGED vars
  BY <1>4, <1>14 DEF Expire, StartFind, FindAsks, FindPage, FindFails, EditMembers,
     EditAccessUsers, vars, cursor, store
<1>15. ASSUME NEW g \in GroupIds, EditGroup(g) PROVE FetchedInv'
  BY <1>4, <1>15 DEF EditGroup, cursor, store
<1>16. ASSUME NEW j \in Jobs, AskMembers(j) \/ CallFails(j) PROVE FetchedInv'
  BY <1>4, <1>16 DEF AskMembers, CallFails, cursor, store
<1>17. CASE Abort
  <2>1. ~inAccess' /\ ~inMembers' /\ ~usersOver'
    BY <1>17 DEF Abort, inAccess, inMembers, usersOver
  <2> QED
    BY <1>2, <2>1 DEF FetchedInv, AccessFetchedInv, MembersFetchedInv
<1> QED
  BY <1>6, <1>8, <1>9, <1>10, <1>11, <1>12, <1>13, <1>14, <1>15, <1>16, <1>17 DEF Next, Sync

\* Every Access user that is there throughout is fetched before grants are
\* listed, whoever joins among them, unless one left; and, unless members were
\* edited, every member, whatever the size of pages and the metadata
\* Cloudflare pages with, though groups change, calls fail or overlap, cached
\* pages expire and the connector crashes: a listing ends only where
\* Cloudflare's does, and a sync that falls back begins the listing of users
\* anew.
THEOREM EveryoneFetched == Spec => []EveryUserFetched
<1>1. Spec => []TypeInv
  BY TypeInit, TypeStep, PTL DEF Spec
<1>2. Init => FetchedInv
  <2> SUFFICES ASSUME Init PROVE FetchedInv
    OBVIOUS
  <2>1. DOMAIN cache = {} /\ DOMAIN call = {} /\ ~inAccess /\ ~inMembers /\ ~usersOver
    BY DEF Init, inAccess, inMembers, usersOver
  <2> QED
    BY <2>1 DEF FetchedInv, AccessFetchedInv, MembersFetchedInv, Truthful
<1>3. TypeInv /\ FetchedInv /\ [Next]_vars => FetchedInv'
  BY FetchedStep
<1>4. FetchedInv => EveryUserFetched
  BY DEF FetchedInv, AccessFetchedInv, MembersFetchedInv, EveryUserFetched,
     usersOver, AccessFetched, MembersFetched
<1> QED
  BY <1>1, <1>2, <1>3, <1>4, PTL DEF Spec

=============================================================================
