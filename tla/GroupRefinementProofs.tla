----------------------- MODULE GroupRefinementProofs -----------------------
(***************************************************************************)
(* GroupProvisioning implements GroupMembership when tasks run one at a    *)
(* time and nobody else writes the group: for every number of tasks and    *)
(* retries, every group, every list of rules and every set of addresses.   *)
(***************************************************************************)
EXTENDS GroupProvisioningProofs, FiniteSetTheorems

\* One task at a time, no other writer, and Blank is not the folded form of
\* an address, so that it can stand for a request that names nobody.
OneAtATime ==
  /\ Slots = 1 /\ MaxEdits = 0 /\ LateWrites = FALSE
  /\ IsFiniteSet(Tasks)
  /\ Blank \notin {FoldOf[a] : a \in Addresses}

\* What the task that runs knows of the group: nothing has changed it since
\* the task began, or its own write has and the group is as it asked.
TaskAlone(t) ==
  /\ pc[t] = "queued" => seen[t] = {}
  /\ running(t) => \/ seen[t] = {Admitted(t, group)}
                   \/ /\ wellFormed(t) /\ seen[t] = BOOLEAN
                      /\ Admitted(t, group) = isGrant(t)
  /\ pc[t] = "put" => /\ snapshot[t] = group
                      /\ seen[t] # BOOLEAN /\ Admitted(t, group) = ~isGrant(t)
  /\ pc[t] = "ack" => seen[t] = BOOLEAN /\ Admitted(t, group) = isGrant(t)

AloneInv ==
  /\ inflight = {}
  /\ edits = 0
  /\ \A t, u \in Tasks : running(t) /\ running(u) => t = u
  /\ \A t \in Tasks : TaskAlone(t)

\* What the variables of GroupMembership are mapped to.
Asked   == [t \in Tasks |->
              [op  |-> request[t].op,
               who |-> IF wellFormed(t) THEN FoldOf[email(t)] ELSE Blank]]
Status  == [t \in Tasks |-> IF running(t) THEN "running"
                            ELSE IF pc[t] = "queued" THEN "queued" ELSE result[t]]
Changed == [t \in Tasks |-> seen[t] = BOOLEAN]

(***************************************************************************)
(* Membership as a set of folded addresses                                 *)
(***************************************************************************)

\* A rule cannot tell two spellings of an address apart.
LEMMA RulesFold ==
  ASSUME NEW rule, NEW e \in Emails, NEW f \in Emails, EqualFold(e, f)
  PROVE  evaluateRule(rule, e) = evaluateRule(rule, f)
<1>1. DomainOf[e] = DomainOf[f] /\ FoldOf[e] = FoldOf[f]
  BY FoldAssumption DEF EqualFold
<1> QED
  BY <1>1 DEF evaluateRule, EqualFold

\* Nor can a group.
LEMMA MembershipFolds ==
  ASSUME NEW grp, NEW rules, NEW e \in Emails, NEW f \in Emails, EqualFold(e, f)
  PROVE  isMember(grp, rules, e) = isMember(grp, rules, f)
<1>1. \A list : anyRuleMatches(list, e) = anyRuleMatches(list, f)
  BY RulesFold DEF anyRuleMatches
<1>2. \A list : allRulesMatch(list, e) = allRulesMatch(list, f)
  BY RulesFold DEF allRulesMatch
<1> QED
  BY <1>1, <1>2 DEF isMember, matchesDirectRules, satisfiesRequireExclude

\* A user is in the set exactly if the group admits the address.
LEMMA MembershipIsAdmission ==
  ASSUME NEW grp, NEW e \in Addresses
  PROVE  FoldOf[e] \in Membership(grp) <=> isMember(grp, grp.include, e)
<1>1. ASSUME FoldOf[e] \in Membership(grp) PROVE isMember(grp, grp.include, e)
  <2>1. PICK a \in Addresses : isMember(grp, grp.include, a) /\ FoldOf[e] = FoldOf[a]
    BY <1>1 DEF Membership
  <2> QED
    BY <2>1, MembershipFolds DEF EqualFold, Emails
<1> QED
  BY <1>1 DEF Membership

\* Groups that differ over one user only have sets that differ by one.
LEMMA OneUserMoves ==
  ASSUME NEW old, NEW new, NEW e \in Addresses,
         \A a \in Addresses : ~EqualFold(a, e) =>
           isMember(new, new.include, a) = isMember(old, old.include, a)
  PROVE  /\ isMember(new, new.include, e) => Membership(new) = Membership(old) \cup {FoldOf[e]}
         /\ ~isMember(new, new.include, e) => Membership(new) = Membership(old) \ {FoldOf[e]}
<1>1. ASSUME NEW a \in Addresses, ~EqualFold(a, e)
      PROVE  FoldOf[a] \in Membership(new) <=> FoldOf[a] \in Membership(old)
  BY <1>1, MembershipIsAdmission
<1>2. \A x : x \in Membership(new) \/ x \in Membership(old) =>
               \E a \in Addresses : x = FoldOf[a]
  BY DEF Membership
<1>3. FoldOf[e] \in Membership(new) <=> isMember(new, new.include, e)
  BY MembershipIsAdmission
<1> QED
  BY <1>1, <1>2, <1>3 DEF EqualFold

(***************************************************************************)
(* Each kind of step keeps the task alone and is a step of the promise     *)
(***************************************************************************)

\* The task at work is the only one there is to look at.
LEMMA AloneStep ==
  ASSUME AloneInv, NEW t \in Tasks, TaskAlone(t)', inflight' = inflight, edits' = edits,
         \A u \in Tasks \ {t} : ~running(u) /\ pc'[u] = pc[u] /\ seen'[u] = seen[u]
  PROVE  AloneInv'
<1>1. \A u \in Tasks \ {t} : TaskAlone(u) /\ ~running(u)'
  BY DEF AloneInv, running
<1>2. \A u \in Tasks \ {t} : TaskAlone(u)'
  BY <1>1 DEF TaskAlone, running
<1>3. \A u, v \in Tasks : running(u)' /\ running(v)' => u = v
  BY <1>1
<1> QED
  BY <1>2, <1>3 DEF AloneInv

\* While a task runs, no other does.
LEMMA NobodyElseRuns ==
  ASSUME AloneInv, NEW t \in Tasks, running(t)
  PROVE  \A u \in Tasks \ {t} : ~running(u)
BY DEF AloneInv

\* With one slot, a task is only claimed when none runs.
LEMMA ClaimedAlone ==
  ASSUME OneAtATime, NEW t \in Tasks, claim(t)
  PROVE  \A u \in Tasks : ~running(u)
<1> DEFINE R == {u \in Tasks : running(u)}
<1>1. IsFiniteSet(R) /\ Cardinality(R) < 1
  BY FS_Subset DEF OneAtATime, claim
<1>2. Cardinality(R) \in Nat
  BY <1>1, FS_CardinalityType
<1>3. Cardinality(R) = 0
  BY <1>1, <1>2
<1>4. R = {}
  BY <1>1, <1>3, FS_EmptySet
<1> QED
  BY <1>4

\* How the mapped status follows a task.
LEMMA StatusFollows ==
  ASSUME TypeOK, NEW t \in Tasks, running(t)
  PROVE  /\ Status[t] = "running"
         /\ \A a : answer(t, a) => Status' = [Status EXCEPT ![t] = a]
         /\ \A p : pc' = [pc EXCEPT ![t] = p] /\ p \notin {"queued", "done"}
                   /\ result' = result => Status' = Status
<1>1. ASSUME NEW a, answer(t, a) PROVE Status' = [Status EXCEPT ![t] = a]
  <2>1. /\ \A u \in Tasks \ {t} : pc'[u] = pc[u] /\ result'[u] = result[u]
        /\ pc'[t] = "done" /\ result'[t] = a
    BY <1>1 DEF TypeOK, answer
  <2> QED
    BY <2>1 DEF Status, running
<1>2. ASSUME NEW p, pc' = [pc EXCEPT ![t] = p], p \notin {"queued", "done"}, result' = result
      PROVE  Status' = Status
  <2>1. /\ \A u \in Tasks \ {t} : pc'[u] = pc[u]
        /\ pc'[t] = p
    BY <1>2 DEF TypeOK
  <2> QED
    BY <1>2, <2>1 DEF Status, running
<1> QED
  BY <1>1, <1>2 DEF Status

\* A call, or a wait, that ends without an answer or with an error.
LEMMA ErrorKeepsPromise ==
  ASSUME ProvisioningInv, AloneInv, NEW t \in Tasks, running(t),
         UNCHANGED <<group, edits, inflight, request, seen>>,
         \/ answer(t, "failed")
         \/ result' = result /\ \E p \in {"wait", "call"} : pc' = [pc EXCEPT ![t] = p]
  PROVE  /\ AloneInv'
         /\ Promise!Fail(t) \/ UNCHANGED Promise!vars
<1>1. TypeOK /\ TaskAlone(t)
  BY DEF ProvisioningInv, AloneInv
<1>2. \A u \in Tasks \ {t} : ~running(u) /\ pc'[u] = pc[u]
  BY <1>1, NobodyElseRuns DEF TypeOK, answer
<1>3. TaskAlone(t)'
  <2>1. pc'[t] \in {"wait", "call", "done"}
    BY <1>1 DEF TypeOK, answer
  <2>2. /\ Admitted(t, group)' = Admitted(t, group) /\ isGrant(t)' = isGrant(t)
        /\ wellFormed(t)' = wellFormed(t)
    BY DEF Admitted, email, isGrant, wellFormed
  <2> QED
    BY <1>1, <2>1, <2>2 DEF TaskAlone
<1>4. AloneInv'
  BY <1>2, <1>3, AloneStep
<1>5. Membership(group)' = Membership(group) /\ Asked' = Asked /\ Changed' = Changed
  BY DEF Membership, Asked, Changed, wellFormed, email
<1>6. CASE answer(t, "failed")
  <2>1. Status[t] = "running" /\ Status' = [Status EXCEPT ![t] = "failed"]
    BY <1>1, <1>6, StatusFollows
  <2> QED
    BY <1>4, <1>5, <2>1 DEF Promise!Fail, Asked, Status, Changed
<1>7. CASE result' = result /\ \E p \in {"wait", "call"} : pc' = [pc EXCEPT ![t] = p]
  <2>1. Status' = Status
    BY <1>1, <1>7, StatusFollows
  <2> QED
    BY <1>4, <1>5, <2>1 DEF Promise!vars, Asked, Status, Changed
<1> QED
  BY <1>6, <1>7

LEMMA StartKeepsPromise ==
  ASSUME OneAtATime, ProvisioningInv, AloneInv, NEW t \in Tasks, Start(t)
  PROVE  AloneInv' /\ Promise!Begin(t)
<1>1. TypeOK
  BY DEF ProvisioningInv
<1>2. /\ pc[t] = "queued" /\ pc' = [pc EXCEPT ![t] = "call"]
      /\ seen' = [seen EXCEPT ![t] = {Admitted(t, group)}]
      /\ UNCHANGED <<group, edits, inflight, request, result>>
      /\ \A u \in Tasks : ~running(u)
  BY ClaimedAlone DEF Start, claim
<1>3. /\ \A u \in Tasks \ {t} : pc'[u] = pc[u] /\ seen'[u] = seen[u]
      /\ pc'[t] = "call" /\ seen'[t] = {Admitted(t, group)}
  BY <1>1, <1>2 DEF TypeOK
<1>4. Admitted(t, group)' = Admitted(t, group) /\ TaskAlone(t)'
  BY <1>2, <1>3 DEF TaskAlone, Admitted, email
<1>5. AloneInv'
  BY <1>2, <1>3, <1>4, AloneStep
<1>6. Membership(group)' = Membership(group) /\ Asked' = Asked
  BY <1>2 DEF Membership, Asked, wellFormed, email
<1>7. Changed' = Changed
  <2>1. seen[t] = {}
    BY <1>2 DEF AloneInv, TaskAlone
  <2>2. seen[t] # BOOLEAN /\ seen'[t] # BOOLEAN
    BY <1>3, <2>1
  <2> QED
    BY <1>3, <2>2 DEF Changed
<1>8. Status[t] = "queued" /\ Status' = [Status EXCEPT ![t] = "running"]
  <2>1. running(t)' /\ \A u \in Tasks \ {t} : running(u)' = running(u)
    BY <1>3 DEF running
  <2> QED
    BY <1>2, <1>3, <2>1 DEF Status
<1>9. \A u \in Tasks : Status[u] # "running"
  BY <1>1, <1>2 DEF Status, TypeOK, Answers
<1> QED
  BY <1>5, <1>6, <1>7, <1>8, <1>9 DEF Promise!Begin, Asked, Status, Changed

\* What Grant and Revoke decide, by whether the group admits the user.
LEMMA DecisionAnswers ==
  ASSUME NEW t \in Tasks,
         IF isGrant(t) THEN grantDecision(t, group) ELSE revokeOutcome(t, group)
  PROVE  \/ Admitted(t, group) = ~isGrant(t) /\ \E rules : proceed(t, rules)
         \/ Admitted(t, group) = ~isGrant(t) /\ answer(t, "refused")
         \/ Admitted(t, group) /\ isGrant(t) /\ answer(t, "alreadyExists")
         \/ ~Admitted(t, group) /\ ~isGrant(t) /\ answer(t, "alreadyRevoked")
<1>1. CASE isGrant(t)
  <2>1. grantDecision(t, group)
    BY <1>1
  <2> QED
    BY <1>1, <2>1 DEF grantDecision, decline, Admitted, isMember, matchesDirectRules
<1>2. CASE ~isGrant(t)
  <2> DEFINE decision == revokeDecision(group, email(t))
  <2>1. revokeOutcome(t, group)
    BY <1>2
  <2>2. CASE ~isMember(group, group.include, email(t))
    <3>1. decision = "revokeNotAMember"
      BY <2>2 DEF revokeDecision
    <3>2. answer(t, "alreadyRevoked")
      BY <2>1, <3>1 DEF revokeOutcome, decline
    <3> QED
      BY <1>2, <2>2, <3>2 DEF Admitted
  <2>3. CASE isMember(group, group.include, email(t))
    <3>1. decision \in {"revokeBlocked", "revokeRemoveRule"}
      BY <2>3 DEF revokeDecision
    <3>2. answer(t, "refused") \/ \E rules : proceed(t, rules)
      BY <2>1, <3>1 DEF revokeOutcome, decline
    <3>3. Admitted(t, group) = ~isGrant(t)
      BY <1>2, <2>3 DEF Admitted, isGrant, isMember, matchesDirectRules
    <3> QED
      BY <3>2, <3>3
  <2> QED
    BY <2>2, <2>3
<1> QED
  BY <1>1, <1>2

\* What a well formed request asks is whether its user is in the set.
LEMMA SatisfiedIsAdmitted ==
  ASSUME TypeOK, NEW t \in Tasks, wellFormed(t)
  PROVE  /\ Asked[t].op = "grant" <=> isGrant(t)
         /\ Asked[t].who = FoldOf[email(t)]
         /\ Asked[t].who \in Membership(group) <=> Admitted(t, group)
<1>1. email(t) \in Addresses
  BY EmailTyped
<1> QED
  BY <1>1, MembershipIsAdmission DEF Asked, isGrant, Admitted

LEMMA ReadKeepsPromise ==
  ASSUME ProvisioningInv, AloneInv, NEW t \in Tasks, Read(t)
  PROVE  /\ AloneInv'
         /\ Promise!Succeed(t) \/ Promise!Refuse(t) \/ UNCHANGED Promise!vars
<1>1. TypeOK /\ TaskAlone(t)
  BY DEF ProvisioningInv, AloneInv
<1>2. /\ pc[t] = "call" /\ running(t) /\ wellFormed(t)
      /\ snapshot' = [snapshot EXCEPT ![t] = group]
      /\ UNCHANGED <<group, edits, inflight, request, attempts, seen>>
  BY DEF Read, running
<1>3. \/ /\ Admitted(t, group) = ~isGrant(t)
         /\ pc' = [pc EXCEPT ![t] = "put"] /\ result' = result
      \/ Admitted(t, group) = ~isGrant(t) /\ answer(t, "refused")
      \/ Admitted(t, group) /\ isGrant(t) /\ answer(t, "alreadyExists")
      \/ ~Admitted(t, group) /\ ~isGrant(t) /\ answer(t, "alreadyRevoked")
  BY DecisionAnswers DEF Read, proceed
<1>4. /\ \A u \in Tasks \ {t} : ~running(u) /\ pc'[u] = pc[u]
      /\ \/ pc'[t] = "put" /\ Admitted(t, group) = ~isGrant(t)
         \/ pc'[t] = "done"
  BY <1>1, <1>2, <1>3, NobodyElseRuns DEF TypeOK, answer
<1>5. /\ Admitted(t, group)' = Admitted(t, group) /\ isGrant(t)' = isGrant(t)
      /\ wellFormed(t)' = wellFormed(t)
  BY <1>2 DEF Admitted, email, isGrant, wellFormed
<1>6. Admitted(t, group) = ~isGrant(t) => seen[t] # BOOLEAN
  <2>1. seen[t] = {Admitted(t, group)} => seen[t] # BOOLEAN
    OBVIOUS
  <2>2. ~(Admitted(t, group) = isGrant(t) /\ Admitted(t, group) = ~isGrant(t))
    BY DEF isGrant
  <2> QED
    BY <1>1, <1>2, <2>1, <2>2 DEF TaskAlone
<1>7. TaskAlone(t)'
  <2>1. snapshot'[t] = group
    BY <1>1, <1>2 DEF TypeOK
  <2> QED
    BY <1>1, <1>2, <1>4, <1>5, <1>6, <2>1 DEF TaskAlone
<1>8. AloneInv'
  BY <1>2, <1>4, <1>7, AloneStep
<1>9. Membership(group)' = Membership(group) /\ Asked' = Asked /\ Changed' = Changed
  BY <1>2 DEF Membership, Asked, Changed, wellFormed, email
<1>10. /\ Status[t] = "running"
       /\ \A a : answer(t, a) => Status' = [Status EXCEPT ![t] = a]
  BY <1>1, <1>2, StatusFollows
<1>11. /\ Asked[t].op = "grant" <=> isGrant(t)
       /\ Asked[t].who \in Membership(group) <=> Admitted(t, group)
  BY <1>1, <1>2, SatisfiedIsAdmitted
<1>12. CASE pc' = [pc EXCEPT ![t] = "put"] /\ result' = result
  <2>1. Status' = Status
    <3>1. "put" \notin {"queued", "done"}
      OBVIOUS
    <3>2. \A p : pc' = [pc EXCEPT ![t] = p] /\ p \notin {"queued", "done"}
                 /\ result' = result => Status' = Status
      BY <1>1, <1>2, StatusFollows
    <3> QED
      BY <1>12, <3>1, <3>2
  <2> QED
    BY <1>8, <1>9, <2>1 DEF Promise!vars, Asked, Status, Changed
<1>13. CASE Admitted(t, group) = ~isGrant(t) /\ answer(t, "refused")
  <2>1. ~Changed[t]
    BY <1>6, <1>13 DEF Changed
  <2>2. ~((Asked[t].who \in Membership(group)) = (Asked[t].op = "grant"))
    BY <1>11, <1>13
  <2>3. Status' = [Status EXCEPT ![t] = "refused"]
    BY <1>10, <1>13
  <2> QED
    BY <1>8, <1>9, <1>10, <2>1, <2>2, <2>3
       DEF Promise!Refuse, Promise!Satisfied, Promise!Grants, Asked, Status, Changed
<1>14. CASE Admitted(t, group) /\ isGrant(t) /\ answer(t, "alreadyExists")
  <2>1. (Asked[t].who \in Membership(group)) /\ Asked[t].op = "grant"
    BY <1>11, <1>14
  <2>2. Status' = [Status EXCEPT ![t] = "alreadyExists"]
    BY <1>10, <1>14
  <2> QED
    BY <1>8, <1>9, <1>10, <2>1, <2>2
       DEF Promise!Succeed, Promise!Satisfied, Promise!Grants, Asked, Status, Changed
<1>15. CASE ~Admitted(t, group) /\ ~isGrant(t) /\ answer(t, "alreadyRevoked")
  <2>1. (Asked[t].who \notin Membership(group)) /\ Asked[t].op # "grant"
    BY <1>11, <1>15
  <2>2. Status' = [Status EXCEPT ![t] = "alreadyRevoked"]
    BY <1>10, <1>15
  <2> QED
    BY <1>8, <1>9, <1>10, <2>1, <2>2
       DEF Promise!Succeed, Promise!Satisfied, Promise!Grants, Asked, Status, Changed
<1> QED
  BY <1>3, <1>12, <1>13, <1>14, <1>15

LEMMA ApplyKeepsPromise ==
  ASSUME OneAtATime, ProvisioningInv, AloneInv, NEW t \in Tasks, Apply(t)
  PROVE  AloneInv' /\ Promise!Move(t)
<1>1. TypeOK /\ TaskAlone(t) /\ PendingWrite(t) /\ wellFormed(t)
  BY DEF ProvisioningInv, TaskInv, AloneInv, Apply, PendingWrite
<1>2. /\ pc[t] = "put" /\ running(t)
      /\ Witness(group') /\ pc' = [pc EXCEPT ![t] = "ack"]
      /\ UNCHANGED <<edits, inflight, request, result>>
  BY DEF Apply, running
<1>3. /\ snapshot[t] = group /\ seen[t] # BOOLEAN
      /\ Admitted(t, group) = ~isGrant(t)
  BY <1>1, <1>2 DEF TaskAlone
<1>4. /\ email(t) \in Addresses
      /\ \A a \in Addresses : ~EqualFold(a, email(t)) =>
           isMember(group', group'.include, a) = isMember(group, group.include, a)
      /\ isMember(group', group'.include, email(t)) = isGrant(t)
  BY <1>1, <1>3, EmailTyped, WriteMovesOneUser
<1>5. /\ \A u \in Tasks \ {t} : ~running(u) /\ pc'[u] = pc[u] /\ seen'[u] = seen[u]
      /\ pc'[t] = "ack" /\ seen'[t] = seen[t] \cup {isGrant(t)}
  <2>1. \A u \in Tasks \ {t} : ~running(u)
    BY <1>2, NobodyElseRuns
  <2>2. seen' = [u \in Tasks |-> IF running(u) THEN seen[u] \cup {Admitted(u, group')}
                                 ELSE seen[u]]
    BY <1>2 DEF Witness
  <2>3. Admitted(t, group') = isGrant(t)
    BY <1>4 DEF Admitted
  <2> QED
    BY <1>1, <1>2, <2>1, <2>2, <2>3 DEF TypeOK
<1>6. seen'[t] = BOOLEAN
  <2>1. seen[t] = {~isGrant(t)}
    BY <1>1, <1>2, <1>3 DEF TaskAlone
  <2>2. {~isGrant(t)} \cup {isGrant(t)} = BOOLEAN
    <3>1. isGrant(t) \in BOOLEAN
      BY DEF isGrant
    <3> QED
      BY <3>1
  <2> QED
    BY <1>5, <2>1, <2>2
<1>7. TaskAlone(t)'
  <2>1. isGrant(t)' = isGrant(t) /\ wellFormed(t)' /\ Admitted(t, group)' = isGrant(t)
    BY <1>1, <1>2, <1>4 DEF isGrant, wellFormed, Admitted, email
  <2> QED
    BY <1>5, <1>6, <2>1 DEF TaskAlone
<1>8. AloneInv'
  BY <1>2, <1>5, <1>7, AloneStep
<1>9. Asked' = Asked
  BY <1>2 DEF Asked, wellFormed, email
<1>10. Status[t] = "running" /\ Status' = Status
  <2>1. "ack" \notin {"queued", "done"}
    OBVIOUS
  <2>2. /\ Status[t] = "running"
        /\ \A p : pc' = [pc EXCEPT ![t] = p] /\ p \notin {"queued", "done"}
                  /\ result' = result => Status' = Status
    BY <1>1, <1>2, StatusFollows
  <2> QED
    BY <1>2, <2>1, <2>2
<1>11. ~Changed[t] /\ Changed' = [Changed EXCEPT ![t] = TRUE]
  <2>1. ~Changed[t]
    BY <1>3 DEF Changed
  <2>2. \A u \in Tasks : (seen'[u] = BOOLEAN) = IF u = t THEN TRUE ELSE seen[u] = BOOLEAN
    BY <1>5, <1>6
  <2> QED
    BY <2>1, <2>2 DEF Changed
<1>12. /\ Asked[t].op = "grant" <=> isGrant(t)
       /\ Asked[t].who = FoldOf[email(t)]
       /\ Asked[t].who \in Membership(group) <=> Admitted(t, group)
  BY <1>1, SatisfiedIsAdmitted
<1>13. /\ Asked[t].who # Blank
       /\ ~((Asked[t].who \in Membership(group)) = (Asked[t].op = "grant"))
  BY <1>3, <1>4, <1>12 DEF OneAtATime
<1>14. Membership(group)' = IF Asked[t].op = "grant" THEN Membership(group) \cup {Asked[t].who}
                            ELSE Membership(group) \ {Asked[t].who}
  <2>1. /\ isGrant(t) => Membership(group') = Membership(group) \cup {FoldOf[email(t)]}
        /\ ~isGrant(t) => Membership(group') = Membership(group) \ {FoldOf[email(t)]}
    BY <1>4, OneUserMoves
  <2>2. Membership(group)' = Membership(group')
    BY DEF Membership
  <2> QED
    BY <1>12, <2>1, <2>2
<1> QED
  BY <1>8, <1>9, <1>10, <1>11, <1>13, <1>14
     DEF Promise!Move, Promise!Satisfied, Promise!Grants, Asked, Status, Changed

LEMMA AcknowledgeKeepsPromise ==
  ASSUME ProvisioningInv, AloneInv, NEW t \in Tasks, Acknowledge(t)
  PROVE  AloneInv' /\ Promise!Succeed(t)
<1>1. TypeOK /\ TaskAlone(t) /\ wellFormed(t)
  BY DEF ProvisioningInv, TaskInv, AloneInv, Acknowledge, PendingWrite
<1>2. /\ pc[t] = "ack" /\ running(t) /\ answer(t, "ok")
      /\ UNCHANGED <<group, edits, inflight, request, seen>>
  BY DEF Acknowledge, running
<1>3. seen[t] = BOOLEAN /\ Admitted(t, group) = isGrant(t)
  BY <1>1, <1>2 DEF TaskAlone
<1>4. /\ \A u \in Tasks \ {t} : ~running(u) /\ pc'[u] = pc[u]
      /\ pc'[t] = "done"
  BY <1>1, <1>2, NobodyElseRuns DEF TypeOK, answer
<1>5. TaskAlone(t)'
  BY <1>4 DEF TaskAlone, running
<1>6. AloneInv'
  BY <1>2, <1>4, <1>5, AloneStep
<1>7. Membership(group)' = Membership(group) /\ Asked' = Asked /\ Changed' = Changed
  BY <1>2 DEF Membership, Asked, Changed, wellFormed, email
<1>8. Status[t] = "running" /\ Status' = [Status EXCEPT ![t] = "ok"] /\ Changed[t]
  BY <1>1, <1>2, <1>3, StatusFollows DEF Changed
<1>9. (Asked[t].who \in Membership(group)) = (Asked[t].op = "grant")
  <2>1. /\ Asked[t].op = "grant" <=> isGrant(t)
        /\ Asked[t].who \in Membership(group) <=> Admitted(t, group)
    BY <1>1, SatisfiedIsAdmitted
  <2> QED
    BY <1>3, <2>1
<1> QED
  BY <1>6, <1>7, <1>8, <1>9
     DEF Promise!Succeed, Promise!Satisfied, Promise!Grants, Asked, Status, Changed

LEMMA InitIsInitial == OneAtATime /\ Init => AloneInv /\ Promise!Init
<1> SUFFICES ASSUME OneAtATime, Init PROVE AloneInv /\ Promise!Init
  OBVIOUS
<1>1. \A t \in Tasks : pc[t] = "queued" /\ seen[t] = {} /\ ~running(t)
  BY DEF Init, running
<1>2. AloneInv
  BY <1>1 DEF Init, AloneInv, TaskAlone, running
<1>3. Status = [t \in Tasks |-> "queued"]
  BY <1>1 DEF Status
<1>4. Changed = [t \in Tasks |-> FALSE]
  <2>1. \A t \in Tasks : seen[t] # BOOLEAN
    BY <1>1
  <2> QED
    BY <2>1 DEF Changed
<1>5. Membership(group) \subseteq {FoldOf[a] : a \in Addresses}
  BY DEF Membership
<1>6. Asked \in [Tasks -> [op : {"grant", "revoke"},
                           who : {FoldOf[a] : a \in Addresses} \cup {Blank}]]
  <2>1. TypeOK
    BY InitEstablishes DEF ProvisioningInv
  <2>2. ASSUME NEW t \in Tasks
        PROVE  /\ request[t].op \in {"grant", "revoke"}
               /\ wellFormed(t) => email(t) \in Addresses
    BY <2>1, EmailTyped, ProvisioningAssumption DEF TypeOK
  <2> QED
    BY <2>2 DEF Asked
<1>7. Promise!TypeOK
  <2>1. Status \in [Tasks -> {"queued", "running"} \cup Promise!Answers]
    BY <1>3
  <2>2. Changed \in [Tasks -> BOOLEAN]
    BY <1>4
  <2> QED
    BY <1>5, <1>6, <2>1, <2>2 DEF Promise!TypeOK, Asked, Status, Changed
<1> QED
  BY <1>2, <1>3, <1>4, <1>7 DEF Promise!Init, Asked, Status, Changed

LEMMA NextKeepsPromise ==
  ASSUME OneAtATime, ProvisioningInv, AloneInv, [Next]_vars
  PROVE  AloneInv' /\ [Promise!Next]_(Promise!vars)
<1>1. TypeOK
  BY DEF ProvisioningInv
<1>2. ASSUME NEW t \in Tasks, Work(t)
      PROVE  AloneInv' /\ [Promise!Next]_(Promise!vars)
  <2>1. CASE Start(t)
    BY <2>1, StartKeepsPromise DEF Promise!Next
  <2>2. CASE Read(t)
    BY <2>2, ReadKeepsPromise DEF Promise!Next
  <2>3. CASE Apply(t)
    BY <2>3, ApplyKeepsPromise DEF Promise!Next
  <2>4. CASE Acknowledge(t)
    BY <2>4, AcknowledgeKeepsPromise DEF Promise!Next
  <2>5. CASE Reject(t) \/ ReadFails(t) \/ LoseAnswer(t) \/ WriteFails(t) \/ Resume(t) \/ Cancel(t)
    <3>1. /\ pc[t] \in {"call", "put", "ack", "wait"} /\ running(t)
          /\ UNCHANGED <<group, edits, inflight, request, seen>>
      BY <2>5 DEF Reject, ReadFails, LoseAnswer, WriteFails, Resume, Cancel,
                  callAgain, stopWaiting, running
    <3>2. \/ answer(t, "failed")
          \/ result' = result /\ \E p \in {"wait", "call"} : pc' = [pc EXCEPT ![t] = p]
      <4>1. CASE Resume(t) \/ Cancel(t)
        BY <4>1 DEF Resume, Cancel, callAgain, stopWaiting
      <4>2. CASE \E retryable \in BOOLEAN : returnError(t, retryable)
        BY <4>2 DEF returnError
      <4> QED
        BY <2>5, <4>1, <4>2 DEF Reject, ReadFails, LoseAnswer, WriteFails
    <3> QED
      BY <3>1, <3>2, ErrorKeepsPromise DEF Promise!Next
  <2>6. CASE Abandon(t)
    BY <2>6 DEF Abandon, OneAtATime
  <2> QED
    BY <1>2, <2>1, <2>2, <2>3, <2>4, <2>5, <2>6 DEF Work
<1>3. CASE Land
  BY <1>3 DEF Land, AloneInv
<1>4. CASE Edit
  BY <1>4 DEF Edit, AloneInv, OneAtATime
<1>5. CASE UNCHANGED vars
  <2>1. \A t \in Tasks : TaskAlone(t)' = TaskAlone(t) /\ running(t)' = running(t)
    BY <1>5 DEF vars, TaskAlone, running, Admitted, email, isGrant, wellFormed
  <2>2. AloneInv'
    BY <1>5, <2>1 DEF vars, AloneInv
  <2>3. UNCHANGED Promise!vars
    BY <1>5 DEF vars, Promise!vars, Membership, wellFormed, email, running
  <2> QED
    BY <2>2, <2>3
<1> QED
  BY <1>2, <1>3, <1>4, <1>5 DEF Next

(***************************************************************************)
(* Theorem                                                                 *)
(***************************************************************************)

\* One task at a time, with no other writer, Grant and Revoke keep the
\* promise of GroupMembership, retries and lost answers included: a request
\* moves its user at most once and nobody else, and its answer is the truth.
THEOREM SequentialKeepsPromise ==
  ASSUME OneAtATime
  PROVE  Spec => KeepsPromise
<1>1. Init => AloneInv /\ Promise!Init
  BY InitIsInitial
<1>2. ProvisioningInv /\ AloneInv /\ [Next]_vars
        => AloneInv' /\ [Promise!Next]_(Promise!vars)
  BY NextKeepsPromise
<1> QED
  BY <1>1, <1>2, ProvisioningInvariant, PTL DEF Spec, KeepsPromise, Promise!Spec

=============================================================================
