---------------------- MODULE GroupProvisioningProofs ----------------------
(***************************************************************************)
(* Safety of GroupProvisioning for every set of tasks, requests, groups    *)
(* and addresses, any number of administrators' edits and late writes.     *)
(***************************************************************************)
EXTENDS GroupProvisioning, AccessRulesProofs, TLAPS

\* What a pending write is built on, and what it will do.
PendingWrite(t) ==
  /\ wellFormed(t)
  /\ snapshot[t] \in Groups
  /\ include[t] # {}
  /\ IF isGrant(t)
     THEN /\ satisfiesRequireExclude(snapshot[t], email(t))
          /\ ~isMember(snapshot[t], snapshot[t].include, email(t))
          /\ include[t] = snapshot[t].include \cup {EmailRule(email(t))}
     ELSE /\ include[t] = filterIncludeEmail(snapshot[t].include, email(t))
          /\ ~isMember(snapshot[t], include[t], email(t))

\* Where a task is, what it counts, and what it has seen so far.
TaskInv(t) ==
  /\ pc[t] = "queued" => result[t] = "none"
  /\ pc[t] # "done" => attempts[t] <= MaxAttempts
  /\ pc[t] \in {"put", "ack"} => PendingWrite(t)
  /\ running(t) => Admitted(t, group) \in seen[t]
  /\ pc[t] = "ack" => isGrant(t) \in seen[t]

ProvisioningInv ==
  /\ TypeOK
  /\ NeverEmptyInclude
  /\ \A t \in Tasks : TaskInv(t)
  /\ AnswersWereTrue

(***************************************************************************)
(* Lemmas                                                                  *)
(***************************************************************************)

\* A request's address is an address, and a user's request has one.
LEMMA EmailTyped ==
  ASSUME TypeOK, NEW t \in Tasks
  PROVE  /\ email(t) \in Emails
         /\ wellFormed(t) => email(t) \in Addresses
<1>1. request[t].principal \in Principals
  BY ProvisioningAssumption DEF TypeOK
<1> DEFINE who == request[t].principal
<1>2. CASE who.primary = {}
  BY <1>1, <1>2 DEF email, getEmailFromUserTrait, wellFormed, hasEmail, Principals, Emails
<1>3. CASE who.primary # {}
  <2>1. PICK a \in Addresses : who.primary = {a}
    BY <1>1, <1>3 DEF Principals
  <2>2. email(t) = a
    BY <2>1 DEF email, getEmailFromUserTrait
  <2> QED
    BY <2>2 DEF Emails
<1> QED
  BY <1>2, <1>3

\* What a pending write puts is a group, and says of the user what was asked.
LEMMA BodyDoesWhatWasAsked ==
  ASSUME TypeOK, NEW t \in Tasks, PendingWrite(t)
  PROVE  /\ body(t) \in StorableGroups
         /\ body(t).include = include[t]
         /\ isMember(body(t), include[t], email(t)) = isGrant(t)
<1> DEFINE s == snapshot[t]
<1>1. /\ email(t) \in Addresses /\ email(t) \in Emails
      /\ s \in Groups /\ s.include \in SUBSET Rules /\ include[t] \in SUBSET Rules
  BY EmailTyped DEF PendingWrite, Groups, TypeOK
<1>2. /\ body(t) \in Groups /\ body(t).include = include[t]
      /\ isMember(body(t), include[t], email(t)) = isMember(s, include[t], email(t))
  BY <1>1, MembershipOfBody DEF body, updateBody
<1>3. isMember(s, include[t], email(t)) = isGrant(t)
  <2>1. CASE isGrant(t)
    <3>1. isMember(s, s.include \cup {EmailRule(email(t))}, email(t))
      BY <1>1, <2>1, AppendAdmits DEF PendingWrite
    <3>2. include[t] = s.include \cup {EmailRule(email(t))}
      BY <2>1 DEF PendingWrite
    <3> QED
      BY <2>1, <3>1, <3>2 DEF isMember, matchesDirectRules
  <2>2. CASE ~isGrant(t)
    BY <2>2 DEF PendingWrite, isGrant, isMember, matchesDirectRules
  <2> QED
    BY <2>1, <2>2
<1> QED
  BY <1>2, <1>3 DEF StorableGroups, PendingWrite

\* The decision either answers, without an edit, or prepares a write.
LEMMA DecisionPrepares ==
  ASSUME TypeOK, NEW t \in Tasks, wellFormed(t), snapshot' = [snapshot EXCEPT ![t] = group],
         request' = request, pc[t] = "call", group.include # {},
         IF isGrant(t) THEN grantDecision(t, group) ELSE revokeOutcome(t, group)
  PROVE  \/ /\ proceed(t, include'[t])
            /\ include'[t] \in SUBSET Rules
            /\ PendingWrite(t)'
         \/ /\ include' = include
            /\ \/ answer(t, "refused") /\ Admitted(t, group) = ~isGrant(t)
               \/ answer(t, "alreadyExists") /\ Admitted(t, group) = isGrant(t)
               \/ answer(t, "alreadyRevoked") /\ Admitted(t, group) = isGrant(t)
<1>1. /\ group \in Groups /\ group.include \in SUBSET Rules
      /\ email(t) \in Addresses /\ email(t) \in Emails
      /\ snapshot'[t] = group
  BY EmailTyped DEF TypeOK, Groups
<1>2. email(t)' = email(t) /\ isGrant(t)' = isGrant(t) /\ wellFormed(t)'
  BY DEF email, isGrant, wellFormed
<1>3. \A rules : proceed(t, rules) => include'[t] = rules
  BY DEF proceed, TypeOK
<1>4. CASE isGrant(t)
  <2>1. grantDecision(t, group)
    BY <1>4
  <2>2. CASE isMember(group, group.include, email(t))
    BY <1>4, <2>1, <2>2 DEF grantDecision, decline, Admitted, isMember, matchesDirectRules
  <2>3. CASE ~isMember(group, group.include, email(t)) /\ ~satisfiesRequireExclude(group, email(t))
    BY <1>4, <2>1, <2>3 DEF grantDecision, decline, Admitted, isMember, matchesDirectRules
  <2>4. CASE ~isMember(group, group.include, email(t)) /\ satisfiesRequireExclude(group, email(t))
    <3> DEFINE rules == group.include \cup {EmailRule(email(t))}
    <3>1. proceed(t, rules) /\ rules \in SUBSET Rules /\ rules # {}
      BY <1>1, <2>1, <2>4, EmailRuleNames DEF grantDecision
    <3>2. include'[t] = rules
      BY <1>3, <3>1
    <3>3. PendingWrite(t)'
      BY <1>1, <1>2, <1>4, <2>4, <3>1, <3>2 DEF PendingWrite
    <3> QED
      BY <3>1, <3>2, <3>3
  <2> QED
    BY <2>2, <2>3, <2>4
<1>5. CASE ~isGrant(t)
  <2> DEFINE kept == filterIncludeEmail(group.include, email(t))
             decision == revokeDecision(group, email(t))
  <2>1. revokeOutcome(t, group)
    BY <1>5
  <2>2. CASE decision = "revokeNotAMember"
    <3>1. ~isMember(group, group.include, email(t))
      BY <2>2 DEF revokeDecision
    <3>2. answer(t, "alreadyRevoked") /\ include' = include
      BY <2>1, <2>2 DEF revokeOutcome, decline
    <3> QED
      BY <1>5, <3>1, <3>2 DEF Admitted, isGrant, isMember, matchesDirectRules
  <2>3. CASE decision = "revokeBlocked"
    <3>1. isMember(group, group.include, email(t))
      BY <2>3 DEF revokeDecision
    <3>2. answer(t, "refused") /\ include' = include
      BY <2>1, <2>3 DEF revokeOutcome, decline
    <3> QED
      BY <1>5, <3>1, <3>2 DEF Admitted, isMember, matchesDirectRules
  <2>4. CASE decision \notin {"revokeNotAMember", "revokeBlocked"}
    <3>1. isMember(group, group.include, email(t)) /\ ~isMember(group, kept, email(t))
      BY <2>4 DEF revokeDecision
    <3>2. CASE kept = {}
      <4>1. answer(t, "refused") /\ include' = include
        BY <2>1, <2>4, <3>2 DEF revokeOutcome, decline
      <4> QED
        BY <1>5, <3>1, <4>1 DEF Admitted, isMember, matchesDirectRules
    <3>3. CASE kept # {}
      <4>1. proceed(t, kept) /\ kept \in SUBSET Rules
        BY <1>1, <2>1, <2>4, <3>3 DEF revokeOutcome, filterIncludeEmail
      <4>2. include'[t] = kept
        BY <1>3, <4>1
      <4>3. PendingWrite(t)'
        BY <1>1, <1>2, <1>5, <3>1, <3>3, <4>2 DEF PendingWrite
      <4> QED
        BY <4>1, <4>2, <4>3
    <3> QED
      BY <3>2, <3>3
  <2> QED
    BY <2>2, <2>3, <2>4
<1> QED
  BY <1>4, <1>5

\* Whatever an error leads to, the retryer's count keeps its bound.
LEMMA ReturnErrorTyped ==
  ASSUME TypeOK, NEW t \in Tasks, pc[t] # "done", TaskInv(t),
         NEW retryable \in BOOLEAN, returnError(t, retryable)
  PROVE  /\ attempts' \in [Tasks -> 0..MaxAttempts + 1]
         /\ attempts' = [attempts EXCEPT ![t] = attempts'[t]]
         /\ \/ /\ pc' = [pc EXCEPT ![t] = "wait"]
               /\ result' = result
               /\ attempts'[t] <= MaxAttempts
            \/ answer(t, "failed")
<1>1. attempts[t] \in 0..MaxAttempts /\ MaxAttempts \in Nat
  BY ProvisionerAssumption DEF TypeOK, TaskInv
<1> QED
  BY <1>1 DEF returnError, TypeOK

\* A step that leaves a task alone, or only shows it more of the group.
LEMMA Undisturbed ==
  ASSUME TypeOK, NEW u \in Tasks, TaskInv(u), request' = request,
         pc'[u] = pc[u], attempts'[u] = attempts[u], snapshot'[u] = snapshot[u],
         include'[u] = include[u], result'[u] = result[u],
         seen[u] \subseteq seen'[u],
         running(u) => Admitted(u, group') \in seen'[u]
  PROVE  TaskInv(u)'
<1>1. email(u)' = email(u) /\ isGrant(u)' = isGrant(u)
  BY DEF email, isGrant
<1>2. wellFormed(u)' = wellFormed(u) /\ running(u)' = running(u)
  BY <1>1 DEF wellFormed, running
<1>3. PendingWrite(u) => PendingWrite(u)'
  BY <1>1, <1>2 DEF PendingWrite
<1>4. Admitted(u, group)' = Admitted(u, group')
  BY <1>1 DEF Admitted
<1> QED
  BY <1>1, <1>2, <1>3, <1>4 DEF TaskInv

\* An answered task's verdict stands when it has seen no less.
LEMMA AnswersStand ==
  ASSUME AnswersWereTrue, request' = request,
         \A u \in Tasks : \/ result'[u] = result[u] /\ seen[u] \subseteq seen'[u]
                          \/ result'[u] \in {"none", "failed"}
                          \/ result'[u] = "refused" /\ (~isGrant(u)) \in seen'[u]
                          \/ result'[u] \in {"ok", "alreadyExists", "alreadyRevoked"}
                               /\ isGrant(u) \in seen'[u]
  PROVE  AnswersWereTrue'
BY DEF AnswersWereTrue, isGrant

LEMMA InitEstablishes == Init => ProvisioningInv
<1> SUFFICES ASSUME Init PROVE ProvisioningInv
  OBVIOUS
<1>1. TypeOK
  BY ProvisioningAssumption, ProvisionerAssumption DEF Init, TypeOK, StorableGroups
<1>2. NeverEmptyInclude /\ AnswersWereTrue
  BY ProvisioningAssumption DEF Init, NeverEmptyInclude, AnswersWereTrue, StorableGroups
<1>3. \A t \in Tasks : TaskInv(t)
  BY ProvisionerAssumption DEF Init, TaskInv, running
<1> QED
  BY <1>1, <1>2, <1>3 DEF ProvisioningInv

\* A task that got an error, or was answered without a change of the group.
LEMMA ErrorPreserves ==
  ASSUME ProvisioningInv, NEW t \in Tasks, pc[t] \notin {"queued", "done"},
         UNCHANGED <<group, edits, request, snapshot, include, seen>>,
         inflight' \in SUBSET StorableGroups,
         NEW retryable \in BOOLEAN, returnError(t, retryable)
  PROVE  ProvisioningInv'
<1>1. /\ TypeOK /\ NeverEmptyInclude /\ AnswersWereTrue
      /\ \A u \in Tasks : TaskInv(u)
  BY DEF ProvisioningInv
<1>2. /\ attempts' \in [Tasks -> 0..MaxAttempts + 1]
      /\ attempts' = [attempts EXCEPT ![t] = attempts'[t]]
      /\ \/ /\ pc' = [pc EXCEPT ![t] = "wait"]
            /\ result' = result
            /\ attempts'[t] <= MaxAttempts
         \/ answer(t, "failed")
  BY <1>1, ReturnErrorTyped
<1>3. TypeOK'
  BY <1>1, <1>2 DEF TypeOK, answer, Answers, StorableGroups
<1>4. NeverEmptyInclude'
  BY <1>1 DEF NeverEmptyInclude, StorableGroups
<1>5. \A u \in Tasks : TaskInv(u)'
  <2> SUFFICES ASSUME NEW u \in Tasks PROVE TaskInv(u)'
    OBVIOUS
  <2>1. CASE u # t
    <3>1. /\ pc'[u] = pc[u] /\ attempts'[u] = attempts[u] /\ result'[u] = result[u]
          /\ running(u) => Admitted(u, group') \in seen'[u]
      BY <1>1, <1>2, <2>1 DEF TypeOK, answer, TaskInv
    <3> QED
      BY <1>1, <3>1, Undisturbed
  <2>2. CASE u = t
    <3>1. /\ pc'[t] = "wait" /\ attempts'[t] <= MaxAttempts
          \/ pc'[t] = "done"
      BY <1>1, <1>2 DEF TypeOK, answer
    <3>2. Admitted(t, group)' = Admitted(t, group)
      BY DEF Admitted, email
    <3>3. Admitted(t, group) \in seen'[t]
      BY <1>1 DEF TaskInv, running
    <3> QED
      BY <2>2, <3>1, <3>2, <3>3 DEF TaskInv, running
  <2> QED
    BY <2>1, <2>2
<1>6. AnswersWereTrue'
  <2>1. \A u \in Tasks : result'[u] = result[u] \/ result'[u] = "failed"
    BY <1>1, <1>2 DEF TypeOK, answer
  <2> QED
    BY <1>1, <2>1, AnswersStand
<1> QED
  BY <1>3, <1>4, <1>5, <1>6 DEF ProvisioningInv

\* The group changes: by a task's write, a late one, or an administrator.
LEMMA ChangePreserves ==
  ASSUME ProvisioningInv, group' \in StorableGroups, Witness(group'),
         edits' \in 0..MaxEdits, inflight' \subseteq inflight,
         UNCHANGED <<request, pc, attempts, snapshot, include, result>>
  PROVE  ProvisioningInv'
<1>1. /\ TypeOK /\ NeverEmptyInclude /\ AnswersWereTrue
      /\ \A u \in Tasks : TaskInv(u)
  BY DEF ProvisioningInv
<1>2. /\ seen' \in [Tasks -> SUBSET BOOLEAN]
      /\ \A u \in Tasks : /\ seen[u] \subseteq seen'[u]
                          /\ running(u) => Admitted(u, group') \in seen'[u]
  BY <1>1 DEF Witness, TypeOK, Admitted, isMember, matchesDirectRules
<1>3. TypeOK'
  BY <1>1, <1>2 DEF TypeOK, StorableGroups
<1>4. NeverEmptyInclude'
  BY <1>1 DEF NeverEmptyInclude, StorableGroups
<1>5. \A u \in Tasks : TaskInv(u)'
  BY <1>1, <1>2, Undisturbed
<1>6. AnswersWereTrue'
  BY <1>1, <1>2, AnswersStand
<1> QED
  BY <1>3, <1>4, <1>5, <1>6 DEF ProvisioningInv

LEMMA StartPreserves ==
  ASSUME ProvisioningInv, NEW t \in Tasks, Start(t)
  PROVE  ProvisioningInv'
<1>1. /\ TypeOK /\ NeverEmptyInclude /\ AnswersWereTrue
      /\ \A u \in Tasks : TaskInv(u)
  BY DEF ProvisioningInv
<1>2. /\ pc[t] = "queued" /\ pc' = [pc EXCEPT ![t] = "call"]
      /\ seen' = [seen EXCEPT ![t] = {Admitted(t, group)}]
      /\ UNCHANGED <<group, edits, inflight, request, attempts, snapshot, include, result>>
  BY DEF Start, claim
<1>3. Admitted(t, group) \in BOOLEAN
  BY DEF Admitted, isMember, matchesDirectRules
<1>4. TypeOK'
  BY <1>1, <1>2, <1>3 DEF TypeOK
<1>5. NeverEmptyInclude'
  BY <1>1, <1>2 DEF NeverEmptyInclude
<1>6. \A u \in Tasks : TaskInv(u)'
  <2> SUFFICES ASSUME NEW u \in Tasks PROVE TaskInv(u)'
    OBVIOUS
  <2>1. CASE u # t
    <3>1. /\ pc'[u] = pc[u] /\ seen'[u] = seen[u]
          /\ running(u) => Admitted(u, group') \in seen'[u]
      BY <1>1, <1>2, <2>1 DEF TypeOK, TaskInv
    <3> QED
      BY <1>1, <1>2, <3>1, Undisturbed
  <2>2. CASE u = t
    <3>1. pc'[t] = "call" /\ seen'[t] = {Admitted(t, group)}
      BY <1>1, <1>2 DEF TypeOK
    <3>2. Admitted(t, group)' = Admitted(t, group)
      BY <1>2 DEF Admitted, email
    <3> QED
      BY <1>1, <1>2, <2>2, <3>1, <3>2 DEF TaskInv, running
  <2> QED
    BY <2>1, <2>2
<1>7. AnswersWereTrue'
  <2>1. result'[t] = "none"
    BY <1>1, <1>2 DEF TaskInv
  <2>2. \A u \in Tasks : u # t => seen'[u] = seen[u]
    BY <1>1, <1>2 DEF TypeOK
  <2> QED
    BY <1>1, <1>2, <2>1, <2>2, AnswersStand
<1> QED
  BY <1>4, <1>5, <1>6, <1>7 DEF ProvisioningInv

LEMMA ReadPreserves ==
  ASSUME ProvisioningInv, NEW t \in Tasks, Read(t)
  PROVE  ProvisioningInv'
<1>1. /\ TypeOK /\ NeverEmptyInclude /\ AnswersWereTrue
      /\ \A u \in Tasks : TaskInv(u)
  BY DEF ProvisioningInv
<1>2. /\ pc[t] = "call" /\ wellFormed(t)
      /\ snapshot' = [snapshot EXCEPT ![t] = group]
      /\ IF isGrant(t) THEN grantDecision(t, group) ELSE revokeOutcome(t, group)
      /\ UNCHANGED <<group, edits, inflight, request, attempts, seen>>
  BY DEF Read
<1>3. \/ /\ proceed(t, include'[t])
         /\ include'[t] \in SUBSET Rules
         /\ PendingWrite(t)'
      \/ /\ include' = include
         /\ \/ answer(t, "refused") /\ Admitted(t, group) = ~isGrant(t)
            \/ answer(t, "alreadyExists") /\ Admitted(t, group) = isGrant(t)
            \/ answer(t, "alreadyRevoked") /\ Admitted(t, group) = isGrant(t)
  <2>1. group.include # {}
    BY <1>1 DEF NeverEmptyInclude
  <2> QED
    BY <1>1, <1>2, <2>1, DecisionPrepares
<1>4. TypeOK'
  BY <1>1, <1>2, <1>3 DEF TypeOK, proceed, answer, Answers
<1>5. NeverEmptyInclude'
  BY <1>1, <1>2 DEF NeverEmptyInclude
<1>6. Admitted(t, group) \in seen'[t] /\ Admitted(t, group)' = Admitted(t, group)
  BY <1>1, <1>2 DEF TaskInv, running, Admitted, email
<1>7. \A u \in Tasks : TaskInv(u)'
  <2> SUFFICES ASSUME NEW u \in Tasks PROVE TaskInv(u)'
    OBVIOUS
  <2>1. CASE u # t
    <3>1. /\ pc'[u] = pc[u] /\ snapshot'[u] = snapshot[u]
          /\ include'[u] = include[u] /\ result'[u] = result[u]
          /\ running(u) => Admitted(u, group') \in seen'[u]
      BY <1>1, <1>2, <1>3, <2>1 DEF TypeOK, TaskInv, proceed, answer
    <3> QED
      BY <1>1, <1>2, <3>1, Undisturbed
  <2>2. CASE u = t
    <3>1. /\ \/ pc'[t] = "put" /\ PendingWrite(t)'
             \/ pc'[t] = "done"
          /\ attempts'[t] <= MaxAttempts
      BY <1>1, <1>2, <1>3 DEF TypeOK, TaskInv, proceed, answer
    <3> QED
      BY <1>6, <2>2, <3>1 DEF TaskInv
  <2> QED
    BY <2>1, <2>2
<1>8. AnswersWereTrue'
  <2>1. \A u \in Tasks : u # t => result'[u] = result[u]
    BY <1>1, <1>3 DEF TypeOK, proceed, answer
  <2>2. \/ result'[t] = result[t]
        \/ result'[t] = "refused" /\ (~isGrant(t)) \in seen'[t]
        \/ result'[t] \in {"ok", "alreadyExists", "alreadyRevoked"} /\ isGrant(t) \in seen'[t]
    BY <1>1, <1>3, <1>6 DEF TypeOK, proceed, answer
  <2> QED
    BY <1>1, <1>2, <2>1, <2>2, AnswersStand
<1> QED
  BY <1>4, <1>5, <1>7, <1>8 DEF ProvisioningInv

LEMMA ApplyPreserves ==
  ASSUME ProvisioningInv, NEW t \in Tasks, Apply(t)
  PROVE  ProvisioningInv'
<1>1. /\ TypeOK /\ NeverEmptyInclude /\ AnswersWereTrue
      /\ \A u \in Tasks : TaskInv(u)
  BY DEF ProvisioningInv
<1>2. /\ pc[t] = "put" /\ group' = body(t) /\ Witness(group')
      /\ pc' = [pc EXCEPT ![t] = "ack"]
      /\ UNCHANGED <<edits, inflight, request, attempts, snapshot, include, result>>
  BY DEF Apply
<1>3. PendingWrite(t)
  BY <1>1, <1>2 DEF TaskInv
<1>4. /\ group' \in StorableGroups
      /\ Admitted(t, group') = isGrant(t)
  BY <1>1, <1>2, <1>3, BodyDoesWhatWasAsked DEF Admitted
<1>5. /\ seen' \in [Tasks -> SUBSET BOOLEAN]
      /\ \A u \in Tasks : /\ seen[u] \subseteq seen'[u]
                          /\ running(u) => Admitted(u, group') \in seen'[u]
  BY <1>1, <1>2 DEF Witness, TypeOK, Admitted, isMember, matchesDirectRules
<1>6. TypeOK'
  BY <1>1, <1>2, <1>4, <1>5 DEF TypeOK, StorableGroups
<1>7. NeverEmptyInclude'
  BY <1>1, <1>2, <1>4 DEF NeverEmptyInclude, StorableGroups
<1>8. \A u \in Tasks : TaskInv(u)'
  <2> SUFFICES ASSUME NEW u \in Tasks PROVE TaskInv(u)'
    OBVIOUS
  <2>1. CASE u # t
    <3>1. pc'[u] = pc[u]
      BY <1>1, <1>2, <2>1 DEF TypeOK
    <3> QED
      BY <1>1, <1>2, <1>5, <3>1, Undisturbed
  <2>2. CASE u = t
    <3>1. pc'[t] = "ack" /\ running(t) /\ attempts'[t] <= MaxAttempts
      BY <1>1, <1>2 DEF TypeOK, TaskInv, running
    <3>2. /\ email(t)' = email(t) /\ isGrant(t)' = isGrant(t)
          /\ Admitted(t, group)' = Admitted(t, group')
      BY <1>2 DEF email, isGrant, Admitted
    <3>3. PendingWrite(t)'
      BY <1>2, <1>3, <3>2 DEF PendingWrite, wellFormed
    <3> QED
      BY <1>4, <1>5, <2>2, <3>1, <3>2, <3>3 DEF TaskInv
  <2> QED
    BY <2>1, <2>2
<1>9. AnswersWereTrue'
  BY <1>1, <1>2, <1>5, AnswersStand
<1> QED
  BY <1>6, <1>7, <1>8, <1>9 DEF ProvisioningInv

\* Steps that only move a task's program counter, and the answer "ok".
LEMMA LocalPreserves ==
  ASSUME ProvisioningInv, NEW t \in Tasks, Acknowledge(t) \/ Resume(t) \/ Cancel(t)
  PROVE  ProvisioningInv'
<1>1. /\ TypeOK /\ NeverEmptyInclude /\ AnswersWereTrue
      /\ \A u \in Tasks : TaskInv(u)
  BY DEF ProvisioningInv
<1>2. /\ UNCHANGED <<group, edits, inflight, request, attempts, snapshot, include, seen>>
      /\ \/ pc[t] = "ack" /\ answer(t, "ok")
         \/ pc[t] = "wait" /\ pc' = [pc EXCEPT ![t] = "call"] /\ result' = result
         \/ pc[t] = "wait" /\ answer(t, "failed")
  BY DEF Acknowledge, Resume, Cancel, callAgain, stopWaiting
<1>3. TypeOK'
  BY <1>1, <1>2 DEF TypeOK, answer, Answers
<1>4. NeverEmptyInclude'
  BY <1>1, <1>2 DEF NeverEmptyInclude
<1>5. \A u \in Tasks : TaskInv(u)'
  <2> SUFFICES ASSUME NEW u \in Tasks PROVE TaskInv(u)'
    OBVIOUS
  <2>1. CASE u # t
    <3>1. /\ pc'[u] = pc[u] /\ result'[u] = result[u]
          /\ running(u) => Admitted(u, group') \in seen'[u]
      BY <1>1, <1>2, <2>1 DEF TypeOK, TaskInv, answer
    <3> QED
      BY <1>1, <1>2, <3>1, Undisturbed
  <2>2. CASE u = t
    <3>1. /\ pc'[t] \in {"call", "done"} /\ attempts'[t] <= MaxAttempts
          /\ Admitted(t, group) \in seen'[t]
      BY <1>1, <1>2 DEF TypeOK, TaskInv, running, answer
    <3>2. Admitted(t, group)' = Admitted(t, group)
      BY <1>2 DEF Admitted, email
    <3> QED
      BY <2>2, <3>1, <3>2 DEF TaskInv
  <2> QED
    BY <2>1, <2>2
<1>6. AnswersWereTrue'
  <2>1. \A u \in Tasks : \/ result'[u] = result[u]
                         \/ result'[u] = "failed"
                         \/ result'[u] = "ok" /\ isGrant(u) \in seen'[u]
    BY <1>1, <1>2 DEF TypeOK, TaskInv, answer
  <2> QED
    BY <1>1, <1>2, <2>1, AnswersStand
<1> QED
  BY <1>3, <1>4, <1>5, <1>6 DEF ProvisioningInv

LEMMA NextPreserves == ProvisioningInv /\ [Next]_vars => ProvisioningInv'
<1> SUFFICES ASSUME ProvisioningInv, [Next]_vars PROVE ProvisioningInv'
  OBVIOUS
<1>1. /\ TypeOK /\ NeverEmptyInclude /\ AnswersWereTrue
      /\ \A u \in Tasks : TaskInv(u)
  BY DEF ProvisioningInv
<1>2. inflight \in SUBSET StorableGroups
  BY <1>1 DEF TypeOK, NeverEmptyInclude, StorableGroups
<1>3. ASSUME NEW t \in Tasks, Work(t) PROVE ProvisioningInv'
  <2>1. CASE Start(t)
    BY <2>1, StartPreserves
  <2>2. CASE Reject(t)
    BY <1>2, <2>2, ErrorPreserves DEF Reject
  <2>3. CASE ReadFails(t)
    BY <1>2, <2>3, ErrorPreserves DEF ReadFails
  <2>4. CASE Read(t)
    BY <2>4, ReadPreserves
  <2>5. CASE Apply(t)
    BY <2>5, ApplyPreserves
  <2>6. CASE Acknowledge(t) \/ Resume(t) \/ Cancel(t)
    BY <2>6, LocalPreserves
  <2>7. CASE LoseAnswer(t)
    BY <1>2, <2>7, ErrorPreserves DEF LoseAnswer
  <2>8. CASE WriteFails(t)
    BY <1>2, <2>8, ErrorPreserves DEF WriteFails
  <2>9. CASE Abandon(t)
    <3>1. body(t) \in StorableGroups
      BY <1>1, <2>9, BodyDoesWhatWasAsked DEF Abandon, TaskInv
    <3>2. inflight' \in SUBSET StorableGroups
      BY <1>2, <2>9, <3>1 DEF Abandon
    <3> QED
      BY <2>9, <3>2, ErrorPreserves DEF Abandon
  <2> QED
    BY <1>3, <2>1, <2>2, <2>3, <2>4, <2>5, <2>6, <2>7, <2>8, <2>9 DEF Work
<1>4. CASE Land
  <2>1. PICK late \in inflight : /\ group' = late
                                 /\ inflight' = inflight \ {late}
                                 /\ Witness(late)
                                 /\ UNCHANGED <<edits, request, pc, attempts,
                                                snapshot, include, result>>
    BY <1>4 DEF Land
  <2>2. group' \in StorableGroups /\ Witness(group') /\ edits' \in 0..MaxEdits
    BY <1>1, <1>2, <2>1 DEF TypeOK
  <2> QED
    BY <2>1, <2>2, ChangePreserves
<1>5. CASE Edit
  <2>1. group' \in StorableGroups
    BY <1>5, ProvisioningAssumption DEF Edit
  <2>2. edits' \in 0..MaxEdits
    BY <1>1, <1>5, ProvisioningAssumption DEF Edit, TypeOK
  <2> QED
    BY <1>5, <2>1, <2>2, ChangePreserves DEF Edit
<1>6. CASE UNCHANGED vars
  <2>1. TypeOK' /\ NeverEmptyInclude' /\ AnswersWereTrue'
    BY <1>1, <1>6 DEF vars, TypeOK, NeverEmptyInclude, AnswersWereTrue, isGrant
  <2>2. \A u \in Tasks : TaskInv(u)'
    BY <1>1, <1>6, Undisturbed DEF vars, TaskInv
  <2> QED
    BY <2>1, <2>2 DEF ProvisioningInv
<1> QED
  BY <1>3, <1>4, <1>5, <1>6 DEF Next

\* A write built on the group as it still is moves its user alone.
LEMMA WriteMovesOneUser ==
  ASSUME ProvisioningInv, NEW t \in Tasks, Apply(t), snapshot[t] = group
  PROVE  /\ \A a \in Addresses : ~EqualFold(a, email(t)) =>
              isMember(group', group'.include, a) = isMember(group, group.include, a)
         /\ isMember(group', group'.include, email(t)) = isGrant(t)
         /\ [group' EXCEPT !.include = group.include] = group
<1>1. /\ TypeOK /\ PendingWrite(t)
      /\ group' = [group EXCEPT !.include = include[t]]
  BY DEF ProvisioningInv, TaskInv, Apply, body, updateBody
<1>2. /\ group \in Groups /\ group.include \in SUBSET Rules /\ include[t] \in SUBSET Rules
      /\ email(t) \in Addresses
  BY <1>1, EmailTyped DEF TypeOK, Groups, PendingWrite
<1>3. isMember(group', group'.include, email(t)) = isGrant(t)
  BY <1>1, BodyDoesWhatWasAsked DEF body, updateBody
<1>4. group'.include = include[t]
  BY <1>1, <1>2, MembershipOfBody DEF Emails
<1>5. [group' EXCEPT !.include = group.include] = group
  BY <1>1, <1>2 DEF Groups
<1>6. ASSUME NEW a \in Addresses, ~EqualFold(a, email(t))
      PROVE  isMember(group', group'.include, a) = isMember(group, group.include, a)
  <2>1. isMember(group', include[t], a) = isMember(group, include[t], a)
    BY <1>1, <1>2, MembershipOfBody DEF Emails
  <2>2. \/ include[t] = group.include \cup {EmailRule(email(t))}
        \/ include[t] = filterIncludeEmail(group.include, email(t))
    BY <1>1 DEF PendingWrite
  <2>3. /\ isMember(group, group.include \cup {EmailRule(email(t))}, a)
             = isMember(group, group.include, a)
        /\ isMember(group, filterIncludeEmail(group.include, email(t)), a)
             = isMember(group, group.include, a)
    BY <1>2, <1>6, EditsMoveNobodyElse
  <2>4. isMember(group, include[t], a) = isMember(group, group.include, a)
    BY <2>2, <2>3
  <2> QED
    BY <1>4, <2>1, <2>4
<1> QED
  BY <1>3, <1>5, <1>6

(***************************************************************************)
(* Theorems                                                                *)
(***************************************************************************)

\* The inductive invariant: what a pending write is built on is a group as it
\* once was, its content follows from that group, and every running task has
\* seen the group as it now is.
THEOREM ProvisioningInvariant == Spec => []ProvisioningInv
<1>1. Init => ProvisioningInv
  BY InitEstablishes
<1>2. ProvisioningInv /\ [Next]_vars => ProvisioningInv'
  BY NextPreserves
<1> QED
  BY <1>1, <1>2, PTL DEF Spec

\* Every variable keeps its type; in particular the retryer's count of failed
\* calls never passes its limit by more than the call that reached it.
THEOREM TypeCorrect == Spec => []TypeOK
<1>1. ProvisioningInv => TypeOK
  BY DEF ProvisioningInv
<1> QED
  BY <1>1, ProvisioningInvariant, PTL

\* Grant and Revoke never leave a group without an Include rule, whatever they
\* race with: Revoke's check of the filtered list (groups.go) is enough.
THEOREM IncludeNeverEmptied == Spec => []NeverEmptyInclude
<1>1. ProvisioningInv => NeverEmptyInclude
  BY DEF ProvisioningInv
<1> QED
  BY <1>1, ProvisioningInvariant, PTL

\* What Grant and Revoke answer was true of the group while the task ran,
\* under any interleaving with tasks, administrators and late writes.
THEOREM AnswersAreTrue == Spec => []AnswersWereTrue
<1>1. ProvisioningInv => AnswersWereTrue
  BY DEF ProvisioningInv
<1> QED
  BY <1>1, ProvisioningInvariant, PTL

\* The rule Grant writes never blocks the revoke of the membership it gives.
THEOREM GrantsAreRevocable == Spec => []GrantCanBeRevoked
<1>1. ProvisioningInv => GrantCanBeRevoked
  <2> SUFFICES ASSUME ProvisioningInv, NEW t \in Tasks,
                      pc[t] \in {"put", "ack"}, isGrant(t)
               PROVE  /\ revokeDecision(body(t), email(t)) = "revokeRemoveRule"
                      /\ filterIncludeEmail(include[t], email(t)) = snapshot[t].include
    BY DEF GrantCanBeRevoked
  <2> DEFINE s == snapshot[t]
  <2>1. TypeOK /\ PendingWrite(t)
    BY DEF ProvisioningInv, TaskInv
  <2>2. /\ email(t) \in Addresses /\ email(t) \in Emails
        /\ s \in Groups /\ s.include \in SUBSET Rules /\ include[t] \in SUBSET Rules
        /\ include[t] = s.include \cup {EmailRule(email(t))}
        /\ satisfiesRequireExclude(s, email(t)) /\ ~isMember(s, s.include, email(t))
    BY <2>1, EmailTyped DEF PendingWrite, Groups, TypeOK
  <2>3. filterIncludeEmail(include[t], email(t)) = s.include
    BY <2>2, FilterUndoesAppend
  <2>4. body(t).include = include[t] /\ isMember(body(t), include[t], email(t))
    BY <2>1, BodyDoesWhatWasAsked DEF isGrant
  <2>5. ~isMember(body(t), s.include, email(t))
    <3>1. isMember(body(t), s.include, email(t)) = isMember(s, s.include, email(t))
      BY <2>2, MembershipOfBody DEF body, updateBody
    <3> QED
      BY <2>2, <3>1 DEF isMember, matchesDirectRules
  <2>6. EmailRule(email(t)) \notin s.include
    BY <2>2, <2>3, EmailRuleNames DEF filterIncludeEmail
  <2> QED
    BY <2>2, <2>3, <2>4, <2>5, <2>6 DEF revokeDecision
<1> QED
  BY <1>1, ProvisioningInvariant, PTL

\* A write built on the group as it still is moves its user and nobody else,
\* and keeps the group's name, Require and Exclude.
THEOREM NobodyElseMoves == Spec => OnlyTheUserMoves
<1> DEFINE A == \A t \in Tasks :
       Apply(t) /\ snapshot[t] = group =>
         /\ \A a \in Addresses : ~EqualFold(a, email(t)) =>
              isMember(group', group'.include, a) = isMember(group, group.include, a)
         /\ isMember(group', group'.include, email(t)) = isGrant(t)
         /\ [group' EXCEPT !.include = group.include] = group
<1>1. ProvisioningInv /\ [Next]_vars => [A]_vars
  BY WriteMovesOneUser
<1> QED
  BY <1>1, ProvisioningInvariant, PTL DEF Spec, OnlyTheUserMoves

=============================================================================
