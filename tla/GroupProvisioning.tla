------------------------- MODULE GroupProvisioning -------------------------
(***************************************************************************)
(* Granting and revoking membership of one Access group.  The SDK's runner *)
(* works on up to Slots tasks at a time, each in a goroutine of its own;   *)
(* a task calls groupBuilder.Grant or groupBuilder.Revoke, which reads the *)
(* group (GET, cache bypassed), decides, and writes the whole group back   *)
(* (PUT); the SDK's retryer calls it again after an error that may be      *)
(* transient.  Administrators edit the group in Cloudflare meanwhile.      *)
(***************************************************************************)
EXTENDS AccessRules, Provisioner

CONSTANTS
  Requests,       \* requests a task may carry
  InitialGroups,  \* states the group may start in
  AdminGroups,    \* states an administrator may put the group in
  MaxEdits,       \* bound: edits administrators make
  LateWrites      \* whether a write the client gave up on may still land

\* A principal's resource type and what getEmailFromUserTrait finds in it.  A
\* request names a resource the connector made, and the SDK's WithEmail leaves
\* out an empty address: a primary address that is there is an address.
Principals ==
  [type : {"user", "other"}, primary : {{}} \cup {{a} : a \in Addresses},
   profile : Emails, display : Emails]

\* Cloudflare never stores a group with an empty Include list.
StorableGroups == {grp \in Groups : grp.include # {}}

ASSUME ProvisioningAssumption ==
  /\ Requests \subseteq [op : {"grant", "revoke"}, principal : Principals]
  /\ InitialGroups \subseteq StorableGroups
  /\ AdminGroups \subseteq StorableGroups
  /\ MaxEdits \in Nat
  /\ LateWrites \in BOOLEAN

VARIABLES
  group,     \* the group as Cloudflare stores it
  edits,     \* how many edits administrators have made
  inflight,  \* writes whose client gave up and that have not landed
  request,   \* per task, the request it carries
  snapshot,  \* per task, the group as its call read it
  include,   \* per task, the Include list its call writes
  seen       \* history, per task: whether the group admitted its user, at
             \* every moment since the task began

vars == <<group, edits, inflight, request, pc, attempts, snapshot, include,
          result, seen>>

NoGroup == [name |-> Blank, include |-> {}, require |-> {}, exclude |-> {}]

Answers == {"ok", "alreadyExists", "alreadyRevoked", "refused", "failed"}

TypeOK ==
  /\ group \in Groups
  /\ edits \in 0..MaxEdits
  /\ inflight \subseteq Groups
  /\ request \in [Tasks -> Requests]
  /\ pc \in [Tasks -> {"queued", "call", "put", "ack", "wait", "done"}]
  /\ attempts \in [Tasks -> 0..MaxAttempts + 1]
  /\ snapshot \in [Tasks -> Groups \cup {NoGroup}]
  /\ include \in [Tasks -> SUBSET Rules]
  /\ result \in [Tasks -> {"none"} \cup Answers]
  /\ seen \in [Tasks -> SUBSET BOOLEAN]

Init ==
  /\ group \in InitialGroups
  /\ edits = 0
  /\ inflight = {}
  /\ request \in [Tasks -> Requests]
  /\ pc = [t \in Tasks |-> "queued"]
  /\ attempts = [t \in Tasks |-> 0]
  /\ snapshot = [t \in Tasks |-> NoGroup]
  /\ include = [t \in Tasks |-> {}]
  /\ result = [t \in Tasks |-> "none"]
  /\ seen = [t \in Tasks |-> {}]

(***************************************************************************)
(* Requests and running tasks                                              *)
(***************************************************************************)

\* The primary address, whatever it is, else the profile's if it is not empty,
\* else a display name with an "@"; with none of them, an error.
hasEmail(principal) ==
  principal.primary # {} \/ principal.profile # Blank \/ principal.display # Blank

getEmailFromUserTrait(principal) ==
  IF principal.primary # {} THEN CHOOSE e \in principal.primary : TRUE
  ELSE IF principal.profile # Blank THEN principal.profile
  ELSE principal.display

email(t) == getEmailFromUserTrait(request[t].principal)

isGrant(t) == request[t].op = "grant"

\* The guards of Grant and Revoke before they read the group.
wellFormed(t) ==
  request[t].principal.type = "user" /\ hasEmail(request[t].principal)

\* Whether the group admits the task's user.
Admitted(t, grp) == isMember(grp, grp.include, email(t))

\* seen, once the group has become grp.
Witness(grp) ==
  seen' = [t \in Tasks |-> IF running(t) THEN seen[t] \cup {Admitted(t, grp)}
                                         ELSE seen[t]]

(***************************************************************************)
(* The runner and the retryer                                              *)
(***************************************************************************)

Start(t) ==
  /\ claim(t)
  /\ seen' = [seen EXCEPT ![t] = {Admitted(t, group)}]
  /\ UNCHANGED <<group, edits, inflight, request, attempts, snapshot, include, result>>

Resume(t) ==
  /\ callAgain(t)
  /\ UNCHANGED <<group, edits, inflight, request, attempts, snapshot, include, result, seen>>

Cancel(t) ==
  /\ stopWaiting(t)
  /\ UNCHANGED <<group, edits, inflight, request, attempts, snapshot, include, seen>>

(***************************************************************************)
(* Grant and Revoke                                                        *)
(***************************************************************************)

\* The principal is not a user, or carries no address: an error with no code.
Reject(t) ==
  /\ pc[t] = "call"
  /\ ~wellFormed(t)
  /\ returnError(t, FALSE)
  /\ UNCHANGED <<group, edits, inflight, request, snapshot, include, seen>>

\* GetAccessGroup fails: 429, 5xx and timeouts are retryable, the rest is not.
ReadFails(t) ==
  /\ pc[t] = "call"
  /\ wellFormed(t)
  /\ \E retryable \in BOOLEAN : returnError(t, retryable)
  /\ UNCHANGED <<group, edits, inflight, request, snapshot, include, seen>>

proceed(t, rules) ==
  /\ pc' = [pc EXCEPT ![t] = "put"]
  /\ include' = [include EXCEPT ![t] = rules]
  /\ UNCHANGED result

decline(t, a) == answer(t, a) /\ UNCHANGED include

\* Seeded fault: "already a member" asks for a rule naming the user.
grantNamed(t, grp) ==
  IF \E rule \in grp.include : namesAddress(rule, email(t))
  THEN decline(t, "alreadyExists")
  ELSE proceed(t, grp.include \cup {EmailRule(email(t))})

\* What Grant does with the group it read.
grantDecision(t, grp) ==
  IF isMember(grp, grp.include, email(t)) THEN decline(t, "alreadyExists")
  ELSE IF ~satisfiesRequireExclude(grp, email(t)) THEN decline(t, "refused")
  ELSE proceed(t, grp.include \cup {EmailRule(email(t))})

\* Seeded fault: an Include list left empty is written.
revokeOutcomeUnguarded(t, grp) ==
  LET decision == revokeDecision(grp, email(t))
  IN  CASE decision = "revokeBlocked"    -> decline(t, "refused")
        [] decision = "revokeNotAMember" -> decline(t, "alreadyRevoked")
        [] OTHER -> proceed(t, filterIncludeEmail(grp.include, email(t)))

\* What Revoke does with the group it read.
revokeOutcome(t, grp) ==
  LET decision == revokeDecision(grp, email(t))
      kept     == filterIncludeEmail(grp.include, email(t))
  IN  CASE decision = "revokeBlocked"    -> decline(t, "refused")
        [] decision = "revokeNotAMember" -> decline(t, "alreadyRevoked")
        [] OTHER -> IF kept = {} THEN decline(t, "refused")
                                 ELSE proceed(t, kept)

\* GetAccessGroup answers and the call decides, on what it read alone.
Read(t) ==
  /\ pc[t] = "call"
  /\ wellFormed(t)
  /\ snapshot' = [snapshot EXCEPT ![t] = group]
  /\ IF isGrant(t) THEN grantDecision(t, group) ELSE revokeOutcome(t, group)
  /\ UNCHANGED <<group, edits, inflight, request, attempts, seen>>

(***************************************************************************)
(* UpdateAccessGroupInclude                                                *)
(***************************************************************************)

\* Seeded fault: only the Include list is sent.
updateBodyIncludeOnly(grp, rules) ==
  [name |-> Blank, include |-> rules, require |-> {}, exclude |-> {}]

\* The body of the PUT: the group as read, with the new Include list.
updateBody(grp, rules) == [grp EXCEPT !.include = rules]

body(t) == updateBody(snapshot[t], include[t])

\* Cloudflare replaces the group; the answer is on its way.
Apply(t) ==
  /\ pc[t] = "put"
  /\ group' = body(t)
  /\ Witness(group')
  /\ pc' = [pc EXCEPT ![t] = "ack"]
  /\ UNCHANGED <<edits, inflight, request, attempts, snapshot, include, result>>

Acknowledge(t) ==
  /\ pc[t] = "ack"
  /\ answer(t, "ok")
  /\ UNCHANGED <<group, edits, inflight, request, attempts, snapshot, include, seen>>

\* The write was carried out and its call still returns an error: the answer
\* is lost (retryable) or cannot be decoded (not retryable).
LoseAnswer(t) ==
  /\ pc[t] = "ack"
  /\ \E retryable \in BOOLEAN : returnError(t, retryable)
  /\ UNCHANGED <<group, edits, inflight, request, snapshot, include, seen>>

\* The write is not carried out: refused by Cloudflare, or lost on the way.
WriteFails(t) ==
  /\ pc[t] = "put"
  /\ \E retryable \in BOOLEAN : returnError(t, retryable)
  /\ UNCHANGED <<group, edits, inflight, request, snapshot, include, seen>>

\* The HTTP client times out with the request still on its way.
Abandon(t) ==
  /\ LateWrites
  /\ pc[t] = "put"
  /\ returnError(t, TRUE)
  /\ inflight' = inflight \cup {body(t)}
  /\ UNCHANGED <<group, edits, request, snapshot, include, seen>>

Land ==
  \E late \in inflight :
    /\ group' = late
    /\ inflight' = inflight \ {late}
    /\ Witness(late)
    /\ UNCHANGED <<edits, request, pc, attempts, snapshot, include, result>>

(***************************************************************************)
(* Administrators                                                          *)
(***************************************************************************)

Edit ==
  /\ edits < MaxEdits
  /\ edits' = edits + 1
  /\ group' \in AdminGroups \ {group}
  /\ Witness(group')
  /\ UNCHANGED <<inflight, request, pc, attempts, snapshot, include, result>>

Work(t) ==
  \/ Start(t) \/ Reject(t) \/ ReadFails(t) \/ Read(t)
  \/ Apply(t) \/ Acknowledge(t) \/ LoseAnswer(t) \/ WriteFails(t) \/ Abandon(t)
  \/ Resume(t) \/ Cancel(t)

Next == (\E t \in Tasks : Work(t)) \/ Land \/ Edit

Spec == Init /\ [][Next]_vars

\* Every call is bounded by the HTTP client's timeout and every wait by the
\* retryer's delay, and each task has a goroutine of its own.
FairSpec == Spec /\ \A t \in Tasks : WF_vars(Work(t))

(***************************************************************************)
(* Properties                                                              *)
(***************************************************************************)

\* No write of the connector, late or not, leaves the group without an
\* Include rule: Revoke refuses to remove the last one.
NeverEmptyInclude ==
  /\ group.include # {}
  /\ \A late \in inflight : late.include # {}

\* An answer was true at some moment of the task, whatever other tasks,
\* administrators and late writes do meanwhile: a user reported granted (or
\* there already) was admitted, a user reported revoked (or not there) was
\* not, and a refused request had found the group not as it wanted it.
AnswersWereTrue ==
  \A t \in Tasks :
    /\ result[t] \in {"ok", "alreadyExists", "alreadyRevoked"} => isGrant(t) \in seen[t]
    /\ result[t] = "refused" => (~isGrant(t)) \in seen[t]

\* The rule Grant adds is the only one that admits the user, so a Revoke that
\* finds the group as Grant wrote it removes the rule and restores the Include
\* list Grant found: granting never leaves a rule that blocks the revoke.
GrantCanBeRevoked ==
  \A t \in Tasks :
    pc[t] \in {"put", "ack"} /\ isGrant(t) =>
      /\ revokeDecision(body(t), email(t)) = "revokeRemoveRule"
      /\ filterIncludeEmail(include[t], email(t)) = snapshot[t].include

Membership(grp) == {FoldOf[e] : e \in {a \in Addresses : isMember(grp, grp.include, a)}}

\* A write built on the group as it still is moves the request's user and
\* leaves everybody else, the group's name, Require and Exclude as they were.
OnlyTheUserMoves ==
  [][\A t \in Tasks :
       Apply(t) /\ snapshot[t] = group =>
         /\ \A a \in Addresses : ~EqualFold(a, email(t)) =>
              isMember(group', group'.include, a) = isMember(group, group.include, a)
         /\ isMember(group', group'.include, email(t)) = isGrant(t)
         /\ [group' EXCEPT !.include = group.include] = group]_vars

\* "Reads that feed a write use it, so the write is never built on a stale
\* copy" (pkg/client/client.go): then no write for one user undoes the change
\* for another user whose task was answered with success.
AnsweredChangesStay ==
  [][\A t, u \in Tasks :
       Apply(t) /\ result[u] = "ok" /\ ~EqualFold(email(t), email(u))
         /\ Admitted(u, group) = isGrant(u)
       => Admitted(u, group') = isGrant(u)]_vars

\* The runner answers every task: retries are bounded and nothing waits for
\* something that need not happen.
EveryTaskAnswered == \A t \in Tasks : <>(pc[t] = "done")

(***************************************************************************)
(* One task at a time, no other writer: the group is a set of users        *)
(***************************************************************************)

Promise == INSTANCE GroupMembership WITH
  Users   <- {FoldOf[a] : a \in Addresses},
  Nobody  <- Blank,
  members <- Membership(group),
  asked   <- [t \in Tasks |->
                [op  |-> request[t].op,
                 who |-> IF wellFormed(t) THEN FoldOf[email(t)] ELSE Blank]],
  status  <- [t \in Tasks |-> IF running(t) THEN "running"
                              ELSE IF pc[t] = "queued" THEN "queued" ELSE result[t]],
  changed <- [t \in Tasks |-> seen[t] = BOOLEAN]

\* Sequential provisioning keeps the promise of GroupMembership.
KeepsPromise == Promise!Spec

=============================================================================
