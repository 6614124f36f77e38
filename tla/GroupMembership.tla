-------------------------- MODULE GroupMembership --------------------------
(***************************************************************************)
(* What provisioning promises about one Access group when the connector is *)
(* its only writer and works on one request at a time: the group is a set  *)
(* of users, a request moves the user it names and nobody else, at most    *)
(* once, and the answer tells the truth about the group as it now is.      *)
(* A failed request promises nothing: it may have been carried out.        *)
(***************************************************************************)
CONSTANTS
  Tasks,    \* provisioning tasks
  Users,    \* users, as folded e-mail addresses
  Nobody    \* what a request that carries no address names

VARIABLES
  members,  \* the users the group admits
  asked,    \* per task, the operation and the user it names
  status,   \* per task, where it is or what it was answered
  changed   \* per task, whether it has moved its user

vars == <<members, asked, status, changed>>

Answers == {"ok", "alreadyExists", "alreadyRevoked", "refused", "failed"}

TypeOK ==
  /\ members \subseteq Users
  /\ asked \in [Tasks -> [op : {"grant", "revoke"}, who : Users \cup {Nobody}]]
  /\ status \in [Tasks -> {"queued", "running"} \cup Answers]
  /\ changed \in [Tasks -> BOOLEAN]

Init ==
  /\ TypeOK
  /\ status = [t \in Tasks |-> "queued"]
  /\ changed = [t \in Tasks |-> FALSE]

Grants(t) == asked[t].op = "grant"

\* The group is as the request wants it.
Satisfied(t) == (asked[t].who \in members) = Grants(t)

Begin(t) ==
  /\ status[t] = "queued"
  /\ \A u \in Tasks : status[u] # "running"
  /\ status' = [status EXCEPT ![t] = "running"]
  /\ UNCHANGED <<members, asked, changed>>

Move(t) ==
  /\ status[t] = "running"
  /\ asked[t].who # Nobody
  /\ ~changed[t]
  /\ ~Satisfied(t)
  /\ members' = IF Grants(t) THEN members \cup {asked[t].who}
                             ELSE members \ {asked[t].who}
  /\ changed' = [changed EXCEPT ![t] = TRUE]
  /\ UNCHANGED <<asked, status>>

\* "ok" is the answer to the attempt that moved the user; "already" may also
\* be the answer to a retry of a move whose own answer was lost.
Succeed(t) ==
  /\ status[t] = "running"
  /\ Satisfied(t)
  /\ \/ changed[t] /\ status' = [status EXCEPT ![t] = "ok"]
     \/ Grants(t)  /\ status' = [status EXCEPT ![t] = "alreadyExists"]
     \/ ~Grants(t) /\ status' = [status EXCEPT ![t] = "alreadyRevoked"]
  /\ UNCHANGED <<members, asked, changed>>

\* A refused request changed nothing, and there was something to change.
Refuse(t) ==
  /\ status[t] = "running"
  /\ ~changed[t]
  /\ ~Satisfied(t)
  /\ status' = [status EXCEPT ![t] = "refused"]
  /\ UNCHANGED <<members, asked, changed>>

Fail(t) ==
  /\ status[t] = "running"
  /\ status' = [status EXCEPT ![t] = "failed"]
  /\ UNCHANGED <<members, asked, changed>>

Next == \E t \in Tasks : Begin(t) \/ Move(t) \/ Succeed(t) \/ Refuse(t) \/ Fail(t)

Spec == Init /\ [][Next]_vars

=============================================================================
