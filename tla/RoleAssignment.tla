--------------------------- MODULE RoleAssignment ---------------------------
(***************************************************************************)
(* What provisioning promises about account roles when the connector is    *)
(* the only writer of members and works on one request at a time: a user   *)
(* that is a member holds a set of things, each on the account or a zone,  *)
(* allowed or denied; a request gives its user the one thing it names on   *)
(* the whole account, or takes that thing away wherever the user holds it, *)
(* and touches nothing else and nobody else; nobody loses the last thing;  *)
(* and the answer tells the truth about the user as things now are.        *)
(* A failed request promises nothing: it may have been carried out.        *)
(***************************************************************************)
CONSTANTS
  Tasks,    \* provisioning tasks
  Users,    \* users of the account
  Things,   \* what a user can hold: roles and permission groups
  Nobody,   \* whom a request names that is not about a user
  Nothing   \* what a request names that stands for nothing its user can hold

VARIABLES
  holds,    \* per user that is a member, what it holds
  asked,    \* per task, the operation, the user and the thing it names
  status    \* per task, where it is or what it was answered

vars == <<holds, asked, status>>

Items == Things \X {"account", "zone"} \X {"allow", "deny"}

Answers == {"ok", "noMember", "failed"}

TypeOK ==
  /\ \E members \in SUBSET Users : holds \in [members -> SUBSET Items]
  /\ asked \in [Tasks -> [op : {"grant", "revoke"}, who : Users \cup {Nobody},
                          what : Things \cup {Nothing}]]
  /\ status \in [Tasks -> {"queued", "running"} \cup Answers]

Init ==
  /\ TypeOK
  /\ status = [t \in Tasks |-> "queued"]

\* What the user of a request holds once the request is carried out.
After(t) ==
  LET mine == holds[asked[t].who]
      what == asked[t].what
  IN  IF asked[t].op = "grant" THEN mine \cup {<<what, "account", "allow">>}
                               ELSE {item \in mine : item[1] # what}

\* The user is a member, and could hold the thing.
Sensible(t) == asked[t].who \in DOMAIN holds /\ asked[t].what # Nothing

Begin(t) ==
  /\ status[t] = "queued"
  /\ \A u \in Tasks : status[u] # "running"
  /\ status' = [status EXCEPT ![t] = "running"]
  /\ UNCHANGED <<holds, asked>>

\* Moving twice, in a retry of a move whose answer was lost, is moving once.
Move(t) ==
  /\ status[t] = "running"
  /\ Sensible(t)
  /\ After(t) # {}
  /\ holds' = [holds EXCEPT ![asked[t].who] = After(t)]
  /\ UNCHANGED <<asked, status>>

Succeed(t) ==
  /\ status[t] = "running"
  /\ Sensible(t)
  /\ holds[asked[t].who] = After(t)
  /\ status' = [status EXCEPT ![t] = "ok"]
  /\ UNCHANGED <<holds, asked>>

FindNobody(t) ==
  /\ status[t] = "running"
  /\ asked[t].who \in Users \ DOMAIN holds
  /\ status' = [status EXCEPT ![t] = "noMember"]
  /\ UNCHANGED <<holds, asked>>

Fail(t) ==
  /\ status[t] = "running"
  /\ status' = [status EXCEPT ![t] = "failed"]
  /\ UNCHANGED <<holds, asked>>

Next == \E t \in Tasks : Begin(t) \/ Move(t) \/ Succeed(t) \/ FindNobody(t) \/ Fail(t)

Spec == Init /\ [][Next]_vars

=============================================================================
