------------------------- MODULE MCRoleProvisioning -------------------------
(***************************************************************************)
(* Instances of RoleProvisioning for TLC: a user invited again under a     *)
(* second member ID, members on either model of access, and policies that  *)
(* share a group, bundle several, are limited to a zone, or deny.          *)
(***************************************************************************)
EXTENDS RoleProvisioning, TLC

MCUserOf   == [m \in Members |-> IF m = 3 THEN "u2" ELSE "u1"]
MCMirrorOf == [r \in Roles |-> CASE r = "admin" -> "Admin" [] r = "audit" -> "Audit"
                                 [] OTHER -> None]

S(status, roles, policies) == [status |-> status, roles |-> roles, policies |-> policies]

Pol(id, gs, scope, access) == [id |-> id, groups |-> gs, scope |-> scope, access |-> access]

Ask(ops, roles) == [op : ops, type : {"user"}, user : {"u1"}, role : roles]

Both == {"grant", "revoke"}

Out     == S("uninvited", {}, {})
Gone    == S("removed", {}, {})
Pending == S("pending", {"audit"}, {})
OneRole == S("accepted", {"audit"}, {})
Roles2  == S("accepted", {"admin", "audit"}, {})
Plain   == S("accepted", {}, {Pol(1, {"Audit"}, "account", "allow")})
Bundled == S("accepted", {}, {Pol(1, {"Admin", "Audit"}, "account", "allow"),
                              Pol(2, {"Admin"}, "zone", "allow"),
                              Pol(3, {"Admin"}, "zone", "deny")})
Account(s1, s2) == [m \in Members |-> IF m = 1 THEN s1 ELSE s2]

OnePerson == {Account(s, Out) : s \in {OneRole, Roles2, Plain, Bundled, Pending}}

\* Two people on different models, and one that is not a member yet.
TwoPeople ==
  {[m \in Members |-> IF m = 1 THEN s ELSE IF m = 3 THEN q ELSE Out] :
     s \in {Roles2, Bundled, Pending}, q \in {Plain}}

AnyStanding == {Pending, OneRole, Plain, Roles2, Gone}

RoleChanges == Ask(Both, {"admin", "audit"})

TwoPeoplesRequests ==
  [op : Both, type : {"user"}, user : {"u1", "u2"}, role : {"admin", "audit"}] \cup
  [op : {"grant"}, type : {"user", "other"}, user : {"u1"}, role : {"owner"}]

\* A role without a mirror group, and a principal that is not a user.
AnyRequest ==
  Ask(Both, {"audit", "owner"}) \cup
  [op : {"grant"}, type : {"other"}, user : {"u2"}, role : {"audit"}]

\* Tasks are alike: nothing orders them.
Symmetry == Permutations(Tasks)

=============================================================================
