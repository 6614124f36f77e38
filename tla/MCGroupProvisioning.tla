------------------------ MODULE MCGroupProvisioning ------------------------
(***************************************************************************)
(* Instances of GroupProvisioning for TLC: two spellings of one address    *)
(* and an address of another domain, and groups that mix rules of every    *)
(* class.                                                                  *)
(***************************************************************************)
EXTENDS GroupProvisioning

Ann == "ann@x.org"
ANN == "Ann@X.org"
Bob == "bob@y.org"

MCAddresses == {Ann, ANN, Bob}
MCDomains   == {"x.org", "y.org"}
MCFoldOf    == [e \in Emails |-> IF e = ANN THEN Ann ELSE e]
MCDomainOf  == [e \in Emails |-> CASE e \in {Ann, ANN} -> "x.org"
                                   [] e = Bob -> "y.org"
                                   [] OTHER -> Blank]
MCGroupIds     == {"g1"}
MCContextKeys  == {"geo"}
MCIdentityKeys == {"email_list"}
MCNames        == {"n1", "n2"}

Everyone  == [key |-> "everyone", value |-> Blank]
InX       == [key |-> "email_domain", value |-> "x.org"]
Nested    == [key |-> "group", value |-> "g1"]
FromUS    == [key |-> "geo", value |-> Blank]
InList    == [key |-> "email_list", value |-> Blank]
NoAddress == [key |-> "email", value |-> Blank]

Group(n, i, r, x) == [name |-> n, include |-> i, require |-> r, exclude |-> x]

UserAt(a) == [type |-> "user", primary |-> {a}, profile |-> Blank, display |-> Blank]

Ask(ops, principals) == [op : ops, principal : principals]

Both == {"grant", "revoke"}

\* Include lists of one or two rules of every class.
SmallIncludes ==
  {{p, q} : p, q \in {EmailRule(Ann), EmailRule(ANN), EmailRule(Bob), Everyone,
                      InX, Nested, FromUS, NoAddress, NotAnObject}}

ManyGroups ==
  {Group("n1", i, r, x) : i \in SmallIncludes,
                          r \in {{}, {InX, FromUS}, {InList}},
                          x \in {{}, {EmailRule(ANN)}}}

\* A last rule to revoke, a rule among others, a blocked revoke, and groups
\* whose Exclude or Require keeps users out.
FewGroups ==
  {Group("n1", {EmailRule(Ann)}, {}, {}),
   Group("n1", {EmailRule(ANN), EmailRule(Bob), Nested}, {FromUS}, {}),
   Group("n1", {EmailRule(ANN), EmailRule(Bob), InX}, {}, {}),
   Group("n1", {InX, Nested}, {}, {EmailRule(Bob)}),
   Group("n1", {EmailRule(Bob), FromUS}, {InX}, {})}

EditedGroups ==
  {Group("n2", {EmailRule(Bob)}, {InX}, {}),
   Group("n1", {Everyone}, {}, {EmailRule(Ann)}),
   Group("n1", {EmailRule(ANN)}, {}, {})}

AnnAndBob == Ask(Both, {UserAt(Ann), UserAt(Bob)})

\* Two users, one of them under two spellings.
TwoSpellings ==
  Ask({"grant"}, {UserAt(Ann)}) \cup Ask({"revoke"}, {UserAt(ANN), UserAt(Bob)})

\* And a principal that is no user.
AnnBobAndNoUser ==
  AnnAndBob \cup Ask({"grant"}, {[type |-> "other", primary |-> {Ann}, profile |-> Blank, display |-> Blank]})

=============================================================================
