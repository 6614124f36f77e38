--------------------------- MODULE MCAccountSync ---------------------------
(***************************************************************************)
(* Instances of AccountSync for TLC: pages of two, so that listings end in *)
(* full and in short pages, and groups that nest and change.               *)
(***************************************************************************)
EXTENDS AccountSync

Ann == "ann@x.org"
Bob == "bob@y.org"
Cyd == "cyd@x.org"
Dan == "dan@y.org"

MCAddresses == {Ann, Bob, Cyd, Dan}
MCThree     == {Ann, Bob, Cyd}
MCDomains   == {"x.org", "y.org"}
MCFoldOf    == [e \in Emails |-> e]
MCDomainOf  == [e \in Emails |-> CASE e \in {Ann, Cyd} -> "x.org"
                                   [] e \in {Bob, Dan} -> "y.org"
                                   [] OTHER -> Blank]
MCGroupIds     == {"g1", "g2"}
MCThreeGroups  == {"g1", "g2", "g3"}
MCGroupRank    == [g \in MCGroupIds |-> IF g = "g1" THEN 1 ELSE 2]
MCThreeRanks   == [g \in MCThreeGroups |-> IF g = "g3" THEN 0 ELSE MCGroupRank[g]]
MCRoles        == <<"r1", "r2", "r3">>
MCTwoRoles     == <<"r1", "r2">>
MCContextKeys  == {"geo"}
MCIdentityKeys == {"email_list"}
MCNames        == {"n"}

Member(a)  == [user |-> a, pending |-> FALSE]
Invited(a) == [user |-> a, pending |-> TRUE]

Everyone   == [key |-> "everyone", value |-> Blank]
InX        == [key |-> "email_domain", value |-> "x.org"]
Nested(g)  == [key |-> "group", value |-> g]
FromUS     == [key |-> "geo", value |-> Blank]
InList     == [key |-> "email_list", value |-> Blank]

Group(i, r, x) == [name |-> "n", include |-> i, require |-> r, exclude |-> x]

Two(g1, g2) == [g \in {"g1", "g2"} |-> IF g = "g1" THEN g1 ELSE g2]

\* No members, a page and a part of one, and two full pages.
SomeDirectories ==
  {<<>>,
   <<Invited(Bob), Member(Ann), Member(Cyd)>>,
   <<Member(Ann), Member(Bob), Member(Cyd), Member(Dan)>>}

\* A member more makes a second page, a member less undoes it.
TwoOrThree ==
  {<<Member(Ann), Member(Bob), Member(Cyd)>>, <<Invited(Ann), Member(Bob)>>}

ThreeAccessUsers == {<<Bob, Cyd, Dan>>}
OneAccessUser    == {<<Bob>>}

OneOpenGroup == {Two(Group({Everyone}, {}, {}), Group({InX}, {}, {}))}

\* Two groups, one nested and one that restricts, and what they may become.
EditedGroups == {Two(Group({Everyone, Nested("g2")}, {}, {}), Group({InX}, {}, {EmailRule(Cyd)}))}
SomeVersions == {Group({InX, Nested("g2")}, {}, {}), Group({EmailRule(Bob)}, {}, {EmailRule(Ann)})}

\* g1 nests g2, under Require and Exclude of every kind; g2 may nest g1, and
\* may be open to a list of addresses kept elsewhere.
NestingGroups ==
  {Two(Group({Nested("g2"), EmailRule(Dan)}, way[1], way[2]),
       Group({EmailRule(Bob), InX} \cup way[3], {}, {EmailRule(Cyd)})) :
     way \in {<<{InX}, {}, {}>>,
              <<{}, {EmailRule(Ann)}, {Nested("g1")}>>,
              <<{FromUS, Everyone}, {}, {Nested("g1")}>>,
              <<{Nested("g2")}, {}, {Nested("g1"), InList}>>}}

\* A user on the second page of members, if there is one.
OneSought == {Cyd}

=============================================================================
