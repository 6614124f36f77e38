------------------------- MODULE AccessRulesProofs -------------------------
(***************************************************************************)
(* What the two edits of an Include list do to membership, for every rule  *)
(* list: the facts the proofs about provisioning rest on.  And how far     *)
(* membership by the rules the connector can evaluate is from Cloudflare's *)
(* own, however the rules it skips turn out.                               *)
(***************************************************************************)
EXTENDS AccessRules, TLAPS

\* A rule that names an address is a direct rule and matches its user.
LEMMA NamingRuleMatches ==
  ASSUME NEW rule \in Rules, NEW e \in Emails, namesAddress(rule, e)
  PROVE  /\ rule # NotAnObject
         /\ ~isNestedGroupRule(rule)
         /\ evaluateRule(rule, e) = "ruleMatch"
<1>1. rule.key = "email" /\ rule.value \in Addresses /\ EqualFold(rule.value, e)
  BY DEF namesAddress
<1>2. rule.value # Malformed /\ rule.value # Blank
  BY <1>1, FoldAssumption DEF Emails
<1>3. evaluateRule(rule, e) = "ruleMatch"
  BY <1>1, <1>2 DEF evaluateRule
<1>4. "email" # "" /\ "email" # "group"
  OBVIOUS
<1>5. NotAnObject.key = ""
  BY DEF NotAnObject
<1> QED
  BY <1>1, <1>3, <1>4, <1>5 DEF isNestedGroupRule

\* The rule Grant appends names its address, and is a rule.
LEMMA EmailRuleNames ==
  ASSUME NEW e \in Addresses
  PROVE  EmailRule(e) \in Rules /\ namesAddress(EmailRule(e), e)
BY DEF EmailRule, Rules, Emails, namesAddress, EqualFold

\* A rule that names one address is no match for a user with another.
LEMMA NamingRuleMatchesNobodyElse ==
  ASSUME NEW rule \in Rules, NEW e \in Addresses, NEW a \in Addresses,
         namesAddress(rule, e), ~EqualFold(a, e)
  PROVE  evaluateRule(rule, a) # "ruleMatch"
<1>1. rule.key = "email" /\ rule.value \in Addresses /\ FoldOf[rule.value] = FoldOf[e]
  BY DEF namesAddress, EqualFold
<1>2. rule.value # Malformed
  BY <1>1, FoldAssumption DEF Emails
<1>3. ~EqualFold(rule.value, a)
  BY <1>1 DEF EqualFold
<1> QED
  BY <1>1, <1>2, <1>3 DEF evaluateRule

\* Appending the user's rule admits a user Require and Exclude let in.
LEMMA AppendAdmits ==
  ASSUME NEW grp \in Groups, NEW include \in SUBSET Rules, NEW e \in Addresses,
         satisfiesRequireExclude(grp, e)
  PROVE  isMember(grp, include \cup {EmailRule(e)}, e)
<1> DEFINE rule == EmailRule(e)
<1>1. rule \in Rules /\ namesAddress(rule, e)
  BY EmailRuleNames
<1>2. rule # NotAnObject /\ ~isNestedGroupRule(rule) /\ evaluateRule(rule, e) = "ruleMatch"
  BY <1>1, NamingRuleMatches DEF Emails
<1>3. anyRuleMatches(directRules(include \cup {rule}), e)
  BY <1>2 DEF anyRuleMatches, directRules
<1> QED
  BY <1>3 DEF isMember, matchesDirectRules

\* Neither edit changes whether anybody else matches the Include list.
LEMMA EditsMoveNobodyElse ==
  ASSUME NEW grp \in Groups, NEW include \in SUBSET Rules,
         NEW e \in Addresses, NEW a \in Addresses, ~EqualFold(a, e)
  PROVE  /\ isMember(grp, include \cup {EmailRule(e)}, a) = isMember(grp, include, a)
         /\ isMember(grp, filterIncludeEmail(include, e), a) = isMember(grp, include, a)
<1>1. evaluateRule(EmailRule(e), a) # "ruleMatch"
  BY EmailRuleNames, NamingRuleMatchesNobodyElse
<1>2. anyRuleMatches(directRules(include \cup {EmailRule(e)}), a)
        = anyRuleMatches(directRules(include), a)
  BY <1>1 DEF anyRuleMatches, directRules
<1>3. \A rule \in include : namesAddress(rule, e) => evaluateRule(rule, a) # "ruleMatch"
  BY NamingRuleMatchesNobodyElse
<1>4. anyRuleMatches(directRules(filterIncludeEmail(include, e)), a)
        = anyRuleMatches(directRules(include), a)
  BY <1>3 DEF anyRuleMatches, directRules, filterIncludeEmail
<1> QED
  BY <1>2, <1>4 DEF isMember, matchesDirectRules

\* A user let in by Require and Exclude who is not a member has no rule, so
\* dropping the rule Grant appended gives back the list Grant found.
LEMMA FilterUndoesAppend ==
  ASSUME NEW grp \in Groups, NEW e \in Addresses,
         satisfiesRequireExclude(grp, e), ~isMember(grp, grp.include, e)
  PROVE  filterIncludeEmail(grp.include \cup {EmailRule(e)}, e) = grp.include
<1>1. grp.include \in SUBSET Rules
  BY DEF Groups
<1>2. ~anyRuleMatches(directRules(grp.include), e)
  BY DEF isMember, matchesDirectRules
<1>3. \A rule \in grp.include : ~namesAddress(rule, e)
  BY <1>1, <1>2, NamingRuleMatches DEF anyRuleMatches, directRules, Emails
<1> QED
  BY <1>3, EmailRuleNames DEF filterIncludeEmail

\* Membership depends on the group's Require and Exclude lists and on the
\* Include list that is asked about, not on the one stored.
LEMMA MembershipOfBody ==
  ASSUME NEW grp \in Groups, NEW include \in SUBSET Rules,
         NEW rules \in SUBSET Rules, NEW e \in Emails
  PROVE  /\ [grp EXCEPT !.include = include] \in Groups
         /\ [grp EXCEPT !.include = include].include = include
         /\ isMember([grp EXCEPT !.include = include], rules, e) = isMember(grp, rules, e)
<1> DEFINE new == [grp EXCEPT !.include = include]
<1>1. /\ new \in Groups
      /\ new.include = include /\ new.require = grp.require /\ new.exclude = grp.exclude
  BY DEF Groups
<1>2. satisfiesRequireExclude(new, e) = satisfiesRequireExclude(grp, e)
  BY <1>1 DEF satisfiesRequireExclude
<1> QED
  BY <1>1, <1>2 DEF isMember, matchesDirectRules

(***************************************************************************)
(* Rules that are skipped                                                  *)
(***************************************************************************)

\* A rule is evaluated, contextual or opaque; only the first kind decides.
LEMMA RuleKinds ==
  ASSUME NEW rule \in Rules, NEW e \in Emails
  PROVE  /\ opaque(rule) \/ isContextualRule(rule)
              => evaluateRule(rule, e) = "ruleUnevaluable" /\ ~isEvaluableRule(rule)
         /\ isContextualRule(rule) => ~opaque(rule)
         /\ isEvaluableRule(rule)
              => /\ ~opaque(rule)
                 /\ evaluateRule(rule, e) \in {"ruleMatch", "ruleNoMatch"}
<1>1. Blank # Malformed
  BY FoldAssumption DEF Emails
<1>2. ASSUME rule.key \in {"everyone", "email", "email_domain"}, rule.value # Malformed
      PROVE  /\ isEvaluableRule(rule) /\ ~opaque(rule) /\ ~isContextualRule(rule)
             /\ evaluateRule(rule, e) \in {"ruleMatch", "ruleNoMatch"}
  BY <1>2, KeyAssumption
     DEF isEvaluableRule, evaluateRule, opaque, isContextualRule, ruleKey
<1>3. ASSUME rule.key \notin {"everyone", "email", "email_domain"} \/ rule.value = Malformed
      PROVE  /\ evaluateRule(rule, e) = "ruleUnevaluable" /\ ~isEvaluableRule(rule)
             /\ isContextualRule(rule) => ~opaque(rule)
  <2>1. (rule.key = "everyone" \/ rule.key \in ContextKeys) => rule.value = Blank
    <3>1. "everyone" \notin ContextKeys \cup IdentityKeys /\ \A k \in ContextKeys :
            k \notin {"", "everyone", "email", "email_domain", "group"}
      BY KeyAssumption
    <3>2. CASE rule = NotAnObject
      BY <3>1, <3>2 DEF NotAnObject
    <3>3. CASE rule \in [key : {"everyone"}, value : {Blank}]
                  \cup [key : ContextKeys \cup IdentityKeys, value : {Blank}]
      BY <3>3
    <3>4. CASE rule.key \in {"email", "email_domain", "group"}
      BY <3>1, <3>4
    <3> QED
      BY <3>2, <3>3, <3>4 DEF Rules
  <2>2. \A f : evaluateRule(rule, f) = "ruleUnevaluable"
    BY <1>1, <1>3, <2>1 DEF evaluateRule
  <2>3. isContextualRule(rule) => rule.value = Blank /\ rule.key \in ContextKeys
    BY <2>1 DEF isContextualRule, ruleKey
  <2> QED
    BY <1>1, <2>2, <2>3, KeyAssumption DEF isEvaluableRule, opaque
<1> QED
  BY <1>2, <1>3

\* A list without unresolvable rules has rules of the other two kinds only,
\* none of which Cloudflare's claims are about.
LEMMA ResolvableRules ==
  ASSUME NEW rules \in SUBSET Rules, NEW rule \in rules,
         NEW claims \in SUBSET {r \in Rules : opaque(r)},
         unresolvableIdentityRules(rules) = {}
  PROVE  (isEvaluableRule(rule) \/ isContextualRule(rule)) /\ rule \notin claims
<1>1. isEvaluableRule(rule) \/ isContextualRule(rule)
  BY DEF unresolvableIdentityRules
<1>2. Blank \in Emails
  BY DEF Emails
<1> QED
  BY <1>1, <1>2, RuleKinds

\* If none of a group's direct Include rules is unresolvable, the connector
\* reports whomever those rules, Require and Exclude admit: "a group carrying
\* one may report more members than Cloudflare would admit"
\* (access_rules_helper.go), and never fewer.
THEOREM SkippingOverReports ==
  ASSUME NEW grp \in Groups, NEW e \in Emails,
         NEW claims \in SUBSET {rule \in Rules : opaque(rule)},
         unresolvableIdentityRules(directRules(grp.include)) = {},
         admits(grp, claims, e)
  PROVE  isMember(grp, grp.include, e)
<1>0. /\ directRules(grp.include) \in SUBSET Rules
      /\ grp.require \in SUBSET Rules /\ grp.exclude \in SUBSET Rules
  BY DEF Groups, directRules
<1>1. anyRuleMatches(directRules(grp.include), e)
  <2>1. PICK rule \in directRules(grp.include) :
          evaluateRule(rule, e) = "ruleMatch" \/ rule \in claims
    BY DEF admits, includes, holds
  <2> QED
    BY <1>0, <2>1, ResolvableRules DEF anyRuleMatches
<1>2. allRulesMatch(grp.require, e)
  <2>1. ASSUME NEW rule \in grp.require PROVE evaluateRule(rule, e) # "ruleNoMatch"
    <3>1. \/ evaluateRule(rule, e) = "ruleMatch"
          \/ rule \in Rules /\ (opaque(rule) \/ isContextualRule(rule))
      BY <1>0 DEF admits, letsPass, holds
    <3> QED
      BY <3>1, RuleKinds
  <2> QED
    BY <2>1 DEF allRulesMatch
<1>3. ~anyRuleMatches(grp.exclude, e)
  BY DEF admits, letsPass, holds, anyRuleMatches
<1> QED
  BY <1>1, <1>2, <1>3 DEF isMember, matchesDirectRules, satisfiesRequireExclude

\* Of a group the sync logs nothing about, Cloudflare makes what the connector
\* does, of its direct rules and of its Require and Exclude.
LEMMA SilentRules ==
  ASSUME NEW grp \in Groups, NEW e \in Emails,
         NEW claims \in SUBSET {rule \in Rules : opaque(rule)},
         ~logsSkippedRules(grp)
  PROVE  /\ includes(grp, claims, e) <=> anyRuleMatches(directRules(grp.include), e)
         /\ letsPass(grp, claims, e) <=> satisfiesRequireExclude(grp, e)
<1> DEFINE direct == directRules(grp.include)
           all    == grp.require \cup direct \cup grp.exclude
<1>1. all \in SUBSET Rules /\ unresolvableIdentityRules(all) = {}
  BY DEF Groups, directRules, logsSkippedRules
<1>2. \A rule \in all : rule \notin claims /\ (isEvaluableRule(rule) \/ isContextualRule(rule))
  BY <1>1, ResolvableRules
<1>3. \A rule \in all : holds(rule, claims, e) <=> evaluateRule(rule, e) = "ruleMatch"
  BY <1>2 DEF holds
<1>4. \A rule \in grp.require : holds(rule, claims, e) \/ isContextualRule(rule)
                                <=> evaluateRule(rule, e) # "ruleNoMatch"
  BY <1>1, <1>2, <1>3, RuleKinds
<1> QED
  BY <1>3, <1>4
     DEF includes, letsPass, anyRuleMatches, satisfiesRequireExclude, allRulesMatch

\* A group the sync logs nothing about is reported as it is, whoever the rules
\* the connector cannot resolve stand for: "logged at sync time"
\* (docs/connector.mdx) misses no group.
THEOREM SilentGroupsAreExact ==
  ASSUME NEW grp \in Groups, NEW e \in Emails,
         NEW claims \in SUBSET {rule \in Rules : opaque(rule)},
         ~logsSkippedRules(grp)
  PROVE  admits(grp, claims, e) <=> isMember(grp, grp.include, e)
BY SilentRules DEF admits, isMember, matchesDirectRules

(***************************************************************************)
(* Nested groups                                                           *)
(***************************************************************************)

\* A group whose nested groups may be expanded keeps nobody out whom one of
\* them lets in: of its Require rules only "everyone" is evaluated, and of its
\* Exclude rules none.
LEMMA ExpandableKeepsNobodyOut ==
  ASSUME NEW grp \in Groups, NEW e \in Emails, ~restrictsNestedExpansion(grp)
  PROVE  satisfiesRequireExclude(grp, e)
<1>1. ASSUME NEW rule \in Rules, ~isEvaluableRule(rule)
      PROVE  evaluateRule(rule, e) = "ruleUnevaluable"
  <2>1. CASE rule.key \in {"everyone", "email", "email_domain"} /\ rule.value # Malformed
    BY <1>1, <2>1 DEF isEvaluableRule, evaluateRule
  <2>2. CASE rule.key \notin {"everyone", "email", "email_domain"}
    BY <2>2 DEF evaluateRule
  <2>3. CASE rule.key \in {"email", "email_domain"} /\ rule.value = Malformed
    BY <2>3 DEF evaluateRule
  <2>4. CASE rule.key = "everyone"
    BY <1>1, <2>4 DEF isEvaluableRule, evaluateRule
  <2> QED
    BY <2>1, <2>2, <2>3, <2>4
<1>2. ~anyRuleMatches(grp.exclude, e)
  BY <1>1 DEF restrictsNestedExpansion, anyRuleMatches, Groups
<1>3. ASSUME NEW rule \in grp.require PROVE evaluateRule(rule, e) # "ruleNoMatch"
  <2>1. rule \in Rules
    BY DEF Groups
  <2>2. CASE ~isEvaluableRule(rule)
    BY <1>1, <2>1, <2>2
  <2>3. CASE rule.key = "everyone"
    BY <2>3 DEF evaluateRule
  <2> QED
    BY <2>2, <2>3 DEF restrictsNestedExpansion, ruleKey
<1> QED
  BY <1>2, <1>3 DEF satisfiesRequireExclude, allRulesMatch

=============================================================================
