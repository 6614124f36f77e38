---------------------------- MODULE AccessRules ----------------------------
(***************************************************************************)
(* The rule language of a Cloudflare Access group as the connector reads   *)
(* it (pkg/connector/access_rules_helper.go) and the two edits of an       *)
(* Include list that provisioning makes (pkg/connector/groups.go).         *)
(*                                                                         *)
(* A rule is a record with the rule's single JSON key and the payload      *)
(* under it.  Rule lists are sets: every definition of the source that     *)
(* reads a list is insensitive to the order and the repetition of rules,   *)
(* and the one that rebuilds a list drops every rule that matches.         *)
(***************************************************************************)

CONSTANTS
  Addresses,      \* the e-mail addresses, as strings: case variants differ
  FoldOf,         \* what strings.EqualFold compares of an address
  Domains,        \* the (case-folded) domains an email_domain rule can name
  DomainOf,       \* the (case-folded) text after an address's last "@"
  GroupIds,       \* ids a nested "group" rule can name
  ContextKeys,    \* rule keys of contextualRuleKeys
  IdentityKeys,   \* rule keys that name identities of another directory
  Blank,          \* a payload without a usable string; the empty address
  Malformed,      \* a payload that is not a JSON object
  Names           \* group names

Emails == Addresses \cup {Blank}

(***************************************************************************)
(* EqualFold is an equivalence, so it is the equality of a folded form;    *)
(* "@" folds to itself only, so equal addresses have equal domains; only   *)
(* the empty string folds to the empty string.                             *)
(***************************************************************************)
ASSUME FoldAssumption ==
  /\ Blank \notin Addresses \cup Domains \cup GroupIds
  /\ Malformed \notin Emails \cup Domains \cup GroupIds
  /\ \A e \in Addresses : FoldOf[e] # FoldOf[Blank]
  /\ DomainOf \in [Emails -> Domains \cup {Blank}]
  /\ \A e, f \in Emails : FoldOf[e] = FoldOf[f] => DomainOf[e] = DomainOf[f]

ASSUME KeyAssumption ==
  /\ ContextKeys \cap IdentityKeys = {}
  /\ {"", "everyone", "email", "email_domain", "group"}
       \cap (ContextKeys \cup IdentityKeys) = {}

EqualFold(e, f) == FoldOf[e] = FoldOf[f]

(***************************************************************************)
(* Rules and groups                                                        *)
(***************************************************************************)

\* Key "" is a list element that is not a JSON object.
NotAnObject == [key |-> "", value |-> Malformed]

EmailRule(email) == [key |-> "email", value |-> email]

Rules ==
  {NotAnObject}
  \cup [key : {"everyone"}, value : {Blank}]
  \cup [key : {"email"}, value : Emails \cup {Malformed}]
  \cup [key : {"email_domain"}, value : Domains \cup {Blank, Malformed}]
  \cup [key : {"group"}, value : GroupIds \cup {Blank, Malformed}]
  \cup [key : ContextKeys \cup IdentityKeys, value : {Blank}]

Groups ==
  [name : Names, include : SUBSET Rules,
   require : SUBSET Rules, exclude : SUBSET Rules]

(***************************************************************************)
(* Evaluation                                                              *)
(***************************************************************************)

ruleKey(rule) == rule.key

\* An email or email_domain payload without a usable string matches nobody.
evaluateRule(rule, email) ==
  CASE rule.key = "everyone" -> "ruleMatch"
    [] rule.key = "email" /\ rule.value # Malformed ->
         IF rule.value # Blank /\ EqualFold(rule.value, email)
         THEN "ruleMatch" ELSE "ruleNoMatch"
    [] rule.key = "email_domain" /\ rule.value # Malformed ->
         IF rule.value # Blank /\ rule.value = DomainOf[email]
         THEN "ruleMatch" ELSE "ruleNoMatch"
    [] OTHER -> "ruleUnevaluable"

isEvaluableRule(rule) == evaluateRule(rule, Blank) # "ruleUnevaluable"

isContextualRule(rule) == ruleKey(rule) \in ContextKeys

anyRuleMatches(rules, email) ==
  \E rule \in rules : evaluateRule(rule, email) = "ruleMatch"

allRulesMatch(rules, email) ==
  \A rule \in rules : evaluateRule(rule, email) # "ruleNoMatch"

hasEvaluableRule(rules) == \E rule \in rules : isEvaluableRule(rule)

\* Seeded fault: nested groups are left out wherever they are, as if all of
\* them were expanded.
unresolvableButGroups(rules) ==
  {rule \in rules : ~isEvaluableRule(rule) /\ ~isContextualRule(rule) /\ ruleKey(rule) # "group"}

unresolvableIdentityRules(rules) ==
  {rule \in rules : ~isEvaluableRule(rule) /\ ~isContextualRule(rule)}

(***************************************************************************)
(* Include lists: the direct rules and the nested groups                   *)
(***************************************************************************)

isNestedGroupRule(rule) == rule.key = "group" /\ rule.value # Malformed

directRules(include) ==
  {rule \in include : rule # NotAnObject /\ ~isNestedGroupRule(rule)}

nestedGroupIDs(include) ==
  {rule.value : rule \in {r \in include : isNestedGroupRule(r) /\ r.value # Blank}}

satisfiesRequireExclude(grp, email) ==
  /\ allRulesMatch(grp.require, email)
  /\ ~anyRuleMatches(grp.exclude, email)

matchesDirectRules(grp, direct, email) ==
  anyRuleMatches(direct, email) /\ satisfiesRequireExclude(grp, email)

\* grp with its Include list taken to be include: a filtered list asks
\* "would they still be a member if these rules were written".
isMember(grp, include, email) ==
  matchesDirectRules(grp, directRules(include), email)

\* Seeded fault: a Require list never suppresses the expansion.
restrictsNestedExpansionExcludeOnly(grp) ==
  \E rule \in grp.exclude : isEvaluableRule(rule)

restrictsNestedExpansion(grp) ==
  \/ \E rule \in grp.exclude : isEvaluableRule(rule)
  \/ \E rule \in grp.require :
       isEvaluableRule(rule) /\ ruleKey(rule) # "everyone"

\* Grants logs that it skips rules of the group.
logsSkippedRules(grp) ==
  LET direct == directRules(grp.include)
  IN  \/ unresolvableIdentityRules(grp.require \cup direct \cup grp.exclude) # {}
      \/ ~hasEvaluableRule(direct) /\ nestedGroupIDs(grp.include) = {}

(***************************************************************************)
(* Cloudflare's own evaluation.  It resolves the rules the connector       *)
(* cannot: claims are those of them that hold of the user.  Contextual     *)
(* rules are about requests, not about who is a member.                    *)
(***************************************************************************)

opaque(rule) == rule.key \in IdentityKeys \cup {"group", ""} \/ rule.value = Malformed

holds(rule, claims, email) == evaluateRule(rule, email) = "ruleMatch" \/ rule \in claims

includes(grp, claims, email) ==
  \E rule \in directRules(grp.include) : holds(rule, claims, email)

letsPass(grp, claims, email) ==
  /\ \A rule \in grp.require : holds(rule, claims, email) \/ isContextualRule(rule)
  /\ \A rule \in grp.exclude : ~holds(rule, claims, email)

admits(grp, claims, email) == includes(grp, claims, email) /\ letsPass(grp, claims, email)

(***************************************************************************)
(* Editing an Include list                                                 *)
(***************************************************************************)

\* includeRuleEmail succeeds and the address it returns is email's.
namesAddress(rule, email) ==
  rule.key = "email" /\ rule.value \in Addresses /\ EqualFold(rule.value, email)

\* Seeded fault: every email rule is dropped, whomever it names.
filterIncludeEmailAll(include, email) == {rule \in include : rule.key # "email"}

filterIncludeEmail(include, email) ==
  {rule \in include : ~namesAddress(rule, email)}

\* Seeded fault: naming the address is taken for admitting the user alone.
revokeDecisionByRule(grp, email) ==
  IF ~isMember(grp, grp.include, email) THEN "revokeNotAMember"
  ELSE IF filterIncludeEmail(grp.include, email) = grp.include
       THEN "revokeBlocked" ELSE "revokeRemoveRule"

\* "found" is that the filter dropped a rule.
revokeDecision(grp, email) ==
  LET kept == filterIncludeEmail(grp.include, email)
  IN  IF ~isMember(grp, grp.include, email) THEN "revokeNotAMember"
      ELSE IF kept = grp.include \/ isMember(grp, kept, email)
           THEN "revokeBlocked" ELSE "revokeRemoveRule"

=============================================================================
