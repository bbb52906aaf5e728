------------------------------- MODULE Approvals -------------------------------
(***************************************************************************)
(* Approval rules (internal/core/approvals): the rules of a stack are      *)
(* layered from the default and every matching pattern, and a set of raw   *)
(* approvals is judged by the resolved rules.  Pure functions; logins are  *)
(* compared without their leading @.                                       *)
(***************************************************************************)
EXTENDS Integers, Sequences, FiniteSets

CONSTANTS
  User,       \* logins
  Team,       \* org/team slugs
  Email,      \* CODEOWNERS entries that are mail addresses
  NoSHA,      \* an approval that carries no commit
  NoTime      \* an approval that carries no submission time

ASSUME NamesAssumption == User \cap Team = {} /\ Email \cap (User \cup Team) = {}

-----------------------------------------------------------------------------
(* Layering.  A layer is a stack pattern with `present', the scalar fields   *)
(* it sets, and the counts of its literal and wildcard characters.           *)
Fields == {"required", "allGroups", "codeowners", "dismiss", "unpinned", "freshness"}

(* The rules of a stack. *)
Rules ==
  [required : Int, approvers : SUBSET (User \cup Team), allGroups : BOOLEAN, codeowners : BOOLEAN,
   dismiss : BOOLEAN, unpinned : BOOLEAN,
   freshness : Int,             \* 0: the age of an approval does not matter
   unlistedOnPublic : BOOLEAN]

Layer == [literals : Nat, wildcards : Nat, present : SUBSET Fields, rules : Rules]

Specificity(layer) == layer.literals - 2 * layer.wildcards

(* Mutant of Orders: the broadest pattern last. *)
BroadestLast(layers) ==
  {o \in [1..Cardinality(layers) -> layers] :
     \A i, j \in 1..Cardinality(layers) :
       i < j => o[i] # o[j] /\ Specificity(o[i]) >= Specificity(o[j])}

(* sortBySpecificity is stable on the order the configuration map happens to *)
(* be iterated in: any order in which specificity does not decrease.         *)
Orders(layers) ==
  {o \in [1..Cardinality(layers) -> layers] :
     \A i, j \in 1..Cardinality(layers) :
       i < j => o[i] # o[j] /\ Specificity(o[i]) <= Specificity(o[j])}

(* The last layer that sets a field decides it; approver lists are united.   *)
Resolve(default, order) ==
  LET setters(f) == {i \in DOMAIN order : f \in order[i].present}
      last(f)    == CHOOSE i \in setters(f) : \A j \in setters(f) : j <= i
      value(f)   == IF setters(f) = {} THEN default[f] ELSE order[last(f)].rules[f]
  IN  [f \in DOMAIN default |->
         IF f = "approvers"
         THEN default.approvers \cup UNION {order[i].rules.approvers : i \in DOMAIN order}
         ELSE IF f \in Fields THEN value(f) ELSE default[f]]

-----------------------------------------------------------------------------
(* Evaluation.  pr is [head, author, private], teams gives the members of    *)
(* the teams that could be expanded ({} for the others), owners the          *)
(* CODEOWNERS entries of the changed paths that have any.                    *)

(* A bare approve comment is not pinned to a commit. *)
ForThisHead(rules, a, pr) ==
  rules.dismiss => IF a.pinned THEN a.sha \in {NoSHA, pr.head} ELSE rules.unpinned

Fresh(rules, a, now) ==
  rules.freshness > 0 => a.at # NoTime /\ now - a.at <= rules.freshness

Counts(rules, a, pr, now) ==
  ForThisHead(rules, a, pr) /\ a.by # pr.author /\ Fresh(rules, a, now)

Approvers(rules, raw, pr, now) == {a.by : a \in {b \in raw : Counts(rules, b, pr, now)}}

(* ExpandTeams: only the teams asked for have members, and of those only the *)
(* ones the forge could answer for (live gives {} for the others).           *)
ExpandTeams(slugs, live) == [t \in Team |-> IF t \in slugs THEN live[t] ELSE {}]

(* Apply asks for the teams of the rules, of CODEOWNERS and, in an           *)
(* emergency, of its list; explain only for those of the rules.              *)
ApplyTeams(rules, owners, list, live) ==
  ExpandTeams(rules.approvers \cup list \cup UNION {owners[p] : p \in DOMAIN owners}, live)

ExplainTeams(rules, live) == ExpandTeams(rules.approvers, live)

Members(g, teams) == IF g \in Team THEN teams[g] ELSE {g}

Eligible(list, teams) == UNION {Members(g, teams) : g \in list}

(* Mail addresses cannot be matched to logins; a path with no other owner is *)
(* not enforced.                                                             *)
EffectiveOwners(rules, owners) ==
  IF rules.codeowners
  THEN {owners[p] \ Email : p \in {x \in DOMAIN owners : owners[x] \ Email # {}}}
  ELSE {}

(* A stack without any gate still needs one approval. *)
RequiredApprovals(rules, owners) ==
  IF /\ rules.required = 0
     /\ ~rules.allGroups \/ rules.approvers = {}
     /\ EffectiveOwners(rules, owners) = {}
  THEN 1 ELSE rules.required

(* On a public repository anybody can review: without a list, reviews do not *)
(* count unless the operator opted in.                                       *)
PublicUnlisted(rules, pr) ==
  rules.approvers = {} /\ ~pr.private /\ ~rules.unlistedOnPublic

Hits(rules, who, pr, teams) ==
  IF PublicUnlisted(rules, pr) THEN {}
  ELSE IF rules.approvers = {} THEN who
  ELSE who \cap Eligible(rules.approvers, teams)

NumericGate(rules, who, pr, owners, teams) ==
  RequiredApprovals(rules, owners) > 0 =>
    /\ ~PublicUnlisted(rules, pr)
    /\ Cardinality(Hits(rules, who, pr, teams)) >= RequiredApprovals(rules, owners)

GroupGate(rules, who, teams) ==
  rules.allGroups => \A g \in rules.approvers : who \cap Members(g, teams) # {}

OwnerGate(rules, who, owners, teams) ==
  \A os \in EffectiveOwners(rules, owners) : who \cap Eligible(os, teams) # {}

(* TotalNeeded > 0: a negative required_approvals is no gate and passes none.*)
SomeGate(rules, owners) ==
  \/ RequiredApprovals(rules, owners) > 0
  \/ rules.allGroups /\ rules.approvers # {}
  \/ EffectiveOwners(rules, owners) # {}

Satisfied(rules, raw, pr, owners, teams, now) ==
  LET who == Approvers(rules, raw, pr, now)
  IN  /\ NumericGate(rules, who, pr, owners, teams)
      /\ GroupGate(rules, who, teams)
      /\ OwnerGate(rules, who, owners, teams)
      /\ SomeGate(rules, owners)

=============================================================================
