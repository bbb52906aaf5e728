-------------------------------- MODULE Engines --------------------------------
(***************************************************************************)
(* What the engine adapters make of a drift check (internal/iac/pulumi and *)
(* internal/iac/hcl, DriftCheck).  An answer of an engine is               *)
(* [engine, refreshed, exit, json, diag, steps]: whether the refresh before *)
(* it succeeded, the exit code, whether the output is a plan that parses,  *)
(* whether it carries an error diagnostic, and the steps it lists.  A step *)
(* of Pulumi is [urn, type, op, diff], a change of Terraform or OpenTofu   *)
(* [address, type, actions, before, after].                                *)
(***************************************************************************)
EXTENDS Noise, Sequences

(* normalizeOp: the replacement of a resource is listed as several steps. *)
NormalizeOp(op) ==
  CASE op \in {"create", "import"} -> "create"
    [] op \in {"update", "delete"} -> op
    [] op \in {"replace", "create-replacement", "delete-replaced"} -> "replace"
    [] OTHER -> "none"

(* A resource the program declares and the cloud has lost is created anew. *)
PulumiCategory(op) == IF op = "create" THEN "orphaned" ELSE "changed"

(* driftResourcesFromJSON, driftedURNsFromJSON *)
PulumiChanges(steps) ==
  {Change(s.urn, s.type, NormalizeOp(s.op), PulumiCategory(NormalizeOp(s.op)), s.diff) :
     s \in {x \in steps : NormalizeOp(x.op) # "none"}}

(* Mutant of PulumiUsable: a plan that parses is enough. *)
PulumiUsableIfParsed(a) == a.refreshed /\ a.json

(* The exit code of `preview --expect-no-changes' says nothing: a plan that  *)
(* parses and carries no error is the verdict.                               *)
PulumiUsable(a) == a.refreshed /\ a.json /\ ~a.diag

(* opOf *)
OpOf(actions) ==
  CASE actions \in {<<"create">>, <<"update">>, <<"delete">>} -> actions[1]
    [] actions \in {<<"delete", "create">>, <<"create", "delete">>} -> "replace"
    [] OTHER -> "none"

(* In resource_drift a delete is a resource gone from the cloud, a create    *)
(* one the state does not know.                                              *)
TerraformCategory(op) ==
  CASE op = "delete" -> "orphaned" [] op = "create" -> "missing" [] OTHER -> "changed"

(* changedPaths, of resources as functions from the paths of their leaves.   *)
ChangedPaths(before, after) ==
  {p \in DOMAIN before \cup DOMAIN after :
     ~(p \in DOMAIN before /\ p \in DOMAIN after /\ before[p] = after[p])}

(* driftResources, changedAddresses *)
TerraformChanges(steps) ==
  {Change(s.address, s.type, OpOf(s.actions), TerraformCategory(OpOf(s.actions)),
          IF OpOf(s.actions) \in {"update", "replace"} THEN ChangedPaths(s.before, s.after) ELSE {}) :
     s \in {x \in steps : OpOf(x.actions) # "none"}}

(* `plan -refresh-only -detailed-exitcode': 0 is no change, 2 a change,      *)
(* everything else a failure; then `show -json' must give a plan.            *)
TerraformUsable(a) == a.exit \in {0, 2} /\ a.json

Usable(a) == IF a.engine = "pulumi" THEN PulumiUsable(a) ELSE TerraformUsable(a)

Changes(a) == IF a.engine = "pulumi" THEN PulumiChanges(a.steps) ELSE TerraformChanges(a.steps)

(* DriftCheck: no verdict, or the drifted resources and what changed. *)
DriftCheck(a) == [failed |-> ~Usable(a), diff |-> Diff(Changes(a))]

=============================================================================
