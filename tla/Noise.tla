--------------------------------- MODULE Noise ---------------------------------
(***************************************************************************)
(* The noise filter of drift detection (internal/drift/classify_filter.go): *)
(* what of an engine's diff counts as drift under the `classification'      *)
(* block of drift.yaml.  A glob stands for the set of names it matches.     *)
(***************************************************************************)
EXTENDS FiniteSets

(* ResourceChange: what happened to one resource.  No paths: the engine does *)
(* not tell which properties differ.                                        *)
Change(address, type, op, category, paths) ==
  [address |-> address, type |-> type, op |-> op, category |-> category, paths |-> paths]

(* What an engine found: the addresses it calls drifted, and the changes one *)
(* by one.                                                                  *)
Diff(changes) == [urns |-> {ch.address : ch \in changes}, changes |-> changes]

(* Classification: ignore_properties as rules [types, paths],               *)
(* ignore_resources, and whether orphaned and missing resources are drift.  *)
Classification(properties, resources, orphaned, missing) ==
  [properties |-> properties, resources |-> resources, orphaned |-> orphaned, missing |-> missing]

(* buildClassification of a drift.yaml without the block: both categories    *)
(* count.                                                                   *)
NoClassification == Classification({}, {}, TRUE, TRUE)

Empty(c) == c = NoClassification

(* ignoredPropsFor *)
IgnoredPropsFor(c, type) == UNION {ip.paths : ip \in {x \in c.properties : type \in x.types}}

RetainedPaths(c, ch) == ch.paths \ IgnoredPropsFor(c, ch.type)

(* Only an update is nothing without its ignored properties. *)
Counted(c, ch) ==
  /\ ch.address \notin c.resources
  /\ ch.category = "orphaned" => c.orphaned
  /\ ch.category = "missing" => c.missing
  /\ ch.op = "update" /\ ch.paths # {} => RetainedPaths(c, ch) # {}

(* filter: the changes that count, updates without their ignored paths. *)
Filter(c, changes) ==
  {IF ch.op = "update" THEN [ch EXCEPT !.paths = RetainedPaths(c, ch)] ELSE ch :
     ch \in {x \in changes : Counted(c, x)}}

(* The drifted addresses of a check: of the changes that are left where the  *)
(* filter removed something (applyCounts), else the raw ones.               *)
DriftedSet(c, diff) ==
  IF ~Empty(c) /\ diff.changes # {} /\ Filter(c, diff.changes) # diff.changes
  THEN {ch.address : ch \in Filter(c, diff.changes)}
  ELSE diff.urns

(* What an operator asked not to hear of: a change of a resource or of a     *)
(* category that is not drift, or an update all of whose properties some    *)
(* rule for its type excludes.                                              *)
IsNoise(c, ch) ==
  \/ ch.address \in c.resources
  \/ ch.category = "orphaned" /\ ~c.orphaned
  \/ ch.category = "missing" /\ ~c.missing
  \/ /\ ch.op = "update" /\ ch.paths # {}
     /\ \A p \in ch.paths : \E ip \in c.properties : ch.type \in ip.types /\ p \in ip.paths

=============================================================================
