-------------------------------- MODULE MCDrift --------------------------------
(* Instances of Drift for TLC. *)
EXTENDS Drift

CONSTANTS s1, pager, chat

OneStack == <<s1>>

(* A channel that keeps incidents and one that only hears of detections. *)
MCOn ==
  [c \in Channel |->
     IF c = pager THEN {"drift_detected", "drift_resolved", "check_failed"}
     ELSE {"drift_detected"}]

(* A Pulumi preview that came to its end exits nonzero if there are changes; *)
(* one that did not may have listed some steps, beside an error.             *)
Pulumi(steps, diag, complete) ==
  [engine |-> "pulumi", refreshed |-> TRUE, exit |-> IF steps = {} THEN 0 ELSE 1, json |-> TRUE,
   diag |-> diag, steps |-> steps, complete |-> complete]

Same == [urn |-> "vpc", type |-> "aws_vpc", op |-> "same", diff |-> {}]
Retagged == [urn |-> "db", type |-> "aws_db", op |-> "update", diff |-> {"tags"}]
Resized == [urn |-> "db", type |-> "aws_db", op |-> "update", diff |-> {"tags", "size"}]
Replaced == [urn |-> "db", type |-> "aws_db", op |-> "create-replacement", diff |-> {"tags"}]
Recreated == [urn |-> "dns", type |-> "aws_record", op |-> "create", diff |-> {}]

PulumiAnswers ==
  {Pulumi(steps, FALSE, TRUE) :
     steps \in {{Same}, {Same, Retagged}, {Resized}, {Replaced}, {Retagged, Recreated}}}
  \cup {Pulumi({Same}, TRUE, FALSE), [Pulumi({}, FALSE, FALSE) EXCEPT !.json = FALSE]}

(* A refresh-only plan. *)
Terraform(steps) ==
  [engine |-> "terraform", refreshed |-> TRUE, exit |-> IF steps = {} THEN 0 ELSE 2, json |-> TRUE,
   diag |-> FALSE, steps |-> steps, complete |-> TRUE]

Attributes(tags, size) == [p \in {"tags", "size"} |-> IF p = "tags" THEN tags ELSE size]

Drifting(actions, after) ==
  [address |-> "db", type |-> "aws_db", actions |-> actions, before |-> Attributes(0, 0), after |-> after]

TerraformAnswers ==
  {Terraform({}), Terraform({Drifting(<<"no-op">>, Attributes(0, 0))}),
   Terraform({Drifting(<<"update">>, Attributes(0, 1))}),
   Terraform({Drifting(<<"update">>, Attributes(1, 1))}),
   Terraform({Drifting(<<"delete", "create">>, Attributes(0, 1))}),
   Terraform({[Drifting(<<"delete">>, << >>) EXCEPT !.address = "dns"]}),
   Terraform({[Drifting(<<"create">>, << >>) EXCEPT !.address = "dns"]}),
   [Terraform({}) EXCEPT !.exit = 1, !.complete = FALSE],
   [Terraform({}) EXCEPT !.json = FALSE, !.complete = FALSE]}

MCAnswers == PulumiAnswers \cup TerraformAnswers

(* Two shapes of drift, and none. *)
FewAnswers == {Pulumi(steps, FALSE, TRUE) : steps \in {{}, {Resized}, {Recreated}}}

NoTags == Classification({[types |-> {"aws_db"}, paths |-> {"tags"}]}, {}, TRUE, TRUE)

NoOrphans == Classification({[types |-> {"aws_db", "aws_record"}, paths |-> {"size"}]}, {}, FALSE, FALSE)

NothingOfDNS == Classification({}, {"dns"}, TRUE, TRUE)

MCConfig(renotify, fresh, mode, until, classify, engine) ==
  [renotify |-> renotify, fresh |-> fresh, mode |-> mode, until |-> until, classify |-> classify,
   engine |-> engine]

Plain == {MCConfig(0, 0, "alert_all", 0, NoClassification, "pulumi")}

(* No damping, and the tags ignored; damping with a manual baseline;         *)
(* freshness and damping with a baseline and a permanent suppression.        *)
MCConfigs ==
  {MCConfig(0, 0, "alert_all", 0, NoTags, "pulumi"),
   MCConfig(2, 0, "require_manual", 0, NoOrphans, "terraform"),
   MCConfig(2, 2, "baseline", Forever, NothingOfDNS, "terraform")}

=============================================================================
