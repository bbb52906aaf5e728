----------------------------- MODULE MCGathering -----------------------------
(* Repositories for TLC: some where the forge is busy with reviews, comments *)
(* or checks, and many quiet ones whose layout, change mapping and bindings  *)
(* vary.                                                                     *)
EXTENDS Gathering

CONSTANTS author, u1, u2, robot, t1, api, web, dev, prod, awsA, awsB, awsLocal, gcp,
  build, deploy, scan

S(project_, name, path) == [project |-> project_, name |-> name, path |-> path]
F(path, config) == [path |-> path, config |-> config]

DevAPI  == S(api, dev, <<"api">>)
ProdAPI == S(api, prod, <<"api">>)
DevWeb  == S(web, dev, <<"web">>)

Code    == F(<<"api", "main.go">>, NoStack)
DevCfg  == F(<<"api", "Pulumi.dev.yaml">>, dev)
Lost    == F(<<"lib", "x.go">>, NoStack)
Doc     == F(<<"README.md">>, NoStack)
Deep    == F(<<"web", "sub", "Pulumi.prod.yaml">>, prod)

OneApproval ==
  [required |-> 1, approvers |-> {}, allGroups |-> FALSE, codeowners |-> FALSE, dismiss |-> TRUE,
   unpinned |-> FALSE, freshness |-> 0, unlistedOnPublic |-> TRUE]

Lint    == [name |-> "lint", run |-> "ci", self |-> FALSE]
Unit    == [name |-> "unit", run |-> "ci", self |-> FALSE]
Earlier == [name |-> "apply / Reeve", run |-> "ci", self |-> TRUE]
Current == [name |-> "apply / Reeve", run |-> "now", self |-> TRUE]

MCCheck == {Lint, Unit, Earlier, Current}

Plain ==
  [root |-> << >>, author |-> author, expected |-> TRUE, busy |-> {}, events |-> 0, commentSource |-> TRUE,
   bots |-> {robot}, assoc |-> [u \in User |-> IF u = author THEN "NONE" ELSE "MEMBER"],
   allowed |-> {"MEMBER"}, rules |-> OneApproval, teams |-> [t \in Team |-> {u2}],
   codeowners |-> << >>, files |-> [c \in Commit |-> IF c = 1 THEN <<Code>> ELSE <<Code, DevCfg, Lost>>],
   stacks |-> {DevAPI, ProdAPI, DevWeb},
   decls |-> {[paths |-> {<<"api">>, <<"web">>}, stacks |-> {dev, prod}]},
   exclude |-> [paths |-> {}, stacks |-> {}],
   mapping |-> [skip |-> {Doc.path}, triggers |-> << >>, scope |-> "auto"],
   checks |-> [k \in Check |-> IF k = Current THEN "running" ELSE IF k = Earlier THEN "failure" ELSE Never],
   listing |-> <<Earlier, Current>>,
   statuses |-> [x \in Context |-> Never],
   bindings |-> << >>]

Busy ==
  {[Plain EXCEPT !.busy = {"review", "push"}, !.events = 4, !.expected = e] : e \in BOOLEAN}
  \cup {[Plain EXCEPT !.busy = {"comment", "push"}, !.events = 3, !.rules.dismiss = r[1],
                      !.rules.unpinned = r[2]] :
          r \in {<<FALSE, TRUE>>, <<TRUE, FALSE>>, <<TRUE, TRUE>>}}
  \cup {[Plain EXCEPT !.busy = {"check", "push"}, !.events = 3, !.commentSource = FALSE,
                      !.expected = FALSE, !.checks[Lint] = of[1], !.checks[Unit] = "success",
                      !.listing = of[2], !.statuses = [x \in Context |-> of[3]]] :
          of \in {<<"failure", <<Unit, Lint, Earlier, Current>>, Never>>,
                  <<"success", <<Current, Earlier, Unit, Lint>>, "success">>}}

(* Owners of everything, of a directory, of direct children; carve-outs.     *)
Rule(segs, anchored, dir, owners) ==
  [pattern |-> [segs |-> segs, anchored |-> anchored, dir |-> dir], owners |-> owners]

MCCodeowners ==
  {<< >>,
   <<Rule(<<"*">>, FALSE, FALSE, {u1}), Rule(<<"api">>, TRUE, TRUE, {t1})>>,
   <<Rule(<<"api">>, FALSE, FALSE, {u2}), Rule(<<"api", "*">>, TRUE, FALSE, {})>>}

(* Layouts: which files change, declared stacks, exclusions, triggers, root. *)
Below1(f) == [f EXCEPT !.path = <<"infra">> \o @]

Laid ==
  {[Plain EXCEPT !.files = [c \in Commit |-> SetToSeq(fs)], !.mapping.scope = sc,
                 !.mapping.triggers = tr, !.exclude = ex, !.codeowners = co,
                 !.rules.codeowners = TRUE] :
     fs \in SUBSET {Code, DevCfg, Lost, Doc, Deep} \ {{}}, sc \in {"auto", "pulumi_only"},
     tr \in {<< >>, [p \in {web} |-> {Lost.path}]},
     ex \in {[paths |-> {}, stacks |-> {}], [paths |-> {<<"web">>}, stacks |-> {}],
             [paths |-> {}, stacks |-> {ProdAPI}]},
     co \in MCCodeowners}
  \cup {[Plain EXCEPT !.root = <<"infra">>, !.codeowners = co,
                      !.files = [c \in Commit |-> SetToSeq({Below1(f) : f \in fs})]] :
          fs \in SUBSET {Code, DevCfg, Lost} \ {{}}, co \in MCCodeowners}

(* Bindings: pairs of a general and a specific one, for all modes or one. *)
MCBinding(lit, wild, modes, provs, over, loc) ==
  {[matches |-> Plain.stacks, mode |-> m, providers |-> p, override |-> o, local |-> l,
    literals |-> lit, wildcards |-> wild] : m \in modes, p \in provs, o \in over, l \in loc}

General  == MCBinding(0, 2, {AnyMode, "apply"}, {{}, {awsA}, {awsA, gcp}}, {<< >>, <<awsB>>},
                      {<< >>, <<awsLocal>>})
Specific == MCBinding(8, 0, {AnyMode, "apply"}, {{}, {awsB}, {gcp}}, {<< >>, <<awsA>>, <<awsB>>},
                      {<< >>, <<awsLocal>>, <<awsA>>})

Bound == {[Plain EXCEPT !.bindings = <<g, s>>] : g \in General, s \in Specific}
         \cup {[Plain EXCEPT !.bindings = <<s, g>>] : g \in General, s \in Specific}

MCDomain == [p \in {awsA, awsB, awsLocal, gcp} |-> IF p = gcp THEN "gcp" ELSE "aws"]

MCProjects == Busy \cup Laid \cup Bound

(* A repository whose stacks live below a root of their own. *)
Rooted ==
  {[Plain EXCEPT !.root = <<"infra">>, !.busy = {"review"}, !.events = 2, !.rules.codeowners = TRUE,
                 !.codeowners = <<Rule(<<"infra">>, TRUE, TRUE, {u2})>>,
                 !.files = [c \in Commit |-> <<Below1(Code)>>]]}
=============================================================================
