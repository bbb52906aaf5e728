--------------------------------- MODULE Gates ---------------------------------
(***************************************************************************)
(* Apply preconditions (internal/core/preconditions): the gates of a       *)
(* stack, their order, what a break-glass apply overrides, and the two     *)
(* evaluations: fail-fast for apply, complete for explain.  Pure functions *)
(* of the configuration and the gathered inputs.                           *)
(***************************************************************************)
EXTENDS Integers, Sequences

GateOrder ==
  <<"fork", "draft", "up_to_date", "checks", "preview_ok", "preview_fresh",
    "approvals", "lock", "freeze", "policy">>

N == Len(GateOrder)

Config ==
  [requireUpToDate : BOOLEAN, requireChecks : BOOLEAN,
   freshness : Nat,         \* 0: the age of a preview does not matter
   maxBehind : Nat]         \* 0: being behind the base is never tolerated

(* What a run knows about one stack.  behind is -1 when it could not be read *)
(* (explain only), policy is "none" when no hook has run.                    *)
Inputs ==
  [fork : BOOLEAN, forkOptIn : BOOLEAN, draft : BOOLEAN,
   behind : Int, checks : BOOLEAN,
   found : BOOLEAN, age : Nat, succeeded : BOOLEAN,
   approved : BOOLEAN, acquired : BOOLEAN, frozen : BOOLEAN,
   policy : {"none", "passed", "failed"},
   breakGlass : BOOLEAN, overrideFreeze : BOOLEAN, unavailable : BOOLEAN]

FailUnless(ok) == IF ok THEN "pass" ELSE "fail"

UpToDateGate(cfg, in) ==
  IF ~cfg.requireUpToDate THEN "skipped"
  ELSE IF in.behind = 0 THEN "pass"
  ELSE IF cfg.maxBehind > 0 /\ in.behind <= cfg.maxBehind THEN "warn"
  ELSE "fail"

FreshGate(cfg, in) ==
  IF cfg.freshness = 0 THEN "skipped"
  ELSE FailUnless(in.found /\ in.age <= cfg.freshness)

EvalGateBase(g, cfg, in) ==
  CASE g = "fork"          -> IF in.fork THEN FailUnless(in.forkOptIn) ELSE "skipped"
    [] g = "draft"         -> IF in.draft THEN "fail" ELSE "skipped"
    [] g = "up_to_date"    -> UpToDateGate(cfg, in)
    [] g = "checks"        -> IF cfg.requireChecks THEN FailUnless(in.checks) ELSE "skipped"
    [] g = "preview_ok"    -> FailUnless(in.succeeded)
    [] g = "preview_fresh" -> FreshGate(cfg, in)
    [] g = "approvals"     -> FailUnless(in.approved)
    [] g = "lock"          -> FailUnless(in.acquired)
    [] g = "freeze"        -> FailUnless(~in.frozen)
    [] g = "policy"        -> IF in.policy = "none" THEN "skipped"
                              ELSE FailUnless(in.policy = "passed")

(* What an emergency apply may override. *)
Overridable(g, in) ==
  /\ in.breakGlass
  /\ \/ g = "approvals"
     \/ g = "freeze" /\ in.overrideFreeze
     \/ g \in {"preview_ok", "preview_fresh"} /\ in.unavailable

(* Mutant of Overridden: gates that would have passed are named too. *)
OverriddenAnyway(g, cfg, in) == Overridable(g, in)

Overridden(g, cfg, in) == Overridable(g, in) /\ EvalGateBase(g, cfg, in) = "fail"

EvalGate(g, cfg, in) ==
  IF Overridden(g, cfg, in) THEN "warn" ELSE EvalGateBase(g, cfg, in)

Failing(cfg, in) == {i \in 1..N : EvalGate(GateOrder[i], cfg, in) = "fail"}

(* The trace of the gates up to the n-th. *)
Trace(n, cfg, in) ==
  [gates      |-> [i \in 1..n |-> EvalGate(GateOrder[i], cfg, in)],
   blocked    |-> \E i \in 1..n : EvalGate(GateOrder[i], cfg, in) = "fail",
   overridden |-> {GateOrder[i] : i \in {j \in 1..n : Overridden(GateOrder[j], cfg, in)}}]

(* Apply stops at the first gate that fails. *)
FirstFailing(cfg, in) ==
  CHOOSE i \in Failing(cfg, in) : \A j \in Failing(cfg, in) : i <= j

Evaluate(cfg, in) ==
  Trace(IF Failing(cfg, in) = {} THEN N ELSE FirstFailing(cfg, in), cfg, in)

EvaluateAll(cfg, in) == Trace(N, cfg, in)

(* No decision was reached. *)
Refused == [gates |-> << >>, blocked |-> TRUE, overridden |-> {}]

(* The decision of apply for one stack: hooks run only when every other gate *)
(* lets the stack through, and then decide.  hook is "none" when the         *)
(* configuration has no hooks, and a hook without a plan to judge fails.     *)
Decide(cfg, in, hook, hasPlan) ==
  LET first == Evaluate(cfg, [in EXCEPT !.policy = "none"])
      said  == IF hasPlan THEN hook ELSE "failed"
  IN  IF first.blocked \/ hook = "none"
      THEN first
      ELSE Evaluate(cfg, [in EXCEPT !.policy = said])

=============================================================================
