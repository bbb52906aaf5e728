-------------------------------- MODULE Decision --------------------------------
(***************************************************************************)
(* What `reeve apply' decides about one stack and what `reeve explain'     *)
(* tells about it: the approval rules judge the raw approvals, the freeze  *)
(* windows the clock and break_glass the actor of an emergency, and the    *)
(* verdicts go through the gates together with the other gathered inputs.  *)
(* Both commands look at one state of forge and bucket, the question q;    *)
(* apply asks for the lock of the stack, explain only reads it.            *)
(***************************************************************************)
EXTENDS BreakGlass, Gates, Freeze, Policy, LockMachine

CONSTANTS
  Question,   \* [default, layers, raw, pr, owners, live, cfg, in, hooks, written,
              \*  windows, emergency, order, bg, actor, touched, lock, self]
  Now         \* the clock

(* What was read is well-formed; the verdicts and the answer of the hooks    *)
(* are not among it, and nothing has been overridden yet.                    *)
ASSUME NowAssumption == Now \in Nat
ASSUME QuestionAssumption ==
  \A x \in Question :
    /\ x.cfg \in Config
    /\ x.in \in Inputs /\ x.in.policy = "none" /\ ~x.in.breakGlass
    /\ x.default \in Rules /\ x.layers \subseteq Layer /\ IsFiniteSet(x.layers)
    /\ IsFiniteSet(x.raw)
    /\ x.windows \in Seq(Window)
    /\ x.hooks \subseteq Configured /\ x.written \in BOOLEAN
    /\ x.emergency \in BOOLEAN /\ x.order.line \in Seq(STRING)
    /\ x.bg.overrideFreeze \in BOOLEAN
    /\ LockOK(x.lock) /\ x.self \in Applicant

VARIABLES
  q,          \* the question at hand
  by,         \* who has answered it: "nobody", "apply" or "explain"
  rules,      \* the approval rules the answer went by
  out         \* the answer: the result of the gates

decisionVars == <<q, by, rules, out>>

(* The rules a process may resolve: the order of its map is its own. *)
Resolutions == {Resolve(q.default, o) : o \in Orders(q.layers)}

ForApply(r)   == ApplyTeams(r, q.owners, IF q.emergency THEN q.bg.list ELSE {}, q.live)
ForExplain(r) == ExplainTeams(r, q.live)

Judge(r, raw, teams) == Satisfied(r, raw, q.pr, q.owners, teams, Now)

Authorized(r) ==
  q.emergency /\ Granted(Authorize(q.bg, q.actor, q.owners, ForApply(r), q.touched))

(* What an apply is told that asks for the lock of the stack. *)
Asked == AcquireOp(q.lock, q.self, Now)

(* Mutant of Readable: whoever held the lock, it is assumed to be free. *)
ReadableAlways(l, pr) == TRUE

(* A plain read: explain takes a lock for acquirable unless another pull     *)
(* request holds it and its lease has not run out.                           *)
Readable(l, pr) == Held(l) /\ ~Expired(l.holder, Now) => l.holder.pr = pr

(* The inputs of the gates: what was read, and the verdicts. *)
Gathered(r, raw, teams, acquirable) ==
  [q.in EXCEPT !.approved = Judge(r, raw, teams),
               !.acquired = acquirable,
               !.frozen   = ActiveFor(q.windows, Now) # "none"]

(* An apply whose branch comparison fails, that cannot read the preview      *)
(* history of an ordinary apply, or that is refused its emergency, returns   *)
(* an error and decides nothing; nor does it for a stack whose lock another  *)
(* run of its pull request holds, or whose queue it is in already.           *)
Errs(r) ==
  \/ q.in.behind < 0
  \/ q.in.unavailable /\ ~q.emergency
  \/ q.emergency /\ ~(Justified(q.order) /\ Authorized(r))

ApplyDecides(r, raw) ==
  IF Errs(r) \/ Asked.err # "none" THEN Refused
  ELSE Decide(q.cfg, [Gathered(r, raw, ForApply(r), Asked.ok) EXCEPT
                        !.breakGlass = q.emergency, !.overrideFreeze = q.bg.overrideFreeze],
              RunPolicyForStack(q.hooks, q.written), q.in.found)

(* No emergency, no hooks, every gate. *)
ExplainTells(r) ==
  EvaluateAll(q.cfg, [Gathered(r, q.raw, ForExplain(r), Readable(q.lock, q.self.pr)) EXCEPT
                        !.unavailable = FALSE])

DecisionInit ==
  /\ q \in Question
  /\ by = "nobody"
  /\ rules = q.default
  /\ out = Refused

Apply ==
  /\ by = "nobody"
  /\ rules' \in Resolutions
  /\ by' = "apply" /\ out' = ApplyDecides(rules', q.raw)
  /\ UNCHANGED q

Explain ==
  /\ by = "nobody"
  /\ rules' \in Resolutions
  /\ by' = "explain" /\ out' = ExplainTells(rules')
  /\ UNCHANGED q

DecisionNext == Apply \/ Explain

DecisionSpec == DecisionInit /\ [][DecisionNext]_decisionVars

-----------------------------------------------------------------------------
Let == by = "apply" /\ ~out.blocked

(* Whatever order the configuration lists the patterns in, the most specific *)
(* pattern that sets a field decides it for the stack, over the default and  *)
(* over every broader pattern, and no pattern takes an approver away.        *)
MostSpecificDecides ==
  by # "nobody" =>
    /\ \A f \in Fields, l \in q.layers :
         /\ f \in l.present
         /\ \A m \in q.layers \ {l} : f \in m.present => Specificity(m) < Specificity(l)
         => rules[f] = l.rules[f]
    /\ \A l \in q.layers : l.rules.approvers \subseteq rules.approvers

(* Some window that matches the stack covers the clock, or cannot be read. *)
Frozen ==
  \E i \in DOMAIN q.windows :
    LET w == q.windows[i]
    IN  w.matches /\ (~w.parses \/ \E f \in w.fires : f <= Now /\ Now < f + w.duration)

(* The gates no emergency overrides: whatever the configuration, a stack     *)
(* goes to the engine only when the lock, once asked for, names this very    *)
(* run as its active holder, not as a draft or a fork without opt-in, with   *)
(* green checks where they are required, no further behind its base than     *)
(* tolerated and with every blocking hook satisfied by its plan (a hook may  *)
(* be passed over only if it is declared optional and its binary is          *)
(* missing), and without an emergency only with a preview that succeeded and *)
(* is fresh.                                                                 *)
BindingGates ==
  Let => /\ LET l == Asked.lock
            IN  /\ Held(l) /\ ~l.holder.promoted
                /\ l.holder.pr = q.self.pr /\ l.holder.run = q.self.run
         /\ ~q.in.draft /\ (q.in.fork => q.in.forkOptIn)
         /\ q.cfg.requireChecks => q.in.checks
         /\ q.cfg.requireUpToDate => q.in.behind \in 0..q.cfg.maxBehind
         /\ q.hooks # {} => q.in.found /\ q.written
         /\ \A h \in q.hooks :
              h.command /\ h.onFail # "warn" /\ (h.required # "no" \/ h.present)
                => h.present /\ h.prepared /\ h.exit = "zero"
         /\ ~q.emergency => /\ q.in.succeeded
                            /\ q.cfg.freshness > 0 => q.in.age <= q.cfg.freshness

(* A freeze holds from each fire of its window until its full duration has   *)
(* passed, however long the window and however many fires are skipped, and   *)
(* no longer; only an emergency that may override freezes gets through.      *)
FreezeHolds ==
  /\ Let /\ Frozen => q.emergency /\ q.bg.overrideFreeze
  /\ by = "explain" /\ out.gates[9] = "fail" => Frozen

(* Under no rules at all, absent an emergency, does a stack go to the engine *)
(* without an approval by somebody other than the author: an unconfigured, a *)
(* misconfigured and a purely unenforceable policy fail closed.              *)
FailClosed == Let /\ ~q.emergency => \E a \in q.raw : a.by # q.pr.author

(* With dismiss_on_new_commit and no opt-in for bare comments, a decision    *)
(* rests on approvals of the head alone: everything else could be missing.   *)
OnlyHeadCounts ==
  Let /\ rules.dismiss /\ ~rules.unpinned
    => ~ApplyDecides(rules, {a \in q.raw : a.pinned /\ a.sha = q.pr.head}).blocked

(* The users the rules or the CODEOWNERS name. *)
Named ==
  Eligible(rules.approvers, ForApply(rules))
    \cup UNION {Eligible(os, ForApply(rules)) : os \in EffectiveOwners(rules, q.owners)}

(* On a public repository that has not opted in, whoever is named neither in *)
(* the rules nor as an owner cannot tip the decision.                        *)
OutsidersDoNotCount ==
  Let /\ ~q.pr.private /\ ~rules.unlistedOnPublic
    => ~ApplyDecides(rules, {a \in q.raw : a.by \in Named}).blocked

(* What apply takes for an approved stack was approved under its rules: the  *)
(* most specific pattern decides, nothing passes without an approval by      *)
(* somebody else, and neither approvals of other commits nor outsiders tip   *)
(* the decision where the rules exclude them.                                *)
ApprovalsEarned ==
  MostSpecificDecides /\ FailClosed /\ OnlyHeadCounts /\ OutsidersDoNotCount

(* An emergency apply that gets through has a reason in words on record, and *)
(* an actor somebody vouched for:                                            *)
(* with reject_self_authorization, nobody on a pull request that changes the *)
(* authorizing files; unless anyone may, a login on the list, in a team on   *)
(* it or, where CODEOWNERS authorize, an owner of a changed path.            *)
EmergencyIsVouched ==
  Let /\ q.emergency =>
    /\ q.order.flag \/ \E i \in DOMAIN q.order.line : q.order.line[i] = "quoted"
    /\ q.bg.rejectSelf => ~q.touched
    /\ \/ q.bg.anyone
       \/ q.actor \in UNION {IF g \in Team THEN q.live[g] ELSE {g} :
                               g \in q.bg.list \cup
                                 IF q.bg.codeowners
                                 THEN UNION {q.owners[p] : p \in DOMAIN q.owners} ELSE {}}

(* "A gate that would have passed anyway is not reported as overridden"      *)
(* (openspec/specs/core/preconditions): when an emergency apply is let       *)
(* through, the audit record names exactly the gates that would have stopped *)
(* it as an ordinary one.                                                    *)
OverridesExact ==
  Let => out.overridden =
           {GateOrder[i] : i \in Failing(q.cfg, [Gathered(rules, q.raw, ForApply(rules), Asked.ok)
                                                   EXCEPT !.breakGlass = FALSE])}

(* An emergency gets through only with an actor somebody vouched for, and    *)
(* its audit record names the gates it overrode, no more and no fewer.       *)
EmergencySound == EmergencyIsVouched /\ OverridesExact

(* Another run of the pull request works under the lock. *)
TwinHolds ==
  /\ Held(q.lock) /\ ~Expired(q.lock.holder, Now) /\ ~q.lock.holder.promoted
  /\ q.lock.holder.pr = q.self.pr /\ q.lock.holder.run # q.self.run

(* The lease has run out and another pull request is first in the queue. *)
OtherInherits ==
  /\ Held(q.lock) /\ Expired(q.lock.holder, Now)
  /\ q.lock.queue # << >> /\ Head(q.lock.queue).pr # q.self.pr

(* What explain reports as clear, an ordinary apply without hooks that could *)
(* read what it needs does not block, whatever order it lists the patterns   *)
(* in, with two exceptions.  Explain says of neither that the lock stops the *)
(* pull request: a run of its own that works under the lock (as the comment  *)
(* in Explain says), and a pull request queued before it that inherits the   *)
(* lock when the next acquire evicts the holder whose lease ran out.  A lock *)
(* that explain says is in the way is refused to an apply.                   *)
ExplainIsSound ==
  /\ by = "explain" /\ ~out.blocked /\ ~q.emergency /\ ~Errs(rules) /\ q.hooks = {}
       => TwinHolds \/ OtherInherits \/ \A r \in Resolutions : ~ApplyDecides(r, q.raw).blocked
  /\ by = "explain" /\ out.gates[8] = "fail" => ~Asked.ok

(* "Apply and explain must agree on these" (gate_inputs.go): explain reports *)
(* a stack as blocked iff an ordinary apply without hooks would not get      *)
(* through.                                                                  *)
ExplainAgrees ==
  by = "explain" /\ ~q.emergency /\ q.hooks = {}
    => out.blocked = ApplyDecides(rules, q.raw).blocked

=============================================================================
