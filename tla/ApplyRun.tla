------------------------------- MODULE ApplyRun -------------------------------
(***************************************************************************)
(* Concurrent `reeve apply' and `reeve refresh' runs (internal/run)        *)
(* over a shared bucket: each apply binds itself to a commit, consults the *)
(* already-applied marker, records a break-glass intent, and then takes    *)
(* its target stacks one after the other through acquire, gates,           *)
(* credentials, engine and release, with the lease heartbeat beside the    *)
(* engine; at the end it writes manifest, applied marker and audit entry.  *)
(*                                                                         *)
(* Lock operations are single steps: LockStore implements them so.  A run  *)
(* may be cancelled (SIGTERM) and may die at any point; a signal that      *)
(* comes while a call is under way cuts that call.  Gate verdicts,         *)
(* credential errors and engine results are inputs of the model.           *)
(***************************************************************************)
EXTENDS LockMachine

CONSTANTS
  Stack,        \* stacks, each with its lock
  PRof,         \* the pull request of each run
  CommitOf,     \* the commit each run applies
  Casts,        \* who runs what, and what may fail:
                \* [targets, forced, emergency, refresh, dry, faults]
  MaxTime       \* bound: the last instant of the clock

ASSUME FaultsAssumption ==
  \A c \in Casts :
    c.faults \subseteq {"acquire_error", "acquire_landed", "release_error", "write_error"}
ASSUME PRofAssumption == PRof \in [Run -> PR]
ASSUME CastsAssumption ==
  \A c \in Casts :
    /\ DOMAIN c.targets \subseteq Run
    /\ \A r \in DOMAIN c.targets : c.targets[r] \in Seq(Stack)
    /\ c.refresh \subseteq DOMAIN c.targets
    /\ c.emergency \subseteq DOMAIN c.targets \ c.refresh   \* a refresh is no emergency

VARIABLES
  cast,         \* the runs of this behaviour, chosen at the start
  lock,         \* the lock of every stack
  now,          \* the clock
  run,          \* the local state of every run
  applied,      \* applied markers: commits
  audit,        \* audit entries: <<run, "intent">> and <<run, outcome>>
  manifest      \* runs whose manifest is stored

vars == <<cast, lock, now, run, applied, audit, manifest>>

Targets    == cast.targets     \* the stacks of each run, in order
Forced     == cast.forced      \* runs started with --force
BreakGlass == cast.emergency   \* runs started as emergency applies
Refresh    == cast.refresh     \* runs of `reeve refresh'
DryRun     == cast.dry         \* refreshes that only look
Faults     == cast.faults      \* storage failures that may happen

Self(r)  == [pr |-> PRof[r], run |-> r]
Cur(r)   == Targets[r][run[r].i]
Ended    == {"done", "dead"}
Alive(r) == run[r].pc \notin Ended \cup {"new"}

(* The loop over the stacks. *)
Looping == {"acquire", "gates", "auth", "engine", "release", "refresh", "login", "rewrite"}

(* Only the local state of r changes, as given. *)
Local(r, rec) == run' = [run EXCEPT ![r] = rec]

Init ==
  /\ cast \in Casts
  /\ lock = [s \in Stack |-> NewLock]
  /\ now = 0
  /\ run = [r \in Run |->
       [pc |-> "new", i |-> 1, status |-> << >>, lease |-> 0, acquired |-> FALSE,
        cancelled |-> FALSE, unsure |-> {}, todo |-> {}, exit |-> "none"]]
  /\ applied = {}
  /\ audit = {}
  /\ manifest = {}

(* Time passes, and nothing waits for it: a lease runs out wherever the run  *)
(* happens to be.                                                            *)
Tick ==
  /\ now < MaxTime
  /\ now' = now + 1
  /\ UNCHANGED <<cast, lock, run, applied, audit, manifest>>

-----------------------------------------------------------------------------
(* Before the first lock. *)

Stop(r, pc, code) ==
  Local(r, [run[r] EXCEPT !.pc = pc, !.exit = code, !.lease = 0, !.acquired = FALSE,
                          !.cancelled = FALSE, !.todo = {},
                          !.unsure = IF pc = "done" THEN @ ELSE {}])

Finish(r, code) == Stop(r, "done", code)

(* Trigger mode, GetPR, head binding and LoadPreviewSnapshot: a trigger that *)
(* does not match the configured mode is a no-op, a failing read an error.   *)
Begin(r) ==
  /\ run[r].pc = "new" /\ r \in DOMAIN Targets \ Refresh
  /\ \/ Local(r, [run[r] EXCEPT !.pc = "guard"])
     \/ \E code \in {"error", "skipped"} : Finish(r, code)
  /\ UNCHANGED <<cast, lock, now, applied, audit, manifest>>

(* The already-applied guard; an unreadable marker counts as none. *)
AppliedGuard(r) ==
  /\ run[r].pc = "guard"
  /\ \/ /\ r \notin Forced /\ CommitOf[r] \in applied
        /\ Finish(r, "skipped")
     \/ /\ \/ r \in Forced \/ CommitOf[r] \notin applied
           \/ "write_error" \in Faults
        /\ Local(r, [run[r] EXCEPT !.pc = "gather"])
  /\ UNCHANGED <<cast, lock, now, applied, audit, manifest>>

(* Scope binding, gate inputs and head revalidation: an empty scope skips    *)
(* the run, an unreadable input or a moved head is an error.                 *)
Gather(r) ==
  /\ run[r].pc = "gather"
  /\ \/ Local(r, [run[r] EXCEPT !.pc = IF r \in BreakGlass THEN "intent" ELSE "acquire"])
     \/ \E code \in {"error", "skipped"} : Finish(r, code)
  /\ UNCHANGED <<cast, lock, now, applied, audit, manifest>>

(* Break-glass authorization and the write-once intent entry.  An entry that *)
(* exists already (a retried run) is as good; any other failure ends the     *)
(* run, and so does an execution environment that cannot be prepared then.   *)
Intent(r) ==
  /\ run[r].pc = "intent"
  /\ \/ /\ audit' = audit \cup {<<r, "intent">>}
        /\ Local(r, [run[r] EXCEPT !.pc = "acquire"]) \/ Finish(r, "error")
     \/ /\ \E code \in {"denied", "error"} : Finish(r, code)
        /\ UNCHANGED audit
  /\ UNCHANGED <<cast, lock, now, applied, manifest>>

-----------------------------------------------------------------------------
(* The loop over the target stacks. *)

LoopHead(r) == IF r \in Refresh THEN "refresh" ELSE "acquire"

(* The stack's status is recorded and the loop goes on. *)
Record(r, st) ==
  [run[r] EXCEPT !.pc = LoopHead(r), !.i = @ + 1, !.acquired = FALSE, !.lease = 0,
                 !.status = Append(@, st)]

(* The same after the lock has been released. *)
Releasing(r, st) == [run[r] EXCEPT !.pc = "release", !.status = Append(@, st)]

InLoop(r)      == run[r].pc = "acquire" /\ run[r].i <= Len(Targets[r])
RefreshLoop(r) == run[r].pc = "refresh" /\ run[r].i <= Len(Targets[r])

(* A cancelled run starts no new stack. *)
SkipCancelled(r) ==
  /\ InLoop(r) /\ run[r].cancelled
  /\ Local(r, Record(r, "error"))
  /\ UNCHANGED <<cast, lock, now, applied, audit, manifest>>

(* A call to the lock store failed, before the run was cancelled or late. *)
Unsure(r) == [stack |-> Cur(r), late |-> run[r].cancelled]

AcquireOutcome(r) == Transition(AcquireReq(Self(r)), lock[Cur(r)], now)

(* TryAcquire.  Another live run of the pull request blocks this one; every  *)
(* other error counts as a failure of the stack.                             *)
Acquire(r) ==
  /\ InLoop(r) /\ ~run[r].cancelled
  /\ LET out == AcquireOutcome(r)
     IN  /\ lock' = [lock EXCEPT ![Cur(r)] = out.lock]
         /\ Local(r, CASE out.err = "ErrHeldBySamePR" -> Record(r, "blocked")
                       [] out.err = "none" ->
                            [run[r] EXCEPT !.pc = "gates", !.acquired = out.ok,
                               !.lease = IF out.ok THEN out.lock.holder.expires ELSE @]
                       [] OTHER -> Record(r, "error"))
  /\ UNCHANGED <<cast, now, applied, audit, manifest>>

(* The bucket fails, rivals win every attempt of the write, or a signal cuts *)
(* the call: the write may or may not have been stored.  The stack has       *)
(* failed, and nothing is released.                                          *)
AcquireFails(r) ==
  /\ InLoop(r) \/ (RefreshLoop(r) /\ r \notin DryRun)
  /\ ~run[r].cancelled
  /\ \E landed, signal \in BOOLEAN :
       /\ signal \/ (IF landed THEN "acquire_landed" ELSE "acquire_error") \in Faults
       /\ lock' = IF landed THEN [lock EXCEPT ![Cur(r)] = AcquireOutcome(r).lock] ELSE lock
       /\ Local(r, [Record(r, "error") EXCEPT !.cancelled = signal,
                                              !.unsure = @ \cup {Unsure(r)}])
  /\ UNCHANGED <<cast, now, applied, audit, manifest>>

(* Mutant of Gates: the lock gate is missing. *)
GatesWithoutLock(r) ==
  /\ run[r].pc = "gates"
  /\ \E othersPass \in BOOLEAN :
       Local(r, IF othersPass THEN [run[r] EXCEPT !.pc = "auth"] ELSE Releasing(r, "blocked"))
  /\ UNCHANGED <<cast, lock, now, applied, audit, manifest>>

(* Preconditions and policy hooks.  The lock gate fails unless the lock was  *)
(* acquired; the verdict of the other gates is an input.  A blocked stack    *)
(* gives the lock back.                                                      *)
Gates(r) ==
  /\ run[r].pc = "gates"
  /\ \E othersPass \in BOOLEAN :
       Local(r, IF run[r].acquired /\ othersPass
                THEN [run[r] EXCEPT !.pc = "auth"]
                ELSE IF run[r].acquired THEN Releasing(r, "blocked")
                                        ELSE Record(r, "blocked"))
  /\ UNCHANGED <<cast, lock, now, applied, audit, manifest>>

(* State credentials, login and stack credentials; then the saved plan, if   *)
(* there is one, and the engine.                                             *)
Auth(r) ==
  /\ run[r].pc = "auth"
  /\ \/ Local(r, [run[r] EXCEPT !.pc = "engine"])
     \/ Local(r, Releasing(r, "error"))
  /\ UNCHANGED <<cast, lock, now, applied, audit, manifest>>

(* StartHeartbeat: while the engine runs the lease is refreshed; what the    *)
(* refresh reports is only logged.  Cancellation stops the heartbeat.        *)
Heartbeat(r) ==
  /\ run[r].pc = "engine" \/ (run[r].pc = "rewrite" /\ r \notin DryRun)
  /\ ~run[r].cancelled
  /\ LET out == AcquireOutcome(r)
     IN  /\ lock' = [lock EXCEPT ![Cur(r)] = out.lock]
         /\ run' = [run EXCEPT ![r].lease = IF out.ok THEN out.lock.holder.expires ELSE @]
  /\ UNCHANGED <<cast, now, applied, audit, manifest>>

(* The engine returns, with an error, without changes or with changes.  The  *)
(* heartbeat has stopped before the run goes on.                             *)
EngineReturns(r) ==
  /\ run[r].pc = "engine"
  /\ \E st \in {"error", "noop", "planned"} : Local(r, Releasing(r, st))
  /\ UNCHANGED <<cast, lock, now, applied, audit, manifest>>

(* The release done or given up, the loop goes on. *)
Released(r) ==
  [run[r] EXCEPT !.pc = LoopHead(r), !.i = @ + 1, !.acquired = FALSE, !.lease = 0]

(* Mutant of Left: a cancelled run releases with its cancelled context. *)
LeftCancelled(r, signal) == signal \/ "release_error" \in Faults

(* When a release is given up: the bucket fails it, or rivals win every      *)
(* attempt of the write.  A signal cuts it too, but only that of a run that  *)
(* was not cancelled before: terminalContext gives a cancelled run a context *)
(* of its own.                                                               *)
Left(r, signal) ==
  IF signal THEN ~run[r].cancelled ELSE "release_error" \in Faults

(* releaseLockOrLog: a failing release, stored or not, is logged and left to *)
(* the lease.                                                                *)
ReleaseLock(r) ==
  /\ run[r].pc = "release"
  /\ LET freed == [lock EXCEPT ![Cur(r)] =
                     Transition(ReleaseReq(Self(r)), lock[Cur(r)], now).lock]
     IN  \/ lock' = freed /\ Local(r, Released(r))
         \/ \E signal \in BOOLEAN :
              /\ Left(r, signal)
              /\ lock' \in {lock, freed}
              /\ Local(r, [Released(r) EXCEPT !.cancelled = @ \/ signal,
                                              !.unsure = @ \cup {Unsure(r)}])
  /\ UNCHANGED <<cast, now, applied, audit, manifest>>

-----------------------------------------------------------------------------
(* After the last stack. *)

StatusSet(r) == {run[r].status[i] : i \in 1..Len(run[r].status)}

(* Mutant of AggregateOutcome: a blocked stack does not count. *)
OutcomeOfErrors(r) == IF "error" \in StatusSet(r) THEN "failed" ELSE "success"

AggregateOutcome(r) ==
  CASE "error" \in StatusSet(r) -> "failed"
    [] "error" \notin StatusSet(r) /\ "blocked" \in StatusSet(r) -> "blocked"
    [] OTHER -> "success"

(* The writes after the last stack use the run's context, or one of their    *)
(* own that the grace period ends, if the run is cancelled already: a signal *)
(* or the end of the grace cuts them like a failing bucket (write_error).    *)

(* The manifest; a failure is carried to the exit code.  Only a clean run    *)
(* sweeps its pull request off the locks and records the applied marker.     *)
WriteManifest(r) ==
  /\ run[r].pc = "acquire" /\ run[r].i > Len(Targets[r])
  /\ \E ok \in BOOLEAN :
       /\ ok \/ "write_error" \in Faults
       /\ manifest' = IF ok THEN manifest \cup {r} ELSE manifest
       /\ Local(r, [run[r] EXCEPT
            !.pc   = IF AggregateOutcome(r) = "success" THEN "sweep" ELSE "report",
            !.todo = IF AggregateOutcome(r) = "success" THEN Stack ELSE {},
            !.exit = IF ok THEN "none" ELSE "error",
            !.cancelled = FALSE])   \* a context of its own, from here on
  /\ UNCHANGED <<cast, lock, now, applied, audit>>

(* UnlockPRAll, scoped to this run and forced: one lock after the other. *)
Sweep(r) ==
  /\ run[r].pc = "sweep" /\ run[r].todo # {}
  /\ \E s \in run[r].todo :
       /\ lock' = [lock EXCEPT ![s] =
                     Transition(UnlockReq(PRof[r], r, TRUE), lock[s], now).lock]
       /\ run' = [run EXCEPT ![r].todo = @ \ {s}]
  /\ UNCHANGED <<cast, now, applied, audit, manifest>>

(* A lock that cannot be read is passed over; a write that fails ends the    *)
(* sweep, which is logged: the remaining locks are left alone.               *)
SweepFails(r) ==
  /\ run[r].pc = "sweep" /\ run[r].todo # {}
  /\ "write_error" \in Faults
  /\ \E s \in run[r].todo : run' = [run EXCEPT ![r].todo = @ \ {s}]
     \/ run' = [run EXCEPT ![r].todo = {}]
  /\ UNCHANGED <<cast, lock, now, applied, audit, manifest>>

WriteAppliedState(r) ==
  /\ run[r].pc = "sweep" /\ run[r].todo = {}
  /\ \/ applied' = applied \cup {CommitOf[r]}
     \/ "write_error" \in Faults /\ UNCHANGED applied
  /\ run' = [run EXCEPT ![r].pc = "report"]
  /\ UNCHANGED <<cast, lock, now, audit, manifest>>

(* Writer.Write: one entry per run, created and never replaced.  A failure   *)
(* is logged.                                                                *)
Audited(r, what) ==
  \/ audit' = audit \cup {<<r, what>>}
  \/ "write_error" \in Faults /\ UNCHANGED audit

(* The exit code: a failed run is never green, a blocked one broke nothing.  *)
ExitsZero(r) == run[r].exit \in {"success", "blocked", "skipped"}

(* The comment, whose failure fails the run, the notifications and the final *)
(* audit entry, whose failures do not.                                       *)
Report(r) ==
  /\ run[r].pc = "report"
  /\ Audited(r, AggregateOutcome(r))
  /\ \E posted \in BOOLEAN :
       Finish(r, IF run[r].exit = "error" \/ ~posted THEN "error"
                 ELSE AggregateOutcome(r))
  /\ UNCHANGED <<cast, lock, now, applied, manifest>>

-----------------------------------------------------------------------------
(* `reeve refresh': the engine rewrites its record of the stacks.  No        *)
(* preview, no approvals, no marker, no intent and no manifest.              *)

(* GetPR, head binding, discovery, draft and fork refusal, scope, head       *)
(* revalidation and state credentials; without targets there is nothing to   *)
(* do, nothing to tell and nothing to record.                                *)
BeginRefresh(r) ==
  /\ run[r].pc = "new" /\ r \in Refresh
  /\ \/ Local(r, [run[r] EXCEPT !.pc = "refresh"])
     \/ \E code \in {"error", "success"} : Finish(r, code)
  /\ UNCHANGED <<cast, lock, now, applied, audit, manifest>>

(* A cancelled run starts no stack; a freeze, or windows that cannot be      *)
(* read, block it before the lock; a dry run needs no lock.                  *)
PassOver(r) ==
  /\ RefreshLoop(r)
  /\ \/ run[r].cancelled /\ Local(r, Record(r, "error"))
     \/ ~run[r].cancelled /\ Local(r, Record(r, "blocked"))
     \/ /\ ~run[r].cancelled /\ r \in DryRun
        /\ Local(r, [run[r] EXCEPT !.pc = "login"])
  /\ UNCHANGED <<cast, lock, now, applied, audit, manifest>>

(* TryAcquire: any error fails the stack; behind another holder the stack is *)
(* blocked, and the pull request stays in the queue.                         *)
AcquireRefresh(r) ==
  /\ RefreshLoop(r) /\ ~run[r].cancelled /\ r \notin DryRun
  /\ LET out == AcquireOutcome(r)
     IN  /\ lock' = [lock EXCEPT ![Cur(r)] = out.lock]
         /\ Local(r, CASE out.err # "none" -> Record(r, "error")
                       [] out.err = "none" /\ out.ok ->
                            [run[r] EXCEPT !.pc = "login", !.acquired = TRUE,
                                           !.lease = out.lock.holder.expires]
                       [] OTHER -> Record(r, "blocked"))
  /\ UNCHANGED <<cast, now, applied, audit, manifest>>

(* What a dry run records needs no release. *)
AfterRefresh(r, st) == IF r \in DryRun THEN Record(r, st) ELSE Releasing(r, st)

(* State login and the credentials of an apply, then the engine. *)
Login(r) ==
  /\ run[r].pc = "login"
  /\ \/ Local(r, [run[r] EXCEPT !.pc = "rewrite"])
     \/ Local(r, AfterRefresh(r, "error"))
  /\ UNCHANGED <<cast, lock, now, applied, audit, manifest>>

RefreshReturns(r) ==
  /\ run[r].pc = "rewrite"
  /\ \E st \in {"error", "noop", "planned"} : Local(r, AfterRefresh(r, st))
  /\ UNCHANGED <<cast, lock, now, applied, audit, manifest>>

(* The comment and, unless dry, the audit entry: no failure of either counts. *)
ReportRefresh(r) ==
  /\ run[r].pc = "refresh" /\ run[r].i > Len(Targets[r])
  /\ IF r \in DryRun THEN UNCHANGED audit ELSE Audited(r, AggregateOutcome(r))
  /\ Finish(r, AggregateOutcome(r))
  /\ UNCHANGED <<cast, lock, now, applied, manifest>>

-----------------------------------------------------------------------------
(* SIGINT, SIGTERM or the job's deadline between two calls of the loop, or   *)
(* during one that touches no lock.  Before the loop it is one more reason   *)
(* for an error return, after it for a terminal write that fails.            *)
Cancel(r) ==
  /\ run[r].pc \in Looping /\ ~run[r].cancelled
  /\ run' = [run EXCEPT ![r].cancelled = TRUE]
  /\ UNCHANGED <<cast, lock, now, applied, audit, manifest>>

(* The process is killed. *)
Die(r) ==
  /\ Alive(r)
  /\ Stop(r, "dead", run[r].exit)
  /\ UNCHANGED <<cast, lock, now, applied, audit, manifest>>

(* `reeve maintenance run' or `reeve locks reap'. *)
ReapStack(s) ==
  /\ lock' = [lock EXCEPT ![s] = Transition(ReapReq, lock[s], now).lock]
  /\ lock' # lock
  /\ UNCHANGED <<cast, now, run, applied, audit, manifest>>

(* One step of a run that is under way. *)
Step(r) ==
  \/ Begin(r) \/ AppliedGuard(r) \/ Gather(r) \/ Intent(r)
  \/ SkipCancelled(r) \/ Acquire(r) \/ AcquireFails(r) \/ Gates(r) \/ Auth(r)
  \/ Heartbeat(r) \/ EngineReturns(r) \/ ReleaseLock(r)
  \/ WriteManifest(r) \/ Sweep(r) \/ SweepFails(r) \/ WriteAppliedState(r) \/ Report(r)
  \/ BeginRefresh(r) \/ PassOver(r) \/ AcquireRefresh(r) \/ Login(r)
  \/ RefreshReturns(r) \/ ReportRefresh(r)
  \/ Cancel(r) \/ Die(r)

Next == Tick \/ (\E s \in Stack : ReapStack(s)) \/ (\E r \in Run : Step(r))

Spec == Init /\ [][Next]_vars

-----------------------------------------------------------------------------
(* The runs that have the engine change the stack or its record. *)
Applying(s) ==
  {r \in Run : /\ run[r].pc \in {"engine", "rewrite"} /\ Cur(r) = s
               /\ run[r].pc = "rewrite" => r \notin DryRun}

(* Two engines on one stack, which the heartbeat is there to prevent ("two   *)
(* applies would then run concurrently").  The heartbeat starts with the     *)
(* engine and nobody looks at the lease before, so that this does not hold:  *)
(* the README shows how it fails.                                            *)
ApplyExclusion == \A s \in Stack : Cardinality(Applying(s)) <= 1

(* What does: of the runs whose engine is at work on a stack, one at most is *)
(* still under the lease it was last granted.                                *)
OneUnderLease ==
  \A s \in Stack : \A q, r \in Applying(s) :
    now <= run[q].lease /\ now <= run[r].lease => q = r

(* While the engine changes a stack or its record, the run has acquired the  *)
(* lock, and until the lease it was last granted runs out the lock names it  *)
(* as the active holder, whatever other runs, refreshes, the reaper,         *)
(* cancellations, deaths and failing calls do.                               *)
EngineHoldsLock ==
  \A s \in Stack : \A r \in Applying(s) :
    /\ run[r].acquired
    /\ now <= run[r].lease => /\ Held(lock[s])
                             /\ lock[s].holder.run = r
                             /\ ~lock[s].holder.promoted

(* The stacks whose lock names r as the active holder. *)
HeldBy(r) ==
  {s \in Stack : Held(lock[s]) /\ lock[s].holder.run = r /\ ~lock[s].holder.promoted}

(* The calls to the lock store fail only when a signal cuts them. *)
OnlySignals == Faults \cap {"acquire_error", "acquire_landed", "release_error"} = {}

(* A run that has returned, cancelled or not, is the active holder of no     *)
(* lock but those whose acquire or release was reported as failed: every     *)
(* other way through the loop gives the lock back.  When only signals make   *)
(* calls fail, that is one lock at most, the one whose call the signal cut:  *)
(* what a cancelled run releases is released ("a cancelled Actions job must  *)
(* release its locks, not pin them for the full lease ttl").                 *)
NothingLeftHeld ==
  \A r \in Run :
    run[r].pc = "done" =>
      /\ \A s \in HeldBy(r) :
           \E u \in run[r].unsure : u.stack = s /\ (OnlySignals => ~u.late)
      /\ OnlySignals => \A s, t \in HeldBy(r) : s = t

(* An emergency apply touches no lock and no engine before its intent is on  *)
(* record, and the record survives whatever happens to the run.              *)
IntentFirst ==
  \A r \in BreakGlass :
    \/ run[r].pc = "engine"
    \/ \E s \in Stack : \/ Held(lock[s]) /\ lock[s].holder.run = r
                        \/ \E i \in 1..Len(lock[s].queue) : lock[s].queue[i].run = r
    => <<r, "intent">> \in audit

(* The applied marker of a commit is only ever written by a run that went    *)
(* through every one of its stacks without a blocked or failed one.          *)
MarkerIsClean ==
  \A c \in applied :
    \E r \in DOMAIN Targets : /\ CommitOf[r] = c
                              /\ Len(run[r].status) = Len(Targets[r])
                              /\ StatusSet(r) \subseteq {"noop", "planned"}

(* When the engine changed something and the apply returned, its manifest is *)
(* stored or the run exits nonzero, and it does so when a stack failed ("a   *)
(* failed apply must never render as a green check").                        *)
ChangesOnRecord ==
  \A r \in Run :
    run[r].pc = "done" =>
      /\ r \notin Refresh /\ "planned" \in StatusSet(r) => r \in manifest \/ ~ExitsZero(r)
      /\ "error" \in StatusSet(r) => ~ExitsZero(r)

(* What the records say is so: an emergency is on record before it touches   *)
(* anything, a commit is marked as applied only by a run without a blocked   *)
(* or failed stack, changes are in a manifest or in the exit code, and a     *)
(* failure is in the exit code.                                              *)
RecordsTrue == IntentFirst /\ MarkerIsClean /\ ChangesOnRecord

=============================================================================
