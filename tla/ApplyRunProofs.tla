---------------------------- MODULE ApplyRunProofs ----------------------------
(***************************************************************************)
(* Theorems about an apply: what it gathers (Gathering), what it decides   *)
(* (Decision), and its run beside other applies and refreshes (ApplyRun).  *)
(*                                                                         *)
(* The argument about runs has three layers. RunOK says, for every phase   *)
(* of a run, where in its list of stacks it is and whether it was told     *)
(* that it has the lock; StepShape then sorts the steps of a run by what   *)
(* they do to the locks: nothing, an acquire, a release, a sweep of one    *)
(* lock. The lock invariants follow from these four shapes and the lemmas  *)
(* about single transitions, the invariants about records from RecordOK.   *)
(* The arguments about Decision and Gathering follow, each under a heading *)
(* of its own.                                                             *)
(***************************************************************************)
EXTENDS ApplyRun, Decision, Gathering, LockMachineProofs

-----------------------------------------------------------------------------
(* The state of a run. *)

Status == {"error", "blocked", "noop", "planned"}

Before == {"new", "guard", "gather", "intent"}
After  == {"sweep", "report"}

(* The phases that work on one stack of the list. *)
Busy == {"gates", "auth", "engine", "release", "login", "rewrite"}

Exit == {"none", "error", "skipped", "denied", "success", "blocked", "failed"}

Phase == Before \cup Looping \cup After \cup Ended

State ==
  [pc : Phase, i : Nat \ {0}, status : Seq(Status),
   lease : Int, acquired : BOOLEAN, cancelled : BOOLEAN,
   unsure : SUBSET [stack : Stack, late : BOOLEAN], todo : SUBSET Stack, exit : Exit]

(* Where run r may be when its local state is x. *)
RunOK(r, x) ==
  /\ x \in State
  /\ x.pc \notin Ended \cup {"new"} => r \in DOMAIN Targets
  /\ x.pc \in Before => x.status = << >> /\ x.i = 1
  /\ x.pc \in {"guard", "gather", "intent", "acquire", "gates", "auth", "engine"} \cup After
       => r \notin Refresh
  /\ x.pc \in {"refresh", "login", "rewrite"} => r \in Refresh
  /\ x.pc \in Busy => x.i <= Len(Targets[r])
  /\ x.pc \in Looping => /\ x.i <= Len(Targets[r]) + 1
                         /\ Len(x.status) = IF x.pc = "release" THEN x.i ELSE x.i - 1
  /\ x.pc \in After => Len(x.status) = Len(Targets[r])
  /\ x.pc \in {"auth", "engine", "release"} => x.acquired
  /\ x.pc \in {"login", "rewrite"} => (x.acquired <=> r \notin DryRun)
  /\ x.acquired => x.pc \in Busy

TypeInv ==
  /\ cast \in Casts
  /\ now \in Nat
  /\ lock \in [Stack -> Lock] /\ \A s \in Stack : LockOK(lock[s])
  /\ run \in [Run -> State] /\ \A r \in Run : RunOK(r, run[r])

-----------------------------------------------------------------------------
(* What a step of a run does to the locks. *)

Moves(r, x) == run' = [run EXCEPT ![r] = x] /\ UNCHANGED <<cast, now>>

(* A call to the lock store has failed, and that is on record. *)
Fails(r, x) ==
  /\ run[r].pc \in Looping
  /\ x.unsure = run[r].unsure \cup {Unsure(r)}
  /\ OnlySignals => ~run[r].cancelled /\ x.cancelled

(* Nothing else is; and a cancelled run stays so until the last stack. *)
Calls(r, x) ==
  \/ Fails(r, x)
  \/ /\ x.unsure = run[r].unsure
     /\ run[r].cancelled \/ run[r].pc \in After => x.cancelled \/ x.pc \in After \cup Ended
  \/ x.pc = "dead" /\ x.unsure = {}

(* The run has the grant it had, or none; and it only loses one by dying or  *)
(* when the release failed.                                                  *)
KeepsGrant(r, x) ==
  /\ x.acquired => run[r].acquired /\ x.i = run[r].i /\ x.lease = run[r].lease
  /\ run[r].acquired => x.acquired \/ x.pc = "dead" \/ Fails(r, x)

Quiet(r, x) == lock' = lock /\ KeepsGrant(r, x)

Acquires(r, x) ==
  LET won == AcquireOutcome(r) IN
  /\ run[r].pc \in Looping /\ run[r].i <= Len(Targets[r])
  /\ lock' = [lock EXCEPT ![Cur(r)] = won.lock]
  /\ \/ won.ok /\ x.acquired /\ x.i = run[r].i /\ x.lease = won.lock.holder.expires
     \/ ~won.ok /\ KeepsGrant(r, x)
     \/ Fails(r, x) /\ ~x.acquired /\ ~run[r].acquired

Releases(r, x) ==
  /\ run[r].pc = "release" /\ ~x.acquired
  /\ lock' = [lock EXCEPT ![Cur(r)] = Transition(ReleaseReq(Self(r)), lock[Cur(r)], now).lock]

Sweeps(r, x) ==
  /\ run[r].pc = "sweep" /\ ~x.acquired
  /\ \E s \in Stack :
       lock' = [lock EXCEPT ![s] = Transition(UnlockReq(PRof[r], r, TRUE), lock[s], now).lock]

Shape(r, x) ==
  /\ Moves(r, x) /\ RunOK(r, x) /\ Calls(r, x)
  /\ Quiet(r, x) \/ Acquires(r, x) \/ Releases(r, x) \/ Sweeps(r, x)

LEMMA CastFacts ==
  ASSUME cast \in Casts
  PROVE  /\ DOMAIN Targets \subseteq Run /\ Refresh \subseteq DOMAIN Targets
         /\ BreakGlass \subseteq DOMAIN Targets \ Refresh
         /\ \A r \in DOMAIN Targets :
              /\ Targets[r] \in Seq(Stack) /\ Len(Targets[r]) \in Nat
              /\ \A i \in 1..Len(Targets[r]) : Targets[r][i] \in Stack
BY CastsAssumption DEF Targets, Refresh, BreakGlass

(* The stack a run is at. *)
LEMMA CurFacts ==
  ASSUME TypeInv, NEW r \in Run, run[r].pc \in Looping, run[r].i <= Len(Targets[r])
  PROVE  Cur(r) \in Stack /\ LockOK(lock[Cur(r)])
<1>1. r \in DOMAIN Targets /\ run[r].i \in Nat \ {0}
  BY DEF TypeInv, RunOK, Looping, Ended, State
<1>2. Len(Targets[r]) \in Nat /\ \A i \in 1..Len(Targets[r]) : Targets[r][i] \in Stack
  BY <1>1, CastFacts DEF TypeInv
<1> QED BY <1>1, <1>2 DEF Cur, TypeInv

LEMMA SelfFacts ==
  ASSUME NEW r \in Run
  PROVE  /\ Self(r) \in Applicant /\ Self(r).run = r /\ Self(r).pr = PRof[r]
         /\ AcquireReq(Self(r)) \in Request /\ ReleaseReq(Self(r)) \in Request
         /\ UnlockReq(PRof[r], r, TRUE) \in Request
         /\ AcquireReq(Self(r)).kind = "acquire" /\ AcquireReq(Self(r)).run = r
         /\ AcquireReq(Self(r)).pr = PRof[r]
         /\ ReleaseReq(Self(r)).kind = "release" /\ ReleaseReq(Self(r)).run = r
         /\ UnlockReq(PRof[r], r, TRUE).kind = "unlock" /\ UnlockReq(PRof[r], r, TRUE).run = r
<1>1. PRof[r] \in PR
  BY PRofAssumption
<1>2. Self(r) \in Applicant /\ Self(r).run = r /\ Self(r).pr = PRof[r]
  BY <1>1 DEF Self, Applicant
<1>3. /\ \A a \in Applicant : AcquireReq(a) \in Request /\ ReleaseReq(a) \in Request
      /\ \A pr \in PR, named \in Run \cup {AnyRun}, f \in BOOLEAN : UnlockReq(pr, named, f) \in Request
  BY DEF Request
<1>4. r \in Run \cup {AnyRun} /\ TRUE \in BOOLEAN
  OBVIOUS
<1>5. UnlockReq(PRof[r], r, TRUE) \in Request
  BY <1>1, <1>3, <1>4, Zenon
<1> QED BY <1>2, <1>3, <1>5 DEF AcquireReq, ReleaseReq, UnlockReq

(* What is on record of a failed call. *)
LEMMA UnsureFacts ==
  ASSUME TypeInv, NEW r \in Run, run[r].pc \in Looping, run[r].i <= Len(Targets[r])
  PROVE  /\ Unsure(r) \in [stack : Stack, late : BOOLEAN]
         /\ Unsure(r).stack = Cur(r) /\ Unsure(r).late = run[r].cancelled
<1>1. Cur(r) \in Stack /\ run[r].cancelled \in BOOLEAN
  BY CurFacts DEF TypeInv, State
<1> QED BY <1>1 DEF Unsure

(* What TryAcquire tells a run. *)
LEMMA OutcomeFacts ==
  ASSUME TypeInv, NEW r \in Run, run[r].pc \in Looping, run[r].i <= Len(Targets[r])
  PROVE  /\ AcquireOutcome(r).ok \in BOOLEAN
         /\ AcquireOutcome(r).ok => /\ AcquireOutcome(r).err = "none"
                                    /\ AcquireOutcome(r).lock.holder.expires \in Nat
                                    /\ AcquiredBy(AcquireOutcome(r).lock, Self(r), now)
         /\ ~AcquireOutcome(r).ok =>
              AcquireOutcome(r).lock.holder = EvictIfExpired(lock[Cur(r)], now, TTL).holder
<1>1. LockOK(lock[Cur(r)]) /\ Self(r) \in Applicant /\ now \in Nat
  BY CurFacts, SelfFacts DEF TypeInv
<1> DEFINE won == AcquireOutcome(r)
<1>2. /\ won.ok \in BOOLEAN
      /\ won.ok => won.err = "none" /\ AcquiredBy(won.lock, Self(r), now)
      /\ ~won.ok => won.lock.holder = EvictIfExpired(lock[Cur(r)], now, TTL).holder
  BY <1>1, AcquiredIsNoError DEF AcquireOutcome
<1>3. AcquiredBy(won.lock, Self(r), now) => won.lock.holder.expires \in Nat
  <2>1. now + TTL \in Nat
    BY <1>1, TTLAssumption
  <2> QED BY <2>1, StampType DEF AcquiredBy
<1> QED BY <1>2, <1>3

(* Changing a field keeps a state a state. *)
LEMMA StateUpdates ==
  /\ \A x \in State, v \in Phase : [x EXCEPT !.pc = v] \in State
  /\ \A x \in State, v \in Nat \ {0} : [x EXCEPT !.i = v] \in State
  /\ \A x \in State, v \in Seq(Status) : [x EXCEPT !.status = v] \in State
  /\ \A x \in State, v \in Int : [x EXCEPT !.lease = v] \in State
  /\ \A x \in State, v \in BOOLEAN : [x EXCEPT !.acquired = v] \in State
  /\ \A x \in State, v \in BOOLEAN : [x EXCEPT !.cancelled = v] \in State
  /\ \A x \in State, v \in SUBSET [stack : Stack, late : BOOLEAN] :
       [x EXCEPT !.unsure = v] \in State
  /\ \A x \in State, v \in SUBSET Stack : [x EXCEPT !.todo = v] \in State
  /\ \A x \in State, v \in Exit : [x EXCEPT !.exit = v] \in State
BY DEF State

(* The records the loop makes. *)
LEMMA RecordFacts ==
  ASSUME TypeInv, NEW r \in Run, NEW st \in Status,
         run[r].pc \in Looping \ {"release"}, run[r].i <= Len(Targets[r])
  PROVE  /\ RunOK(r, Record(r, st)) /\ ~Record(r, st).acquired
         /\ Record(r, st).unsure = run[r].unsure /\ Record(r, st).cancelled = run[r].cancelled
         /\ run[r].acquired => /\ RunOK(r, Releasing(r, st)) /\ Releasing(r, st).acquired
                               /\ Releasing(r, st).unsure = run[r].unsure
                               /\ Releasing(r, st).cancelled = run[r].cancelled
                               /\ Releasing(r, st).i = run[r].i
                               /\ Releasing(r, st).lease = run[r].lease
<1> DEFINE x == run[r]
<1>1. x \in State /\ RunOK(r, x)
  BY DEF TypeInv
<1> HIDE DEF x
<1>2. Append(x.status, st) \in Seq(Status) /\ Len(Append(x.status, st)) = Len(x.status) + 1
  BY <1>1 DEF State
<1>3. /\ r \in DOMAIN Targets /\ Len(Targets[r]) \in Nat
      /\ Len(x.status) = x.i - 1 /\ x.i \in Nat /\ x.i # 0
  BY <1>1, CastFacts DEF RunOK, Looping, Ended, TypeInv, State, x
<1>4. /\ LoopHead(r) \in {"refresh", "acquire"}
      /\ LoopHead(r) = "refresh" <=> r \in Refresh
  BY DEF LoopHead
<1>5. /\ RunOK(r, Record(r, st)) /\ ~Record(r, st).acquired
      /\ Record(r, st).unsure = x.unsure /\ Record(r, st).cancelled = x.cancelled
  <2> DEFINE y == Record(r, st)
  <2>1. /\ y.pc = LoopHead(r) /\ y.i = x.i + 1 /\ y.acquired = FALSE /\ y.lease = 0
        /\ y.unsure = x.unsure /\ y.cancelled = x.cancelled
        /\ y.status = Append(x.status, st)
    BY <1>1 DEF Record, State, x
  <2>2. y \in State
    <3>1. /\ LoopHead(r) \in Phase /\ x.i + 1 \in Nat \ {0} /\ 0 \in Int
          /\ FALSE \in BOOLEAN
      BY <1>3, <1>4 DEF Phase, Looping
    <3> QED BY <1>1, <1>2, <3>1, StateUpdates DEF Record, x
  <2> HIDE DEF y
  <2> QED BY <1>2, <1>3, <1>4, <2>1, <2>2 DEF RunOK, y, Before, After, Busy, Looping, Ended, x
<1>6. ASSUME x.acquired
      PROVE  /\ RunOK(r, Releasing(r, st)) /\ Releasing(r, st).acquired
             /\ Releasing(r, st).unsure = x.unsure /\ Releasing(r, st).cancelled = x.cancelled
             /\ Releasing(r, st).i = x.i /\ Releasing(r, st).lease = x.lease
  <2> DEFINE y == Releasing(r, st)
  <2>1. /\ y.pc = "release" /\ y.i = x.i /\ y.acquired = x.acquired /\ y.lease = x.lease
        /\ y.unsure = x.unsure /\ y.cancelled = x.cancelled
        /\ y.status = Append(x.status, st)
    BY <1>1 DEF Releasing, State, x
  <2>2. y \in State
    <3>1. "release" \in Phase
      BY DEF Phase, Looping
    <3> QED BY <1>1, <1>2, <3>1, StateUpdates DEF Releasing, x
  <2> HIDE DEF y
  <2> QED BY <1>2, <1>3, <1>6, <2>1, <2>2 DEF RunOK, y, Before, After, Busy, Looping, Ended, x
<1> QED BY <1>5, <1>6 DEF x

(* How a run ends. *)
LEMMA StopFacts ==
  ASSUME TypeInv, NEW r \in Run, NEW pc \in Ended, NEW code \in Exit,
         Stop(r, pc, code), UNCHANGED <<cast, lock, now>>,
         run[r].acquired => pc = "dead"
  PROVE  \E x : Shape(r, x) /\ x.pc = pc /\ x.status = run[r].status /\ x.exit = code
<1> DEFINE u == IF pc = "done" THEN run[r].unsure ELSE {}
           x == [run[r] EXCEPT !.pc = pc, !.exit = code, !.lease = 0, !.acquired = FALSE,
                               !.cancelled = FALSE, !.todo = {}, !.unsure = u]
<1>1. run' = [run EXCEPT ![r] = x]
  BY DEF Stop, Local
<1>2. run[r] \in State
  BY DEF TypeInv
<1>3. /\ x.pc = pc /\ x.acquired = FALSE /\ x.status = run[r].status /\ x.exit = code
      /\ x.unsure = run[r].unsure \/ (pc = "dead" /\ x.unsure = {})
  BY <1>2 DEF State, Ended
<1>4. x \in State
  <2>1. /\ pc \in Phase /\ 0 \in Int /\ FALSE \in BOOLEAN /\ {} \in SUBSET Stack
        /\ u \in SUBSET [stack : Stack, late : BOOLEAN]
    BY <1>2 DEF Phase, State
  <2> HIDE DEF u
  <2> QED BY <1>2, <2>1, StateUpdates
<1> HIDE DEF x
<1>5. RunOK(r, x)
  BY <1>3, <1>4 DEF RunOK, Ended, Before, After, Busy, Looping
<1>6. Shape(r, x)
  BY <1>1, <1>3, <1>5 DEF Shape, Moves, Quiet, KeepsGrant, Calls, Ended
<1> QED BY <1>3, <1>6

(* A run that only passes from one phase to another. *)
LEMMA PassFacts ==
  ASSUME TypeInv, NEW r \in Run, NEW pc \in Phase, Local(r, [run[r] EXCEPT !.pc = pc]),
         run[r].pc \notin After,
         UNCHANGED <<cast, lock, now>>, RunOK(r, [run[r] EXCEPT !.pc = pc])
  PROVE  \E x : Shape(r, x) /\ x.pc = pc /\ x.status = run[r].status /\ x.exit = run[r].exit
<1> DEFINE x == [run[r] EXCEPT !.pc = pc]
<1>1. run[r] \in State
  BY DEF TypeInv
<1>2. /\ x.pc = pc /\ x.acquired = run[r].acquired /\ x.i = run[r].i
      /\ x.lease = run[r].lease /\ x.status = run[r].status /\ x.exit = run[r].exit
      /\ x.unsure = run[r].unsure /\ x.cancelled = run[r].cancelled
  BY <1>1 DEF State
<1>3. run' = [run EXCEPT ![r] = x] /\ RunOK(r, x)
  BY DEF Local
<1> HIDE DEF x
<1>4. Shape(r, x)
  BY <1>2, <1>3 DEF Shape, Moves, Quiet, KeepsGrant, Calls
<1> QED BY <1>2, <1>4

LEMMA BeforeShape ==
  ASSUME TypeInv, NEW r \in Run,
         Begin(r) \/ AppliedGuard(r) \/ Gather(r) \/ Intent(r) \/ BeginRefresh(r)
  PROVE  \E x : Shape(r, x) /\ x.status = << >> /\ x.pc \notin After
<1> DEFINE y(pc) == [run[r] EXCEPT !.pc = pc]
<1>1. run[r] \in State /\ RunOK(r, run[r]) /\ UNCHANGED <<cast, lock, now>>
  BY DEF TypeInv, Begin, AppliedGuard, Gather, Intent, BeginRefresh
<1>2. run[r].pc \in Before /\ ~run[r].acquired /\ run[r].status = << >> /\ run[r].i = 1
  BY <1>1 DEF Begin, AppliedGuard, Gather, Intent, BeginRefresh, RunOK, Before, Busy
<1>3. r \in DOMAIN Targets /\ Len(Targets[r]) \in Nat
  BY <1>1, CastFacts DEF Begin, AppliedGuard, Gather, Intent, BeginRefresh, RunOK, Ended, TypeInv
<1>4. /\ r \notin Refresh \/ run[r].pc = "new"
      /\ BeginRefresh(r) => r \in Refresh
      /\ Begin(r) => r \notin Refresh
  BY <1>1 DEF RunOK, Begin, AppliedGuard, Gather, Intent, BeginRefresh
<1>5. \A pc \in Phase :
        /\ y(pc) \in State /\ y(pc).pc = pc /\ y(pc).acquired = FALSE
        /\ y(pc).status = << >> /\ y(pc).i = 1
  BY <1>1, <1>2, StateUpdates DEF State
<1>6. "guard" \in Phase /\ "gather" \in Phase /\ "intent" \in Phase /\ "acquire" \in Phase
      /\ "refresh" \in Phase
  BY DEF Phase, Before, Looping
<1> HIDE DEF y
<1>7. \A pc \in {"guard", "gather", "intent", "acquire"} : r \notin Refresh => RunOK(r, y(pc))
  BY <1>3, <1>5, <1>6 DEF RunOK, Before, After, Looping, Busy, Ended
<1>8. r \in Refresh => RunOK(r, y("refresh"))
  BY <1>3, <1>5, <1>6 DEF RunOK, Before, After, Looping, Busy, Ended
<1>9. ASSUME NEW code \in Exit, Finish(r, code)
      PROVE  \E x : Shape(r, x) /\ x.status = << >> /\ x.pc \notin After
  <2>1. "done" \in Ended /\ Stop(r, "done", code)
    BY <1>9 DEF Ended, Finish
  <2> QED BY <1>1, <1>2, <2>1, StopFacts DEF Ended, After
<1>10. ASSUME NEW pc \in {"guard", "gather", "intent", "acquire", "refresh"},
              Local(r, y(pc)), RunOK(r, y(pc))
       PROVE  \E x : Shape(r, x) /\ x.status = << >> /\ x.pc \notin After
  <2>1. pc \in Phase /\ pc \notin After /\ run[r].pc \notin After
    BY <1>2, <1>6 DEF After, Before
  <2> QED BY <1>1, <1>2, <1>10, <2>1, PassFacts DEF y
<1>11. \/ \E code \in {"error", "skipped", "denied", "success"} : Finish(r, code)
       \/ /\ r \notin Refresh
          /\ \/ Local(r, y("guard")) \/ Local(r, y("gather"))
             \/ Local(r, y("intent")) \/ Local(r, y("acquire"))
       \/ Local(r, y("refresh")) /\ r \in Refresh
  <2>1. CASE Begin(r)
    BY <1>4, <2>1, Zenon DEF Begin, y
  <2>2. CASE AppliedGuard(r)
    <3>1. r \notin Refresh
      BY <1>4, <2>2 DEF AppliedGuard
    <3> QED BY <2>2, <3>1, Zenon DEF AppliedGuard, y
  <2>3. CASE Gather(r)
    <3>1. r \notin Refresh
      BY <1>4, <2>3 DEF Gather
    <3> QED BY <2>3, <3>1, Zenon DEF Gather, y
  <2>4. CASE Intent(r)
    <3>1. r \notin Refresh
      BY <1>4, <2>4 DEF Intent
    <3> QED BY <2>4, <3>1, Zenon DEF Intent, y
  <2>5. CASE BeginRefresh(r)
    BY <2>5, Zenon DEF BeginRefresh, y
  <2> QED BY <2>1, <2>2, <2>3, <2>4, <2>5
<1>12. CASE \E code \in {"error", "skipped", "denied", "success"} : Finish(r, code)
  <2>1. PICK code \in {"error", "skipped", "denied", "success"} : Finish(r, code)
    BY <1>12
  <2> QED BY <1>9, <2>1 DEF Exit
<1>13. CASE r \notin Refresh /\ \E pc \in {"guard", "gather", "intent", "acquire"} : Local(r, y(pc))
  <2>1. PICK pc \in {"guard", "gather", "intent", "acquire"} : Local(r, y(pc))
    BY <1>13
  <2>2. RunOK(r, y(pc)) /\ pc \in {"guard", "gather", "intent", "acquire", "refresh"}
    BY <1>7, <1>13
  <2> QED BY <1>10, <2>1, <2>2
<1>14. CASE r \in Refresh /\ Local(r, y("refresh"))
  BY <1>8, <1>10, <1>14
<1> HIDE DEF y
<1> QED BY <1>11, <1>12, <1>13, <1>14


(* The stack a run is at fails, is blocked, or is passed over. *)
LEMMA RecordShape ==
  ASSUME TypeInv, NEW r \in Run, NEW st \in Status, run[r].pc \in Looping \ {"release"},
         run[r].i <= Len(Targets[r]), ~run[r].acquired,
         UNCHANGED <<cast, now>>, Local(r, Record(r, st)),
         lock' = lock \/ (/\ lock' = [lock EXCEPT ![Cur(r)] = AcquireOutcome(r).lock]
                          /\ ~AcquireOutcome(r).ok)
  PROVE  \E x : Shape(r, x) /\ x.pc \in Looping
<1> DEFINE x == Record(r, st)
<1>1. RunOK(r, x) /\ ~x.acquired /\ x.unsure = run[r].unsure /\ x.cancelled = run[r].cancelled
  BY RecordFacts
<1>2. x.pc \in Looping
  <2>1. run[r] \in State
    BY DEF TypeInv
  <2>2. x.pc = LoopHead(r)
    BY <2>1 DEF Record, State
  <2> QED BY <2>2 DEF LoopHead, Looping
<1>3. Moves(r, x)
  BY DEF Moves, Local
<1> HIDE DEF x
<1>4. KeepsGrant(r, x)
  BY <1>1 DEF KeepsGrant
<1>5. Quiet(r, x) \/ Acquires(r, x)
  BY <1>1, <1>4 DEF Quiet, Acquires
<1> QED BY <1>1, <1>2, <1>3, <1>5 DEF Shape, Calls, Looping, After

(* The same with the release still to come. *)
LEMMA ReleasingShape ==
  ASSUME TypeInv, NEW r \in Run, NEW st \in Status, run[r].pc \in Looping \ {"release"},
         run[r].i <= Len(Targets[r]), run[r].acquired,
         UNCHANGED <<cast, lock, now>>, Local(r, Releasing(r, st))
  PROVE  \E x : Shape(r, x) /\ x.pc \in Looping
<1> DEFINE x == Releasing(r, st)
<1>1. /\ RunOK(r, x) /\ x.acquired /\ x.i = run[r].i /\ x.lease = run[r].lease
      /\ x.unsure = run[r].unsure /\ x.cancelled = run[r].cancelled
  BY RecordFacts
<1>2. x.pc \in Looping
  BY DEF Releasing, Looping, TypeInv, State
<1>3. Moves(r, x)
  BY DEF Moves, Local
<1> HIDE DEF x
<1> QED BY <1>1, <1>2, <1>3 DEF Shape, Quiet, KeepsGrant, Calls, Looping, After

(* A run that has been granted a lock goes on to the next phase. *)
LEMMA GrantShape ==
  ASSUME TypeInv, NEW r \in Run, run[r].pc \in {"acquire", "refresh"},
         run[r].i <= Len(Targets[r]), NEW x, x \in State, Moves(r, x),
         run[r].pc = "acquire" => x.pc = "gates",
         run[r].pc = "refresh" => x.pc = "login" /\ r \notin DryRun /\ x.acquired,
         x.i = run[r].i, x.status = run[r].status,
         x.unsure = run[r].unsure, x.cancelled = run[r].cancelled,
         x.acquired = AcquireOutcome(r).ok,
         x.acquired => x.lease = AcquireOutcome(r).lock.holder.expires,
         lock' = [lock EXCEPT ![Cur(r)] = AcquireOutcome(r).lock]
  PROVE  Shape(r, x)
<1>1. RunOK(r, run[r]) /\ ~run[r].acquired /\ run[r].pc \in Looping
  BY DEF TypeInv, RunOK, Busy, Looping
<1>2. RunOK(r, x)
  BY <1>1 DEF RunOK, Looping, Busy, Before, After, Ended, State
<1>3. Acquires(r, x)
  BY <1>1 DEF Acquires, KeepsGrant, State
<1> QED BY <1>2, <1>3 DEF Shape, Calls, After

LEMMA AcquireShape ==
  ASSUME TypeInv, NEW r \in Run, Acquire(r) \/ AcquireRefresh(r)
  PROVE  \E x : Shape(r, x) /\ x.pc \in Looping
<1> DEFINE won == AcquireOutcome(r)
           g == [run[r] EXCEPT !.pc = "gates", !.acquired = won.ok,
                               !.lease = IF won.ok THEN won.lock.holder.expires ELSE @]
           l == [run[r] EXCEPT !.pc = "login", !.acquired = TRUE,
                               !.lease = won.lock.holder.expires]
<1>1. /\ run[r].pc \in {"acquire", "refresh"} /\ run[r].i <= Len(Targets[r])
      /\ lock' = [lock EXCEPT ![Cur(r)] = won.lock] /\ UNCHANGED <<cast, now>>
  BY DEF Acquire, AcquireRefresh, InLoop, RefreshLoop
<1>2. run[r].pc \in Looping \ {"release"} /\ ~run[r].acquired /\ run[r] \in State
  BY <1>1 DEF TypeInv, RunOK, Busy, Looping
<1>3. /\ won.ok \in BOOLEAN
      /\ won.ok => won.err = "none" /\ won.lock.holder.expires \in Int
  BY <1>1, <1>2, OutcomeFacts
<1>4. ASSUME NEW st \in {"blocked", "error"}, Local(r, Record(r, st)), ~won.ok
      PROVE  \E x : Shape(r, x) /\ x.pc \in Looping
  BY <1>1, <1>2, <1>4, RecordShape DEF Status
<1>5. ASSUME run[r].pc = "acquire", Local(r, g)
      PROVE  \E x : Shape(r, x) /\ x.pc \in Looping
  <2>1. g \in State
    <3>1. "gates" \in Phase /\ (IF won.ok THEN won.lock.holder.expires ELSE run[r].lease) \in Int
      BY <1>2, <1>3 DEF Phase, Looping, State
    <3> HIDE DEF won
    <3> QED BY <1>2, <1>3, <3>1, StateUpdates
  <2> HIDE DEF won
  <2>2. /\ g.pc = "gates" /\ g.acquired = won.ok /\ g.i = run[r].i
        /\ g.status = run[r].status /\ g.unsure = run[r].unsure
        /\ g.cancelled = run[r].cancelled /\ (won.ok => g.lease = won.lock.holder.expires)
    BY <1>2 DEF State
  <2>3. Moves(r, g)
    BY <1>1, <1>5 DEF Moves, Local
  <2> HIDE DEF g
  <2>4. Shape(r, g)
    BY <1>1, <1>5, <2>1, <2>2, <2>3, GrantShape DEF won
  <2> QED BY <2>2, <2>4 DEF Looping
<1>6. ASSUME run[r].pc = "refresh", Local(r, l), won.ok, r \notin DryRun
      PROVE  \E x : Shape(r, x) /\ x.pc \in Looping
  <2>1. l \in State
    <3>1. "login" \in Phase /\ TRUE \in BOOLEAN
      BY DEF Phase, Looping
    <3> HIDE DEF won
    <3> QED BY <1>2, <1>3, <1>6, <3>1, StateUpdates
  <2> HIDE DEF won
  <2>2. /\ l.pc = "login" /\ l.acquired = TRUE /\ l.i = run[r].i
        /\ l.status = run[r].status /\ l.lease = won.lock.holder.expires
        /\ l.unsure = run[r].unsure /\ l.cancelled = run[r].cancelled
    BY <1>2 DEF State
  <2>3. Moves(r, l)
    BY <1>1, <1>6 DEF Moves, Local
  <2> HIDE DEF l
  <2>4. Shape(r, l)
    BY <1>1, <1>3, <1>6, <2>1, <2>2, <2>3, GrantShape DEF won
  <2> QED BY <2>2, <2>4 DEF Looping
<1>7. CASE Acquire(r)
  <2>1. run[r].pc = "acquire"
    BY <1>7 DEF Acquire, InLoop
  <2>2. \/ won.err = "ErrHeldBySamePR" /\ Local(r, Record(r, "blocked"))
        \/ won.err = "none" /\ Local(r, g)
        \/ won.err # "none" /\ Local(r, Record(r, "error"))
    BY <1>7, Zenon DEF Acquire
  <2> HIDE DEF g
  <2> QED BY <1>3, <1>4, <1>5, <2>1, <2>2
<1>8. CASE AcquireRefresh(r)
  <2>1. run[r].pc = "refresh" /\ r \notin DryRun
    BY <1>8 DEF AcquireRefresh, RefreshLoop
  <2>2. \/ won.err # "none" /\ Local(r, Record(r, "error"))
        \/ won.ok /\ Local(r, l)
        \/ ~won.ok /\ Local(r, Record(r, "blocked"))
    BY <1>8, Zenon DEF AcquireRefresh
  <2> HIDE DEF l
  <2> QED BY <1>3, <1>4, <1>6, <2>1, <2>2
<1> QED BY <1>7, <1>8


(* The other steps of the loop. *)
LEMMA LoopShape ==
  ASSUME TypeInv, NEW r \in Run,
         \/ SkipCancelled(r) \/ AcquireFails(r) \/ Gates(r) \/ Auth(r) \/ Heartbeat(r)
         \/ EngineReturns(r) \/ ReleaseLock(r) \/ PassOver(r) \/ Login(r)
         \/ RefreshReturns(r) \/ Cancel(r)
  PROVE  \E x : Shape(r, x) /\ x.pc \in Looping
<1>1. /\ run[r] \in State /\ RunOK(r, run[r]) /\ run[r].pc \in Looping
      /\ UNCHANGED <<cast, now>> /\ r \in DOMAIN Targets /\ Len(Targets[r]) \in Nat
  <2>1. run[r] \in State /\ RunOK(r, run[r])
    BY DEF TypeInv
  <2>2. run[r].pc \in Looping
    BY DEF SkipCancelled, AcquireFails, Gates, Auth, Heartbeat, EngineReturns, ReleaseLock,
           PassOver, Login, RefreshReturns, Cancel, InLoop, RefreshLoop, Looping
  <2>3. UNCHANGED <<cast, now>>
    BY DEF SkipCancelled, AcquireFails, Gates, Auth, Heartbeat, EngineReturns, ReleaseLock,
           PassOver, Login, RefreshReturns, Cancel
  <2>4. r \in DOMAIN Targets
    BY <2>1, <2>2 DEF RunOK, Looping, Ended
  <2> QED BY <2>1, <2>2, <2>3, <2>4, CastFacts DEF TypeInv
<1>2. run[r].pc \in Busy => run[r].i <= Len(Targets[r])
  BY <1>1 DEF RunOK
<1>3. ASSUME NEW st \in Status, run[r].pc # "release", run[r].i <= Len(Targets[r]),
             UNCHANGED lock,
             \/ Local(r, Record(r, st)) /\ ~run[r].acquired
             \/ Local(r, Releasing(r, st)) /\ run[r].acquired
      PROVE  \E x : Shape(r, x) /\ x.pc \in Looping
  BY <1>1, <1>3, RecordShape, ReleasingShape
<1>4. ASSUME NEW pc \in Looping, UNCHANGED lock, Local(r, [run[r] EXCEPT !.pc = pc]),
             \/ run[r].pc = "gates" /\ pc = "auth" /\ run[r].acquired
             \/ run[r].pc = "auth" /\ pc = "engine"
             \/ run[r].pc = "refresh" /\ pc = "login" /\ r \in DryRun
                  /\ run[r].i <= Len(Targets[r])
             \/ run[r].pc = "login" /\ pc = "rewrite"
      PROVE  \E x : Shape(r, x) /\ x.pc \in Looping
  <2> DEFINE x == [run[r] EXCEPT !.pc = pc]
  <2>1. pc \in Phase
    BY DEF Phase
  <2>2. /\ x.pc = pc /\ x.acquired = run[r].acquired /\ x.i = run[r].i
        /\ x.lease = run[r].lease /\ x.status = run[r].status /\ x \in State
    BY <1>1, <2>1, StateUpdates DEF State
  <2> HIDE DEF x
  <2>3. RunOK(r, x)
    BY <1>1, <1>2, <1>4, <2>2 DEF RunOK, Before, After, Busy, Looping, Ended
  <2>4. run[r].pc \notin After
    BY <1>4 DEF After
  <2> QED BY <1>1, <1>4, <2>1, <2>3, <2>4, PassFacts DEF x
<1>5. CASE SkipCancelled(r)
  <2>1. /\ run[r].pc = "acquire" /\ run[r].i <= Len(Targets[r]) /\ lock' = lock
        /\ Local(r, Record(r, "error"))
    BY <1>5 DEF SkipCancelled, InLoop
  <2>2. ~run[r].acquired
    BY <1>1, <2>1 DEF RunOK, Busy
  <2> QED BY <1>3, <2>1, <2>2 DEF Status
<1>6. CASE AcquireFails(r)
  <2> DEFINE y == Record(r, "error")
  <2>1. /\ run[r].pc \in {"acquire", "refresh"} /\ run[r].i <= Len(Targets[r])
        /\ ~run[r].cancelled
    BY <1>6 DEF AcquireFails, InLoop, RefreshLoop
  <2>2. PICK landed \in BOOLEAN, signal \in BOOLEAN :
          /\ signal \/ (IF landed THEN "acquire_landed" ELSE "acquire_error") \in Faults
          /\ lock' = IF landed THEN [lock EXCEPT ![Cur(r)] = AcquireOutcome(r).lock] ELSE lock
          /\ Local(r, [y EXCEPT !.cancelled = signal, !.unsure = @ \cup {Unsure(r)}])
    BY <1>6 DEF AcquireFails
  <2>3. ~run[r].acquired /\ run[r].pc \in Looping \ {"release"} /\ "error" \in Status
    BY <1>1, <2>1 DEF RunOK, Busy, Status
  <2>4. /\ RunOK(r, y) /\ y.acquired = FALSE /\ y.unsure = run[r].unsure /\ y \in State
    BY <2>1, <2>3, RecordFacts DEF RunOK, State
  <2>5. y.pc \in Looping
    <3>1. y.pc = LoopHead(r)
      BY <1>1 DEF Record, State
    <3> QED BY <3>1 DEF LoopHead, Looping
  <2>6. OnlySignals => signal
    BY <2>2 DEF OnlySignals
  <2> HIDE DEF y
  <2> DEFINE u == run[r].unsure \cup {Unsure(r)}
             x == [y EXCEPT !.cancelled = signal, !.unsure = u]
  <2>7. u \in SUBSET [stack : Stack, late : BOOLEAN]
    BY <1>1, <2>1, UnsureFacts DEF State
  <2>8. run' = [run EXCEPT ![r] = x] /\ x \in State
    <3> HIDE DEF u
    <3>1. [y EXCEPT !.cancelled = signal, !.unsure = @ \cup {Unsure(r)}] = x
      BY <2>4 DEF u, State
    <3>2. x \in State
      BY <2>4, <2>7, StateUpdates
    <3> QED BY <2>2, <3>1, <3>2 DEF Local
  <2>9. /\ x.pc = y.pc /\ x.acquired = FALSE /\ x.i = y.i /\ x.status = y.status
        /\ x.unsure = u /\ x.cancelled = signal
    BY <2>4 DEF State
  <2> HIDE DEF x
  <2>10. RunOK(r, x)
    BY <2>4, <2>8, <2>9 DEF RunOK
  <2>11. Fails(r, x)
    BY <1>1, <2>1, <2>6, <2>9 DEF Fails
  <2>12. Quiet(r, x) \/ Acquires(r, x)
    BY <1>1, <2>1, <2>2, <2>3, <2>9, <2>11 DEF Quiet, KeepsGrant, Acquires
  <2> QED BY <1>1, <2>5, <2>8, <2>9, <2>10, <2>11, <2>12 DEF Shape, Moves, Calls
<1>7. CASE Gates(r)
  <2>1. run[r].pc = "gates" /\ run[r].i <= Len(Targets[r]) /\ lock' = lock
    BY <1>2, <1>7 DEF Gates, Busy
  <2>2. \/ run[r].acquired /\ Local(r, [run[r] EXCEPT !.pc = "auth"])
        \/ run[r].acquired /\ Local(r, Releasing(r, "blocked"))
        \/ ~run[r].acquired /\ Local(r, Record(r, "blocked"))
    BY <1>7, Zenon DEF Gates
  <2>3. "blocked" \in Status /\ "auth" \in Looping
    BY DEF Status, Looping
  <2> QED BY <1>3, <1>4, <2>1, <2>2, <2>3
<1>8. CASE Auth(r)
  <2>1. /\ run[r].pc = "auth" /\ run[r].i <= Len(Targets[r]) /\ lock' = lock
        /\ run[r].acquired
    BY <1>1, <1>2, <1>8 DEF Auth, Busy, RunOK
  <2>2. "error" \in Status /\ "engine" \in Looping
    BY DEF Status, Looping
  <2> QED BY <1>3, <1>4, <1>8, <2>1, <2>2 DEF Auth
<1>9. CASE Heartbeat(r)
  <2> DEFINE won == AcquireOutcome(r)
             e == IF won.ok THEN won.lock.holder.expires ELSE run[r].lease
             x == [run[r] EXCEPT !.lease = e]
  <2>1. /\ run[r].pc \in {"engine", "rewrite"}
        /\ run[r].pc = "rewrite" => r \notin DryRun
        /\ lock' = [lock EXCEPT ![Cur(r)] = won.lock]
        /\ run' = [run EXCEPT ![r] = x]
    BY <1>9 DEF Heartbeat
  <2>2. run[r].i <= Len(Targets[r]) /\ run[r].acquired
    BY <1>1, <1>2, <2>1 DEF Busy, RunOK
  <2>3. /\ won.ok \in BOOLEAN
        /\ won.ok => won.err = "none" /\ won.lock.holder.expires \in Int
    BY <1>1, <2>2, OutcomeFacts
  <2> HIDE DEF won
  <2>4. e \in Int
    BY <1>1, <2>3 DEF State
  <2> HIDE DEF e
  <2>5. /\ x.pc = run[r].pc /\ x.acquired = run[r].acquired /\ x.i = run[r].i
        /\ x.lease = e /\ x.status = run[r].status /\ x \in State
        /\ x.unsure = run[r].unsure /\ x.cancelled = run[r].cancelled
    <3>1. x \in State
      BY <1>1, <2>4, StateUpdates
    <3> QED BY <1>1, <3>1 DEF State
  <2> HIDE DEF x
  <2>6. RunOK(r, x)
    BY <1>1, <2>5 DEF RunOK
  <2>7. (won.ok => x.lease = won.lock.holder.expires) /\ (~won.ok => x.lease = run[r].lease)
    BY <2>5 DEF e
  <2>8. Acquires(r, x)
    BY <1>1, <2>1, <2>2, <2>3, <2>5, <2>7 DEF Acquires, KeepsGrant, won
  <2>9. Shape(r, x)
    BY <1>1, <2>1, <2>5, <2>6, <2>8 DEF Shape, Moves, Calls, After
  <2> QED BY <1>1, <2>5, <2>9
<1>10. CASE EngineReturns(r)
  <2>1. /\ run[r].pc = "engine" /\ run[r].i <= Len(Targets[r]) /\ lock' = lock
        /\ run[r].acquired
    BY <1>1, <1>2, <1>10 DEF EngineReturns, Busy, RunOK
  <2>2. PICK st \in {"error", "noop", "planned"} : Local(r, Releasing(r, st))
    BY <1>10 DEF EngineReturns
  <2>3. st \in Status
    BY DEF Status
  <2> QED BY <1>3, <2>1, <2>2, <2>3
<1>11. CASE ReleaseLock(r)
  <2> DEFINE y == Released(r)
             freed == [lock EXCEPT ![Cur(r)] =
                         Transition(ReleaseReq(Self(r)), lock[Cur(r)], now).lock]
  <2>1. run[r].pc = "release" /\ run[r].i <= Len(Targets[r])
    BY <1>1, <1>2, <1>11 DEF ReleaseLock, Busy, TypeInv
  <2>2. /\ LoopHead(r) \in {"acquire", "refresh"} /\ LoopHead(r) \in Phase
        /\ LoopHead(r) = "refresh" <=> r \in Refresh
    BY DEF LoopHead, Phase, Looping
  <2>3. y \in State
    <3>1. run[r].i + 1 \in Nat \ {0} /\ 0 \in Int /\ FALSE \in BOOLEAN
      BY <1>1 DEF State
    <3> QED BY <1>1, <2>2, <3>1, StateUpdates DEF Released
  <2>4. /\ y.pc = LoopHead(r) /\ y.acquired = FALSE /\ y.i = run[r].i + 1
        /\ y.status = run[r].status /\ y.unsure = run[r].unsure
        /\ y.cancelled = run[r].cancelled
    BY <1>1 DEF Released, State
  <2> HIDE DEF y
  <2>5. run[r].i \in Nat \ {0} /\ Len(run[r].status) = run[r].i
    BY <1>1, <2>1 DEF RunOK, State, Looping
  <2>6. RunOK(r, y)
    BY <1>1, <2>1, <2>2, <2>3, <2>4, <2>5 DEF RunOK, Before, After, Busy, Looping, Ended
  <2>7. \/ lock' = freed /\ Local(r, y)
        \/ \E signal \in BOOLEAN :
             /\ Left(r, signal) /\ lock' \in {lock, freed}
             /\ Local(r, [y EXCEPT !.cancelled = @ \/ signal, !.unsure = @ \cup {Unsure(r)}])
    BY <1>11, Zenon DEF ReleaseLock, y
  <2>8. CASE lock' = freed /\ Local(r, y)
    <3>1. Releases(r, y)
      BY <2>1, <2>4, <2>8 DEF Releases
    <3>2. Calls(r, y)
      BY <2>1, <2>4 DEF Calls, After
    <3> QED BY <1>1, <2>2, <2>4, <2>6, <2>8, <3>1, <3>2 DEF Shape, Moves, Looping, Local
  <2>9. ASSUME NEW signal \in BOOLEAN, Left(r, signal), lock' \in {lock, freed},
               Local(r, [y EXCEPT !.cancelled = @ \/ signal, !.unsure = @ \cup {Unsure(r)}])
        PROVE  \E x : Shape(r, x) /\ x.pc \in Looping
    <3> DEFINE u == run[r].unsure \cup {Unsure(r)}
               c == run[r].cancelled \/ signal
               x == [y EXCEPT !.cancelled = c, !.unsure = u]
    <3>1. u \in SUBSET [stack : Stack, late : BOOLEAN] /\ c \in BOOLEAN
      BY <1>1, <2>1, UnsureFacts DEF State
    <3>2. OnlySignals => ~run[r].cancelled /\ c
      BY <2>9 DEF OnlySignals, Left
    <3> HIDE DEF u, c
    <3>3. run' = [run EXCEPT ![r] = x] /\ x \in State
      <4>1. [y EXCEPT !.cancelled = @ \/ signal, !.unsure = @ \cup {Unsure(r)}] = x
        BY <2>3, <2>4 DEF u, c, State
      <4>2. x \in State
        BY <2>3, <3>1, StateUpdates
      <4> QED BY <2>9, <4>1, <4>2 DEF Local
    <3>4. /\ x.pc = y.pc /\ x.acquired = FALSE /\ x.i = y.i /\ x.status = y.status
          /\ x.unsure = u /\ x.cancelled = c
      BY <2>3, <2>4 DEF State
    <3> HIDE DEF x
    <3>5. RunOK(r, x)
      BY <2>4, <2>6, <3>3, <3>4 DEF RunOK
    <3>6. Fails(r, x)
      BY <1>1, <3>2, <3>4 DEF Fails, u
    <3>7. Quiet(r, x) \/ Releases(r, x)
      BY <2>1, <2>9, <3>4, <3>6 DEF Quiet, KeepsGrant, Releases
    <3> QED BY <1>1, <2>2, <2>4, <3>3, <3>4, <3>5, <3>6, <3>7 DEF Shape, Moves, Calls, Looping
  <2> QED BY <2>7, <2>8, <2>9
<1>12. CASE PassOver(r)
  <2>1. run[r].pc = "refresh" /\ run[r].i <= Len(Targets[r]) /\ lock' = lock
    BY <1>12 DEF PassOver, RefreshLoop
  <2>2. ~run[r].acquired
    BY <1>1, <2>1 DEF RunOK, Busy
  <2>3. "error" \in Status /\ "blocked" \in Status /\ "login" \in Looping
    BY DEF Status, Looping
  <2> QED BY <1>3, <1>4, <1>12, <2>1, <2>2, <2>3 DEF PassOver
<1>13. ASSUME NEW st \in Status, run[r].pc \in {"login", "rewrite"}, UNCHANGED lock,
              Local(r, AfterRefresh(r, st))
       PROVE  \E x : Shape(r, x) /\ x.pc \in Looping
  <2>1. run[r].i <= Len(Targets[r]) /\ (run[r].acquired <=> r \notin DryRun)
    BY <1>1, <1>2, <1>13 DEF Busy, RunOK
  <2>2. \/ Local(r, Record(r, st)) /\ ~run[r].acquired
        \/ Local(r, Releasing(r, st)) /\ run[r].acquired
    BY <1>13, <2>1 DEF AfterRefresh
  <2> QED BY <1>3, <1>13, <2>1, <2>2
<1>14. CASE Login(r)
  <2>1. "error" \in Status /\ "rewrite" \in Looping
    BY DEF Status, Looping
  <2> QED BY <1>4, <1>13, <1>14, <2>1 DEF Login
<1>15. CASE RefreshReturns(r)
  <2>1. PICK st \in {"error", "noop", "planned"} : Local(r, AfterRefresh(r, st))
    BY <1>15 DEF RefreshReturns
  <2> QED BY <1>13, <1>15, <2>1 DEF RefreshReturns, Status
<1>16. CASE Cancel(r)
  <2> DEFINE x == [run[r] EXCEPT !.cancelled = TRUE]
  <2>1. /\ x.pc = run[r].pc /\ x.acquired = run[r].acquired /\ x.i = run[r].i
        /\ x.lease = run[r].lease /\ x.status = run[r].status /\ x.unsure = run[r].unsure
        /\ x.cancelled /\ x \in State
    <3>1. x \in State
      BY <1>1, StateUpdates
    <3> QED BY <1>1, <3>1 DEF State
  <2>2. run' = [run EXCEPT ![r] = x] /\ lock' = lock
    BY <1>16 DEF Cancel
  <2> HIDE DEF x
  <2>3. RunOK(r, x)
    BY <1>1, <2>1 DEF RunOK
  <2> QED BY <1>1, <2>1, <2>2, <2>3 DEF Shape, Moves, Quiet, KeepsGrant, Calls
<1> QED BY <1>5, <1>6, <1>7, <1>8, <1>9, <1>10, <1>11, <1>12, <1>14, <1>15, <1>16

(* The steps after the last stack, and the end of a run. *)
LEMMA AfterShape ==
  ASSUME TypeInv, NEW r \in Run,
         \/ WriteManifest(r) \/ Sweep(r) \/ SweepFails(r) \/ WriteAppliedState(r)
         \/ Report(r) \/ ReportRefresh(r) \/ Die(r)
  PROVE  \E x : Shape(r, x) /\ x.status = run[r].status
<1>1. /\ run[r] \in State /\ RunOK(r, run[r]) /\ UNCHANGED <<cast, now>>
  BY DEF TypeInv, WriteManifest, Sweep, SweepFails, WriteAppliedState, Report, ReportRefresh, Die
<1>2. run[r].pc \in After => ~run[r].acquired
  BY <1>1 DEF RunOK, After, Busy
<1>3. ASSUME NEW x \in State, run' = [run EXCEPT ![r] = x], run[r].pc \in After,
             x.pc \in After, x.status = run[r].status, x.acquired = run[r].acquired,
             x.unsure = run[r].unsure, lock' = lock \/ Sweeps(r, x)
      PROVE  Shape(r, x)
  <2>1. r \in DOMAIN Targets /\ r \notin Refresh /\ Len(x.status) = Len(Targets[r]) /\ ~x.acquired
    BY <1>1, <1>2, <1>3 DEF RunOK, After, Ended
  <2>2. RunOK(r, x)
    BY <1>3, <2>1 DEF RunOK, After, Before, Busy, Looping, Ended
  <2> QED BY <1>1, <1>2, <1>3, <2>1, <2>2 DEF Shape, Moves, Quiet, KeepsGrant, Calls
<1>4. CASE WriteManifest(r)
  <2>1. PICK pc \in After, todo \in SUBSET Stack, code \in {"none", "error"} :
          Local(r, [run[r] EXCEPT !.pc = pc, !.todo = todo, !.exit = code,
                                  !.cancelled = FALSE])
    <3>1. PICK ok \in BOOLEAN : Local(r, [run[r] EXCEPT
            !.pc   = IF AggregateOutcome(r) = "success" THEN "sweep" ELSE "report",
            !.todo = IF AggregateOutcome(r) = "success" THEN Stack ELSE {},
            !.exit = IF ok THEN "none" ELSE "error",
            !.cancelled = FALSE])
      BY <1>4 DEF WriteManifest
    <3> DEFINE pc   == IF AggregateOutcome(r) = "success" THEN "sweep" ELSE "report"
               todo == IF AggregateOutcome(r) = "success" THEN Stack ELSE {}
               code == IF ok THEN "none" ELSE "error"
    <3>2. pc \in After /\ todo \in SUBSET Stack /\ code \in {"none", "error"}
      BY DEF After
    <3> HIDE DEF pc, todo, code
    <3>3. Local(r, [run[r] EXCEPT !.pc = pc, !.todo = todo, !.exit = code,
                                  !.cancelled = FALSE])
      BY <3>1 DEF pc, todo, code
    <3> QED BY <3>2, <3>3
  <2>2. run[r].pc = "acquire" /\ run[r].i > Len(Targets[r]) /\ lock' = lock
    BY <1>4 DEF WriteManifest
  <2> DEFINE x == [run[r] EXCEPT !.pc = pc, !.todo = todo, !.exit = code, !.cancelled = FALSE]
  <2>3. /\ x.pc = pc /\ x.acquired = run[r].acquired /\ x.i = run[r].i
        /\ x.status = run[r].status /\ x.unsure = run[r].unsure
    BY <1>1 DEF State
  <2>4. x \in State
    <3>1. pc \in Phase /\ code \in Exit
      BY DEF Phase, Exit
    <3> QED BY <1>1, <3>1, StateUpdates
  <2>5. Moves(r, x)
    BY <1>1, <2>1 DEF Moves, Local
  <2> HIDE DEF x
  <2>6. /\ r \in DOMAIN Targets /\ r \notin Refresh /\ ~run[r].acquired
        /\ Len(x.status) = Len(Targets[r])
    <3>1. r \in DOMAIN Targets
      BY <1>1, <2>2 DEF RunOK, Ended
    <3>2. Len(Targets[r]) \in Nat
      BY <3>1, CastFacts DEF TypeInv
    <3> QED BY <1>1, <2>2, <2>3, <3>1, <3>2 DEF RunOK, Looping, Busy, State
  <2>7. RunOK(r, x)
    BY <2>3, <2>4, <2>6 DEF RunOK, After, Before, Busy, Looping, Ended
  <2> QED BY <2>2, <2>3, <2>5, <2>6, <2>7 DEF Shape, Quiet, KeepsGrant, Calls
<1>5. ASSUME NEW todo \in SUBSET Stack, run' = [run EXCEPT ![r] = [run[r] EXCEPT !.todo = todo]],
             run[r].pc = "sweep",
             \/ lock' = lock
             \/ \E s \in Stack :
                  lock' = [lock EXCEPT ![s] =
                             Transition(UnlockReq(PRof[r], r, TRUE), lock[s], now).lock]
      PROVE  \E x : Shape(r, x) /\ x.status = run[r].status
  <2> DEFINE x == [run[r] EXCEPT !.todo = todo]
  <2>1. /\ x.pc = run[r].pc /\ x.acquired = run[r].acquired /\ x.status = run[r].status
        /\ x.unsure = run[r].unsure /\ x \in State
    BY <1>1, StateUpdates DEF State
  <2>2. run[r].pc \in After
    BY <1>5 DEF After
  <2> HIDE DEF x
  <2>3. lock' = lock \/ Sweeps(r, x)
    BY <1>2, <1>5, <2>1, <2>2 DEF Sweeps
  <2>4. run' = [run EXCEPT ![r] = x]
    BY <1>5 DEF x
  <2> QED BY <1>3, <2>1, <2>2, <2>3, <2>4
<1>6. \A s : run[r].todo \ {s} \in SUBSET Stack
  BY <1>1 DEF State
<1>7. CASE Sweep(r)
  <2>1. PICK s \in run[r].todo :
          /\ lock' = [lock EXCEPT ![s] =
                        Transition(UnlockReq(PRof[r], r, TRUE), lock[s], now).lock]
          /\ run' = [run EXCEPT ![r].todo = @ \ {s}]
    BY <1>7 DEF Sweep
  <2>2. s \in Stack /\ run' = [run EXCEPT ![r] = [run[r] EXCEPT !.todo = run[r].todo \ {s}]]
    BY <1>1, <2>1 DEF State
  <2> QED BY <1>5, <1>6, <1>7, <2>1, <2>2 DEF Sweep
<1>8. CASE SweepFails(r)
  <2>1. \E s : \/ run' = [run EXCEPT ![r] = [run[r] EXCEPT !.todo = run[r].todo \ {s}]]
               \/ run' = [run EXCEPT ![r] = [run[r] EXCEPT !.todo = {}]]
    BY <1>8 DEF SweepFails
  <2>2. run[r].pc = "sweep" /\ lock' = lock /\ {} \in SUBSET Stack
    BY <1>8 DEF SweepFails
  <2>3. PICK todo \in SUBSET Stack : run' = [run EXCEPT ![r] = [run[r] EXCEPT !.todo = todo]]
    BY <1>6, <2>1, <2>2
  <2> QED BY <1>5, <2>2, <2>3
<1>9. CASE WriteAppliedState(r)
  <2> DEFINE x == [run[r] EXCEPT !.pc = "report"]
  <2>1. /\ run[r].pc \in After /\ lock' = lock /\ run' = [run EXCEPT ![r] = x]
        /\ "report" \in Phase /\ "report" \in After
    BY <1>9 DEF WriteAppliedState, After, Phase
  <2>2. /\ x.pc = "report" /\ x.acquired = run[r].acquired /\ x.status = run[r].status
        /\ x.unsure = run[r].unsure /\ x \in State
    BY <1>1, <2>1, StateUpdates DEF State
  <2> HIDE DEF x
  <2> QED BY <1>3, <2>1, <2>2
<1>10. ASSUME NEW code \in Exit, Finish(r, code), lock' = lock, ~run[r].acquired
       PROVE  \E x : Shape(r, x) /\ x.status = run[r].status
  <2>1. "done" \in Ended /\ Stop(r, "done", code)
    BY <1>10 DEF Ended, Finish
  <2> QED BY <1>1, <1>10, <2>1, StopFacts
<1>11. AggregateOutcome(r) \in Exit
  BY DEF AggregateOutcome, Exit
<1>12. CASE Report(r)
  <2>1. run[r].pc \in After /\ lock' = lock
    BY <1>12 DEF Report, After
  <2>2. PICK code \in Exit : Finish(r, code)
    <3>1. PICK posted \in BOOLEAN :
            Finish(r, IF run[r].exit = "error" \/ ~posted THEN "error" ELSE AggregateOutcome(r))
      BY <1>12 DEF Report
    <3>2. "error" \in Exit
      BY DEF Exit
    <3> QED BY <1>11, <3>1, <3>2
  <2> QED BY <1>2, <1>10, <2>1, <2>2
<1>13. CASE ReportRefresh(r)
  <2>1. lock' = lock /\ ~run[r].acquired
    BY <1>1, <1>13 DEF ReportRefresh, RunOK, Busy
  <2> QED BY <1>10, <1>11, <1>13, <2>1 DEF ReportRefresh
<1>14. CASE Die(r)
  <2>1. "dead" \in Ended /\ run[r].exit \in Exit
    BY <1>1 DEF Ended, State
  <2> QED BY <1>1, <1>14, <2>1, StopFacts DEF Die
<1> QED BY <1>4, <1>7, <1>8, <1>9, <1>12, <1>13, <1>14

LEMMA StepShape ==
  ASSUME TypeInv, NEW r \in Run, Step(r)
  PROVE  \E x : Shape(r, x)
BY BeforeShape, AcquireShape, LoopShape, AfterShape DEF Step


-----------------------------------------------------------------------------
(* Types. *)

LockStep(s, req) == lock' = [lock EXCEPT ![s] = Transition(req, lock[s], now).lock]

(* A run changes at most one lock, with a request in its own name. *)
LEMMA ShapeLocks ==
  ASSUME TypeInv, NEW r \in Run, NEW x, Shape(r, x)
  PROVE  \/ lock' = lock
         \/ \E s \in Stack, req \in Request :
              /\ LockStep(s, req) /\ req.run = r /\ req.kind \in {"acquire", "release", "unlock"}
              /\ req.kind = "acquire" => Acquires(r, x) /\ s = Cur(r)
<1>1. CASE Acquires(r, x)
  <2>1. Cur(r) \in Stack
    BY <1>1, CurFacts DEF Acquires
  <2>2. LockStep(Cur(r), AcquireReq(Self(r)))
    BY <1>1 DEF Acquires, LockStep, AcquireOutcome
  <2> QED BY <1>1, <2>1, <2>2, SelfFacts
<1>2. CASE Releases(r, x)
  <2>1. run[r].pc \in Looping /\ run[r].i <= Len(Targets[r])
    BY <1>2 DEF Releases, Looping, TypeInv, RunOK, Busy
  <2>2. Cur(r) \in Stack
    BY <2>1, CurFacts
  <2>3. LockStep(Cur(r), ReleaseReq(Self(r)))
    BY <1>2 DEF Releases, LockStep
  <2> QED BY <2>2, <2>3, SelfFacts
<1>3. CASE Sweeps(r, x)
  <2>1. PICK s \in Stack : LockStep(s, UnlockReq(PRof[r], r, TRUE))
    BY <1>3 DEF Sweeps, LockStep
  <2> QED BY <2>1, SelfFacts
<1> QED BY <1>1, <1>2, <1>3 DEF Shape, Quiet

LEMMA LockStepOK ==
  ASSUME TypeInv, NEW s \in Stack, NEW req \in Request, LockStep(s, req)
  PROVE  lock' \in [Stack -> Lock] /\ \A named \in Stack : LockOK(lock'[named])
<1> DEFINE n == Transition(req, lock[s], now).lock
<1>1. LockOK(n) /\ n \in Lock
  BY TransitionOK DEF TypeInv, LockOK
<1> HIDE DEF n
<1>2. lock' = [lock EXCEPT ![s] = n]
  BY DEF LockStep, n
<1> QED BY <1>1, <1>2 DEF TypeInv

LEMMA ReapFacts == ReapReq \in Request /\ ReapReq.kind = "reap"
BY DEF ReapReq, Request

LEMMA TypeInit == Init => TypeInv
<1> SUFFICES ASSUME Init PROVE TypeInv
  OBVIOUS
<1> DEFINE x == [pc |-> "new", i |-> 1, status |-> << >>, lease |-> 0, acquired |-> FALSE,
                 cancelled |-> FALSE, unsure |-> {}, todo |-> {}, exit |-> "none"]
<1>1. x \in State
  BY DEF State, Phase, Before, Exit
<1>2. /\ x.pc = "new" /\ x.status = << >> /\ x.i = 1 /\ x.acquired = FALSE
  OBVIOUS
<1>3. run = [r \in Run |-> x]
  BY DEF Init
<1> HIDE DEF x
<1>4. \A r \in Run : RunOK(r, x)
  BY <1>1, <1>2 DEF RunOK, Ended, Before, After, Busy, Looping
<1>5. lock \in [Stack -> Lock] /\ \A s \in Stack : LockOK(lock[s])
  BY NewLockOK DEF Init, LockOK
<1> QED BY <1>1, <1>3, <1>4, <1>5 DEF Init, TypeInv

LEMMA TypeNext == TypeInv /\ [Next]_vars => TypeInv'
<1> SUFFICES ASSUME TypeInv, [Next]_vars PROVE TypeInv'
  OBVIOUS
<1>1. \A r : \A x : RunOK(r, x) /\ cast' = cast => RunOK(r, x)'
  BY DEF RunOK, Targets, Refresh, DryRun
<1>2. CASE Tick
  BY <1>1, <1>2 DEF Tick, TypeInv
<1>3. ASSUME NEW s \in Stack, ReapStack(s) PROVE TypeInv'
  <2>1. LockStep(s, ReapReq) /\ UNCHANGED <<cast, now, run>>
    BY <1>3 DEF ReapStack, LockStep
  <2>2. lock' \in [Stack -> Lock] /\ \A named \in Stack : LockOK(lock'[named])
    BY <2>1, LockStepOK, ReapFacts
  <2> QED BY <1>1, <2>1, <2>2 DEF TypeInv
<1>4. ASSUME NEW r \in Run, Step(r) PROVE TypeInv'
  <2>1. PICK x : Shape(r, x)
    BY <1>4, StepShape
  <2>2. lock' \in [Stack -> Lock] /\ \A named \in Stack : LockOK(lock'[named])
    BY <2>1, ShapeLocks, LockStepOK DEF TypeInv
  <2>3. /\ run' = [run EXCEPT ![r] = x] /\ UNCHANGED <<cast, now>> /\ RunOK(r, x)
    BY <2>1 DEF Shape, Moves
  <2>4. run' \in [Run -> State] /\ \A named \in Run : RunOK(named, run'[named])
    BY <2>3 DEF TypeInv, RunOK
  <2> QED BY <1>1, <2>2, <2>3, <2>4 DEF TypeInv
<1>5. CASE UNCHANGED vars
  BY <1>1, <1>5 DEF vars, TypeInv
<1> QED BY <1>2, <1>3, <1>4, <1>5 DEF Next

-----------------------------------------------------------------------------
(* A run that was granted a lock has it until the lease ends. *)

Has(r) == /\ Active(lock[Cur(r)], r)
          /\ run[r].lease <= lock[Cur(r)].holder.expires

GrantInv == \A r \in Run : run[r].acquired /\ now <= run[r].lease => Has(r)

(* The lease of a granted lock runs: the lock is not up for eviction. *)
LEMMA HasIsFresh ==
  ASSUME TypeInv, NEW r \in Run, run[r].acquired, now <= run[r].lease, Has(r)
  PROVE  Cur(r) \in Stack /\ LockOK(lock[Cur(r)]) /\ ~Expired(lock[Cur(r)].holder, now)
<1>1. run[r].pc \in Looping /\ run[r].i <= Len(Targets[r]) /\ run[r].lease \in Int /\ now \in Nat
  BY DEF TypeInv, RunOK, State, Busy, Looping
<1>2. Cur(r) \in Stack /\ LockOK(lock[Cur(r)])
  BY <1>1, CurFacts
<1> DEFINE e == lock[Cur(r)].holder.expires
<1>3. e \in ExpiresAt
  BY <1>2 DEF Has, Active, LockOK, Lock, Held, Holder
<1>4. e \in Nat /\ now <= e
  BY <1>1, <1>3 DEF ExpiresAt, Unparseable, Missing, Has
<1> HIDE DEF e
<1>5. ~Expired(lock[Cur(r)].holder, now)
  BY <1>1, <1>4 DEF Expired, Unparseable, Missing, e
<1> QED BY <1>2, <1>5

(* What others do to a lock leaves a granted one alone. *)
LEMMA OthersKeep ==
  ASSUME TypeInv, NEW r \in Run, run[r].acquired, now <= run[r].lease, Has(r),
         NEW s \in Stack, NEW req \in Request, LockStep(s, req),
         req.kind # "force_unlock", req.kind # "reap" => req.run \in Run \ {r},
         run'[r] = run[r], cast' = cast
  PROVE  Has(r)'
<1> DEFINE l == lock[Cur(r)]
           n == Transition(req, l, now).lock
<1>1. Cur(r) \in Stack /\ LockOK(l) /\ ~Expired(l.holder, now) /\ Active(l, r)
  BY HasIsFresh DEF Has
<1>2. Cur(r)' = Cur(r)
  BY DEF Cur, Targets
<1>3. lock'[Cur(r)] = IF s = Cur(r) THEN n ELSE l
  BY <1>1 DEF LockStep, TypeInv
<1>4. n.holder = l.holder
  <2>1. req.kind \in {"release", "unlock"} => req.run \notin {r, AnyRun}
    BY RunAssumption
  <2>2. req.kind = "acquire" => req.run # r
    OBVIOUS
  <2> HIDE DEF l
  <2> QED BY <1>1, <2>1, <2>2, FreshHolderStays DEF TypeInv
<1> HIDE DEF l, n
<1>5. lock'[Cur(r)].holder = l.holder
  BY <1>3, <1>4
<1> QED BY <1>1, <1>2, <1>5 DEF Has, Active, Held, l

LEMMA GrantNext == TypeInv /\ GrantInv /\ [Next]_vars => GrantInv'
<1> SUFFICES ASSUME TypeInv, GrantInv, [Next]_vars, NEW named \in Run,
                    run'[named].acquired, now' <= run'[named].lease
             PROVE  Has(named)'
  BY DEF GrantInv
<1>1. ASSUME run'[named] = run[named], lock' = lock, cast' = cast, now' \in {now, now + 1}
      PROVE  Has(named)'
  <2>1. now <= run[named].lease
    BY <1>1 DEF TypeInv, State
  <2> QED BY <1>1, <2>1 DEF GrantInv, Has, Cur, Targets
<1>2. CASE Tick
  BY <1>1, <1>2 DEF Tick
<1>3. ASSUME NEW s \in Stack, ReapStack(s) PROVE Has(named)'
  <2>1. LockStep(s, ReapReq) /\ UNCHANGED <<cast, now, run>>
    BY <1>3 DEF ReapStack, LockStep
  <2> QED BY <2>1, OthersKeep, ReapFacts DEF GrantInv
<1>4. ASSUME NEW r \in Run, Step(r) PROVE Has(named)'
  <2>1. PICK x : Shape(r, x)
    BY <1>4, StepShape
  <2>2. run' = [run EXCEPT ![r] = x] /\ UNCHANGED <<cast, now>>
    BY <2>1 DEF Shape, Moves
  <2>3. CASE named # r
    <3>1. run'[named] = run[named]
      BY <2>2, <2>3 DEF TypeInv
    <3>2. CASE lock' = lock
      BY <1>1, <2>2, <3>1, <3>2
    <3>3. ASSUME NEW s \in Stack, NEW req \in Request, LockStep(s, req), req.run = r,
                 req.kind \in {"acquire", "release", "unlock"}
          PROVE  Has(named)'
      BY <2>2, <2>3, <3>1, <3>3, OthersKeep DEF GrantInv
    <3> QED BY <2>1, <3>2, <3>3, ShapeLocks
  <2>4. CASE named = r
    <3>1. run'[named] = x /\ x.acquired /\ now <= x.lease
      BY <2>2, <2>4 DEF TypeInv
    <3>2. ASSUME KeepsGrant(r, x)
          PROVE  /\ run[named].acquired /\ now <= run[named].lease /\ Has(named)
                 /\ Cur(named)' = Cur(named) /\ run'[named].lease = run[named].lease
      BY <2>2, <2>4, <3>1, <3>2 DEF KeepsGrant, GrantInv, Cur, Targets
    <3>3. CASE Quiet(r, x)
      BY <3>2, <3>3 DEF Quiet, Has
    <3>4. CASE Acquires(r, x)
      <4> DEFINE won == AcquireOutcome(r)
      <4>1. /\ won.ok \in BOOLEAN
            /\ won.ok => AcquiredBy(won.lock, Self(r), now) /\ won.lock.holder.expires \in Nat
            /\ ~won.ok => won.lock.holder = EvictIfExpired(lock[Cur(r)], now, TTL).holder
        BY <3>4, OutcomeFacts DEF Acquires
      <4>2. Cur(r) \in Stack
        BY <3>4, CurFacts DEF Acquires
      <4>3. lock'[Cur(r)] = won.lock
        BY <3>4, <4>2 DEF Acquires, TypeInv
      <4>4. \/ won.ok /\ x.i = run[r].i /\ x.lease = won.lock.holder.expires
            \/ ~won.ok /\ KeepsGrant(r, x)
        BY <3>1, <3>4 DEF Acquires
      <4> HIDE DEF won
      <4>5. CASE won.ok /\ x.i = run[r].i /\ x.lease = won.lock.holder.expires
        <5>1. Cur(r)' = Cur(r)
          BY <2>2, <2>4, <3>1, <4>5 DEF Cur, Targets
        <5>2. Active(won.lock, r)
          BY <4>1, <4>5, SelfFacts DEF AcquiredBy
        <5> QED BY <2>4, <3>1, <4>1, <4>3, <4>5, <5>1, <5>2 DEF Has
      <4>6. CASE ~won.ok /\ KeepsGrant(r, x)
        <5>1. run[r].acquired /\ now <= run[r].lease /\ Has(r) /\ Cur(r)' = Cur(r)
          BY <2>4, <3>2, <4>6
        <5>2. EvictIfExpired(lock[Cur(r)], now, TTL) = lock[Cur(r)]
          BY <5>1, HasIsFresh, FreshKept DEF Has, Active
        <5>3. lock'[Cur(r)].holder = lock[Cur(r)].holder
          BY <4>1, <4>3, <4>6, <5>2
        <5> QED BY <2>4, <3>2, <4>6, <5>1, <5>3 DEF Has, Active, Held
      <4> QED BY <4>4, <4>5, <4>6
    <3>5. ~Releases(r, x) /\ ~Sweeps(r, x)
      BY <3>1 DEF Releases, Sweeps
    <3> QED BY <2>1, <3>3, <3>4, <3>5 DEF Shape
  <2> QED BY <2>3, <2>4
<1>5. CASE UNCHANGED vars
  BY <1>1, <1>5 DEF vars
<1> QED BY <1>2, <1>3, <1>4, <1>5 DEF Next

(* While the engine changes a stack or its record, the run has acquired the  *)
(* lock, and the lock names it as the active holder until the lease it was   *)
(* last granted runs won: for every number of runs, stacks and pull          *)
(* requests, every TTL, and whatever the bucket fails to do.                 *)
THEOREM EngineAlwaysHoldsLock == Spec => []EngineHoldsLock
<1>1. TypeInv /\ GrantInv => EngineHoldsLock
  <2> SUFFICES ASSUME TypeInv, GrantInv, NEW s \in Stack, NEW r \in Applying(s)
               PROVE  /\ run[r].acquired
                      /\ now <= run[r].lease => Active(lock[s], r)
    BY DEF EngineHoldsLock, Active
  <2>1. r \in Run /\ Cur(r) = s /\ run[r].acquired
    BY DEF Applying, TypeInv, RunOK
  <2> QED BY <2>1 DEF GrantInv, Has
<1>2. Init => GrantInv
  <2>1. Init => \A r \in Run : run[r].acquired = FALSE
    BY DEF Init
  <2> QED BY <2>1 DEF GrantInv
<1> QED BY <1>1, <1>2, TypeInit, TypeNext, GrantNext, PTL DEF Spec


-----------------------------------------------------------------------------
(* One engine per stack, while the lease lasts. *)

(* Of the runs whose engine is at work on a stack one at most is still under *)
(* the lease it was last granted, with no condition on how long anything     *)
(* takes: where two engines do meet, the lease of one has run won before.    *)
THEOREM OneEngineUnderLease == Spec => []OneUnderLease
<1>1. EngineHoldsLock => OneUnderLease
  BY DEF EngineHoldsLock, OneUnderLease
<1> QED BY <1>1, EngineAlwaysHoldsLock, PTL

-----------------------------------------------------------------------------
(* A run holds no lock but the one it is at. *)

LEMMA StepAlive ==
  ASSUME NEW r, Step(r)
  PROVE  run[r].pc \notin Ended
BY DEF Step, Ended, Begin, AppliedGuard, Gather, Intent, SkipCancelled, Acquire, AcquireFails,
       Gates, Auth, Heartbeat, EngineReturns, ReleaseLock, WriteManifest, Sweep, SweepFails,
       WriteAppliedState, Report, BeginRefresh, PassOver, AcquireRefresh, Login,
       RefreshReturns, ReportRefresh, Cancel, Die, Alive, InLoop, RefreshLoop, Looping

(* An active holder was there before, or has just been told that it is one. *)
LEMMA NewHolder ==
  ASSUME TypeInv, NEW r \in Run, NEW x, Shape(r, x), NEW s \in Stack, NEW named \in Run,
         Active(lock'[s], named)
  PROVE  \/ Active(lock[s], named) /\ lock'[s].holder = lock[s].holder
         \/ named = r /\ Acquires(r, x) /\ s = Cur(r) /\ AcquireOutcome(r).ok
<1>1. CASE lock' = lock
  BY <1>1
<1>2. ASSUME NEW p \in Stack, NEW req \in Request, LockStep(p, req), req.run = r,
             req.kind = "acquire" => Acquires(r, x) /\ p = Cur(r)
      PROVE  \/ Active(lock[s], named) /\ lock'[s].holder = lock[s].holder
             \/ named = r /\ Acquires(r, x) /\ s = Cur(r) /\ AcquireOutcome(r).ok
  <2>1. CASE s # p
    <3>1. lock'[s] = lock[s]
      BY <1>2, <2>1 DEF LockStep, TypeInv
    <3> QED BY <3>1
  <2>2. CASE s = p
    <3> DEFINE l == lock[s]
               n == Transition(req, l, now).lock
    <3>1. lock'[s] = n /\ LockOK(l) /\ now \in Nat
      BY <1>2, <2>2 DEF LockStep, TypeInv
    <3>2. Active(n, named)
      BY <3>1
    <3> HIDE DEF l
    <3>3. \/ Held(l) /\ n.holder = l.holder
          \/ req.kind = "acquire" /\ req.run = named
      BY <3>1, <3>2, ActiveComesFrom
    <3> HIDE DEF n
    <3>4. ASSUME Held(l), n.holder = l.holder PROVE Active(l, named)
      BY <3>2, <3>4 DEF Active, Held
    <3>5. ASSUME req.kind = "acquire", req.run = named, ~AcquireOutcome(r).ok
          PROVE  Active(l, named) /\ n.holder = l.holder
      <4>1. Acquires(r, x) /\ s = Cur(r)
        BY <1>2, <2>2, <3>5
      <4>2. AcquireOutcome(r).lock.holder = EvictIfExpired(l, now, TTL).holder
        BY <3>5, <4>1, OutcomeFacts DEF Acquires, l
      <4>3. lock'[s] = AcquireOutcome(r).lock
        BY <4>1 DEF Acquires, TypeInv
      <4>4. n.holder = EvictIfExpired(l, now, TTL).holder
        BY <3>1, <4>2, <4>3
      <4>5. Held(l) /\ n.holder = l.holder
        BY <3>1, <3>2, <4>4, EvictedHolder DEF Active, Held, LockOK
      <4> QED BY <3>4, <4>5
    <3>6. n.holder = l.holder /\ Active(l, named) => lock'[s].holder = lock[s].holder /\ Active(lock[s], named)
      BY <3>1 DEF l
    <3> QED BY <1>2, <2>2, <3>3, <3>4, <3>5, <3>6
  <2> QED BY <2>1, <2>2
<1> QED BY <1>1, <1>2, ShapeLocks

(* It is on record that a call about the lock of s failed. *)
Doubt(x, s) == \E u \in x.unsure : u.stack = s

HeldInv ==
  \A r \in Run, s \in Stack :
    Active(lock[s], r) =>
      /\ lock[s].holder.pr = PRof[r]
      /\ run[r].pc = "dead" \/ (run[r].acquired /\ Cur(r) = s) \/ Doubt(run[r], s)

LEMMA HeldNext == TypeInv /\ HeldInv /\ [Next]_vars => HeldInv'
<1> SUFFICES ASSUME TypeInv, HeldInv, [Next]_vars, NEW named \in Run, NEW s \in Stack,
                    Active(lock'[s], named)
             PROVE  /\ lock'[s].holder.pr = PRof[named]
                    /\ \/ run'[named].pc = "dead" \/ (run'[named].acquired /\ Cur(named)' = s)
                       \/ Doubt(run'[named], s)
  BY DEF HeldInv, Doubt
<1>1. ASSUME Active(lock[s], named), lock'[s].holder = lock[s].holder, run'[named] = run[named], cast' = cast
      PROVE  /\ lock'[s].holder.pr = PRof[named]
             /\ \/ run'[named].pc = "dead" \/ (run'[named].acquired /\ Cur(named)' = s)
                \/ Doubt(run'[named], s)
  BY <1>1 DEF HeldInv, Cur, Targets
<1>2. CASE Tick
  BY <1>1, <1>2 DEF Tick
<1>3. ASSUME NEW p \in Stack, ReapStack(p)
      PROVE  Active(lock[s], named) /\ lock'[s].holder = lock[s].holder /\ run' = run /\ cast' = cast
  <2>1. LockStep(p, ReapReq) /\ UNCHANGED <<cast, now, run>>
    BY <1>3 DEF ReapStack, LockStep
  <2>2. CASE s # p
    <3>1. lock'[s] = lock[s]
      BY <2>1, <2>2 DEF LockStep, TypeInv
    <3> QED BY <2>1, <3>1
  <2>3. CASE s = p
    <3> DEFINE l == lock[s]
               n == Transition(ReapReq, l, now).lock
    <3>1. lock'[s] = n /\ LockOK(l) /\ now \in Nat /\ Active(n, named)
      BY <2>1, <2>3 DEF LockStep, TypeInv
    <3> HIDE DEF l
    <3>2. Held(l) /\ n.holder = l.holder
      BY <3>1, ActiveComesFrom, ReapFacts
    <3> HIDE DEF n
    <3> QED BY <2>1, <3>1, <3>2 DEF Active, Held, l
  <2> QED BY <2>2, <2>3
<1>4. ASSUME NEW r \in Run, Step(r)
      PROVE  /\ lock'[s].holder.pr = PRof[named]
             /\ \/ run'[named].pc = "dead" \/ (run'[named].acquired /\ Cur(named)' = s)
                \/ Doubt(run'[named], s)
  <2>1. PICK x : Shape(r, x)
    BY <1>4, StepShape
  <2>2. /\ run' = [run EXCEPT ![r] = x] /\ UNCHANGED <<cast, now>> /\ run[r].pc \notin Ended
        /\ run'[r] = x
    BY <1>4, <2>1, StepAlive DEF Shape, Moves, TypeInv
  <2>3. CASE Active(lock[s], named) /\ lock'[s].holder = lock[s].holder
    <3>1. CASE named # r
      <4>1. run'[named] = run[named]
        BY <2>2, <3>1 DEF TypeInv
      <4> QED BY <1>1, <2>2, <2>3, <4>1
    <3>2. CASE named = r
      <4>1. lock'[s].holder.pr = PRof[named]
        BY <2>3 DEF HeldInv
      <4>2. CASE Doubt(run[r], s)
        <5>1. ASSUME Fails(r, x) PROVE Doubt(x, s)
          BY <4>2, <5>1 DEF Doubt, Fails
        <5>2. Doubt(x, s) \/ x.pc = "dead"
          BY <2>1, <4>2, <5>1 DEF Shape, Calls, Doubt
        <5> QED BY <2>1, <2>2, <3>2, <4>1, <5>2
      <4>3. CASE run[r].acquired /\ Cur(r) = s
        <5>1. run[r].acquired /\ Cur(r) = s
          BY <4>3
        <5>2. x.i = run[r].i => Cur(named)' = s
          BY <2>2, <3>2, <5>1 DEF Cur, Targets
        <5>3. CASE KeepsGrant(r, x)
          <6>1. Fails(r, x) => Doubt(x, s)
            BY <2>2, <5>1, UnsureFacts DEF Fails, Doubt, Looping, TypeInv, RunOK, Busy
          <6> QED BY <2>2, <3>2, <4>1, <5>1, <5>2, <5>3, <6>1 DEF KeepsGrant
        <5>4. CASE Acquires(r, x)
          BY <2>2, <3>2, <4>1, <5>1, <5>2, <5>3, <5>4 DEF Acquires
        <5>5. ~Releases(r, x)
          <6> SUFFICES ASSUME Releases(r, x) PROVE FALSE
            OBVIOUS
          <6> DEFINE n == Transition(ReleaseReq(Self(r)), lock[s], now).lock
          <6>1. lock'[s] = n /\ LockOK(lock[s]) /\ now \in Nat
            BY <5>1 DEF Releases, TypeInv
          <6>2. /\ Self(r) \in Applicant /\ Self(r).run = r
                /\ Active(lock[s], Self(r).run) => lock[s].holder.pr = Self(r).pr
            <7>1. Self(r) \in Applicant /\ Self(r).run = r /\ Self(r).pr = PRof[r]
              BY SelfFacts
            <7>2. Active(lock[s], r) => lock[s].holder.pr = PRof[r]
              BY DEF HeldInv
            <7> QED BY <7>1, <7>2, Zenon
          <6>3. ~Active(n, Self(r).run)
            BY <6>1, <6>2, ReleasedHolder
          <6> QED BY <3>2, <6>1, <6>2, <6>3
        <5>6. ~Sweeps(r, x)
          BY <5>1 DEF Sweeps, TypeInv, RunOK, Busy
        <5> QED BY <2>1, <5>3, <5>4, <5>5, <5>6 DEF Shape, Quiet
      <4> QED BY <2>2, <2>3, <3>2, <4>2, <4>3 DEF HeldInv, Ended
    <3> QED BY <3>1, <3>2
  <2>4. CASE named = r /\ Acquires(r, x) /\ s = Cur(r) /\ AcquireOutcome(r).ok
    <3>1. AcquiredBy(AcquireOutcome(r).lock, Self(r), now)
      BY <2>4, OutcomeFacts DEF Acquires
    <3>2. lock'[s] = AcquireOutcome(r).lock
      BY <2>4 DEF Acquires, TypeInv
    <3>3. lock'[s].holder.pr = PRof[named]
      BY <2>4, <3>1, <3>2, SelfFacts DEF AcquiredBy
    <3>4. (x.acquired /\ x.i = run[r].i) \/ Doubt(x, s)
      <4>1. Fails(r, x) => Doubt(x, s)
        BY <2>4, UnsureFacts DEF Fails, Doubt, Acquires
      <4> QED BY <2>4, <4>1 DEF Acquires
    <3>5. x.i = run[r].i => Cur(named)' = s
      BY <2>2, <2>4 DEF Cur, Targets
    <3> QED BY <2>2, <2>4, <3>3, <3>4, <3>5
  <2> QED BY <2>1, <2>3, <2>4, NewHolder
<1>5. CASE UNCHANGED vars
  BY <1>1, <1>5 DEF vars
<1> QED BY <1>1, <1>2, <1>3, <1>4, <1>5 DEF Next

(* When only signals make calls fail, the first that one cuts is the last:   *)
(* the run is cancelled then, and was not before.                            *)
OneDoubt(x) ==
  /\ \A u, v \in x.unsure : ~u.late /\ u = v
  /\ x.unsure # {} => x.cancelled \/ x.pc \in After \cup Ended

DoubtInv == OnlySignals => \A r \in Run : OneDoubt(run[r])

LEMMA DoubtNext == TypeInv /\ DoubtInv /\ [Next]_vars => DoubtInv'
<1> SUFFICES ASSUME TypeInv, DoubtInv, [Next]_vars, OnlySignals', NEW named \in Run
             PROVE  OneDoubt(run'[named])
  BY DEF DoubtInv, OneDoubt
<1>1. cast' = cast
  BY DEF Next, vars, Tick, ReapStack, Step, Begin, AppliedGuard, Gather, Intent, SkipCancelled,
         Acquire, AcquireFails, Gates, Auth, Heartbeat, EngineReturns, ReleaseLock,
         WriteManifest, Sweep, SweepFails, WriteAppliedState, Report, BeginRefresh, PassOver,
         AcquireRefresh, Login, RefreshReturns, ReportRefresh, Cancel, Die
<1>2. OneDoubt(run[named]) /\ OnlySignals
  BY <1>1 DEF DoubtInv, OnlySignals, Faults
<1>3. CASE run'[named] = run[named]
  BY <1>2, <1>3
<1>4. ASSUME NEW r \in Run, Step(r) PROVE OneDoubt(run'[named])
  <2>1. PICK x : Shape(r, x)
    BY <1>4, StepShape
  <2>2. run' = [run EXCEPT ![r] = x] /\ Calls(r, x)
    BY <2>1 DEF Shape, Moves
  <2>3. CASE named # r
    BY <1>3, <2>2, <2>3 DEF TypeInv
  <2>4. CASE named = r
    <3>1. run'[named] = x
      BY <2>2, <2>4 DEF TypeInv
    <3>2. CASE Fails(r, x)
      <4>1. ~run[r].cancelled /\ x.cancelled /\ run[r].pc \notin After \cup Ended
        BY <1>2, <3>2 DEF Fails, After, Ended, Looping
      <4>2. run[r].unsure = {}
        BY <1>2, <2>4, <4>1 DEF OneDoubt
      <4>3. x.unsure = {Unsure(r)} /\ ~Unsure(r).late
        BY <3>2, <4>1, <4>2 DEF Fails, Unsure
      <4> QED BY <3>1, <4>1, <4>3 DEF OneDoubt
    <3>3. CASE x.pc = "dead" /\ x.unsure = {}
      BY <3>1, <3>3 DEF OneDoubt
    <3>4. CASE /\ x.unsure = run[r].unsure
               /\ run[r].cancelled \/ run[r].pc \in After => x.cancelled \/ x.pc \in After \cup Ended
      <4>1. run[r].pc \notin Ended
        BY <1>4, StepAlive
      <4> QED BY <1>2, <2>4, <3>1, <3>4, <4>1 DEF OneDoubt
    <3> QED BY <2>2, <3>2, <3>3, <3>4 DEF Calls
  <2> QED BY <2>3, <2>4
<1> QED BY <1>3, <1>4 DEF Next, Tick, ReapStack, vars

(* A run that has returned, cancelled or not, is the active holder of no     *)
(* lock but those whose acquire or release was reported as failed; and when  *)
(* only signals make calls fail, that is the one lock whose call the signal  *)
(* cut.  No path through the loop, through a blocked gate, a credential      *)
(* error, an engine error or a release after a cancellation, leaves another  *)
(* lock behind.                                                              *)
THEOREM NothingIsLeftHeld == Spec => []NothingLeftHeld
<1>1. TypeInv /\ HeldInv /\ DoubtInv => NothingLeftHeld
  <2> SUFFICES ASSUME TypeInv, HeldInv, DoubtInv, NEW r \in Run, run[r].pc = "done"
               PROVE  /\ \A s \in HeldBy(r) :
                           \E u \in run[r].unsure : u.stack = s /\ (OnlySignals => ~u.late)
                      /\ OnlySignals => \A s, t \in HeldBy(r) : s = t
    BY DEF NothingLeftHeld
  <2>1. ~run[r].acquired
    BY DEF TypeInv, RunOK, Busy
  <2>2. \A s \in HeldBy(r) : Doubt(run[r], s)
    BY <2>1 DEF HeldBy, HeldInv, Active
  <2>3. OnlySignals => \A u, v \in run[r].unsure : ~u.late /\ u = v
    BY DEF DoubtInv, OneDoubt
  <2> QED BY <2>2, <2>3 DEF Doubt
<1>2. Init => HeldInv /\ DoubtInv
  <2>1. Init => \A s \in Stack : ~Held(lock[s])
    BY DEF Init, NewLock, Held
  <2>2. Init => \A r \in Run : run[r].unsure = {}
    BY DEF Init
  <2> QED BY <2>1, <2>2 DEF HeldInv, Active, DoubtInv, OneDoubt
<1> QED BY <1>1, <1>2, TypeInit, TypeNext, HeldNext, DoubtNext, PTL DEF Spec


-----------------------------------------------------------------------------
(* What the bucket says about a run. *)

Statuses(x) == {x.status[i] : i \in 1..Len(x.status)}

Clean(x) == Statuses(x) \subseteq {"noop", "planned"}

Green == {"success", "blocked", "skipped"}

RecordOK(r, x) ==
  /\ r \in BreakGlass /\ x.pc \in Looping \cup After => <<r, "intent">> \in audit
  /\ x.pc = "sweep" => Clean(x)
  /\ x.pc \in After => r \in manifest \/ x.exit = "error"
  /\ x.pc = "done" =>
       /\ r \notin Refresh /\ "planned" \in Statuses(x) => r \in manifest \/ x.exit \notin Green
       /\ "error" \in Statuses(x) => x.exit \notin Green

AtReport == {"report"} \cup Ended

(* Run r is behind the applied marker of its commit. *)
Marked(r) ==
  /\ r \in DOMAIN Targets /\ run[r].pc \in AtReport
  /\ Len(run[r].status) = Len(Targets[r]) /\ Clean(run[r])

RecordInv ==
  /\ \A r \in Run : RecordOK(r, run[r])
  /\ \A c \in applied : \E r \in Run : CommitOf[r] = c /\ Marked(r)
  /\ \A r \in BreakGlass, s \in Stack : Names(lock[s], r) => <<r, "intent">> \in audit

(* A step of r adds to the records what is true of r. *)
Recorded(r) ==
  /\ RecordOK(r, run[r])'
  /\ audit \subseteq audit' /\ manifest \subseteq manifest'
  /\ \A c \in applied' \ applied : c = CommitOf[r] /\ Marked(r)'
  /\ run[r].pc \in AtReport => run'[r].pc \in AtReport /\ run'[r].status = run[r].status

LEMMA OutcomeMeans ==
  ASSUME TypeInv, NEW r \in Run
  PROVE  /\ "error" \in Statuses(run[r]) => AggregateOutcome(r) = "failed"
         /\ AggregateOutcome(r) = "success" => Clean(run[r])
<1> DEFINE x == run[r]
<1>1. x.status \in Seq(Status)
  BY DEF TypeInv, State
<1> HIDE DEF x
<1>2. \A i \in 1..Len(x.status) : x.status[i] \in Status
  BY <1>1
<1>3. Statuses(x) \subseteq Status
  BY <1>2 DEF Statuses
<1>4. StatusSet(r) = Statuses(x)
  BY DEF StatusSet, Statuses, x
<1>5. "error" \in Statuses(x) => AggregateOutcome(r) = "failed"
  BY <1>4 DEF AggregateOutcome
<1>6. AggregateOutcome(r) = "success" =>
        "error" \notin Statuses(x) /\ "blocked" \notin Statuses(x)
  BY <1>4 DEF AggregateOutcome
<1>7. "error" \notin Statuses(x) /\ "blocked" \notin Statuses(x) => Clean(x)
  BY <1>3 DEF Clean, Status
<1> QED BY <1>5, <1>6, <1>7 DEF x

LEMMA BeforeRecorded ==
  ASSUME TypeInv, RecordInv, NEW r \in Run,
         Begin(r) \/ AppliedGuard(r) \/ Gather(r) \/ Intent(r) \/ BeginRefresh(r)
  PROVE  Recorded(r)
<1>1. PICK x : Shape(r, x) /\ x.status = << >> /\ x.pc \notin After
  BY BeforeShape
<1>2. run'[r] = x /\ cast' = cast /\ RunOK(r, x)
  BY <1>1 DEF Shape, Moves, TypeInv
<1>3. Statuses(x) = {}
  BY <1>1 DEF Statuses
<1>4. /\ audit \subseteq audit' /\ manifest' = manifest /\ applied' = applied
      /\ run[r].pc \notin AtReport
  BY DEF Begin, AppliedGuard, Gather, Intent, BeginRefresh, AtReport, Ended
<1>5. ASSUME r \in BreakGlass, x.pc \in Looping PROVE <<r, "intent">> \in audit'
  <2>1. r \in DOMAIN Targets \ Refresh
    BY <1>5, CastFacts DEF TypeInv
  <2>2. run[r] \in State
    BY DEF TypeInv
  <2>3. \A pc : Local(r, [run[r] EXCEPT !.pc = pc]) => x.pc = pc
    BY <1>2, <2>2 DEF Local, State, TypeInv
  <2>4. ASSUME NEW code, Finish(r, code) PROVE x.pc = "done"
    <3> DEFINE z == [run[r] EXCEPT !.pc = "done", !.exit = code, !.lease = 0,
                                   !.acquired = FALSE, !.cancelled = FALSE, !.todo = {}]
    <3>1. run' = [run EXCEPT ![r] = z] /\ run \in [Run -> State]
      BY <2>4 DEF Finish, Stop, Local, TypeInv
    <3>2. z.pc = "done"
      BY <2>2 DEF State
    <3> HIDE DEF z
    <3> QED BY <1>2, <3>1, <3>2
  <2>5. ~Begin(r) /\ ~AppliedGuard(r) /\ ~Gather(r) /\ ~BeginRefresh(r)
    BY <1>5, <2>1, <2>3, <2>4 DEF Begin, AppliedGuard, Gather, BeginRefresh, Looping
  <2>6. Intent(r)
    BY <2>5
  <2> QED BY <1>5, <2>4, <2>6 DEF Intent, Looping
<1>6. RecordOK(r, run[r])'
  BY <1>1, <1>2, <1>3, <1>5
     DEF RecordOK, BreakGlass, Refresh, Clean, Statuses, Green, After, Looping
<1> QED BY <1>4, <1>6 DEF Recorded

LEMMA LoopRecorded ==
  ASSUME TypeInv, RecordInv, NEW r \in Run,
         \/ SkipCancelled(r) \/ AcquireFails(r) \/ Gates(r) \/ Auth(r) \/ Heartbeat(r)
         \/ EngineReturns(r) \/ ReleaseLock(r) \/ PassOver(r) \/ Login(r)
         \/ RefreshReturns(r) \/ Cancel(r) \/ Acquire(r) \/ AcquireRefresh(r)
  PROVE  Recorded(r)
<1>1. PICK x : Shape(r, x) /\ x.pc \in Looping
  BY LoopShape, AcquireShape
<1>2. run'[r] = x /\ cast' = cast
  BY <1>1 DEF Shape, Moves, TypeInv
<1>3. UNCHANGED <<audit, manifest, applied>>
  BY DEF SkipCancelled, AcquireFails, Gates, Auth, Heartbeat, EngineReturns, ReleaseLock,
         PassOver, Login, RefreshReturns, Cancel, Acquire, AcquireRefresh
<1>4. run[r].pc \in Looping /\ run[r].pc \notin AtReport
  BY DEF SkipCancelled, AcquireFails, Gates, Auth, Heartbeat, EngineReturns, ReleaseLock,
         PassOver, Login, RefreshReturns, Cancel, Acquire, AcquireRefresh, InLoop,
         RefreshLoop, Looping, AtReport, Ended
<1>5. r \in BreakGlass => <<r, "intent">> \in audit
  BY <1>4 DEF RecordInv, RecordOK
<1>6. RecordOK(r, run[r])'
  BY <1>1, <1>2, <1>3, <1>5 DEF RecordOK, BreakGlass, Looping, After
<1> QED BY <1>3, <1>4, <1>6 DEF Recorded

LEMMA AfterRecorded ==
  ASSUME TypeInv, RecordInv, NEW r \in Run,
         \/ WriteManifest(r) \/ Sweep(r) \/ SweepFails(r) \/ WriteAppliedState(r)
         \/ Report(r) \/ ReportRefresh(r) \/ Die(r)
  PROVE  Recorded(r)
<1> DEFINE x == run[r]
           y == run'[r]
<1>1. x \in State /\ RunOK(r, x) /\ RecordOK(r, x) /\ run \in [Run -> State]
  BY DEF TypeInv, RecordInv
<1>2. y.status = x.status /\ cast' = cast /\ RunOK(r, y)
  <2>1. PICK z : Shape(r, z) /\ z.status = run[r].status
    BY AfterShape
  <2> QED BY <2>1 DEF Shape, Moves, TypeInv
<1>3. Statuses(y) = Statuses(x) /\ (Clean(y) <=> Clean(x))
  BY <1>2 DEF Statuses, Clean
<1>4. audit \subseteq audit' /\ manifest \subseteq manifest'
  BY DEF WriteManifest, Sweep, SweepFails, WriteAppliedState, Report, ReportRefresh, Die, Audited
<1>5. r \in BreakGlass /\ x.pc \in Looping \cup After => <<r, "intent">> \in audit'
  BY <1>1, <1>4 DEF RecordOK
<1>6. \A pc, code : Stop(r, pc, code) => y.pc = pc /\ y.exit = code
  BY <1>1 DEF Stop, Local, State
<1>7. ASSUME NEW code, Finish(r, code) PROVE y.pc = "done" /\ y.exit = code
  BY <1>6, <1>7 DEF Finish
<1>8. CASE WriteManifest(r)
  <2>1. PICK ok \in BOOLEAN :
          /\ manifest' = IF ok THEN manifest \cup {r} ELSE manifest
          /\ Local(r, [run[r] EXCEPT
               !.pc   = IF AggregateOutcome(r) = "success" THEN "sweep" ELSE "report",
               !.todo = IF AggregateOutcome(r) = "success" THEN Stack ELSE {},
               !.exit = IF ok THEN "none" ELSE "error",
               !.cancelled = FALSE])
    BY <1>8 DEF WriteManifest
  <2>2. /\ y.pc = IF AggregateOutcome(r) = "success" THEN "sweep" ELSE "report"
        /\ y.exit = IF ok THEN "none" ELSE "error"
    BY <1>1, <2>1 DEF Local, State
  <2>3. x.pc \in Looping /\ x.pc \notin AtReport /\ applied' = applied
    BY <1>8 DEF WriteManifest, Looping, AtReport, Ended
  <2>4. AggregateOutcome(r) = "success" => Clean(x)
    BY OutcomeMeans
  <2>5. r \in manifest' \/ y.exit = "error"
    BY <2>1, <2>2
  <2>6. y.pc \in {"sweep", "report"} /\ (y.pc = "sweep" => Clean(y))
    BY <1>3, <2>2, <2>4
  <2> HIDE DEF x, y
  <2>7. RecordOK(r, run[r])'
    BY <1>2, <1>5, <2>3, <2>5, <2>6 DEF RecordOK, BreakGlass, After, y, Clean, Statuses
  <2> QED BY <1>4, <2>3, <2>7 DEF Recorded, x
<1>9. ASSUME y.pc \in After, x.pc = "sweep", y.exit = x.exit, manifest' = manifest,
             \A c \in applied' \ applied : c = CommitOf[r] /\ y.pc = "report"
      PROVE  Recorded(r)
  <2>1. Clean(y) /\ (r \in manifest \/ y.exit = "error")
    BY <1>1, <1>3, <1>9 DEF RecordOK, After
  <2>2. r \in DOMAIN Targets /\ Len(y.status) = Len(Targets[r])
    BY <1>1, <1>2, <1>9 DEF RunOK, After, Ended
  <2> HIDE DEF x, y
  <2>3. RecordOK(r, run[r])'
    BY <1>2, <1>5, <1>9, <2>1 DEF RecordOK, BreakGlass, After, y, Clean, Statuses
  <2>4. y.pc = "report" => Marked(r)'
    BY <1>2, <2>1, <2>2 DEF Marked, Targets, AtReport, y, Clean, Statuses
  <2>5. x.pc \notin AtReport
    BY <1>9 DEF AtReport, Ended
  <2> QED BY <1>4, <1>9, <2>3, <2>4, <2>5 DEF Recorded, x
<1>10. CASE Sweep(r) \/ SweepFails(r)
  <2>1. x.pc = "sweep" /\ applied' = applied /\ manifest' = manifest
    BY <1>10 DEF Sweep, SweepFails
  <2>2. \E todo : run' = [run EXCEPT ![r] = [run[r] EXCEPT !.todo = todo]]
    BY <1>10 DEF Sweep, SweepFails
  <2>3. y.pc = x.pc /\ y.exit = x.exit
    BY <1>1, <2>2 DEF State
  <2> QED BY <1>9, <2>1, <2>3 DEF After
<1>11. CASE WriteAppliedState(r)
  <2>1. /\ x.pc = "sweep" /\ applied' \subseteq applied \cup {CommitOf[r]} /\ manifest' = manifest
        /\ run' = [run EXCEPT ![r] = [run[r] EXCEPT !.pc = "report"]]
    BY <1>11 DEF WriteAppliedState
  <2>2. y.pc = "report" /\ y.exit = x.exit
    BY <1>1, <2>1 DEF State
  <2> QED BY <1>9, <2>1, <2>2 DEF After
<1>12. ASSUME y.pc = "done", applied' = applied, manifest' = manifest,
              x.pc \in {"report", "refresh"},
              y.exit = "error" \/ (y.exit = AggregateOutcome(r) /\ x.exit # "error")
                 \/ (y.exit = AggregateOutcome(r) /\ r \in Refresh)
       PROVE  Recorded(r)
  <2>1. "error" \in Statuses(y) => y.exit \notin Green
    BY <1>3, <1>12, OutcomeMeans DEF Green
  <2>2. r \notin Refresh => r \in manifest \/ y.exit \notin Green
    BY <1>1, <1>12 DEF RecordOK, RunOK, After, Green
  <2> HIDE DEF x, y
  <2>3. RecordOK(r, run[r])'
    BY <1>2, <1>12, <2>1, <2>2 DEF RecordOK, Refresh, Looping, After, y, Statuses, Green
  <2> QED BY <1>2, <1>4, <1>12, <2>3 DEF Recorded, AtReport, Ended, x, y
<1>13. CASE Report(r)
  <2>1. PICK posted \in BOOLEAN :
          Finish(r, IF run[r].exit = "error" \/ ~posted THEN "error" ELSE AggregateOutcome(r))
    BY <1>13 DEF Report
  <2>2. y.pc = "done" /\ y.exit = IF x.exit = "error" \/ ~posted THEN "error"
                                  ELSE AggregateOutcome(r)
    BY <1>7, <2>1
  <2> QED BY <1>12, <1>13, <2>2 DEF Report
<1>14. CASE ReportRefresh(r)
  <2>1. x.pc = "refresh" /\ applied' = applied /\ manifest' = manifest /\ r \in Refresh
    BY <1>1, <1>14 DEF ReportRefresh, RunOK
  <2>2. y.pc = "done" /\ y.exit = AggregateOutcome(r)
    BY <1>7, <1>14 DEF ReportRefresh
  <2> QED BY <1>12, <2>1, <2>2
<1>15. CASE Die(r)
  <2>1. y.pc = "dead" /\ applied' = applied /\ manifest' = manifest
    BY <1>6, <1>15 DEF Die
  <2> HIDE DEF x, y
  <2>2. RecordOK(r, run[r])'
    BY <2>1 DEF RecordOK, Looping, After, y
  <2> QED BY <1>2, <1>4, <2>1, <2>2 DEF Recorded, AtReport, Ended, x, y
<1> QED BY <1>8, <1>10, <1>11, <1>13, <1>14, <1>15

LEMMA StepRecorded ==
  ASSUME TypeInv, RecordInv, NEW r \in Run, Step(r)
  PROVE  Recorded(r)
BY BeforeRecorded, LoopRecorded, AfterRecorded DEF Step

(* Whom a lock names after a step. *)
LEMMA LockStepNames ==
  ASSUME TypeInv, NEW s \in Stack, NEW req \in Request, LockStep(s, req),
         NEW named, NEW p \in Stack, Names(lock'[p], named)
  PROVE  Names(lock[p], named) \/ (req.kind = "acquire" /\ req.run = named)
<1>1. lock'[p] = IF p = s THEN Transition(req, lock[s], now).lock ELSE lock[p]
  BY DEF LockStep, TypeInv
<1>2. LockOK(lock[s]) /\ now \in Nat
  BY DEF TypeInv
<1> QED BY <1>1, <1>2, NamesNobodyNew

LEMMA RecordNext == TypeInv /\ RecordInv /\ [Next]_vars => RecordInv'
<1> SUFFICES ASSUME TypeInv, RecordInv, [Next]_vars PROVE RecordInv'
  OBVIOUS
<1>1. ASSUME cast' = cast, audit \subseteq audit', manifest \subseteq manifest',
             NEW named, NEW x, RecordOK(named, x)
      PROVE  RecordOK(named, x)'
  BY <1>1 DEF RecordOK, BreakGlass, Refresh
<1>2. ASSUME UNCHANGED <<cast, run, applied, audit, manifest>>,
             \A named \in BreakGlass, s \in Stack : Names(lock'[s], named) => Names(lock[s], named)
      PROVE  RecordInv'
  <2>1. \A named \in Run : RecordOK(named, run[named])'
    BY <1>1, <1>2 DEF RecordInv
  <2>2. \A named : Marked(named) => Marked(named)'
    BY <1>2 DEF Marked, Targets
  <2> QED BY <1>2, <2>1, <2>2 DEF RecordInv, BreakGlass
<1>3. CASE Tick
  BY <1>2, <1>3 DEF Tick
<1>4. ASSUME NEW s \in Stack, ReapStack(s) PROVE RecordInv'
  <2>1. LockStep(s, ReapReq) /\ UNCHANGED <<cast, run, applied, audit, manifest>>
    BY <1>4 DEF ReapStack, LockStep
  <2>2. \A named \in BreakGlass, p \in Stack : Names(lock'[p], named) => Names(lock[p], named)
    BY <2>1, LockStepNames, ReapFacts
  <2> QED BY <1>2, <2>1, <2>2
<1>5. ASSUME NEW r \in Run, Step(r) PROVE RecordInv'
  <2>1. PICK x : Shape(r, x)
    BY <1>5, StepShape
  <2>2. /\ run' = [run EXCEPT ![r] = x] /\ UNCHANGED <<cast, now>> /\ run'[r] = x
        /\ run[r].pc \notin Ended /\ \A named \in Run \ {r} : run'[named] = run[named]
    BY <1>5, <2>1, StepAlive DEF Shape, Moves, TypeInv
  <2>3. Recorded(r)
    BY <1>5, StepRecorded
  <2>4. \A named \in Run : RecordOK(named, run[named])'
    <3>1. ASSUME NEW named \in Run, named # r PROVE RecordOK(named, run[named])'
      <4>1. RecordOK(named, run[named]) /\ run'[named] = run[named]
        BY <2>2, <3>1 DEF RecordInv
      <4>2. \A z : RecordOK(named, z) => RecordOK(named, z)'
        BY <1>1, <2>2, <2>3 DEF Recorded
      <4> QED BY <4>1, <4>2 DEF RecordOK
    <3> QED BY <2>3, <3>1 DEF Recorded
  <2>5. \A c \in applied' : \E named \in Run : CommitOf[named] = c /\ Marked(named)'
    <3>1. ASSUME NEW named \in Run, Marked(named) PROVE Marked(named)'
      <4>1. run'[named].pc \in AtReport /\ run'[named].status = run[named].status
        BY <2>2, <2>3, <3>1 DEF Recorded, Marked
      <4> QED BY <2>2, <3>1, <4>1 DEF Marked, Targets, Clean, Statuses
    <3>2. \A c \in applied' \ applied : c = CommitOf[r] /\ Marked(r)'
      BY <2>3 DEF Recorded
    <3> QED BY <3>1, <3>2 DEF RecordInv
  <2>6. ASSUME NEW named \in BreakGlass, NEW s \in Stack, Names(lock'[s], named)
        PROVE  <<named, "intent">> \in audit'
    <3>1. CASE Names(lock[s], named)
      BY <2>3, <3>1 DEF RecordInv, Recorded
    <3>2. CASE named = r /\ Acquires(r, x)
      <4>1. RecordOK(r, run[r]) /\ run[r].pc \in Looping
        BY <3>2 DEF RecordInv, Acquires
      <4> QED BY <2>3, <3>2, <4>1 DEF RecordOK, Recorded
    <3>3. Names(lock[s], named) \/ (named = r /\ Acquires(r, x))
      <4>1. CASE lock' = lock
        BY <2>6, <4>1
      <4>2. ASSUME NEW p \in Stack, NEW req \in Request, LockStep(p, req), req.run = r,
                   req.kind = "acquire" => Acquires(r, x) /\ p = Cur(r)
            PROVE  Names(lock[s], named) \/ (named = r /\ Acquires(r, x))
        BY <2>6, <4>2, LockStepNames
      <4> QED BY <2>1, <4>1, <4>2, ShapeLocks
    <3> QED BY <3>1, <3>2, <3>3
  <2>7. BreakGlass' = BreakGlass
    BY <2>2 DEF BreakGlass
  <2> QED BY <2>4, <2>5, <2>6, <2>7 DEF RecordInv
<1>6. CASE UNCHANGED vars
  BY <1>2, <1>6 DEF vars
<1> QED BY <1>3, <1>4, <1>5, <1>6 DEF Next

(* What the records say is so, for every number of runs and whatever fails:  *)
(* an emergency apply is on record before any lock names it and before its   *)
(* engine runs; a commit is marked as applied only by a run that took every  *)
(* one of its stacks through without a blocked or failed one; and a run that *)
(* returned after changing something left a manifest or a nonzero exit.      *)
THEOREM RecordsAlwaysTrue == Spec => []RecordsTrue
<1>1. TypeInv /\ RecordInv => RecordsTrue
  <2> SUFFICES ASSUME TypeInv, RecordInv PROVE RecordsTrue
    OBVIOUS
  <2>1. BreakGlass \subseteq Run
    BY CastFacts DEF TypeInv
  <2>2. \A r : StatusSet(r) = Statuses(run[r])
    BY DEF StatusSet, Statuses
  <2>3. IntentFirst
    <3>1. \A r \in BreakGlass : run[r].pc = "engine" => <<r, "intent">> \in audit
      BY <2>1 DEF RecordInv, RecordOK, Looping
    <3>2. \A r \in BreakGlass, s \in Stack : Names(lock[s], r) => <<r, "intent">> \in audit
      BY DEF RecordInv
    <3> QED BY <3>1, <3>2 DEF IntentFirst, Names, WaitsAs
  <2>4. MarkerIsClean
    BY <2>2 DEF RecordInv, Marked, MarkerIsClean, Clean
  <2>5. ChangesOnRecord
    BY <2>2 DEF RecordInv, RecordOK, ChangesOnRecord, ExitsZero, Green
  <2> QED BY <2>3, <2>4, <2>5 DEF RecordsTrue
<1>2. Init => RecordInv
  <2> SUFFICES ASSUME Init PROVE RecordInv
    OBVIOUS
  <2>1. \A r \in Run : run[r].pc = "new"
    BY DEF Init
  <2>2. \A s \in Stack, r \in BreakGlass : ~Names(lock[s], r)
    BY DEF Init, NewLock, Names, WaitsAs, Held
  <2>3. \A r \in Run : RecordOK(r, run[r])
    BY <2>1 DEF RecordOK, Looping, After
  <2> QED BY <2>2, <2>3 DEF RecordInv, Init
<1> QED BY <1>1, <1>2, TypeInit, TypeNext, RecordNext, PTL DEF Spec

-----------------------------------------------------------------------------
(***************************************************************************)
(* What one apply, and explain, decide from everything they were told      *)
(* (Decision). The answer is a function of the question, so that the       *)
(* invariant only says which function; the work is in the lemmas about the *)
(* operators.                                                              *)
(***************************************************************************)

(* A question as the assumption has it. *)
WellAsked ==
  /\ q.cfg \in Config
  /\ q.in \in Inputs /\ q.in.policy = "none" /\ ~q.in.breakGlass
  /\ q.default \in Rules /\ q.layers \subseteq Layer /\ IsFiniteSet(q.layers)
  /\ IsFiniteSet(q.raw)
  /\ q.windows \in Seq(Window)
  /\ q.hooks \subseteq Configured /\ q.written \in BOOLEAN
  /\ q.emergency \in BOOLEAN /\ q.order.line \in Seq(STRING)
  /\ q.bg.overrideFreeze \in BOOLEAN
  /\ LockOK(q.lock) /\ q.self \in Applicant

(* The answer is what the command computes, from rules it may resolve. *)
AnswerInv ==
  /\ q \in Question /\ WellAsked
  /\ by \in {"nobody", "apply", "explain"}
  /\ by # "nobody" => rules \in Resolutions
  /\ by = "apply" => out = ApplyDecides(rules, q.raw)
  /\ by = "explain" => out = ExplainTells(rules)

LEMMA AnswerInit == DecisionInit => AnswerInv
<1> SUFFICES ASSUME DecisionInit PROVE AnswerInv OBVIOUS
<1>1. q \in Question BY DEF DecisionInit
<1>2. WellAsked BY <1>1, QuestionAssumption DEF WellAsked
<1> QED BY <1>1, <1>2 DEF DecisionInit, AnswerInv

LEMMA AnswerNext == AnswerInv /\ [DecisionNext]_decisionVars => AnswerInv'
<1> SUFFICES ASSUME AnswerInv, [DecisionNext]_decisionVars PROVE AnswerInv' OBVIOUS
<1>1. UNCHANGED q BY DEF DecisionNext, Apply, Explain, decisionVars
<1>2. WellAsked' BY <1>1 DEF AnswerInv, WellAsked
<1>3. Resolutions' = Resolutions BY <1>1 DEF Resolutions
<1>4. CASE Apply
  <2>1. ApplyDecides(rules, q.raw)' = ApplyDecides(rules', q.raw)
    BY <1>1 DEF ApplyDecides, Asked, Errs, Authorized, ForApply, Gathered, Judge
  <2> QED BY <1>1, <1>2, <1>3, <1>4, <2>1 DEF Apply, AnswerInv
<1>5. CASE Explain
  <2>1. ExplainTells(rules)' = ExplainTells(rules')
    BY <1>1 DEF ExplainTells, ForExplain, Gathered, Judge
  <2> QED BY <1>1, <1>2, <1>3, <1>5, <2>1 DEF Explain, AnswerInv
<1>6. CASE UNCHANGED decisionVars
  <2>1. /\ ApplyDecides(rules, q.raw)' = ApplyDecides(rules, q.raw)
        /\ ExplainTells(rules)' = ExplainTells(rules)
    BY <1>6 DEF decisionVars, ApplyDecides, Asked, Errs, Authorized, ForApply, Gathered, Judge,
                ExplainTells, ForExplain
  <2> QED BY <1>2, <1>3, <1>6, <2>1 DEF decisionVars, AnswerInv
<1> QED BY <1>4, <1>5, <1>6 DEF DecisionNext

-----------------------------------------------------------------------------
(* The gates. *)

Gate == {"fork", "draft", "up_to_date", "checks", "preview_ok", "preview_fresh", "approvals",
         "lock", "freeze", "policy"}

LEMMA AllGates ==
  /\ N = 10
  /\ \A i \in 1..N : GateOrder[i] \in Gate
  /\ \A g \in Gate : \E i \in 1..N : GateOrder[i] = g
<1>1. N = 10 BY DEF N, GateOrder
<1>2. \A i \in 1..10 : i \in {1, 2, 3, 4, 5, 6, 7, 8, 9, 10} OBVIOUS
<1>3. \A i \in 1..N : GateOrder[i] \in Gate BY <1>1, <1>2 DEF GateOrder, Gate
<1>4. /\ GateOrder[1] = "fork" /\ GateOrder[2] = "draft" /\ GateOrder[3] = "up_to_date"
      /\ GateOrder[4] = "checks" /\ GateOrder[5] = "preview_ok"
      /\ GateOrder[6] = "preview_fresh" /\ GateOrder[7] = "approvals" /\ GateOrder[8] = "lock"
      /\ GateOrder[9] = "freeze" /\ GateOrder[10] = "policy"
  BY DEF GateOrder
<1>5. \A g \in Gate : \E i \in 1..10 : GateOrder[i] = g BY <1>4 DEF Gate
<1> QED BY <1>1, <1>3, <1>5

(* A set of natural numbers that is not empty has a least element. *)
LEMMA LeastOf ==
  ASSUME NEW S \in SUBSET Nat, S # {}
  PROVE  \E i \in S : \A j \in S : i <= j
<1>1. IsWellFoundedOn(OpToRel(<, Nat), Nat) BY NatLessThanWellFounded
<1>2. PICK i \in S : \A j \in S : ~(<<j, i>> \in OpToRel(<, Nat)) BY <1>1, WFMin
<1>3. \A j \in S : ~(j < i) BY <1>2 DEF OpToRel
<1> QED BY <1>3

LEMMA Open ==
  ASSUME NEW cfg, NEW in
  PROVE  Failing(cfg, in) = {} <=> \A g \in Gate : EvalGate(g, cfg, in) # "fail"
BY AllGates DEF Failing

LEMMA Unblocked ==
  ASSUME NEW cfg, NEW in
  PROVE  /\ ~Evaluate(cfg, in).blocked <=> Failing(cfg, in) = {}
         /\ ~EvaluateAll(cfg, in).blocked <=> Failing(cfg, in) = {}
         /\ Failing(cfg, in) = {} => Evaluate(cfg, in) = Trace(N, cfg, in)
<1>1. ~Trace(N, cfg, in).blocked <=> Failing(cfg, in) = {} BY DEF Trace, Failing
<1>2. CASE Failing(cfg, in) = {} BY <1>1, <1>2 DEF Evaluate, EvaluateAll
<1>3. CASE Failing(cfg, in) # {}
  <2>1. Failing(cfg, in) \in SUBSET Nat BY AllGates DEF Failing
  <2>2. \E i \in Failing(cfg, in) : \A j \in Failing(cfg, in) : i <= j BY <2>1, <1>3, LeastOf
  <2> PICK n : n = FirstFailing(cfg, in) OBVIOUS
  <2>3. n \in Failing(cfg, in) BY <2>2 DEF FirstFailing
  <2>4. n \in 1..n /\ EvalGate(GateOrder[n], cfg, in) = "fail" BY <2>3, AllGates DEF Failing
  <2>5. Trace(n, cfg, in).blocked BY <2>4 DEF Trace
  <2>6. Evaluate(cfg, in) = Trace(n, cfg, in) BY <1>3 DEF Evaluate
  <2> QED BY <1>1, <1>3, <2>5, <2>6 DEF EvaluateAll
<1> QED BY <1>2, <1>3

Input == {"fork", "forkOptIn", "draft", "behind", "checks", "found", "age", "succeeded",
          "approved", "acquired", "frozen", "policy", "breakGlass", "overrideFreeze",
          "unavailable"}

(* What apply puts before the gates. *)
Given(r, raw) ==
  [Gathered(r, raw, ForApply(r), Asked.ok) EXCEPT !.breakGlass = q.emergency,
                                                  !.overrideFreeze = q.bg.overrideFreeze]

Hooked == RunPolicyForStack(q.hooks, q.written)

LEMMA GivenFields ==
  ASSUME WellAsked, NEW r, NEW raw
  PROVE  /\ DOMAIN Given(r, raw) = Input
         /\ \A f \in {"fork", "forkOptIn", "draft", "behind", "checks", "found", "age",
                      "succeeded", "policy", "unavailable"} :
              Given(r, raw)[f] = q.in[f]
         /\ Given(r, raw).acquired = Asked.ok
         /\ Given(r, raw).approved = Judge(r, raw, ForApply(r))
         /\ Given(r, raw).frozen = (ActiveFor(q.windows, Now) # "none")
         /\ Given(r, raw).breakGlass = q.emergency
         /\ Given(r, raw).overrideFreeze = q.bg.overrideFreeze
BY DEF WellAsked, Given, Gathered, Inputs, Input

(* Only the gate of the hooks looks at what they said. *)
LEMMA PolicyAlone ==
  ASSUME NEW cfg, NEW in, NEW x, \A f \in Input \ {"policy"} : x[f] = in[f],
         NEW g \in Gate, g # "policy"
  PROVE  /\ EvalGate(g, cfg, x) = EvalGate(g, cfg, in)
         /\ Overridden(g, cfg, x) <=> Overridden(g, cfg, in)
<1>1. /\ x.fork = in.fork /\ x.forkOptIn = in.forkOptIn /\ x.draft = in.draft
      /\ x.behind = in.behind /\ x.checks = in.checks /\ x.found = in.found
      /\ x.age = in.age /\ x.succeeded = in.succeeded /\ x.approved = in.approved
      /\ x.acquired = in.acquired /\ x.frozen = in.frozen
      /\ x.breakGlass = in.breakGlass /\ x.overrideFreeze = in.overrideFreeze
      /\ x.unavailable = in.unavailable
  BY DEF Input
<1>2. UpToDateGate(cfg, x) = UpToDateGate(cfg, in) BY <1>1 DEF UpToDateGate
<1>3. FreshGate(cfg, x) = FreshGate(cfg, in) BY <1>1 DEF FreshGate
<1>4. EvalGateBase(g, cfg, x) = EvalGateBase(g, cfg, in)
  BY <1>1, <1>2, <1>3 DEF EvalGateBase, Gate
<1>5. Overridable(g, x) <=> Overridable(g, in) BY <1>1 DEF Overridable
<1> QED BY <1>4, <1>5 DEF EvalGate, Overridden

LEMMA PolicyGate ==
  ASSUME NEW cfg, NEW in
  PROVE  /\ ~Overridden("policy", cfg, in)
         /\ EvalGate("policy", cfg, in) = "fail" <=> in.policy \notin {"none", "passed"}
<1>1. ~Overridden("policy", cfg, in) BY DEF Overridden, Overridable
<1>2. EvalGateBase("policy", cfg, in) =
        IF in.policy = "none" THEN "skipped" ELSE FailUnless(in.policy = "passed")
  BY DEF EvalGateBase
<1> QED BY <1>1, <1>2 DEF EvalGate, FailUnless

(* A stack passes iff the apply does not err, every gate is open and the     *)
(* hooks, if there are any, had a plan and were content with it.             *)
LEMMA Passes ==
  ASSUME WellAsked, NEW r, NEW raw
  PROVE  /\ ~ApplyDecides(r, raw).blocked <=>
              /\ ~Errs(r) /\ Asked.err = "none"
              /\ Failing(q.cfg, Given(r, raw)) = {}
              /\ q.hooks # {} => q.in.found /\ Hooked = "passed"
         /\ ~ApplyDecides(r, raw).blocked =>
              ApplyDecides(r, raw).overridden =
                {GateOrder[i] : i \in {j \in 1..N : Overridden(GateOrder[j], q.cfg, Given(r, raw))}}
<1> PICK in : in = Given(r, raw) OBVIOUS
<1>1. "policy" \in DOMAIN in /\ in.policy = "none" BY GivenFields DEF WellAsked, Input
<1>2. [in EXCEPT !.policy = "none"] = in
  <2>1. in = [f \in DOMAIN in |-> in[f]] BY DEF WellAsked, Given, Gathered, Inputs
  <2> QED BY <1>1, <2>1
<1>3. Hooked \in {"none", "passed", "failed"} /\ (Hooked = "none" <=> q.hooks = {})
  BY DEF Hooked, RunPolicyForStack
<1>4. CASE Errs(r) \/ Asked.err # "none"
  <2>1. ApplyDecides(r, raw) = Refused BY <1>4 DEF ApplyDecides
  <2> QED BY <1>4, <2>1 DEF Refused
<1>5. CASE ~Errs(r) /\ Asked.err = "none"
  <2>1. ApplyDecides(r, raw) = Decide(q.cfg, in, Hooked, q.in.found)
    BY <1>5 DEF ApplyDecides, Given, Hooked
  <2> PICK first : first = Evaluate(q.cfg, in) OBVIOUS
  <2> PICK said : said = IF q.in.found THEN Hooked ELSE "failed" OBVIOUS
  <2> PICK x : x = [in EXCEPT !.policy = said] OBVIOUS
  <2>2. Decide(q.cfg, in, Hooked, q.in.found) =
          IF first.blocked \/ Hooked = "none" THEN first ELSE Evaluate(q.cfg, x)
    BY <1>2 DEF Decide
  <2>3. ~first.blocked <=> Failing(q.cfg, in) = {} BY Unblocked
  <2>4. CASE first.blocked BY <1>5, <2>1, <2>2, <2>3, <2>4
  <2>5. CASE ~first.blocked /\ Hooked = "none"
    <3>1. ApplyDecides(r, raw) = Trace(N, q.cfg, in) BY <2>1, <2>2, <2>3, <2>5, Unblocked
    <3>2. ~ApplyDecides(r, raw).blocked BY <2>1, <2>2, <2>5
    <3> QED BY <1>3, <1>5, <2>3, <2>5, <3>1, <3>2 DEF Trace
  <2>6. CASE ~first.blocked /\ Hooked # "none"
    <3>1. ApplyDecides(r, raw) = Evaluate(q.cfg, x) BY <2>1, <2>2, <2>6
    <3>2. x.policy = said BY <1>1
    <3>3. \A g \in Gate \ {"policy"} :
            /\ EvalGate(g, q.cfg, x) = EvalGate(g, q.cfg, in)
            /\ Overridden(g, q.cfg, x) <=> Overridden(g, q.cfg, in)
      <4>1. \A f \in Input \ {"policy"} : x[f] = in[f] BY GivenFields
      <4> QED BY <4>1, PolicyAlone
    <3>4. \A g \in Gate : Overridden(g, q.cfg, x) <=> Overridden(g, q.cfg, in)
      BY <3>3, PolicyGate
    <3>5. \A g \in Gate : EvalGate(g, q.cfg, in) # "fail" BY <2>3, <2>6, Open
    <3>6. Failing(q.cfg, x) = {} <=> EvalGate("policy", q.cfg, x) # "fail"
      BY <3>3, <3>5, Open DEF Gate
    <3>7. Failing(q.cfg, x) = {} <=> said = "passed"
      <4>1. said \in {"passed", "failed"} BY <1>3, <2>6
      <4>2. EvalGate("policy", q.cfg, x) = "fail" <=> said \notin {"none", "passed"}
        BY <3>2, PolicyGate
      <4> QED BY <3>6, <4>1, <4>2
    <3>8. ~ApplyDecides(r, raw).blocked <=> said = "passed" BY <3>1, <3>7, Unblocked
    <3>9. ASSUME ~ApplyDecides(r, raw).blocked
          PROVE  ApplyDecides(r, raw).overridden =
                   {GateOrder[i] : i \in {j \in 1..N : Overridden(GateOrder[j], q.cfg, in)}}
      <4>1. ApplyDecides(r, raw) = Trace(N, q.cfg, x) BY <3>1, <3>7, <3>8, <3>9, Unblocked
      <4>2. ApplyDecides(r, raw).overridden =
              {GateOrder[i] : i \in {j \in 1..N : Overridden(GateOrder[j], q.cfg, x)}}
        BY <4>1 DEF Trace
      <4>3. {j \in 1..N : Overridden(GateOrder[j], q.cfg, x)}
              = {j \in 1..N : Overridden(GateOrder[j], q.cfg, in)}
        BY <3>4, AllGates
      <4> QED BY <4>2, <4>3
    <3> QED BY <1>3, <1>5, <2>3, <2>6, <3>8, <3>9
  <2> QED BY <2>4, <2>5, <2>6
<1> QED BY <1>4, <1>5


(* What open gates tell of the inputs. *)
LEMMA OpenGates ==
  ASSUME WellAsked, NEW r, NEW raw, Failing(q.cfg, Given(r, raw)) = {}
  PROVE  /\ Asked.ok /\ ~q.in.draft /\ (q.in.fork => q.in.forkOptIn)
         /\ q.cfg.requireChecks => q.in.checks
         /\ q.cfg.requireUpToDate => q.in.behind <= q.cfg.maxBehind
         /\ ~q.emergency => /\ q.in.succeeded
                            /\ q.cfg.freshness > 0 => q.in.age <= q.cfg.freshness
                            /\ Judge(r, raw, ForApply(r))
         /\ ActiveFor(q.windows, Now) # "none" => q.emergency /\ q.bg.overrideFreeze
<1> PICK in : in = Given(r, raw) OBVIOUS
<1> PICK cfg : cfg = q.cfg OBVIOUS
<1>0. /\ \A f \in {"fork", "forkOptIn", "draft", "behind", "checks", "found", "age",
                   "succeeded", "policy", "unavailable"} : in[f] = q.in[f]
      /\ in.acquired = Asked.ok
      /\ in.approved = Judge(r, raw, ForApply(r))
      /\ in.frozen = (ActiveFor(q.windows, Now) # "none")
      /\ in.breakGlass = q.emergency
      /\ in.overrideFreeze = q.bg.overrideFreeze
  BY GivenFields
<1>1. \A g \in Gate : EvalGate(g, cfg, in) # "fail" BY Open
<1>2. \A g \in Gate : EvalGateBase(g, cfg, in) = "fail" => Overridable(g, in)
  BY <1>1 DEF EvalGate, Overridden
<1>3. Asked.ok
  <2>1. EvalGateBase("lock", cfg, in) = FailUnless(in.acquired) BY DEF EvalGateBase
  <2> QED BY <1>0, <1>2, <2>1 DEF Gate, Overridable, FailUnless
<1>4. ~q.in.draft
  <2>1. EvalGateBase("draft", cfg, in) = IF in.draft THEN "fail" ELSE "skipped"
    BY DEF EvalGateBase
  <2> QED BY <1>0, <1>2, <2>1 DEF Gate, Overridable
<1>5. q.in.fork => q.in.forkOptIn
  <2>1. EvalGateBase("fork", cfg, in) = IF in.fork THEN FailUnless(in.forkOptIn) ELSE "skipped"
    BY DEF EvalGateBase
  <2> QED BY <1>0, <1>2, <2>1 DEF Gate, Overridable, FailUnless
<1>6. q.cfg.requireChecks => q.in.checks
  <2>1. EvalGateBase("checks", cfg, in)
          = IF cfg.requireChecks THEN FailUnless(in.checks) ELSE "skipped"
    BY DEF EvalGateBase
  <2> QED BY <1>0, <1>2, <2>1 DEF Gate, Overridable, FailUnless
<1>7. q.cfg.requireUpToDate => q.in.behind <= q.cfg.maxBehind
  <2>1. EvalGateBase("up_to_date", cfg, in) = UpToDateGate(cfg, in) BY DEF EvalGateBase
  <2>2. UpToDateGate(cfg, in) # "fail" BY <1>2, <2>1 DEF Gate, Overridable
  <2>3. in.behind = q.in.behind BY <1>0
  <2>4. q.cfg.maxBehind \in Nat BY DEF WellAsked, Config
  <2> QED BY <2>2, <2>3, <2>4 DEF UpToDateGate
<1>8. ASSUME ~q.emergency
      PROVE  /\ q.in.succeeded
             /\ q.cfg.freshness > 0 => q.in.age <= q.cfg.freshness
             /\ Judge(r, raw, ForApply(r))
  <2>1. \A g \in Gate : EvalGateBase(g, cfg, in) # "fail" BY <1>0, <1>2, <1>8 DEF Overridable
  <2>2. /\ EvalGateBase("preview_ok", cfg, in) = FailUnless(in.succeeded)
        /\ EvalGateBase("preview_fresh", cfg, in) = FreshGate(cfg, in)
        /\ EvalGateBase("approvals", cfg, in) = FailUnless(in.approved)
    BY DEF EvalGateBase
  <2>3. in.succeeded /\ in.approved BY <2>1, <2>2 DEF Gate, FailUnless
  <2>4. FreshGate(cfg, in) # "fail" BY <2>1, <2>2 DEF Gate
  <2>5. cfg.freshness > 0 => in.age <= cfg.freshness
    BY <2>4 DEF FreshGate, FailUnless, WellAsked, Config
  <2> QED BY <1>0, <2>3, <2>5
<1>9. ASSUME ActiveFor(q.windows, Now) # "none" PROVE q.emergency /\ q.bg.overrideFreeze
  <2>1. EvalGateBase("freeze", cfg, in) = FailUnless(~in.frozen) BY DEF EvalGateBase
  <2>2. EvalGateBase("freeze", cfg, in) = "fail" BY <1>0, <1>9, <2>1 DEF FailUnless
  <2>3. Overridable("freeze", in) BY <1>2, <2>2 DEF Gate
  <2> QED BY <1>0, <2>3 DEF Overridable
<1> QED BY <1>3, <1>4, <1>5, <1>6, <1>7, <1>8, <1>9

(* A hook lets a stack pass only if it was content with the plan, unless it  *)
(* is empty, warns only, or is optional and missing.                         *)
LEMMA HooksContent ==
  ASSUME WellAsked, Hooked = "passed", NEW h \in q.hooks,
         h.command, h.onFail # "warn", h.required # "no" \/ h.present
  PROVE  h.present /\ h.prepared /\ h.exit = "zero"
<1>1. RunHook(h) # "fail" BY DEF Hooked, RunPolicyForStack
<1>2. ~Skipped(h) /\ Blocking(h) BY DEF Skipped, IsRequired, Blocking
<1>3. Ran(h) BY <1>1, <1>2 DEF RunHook
<1> QED BY <1>3 DEF Ran

LEMMA Through ==
  ASSUME AnswerInv, Let
  PROVE  /\ WellAsked /\ rules \in Resolutions /\ out = ApplyDecides(rules, q.raw)
         /\ ~Errs(rules)
         /\ Failing(q.cfg, Given(rules, q.raw)) = {}
         /\ q.hooks # {} => q.in.found /\ Hooked = "passed"
BY Passes DEF AnswerInv, Let

(* A run that is told it has the lock is its active holder then. *)
LEMMA AskedHolds ==
  ASSUME WellAsked, Asked.ok
  PROVE  LET l == Asked.lock
         IN  /\ Held(l) /\ ~l.holder.promoted
             /\ l.holder.pr = q.self.pr /\ l.holder.run = q.self.run
<1>1. /\ Asked.lock = TryAcquire(q.lock, q.self, TTL, Now).lock
      /\ Asked.ok = TryAcquire(q.lock, q.self, TTL, Now).ok
  BY DEF Asked, AcquireOp, Outcome
<1>2. q.self.pr \in PR /\ q.self.run \in Run BY DEF WellAsked, Applicant
<1>3. AcquiredBy(Asked.lock, q.self, Now)
  BY <1>1, <1>2, AcquireHolder, NowAssumption DEF WellAsked
<1> QED BY <1>3 DEF AcquiredBy, Active

LEMMA BindingHolds == AnswerInv => BindingGates
<1> SUFFICES ASSUME AnswerInv, Let
             PROVE  /\ LET l == Asked.lock
                       IN  /\ Held(l) /\ ~l.holder.promoted
                           /\ l.holder.pr = q.self.pr /\ l.holder.run = q.self.run
                    /\ ~q.in.draft /\ (q.in.fork => q.in.forkOptIn)
                    /\ q.cfg.requireChecks => q.in.checks
                    /\ q.cfg.requireUpToDate => q.in.behind \in 0..q.cfg.maxBehind
                    /\ q.hooks # {} => q.in.found /\ q.written
                    /\ \A h \in q.hooks :
                         h.command /\ h.onFail # "warn" /\ (h.required # "no" \/ h.present)
                           => h.present /\ h.prepared /\ h.exit = "zero"
                    /\ ~q.emergency => /\ q.in.succeeded
                                       /\ q.cfg.freshness > 0 => q.in.age <= q.cfg.freshness
  BY DEF BindingGates
<1>1. WellAsked /\ ~Errs(rules) /\ Failing(q.cfg, Given(rules, q.raw)) = {} BY Through
<1>2. q.hooks # {} => q.in.found /\ Hooked = "passed" BY Through
<1>3. q.in.behind >= 0 /\ q.in.behind \in Int BY <1>1 DEF Errs, WellAsked, Inputs
<1>4. q.cfg.maxBehind \in Nat BY <1>1 DEF WellAsked, Config
<1>5. q.hooks # {} => q.written BY <1>2 DEF Hooked, RunPolicyForStack
<1>6. \A h \in q.hooks :
        h.command /\ h.onFail # "warn" /\ (h.required # "no" \/ h.present)
          => h.present /\ h.prepared /\ h.exit = "zero"
  BY <1>1, <1>2, HooksContent
<1>7. q.cfg.requireUpToDate => q.in.behind <= q.cfg.maxBehind BY <1>1, OpenGates
<1>8. q.cfg.requireUpToDate => q.in.behind \in 0..q.cfg.maxBehind BY <1>3, <1>4, <1>7
<1>9. LET l == Asked.lock
      IN  /\ Held(l) /\ ~l.holder.promoted
          /\ l.holder.pr = q.self.pr /\ l.holder.run = q.self.run
  BY <1>1, OpenGates, AskedHolds
<1> QED BY <1>1, <1>2, <1>5, <1>6, <1>8, <1>9, OpenGates


-----------------------------------------------------------------------------
(* Freeze windows. *)

ScanStart(window, at) == [cur |-> ScanFrom(window, at), last |-> NoFire]

ScanStep(fires, at, s) ==
  LET next == NextFire(fires, s.cur)
  IN  IF next = NoFire \/ next > at THEN s ELSE [cur |-> next, last |-> next]

(* f scans n fires. *)
IsScan(f, n, fires, window, at) ==
  f = [i \in 0..n |-> IF i = 0 THEN ScanStart(window, at) ELSE ScanStep(fires, at, f[i - 1])]

LEMMA ScanExists ==
  ASSUME NEW fires, NEW window, NEW at, NEW n \in Nat
  PROVE  \E f : IsScan(f, n, fires, window, at)
<1> DEFINE Bad == {m \in Nat : ~\E f : IsScan(f, m, fires, window, at)}
<1> SUFFICES ASSUME Bad # {} PROVE FALSE OBVIOUS
<1>1. PICK m \in Bad : \A j \in Bad : m <= j
  <2>1. Bad \in SUBSET Nat OBVIOUS
  <2> HIDE DEF Bad
  <2> QED BY <2>1, LeastOf
<1>2. m # 0
  <2> PICK f : f = [i \in 0..0 |-> ScanStart(window, at)] OBVIOUS
  <2>1. IsScan(f, 0, fires, window, at) BY DEF IsScan
  <2> QED BY <2>1
<1>3. m - 1 \in Nat /\ m - 1 \notin Bad BY <1>1, <1>2
<1>4. PICK g : IsScan(g, m - 1, fires, window, at) BY <1>3
<1> PICK f : f = [i \in 0..m |-> IF i = m THEN ScanStep(fires, at, g[m - 1]) ELSE g[i]] OBVIOUS
<1>5. \A i \in 0..(m - 1) :
        g[i] = IF i = 0 THEN ScanStart(window, at) ELSE ScanStep(fires, at, g[i - 1])
  BY <1>4 DEF IsScan
<1>6. ASSUME NEW i \in 0..m
      PROVE  f[i] = IF i = 0 THEN ScanStart(window, at) ELSE ScanStep(fires, at, f[i - 1])
  <2>1. CASE i = m
    <3>1. f[i] = ScanStep(fires, at, g[m - 1]) BY <2>1
    <3>2. m - 1 \in 0..m /\ m - 1 # m BY <1>3
    <3>3. f[m - 1] = g[m - 1] BY <3>2
    <3> QED BY <1>2, <2>1, <3>1, <3>3
  <2>2. CASE i # m
    <3>1. i \in 0..(m - 1) /\ f[i] = g[i] BY <2>2
    <3>2. CASE i = 0 BY <1>5, <3>1, <3>2
    <3>3. CASE i # 0
      <4>1. i - 1 \in 0..m /\ i - 1 # m BY <3>1, <3>3
      <4>2. f[i - 1] = g[i - 1] BY <4>1
      <4> QED BY <1>5, <3>1, <3>3, <4>2
    <3> QED BY <3>2, <3>3
  <2> QED BY <2>1, <2>2
<1>7. IsScan(f, m, fires, window, at) BY <1>6 DEF IsScan
<1> QED BY <1>7

LEMMA ScanIs ==
  ASSUME NEW fires, NEW window, NEW at
  PROVE  IsScan(Scan(fires, window, at), MaxFireScan, fires, window, at)
<1>1. \E f : IsScan(f, MaxFireScan, fires, window, at) BY MaxFireScanAssumption, ScanExists
<1> QED BY <1>1, Zenon DEF IsScan, Scan, ScanStart, ScanStep

LEMMA NextFireIs ==
  ASSUME NEW fires \in SUBSET Nat, NEW t \in Int
  PROVE  IF \E f \in fires : f > t
         THEN /\ NextFire(fires, t) \in fires /\ NextFire(fires, t) > t
              /\ \A g \in fires : g > t => NextFire(fires, t) <= g
         ELSE NextFire(fires, t) = NoFire
<1>1. CASE \E f \in fires : f > t
  <2> PICK S : S = {f \in fires : f > t} OBVIOUS
  <2>1. S \in SUBSET Nat /\ S # {} BY <1>1
  <2>2. \E f \in S : \A g \in S : f <= g BY <2>1, LeastOf
  <2>3. \E f \in fires : f > t /\ \A g \in fires : g > t => f <= g BY <2>2
  <2>4. NextFire(fires, t) = CHOOSE f \in fires : f > t /\ \A g \in fires : g > t => f <= g
    BY <1>1 DEF NextFire
  <2> QED BY <1>1, <2>3, <2>4
<1>2. CASE ~\E f \in fires : f > t BY <1>2 DEF NextFire
<1> QED BY <1>1, <1>2

(* However many fires it looks at, the scan ends with one of the fires of    *)
(* the window, if there is one.                                              *)
LEMMA ScanEnds ==
  ASSUME NEW fires \in SUBSET Nat, NEW window \in Nat \ {0}, NEW at \in Nat
  PROVE  LET last == MostRecentFire(fires, window, at)
         IN  IF \E f \in fires : f <= at /\ at < f + window
             THEN last \in fires /\ last <= at /\ at < last + window
             ELSE last = NoFire
<1> PICK s : s = Scan(fires, window, at) OBVIOUS
<1> PICK live : live = {f \in fires : f <= at /\ at < f + window} OBVIOUS
<1>1. \A i \in 0..MaxFireScan :
        s[i] = IF i = 0 THEN ScanStart(window, at) ELSE ScanStep(fires, at, s[i - 1])
  <2>1. IsScan(s, MaxFireScan, fires, window, at) BY ScanIs
  <2> QED BY <2>1 DEF IsScan
<1>2. MaxFireScan \in Nat \ {0} BY MaxFireScanAssumption
<1> DEFINE Good(i) == \/ /\ s[i].last = NoFire /\ s[i].cur = at - window
                         /\ i > 0 => live = {}
                      \/ s[i].last \in live /\ s[i].cur = s[i].last
<1> DEFINE Bad == {i \in 0..MaxFireScan : ~Good(i)}
<1>3. Bad = {}
  <2> SUFFICES ASSUME Bad # {} PROVE FALSE OBVIOUS
  <2>1. PICK m \in Bad : \A j \in Bad : m <= j
    <3>1. Bad \in SUBSET Nat BY <1>2
    <3> HIDE DEF Bad
    <3> QED BY <3>1, LeastOf
  <2>2. m # 0
    <3>1. s[0] = ScanStart(window, at) BY <1>1, <1>2
    <3>2. Good(0) BY <3>1 DEF ScanStart, ScanFrom
    <3> QED BY <2>1, <3>2
  <2>3. m - 1 \in 0..MaxFireScan /\ m \in 0..MaxFireScan /\ m > 0 BY <1>2, <2>1, <2>2
  <2>4. Good(m - 1) BY <2>1, <2>3
  <2>5. s[m] = ScanStep(fires, at, s[m - 1]) BY <1>1, <2>3
  <2> PICK cur : cur = s[m - 1].cur OBVIOUS
  <2> PICK next : next = NextFire(fires, cur) OBVIOUS
  <2>6. cur \in Int /\ cur >= at - window
    <3>1. CASE s[m - 1].last \in live /\ s[m - 1].cur = s[m - 1].last
      <4>1. cur \in live BY <3>1
      <4>2. cur \in Nat /\ at < cur + window BY <4>1
      <4> QED BY <4>2
    <3>2. CASE s[m - 1].cur = at - window BY <3>2
    <3> QED BY <2>4, <3>1, <3>2
  <2>7. IF \E f \in fires : f > cur
        THEN next \in fires /\ next > cur /\ \A g \in fires : g > cur => next <= g
        ELSE next = NoFire
    BY <2>6, NextFireIs
  <2>8. CASE next = NoFire \/ next > at
    <3>1. s[m] = s[m - 1] BY <2>5, <2>8 DEF ScanStep
    <3>2. CASE s[m - 1].last \in live /\ s[m - 1].cur = s[m - 1].last BY <2>1, <3>1, <3>2
    <3>3. CASE s[m - 1].last = NoFire /\ s[m - 1].cur = at - window
      <4>1. live = {}
        <5> SUFFICES ASSUME NEW f \in live PROVE FALSE OBVIOUS
        <5>1. f \in fires /\ f \in Nat /\ f > cur /\ f <= at BY <3>3
        <5>2. next \in fires /\ next \in Nat /\ next <= f BY <2>7, <5>1
        <5>3. next # NoFire BY <5>2 DEF NoFire
        <5> QED BY <2>8, <5>1, <5>2, <5>3
      <4>2. Good(m) BY <3>1, <3>3, <4>1
      <4> QED BY <2>1, <4>2
    <3> QED BY <2>4, <3>2, <3>3
  <2>9. CASE ~(next = NoFire \/ next > at)
    <3>1. s[m] = [cur |-> next, last |-> next] BY <2>5, <2>9 DEF ScanStep
    <3>2. next \in fires /\ next > cur /\ next \in Nat BY <2>7, <2>9
    <3>3. next \in live BY <2>6, <2>9, <3>2
    <3> QED BY <2>1, <3>1, <3>3
  <2> QED BY <2>8, <2>9
<1>4. Good(MaxFireScan) BY <1>2, <1>3
<1>5. MostRecentFire(fires, window, at) = s[MaxFireScan].last BY DEF MostRecentFire
<1>6. CASE live = {}
  <2>1. s[MaxFireScan].last = NoFire BY <1>4, <1>6
  <2> QED BY <1>5, <1>6, <2>1
<1>7. CASE live # {}
  <2>1. s[MaxFireScan].last \in live BY <1>2, <1>4, <1>7
  <2> QED BY <1>5, <1>7, <2>1
<1> QED BY <1>6, <1>7


LEMMA ActiveExactly ==
  ASSUME NEW w \in Window, NEW at \in Nat
  PROVE  WindowActive(w, at) <=> \E f \in w.fires : f <= at /\ at < f + w.duration
<1> PICK last : last = MostRecentFire(w.fires, w.duration, at) OBVIOUS
<1>1. w.fires \in SUBSET Nat /\ w.duration \in Int BY DEF Window
<1>2. CASE w.duration > 0
  <2>1. w.duration \in Nat \ {0} BY <1>1, <1>2
  <2>2. IF \E f \in w.fires : f <= at /\ at < f + w.duration
        THEN last \in w.fires /\ last <= at /\ at < last + w.duration
        ELSE last = NoFire
    BY <1>1, <2>1, ScanEnds
  <2>3. last \in w.fires => last # NoFire BY <1>1 DEF NoFire
  <2> QED BY <2>2, <2>3 DEF WindowActive
<1>3. CASE ~(w.duration > 0)
  <2>1. last = NoFire BY <1>1, <1>3 DEF MostRecentFire
  <2>2. \A f \in w.fires : ~(f <= at /\ at < f + w.duration) BY <1>1, <1>3
  <2> QED BY <2>1, <2>2 DEF WindowActive
<1> QED BY <1>2, <1>3

(* The windows freeze a stack exactly while one of them is open. *)
LEMMA FrozenExactly ==
  ASSUME WellAsked
  PROVE  ActiveFor(q.windows, Now) # "none" <=> Frozen
<1> PICK ws : ws = q.windows OBVIOUS
<1>1. \A i \in DOMAIN ws : ws[i] \in Window BY DEF WellAsked
<1>2. \A i \in DOMAIN ws :
        Stops(ws[i], Now) <=>
          /\ ws[i].matches
          /\ ~ws[i].parses \/ \E f \in ws[i].fires : f <= Now /\ Now < f + ws[i].duration
  BY <1>1, NowAssumption, ActiveExactly DEF Stops
<1>3. Frozen <=> \E i \in DOMAIN ws : Stops(ws[i], Now) BY <1>2 DEF Frozen
<1>4. ActiveFor(ws, Now) # "none" <=> \E i \in DOMAIN ws : Stops(ws[i], Now) BY DEF ActiveFor
<1> QED BY <1>3, <1>4

LEMMA FreezeKept == AnswerInv => FreezeHolds
<1> SUFFICES ASSUME AnswerInv PROVE FreezeHolds OBVIOUS
<1>1. ASSUME Let, Frozen PROVE q.emergency /\ q.bg.overrideFreeze
  BY <1>1, Through, FrozenExactly, OpenGates
<1>2. ASSUME by = "explain", out.gates[9] = "fail" PROVE Frozen
  <2> PICK in : in = [Gathered(rules, q.raw, ForExplain(rules), Readable(q.lock, q.self.pr)) EXCEPT
                      !.unavailable = FALSE]
    OBVIOUS
  <2>1. out = Trace(N, q.cfg, in) BY <1>2 DEF AnswerInv, ExplainTells, EvaluateAll
  <2>2. out.gates[9] = EvalGate(GateOrder[9], q.cfg, in) BY <2>1, AllGates DEF Trace
  <2>3. GateOrder[9] = "freeze" BY DEF GateOrder
  <2>4. EvalGateBase("freeze", q.cfg, in) = "fail" BY <1>2, <2>2, <2>3 DEF EvalGate
  <2>5. EvalGateBase("freeze", q.cfg, in) = FailUnless(~in.frozen) BY DEF EvalGateBase
  <2>6. in.frozen = (ActiveFor(q.windows, Now) # "none")
    BY DEF AnswerInv, WellAsked, Inputs, Gathered
  <2>7. WellAsked BY DEF AnswerInv
  <2> QED BY <2>4, <2>5, <2>6, <2>7, FrozenExactly DEF FailUnless
<1> QED BY <1>1, <1>2 DEF FreezeHolds

-----------------------------------------------------------------------------
(* Emergencies. *)

LEMMA Vouched == AnswerInv => EmergencyIsVouched
<1> SUFFICES ASSUME AnswerInv, Let, q.emergency
             PROVE  /\ q.order.flag \/ \E i \in DOMAIN q.order.line : q.order.line[i] = "quoted"
                    /\ q.bg.rejectSelf => ~q.touched
                    /\ \/ q.bg.anyone
                       \/ q.actor \in UNION {IF g \in Team THEN q.live[g] ELSE {g} :
                                               g \in q.bg.list \cup
                                                 IF q.bg.codeowners
                                                 THEN UNION {q.owners[p] : p \in DOMAIN q.owners}
                                                 ELSE {}}
  BY DEF EmergencyIsVouched
<1>1. Justified(q.order) /\ Authorized(rules) BY Through DEF Errs
<1> PICK teams : teams = ForApply(rules) OBVIOUS
<1>2. Granted(Authorize(q.bg, q.actor, q.owners, teams, q.touched)) BY <1>1 DEF Authorized
<1>3. ~(q.bg.rejectSelf /\ q.touched) BY <1>2 DEF Authorize, Granted
<1>4. \/ q.actor \in Eligible(q.bg.list, teams)
      \/ q.bg.codeowners /\ OwnsAny(q.owners, q.actor, teams)
      \/ q.bg.anyone
  BY <1>2 DEF Authorize, Granted
<1>5. \A t \in Team : teams[t] \subseteq q.live[t] BY DEF ForApply, ApplyTeams, ExpandTeams
<1> DEFINE Own == UNION {q.owners[p] : p \in DOMAIN q.owners}
<1> DEFINE All == q.bg.list \cup IF q.bg.codeowners THEN Own ELSE {}
<1> DEFINE Known(g) == IF g \in Team THEN q.live[g] ELSE {g}
<1>6. \A g : Members(g, teams) \subseteq Known(g) BY <1>5 DEF Members
<1>7. ASSUME NEW list, list \subseteq All, q.actor \in Eligible(list, teams)
      PROVE  q.actor \in UNION {Known(g) : g \in All}
  <2>1. PICK g \in list : q.actor \in Members(g, teams) BY <1>7 DEF Eligible
  <2>2. g \in All /\ q.actor \in Known(g) BY <1>6, <1>7, <2>1
  <2> HIDE DEF Known, All
  <2> QED BY <2>2
<1>8. ASSUME q.actor \in Eligible(q.bg.list, teams)
      PROVE  q.actor \in UNION {Known(g) : g \in All}
  BY <1>7, <1>8
<1>9. ASSUME q.bg.codeowners, OwnsAny(q.owners, q.actor, teams)
      PROVE  q.actor \in UNION {Known(g) : g \in All}
  <2>1. PICK p \in DOMAIN q.owners : q.actor \in Eligible(q.owners[p], teams) BY <1>9 DEF OwnsAny
  <2>2. q.owners[p] \subseteq All BY <1>9
  <2> QED BY <1>7, <2>1, <2>2
<1>10. q.order.flag \/ \E i \in DOMAIN q.order.line : q.order.line[i] = "quoted"
  <2> PICK line : line = q.order.line OBVIOUS
  <2>1. line \in Seq(STRING) BY DEF AnswerInv, WellAsked
  <2>2. ASSUME ParseCommand(line) PROVE 3 \in DOMAIN line /\ line[3] = "quoted"
    <3>1. Len(line) \in 4..5 /\ SubSeq(line, 1, 4) = <<"/reeve", "breakglass", "quoted", "apply">>
      BY <2>2 DEF ParseCommand
    <3>2. SubSeq(line, 1, 4)[3] = line[3] BY <2>1, <3>1
    <3>3. <<"/reeve", "breakglass", "quoted", "apply">>[3] = "quoted" OBVIOUS
    <3>4. line[3] = "quoted" BY <3>1, <3>2, <3>3
    <3>5. 3 \in DOMAIN line
      <4>1. DOMAIN line = 1..Len(line) BY <2>1
      <4>2. \A n \in 4..5 : 3 \in 1..n OBVIOUS
      <4>3. 3 \in 1..Len(line) BY <3>1, <4>2
      <4> QED BY <4>1, <4>3
    <3> QED BY <3>4, <3>5
  <2> QED BY <1>1, <2>2 DEF Justified
<1> QED BY <1>3, <1>4, <1>8, <1>9, <1>10


(* The gates themselves do not look at the emergency. *)
Alike(x, in) ==
  \A f \in Input \ {"breakGlass", "overrideFreeze", "unavailable"} : x[f] = in[f]

LEMMA BaseAlike ==
  ASSUME NEW cfg, NEW in, NEW x, NEW g \in Gate, Alike(x, in)
  PROVE  EvalGateBase(g, cfg, x) = EvalGateBase(g, cfg, in)
<1>1. /\ x.fork = in.fork /\ x.forkOptIn = in.forkOptIn /\ x.draft = in.draft
      /\ x.behind = in.behind /\ x.checks = in.checks /\ x.found = in.found
      /\ x.age = in.age /\ x.succeeded = in.succeeded /\ x.approved = in.approved
      /\ x.acquired = in.acquired /\ x.frozen = in.frozen /\ x.policy = in.policy
  BY DEF Input, Alike
<1>2. UpToDateGate(cfg, x) = UpToDateGate(cfg, in) BY <1>1 DEF UpToDateGate
<1>3. FreshGate(cfg, x) = FreshGate(cfg, in) BY <1>1 DEF FreshGate
<1> QED BY <1>1, <1>2, <1>3 DEF EvalGateBase, Gate

LEMMA OverridesKnown == AnswerInv => OverridesExact
<1> SUFFICES ASSUME AnswerInv, Let PROVE OverridesExact BY DEF OverridesExact
<1> PICK cfg : cfg = q.cfg OBVIOUS
<1> PICK in : in = Given(rules, q.raw) OBVIOUS
<1> PICK x : x = [Gathered(rules, q.raw, ForApply(rules), Asked.ok) EXCEPT !.breakGlass = FALSE]
  OBVIOUS
<1>1. /\ WellAsked /\ out = ApplyDecides(rules, q.raw) /\ ~out.blocked
      /\ Failing(cfg, in) = {}
  BY Through DEF Let
<1>2. out.overridden = {GateOrder[i] : i \in {j \in 1..N : Overridden(GateOrder[j], cfg, in)}}
  BY <1>1, Passes
<1>3. x.breakGlass = FALSE /\ Alike(x, in)
  BY <1>1 DEF WellAsked, Given, Gathered, Inputs, Input, Alike
<1>4. \A g \in Gate : EvalGateBase(g, cfg, x) = EvalGateBase(g, cfg, in)
  BY <1>3, BaseAlike
<1>5. \A g \in Gate : EvalGate(g, cfg, x) = "fail" <=> EvalGateBase(g, cfg, in) = "fail"
  BY <1>3, <1>4 DEF EvalGate, Overridden, Overridable
<1>6. \A g \in Gate : EvalGateBase(g, cfg, in) = "fail" <=> Overridden(g, cfg, in)
  BY <1>1, Open DEF EvalGate, Overridden
<1>7. Failing(cfg, x) = {j \in 1..N : Overridden(GateOrder[j], cfg, in)}
  BY <1>5, <1>6, AllGates DEF Failing
<1> QED BY <1>2, <1>7 DEF OverridesExact

-----------------------------------------------------------------------------
(* The approval rules. *)

(* An order of finitely many layers lists every one of them. *)
LEMMA OrdersCover ==
  ASSUME NEW layers, IsFiniteSet(layers), NEW o \in Orders(layers)
  PROVE  /\ Cardinality(layers) \in Nat /\ DOMAIN o = 1..Cardinality(layers)
         /\ \A i \in DOMAIN o : o[i] \in layers
         /\ \A l \in layers : \E i \in DOMAIN o : o[i] = l
<1> PICK n : n = Cardinality(layers) OBVIOUS
<1>1. n \in Nat BY FS_CardinalityType
<1>2. o \in [1..n -> layers] BY DEF Orders
<1>3. \A i, j \in 1..n : i < j => o[i] # o[j] BY DEF Orders
<1>4. \A i, j \in 1..n : o[i] = o[j] => i = j BY <1>1, <1>3
<1>5. o \in Injection(1..n, layers) BY <1>2, <1>4 DEF Injection, IsInjective
<1>6. Cardinality(1..n) = n
  <2>1. 1 \in Int /\ n \in Int BY <1>1
  <2>2. Cardinality(1..n) = IF 1 > n THEN 0 ELSE n - 1 + 1 BY <2>1, FS_Interval
  <2> QED BY <1>1, <2>2
<1>7. o \in Surjection(1..n, layers) BY <1>5, <1>6, FS_Injection
<1>8. \A l \in layers : \E i \in 1..n : o[i] = l BY <1>7 DEF Surjection
<1> QED BY <1>1, <1>2, <1>8

(* The layer that decides a field: one that sets it, and no layer that sets  *)
(* it is more specific.                                                      *)
Decides(l, f, layers) ==
  /\ l \in layers /\ f \in l.present
  /\ \A m \in layers : f \in m.present => Specificity(m) <= Specificity(l)

LEMMA GreatestOf ==
  ASSUME NEW n \in Nat, NEW S \in SUBSET (1..n), S # {}
  PROVE  \E i \in S : \A j \in S : j <= i
<1> DEFINE T == {k \in Nat : n - k \in S}
<1>1. T \in SUBSET Nat OBVIOUS
<1>2. T # {}
  <2>1. PICK i \in S : TRUE OBVIOUS
  <2>2. i \in 1..n BY <2>1
  <2>3. n - i \in Nat /\ n - (n - i) = i BY <2>2
  <2> QED BY <2>1, <2>3
<1>3. PICK k \in T : \A j \in T : k <= j BY <1>1, <1>2, LeastOf
<1>4. n - k \in S /\ k \in Nat BY <1>3
<1>5. ASSUME NEW j \in S PROVE j <= n - k
  <2>1. j \in 1..n OBVIOUS
  <2>2. n - j \in Nat /\ n - (n - j) = j BY <2>1
  <2>3. n - j \in T BY <2>2
  <2>4. k <= n - j BY <1>3, <2>3
  <2> QED BY <1>4, <2>1, <2>4
<1> QED BY <1>4, <1>5

(* What the layers resolve to, field by field. *)
LEMMA Resolved ==
  ASSUME NEW default \in Rules, NEW layers \in SUBSET Layer, IsFiniteSet(layers),
         NEW o \in Orders(layers)
  PROVE  /\ DOMAIN Resolve(default, o) = DOMAIN default
         /\ Resolve(default, o).approvers
              = default.approvers \cup UNION {l.rules.approvers : l \in layers}
         /\ Resolve(default, o).unlistedOnPublic = default.unlistedOnPublic
         /\ \A f \in Fields :
              \/ /\ \A l \in layers : f \notin l.present
                 /\ Resolve(default, o)[f] = default[f]
              \/ \E l \in layers :
                   Decides(l, f, layers) /\ Resolve(default, o)[f] = l.rules[f]
<1> PICK n : n = Cardinality(layers) OBVIOUS
<1>1. /\ n \in Nat /\ DOMAIN o = 1..n
      /\ \A i \in 1..n : o[i] \in layers
      /\ \A l \in layers : \E i \in 1..n : o[i] = l
  BY OrdersCover
<1>2. \A i, j \in 1..n : i < j => Specificity(o[i]) <= Specificity(o[j]) BY DEF Orders
<1>3. \A l \in layers : Specificity(l) \in Int BY DEF Layer, Specificity
<1> DEFINE Setters(f) == {i \in DOMAIN o : f \in o[i].present}
           Final(f)    == CHOOSE i \in Setters(f) : \A j \in Setters(f) : j <= i
           Value(f)   == IF Setters(f) = {} THEN default[f] ELSE o[Final(f)].rules[f]
<1>4. Resolve(default, o) =
        [f \in DOMAIN default |->
           IF f = "approvers"
           THEN default.approvers \cup UNION {o[i].rules.approvers : i \in DOMAIN o}
           ELSE IF f \in Fields THEN Value(f) ELSE default[f]]
  BY DEF Resolve
<1>5. "approvers" \in DOMAIN default /\ "unlistedOnPublic" \in DOMAIN default
      /\ Fields \subseteq DOMAIN default
  BY DEF Rules, Fields
<1>6. {o[i].rules.approvers : i \in DOMAIN o} = {l.rules.approvers : l \in layers} BY <1>1
<1>7. ASSUME NEW f \in Fields
      PROVE  \/ /\ \A l \in layers : f \notin l.present
                /\ Value(f) = default[f]
             \/ \E l \in layers : Decides(l, f, layers) /\ Value(f) = l.rules[f]
  <2>1. CASE Setters(f) = {}
    <3>1. \A l \in layers : f \notin l.present BY <1>1, <2>1
    <3> QED BY <2>1, <3>1
  <2>2. CASE Setters(f) # {}
    <3>1. Setters(f) \in SUBSET (1..n) BY <1>1
    <3>2. \E i \in Setters(f) : \A j \in Setters(f) : j <= i BY <1>1, <2>2, <3>1, GreatestOf
    <3> PICK k : k = Final(f) OBVIOUS
    <3>3. k \in Setters(f) /\ \A j \in Setters(f) : j <= k BY <3>2
    <3>4. k \in 1..n /\ o[k] \in layers /\ f \in o[k].present BY <1>1, <3>3
    <3>5. ASSUME NEW m \in layers, f \in m.present PROVE Specificity(m) <= Specificity(o[k])
      <4>1. PICK j \in 1..n : o[j] = m BY <1>1
      <4>2. j <= k BY <1>1, <3>3, <3>5, <4>1
      <4>3. CASE j = k BY <1>3, <3>4, <4>1, <4>3
      <4>4. CASE j < k BY <1>2, <3>4, <4>1, <4>4
      <4> QED BY <3>4, <4>2, <4>3, <4>4
    <3>6. Decides(o[k], f, layers) BY <3>4, <3>5 DEF Decides
    <3>7. Value(f) = o[k].rules[f] BY <2>2
    <3> QED BY <3>4, <3>6, <3>7
  <2> QED BY <2>1, <2>2
<1>8. "approvers" \notin Fields /\ "unlistedOnPublic" \notin Fields BY DEF Fields
<1> HIDE DEF Value
<1>9. \A f \in Fields : Resolve(default, o)[f] = Value(f) BY <1>4, <1>5, <1>8
<1> QED BY <1>4, <1>5, <1>6, <1>7, <1>8, <1>9

LEMMA ResolvedRules ==
  ASSUME WellAsked, NEW r \in Resolutions
  PROVE  r \in Rules
<1>1. PICK o \in Orders(q.layers) : r = Resolve(q.default, o) BY DEF Resolutions
<1>2. q.default \in Rules /\ q.layers \in SUBSET Layer /\ IsFiniteSet(q.layers) BY DEF WellAsked
<1>3. DOMAIN r = DOMAIN q.default BY <1>1, <1>2, Resolved
<1>4. r.approvers = q.default.approvers \cup UNION {l.rules.approvers : l \in q.layers}
  BY <1>1, <1>2, Resolved
<1>5. r.unlistedOnPublic = q.default.unlistedOnPublic BY <1>1, <1>2, Resolved
<1>6. \A f \in Fields : r[f] = q.default[f] \/ \E l \in q.layers : r[f] = l.rules[f]
  BY <1>1, <1>2, Resolved
<1>7. \A l \in q.layers : l.rules \in Rules BY <1>2 DEF Layer
<1>8. r.approvers \in SUBSET (User \cup Team) BY <1>2, <1>4, <1>7 DEF Rules
<1>9. /\ r.required \in Int /\ r.allGroups \in BOOLEAN /\ r.codeowners \in BOOLEAN
      /\ r.dismiss \in BOOLEAN /\ r.unpinned \in BOOLEAN /\ r.freshness \in Int
  BY <1>2, <1>6, <1>7 DEF Rules, Fields
<1>10. r = [f \in DOMAIN q.default |-> r[f]] BY <1>1, <1>3 DEF Resolve
<1>11. DOMAIN q.default = {"required", "approvers", "allGroups", "codeowners", "dismiss",
                           "unpinned", "freshness", "unlistedOnPublic"}
  BY <1>2 DEF Rules
<1>12. r.unlistedOnPublic \in BOOLEAN BY <1>2, <1>5 DEF Rules
<1> QED BY <1>8, <1>9, <1>10, <1>11, <1>12 DEF Rules

LEMMA MostSpecific == AnswerInv => MostSpecificDecides
<1> SUFFICES ASSUME AnswerInv, by # "nobody" PROVE MostSpecificDecides
  BY DEF MostSpecificDecides
<1>1. WellAsked BY DEF AnswerInv
<1>2. PICK o \in Orders(q.layers) : rules = Resolve(q.default, o) BY DEF AnswerInv, Resolutions
<1>3. q.default \in Rules /\ q.layers \in SUBSET Layer /\ IsFiniteSet(q.layers)
  BY <1>1 DEF WellAsked
<1>4. ASSUME NEW f \in Fields, NEW l \in q.layers, f \in l.present,
             \A m \in q.layers \ {l} : f \in m.present => Specificity(m) < Specificity(l)
      PROVE  rules[f] = l.rules[f]
  <2>1. PICK m \in q.layers : Decides(m, f, q.layers) /\ rules[f] = m.rules[f]
    BY <1>2, <1>3, <1>4, Resolved
  <2>2. f \in m.present /\ Specificity(l) <= Specificity(m) BY <1>4, <2>1 DEF Decides
  <2>3. Specificity(l) \in Int /\ Specificity(m) \in Int BY <1>3 DEF Layer, Specificity
  <2>4. m = l BY <1>4, <2>2, <2>3
  <2> QED BY <2>1, <2>4
<1>5. rules.approvers = q.default.approvers \cup UNION {l.rules.approvers : l \in q.layers}
  BY <1>2, <1>3, Resolved
<1>6. \A l \in q.layers : l.rules.approvers \subseteq rules.approvers BY <1>5
<1> QED BY <1>4, <1>6 DEF MostSpecificDecides

(* The verdict on the approvals is all that apply takes from them. *)
LEMMA SameVerdict ==
  ASSUME NEW r, NEW raw1, NEW raw2, Judge(r, raw1, ForApply(r)) = Judge(r, raw2, ForApply(r))
  PROVE  ApplyDecides(r, raw1) = ApplyDecides(r, raw2)
<1>1. Gathered(r, raw1, ForApply(r), Asked.ok) = Gathered(r, raw2, ForApply(r), Asked.ok)
  BY DEF Gathered
<1> QED BY <1>1 DEF ApplyDecides

(* Nothing is satisfied by nobody. *)
LEMMA SomebodyApproved ==
  ASSUME NEW r \in Rules, NEW raw, NEW pr, NEW own, NEW teams, NEW at,
         Satisfied(r, raw, pr, own, teams, at)
  PROVE  Approvers(r, raw, pr, at) # {}
<1> SUFFICES ASSUME Approvers(r, raw, pr, at) = {} PROVE FALSE OBVIOUS
<1> PICK who : who = Approvers(r, raw, pr, at) OBVIOUS
<1> PICK needed : needed = RequiredApprovals(r, own) OBVIOUS
<1>1. who = {} OBVIOUS
<1>2. needed \in Int BY DEF RequiredApprovals, Rules
<1>3. /\ NumericGate(r, who, pr, own, teams) /\ GroupGate(r, who, teams)
      /\ OwnerGate(r, who, own, teams) /\ SomeGate(r, own)
  BY DEF Satisfied
<1>4. Hits(r, who, pr, teams) = {} BY <1>1 DEF Hits
<1>5. Cardinality({}) = 0 BY FS_EmptySet
<1>6. ~(needed > 0) BY <1>2, <1>3, <1>4, <1>5 DEF NumericGate
<1>7. ~(r.allGroups /\ r.approvers # {}) BY <1>1, <1>3 DEF GroupGate
<1>8. EffectiveOwners(r, own) = {} BY <1>1, <1>3 DEF OwnerGate
<1> QED BY <1>3, <1>6, <1>7, <1>8 DEF SomeGate

LEMMA ClosedByDefault == AnswerInv => FailClosed
<1> SUFFICES ASSUME AnswerInv, Let, ~q.emergency PROVE \E a \in q.raw : a.by # q.pr.author
  BY DEF FailClosed
<1>1. WellAsked /\ rules \in Resolutions /\ Failing(q.cfg, Given(rules, q.raw)) = {} BY Through
<1>2. Judge(rules, q.raw, ForApply(rules)) BY <1>1, OpenGates
<1>3. rules \in Rules BY <1>1, ResolvedRules
<1>4. Approvers(rules, q.raw, q.pr, Now) # {} BY <1>2, <1>3, SomebodyApproved DEF Judge
<1>5. PICK a \in q.raw : Counts(rules, a, q.pr, Now) BY <1>4 DEF Approvers
<1> QED BY <1>5 DEF Counts

(* A review says which commit it is of.  The code lets a review without a    *)
(* commit count for every head, so it has to rely on the forge here.         *)
ReviewsNameCommits == \A x \in Question : \A a \in x.raw : a.pinned => a.sha # NoSHA

LEMMA HeadAlone == ReviewsNameCommits /\ AnswerInv => OnlyHeadCounts
<1> SUFFICES ASSUME ReviewsNameCommits, AnswerInv, Let, rules.dismiss, ~rules.unpinned
             PROVE  ~ApplyDecides(rules, {a \in q.raw : a.pinned /\ a.sha = q.pr.head}).blocked
  BY DEF OnlyHeadCounts
<1> PICK raw : raw = {a \in q.raw : a.pinned /\ a.sha = q.pr.head} OBVIOUS
<1>1. q \in Question /\ out = ApplyDecides(rules, q.raw) /\ ~out.blocked
  BY DEF AnswerInv, Let
<1>2. \A a \in q.raw : Counts(rules, a, q.pr, Now) => a \in raw
  BY <1>1 DEF ReviewsNameCommits, Counts, ForThisHead
<1>3. {b \in raw : Counts(rules, b, q.pr, Now)} = {b \in q.raw : Counts(rules, b, q.pr, Now)}
  BY <1>2
<1>4. Approvers(rules, raw, q.pr, Now) = Approvers(rules, q.raw, q.pr, Now)
  BY <1>3 DEF Approvers
<1>5. Judge(rules, raw, ForApply(rules)) = Judge(rules, q.raw, ForApply(rules))
  BY <1>4 DEF Judge, Satisfied
<1>6. ApplyDecides(rules, raw) = ApplyDecides(rules, q.raw) BY <1>5, SameVerdict
<1> QED BY <1>1, <1>6

(* Where nobody unlisted counts, the verdict is that of the listed alone. *)
LEMMA ListedAlone ==
  ASSUME NEW r, NEW raw, NEW pr, NEW own, NEW teams, NEW at,
         ~pr.private, ~r.unlistedOnPublic,
         NEW known, Eligible(r.approvers, teams) \subseteq known,
         \A os \in EffectiveOwners(r, own) : Eligible(os, teams) \subseteq known
  PROVE  Satisfied(r, {a \in raw : a.by \in known}, pr, own, teams, at)
           = Satisfied(r, raw, pr, own, teams, at)
<1> PICK who : who = Approvers(r, raw, pr, at) OBVIOUS
<1> PICK few : few = Approvers(r, {a \in raw : a.by \in known}, pr, at) OBVIOUS
<1>1. few = who \cap known BY DEF Approvers
<1>2. Hits(r, few, pr, teams) = Hits(r, who, pr, teams)
  <2>1. CASE r.approvers = {} BY <2>1 DEF Hits, PublicUnlisted
  <2>2. CASE r.approvers # {} BY <1>1, <2>2 DEF Hits, PublicUnlisted
  <2> QED BY <2>1, <2>2
<1>3. NumericGate(r, few, pr, own, teams) <=> NumericGate(r, who, pr, own, teams)
  BY <1>2 DEF NumericGate
<1>4. GroupGate(r, few, teams) <=> GroupGate(r, who, teams)
  <2>1. \A g \in r.approvers : Members(g, teams) \subseteq known BY DEF Eligible
  <2>2. \A g \in r.approvers : few \cap Members(g, teams) = who \cap Members(g, teams)
    BY <1>1, <2>1
  <2> QED BY <2>2 DEF GroupGate
<1>5. OwnerGate(r, few, own, teams) <=> OwnerGate(r, who, own, teams)
  <2>1. \A os \in EffectiveOwners(r, own) :
          few \cap Eligible(os, teams) = who \cap Eligible(os, teams)
    BY <1>1
  <2> QED BY <2>1 DEF OwnerGate
<1> QED BY <1>3, <1>4, <1>5 DEF Satisfied

LEMMA OutsidersAside == AnswerInv => OutsidersDoNotCount
<1> SUFFICES ASSUME AnswerInv, Let, ~q.pr.private, ~rules.unlistedOnPublic
             PROVE  ~ApplyDecides(rules, {a \in q.raw : a.by \in Named}).blocked
  BY DEF OutsidersDoNotCount
<1> PICK teams : teams = ForApply(rules) OBVIOUS
<1>1. out = ApplyDecides(rules, q.raw) /\ ~out.blocked BY DEF AnswerInv, Let
<1>2. Eligible(rules.approvers, teams) \subseteq Named BY DEF Named
<1>3. \A os \in EffectiveOwners(rules, q.owners) : Eligible(os, teams) \subseteq Named
  BY DEF Named
<1>4. Judge(rules, {a \in q.raw : a.by \in Named}, teams) = Judge(rules, q.raw, teams)
  BY <1>2, <1>3, ListedAlone DEF Judge
<1>5. ApplyDecides(rules, {a \in q.raw : a.by \in Named}) = ApplyDecides(rules, q.raw)
  BY <1>4, SameVerdict
<1> QED BY <1>1, <1>5

-----------------------------------------------------------------------------
(* What explain tells. *)

(* Equally specific patterns agree on what they both set: otherwise the      *)
(* iteration order of a Go map decides between them, and two processes may   *)
(* go by different rules.                                                    *)
TiesAgree ==
  \A x \in Question : \A l, m \in x.layers :
    Specificity(l) = Specificity(m) =>
      \A f \in l.present \cap m.present : l.rules[f] = m.rules[f]

LEMMA OneResolution ==
  ASSUME TiesAgree, q \in Question, WellAsked, NEW r1 \in Resolutions, NEW r2 \in Resolutions
  PROVE  r1 = r2
<1>1. PICK o1 \in Orders(q.layers) : r1 = Resolve(q.default, o1) BY DEF Resolutions
<1>2. PICK o2 \in Orders(q.layers) : r2 = Resolve(q.default, o2) BY DEF Resolutions
<1>3. q.default \in Rules /\ q.layers \in SUBSET Layer /\ IsFiniteSet(q.layers) BY DEF WellAsked
<1>4. r1.approvers = r2.approvers /\ r1.unlistedOnPublic = r2.unlistedOnPublic
  <2> DEFINE All == q.default.approvers \cup UNION {l.rules.approvers : l \in q.layers}
  <2>1. r1.approvers = All /\ r1.unlistedOnPublic = q.default.unlistedOnPublic
    BY <1>1, <1>3, Resolved
  <2>2. r2.approvers = All /\ r2.unlistedOnPublic = q.default.unlistedOnPublic
    BY <1>2, <1>3, Resolved
  <2> QED BY <2>1, <2>2
<1>5. ASSUME NEW f \in Fields PROVE r1[f] = r2[f]
  <2>1. \/ (\A l \in q.layers : f \notin l.present) /\ r1[f] = q.default[f]
        \/ \E l \in q.layers : Decides(l, f, q.layers) /\ r1[f] = l.rules[f]
    BY <1>1, <1>3, Resolved
  <2>2. \/ (\A l \in q.layers : f \notin l.present) /\ r2[f] = q.default[f]
        \/ \E l \in q.layers : Decides(l, f, q.layers) /\ r2[f] = l.rules[f]
    BY <1>2, <1>3, Resolved
  <2>3. CASE \A l \in q.layers : f \notin l.present BY <2>1, <2>2, <2>3 DEF Decides
  <2>4. CASE ~\A l \in q.layers : f \notin l.present
    <3>1. PICK l \in q.layers : Decides(l, f, q.layers) /\ r1[f] = l.rules[f] BY <2>1, <2>4
    <3>2. PICK m \in q.layers : Decides(m, f, q.layers) /\ r2[f] = m.rules[f] BY <2>2, <2>4
    <3>3. Specificity(l) \in Int /\ Specificity(m) \in Int BY <1>3 DEF Layer, Specificity
    <3>4. Specificity(l) = Specificity(m) BY <3>1, <3>2, <3>3 DEF Decides
    <3>5. f \in l.present \cap m.present BY <3>1, <3>2 DEF Decides
    <3>6. l.rules[f] = m.rules[f] BY <3>4, <3>5 DEF TiesAgree
    <3> QED BY <3>1, <3>2, <3>6
  <2> QED BY <2>3, <2>4
<1>6. r1 \in Rules /\ r2 \in Rules BY ResolvedRules
<1>7. /\ r1.required = r2.required /\ r1.allGroups = r2.allGroups
      /\ r1.codeowners = r2.codeowners /\ r1.dismiss = r2.dismiss
      /\ r1.unpinned = r2.unpinned /\ r1.freshness = r2.freshness
  BY <1>5 DEF Fields
<1> QED BY <1>4, <1>6, <1>7 DEF Rules

LEMMA ApproversFinite ==
  ASSUME NEW r, NEW raw, IsFiniteSet(raw), NEW pr, NEW at
  PROVE  IsFiniteSet(Approvers(r, raw, pr, at))
<1> PICK valid : valid = {b \in raw : Counts(r, b, pr, at)} OBVIOUS
<1>1. IsFiniteSet(valid) BY FS_Subset
<1> PICK f : f = [a \in valid |-> a.by] OBVIOUS
<1>2. f \in Surjection(valid, {a.by : a \in valid}) BY DEF Surjection
<1>3. IsFiniteSet({a.by : a \in valid}) BY <1>1, <1>2, FS_Surjection
<1> QED BY <1>3 DEF Approvers

(* More members of teams never take an approval away. *)
LEMMA MoreMembers ==
  ASSUME NEW r \in Rules, NEW raw, IsFiniteSet(raw), NEW pr, NEW own, NEW at,
         NEW few, NEW many, \A t \in Team : few[t] \subseteq many[t],
         Satisfied(r, raw, pr, own, few, at)
  PROVE  Satisfied(r, raw, pr, own, many, at)
<1> PICK who : who = Approvers(r, raw, pr, at) OBVIOUS
<1>1. /\ NumericGate(r, who, pr, own, few) /\ GroupGate(r, who, few)
      /\ OwnerGate(r, who, own, few) /\ SomeGate(r, own)
  BY DEF Satisfied
<1>2. \A g : Members(g, few) \subseteq Members(g, many) BY DEF Members
<1>3. \A list : Eligible(list, few) \subseteq Eligible(list, many) BY <1>2 DEF Eligible
<1>4. IsFiniteSet(who) BY ApproversFinite
<1>5. NumericGate(r, who, pr, own, many)
  <2> PICK h1 : h1 = Hits(r, who, pr, few) OBVIOUS
  <2> PICK h2 : h2 = Hits(r, who, pr, many) OBVIOUS
  <2>1. h2 \in SUBSET who BY DEF Hits
  <2>2. h1 \in SUBSET h2 BY <1>3 DEF Hits
  <2>3. IsFiniteSet(h2) BY <1>4, <2>1, FS_Subset
  <2>4. IsFiniteSet(h1) /\ Cardinality(h1) <= Cardinality(h2) BY <2>2, <2>3, FS_Subset
  <2>5. Cardinality(h1) \in Nat /\ Cardinality(h2) \in Nat BY <2>3, <2>4, FS_CardinalityType
  <2> PICK needed : needed = RequiredApprovals(r, own) OBVIOUS
  <2>6. needed \in Int BY DEF RequiredApprovals, Rules
  <2> SUFFICES ASSUME needed > 0
               PROVE  ~PublicUnlisted(r, pr) /\ Cardinality(h2) >= needed
    BY DEF NumericGate
  <2>7. ~PublicUnlisted(r, pr) /\ Cardinality(h1) >= needed BY <1>1 DEF NumericGate
  <2> QED BY <2>4, <2>5, <2>6, <2>7
<1>6. GroupGate(r, who, many) BY <1>1, <1>2 DEF GroupGate
<1>7. OwnerGate(r, who, own, many) BY <1>1, <1>3 DEF OwnerGate
<1> QED BY <1>1, <1>5, <1>6, <1>7 DEF Satisfied

(* A lock that can be read as acquirable is acquired, but for the two        *)
(* exceptions, and no other is.                                              *)
LEMMA ReadableIsAsked ==
  ASSUME WellAsked
  PROVE  /\ Readable(q.lock, q.self.pr) /\ ~TwinHolds /\ ~OtherInherits
              => Asked.ok = TRUE /\ Asked.err = "none"
         /\ ~Readable(q.lock, q.self.pr) => ~Asked.ok
<1> PICK l : l = q.lock OBVIOUS
<1> PICK a : a = q.self OBVIOUS
<1> PICK e : e = EvictIfExpired(l, Now, TTL) OBVIOUS
<1>1. /\ Asked.ok = TryAcquire(l, a, TTL, Now).ok
      /\ Asked.err = IF TryAcquire(l, a, TTL, Now).err = "ErrAlreadyHolder" THEN "none"
                     ELSE TryAcquire(l, a, TTL, Now).err
  BY DEF Asked, AcquireOp, Outcome
<1>2. /\ Held(e) /\ e.holder.pr = a.pr /\ e.holder.run = a.run
           => Asked.ok = TRUE /\ Asked.err = "none"
      /\ Held(e) /\ e.holder.pr = a.pr /\ e.holder.run # a.run /\ e.holder.promoted
           => Asked.ok = TRUE /\ Asked.err = "none"
      /\ ~Held(e) => Asked.ok = TRUE /\ Asked.err = "none"
      /\ Held(e) /\ e.holder.pr # a.pr => Asked.ok = FALSE
  BY <1>1 DEF TryAcquire, Result
<1>3. CASE Held(l) /\ Expired(l.holder, Now)
  <2>1. Readable(l, a.pr) BY <1>3 DEF Readable
  <2>2. e = PromoteNext([l EXCEPT !.holder = NoHolder], Now, PromoteTTL(TTL))
    BY <1>3 DEF EvictIfExpired, Vacate
  <2>3. [l EXCEPT !.holder = NoHolder] = [holder |-> NoHolder, queue |-> l.queue]
    BY DEF WellAsked, LockOK, Lock
  <2>4. CASE l.queue = << >>
    <3>1. ~Held(e) BY <2>2, <2>3, <2>4 DEF PromoteNext, Held
    <3> QED BY <1>2, <2>1, <3>1
  <2>5. CASE l.queue # << >>
    <3>1. e.holder = [pr |-> Head(l.queue).pr, run |-> Head(l.queue).run,
                      expires |-> Stamp(Now + PromoteTTL(TTL)), promoted |-> TRUE]
      BY <2>2, <2>3, <2>5 DEF PromoteNext, Held
    <3>2. ~OtherInherits => e.holder.pr = a.pr BY <1>3, <2>5, <3>1 DEF OtherInherits
    <3> QED BY <1>2, <2>1, <3>1, <3>2
  <2> QED BY <2>4, <2>5
<1>4. CASE ~(Held(l) /\ Expired(l.holder, Now))
  <2>1. e = l BY <1>4 DEF EvictIfExpired
  <2>2. Held(l) /\ l.holder.pr = a.pr /\ ~TwinHolds => l.holder.run = a.run \/ l.holder.promoted
    BY <1>4 DEF TwinHolds
  <2>3. Readable(l, a.pr) <=> ~Held(l) \/ l.holder.pr = a.pr BY <1>4 DEF Readable
  <2> QED BY <1>2, <2>1, <2>2, <2>3
<1> QED BY <1>3, <1>4

(* What explain says of the lock is what it read. *)
LEMMA ToldLock ==
  ASSUME WellAsked, NEW r
  PROVE  ExplainTells(r).gates[8] = "fail" => ~Readable(q.lock, q.self.pr)
<1> PICK y : y = [Gathered(r, q.raw, ForExplain(r), Readable(q.lock, q.self.pr)) EXCEPT
                    !.unavailable = FALSE]
  OBVIOUS
<1>1. y.acquired = Readable(q.lock, q.self.pr) BY DEF WellAsked, Gathered, Inputs
<1>2. ExplainTells(r).gates = [i \in 1..10 |-> EvalGate(GateOrder[i], q.cfg, y)]
  BY AllGates DEF ExplainTells, EvaluateAll, Trace
<1>3. ExplainTells(r).gates[8] = EvalGate("lock", q.cfg, y) BY <1>2 DEF GateOrder
<1>4. EvalGateBase("lock", q.cfg, y) = FailUnless(y.acquired) BY DEF EvalGateBase
<1> QED BY <1>1, <1>3, <1>4 DEF EvalGate, FailUnless

LEMMA ExplainTrue == TiesAgree /\ AnswerInv => ExplainIsSound
<1>a. ASSUME AnswerInv, by = "explain", out.gates[8] = "fail" PROVE ~Asked.ok
  BY <1>a, ToldLock, ReadableIsAsked DEF AnswerInv
<1> SUFFICES ASSUME TiesAgree, AnswerInv, by = "explain", ~out.blocked, ~q.emergency,
                    ~Errs(rules), q.hooks = {}, ~TwinHolds, ~OtherInherits,
                    NEW r \in Resolutions
             PROVE  ~ApplyDecides(r, q.raw).blocked
  BY <1>a DEF ExplainIsSound
<1>1. q \in Question /\ WellAsked /\ rules \in Resolutions /\ out = ExplainTells(rules)
  BY DEF AnswerInv
<1>2. r = rules BY <1>1, OneResolution
<1> PICK cfg : cfg = q.cfg OBVIOUS
<1> PICK y : y = [Gathered(r, q.raw, ForExplain(r), Readable(q.lock, q.self.pr)) EXCEPT
                    !.unavailable = FALSE]
  OBVIOUS
<1> PICK in : in = Given(r, q.raw) OBVIOUS
<1>3. Failing(cfg, y) = {}
  <2>1. out = EvaluateAll(cfg, y) BY <1>1, <1>2 DEF ExplainTells
  <2> QED BY <2>1, Unblocked
<1>4. /\ ~y.breakGlass /\ y.approved = Judge(r, q.raw, ForExplain(r))
      /\ y.frozen = (ActiveFor(q.windows, Now) # "none")
      /\ \A f \in {"fork", "forkOptIn", "draft", "behind", "checks", "found", "age",
                   "succeeded", "policy"} : y[f] = q.in[f]
      /\ y.acquired = Readable(q.lock, q.self.pr)
  BY <1>1 DEF WellAsked, Gathered, Inputs
<1>5. \A g \in Gate : EvalGateBase(g, cfg, y) # "fail"
  <2>1. \A g \in Gate : EvalGate(g, cfg, y) # "fail" BY <1>3, Open
  <2> QED BY <1>4, <2>1 DEF EvalGate, Overridden, Overridable
<1>6. Judge(r, q.raw, ForExplain(r))
  <2>1. EvalGateBase("approvals", cfg, y) = FailUnless(y.approved) BY DEF EvalGateBase
  <2> QED BY <1>4, <1>5, <2>1 DEF Gate, FailUnless
<1>7. Judge(r, q.raw, ForApply(r))
  <2> PICK few : few = ForExplain(r) OBVIOUS
  <2> PICK many : many = ForApply(r) OBVIOUS
  <2>1. \A t \in Team : few[t] \subseteq many[t]
    BY DEF ForExplain, ForApply, ExplainTeams, ApplyTeams, ExpandTeams
  <2>2. r \in Rules /\ IsFiniteSet(q.raw) BY <1>1, ResolvedRules DEF WellAsked
  <2>3. Satisfied(r, q.raw, q.pr, q.owners, few, Now) BY <1>6 DEF Judge
  <2>4. Satisfied(r, q.raw, q.pr, q.owners, many, Now) BY <2>1, <2>2, <2>3, MoreMembers
  <2> QED BY <2>4 DEF Judge
<1>b. Readable(q.lock, q.self.pr)
  <2>1. EvalGateBase("lock", cfg, y) = FailUnless(y.acquired) BY DEF EvalGateBase
  <2> QED BY <1>4, <1>5, <2>1 DEF Gate, FailUnless
<1>c. Asked.ok = TRUE /\ Asked.err = "none" BY <1>1, <1>b, ReadableIsAsked
<1>8. Alike(in, y)
  <2>1. /\ \A f \in {"fork", "forkOptIn", "draft", "behind", "checks", "found", "age",
                     "succeeded", "policy"} : in[f] = y[f]
        /\ in.frozen = y.frozen
    BY <1>1, <1>4, GivenFields
  <2>2. in.approved = y.approved
    <3>1. in.approved = Judge(r, q.raw, ForApply(r)) BY <1>1, GivenFields
    <3>2. Judge(r, q.raw, ForApply(r)) = Judge(r, q.raw, ForExplain(r))
      BY <1>6, <1>7 DEF Judge, Satisfied
    <3> QED BY <1>4, <3>1, <3>2
  <2>3. in.acquired = y.acquired
    <3>1. in.acquired = TRUE BY <1>1, <1>c, GivenFields
    <3>2. y.acquired = TRUE BY <1>4, <1>b
    <3> QED BY <3>1, <3>2
  <2> QED BY <2>1, <2>2, <2>3 DEF Alike, Input
<1>9. \A g \in Gate : EvalGateBase(g, cfg, in) # "fail" BY <1>5, <1>8, BaseAlike
<1>10. Failing(cfg, in) = {}
  <2>1. \A g \in Gate : EvalGate(g, cfg, in) # "fail" BY <1>9 DEF EvalGate
  <2> QED BY <2>1, Open
<1> QED BY <1>1, <1>2, <1>10, <1>c, Passes

-----------------------------------------------------------------------------
(* Whatever the configuration, the pull request and the state of the bucket, *)
(* apply lets no stack through a gate that no emergency overrides: lock,     *)
(* draft, fork, checks, distance to the base and blocking hooks, and without *)
(* an emergency the preview (preconditions.Evaluate, evaluateStackGates).    *)
THEOREM GatesBind == DecisionSpec => []BindingGates
<1> QED BY AnswerInit, AnswerNext, BindingHolds, PTL DEF DecisionSpec

(* A stack is frozen from each fire of a window to the end of its duration,  *)
(* for any windows and any number of fires the scan of mostRecentFire may    *)
(* take, and only an emergency that may override it gets through.            *)
THEOREM FreezesHold == DecisionSpec => []FreezeHolds
<1> QED BY AnswerInit, AnswerNext, FreezeKept, PTL DEF DecisionSpec

(* An emergency apply has a reason and an actor somebody vouched for, and    *)
(* its audit record names exactly the gates it overrode (Authorize,          *)
(* parseBreakGlassComment, evaluateGate).                                    *)
THEOREM EmergenciesAreSound == DecisionSpec => []EmergencySound
<1>1. AnswerInv => EmergencySound BY Vouched, OverridesKnown DEF EmergencySound
<1> QED BY AnswerInit, AnswerNext, <1>1, PTL DEF DecisionSpec

(* Of any number of matching patterns the most specific decides, no policy   *)
(* whatsoever is satisfied by nobody, and neither outsiders nor approvals of *)
(* other commits tip a decision (Resolve, Evaluate of the approvals),        *)
(* provided every review names its commit.                                   *)
THEOREM ApprovalsAreEarned ==
  ASSUME ReviewsNameCommits
  PROVE  DecisionSpec => []ApprovalsEarned
<1>1. AnswerInv => ApprovalsEarned
  BY MostSpecific, ClosedByDefault, HeadAlone, OutsidersAside DEF ApprovalsEarned
<1> QED BY AnswerInit, AnswerNext, <1>1, PTL DEF DecisionSpec

(* What explain reports as clear no apply of the same state blocks, whatever *)
(* order its process lists the patterns in, although it expands more teams   *)
(* and takes the lock where explain reads it (Explain, gatherGateInputs,     *)
(* TryAcquire), unless a run of its own pull request works under the lock or *)
(* another one inherits it; provided equally specific patterns agree.        *)
THEOREM ExplainTellsTheTruth ==
  ASSUME TiesAgree
  PROVE  DecisionSpec => []ExplainIsSound
<1>1. AnswerInv => ExplainIsSound BY ExplainTrue
<1> QED BY AnswerInit, AnswerNext, <1>1, PTL DEF DecisionSpec

-----------------------------------------------------------------------------
(***************************************************************************)
(* Which providers a stack is given (Bindings): the results of the loops   *)
(* over sorted bindings and over their lists, in closed form, and the      *)
(* order of the sort.                                                      *)
(***************************************************************************)
(* What holds before the first step, and after a step if it held before it,  *)
(* holds all along.                                                          *)
LEMMA AllAlong ==
  ASSUME NEW n \in Nat, NEW H,
         0 \in H,
         \A i \in 1..n : i - 1 \in H => i \in H
  PROVE  \A i \in 0..n : i \in H
<1> SUFFICES ASSUME NEW k \in 0..n, k \notin H PROVE FALSE OBVIOUS
<1> DEFINE T == {i \in 0..n : i \notin H}
<1>1. PICK i \in T : \A j \in T : i <= j
  <2>1. T \in SUBSET Nat /\ T # {} OBVIOUS
  <2> QED BY <2>1, LeastOf
<1>2. i \in 1..n BY <1>1
<1>3. i - 1 \in 0..n /\ ~(i <= i - 1) BY <1>2
<1>4. i - 1 \in H BY <1>1, <1>3
<1> QED BY <1>1, <1>2, <1>4

(* A loop has its sequence of results. *)
Looped(S, n, b, g) == \E f \in [0..n -> S] : f[0] = b /\ \A i \in 1..n : f[i] = g[<<i, f[i - 1]>>]

LEMMA Iterates ==
  ASSUME NEW S, NEW n \in Nat, NEW b \in S, NEW g \in [(1..n) \X S -> S]
  PROVE  Looped(S, n, b, g)
<1> DEFINE Good(f, k) == f[0] = b /\ \A i \in 1..k : f[i] = g[<<i, f[i - 1]>>]
           H == {k \in 0..n : \E f \in [0..k -> S] : Good(f, k)}
<1>1. 0 \in H
  <2>1. [i \in 0..0 |-> b] \in [0..0 -> S] /\ Good([i \in 0..0 |-> b], 0) OBVIOUS
  <2>2. \E f \in [0..0 -> S] : Good(f, 0) BY <2>1
  <2> QED BY <2>2
<1>2. ASSUME NEW k \in 1..n, k - 1 \in H PROVE k \in H
  <2>1. PICK f \in [0..(k - 1) -> S] : Good(f, k - 1) BY <1>2
  <2> DEFINE h == [i \in 0..k |-> IF i = k THEN g[<<k, f[k - 1]>>] ELSE f[i]]
  <2>2. g[<<k, f[k - 1]>>] \in S
    <3>1. f[k - 1] \in S BY k - 1 \in 0..(k - 1)
    <3> QED BY <3>1
  <2>3. h \in [0..k -> S] BY <2>2
  <2>4. ASSUME NEW i \in 1..k PROVE h[i] = g[<<i, h[i - 1]>>]
    <3>1. i - 1 \in 0..(k - 1) /\ i - 1 # k /\ i - 1 \in 0..k OBVIOUS
    <3>2. h[i - 1] = f[i - 1] BY <3>1
    <3>3. CASE i = k
      <4>1. h[k] = g[<<k, f[k - 1]>>] BY k \in 0..k
      <4> QED BY <3>2, <3>3, <4>1
    <3>4. CASE i # k
      <4>1. i \in 1..(k - 1) BY <3>4
      <4>2. h[i] = f[i] BY <3>4
      <4>3. f[i] = g[<<i, f[i - 1]>>] BY <2>1, <4>1
      <4> HIDE DEF h
      <4> QED BY <3>2, <4>2, <4>3
    <3> QED BY <3>3, <3>4
  <2>5. h[0] = b BY <2>1
  <2> HIDE DEF h
  <2>6. \E x \in [0..k -> S] : Good(x, k) BY <2>3, <2>4, <2>5
  <2> QED BY <2>6
<1>3. n \in H
  <2> HIDE DEF H
  <2>1. \A i \in 0..n : i \in H BY <1>1, <1>2, AllAlong
  <2> QED BY <2>1
<1>4. PICK f \in [0..n -> S] : Good(f, n) BY <1>3
<1> QED BY <1>4 DEF Looped

LEMMA ReplacingIs ==
  ASSUME NEW names, NEW P, NEW list \in Seq(P)
  PROVE  Replacing(names, list) =
           [i \in 0..Len(list) |->
              IF i = 0 THEN names ELSE ReplaceScope(Replacing(names, list)[i - 1], list[i])]
<1> DEFINE n == Len(list)
           S == SUBSET (names \cup P)
           g == [x \in (1..n) \X S |-> ReplaceScope(x[2], list[x[1]])]
           G(f) == [i \in 0..n |-> IF i = 0 THEN names ELSE ReplaceScope(f[i - 1], list[i])]
<1>1. g \in [(1..n) \X S -> S]
  <2>1. ASSUME NEW x \in (1..n) \X S PROVE ReplaceScope(x[2], list[x[1]]) \in S
    BY list[x[1]] \in P DEF ReplaceScope
  <2> QED BY <2>1
<1>2. PICK f \in [0..n -> S] : f[0] = names /\ \A i \in 1..n : f[i] = g[<<i, f[i - 1]>>]
  <2> HIDE DEF g
  <2>1. n \in Nat OBVIOUS
  <2>2. names \in S OBVIOUS
  <2> HIDE DEF n, S
  <2>3. Looped(S, n, names, g) BY <1>1, <2>1, <2>2, Iterates
  <2> QED BY <2>3 DEF Looped
<1>3. f = G(f)
  <2>1. ASSUME NEW i \in 0..n, i # 0 PROVE g[<<i, f[i - 1]>>] = ReplaceScope(f[i - 1], list[i])
    <3>1. i - 1 \in 0..n /\ i \in 1..n BY <2>1
    <3>2. <<i, f[i - 1]>> \in (1..n) \X S BY <3>1
    <3> QED BY <3>2
  <2> QED BY <1>2, <2>1
<1>4. Replacing(names, list) = CHOOSE x : x = G(x) BY DEF Replacing
<1> HIDE DEF G
<1>5. (CHOOSE x : x = G(x)) = G(CHOOSE x : x = G(x)) BY <1>3
<1> QED BY <1>4, <1>5 DEF G

(* What survives a list of replacements: the last of each scope. *)
LEMMA ReplaceEachIs ==
  ASSUME NEW names, NEW P, NEW list \in Seq(P), NEW x
  PROVE  x \in ReplaceEach(names, list) <=>
           \/ x \in names /\ \A j \in 1..Len(list) : ~SameScope(x, list[j])
           \/ \E j \in 1..Len(list) :
                x = list[j] /\ \A k \in (j + 1)..Len(list) : ~SameScope(x, list[k])
<1> DEFINE n == Len(list)
           Q(i) == \/ x \in names /\ \A j \in 1..i : ~SameScope(x, list[j])
                   \/ \E j \in 1..i : x = list[j] /\ \A k \in (j + 1)..i : ~SameScope(x, list[k])
           got == Replacing(names, list)
           H == {i \in 0..n : x \in got[i] <=> Q(i)}
<1> HIDE DEF got
<1>0. got = [i \in 0..n |-> IF i = 0 THEN names ELSE ReplaceScope(got[i - 1], list[i])]
  BY ReplacingIs DEF got
<1>1. 0 \in H
  <2>1. got[0] = names BY <1>0
  <2> QED BY <2>1
<1>2. ASSUME NEW i \in 1..n, i - 1 \in H PROVE i \in H
  <2>1. got[i] = ReplaceScope(got[i - 1], list[i]) BY <1>0
  <2>2. x \in got[i] <=> x = list[i] \/ (x \in got[i - 1] /\ ~SameScope(x, list[i]))
    BY <2>1 DEF ReplaceScope
  <2>3. x \in got[i - 1] <=> Q(i - 1) BY <1>2
  <2>4. Q(i) <=> x = list[i] \/ (Q(i - 1) /\ ~SameScope(x, list[i]))
    <3>1. 1..i = 1..(i - 1) \cup {i} OBVIOUS
    <3>2. ASSUME NEW j \in 1..(i - 1) PROVE (j + 1)..i = (j + 1)..(i - 1) \cup {i} OBVIOUS
    <3>3. (i + 1)..i = {} OBVIOUS
    <3>4. ASSUME Q(i), x # list[i] PROVE Q(i - 1) /\ ~SameScope(x, list[i])
      <4>1. CASE x \in names /\ \A j \in 1..i : ~SameScope(x, list[j]) BY <3>1, <4>1
      <4>2. CASE \E j \in 1..i : x = list[j] /\ \A k \in (j + 1)..i : ~SameScope(x, list[k])
        <5>1. PICK j \in 1..i : x = list[j] /\ \A k \in (j + 1)..i : ~SameScope(x, list[k]) BY <4>2
        <5>2. j \in 1..(i - 1) BY <3>1, <3>4, <5>1
        <5> QED BY <3>2, <5>1, <5>2
      <4> QED BY <3>4, <4>1, <4>2
    <3>5. ASSUME Q(i - 1), ~SameScope(x, list[i]) PROVE Q(i)
      <4>1. CASE x \in names /\ \A j \in 1..(i - 1) : ~SameScope(x, list[j]) BY <3>1, <3>5, <4>1
      <4>2. CASE \E j \in 1..(i - 1) : x = list[j] /\ \A k \in (j + 1)..(i - 1) : ~SameScope(x, list[k])
        <5>1. PICK j \in 1..(i - 1) : x = list[j] /\ \A k \in (j + 1)..(i - 1) : ~SameScope(x, list[k])
          BY <4>2
        <5> QED BY <3>1, <3>2, <3>5, <5>1
      <4> QED BY <3>5, <4>1, <4>2
    <3>6. x = list[i] => Q(i) BY <3>3
    <3> QED BY <3>4, <3>5, <3>6
  <2> QED BY <2>2, <2>3, <2>4
<1>3. n \in H
  <2> HIDE DEF H
  <2>0. n \in Nat OBVIOUS
  <2>1. \A i \in 0..n : i \in H BY <1>1, <1>2, <2>0, AllAlong
  <2> QED BY <2>0, <2>1
<1> QED BY <1>3 DEF ReplaceEach, got

(* The bindings of a configuration: lists of providers, countable patterns. *)
Listing(bs, P) ==
  /\ Len(bs) \in Nat
  /\ \A i \in 1..Len(bs) :
       /\ bs[i].providers \in SUBSET P
       /\ bs[i].override \in Seq(P) /\ bs[i].local \in Seq(P)

LEMMA ReplaceEachBound ==
  ASSUME NEW P, NEW names \in SUBSET P, NEW list \in Seq(P)
  PROVE  ReplaceEach(names, list) \in SUBSET P
<1> SUFFICES ASSUME NEW x \in ReplaceEach(names, list) PROVE x \in P OBVIOUS
<1>1. x \in names \/ \E j \in 1..Len(list) : x = list[j] BY ReplaceEachIs
<1> QED BY <1>1

LEMMA BindBound ==
  ASSUME NEW P, NEW names \in SUBSET P, NEW b,
         b.providers \in SUBSET P, b.override \in Seq(P)
  PROVE  Bind(names, b) \in SUBSET P
BY ReplaceEachBound DEF Bind

LEMMA ResolvingIs ==
  ASSUME NEW P, NEW sorted, Listing(sorted, P), NEW stack, NEW mode
  PROVE  LET got == Resolving(sorted, stack, mode)
         IN /\ got[0] = {}
            /\ \A i \in 1..Len(sorted) :
                 got[i] = IF BindingMatches(sorted[i], stack, mode) THEN Bind(got[i - 1], sorted[i])
                          ELSE got[i - 1]
<1> DEFINE n == Len(sorted)
           S == SUBSET P
           step(i, names) == IF BindingMatches(sorted[i], stack, mode) THEN Bind(names, sorted[i])
                             ELSE names
           g == [x \in (1..n) \X S |-> step(x[1], x[2])]
           G(f) == [i \in 0..n |-> IF i = 0 THEN {} ELSE step(i, f[i - 1])]
<1>0. n \in Nat BY DEF Listing
<1>1. g \in [(1..n) \X S -> S]
  <2>1. ASSUME NEW i \in 1..n, NEW names \in S PROVE step(i, names) \in S
    <3>1. sorted[i].providers \in SUBSET P /\ sorted[i].override \in Seq(P) BY DEF Listing
    <3>2. Bind(names, sorted[i]) \in S BY <3>1, BindBound
    <3> QED BY <3>2
  <2> HIDE DEF step
  <2>2. ASSUME NEW x \in (1..n) \X S PROVE step(x[1], x[2]) \in S BY <2>1
  <2> QED BY <2>2
<1> HIDE DEF step
<1>2. PICK f \in [0..n -> S] : f[0] = {} /\ \A i \in 1..n : f[i] = g[<<i, f[i - 1]>>]
  <2>1. {} \in S OBVIOUS
  <2> HIDE DEF n, S, g
  <2>2. Looped(S, n, {}, g) BY <1>0, <1>1, <2>1, Iterates
  <2> QED BY <2>2 DEF Looped
<1>3. f = G(f)
  <2>1. ASSUME NEW i \in 0..n, i # 0 PROVE g[<<i, f[i - 1]>>] = step(i, f[i - 1])
    <3>1. i - 1 \in 0..n /\ i \in 1..n BY <1>0, <2>1
    <3>2. <<i, f[i - 1]>> \in (1..n) \X S BY <3>1
    <3> QED BY <3>2
  <2>2. ASSUME NEW i \in 0..n PROVE f[i] = IF i = 0 THEN {} ELSE step(i, f[i - 1])
    <3>1. CASE i = 0 BY <1>2, <3>1
    <3>2. CASE i # 0
      <4>1. i \in 1..n BY <1>0, <3>2
      <4>2. f[i] = g[<<i, f[i - 1]>>] BY <1>2, <4>1
      <4> QED BY <2>1, <3>2, <4>2
    <3> QED BY <3>1, <3>2
  <2> QED BY <2>2
<1>4. Resolving(sorted, stack, mode) = CHOOSE x : x = G(x) BY DEF Resolving, step
<1>5. (CHOOSE x : x = G(x)) = G(CHOOSE x : x = G(x))
  <2> HIDE DEF G
  <2> QED BY <1>3
<1> DEFINE got == Resolving(sorted, stack, mode)
<1>6. got = G(got) BY <1>4, <1>5
<1> HIDE DEF got
<1>7. got[0] = {} BY <1>0, <1>6
<1>8. ASSUME NEW i \in 1..n PROVE got[i] = step(i, got[i - 1])
  <2>1. i \in 0..n /\ i # 0 BY <1>0
  <2> QED BY <1>6, <2>1
<1> QED BY <1>7, <1>8 DEF step, got

LEMMA SubstitutingIs ==
  ASSUME NEW P, NEW sorted, Listing(sorted, P), NEW stack, NEW mode, NEW names \in SUBSET P
  PROVE  LET got == Substituting(names, sorted, stack, mode)
         IN /\ got[0] = names
            /\ \A i \in 1..Len(sorted) :
                 got[i] = IF BindingMatches(sorted[i], stack, mode)
                          THEN ReplaceEach(got[i - 1], sorted[i].local) ELSE got[i - 1]
<1> DEFINE n == Len(sorted)
           S == SUBSET P
           step(i, ns) == IF BindingMatches(sorted[i], stack, mode)
                          THEN ReplaceEach(ns, sorted[i].local) ELSE ns
           g == [x \in (1..n) \X S |-> step(x[1], x[2])]
           G(f) == [i \in 0..n |-> IF i = 0 THEN names ELSE step(i, f[i - 1])]
<1>0. n \in Nat BY DEF Listing
<1>1. g \in [(1..n) \X S -> S]
  <2>1. ASSUME NEW i \in 1..n, NEW ns \in S PROVE step(i, ns) \in S
    <3>1. sorted[i].local \in Seq(P) BY DEF Listing
    <3>2. ReplaceEach(ns, sorted[i].local) \in S BY <3>1, ReplaceEachBound
    <3> QED BY <3>2
  <2> HIDE DEF step
  <2>2. ASSUME NEW x \in (1..n) \X S PROVE step(x[1], x[2]) \in S BY <2>1
  <2> QED BY <2>2
<1> HIDE DEF step
<1>2. PICK f \in [0..n -> S] : f[0] = names /\ \A i \in 1..n : f[i] = g[<<i, f[i - 1]>>]
  <2>1. names \in S OBVIOUS
  <2> HIDE DEF n, S, g
  <2>2. Looped(S, n, names, g) BY <1>0, <1>1, <2>1, Iterates
  <2> QED BY <2>2 DEF Looped
<1>3. f = G(f)
  <2>1. ASSUME NEW i \in 0..n, i # 0 PROVE g[<<i, f[i - 1]>>] = step(i, f[i - 1])
    <3>1. i - 1 \in 0..n /\ i \in 1..n BY <1>0, <2>1
    <3>2. <<i, f[i - 1]>> \in (1..n) \X S BY <3>1
    <3> QED BY <3>2
  <2>2. ASSUME NEW i \in 0..n PROVE f[i] = IF i = 0 THEN names ELSE step(i, f[i - 1])
    <3>1. CASE i = 0 BY <1>2, <3>1
    <3>2. CASE i # 0
      <4>1. i \in 1..n BY <1>0, <3>2
      <4>2. f[i] = g[<<i, f[i - 1]>>] BY <1>2, <4>1
      <4> QED BY <2>1, <3>2, <4>2
    <3> QED BY <3>1, <3>2
  <2> QED BY <2>2
<1>4. Substituting(names, sorted, stack, mode) = CHOOSE x : x = G(x) BY DEF Substituting, step
<1>5. (CHOOSE x : x = G(x)) = G(CHOOSE x : x = G(x))
  <2> HIDE DEF G
  <2> QED BY <1>3
<1> DEFINE got == Substituting(names, sorted, stack, mode)
<1>6. got = G(got) BY <1>4, <1>5
<1> HIDE DEF got
<1>7. got[0] = names BY <1>0, <1>6
<1>8. ASSUME NEW i \in 1..n PROVE got[i] = step(i, got[i - 1])
  <2>1. i \in 0..n /\ i # 0 BY <1>0
  <2> QED BY <1>6, <2>1
<1> QED BY <1>7, <1>8 DEF step, got

(* A name is resolved if the last binding to give it was not replaced since. *)
LEMMA ResolvedIs ==
  ASSUME NEW P, NEW sorted, Listing(sorted, P), NEW stack, NEW mode, NEW x
  PROVE  x \in Resolving(sorted, stack, mode)[Len(sorted)] <=>
           \E k \in 1..Len(sorted) :
             /\ BindingMatches(sorted[k], stack, mode) /\ x \in Bind({}, sorted[k])
             /\ \A l \in (k + 1)..Len(sorted) : BindingMatches(sorted[l], stack, mode) =>
                  \A j \in 1..Len(sorted[l].override) : ~SameScope(x, sorted[l].override[j])
<1> DEFINE n == Len(sorted)
           on(k) == BindingMatches(sorted[k], stack, mode)
           stays(l) == on(l) => \A j \in 1..Len(sorted[l].override) : ~SameScope(x, sorted[l].override[j])
           gives(k) == on(k) /\ x \in Bind({}, sorted[k])
           Q(i) == \E k \in 1..i : gives(k) /\ \A l \in (k + 1)..i : stays(l)
           got == Resolving(sorted, stack, mode)
           H == {i \in 0..n : x \in got[i] <=> Q(i)}
<1>0. n \in Nat BY DEF Listing
<1>1. got[0] = {} /\ \A i \in 1..n : got[i] = IF on(i) THEN Bind(got[i - 1], sorted[i]) ELSE got[i - 1]
  BY ResolvingIs
<1> HIDE DEF got
<1>2. ASSUME NEW i \in 1..n
      PROVE  x \in got[i] <=> gives(i) \/ (x \in got[i - 1] /\ stays(i))
  <2> DEFINE b == sorted[i]
  <2>1. b.override \in Seq(P) BY DEF Listing
  <2>2. CASE on(i)
    <3>1. got[i] = ReplaceEach(got[i - 1], b.override) \cup b.providers BY <1>1, <2>2 DEF Bind
    <3>2. Bind({}, b) = ReplaceEach({}, b.override) \cup b.providers BY DEF Bind
    <3>3. x \in ReplaceEach(got[i - 1], b.override)
            <=> x \in ReplaceEach({}, b.override) \/ (x \in got[i - 1] /\ stays(i))
      BY <2>1, <2>2, ReplaceEachIs
    <3> HIDE DEF stays, b
    <3>4. gives(i) <=> x \in Bind({}, b) BY <2>2 DEF b
    <3> HIDE DEF gives
    <3> QED BY <3>1, <3>2, <3>3, <3>4
  <2>3. CASE ~on(i) BY <1>1, <2>3
  <2> QED BY <2>2, <2>3
<1> HIDE DEF gives, stays, on
<1>3. 0 \in H BY <1>0, <1>1
<1>4. ASSUME NEW i \in 1..n, i - 1 \in H PROVE i \in H
  <2>1. x \in got[i - 1] <=> Q(i - 1) BY <1>4
  <2>2. 1..i = 1..(i - 1) \cup {i} /\ (i + 1)..i = {} BY <1>0
  <2>3. ASSUME NEW k \in 1..(i - 1) PROVE (k + 1)..i = (k + 1)..(i - 1) \cup {i} BY <1>0
  <2>4. Q(i) <=> gives(i) \/ (Q(i - 1) /\ stays(i))
    <3>1. ASSUME NEW k \in 1..i, gives(k), \A l \in (k + 1)..i : stays(l), k # i
          PROVE  Q(i - 1) /\ stays(i)
      <4>1. k \in 1..(i - 1) BY <2>2, <3>1
      <4> QED BY <2>3, <3>1, <4>1
    <3>2. ASSUME NEW k \in 1..(i - 1), gives(k), \A l \in (k + 1)..(i - 1) : stays(l), stays(i)
          PROVE  Q(i)
      <4>1. k \in 1..i BY <2>2
      <4> QED BY <2>3, <3>2, <4>1
    <3>3. gives(i) => Q(i) BY <2>2
    <3> QED BY <3>1, <3>2, <3>3
  <2> HIDE DEF Q
  <2>5. i \in 0..n BY <1>0
  <2> QED BY <1>2, <2>1, <2>4, <2>5
<1>5. n \in H
  <2> HIDE DEF H
  <2>1. \A i \in 0..n : i \in H BY <1>0, <1>3, <1>4, AllAlong
  <2> QED BY <1>0, <2>1
<1> QED BY <1>5 DEF got, Q, gives, stays, on

LEMMA Listed ==
  ASSUME NEW P, NEW list \in Seq(P)
  PROVE  /\ \A j \in 1..Len(list) : list[j] \in ToSet(list)
         /\ \A y \in ToSet(list) : \E j \in 1..Len(list) : list[j] = y
<1>1. DOMAIN list = 1..Len(list) OBVIOUS
<1> QED BY <1>1 DEF ToSet

(* A name that a binding has is among what it gives, or another of its scope. *)
LEMMA BindGives ==
  ASSUME NEW P, NEW b, b.override \in Seq(P), NEW y \in b.providers \cup ToSet(b.override)
  PROVE  \E z \in Bind({}, b) : SameScope(z, y)
<1> DEFINE n == Len(b.override)
           K == {j \in 1..n : SameScope(b.override[j], y)}
<1>1. CASE y \in b.providers BY <1>1 DEF Bind, SameScope
<1>2. CASE y \in ToSet(b.override)
  <2>1. PICK j \in 1..n : b.override[j] = y BY <1>2 DEF ToSet
  <2>2. K # {} /\ K \in SUBSET (1..n) /\ n \in Nat BY <2>1 DEF SameScope
  <2>3. PICK k \in K : \A l \in K : l <= k
    <3> HIDE DEF K, n
    <3> QED BY <2>2, GreatestOf
  <2>4. ASSUME NEW l \in (k + 1)..n PROVE ~SameScope(b.override[k], b.override[l])
    <3>1. l \in 1..n /\ ~(l <= k) BY <2>2, <2>3
    <3>2. l \notin K BY <2>3, <3>1
    <3> QED BY <2>3, <3>1, <3>2 DEF SameScope
  <2>5. b.override[k] \in ReplaceEach({}, b.override) BY <2>3, <2>4, ReplaceEachIs
  <2> QED BY <2>3, <2>5 DEF Bind
<1> QED BY <1>1, <1>2

LEMMA BindGivesOwn ==
  ASSUME NEW P, NEW b, b.override \in Seq(P), NEW z \in Bind({}, b)
  PROVE  z \in b.providers \cup ToSet(b.override)
<1>1. CASE z \in b.providers BY <1>1
<1>2. CASE z \in ReplaceEach({}, b.override)
  <2>1. \E j \in 1..Len(b.override) : z = b.override[j] BY <1>2, ReplaceEachIs
  <2> QED BY <2>1 DEF ToSet
<1> QED BY <1>1, <1>2 DEF Bind

(* Whether sortBindings puts the i-th binding after the j-th: a strict total *)
(* order, since the sort is stable.                                          *)
SortsAfter(bs, i, j) ==
  MoreSpecific(bs[i], bs[j]) \/ (~MoreSpecific(bs[j], bs[i]) /\ i > j)

Ranked(bs) == \A i \in 1..Len(bs) : Rank(bs[i]) \in Int

LEMMA SortOrder ==
  ASSUME NEW bs, Len(bs) \in Nat, Ranked(bs)
  PROVE  /\ \A i \in 1..Len(bs) : ~SortsAfter(bs, i, i)
         /\ \A i, j \in 1..Len(bs) : i = j \/ SortsAfter(bs, i, j) \/ SortsAfter(bs, j, i)
         /\ \A i, j \in 1..Len(bs) : SortsAfter(bs, i, j) => ~MoreSpecific(bs[j], bs[i])
         /\ \A i, j, k \in 1..Len(bs) :
              SortsAfter(bs, i, j) /\ SortsAfter(bs, j, k) => SortsAfter(bs, i, k)
<1> DEFINE r(i) == Rank(bs[i])
           any(i) == bs[i].mode = AnyMode
           more(i, j) == IF any(i) # any(j) THEN any(j) ELSE r(i) > r(j)
<1>1. \A i \in 1..Len(bs) : r(i) \in Int BY DEF Ranked
<1>2. \A i, j \in 1..Len(bs) : MoreSpecific(bs[i], bs[j]) = more(i, j) BY DEF MoreSpecific
<1>3. \A i, j \in 1..Len(bs) : SortsAfter(bs, i, j) <=> more(i, j) \/ (~more(j, i) /\ i > j)
  BY <1>2 DEF SortsAfter
<1> HIDE DEF r
<1>4. ASSUME NEW i \in 1..Len(bs) PROVE ~SortsAfter(bs, i, i) BY <1>1, <1>3
<1>5. ASSUME NEW i \in 1..Len(bs), NEW j \in 1..Len(bs)
      PROVE  /\ i = j \/ SortsAfter(bs, i, j) \/ SortsAfter(bs, j, i)
             /\ SortsAfter(bs, i, j) => ~MoreSpecific(bs[j], bs[i])
  <2>1. r(i) \in Int /\ r(j) \in Int BY <1>1
  <2>2. more(i, j) => ~more(j, i) BY <2>1
  <2>3. MoreSpecific(bs[j], bs[i]) <=> more(j, i) BY <1>2
  <2>4. SortsAfter(bs, i, j) <=> more(i, j) \/ (~more(j, i) /\ i > j) BY <1>3
  <2>5. SortsAfter(bs, j, i) <=> more(j, i) \/ (~more(i, j) /\ j > i) BY <1>3
  <2> HIDE DEF more
  <2> QED BY <2>2, <2>3, <2>4, <2>5
<1>6. ASSUME NEW i \in 1..Len(bs), NEW j \in 1..Len(bs), NEW k \in 1..Len(bs),
             SortsAfter(bs, i, j), SortsAfter(bs, j, k)
      PROVE  SortsAfter(bs, i, k)
  <2>1. r(i) \in Int /\ r(j) \in Int /\ r(k) \in Int BY <1>1
  <2>2. more(i, j) /\ ~more(k, j) => more(i, k) BY <2>1
  <2>3. ~more(j, i) /\ more(j, k) => more(i, k) BY <2>1
  <2>4. ~more(j, i) /\ ~more(k, j) => ~more(k, i) BY <2>1
  <2>5. more(j, k) => ~more(k, j) BY <2>1
  <2>6. more(i, j) \/ (~more(j, i) /\ i > j) BY <1>3, <1>6
  <2>7. more(j, k) \/ (~more(k, j) /\ j > k) BY <1>3, <1>6
  <2>8. SortsAfter(bs, i, k) <=> more(i, k) \/ (~more(k, i) /\ i > k) BY <1>3
  <2> HIDE DEF more
  <2> QED BY <2>2, <2>3, <2>4, <2>5, <2>6, <2>7, <2>8
<1> QED BY <1>4, <1>5, <1>6

LEMMA SortIs ==
  ASSUME NEW bs, bs \in Seq(ToSet(bs)), Ranked(bs)
  PROVE  LET s == SortBindings(bs)
         IN /\ s \in Seq(ToSet(bs)) /\ Len(s) = Len(bs)
            /\ \A k \in 1..Len(bs) : \E i \in 1..Len(bs) : s[k] = bs[i]
            /\ \A i \in 1..Len(bs) : \E k \in 1..Len(bs) : s[k] = bs[i]
            /\ \A k, l \in 1..Len(bs) : k < l => ~MoreSpecific(s[k], s[l])
<1> DEFINE n == Len(bs)
           below(i) == {j \in 1..n : SortsAfter(bs, i, j)}
           place == [i \in 1..n |-> 1 + Cardinality(below(i))]
           from(k) == CHOOSE i \in DOMAIN bs : 1 + Cardinality({j \in DOMAIN bs : SortsAfter(bs, i, j)}) = k
           s == SortBindings(bs)
<1>0. n \in Nat /\ DOMAIN bs = 1..n OBVIOUS
<1>1. \A i \in 1..n : IsFiniteSet(below(i)) /\ Cardinality(below(i)) \in 0..(n - 1)
  <2> SUFFICES ASSUME NEW i \in 1..n
               PROVE IsFiniteSet(below(i)) /\ Cardinality(below(i)) \in 0..(n - 1) OBVIOUS
  <2>1. IsFiniteSet(1..n) /\ Cardinality(1..n) = n
    <3> HIDE DEF n
    <3>1. 1 \in Int /\ n \in Int BY <1>0
    <3>2. IsFiniteSet(1..n) /\ Cardinality(1..n) = IF 1 > n THEN 0 ELSE n - 1 + 1
      BY <3>1, FS_Interval
    <3> QED BY <1>0, <3>2
  <2>2. below(i) \subseteq 1..n /\ below(i) # 1..n BY <1>0, SortOrder
  <2>3. IsFiniteSet(below(i)) /\ Cardinality(below(i)) \in Nat BY <2>1, <2>2, FS_Subset, FS_CardinalityType
  <2> HIDE DEF below, n
  <2>4. Cardinality(below(i)) <= n /\ Cardinality(below(i)) # n BY <2>1, <2>2, FS_Subset
  <2> QED BY <1>0, <2>3, <2>4
<1>2. \A i \in 1..n : place[i] \in 1..n
  <2> SUFFICES ASSUME NEW i \in 1..n PROVE place[i] \in 1..n OBVIOUS
  <2>1. place[i] = 1 + Cardinality(below(i)) OBVIOUS
  <2> HIDE DEF place, below
  <2> QED BY <1>0, <1>1, <2>1
<1>3. ASSUME NEW i \in 1..n, NEW j \in 1..n, SortsAfter(bs, i, j) PROVE place[j] < place[i]
  <2>1. below(j) \subseteq below(i) BY <1>0, <1>3, SortOrder
  <2>2. j \in below(i) /\ j \notin below(j) BY <1>0, <1>3, SortOrder
  <2>3. below(j) # below(i) BY <2>2
  <2> HIDE DEF below
  <2>4. Cardinality(below(j)) <= Cardinality(below(i)) /\ Cardinality(below(j)) # Cardinality(below(i))
    BY <1>1, <2>1, <2>3, FS_Subset
  <2> QED BY <1>0, <1>1, <2>4
<1> HIDE DEF below, place, n
<1>4. \A i, j \in 1..n : place[i] = place[j] => i = j
  <2> SUFFICES ASSUME NEW i \in 1..n, NEW j \in 1..n, place[i] = place[j], i # j PROVE FALSE OBVIOUS
  <2>1. SortsAfter(bs, i, j) \/ SortsAfter(bs, j, i) BY <1>0, SortOrder DEF n
  <2>2. place[j] < place[i] \/ place[i] < place[j] BY <1>3, <2>1
  <2> QED BY <1>0, <1>2, <2>2
<1>5. \A k \in 1..n : \E i \in 1..n : place[i] = k
  <2>1. place \in [1..n -> 1..n] BY <1>2 DEF place
  <2>2. place \in Injection(1..n, 1..n) BY <1>4, <2>1 DEF Injection, IsInjective
  <2>3. IsFiniteSet(1..n) BY <1>0, FS_Interval
  <2>4. place \in Surjection(1..n, 1..n) BY <2>2, <2>3, FS_Injection
  <2> QED BY <2>4 DEF Surjection
<1>6. ASSUME NEW k \in 1..n PROVE from(k) \in 1..n /\ place[from(k)] = k
  <2> DEFINE c(i) == 1 + Cardinality({j \in DOMAIN bs : SortsAfter(bs, i, j)})
  <2>1. \A i \in DOMAIN bs : place[i] = c(i) BY <1>0 DEF place, below, n
  <2> HIDE DEF c
  <2>2. \E i \in DOMAIN bs : c(i) = k BY <1>0, <1>5, <2>1 DEF n
  <2>3. from(k) \in DOMAIN bs /\ c(from(k)) = k BY <2>2 DEF c
  <2> QED BY <1>0, <2>1, <2>3 DEF n
<1>7. s = [k \in 1..n |-> bs[from(k)]] BY <1>0 DEF SortBindings, SortsAfter, n
<1> HIDE DEF s, from
<1>8. \A i \in 1..n : from(place[i]) = i BY <1>2, <1>4, <1>6
<1>9. \A i \in 1..n : bs[i] \in ToSet(bs) BY <1>0
<1>10. s \in Seq(ToSet(bs)) /\ Len(s) = n
  <2>1. s \in [1..n -> ToSet(bs)] BY <1>6, <1>7, <1>9
  <2> QED BY <1>0, <2>1
<1>11. ASSUME NEW k \in 1..n, NEW l \in 1..n, k < l PROVE ~MoreSpecific(s[k], s[l])
  <2>1. from(k) \in 1..n /\ from(l) \in 1..n /\ place[from(k)] = k /\ place[from(l)] = l BY <1>6
  <2>2. ~SortsAfter(bs, from(k), from(l)) BY <1>0, <1>3, <1>11, <2>1
  <2>3. from(k) # from(l) BY <1>0, <1>11, <2>1
  <2>4. SortsAfter(bs, from(l), from(k)) BY <1>0, <2>1, <2>2, <2>3, SortOrder DEF n
  <2>5. ~MoreSpecific(bs[from(k)], bs[from(l)]) BY <1>0, <2>1, <2>4, SortOrder DEF n
  <2> QED BY <1>7, <2>5
<1>12. \A k \in 1..n : \E i \in 1..n : s[k] = bs[i] BY <1>6, <1>7
<1>13. \A i \in 1..n : \E k \in 1..n : s[k] = bs[i] BY <1>2, <1>7, <1>8
<1> QED BY <1>10, <1>11, <1>12, <1>13 DEF n, s

LEMMA SortKeeps ==
  ASSUME NEW P, NEW bs, bs \in Seq(ToSet(bs)), Listing(bs, P), Ranked(bs)
  PROVE  Listing(SortBindings(bs), P)
<1> DEFINE s == SortBindings(bs)
<1>1. Len(s) = Len(bs) /\ \A k \in 1..Len(bs) : \E i \in 1..Len(bs) : s[k] = bs[i] BY SortIs
<1> HIDE DEF s
<1>2. Listing(s, P) BY <1>1 DEF Listing
<1> QED BY <1>2 DEF s

(* In CI: one of the most specific bindings with a say in a scope names it. *)
NamesOf(b) == b.providers \cup ToSet(b.override)

HasSay(bs, s, m, x) ==
  {b \in {d \in ToSet(bs) : BindingMatches(d, s, m)} : \E y \in NamesOf(b) : SameScope(x, y)}

LEMMA MostSpecificNames ==
  ASSUME NEW P, NEW bs, bs \in Seq(ToSet(bs)), Listing(bs, P), Ranked(bs), NEW s, NEW m,
         \A x, y \in ResolveProviders(bs, s, m, FALSE, << >>) : SameScope(x, y) => x = y,
         NEW x \in ResolveProviders(bs, s, m, FALSE, << >>)
  PROVE  \E b \in HasSay(bs, s, m, x) : x \in NamesOf(b) /\ \A d \in HasSay(bs, s, m, x) : ~MoreSpecific(d, b)
<1> DEFINE say == HasSay(bs, s, m, x)
           n == Len(bs)
           sorted == SortBindings(bs)
           ci == Resolving(sorted, s, m)[n]
           K == {k \in 1..n : sorted[k] \in say}
<1>1. ci = ResolveProviders(bs, s, m, FALSE, << >>) BY DEF ResolveProviders
<1>2. /\ Len(sorted) = n
      /\ \A k \in 1..n : \E i \in 1..n : sorted[k] = bs[i]
      /\ \A i \in 1..n : \E k \in 1..n : sorted[k] = bs[i]
      /\ \A k, l \in 1..n : k < l => ~MoreSpecific(sorted[k], sorted[l])
  BY SortIs
<1>3. Listing(sorted, P) BY SortKeeps
<1> HIDE DEF sorted, say
<1>4. n \in Nat BY DEF Listing
<1>5. ASSUME NEW k \in 1..n PROVE sorted[k] \in ToSet(bs) /\ sorted[k].override \in Seq(P)
  <2>1. PICK i \in 1..n : sorted[k] = bs[i] BY <1>2
  <2>2. DOMAIN bs = 1..n OBVIOUS
  <2>3. sorted[k] \in ToSet(bs) BY <2>1, <2>2 DEF ToSet
  <2>4. sorted[k].override \in Seq(P) BY <1>2, <1>3 DEF Listing
  <2> QED BY <2>3, <2>4
<1>6. ASSUME NEW b \in ToSet(bs) PROVE \E k \in 1..n : sorted[k] = b
  <2>1. PICK i \in 1..n : bs[i] = b BY <1>4 DEF ToSet
  <2> QED BY <1>2, <2>1
<1>7. PICK k \in 1..n : BindingMatches(sorted[k], s, m) /\ x \in Bind({}, sorted[k])
  <2>1. x \in Resolving(sorted, s, m)[Len(sorted)] BY <1>1, <1>2
  <2>2. \E k \in 1..Len(sorted) : BindingMatches(sorted[k], s, m) /\ x \in Bind({}, sorted[k])
    BY <1>3, <2>1, ResolvedIs
  <2> QED BY <1>2, <2>2
<1>8. k \in K
  <2>1. x \in NamesOf(sorted[k]) BY <1>5, <1>7, BindGivesOwn DEF NamesOf
  <2> QED BY <1>5, <1>7, <2>1 DEF say, HasSay, SameScope
<1>9. PICK t \in K : \A j \in K : j <= t
  <2>1. K \in SUBSET (1..n) /\ K # {} BY <1>8
  <2> HIDE DEF K
  <2> QED BY <1>4, <2>1, GreatestOf
<1>10. PICK z \in Bind({}, sorted[t]) : SameScope(x, z)
  <2>1. PICK y \in NamesOf(sorted[t]) : SameScope(x, y) BY <1>9 DEF say, HasSay
  <2>2. \E z \in Bind({}, sorted[t]) : SameScope(z, y) BY <1>5, <2>1, BindGives DEF NamesOf
  <2> QED BY <2>1, <2>2 DEF SameScope
<1>11. z \in ci
  <2>1. ASSUME NEW l \in (t + 1)..n, BindingMatches(sorted[l], s, m),
               NEW j \in 1..Len(sorted[l].override), SameScope(z, sorted[l].override[j])
        PROVE  FALSE
    <3>1. l \in 1..n /\ ~(l <= t) BY <1>4, <1>9
    <3>2. l \notin K BY <1>9, <3>1
    <3>3. sorted[l].override[j] \in NamesOf(sorted[l])
      <4>1. sorted[l].override[j] \in ToSet(sorted[l].override) BY <1>5, <3>1, Listed
      <4> QED BY <4>1 DEF NamesOf
    <3>4. SameScope(x, sorted[l].override[j]) BY <1>10, <2>1 DEF SameScope
    <3> QED BY <1>5, <2>1, <3>1, <3>2, <3>3, <3>4 DEF say, HasSay
  <2>2. BindingMatches(sorted[t], s, m) BY <1>9 DEF say, HasSay
  <2> QED BY <1>2, <1>3, <1>9, <1>10, <2>1, <2>2, ResolvedIs
<1>12. x = z BY <1>1, <1>10, <1>11
<1>13. x \in NamesOf(sorted[t]) BY <1>5, <1>9, <1>10, <1>12, BindGivesOwn DEF NamesOf
<1>14. ASSUME NEW d \in say PROVE ~MoreSpecific(d, sorted[t])
  <2>1. PICK j \in 1..n : sorted[j] = d BY <1>6 DEF say, HasSay
  <2>2. j \in K BY <2>1
  <2>3. j <= t BY <1>9, <2>2
  <2>4. CASE j < t BY <1>2, <1>9, <2>1, <2>4
  <2>5. CASE j = t
    <3>1. PICK i \in 1..n : sorted[t] = bs[i] BY <1>2, <1>9
    <3>2. Rank(sorted[t]) \in Int BY <3>1 DEF Ranked
    <3> QED BY <2>1, <2>5, <3>2 DEF MoreSpecific
  <2> QED BY <1>4, <1>9, <2>3, <2>4, <2>5
<1> QED BY <1>9, <1>13, <1>14 DEF say

(* The replacements of a list leave at most one name of each scope. *)
LEMMA ReplaceEachUnique ==
  ASSUME NEW names, NEW P, NEW list \in Seq(P),
         \A x, y \in names : SameScope(x, y) => x = y,
         NEW x \in ReplaceEach(names, list), NEW y \in ReplaceEach(names, list), SameScope(x, y)
  PROVE  x = y
<1> DEFINE n == Len(list)
           kept(z) == z \in names /\ \A j \in 1..n : ~SameScope(z, list[j])
           final(z, j) == z = list[j] /\ \A k \in (j + 1)..n : ~SameScope(z, list[k])
<1>1. kept(x) \/ \E j \in 1..n : final(x, j) BY ReplaceEachIs
<1>2. kept(y) \/ \E j \in 1..n : final(y, j) BY ReplaceEachIs
<1>3. CASE kept(x) /\ kept(y) BY <1>3
<1>4. ASSUME kept(x), NEW j \in 1..n, final(y, j) PROVE FALSE BY <1>4
<1>5. ASSUME kept(y), NEW j \in 1..n, final(x, j) PROVE FALSE BY <1>5 DEF SameScope
<1>6. ASSUME NEW i \in 1..n, final(x, i), NEW j \in 1..n, final(y, j) PROVE x = y
  <2>1. n \in Nat OBVIOUS
  <2>2. ~(i < j)
    <3> SUFFICES ASSUME i < j PROVE FALSE OBVIOUS
    <3>1. j \in (i + 1)..n BY <2>1
    <3> QED BY <1>6, <3>1
  <2>3. ~(j < i)
    <3> SUFFICES ASSUME j < i PROVE FALSE OBVIOUS
    <3>1. i \in (j + 1)..n BY <2>1
    <3> QED BY <1>6, <3>1 DEF SameScope
  <2>4. i = j BY <2>1, <2>2, <2>3
  <2> QED BY <1>6, <2>4
<1> QED BY <1>1, <1>2, <1>3, <1>4, <1>5, <1>6

LEMMA ReplaceNone ==
  ASSUME NEW names
  PROVE  ReplaceEach(names, << >>) = names
<1> DEFINE none == << >>
<1>1. none \in Seq({}) /\ 1..Len(none) = {} OBVIOUS
<1> HIDE DEF none
<1>2. \A x : x \in ReplaceEach(names, none) <=> x \in names BY <1>1, ReplaceEachIs
<1>3. ReplaceEach(names, none) = names BY <1>2
<1> QED BY <1>3 DEF none

(* Locally: still one name for each scope, and nothing CI-only beside a      *)
(* substitute.                                                               *)
LEMMA LocalIsExact ==
  ASSUME NEW P, NEW bs, bs \in Seq(ToSet(bs)), Listing(bs, P), Ranked(bs), NEW s, NEW m,
         \A i \in DOMAIN bs : \A j \in DOMAIN bs[i].local : bs[i].local[j] \notin CIOnly,
         \A x, y \in ResolveProviders(bs, s, m, FALSE, << >>) : SameScope(x, y) => x = y
  PROVE  LET here == ResolveProviders(bs, s, m, TRUE, << >>)
         IN /\ \A x, y \in here : SameScope(x, y) => x = y
            /\ \A b \in ToSet(bs) : BindingMatches(b, s, m) =>
                 \A x \in here : x \in CIOnly => ~\E y \in ToSet(b.local) : SameScope(x, y)
<1> DEFINE n == Len(bs)
           sorted == SortBindings(bs)
           on(k) == BindingMatches(sorted[k], s, m)
           ci == Resolving(sorted, s, m)[n]
           got == Substituting(ci, sorted, s, m)
           here == ResolveProviders(bs, s, m, TRUE, << >>)
           Clear(i) == \A x \in got[i] : x \in CIOnly =>
                         \A k \in 1..i : on(k) =>
                           \A j \in 1..Len(sorted[k].local) : ~SameScope(x, sorted[k].local[j])
           Single(i) == \A x, y \in got[i] : SameScope(x, y) => x = y
           H == {i \in 0..n : Clear(i) /\ Single(i) /\ got[i] \in SUBSET P}
<1>1. ci = ResolveProviders(bs, s, m, FALSE, << >>) BY DEF ResolveProviders
<1>2. /\ Len(sorted) = n
      /\ \A k \in 1..n : \E i \in 1..n : sorted[k] = bs[i]
      /\ \A i \in 1..n : \E k \in 1..n : sorted[k] = bs[i]
  BY SortIs
<1>3. Listing(sorted, P) BY SortKeeps
<1>4. n \in Nat /\ DOMAIN bs = 1..n BY DEF Listing
<1>5. here = got[n]
  <2>1. here = ReplaceEach(got[n], << >>) BY DEF ResolveProviders
  <2> HIDE DEF here, got
  <2> QED BY <2>1, ReplaceNone
<1> HIDE DEF sorted
<1>6. ci \in SUBSET P
  <2> SUFFICES ASSUME NEW x \in ci PROVE x \in P OBVIOUS
  <2>1. x \in Resolving(sorted, s, m)[Len(sorted)] BY <1>2
  <2>2. PICK k \in 1..Len(sorted) : x \in Bind({}, sorted[k]) BY <1>3, <2>1, ResolvedIs
  <2>3. sorted[k].override \in Seq(P) /\ sorted[k].providers \in SUBSET P BY <1>3, <2>2 DEF Listing
  <2>4. Bind({}, sorted[k]) \in SUBSET P BY <2>3, BindBound
  <2> QED BY <2>2, <2>4
<1> HIDE DEF ci, on, here
<1>7. /\ got[0] = ci
      /\ \A i \in 1..n : got[i] = IF on(i) THEN ReplaceEach(got[i - 1], sorted[i].local) ELSE got[i - 1]
  <2>1. Len(sorted) = n BY <1>2
  <2> HIDE DEF n
  <2> QED BY <1>3, <1>6, <2>1, SubstitutingIs DEF on
<1> HIDE DEF got
<1>8. 0 \in H
  <2>1. Clear(0) BY <1>4
  <2>2. Single(0) BY <1>1, <1>7
  <2>3. got[0] \in SUBSET P /\ 0 \in 0..n BY <1>4, <1>6, <1>7
  <2> HIDE DEF Clear, Single
  <2> QED BY <2>1, <2>2, <2>3
<1>9. ASSUME NEW i \in 1..n, i - 1 \in H PROVE i \in H
  <2> DEFINE list == sorted[i].local
             old == got[i - 1]
  <2>1. i \in 0..n /\ 1..i = 1..(i - 1) \cup {i} BY <1>4
  <2>2. Clear(i - 1) /\ Single(i - 1) /\ got[i - 1] \in SUBSET P BY <1>9
  <2>3. CASE ~on(i)
    <3>1. got[i] = old BY <1>7, <2>3
    <3>2. Clear(i) BY <2>1, <2>2, <2>3, <3>1
    <3>3. Single(i) BY <2>2, <3>1
    <3> QED BY <2>1, <2>2, <3>1, <3>2, <3>3
  <2>4. CASE on(i)
    <3>1. list \in Seq(P) BY <1>2, <1>3 DEF Listing
    <3>2. got[i] = ReplaceEach(old, list) BY <1>7, <2>4
    <3> HIDE DEF list
    <3>3. got[i] \in SUBSET P BY <2>2, <3>1, <3>2, ReplaceEachBound
    <3>4. Single(i)
      <4> SUFFICES ASSUME NEW x \in got[i], NEW y \in got[i], SameScope(x, y) PROVE x = y OBVIOUS
      <4>1. \A v, w \in old : SameScope(v, w) => v = w BY <2>2
      <4>2. x \in ReplaceEach(old, list) /\ y \in ReplaceEach(old, list) BY <3>2
      <4> HIDE DEF old
      <4> QED BY <3>1, <4>1, <4>2, ReplaceEachUnique
    <3>5. ASSUME NEW j \in 1..Len(list) PROVE list[j] \notin CIOnly
      <4>1. PICK k \in 1..n : sorted[i] = bs[k] BY <1>2
      <4>2. DOMAIN bs[k].local = 1..Len(bs[k].local) BY <3>1, <4>1 DEF list
      <4> QED BY <1>4, <4>1, <4>2 DEF list
    <3>6. ASSUME NEW x \in got[i], x \in CIOnly
          PROVE  x \in old /\ \A j \in 1..Len(list) : ~SameScope(x, list[j])
      BY <3>1, <3>2, <3>5, <3>6, ReplaceEachIs
    <3>7. Clear(i)
      <4> SUFFICES ASSUME NEW x \in got[i], x \in CIOnly, NEW k \in 1..i, on(k),
                          NEW j \in 1..Len(sorted[k].local)
                   PROVE  ~SameScope(x, sorted[k].local[j])
        OBVIOUS
      <4>1. CASE k = i BY <3>6, <4>1 DEF list
      <4>2. CASE k # i
        <5>1. k \in 1..(i - 1) BY <2>1, <4>2
        <5> QED BY <2>2, <3>6, <5>1
      <4> QED BY <4>1, <4>2
    <3> HIDE DEF Clear, Single
    <3> QED BY <2>1, <3>3, <3>4, <3>7
  <2> QED BY <2>3, <2>4
<1>10. Clear(n) /\ Single(n)
  <2>1. \A i \in 1..n : i - 1 \in H => i \in H BY <1>9
  <2> HIDE DEF H
  <2>2. \A i \in 0..n : i \in H BY <1>4, <1>8, <2>1, AllAlong
  <2>3. n \in H BY <1>4, <2>2
  <2> QED BY <2>3 DEF H
<1>11. ASSUME NEW b \in ToSet(bs), BindingMatches(b, s, m), NEW x \in here, x \in CIOnly,
              NEW y \in ToSet(b.local), SameScope(x, y)
       PROVE  FALSE
  <2>1. PICK i \in 1..n : bs[i] = b BY <1>4 DEF ToSet
  <2>2. PICK k \in 1..n : sorted[k] = b BY <1>2, <2>1
  <2>3. b.local \in Seq(P) BY <1>2, <1>3, <2>2 DEF Listing
  <2>4. PICK j \in 1..Len(b.local) : b.local[j] = y BY <1>11, <2>3, Listed
  <2>5. on(k) BY <1>11, <2>2 DEF on
  <2> QED BY <1>5, <1>10, <1>11, <2>2, <2>4, <2>5
<1> QED BY <1>5, <1>10, <1>11 DEF here

-----------------------------------------------------------------------------
(***************************************************************************)
(* What one apply learns of a pull request that its reviewers, its author  *)
(* and its checks go on changing (Gathering). The invariant relates what   *)
(* has been read so far to what the forge has shown since the apply began. *)
(***************************************************************************)
-----------------------------------------------------------------------------
(* What an apply decides on.                                                 *)

Verdict == {"APPROVED", "CHANGES_REQUESTED", "COMMENTED", "DISMISSED"}

Reviewed == [by : Reviewer, state : Verdict, sha : Commit]

Remark ==
  {[by |-> u, bot |-> u \in project.bots, assoc |-> project.assoc[u], line |-> words] :
     u \in Reviewer, words \in Words}

ApplyFields ==
  {"pc", "sha", "changed", "runs", "green", "revs", "cs", "page", "raw", "owners", "live"}

(* A review and a comment as the histories keep them. *)
Stance(r) == [kind |-> "review", by |-> r.by, sha |-> r.sha]
Remarked(c) == [kind |-> "comment", by |-> c.by, sha |-> NamedCommit(c.line)]

Later(rs, u, i) == \E j \in (i + 1)..Len(rs) : rs[j].by = u /\ Decisive(rs[j])

Stands(rs, i) == rs[i].state = "APPROVED" /\ ~Later(rs, rs[i].by, i)

(* A review that was read may have been dismissed since. *)
ReadOf(a, b) ==
  /\ a.by = b.by /\ a.sha = b.sha
  /\ a.state # b.state => a.state = "APPROVED" /\ b.state = "DISMISSED"

Unread == {"new", "files", "checks", "statuses", "error"}
Judged == {"teams", "revalidate", "decided"}
Underway == apply.pc \notin {"new", "error"}

(* What the pages before the n-th hold, and the entries up to the n-th. *)
Ahead(n) == (n - 1) * PageSize

FirstOf(s, n) == {s[i] : i \in {j \in 1..Len(s) : j <= n}}

Appears(list, k) == \E i \in 1..Len(list) : list[i] = k

ForgeOK ==
  /\ project \in Projects
  /\ head \in Commit
  /\ reviews \in Seq(Reviewed)
  /\ comments \in Seq(Remark)
  /\ checks = [c \in Commit |-> checks[c]]
  /\ \A c \in Commit : checks[c] = [k \in Check |-> checks[c][k]]
  /\ listing = [c \in Commit |-> listing[c]]
  /\ \A c \in Commit : listing[c] \in Seq(Check)
  /\ \A c \in Commit : \A k \in Check : checks[c][k] # Never <=> Appears(listing[c], k)
  /\ statuses = [c \in Commit |-> statuses[c]]
  /\ \A c \in Commit : statuses[c] \in [Context -> {Never, "pending", "success", "failure"}]

ApplyShape ==
  /\ apply = [f \in ApplyFields |-> apply[f]]
  /\ apply.pc \in Unread \cup Judged \cup {"reviews", "comments", "owners"}
  /\ apply.revs \in Seq(Reviewed)
  /\ apply.cs \in Seq(Remark)
  /\ apply.page \in Nat \ {0}
  /\ apply.green \in BOOLEAN
  /\ apply.pc \in Unread => apply.revs = << >> /\ apply.cs = << >>
  /\ ~Underway => apply.page = 1 /\ apply.changed = {}
  /\ apply.pc # "checks" => apply.runs = {}
  /\ apply.pc = "reviews" => apply.cs = << >>
  /\ Underway => apply.sha \in Commit

(* The history of standing reviews is what the list says. *)
StandingOK ==
  /\ \A i \in 1..Len(reviews) : Stands(reviews, i) => Stance(reviews[i]) \in standing
  /\ \A x \in standing : \E i \in 1..Len(reviews) : Stands(reviews, i) /\ x = Stance(reviews[i])

HistoryOK ==
  Underway => standing \subseteq stood /\ Said(comments) \subseteq stood /\ lasting \subseteq standing

(* The histories of what blocks: whatever blocks has blocked. *)
UnreadyOK ==
  /\ unready \subseteq Blockers
  /\ Underway => Blockers \subseteq troubled

(* Files are read of the one commit while the head has not moved. *)
Still == Underway /\ ~returned /\ head = apply.sha

ChangedOK ==
  /\ Still /\ apply.pc = "files" =>
       apply.changed = FirstOf(project.files[apply.sha], Ahead(apply.page))
  /\ Still /\ apply.pc # "files" => apply.changed = ToSet(project.files[apply.sha])
  /\ Decided /\ project.expected => head = apply.sha

(* A check run as it was read, and as it was read on a page that has not     *)
(* shifted since.                                                            *)
RunOf(r, k) == r.name = k.name /\ r.run = k.run /\ r.self = k.self

WasRead(r, c) ==
  \E k \in Check :
    /\ RunOf(r, k) /\ checks[c][k] # Never /\ r.state # Never
    /\ r.state \notin Fine /\ ~Ours(c, k) => <<c, k>> \in troubled

Told(r, c, k) == RunOf(r, k) /\ (<<c, k>> \in unready => r.state \notin Fine)

(* All that the first n entries of the listing say is among the runs. *)
Covered(runs, c, n) ==
  \A i \in 1..Len(listing[c]) : i <= n => \E r \in runs : Told(r, c, listing[c][i])

RunsOK ==
  apply.pc = "checks" =>
    /\ \A r \in apply.runs : WasRead(r, apply.sha)
    /\ ~shifted => Covered(apply.runs, apply.sha, Ahead(apply.page))

GreenOK ==
  /\ apply.pc = "statuses" /\ apply.green =>
       \A x \in unready : x[1] = apply.sha => x[2] \in Context \/ shifted
  /\ apply.pc \notin Unread /\ apply.green =>
       \A x \in unready : x[1] = apply.sha => x[2] \in Check /\ shifted
  /\ apply.pc \notin Unread \ {"statuses"} /\ ~apply.green /\ ~shifted =>
       \E x \in troubled : x[1] = apply.sha

(* While reviews are read: what is read is a prefix of the list, and what    *)
(* says APPROVED stood when it was read, or is overruled further down.       *)
Overruled(rs, r, i) == Stance(r) \in stood \/ Later(rs, r.by, i)

RevsOK ==
  apply.pc \in {"reviews", "comments", "owners"} =>
    /\ Len(apply.revs) <= Len(reviews)
    /\ \A i \in 1..Len(apply.revs) : ReadOf(apply.revs[i], reviews[i])
    /\ apply.pc = "reviews" =>
         /\ Len(apply.revs) = Ahead(apply.page)
         /\ \A i \in 1..Len(apply.revs) :
              apply.revs[i].state = "APPROVED" => Overruled(reviews, apply.revs[i], i)
    /\ apply.pc # "reviews" =>
         /\ \A i \in 1..Len(apply.revs) :
              apply.revs[i].state = "APPROVED" => Overruled(apply.revs, apply.revs[i], i)
         /\ \A x \in lasting :
              \E i \in 1..Len(apply.revs) : Stands(apply.revs, i) /\ x = Stance(apply.revs[i])

CommentsOK ==
  \A i \in 1..Len(apply.cs) :
    Qualifies(apply.cs[i], project.allowed) => Remarked(apply.cs[i]) \in stood

(* An approval that counts is backed by one that stood. *)
Backs(x, a) ==
  /\ x.by = a.by /\ x.sha = a.sha
  /\ \/ x.kind = "review" /\ x.sha \in Commit /\ a.pinned
     \/ x.kind = "comment" /\ (a.pinned <=> x.sha # NoSHA)

RawOK ==
  apply.pc \in Judged =>
    /\ \A a \in apply.raw : \E x \in stood : Backs(x, a)
    /\ \A x \in lasting : Approval(x.by, x.sha, TRUE) \in apply.raw

GatheringInv ==
  /\ ForgeOK /\ ApplyShape /\ StandingOK /\ HistoryOK /\ UnreadyOK
  /\ ChangedOK /\ RunsOK /\ GreenOK /\ RevsOK /\ CommentsOK /\ RawOK

-----------------------------------------------------------------------------
(* Lists of reviews and pages of a listing. *)

LEMMA Concatenated ==
  ASSUME NEW S, NEW s \in Seq(S), NEW t \in Seq(S)
  PROVE  /\ s \o t \in Seq(S) /\ Len(s \o t) = Len(s) + Len(t)
         /\ \A i \in 1..(Len(s) + Len(t)) :
              (s \o t)[i] = IF i <= Len(s) THEN s[i] ELSE t[i - Len(s)]
OBVIOUS

LEMMA Part ==
  ASSUME NEW S, NEW s \in Seq(S), NEW a \in Nat, NEW b \in Nat, a <= b, b <= Len(s)
  PROVE  /\ SubSeq(s, a + 1, b) \in Seq(S) /\ Len(SubSeq(s, a + 1, b)) = b - a
         /\ \A i \in 1..(b - a) : SubSeq(s, a + 1, b)[i] = s[a + i]
OBVIOUS

LEMMA PageOf ==
  ASSUME NEW S, NEW s \in Seq(S), NEW n \in Nat \ {0}
  PROVE  /\ Page(s, n) \in Seq(S)
         /\ \A i \in 1..Len(Page(s, n)) : \E j \in 1..Len(s) : Page(s, n)[i] = s[j]
<1>01. PICK a : a = (n - 1) * PageSize OBVIOUS
<1>02. PICK b : b = IF n * PageSize < Len(s) THEN n * PageSize ELSE Len(s) OBVIOUS
<1>03. PICK p : p = Page(s, n) OBVIOUS
<1>1. a \in Nat /\ n * PageSize \in Nat BY <1>01, PageSizeAssumption
<1>2. b \in Nat /\ b <= Len(s) BY <1>1, <1>02
<1>3. p = SubSeq(s, a + 1, b) BY <1>01, <1>02, <1>03 DEF Page
<1>4. CASE a <= b
  <2>1. p \in Seq(S) /\ Len(p) = b - a /\ \A i \in 1..(b - a) : p[i] = s[a + i]
    BY <1>1, <1>2, <1>3, <1>4, Part
  <2>2. \A i \in 1..(b - a) : a + i \in 1..Len(s) BY <1>1, <1>2, <1>4
  <2>3. p \in Seq(S) /\ \A i \in 1..Len(p) : \E j \in 1..Len(s) : p[i] = s[j] BY <2>1, <2>2
  <2> QED BY <1>03, <2>3
<1>5. CASE ~(a <= b)
  <2>1. p = << >> BY <1>1, <1>2, <1>3, <1>5
  <2>2. p \in Seq(S) /\ \A i \in 1..Len(p) : \E j \in 1..Len(s) : p[i] = s[j] BY <2>1
  <2> QED BY <1>03, <2>2
<1> QED BY <1>4, <1>5

(* Pages that are read in order follow one another. *)
WithPage(t, s, n) == t \o Page(s, n)

LEMMA PageFollows ==
  ASSUME NEW S, NEW s \in Seq(S), NEW n \in Nat \ {0}, NEW a, a = Ahead(n), a \in Nat, a <= Len(s),
         NEW t \in Seq(S), Len(t) = a, NEW u, u = WithPage(t, s, n)
  PROVE  /\ u \in Seq(S) /\ Len(u) <= Len(s)
         /\ \A i \in 1..Len(u) : u[i] = IF i <= a THEN t[i] ELSE s[i]
         /\ LastPage(s, n) => Len(u) = Len(s)
         /\ ~LastPage(s, n) => Len(u) = Ahead(n + 1)
<1>00. PICK c : c = n * PageSize OBVIOUS
<1>01. PICK b : b = IF c < Len(s) THEN c ELSE Len(s) OBVIOUS
<1>1. a \in Nat /\ c \in Nat /\ c = a + PageSize /\ b \in Nat /\ a <= b /\ b <= Len(s)
      /\ Ahead(n + 1) = c
  BY <1>00, <1>01, PageSizeAssumption DEF Ahead
<1>2. Page(s, n) = SubSeq(s, a + 1, b) BY <1>00, <1>01 DEF Page, Ahead
<1>02. PICK p : p = Page(s, n) OBVIOUS
<1>3. p \in Seq(S) /\ Len(p) = b - a /\ \A i \in 1..(b - a) : p[i] = s[a + i]
  <2>1. p = SubSeq(s, a + 1, b) BY <1>02, <1>2
  <2>2. a \in Nat /\ b \in Nat /\ a <= b /\ b <= Len(s) BY <1>1
  <2>3. /\ SubSeq(s, a + 1, b) \in Seq(S) /\ Len(SubSeq(s, a + 1, b)) = b - a
        /\ \A i \in 1..(b - a) : SubSeq(s, a + 1, b)[i] = s[a + i]
    <3>1. \A x, y \in Nat : x <= y /\ y <= Len(s) =>
            /\ SubSeq(s, x + 1, y) \in Seq(S) /\ Len(SubSeq(s, x + 1, y)) = y - x
            /\ \A i \in 1..(y - x) : SubSeq(s, x + 1, y)[i] = s[x + i]
      BY Part
    <3> QED BY <2>2, <3>1
  <2> QED BY <2>1, <2>3
<1>4. /\ u \in Seq(S) /\ Len(u) = b
      /\ \A i \in 1..b : u[i] = IF i <= a THEN t[i] ELSE p[i - a]
  <2>1. u = t \o p BY <1>02 DEF WithPage
  <2>2. /\ t \o p \in Seq(S) /\ Len(t \o p) = Len(t) + Len(p)
        /\ \A i \in 1..(Len(t) + Len(p)) :
             (t \o p)[i] = IF i <= Len(t) THEN t[i] ELSE p[i - Len(t)]
    BY <1>3, Concatenated
  <2>3. Len(t) + Len(p) = b BY <1>1, <1>3
  <2> QED BY <2>1, <2>2, <2>3
<1>5. \A i \in 1..b : ~(i <= a) => p[i - a] = s[i]
  <2> TAKE i \in 1..b
  <2> HAVE ~(i <= a)
  <2>1. i - a \in 1..(b - a) /\ a + (i - a) = i BY <1>1
  <2> QED BY <1>3, <2>1
<1>6. LastPage(s, n) <=> c >= Len(s) BY <1>00 DEF LastPage
<1> QED BY <1>01, <1>1, <1>4, <1>5, <1>6

LEMMA ReadLater ==
  ASSUME NEW rs \in Seq(Reviewed), NEW qs \in Seq(Reviewed), Len(rs) <= Len(qs),
         \A i \in 1..Len(rs) : ReadOf(rs[i], qs[i]), NEW u, NEW i \in Nat, Later(rs, u, i)
  PROVE  Later(qs, u, i)
<1>1. PICK j \in (i + 1)..Len(rs) : rs[j].by = u /\ Decisive(rs[j]) BY DEF Later
<1>2. j \in 1..Len(rs) /\ j \in (i + 1)..Len(qs) BY <1>1
<1>3. ReadOf(rs[j], qs[j]) BY <1>2
<1> QED BY <1>1, <1>2, <1>3 DEF Later, ReadOf, Decisive

WithReview(rs, r) == Append(rs, r)
Dismissed(rs, n) == [rs EXCEPT ![n].state = "DISMISSED"]

LEMMA StandsAppended ==
  ASSUME NEW rs \in Seq(Reviewed), NEW r \in Reviewed, NEW qs, qs = WithReview(rs, r)
  PROVE  /\ qs \in Seq(Reviewed) /\ Len(qs) = Len(rs) + 1 /\ qs[Len(rs) + 1] = r
         /\ \A i \in 1..Len(rs) : qs[i] = rs[i]
         /\ \A i \in 1..Len(rs) : Stands(qs, i) <=> Stands(rs, i) /\ ~(r.by = rs[i].by /\ Decisive(r))
         /\ Stands(qs, Len(rs) + 1) <=> r.state = "APPROVED"
<1>1. /\ qs \in Seq(Reviewed) /\ Len(qs) = Len(rs) + 1 /\ qs[Len(rs) + 1] = r
      /\ Len(rs) \in Nat
      /\ \A i \in 1..Len(rs) : qs[i] = rs[i]
  BY DEF WithReview
<1>2. ASSUME NEW i \in 1..Len(rs), NEW u
      PROVE  Later(qs, u, i) <=> Later(rs, u, i) \/ (r.by = u /\ Decisive(r))
  <2>1. \A j : j \in (i + 1)..Len(qs) <=> j \in (i + 1)..Len(rs) \/ j = Len(rs) + 1 BY <1>1
  <2>2. \A j \in (i + 1)..Len(rs) : qs[j] = rs[j] BY <1>1
  <2> QED BY <1>1, <2>1, <2>2 DEF Later
<1>3. ~Later(qs, qs[Len(rs) + 1].by, Len(rs) + 1)
  <2>1. (Len(rs) + 1 + 1)..Len(qs) = {} BY <1>1
  <2> QED BY <2>1 DEF Later
<1>4. \A i \in 1..Len(rs) : Stands(qs, i) <=> Stands(rs, i) /\ ~(r.by = rs[i].by /\ Decisive(r))
  BY <1>1, <1>2 DEF Stands
<1>5. Stands(qs, Len(rs) + 1) <=> r.state = "APPROVED" BY <1>1, <1>3 DEF Stands
<1> QED BY <1>1, <1>4, <1>5

LEMMA StandsDismissed ==
  ASSUME NEW rs \in Seq(Reviewed), NEW n \in 1..Len(rs), rs[n].state = "APPROVED",
         ~\E j \in (n + 1)..Len(rs) : rs[j].by = rs[n].by,
         NEW qs, qs = Dismissed(rs, n)
  PROVE  /\ qs \in Seq(Reviewed) /\ Len(qs) = Len(rs)
         /\ \A i \in 1..Len(rs) : ReadOf(rs[i], qs[i])
         /\ \A i \in 1..Len(rs) : Stands(qs, i) <=> Stands(rs, i) /\ rs[i].by # rs[n].by
<1>0. Len(rs) \in Nat /\ rs[n] \in Reviewed OBVIOUS
<1> PICK d : d = [rs[n] EXCEPT !.state = "DISMISSED"] OBVIOUS
<1>1. d \in Reviewed /\ d.by = rs[n].by /\ d.sha = rs[n].sha /\ d.state = "DISMISSED"
  BY <1>0 DEF Reviewed, Verdict
<1>2. qs = [rs EXCEPT ![n] = d] BY DEF Dismissed
<1>3. /\ qs \in Seq(Reviewed) /\ Len(qs) = Len(rs)
      /\ \A i \in 1..Len(rs) : qs[i] = IF i = n THEN d ELSE rs[i]
  BY <1>1, <1>2
<1>4. \A i \in 1..Len(rs) : ReadOf(rs[i], qs[i]) /\ (Decisive(qs[i]) <=> Decisive(rs[i]))
  BY <1>1, <1>3 DEF ReadOf, Decisive
<1>5. ASSUME NEW i \in 1..Len(rs)
      PROVE  Stands(qs, i) <=> Stands(rs, i) /\ rs[i].by # rs[n].by
  <2>1. Later(qs, qs[i].by, i) <=> Later(rs, rs[i].by, i)
    <3>1. \A j \in (i + 1)..Len(rs) : j \in 1..Len(rs) BY <1>0
    <3> QED BY <1>3, <1>4, <3>1 DEF Later, ReadOf
  <2>2. CASE rs[i].by # rs[n].by BY <1>3, <2>1, <2>2 DEF Stands
  <2>3. CASE i = n BY <1>1, <1>3, <2>3 DEF Stands
  <2>4. CASE rs[i].by = rs[n].by /\ i < n
    <3>1. n \in (i + 1)..Len(rs) /\ Decisive(rs[n]) BY <1>0, <2>4 DEF Decisive
    <3>2. Later(rs, rs[i].by, i) BY <2>4, <3>1 DEF Later
    <3> QED BY <2>1, <2>4, <3>2 DEF Stands
  <2>5. CASE rs[i].by = rs[n].by /\ i > n
    <3>1. i \in (n + 1)..Len(rs) BY <1>0, <2>5
    <3> QED BY <2>5, <3>1
  <2> QED BY <1>0, <2>2, <2>3, <2>4, <2>5
<1> QED BY <1>3, <1>4, <1>5

-----------------------------------------------------------------------------
(* The apply's steps. *)

LEMMA GatheringStart == GatheringInit => GatheringInv
<1> SUFFICES ASSUME GatheringInit PROVE GatheringInv OBVIOUS
<1>1. project \in Projects /\ head \in Commit BY CommitsAssumption DEF GatheringInit, Commit
<1>2. ForgeOK
  <2>1. /\ project.listing \in Seq(Check)
        /\ \A k \in Check : project.checks[k] # Never <=> Appears(project.listing, k)
        /\ project.statuses \in [Context -> {Never, "pending", "success", "failure"}]
    <3>1. /\ project.listing \in Seq(Check)
          /\ \A k \in Check :
               project.checks[k] # Never <=> \E i \in DOMAIN project.listing : project.listing[i] = k
          /\ project.statuses \in [Context -> {Never, "pending", "success", "failure"}]
      BY <1>1, ProjectsAssumption
    <3>2. DOMAIN project.listing = 1..Len(project.listing) BY <3>1
    <3> QED BY <3>1, <3>2 DEF Appears
  <2>2. /\ listing = [c \in Commit |-> listing[c]] /\ \A c \in Commit : listing[c] = project.listing
        /\ checks = [c \in Commit |-> checks[c]]
        /\ \A c \in Commit : checks[c] = [k \in Check |-> project.checks[k]]
    BY DEF GatheringInit
  <2>3. /\ statuses = [c \in Commit |-> statuses[c]]
        /\ \A c \in Commit : statuses[c] = [x \in Context |-> project.statuses[x]]
    BY DEF GatheringInit
  <2>4. \A c \in Commit : statuses[c] \in [Context -> {Never, "pending", "success", "failure"}]
    BY <2>1, <2>3
  <2>5. \A c \in Commit : checks[c] = [k \in Check |-> checks[c][k]] BY <2>2
  <2>6. \A c \in Commit : \A k \in Check : checks[c][k] # Never <=> Appears(listing[c], k)
    BY <2>1, <2>2
  <2>7. reviews \in Seq(Reviewed) /\ comments \in Seq(Remark) BY DEF GatheringInit
  <2> QED BY <1>1, <2>1, <2>2, <2>3, <2>4, <2>5, <2>6, <2>7 DEF ForgeOK
<1>3. /\ apply = Fresh0 /\ apply.pc = "new" /\ apply.revs = << >> /\ apply.cs = << >> /\ apply.page = 1
      /\ apply.green = FALSE /\ apply.changed = {} /\ apply.runs = {}
      /\ apply = [f \in ApplyFields |-> apply[f]]
  BY DEF GatheringInit, Fresh0, ApplyFields
<1>4. ApplyShape
  <2>1. apply.revs \in Seq(Reviewed) /\ apply.cs \in Seq(Remark) BY <1>3
  <2>2. apply.green \in BOOLEAN BY <1>3, Zenon
  <2> QED BY <1>3, <2>1, <2>2 DEF ApplyShape, Underway, Unread
<1>5. StandingOK /\ UnreadyOK BY <1>3 DEF GatheringInit, StandingOK, UnreadyOK, Underway
<1>6. HistoryOK /\ ChangedOK BY <1>3 DEF HistoryOK, ChangedOK, Still, Underway, Decided
<1>7. RunsOK /\ GreenOK /\ RevsOK /\ CommentsOK /\ RawOK
  BY <1>3 DEF RunsOK, GreenOK, RevsOK, CommentsOK, RawOK, Judged, Unread
<1> QED BY <1>2, <1>4, <1>5, <1>6, <1>7 DEF GatheringInv

(* Where the forge rests, what is said of it stays true. *)
LEMMA ForgeRests ==
  ASSUME GatheringInv, UNCHANGED <<project, forge, standing>>
  PROVE  ForgeOK' /\ StandingOK' /\ Remark' = Remark
<1>1. Remark' = Remark BY DEF Remark
<1>2. ForgeOK' BY <1>1 DEF GatheringInv, ForgeOK, forge
<1>3. StandingOK' BY DEF GatheringInv, StandingOK, forge
<1> QED BY <1>1, <1>2, <1>3

LEMMA BlockersRest ==
  ASSUME UNCHANGED <<checks, statuses>>
  PROVE  Blockers' = Blockers /\ \A c, k : Ours(c, k)' <=> Ours(c, k)
BY DEF Blockers, Ours

LEMMA AbortStep ==
  ASSUME GatheringInv, UNCHANGED <<project, forge, standing>>, Abort, unready' \subseteq Blockers
  PROVE  GatheringInv'
<1>1. ForgeOK' /\ StandingOK' BY ForgeRests
<1>2. apply' = [f \in ApplyFields |-> apply'[f]] BY DEF Abort, Set, Fresh0, ApplyFields
<1>3. /\ apply'.pc = "error" /\ apply'.revs = << >> /\ apply'.cs = << >> /\ apply'.page = 1
      /\ apply'.green = FALSE /\ apply'.changed = {} /\ apply'.runs = {}
  BY DEF Abort, Set, Fresh0
<1>4. ApplyShape'
  <2>1. apply'.revs \in Seq(Reviewed') /\ apply'.cs \in Seq(Remark') BY <1>3
  <2>2. apply'.green \in BOOLEAN BY <1>3, Zenon
  <2> QED BY <1>2, <1>3, <2>1, <2>2 DEF ApplyShape, Underway, Unread
<1>5. HistoryOK' /\ ChangedOK' BY <1>3 DEF HistoryOK, ChangedOK, Still, Underway, Decided
<1>6. RunsOK' /\ GreenOK' /\ RevsOK' /\ CommentsOK' /\ RawOK'
  BY <1>3 DEF RunsOK, GreenOK, RevsOK, CommentsOK, RawOK, Judged, Unread
<1>7. UnreadyOK'
  <2>1. Blockers' = Blockers BY BlockersRest DEF forge
  <2> QED BY <1>3, <2>1 DEF UnreadyOK, Underway
<1> QED BY <1>1, <1>4, <1>5, <1>6, <1>7 DEF GatheringInv

LEMMA NoComments == apply'.cs = << >> => CommentsOK'
<1> SUFFICES ASSUME apply'.cs = << >> PROVE CommentsOK' OBVIOUS
<1>1. 1..Len(apply'.cs) = {} OBVIOUS
<1> QED BY <1>1 DEF CommentsOK

(* A step of the apply is judged by the fields that it sets. *)
LEMMA OwnStep ==
  ASSUME GatheringInv, UNCHANGED <<project, forge, history>>, Underway,
         ApplyShape', ChangedOK', RunsOK', GreenOK', RevsOK', CommentsOK', RawOK'
  PROVE  GatheringInv'
<1>1. ForgeOK' /\ StandingOK' BY ForgeRests DEF history
<1>2. UnreadyOK'
  <2>1. Blockers' = Blockers BY BlockersRest DEF forge
  <2> QED BY <2>1 DEF GatheringInv, UnreadyOK, history, readiness
<1>3. Said(comments)' = Said(comments) BY DEF Said, forge
<1>4. HistoryOK' BY <1>3 DEF GatheringInv, HistoryOK, forge, history
<1> QED BY <1>1, <1>2, <1>4 DEF GatheringInv

(* ... and one that moves on to another call leaves these alone. *)
LEMMA OnStep ==
  ASSUME GatheringInv, UNCHANGED <<project, forge, history>>, Underway,
         apply'.pc \notin Unread, apply.pc \notin Unread,
         apply'.sha = apply.sha, apply'.changed = apply.changed, apply'.green = apply.green,
         apply'.pc = "decided" => HeadStands
  PROVE  ChangedOK' /\ RunsOK' /\ GreenOK'
<1>1. /\ head' = head /\ project' = project /\ unready' = unready /\ troubled' = troubled
      /\ shifted' = shifted /\ returned' = returned
  BY DEF forge, history, readiness
<1>2. apply.pc # "files" /\ apply'.pc # "files" /\ apply'.pc # "checks" /\ apply'.pc # "statuses"
      /\ apply.pc # "statuses"
  BY DEF Unread
<1>3. ChangedOK' BY <1>1, <1>2 DEF GatheringInv, ChangedOK, Still, Underway, Decided, HeadStands
<1>4. RunsOK' BY <1>2 DEF RunsOK
<1>5. GreenOK' BY <1>1, <1>2 DEF GatheringInv, GreenOK
<1> QED BY <1>3, <1>4, <1>5

LEMMA ReadPRStep == GatheringInv /\ ReadPR => GatheringInv'
<1> SUFFICES ASSUME GatheringInv, ReadPR PROVE GatheringInv' OBVIOUS
<1>1. UNCHANGED <<project, forge, standing, shifted, returned>> /\ apply.pc = "new"
  BY DEF ReadPR, forge
<1>2. ForgeOK' /\ StandingOK' /\ Remark' = Remark BY <1>1, ForgeRests
<1>3. Blockers' = Blockers /\ unready' = Blockers /\ troubled' = Blockers
  BY <1>1, BlockersRest DEF forge, ReadPR
<1>4. CASE Abort BY <1>1, <1>3, <1>4, AbortStep
<1>5. CASE Set([Goto("files") EXCEPT !.sha = head])
  <2>1. apply = [f \in ApplyFields |-> apply[f]] BY DEF GatheringInv, ApplyShape
  <2>2. apply' = [[apply EXCEPT !.pc = "files"] EXCEPT !.sha = head] BY <1>5 DEF Set, Goto
  <2>3. /\ apply' = [f \in ApplyFields |-> apply'[f]]
        /\ apply'.pc = "files" /\ apply'.sha = head /\ apply'.revs = apply.revs
        /\ apply'.cs = apply.cs /\ apply'.page = apply.page /\ apply'.green = apply.green
        /\ apply'.changed = apply.changed /\ apply'.runs = apply.runs
    BY <2>1, <2>2 DEF ApplyFields
  <2>4. /\ apply.revs = << >> /\ apply.cs = << >> /\ apply.page = 1 /\ apply.green \in BOOLEAN
        /\ apply.changed = {} /\ apply.runs = {}
    BY <1>1 DEF GatheringInv, ApplyShape, Unread, Underway
  <2>5. head' = head /\ head \in Commit /\ project' = project
    BY <1>1 DEF forge, GatheringInv, ForgeOK
  <2>6. ApplyShape' BY <2>3, <2>4, <2>5 DEF ApplyShape, Unread, Underway, Commit
  <2>7. Said(comments)' = Said(comments) BY <1>1 DEF Said, forge
  <2>8. HistoryOK' BY <1>1, <2>7 DEF HistoryOK, ReadPR
  <2>9. ChangedOK'
    <3>1. FirstOf(project.files[head], Ahead(1)) = {}
      <4>1. Ahead(1) = 0 BY PageSizeAssumption DEF Ahead
      <4> QED BY <4>1 DEF FirstOf
    <3> QED BY <2>3, <2>4, <2>5, <3>1 DEF ChangedOK, Decided
  <2>10. RunsOK' /\ GreenOK' /\ RevsOK' /\ CommentsOK' /\ RawOK'
    BY <2>3, <2>4 DEF RunsOK, GreenOK, RevsOK, CommentsOK, RawOK, Judged, Unread
  <2>11. UnreadyOK' BY <1>3 DEF UnreadyOK
  <2> QED BY <1>2, <2>6, <2>8, <2>9, <2>10, <2>11 DEF GatheringInv
<1> QED BY <1>4, <1>5 DEF ReadPR

(* A call that fails ends the apply. *)
LEMMA CallStep ==
  ASSUME GatheringInv, NEW pc, NEW answer, Call(pc, answer)
  PROVE  /\ apply.pc = pc /\ UNCHANGED <<project, forge, history>>
         /\ (apply' = answer => GatheringInv') => GatheringInv'
<1>1. apply.pc = pc /\ UNCHANGED <<project, forge, history>> BY DEF Call
<1>2. unready' \subseteq Blockers BY <1>1 DEF GatheringInv, UnreadyOK, history, readiness
<1>3. Abort => GatheringInv' BY <1>1, <1>2, AbortStep DEF history
<1> QED BY <1>1, <1>3 DEF Call, Set

(* What has been read of a list with the n-th page. *)
LEMMA PageExtends ==
  ASSUME NEW S, NEW s \in Seq(S), NEW n \in Nat \ {0}
  PROVE  /\ \A x \in ToSet(Page(s, n)) : \E i \in 1..Len(s) : i <= Ahead(n + 1) /\ x = s[i]
         /\ \A i \in 1..Len(s) : i <= Ahead(n + 1) => i <= Ahead(n) \/ s[i] \in ToSet(Page(s, n))
         /\ LastPage(s, n) => Len(s) <= Ahead(n + 1)
         /\ Ahead(n) \in Nat /\ Ahead(n + 1) \in Nat /\ Ahead(n) <= Ahead(n + 1)
<1>01. PICK a : a = Ahead(n) OBVIOUS
<1>02. PICK c : c = Ahead(n + 1) OBVIOUS
<1>03. PICK b : b = IF c < Len(s) THEN c ELSE Len(s) OBVIOUS
<1>04. PICK p : p = Page(s, n) OBVIOUS
<1>1. a \in Nat /\ c \in Nat /\ a <= c /\ c = n * PageSize /\ b \in Nat /\ b <= Len(s) /\ b <= c
  BY <1>01, <1>02, <1>03, PageSizeAssumption DEF Ahead
<1>2. p = SubSeq(s, a + 1, b) BY <1>01, <1>02, <1>03, <1>04, <1>1 DEF Page, Ahead
<1>3. LastPage(s, n) => Len(s) <= c BY <1>1 DEF LastPage
<1>4. CASE a <= b
  <2>1. p \in Seq(S) /\ Len(p) = b - a /\ \A i \in 1..(b - a) : p[i] = s[a + i]
    <3>1. \A x, y \in Nat : x <= y /\ y <= Len(s) =>
            /\ SubSeq(s, x + 1, y) \in Seq(S) /\ Len(SubSeq(s, x + 1, y)) = y - x
            /\ \A i \in 1..(y - x) : SubSeq(s, x + 1, y)[i] = s[x + i]
      BY Part
    <3> QED BY <1>1, <1>2, <1>4, <3>1
  <2>2. \A i \in 1..(b - a) : a + i \in 1..Len(s) /\ a + i <= c BY <1>1, <1>4
  <2>3. DOMAIN p = 1..(b - a) BY <2>1
  <2>4. \A x \in ToSet(p) : \E i \in 1..Len(s) : i <= c /\ x = s[i] BY <2>1, <2>2, <2>3 DEF ToSet
  <2>5. ASSUME NEW i \in 1..Len(s), i <= c, ~(i <= a) PROVE s[i] \in ToSet(p)
    <3>1. i - a \in 1..(b - a) /\ a + (i - a) = i BY <1>1, <1>03, <2>5
    <3>2. p[i - a] = s[i] BY <2>1, <3>1
    <3> QED BY <2>3, <3>1, <3>2 DEF ToSet
  <2> QED BY <1>01, <1>02, <1>04, <1>1, <1>3, <2>4, <2>5
<1>5. CASE ~(a <= b)
  <2>1. ToSet(p) = {} BY <1>1, <1>2, <1>5 DEF ToSet
  <2>2. \A i \in 1..Len(s) : i <= a BY <1>1, <1>03, <1>5
  <2> QED BY <1>01, <1>02, <1>04, <1>1, <1>3, <2>1, <2>2
<1> QED BY <1>4, <1>5

LEMMA FilesRead ==
  ASSUME NEW S, NEW s \in Seq(S), NEW n \in Nat \ {0}
  PROVE  /\ FirstOf(s, Ahead(n)) \cup ToSet(Page(s, n)) = FirstOf(s, Ahead(n + 1))
         /\ LastPage(s, n) => FirstOf(s, Ahead(n + 1)) = ToSet(s)
<1>1. /\ \A x \in ToSet(Page(s, n)) : \E i \in 1..Len(s) : i <= Ahead(n + 1) /\ x = s[i]
      /\ \A i \in 1..Len(s) : i <= Ahead(n + 1) => i <= Ahead(n) \/ s[i] \in ToSet(Page(s, n))
      /\ LastPage(s, n) => Len(s) <= Ahead(n + 1)
      /\ Ahead(n) \in Nat /\ Ahead(n + 1) \in Nat /\ Ahead(n) <= Ahead(n + 1)
  BY PageExtends
<1>2. \A i \in 1..Len(s) : i <= Ahead(n) => i <= Ahead(n + 1) BY <1>1
<1>3. FirstOf(s, Ahead(n)) \cup ToSet(Page(s, n)) = FirstOf(s, Ahead(n + 1)) BY <1>1, <1>2 DEF FirstOf
<1>4. ASSUME LastPage(s, n) PROVE FirstOf(s, Ahead(n + 1)) = ToSet(s)
  <2>1. \A i \in 1..Len(s) : i <= Ahead(n + 1) BY <1>1, <1>4
  <2>2. DOMAIN s = 1..Len(s) OBVIOUS
  <2> QED BY <2>1, <2>2 DEF FirstOf, ToSet
<1> QED BY <1>3, <1>4

LEMMA ReadFilesStep == GatheringInv /\ ReadFiles => GatheringInv'
<1> SUFFICES ASSUME GatheringInv, ReadFiles PROVE GatheringInv' OBVIOUS
<1>01. PICK files : files = project.files[head] OBVIOUS
<1>02. PICK read : read = apply.changed \cup ToSet(Page(files, apply.page)) OBVIOUS
<1>03. PICK got : got = [apply EXCEPT !.changed = read] OBVIOUS
<1>04. PICK answer : answer = IF LastPage(files, apply.page) THEN [got EXCEPT !.pc = "checks", !.page = 1]
                                                            ELSE [got EXCEPT !.page = @ + 1]
  OBVIOUS
<1>0. apply = [f \in ApplyFields |-> apply[f]] BY DEF GatheringInv, ApplyShape
<1>1. /\ apply.pc = "files" /\ UNCHANGED <<project, forge, history>>
      /\ (apply' = answer => GatheringInv') => GatheringInv'
  <2>1. got = [apply EXCEPT !.changed = @ \cup ToSet(Page(files, apply.page))]
    BY <1>0, <1>02, <1>03 DEF ApplyFields
  <2>2. Call("files", answer) BY <1>01, <1>04, <2>1 DEF ReadFiles
  <2> QED BY <2>2, CallStep
<1>05. SUFFICES ASSUME apply' = answer PROVE GatheringInv' BY <1>1
<1>2. Underway BY <1>1 DEF Underway
<1>3. /\ got = [f \in ApplyFields |-> got[f]] /\ got.pc = "files" /\ got.changed = read
      /\ got.sha = apply.sha /\ got.revs = apply.revs /\ got.cs = apply.cs
      /\ got.page = apply.page /\ got.green = apply.green /\ got.runs = apply.runs
  BY <1>0, <1>03, <1>1 DEF ApplyFields
<1>06. PICK last : last = LastPage(files, apply.page) OBVIOUS
<1>4. /\ apply' = [f \in ApplyFields |-> apply'[f]]
      /\ apply'.pc = (IF last THEN "checks" ELSE "files")
      /\ apply'.page = (IF last THEN 1 ELSE apply.page + 1)
      /\ apply'.sha = apply.sha /\ apply'.revs = apply.revs /\ apply'.cs = apply.cs
      /\ apply'.green = apply.green /\ apply'.runs = apply.runs /\ apply'.changed = read
  <2>1. CASE LastPage(files, apply.page) BY <1>04, <1>05, <1>06, <1>3, <2>1 DEF ApplyFields
  <2>2. CASE ~LastPage(files, apply.page) BY <1>04, <1>05, <1>06, <1>3, <2>2 DEF ApplyFields
  <2> QED BY <2>1, <2>2
<1>5. /\ Remark' = Remark /\ head' = head /\ project' = project /\ returned' = returned
  BY <1>1, ForgeRests DEF forge, history
<1>6. /\ apply.page \in Nat \ {0} /\ apply.green \in BOOLEAN /\ apply.sha \in Commit
      /\ apply.revs = << >> /\ apply.cs = << >> /\ apply.runs = {}
  BY <1>1, <1>2 DEF GatheringInv, ApplyShape, Unread
<1>7. ApplyShape'
  <2>1. apply'.pc \in {"files", "checks"} BY <1>4
  <2>2. apply'.page \in Nat \ {0} BY <1>4, <1>6
  <2> QED BY <1>4, <1>5, <1>6, <2>1, <2>2 DEF ApplyShape, Underway, Unread, Commit
<1>8. ChangedOK'
  <2> SUFFICES ASSUME ~returned, head = apply.sha
               PROVE  /\ ~last => read = FirstOf(files, Ahead(apply.page + 1))
                      /\ last => read = ToSet(files)
    BY <1>01, <1>4, <1>5 DEF ChangedOK, Still, Decided
  <2>1. apply.changed = FirstOf(files, Ahead(apply.page))
    BY <1>01, <1>1, <1>2 DEF GatheringInv, ChangedOK, Still
  <2>2. files \in Seq(ToSet(files)) BY <1>01, ProjectsAssumption DEF GatheringInv, ForgeOK, Commit
  <2>3. \A n \in Nat \ {0} :
          /\ FirstOf(files, Ahead(n)) \cup ToSet(Page(files, n)) = FirstOf(files, Ahead(n + 1))
          /\ LastPage(files, n) => FirstOf(files, Ahead(n + 1)) = ToSet(files)
    BY <2>2, FilesRead
  <2> QED BY <1>02, <1>06, <1>6, <2>1, <2>3
<1>9. RunsOK'
  <2> SUFFICES ASSUME last PROVE RunsOK' BY <1>4 DEF RunsOK
  <2>1. apply'.page = 1 /\ apply'.runs = {} BY <1>4, <1>6
  <2>2. Ahead(1) = 0 BY PageSizeAssumption DEF Ahead
  <2> QED BY <2>1, <2>2 DEF RunsOK, Covered
<1>10. GreenOK' /\ RevsOK' /\ RawOK' BY <1>4 DEF GreenOK, RevsOK, RawOK, Judged, Unread
<1>11. CommentsOK' BY <1>4, <1>6, NoComments
<1> QED BY <1>1, <1>2, <1>7, <1>8, <1>9, <1>10, <1>11, OwnStep

(* A check that is listed, read and blocks is among those that fail, and     *)
(* what fails has blocked.                                                   *)
LEMMA ToldFails ==
  ASSUME NEW runs, NEW c \in Commit, \A r \in runs : WasRead(r, c),
         NEW k \in Check, <<c, k>> \in unready, unready \subseteq Blockers,
         NEW r \in runs, Told(r, c, k)
  PROVE  r \in FailingChecks(runs)
<1>1. ~Ours(c, k) /\ checks[c][k] \notin Fine
  <2>1. <<c, k>> \in Blockers OBVIOUS
  <2>2. k \notin Context BY CheckAssumption
  <2> QED BY <2>1, <2>2 DEF Blockers
<1>2. r.name = k.name /\ r.run = k.run /\ r.state \notin Fine BY DEF Told, RunOf
<1>3. r.run # ReeveRun /\ r.name \notin SelfNames BY <1>1, <1>2 DEF Ours
<1>4. ~ConcludedWell(r) BY <1>2 DEF Fine, ConcludedWell
<1>5. r.name \notin {cr.name : cr \in {y \in runs : y.run = ReeveRun /\ y.self}}
  <2> SUFFICES ASSUME NEW cr \in runs, cr.run = ReeveRun, cr.self, cr.name = r.name PROVE FALSE
    OBVIOUS
  <2>1. PICK l \in Check : RunOf(cr, l) /\ checks[c][l] # Never BY DEF WasRead
  <2>2. l.run = ReeveRun /\ l.self /\ l.name = k.name BY <1>2, <2>1 DEF RunOf
  <2> QED BY <1>1, <2>1, <2>2 DEF Ours
<1> QED BY <1>3, <1>4, <1>5 DEF FailingChecks, OwnNames

LEMMA FailingTroubled ==
  ASSUME NEW runs, NEW c \in Commit, \A r \in runs : WasRead(r, c),
         \A k \in Check : checks[c][k] # Never => \E r \in runs : RunOf(r, k),
         NEW r \in FailingChecks(runs)
  PROVE  \E k \in Check : <<c, k>> \in troubled
<1>1. r \in runs /\ r.run # ReeveRun /\ r.name \notin OwnNames(runs) /\ ~ConcludedWell(r)
  BY DEF FailingChecks
<1>2. PICK k \in Check :
        /\ RunOf(r, k) /\ checks[c][k] # Never /\ r.state # Never
        /\ r.state \notin Fine /\ ~Ours(c, k) => <<c, k>> \in troubled
  BY <1>1 DEF WasRead
<1>3. r.state \notin Fine BY <1>1, <1>2 DEF Fine, ConcludedWell
<1>4. ~Ours(c, k)
  <2>1. k.run # ReeveRun /\ k.name \notin SelfNames BY <1>1, <1>2 DEF RunOf, OwnNames
  <2>2. ASSUME NEW l \in Check, l.run = ReeveRun, l.self, l.name = k.name, checks[c][l] # Never
        PROVE  FALSE
    <3>1. PICK cr \in runs : RunOf(cr, l) BY <2>2
    <3>2. cr.run = ReeveRun /\ cr.self /\ cr.name = r.name BY <1>2, <2>2, <3>1 DEF RunOf
    <3>3. r.name \in OwnNames(runs) BY <3>2 DEF OwnNames
    <3> QED BY <1>1, <3>3
  <2> QED BY <2>1, <2>2 DEF Ours
<1> QED BY <1>2, <1>3, <1>4

(* A page of check runs. *)
LEMMA ReadRuns ==
  ASSUME GatheringInv, apply.pc = "checks", NEW runs,
         runs = apply.runs \cup {CheckRun(apply.sha, k) :
                                   k \in ToSet(Page(listing[apply.sha], apply.page))}
  PROVE  /\ \A r \in runs : WasRead(r, apply.sha)
         /\ ~shifted => Covered(runs, apply.sha, Ahead(apply.page + 1))
<1>01. PICK c : c = apply.sha OBVIOUS
<1>02. PICK list : list = listing[c] OBVIOUS
<1>03. PICK n : n = apply.page OBVIOUS
<1>1. Underway BY DEF Underway
<1>2. c \in Commit /\ n \in Nat \ {0} BY <1>01, <1>03, <1>1 DEF GatheringInv, ApplyShape
<1>3. list \in Seq(Check) /\ \A k \in Check : checks[c][k] # Never <=> Appears(list, k)
  BY <1>02, <1>2 DEF GatheringInv, ForgeOK
<1>4. /\ \A x \in ToSet(Page(list, n)) : \E i \in 1..Len(list) : i <= Ahead(n + 1) /\ x = list[i]
      /\ \A i \in 1..Len(list) : i <= Ahead(n + 1) => i <= Ahead(n) \/ list[i] \in ToSet(Page(list, n))
  BY <1>2, <1>3, PageExtends
<1>5. /\ \A r \in apply.runs : WasRead(r, c)
      /\ ~shifted => Covered(apply.runs, c, Ahead(n))
  BY <1>01, <1>03 DEF GatheringInv, RunsOK
<1>6. /\ unready \subseteq Blockers /\ Blockers \subseteq troubled
  BY <1>1 DEF GatheringInv, UnreadyOK
<1>7. \A k : /\ RunOf(CheckRun(c, k), k) /\ CheckRun(c, k).state = checks[c][k]
  BY DEF RunOf, CheckRun
<1>8. ASSUME NEW k \in ToSet(Page(list, n))
      PROVE  WasRead(CheckRun(c, k), c) /\ Told(CheckRun(c, k), c, k)
  <2>1. k \in Check /\ checks[c][k] # Never BY <1>3, <1>4 DEF Appears
  <2>2. checks[c][k] \notin Fine /\ ~Ours(c, k) => <<c, k>> \in troubled
    BY <1>2, <1>6, <2>1 DEF Blockers
  <2>3. <<c, k>> \in unready => checks[c][k] \notin Fine
    <3>1. k \notin Context BY <2>1, CheckAssumption
    <3> QED BY <1>6, <3>1 DEF Blockers
  <2> QED BY <1>7, <2>1, <2>2, <2>3 DEF WasRead, Told
<1>9. \A r \in runs : WasRead(r, c) BY <1>01, <1>02, <1>03, <1>5, <1>8
<1>10. ASSUME ~shifted, NEW i \in 1..Len(list), i <= Ahead(n + 1)
       PROVE  \E r \in runs : Told(r, c, list[i])
  <2>1. CASE i <= Ahead(n) BY <1>02, <1>5, <1>10, <2>1 DEF Covered
  <2>2. CASE list[i] \in ToSet(Page(list, n)) BY <1>01, <1>02, <1>03, <1>8, <2>2
  <2> QED BY <1>4, <1>10, <2>1, <2>2
<1> QED BY <1>01, <1>02, <1>03, <1>9, <1>10 DEF Covered

LEMMA ReadChecksStep == GatheringInv /\ ReadChecks => GatheringInv'
<1> SUFFICES ASSUME GatheringInv, ReadChecks PROVE GatheringInv' OBVIOUS
<1>01. PICK list : list = listing[apply.sha] OBVIOUS
<1>02. PICK runs : runs = apply.runs \cup {CheckRun(apply.sha, k) : k \in ToSet(Page(list, apply.page))}
  OBVIOUS
<1>03. PICK green : green = (FailingChecks(runs) = {}) OBVIOUS
<1>04. PICK last : last = LastPage(list, apply.page) OBVIOUS
<1>05. PICK answer :
         answer = IF LastPage(list, apply.page)
                  THEN [apply EXCEPT !.pc = "statuses", !.page = 1, !.runs = {}, !.green = green]
                  ELSE [apply EXCEPT !.page = @ + 1, !.runs = runs]
  OBVIOUS
<1>1. /\ apply.pc = "checks" /\ UNCHANGED <<project, forge, history>>
      /\ (apply' = answer => GatheringInv') => GatheringInv'
  <2>1. Call("checks", answer) BY <1>01, <1>02, <1>03, <1>05 DEF ReadChecks
  <2> QED BY <2>1, CallStep
<1>06. SUFFICES ASSUME apply' = answer PROVE GatheringInv' BY <1>1
<1>0. apply = [f \in ApplyFields |-> apply[f]] BY DEF GatheringInv, ApplyShape
<1>2. Underway BY <1>1 DEF Underway
<1>4. /\ apply' = [f \in ApplyFields |-> apply'[f]]
      /\ apply'.pc = (IF last THEN "statuses" ELSE "checks")
      /\ apply'.page = (IF last THEN 1 ELSE apply.page + 1)
      /\ apply'.runs = (IF last THEN {} ELSE runs)
      /\ apply'.green = (IF last THEN green ELSE apply.green)
      /\ apply'.sha = apply.sha /\ apply'.revs = apply.revs /\ apply'.cs = apply.cs
      /\ apply'.changed = apply.changed
  <2>1. CASE LastPage(list, apply.page) BY <1>0, <1>04, <1>05, <1>06, <1>1, <2>1 DEF ApplyFields
  <2>2. CASE ~LastPage(list, apply.page) BY <1>0, <1>04, <1>05, <1>06, <1>1, <2>2 DEF ApplyFields
  <2> QED BY <2>1, <2>2
<1>5. /\ Remark' = Remark /\ head' = head /\ project' = project /\ unready' = unready
      /\ troubled' = troubled /\ shifted' = shifted /\ returned' = returned
      /\ checks' = checks /\ listing' = listing
  BY <1>1, ForgeRests DEF forge, history, readiness
<1>6. /\ apply.page \in Nat \ {0} /\ apply.green \in BOOLEAN /\ apply.sha \in Commit
      /\ apply.revs = << >> /\ apply.cs = << >>
  BY <1>1, <1>2 DEF GatheringInv, ApplyShape, Unread
<1>7. green \in BOOLEAN BY <1>03
<1>8. ApplyShape'
  <2>1. apply'.pc \in {"statuses", "checks"} BY <1>4
  <2>2. apply'.page \in Nat \ {0} BY <1>4, <1>6
  <2>3. apply'.green \in BOOLEAN BY <1>4, <1>6, <1>7
  <2>4. apply'.pc # "checks" => apply'.runs = {} BY <1>4
  <2> QED BY <1>4, <1>5, <1>6, <2>1, <2>2, <2>3, <2>4 DEF ApplyShape, Underway, Unread, Commit
<1>9. ChangedOK'
  <2>1. apply'.pc \notin {"files", "decided"} BY <1>4
  <2> QED BY <1>1, <1>4, <1>5, <2>1 DEF GatheringInv, ChangedOK, Still, Decided, Underway
<1>10. /\ \A r \in runs : WasRead(r, apply.sha)
       /\ ~shifted => Covered(runs, apply.sha, Ahead(apply.page + 1))
  BY <1>01, <1>02, <1>1, ReadRuns
<1>11. RunsOK'
  <2> SUFFICES ASSUME ~last PROVE RunsOK' BY <1>4 DEF RunsOK
  <2>1. \A r, c : WasRead(r, c)' <=> WasRead(r, c) BY <1>5 DEF WasRead, Ours
  <2>2. \A cr, c, n : Covered(cr, c, n)' <=> Covered(cr, c, n) BY <1>5 DEF Covered, Told
  <2>3. apply'.runs = runs /\ apply'.page = apply.page + 1 BY <1>4
  <2> QED BY <1>4, <1>5, <1>10, <2>1, <2>2, <2>3 DEF RunsOK
<1>12. GreenOK'
  <2> SUFFICES ASSUME last, ~shifted
               PROVE  /\ green => \A x \in unready : x[1] = apply.sha => x[2] \in Context
                      /\ ~green => \E x \in troubled : x[1] = apply.sha
    <3>1. CASE ~last BY <1>4, <3>1 DEF GreenOK, Unread
    <3>2. CASE shifted BY <1>4, <1>5, <3>2 DEF GreenOK, Unread
    <3> QED BY <1>4, <1>5, <3>1, <3>2 DEF GreenOK, Unread
  <2>1. list \in Seq(Check) /\ \A k \in Check : checks[apply.sha][k] # Never <=> Appears(list, k)
    BY <1>01, <1>6 DEF GatheringInv, ForgeOK
  <2>2. Len(list) <= Ahead(apply.page + 1) /\ Ahead(apply.page + 1) \in Nat
    BY <1>04, <1>6, <2>1, PageExtends
  <2>3. \A i \in 1..Len(list) : \E r \in runs : Told(r, apply.sha, list[i])
    <3>1. \A i \in 1..Len(list) : i <= Ahead(apply.page + 1) BY <2>1, <2>2
    <3> QED BY <1>01, <1>10, <3>1 DEF Covered
  <2>4. \A k \in Check : checks[apply.sha][k] # Never => \E r \in runs : Told(r, apply.sha, k)
    BY <2>1, <2>3 DEF Appears
  <2>5. unready \subseteq Blockers BY DEF GatheringInv, UnreadyOK
  <2>6. ASSUME green, NEW x \in unready, x[1] = apply.sha PROVE x[2] \in Context
    <3> SUFFICES ASSUME x[2] \notin Context PROVE FALSE OBVIOUS
    <3>1. /\ x = <<apply.sha, x[2]>> /\ x[2] \in Check /\ checks[apply.sha][x[2]] \notin Fine
      BY <2>5, <2>6 DEF Blockers
    <3>2. PICK r \in runs : Told(r, apply.sha, x[2]) BY <2>4, <3>1 DEF Fine
    <3>3. <<apply.sha, x[2]>> \in unready BY <3>1
    <3>4. r \in FailingChecks(runs) BY <1>6, <1>10, <2>5, <3>1, <3>2, <3>3, ToldFails
    <3> QED BY <1>03, <2>6, <3>4
  <2>7. ASSUME ~green PROVE \E x \in troubled : x[1] = apply.sha
    <3>1. PICK r \in FailingChecks(runs) : TRUE BY <1>03, <2>7
    <3>2. \A k \in Check : checks[apply.sha][k] # Never => \E cr \in runs : RunOf(cr, k)
      BY <2>4 DEF Told
    <3>3. PICK k \in Check : <<apply.sha, k>> \in troubled
      BY <1>6, <1>10, <3>1, <3>2, FailingTroubled
    <3> QED BY <3>3
  <2> QED BY <2>6, <2>7
<1>13. CommentsOK' BY <1>4, <1>6, NoComments
<1>14. RevsOK' /\ RawOK' BY <1>4 DEF RevsOK, RawOK, Judged
<1> QED BY <1>1, <1>2, <1>8, <1>9, <1>11, <1>12, <1>13, <1>14, OwnStep

LEMMA ReadStatusesStep == GatheringInv /\ ReadStatuses => GatheringInv'
<1> SUFFICES ASSUME GatheringInv, ReadStatuses PROVE GatheringInv' OBVIOUS
<1>01. PICK st : st = [x \in Reported(apply.sha) |-> statuses[apply.sha][x]] OBVIOUS
<1>02. PICK green : green = (apply.green /\ FailingStatuses(st) = {}) OBVIOUS
<1>03. PICK last : last = (apply.page * PageSize >= Cardinality(Reported(apply.sha))) OBVIOUS
<1>04. PICK answer : answer = IF last THEN [apply EXCEPT !.pc = "reviews", !.page = 1, !.green = green]
                                      ELSE [apply EXCEPT !.page = @ + 1]
  OBVIOUS
<1>0. apply = [f \in ApplyFields |-> apply[f]] BY DEF GatheringInv, ApplyShape
<1>1. /\ apply.pc = "statuses" /\ UNCHANGED <<project, forge, history>>
      /\ (apply' = answer => GatheringInv') => GatheringInv'
  <2>1. [apply EXCEPT !.pc = "reviews", !.page = 1, !.green = green]
          = [apply EXCEPT !.pc = "reviews", !.page = 1, !.green = @ /\ FailingStatuses(st) = {}]
    BY <1>0, <1>02 DEF ApplyFields
  <2>2. Call("statuses", answer) BY <1>01, <1>03, <1>04, <2>1 DEF ReadStatuses
  <2> QED BY <2>2, CallStep
<1>05. SUFFICES ASSUME apply' = answer PROVE GatheringInv' BY <1>1
<1>2. Underway BY <1>1 DEF Underway
<1>4. /\ apply' = [f \in ApplyFields |-> apply'[f]]
      /\ apply'.pc = (IF last THEN "reviews" ELSE "statuses")
      /\ apply'.page = (IF last THEN 1 ELSE apply.page + 1)
      /\ apply'.green = (IF last THEN green ELSE apply.green)
      /\ apply'.sha = apply.sha /\ apply'.revs = apply.revs /\ apply'.cs = apply.cs
      /\ apply'.changed = apply.changed /\ apply'.runs = apply.runs
  BY <1>0, <1>04, <1>05, <1>1 DEF ApplyFields
<1>5. /\ Remark' = Remark /\ head' = head /\ project' = project /\ unready' = unready
      /\ troubled' = troubled /\ shifted' = shifted /\ returned' = returned
      /\ reviews' = reviews
  BY <1>1, ForgeRests DEF forge, history, readiness
<1>6. /\ apply.page \in Nat \ {0} /\ apply.green \in BOOLEAN /\ apply.sha \in Commit
      /\ apply.revs = << >> /\ apply.cs = << >> /\ apply.runs = {}
  BY <1>1, <1>2 DEF GatheringInv, ApplyShape, Unread
<1>7. green \in BOOLEAN BY <1>02
<1>8. ApplyShape'
  <2>1. apply'.pc \in {"statuses", "reviews"} BY <1>4
  <2>2. apply'.page \in Nat \ {0} BY <1>4, <1>6
  <2>3. apply'.green \in BOOLEAN BY <1>4, <1>6, <1>7
  <2> QED BY <1>4, <1>5, <1>6, <2>1, <2>2, <2>3 DEF ApplyShape, Underway, Unread, Commit
<1>9. ChangedOK'
  <2>1. apply'.pc \notin {"files", "decided"} BY <1>4
  <2> QED BY <1>1, <1>4, <1>5, <2>1 DEF GatheringInv, ChangedOK, Still, Decided, Underway
<1>10. GreenOK'
  <2>1. /\ apply.green => \A x \in unready : x[1] = apply.sha => x[2] \in Context \/ shifted
        /\ ~apply.green /\ ~shifted => \E x \in troubled : x[1] = apply.sha
    BY <1>1 DEF GatheringInv, GreenOK, Unread
  <2>2. CASE ~last BY <1>4, <1>5, <2>1, <2>2 DEF GreenOK, Unread
  <2>3. CASE last
    <3>1. unready \subseteq Blockers /\ Blockers \subseteq troubled
      BY <1>2 DEF GatheringInv, UnreadyOK
    <3>2. statuses[apply.sha] \in [Context -> {Never, "pending", "success", "failure"}]
      BY <1>6 DEF GatheringInv, ForgeOK
    <3>3. ASSUME green, NEW x \in unready, x[1] = apply.sha PROVE x[2] \in Check /\ shifted
      <4>1. x[2] \notin Context
        <5> SUFFICES ASSUME x[2] \in Context PROVE FALSE OBVIOUS
        <5>1. x[2] \notin Check BY CheckAssumption
        <5>2. statuses[apply.sha][x[2]] \notin Fine BY <3>1, <3>3, <5>1 DEF Blockers
        <5>3. x[2] \in Reported(apply.sha) /\ st[x[2]] # "success"
          BY <1>01, <5>2 DEF Reported, Fine
        <5>4. x[2] \in FailingStatuses(st) BY <1>01, <5>3 DEF FailingStatuses
        <5> QED BY <1>02, <3>3, <5>4
      <4>2. x[2] \in Check BY <3>1, <3>3, <4>1 DEF Blockers
      <4> QED BY <1>02, <2>1, <3>3, <4>1, <4>2
    <3>4. ASSUME ~green, ~shifted PROVE \E x \in troubled : x[1] = apply.sha
      <4>1. CASE ~apply.green BY <2>1, <3>4, <4>1
      <4>2. CASE apply.green
        <5>1. PICK y \in FailingStatuses(st) : TRUE BY <1>02, <3>4, <4>2
        <5>2. y \in Reported(apply.sha) /\ st[y] # "success" BY <1>01, <5>1 DEF FailingStatuses
        <5>3. y \in Context /\ statuses[apply.sha][y] # Never /\ statuses[apply.sha][y] # "success"
          BY <1>01, <5>2 DEF Reported
        <5>4. statuses[apply.sha][y] \in {"pending", "failure"} BY <3>2, <5>3
        <5>5. <<apply.sha, y>> \in Blockers
          BY <1>6, <5>3, <5>4, CheckAssumption DEF Blockers, Fine
        <5> QED BY <3>1, <5>5
      <4> QED BY <4>1, <4>2
    <3> QED BY <1>4, <1>5, <2>3, <3>3, <3>4 DEF GreenOK, Unread
  <2> QED BY <2>2, <2>3
<1>11. RevsOK'
  <2>1. CASE ~last BY <1>4, <2>1 DEF RevsOK
  <2>2. CASE last
    <3>1. Len(apply'.revs) = 0 /\ Ahead(apply'.page) = 0 BY <1>4, <1>6, <2>2, PageSizeAssumption DEF Ahead
    <3>2. reviews' \in Seq(Reviewed) BY <1>5 DEF GatheringInv, ForgeOK
    <3> QED BY <1>4, <2>2, <3>1, <3>2 DEF RevsOK
  <2> QED BY <2>1, <2>2
<1>12. CommentsOK' BY <1>4, <1>6, NoComments
<1>13. RunsOK' /\ RawOK' BY <1>4 DEF RunsOK, RawOK, Judged
<1> QED BY <1>1, <1>2, <1>8, <1>9, <1>10, <1>11, <1>12, <1>13, OwnStep

LEMMA ReadReviewsStep == GatheringInv /\ ReadReviews => GatheringInv'
<1> SUFFICES ASSUME GatheringInv, ReadReviews PROVE GatheringInv' OBVIOUS
<1>01. PICK revs : revs = apply.revs \o Page(reviews, apply.page) OBVIOUS
<1>02. PICK got : got = [apply EXCEPT !.revs = revs] OBVIOUS
<1>03. PICK answer : answer = IF LastPage(reviews, apply.page)
                           THEN [[got EXCEPT !.pc = "comments"] EXCEPT !.page = 1]
                           ELSE [got EXCEPT !.page = apply.page + 1]
  OBVIOUS
<1>0. apply = [f \in ApplyFields |-> apply[f]] BY DEF GatheringInv, ApplyShape
<1>1. /\ apply.pc = "reviews" /\ UNCHANGED <<project, forge, history>>
      /\ (apply' = answer => GatheringInv') => GatheringInv'
  <2>1. got = [apply EXCEPT !.revs = @ \o Page(reviews, apply.page)] BY <1>0, <1>01, <1>02 DEF ApplyFields
  <2>2. got.page = apply.page /\ got = [f \in ApplyFields |-> got[f]]
    BY <1>0, <1>02 DEF ApplyFields
  <2>3. answer = IF LastPage(reviews, apply.page) THEN [got EXCEPT !.pc = "comments", !.page = 1]
                                                  ELSE [got EXCEPT !.page = @ + 1]
    BY <1>03, <2>2 DEF ApplyFields
  <2>4. Call("reviews", answer) BY <2>1, <2>3 DEF ReadReviews
  <2> QED BY <2>4, CallStep
<1>04. SUFFICES ASSUME apply' = answer PROVE GatheringInv' BY <1>1
<1>05. PICK last : last = LastPage(reviews, apply.page) OBVIOUS
<1>2. Underway BY <1>1 DEF Underway
<1>3. got = [f \in ApplyFields |-> got[f]] /\ got.pc = "reviews" /\ got.revs = revs
      /\ got.sha = apply.sha /\ got.cs = apply.cs /\ got.page = apply.page
      /\ got.green = apply.green /\ got.changed = apply.changed /\ got.runs = apply.runs
  BY <1>0, <1>02, <1>1 DEF ApplyFields
<1>4. /\ apply' = [f \in ApplyFields |-> apply'[f]]
      /\ apply'.pc = (IF last THEN "comments" ELSE "reviews")
      /\ apply'.sha = apply.sha /\ apply'.revs = revs /\ apply'.cs = apply.cs
      /\ apply'.page = (IF last THEN 1 ELSE apply.page + 1)
      /\ apply'.green = apply.green /\ apply'.changed = apply.changed /\ apply'.runs = apply.runs
  <2>1. CASE LastPage(reviews, apply.page) BY <1>03, <1>04, <1>05, <1>3, <2>1 DEF ApplyFields
  <2>2. CASE ~LastPage(reviews, apply.page) BY <1>03, <1>04, <1>05, <1>3, <2>2 DEF ApplyFields
  <2> QED BY <2>1, <2>2
<1>5. /\ Remark' = Remark /\ head' = head /\ project' = project
      /\ reviews' = reviews /\ UNCHANGED history
  BY <1>1, ForgeRests DEF forge, history
<1>6. /\ apply.revs \in Seq(Reviewed) /\ apply.page \in Nat \ {0} /\ apply.cs = << >>
      /\ apply.green \in BOOLEAN /\ apply.sha \in Commit /\ apply.runs = {}
  BY <1>1, <1>2 DEF GatheringInv, ApplyShape
<1>7. reviews \in Seq(Reviewed) BY DEF GatheringInv, ForgeOK
<1>8. /\ Len(apply.revs) <= Len(reviews) /\ Len(apply.revs) = Ahead(apply.page)
      /\ \A i \in 1..Len(apply.revs) :
           /\ ReadOf(apply.revs[i], reviews[i])
           /\ apply.revs[i].state = "APPROVED" => Overruled(reviews, apply.revs[i], i)
  BY <1>1 DEF GatheringInv, RevsOK
<1>06. PICK n : n = apply.page OBVIOUS
<1>07. PICK a : a = Ahead(n) OBVIOUS
<1>08. PICK t : t = apply.revs OBVIOUS
<1>9. /\ revs \in Seq(Reviewed) /\ Len(revs) <= Len(reviews)
      /\ \A i \in 1..Len(revs) : revs[i] = IF i <= a THEN t[i] ELSE reviews[i]
      /\ last => Len(revs) = Len(reviews)
      /\ ~last => Len(revs) = Ahead(n + 1)
  <2>1. n \in Nat \ {0} /\ t \in Seq(Reviewed) /\ Len(t) = a /\ a \in Nat /\ a <= Len(reviews)
        /\ revs = WithPage(t, reviews, n)
    BY <1>01, <1>06, <1>07, <1>08, <1>6, <1>8 DEF WithPage
  <2>2. last = LastPage(reviews, n) BY <1>05, <1>06
  <2> QED BY <1>07, <1>7, <2>1, <2>2, PageFollows
<1>90. /\ revs \in Seq(Reviewed) /\ Len(revs) <= Len(reviews) /\ Len(reviews) \in Nat
       /\ Len(revs) \in Nat
  BY <1>7, <1>9
<1>91. \A i \in 1..Len(revs) : i \in 1..Len(reviews) BY <1>90
<1>92. last => Len(revs) = Len(reviews) BY <1>9
<1>93. \A i \in 1..Len(revs) : IF i <= a THEN revs[i] = t[i] ELSE revs[i] = reviews[i] BY <1>9
<1>10. ApplyShape'
  <2>1. apply'.revs \in Seq(Reviewed)' /\ apply'.cs = << >> BY <1>4, <1>6, <1>90
  <2>2. apply'.cs \in Seq(Remark)' BY <2>1
  <2>3. apply'.page \in Nat \ {0} BY <1>4, <1>6
  <2> QED BY <1>4, <1>5, <1>6, <2>1, <2>2, <2>3 DEF ApplyShape, Underway, Unread, Commit
<1>11. ChangedOK' /\ RunsOK' /\ GreenOK'
  <2>1. /\ apply.pc \notin Unread /\ apply'.pc \notin Unread /\ apply'.pc # "decided"
        /\ apply'.sha = apply.sha /\ apply'.changed = apply.changed /\ apply'.green = apply.green
    BY <1>1, <1>4 DEF Unread
  <2> QED BY <1>1, <1>2, <2>1, OnStep
<1>13. CommentsOK' BY <1>4, <1>6, NoComments
<1>14. RawOK' BY <1>4 DEF RawOK, Judged
<1>15. \A i \in 1..Len(revs) : ReadOf(revs[i], reviews[i])
  <2> TAKE i \in 1..Len(revs)
  <2>1. CASE i <= a
    <3>1. i \in 1..Len(apply.revs) BY <1>06, <1>07, <1>8, <2>1
    <3> QED BY <1>08, <1>8, <1>93, <2>1, <3>1
  <2>2. CASE ~(i <= a) BY <1>93, <2>2 DEF ReadOf
  <2> QED BY <2>1, <2>2
<1>16. \A i \in 1..Len(revs) : revs[i].state = "APPROVED" => Overruled(reviews, revs[i], i)
  <2> TAKE i \in 1..Len(revs)
  <2> HAVE revs[i].state = "APPROVED"
  <2>1. CASE i <= a
    <3>1. i \in 1..Len(apply.revs) BY <1>06, <1>07, <1>8, <2>1
    <3> QED BY <1>08, <1>8, <1>93, <2>1, <3>1
  <2>2. CASE ~(i <= a)
    <3>1. revs[i] = reviews[i] /\ i \in 1..Len(reviews) BY <1>91, <1>93, <2>2
    <3>2. Stands(reviews, i) => Stance(reviews[i]) \in stood
      BY <1>2, <3>1 DEF GatheringInv, StandingOK, HistoryOK
    <3> QED BY <3>1, <3>2 DEF Stands, Overruled
  <2> QED BY <2>1, <2>2
<1>17. ASSUME last, NEW u, NEW i \in Nat
       PROVE  Later(reviews, u, i) <=> Later(revs, u, i)
  <2>1. Len(revs) = Len(reviews) /\ Len(reviews) \in Nat BY <1>90, <1>92, <1>17
  <2>2. \A j \in (i + 1)..Len(revs) :
          revs[j].by = reviews[j].by /\ (Decisive(revs[j]) <=> Decisive(reviews[j]))
    <3> TAKE j \in (i + 1)..Len(revs)
    <3>1. j \in 1..Len(revs) BY <1>90
    <3> QED BY <1>15, <3>1 DEF ReadOf, Decisive
  <2> QED BY <2>1, <2>2 DEF Later
<1>18. RevsOK'
  <2>1. CASE ~last
    <3>1. apply'.page = n + 1 /\ apply'.pc = "reviews" BY <1>06, <1>4, <2>1
    <3>2. Len(apply'.revs) = Ahead(apply'.page) BY <1>4, <1>9, <2>1, <3>1
    <3>3. stood' = stood BY <1>5 DEF history
    <3>4. /\ Len(revs) <= Len(reviews')
          /\ \A i \in 1..Len(revs) : ReadOf(revs[i], reviews'[i])
          /\ \A i \in 1..Len(revs) : revs[i].state = "APPROVED" => Overruled(reviews, revs[i], i)'
      BY <1>5, <1>15, <1>16, <1>90, <3>3 DEF Overruled
    <3> QED BY <1>4, <3>1, <3>2, <3>4 DEF RevsOK
  <2>2. CASE last
    <3>1. apply'.pc = "comments" BY <1>4, <2>2
    <3>2. Len(revs) = Len(reviews) BY <1>92, <2>2
    <3>3. \A i \in 1..Len(revs) : revs[i].state = "APPROVED" => Overruled(revs, revs[i], i)
      <4> TAKE i \in 1..Len(revs)
      <4>1. i \in Nat OBVIOUS
      <4> QED BY <1>16, <1>17, <2>2, <4>1 DEF Overruled
    <3>4. \A x \in lasting : \E i \in 1..Len(revs) : Stands(revs, i) /\ x = Stance(revs[i])
      <4> TAKE x \in lasting
      <4>1. PICK i \in 1..Len(reviews) : Stands(reviews, i) /\ x = Stance(reviews[i])
        BY <1>2 DEF GatheringInv, StandingOK, HistoryOK
      <4>2. i \in 1..Len(revs) BY <3>2
      <4>3. revs[i].state = "APPROVED" /\ Stance(revs[i]) = Stance(reviews[i])
        BY <1>15, <4>1, <4>2 DEF ReadOf, Stands, Stance
      <4>4. ~Later(revs, revs[i].by, i)
        <5>1. i \in Nat /\ revs[i].by = reviews[i].by BY <1>15, <4>2 DEF ReadOf
        <5>2. ~Later(reviews, reviews[i].by, i) BY <4>1 DEF Stands
        <5> QED BY <1>17, <2>2, <5>1, <5>2
      <4> QED BY <4>1, <4>2, <4>3, <4>4 DEF Stands
    <3>5. /\ Len(revs) <= Len(reviews')
          /\ \A i \in 1..Len(revs) : ReadOf(revs[i], reviews'[i])
      BY <1>5, <1>15, <1>90
    <3>6. \A i \in 1..Len(revs) : revs[i].state = "APPROVED" => Overruled(revs, revs[i], i)'
      BY <1>5, <3>3 DEF Overruled, history
    <3>7. \A x \in lasting' : \E i \in 1..Len(revs) : Stands(revs, i) /\ x = Stance(revs[i])
      BY <1>5, <3>4 DEF history
    <3> QED BY <1>4, <3>1, <3>5, <3>6, <3>7 DEF RevsOK
  <2> QED BY <2>1, <2>2
<1> QED BY <1>1, <1>2, <1>10, <1>11, <1>13, <1>14, <1>18, OwnStep

LEMMA ReadCommentsStep == GatheringInv /\ ReadComments => GatheringInv'
<1> SUFFICES ASSUME GatheringInv, ReadComments PROVE GatheringInv' OBVIOUS
<1>01. PICK page : page = Page(comments, apply.page) OBVIOUS
<1>02. PICK got : got = [apply EXCEPT !.cs = @ \o page] OBVIOUS
<1>03. PICK answer : answer = IF ~project.commentSource THEN [apply EXCEPT !.pc = "owners"]
                              ELSE IF LastPage(comments, apply.page)
                                   THEN [got EXCEPT !.pc = "owners", !.page = 1]
                                   ELSE [got EXCEPT !.page = @ + 1]
  OBVIOUS
<1>0. apply = [f \in ApplyFields |-> apply[f]] BY DEF GatheringInv, ApplyShape
<1>1. /\ apply.pc = "comments" /\ UNCHANGED <<project, forge, history>>
      /\ (apply' = answer => GatheringInv') => GatheringInv'
  <2>1. Call("comments", answer) BY <1>01, <1>02, <1>03 DEF ReadComments
  <2> QED BY <2>1, CallStep
<1>04. SUFFICES ASSUME apply' = answer PROVE GatheringInv' BY <1>1
<1>2. Underway BY <1>1 DEF Underway
<1>3. /\ apply.revs \in Seq(Reviewed) /\ apply.cs \in Seq(Remark) /\ apply.page \in Nat \ {0}
      /\ apply.green \in BOOLEAN /\ apply.sha \in Commit /\ apply.runs = {}
  BY <1>1, <1>2 DEF GatheringInv, ApplyShape
<1>4. /\ got = [f \in ApplyFields |-> got[f]] /\ got.pc = "comments" /\ got.cs = apply.cs \o page
      /\ got.sha = apply.sha /\ got.revs = apply.revs /\ got.page = apply.page
      /\ got.green = apply.green /\ got.changed = apply.changed /\ got.runs = apply.runs
  BY <1>0, <1>02, <1>1 DEF ApplyFields
<1>5. /\ apply' = [f \in ApplyFields |-> apply'[f]]
      /\ apply'.pc \in {"comments", "owners"} /\ apply'.page \in {apply.page, 1, apply.page + 1}
      /\ apply'.cs = apply.cs \/ apply'.cs = apply.cs \o page
      /\ apply'.sha = apply.sha /\ apply'.revs = apply.revs
      /\ apply'.green = apply.green /\ apply'.changed = apply.changed /\ apply'.runs = apply.runs
  <2>1. CASE ~project.commentSource BY <1>0, <1>03, <1>04, <1>1, <2>1 DEF ApplyFields
  <2>2. CASE project.commentSource /\ LastPage(comments, apply.page)
    BY <1>03, <1>04, <1>4, <2>2 DEF ApplyFields
  <2>3. CASE project.commentSource /\ ~LastPage(comments, apply.page)
    BY <1>03, <1>04, <1>4, <2>3 DEF ApplyFields
  <2> QED BY <2>1, <2>2, <2>3
<1>6. /\ Remark' = Remark /\ head' = head /\ project' = project
      /\ reviews' = reviews /\ UNCHANGED history
  BY <1>1, ForgeRests DEF forge, history
<1>7. comments \in Seq(Remark) BY DEF GatheringInv, ForgeOK
<1>8. page \in Seq(Remark) /\ \A i \in 1..Len(page) : \E j \in 1..Len(comments) : page[i] = comments[j]
  <2>1. \A n \in Nat \ {0} :
          /\ Page(comments, n) \in Seq(Remark)
          /\ \A i \in 1..Len(Page(comments, n)) :
               \E j \in 1..Len(comments) : Page(comments, n)[i] = comments[j]
    BY <1>7, PageOf
  <2> QED BY <1>01, <1>3, <2>1
<1>9. PICK joined : joined = apply.cs \o page OBVIOUS
<1>10. /\ joined \in Seq(Remark) /\ Len(joined) = Len(apply.cs) + Len(page)
       /\ \A i \in 1..(Len(apply.cs) + Len(page)) :
            joined[i] = IF i <= Len(apply.cs) THEN apply.cs[i] ELSE page[i - Len(apply.cs)]
  BY <1>3, <1>8, <1>9, Concatenated
<1>11. ASSUME NEW i \in 1..Len(joined), Qualifies(joined[i], project.allowed)
       PROVE  Remarked(joined[i]) \in stood
  <2>0. Len(apply.cs) \in Nat /\ Len(page) \in Nat BY <1>3, <1>8
  <2>1. CASE i <= Len(apply.cs)
    <3>1. i \in 1..Len(apply.cs) /\ joined[i] = apply.cs[i] BY <1>10, <2>0, <2>1
    <3> QED BY <1>11, <3>1 DEF GatheringInv, CommentsOK
  <2>2. CASE ~(i <= Len(apply.cs))
    <3>1. i - Len(apply.cs) \in 1..Len(page) /\ joined[i] = page[i - Len(apply.cs)]
      BY <1>10, <2>0, <2>2
    <3>2. PICK j \in 1..Len(comments) : joined[i] = comments[j] BY <1>8, <3>1
    <3>3. j \in DOMAIN comments BY <1>7, <3>2
    <3>4. Remarked(comments[j]) \in Said(comments) BY <1>11, <3>2, <3>3 DEF Said, Remarked
    <3> QED BY <1>2, <3>2, <3>4 DEF GatheringInv, HistoryOK
  <2> QED BY <2>1, <2>2
<1>12. CommentsOK'
  <2>1. CASE apply'.cs = apply.cs BY <1>6, <2>1 DEF GatheringInv, CommentsOK, history
  <2>2. CASE apply'.cs = joined BY <1>6, <1>11, <2>2 DEF CommentsOK, history
  <2> QED BY <1>5, <1>9, <2>1, <2>2
<1>13. ApplyShape'
  <2>1. apply'.cs \in Seq(Remark)' BY <1>3, <1>5, <1>6, <1>9, <1>10
  <2>2. apply'.page \in Nat \ {0} BY <1>3, <1>5
  <2> QED BY <1>3, <1>5, <1>6, <2>1, <2>2 DEF ApplyShape, Underway, Unread, Commit
<1>14. ChangedOK' /\ RunsOK' /\ GreenOK'
  <2>1. /\ apply.pc \notin Unread /\ apply'.pc \notin Unread /\ apply'.pc # "decided"
        /\ apply'.sha = apply.sha /\ apply'.changed = apply.changed /\ apply'.green = apply.green
    BY <1>1, <1>5 DEF Unread
  <2> QED BY <1>1, <1>2, <2>1, OnStep
<1>16. RawOK' BY <1>5 DEF RawOK, Judged
<1>17. RevsOK' BY <1>1, <1>5, <1>6 DEF GatheringInv, RevsOK, Overruled, history
<1> QED BY <1>1, <1>2, <1>12, <1>13, <1>14, <1>16, <1>17, OwnStep

(* What the merged approvals rest on. *)
LEMMA RawRests ==
  ASSUME GatheringInv, apply.pc = "owners", NEW raw,
         raw = LatestApprovals(apply.revs) \cup CommentApprovals(apply.cs, project.allowed)
  PROVE  /\ \A a \in raw : \E x \in stood : Backs(x, a)
         /\ \A x \in lasting : Approval(x.by, x.sha, TRUE) \in raw
<1> PICK revs : revs = apply.revs OBVIOUS
<1> PICK cs : cs = apply.cs OBVIOUS
<1>1. revs \in Seq(Reviewed) /\ cs \in Seq(Remark) BY DEF GatheringInv, ApplyShape
<1>2. /\ \A i \in 1..Len(revs) : revs[i].state = "APPROVED" => Overruled(revs, revs[i], i)
      /\ \A x \in lasting : \E i \in 1..Len(revs) : Stands(revs, i) /\ x = Stance(revs[i])
  BY DEF GatheringInv, RevsOK
<1>3. LatestApprovals(revs) =
        {Approval(revs[i].by, revs[i].sha, TRUE) : i \in {j \in 1..Len(revs) : Stands(revs, j)}}
  <2>1. DOMAIN revs = 1..Len(revs) BY <1>1
  <2> QED BY <2>1 DEF LatestApprovals, Stands, Later
<1>4. ASSUME NEW a \in LatestApprovals(revs)
      PROVE  \E x \in stood : Backs(x, a)
  <2>1. PICK i \in 1..Len(revs) : Stands(revs, i) /\ a = Approval(revs[i].by, revs[i].sha, TRUE)
    BY <1>3
  <2>2. Stance(revs[i]) \in stood BY <1>2, <2>1 DEF Stands, Overruled
  <2>3. revs[i].sha \in Commit
    <3>1. revs[i] \in Reviewed BY <1>1, <2>1
    <3> QED BY <3>1 DEF Reviewed
  <2>4. Backs(Stance(revs[i]), a) BY <2>1, <2>3 DEF Backs, Stance, Approval
  <2> QED BY <2>2, <2>4
<1>5. ASSUME NEW a \in CommentApprovals(cs, project.allowed)
      PROVE  \E x \in stood : Backs(x, a)
  <2>1. PICK i \in DOMAIN cs : Qualifies(cs[i], project.allowed) /\ a = CommentApproval(cs[i])
    BY DEF CommentApprovals
  <2>2. i \in 1..Len(cs) BY <1>1
  <2>3. Remarked(cs[i]) \in stood BY <2>1, <2>2 DEF GatheringInv, CommentsOK
  <2>4. Backs(Remarked(cs[i]), a) BY <2>1 DEF Backs, Remarked, CommentApproval, Approval
  <2> QED BY <2>3, <2>4
<1>6. ASSUME NEW x \in lasting PROVE Approval(x.by, x.sha, TRUE) \in LatestApprovals(revs)
  <2>1. PICK i \in 1..Len(revs) : Stands(revs, i) /\ x = Stance(revs[i]) BY <1>2
  <2>2. x.by = revs[i].by /\ x.sha = revs[i].sha BY <2>1 DEF Stance
  <2> QED BY <1>3, <2>1, <2>2
<1> QED BY <1>4, <1>5, <1>6

LEMMA ReadOwnersStep == GatheringInv /\ ReadOwners => GatheringInv'
<1> SUFFICES ASSUME GatheringInv, ReadOwners PROVE GatheringInv' OBVIOUS
<1>01. PICK raw : raw = LatestApprovals(apply.revs) \cup CommentApprovals(apply.cs, project.allowed)
  OBVIOUS
<1>02. PICK owners : owners = ResolveOwners(project.codeowners, {f.path : f \in Scoped}) OBVIOUS
<1>03. PICK answer : answer = [Goto("teams") EXCEPT !.raw = raw, !.owners = owners,
                                                    !.revs = << >>, !.cs = << >>]
  OBVIOUS
<1>0. apply = [f \in ApplyFields |-> apply[f]] BY DEF GatheringInv, ApplyShape
<1>1. /\ apply.pc = "owners" /\ UNCHANGED <<project, forge, history>>
      /\ (apply' = answer => GatheringInv') => GatheringInv'
  <2>1. Call("owners", answer) BY <1>01, <1>02, <1>03 DEF ReadOwners
  <2> QED BY <2>1, CallStep
<1>04. SUFFICES ASSUME apply' = answer PROVE GatheringInv' BY <1>1
<1>2. Underway BY <1>1 DEF Underway
<1>3. /\ apply.page \in Nat \ {0} /\ apply.green \in BOOLEAN /\ apply.sha \in Commit
      /\ apply.runs = {}
  BY <1>1, <1>2 DEF GatheringInv, ApplyShape
<1>4. PICK went : went = Goto("teams") OBVIOUS
<1>5. /\ went = [f \in ApplyFields |-> went[f]] /\ went.pc = "teams" /\ went.page = apply.page
      /\ went.green = apply.green /\ went.sha = apply.sha /\ went.changed = apply.changed
      /\ went.runs = apply.runs
  BY <1>0, <1>4 DEF Goto, ApplyFields
<1>6. /\ apply' = [f \in ApplyFields |-> apply'[f]]
      /\ apply'.pc = "teams" /\ apply'.page = apply.page /\ apply'.raw = raw
      /\ apply'.sha = apply.sha /\ apply'.revs = << >> /\ apply'.cs = << >>
      /\ apply'.green = apply.green /\ apply'.changed = apply.changed /\ apply'.runs = apply.runs
  BY <1>03, <1>04, <1>4, <1>5 DEF ApplyFields
<1>7. /\ Remark' = Remark /\ head' = head /\ project' = project
      /\ reviews' = reviews /\ UNCHANGED history
  BY <1>1, ForgeRests DEF forge, history
<1>8. RawOK'
  <2>1. /\ \A a \in raw : \E x \in stood : Backs(x, a)
        /\ \A x \in lasting : Approval(x.by, x.sha, TRUE) \in raw
    BY <1>01, <1>1, RawRests
  <2>2. /\ \A a \in apply'.raw : \E x \in stood' : Backs(x, a)
        /\ \A x \in lasting' : Approval(x.by, x.sha, TRUE) \in apply'.raw
    BY <1>6, <1>7, <2>1 DEF history
  <2> QED BY <2>2 DEF RawOK
<1>9. ApplyShape'
  <2>1. apply'.cs \in Seq(Remark)' /\ apply'.revs \in Seq(Reviewed)' BY <1>6
  <2> QED BY <1>3, <1>6, <1>7, <2>1 DEF ApplyShape, Underway, Unread, Judged, Commit
<1>10. ChangedOK' /\ RunsOK' /\ GreenOK'
  <2>1. /\ apply.pc \notin Unread /\ apply'.pc \notin Unread /\ apply'.pc # "decided"
        /\ apply'.sha = apply.sha /\ apply'.changed = apply.changed /\ apply'.green = apply.green
    BY <1>1, <1>6 DEF Unread
  <2> QED BY <1>1, <1>2, <2>1, OnStep
<1>12. RevsOK' /\ CommentsOK' BY <1>6, NoComments DEF RevsOK
<1> QED BY <1>1, <1>2, <1>8, <1>9, <1>10, <1>12, OwnStep

(* The steps after that only look, and move on. *)
LEMMA JudgedStep ==
  ASSUME GatheringInv, UNCHANGED <<project, forge, history>>, apply.pc \in Judged,
         apply' = [f \in ApplyFields |-> apply'[f]], apply'.pc \in Judged,
         apply'.sha = apply.sha, apply'.changed = apply.changed, apply'.green = apply.green,
         apply'.revs = apply.revs, apply'.cs = apply.cs, apply'.page = apply.page,
         apply'.raw = apply.raw, apply'.runs = apply.runs, apply'.pc = "decided" => HeadStands
  PROVE  GatheringInv'
<1>1. /\ Remark' = Remark /\ head' = head /\ project' = project
      /\ reviews' = reviews /\ UNCHANGED history
  BY ForgeRests DEF forge, history
<1>2. Underway BY DEF Underway, Judged
<1>3. ApplyShape' BY <1>1, <1>2 DEF GatheringInv, ApplyShape, Underway, Unread, Judged
<1>4. apply.pc \notin Unread /\ apply'.pc \notin Unread BY DEF Unread, Judged
<1>5. ChangedOK' /\ RunsOK' /\ GreenOK' BY <1>2, <1>4, OnStep
<1>6. RevsOK' BY DEF RevsOK, Judged
<1>7. CommentsOK' BY <1>1 DEF GatheringInv, CommentsOK, history
<1>8. RawOK' BY <1>1 DEF GatheringInv, RawOK, history
<1> QED BY <1>2, <1>3, <1>5, <1>6, <1>7, <1>8, OwnStep

LEMMA ReadTeamsStep == GatheringInv /\ ReadTeams => GatheringInv'
<1> SUFFICES ASSUME GatheringInv, ReadTeams PROVE GatheringInv' OBVIOUS
<1>1. apply.pc = "teams" /\ UNCHANGED <<project, forge, history>> BY DEF ReadTeams
<1>2. apply = [f \in ApplyFields |-> apply[f]] BY DEF GatheringInv, ApplyShape
<1>3. PICK live : apply' = [Goto("revalidate") EXCEPT !.live = live] BY DEF ReadTeams, Set
<1>4. apply' = [[apply EXCEPT !.pc = "revalidate"] EXCEPT !.live = live] BY <1>3 DEF Goto
<1>5. /\ apply' = [f \in ApplyFields |-> apply'[f]] /\ apply'.pc = "revalidate"
      /\ apply'.sha = apply.sha /\ apply'.changed = apply.changed /\ apply'.green = apply.green
      /\ apply'.revs = apply.revs /\ apply'.cs = apply.cs /\ apply'.page = apply.page
      /\ apply'.raw = apply.raw /\ apply'.runs = apply.runs
  BY <1>2, <1>4 DEF ApplyFields
<1>6. apply.pc \in Judged /\ apply'.pc \in Judged BY <1>1, <1>5 DEF Judged
<1> QED BY <1>1, <1>5, <1>6, JudgedStep

LEMMA RevalidateStep == GatheringInv /\ Revalidate => GatheringInv'
<1> SUFFICES ASSUME GatheringInv, Revalidate PROVE GatheringInv' OBVIOUS
<1>1. PICK answer : answer = IF HeadStands THEN Goto("decided") ELSE [Fresh0 EXCEPT !.pc = "error"]
  OBVIOUS
<1>2. /\ apply.pc = "revalidate" /\ UNCHANGED <<project, forge, history>>
      /\ (apply' = answer => GatheringInv') => GatheringInv'
  <2>1. Call("revalidate", answer) BY <1>1 DEF Revalidate
  <2> QED BY <2>1, CallStep
<1>3. SUFFICES ASSUME apply' = answer PROVE GatheringInv' BY <1>2
<1>4. CASE ~HeadStands
  <2>1. Abort BY <1>1, <1>3, <1>4 DEF Abort, Set
  <2>2. unready' \subseteq Blockers BY <1>2 DEF GatheringInv, UnreadyOK, history, readiness
  <2> QED BY <1>2, <2>1, <2>2, AbortStep DEF history
<1>5. CASE HeadStands
  <2>1. apply = [f \in ApplyFields |-> apply[f]] BY DEF GatheringInv, ApplyShape
  <2>2. apply' = [apply EXCEPT !.pc = "decided"] BY <1>1, <1>3, <1>5 DEF Goto
  <2>3. /\ apply' = [f \in ApplyFields |-> apply'[f]] /\ apply'.pc = "decided"
        /\ apply'.sha = apply.sha /\ apply'.changed = apply.changed /\ apply'.green = apply.green
        /\ apply'.revs = apply.revs /\ apply'.cs = apply.cs /\ apply'.page = apply.page
        /\ apply'.raw = apply.raw /\ apply'.runs = apply.runs
    BY <2>1, <2>2 DEF ApplyFields
  <2>4. apply.pc \in Judged /\ apply'.pc \in Judged BY <1>2, <2>3 DEF Judged
  <2> QED BY <1>2, <1>5, <2>3, <2>4, JudgedStep
<1> QED BY <1>4, <1>5

-----------------------------------------------------------------------------
(* Steps of the forge, which go on while the apply reads. *)

(* Where checks, statuses and pushes rest, nothing about them changes. *)
ChecksRest == UNCHANGED <<head, checks, listing, statuses, readiness, returned>>

LEMMA Resting ==
  ASSUME GatheringInv, UNCHANGED <<project, apply>>, UNCHANGED <<checks, listing, statuses, readiness>>
  PROVE  UnreadyOK' /\ RunsOK'
<1>1. Blockers' = Blockers /\ \A c, k : Ours(c, k)' <=> Ours(c, k) BY BlockersRest
<1>2. UnreadyOK' BY <1>1 DEF GatheringInv, UnreadyOK, Underway, readiness
<1>3. RunsOK' BY DEF GatheringInv, RunsOK, WasRead, Covered, Told, Ours, readiness
<1> QED BY <1>2, <1>3

LEMMA FilesRest ==
  ASSUME GatheringInv, UNCHANGED <<project, apply, head, returned>>
  PROVE  ChangedOK'
BY DEF GatheringInv, ChangedOK, Still, Underway, Decided

LEMMA ForgeMoves ==
  ASSUME GatheringInv, UNCHANGED <<project, apply>>, ~Decided,
         ForgeOK', StandingOK', UnreadyOK', HistoryOK', ChangedOK', RunsOK',
         stood \subseteq stood', lasting' \subseteq lasting, unready' \subseteq unready,
         troubled \subseteq troubled', shifted => shifted',
         Len(reviews) <= Len(reviews'),
         \A i \in 1..Len(reviews) : ReadOf(reviews[i], reviews'[i])
  PROVE  GatheringInv'
<1>1. Remark' = Remark BY DEF Remark
<1>3. ApplyShape' BY <1>1 DEF GatheringInv, ApplyShape, Underway, Commit
<1>5. GreenOK'
  <2>1. apply' = apply OBVIOUS
  <2> QED BY <2>1 DEF GatheringInv, GreenOK
<1>6. CommentsOK' BY DEF GatheringInv, CommentsOK
<1>7. RawOK' BY DEF GatheringInv, RawOK
<1>8. RevsOK'
  <2> SUFFICES ASSUME apply.pc \in {"reviews", "comments", "owners"} PROVE RevsOK'
    BY DEF RevsOK
  <2> PICK revs : revs = apply.revs OBVIOUS
  <2>1. reviews \in Seq(Reviewed) /\ reviews' \in Seq(Reviewed) /\ revs \in Seq(Reviewed)
    BY DEF GatheringInv, ForgeOK, ApplyShape, Reviewed, Commit
  <2>2. Len(revs) <= Len(reviews) /\ \A i \in 1..Len(revs) : ReadOf(revs[i], reviews[i])
    BY DEF GatheringInv, RevsOK
  <2>3. Len(revs) \in Nat /\ Len(reviews) \in Nat /\ Len(reviews') \in Nat BY <2>1
  <2>4. \A i \in 1..Len(revs) : ReadOf(revs[i], reviews'[i])
    <3> TAKE i \in 1..Len(revs)
    <3>1. i \in 1..Len(reviews) BY <2>2, <2>3
    <3> QED BY <2>2, <3>1 DEF ReadOf
  <2>5. \A r, i : i \in Nat /\ Overruled(reviews, r, i) => Overruled(reviews, r, i)'
    <3> SUFFICES ASSUME NEW r, NEW i \in Nat, Overruled(reviews, r, i)
                 PROVE  Stance(r) \in stood' \/ Later(reviews', r.by, i)
      BY DEF Overruled
    <3>1. Later(reviews, r.by, i) => Later(reviews', r.by, i) BY <2>1, ReadLater
    <3> QED BY <3>1 DEF Overruled
  <2>6. \A r, i : Overruled(revs, r, i) => Overruled(revs, r, i)' BY DEF Overruled
  <2>7. CASE apply.pc = "reviews"
    <3>1. Len(revs) = Ahead(apply.page) BY <2>7 DEF GatheringInv, RevsOK
    <3>2. \A i \in 1..Len(revs) : revs[i].state = "APPROVED" => Overruled(reviews, revs[i], i)
      BY <2>7 DEF GatheringInv, RevsOK
    <3>3. \A i \in 1..Len(revs) : revs[i].state = "APPROVED" => Overruled(reviews, revs[i], i)'
      BY <2>5, <3>2
    <3> QED BY <2>2, <2>3, <2>4, <2>7, <3>1, <3>3 DEF RevsOK
  <2>8. CASE apply.pc # "reviews"
    <3>1. /\ \A i \in 1..Len(revs) : revs[i].state = "APPROVED" => Overruled(revs, revs[i], i)
          /\ \A x \in lasting : \E i \in 1..Len(revs) : Stands(revs, i) /\ x = Stance(revs[i])
      BY <2>8 DEF GatheringInv, RevsOK
    <3>2. \A i \in 1..Len(revs) : revs[i].state = "APPROVED" => Overruled(revs, revs[i], i)'
      BY <2>6, <3>1
    <3>3. \A x \in lasting' : \E i \in 1..Len(revs) : Stands(revs, i) /\ x = Stance(revs[i]) BY <3>1
    <3> QED BY <2>2, <2>3, <2>4, <2>8, <3>2, <3>3 DEF RevsOK
  <2> QED BY <2>7, <2>8
<1> QED BY <1>3, <1>5, <1>6, <1>7, <1>8 DEF GatheringInv

(* Where the list of reviews is left alone. *)
LEMMA SameReviews ==
  ASSUME GatheringInv, reviews' = reviews
  PROVE  /\ Len(reviews) <= Len(reviews')
         /\ \A i \in 1..Len(reviews) : ReadOf(reviews[i], reviews'[i])
         /\ standing' = standing => StandingOK'
<1>1. Len(reviews) \in Nat BY DEF GatheringInv, ForgeOK
<1> QED BY <1>1 DEF GatheringInv, StandingOK, ReadOf

LEMMA ReviewStep ==
  ASSUME GatheringInv, NEW u \in Reviewer, NEW state \in {"APPROVED", "CHANGES_REQUESTED", "COMMENTED"},
         Review(u, state)
  PROVE  GatheringInv'
<1>1. PICK r : r = [by |-> u, state |-> state, sha |-> head] OBVIOUS
<1>2. /\ ~Decided /\ UNCHANGED <<project, apply>> /\ ChecksRest /\ UNCHANGED comments
      /\ stood' = stood \cup standing' /\ lasting' = lasting \cap standing'
      /\ reviews' = Append(reviews, r)
  BY <1>1 DEF Review, Happens, Decided, ChecksRest, readiness
<1>3. reviews \in Seq(Reviewed) /\ head \in Commit BY DEF GatheringInv, ForgeOK
<1>4. r \in Reviewed /\ r.by = u /\ r.state = state /\ Stance(r) = [kind |-> "review", by |-> u, sha |-> head]
  BY <1>1, <1>3 DEF Reviewed, Verdict, Stance
<1>5. /\ reviews' \in Seq(Reviewed) /\ Len(reviews') = Len(reviews) + 1
      /\ reviews'[Len(reviews) + 1] = r
      /\ \A i \in 1..Len(reviews) : reviews'[i] = reviews[i]
      /\ \A i \in 1..Len(reviews) :
           Stands(reviews', i) <=> Stands(reviews, i) /\ ~(r.by = reviews[i].by /\ Decisive(r))
      /\ Stands(reviews', Len(reviews) + 1) <=> r.state = "APPROVED"
  <2>1. reviews' = WithReview(reviews, r) BY <1>2 DEF WithReview
  <2>2. r \in Reviewed /\ reviews \in Seq(Reviewed) BY <1>3, <1>4
  <2> PICK qs : qs = reviews' OBVIOUS
  <2>3. qs = WithReview(reviews, r) BY <2>1
  <2>4. /\ qs \in Seq(Reviewed) /\ Len(qs) = Len(reviews) + 1 /\ qs[Len(reviews) + 1] = r
        /\ \A i \in 1..Len(reviews) : qs[i] = reviews[i]
        /\ \A i \in 1..Len(reviews) :
             Stands(qs, i) <=> Stands(reviews, i) /\ ~(r.by = reviews[i].by /\ Decisive(r))
        /\ Stands(qs, Len(reviews) + 1) <=> r.state = "APPROVED"
    BY <2>2, <2>3, StandsAppended
  <2> QED BY <2>4
<1>6. Len(reviews) \in Nat BY <1>3
<1>7. Remark' = Remark BY <1>2 DEF Remark
<1>8. ForgeOK' BY <1>2, <1>5, <1>7 DEF GatheringInv, ForgeOK, Commit, Reviewed, ChecksRest
<1>9. /\ state = "COMMENTED" => standing' = standing
      /\ state = "APPROVED" => standing' = {x \in standing : x.by # u} \cup {Stance(r)}
      /\ state = "CHANGES_REQUESTED" => standing' = {x \in standing : x.by # u}
  BY <1>4 DEF Review
<1>10. Decisive(r) <=> state # "COMMENTED" BY <1>4 DEF Decisive
<1>11. StandingOK'
  <2>1. ASSUME NEW i \in 1..Len(reviews'), Stands(reviews', i)
        PROVE  Stance(reviews'[i]) \in standing'
    <3>1. CASE i = Len(reviews) + 1
      <4>1. state = "APPROVED" BY <1>4, <1>5, <2>1, <3>1
      <4> QED BY <1>5, <1>9, <3>1, <4>1
    <3>2. CASE i # Len(reviews) + 1
      <4>1. i \in 1..Len(reviews) BY <1>5, <1>6, <3>2
      <4>2. Stands(reviews, i) /\ ~(u = reviews[i].by /\ Decisive(r)) /\ reviews'[i] = reviews[i]
        BY <1>4, <1>5, <2>1, <4>1
      <4>3. Stance(reviews[i]) \in standing BY <4>1, <4>2 DEF GatheringInv, StandingOK
      <4>4. Stance(reviews[i]).by = reviews[i].by BY DEF Stance
      <4> QED BY <1>9, <1>10, <4>2, <4>3, <4>4
    <3> QED BY <3>1, <3>2
  <2>2. ASSUME NEW x \in standing'
        PROVE  \E i \in 1..Len(reviews') : Stands(reviews', i) /\ x = Stance(reviews'[i])
    <3>1. CASE x = Stance(r) /\ state = "APPROVED"
      <4>1. Len(reviews) + 1 \in 1..Len(reviews') BY <1>5, <1>6
      <4> QED BY <1>4, <1>5, <3>1, <4>1
    <3>2. CASE x \in standing /\ ~(x.by = u /\ Decisive(r))
      <4>1. PICK i \in 1..Len(reviews) : Stands(reviews, i) /\ x = Stance(reviews[i])
        BY <3>2 DEF GatheringInv, StandingOK
      <4>2. x.by = reviews[i].by BY <4>1 DEF Stance
      <4>3. i \in 1..Len(reviews') BY <1>5, <1>6
      <4> QED BY <1>4, <1>5, <3>2, <4>1, <4>2, <4>3
    <3> QED BY <1>9, <1>10, <3>1, <3>2
  <2> QED BY <2>1, <2>2 DEF StandingOK
<1>12. UnreadyOK' /\ RunsOK' /\ ChangedOK' BY <1>2, Resting, FilesRest DEF ChecksRest
<1>13. Said(comments)' = Said(comments) BY <1>2 DEF Said
<1>14. HistoryOK' BY <1>2, <1>13 DEF GatheringInv, HistoryOK, Underway
<1>15. Len(reviews) <= Len(reviews') /\ \A i \in 1..Len(reviews) : ReadOf(reviews[i], reviews'[i])
  BY <1>5, <1>6 DEF ReadOf
<1> QED BY <1>2, <1>8, <1>11, <1>12, <1>14, <1>15, ForgeMoves DEF ChecksRest, readiness

LEMMA DismissStep ==
  ASSUME GatheringInv, NEW u \in Reviewer, Dismiss(u)
  PROVE  GatheringInv'
<1>1. /\ ~Decided /\ UNCHANGED <<project, apply>>
      /\ ChecksRest /\ UNCHANGED <<comments, stood>>
      /\ standing' = {x \in standing : x.by # u} /\ lasting' = lasting \cap standing'
  BY DEF Dismiss, Happens, Decided, ChecksRest, readiness
<1>2. PICK n \in DOMAIN reviews :
        /\ reviews[n].by = u /\ reviews[n].state = "APPROVED"
        /\ ~\E j \in (n + 1)..Len(reviews) : reviews[j].by = u
        /\ reviews' = [reviews EXCEPT ![n].state = "DISMISSED"]
  BY DEF Dismiss
<1>3. reviews \in Seq(Reviewed) /\ head \in Commit BY DEF GatheringInv, ForgeOK
<1>4. n \in 1..Len(reviews) BY <1>3
<1>5. /\ reviews' \in Seq(Reviewed) /\ Len(reviews') = Len(reviews)
      /\ \A i \in 1..Len(reviews) : ReadOf(reviews[i], reviews'[i])
      /\ \A i \in 1..Len(reviews) : Stands(reviews', i) <=> Stands(reviews, i) /\ reviews[i].by # u
  <2>1. reviews' = Dismissed(reviews, n) BY <1>2 DEF Dismissed
  <2>2. /\ reviews[n].by = u /\ reviews[n].state = "APPROVED"
        /\ ~\E j \in (n + 1)..Len(reviews) : reviews[j].by = u
    BY <1>2
  <2> QED BY <1>3, <1>4, <2>1, <2>2, StandsDismissed
<1>6. Remark' = Remark BY <1>1 DEF Remark
<1>7. ForgeOK' BY <1>1, <1>5, <1>6 DEF GatheringInv, ForgeOK, Commit, Reviewed, ChecksRest
<1>8. \A i \in 1..Len(reviews) :
        Stance(reviews'[i]) = Stance(reviews[i]) /\ Stance(reviews[i]).by = reviews[i].by
  BY <1>5 DEF Stance, ReadOf
<1>9. StandingOK'
  <2>1. ASSUME NEW i \in 1..Len(reviews'), Stands(reviews', i)
        PROVE  Stance(reviews'[i]) \in standing'
    <3>1. i \in 1..Len(reviews) /\ Stands(reviews, i) /\ reviews[i].by # u BY <1>5, <2>1
    <3>2. Stance(reviews[i]) \in standing BY <3>1 DEF GatheringInv, StandingOK
    <3> QED BY <1>1, <1>8, <3>1, <3>2
  <2>2. ASSUME NEW x \in standing'
        PROVE  \E i \in 1..Len(reviews') : Stands(reviews', i) /\ x = Stance(reviews'[i])
    <3>1. x \in standing /\ x.by # u BY <1>1
    <3>2. PICK i \in 1..Len(reviews) : Stands(reviews, i) /\ x = Stance(reviews[i])
      BY <3>1 DEF GatheringInv, StandingOK
    <3> QED BY <1>5, <1>8, <3>1, <3>2
  <2> QED BY <2>1, <2>2 DEF StandingOK
<1>10. UnreadyOK' /\ RunsOK' /\ ChangedOK' BY <1>1, Resting, FilesRest DEF ChecksRest
<1>11. Said(comments)' = Said(comments) BY <1>1 DEF Said
<1>12. HistoryOK' BY <1>1, <1>11 DEF GatheringInv, HistoryOK, Underway
<1>13. Len(reviews) <= Len(reviews') BY <1>3, <1>5
<1> QED BY <1>1, <1>5, <1>7, <1>9, <1>10, <1>12, <1>13, ForgeMoves DEF ChecksRest, readiness

LEMMA SayStep ==
  ASSUME GatheringInv, NEW u \in Reviewer, NEW words \in Words, Say(u, words)
  PROVE  GatheringInv'
<1>1. PICK c : c = [by |-> u, bot |-> u \in project.bots, assoc |-> project.assoc[u], line |-> words]
  OBVIOUS
<1>2. /\ ~Decided /\ UNCHANGED <<project, apply>>
      /\ ChecksRest /\ UNCHANGED <<reviews, standing, lasting>>
      /\ comments' = Append(comments, c) /\ stood' = stood \cup Said(comments')
  BY <1>1 DEF Say, Happens, Decided, ChecksRest, readiness
<1>3. comments \in Seq(Remark) /\ head \in Commit BY DEF GatheringInv, ForgeOK
<1>4. c \in Remark BY <1>1 DEF Remark
<1>5. comments' \in Seq(Remark) BY <1>2, <1>3, <1>4
<1>6. Remark' = Remark BY <1>2 DEF Remark
<1>7. ForgeOK' BY <1>2, <1>5, <1>6 DEF GatheringInv, ForgeOK, Commit, Reviewed, ChecksRest
<1>8. UnreadyOK' /\ RunsOK' /\ ChangedOK' BY <1>2, Resting, FilesRest DEF ChecksRest
<1>9. Said(comments)' = Said(comments') BY <1>2 DEF Said
<1>10. HistoryOK' BY <1>2, <1>9 DEF GatheringInv, HistoryOK, Underway
<1>12. StandingOK' /\ Len(reviews) <= Len(reviews') /\ \A i \in 1..Len(reviews) : ReadOf(reviews[i], reviews'[i])
  BY <1>2, SameReviews
<1> QED BY <1>2, <1>7, <1>8, <1>10, <1>12, ForgeMoves DEF ChecksRest, readiness

LEMMA UnsayStep ==
  ASSUME GatheringInv, NEW n \in DOMAIN comments, Unsay(n)
  PROVE  GatheringInv'
<1>1. /\ ~Decided /\ UNCHANGED <<project, apply>>
      /\ ChecksRest /\ UNCHANGED <<reviews, standing, stood, lasting>>
  BY DEF Unsay, Happens, Decided, ChecksRest, history
<1>2. comments \in Seq(Remark) /\ head \in Commit BY DEF GatheringInv, ForgeOK
<1>3. n \in 1..Len(comments) /\ Len(comments) \in Nat BY <1>2
<1>4. PICK a : a = SubSeq(comments, 1, n - 1) OBVIOUS
<1>5. PICK b : b = SubSeq(comments, n + 1, Len(comments)) OBVIOUS
<1>6. comments' = a \o b BY <1>4, <1>5 DEF Unsay
<1>7. a \in Seq(Remark) /\ \A i \in 1..Len(a) : \E j \in 1..Len(comments) : a[i] = comments[j]
  <2>1. /\ SubSeq(comments, 1, n - 1) \in Seq(Remark) /\ Len(SubSeq(comments, 1, n - 1)) = n - 1
        /\ \A i \in 1..(n - 1) : SubSeq(comments, 1, n - 1)[i] = comments[i]
    BY <1>2, <1>3
  <2>2. \A i \in 1..(n - 1) : i \in 1..Len(comments) BY <1>3
  <2>3. a \in Seq(Remark) /\ Len(a) = n - 1 /\ \A i \in 1..(n - 1) : a[i] = comments[i] BY <1>4, <2>1
  <2> QED BY <2>2, <2>3
<1>8. b \in Seq(Remark) /\ \A i \in 1..Len(b) : \E j \in 1..Len(comments) : b[i] = comments[j]
  <2>0. PICK m : m = Len(comments) - n OBVIOUS
  <2>1. /\ SubSeq(comments, n + 1, Len(comments)) \in Seq(Remark)
        /\ Len(SubSeq(comments, n + 1, Len(comments))) = m
        /\ \A i \in 1..m : SubSeq(comments, n + 1, Len(comments))[i] = comments[n + i]
    BY <1>2, <1>3, <2>0
  <2>2. \A i \in 1..m : n + i \in 1..Len(comments) BY <1>3, <2>0
  <2>3. b \in Seq(Remark) /\ Len(b) = m /\ \A i \in 1..m : b[i] = comments[n + i] BY <1>5, <2>1
  <2> QED BY <2>2, <2>3
<1>9. /\ a \o b \in Seq(Remark) /\ Len(a \o b) = Len(a) + Len(b)
      /\ \A i \in 1..(Len(a) + Len(b)) : (a \o b)[i] = IF i <= Len(a) THEN a[i] ELSE b[i - Len(a)]
  BY <1>7, <1>8, Concatenated
<1>10. PICK cs : cs = comments' OBVIOUS
<1>11. cs \in Seq(Remark) /\ \A i \in 1..Len(cs) : \E j \in 1..Len(comments) : cs[i] = comments[j]
  <2>1. Len(a) \in Nat /\ Len(b) \in Nat BY <1>7, <1>8
  <2>2. /\ cs \in Seq(Remark) /\ Len(cs) = Len(a) + Len(b)
        /\ \A i \in 1..(Len(a) + Len(b)) : cs[i] = IF i <= Len(a) THEN a[i] ELSE b[i - Len(a)]
    BY <1>6, <1>9, <1>10
  <2>3. ASSUME NEW i \in 1..Len(cs) PROVE \E j \in 1..Len(comments) : cs[i] = comments[j]
    <3>1. CASE i <= Len(a)
      <4>1. i \in 1..Len(a) /\ cs[i] = a[i] BY <2>1, <2>2, <3>1
      <4> QED BY <1>7, <4>1
    <3>2. CASE ~(i <= Len(a))
      <4>1. i - Len(a) \in 1..Len(b) /\ cs[i] = b[i - Len(a)] BY <2>1, <2>2, <3>2
      <4> QED BY <1>8, <4>1
    <3> QED BY <3>1, <3>2
  <2> QED BY <2>2, <2>3
<1>12. Remark' = Remark BY <1>1 DEF Remark
<1>13. ForgeOK' BY <1>1, <1>10, <1>11, <1>12 DEF GatheringInv, ForgeOK, Commit, Reviewed, ChecksRest
<1>14. Said(cs) \subseteq Said(comments)
  <2> SUFFICES ASSUME NEW x \in Said(cs) PROVE x \in Said(comments) OBVIOUS
  <2>1. PICK i \in DOMAIN cs : /\ Qualifies(cs[i], project.allowed)
                               /\ x = [kind |-> "comment", by |-> cs[i].by, sha |-> NamedCommit(cs[i].line)]
    BY DEF Said
  <2>2. PICK j \in 1..Len(comments) : cs[i] = comments[j] BY <1>11, <2>1
  <2>3. j \in DOMAIN comments BY <1>2, <2>2
  <2> QED BY <2>1, <2>2, <2>3 DEF Said
<1>15. Said(comments)' = Said(cs) BY <1>1, <1>10 DEF Said
<1>16. HistoryOK' BY <1>1, <1>14, <1>15 DEF GatheringInv, HistoryOK, Underway
<1>17. UnreadyOK' /\ RunsOK' /\ ChangedOK' BY <1>1, Resting, FilesRest DEF ChecksRest
<1>18. StandingOK' /\ Len(reviews) <= Len(reviews') /\ \A i \in 1..Len(reviews) : ReadOf(reviews[i], reviews'[i])
  BY <1>1, SameReviews
<1> QED BY <1>1, <1>13, <1>16, <1>17, <1>18, ForgeMoves DEF ChecksRest, readiness

LEMMA PushStep ==
  ASSUME GatheringInv, NEW c \in Commit, Push(c)
  PROVE  GatheringInv'
<1>1. /\ ~Decided /\ UNCHANGED <<project, apply>> /\ head' = c /\ c # head
      /\ returned' = (returned \/ c = apply.sha)
      /\ UNCHANGED <<reviews, comments, checks, listing, statuses, standing, stood, lasting, readiness>>
  BY DEF Push, Happens, Decided
<1>2. Remark' = Remark BY <1>1 DEF Remark
<1>3. ForgeOK' BY <1>1, <1>2 DEF GatheringInv, ForgeOK, Commit, Reviewed
<1>4. UnreadyOK' /\ RunsOK' BY <1>1, Resting
<1>5. ChangedOK' BY <1>1 DEF ChangedOK, Still, Decided
<1>6. Said(comments)' = Said(comments) BY <1>1 DEF Said
<1>7. HistoryOK' BY <1>1, <1>6 DEF GatheringInv, HistoryOK, Underway
<1>8. StandingOK' /\ Len(reviews) <= Len(reviews') /\ \A i \in 1..Len(reviews) : ReadOf(reviews[i], reviews'[i])
  BY <1>1, SameReviews
<1> QED BY <1>1, <1>3, <1>4, <1>5, <1>7, <1>8, ForgeMoves DEF readiness

(* Checks and statuses: which of them are reeve's own does not change, none  *)
(* is taken back, and a listing that moves under a read is noted.            *)
LEMMA ReadinessStep ==
  ASSUME GatheringInv, ~Decided, UNCHANGED <<project, apply>>, Moved, ForgeOK',
         \A c \in Commit, k \in Check : Ours(c, k)' <=> Ours(c, k),
         \A c \in Commit, k \in Check : checks[c][k] # Never => checks'[c][k] # Never,
         shifted => shifted',
         apply.pc = "checks" /\ ~shifted' => listing'[apply.sha] = listing[apply.sha] \/ apply.page = 1
  PROVE  GatheringInv'
<1>1. /\ unready' = unready \cap Blockers' /\ troubled' = troubled \cup Blockers'
      /\ UNCHANGED <<head, reviews, comments, standing, stood, lasting, returned>>
  BY DEF Moved
<1>2. UnreadyOK' BY <1>1 DEF UnreadyOK
<1>3. ChangedOK' BY <1>1, FilesRest
<1>4. RunsOK'
  <2> SUFFICES ASSUME apply.pc = "checks" PROVE RunsOK' BY DEF RunsOK
  <2>1. apply.sha \in Commit /\ apply.page \in Nat \ {0} BY DEF GatheringInv, ApplyShape, Underway
  <2>2. \A r \in apply.runs : WasRead(r, apply.sha) => WasRead(r, apply.sha)'
    BY <1>1, <2>1 DEF WasRead
  <2>3. ASSUME ~shifted' PROVE Covered(apply.runs, apply.sha, Ahead(apply.page))'
    <3>1. Covered(apply.runs, apply.sha, Ahead(apply.page)) BY <2>3 DEF GatheringInv, RunsOK
    <3>2. CASE listing'[apply.sha] = listing[apply.sha] BY <1>1, <3>1, <3>2 DEF Covered, Told
    <3>3. CASE apply.page = 1
      <4>1. Ahead(apply.page) = 0 BY <3>3, PageSizeAssumption DEF Ahead
      <4>2. \A i \in 1..Len(listing'[apply.sha]) : ~(i <= 0) OBVIOUS
      <4> QED BY <4>1, <4>2 DEF Covered
    <3> QED BY <2>3, <3>2, <3>3
  <2>4. \A r \in apply.runs : WasRead(r, apply.sha) BY DEF GatheringInv, RunsOK
  <2> QED BY <2>2, <2>3, <2>4 DEF RunsOK
<1>5. Said(comments)' = Said(comments) BY <1>1 DEF Said
<1>6. HistoryOK' BY <1>1, <1>5 DEF GatheringInv, HistoryOK, Underway
<1>7. StandingOK' /\ Len(reviews) <= Len(reviews') /\ \A i \in 1..Len(reviews) : ReadOf(reviews[i], reviews'[i])
  BY <1>1, SameReviews
<1> QED BY <1>1, <1>2, <1>3, <1>4, <1>6, <1>7, ForgeMoves

(* A check that takes another state, and its place in the listing. *)
LEMMA CheckMoves ==
  ASSUME GatheringInv, NEW c \in Commit, NEW k \in Check, k.run # ReeveRun,
         NEW state, state # Never, checks' = [checks EXCEPT ![c][k] = state]
  PROVE  /\ checks' = [d \in Commit |-> checks'[d]]
         /\ \A d \in Commit : checks'[d] = [l \in Check |-> checks'[d][l]]
         /\ \A d \in Commit, l \in Check :
              checks'[d][l] = IF d = c /\ l = k THEN state ELSE checks[d][l]
         /\ \A d \in Commit, l \in Check : Ours(d, l)' <=> Ours(d, l)
<1>1. checks = [d \in Commit |-> checks[d]] /\ \A d \in Commit : checks[d] = [l \in Check |-> checks[d][l]]
  BY DEF GatheringInv, ForgeOK
<1>2. checks' = [d \in Commit |-> checks'[d]] BY <1>1
<1>3. \A d \in Commit : checks'[d] = IF d = c THEN [checks[c] EXCEPT ![k] = state] ELSE checks[d]
  BY <1>1
<1>4. \A d \in Commit : checks'[d] = [l \in Check |-> checks'[d][l]] BY <1>1, <1>3
<1>5. \A d \in Commit, l \in Check :
        checks'[d][l] = IF d = c /\ l = k THEN state ELSE checks[d][l]
  BY <1>1, <1>3
<1>6. \A d \in Commit, l \in Check : l.run = ReeveRun => checks'[d][l] = checks[d][l] BY <1>5
<1>7. \A d \in Commit, l \in Check : Ours(d, l)' <=> Ours(d, l) BY <1>6 DEF Ours
<1> QED BY <1>2, <1>4, <1>5, <1>7

LEMMA RelistedSeq ==
  ASSUME NEW list \in Seq(Check), NEW k \in Check, NEW to \in Relisted(list, k)
  PROVE  /\ to \in Seq(Check)
         /\ \A l \in Check : Appears(to, l) <=> Appears(list, l) \/ l = k
<1>1. PICK at : at = {i \in DOMAIN list : list[i] = k} OBVIOUS
<1>2. PICK n : n = CHOOSE i \in at : TRUE OBVIOUS
<1>3. PICK rest : rest = IF at = {} THEN list ELSE RemoveAt(list, n) OBVIOUS
<1>4. to \in {<<k>> \o rest, Append(rest, k)} BY <1>1, <1>2, <1>3 DEF Relisted
<1>5. /\ rest \in Seq(Check)
      /\ \A l \in Check : l # k => (Appears(rest, l) <=> Appears(list, l))
  <2>1. CASE at = {} BY <1>3, <2>1
  <2>2. CASE at # {}
    <3>1. n \in 1..Len(list) /\ list[n] = k BY <1>1, <1>2, <2>2
    <3>2. Len(list) \in Nat OBVIOUS
    <3>3. PICK a : a = SubSeq(list, 1, n - 1) OBVIOUS
    <3>4. PICK b : b = SubSeq(list, n + 1, Len(list)) OBVIOUS
    <3>5. rest = a \o b BY <1>3, <2>2, <3>3, <3>4 DEF RemoveAt
    <3>6. a \in Seq(Check) /\ Len(a) = n - 1 /\ \A i \in 1..(n - 1) : a[i] = list[i]
      BY <3>1, <3>2, <3>3
    <3>7. b \in Seq(Check) /\ Len(b) = Len(list) - n /\ \A i \in 1..(Len(list) - n) : b[i] = list[n + i]
      BY <3>1, <3>2, <3>4
    <3>8. /\ rest \in Seq(Check) /\ Len(rest) = Len(a) + Len(b)
          /\ \A i \in 1..(Len(a) + Len(b)) : rest[i] = IF i <= Len(a) THEN a[i] ELSE b[i - Len(a)]
      BY <3>5, <3>6, <3>7, Concatenated
    <3>9. Len(rest) = Len(list) - 1 BY <3>1, <3>2, <3>6, <3>7, <3>8
    <3>10. \A i \in 1..Len(rest) : rest[i] = IF i < n THEN list[i] ELSE list[i + 1]
      <4> TAKE i \in 1..Len(rest)
      <4>1. CASE i < n
        <5>1. i \in 1..(n - 1) /\ i \in 1..(Len(a) + Len(b)) /\ i <= Len(a) BY <3>1, <3>6, <3>8, <4>1
        <5> QED BY <3>6, <3>8, <4>1, <5>1
      <4>2. CASE ~(i < n)
        <5>1. /\ i \in 1..(Len(a) + Len(b)) /\ ~(i <= Len(a)) /\ i - Len(a) = i - n + 1
              /\ i - n + 1 \in 1..(Len(list) - n) /\ n + (i - n + 1) = i + 1
          BY <3>1, <3>2, <3>6, <3>8, <3>9, <4>2
        <5>2. rest[i] = b[i - n + 1] BY <3>8, <5>1
        <5>3. b[i - n + 1] = list[i + 1] BY <3>7, <5>1
        <5> QED BY <4>2, <5>2, <5>3
      <4> QED BY <4>1, <4>2
    <3>11. ASSUME NEW l \in Check, l # k PROVE Appears(rest, l) <=> Appears(list, l)
      <4>1. ASSUME Appears(rest, l) PROVE Appears(list, l)
        <5>1. PICK i \in 1..Len(rest) : rest[i] = l BY <4>1 DEF Appears
        <5>2. i \in 1..Len(list) /\ i + 1 \in 1..Len(list) BY <3>2, <3>9, <5>1
        <5> QED BY <3>10, <5>1, <5>2 DEF Appears
      <4>2. ASSUME Appears(list, l) PROVE Appears(rest, l)
        <5>1. PICK i \in 1..Len(list) : list[i] = l BY <4>2 DEF Appears
        <5>2. i # n BY <3>1, <3>11, <5>1
        <5>3. CASE i < n
          <6>1. i \in 1..Len(rest) BY <3>1, <3>2, <3>9, <5>3
          <6> QED BY <3>10, <5>1, <5>3, <6>1 DEF Appears
        <5>4. CASE i > n
          <6>1. i - 1 \in 1..Len(rest) /\ ~(i - 1 < n) /\ (i - 1) + 1 = i BY <3>1, <3>2, <3>9, <5>4
          <6>2. rest[i - 1] = list[i] BY <3>10, <6>1
          <6> QED BY <5>1, <6>1, <6>2 DEF Appears
        <5> QED BY <3>1, <3>2, <5>2, <5>3, <5>4
      <4> QED BY <4>1, <4>2
    <3> QED BY <3>8, <3>11
  <2> QED BY <2>1, <2>2
<1>6. Len(rest) \in Nat BY <1>5
<1>7. CASE to = <<k>> \o rest
  <2>1. <<k>> \in Seq(Check) /\ Len(<<k>>) = 1 OBVIOUS
  <2>2. /\ to \in Seq(Check) /\ Len(to) = 1 + Len(rest)
        /\ \A i \in 1..(1 + Len(rest)) : to[i] = IF i <= 1 THEN <<k>>[i] ELSE rest[i - 1]
    BY <1>5, <1>7, <2>1, Concatenated
  <2>3. to[1] = k /\ 1 \in 1..Len(to) BY <1>6, <2>2
  <2>4. \A i \in 1..Len(rest) : i + 1 \in 1..Len(to) /\ to[i + 1] = rest[i] BY <1>6, <2>2
  <2>5. \A i \in 1..Len(to) : i = 1 \/ (i - 1 \in 1..Len(rest) /\ to[i] = rest[i - 1]) BY <1>6, <2>2
  <2>6. ASSUME NEW l \in Check PROVE Appears(to, l) <=> Appears(rest, l) \/ l = k
    BY <2>3, <2>4, <2>5 DEF Appears
  <2>7. Appears(list, k) \/ k = k OBVIOUS
  <2> QED BY <1>5, <2>2, <2>6
<1>8. CASE to = Append(rest, k)
  <2>1. /\ to \in Seq(Check) /\ Len(to) = Len(rest) + 1 /\ to[Len(rest) + 1] = k
        /\ \A i \in 1..Len(rest) : to[i] = rest[i]
    BY <1>5, <1>8
  <2>2. \A i : i \in 1..Len(to) <=> i \in 1..Len(rest) \/ i = Len(rest) + 1 BY <1>6, <2>1
  <2>3. ASSUME NEW l \in Check PROVE Appears(to, l) <=> Appears(rest, l) \/ l = k
    BY <2>1, <2>2 DEF Appears
  <2> QED BY <1>5, <2>1, <2>3
<1> QED BY <1>4, <1>7, <1>8

LEMMA CheckStartsStep ==
  ASSUME GatheringInv, NEW c \in Commit, NEW k \in Check, CheckStarts(c, k)
  PROVE  GatheringInv'
<1>1. PICK to \in Relisted(listing[c], k) : listing' = [listing EXCEPT ![c] = to] BY DEF CheckStarts
<1>2. /\ ~Decided /\ UNCHANGED <<project, apply>> /\ checks' = [checks EXCEPT ![c][k] = "running"]
      /\ k.run # ReeveRun /\ shifted' = (shifted \/ (apply.pc = "checks" /\ apply.page > 1 /\ c = apply.sha))
      /\ UNCHANGED statuses /\ Moved
  BY DEF CheckStarts, Happens, Decided
<1>3. /\ checks' = [d \in Commit |-> checks'[d]]
      /\ \A d \in Commit : checks'[d] = [l \in Check |-> checks'[d][l]]
      /\ \A d \in Commit, l \in Check :
           checks'[d][l] = IF d = c /\ l = k THEN "running" ELSE checks[d][l]
      /\ \A d \in Commit, l \in Check : Ours(d, l)' <=> Ours(d, l)
  <2>1. "running" # Never BY CheckAssumption
  <2> QED BY <1>2, <2>1, CheckMoves
<1>4. /\ listing = [d \in Commit |-> listing[d]] /\ listing[c] \in Seq(Check)
      /\ \A d \in Commit : listing[d] \in Seq(Check)
      /\ \A d \in Commit, l \in Check : checks[d][l] # Never <=> Appears(listing[d], l)
  BY DEF GatheringInv, ForgeOK
<1>5. to \in Seq(Check) /\ \A l \in Check : Appears(to, l) <=> Appears(listing[c], l) \/ l = k
  BY <1>4, RelistedSeq
<1>6. /\ listing' = [d \in Commit |-> listing'[d]]
      /\ \A d \in Commit : listing'[d] = IF d = c THEN to ELSE listing[d]
  BY <1>1, <1>4
<1>7. \A d \in Commit, l \in Check : checks'[d][l] # Never <=> Appears(listing'[d], l)
  <2> TAKE d \in Commit, l \in Check
  <2>1. "running" # Never BY CheckAssumption
  <2>2. CASE d = c
    <3>1. listing'[d] = to /\ listing[d] = listing[c] BY <1>6, <2>2
    <3>2. Appears(to, l) <=> checks[d][l] # Never \/ l = k BY <1>4, <1>5, <3>1
    <3>3. checks'[d][l] # Never <=> checks[d][l] # Never \/ l = k BY <1>3, <2>1, <2>2
    <3> QED BY <3>1, <3>2, <3>3
  <2>3. CASE d # c
    <3>1. listing'[d] = listing[d] /\ checks'[d][l] = checks[d][l] BY <1>3, <1>6, <2>3
    <3> QED BY <1>4, <3>1
  <2> QED BY <2>2, <2>3
<1>8. Remark' = Remark BY <1>2 DEF Remark
<1>9. UNCHANGED <<head, reviews, comments, standing, stood, lasting, returned>> BY <1>2 DEF Moved
<1>10. ForgeOK'
  <2>1. \A d \in Commit : listing'[d] \in Seq(Check) BY <1>4, <1>5, <1>6
  <2> QED BY <1>2, <1>3, <1>6, <1>7, <1>8, <1>9, <2>1 DEF GatheringInv, ForgeOK, Commit, Reviewed
<1>11. \A d \in Commit, l \in Check : checks[d][l] # Never => checks'[d][l] # Never
  BY <1>3, CheckAssumption
<1>12. apply.pc = "checks" /\ ~shifted' => listing'[apply.sha] = listing[apply.sha] \/ apply.page = 1
  <2> SUFFICES ASSUME apply.pc = "checks", ~shifted', apply.page # 1
               PROVE  listing'[apply.sha] = listing[apply.sha]
    OBVIOUS
  <2>1. apply.sha \in Commit /\ apply.page \in Nat \ {0} BY DEF GatheringInv, ApplyShape, Underway
  <2>2. apply.page > 1 BY <2>1
  <2> QED BY <1>2, <1>6, <2>1, <2>2
<1> QED BY <1>2, <1>3, <1>10, <1>11, <1>12, ReadinessStep

LEMMA CheckEndsStep ==
  ASSUME GatheringInv, NEW c \in Commit, NEW k \in Check, NEW state \in {"success", "failure"},
         CheckEnds(c, k, state)
  PROVE  GatheringInv'
<1>1. /\ ~Decided /\ UNCHANGED <<project, apply>> /\ checks' = [checks EXCEPT ![c][k] = state]
      /\ k.run # ReeveRun /\ checks[c][k] # Never
      /\ UNCHANGED <<listing, statuses, shifted>> /\ Moved
  BY DEF CheckEnds, Happens, Decided
<1>2. state # Never BY CheckAssumption
<1>3. /\ checks' = [d \in Commit |-> checks'[d]]
      /\ \A d \in Commit : checks'[d] = [l \in Check |-> checks'[d][l]]
      /\ \A d \in Commit, l \in Check :
           checks'[d][l] = IF d = c /\ l = k THEN state ELSE checks[d][l]
      /\ \A d \in Commit, l \in Check : Ours(d, l)' <=> Ours(d, l)
  BY <1>1, <1>2, CheckMoves
<1>4. \A d \in Commit, l \in Check : checks'[d][l] # Never <=> checks[d][l] # Never
  BY <1>1, <1>2, <1>3
<1>5. Remark' = Remark BY <1>1 DEF Remark
<1>6. UNCHANGED <<head, reviews, comments, standing, stood, lasting, returned>> BY <1>1 DEF Moved
<1>7. \A d \in Commit : \A l \in Check : checks'[d][l] # Never <=> Appears(listing'[d], l)
  BY <1>1, <1>4 DEF GatheringInv, ForgeOK
<1>8. ForgeOK' BY <1>1, <1>3, <1>5, <1>6, <1>7 DEF GatheringInv, ForgeOK, Commit, Reviewed
<1> QED BY <1>1, <1>3, <1>4, <1>8, ReadinessStep

LEMMA StatusStep ==
  ASSUME GatheringInv, NEW c \in Commit, NEW x \in Context,
         NEW state \in {"pending", "success", "failure"}, StatusMoves(c, x, state)
  PROVE  GatheringInv'
<1>1. /\ ~Decided /\ UNCHANGED <<project, apply>> /\ statuses' = [statuses EXCEPT ![c][x] = state]
      /\ UNCHANGED <<checks, listing, shifted>> /\ Moved
  BY DEF StatusMoves, Happens, Decided
<1>2. /\ statuses = [d \in Commit |-> statuses[d]]
      /\ \A d \in Commit : statuses[d] \in [Context -> {Never, "pending", "success", "failure"}]
  BY DEF GatheringInv, ForgeOK
<1>3. /\ statuses' = [d \in Commit |-> statuses'[d]]
      /\ \A d \in Commit : statuses'[d] = IF d = c THEN [statuses[c] EXCEPT ![x] = state] ELSE statuses[d]
  BY <1>1, <1>2
<1>4. \A d \in Commit : statuses'[d] \in [Context -> {Never, "pending", "success", "failure"}]
  BY <1>2, <1>3
<1>5. Remark' = Remark BY <1>1 DEF Remark
<1>6. UNCHANGED <<head, reviews, comments, standing, stood, lasting, returned>> BY <1>1 DEF Moved
<1>7. ForgeOK' BY <1>1, <1>3, <1>4, <1>5, <1>6 DEF GatheringInv, ForgeOK, Commit, Reviewed
<1>8. \A d \in Commit, l \in Check : Ours(d, l)' <=> Ours(d, l) BY <1>1 DEF Ours
<1> QED BY <1>1, <1>7, <1>8, ReadinessStep

LEMMA GatheringStep == GatheringInv /\ [GatheringNext]_gatheringVars => GatheringInv'
<1> SUFFICES ASSUME GatheringInv, [GatheringNext]_gatheringVars PROVE GatheringInv' OBVIOUS
<1>1. CASE UNCHANGED gatheringVars
  <2>1. /\ UNCHANGED <<project, head, reviews, comments, checks, listing, statuses, apply>>
        /\ UNCHANGED <<standing, stood, lasting, unready, troubled, shifted, returned>>
    BY <1>1 DEF gatheringVars, forge, history, readiness
  <2>2. Remark' = Remark /\ Said(comments)' = Said(comments) BY <2>1 DEF Remark, Said
  <2>3. ForgeOK' /\ ApplyShape' BY <2>1, <2>2 DEF GatheringInv, ForgeOK, ApplyShape, Underway
  <2>4. StandingOK' /\ HistoryOK' BY <2>1, <2>2 DEF GatheringInv, StandingOK, HistoryOK, Underway
  <2>5. UnreadyOK' /\ RunsOK' /\ ChangedOK' BY <2>1, Resting, FilesRest DEF readiness
  <2>6. GreenOK' BY <2>1 DEF GatheringInv, GreenOK
  <2>7. RevsOK' BY <2>1 DEF GatheringInv, RevsOK, Overruled
  <2>8. CommentsOK' /\ RawOK' BY <2>1 DEF GatheringInv, CommentsOK, RawOK
  <2> QED BY <2>3, <2>4, <2>5, <2>6, <2>7, <2>8 DEF GatheringInv
<1>2. CASE ReadPR \/ ReadFiles \/ ReadChecks \/ ReadStatuses
  BY <1>2, ReadPRStep, ReadFilesStep, ReadChecksStep, ReadStatusesStep
<1>3. CASE ReadReviews \/ ReadComments \/ ReadOwners \/ ReadTeams \/ Revalidate
  BY <1>3, ReadReviewsStep, ReadCommentsStep, ReadOwnersStep, ReadTeamsStep, RevalidateStep
<1>4. CASE \E u \in Reviewer :
             \/ \E state \in {"APPROVED", "CHANGES_REQUESTED", "COMMENTED"} : Review(u, state)
             \/ Dismiss(u)
             \/ \E words \in Words : Say(u, words)
  BY <1>4, ReviewStep, DismissStep, SayStep
<1>5. CASE \E i \in DOMAIN comments : Unsay(i) BY <1>5, UnsayStep
<1>6. ASSUME NEW c \in Commit,
             \/ Push(c)
             \/ \E k \in Check :
                  CheckStarts(c, k) \/ \E state \in {"success", "failure"} : CheckEnds(c, k, state)
             \/ \E x \in Context, state \in {"pending", "success", "failure"} : StatusMoves(c, x, state)
      PROVE  GatheringInv'
  BY <1>6, PushStep, CheckStartsStep, CheckEndsStep, StatusStep
<1> QED BY <1>1, <1>2, <1>3, <1>4, <1>5, <1>6 DEF GatheringNext

(* What has been read of the pull request so far agrees with what the forge  *)
(* has shown since the apply began: what the theorems below rest on.         *)
THEOREM Gathers == GatheringSpec => []GatheringInv
BY GatheringStart, GatheringStep, PTL DEF GatheringSpec

LEMMA ExactApprovals == GatheringInv => ApprovalsExact
<1> SUFFICES ASSUME GatheringInv, Decided PROVE ApprovalsExact BY DEF ApprovalsExact
<1>0. PICK policy : policy = project.rules OBVIOUS
<1>1. /\ \A a \in apply.raw : \E x \in stood : Backs(x, a)
      /\ \A x \in lasting : Approval(x.by, x.sha, TRUE) \in apply.raw
  BY DEF GatheringInv, RawOK, Decided, Judged
<1>2. ~(policy.freshness > 0) BY <1>0, ProjectsAssumption DEF GatheringInv, ForgeOK
<1>3. PullRequest.head = apply.sha /\ PullRequest.author = project.author BY DEF PullRequest
<1>4. NoSHA \notin Commit BY CommitsAssumption DEF Commit
<1>5. ASSUME NEW u \in Counted
      PROVE  \E x \in stood :
               /\ x.by = u
               /\ policy.dismiss =>
                    \/ x.sha = apply.sha
                    \/ x.kind = "comment" /\ x.sha = NoSHA /\ policy.unpinned
  <2>1. PICK a \in apply.raw : a.by = u /\ Counts(policy, a, PullRequest, 0)
    BY <1>0 DEF Counted, Approvers
  <2>2. PICK x \in stood : Backs(x, a) BY <1>1
  <2>3. policy.dismiss => IF a.pinned THEN a.sha \in {NoSHA, apply.sha} ELSE policy.unpinned
    BY <1>3, <2>1 DEF Counts, ForThisHead
  <2>4. x.by = u /\ x.sha = a.sha BY <2>1, <2>2 DEF Backs
  <2>5. CASE x.kind = "review" /\ x.sha \in Commit /\ a.pinned BY <1>4, <2>3, <2>4, <2>5
  <2>6. CASE x.kind = "comment" /\ (a.pinned <=> x.sha # NoSHA) BY <2>3, <2>4, <2>6
  <2> QED BY <2>2, <2>5, <2>6 DEF Backs
<1>6. ASSUME NEW x \in lasting, x.sha = apply.sha, x.by # project.author
      PROVE  x.by \in Counted
  <2>1. PICK a : a = Approval(x.by, x.sha, TRUE) OBVIOUS
  <2>2. a.by = x.by /\ a.sha = apply.sha /\ a.pinned = TRUE BY <1>6, <2>1 DEF Approval
  <2>3. a \in apply.raw BY <1>1, <2>1
  <2>4. Counts(policy, a, PullRequest, 0) BY <1>2, <1>3, <1>6, <2>2 DEF Counts, ForThisHead, Fresh
  <2> QED BY <1>0, <2>2, <2>3, <2>4 DEF Counted, Approvers
<1> QED BY <1>0, <1>5, <1>6 DEF ApprovalsExact

(* Approvals are facts, and facts count: however the pages are read while    *)
(* reviewers go on, whoever counts did approve, and an approval that stood   *)
(* all along is counted.                                                     *)
THEOREM ApprovalsAreFacts == GatheringSpec => []ApprovalsExact
BY Gathers, ExactApprovals, PTL

LEMMA SeenBlockers == GatheringInv => BlockersSeen
<1> SUFFICES ASSUME GatheringInv, Decided PROVE BlockersSeen BY DEF BlockersSeen
<1>1. apply.pc \notin Unread /\ apply.pc \notin Unread \ {"statuses"} BY DEF Decided, Unread
<1> QED BY <1>1 DEF GatheringInv, GreenOK, BlockersSeen

(* A status of the commit that was pending or failing all the while is never *)
(* missed, and neither is a check of somebody else, unless one of the        *)
(* commit's was listed anew between two pages of its check runs; and where   *)
(* nothing was in trouble meanwhile, nothing is held against it.             *)
THEOREM BlockersAreSeen == GatheringSpec => []BlockersSeen
BY Gathers, SeenBlockers, PTL

LEMMA DecidedOnOne == GatheringInv => OneCommit
<1> SUFFICES ASSUME GatheringInv, Decided, project.expected, ~returned
             PROVE  apply.changed = ToSet(project.files[apply.sha])
  BY DEF OneCommit
<1>1. head = apply.sha BY DEF GatheringInv, ChangedOK
<1>2. Still /\ apply.pc # "files" BY <1>1 DEF Still, Underway, Decided
<1> QED BY <1>2 DEF GatheringInv, ChangedOK

(* An apply that was told its checkout decides on the files of that commit   *)
(* whatever is pushed while it reads page after page, unless the head left   *)
(* the commit and came back before the last look at it.                      *)
THEOREM DecidesOnOneCommit == GatheringSpec => []OneCommit
BY Gathers, DecidedOnOne, PTL

LEMMA CoveredScope == ScopeCovers
<1>1. PICK files : files = Scoped OBVIOUS
<1>2. PICK cm : cm = project.mapping OBVIOUS
<1>3. PICK stacks : stacks = Stacks OBVIOUS
<1>4. PICK load : load = {f \in files : f.path \notin cm.skip} OBVIOUS
<1>5. PICK matched : matched = {s \in stacks : \E f \in load : Claims(s, f, cm)} OBVIOUS
<1>6. PICK orphans : orphans = {f \in load : ~\E s \in matched : Claims(s, f, cm)} OBVIOUS
<1>7. PICK got : got = AffectedDetailed(stacks, files, cm) OBVIOUS
<1>8. got = CASE load = {} -> [reason |-> "docs_only", stacks |-> {}, matched |-> {}]
              [] load # {} /\ orphans # {} /\ cm.scope # "pulumi_only" ->
                   [reason |-> "broadened", stacks |-> stacks, matched |-> matched]
              [] OTHER -> [reason |-> "matched", stacks |-> matched, matched |-> matched]
  BY <1>4, <1>5, <1>6, <1>7 DEF AffectedDetailed
<1>9. CASE load = {}
  <2>1. got.stacks = {} /\ ApplyScope(got) = {} BY <1>8, <1>9 DEF ApplyScope
  <2>2. \A f \in files : f.path \in cm.skip BY <1>4, <1>9
  <2> QED BY <1>1, <1>2, <1>3, <1>7, <2>1, <2>2 DEF ScopeCovers, Affected
<1>10. CASE load # {} /\ orphans # {} /\ cm.scope # "pulumi_only"
  <2>1. got.stacks = stacks /\ ApplyScope(got) = matched BY <1>8, <1>10 DEF ApplyScope
  <2>2. \A s \in matched : s \in stacks /\ \E f \in files : Claims(s, f, cm) BY <1>4, <1>5
  <2> QED BY <1>1, <1>2, <1>3, <1>7, <2>1, <2>2 DEF ScopeCovers, Affected
<1>11. CASE load # {} /\ ~(orphans # {} /\ cm.scope # "pulumi_only")
  <2>1. got.stacks = matched /\ ApplyScope(got) = matched BY <1>8, <1>11 DEF ApplyScope
  <2>2. \A s \in matched : \E f \in files : Claims(s, f, cm) BY <1>4, <1>5
  <2>3. cm.scope # "pulumi_only" =>
          \A f \in files : f.path \in cm.skip \/ \E s \in matched : Claims(s, f, cm)
    BY <1>4, <1>6, <1>11
  <2> QED BY <1>1, <1>2, <1>3, <1>7, <2>1, <2>2, <2>3 DEF ScopeCovers, Affected
<1> QED BY <1>9, <1>10, <1>11

(* No change goes unplanned, and what an apply takes without a manifest was  *)
(* planned because of a file.                                                *)
THEOREM NoChangeUnplanned == GatheringSpec => []ScopeCovers
BY CoveredScope, PTL

LEMMA UnambiguousProviders == GatheringInv => ProvidersExact
<1> DEFINE bs(s, m)   == {b \in ToSet(project.bindings) : BindingMatches(b, s, m)}
           ci(s, m)   == ResolveProviders(project.bindings, s, m, FALSE, << >>)
           here(s, m) == ResolveProviders(project.bindings, s, m, TRUE, << >>)
           names(b)   == b.providers \cup ToSet(b.override)
           says(s, m, x) == {b \in bs(s, m) : \E y \in names(b) : SameScope(x, y)}
           over(d, b) == IF (d.mode = AnyMode) = (b.mode = AnyMode)
                         THEN Rank(d) > Rank(b) ELSE b.mode = AnyMode
           exact(s, m) ==
             /\ \A x \in ci(s, m) : \E b \in says(s, m, x) :
                  x \in names(b) /\ \A d \in says(s, m, x) : ~over(d, b)
             /\ \A x, y \in here(s, m) : SameScope(x, y) => x = y
             /\ \A b \in bs(s, m) : \A x \in here(s, m) :
                  x \in CIOnly => ~\E y \in ToSet(b.local) : SameScope(x, y)
<1> SUFFICES ASSUME GatheringInv, ValidBindings(project.bindings, Stacks, Mode),
                    NEW s \in Stacks, NEW m \in Mode
             PROVE  exact(s, m)
  <2>1. ProvidersExact <=> (apply.pc = "new" /\ ValidBindings(project.bindings, Stacks, Mode) =>
                              \A s \in Stacks, m \in Mode : exact(s, m))
    BY DEF ProvidersExact
  <2> HIDE DEF exact
  <2> QED BY <2>1
<1> DEFINE list == project.bindings
           P == DOMAIN Domain
<1>0. project \in Projects BY DEF GatheringInv, ForgeOK
<1>1. list \in Seq(ToSet(list)) BY <1>0, BindingsAssumption
<1>2. ASSUME NEW i \in 1..Len(list)
      PROVE  /\ list[i].providers \in SUBSET P
             /\ list[i].override \in Seq(P) /\ list[i].local \in Seq(P)
             /\ Rank(list[i]) \in Int
  <2>1. list[i] \in ToSet(list) BY <1>1
  <2>2. /\ list[i].providers \subseteq DOMAIN Domain
        /\ list[i].override \in Seq(DOMAIN Domain) /\ list[i].local \in Seq(DOMAIN Domain)
        /\ list[i].literals \in Nat /\ list[i].wildcards \in Nat
    BY <1>0, <2>1, BindingsAssumption
  <2> QED BY <2>2 DEF Rank
<1> HIDE DEF list, P
<1>3. Listing(list, P) /\ Ranked(list) BY <1>1, <1>2 DEF Listing, Ranked
<1>4. /\ \A i \in DOMAIN list : \A j \in DOMAIN list[i].local : list[i].local[j] \notin CIOnly
      /\ \A x, y \in ResolveProviders(list, s, m, FALSE, << >>) : SameScope(x, y) => x = y
  BY DEF ValidBindings, list
<1>5. /\ \A x, y \in here(s, m) : SameScope(x, y) => x = y
      /\ \A b \in ToSet(list) : BindingMatches(b, s, m) =>
           \A x \in here(s, m) : x \in CIOnly => ~\E y \in ToSet(b.local) : SameScope(x, y)
  BY <1>1, <1>3, <1>4, LocalIsExact DEF list
<1>6. ASSUME NEW x \in ci(s, m)
      PROVE  \E b \in says(s, m, x) : x \in names(b) /\ \A d \in says(s, m, x) : ~over(d, b)
  <2>1. x \in ResolveProviders(list, s, m, FALSE, << >>) BY DEF list
  <2>2. PICK b \in HasSay(list, s, m, x) :
          x \in NamesOf(b) /\ \A d \in HasSay(list, s, m, x) : ~MoreSpecific(d, b)
    BY <1>1, <1>3, <1>4, <2>1, MostSpecificNames
  <2>3. HasSay(list, s, m, x) = says(s, m, x) BY DEF HasSay, NamesOf, list
  <2>4. \A d : ~MoreSpecific(d, b) => ~over(d, b) BY DEF MoreSpecific
  <2> HIDE DEF says, over
  <2> QED BY <2>2, <2>3, <2>4 DEF NamesOf
<1> QED BY <1>5, <1>6 DEF list

(* Credentials are unambiguous: with bindings that `reeve lint' accepts one  *)
(* of the most specific bindings names the provider of a scope, and a local  *)
(* run has no CI-only provider beside a substitute, whatever the order in    *)
(* the configuration and however many bindings match.                        *)
THEOREM CredentialsAreUnambiguous == GatheringSpec => []ProvidersExact
BY Gathers, UnambiguousProviders, PTL

=============================================================================
