--------------------------------- MODULE Locks ---------------------------------
(***************************************************************************)
(* What the lock store promises: every lock operation is one atomic step   *)
(* on the current lock of one stack, taken with a clock reading that is    *)
(* never ahead of the caller's clock.  LockStore, where an operation is a  *)
(* read, a computation and a conditional write with retries, implements    *)
(* this specification.                                                     *)
(***************************************************************************)
EXTENDS LockMachine

CONSTANTS
  Key,        \* lock objects, one per stack
  Admin,      \* processes that run `reeve locks ...' or the maintenance sweep
  Commands,   \* the kinds of operation they use
  PRof,       \* the pull request of each run
  Skews,      \* how far clocks run ahead of the slowest one, in ticks
  MaxTime,    \* bound: the last instant of the (slowest) clock
  Seeds       \* locks left in the bucket before the first step

Client == Run \cup Admin

ASSUME PRofAssumption    == PRof \in [Run -> PR]
ASSUME SkewsAssumption   == Skews \subseteq Nat
ASSUME MaxTimeAssumption == MaxTime \in Nat
ASSUME SeedsAssumption   == \A l \in Seeds : LockOK(l)

VARIABLES
  lock,       \* the lock of every stack
  now,        \* the slowest clock
  skew        \* how far each process's clock is ahead of it

vars == <<lock, now, skew>>

Clock(c) == now + skew[c]

Self(r) == [pr |-> PRof[r], run |-> r]

(* What a process may ask: a run acquires (and refreshes) and releases in    *)
(* its own name and, when it finishes, sweeps its pull request off the lock; *)
(* the maintenance job reaps; the unlock command removes a pull request,     *)
(* with or without --force, or clears the holder as the admin override.      *)
RunRequests(r) ==
  {AcquireReq(Self(r)), ReleaseReq(Self(r)), UnlockReq(PRof[r], r, TRUE)}

AdminRequests ==
  {req \in {ReapReq, ForceUnlockReq} \cup
           {UnlockReq(pr, AnyRun, f) : pr \in PR, f \in BOOLEAN} : req.kind \in Commands}

Requests(c) == IF c \in Run THEN RunRequests(c) ELSE AdminRequests

Init ==
  /\ lock \in [Key -> Seeds \cup {NewLock}]
  /\ now = 0
  /\ skew \in [Client -> Skews]

Tick ==
  /\ now < MaxTime
  /\ now' = now + 1
  /\ UNCHANGED <<lock, skew>>

Step(k, req, t) ==
  lock' = [lock EXCEPT ![k] = Transition(req, lock[k], t).lock]

Operate(c, k) ==
  /\ \E req \in Requests(c), t \in 0..Clock(c) : Step(k, req, t)
  /\ UNCHANGED <<now, skew>>

Next == Tick \/ \E c \in Client, k \in Key : Operate(c, k)

Spec == Init /\ [][Next]_vars

-----------------------------------------------------------------------------
TypeOK ==
  /\ lock \in [Key -> Lock]
  /\ now \in Nat
  /\ skew \in [Client -> Nat]

(* A pull request is queued at most once per stack, never behind itself, and *)
(* nobody waits for a free lock: promotion never loses or duplicates a       *)
(* waiter, whatever order acquires, releases, evictions and unlocks come in. *)
QueuesOK == \A k \in Key : QueueUnique(lock[k]) /\ NoIdleQueue(lock[k])

(* p waits in front of q. *)
Before(l, p, q) ==
  \E i, j \in 1..Len(l.queue) : i < j /\ l.queue[i].pr = p /\ l.queue[j].pr = q

(* No step lets a waiter overtake another: while p is still waiting, a pull  *)
(* request that was behind it neither holds the lock nor waits in front.     *)
NoOvertaking ==
  [][\A k \in Key : \A p, q \in PR :
       Before(lock[k], p, q) /\ Queued(lock'[k], p) /\ InvolvesPR(lock'[k], q)
         => Before(lock'[k], p, q)]_vars

(* The run that acquired lock k (and was not merely promoted) loses it. *)
Loses(k) ==
  /\ Held(lock[k]) /\ ~lock[k].holder.promoted
  /\ ~(Held(lock'[k]) /\ lock'[k].holder.run = lock[k].holder.run)

(* The holder's own release and sweep, and the forced unlocks. *)
MayEvict(req, h) ==
  \/ req.kind \in {"release", "unlock"} /\ req.run = h.run
  \/ req.kind = "unlock" /\ req.run = AnyRun /\ req.pr = h.pr /\ req.force
  \/ req.kind = "force_unlock"

(* Nobody else takes a lock from the run that acquired it before its lease   *)
(* has run out on the clock of the process that takes it: not another run's  *)
(* acquire, not another run's release or sweep, not the reaper, and not an   *)
(* unlock without --force.                                                   *)
NoEarlyEviction ==
  [][\A c \in Client, k \in Key :
       \A req \in Requests(c), t \in 0..Clock(c) :
         Step(k, req, t) /\ Loses(k) /\ ~MayEvict(req, lock[k].holder)
           => lock[k].holder.expires <= Clock(c)]_vars

=============================================================================
