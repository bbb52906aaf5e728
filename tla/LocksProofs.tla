------------------------------ MODULE LocksProofs ------------------------------
(***************************************************************************)
(* Proofs about Locks, for every set of pull requests, runs, stacks and    *)
(* clocks.  The inductive invariant is that every lock is well formed      *)
(* (LockOK): typed, nobody queued twice or behind itself, and no waiter at *)
(* a free lock.  LockMachineProofs shows that the transitions preserve it. *)
(***************************************************************************)
EXTENDS Locks, LockMachineProofs

-----------------------------------------------------------------------------
(* The specification. *)

IInv == /\ TypeOK
        /\ \A k \in Key : LockOK(lock[k])

LEMMA RequestsType == ASSUME NEW c \in Client PROVE Requests(c) \subseteq Request
<1>1. CASE c \in Run
  <2>1. Self(c) \in Applicant
    BY <1>1, PRofAssumption DEF Self, Applicant
  <2>2. PRof[c] \in PR /\ c \in Run \cup {AnyRun} /\ TRUE \in BOOLEAN
    BY <1>1, PRofAssumption
  <2>3. /\ \A a \in Applicant : AcquireReq(a) \in Request /\ ReleaseReq(a) \in Request
        /\ \A pr \in PR, run \in Run \cup {AnyRun}, f \in BOOLEAN :
             UnlockReq(pr, run, f) \in Request
    BY DEF Request
  <2>4. AcquireReq(Self(c)) \in Request /\ ReleaseReq(Self(c)) \in Request
    BY <2>1, <2>3
  <2>5. UnlockReq(PRof[c], c, TRUE) \in Request
    BY <2>2, <2>3, Zenon
  <2>6. RunRequests(c) \subseteq Request
    BY <2>4, <2>5, Zenon DEF RunRequests
  <2> QED BY <1>1, <2>6 DEF Requests
<1>2. CASE c \notin Run
  <2>1. {UnlockReq(pr, AnyRun, f) : pr \in PR, f \in BOOLEAN} \subseteq
          {UnlockReq(pr, run, f) : pr \in PR, run \in Run \cup {AnyRun}, f \in BOOLEAN}
    OBVIOUS
  <2>2. AdminRequests \subseteq Request
    BY <2>1 DEF AdminRequests, Request
  <2> QED BY <1>2, <2>2 DEF Requests
<1> QED BY <1>1, <1>2

LEMMA InitOK == Init => IInv
<1> SUFFICES ASSUME Init PROVE IInv
  OBVIOUS
<1>1. \A k \in Key : LockOK(lock[k])
  BY NewLockOK, SeedsAssumption DEF Init
<1>2. \A k \in Key : lock[k] \in Lock
  BY <1>1 DEF LockOK
<1>3. lock \in [Key -> Lock]
  BY <1>2 DEF Init
<1>4. now \in Nat /\ skew \in [Client -> Nat]
  BY SkewsAssumption DEF Init
<1> QED BY <1>1, <1>3, <1>4 DEF IInv, TypeOK

LEMMA NextOK == IInv /\ [Next]_vars => IInv'
<1> SUFFICES ASSUME IInv, [Next]_vars PROVE IInv'
  OBVIOUS
<1> USE DEF IInv, TypeOK
<1>1. CASE Tick
  BY <1>1 DEF Tick
<1>2. ASSUME NEW c \in Client, NEW k \in Key, Operate(c, k)
      PROVE  IInv'
  <2>1. PICK req \in Requests(c), t \in 0..Clock(c) : Step(k, req, t)
    BY <1>2 DEF Operate
  <2>2. req \in Request /\ t \in Nat
    <3>1. Clock(c) \in Nat
      BY DEF Clock
    <3> QED BY <2>1, <3>1, RequestsType
  <2> DEFINE new == Transition(req, lock[k], t).lock
  <2>3. LockOK(new)
    BY <2>2, TransitionOK
  <2>4. new \in Lock
    BY <2>3 DEF LockOK
  <2>5. lock' = [lock EXCEPT ![k] = new]
    BY <2>1 DEF Step
  <2> HIDE DEF new
  <2>6. lock' \in [Key -> Lock] /\ \A j \in Key : LockOK(lock'[j])
    BY <2>3, <2>4, <2>5
  <2> QED BY <1>2, <2>6 DEF Operate
<1>3. CASE UNCHANGED vars
  BY <1>3 DEF vars
<1> QED BY <1>1, <1>2, <1>3 DEF Next

(* Types, and the shape of the queues, in every reachable state. *)
THEOREM TypeCorrect == Spec => []TypeOK
<1>1. IInv => TypeOK
  BY DEF IInv
<1> QED BY InitOK, NextOK, <1>1, PTL DEF Spec

(* On every stack, whatever the interleaving of acquires, refreshes,         *)
(* releases, evictions, unlocks and overrides, a pull request waits at most  *)
(* once and never behind itself, and a free lock has no waiters.             *)
THEOREM QueuesAlwaysOK == Spec => []QueuesOK
<1>1. IInv => QueuesOK
  BY DEF IInv, QueuesOK, LockOK
<1> QED BY InitOK, NextOK, <1>1, PTL DEF Spec

-----------------------------------------------------------------------------
(* What a transition may do to a lease that has not run out. *)

Keeps(l, n) == Held(n) /\ n.holder.run = l.holder.run

LEMMA AcquireKeeps ==
  ASSUME NEW l \in Lock, NEW a, NEW t \in Nat,
         Held(l), ~l.holder.promoted, ~Expired(l.holder, t)
  PROVE  Keeps(l, TryAcquire(l, a, TTL, t).lock)
<1> DEFINE r == [l EXCEPT !.holder.expires = Stamp(t + TTL), !.holder.promoted = FALSE]
           out == TryAcquire(l, a, TTL, t).lock
<1>1. EvictIfExpired(l, t, TTL) = l
  BY FreshKept
<1>2. out = r \/ out = l \/ out = Enqueue(l, a)
  BY <1>1, Zenon DEF TryAcquire, Result
<1>3. l.holder \in Holder
  BY DEF Lock, Held
<1>4. r.holder.run = l.holder.run /\ r.holder \in Holder
  <2>1. Stamp(t + TTL) \in Nat
    BY TTLAssumption, StampType
  <2> QED BY <1>3, <2>1 DEF Lock, Holder, ExpiresAt
<1>5. Keeps(l, r)
  BY <1>4, HolderAssumption DEF Keeps, Held
<1>6. Keeps(l, Enqueue(l, a))
  BY DEF Keeps, Enqueue, Held, Lock
<1> HIDE DEF r, out
<1>7. Keeps(l, out)
  BY <1>2, <1>5, <1>6 DEF Keeps
<1> QED BY <1>7 DEF out

LEMMA ReleaseKeeps ==
  ASSUME NEW l \in Lock, NEW pr, NEW run, NEW t \in Nat,
         Held(l), ~Expired(l.holder, t), l.holder.run # run
  PROVE  Keeps(l, Release(l, pr, run, TTL, t).lock)
<1>1. EvictIfExpired(l, t, TTL) = l
  BY FreshKept
<1> DEFINE d   == [l EXCEPT !.queue = RemovePR(@, pr)]
           out == Release(l, pr, run, TTL, t).lock
<1>2. out = d \/ out = l
  BY <1>1, Zenon DEF Release, Result
<1>3. Keeps(l, d)
  BY DEF Keeps, Held, Lock
<1> HIDE DEF d, out
<1>4. Keeps(l, out)
  BY <1>2, <1>3 DEF Keeps
<1> QED BY <1>4 DEF out

LEMMA UnlockKeeps ==
  ASSUME NEW l \in Lock, NEW pr, NEW run, NEW t \in Nat,
         Held(l), ~Expired(l.holder, t), l.holder.run # run,
         run # AnyRun \/ l.holder.pr # pr
  PROVE  Keeps(l, UnlockPR(l, pr, run, TTL, t))
<1> DEFINE d == [l EXCEPT !.queue = RemovePR(@, pr)]
<1>1. UnlockPR(l, pr, run, TTL, t) = d
  BY Zenon DEF UnlockPR
<1>2. Keeps(l, d)
  BY DEF Keeps, Held, Lock
<1> HIDE DEF d
<1> QED BY <1>1, <1>2

(* A lease that is lost to somebody else had run out by then. *)
LEMMA LossIsLate ==
  ASSUME NEW l \in Lock, NEW c \in Client, NEW clock \in Nat,
         NEW req \in Requests(c), NEW t \in 0..clock,
         Held(l), ~l.holder.promoted,
         ~Keeps(l, Transition(req, l, t).lock), ~MayEvict(req, l.holder)
  PROVE  l.holder.expires <= clock
<1> DEFINE h == l.holder
<1>1. t \in Nat /\ t <= clock /\ h.expires \in ExpiresAt /\ h.run \in Run
  BY DEF Lock, Held, Holder
<1>2. CASE Expired(h, t)
  BY <1>1, <1>2 DEF Expired, ExpiresAt, Unparseable, Missing
<1>3. CASE ~Expired(h, t)
  <2>1. CASE req.kind = "acquire"
    <3>1. Transition(req, l, t).lock = TryAcquire(l, req, TTL, t).lock
      BY <2>1 DEF Transition, AcquireOp, Outcome
    <3> QED BY <1>1, <1>3, <3>1, AcquireKeeps
  <2>2. CASE req.kind = "release"
    <3>1. Transition(req, l, t).lock = Release(l, req.pr, req.run, TTL, t).lock
      BY <2>2 DEF Transition, ReleaseOp, Outcome
    <3>2. h.run # req.run
      BY <2>2 DEF MayEvict
    <3> QED BY <1>1, <1>3, <3>1, <3>2, ReleaseKeeps
  <2>3. CASE req.kind = "unlock"
    <3>1. h.run # req.run
      BY <2>3 DEF MayEvict
    <3>2. CASE req.run # AnyRun \/ h.pr # req.pr
      <4>1. Keeps(l, UnlockPR(l, req.pr, req.run, TTL, t)) /\ Keeps(l, l)
        BY <1>1, <1>3, <3>1, <3>2, UnlockKeeps DEF Keeps
      <4>2. \/ Transition(req, l, t).lock = l
            \/ Transition(req, l, t).lock = UnlockPR(l, req.pr, req.run, TTL, t)
        BY <2>3 DEF Transition, UnlockOp, Outcome
      <4> QED BY <4>1, <4>2
    <3>3. CASE req.run = AnyRun /\ h.pr = req.pr
      <4>1. ~req.force
        BY <2>3, <3>3 DEF MayEvict
      <4>2. CASE HolderActive(l, req.pr, req.run, t)
        <5>1. Transition(req, l, t).lock = l
          BY <2>3, <4>1, <4>2 DEF Transition, UnlockOp, Outcome
        <5> QED BY <5>1 DEF Keeps
      <4>3. CASE ~HolderActive(l, req.pr, req.run, t)
        <5>1. h.expires \in {Unparseable, Missing} \/ ~(t < h.expires)
          BY <3>3, <4>3 DEF HolderActive
        <5> QED BY <1>1, <5>1 DEF ExpiresAt, Unparseable, Missing
      <4> QED BY <4>2, <4>3
    <3> QED BY <3>2, <3>3
  <2>4. CASE req.kind = "reap"
    <3>1. Transition(req, l, t).lock = l
      BY <1>3, <2>4 DEF Transition, ReapOp, Reap, Result, Outcome
    <3> QED BY <3>1 DEF Keeps
  <2>5. CASE req.kind = "force_unlock"
    BY <2>5 DEF MayEvict
  <2>6. req.kind \in {"acquire", "release", "unlock", "reap", "force_unlock"}
    <3>1. req \in Request
      BY RequestsType
    <3> QED BY <3>1 DEF Request, AcquireReq, ReleaseReq, UnlockReq, ReapReq, ForceUnlockReq
  <2> QED BY <2>1, <2>2, <2>3, <2>4, <2>5, <2>6
<1> QED BY <1>2, <1>3

(* A run that acquired a lock keeps it until it gives it up, an operator     *)
(* forces it out, or its lease has run out on the clock of the process that  *)
(* takes it: TryAcquire, Release, UnlockPR, Reap and the unlock command's    *)
(* holderActive refusal together leave no other way.                         *)
THEOREM LeasesRespected == Spec => NoEarlyEviction
<1>1. ASSUME IInv, NEW c \in Client, NEW k \in Key, NEW req \in Requests(c),
             NEW t \in 0..Clock(c),
             Step(k, req, t), Loses(k), ~MayEvict(req, lock[k].holder)
      PROVE  lock[k].holder.expires <= Clock(c)
  <2>1. lock[k] \in Lock /\ Clock(c) \in Nat
    BY <1>1 DEF IInv, TypeOK, Clock
  <2>2. lock'[k] = Transition(req, lock[k], t).lock
    BY <1>1 DEF Step, IInv, TypeOK
  <2>3. /\ Held(lock[k]) /\ ~lock[k].holder.promoted
        /\ ~Keeps(lock[k], Transition(req, lock[k], t).lock)
    BY <1>1, <2>2 DEF Loses, Keeps
  <2> QED BY <1>1, <2>1, <2>3, LossIsLate
<1>2. IInv /\ [Next]_vars =>
        [\A c \in Client, k \in Key :
           \A req \in Requests(c), t \in 0..Clock(c) :
             Step(k, req, t) /\ Loses(k) /\ ~MayEvict(req, lock[k].holder)
               => lock[k].holder.expires <= Clock(c)]_vars
  BY <1>1
<1> QED BY InitOK, NextOK, <1>2, PTL DEF Spec, NoEarlyEviction

-----------------------------------------------------------------------------
(* What a transition may do to the order of the waiters. *)

(* x waits in front of y. *)
Precedes(w, x, y) ==
  \E i, j \in 1..Len(w) : i < j /\ w[i].pr = x /\ w[j].pr = y

HeldBy(l, x) == Held(l) /\ l.holder.pr = x

(* n follows from l without a new waiter, without two waiters swapped, and   *)
(* without a lock that went to a waiter ahead of one that still waits.       *)
(* Unlike the absence of overtaking itself, this composes.                   *)
Follows(l, n) ==
  \A x, y \in PR :
    /\ Waits(n.queue, x) => Waits(l.queue, x)
    /\ HeldBy(n, x) => HeldBy(l, x) \/ Waits(l.queue, x)
    /\ Precedes(l.queue, x, y) /\ Waits(n.queue, x) =>
         /\ ~HeldBy(n, y)
         /\ Waits(n.queue, y) => Precedes(n.queue, x, y)

(* Nobody who waits is forgotten. *)
Remembers(l, n) == \A x \in PR : Waits(l.queue, x) => Waits(n.queue, x) \/ HeldBy(n, x)

LEMMA PrecedesWaits ==
  ASSUME NEW w, NEW x, NEW y, Precedes(w, x, y)
  PROVE  Waits(w, x) /\ Waits(w, y)
BY Zenon DEF Precedes, Waits

LEMMA HolderDoesNotWait ==
  ASSUME NEW l, LockOK(l), NEW x, HeldBy(l, x)
  PROVE  ~Waits(l.queue, x)
BY LockOKDef DEF HeldBy

(* The same waiters and the same holder, or none: a refresh, or nothing. *)
LEMMA RefreshFollows ==
  ASSUME NEW l, LockOK(l), NEW n, n.queue = l.queue,
         \A x \in PR : HeldBy(n, x) => HeldBy(l, x)
  PROVE  Follows(l, n)
BY PrecedesWaits, HolderDoesNotWait DEF Follows

LEMMA FollowsTransitive ==
  ASSUME NEW l, NEW m, NEW n, Follows(l, m), Follows(m, n)
  PROVE  Follows(l, n)
BY PrecedesWaits, Zenon DEF Follows

(* removePR keeps the order of those it leaves. *)
LEMMA RemoveKeepsPrecedence ==
  ASSUME NEW w \in Seq(QueueItem), Distinct(w), NEW pr, NEW x, NEW y,
         Precedes(w, x, y), Waits(RemovePR(w, pr), x), Waits(RemovePR(w, pr), y)
  PROVE  Precedes(RemovePR(w, pr), x, y)
<1> DEFINE out == RemovePR(w, pr)
<1>1. out \in Seq(QueueItem)
  BY RemovePRFacts
<1>2. PICK f \in [1..Len(out) -> Kept(w, pr)] :
        /\ \A k \in 1..Len(out) : out[k] = w[f[k]]
        /\ \A k, l \in 1..Len(out) : k < l => f[k] < f[l]
  BY RemovePRFacts
<1>3. Waits(out, x) /\ Waits(out, y)
  OBVIOUS
<1> HIDE DEF out
<1>4. PICK k \in 1..Len(out), l \in 1..Len(out) : out[k].pr = x /\ out[l].pr = y
  BY <1>3 DEF Waits
<1>5. PICK i \in 1..Len(w), j \in 1..Len(w) : i < j /\ w[i].pr = x /\ w[j].pr = y
  BY DEF Precedes
<1>6. f[k] \in 1..Len(w) /\ f[l] \in 1..Len(w)
  BY DEF Kept
<1>7. f[k] = i /\ f[l] = j
  BY <1>2, <1>4, <1>5, <1>6 DEF Distinct
<1>8. k # l /\ ~(l < k)
  BY <1>2, <1>5, <1>7
<1>9. Len(out) \in Nat
  BY <1>1
<1>10. k < l
  BY <1>8, <1>9
<1>11. Precedes(out, x, y)
  BY <1>4, <1>10 DEF Precedes
<1> QED BY <1>11 DEF out

(* Entries leave the queue, the holder stays or is a run of the same pull    *)
(* request: a withdrawn waiter, or a promoted holder that is claimed.        *)
LEMMA RemoveFollows ==
  ASSUME NEW l, LockOK(l), NEW pr, NEW n, n.queue = RemovePR(l.queue, pr),
         \A x \in PR : HeldBy(n, x) => HeldBy(l, x)
  PROVE  Follows(l, n)
<1>1. l.queue \in Seq(QueueItem) /\ Distinct(l.queue)
  BY LockOKDef DEF Lock
<1>2. ASSUME NEW x \in PR, Waits(n.queue, x) PROVE Waits(l.queue, x)
  BY <1>1, <1>2, RemoveKeepsOrder
<1>3. ASSUME NEW x \in PR, NEW y \in PR, Precedes(l.queue, x, y), Waits(n.queue, x)
      PROVE  ~HeldBy(n, y) /\ (Waits(n.queue, y) => Precedes(n.queue, x, y))
  <2>1. ~HeldBy(n, y)
    BY <1>3, PrecedesWaits, HolderDoesNotWait
  <2>2. Waits(n.queue, y) => Precedes(n.queue, x, y)
    BY <1>1, <1>3, RemoveKeepsPrecedence
  <2> QED BY <2>1, <2>2
<1> QED BY <1>2, <1>3 DEF Follows

(* The lock passes to the head of the queue and to nobody else. *)
LEMMA VacateFollows ==
  ASSUME NEW l, LockOK(l), NEW t \in Nat
  PROVE  Follows(l, Vacate(l, t, TTL)) /\ Remembers(l, Vacate(l, t, TTL))
<1> DEFINE free == [l EXCEPT !.holder = NoHolder]
           ttl  == PromoteTTL(TTL)
           w    == l.queue
           n    == Vacate(l, t, TTL)
<1>1. l \in Lock /\ Distinct(w) /\ w \in Seq(QueueItem)
  BY LockOKDef DEF Lock
<1>2. free.queue = w /\ free.holder = NoHolder /\ ~Held(free)
  BY <1>1 DEF Lock, Held
<1>3. CASE w = << >>
  <2>1. n = free
    BY <1>2, <1>3 DEF Vacate, PromoteNext
  <2>2. \A x : ~Waits(w, x) /\ ~HeldBy(n, x)
    BY <1>2, <1>3, <2>1 DEF Waits, HeldBy
  <2>3. n.queue = l.queue
    BY <1>2, <2>1
  <2> HIDE DEF n, w
  <2> QED BY <2>2, <2>3, RefreshFollows DEF Remembers, n, w
<1>4. CASE w # << >>
  <2>1. n.queue = Tail(w) /\ n.holder.pr = Head(w).pr
    BY <1>2, <1>4 DEF Vacate, PromoteNext
  <2> HIDE DEF n, w
  <2>2. /\ Len(w) \in Nat /\ Len(w) >= 1 /\ Head(w) = w[1]
        /\ Tail(w) \in Seq(QueueItem) /\ Len(Tail(w)) = Len(w) - 1
        /\ \A i \in 1..Len(Tail(w)) : Tail(w)[i] = w[i + 1]
    BY <1>1, <1>4
  <2>3. ASSUME NEW x PROVE Waits(n.queue, x) <=> \E i \in 2..Len(w) : w[i].pr = x
    <3>1. ASSUME NEW i \in 1..Len(Tail(w)), Tail(w)[i].pr = x
          PROVE  i + 1 \in 2..Len(w) /\ w[i + 1].pr = x
      BY <2>2, <3>1
    <3>2. ASSUME NEW i \in 2..Len(w), w[i].pr = x
          PROVE  i - 1 \in 1..Len(Tail(w)) /\ Tail(w)[i - 1].pr = x
      <4>1. i - 1 \in 1..Len(Tail(w)) /\ (i - 1) + 1 = i
        BY <2>2
      <4> QED BY <2>2, <3>2, <4>1
    <3> QED BY <2>1, <3>1, <3>2 DEF Waits
  <2>4. ASSUME NEW x, HeldBy(n, x) PROVE w[1].pr = x
    BY <2>1, <2>2, <2>4 DEF HeldBy
  <2>5. 1 \in 1..Len(w) /\ \A i \in 2..Len(w) : i \in 1..Len(w)
    BY <2>2
  <2>6. ASSUME NEW x, NEW y, Precedes(w, x, y), Waits(n.queue, x)
        PROVE  ~HeldBy(n, y) /\ Precedes(n.queue, x, y)
    <3>1. PICK i \in 1..Len(w), j \in 1..Len(w) : i < j /\ w[i].pr = x /\ w[j].pr = y
      BY <2>6 DEF Precedes
    <3>2. i \in 2..Len(w)
      BY <1>1, <2>3, <2>5, <2>6, <3>1 DEF Distinct
    <3>3. w[1].pr # y
      BY <1>1, <2>5, <3>1, <3>2 DEF Distinct
    <3>4. /\ i - 1 \in 1..Len(Tail(w)) /\ j - 1 \in 1..Len(Tail(w)) /\ i - 1 < j - 1
          /\ (i - 1) + 1 = i /\ (j - 1) + 1 = j
      BY <2>2, <3>1, <3>2
    <3>5. Precedes(Tail(w), x, y)
      BY <2>2, <3>1, <3>4 DEF Precedes
    <3> QED BY <2>1, <2>4, <3>3, <3>5
  <2>7. Follows(l, n)
    <3>1. \A x : Waits(n.queue, x) => Waits(w, x)
      BY <2>3, <2>5 DEF Waits
    <3>2. \A x : HeldBy(n, x) => Waits(w, x)
      BY <2>4, <2>5 DEF Waits
    <3> QED BY <2>6, <3>1, <3>2 DEF Follows, w
  <2>8. Remembers(l, n)
    <3>1. Held(n)
      <4>1. LockOK(n)
        BY VacateOK DEF n
      <4>2. n = [holder |-> [pr |-> Head(w).pr, run |-> Head(w).run,
                             expires |-> Stamp(t + ttl), promoted |-> TRUE],
                 queue  |-> Tail(w)]
        BY <1>2, <1>4 DEF Vacate, PromoteNext, n
      <4>3. w[1] \in QueueItem /\ Stamp(t + ttl) \in Nat
        <5>1. w[1] \in QueueItem
          BY <1>1, <2>5
        <5>2. t + ttl \in Nat
          BY TTLAssumption DEF PromoteTTL
        <5> QED BY <5>1, <5>2, StampType
      <4>4. n.holder \in Holder
        BY <2>2, <4>2, <4>3 DEF Holder, QueueItem, ExpiresAt
      <4> QED BY <4>4, HolderAssumption DEF Held
    <3>2. ASSUME NEW x, Waits(w, x) PROVE Waits(n.queue, x) \/ HeldBy(n, x)
      <4>1. PICK i \in 1..Len(w) : w[i].pr = x
        BY <3>2 DEF Waits
      <4>2. i = 1 \/ i \in 2..Len(w)
        BY <2>2
      <4> QED BY <2>1, <2>2, <2>3, <3>1, <4>1, <4>2 DEF HeldBy
    <3> QED BY <3>2 DEF Remembers, w
  <2> QED BY <2>7, <2>8 DEF n
<1> QED BY <1>3, <1>4

LEMMA EvictFollows ==
  ASSUME NEW l, LockOK(l), NEW t \in Nat
  PROVE  Follows(l, EvictIfExpired(l, t, TTL)) /\ Remembers(l, EvictIfExpired(l, t, TTL))
<1>1. Follows(l, l) /\ Remembers(l, l)
  BY RefreshFollows DEF Remembers
<1> QED BY <1>1, VacateFollows DEF EvictIfExpired

(* p overtakes nobody: the step property of NoOvertaking for one lock. *)
Orderly(l, n) ==
  \A p, q \in PR : Before(l, p, q) /\ Queued(n, p) /\ InvolvesPR(n, q) => Before(n, p, q)

LEMMA FollowsIsOrderly ==
  ASSUME NEW l, NEW n, Follows(l, n)
  PROVE  Orderly(l, n)
<1>1. \A x : (Queued(n, x) <=> Waits(n.queue, x))
             /\ (InvolvesPR(n, x) <=> HeldBy(n, x) \/ Waits(n.queue, x))
  BY DEF Queued, Waits, InvolvesPR, HeldBy
<1>2. \A x, y : /\ Before(l, x, y) <=> Precedes(l.queue, x, y)
                /\ Before(n, x, y) <=> Precedes(n.queue, x, y)
  BY DEF Before, Precedes
<1> QED BY <1>1, <1>2, Zenon DEF Orderly, Follows

(* A pull request that neither holds nor waits joins at the end. *)
LEMMA EnqueueOrderly ==
  ASSUME NEW l, NEW m, LockOK(m), Follows(l, m), Remembers(l, m),
         NEW a, a.pr \in PR, a.run \in Run, ~HeldBy(m, a.pr), ~Queued(m, a.pr)
  PROVE  Orderly(l, Enqueue(m, a))
<1> DEFINE w == m.queue
           e == [pr |-> a.pr, run |-> a.run]
           n == Enqueue(m, a)
<1>1. m \in Lock /\ w \in Seq(QueueItem) /\ e \in QueueItem /\ e.pr = a.pr
  BY LockOKDef DEF Lock, QueueItem
<1>2. n.queue = Append(w, e) /\ n.holder = m.holder
  BY <1>1 DEF Enqueue, Lock
<1>3. ~Waits(w, a.pr)
  BY DEF Queued, Waits
<1> HIDE DEF w, e, n
<1>4. /\ Len(w) \in Nat /\ Len(Append(w, e)) = Len(w) + 1
      /\ \A i \in 1..Len(w) : Append(w, e)[i] = w[i] /\ i \in 1..(Len(w) + 1)
      /\ Append(w, e)[Len(w) + 1] = e
      /\ \A i \in 1..(Len(w) + 1) : i \in 1..Len(w) \/ i = Len(w) + 1
  BY <1>1
<1>5. ASSUME NEW p \in PR, NEW q \in PR,
             Before(l, p, q), Queued(n, p), InvolvesPR(n, q)
      PROVE  Before(n, p, q)
  <2>1. Precedes(l.queue, p, q)
    BY <1>5 DEF Before, Precedes
  <2>2. p # a.pr /\ q # a.pr
    BY <1>3, <2>1, PrecedesWaits DEF Remembers, w
  <2>3. \A x : x # a.pr /\ Queued(n, x) => Waits(w, x)
    BY <1>1, <1>2, <1>4 DEF Queued, Waits
  <2>4. Waits(w, p) /\ (HeldBy(m, q) \/ Waits(w, q))
    BY <1>2, <1>5, <2>2, <2>3 DEF InvolvesPR, HeldBy, Held
  <2>5. Precedes(w, p, q)
    BY <2>1, <2>4 DEF Follows, w
  <2>6. PICK i \in 1..Len(w), j \in 1..Len(w) : i < j /\ w[i].pr = p /\ w[j].pr = q
    BY <2>5 DEF Precedes
  <2> QED BY <1>2, <1>4, <2>6 DEF Before
<1> QED BY <1>5 DEF Orderly, n

LEMMA AcquireOrderly ==
  ASSUME NEW lk, LockOK(lk), NEW a, a.pr \in PR, a.run \in Run, NEW t \in Nat
  PROVE  Orderly(lk, TryAcquire(lk, a, TTL, t).lock)
<1> DEFINE l   == EvictIfExpired(lk, t, TTL)
           r   == [l EXCEPT !.holder.expires = Stamp(t + TTL), !.holder.promoted = FALSE]
           i   == Install(l, a, TTL, t)
           out == TryAcquire(lk, a, TTL, t).lock
<1>1. LockOK(l) /\ Follows(lk, l) /\ Remembers(lk, l)
  BY EvictOK, EvictFollows
<1>2. Held(l) => l.holder.promoted \in BOOLEAN
  BY <1>1, LockOKDef DEF Lock, Holder, Held
<1>3. \/ Held(l) /\ out = r
      \/ HeldBy(l, a.pr) /\ out = i
      \/ ~Held(l) /\ out = i
      \/ out = l
      \/ ~HeldBy(l, a.pr) /\ ~Queued(l, a.pr) /\ out = Enqueue(l, a)
  BY <1>2, Zenon DEF TryAcquire, Result, HeldBy, l
<1> SUFFICES Orderly(lk, out)
  OBVIOUS
<1> HIDE DEF l, out
<1>4. CASE Held(l) /\ out = r
  <2>1. l \in Lock /\ l.holder \in Holder
    BY <1>1, <1>4, LockOKDef DEF Lock, Held
  <2>2. r.queue = l.queue /\ r.holder.pr = l.holder.pr
    BY <2>1 DEF Lock, Holder
  <2>3. \A x \in PR : HeldBy(r, x) => HeldBy(l, x)
    BY <1>4, <2>2 DEF HeldBy
  <2> HIDE DEF r
  <2> QED BY <1>1, <1>4, <2>2, <2>3, RefreshFollows, FollowsTransitive, FollowsIsOrderly
<1>5. i.queue = RemovePR(l.queue, a.pr) /\ i.holder.pr = a.pr
  BY DEF Install
<1> HIDE DEF i, r
<1>6. CASE HeldBy(l, a.pr) /\ out = i
  <2>1. \A x \in PR : HeldBy(i, x) => HeldBy(l, x)
    BY <1>5, <1>6 DEF HeldBy
  <2>2. Follows(l, i)
    BY <1>1, <1>5, <2>1, RemoveFollows
  <2> QED BY <1>1, <1>6, <2>2, FollowsTransitive, FollowsIsOrderly
<1>7. CASE ~Held(l) /\ out = i
  <2>1. l.queue = << >> /\ l.queue \in Seq(QueueItem) /\ Distinct(l.queue)
    BY <1>1, <1>7, LockOKDef DEF Lock
  <2>2. \A x \in PR : ~Waits(i.queue, x)
    <3>1. \A x : ~Waits(l.queue, x)
      BY <2>1 DEF Waits
    <3> QED BY <1>5, <2>1, <3>1, RemoveKeepsOrder
  <2> QED BY <1>7, <2>2 DEF Orderly, Queued, Waits
<1>8. CASE out = l
  BY <1>1, <1>8, FollowsIsOrderly
<1>9. CASE ~HeldBy(l, a.pr) /\ ~Queued(l, a.pr) /\ out = Enqueue(l, a)
  BY <1>1, <1>9, EnqueueOrderly
<1> QED BY <1>3, <1>4, <1>6, <1>7, <1>8, <1>9

(* The entries of one pull request are withdrawn. *)
LEMMA DequeueFollows ==
  ASSUME NEW l, LockOK(l), NEW pr
  PROVE  Follows(l, [l EXCEPT !.queue = RemovePR(@, pr)])
<1> DEFINE n == [l EXCEPT !.queue = RemovePR(@, pr)]
<1>1. l \in Lock
  BY LockOKDef
<1>2. n.queue = RemovePR(l.queue, pr) /\ n.holder = l.holder
  BY <1>1 DEF Lock
<1>3. \A x \in PR : HeldBy(n, x) => HeldBy(l, x)
  BY <1>2 DEF HeldBy, Held
<1> HIDE DEF n
<1>4. Follows(l, n)
  BY <1>2, <1>3, RemoveFollows
<1> QED BY <1>4 DEF n

LEMMA ReleaseOrderly ==
  ASSUME NEW lk, LockOK(lk), NEW pr, NEW run, NEW t \in Nat
  PROVE  Orderly(lk, Release(lk, pr, run, TTL, t).lock)
<1> DEFINE l   == EvictIfExpired(lk, t, TTL)
           out == Release(lk, pr, run, TTL, t).lock
<1>1. LockOK(l) /\ Follows(lk, l)
  BY EvictOK, EvictFollows
<1>2. \/ out = Vacate(l, t, TTL)
      \/ out = [l EXCEPT !.queue = RemovePR(@, pr)]
      \/ out = l
  BY Zenon DEF Release, Result
<1> HIDE DEF l, out
<1>3. Follows(lk, out)
  BY <1>1, <1>2, VacateFollows, DequeueFollows, FollowsTransitive
<1> QED BY <1>3, FollowsIsOrderly DEF out

LEMMA UnlockOrderly ==
  ASSUME NEW lk, LockOK(lk), NEW pr, NEW run, NEW t \in Nat
  PROVE  Orderly(lk, UnlockPR(lk, pr, run, TTL, t))
<1> DEFINE v   == Vacate(lk, t, TTL)
           out == UnlockPR(lk, pr, run, TTL, t)
<1>1. LockOK(v) /\ Follows(lk, v)
  BY VacateOK, VacateFollows
<1>2. \/ out = [v EXCEPT !.queue = RemovePR(@, pr)]
      \/ out = [lk EXCEPT !.queue = RemovePR(@, pr)]
  BY Zenon DEF UnlockPR
<1> HIDE DEF v, out
<1>3. Follows(lk, out)
  BY <1>1, <1>2, DequeueFollows, FollowsTransitive
<1> QED BY <1>3, FollowsIsOrderly DEF out

LEMMA TransitionOrderly ==
  ASSUME NEW lk, LockOK(lk), NEW req \in Request, NEW t \in Nat
  PROVE  Orderly(lk, Transition(req, lk, t).lock)
<1>1. Orderly(lk, lk) /\ Orderly(lk, Vacate(lk, t, TTL))
  BY RefreshFollows, VacateFollows, FollowsIsOrderly
<1>2. CASE req.kind = "acquire"
  <2>1. req.pr \in PR /\ req.run \in Run
    BY <1>2 DEF Request, AcquireReq, ReleaseReq, UnlockReq, ReapReq, ForceUnlockReq, Applicant
  <2>2. Transition(req, lk, t).lock = TryAcquire(lk, req, TTL, t).lock
    BY <1>2 DEF Transition, AcquireOp, Outcome
  <2> QED BY <2>1, <2>2, AcquireOrderly
<1>3. CASE req.kind = "release"
  <2>1. Transition(req, lk, t).lock = Release(lk, req.pr, req.run, TTL, t).lock
    BY <1>3 DEF Transition, ReleaseOp, Outcome
  <2> QED BY <2>1, ReleaseOrderly
<1>4. CASE req.kind = "unlock"
  <2>1. \/ Transition(req, lk, t).lock = lk
        \/ Transition(req, lk, t).lock = UnlockPR(lk, req.pr, req.run, TTL, t)
    BY <1>4 DEF Transition, UnlockOp, Outcome
  <2> QED BY <1>1, <2>1, UnlockOrderly
<1>5. CASE req.kind = "reap"
  <2>1. \/ Transition(req, lk, t).lock = lk
        \/ Transition(req, lk, t).lock = Vacate(lk, t, TTL)
    BY <1>5 DEF Transition, ReapOp, Reap, Result, Outcome
  <2> QED BY <1>1, <2>1
<1>6. CASE req.kind = "force_unlock"
  <2>1. Transition(req, lk, t).lock = Vacate(lk, t, TTL)
    BY <1>6 DEF Transition, ForceUnlockOp, ForceUnlock, Outcome
  <2> QED BY <1>1, <2>1
<1>7. req.kind \in {"acquire", "release", "unlock", "reap", "force_unlock"}
  BY DEF Request, AcquireReq, ReleaseReq, UnlockReq, ReapReq, ForceUnlockReq
<1> QED BY <1>2, <1>3, <1>4, <1>5, <1>6, <1>7

(* Waiters are served in the order in which they queued: PromoteNext only    *)
(* ever takes the head, removePR keeps the order of the rest, a newcomer is  *)
(* appended, and a direct acquire of a free lock passes nobody because       *)
(* nobody waits for a free lock.                                             *)
THEOREM WaitersInOrder == Spec => NoOvertaking
<1>1. ASSUME IInv, [Next]_vars, NEW k \in Key
      PROVE  Orderly(lock[k], lock'[k])
  <2>1. lock[k] \in Lock /\ LockOK(lock[k])
    BY <1>1 DEF IInv, TypeOK
  <2>2. CASE lock'[k] = lock[k]
    BY <2>1, <2>2, RefreshFollows, FollowsIsOrderly
  <2>3. ASSUME NEW c \in Client, NEW j \in Key, Operate(c, j)
        PROVE  Orderly(lock[k], lock'[k])
    <3>1. PICK req \in Requests(c), t \in 0..Clock(c) : Step(j, req, t)
      BY <2>3 DEF Operate
    <3>2. req \in Request /\ t \in Nat
      <4>1. Clock(c) \in Nat
        BY <1>1 DEF IInv, TypeOK, Clock
      <4> QED BY <3>1, <4>1, RequestsType
    <3>3. j # k => lock'[k] = lock[k]
      BY <1>1, <3>1 DEF Step, IInv, TypeOK
    <3>4. j = k => lock'[k] = Transition(req, lock[k], t).lock
      BY <1>1, <3>1 DEF Step, IInv, TypeOK
    <3> QED BY <2>1, <2>2, <3>2, <3>3, <3>4, TransitionOrderly
  <2>4. Tick \/ UNCHANGED vars => lock'[k] = lock[k]
    BY DEF Tick, vars
  <2> QED BY <1>1, <2>2, <2>3, <2>4 DEF Next
<1>2. IInv /\ [Next]_vars =>
        [\A k \in Key : \A p, q \in PR :
           Before(lock[k], p, q) /\ Queued(lock'[k], p) /\ InvolvesPR(lock'[k], q)
             => Before(lock'[k], p, q)]_vars
  BY <1>1 DEF Orderly
<1> QED BY InitOK, NextOK, <1>2, PTL DEF Spec, NoOvertaking

=============================================================================
