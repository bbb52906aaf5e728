------------------------------ MODULE LockMachine ------------------------------
(***************************************************************************)
(* The lock state machine of internal/core/locks: pure transitions on the  *)
(* lock of one stack, as the apply run, its heartbeat, the reaper and the  *)
(* unlock commands apply them.  A transition takes the lock, the caller    *)
(* and a clock reading and returns the next lock together with what the    *)
(* caller is told.                                                         *)
(*                                                                         *)
(* A lock is [holder, queue].  Of the serialised fields the model keeps    *)
(* the ones a transition reads: commit_sha, actor, acquired_at,            *)
(* enqueued_at and updated_at are carried along by the code and never      *)
(* decide anything.                                                        *)
(***************************************************************************)
EXTENDS Integers, Sequences, FiniteSets

CONSTANTS
  PR,           \* pull requests
  Run,          \* run ids
  AnyRun,       \* the empty run id: matches every run of a pull request
  NoHolder,     \* the holder of a free lock
  TTL,          \* locking.ttl, in ticks of the clock
  DefaultTTL,   \* defaultPromoteTTL
  Second        \* ticks in a second, the resolution of a stored timestamp

ASSUME TTLAssumption    == TTL \in Nat \ {0} /\ DefaultTTL \in Nat \ {0}
ASSUME SecondAssumption == Second \in Nat \ {0}
ASSUME RunAssumption    == AnyRun \notin Run

-----------------------------------------------------------------------------
(* Values of expires_at that are not a time. *)
Unparseable == -1
Missing     == -2

ExpiresAt == Nat \cup {Unparseable, Missing}

Holder    == [pr : PR, run : Run, expires : ExpiresAt, promoted : BOOLEAN]
QueueItem == [pr : PR, run : Run]
Lock      == [holder : Holder \cup {NoHolder}, queue : Seq(QueueItem)]

ASSUME HolderAssumption == NoHolder \notin Holder

Held(l) == l.holder # NoHolder

NewLock == [holder |-> NoHolder, queue |-> << >>]

(* Format(RFC3339): a stored time is cut to the second below it. *)
Stamp(t) == t - (t % Second)

(* A missing expires_at never expires, an unparseable one always has. *)
Expired(h, now) ==
  /\ h.expires # Missing
  /\ (h.expires = Unparseable \/ now > h.expires)

PromoteTTL(ttl) == IF ttl <= 0 THEN DefaultTTL ELSE ttl

(* The queue without the entries of pr, in the same order. *)
RemovePR(q, pr) ==
  LET kept   == {i \in 1..Len(q) : q[i].pr # pr}
      nth(k) == CHOOSE i \in kept : Cardinality(kept \cap 1..i) = k
  IN  [k \in 1..Cardinality(kept) |-> q[nth(k)]]

Queued(l, pr) == \E i \in 1..Len(l.queue) : l.queue[i].pr = pr

(* The head of the queue becomes a promoted holder. *)
PromoteNext(l, now, ttl) ==
  IF Held(l) \/ l.queue = << >>
  THEN l
  ELSE [holder |-> [pr       |-> Head(l.queue).pr,
                    run      |-> Head(l.queue).run,
                    expires  |-> Stamp(now + ttl),
                    promoted |-> TRUE],
        queue  |-> Tail(l.queue)]

(* Mutant of Vacate: the successor is not installed. *)
VacateOnly(l, now, ttl) == [l EXCEPT !.holder = NoHolder]

(* The holder is dropped and its successor, if any, installed. *)
Vacate(l, now, ttl) ==
  PromoteNext([l EXCEPT !.holder = NoHolder], now, PromoteTTL(ttl))

(* Mutant of EvictIfExpired: the eviction does not promote. *)
EvictWithoutPromotion(l, now, ttl) ==
  IF Held(l) /\ Expired(l.holder, now) THEN [l EXCEPT !.holder = NoHolder] ELSE l

EvictIfExpired(l, now, ttl) ==
  IF Held(l) /\ Expired(l.holder, now) THEN Vacate(l, now, ttl) ELSE l

Install(l, a, ttl, now) ==
  [holder |-> [pr |-> a.pr, run |-> a.run,
               expires |-> Stamp(now + ttl), promoted |-> FALSE],
   queue  |-> RemovePR(l.queue, a.pr)]

-----------------------------------------------------------------------------
(* Transitions: [lock, ok, err].  ok is the acquired flag of TryAcquire and  *)
(* the evicted flag of Reap.                                                 *)
Result(l, ok, err) == [lock |-> l, ok |-> ok, err |-> err]

Enqueue(l, a) == [l EXCEPT !.queue = Append(@, [pr |-> a.pr, run |-> a.run])]

TryAcquire(lock, a, ttl, now) ==
  LET l       == EvictIfExpired(lock, now, ttl)
      samePR  == Held(l) /\ l.holder.pr = a.pr
      refresh == [l EXCEPT !.holder.expires  = Stamp(now + ttl),
                           !.holder.promoted = FALSE]
  IN  CASE samePR /\ l.holder.run = a.run ->
             Result(refresh, TRUE, "ErrAlreadyHolder")
        [] samePR /\ l.holder.run # a.run /\ l.holder.promoted ->
             Result(Install(l, a, ttl, now), TRUE, "none")
        [] samePR /\ l.holder.run # a.run /\ ~l.holder.promoted ->
             Result(l, FALSE, "ErrHeldBySamePR")
        [] ~Held(l) ->
             Result(Install(l, a, ttl, now), TRUE, "none")
        [] Held(l) /\ ~samePR /\ Queued(l, a.pr) ->
             Result(l, FALSE, "ErrAlreadyQueued")
        [] Held(l) /\ ~samePR /\ ~Queued(l, a.pr) ->
             Result(Enqueue(l, a), FALSE, "none")

Release(lock, pr, run, ttl, now) ==
  LET l    == EvictIfExpired(lock, now, ttl)
      mine == Held(l) /\ l.holder.pr = pr /\ l.holder.run = run
  IN  CASE mine                    -> Result(Vacate(l, now, ttl), FALSE, "none")
        [] ~mine /\ Queued(l, pr)  ->
             Result([l EXCEPT !.queue = RemovePR(@, pr)], FALSE, "none")
        [] ~mine /\ ~Queued(l, pr) -> Result(l, FALSE, "ErrNotHolder")

(* Mutant of UnlockPR: the run id is not compared. *)
UnlockEveryRun(lock, pr, run, ttl, now) ==
  LET l == IF Held(lock) /\ lock.holder.pr = pr THEN Vacate(lock, now, ttl) ELSE lock
  IN  [l EXCEPT !.queue = RemovePR(@, pr)]

(* Mutant of UnlockPR: queue entries stay. *)
UnlockHolderOnly(lock, pr, run, ttl, now) ==
  IF /\ Held(lock) /\ lock.holder.pr = pr
     /\ run = AnyRun \/ lock.holder.run = run \/ Expired(lock.holder, now)
  THEN Vacate(lock, now, ttl) ELSE lock

UnlockPR(lock, pr, run, ttl, now) ==
  LET mine == /\ Held(lock) /\ lock.holder.pr = pr
              /\ run = AnyRun \/ lock.holder.run = run \/ Expired(lock.holder, now)
      l    == IF mine THEN Vacate(lock, now, ttl) ELSE lock
  IN  [l EXCEPT !.queue = RemovePR(@, pr)]

Reap(lock, ttl, now) ==
  IF Held(lock) /\ Expired(lock.holder, now)
  THEN Result(Vacate(lock, now, ttl), TRUE, "none")
  ELSE Result(lock, FALSE, "none")

(* ForceUnlock: the admin override clears whoever holds the lock. *)
ForceUnlock(lock, ttl, now) == Vacate(lock, now, ttl)

(* Mutant of HolderActive: nobody is protected. *)
HolderNeverActive(l, pr, run, now) == FALSE

(* The unlock command's test for a holder that is probably mid-apply. *)
HolderActive(l, pr, run, now) ==
  /\ Held(l) /\ l.holder.pr = pr
  /\ run = AnyRun \/ l.holder.run = run
  /\ l.holder.expires \notin {Unparseable, Missing}
  /\ now < l.holder.expires

InvolvesPR(l, pr) == (Held(l) /\ l.holder.pr = pr) \/ Queued(l, pr)

-----------------------------------------------------------------------------
(* The operations of the lock store, as one transition each.  `write' says   *)
(* whether the store persists the outcome: acquire, release and the admin    *)
(* override always do, unlock and reap only when they changed something.     *)
Applicant == [pr : PR, run : Run]

AcquireReq(a)            == [kind |-> "acquire", pr |-> a.pr, run |-> a.run]
ReleaseReq(a)            == [kind |-> "release", pr |-> a.pr, run |-> a.run]
UnlockReq(pr, run, force) ==
  [kind |-> "unlock", pr |-> pr, run |-> run, force |-> force]
ReapReq                  == [kind |-> "reap"]
ForceUnlockReq           == [kind |-> "force_unlock"]

Request ==
       {AcquireReq(a) : a \in Applicant}
  \cup {ReleaseReq(a) : a \in Applicant}
  \cup {UnlockReq(pr, run, f) : pr \in PR, run \in Run \cup {AnyRun}, f \in BOOLEAN}
  \cup {ReapReq, ForceUnlockReq}

Outcome(l, ok, err, write) == [lock |-> l, ok |-> ok, err |-> err, write |-> write]

(* Store.TryAcquire: an idempotent refresh is plain success to the caller. *)
AcquireOp(l, req, t) ==
  LET r == TryAcquire(l, req, TTL, t)
  IN  Outcome(r.lock, r.ok, IF r.err = "ErrAlreadyHolder" THEN "none" ELSE r.err, TRUE)

ReleaseOp(l, req, t) ==
  LET r == Release(l, req.pr, req.run, TTL, t)
  IN  Outcome(r.lock, FALSE, r.err, TRUE)

UnlockOp(l, req, t) ==
  LET next == UnlockPR(l, req.pr, req.run, TTL, t)
  IN  IF ~req.force /\ HolderActive(l, req.pr, req.run, t)
      THEN Outcome(l, FALSE, "ErrHolderActive", FALSE)
      ELSE Outcome(next, next # l, "none", next # l)

ReapOp(l, t) ==
  LET r == Reap(l, TTL, t)
  IN  Outcome(r.lock, r.ok, "none", r.ok)

ForceUnlockOp(l, t) == Outcome(ForceUnlock(l, TTL, t), FALSE, "none", TRUE)

Transition(req, l, t) ==
  CASE req.kind = "acquire"      -> AcquireOp(l, req, t)
    [] req.kind = "release"      -> ReleaseOp(l, req, t)
    [] req.kind = "unlock"       -> UnlockOp(l, req, t)
    [] req.kind = "reap"         -> ReapOp(l, t)
    [] req.kind = "force_unlock" -> ForceUnlockOp(l, t)

-----------------------------------------------------------------------------
(* Facts about a single lock that every transition must preserve. *)

(* A pull request waits at most once, and never behind itself. *)
QueueUnique(l) ==
  /\ \A i, j \in 1..Len(l.queue) : l.queue[i].pr = l.queue[j].pr => i = j
  /\ Held(l) => ~Queued(l, l.holder.pr)

(* A free lock has nobody waiting for it. *)
NoIdleQueue(l) == ~Held(l) => l.queue = << >>

LockOK(l) == l \in Lock /\ QueueUnique(l) /\ NoIdleQueue(l)

=============================================================================
