------------------------------- MODULE LockStore -------------------------------
(***************************************************************************)
(* The lock store of internal/blob/locks: lock operations as optimistic    *)
(* read / compute / conditional-write loops over a bucket.  Any number of  *)
(* processes (apply runs with their heartbeats, the maintenance sweep, the *)
(* unlock command) interleave storage call by storage call.  A call may    *)
(* fail; a conditional write may take effect although its caller was told  *)
(* that it failed, at once or later, or was told that it lost a race (a    *)
(* client library that repeats a request whose answer it lost).  A process *)
(* that dies is one that takes no further step: what it wrote stays, and a *)
(* write it had sent may still arrive.                                     *)
(***************************************************************************)
EXTENDS LockMachine

CONSTANTS
  Key, Admin, Commands, PRof, Skews, MaxTime,
  Absent,       \* a lock object that was never written
  Worlds,       \* [retries, lost, admins, keys, last]: Store.MaxRetries, a bound
                \* on the writes in flight whose caller has given up, who is there
                \* besides the runs, the stacks, and the last instant
  MaxBusy,      \* bound: processes in a call at the same time
  Seeds

ASSUME CallersAssumption == PRof \in [Run -> PR] /\ Skews \subseteq Nat
ASSUME StoredAssumption  == /\ Absent \notin Lock \cup Seeds
                            /\ \A l \in Seeds : LockOK(l)
ASSUME WorldsAssumption  == \A wd \in Worlds : wd.keys \subseteq Key

VARIABLES
  blob,         \* the lock object of every key, or Absent
  world,        \* the world of this behaviour, chosen at the start
  now, skew,    \* the slowest clock, and how far each clock is ahead of it
  cl,           \* the operation each process is executing
  lost,         \* writes sent by callers that no longer wait for them
  lease         \* per run and key: the expiry the run was last told, 0 when it
                \* relies on none, GivenUp once it has released the lock

vars == <<blob, world, now, skew, cl, lost, lease>>

MaxRetries == world.retries
MaxLost    == world.lost

Client   == Run \cup Admin
Clock(c) == now + skew[c]
Self(r)  == [pr |-> PRof[r], run |-> r]

LockOf(b) == IF b = Absent THEN NewLock ELSE b

GivenUp == -1

Idle == [pc |-> "idle"]     \* between two calls
Gone == [pc |-> "gone"]     \* a run after its final sweep
Left == [pc |-> "left"]     \* a run whose final sweep failed or missed a lock

Busy(c) == cl[c] \notin {Idle, Gone, Left}

(* The final sweep is the last thing a run asks of the lock store. *)
Sweeping(c)       == c \in Run /\ cl[c].req.kind = "unlock"
Return(c, missed) == IF Sweeping(c) THEN (IF missed THEN Left ELSE Gone) ELSE Idle
Abort(c)          == IF Sweeping(c) THEN Left ELSE Idle

(* The bucket as the abstract specification sees it. *)
A == INSTANCE Locks WITH lock <- [k \in Key |-> LockOf(blob[k])]

-----------------------------------------------------------------------------
Init ==
  /\ blob \in [Key -> Seeds \cup {Absent}]
  /\ world \in Worlds
  /\ now = 0
  /\ skew \in [Client -> Skews]
  /\ cl = [c \in Client |-> Idle]
  /\ lost = {}
  /\ lease = [r \in Run |-> [k \in Key |-> 0]]

Tick ==
  /\ now < MaxTime /\ now < world.last
  /\ now' = now + 1
  /\ UNCHANGED <<blob, skew, world, cl, lost, lease>>

(* A run that releases a lock or sweeps its pull request off the locks no    *)
(* longer relies on the leases concerned, and does not come back for them.   *)
GiveUp(c, req, ks) ==
  IF c \in Run /\ req.kind \in {"release", "unlock"}
  THEN [lease EXCEPT ![c] = [k \in Key |-> IF k \in ks THEN GivenUp ELSE @[k]]]
  ELSE lease

(* A call starts.  Operations on one stack read its object; UnlockPRAll and  *)
(* ReapAll first list the objects there are.  A run acquires and refreshes a *)
(* lock until it releases it.                                                *)
Start(c, req, ks) ==
  /\ cl[c] = Idle /\ c \in Run \cup world.admins
  /\ Cardinality({d \in Client : Busy(d)}) < MaxBusy
  /\ c \in Run /\ req.kind \in {"acquire", "release"} =>
       \A k \in ks : lease[c][k] # GivenUp
  /\ cl' = [cl EXCEPT ![c] = [pc |-> "read", req |-> req, todo |-> ks, tries |-> 0,
                                    missed |-> FALSE]]
  /\ lease' = GiveUp(c, req, ks)
  /\ UNCHANGED <<blob, now, skew, world, lost>>

CallOne(c) ==
  \E req \in A!Requests(c), k \in world.keys :
    /\ c \in Run => req.kind # "unlock"
    /\ Start(c, req, {k})

CallAll(c) ==
  \E req \in A!Requests(c) :
    /\ req.kind \in {"unlock", "reap"}
    /\ {k \in Key : blob[k] # Absent} # {}
    /\ Start(c, req, {k \in Key : blob[k] # Absent})

(* One key is done: walkers go on to the next one. *)
Advance(c, key, missed) ==
  LET rest == cl[c].todo \ {key}
  IN  IF rest = {}
      THEN Return(c, missed)
      ELSE [pc |-> "read", req |-> cl[c].req, todo |-> rest, tries |-> 0, missed |-> missed]

(* Get (snapshotFor for walkers) and the transition, with one reading of the *)
(* process's clock.  A retry reads the same key again.  A maintenance        *)
(* operation that is refused (ErrHolderActive) or changes nothing does not   *)
(* write; UnlockPRAll and ReapAll go on with the next key.  Nothing is lost  *)
(* by taking the read and the clock reading together: when the object        *)
(* changes between them, the conditional write fails.                        *)
Read(c) ==
  /\ cl[c].pc = "read"
  /\ \E k \in cl[c].todo :
       /\ cl[c].tries > 0 => k = cl[c].key
       /\ cl' = [cl EXCEPT ![c] =
                   IF Transition(cl[c].req, LockOf(blob[k]), Clock(c)).write
                   THEN [pc |-> "put", req |-> cl[c].req, todo |-> cl[c].todo,
                         tries |-> cl[c].tries, missed |-> cl[c].missed, key |-> k,
                         snap |-> blob[k], at |-> Clock(c)]
                   ELSE Advance(c, k, cl[c].missed)]
  /\ UNCHANGED <<blob, now, skew, world, lost, lease>>

(* snapshotFor: a walker passes over a lock it cannot read and reports       *)
(* success all the same.                                                     *)
PassOver(c) ==
  /\ cl[c].pc = "read" /\ cl[c].tries = 0
  /\ cl[c].req.kind \in {"unlock", "reap"}
  /\ \E k \in cl[c].todo : cl' = [cl EXCEPT ![c] = Advance(c, k, c \in Run)]
  /\ UNCHANGED <<blob, now, skew, world, lost, lease>>

(* The write a process has prepared. *)
Write(c) == [req |-> cl[c].req, key |-> cl[c].key, snap |-> cl[c].snap, at |-> cl[c].at]

Written(w) == Transition(w.req, LockOf(w.snap), w.at)

(* Mutant of Land: a plain Put. *)
LandUnconditionally(w) == blob' = [blob EXCEPT ![w.key] = Written(w).lock]

(* PutIfMatch takes effect iff the object is still the one that was read. *)
Land(w) ==
  /\ blob[w.key] = w.snap
  /\ blob' = [blob EXCEPT ![w.key] = Written(w).lock]

(* The forced unlocks take the lock from a run that still relies on it. *)
Revokes(req, r) ==
  \/ req.kind = "force_unlock"
  \/ req.kind = "unlock" /\ req.run = AnyRun /\ req.force /\ req.pr = PRof[r]

(* What a landed write does to the leases.  Only a caller that is told of    *)
(* its success (`told') counts on one.                                       *)
LeaseAfter(w, told) ==
  [r \in Run |-> [lease[r] EXCEPT ![w.key] =
     CASE @ = GivenUp -> GivenUp
       [] @ # GivenUp /\ Revokes(w.req, r) -> 0
       [] /\ @ # GivenUp /\ told
          /\ w.req.kind = "acquire" /\ w.req.run = r /\ Written(w).ok ->
            Written(w).lock.holder.expires
       [] OTHER -> @]]

(* Lost the race: read again, at most MaxRetries times. *)
Retry(c) ==
  IF cl[c].tries = MaxRetries
  THEN Abort(c)
  ELSE [pc |-> "read", req |-> cl[c].req, todo |-> cl[c].todo,
        tries |-> cl[c].tries + 1, missed |-> cl[c].missed, key |-> cl[c].key]

PutOK(c) ==
  /\ cl[c].pc = "put"
  /\ Land(Write(c))
  /\ cl' = [cl EXCEPT ![c] = Advance(c, cl[c].key, cl[c].missed)]
  /\ lease' = LeaseAfter(Write(c), TRUE)
  /\ UNCHANGED <<now, skew, world, lost>>

(* The object has another version.  Its content may be the same as far as    *)
(* the model tells locks apart (a write that only moved updated_at).         *)
PutConflict(c) ==
  /\ cl[c].pc = "put"
  /\ cl' = [cl EXCEPT ![c] = Retry(c)]
  /\ UNCHANGED <<blob, now, skew, world, lost, lease>>

(* The write took effect, its answer was lost, and the repetition of the     *)
(* request by the storage client fails its own precondition.                 *)
PutRepeated(c) ==
  /\ cl[c].pc = "put"
  /\ Land(Write(c))
  /\ cl' = [cl EXCEPT ![c] = Retry(c)]
  /\ lease' = LeaseAfter(Write(c), FALSE)
  /\ UNCHANGED <<now, skew, world, lost>>

(* The caller gives up (error, cancellation, death) on a write that has been *)
(* sent and may still arrive.                                                *)
PutLost(c) ==
  /\ cl[c].pc = "put"
  /\ Cardinality(lost) < MaxLost
  /\ lost' = lost \cup {Write(c)}
  /\ cl' = [cl EXCEPT ![c] = Abort(c)]
  /\ UNCHANGED <<blob, now, skew, world, lease>>

LateWrite ==
  \E w \in lost :
    /\ \/ Land(w) /\ lease' = LeaseAfter(w, FALSE)
       \/ UNCHANGED <<blob, lease>>
    /\ lost' = lost \ {w}
    /\ UNCHANGED <<now, skew, world, cl>>

(* A storage call fails without effect; the operation returns the error. *)
CallFails(c) ==
  /\ Busy(c)
  /\ cl' = [cl EXCEPT ![c] = Abort(c)]
  /\ UNCHANGED <<blob, now, skew, world, lost, lease>>

Next ==
  \/ Tick
  \/ LateWrite
  \/ \E c \in Client :
       \/ CallOne(c) \/ CallAll(c)
       \/ Read(c) \/ PutOK(c) \/ PutConflict(c)
       \/ PassOver(c) \/ PutRepeated(c) \/ PutLost(c) \/ CallFails(c)

Spec == Init /\ [][Next]_vars

-----------------------------------------------------------------------------
(* No update is lost: every change of a lock object is one atomic transition *)
(* of the lock that was there, whatever storage calls, retries, repeated and *)
(* late writes are interleaved.                                              *)
Atomic == A!Spec

(* As long as a lease a run was told of has not run out on any clock, the    *)
(* bucket names that run as the holder, and as an active one (not as a       *)
(* reservation another run of the pull request may adopt): two runs never    *)
(* rely on one stack's lock at the same time.                                *)
LeaseHonoured ==
  \A r \in Run, k \in Key :
    (\A c \in Client : Clock(c) < lease[r][k])
      => /\ Held(LockOf(blob[k]))
         /\ LockOf(blob[k]).holder.run = r
         /\ ~LockOf(blob[k]).holder.promoted

(* A run whose final sweep (UnlockPRAll) succeeded and could read every lock *)
(* appears in none, as holder or in a queue, although locks changed while it *)
(* walked them, unless a write it had given up on arrives after the sweep.   *)
SweptClean ==
  world.lost = 0 =>
  \A r \in Run, k \in Key :
    cl[r] = Gone =>
      /\ ~(Held(LockOf(blob[k])) /\ LockOf(blob[k]).holder.run = r)
      /\ \A i \in 1..Len(LockOf(blob[k]).queue) : LockOf(blob[k]).queue[i].run # r

=============================================================================
