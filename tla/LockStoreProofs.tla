---------------------------- MODULE LockStoreProofs ----------------------------
(***************************************************************************)
(* The lock store implements Locks: with any number of processes, stacks,  *)
(* retries, repeated and late writes.  The invariant is about the writes   *)
(* that are prepared or under way: each was computed for a request its     *)
(* sender may make, from a well-formed lock, with a reading of the         *)
(* sender's clock that is not ahead of that clock now.  Together with the  *)
(* condition of the write (the object is still the one that was read) this *)
(* makes the write, whenever it lands, one step of the abstract machine.   *)
(* The rest is about the leases runs are told of (LeaseInv) and about what *)
(* their final sweeps leave behind (SweepInv).                             *)
(***************************************************************************)
EXTENDS LockStore, LockMachineProofs

BlobOK(b) == b = Absent \/ LockOK(b)

(* A write that c may have sent. *)
WriteOK(c, w) ==
  /\ w.req \in A!Requests(c)
  /\ w.key \in Key
  /\ BlobOK(w.snap)
  /\ w.at \in 0..Clock(c)

(* What c is executing. *)
CallOK(c, x) ==
  /\ x.pc \in {"read", "put"} => x.req \in A!Requests(c) /\ x.todo \subseteq Key
  /\ x.pc = "put" =>
       WriteOK(c, [req |-> x.req, key |-> x.key, snap |-> x.snap, at |-> x.at])

StoreInv ==
  /\ blob \in [Key -> Lock \cup {Absent}]
  /\ \A k \in Key : BlobOK(blob[k])
  /\ world \in Worlds
  /\ now \in Nat /\ skew \in [Client -> Nat]
  /\ cl = [c \in Client |-> cl[c]]
  /\ \A c \in Client : CallOK(c, cl[c])
  /\ \A w \in lost : \E c \in Client : WriteOK(c, w)

-----------------------------------------------------------------------------
(* The abstract specification has the same requests and transitions. *)
LEMMA SameRequests ==
  /\ \A a : A!AcquireReq(a) = AcquireReq(a) /\ A!ReleaseReq(a) = ReleaseReq(a)
  /\ \A pr, run, f : A!UnlockReq(pr, run, f) = UnlockReq(pr, run, f)
  /\ A!ReapReq = ReapReq /\ A!ForceUnlockReq = ForceUnlockReq
BY DEF AcquireReq, ReleaseReq, UnlockReq, ReapReq, ForceUnlockReq, A!AcquireReq,
       A!ReleaseReq, A!UnlockReq, A!ReapReq, A!ForceUnlockReq

LEMMA SameTransition ==
  ASSUME NEW req, NEW l, NEW t
  PROVE  A!Transition(req, l, t) = Transition(req, l, t)
BY Zenon DEF Transition, AcquireOp, ReleaseOp, UnlockOp, ReapOp, ForceUnlockOp, Outcome,
     TryAcquire, Release, UnlockPR, Reap, ForceUnlock, HolderActive, Result, Enqueue, Install,
     EvictIfExpired, Vacate, PromoteNext, PromoteTTL, Queued, RemovePR, Expired, Stamp, Held,
     Unparseable, Missing, Cardinality,
     A!Transition, A!AcquireOp, A!ReleaseOp, A!UnlockOp, A!ReapOp, A!ForceUnlockOp, A!Outcome,
     A!TryAcquire, A!Release, A!UnlockPR, A!Reap, A!ForceUnlock, A!HolderActive, A!Result,
     A!Enqueue, A!Install, A!EvictIfExpired, A!Vacate, A!PromoteNext, A!PromoteTTL, A!Queued,
     A!RemovePR, A!Expired, A!Stamp, A!Held, A!Unparseable, A!Missing, A!Cardinality

LEMMA RequestsType == ASSUME NEW c \in Client PROVE A!Requests(c) \subseteq Request
<1>1. CASE c \in Run
  <2>1. PRof[c] \in PR /\ A!Self(c) \in Applicant
    BY <1>1, CallersAssumption DEF A!Self, Applicant
  <2>2. \A a \in Applicant : AcquireReq(a) \in Request /\ ReleaseReq(a) \in Request
    BY DEF Request
  <2>3. \A pr \in PR, run \in Run \cup {AnyRun}, f \in BOOLEAN :
          UnlockReq(pr, run, f) \in Request
    BY DEF Request
  <2>4. UnlockReq(PRof[c], c, TRUE) \in Request
    BY <1>1, <2>1, <2>3, Zenon
  <2>5. A!RunRequests(c) \subseteq Request
    BY <2>1, <2>2, <2>4, SameRequests, Zenon DEF A!RunRequests
  <2> QED BY <1>1, <2>5 DEF A!Requests
<1>2. CASE c \notin Run
  <2>1. {UnlockReq(pr, AnyRun, f) : pr \in PR, f \in BOOLEAN} \subseteq
          {UnlockReq(pr, run, f) : pr \in PR, run \in Run \cup {AnyRun}, f \in BOOLEAN}
    OBVIOUS
  <2>2. A!AdminRequests \subseteq Request
    BY <2>1, SameRequests DEF A!AdminRequests, Request
  <2> QED BY <1>2, <2>2 DEF A!Requests
<1> QED BY <1>1, <1>2

LEMMA LockOfOK == ASSUME NEW b, BlobOK(b) PROVE LockOK(LockOf(b))
BY NewLockOK DEF BlobOK, LockOf

(* What a write stores is a well-formed lock. *)
LEMMA WrittenOK ==
  ASSUME NEW c \in Client, NEW w, now \in Nat, skew \in [Client -> Nat], WriteOK(c, w)
  PROVE  /\ LockOK(Written(w).lock)
         /\ Written(w).lock \in Lock
         /\ LockOf(Written(w).lock) = Written(w).lock
<1>1. w.req \in Request /\ w.at \in Nat /\ LockOK(LockOf(w.snap))
  BY RequestsType, LockOfOK DEF WriteOK, Clock
<1>2. LockOK(Written(w).lock)
  BY <1>1, TransitionOK DEF Written
<1>3. Written(w).lock \in Lock
  BY <1>2 DEF LockOK
<1>4. Written(w).lock # Absent
  BY <1>3, StoredAssumption
<1> QED BY <1>2, <1>3, <1>4 DEF LockOf

(* A write that lands is an atomic operation of its sender on the lock that  *)
(* is there.                                                                 *)
LEMMA LandIsStep ==
  ASSUME StoreInv, NEW c \in Client, NEW w, WriteOK(c, w), Land(w), UNCHANGED <<now, skew>>
  PROVE  A!Next
<1> DEFINE abs == [k \in Key |-> LockOf(blob[k])]
<1>1. now \in Nat /\ skew \in [Client -> Nat] /\ blob \in [Key -> Lock \cup {Absent}]
  BY DEF StoreInv
<1>2. LockOf(Written(w).lock) = Written(w).lock
  BY <1>1, WrittenOK
<1>3. w.key \in Key /\ w.req \in A!Requests(c) /\ w.at \in 0..Clock(c)
  BY DEF WriteOK
<1>4. Written(w).lock = Transition(w.req, abs[w.key], w.at).lock
  BY <1>3 DEF Land, Written
<1>5. abs' = [abs EXCEPT ![w.key] = Written(w).lock]
  BY <1>1, <1>2, <1>3 DEF Land
<1>6. A!Step(w.key, w.req, w.at)
  BY <1>4, <1>5, SameTransition DEF A!Step
<1>7. A!Operate(c, w.key)
  BY <1>3, <1>6 DEF A!Operate, A!Clock, Clock
<1> QED BY <1>3, <1>7 DEF A!Next, A!Client, Client

-----------------------------------------------------------------------------
(* What was fine for a sender stays fine as the clock goes on. *)
LEMMA ClockGoesOn ==
  ASSUME StoreInv, now' \in Nat, now <= now', skew' = skew
  PROVE  /\ \A c \in Client : \A w : WriteOK(c, w) => WriteOK(c, w)'
         /\ \A c \in Client : \A x : CallOK(c, x) => CallOK(c, x)'
<1>1. ASSUME NEW c \in Client, NEW w, WriteOK(c, w) PROVE WriteOK(c, w)'
  <2>1. Clock(c) \in Nat /\ Clock(c)' \in Nat /\ Clock(c) <= Clock(c)'
    BY DEF StoreInv, Clock
  <2>2. w.at \in 0..Clock(c)'
    BY <1>1, <2>1 DEF WriteOK
  <2> QED BY <1>1, <2>2 DEF WriteOK, BlobOK
<1>2. ASSUME NEW c \in Client, NEW x, CallOK(c, x) PROVE CallOK(c, x)'
  BY <1>1, <1>2 DEF CallOK
<1> QED BY <1>1, <1>2

(* Where a call goes next is fine. *)
LEMMA GoesOnOK ==
  ASSUME StoreInv, NEW c \in Client
  PROVE  /\ CallOK(c, Abort(c))
         /\ cl[c].pc \in {"read", "put"} =>
              \A k, m : CallOK(c, Advance(c, k, m)) /\ CallOK(c, Retry(c))
<1>1. CallOK(c, Idle) /\ CallOK(c, Gone) /\ CallOK(c, Left)
  BY DEF CallOK, Idle, Gone, Left
<1>2. CallOK(c, Abort(c)) /\ \A m : CallOK(c, Return(c, m))
  BY <1>1 DEF Abort, Return
<1>3. ASSUME cl[c].pc \in {"read", "put"}, NEW k, NEW m
      PROVE  CallOK(c, Advance(c, k, m)) /\ CallOK(c, Retry(c))
  <2>1. cl[c].req \in A!Requests(c) /\ cl[c].todo \subseteq Key
    BY <1>3 DEF StoreInv, CallOK
  <2>2. CallOK(c, [pc |-> "read", req |-> cl[c].req, todo |-> cl[c].todo \ {k},
                   tries |-> 0, missed |-> m])
    BY <2>1 DEF CallOK
  <2>3. CallOK(c, [pc |-> "read", req |-> cl[c].req, todo |-> cl[c].todo,
                   tries |-> cl[c].tries + 1, missed |-> cl[c].missed, key |-> cl[c].key])
    BY <2>1 DEF CallOK
  <2> QED BY <1>2, <2>2, <2>3 DEF Advance, Retry
<1> QED BY <1>2, <1>3

(* Only c goes on. *)
LEMMA CallStep ==
  ASSUME StoreInv, NEW c \in Client, NEW x, CallOK(c, x), UNCHANGED <<now, skew>>,
         cl' = [cl EXCEPT ![c] = x]
  PROVE  cl' = [d \in Client |-> cl'[d]] /\ \A d \in Client : CallOK(d, cl[d])'
<1>1. cl = [d \in Client |-> cl[d]] /\ \A d \in Client : CallOK(d, cl[d])
  BY DEF StoreInv
<1>2. \A d \in Client : \A y : CallOK(d, y) => CallOK(d, y)'
  BY ClockGoesOn DEF StoreInv
<1>3. cl' = [d \in Client |-> cl'[d]] /\ \A d \in Client : cl'[d] = IF d = c THEN x ELSE cl[d]
  BY <1>1
<1> QED BY <1>1, <1>2, <1>3

(* A landed write leaves well-formed locks behind. *)
LEMMA LandOK ==
  ASSUME StoreInv, NEW c \in Client, NEW w, WriteOK(c, w), Land(w)
  PROVE  blob' \in [Key -> Lock \cup {Absent}] /\ \A k \in Key : BlobOK(blob'[k])
<1>1. LockOK(Written(w).lock) /\ Written(w).lock \in Lock
  BY WrittenOK DEF StoreInv
<1>2. /\ blob \in [Key -> Lock \cup {Absent}] /\ \A k \in Key : BlobOK(blob[k])
      /\ blob' = [blob EXCEPT ![w.key] = Written(w).lock]
  BY DEF StoreInv, Land
<1>3. BlobOK(Written(w).lock)
  BY <1>1 DEF BlobOK
<1> QED BY <1>1, <1>2, <1>3

-----------------------------------------------------------------------------
(* The specification. *)

LEMMA StoreInit == Init => StoreInv
<1> SUFFICES ASSUME Init PROVE StoreInv
  OBVIOUS
<1>1. \A b \in Seeds \cup {Absent} : BlobOK(b) /\ b \in Lock \cup {Absent}
  BY StoredAssumption DEF BlobOK, LockOK
<1>2. blob \in [Key -> Lock \cup {Absent}] /\ \A k \in Key : BlobOK(blob[k])
  BY <1>1 DEF Init
<1>3. now \in Nat /\ skew \in [Client -> Nat]
  BY CallersAssumption DEF Init
<1>4. cl = [c \in Client |-> cl[c]] /\ \A c \in Client : cl[c] = Idle
  BY DEF Init
<1>5. \A c \in Client : CallOK(c, cl[c])
  BY <1>4 DEF CallOK, Idle
<1> QED BY <1>2, <1>3, <1>4, <1>5 DEF Init, StoreInv

(* The write a call is about to make is one its caller may have sent. *)
LEMMA PreparedOK ==
  ASSUME StoreInv, NEW c \in Client, cl[c].pc = "put"
  PROVE  WriteOK(c, Write(c))
BY DEF StoreInv, CallOK, Write

(* A new call. *)
LEMMA StartOK ==
  ASSUME StoreInv, NEW c \in Client, NEW req \in A!Requests(c), NEW ks \in SUBSET Key,
         Start(c, req, ks)
  PROVE  StoreInv'
<1>1. CallOK(c, [pc |-> "read", req |-> req, todo |-> ks, tries |-> 0, missed |-> FALSE])
  BY DEF CallOK
<1>2. UNCHANGED <<blob, now, skew, world, lost>>
  BY DEF Start
<1>3. cl' = [d \in Client |-> cl'[d]] /\ \A d \in Client : CallOK(d, cl[d])'
  BY <1>1, <1>2, CallStep DEF Start
<1>4. \A d \in Client : \A w : WriteOK(d, w) => WriteOK(d, w)'
  BY <1>2, ClockGoesOn DEF StoreInv
<1> QED BY <1>2, <1>3, <1>4 DEF StoreInv, BlobOK

(* A call goes on without a write. *)
LEMMA QuietOK ==
  ASSUME StoreInv, NEW c \in Client, NEW x, CallOK(c, x), cl' = [cl EXCEPT ![c] = x],
         UNCHANGED <<blob, now, skew, world>>,
         \A w \in lost' : w \in lost \/ WriteOK(c, w)
  PROVE  StoreInv'
<1>1. cl' = [d \in Client |-> cl'[d]] /\ \A d \in Client : CallOK(d, cl[d])'
  BY CallStep
<1>2. \A d \in Client : \A w : WriteOK(d, w) => WriteOK(d, w)'
  BY ClockGoesOn DEF StoreInv
<1>3. \A w \in lost' : \E d \in Client : WriteOK(d, w)'
  BY <1>2 DEF StoreInv
<1> QED BY <1>1, <1>3 DEF StoreInv, BlobOK

(* A call goes on and its write has landed. *)
LEMMA LandedOK ==
  ASSUME StoreInv, NEW c \in Client, NEW x, CallOK(c, x), cl' = [cl EXCEPT ![c] = x],
         cl[c].pc = "put", Land(Write(c)), UNCHANGED <<now, skew, world, lost>>
  PROVE  StoreInv'
<1>1. cl' = [d \in Client |-> cl'[d]] /\ \A d \in Client : CallOK(d, cl[d])'
  BY CallStep
<1>2. \A d \in Client : \A w : WriteOK(d, w) => WriteOK(d, w)'
  BY ClockGoesOn DEF StoreInv
<1>3. blob' \in [Key -> Lock \cup {Absent}] /\ \A k \in Key : BlobOK(blob'[k])
  BY PreparedOK, LandOK
<1> QED BY <1>1, <1>2, <1>3 DEF StoreInv, BlobOK

LEMMA StoreNext == StoreInv /\ [Next]_vars => StoreInv'
<1> SUFFICES ASSUME StoreInv, [Next]_vars PROVE StoreInv'
  OBVIOUS
<1>1. CASE Tick
  <2>1. now' \in Nat /\ now <= now' /\ skew' = skew
    BY <1>1 DEF Tick, StoreInv
  <2>2. UNCHANGED <<blob, world, cl, lost>>
    BY <1>1 DEF Tick
  <2>3. /\ \A c \in Client : \A w : WriteOK(c, w) => WriteOK(c, w)'
        /\ \A c \in Client : \A x : CallOK(c, x) => CallOK(c, x)'
    BY <2>1, ClockGoesOn
  <2>4. \A c \in Client : CallOK(c, cl[c])'
    BY <2>2, <2>3 DEF StoreInv
  <2> QED BY <2>1, <2>2, <2>3, <2>4 DEF StoreInv, BlobOK
<1>2. CASE LateWrite
  <2>1. PICK w \in lost : /\ Land(w) \/ UNCHANGED blob
                          /\ lost' = lost \ {w} /\ UNCHANGED <<now, skew, world, cl>>
    BY <1>2 DEF LateWrite
  <2>2. blob' \in [Key -> Lock \cup {Absent}] /\ \A k \in Key : BlobOK(blob'[k])
    BY <2>1, LandOK DEF StoreInv
  <2>3. /\ \A c \in Client : \A v : WriteOK(c, v) => WriteOK(c, v)'
        /\ \A c \in Client : \A x : CallOK(c, x) => CallOK(c, x)'
    BY <2>1, ClockGoesOn DEF StoreInv
  <2>4. \A c \in Client : CallOK(c, cl[c])'
    BY <2>1, <2>3 DEF StoreInv
  <2> QED BY <2>1, <2>2, <2>3, <2>4 DEF StoreInv, BlobOK
<1>3. ASSUME NEW c \in Client, CallOne(c) PROVE StoreInv'
  <2>1. PICK req \in A!Requests(c), k \in world.keys : Start(c, req, {k})
    BY <1>3 DEF CallOne
  <2>2. {k} \in SUBSET Key
    BY <2>1, WorldsAssumption DEF StoreInv
  <2> QED BY <2>1, <2>2, StartOK
<1>4. ASSUME NEW c \in Client, CallAll(c) PROVE StoreInv'
  BY <1>4, StartOK DEF CallAll
<1>5. ASSUME NEW c \in Client, Read(c) PROVE StoreInv'
  <2>1. PICK k \in cl[c].todo :
          cl' = [cl EXCEPT ![c] =
                   IF Transition(cl[c].req, LockOf(blob[k]), Clock(c)).write
                   THEN [pc |-> "put", req |-> cl[c].req, todo |-> cl[c].todo,
                         tries |-> cl[c].tries, missed |-> cl[c].missed, key |-> k,
                         snap |-> blob[k], at |-> Clock(c)]
                   ELSE Advance(c, k, cl[c].missed)]
    BY <1>5 DEF Read
  <2> DEFINE put == [pc |-> "put", req |-> cl[c].req, todo |-> cl[c].todo,
                     tries |-> cl[c].tries, missed |-> cl[c].missed, key |-> k,
                     snap |-> blob[k], at |-> Clock(c)]
  <2>2. cl[c].pc = "read" /\ UNCHANGED <<blob, now, skew, world, lost>>
    BY <1>5 DEF Read
  <2>3. cl[c].req \in A!Requests(c) /\ cl[c].todo \subseteq Key
    BY <2>2 DEF StoreInv, CallOK
  <2>4. CallOK(c, put)
    <3>1. k \in Key /\ BlobOK(blob[k]) /\ Clock(c) \in 0..Clock(c)
      BY <2>1, <2>3 DEF StoreInv, Clock
    <3> QED BY <2>3, <3>1 DEF CallOK, WriteOK
  <2>5. CallOK(c, Advance(c, k, cl[c].missed))
    BY <2>2, GoesOnOK
  <2>6. PICK x : CallOK(c, x) /\ cl' = [cl EXCEPT ![c] = x]
    <3> HIDE DEF put
    <3> QED BY <2>1, <2>4, <2>5 DEF put
  <2> QED BY <2>2, <2>6, QuietOK
<1>6. ASSUME NEW c \in Client, PassOver(c) PROVE StoreInv'
  <2>1. PICK k \in cl[c].todo : cl' = [cl EXCEPT ![c] = Advance(c, k, c \in Run)]
    BY <1>6 DEF PassOver
  <2>2. cl[c].pc = "read" /\ UNCHANGED <<blob, now, skew, world, lost>>
    BY <1>6 DEF PassOver
  <2>3. CallOK(c, Advance(c, k, c \in Run))
    BY <2>2, GoesOnOK
  <2> QED BY <2>1, <2>2, <2>3, QuietOK
<1>7. ASSUME NEW c \in Client, PutOK(c) PROVE StoreInv'
  <2>1. CallOK(c, Advance(c, cl[c].key, cl[c].missed))
    BY <1>7, GoesOnOK DEF PutOK
  <2> QED BY <1>7, <2>1, LandedOK DEF PutOK
<1>8. ASSUME NEW c \in Client, PutConflict(c) PROVE StoreInv'
  <2>1. CallOK(c, Retry(c))
    BY <1>8, GoesOnOK DEF PutConflict
  <2> QED BY <1>8, <2>1, QuietOK DEF PutConflict
<1>9. ASSUME NEW c \in Client, PutRepeated(c) PROVE StoreInv'
  <2>1. CallOK(c, Retry(c))
    BY <1>9, GoesOnOK DEF PutRepeated
  <2> QED BY <1>9, <2>1, LandedOK DEF PutRepeated
<1>10. ASSUME NEW c \in Client, PutLost(c) PROVE StoreInv'
  <2>1. CallOK(c, Abort(c)) /\ WriteOK(c, Write(c))
    BY <1>10, GoesOnOK, PreparedOK DEF PutLost
  <2>2. \A w \in lost' : w \in lost \/ WriteOK(c, w)
    BY <1>10, <2>1 DEF PutLost
  <2> QED BY <1>10, <2>1, <2>2, QuietOK DEF PutLost
<1>11. ASSUME NEW c \in Client, CallFails(c) PROVE StoreInv'
  <2>1. CallOK(c, Abort(c))
    BY GoesOnOK
  <2> QED BY <1>11, <2>1, QuietOK DEF CallFails
<1>12. CASE UNCHANGED vars
  <2>1. UNCHANGED <<blob, world, now, skew, cl, lost>>
    BY <1>12 DEF vars
  <2>2. /\ \A c \in Client : \A v : WriteOK(c, v) => WriteOK(c, v)'
        /\ \A c \in Client : \A x : CallOK(c, x) => CallOK(c, x)'
    BY <2>1, ClockGoesOn DEF StoreInv
  <2>3. \A c \in Client : CallOK(c, cl[c])'
    BY <2>1, <2>2 DEF StoreInv
  <2> QED BY <2>1, <2>2, <2>3 DEF StoreInv, BlobOK
<1> QED BY <1>1, <1>2, <1>3, <1>4, <1>5, <1>6, <1>7, <1>8, <1>9, <1>10, <1>11, <1>12 DEF Next

(* The initial bucket, as the abstract specification sees it. *)
LEMMA InitMaps == Init => A!Init
<1> SUFFICES ASSUME Init PROVE A!Init
  OBVIOUS
<1>1. \A b \in Seeds \cup {Absent} : LockOf(b) \in Seeds \cup {NewLock}
  BY DEF LockOf
<1>2. [k \in Key |-> LockOf(blob[k])] \in [Key -> Seeds \cup {NewLock}]
  BY <1>1 DEF Init
<1>3. NewLock = A!NewLock
  BY DEF NewLock, A!NewLock
<1> QED BY <1>2, <1>3 DEF Init, A!Init, A!Client, Client

(* Every step of the store is a step of the abstract specification or none. *)
LEMMA StepMaps == StoreInv /\ [Next]_vars => [A!Next]_A!vars
<1> SUFFICES ASSUME StoreInv, [Next]_vars PROVE A!Next \/ UNCHANGED A!vars
  OBVIOUS
<1>1. UNCHANGED <<blob, now, skew>> => UNCHANGED A!vars
  BY DEF A!vars
<1>2. CASE Tick
  <2>1. UNCHANGED [k \in Key |-> LockOf(blob[k])]
    BY <1>2 DEF Tick
  <2> QED BY <1>2, <2>1 DEF Tick, A!Tick, A!Next
<1>3. CASE LateWrite
  <2>1. PICK w \in lost : (Land(w) \/ UNCHANGED blob) /\ UNCHANGED <<now, skew>>
    BY <1>3 DEF LateWrite
  <2>2. \E c \in Client : WriteOK(c, w)
    BY DEF StoreInv
  <2> QED BY <1>1, <2>1, <2>2, LandIsStep
<1>4. ASSUME NEW c \in Client, PutOK(c) \/ PutRepeated(c) PROVE A!Next
  BY <1>4, PreparedOK, LandIsStep DEF PutOK, PutRepeated
<1>5. ASSUME NEW c \in Client,
             \/ CallOne(c) \/ CallAll(c) \/ Read(c) \/ PutConflict(c)
             \/ PassOver(c) \/ PutLost(c) \/ CallFails(c)
      PROVE  UNCHANGED <<blob, now, skew>>
  BY <1>5 DEF CallOne, CallAll, Start, Read, PutConflict, PassOver, PutLost, CallFails
<1>6. CASE UNCHANGED vars
  BY <1>1, <1>6 DEF vars
<1> QED BY <1>1, <1>2, <1>3, <1>4, <1>5, <1>6 DEF Next

(* The read / compute / conditional-write loops of the lock store, with      *)
(* their retries, walks over all locks, failing calls, repeated requests and *)
(* writes that arrive after their caller gave up, change the locks only by   *)
(* atomic operations: LockStore implements Locks.                            *)
THEOREM StoreIsAtomic == Spec => Atomic
<1>1. StoreInv /\ [Next]_vars => [A!Next]_A!vars
  BY StepMaps
<1> QED BY InitMaps, StoreInit, StoreNext, <1>1, PTL DEF Spec, Atomic, A!Spec

-----------------------------------------------------------------------------
(* Leases. *)

(* The lease r was told of for k runs on every clock. *)
Live(r, k) == \A c \in Client : Clock(c) < lease[r][k]

(* The object grants r the lease it was told of, or a longer one. *)
Granted(r, k) ==
  LET l == LockOf(blob[k])
  IN  Active(l, r) /\ l.holder.pr = PRof[r] /\ lease[r][k] <= l.holder.expires

(* No run's acquired lease is longer than one it could take now: a write     *)
(* that was prepared from an object cannot shorten the lease found in it.    *)
NotLonger(l, r, t) == Active(l, r) => l.holder.expires <= Stamp(t + TTL)

(* A run has given up the leases it releases or sweeps, and its acquire      *)
(* extends the one it found.                                                 *)
SentOK(w) ==
  /\ w.req.kind \in {"release", "unlock"} /\ w.req.run \in Run =>
       lease[w.req.run][w.key] = GivenUp
  /\ w.req.kind = "acquire" => NotLonger(LockOf(w.snap), w.req.run, w.at)

CallLeasesOK(c, x) ==
  /\ c \in Run /\ x.pc \in {"read", "put"} /\ x.req.kind \in {"release", "unlock"} =>
       \A k \in x.todo : lease[c][k] = GivenUp
  /\ x.pc = "put" =>
       /\ x.key \in x.todo
       /\ SentOK([req |-> x.req, key |-> x.key, snap |-> x.snap, at |-> x.at])

LeaseInv ==
  /\ lease \in [Run -> [Key -> Int]]
  /\ \A r \in Run, k \in Key : Live(r, k) => Granted(r, k)
  /\ \A r \in Run, k \in Key : NotLonger(LockOf(blob[k]), r, Clock(r))
  /\ \A c \in Client : CallLeasesOK(c, cl[c])
  /\ \A w \in lost : SentOK(w)

(* The locks left in the bucket were not acquired for longer than from now. *)
SeedsAreOld == \A l \in Seeds, r \in Run : NotLonger(l, r, 0)

LEMMA RequestFacts ==
  ASSUME NEW c \in Client, NEW req \in A!Requests(c)
  PROVE  /\ req.kind \in {"acquire", "release"} => c \in Run /\ req.run = c /\ req.pr = PRof[c]
         /\ req.kind = "unlock" => \/ c \in Run /\ req.run = c /\ req.pr = PRof[c]
                                   \/ c \notin Run /\ req.run = AnyRun /\ req.force \in BOOLEAN
<1>1. CASE c \in Run
  <2>1. req \in {AcquireReq(A!Self(c)), ReleaseReq(A!Self(c)), UnlockReq(PRof[c], c, TRUE)}
    BY <1>1, SameRequests DEF A!Requests, A!RunRequests
  <2> QED BY <1>1, <2>1 DEF AcquireReq, ReleaseReq, UnlockReq, A!Self
<1>2. CASE c \notin Run
  <2>1. req \in {ReapReq, ForceUnlockReq} \cup {UnlockReq(pr, AnyRun, f) : pr \in PR, f \in BOOLEAN}
    BY <1>2, SameRequests DEF A!Requests, A!AdminRequests
  <2> QED BY <1>2, <2>1 DEF ReapReq, ForceUnlockReq, UnlockReq
<1> QED BY <1>1, <1>2

(* A transition leaves a running lease to the run that has it, and only that *)
(* run's acquire changes it, unless the run gives it up or is forced out.    *)
LEMMA ActiveKept ==
  ASSUME NEW l, LockOK(l), NEW c \in Client, NEW req \in A!Requests(c), NEW t \in Nat,
         NEW r \in Run, Active(l, r), l.holder.pr = PRof[r], t < l.holder.expires,
         ~Revokes(req, r), req.kind \in {"release", "unlock"} => req.run # r
  PROVE  LET n == Transition(req, l, t).lock
         IN  /\ Active(n, r) /\ n.holder.pr = PRof[r]
             /\ \/ n.holder.expires = l.holder.expires
                \/ req.kind = "acquire" /\ req.run = r /\ n.holder.expires = Stamp(t + TTL)
<1> DEFINE n == Transition(req, l, t).lock
           d == [l EXCEPT !.queue = RemovePR(@, req.pr)]
<1>1. /\ l \in Lock /\ Held(l) /\ l.holder.run = r /\ ~l.holder.promoted
      /\ l.holder.expires \in ExpiresAt
  BY DEF LockOK, Active, Lock, Holder, Held
<1>2. ~Expired(l.holder, t) /\ l.holder.expires \notin {Unparseable, Missing}
  BY <1>1 DEF Expired, ExpiresAt, Unparseable, Missing
<1>3. EvictIfExpired(l, t, TTL) = l
  BY <1>1, <1>2, FreshKept
<1>4. d.holder = l.holder
  BY <1>1 DEF Lock
<1> HIDE DEF n, d
<1>5. ASSUME n.holder = l.holder
      PROVE  Active(n, r) /\ n.holder.pr = PRof[r] /\ n.holder.expires = l.holder.expires
  BY <1>5 DEF Active, Held
<1>6. CASE req.kind = "acquire"
  <2>1. req.run \in Run /\ req.pr \in PR
    BY <1>6, RequestFacts, CallersAssumption
  <2> DEFINE out == TryAcquire(l, req, TTL, t)
  <2>2. n = out.lock
    BY <1>6 DEF Transition, AcquireOp, Outcome, n
  <2>3. out.ok = FALSE \/ (out.ok = TRUE /\ req.run = r /\ req.pr = PRof[r])
    BY <1>1, <1>3, Zenon DEF TryAcquire, Result
  <2>4. IF out.ok THEN AcquiredBy(out.lock, req, t) ELSE out.lock.holder = l.holder
    BY <1>3, <2>1, AcquireHolder
  <2> HIDE DEF out
  <2> QED BY <1>5, <1>6, <2>2, <2>3, <2>4 DEF AcquiredBy, n
<1>7. CASE req.kind = "release"
  <2>1. n = Release(l, req.pr, req.run, TTL, t).lock
    BY <1>7 DEF Transition, ReleaseOp, Outcome, n
  <2>2. n = d \/ n = l
    BY <1>1, <1>3, <1>7, <2>1, Zenon DEF Release, Result, d
  <2> QED BY <1>4, <1>5, <2>2 DEF n
<1>8. CASE req.kind = "unlock"
  <2>1. req.run # r
    BY <1>8
  <2>2. CASE req.run # AnyRun \/ req.pr # l.holder.pr
    <3>1. UnlockPR(l, req.pr, req.run, TTL, t) = d
      BY <1>1, <1>2, <2>1, <2>2, Zenon DEF UnlockPR, d
    <3>2. n = l \/ n = d
      BY <1>8, <3>1 DEF Transition, UnlockOp, Outcome, n
    <3> QED BY <1>4, <1>5, <3>2 DEF n
  <2>3. CASE req.run = AnyRun /\ req.pr = l.holder.pr
    <3>1. ~req.force
      BY <1>8, <2>3 DEF Revokes
    <3>2. HolderActive(l, req.pr, req.run, t)
      BY <1>1, <1>2, <2>3 DEF HolderActive
    <3>3. n = l
      BY <1>8, <3>1, <3>2 DEF Transition, UnlockOp, Outcome, n
    <3> QED BY <1>5, <3>3 DEF n
  <2> QED BY <2>2, <2>3
<1>9. CASE req.kind = "reap"
  <2>1. n = l
    BY <1>2, <1>9 DEF Transition, ReapOp, Reap, Result, Outcome, n
  <2> QED BY <1>5, <2>1 DEF n
<1>10. CASE req.kind = "force_unlock"
  BY <1>10 DEF Revokes
<1>11. req.kind \in {"acquire", "release", "unlock", "reap", "force_unlock"}
  <2>1. req \in Request
    BY RequestsType
  <2> QED BY <2>1 DEF Request, AcquireReq, ReleaseReq, UnlockReq, ReapReq, ForceUnlockReq
<1> QED BY <1>6, <1>7, <1>8, <1>9, <1>10, <1>11

(* What an acquire stores when its caller is told that it has the lock. *)
LEMMA ToldHolder ==
  ASSUME StoreInv, NEW c \in Client, NEW w, WriteOK(c, w),
         w.req.kind = "acquire", Written(w).ok
  PROVE  AcquiredBy(Written(w).lock, w.req, w.at)
<1>1. /\ w.req.run \in Run /\ w.req.pr \in PR /\ w.at \in Nat /\ LockOK(LockOf(w.snap))
  BY RequestFacts, CallersAssumption, LockOfOK DEF WriteOK, StoreInv, Clock
<1> DEFINE out == TryAcquire(LockOf(w.snap), w.req, TTL, w.at)
<1>2. Written(w).lock = out.lock /\ Written(w).ok = out.ok
  BY DEF Written, Transition, AcquireOp, Outcome
<1> QED BY <1>1, <1>2, AcquireHolder

(* A lease that was given up stays given up. *)
GiveUpsStay == \A r \in Run, k \in Key : lease[r][k] = GivenUp => lease'[r][k] = GivenUp

LEMMA SentStays ==
  ASSUME GiveUpsStay,
         NEW c \in Client, NEW w, WriteOK(c, w), SentOK(w)
  PROVE  SentOK(w)'
<1>1. w.key \in Key
  BY DEF WriteOK
<1> QED BY <1>1 DEF SentOK, GiveUpsStay, NotLonger, LockOf

(* Time only ends leases. *)
LEMMA LiveBefore ==
  ASSUME StoreInv, LeaseInv, NEW r \in Run, NEW k \in Key, Live(r, k)',
         now' \in Nat, now <= now', skew' = skew, lease'[r][k] = lease[r][k]
  PROVE  Live(r, k)
<1>1. \A c \in Client : Clock(c) \in Int /\ Clock(c)' \in Int /\ Clock(c) <= Clock(c)'
  BY DEF StoreInv, Clock
<1>2. lease[r][k] \in Int
  BY DEF LeaseInv
<1>3. \A c \in Client : Clock(c)' < lease[r][k]
  BY DEF Live
<1> QED BY <1>1, <1>2, <1>3 DEF Live

(* A lease that is none does not run. *)
LEMMA NotLive ==
  ASSUME StoreInv, NEW r \in Run, NEW k \in Key
  PROVE  /\ lease[r][k] \in {0, GivenUp} => ~Live(r, k)
<1>1. r \in Client /\ Clock(r) \in Nat
  BY DEF StoreInv, Clock, Client
<1> QED BY <1>1 DEF Live, GivenUp

(* A write that lands keeps the leases that run, whoever sent it and whether *)
(* its sender is told or not.                                                *)
LEMMA LandKeepsLeases ==
  ASSUME StoreInv, LeaseInv, NEW c \in Client, NEW w, WriteOK(c, w), SentOK(w), Land(w),
         NEW told \in BOOLEAN, lease' = LeaseAfter(w, told), UNCHANGED <<now, skew>>
  PROVE  /\ lease' \in [Run -> [Key -> Int]] /\ GiveUpsStay
         /\ \A r \in Run, k \in Key : Live(r, k)' => Granted(r, k)'
         /\ \A r \in Run, k \in Key : NotLonger(LockOf(blob[k]), r, Clock(r))'
<1> DEFINE k0 == w.key
           l0 == LockOf(w.snap)
           n0 == Written(w).lock
           Acquires(r) == told /\ w.req.kind = "acquire" /\ w.req.run = r /\ Written(w).ok
<1>1. /\ k0 \in Key /\ w.req \in A!Requests(c) /\ w.req \in Request
      /\ w.at \in Nat /\ w.at <= Clock(c) /\ Clock(c) \in Nat /\ LockOK(l0)
  BY RequestsType, LockOfOK DEF WriteOK, StoreInv, Clock
<1>2. lease \in [Run -> [Key -> Int]] /\ blob \in [Key -> Lock \cup {Absent}]
  BY DEF StoreInv, LeaseInv
<1>3. /\ blob[k0] = w.snap /\ LockOf(blob'[k0]) = n0
      /\ \A k \in Key : k # k0 => blob'[k] = blob[k]
  BY <1>1, <1>2, WrittenOK DEF Land, StoreInv
<1>4. n0 = Transition(w.req, l0, w.at).lock
  BY DEF Written
<1> HIDE DEF n0, l0, k0
<1>5. \A r \in Run : Acquires(r) =>
        /\ Active(n0, r) /\ n0.holder.pr = PRof[r] /\ n0.holder.expires = Stamp(w.at + TTL)
        /\ n0.holder.expires \in Int
  <2> SUFFICES ASSUME NEW r \in Run, Acquires(r)
               PROVE  /\ Active(n0, r) /\ n0.holder.pr = PRof[r]
                      /\ n0.holder.expires = Stamp(w.at + TTL) /\ n0.holder.expires \in Int
    OBVIOUS
  <2>1. AcquiredBy(n0, w.req, w.at)
    BY ToldHolder DEF n0
  <2>2. w.req.run = r /\ w.req.pr = PRof[r]
    BY <1>1, RequestFacts
  <2>3. Stamp(w.at + TTL) \in Nat
    BY <1>1, TTLAssumption, StampType
  <2> QED BY <2>1, <2>2, <2>3 DEF AcquiredBy
<1>6. /\ lease' = [r \in Run |-> lease'[r]]
      /\ \A r \in Run, k \in Key : k # k0 => lease'[r][k] = lease[r][k]
      /\ \A r \in Run : lease'[r] = [k \in Key |-> lease'[r][k]]
      /\ \A r \in Run :
           \/ lease[r][k0] = GivenUp /\ lease'[r][k0] = GivenUp
           \/ lease[r][k0] # GivenUp /\ Revokes(w.req, r) /\ lease'[r][k0] = 0
           \/ lease[r][k0] # GivenUp /\ Acquires(r) /\ lease'[r][k0] = n0.holder.expires
           \/ /\ lease[r][k0] # GivenUp /\ ~Revokes(w.req, r)
              /\ lease'[r][k0] = lease[r][k0]
  <2> SUFFICES ASSUME NEW r \in Run
               PROVE  /\ \A k \in Key : k # k0 => lease'[r][k] = lease[r][k]
                      /\ lease'[r] = [k \in Key |-> lease'[r][k]]
                      /\ \/ lease[r][k0] = GivenUp /\ lease'[r][k0] = GivenUp
                         \/ lease[r][k0] # GivenUp /\ Revokes(w.req, r) /\ lease'[r][k0] = 0
                         \/ /\ lease[r][k0] # GivenUp /\ Acquires(r)
                            /\ lease'[r][k0] = n0.holder.expires
                         \/ /\ lease[r][k0] # GivenUp /\ ~Revokes(w.req, r)
                            /\ lease'[r][k0] = lease[r][k0]
    <3>1. lease' = [r \in Run |-> lease'[r]]
      BY DEF LeaseAfter
    <3> QED BY <3>1
  <2> DEFINE new == CASE lease[r][k0] = GivenUp -> GivenUp
                      [] lease[r][k0] # GivenUp /\ Revokes(w.req, r) -> 0
                      [] /\ lease[r][k0] # GivenUp /\ told
                         /\ w.req.kind = "acquire" /\ w.req.run = r /\ Written(w).ok ->
                           Written(w).lock.holder.expires
                      [] OTHER -> lease[r][k0]
  <2>1. lease'[r] = [lease[r] EXCEPT ![k0] = new]
    BY DEF LeaseAfter, k0
  <2>2. \/ lease[r][k0] = GivenUp /\ new = GivenUp
        \/ lease[r][k0] # GivenUp /\ Revokes(w.req, r) /\ new = 0
        \/ lease[r][k0] # GivenUp /\ Acquires(r) /\ new = n0.holder.expires
        \/ lease[r][k0] # GivenUp /\ ~Revokes(w.req, r) /\ new = lease[r][k0]
    <3>1. CASE lease[r][k0] = GivenUp
      BY <3>1
    <3>2. CASE lease[r][k0] # GivenUp /\ Revokes(w.req, r)
      <4>1. w.req.kind # "acquire"
        BY <3>2 DEF Revokes
      <4> QED BY <3>2, <4>1
    <3>3. CASE lease[r][k0] # GivenUp /\ ~Revokes(w.req, r) /\ Acquires(r)
      BY <3>3 DEF n0
    <3>4. CASE lease[r][k0] # GivenUp /\ ~Revokes(w.req, r) /\ ~Acquires(r)
      BY <3>4
    <3> QED BY <3>1, <3>2, <3>3, <3>4
  <2> HIDE DEF new
  <2> QED BY <1>1, <1>2, <2>1, <2>2
<1> HIDE DEF Acquires
<1>7. ASSUME NEW r \in Run, NEW k \in Key PROVE lease'[r][k] \in Int
  <2>1. lease[r][k] \in Int /\ GivenUp \in Int /\ 0 \in Int
    BY <1>2 DEF GivenUp
  <2> QED BY <1>5, <1>6, <2>1
<1>8. lease' \in [Run -> [Key -> Int]]
  BY <1>6, <1>7
<1>9. GiveUpsStay
  BY <1>6 DEF GiveUpsStay
<1>10. ASSUME NEW r \in Run, NEW k \in Key, k # k0
       PROVE  /\ Live(r, k)' => Granted(r, k)'
              /\ NotLonger(LockOf(blob[k]), r, Clock(r))'
  <2>1. blob'[k] = blob[k] /\ lease'[r][k] = lease[r][k] /\ Clock(r)' = Clock(r)
    BY <1>3, <1>6, <1>10 DEF Clock
  <2>2. Live(r, k)' => Live(r, k)
    BY <2>1 DEF Live, Clock
  <2> QED BY <2>1, <2>2 DEF LeaseInv, Granted, NotLonger, LockOf
<1>11. ASSUME NEW r \in Run, Live(r, k0)' PROVE Granted(r, k0)'
  <2>1. lease'[r][k0] # 0 /\ lease'[r][k0] # GivenUp
    <3>1. Clock(r)' \in Nat /\ Clock(r)' < lease'[r][k0]
      BY <1>11 DEF Live, StoreInv, Clock, Client
    <3> QED BY <3>1 DEF GivenUp
  <2>2. CASE Acquires(r) /\ lease'[r][k0] = n0.holder.expires
    <3>1. Active(n0, r) /\ n0.holder.pr = PRof[r] /\ n0.holder.expires \in Int
      BY <1>5, <2>2, Zenon
    <3>2. lease'[r][k0] <= n0.holder.expires
      BY <2>2, <3>1
    <3> QED BY <1>3, <3>1, <3>2 DEF Granted
  <2>3. CASE ~Revokes(w.req, r) /\ lease'[r][k0] = lease[r][k0]
    <3>1. Live(r, k0)
      BY <1>1, <1>11, <2>3, LiveBefore DEF StoreInv
    <3>2. Active(l0, r) /\ l0.holder.pr = PRof[r] /\ lease[r][k0] <= l0.holder.expires
      BY <1>1, <1>3, <3>1 DEF LeaseInv, Granted, l0
    <3>3. l0.holder.expires \in Int /\ lease[r][k0] \in Int
      BY <1>1, <1>2, <3>2 DEF LockOK, Lock, Active, Held, Holder, ExpiresAt, Unparseable, Missing
    <3>4. w.at < l0.holder.expires
      BY <1>1, <3>1, <3>2, <3>3 DEF Live
    <3>5. w.req.kind \in {"release", "unlock"} => w.req.run # r
      BY <2>1, <2>3 DEF SentOK, k0
    <3>6. /\ Active(n0, r) /\ n0.holder.pr = PRof[r]
          /\ \/ n0.holder.expires = l0.holder.expires
             \/ /\ w.req.kind = "acquire" /\ w.req.run = r
                /\ n0.holder.expires = Stamp(w.at + TTL)
      BY <1>1, <1>4, <2>3, <3>2, <3>4, <3>5, ActiveKept
    <3>7. l0.holder.expires <= n0.holder.expires
      BY <3>2, <3>3, <3>6 DEF SentOK, NotLonger, l0
    <3>8. n0.holder.expires \in Int
      <4>1. Stamp(w.at + TTL) \in Nat
        BY <1>1, TTLAssumption, StampType
      <4> QED BY <3>3, <3>6, <4>1
    <3>9. lease'[r][k0] <= n0.holder.expires
      BY <2>3, <3>2, <3>3, <3>7, <3>8
    <3> QED BY <1>3, <3>6, <3>9 DEF Granted
  <2> QED BY <1>6, <2>1, <2>2, <2>3
<1>12. ASSUME NEW r \in Run PROVE NotLonger(LockOf(blob[k0]), r, Clock(r))'
  <2> SUFFICES ASSUME Active(n0, r) PROVE n0.holder.expires <= Stamp(Clock(r) + TTL)
    BY <1>3 DEF NotLonger, Clock
  <2>1. CASE Held(l0) /\ n0.holder = l0.holder
    <3>1. Active(l0, r)
      BY <2>1 DEF Active
    <3> QED BY <1>1, <1>3, <2>1, <3>1 DEF LeaseInv, NotLonger, l0
  <2>2. CASE /\ w.req.kind = "acquire" /\ w.req.run = r
             /\ n0.holder.expires = Stamp(w.at + TTL)
    <3>1. c = r
      BY <1>1, <2>2, RequestFacts
    <3>2. Stamp(w.at + TTL) <= Stamp(Clock(c) + TTL)
      BY <1>1, TTLAssumption, StampMonotone
    <3> QED BY <2>2, <3>1, <3>2
  <2>3. \/ Held(l0) /\ n0.holder = l0.holder
        \/ w.req.kind = "acquire" /\ w.req.run = r /\ n0.holder.expires = Stamp(w.at + TTL)
    BY <1>1, <1>4, ActiveComesFrom
  <2> QED BY <2>1, <2>2, <2>3
<1> QED BY <1>8, <1>9, <1>10, <1>11, <1>12

(* What a call holds about leases stays true as leases are given up. *)
LEMMA CallLeasesStay ==
  ASSUME GiveUpsStay
  PROVE  \A c \in Client : \A x : CallOK(c, x) /\ CallLeasesOK(c, x) => CallLeasesOK(c, x)'
<1> SUFFICES ASSUME NEW c \in Client, NEW x, CallOK(c, x), CallLeasesOK(c, x)
             PROVE  CallLeasesOK(c, x)'
  OBVIOUS
<1>1. ASSUME c \in Run, x.pc \in {"read", "put"}, x.req.kind \in {"release", "unlock"},
             NEW k \in x.todo
      PROVE  lease'[c][k] = GivenUp
  BY <1>1 DEF CallOK, CallLeasesOK, GiveUpsStay
<1>2. ASSUME x.pc = "put"
      PROVE  /\ x.key \in x.todo
             /\ SentOK([req |-> x.req, key |-> x.key, snap |-> x.snap, at |-> x.at])'
  <2> DEFINE w == [req |-> x.req, key |-> x.key, snap |-> x.snap, at |-> x.at]
  <2>1. WriteOK(c, w) /\ SentOK(w) /\ x.key \in x.todo
    BY <1>2 DEF CallOK, CallLeasesOK
  <2>2. \A v : WriteOK(c, v) /\ SentOK(v) => SentOK(v)'
    BY SentStays
  <2> HIDE DEF w
  <2>3. SentOK(w)'
    BY <2>1, <2>2 DEF w
  <2> QED BY <2>1, <2>3 DEF w
<1> QED BY <1>1, <1>2 DEF CallLeasesOK

LEMMA GoesOnLeases ==
  ASSUME StoreInv, LeaseInv, NEW c \in Client
  PROVE  /\ CallLeasesOK(c, Abort(c))
         /\ cl[c].pc \in {"read", "put"} =>
              \A k, m : CallLeasesOK(c, Advance(c, k, m)) /\ CallLeasesOK(c, Retry(c))
<1>1. CallLeasesOK(c, Idle) /\ CallLeasesOK(c, Gone) /\ CallLeasesOK(c, Left)
  BY DEF CallLeasesOK, Idle, Gone, Left
<1>2. CallLeasesOK(c, Abort(c)) /\ \A m : CallLeasesOK(c, Return(c, m))
  BY <1>1 DEF Abort, Return
<1>3. ASSUME cl[c].pc \in {"read", "put"}, NEW k, NEW m
      PROVE  CallLeasesOK(c, Advance(c, k, m)) /\ CallLeasesOK(c, Retry(c))
  <2>1. c \in Run /\ cl[c].req.kind \in {"release", "unlock"} =>
          \A j \in cl[c].todo : lease[c][j] = GivenUp
    BY <1>3 DEF LeaseInv, CallLeasesOK
  <2>2. CallLeasesOK(c, [pc |-> "read", req |-> cl[c].req, todo |-> cl[c].todo \ {k},
                         tries |-> 0, missed |-> m])
    BY <2>1 DEF CallLeasesOK
  <2>3. CallLeasesOK(c, [pc |-> "read", req |-> cl[c].req, todo |-> cl[c].todo,
                         tries |-> cl[c].tries + 1, missed |-> cl[c].missed,
                         key |-> cl[c].key])
    BY <2>1 DEF CallLeasesOK
  <2> QED BY <1>2, <2>2, <2>3 DEF Advance, Retry
<1> QED BY <1>2, <1>3

(* Only c goes on. *)
LEMMA CallLeasesStep ==
  ASSUME StoreInv, LeaseInv, GiveUpsStay, NEW c \in Client, NEW x, CallOK(c, x),
         CallLeasesOK(c, x), cl' = [cl EXCEPT ![c] = x]
  PROVE  \A d \in Client : CallLeasesOK(d, cl[d])'
<1>1. \A d \in Client : CallOK(d, cl[d]) /\ CallLeasesOK(d, cl[d])
  BY DEF StoreInv, LeaseInv
<1>2. \A d \in Client : \A y : CallOK(d, y) /\ CallLeasesOK(d, y) => CallLeasesOK(d, y)'
  BY CallLeasesStay
<1>3. \A d \in Client : cl'[d] = IF d = c THEN x ELSE cl[d]
  BY DEF StoreInv
<1> QED BY <1>1, <1>2, <1>3

LEMMA LostStays ==
  ASSUME StoreInv, LeaseInv, GiveUpsStay
  PROVE  \A w \in lost : SentOK(w)'
<1>1. \A w \in lost : SentOK(w) /\ \E c \in Client : WriteOK(c, w)
  BY DEF StoreInv, LeaseInv
<1>2. \A c \in Client : \A w : WriteOK(c, w) /\ SentOK(w) => SentOK(w)'
  BY SentStays
<1> QED BY <1>1, <1>2

(* Without a write, the leases are as good as before. *)
LEMMA QuietLeases ==
  ASSUME StoreInv, LeaseInv, UNCHANGED <<blob, lease, now, skew>>
  PROVE  /\ lease' \in [Run -> [Key -> Int]] /\ GiveUpsStay
         /\ \A r \in Run, k \in Key : Live(r, k)' => Granted(r, k)'
         /\ \A r \in Run, k \in Key : NotLonger(LockOf(blob[k]), r, Clock(r))'
<1>1. \A r \in Run, k \in Key : Live(r, k)' => Live(r, k)
  BY DEF Live, Clock
<1>2. \A r \in Run, k \in Key : Granted(r, k) => Granted(r, k)'
  BY DEF Granted, LockOf
<1>3. \A r \in Run, k \in Key :
        NotLonger(LockOf(blob[k]), r, Clock(r)) => NotLonger(LockOf(blob[k]), r, Clock(r))'
  BY DEF NotLonger, LockOf, Clock
<1> QED BY <1>1, <1>2, <1>3 DEF LeaseInv, GiveUpsStay

LEMMA QuietStep ==
  ASSUME StoreInv, LeaseInv, NEW c \in Client, NEW x, CallOK(c, x), CallLeasesOK(c, x),
         cl' = [cl EXCEPT ![c] = x], UNCHANGED <<blob, lease, now, skew>>,
         \A w \in lost' : w \in lost \/ (WriteOK(c, w) /\ SentOK(w))
  PROVE  LeaseInv'
<1>1. GiveUpsStay
  BY QuietLeases
<1>2. \A d \in Client : CallLeasesOK(d, cl[d])'
  BY <1>1, CallLeasesStep
<1>3. \A w : WriteOK(c, w) /\ SentOK(w) => SentOK(w)'
  BY <1>1, SentStays
<1>4. \A w \in lost' : SentOK(w)'
  BY <1>1, <1>3, LostStays
<1> QED BY <1>2, <1>4, QuietLeases DEF LeaseInv

LEMMA LandedStep ==
  ASSUME StoreInv, LeaseInv, NEW c \in Client, NEW x, CallOK(c, x), CallLeasesOK(c, x),
         cl' = [cl EXCEPT ![c] = x], cl[c].pc = "put", Land(Write(c)),
         NEW told \in BOOLEAN, lease' = LeaseAfter(Write(c), told),
         UNCHANGED <<now, skew, lost>>
  PROVE  LeaseInv'
<1>1. WriteOK(c, Write(c)) /\ SentOK(Write(c))
  BY PreparedOK DEF LeaseInv, CallLeasesOK, Write
<1>2. /\ lease' \in [Run -> [Key -> Int]] /\ GiveUpsStay
      /\ \A r \in Run, k \in Key : Live(r, k)' => Granted(r, k)'
      /\ \A r \in Run, k \in Key : NotLonger(LockOf(blob[k]), r, Clock(r))'
  BY <1>1, LandKeepsLeases
<1>3. \A d \in Client : CallLeasesOK(d, cl[d])'
  BY <1>2, CallLeasesStep
<1>4. \A w \in lost' : SentOK(w)'
  BY <1>2, LostStays
<1> QED BY <1>2, <1>3, <1>4 DEF LeaseInv

LEMMA StartLeases ==
  ASSUME StoreInv, LeaseInv, NEW c \in Client, NEW req \in A!Requests(c),
         NEW ks \in SUBSET Key, Start(c, req, ks)
  PROVE  LeaseInv'
<1> DEFINE x == [pc |-> "read", req |-> req, todo |-> ks, tries |-> 0, missed |-> FALSE]
           gives == c \in Run /\ req.kind \in {"release", "unlock"}
<1>1. cl' = [cl EXCEPT ![c] = x] /\ UNCHANGED <<blob, now, skew, lost>>
  BY DEF Start
<1>2. lease' = GiveUp(c, req, ks) /\ lease \in [Run -> [Key -> Int]]
  BY DEF Start, LeaseInv
<1>3. /\ lease' \in [Run -> [Key -> Int]]
      /\ \A r \in Run, k \in Key :
           lease'[r][k] = IF gives /\ r = c /\ k \in ks THEN GivenUp ELSE lease[r][k]
  <2>1. CASE gives
    <3>1. lease' = [lease EXCEPT ![c] = [k \in Key |-> IF k \in ks THEN GivenUp ELSE lease[c][k]]]
      BY <1>2, <2>1 DEF GiveUp
    <3>2. GivenUp \in Int
      BY DEF GivenUp
    <3> QED BY <1>2, <2>1, <3>1, <3>2
  <2>2. CASE ~gives
    BY <1>2, <2>2 DEF GiveUp
  <2> QED BY <2>1, <2>2
<1>4. GiveUpsStay
  BY <1>3 DEF GiveUpsStay
<1>5. ASSUME NEW r \in Run, NEW k \in Key, Live(r, k)' PROVE Granted(r, k)'
  <2>1. lease'[r][k] # GivenUp
    <3>1. Clock(r)' \in Nat /\ Clock(r)' < lease'[r][k]
      BY <1>1, <1>5 DEF Live, StoreInv, Clock, Client
    <3> QED BY <3>1 DEF GivenUp
  <2>2. lease'[r][k] = lease[r][k]
    BY <1>3, <2>1
  <2>3. Live(r, k)
    BY <1>1, <1>5, <2>2, LiveBefore DEF StoreInv
  <2> QED BY <1>1, <2>2, <2>3 DEF LeaseInv, Granted, LockOf
<1>6. \A r \in Run, k \in Key : NotLonger(LockOf(blob[k]), r, Clock(r))'
  BY <1>1 DEF LeaseInv, NotLonger, LockOf, Clock
<1>7. CallLeasesOK(c, x)'
  BY <1>3 DEF CallLeasesOK
<1>8. \A d \in Client : CallLeasesOK(d, cl[d])'
  <2>1. \A d \in Client : CallOK(d, cl[d]) /\ CallLeasesOK(d, cl[d])
    BY DEF StoreInv, LeaseInv
  <2>2. \A d \in Client : \A y : CallOK(d, y) /\ CallLeasesOK(d, y) => CallLeasesOK(d, y)'
    BY <1>4, CallLeasesStay
  <2>3. \A d \in Client : cl'[d] = IF d = c THEN x ELSE cl[d]
    BY <1>1 DEF StoreInv
  <2> HIDE DEF x
  <2> QED BY <1>7, <2>1, <2>2, <2>3
<1>9. \A w \in lost' : SentOK(w)'
  BY <1>1, <1>4, LostStays
<1> HIDE DEF x
<1> QED BY <1>3, <1>5, <1>6, <1>8, <1>9 DEF LeaseInv

LEMMA TickLeases ==
  ASSUME StoreInv, LeaseInv, Tick
  PROVE  LeaseInv'
<1>1. now' \in Nat /\ now <= now' /\ skew' = skew /\ UNCHANGED <<blob, cl, lost, lease>>
  BY DEF Tick, StoreInv
<1>2. GiveUpsStay
  BY <1>1 DEF GiveUpsStay
<1>3. ASSUME NEW r \in Run, NEW k \in Key, Live(r, k)' PROVE Granted(r, k)'
  <2>1. Live(r, k)
    BY <1>1, <1>3, LiveBefore
  <2> QED BY <1>1, <2>1 DEF LeaseInv, Granted, LockOf
<1>4. ASSUME NEW r \in Run, NEW k \in Key PROVE NotLonger(LockOf(blob[k]), r, Clock(r))'
  <2> DEFINE l == LockOf(blob[k])
  <2>1. Clock(r) \in Nat /\ Clock(r)' \in Nat /\ Clock(r) <= Clock(r)'
    BY <1>1 DEF StoreInv, Clock, Client
  <2>2. Clock(r) + TTL \in Nat /\ Clock(r)' + TTL \in Nat /\ Clock(r) + TTL <= Clock(r)' + TTL
    BY <2>1, TTLAssumption
  <2>3. Stamp(Clock(r) + TTL) <= Stamp(Clock(r)' + TTL)
    BY <2>2, StampMonotone
  <2>4. Stamp(Clock(r) + TTL) \in Nat /\ Stamp(Clock(r)' + TTL) \in Nat
    BY <2>2, StampType
  <2>5. LockOK(l)
    BY LockOfOK DEF StoreInv
  <2>6. Active(l, r) => l.holder.expires \in Int /\ l.holder.expires <= Stamp(Clock(r) + TTL)
    BY <2>5 DEF LeaseInv, NotLonger, LockOK, Lock, Active, Held, Holder, ExpiresAt,
                Unparseable, Missing
  <2> HIDE DEF l
  <2>7. Active(l, r) => l.holder.expires <= Stamp(Clock(r)' + TTL)
    BY <2>3, <2>4, <2>6
  <2>8. l = LockOf(blob[k])'
    BY <1>1 DEF l, LockOf
  <2> QED BY <2>7, <2>8 DEF NotLonger
<1>5. \A d \in Client : CallLeasesOK(d, cl[d])'
  <2>1. \A d \in Client : CallOK(d, cl[d]) /\ CallLeasesOK(d, cl[d])
    BY DEF StoreInv, LeaseInv
  <2>2. \A d \in Client : \A y : CallOK(d, y) /\ CallLeasesOK(d, y) => CallLeasesOK(d, y)'
    BY <1>2, CallLeasesStay
  <2> QED BY <1>1, <2>1, <2>2
<1>6. \A w \in lost' : SentOK(w)'
  BY <1>1, <1>2, LostStays
<1> QED BY <1>1, <1>3, <1>4, <1>5, <1>6 DEF LeaseInv

LEMMA LateLeases ==
  ASSUME StoreInv, LeaseInv, LateWrite
  PROVE  LeaseInv'
<1>1. PICK w \in lost : /\ \/ Land(w) /\ lease' = LeaseAfter(w, FALSE)
                           \/ UNCHANGED <<blob, lease>>
                        /\ lost' = lost \ {w} /\ UNCHANGED <<now, skew, cl>>
  BY DEF LateWrite
<1>2. SentOK(w) /\ \E c \in Client : WriteOK(c, w)
  BY DEF StoreInv, LeaseInv
<1>3. /\ lease' \in [Run -> [Key -> Int]] /\ GiveUpsStay
      /\ \A r \in Run, k \in Key : Live(r, k)' => Granted(r, k)'
      /\ \A r \in Run, k \in Key : NotLonger(LockOf(blob[k]), r, Clock(r))'
  <2>1. CASE Land(w) /\ lease' = LeaseAfter(w, FALSE)
    BY <1>1, <1>2, <2>1, LandKeepsLeases
  <2>2. CASE UNCHANGED <<blob, lease>>
    BY <1>1, <2>2, QuietLeases
  <2> QED BY <1>1, <2>1, <2>2
<1>4. \A d \in Client : CallLeasesOK(d, cl[d])'
  <2>1. \A d \in Client : CallOK(d, cl[d]) /\ CallLeasesOK(d, cl[d])
    BY DEF StoreInv, LeaseInv
  <2>2. \A d \in Client : \A y : CallOK(d, y) /\ CallLeasesOK(d, y) => CallLeasesOK(d, y)'
    BY <1>3, CallLeasesStay
  <2> QED BY <1>1, <2>1, <2>2
<1>5. \A v \in lost' : SentOK(v)'
  BY <1>1, <1>3, LostStays
<1> QED BY <1>3, <1>4, <1>5 DEF LeaseInv

LEMMA LeaseInit == SeedsAreOld /\ Init => LeaseInv
<1> SUFFICES ASSUME SeedsAreOld, Init PROVE LeaseInv
  OBVIOUS
<1>1. StoreInv
  BY StoreInit
<1>2. lease \in [Run -> [Key -> Int]] /\ \A r \in Run, k \in Key : lease[r][k] = 0
  BY DEF Init
<1>3. \A r \in Run, k \in Key : ~Live(r, k)
  BY <1>1, <1>2, NotLive
<1>4. ASSUME NEW r \in Run, NEW k \in Key PROVE NotLonger(LockOf(blob[k]), r, Clock(r))
  <2>1. CASE blob[k] = Absent
    BY <2>1 DEF LockOf, NewLock, NotLonger, Active, Held
  <2>2. CASE blob[k] \in Seeds
    <3> DEFINE l == blob[k]
    <3>1. LockOf(l) = l /\ LockOK(l) /\ NotLonger(l, r, 0)
      BY <2>2, StoredAssumption DEF LockOf, SeedsAreOld
    <3>2. Clock(r) \in Nat /\ TTL \in Nat
      BY <1>1, TTLAssumption DEF StoreInv, Clock, Client
    <3>3. /\ 0 + TTL \in Nat /\ Clock(r) + TTL \in Nat /\ 0 + TTL <= Clock(r) + TTL
      BY <3>2
    <3>4. /\ Stamp(0 + TTL) \in Nat /\ Stamp(Clock(r) + TTL) \in Nat
          /\ Stamp(0 + TTL) <= Stamp(Clock(r) + TTL)
      BY <3>3, StampType, StampMonotone
    <3>5. Active(l, r) => l.holder.expires \in Int /\ l.holder.expires <= Stamp(0 + TTL)
      BY <3>1 DEF NotLonger, LockOK, Lock, Active, Held, Holder, ExpiresAt,
                  Unparseable, Missing
    <3> HIDE DEF l
    <3>6. NotLonger(l, r, Clock(r))
      BY <3>4, <3>5 DEF NotLonger
    <3> QED BY <3>1, <3>6 DEF l
  <2> QED BY <2>1, <2>2 DEF Init
<1>5. \A c \in Client : CallLeasesOK(c, cl[c])
  <2>1. \A c \in Client : cl[c] = Idle
    BY DEF Init
  <2> QED BY <2>1 DEF CallLeasesOK, Idle
<1> QED BY <1>2, <1>3, <1>4, <1>5 DEF Init, LeaseInv

LEMMA LeaseNext == StoreInv /\ LeaseInv /\ [Next]_vars => LeaseInv'
<1> SUFFICES ASSUME StoreInv, LeaseInv, [Next]_vars PROVE LeaseInv'
  OBVIOUS
<1>1. CASE Tick
  BY <1>1, TickLeases
<1>2. CASE LateWrite
  BY <1>2, LateLeases
<1>3. ASSUME NEW c \in Client, CallOne(c) PROVE LeaseInv'
  <2>1. PICK req \in A!Requests(c), k \in world.keys : Start(c, req, {k})
    BY <1>3 DEF CallOne
  <2>2. {k} \in SUBSET Key
    BY <2>1, WorldsAssumption DEF StoreInv
  <2> QED BY <2>1, <2>2, StartLeases
<1>4. ASSUME NEW c \in Client, CallAll(c) PROVE LeaseInv'
  BY <1>4, StartLeases DEF CallAll
<1>5. ASSUME NEW c \in Client, Read(c) PROVE LeaseInv'
  <2>1. PICK k \in cl[c].todo :
          cl' = [cl EXCEPT ![c] =
                   IF Transition(cl[c].req, LockOf(blob[k]), Clock(c)).write
                   THEN [pc |-> "put", req |-> cl[c].req, todo |-> cl[c].todo,
                         tries |-> cl[c].tries, missed |-> cl[c].missed, key |-> k,
                         snap |-> blob[k], at |-> Clock(c)]
                   ELSE Advance(c, k, cl[c].missed)]
    BY <1>5 DEF Read
  <2> DEFINE put == [pc |-> "put", req |-> cl[c].req, todo |-> cl[c].todo,
                     tries |-> cl[c].tries, missed |-> cl[c].missed, key |-> k,
                     snap |-> blob[k], at |-> Clock(c)]
             w   == [req |-> cl[c].req, key |-> k, snap |-> blob[k], at |-> Clock(c)]
  <2>2. cl[c].pc = "read" /\ UNCHANGED <<blob, now, skew, lost, lease>>
    BY <1>5 DEF Read
  <2>3. /\ cl[c].req \in A!Requests(c) /\ cl[c].todo \subseteq Key /\ k \in Key
        /\ c \in Run /\ cl[c].req.kind \in {"release", "unlock"} =>
             \A j \in cl[c].todo : lease[c][j] = GivenUp
    BY <2>1, <2>2 DEF StoreInv, CallOK, LeaseInv, CallLeasesOK
  <2>4. SentOK(w)
    <3>1. ASSUME cl[c].req.kind \in {"release", "unlock"}, cl[c].req.run \in Run
          PROVE  lease[cl[c].req.run][k] = GivenUp
      <4>1. c \in Run /\ cl[c].req.run = c
        BY <2>3, <3>1, RequestFacts, RunAssumption
      <4> QED BY <2>1, <2>3, <3>1, <4>1
    <3>2. ASSUME cl[c].req.kind = "acquire"
          PROVE  NotLonger(LockOf(blob[k]), cl[c].req.run, Clock(c))
      <4>1. c \in Run /\ cl[c].req.run = c
        BY <2>3, <3>2, RequestFacts
      <4> QED BY <2>3, <4>1 DEF LeaseInv
    <3> QED BY <3>1, <3>2 DEF SentOK
  <2>5. CallLeasesOK(c, put)
    BY <2>1, <2>3, <2>4 DEF CallLeasesOK
  <2>6. CallOK(c, put)
    <3>1. BlobOK(blob[k]) /\ Clock(c) \in 0..Clock(c)
      BY <2>3 DEF StoreInv, Clock
    <3> QED BY <2>3, <3>1 DEF CallOK, WriteOK
  <2>7. CallOK(c, Advance(c, k, cl[c].missed)) /\ CallLeasesOK(c, Advance(c, k, cl[c].missed))
    BY <2>2, GoesOnOK, GoesOnLeases
  <2>8. PICK x : CallOK(c, x) /\ CallLeasesOK(c, x) /\ cl' = [cl EXCEPT ![c] = x]
    <3> HIDE DEF put
    <3> QED BY <2>1, <2>5, <2>6, <2>7 DEF put
  <2> QED BY <2>2, <2>8, QuietStep
<1>6. ASSUME NEW c \in Client, PassOver(c) PROVE LeaseInv'
  <2>1. PICK k \in cl[c].todo : cl' = [cl EXCEPT ![c] = Advance(c, k, c \in Run)]
    BY <1>6 DEF PassOver
  <2>2. cl[c].pc = "read" /\ UNCHANGED <<blob, now, skew, lost, lease>>
    BY <1>6 DEF PassOver
  <2>3. CallOK(c, Advance(c, k, c \in Run)) /\ CallLeasesOK(c, Advance(c, k, c \in Run))
    BY <2>2, GoesOnOK, GoesOnLeases
  <2> QED BY <2>1, <2>2, <2>3, QuietStep
<1>7. ASSUME NEW c \in Client, PutOK(c) PROVE LeaseInv'
  <2> DEFINE x == Advance(c, cl[c].key, cl[c].missed)
  <2>1. CallOK(c, x) /\ CallLeasesOK(c, x)
    BY <1>7, GoesOnOK, GoesOnLeases DEF PutOK
  <2> QED BY <1>7, <2>1, LandedStep DEF PutOK
<1>8. ASSUME NEW c \in Client, PutConflict(c) PROVE LeaseInv'
  <2>1. CallOK(c, Retry(c)) /\ CallLeasesOK(c, Retry(c))
    BY <1>8, GoesOnOK, GoesOnLeases DEF PutConflict
  <2> QED BY <1>8, <2>1, QuietStep DEF PutConflict
<1>9. ASSUME NEW c \in Client, PutRepeated(c) PROVE LeaseInv'
  <2>1. CallOK(c, Retry(c)) /\ CallLeasesOK(c, Retry(c))
    BY <1>9, GoesOnOK, GoesOnLeases DEF PutRepeated
  <2> QED BY <1>9, <2>1, LandedStep DEF PutRepeated
<1>10. ASSUME NEW c \in Client, PutLost(c) PROVE LeaseInv'
  <2>1. /\ CallOK(c, Abort(c)) /\ CallLeasesOK(c, Abort(c))
        /\ WriteOK(c, Write(c)) /\ SentOK(Write(c))
    BY <1>10, GoesOnOK, GoesOnLeases, PreparedOK DEF PutLost, LeaseInv, CallLeasesOK, Write
  <2>2. \A w \in lost' : w \in lost \/ (WriteOK(c, w) /\ SentOK(w))
    BY <1>10, <2>1 DEF PutLost
  <2> QED BY <1>10, <2>1, <2>2, QuietStep DEF PutLost
<1>11. ASSUME NEW c \in Client, CallFails(c) PROVE LeaseInv'
  <2>1. CallOK(c, Abort(c)) /\ CallLeasesOK(c, Abort(c))
    BY GoesOnOK, GoesOnLeases
  <2> QED BY <1>11, <2>1, QuietStep DEF CallFails
<1>12. CASE UNCHANGED vars
  <2>1. UNCHANGED <<blob, world, now, skew, cl, lost, lease>>
    BY <1>12 DEF vars
  <2>2. GiveUpsStay
    BY <2>1, QuietLeases
  <2>3. \A d \in Client : CallLeasesOK(d, cl[d])'
    <3>1. \A d \in Client : CallOK(d, cl[d]) /\ CallLeasesOK(d, cl[d])
      BY DEF StoreInv, LeaseInv
    <3>2. \A d \in Client : \A y : CallOK(d, y) /\ CallLeasesOK(d, y) => CallLeasesOK(d, y)'
      BY <2>2, CallLeasesStay
    <3> QED BY <2>1, <3>1, <3>2
  <2>4. \A w \in lost' : SentOK(w)'
    BY <2>1, <2>2, LostStays
  <2> QED BY <2>1, <2>3, <2>4, QuietLeases DEF LeaseInv
<1> QED BY <1>1, <1>2, <1>3, <1>4, <1>5, <1>6, <1>7, <1>8, <1>9, <1>10, <1>11, <1>12 DEF Next

(* A run that was told it has a lock can rely on it until the lease it was   *)
(* told of ends on some clock: the object names it as the active holder,     *)
(* whatever acquires, heartbeats, sweeps, reaps, unlocks without --force,    *)
(* retries, repeated and late writes happen meanwhile.  Locks left in the    *)
(* bucket may be held by anybody, for at most the TTL.                       *)
THEOREM LeasesReliable ==
  ASSUME SeedsAreOld
  PROVE  Spec => []LeaseHonoured
<1>1. LeaseInv => LeaseHonoured
  <2>1. \A r \in Run, k \in Key : LeaseInv /\ Live(r, k) => Active(LockOf(blob[k]), r)
    BY DEF LeaseInv, Granted
  <2> QED BY <2>1 DEF LeaseHonoured, Live, Active
<1>2. Init => StoreInv /\ LeaseInv
  BY StoreInit, LeaseInit
<1>3. StoreInv /\ LeaseInv /\ [Next]_vars => (StoreInv /\ LeaseInv)'
  BY StoreNext, LeaseNext
<1> QED BY <1>1, <1>2, <1>3, PTL DEF Spec

-----------------------------------------------------------------------------
(* Sweeps. *)

(* The lock names runs as runs of their own pull requests. *)
Own(l) == \A r \in Run : \A p : NamesAs(l, p, r) => p = PRof[r]

SeedsAreOwn == \A l \in Seeds : Own(l)

(* The locks in bucket b that run c, executing x, has swept no longer name   *)
(* it: all of them when the sweep is over, those it has left behind before.  *)
Clear(c, x, b) ==
  /\ x = Gone => \A k \in Key : ~Names(LockOf(b[k]), c)
  /\ x.pc \in {"read", "put"} /\ x.req.kind = "unlock" /\ ~x.missed =>
       \A k \in Key \ x.todo : ~Names(LockOf(b[k]), c)

SweepInv ==
  /\ \A k \in Key : Own(LockOf(blob[k]))
  /\ MaxLost = 0 => lost = {} /\ \A c \in Run : Clear(c, cl[c], blob)

LEMMA NewLockNames == /\ \A r : ~Names(NewLock, r)
                      /\ Own(NewLock)
<1>1. NewLock.holder = NoHolder /\ NewLock.queue = << >> /\ 1..Len(<< >>) = {}
  BY DEF NewLock
<1>2. \A r : ~Names(NewLock, r)
  BY <1>1 DEF Names, Held
<1> QED BY <1>2, NamesAsSome DEF Own

LEMMA ElsewhereClear ==
  ASSUME NEW c, NEW x, NEW b,
         \/ x \in {Idle, Left}
         \/ x.pc \in {"read", "put"} /\ x.req.kind # "unlock"
  PROVE  Clear(c, x, b)
<1>1. x # Gone
  BY DEF Idle, Left, Gone
<1>2. x \in {Idle, Left} => x.pc \notin {"read", "put"}
  BY DEF Idle, Left
<1> QED BY <1>1, <1>2 DEF Clear

(* What the sweep of run c makes of a lock does not name c; if it has        *)
(* nothing to write, the lock did not.                                       *)
LEMMA SweptLock ==
  ASSUME NEW c \in Run, NEW req \in A!Requests(c), req.kind = "unlock",
         NEW l, LockOK(l), Own(l), NEW t \in Nat, NEW out, out = Transition(req, l, t)
  PROVE  ~Names(out.lock, c) /\ (~out.write => ~Names(l, c))
<1>1. req = UnlockReq(PRof[c], c, TRUE)
  <2>1. req \in {AcquireReq(A!Self(c)), ReleaseReq(A!Self(c)), UnlockReq(PRof[c], c, TRUE)}
    BY SameRequests DEF A!Requests, A!RunRequests
  <2>2. AcquireReq(A!Self(c)).kind = "acquire" /\ ReleaseReq(A!Self(c)).kind = "release"
    BY DEF AcquireReq, ReleaseReq
  <2> QED BY <2>1, <2>2
<1>2. req.pr = PRof[c] /\ req.run = c /\ req.force = TRUE
  BY <1>1 DEF UnlockReq
<1>3. PICK n : n = UnlockPR(l, PRof[c], c, TTL, t)
  OBVIOUS
<1>4. ~Names(n, c)
  BY <1>3, UnlockedIsGone, CallersAssumption DEF Own
<1>5. out.lock = n /\ out.write = (n # l)
  BY <1>2, <1>3 DEF Transition, UnlockOp, Outcome
<1> QED BY <1>4, <1>5

(* Where a call goes next. *)
LEMMA AdvanceClear ==
  ASSUME NEW c \in Run, cl[c].pc \in {"read", "put"}, NEW b, Clear(c, cl[c], b), NEW k, NEW m,
         cl[c].req.kind = "unlock" /\ ~m => ~cl[c].missed /\ ~Names(LockOf(b[k]), c)
  PROVE  Clear(c, Advance(c, k, m), b)
<1>1. PICK rest : rest = cl[c].todo \ {k}
  OBVIOUS
<1>2. CASE cl[c].req.kind # "unlock" \/ m
  <2>1. CASE rest = {}
    <3>1. Advance(c, k, m) \in {Idle, Left}
      BY <1>1, <1>2, <2>1 DEF Advance, Return, Sweeping
    <3> QED BY <3>1, ElsewhereClear
  <2>2. CASE rest # {}
    <3>1. PICK x : x = [pc |-> "read", req |-> cl[c].req, todo |-> rest, tries |-> 0, missed |-> m]
      OBVIOUS
    <3>2. Advance(c, k, m) = x
      BY <1>1, <2>2, <3>1 DEF Advance
    <3>3. x # Gone /\ x.req = cl[c].req /\ x.missed = m
      BY <3>1 DEF Gone
    <3> QED BY <1>2, <3>2, <3>3 DEF Clear
  <2> QED BY <2>1, <2>2
<1>3. CASE cl[c].req.kind = "unlock" /\ ~m
  <2>1. \A j \in Key \ rest : ~Names(LockOf(b[j]), c)
    BY <1>1, <1>3 DEF Clear
  <2>2. CASE rest = {}
    <3>1. Advance(c, k, m) = Gone
      BY <1>1, <1>3, <2>2 DEF Advance, Return, Sweeping
    <3>2. Gone.pc \notin {"read", "put"}
      BY DEF Gone
    <3> QED BY <2>1, <2>2, <3>1, <3>2 DEF Clear
  <2>3. CASE rest # {}
    <3>1. PICK x : x = [pc |-> "read", req |-> cl[c].req, todo |-> rest, tries |-> 0, missed |-> m]
      OBVIOUS
    <3>2. Advance(c, k, m) = x
      BY <1>1, <2>3, <3>1 DEF Advance
    <3>3. x # Gone /\ x.todo = rest
      BY <3>1 DEF Gone
    <3> QED BY <2>1, <3>2, <3>3 DEF Clear
  <2> QED BY <2>2, <2>3
<1> QED BY <1>2, <1>3

LEMMA AbortClear == ASSUME NEW c, NEW b PROVE Clear(c, Abort(c), b)
BY ElsewhereClear DEF Abort

LEMMA RetryClear ==
  ASSUME NEW c \in Run, cl[c].pc \in {"read", "put"}, NEW b, Clear(c, cl[c], b)
  PROVE  Clear(c, Retry(c), b)
<1>1. CASE cl[c].tries = MaxRetries
  BY <1>1, AbortClear DEF Retry
<1>2. CASE cl[c].tries # MaxRetries
  <2>1. PICK x : x = [pc |-> "read", req |-> cl[c].req, todo |-> cl[c].todo,
                      tries |-> cl[c].tries + 1, missed |-> cl[c].missed, key |-> cl[c].key]
    OBVIOUS
  <2>2. Retry(c) = x
    BY <1>2, <2>1 DEF Retry
  <2>3. x # Gone /\ x.req = cl[c].req /\ x.todo = cl[c].todo /\ x.missed = cl[c].missed
    BY <2>1 DEF Gone
  <2> QED BY <2>2, <2>3 DEF Clear
<1> QED BY <1>1, <1>2

(* A write that lands names only runs the object named, and its sender if    *)
(* that asks for the lock.                                                   *)
LEMMA LandNames ==
  ASSUME StoreInv, NEW c \in Client, NEW w, WriteOK(c, w), Land(w),
         \A k \in Key : Own(LockOf(blob[k]))
  PROVE  /\ \A k \in Key : Own(LockOf(blob'[k]))
         /\ \A r \in Run, k \in Key :
              Names(LockOf(blob'[k]), r) => \/ Names(LockOf(blob[k]), r)
                                            \/ w.req.kind = "acquire" /\ r = c
<1>1. PICK l, n : l = LockOf(w.snap) /\ n = Written(w).lock
  OBVIOUS
<1>2. /\ w.key \in Key /\ w.req \in A!Requests(c) /\ w.req \in Request /\ w.at \in Nat /\ LockOK(l)
  BY <1>1, RequestsType, LockOfOK DEF WriteOK, StoreInv, Clock
<1>3. /\ l = LockOf(blob[w.key]) /\ LockOf(blob'[w.key]) = n
      /\ \A k \in Key : k # w.key => blob'[k] = blob[k]
  BY <1>1, <1>2, WrittenOK DEF Land, StoreInv
<1>4. n = Transition(w.req, l, w.at).lock
  BY <1>1 DEF Written
<1>5. w.req.kind = "acquire" => c \in Run /\ w.req.run = c /\ w.req.pr = PRof[c]
  BY <1>2, RequestFacts
<1>6. Own(n)
  <2> SUFFICES ASSUME NEW r \in Run, NEW p, NamesAs(n, p, r) PROVE p = PRof[r]
    BY DEF Own
  <2>1. NamesAs(l, p, r) \/ (w.req.kind = "acquire" /\ w.req.pr = p /\ w.req.run = r)
    BY <1>2, <1>4, NamesComeFrom
  <2> QED BY <1>2, <1>3, <1>5, <2>1 DEF Own
<1>7. ASSUME NEW r \in Run, Names(n, r) PROVE Names(l, r) \/ (w.req.kind = "acquire" /\ r = c)
  BY <1>2, <1>4, <1>5, <1>7, NamesNobodyNew
<1> QED BY <1>2, <1>3, <1>6, <1>7

LEMMA QuietSweep ==
  ASSUME StoreInv, SweepInv, NEW c \in Client, NEW x, cl' = [cl EXCEPT ![c] = x],
         UNCHANGED <<blob, world>>, MaxLost = 0 => lost' = lost,
         MaxLost = 0 /\ c \in Run => Clear(c, x, blob)
  PROVE  SweepInv'
<1>1. \A d \in Run : d \in Client /\ cl'[d] = IF d = c THEN x ELSE cl[d]
  BY DEF StoreInv, Client
<1> QED BY <1>1 DEF SweepInv, MaxLost

LEMMA LandedSweep ==
  ASSUME StoreInv, SweepInv, NEW c \in Client, NEW x, cl' = [cl EXCEPT ![c] = x],
         cl[c].pc = "put", Land(Write(c)), UNCHANGED <<world, lost>>,
         MaxLost = 0 /\ c \in Run => Clear(c, x, blob')
  PROVE  SweepInv'
<1>1. \A d \in Run : d \in Client /\ cl'[d] = IF d = c THEN x ELSE cl[d]
  BY DEF StoreInv, Client
<1>2. WriteOK(c, Write(c))
  BY PreparedOK
<1>3. /\ \A k \in Key : Own(LockOf(blob'[k]))
      /\ \A r \in Run, k \in Key :
           Names(LockOf(blob'[k]), r) => Names(LockOf(blob[k]), r) \/ r = c
  BY <1>2, LandNames DEF SweepInv
<1>4. ASSUME MaxLost = 0, NEW d \in Run, d # c PROVE Clear(d, cl[d], blob')
  BY <1>3, <1>4 DEF SweepInv, Clear
<1> QED BY <1>1, <1>3, <1>4 DEF SweepInv, MaxLost

(* What c has swept stays clear when its own write lands, and the object of  *)
(* a sweep's write is clear.                                                 *)
LEMMA OwnWriteClear ==
  ASSUME StoreInv, SweepInv, MaxLost = 0, NEW c \in Run, cl[c].pc = "put", Land(Write(c))
  PROVE  /\ Clear(c, cl[c], blob')
         /\ cl[c].req.kind = "unlock" => ~Names(LockOf(blob'[cl[c].key]), c)
<1>1. c \in Client /\ Clear(c, cl[c], blob)
  BY DEF Client, SweepInv
<1>2. PICK w : w = Write(c)
  OBVIOUS
<1>3. w.req = cl[c].req /\ w.key = cl[c].key /\ WriteOK(c, w) /\ Land(w)
  BY <1>1, <1>2, PreparedOK DEF Write
<1>4. CASE cl[c].req.kind # "unlock"
  BY <1>4, ElsewhereClear
<1>5. CASE cl[c].req.kind = "unlock"
  <2>1. \A k \in Key : Names(LockOf(blob'[k]), c) => Names(LockOf(blob[k]), c)
    BY <1>1, <1>3, <1>5, LandNames DEF SweepInv
  <2>2. cl[c] # Gone
    BY DEF Gone
  <2>3. Clear(c, cl[c], blob')
    BY <1>1, <2>1, <2>2 DEF Clear
  <2>4. PICK l, out : l = LockOf(w.snap) /\ out = Transition(w.req, l, w.at)
    OBVIOUS
  <2>5. /\ w.key \in Key /\ w.req \in A!Requests(c) /\ w.at \in Nat /\ LockOK(l)
    BY <1>1, <1>3, <2>4, LockOfOK DEF WriteOK, StoreInv, Clock
  <2>6. Own(l) /\ LockOf(blob'[w.key]) = out.lock
    BY <1>1, <1>3, <2>4, <2>5, WrittenOK DEF Land, StoreInv, SweepInv, Written
  <2>7. ~Names(out.lock, c)
    BY <1>3, <1>5, <2>4, <2>5, <2>6, SweptLock
  <2> QED BY <1>3, <2>3, <2>6, <2>7
<1> QED BY <1>4, <1>5

LEMMA SweepInit == ASSUME SeedsAreOwn PROVE Init => SweepInv
<1> SUFFICES ASSUME Init PROVE SweepInv
  OBVIOUS
<1>1. \A k \in Key : Own(LockOf(blob[k]))
  BY NewLockNames DEF Init, LockOf, SeedsAreOwn
<1>2. \A c \in Run : cl[c] = Idle
  BY DEF Init, Client
<1> QED BY <1>1, <1>2, ElsewhereClear DEF Init, SweepInv

LEMMA SweepNext == StoreInv /\ SweepInv /\ [Next]_vars => SweepInv'
<1> SUFFICES ASSUME StoreInv, SweepInv, [Next]_vars PROVE SweepInv'
  OBVIOUS
<1>1. CASE UNCHANGED <<blob, world, cl, lost>>
  BY <1>1 DEF SweepInv, MaxLost
<1>2. CASE LateWrite
  <2>1. PICK w \in lost : (Land(w) \/ UNCHANGED blob) /\ lost' = lost \ {w} /\ UNCHANGED <<world, cl>>
    BY <1>2 DEF LateWrite
  <2>2. MaxLost # 0 /\ MaxLost' # 0
    BY <2>1 DEF SweepInv, MaxLost
  <2>3. \A k \in Key : Own(LockOf(blob'[k]))
    BY <2>1, LandNames DEF StoreInv, SweepInv
  <2> QED BY <2>2, <2>3 DEF SweepInv
<1>3. ASSUME NEW c \in Client, NEW req, NEW ks, Start(c, req, ks),
             c \in Run /\ req.kind = "unlock" => ks = {k \in Key : blob[k] # Absent}
      PROVE  SweepInv'
  <2>1. PICK x : x = [pc |-> "read", req |-> req, todo |-> ks, tries |-> 0, missed |-> FALSE]
    OBVIOUS
  <2>2. cl' = [cl EXCEPT ![c] = x] /\ UNCHANGED <<blob, world, lost>>
    BY <1>3, <2>1 DEF Start
  <2>3. x # Gone /\ x.pc = "read" /\ x.req = req /\ x.todo = ks
    BY <2>1 DEF Gone
  <2>4. ASSUME c \in Run PROVE Clear(c, x, blob)
    <3>1. CASE req.kind # "unlock"
      BY <2>3, <3>1, ElsewhereClear
    <3>2. CASE req.kind = "unlock"
      <4>1. \A k \in Key \ ks : LockOf(blob[k]) = NewLock
        BY <1>3, <2>4, <3>2 DEF LockOf
      <4> QED BY <2>3, <4>1, NewLockNames DEF Clear
    <3> QED BY <3>1, <3>2
  <2> QED BY <2>2, <2>4, QuietSweep
<1>4. ASSUME NEW c \in Client, CallOne(c) \/ CallAll(c) PROVE SweepInv'
  BY <1>3, <1>4 DEF CallOne, CallAll
<1>5. ASSUME NEW c \in Client, Read(c) PROVE SweepInv'
  <2>1. PICK k \in cl[c].todo :
          cl' = [cl EXCEPT ![c] =
                   IF Transition(cl[c].req, LockOf(blob[k]), Clock(c)).write
                   THEN [pc |-> "put", req |-> cl[c].req, todo |-> cl[c].todo,
                         tries |-> cl[c].tries, missed |-> cl[c].missed, key |-> k,
                         snap |-> blob[k], at |-> Clock(c)]
                   ELSE Advance(c, k, cl[c].missed)]
    BY <1>5 DEF Read
  <2>2. cl[c].pc = "read" /\ UNCHANGED <<blob, world, lost>>
    BY <1>5 DEF Read
  <2>3. PICK l, out : l = LockOf(blob[k]) /\ out = Transition(cl[c].req, l, Clock(c))
    OBVIOUS
  <2>4. PICK put : put = [pc |-> "put", req |-> cl[c].req, todo |-> cl[c].todo,
                          tries |-> cl[c].tries, missed |-> cl[c].missed, key |-> k,
                          snap |-> blob[k], at |-> Clock(c)]
    OBVIOUS
  <2>5. CASE out.write
    <3>1. cl' = [cl EXCEPT ![c] = put]
      BY <2>1, <2>3, <2>4, <2>5
    <3>2. /\ put # Gone /\ put.req = cl[c].req /\ put.todo = cl[c].todo
          /\ put.missed = cl[c].missed
      BY <2>4 DEF Gone
    <3>3. MaxLost = 0 /\ c \in Run => Clear(c, put, blob)
      BY <2>2, <3>2 DEF SweepInv, Clear
    <3> QED BY <2>2, <3>1, <3>3, QuietSweep
  <2>6. CASE ~out.write
    <3>1. PICK x : x = Advance(c, k, cl[c].missed)
      OBVIOUS
    <3>2. cl' = [cl EXCEPT ![c] = x]
      BY <2>1, <2>3, <2>6, <3>1
    <3>3. ASSUME MaxLost = 0, c \in Run PROVE Clear(c, x, blob)
      <4>1. /\ cl[c].req \in A!Requests(c) /\ k \in Key /\ LockOK(l) /\ Own(l) /\ Clock(c) \in Nat
            /\ Clear(c, cl[c], blob)
        <5>1. cl[c].req \in A!Requests(c) /\ k \in Key
          BY <2>1, <2>2 DEF StoreInv, CallOK
        <5>2. Clock(c) \in Nat
          BY DEF StoreInv, Clock
        <5>3. LockOK(l) /\ Own(l)
          BY <2>3, <5>1, LockOfOK DEF StoreInv, SweepInv
        <5>4. Clear(c, cl[c], blob)
          BY <3>3 DEF SweepInv
        <5> QED BY <5>1, <5>2, <5>3, <5>4
      <4>2. cl[c].req.kind = "unlock" => ~Names(l, c)
        BY <2>3, <2>6, <3>3, <4>1, SweptLock
      <4> QED BY <2>2, <2>3, <3>1, <3>3, <4>1, <4>2, AdvanceClear
    <3> QED BY <2>2, <3>2, <3>3, QuietSweep
  <2> QED BY <2>5, <2>6
<1>6. ASSUME NEW c \in Client, PassOver(c) PROVE SweepInv'
  <2>1. PICK k \in cl[c].todo : cl' = [cl EXCEPT ![c] = Advance(c, k, c \in Run)]
    BY <1>6 DEF PassOver
  <2>2. cl[c].pc = "read" /\ UNCHANGED <<blob, world, lost>>
    BY <1>6 DEF PassOver
  <2>3. MaxLost = 0 /\ c \in Run => Clear(c, Advance(c, k, c \in Run), blob)
    BY <2>2, AdvanceClear DEF SweepInv
  <2> QED BY <2>1, <2>2, <2>3, QuietSweep
<1>7. ASSUME NEW c \in Client, PutOK(c) PROVE SweepInv'
  <2>1. /\ cl[c].pc = "put" /\ Land(Write(c)) /\ UNCHANGED <<world, lost>>
        /\ cl' = [cl EXCEPT ![c] = Advance(c, cl[c].key, cl[c].missed)]
    BY <1>7 DEF PutOK
  <2>2. MaxLost = 0 /\ c \in Run => Clear(c, Advance(c, cl[c].key, cl[c].missed), blob')
    BY <2>1, OwnWriteClear, AdvanceClear
  <2> QED BY <2>1, <2>2, LandedSweep
<1>8. ASSUME NEW c \in Client, PutRepeated(c) PROVE SweepInv'
  <2>1. /\ cl[c].pc = "put" /\ Land(Write(c)) /\ UNCHANGED <<world, lost>>
        /\ cl' = [cl EXCEPT ![c] = Retry(c)]
    BY <1>8 DEF PutRepeated
  <2>2. MaxLost = 0 /\ c \in Run => Clear(c, Retry(c), blob')
    BY <2>1, OwnWriteClear, RetryClear
  <2> QED BY <2>1, <2>2, LandedSweep
<1>9. ASSUME NEW c \in Client, PutConflict(c) PROVE SweepInv'
  <2>1. MaxLost = 0 /\ c \in Run => Clear(c, Retry(c), blob)
    BY <1>9, RetryClear DEF PutConflict, SweepInv
  <2> QED BY <1>9, <2>1, QuietSweep DEF PutConflict
<1>10. ASSUME NEW c \in Client, PutLost(c) PROVE SweepInv'
  <2>1. cl' = [cl EXCEPT ![c] = Abort(c)] /\ UNCHANGED <<blob, world>>
    BY <1>10 DEF PutLost
  <2>2. MaxLost # 0
    BY <1>10, FS_EmptySet DEF PutLost, SweepInv
  <2> QED BY <2>1, <2>2, AbortClear, QuietSweep
<1>11. ASSUME NEW c \in Client, CallFails(c) PROVE SweepInv'
  BY <1>11, AbortClear, QuietSweep DEF CallFails
<1> QED BY <1>1, <1>2, <1>4, <1>5, <1>6, <1>7, <1>8, <1>9, <1>10, <1>11 DEF Next, Tick, vars

(* A run whose final sweep succeeded and could read every lock appears in    *)
(* none afterwards (UnlockPRAll), whatever the other processes write while   *)
(* it walks the locks, if no write arrives after its caller gave up on it.   *)
(* Locks left in the bucket may name any run as one of its pull request.     *)
THEOREM SweepsClean ==
  ASSUME SeedsAreOwn
  PROVE  Spec => []SweptClean
<1>1. SweepInv => SweptClean
  BY DEF SweepInv, Clear, SweptClean, MaxLost, Names
<1>2. Init => StoreInv /\ SweepInv
  BY StoreInit, SweepInit
<1>3. StoreInv /\ SweepInv /\ [Next]_vars => (StoreInv /\ SweepInv)'
  BY StoreNext, SweepNext
<1> QED BY <1>1, <1>2, <1>3, PTL DEF Spec

=============================================================================
