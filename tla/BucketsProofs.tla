---------------------------- MODULE BucketsProofs ----------------------------
(***************************************************************************)
(* Proofs about Buckets: a conditional write replaces what it was compared *)
(* with, retention deletes what it listed, and the verdicts of the probes  *)
(* are true.                                                               *)
(***************************************************************************)
EXTENDS Buckets, FiniteSetTheorems, TLAPS

Fields == {"pc", "n", "base", "exp", "seen", "num", "paths", "fd", "probe", "dprobe"}

Numbers ==
  /\ writes \in Nat
  /\ body \in [Key -> 0..writes]
  /\ ver \in [Key -> 0..writes]

-----------------------------------------------------------------------------
(* On a filesystem. *)

(* The lock file of a shard or a key: there is none, or there is one for     *)
(* good.                                                                     *)
Unmade == [ino |-> 0, linked |-> FALSE]
Made   == [ino |-> 1, linked |-> TRUE]

ShardPath(c) == <<"shard", Shard[KeyOf(c)]>>
Grip(c) == [path |-> ShardPath(c), ino |-> 1, by |-> c]

(* Steps for which the shard of the key is locked. *)
Inside == {"inspect", "write", "rename", "remove", "forget"}

(* Retention has listed the object and not yet looked at it again. *)
Listed(c, r) == Role(c) = "prune" /\ r.pc \in {"lock", "flock", "inspect"}

(* The version in hand is that of the contents in hand. *)
Tells(r, k) == body[k] # 0 /\ ver[k] = r.exp => body[k] = r.base

FSCallerOK(c, r) ==
  LET k == KeyOf(c) IN
  /\ DOMAIN r = Fields
  /\ r.pc \in {"begin", "done", "read", "version", "list", "lock", "flock"} \cup Inside
  /\ r.pc \in {"read", "version"} => Role(c) = "mutate"
  /\ r.pc = "list" => Role(c) = "prune"
  /\ Role(c) = "create" => r.exp = 0
  /\ r.pc \in {"lock", "flock"} =>
       r.paths \in {<<ShardPath(c)>>, <<<<"legacy", k>>, ShardPath(c)>>}
  /\ r.pc = "flock" => r.fd = 1 /\ node[Head(r.paths)] = Made
  /\ r.pc \in Inside => Grip(c) \in held
  /\ r.pc \in {"write", "rename", "remove"} => r.seen = body[k]
  /\ r.pc \in {"write", "rename"} => Role(c) \notin {"delete", "prune"}
  /\ r.pc = "remove" => Role(c) \in {"delete", "prune"}
  /\ r.pc \in {"write", "rename"} /\ Role(c) = "create" => r.seen = 0
  /\ r.pc = "rename" => r.num = ver[k] /\ r.num # 0
  /\ r.pc = "forget" => body[k] = 0
  /\ Listed(c, r) => /\ r.exp \in Int /\ r.exp # 0 /\ r.exp <= writes
                     /\ r.exp < 0 => r.exp = -r.base
                     /\ r.base \in Nat
                     /\ Tells(r, k)
  /\ r.pc = "remove" /\ Role(c) = "prune" => r.base = r.seen

(* No listing names the version of a write that is not finished. *)
RenameFresh ==
  \A c, d \in Client :
    cl[c].pc = "rename" /\ Listed(d, cl[d]) /\ KeyOf(c) = KeyOf(d) => cl[d].exp # cl[c].num

LocksOK ==
  /\ node \in [Paths -> {Unmade, Made}]
  /\ \A h \in held : /\ h.path \in Paths /\ h.ino = 1 /\ node[h.path] = Made
                     /\ h = [path |-> h.path, ino |-> 1, by |-> h.by]
  /\ \A h, g \in held : h.path = g.path => h = g

FSInv ==
  Local => LocksOK /\ RenameFresh /\ \A c \in Client : FSCallerOK(c, cl[c])

-----------------------------------------------------------------------------
(* In a cloud. *)

(* The provider gives every write a version of its own. *)
Distinct == Store.etag \notin {"none", "same"}

CloudCallerOK(c, r) ==
  LET k == KeyOf(c) IN
  /\ DOMAIN r = Fields
  /\ r.pc \in {"begin", "done", "read", "call"}
  /\ r.pc = "read" => Role(c) = "mutate"
  /\ r.pc \in {"read", "call"} /\ Role(c) \in {"mutate", "create"} => r.probe = "enforced"
  /\ r.probe = "enforced" => Store.create /\ Store.update /\ Distinct
  /\ r.probe = "unsupported" => ~Store.create \/ ~Store.update \/ ~Distinct
  /\ r.dprobe = "enforced" => Store.delete /\ Distinct
  /\ Role(c) = "create" => r.exp = 0
  /\ r.pc = "call" /\ Role(c) \in {"mutate", "prune"} /\ Distinct =>
       /\ r.exp \in Nat /\ r.exp <= writes
       /\ r.exp = 0 => r.base = 0
       /\ ver[k] = r.exp => body[k] = r.base

CloudInv ==
  ~Local => /\ \A c \in Client : CloudCallerOK(c, cl[c])
            /\ Distinct => \A k \in Key : ver[k] = 0 <=> body[k] = 0

IInv ==
  /\ world \in Worlds /\ cl = [c \in Client |-> cl[c]]
  /\ Numbers /\ FSInv /\ CloudInv

-----------------------------------------------------------------------------
LEMMA WorldFacts ==
  ASSUME world \in Worlds
  PROVE  /\ \A c \in Client : /\ Role(c) \in {"mutate", "create", "put", "delete", "prune"}
                              /\ KeyOf(c) \in Key
                              /\ ShardPath(c) \in Paths /\ <<"legacy", KeyOf(c)>> \in Paths
         /\ ~Local => Store.adapter \in {"s3", "gcs", "azblob"}
         /\ Store.adapter \in {"gcs", "azblob"} => Store.delete /\ Store.etag = "fresh"
<1>1. \A c \in Client : /\ Role(c) \in {"mutate", "create", "put", "delete", "prune"}
                        /\ KeyOf(c) \in Key
  BY WorldsAssumption DEF Role, KeyOf
<1>2. \A c \in Client : ShardPath(c) \in Paths /\ <<"legacy", KeyOf(c)>> \in Paths
  BY <1>1 DEF ShardPath, Paths
<1> QED BY <1>1, <1>2, WorldsAssumption DEF Local, Store

LEMMA CallerFields ==
  /\ DOMAIN Caller = Fields /\ Caller.pc = "begin" /\ Caller.exp = 0 /\ Caller.base = 0
  /\ Caller.probe = "unknown" /\ Caller.dprobe = "unknown"
BY DEF Caller, Fields

(* Between operations there is nothing to tell. *)
LEMMA RestingOK ==
  ASSUME NEW c \in Client, NEW r, DOMAIN r = Fields, r.pc \in {"begin", "done"}, r.exp = 0
  PROVE  FSCallerOK(c, r)
BY DEF FSCallerOK, Inside, Listed

LEMMA InitOK == Init => IInv
<1> SUFFICES ASSUME Init PROVE IInv
  OBVIOUS
<1>1. PICK w \in Worlds : BucketInit(w)
  BY DEF Init
<1>2. /\ world = w /\ body = w.body /\ ver = w.ver /\ writes = Cardinality(Key)
      /\ cl = [c \in Client |-> IF c \in w.callers THEN Caller ELSE [Caller EXCEPT !.pc = "done"]]
      /\ node = [p \in Paths |-> [ino |-> 0, linked |-> FALSE]] /\ held = {}
  BY <1>1 DEF BucketInit, Init, FSInit
<1>3. Numbers
  BY <1>2, KeyAssumption, FS_CardinalityType, WorldsAssumption DEF Numbers
<1>4. \A c \in Client : /\ DOMAIN cl[c] = Fields /\ cl[c].pc \in {"begin", "done"} /\ cl[c].exp = 0
                        /\ cl[c].probe = "unknown" /\ cl[c].dprobe = "unknown"
  BY <1>2, CallerFields DEF Fields
<1>5. FSInv
  <2>1. \A c \in Client : FSCallerOK(c, cl[c])
    BY <1>4, RestingOK
  <2>2. LocksOK
    BY <1>2 DEF LocksOK, Unmade, Made
  <2> QED BY <1>4, <2>1, <2>2 DEF FSInv, RenameFresh
<1>6. CloudInv
  <2>1. \A c \in Client : CloudCallerOK(c, cl[c])
    BY <1>4 DEF CloudCallerOK
  <2> QED BY <1>2, <2>1, WorldsAssumption DEF CloudInv, Distinct, Store, Local
<1> QED BY <1>2, <1>3, <1>5, <1>6 DEF IInv

-----------------------------------------------------------------------------
(* Locks exclude: of the callers inside the lock of a shard there is one for *)
(* each key.                                                                 *)
LEMMA Exclusive ==
  ASSUME IInv, Local, NEW c \in Client, NEW d \in Client,
         cl[c].pc \in Inside, cl[d].pc \in Inside, KeyOf(c) = KeyOf(d)
  PROVE  c = d
<1>1. Grip(c) \in held /\ Grip(d) \in held
  BY DEF IInv, FSInv, FSCallerOK
<1>2. Grip(c).path = Grip(d).path
  BY DEF Grip, ShardPath
<1>3. Grip(c) = Grip(d)
  BY <1>1, <1>2 DEF IInv, FSInv, LocksOK
<1> QED BY <1>3 DEF Grip

(* What a step of a caller may do to the others. *)
Careful(c) ==
  /\ UNCHANGED world
  /\ \A d \in Client : d # c => cl'[d] = cl[d]
  /\ \A h \in held : h.by # c => h \in held'
  /\ \A p \in Paths : node[p] = Made => node'[p] = Made
  /\ writes' \in Nat /\ writes <= writes'
  /\ \A k \in Key : (k = KeyOf(c) /\ cl[c].pc \in Inside) \/ (body'[k] = body[k] /\ ver'[k] = ver[k])
  /\ \A d \in Client : d # c /\ Listed(d, cl[d]) /\ KeyOf(d) = KeyOf(c) =>
       \/ body'[KeyOf(c)] = body[KeyOf(c)] /\ ver'[KeyOf(c)] = ver[KeyOf(c)]
       \/ body'[KeyOf(c)] = 0
       \/ ver'[KeyOf(c)] # cl[d].exp

LEMMA OthersOK ==
  ASSUME IInv, Local, NEW c \in Client, Careful(c), NEW d \in Client, d # c
  PROVE  FSCallerOK(d, cl[d])'
<1> DEFINE r == cl[d]
           k == KeyOf(d)
<1>1. /\ FSCallerOK(d, r) /\ k \in Key /\ r' = r /\ k' = k /\ Role(d)' = Role(d)
      /\ ShardPath(d)' = ShardPath(d) /\ Grip(d)' = Grip(d) /\ Grip(d).by = d
      /\ writes \in Nat
  BY WorldFacts DEF IInv, FSInv, Careful, KeyOf, Role, ShardPath, Grip, Numbers
<1>2. r.pc \in Inside => body'[k] = body[k] /\ ver'[k] = ver[k]
  BY <1>1, Exclusive DEF Careful
<1>3. r.pc \in Inside => Grip(d) \in held'
  BY <1>1 DEF FSCallerOK, Careful
<1>4. Listed(d, r) => Tells(r, k)'
  <2>1. CASE body'[k] = body[k] /\ ver'[k] = ver[k]
    BY <1>1, <2>1 DEF FSCallerOK, Tells
  <2>2. CASE ~ (body'[k] = body[k] /\ ver'[k] = ver[k])
    BY <1>1, <2>2 DEF Careful, Tells
  <2> QED BY <2>1, <2>2
<1>5. r.pc = "flock" => node'[Head(r.paths)] = Made
  <2> SUFFICES ASSUME r.pc = "flock" PROVE node'[Head(r.paths)] = Made
    OBVIOUS
  <2>1. Head(r.paths) \in Paths
    <3>1. r.paths = <<ShardPath(d)>> \/ r.paths = <<<<"legacy", k>>, ShardPath(d)>>
      BY <1>1 DEF FSCallerOK
    <3>2. Head(r.paths) \in {ShardPath(d), <<"legacy", k>>}
      BY <3>1
    <3> QED BY <3>2, WorldFacts DEF IInv
  <2> QED BY <1>1, <2>1 DEF FSCallerOK, Careful
<1>6. Listed(d, r)' <=> Listed(d, r)
  BY <1>1 DEF Listed
<1>7. writes <= writes' /\ writes' \in Nat
  BY DEF Careful
<1> HIDE DEF r, k
<1>8. Listed(d, r) => r.exp \in Int /\ r.exp <= writes'
  BY <1>1, <1>7 DEF FSCallerOK
<1> QED BY <1>1, <1>2, <1>3, <1>4, <1>5, <1>6, <1>8 DEF FSCallerOK, Inside, k, r

LEMMA FSStep ==
  ASSUME IInv, Local, NEW c \in Client, NEW rec, cl' = [cl EXCEPT ![c] = rec], Careful(c),
         Numbers', LocksOK', FSCallerOK(c, rec)',
         rec.pc = "rename" => \A d \in Client : d # c /\ Listed(d, cl[d]) /\ KeyOf(c) = KeyOf(d) =>
                                                  cl[d].exp # rec.num,
         Listed(c, rec) => \/ Listed(c, cl[c]) /\ rec.exp = cl[c].exp
                           \/ \A d \in Client : d # c /\ cl[d].pc = "rename" => KeyOf(c) # KeyOf(d)
  PROVE  IInv'
<1>1. /\ cl'[c] = rec /\ cl' = [d \in Client |-> cl'[d]]
      /\ \A d \in Client : d # c => cl'[d] = cl[d]
  BY DEF IInv
<1>2. /\ world' = world /\ \A d \in Client : KeyOf(d)' = KeyOf(d) /\ Role(d)' = Role(d)
  BY DEF Careful, KeyOf, Role
<1>3. \A d \in Client : FSCallerOK(d, cl[d])'
  <2> SUFFICES ASSUME NEW d \in Client PROVE FSCallerOK(d, cl[d])'
    OBVIOUS
  <2>1. CASE d = c
    BY <1>1, <2>1
  <2>2. CASE d # c
    BY <2>2, OthersOK
  <2> QED BY <2>1, <2>2
<1>4. RenameFresh'
  <2> SUFFICES ASSUME NEW a \in Client, NEW d \in Client, cl'[a].pc = "rename",
                      Listed(d, cl'[d]), KeyOf(a) = KeyOf(d)
               PROVE  cl'[d].exp # cl'[a].num
    BY <1>2 DEF RenameFresh, Listed
  <2>1. a # d
    BY DEF Listed
  <2>2. CASE a # c /\ d # c
    BY <1>1, <2>2 DEF IInv, FSInv, RenameFresh
  <2>3. CASE a = c
    BY <1>1, <2>1, <2>3
  <2>4. CASE d = c
    BY <1>1, <2>1, <2>4 DEF IInv, FSInv, RenameFresh
  <2> QED BY <2>2, <2>3, <2>4
<1>5. FSInv' /\ CloudInv'
  BY <1>2, <1>3, <1>4 DEF FSInv, CloudInv, Local
<1> QED BY <1>1, <1>2, <1>5 DEF IInv

(* A step that writes no object. *)
LEMMA ReadOnlyIsCareful ==
  ASSUME IInv, NEW c \in Client, NEW rec, cl' = [cl EXCEPT ![c] = rec],
         UNCHANGED <<world, body, ver, writes>>,
         \A h \in held : h.by # c => h \in held',
         \A p \in Paths : node[p] = Made => node'[p] = Made
  PROVE  Careful(c) /\ Numbers'
<1>1. \A d \in Client : d # c => cl'[d] = cl[d]
  BY DEF IInv
<1> QED BY <1>1 DEF Careful, IInv, Numbers

LEMMA ReleaseFacts ==
  ASSUME IInv, Local, NEW c \in Client, held' = {h \in held : h.by # c}, UNCHANGED node
  PROVE  /\ LocksOK'
         /\ \A h \in held : h.by # c => h \in held'
         /\ \A p \in Paths : node[p] = Made => node'[p] = Made
BY DEF IInv, FSInv, LocksOK

(* The record of an operation that has returned. *)
LEMMA ReturnFacts ==
  ASSUME NEW c \in Client, Return(c)
  PROVE  \E rec : /\ cl' = [cl EXCEPT ![c] = rec] /\ DOMAIN rec = Fields
                  /\ rec.pc \in {"begin", "done"} /\ rec.exp = 0
                  /\ rec.probe = cl[c].probe /\ rec.dprobe = cl[c].dprobe
<1> DEFINE pc == IF cl[c].n = 1 THEN "done" ELSE "begin"
           rec == [Caller EXCEPT !.pc = pc, !.n = cl[c].n - 1,
                                 !.probe = cl[c].probe, !.dprobe = cl[c].dprobe]
<1>1. cl' = [cl EXCEPT ![c] = rec]
  BY DEF Return, Set
<1>2. pc \in {"begin", "done"}
  OBVIOUS
<1>3. /\ DOMAIN rec = Fields /\ rec.pc = pc /\ rec.exp = 0
      /\ rec.probe = cl[c].probe /\ rec.dprobe = cl[c].dprobe
  <2> HIDE DEF pc
  <2> QED BY CallerFields DEF Fields
<1> HIDE DEF rec
<1> QED BY <1>1, <1>2, <1>3

(* An operation on a filesystem returns. *)
LEMMA FSReturn ==
  ASSUME IInv, Local, NEW c \in Client, Return(c), Careful(c), Numbers', LocksOK'
  PROVE  IInv'
<1>1. PICK rec : /\ cl' = [cl EXCEPT ![c] = rec] /\ DOMAIN rec = Fields
                 /\ rec.pc \in {"begin", "done"} /\ rec.exp = 0
  BY ReturnFacts
<1>2. FSCallerOK(c, rec)'
  BY <1>1 DEF FSCallerOK, Inside, Listed
<1>3. ~Listed(c, rec) /\ rec.pc # "rename"
  BY <1>1 DEF Listed
<1> QED BY <1>1, <1>2, <1>3, FSStep

-----------------------------------------------------------------------------
LEMMA LockPathsFacts ==
  ASSUME NEW c \in Client
  PROVE  LockPaths(c) \in {<<ShardPath(c)>>, <<<<"legacy", KeyOf(c)>>, ShardPath(c)>>}
BY DEF LockPaths, ShardPath

(* A step of a caller that leaves objects and locks alone. *)
LEMMA FSQuiet ==
  ASSUME IInv, Local, NEW c \in Client, NEW rec, cl' = [cl EXCEPT ![c] = rec],
         UNCHANGED <<world, body, ver, writes, node, held>>,
         FSCallerOK(c, rec), rec.pc # "rename",
         Listed(c, rec) => \A d \in Client : d # c /\ cl[d].pc = "rename" => KeyOf(c) # KeyOf(d)
  PROVE  IInv'
<1>1. Careful(c) /\ Numbers' /\ LocksOK'
  BY ReadOnlyIsCareful DEF IInv, FSInv, LocksOK
<1>2. FSCallerOK(c, rec)'
  BY DEF FSCallerOK, Inside, Listed, Tells, KeyOf, Role, ShardPath, Grip
<1> QED BY <1>1, <1>2, FSStep

LEMMA FSQuietReturn ==
  ASSUME IInv, Local, NEW c \in Client, Return(c),
         UNCHANGED <<world, body, ver, writes, node, held>>
  PROVE  IInv'
<1>1. Careful(c) /\ Numbers' /\ LocksOK'
  BY ReturnFacts, ReadOnlyIsCareful DEF IInv, FSInv, LocksOK
<1> QED BY <1>1, FSReturn

LEMMA FSBeginOK ==
  ASSUME IInv, NEW c \in Client, FSBegin(c)
  PROVE  IInv'
<1>0. PICK pc, paths :
        /\ pc = CASE Role(c) = "mutate" -> "read" [] Role(c) = "prune" -> "list"
                  [] OTHER -> "lock"
        /\ paths = IF Role(c) \in {"mutate", "prune"} THEN << >> ELSE LockPaths(c)
  OBVIOUS
<1>1. PICK rec : rec = [cl[c] EXCEPT !.pc = pc, !.paths = paths]
  OBVIOUS
<1>2. /\ Local /\ FSCallerOK(c, cl[c]) /\ cl[c].pc = "begin"
      /\ UNCHANGED <<world, body, ver, writes, node, held>>
  BY DEF FSBegin, FSAt, locks, IInv, FSInv
<1>3. cl' = [cl EXCEPT ![c] = rec]
  BY <1>0, <1>1 DEF FSBegin, Set
<1>4. /\ Role(c) = "mutate" => pc = "read"
      /\ Role(c) = "prune" => pc = "list"
      /\ Role(c) \notin {"mutate", "prune"} =>
           pc = "lock" /\ paths \in {<<ShardPath(c)>>, <<<<"legacy", KeyOf(c)>>, ShardPath(c)>>}
  BY <1>0, LockPathsFacts
<1>5. /\ DOMAIN rec = Fields /\ rec.pc = pc /\ rec.paths = paths /\ rec.exp = cl[c].exp
  BY <1>1, <1>2 DEF FSCallerOK, Fields
<1>6. FSCallerOK(c, rec) /\ ~Listed(c, rec) /\ rec.pc # "rename"
  BY <1>2, <1>4, <1>5 DEF FSCallerOK, Inside, Listed
<1> QED BY <1>2, <1>3, <1>6, FSQuiet

LEMMA FSOpenOK ==
  ASSUME IInv, NEW c \in Client, FSOpen(c)
  PROVE  IInv'
<1>0. PICK pc, paths, base :
        /\ pc = IF body[KeyOf(c)] = 0 THEN "lock" ELSE "version"
        /\ paths = IF body[KeyOf(c)] = 0 THEN LockPaths(c) ELSE << >>
        /\ base = body[KeyOf(c)]
  OBVIOUS
<1>1. PICK rec : rec = [cl[c] EXCEPT !.pc = pc, !.base = base, !.paths = paths]
  OBVIOUS
<1>2. /\ Local /\ FSCallerOK(c, cl[c]) /\ cl[c].pc = "read" /\ Role(c) = "mutate"
      /\ UNCHANGED <<world, body, ver, writes, node, held>>
  BY DEF FSOpen, FSAt, locks, IInv, FSInv, FSCallerOK
<1>3. CASE Return(c)
  BY <1>2, <1>3, FSQuietReturn
<1>4. CASE ~Return(c)
  <2>1. cl' = [cl EXCEPT ![c] = rec]
    BY <1>0, <1>1, <1>4 DEF FSOpen, Set
  <2>2. /\ pc = "version" \/ pc = "lock"
        /\ pc = "lock" => paths \in {<<ShardPath(c)>>, <<<<"legacy", KeyOf(c)>>, ShardPath(c)>>}
    BY <1>0, LockPathsFacts
  <2>3. /\ DOMAIN rec = Fields /\ rec.pc = pc /\ rec.paths = paths /\ rec.exp = cl[c].exp
    BY <1>1, <1>2 DEF FSCallerOK, Fields
  <2>4. FSCallerOK(c, rec) /\ ~Listed(c, rec) /\ rec.pc # "rename"
    BY <1>2, <2>2, <2>3 DEF FSCallerOK, Inside, Listed
  <2> QED BY <1>2, <2>1, <2>4, FSQuiet
<1> QED BY <1>3, <1>4

LEMMA FSVersionOK ==
  ASSUME IInv, NEW c \in Client, FSVersion(c)
  PROVE  IInv'
<1>1. PICK rec : rec = [cl[c] EXCEPT !.pc = "lock", !.exp = VersionOf(KeyOf(c), cl[c].base),
                                     !.paths = LockPaths(c)]
  OBVIOUS
<1>2. /\ Local /\ FSCallerOK(c, cl[c]) /\ cl[c].pc = "version" /\ Role(c) = "mutate"
      /\ UNCHANGED <<world, body, ver, writes, node, held>>
  BY DEF FSVersion, FSAt, locks, IInv, FSInv, FSCallerOK
<1>3. CASE Return(c)
  BY <1>2, <1>3, FSQuietReturn
<1>4. CASE ~Return(c)
  <2>1. cl' = [cl EXCEPT ![c] = rec]
    BY <1>1, <1>4 DEF FSVersion, Set
  <2>2. /\ DOMAIN rec = Fields /\ rec.pc = "lock" /\ rec.paths = LockPaths(c)
    BY <1>1, <1>2 DEF FSCallerOK, Fields
  <2>3. FSCallerOK(c, rec) /\ ~Listed(c, rec) /\ rec.pc # "rename"
    BY <1>2, <2>2, LockPathsFacts DEF FSCallerOK, Inside, Listed
  <2> QED BY <1>2, <2>1, <2>3, FSQuiet
<1> QED BY <1>3, <1>4

(* A listing sees the object under the lock of its shard: nobody is in the   *)
(* middle of a write of it.                                                  *)
LEMMA FSListOK ==
  ASSUME IInv, NEW c \in Client, FSList(c)
  PROVE  IInv'
<1> DEFINE k == KeyOf(c)
<1>1. PICK rec : rec = [cl[c] EXCEPT !.pc = "lock", !.base = body[k],
                                     !.exp = VersionOf(k, body[k]), !.paths = LockPaths(c)]
  OBVIOUS
<1>2. /\ Local /\ FSCallerOK(c, cl[c]) /\ cl[c].pc = "list" /\ Role(c) = "prune" /\ k \in Key
      /\ ShardFree(k) /\ Numbers
      /\ UNCHANGED <<world, body, ver, writes, node, held>>
  BY WorldFacts DEF FSList, FSAt, locks, IInv, FSInv, FSCallerOK
<1>3. CASE body[k] = 0
  BY <1>2, <1>3, FSQuietReturn DEF FSList
<1>4. CASE body[k] # 0
  <2>1. cl' = [cl EXCEPT ![c] = rec]
    BY <1>1, <1>4 DEF FSList, Set
  <2>2. /\ DOMAIN rec = Fields /\ rec.pc = "lock" /\ rec.paths = LockPaths(c)
        /\ rec.base = body[k] /\ rec.exp = VersionOf(k, body[k])
    BY <1>1, <1>2 DEF FSCallerOK, Fields
  <2>3. body[k] \in Nat /\ body[k] <= writes /\ ver[k] \in Nat /\ ver[k] <= writes /\ writes \in Nat
    BY <1>2 DEF Numbers
  <2>4. /\ rec.exp \in Int /\ rec.exp # 0 /\ rec.exp <= writes /\ rec.base \in Nat
        /\ rec.exp < 0 => rec.exp = -rec.base
        /\ Tells(rec, k)
    BY <1>4, <2>2, <2>3 DEF VersionOf, Tells
  <2>5. FSCallerOK(c, rec) /\ rec.pc # "rename"
    BY <1>2, <2>2, <2>4, LockPathsFacts DEF FSCallerOK, Inside, Listed
  <2>6. \A d \in Client : d # c /\ cl[d].pc = "rename" => KeyOf(c) # KeyOf(d)
    <3> SUFFICES ASSUME NEW d \in Client, cl[d].pc = "rename", KeyOf(d) = k PROVE FALSE
      OBVIOUS
    <3>1. Grip(d) \in held
      BY <1>2 DEF IInv, FSInv, FSCallerOK, Inside
    <3>2. Grip(d).path = <<"shard", Shard[k]>> /\ Grip(d).ino = 1 /\ node[Grip(d).path].ino = 1
      BY <1>2, <3>1 DEF Grip, ShardPath, IInv, FSInv, LocksOK, Made
    <3> QED BY <1>2, <3>1, <3>2 DEF ShardFree
  <2> QED BY <1>2, <2>1, <2>5, <2>6, FSQuiet
<1> QED BY <1>3, <1>4

-----------------------------------------------------------------------------
(* Taking the locks. *)

LEMMA PathFacts ==
  ASSUME IInv, Local, NEW c \in Client, cl[c].pc \in {"lock", "flock"}
  PROVE  LET ps == cl[c].paths IN
         /\ Head(ps) \in Paths
         /\ Len(ps) = 1 => Head(ps) = ShardPath(c)
         /\ Len(ps) # 1 => Tail(ps) = <<ShardPath(c)>>
<1> DEFINE ps == cl[c].paths
<1>1. ps = <<ShardPath(c)>> \/ ps = <<<<"legacy", KeyOf(c)>>, ShardPath(c)>>
  BY DEF IInv, FSInv, FSCallerOK
<1>2. ShardPath(c) \in Paths /\ <<"legacy", KeyOf(c)>> \in Paths
  BY WorldFacts DEF IInv
<1> HIDE DEF ps
<1>3. CASE ps = <<ShardPath(c)>>
  <2>1. Head(ps) = ShardPath(c) /\ Len(ps) = 1
    BY <1>3
  <2> QED BY <1>2, <2>1 DEF ps
<1>4. CASE ps = <<<<"legacy", KeyOf(c)>>, ShardPath(c)>>
  <2>1. Head(ps) = <<"legacy", KeyOf(c)>> /\ Len(ps) = 2 /\ Tail(ps) = <<ShardPath(c)>>
    BY <1>4
  <2> QED BY <1>2, <2>1 DEF ps
<1> QED BY <1>1, <1>3, <1>4

LEMMA FSOpenLockOK ==
  ASSUME IInv, NEW c \in Client, FSOpenLock(c)
  PROVE  IInv'
<1>0. PICK p, i : p = Head(cl[c].paths) /\ i = IF node[p].linked THEN node[p].ino ELSE node[p].ino + 1
  OBVIOUS
<1>1. PICK rec : rec = [cl[c] EXCEPT !.pc = "flock", !.fd = i]
  OBVIOUS
<1>2. /\ Local /\ FSCallerOK(c, cl[c]) /\ cl[c].pc = "lock"
      /\ UNCHANGED <<world, body, ver, writes, held>>
      /\ cl' = [cl EXCEPT ![c] = rec]
      /\ node' = [node EXCEPT ![p] = [ino |-> i, linked |-> TRUE]]
  BY <1>0, <1>1 DEF FSOpenLock, FSAt, Set, IInv, FSInv
<1>3. p \in Paths /\ LocksOK
  BY <1>0, <1>2, PathFacts DEF IInv, FSInv
<1>4. node[p] = Made \/ node[p] = Unmade
  BY <1>3 DEF LocksOK
<1>5. i = 1
  BY <1>0, <1>4 DEF Made, Unmade
<1>6. node' = [node EXCEPT ![p] = Made]
  BY <1>2, <1>5 DEF Made
<1>7. /\ node' \in [Paths -> {Unmade, Made}] /\ node'[p] = Made
      /\ \A q \in Paths : node[q] = Made => node'[q] = Made
  BY <1>3, <1>6 DEF LocksOK
<1>8. LocksOK'
  BY <1>2, <1>3, <1>7 DEF LocksOK
<1>9. Careful(c) /\ Numbers'
  BY <1>2, <1>7, ReadOnlyIsCareful
<1>10. /\ DOMAIN rec = Fields /\ rec.pc = "flock" /\ rec.fd = 1 /\ rec.paths = cl[c].paths
       /\ rec.exp = cl[c].exp /\ rec.base = cl[c].base
  BY <1>1, <1>2, <1>5 DEF FSCallerOK, Fields
<1>11. Listed(c, rec) <=> Listed(c, cl[c])
  BY <1>2, <1>10 DEF Listed
<1>12. FSCallerOK(c, rec)'
  BY <1>0, <1>2, <1>7, <1>10
     DEF FSCallerOK, Inside, Listed, Tells, KeyOf, Role, ShardPath, Grip
<1> QED BY <1>2, <1>8, <1>9, <1>10, <1>11, <1>12, FSStep

LEMMA FSFlockOK ==
  ASSUME IInv, NEW c \in Client, FSFlock(c)
  PROVE  IInv'
<1>0. PICK p, pc, rest : /\ p = Head(cl[c].paths) /\ rest = Tail(cl[c].paths)
                         /\ pc = IF Len(cl[c].paths) = 1 THEN "inspect" ELSE "lock"
  OBVIOUS
<1>1. PICK rec, new : /\ rec = [cl[c] EXCEPT !.pc = pc, !.paths = rest, !.fd = 0]
                      /\ new = [path |-> p, ino |-> 1, by |-> c]
  OBVIOUS
<1>2. /\ Local /\ FSCallerOK(c, cl[c]) /\ cl[c].pc = "flock"
      /\ UNCHANGED <<world, body, ver, writes, node>>
      /\ cl' = [cl EXCEPT ![c] = rec]
      /\ held' = held \cup {[path |-> p, ino |-> cl[c].fd, by |-> c]}
      /\ \A h \in held : <<h.path, h.ino>> # <<p, cl[c].fd>>
  BY <1>0, <1>1 DEF FSFlock, FSAt, Set, IInv, FSInv
<1>3. cl[c].fd = 1 /\ node[p] = Made /\ p \in Paths /\ LocksOK
  BY <1>0, <1>2, PathFacts DEF IInv, FSInv, FSCallerOK
<1>4. held' = held \cup {new} /\ \A h \in held : h.path # p
  BY <1>1, <1>2, <1>3 DEF LocksOK
<1>5. LocksOK'
  BY <1>1, <1>2, <1>3, <1>4 DEF LocksOK
<1>6. Careful(c) /\ Numbers'
  BY <1>2, <1>4, ReadOnlyIsCareful
<1>7. /\ DOMAIN rec = Fields /\ rec.pc = pc /\ rec.paths = rest
      /\ rec.exp = cl[c].exp /\ rec.base = cl[c].base
  BY <1>1, <1>2 DEF FSCallerOK, Fields
<1>8. /\ pc \in {"inspect", "lock"}
      /\ pc = "inspect" => p = ShardPath(c)
      /\ pc = "lock" => rest = <<ShardPath(c)>>
  BY <1>0, <1>2, PathFacts
<1>9. Listed(c, rec) <=> Listed(c, cl[c])
  BY <1>2, <1>7, <1>8 DEF Listed
<1>10. pc = "inspect" => Grip(c) \in held'
  BY <1>1, <1>4, <1>8 DEF Grip
<1>11. FSCallerOK(c, rec)'
  BY <1>2, <1>7, <1>8, <1>10
     DEF FSCallerOK, Inside, Listed, Tells, KeyOf, Role, ShardPath, Grip
<1> QED BY <1>2, <1>5, <1>6, <1>7, <1>8, <1>9, <1>11, FSStep

-----------------------------------------------------------------------------
(* Under the locks. *)

LEMMA FSReleaseReturn ==
  ASSUME IInv, Local, NEW c \in Client, Release(c), Return(c),
         UNCHANGED <<world, body, ver, writes>>
  PROVE  IInv'
<1>1. /\ LocksOK'
      /\ \A h \in held : h.by # c => h \in held'
      /\ \A p \in Paths : node[p] = Made => node'[p] = Made
  BY ReleaseFacts DEF Release
<1>2. Careful(c) /\ Numbers'
  BY <1>1, ReturnFacts, ReadOnlyIsCareful
<1> QED BY <1>1, <1>2, FSReturn

LEMMA FSReleaseLost ==
  ASSUME IInv, Local, NEW c \in Client, Release(c), Lost(c),
         UNCHANGED <<world, body, ver, writes>>
  PROVE  IInv'
<1>1. CASE Role(c) # "mutate"
  BY <1>1, FSReleaseReturn DEF Lost
<1>2. CASE Role(c) = "mutate"
  <2>1. PICK rec : rec = [cl[c] EXCEPT !.pc = "read", !.base = 0, !.exp = 0, !.seen = 0,
                                       !.paths = << >>, !.fd = 0]
    OBVIOUS
  <2>2. cl' = [cl EXCEPT ![c] = rec] /\ FSCallerOK(c, cl[c])
    BY <1>2, <2>1 DEF Lost, Set, IInv, FSInv
  <2>3. DOMAIN rec = Fields /\ rec.pc = "read"
    BY <2>1, <2>2 DEF FSCallerOK, Fields
  <2>4. FSCallerOK(c, rec)' /\ ~Listed(c, rec) /\ rec.pc # "rename"
    BY <1>2, <2>3 DEF FSCallerOK, Inside, Listed, Role
  <2>5. /\ LocksOK'
        /\ \A h \in held : h.by # c => h \in held'
        /\ \A p \in Paths : node[p] = Made => node'[p] = Made
    BY ReleaseFacts DEF Release
  <2>6. Careful(c) /\ Numbers'
    BY <2>2, <2>5, ReadOnlyIsCareful
  <2> QED BY <2>2, <2>4, <2>5, <2>6, FSStep
<1> QED BY <1>1, <1>2

LEMMA FSInspectOK ==
  ASSUME IInv, NEW c \in Client, FSInspect(c)
  PROVE  IInv'
<1> DEFINE k == KeyOf(c)
<1>1. /\ Local /\ FSCallerOK(c, cl[c]) /\ cl[c].pc = "inspect" /\ k \in Key /\ Numbers
      /\ UNCHANGED <<world, body, ver, writes>>
      /\ Role(c) \in {"mutate", "create", "put", "delete", "prune"}
  BY WorldFacts DEF FSInspect, FSAt, IInv, FSInv
<1>2. CASE Release(c) /\ (Lost(c) \/ Return(c))
  BY <1>1, <1>2, FSReleaseReturn, FSReleaseLost
<1>3. CASE ~ (Release(c) /\ (Lost(c) \/ Return(c)))
  <2>0. PICK pc, seen : /\ pc = IF Role(c) \in {"delete", "prune"} THEN "remove" ELSE "write"
                        /\ seen = body[k]
    OBVIOUS
  <2>1. PICK rec : rec = [cl[c] EXCEPT !.seen = seen, !.pc = pc]
    OBVIOUS
  <2>2. /\ cl' = [cl EXCEPT ![c] = rec] /\ UNCHANGED <<held, node>>
        /\ \E readable \in BOOLEAN : "go" = Condition(c, readable)
    BY <1>3, <2>0, <2>1 DEF FSInspect, Set
  <2>3. /\ DOMAIN rec = Fields /\ rec.pc = pc /\ rec.seen = body[k]
        /\ rec.exp = cl[c].exp /\ rec.base = cl[c].base
    BY <1>1, <2>0, <2>1 DEF FSCallerOK, Fields
  <2>4. Role(c) = "create" => body[k] = 0
    <3>1. Role(c) = "create" => cl[c].exp = 0
      BY <1>1 DEF FSCallerOK
    <3> QED BY <2>2, <3>1 DEF Condition
  <2>5. Role(c) = "prune" => body[k] = cl[c].base
    <3> SUFFICES ASSUME Role(c) = "prune" PROVE body[k] = cl[c].base
      OBVIOUS
    <3>1. body[k] # 0 /\ VersionOf(k, body[k]) = cl[c].exp
      BY <2>2 DEF Condition
    <3>2. /\ cl[c].exp \in Int /\ cl[c].base \in Nat
          /\ cl[c].exp < 0 => cl[c].exp = -cl[c].base
          /\ Tells(cl[c], k)
      BY <1>1 DEF FSCallerOK, Listed
    <3>3. body[k] \in Nat /\ ver[k] \in Nat
      BY <1>1 DEF Numbers
    <3>4. CASE ver[k] # 0
      BY <3>1, <3>2, <3>4 DEF VersionOf, Tells
    <3>5. CASE ver[k] = 0
      <4>1. cl[c].exp = -body[k] /\ cl[c].exp < 0
        BY <3>1, <3>3, <3>5 DEF VersionOf
      <4> QED BY <3>2, <3>3, <4>1
    <3> QED BY <3>4, <3>5
  <2>6. Grip(c) \in held
    BY <1>1 DEF FSCallerOK, Inside
  <2>7. FSCallerOK(c, rec) /\ ~Listed(c, rec) /\ rec.pc # "rename"
    <3>1. /\ Role(c) \in {"delete", "prune"} => pc = "remove"
          /\ Role(c) \notin {"delete", "prune"} => pc = "write"
      BY <2>0
    <3> QED BY <1>1, <2>3, <2>4, <2>5, <2>6, <3>1 DEF FSCallerOK, Inside, Listed
  <2> QED BY <1>1, <2>2, <2>7, FSQuiet
<1> QED BY <1>2, <1>3

(* What a listing names is an earlier version than that of a new write. *)
LEMMA FSWriteFirstOK ==
  ASSUME IInv, NEW c \in Client, FSWriteFirst(c)
  PROVE  IInv'
<1>0. PICK k, n : k = KeyOf(c) /\ n = writes + 1
  OBVIOUS
<1>1. /\ Local /\ FSCallerOK(c, cl[c]) /\ cl[c].pc = "write" /\ k \in Key /\ Numbers
      /\ UNCHANGED world
  BY <1>0, WorldFacts DEF FSWriteFirst, FSAt, IInv, FSInv
<1>2. CASE Release(c) /\ Return(c) /\ UNCHANGED <<body, ver, writes>>
  BY <1>1, <1>2, FSReleaseReturn
<1>3. CASE ~ (Release(c) /\ Return(c) /\ UNCHANGED <<body, ver, writes>>)
  <2>1. PICK rec : rec = [cl[c] EXCEPT !.pc = "rename", !.num = n]
    OBVIOUS
  <2>2. /\ cl' = [cl EXCEPT ![c] = rec] /\ UNCHANGED <<held, node, body>>
        /\ writes' = n /\ ver' = [ver EXCEPT ![k] = n]
    BY <1>0, <1>3, <2>1 DEF FSWriteFirst, Set, Written, WriteOrder
  <2>3. /\ DOMAIN rec = Fields /\ rec.pc = "rename" /\ rec.seen = cl[c].seen
        /\ rec.exp = cl[c].exp /\ rec.num = n
    BY <1>1, <2>1 DEF FSCallerOK, Fields
  <2>4. n \in Nat /\ writes \in Nat /\ n > writes /\ ver'[k] = n
    BY <1>0, <1>1, <2>2 DEF Numbers
  <2>5. Numbers'
    BY <1>1, <2>2, <2>4 DEF Numbers
  <2>6. \A d \in Client : Listed(d, cl[d]) => cl[d].exp \in Int /\ cl[d].exp # n
    BY <1>1, <2>4 DEF IInv, FSInv, FSCallerOK
  <2>7. Careful(c)
    <3>1. \A d \in Client : d # c => cl'[d] = cl[d]
      BY <2>2 DEF IInv
    <3>2. \A x \in Key : x # k => ver'[x] = ver[x]
      BY <1>1, <2>2 DEF Numbers
    <3> QED BY <1>0, <1>1, <2>2, <2>4, <2>6, <3>1, <3>2 DEF Careful, Inside
  <2>8. LocksOK'
    BY <1>1, <2>2 DEF IInv, FSInv, LocksOK
  <2>9. FSCallerOK(c, rec)' /\ ~Listed(c, rec)
    BY <1>0, <1>1, <2>2, <2>3, <2>4
       DEF FSCallerOK, Inside, Listed, KeyOf, Role, ShardPath, Grip
  <2> QED BY <1>1, <2>2, <2>3, <2>5, <2>6, <2>7, <2>8, <2>9, FSStep
<1> QED BY <1>2, <1>3

(* The locks are dropped and the operation returns, having changed no more   *)
(* than its own object.                                                      *)
LEMMA FSReleaseWritten ==
  ASSUME IInv, Local, NEW c \in Client, cl[c].pc \in Inside, Release(c), Return(c), Numbers',
         UNCHANGED <<world, writes>>,
         NEW k, k = KeyOf(c), \A x \in Key : x # k => body'[x] = body[x] /\ ver'[x] = ver[x],
         \/ body'[k] = body[k] /\ ver'[k] = ver[k]
         \/ body'[k] = 0
         \/ \A d \in Client : Listed(d, cl[d]) /\ KeyOf(d) = k => ver'[k] # cl[d].exp
  PROVE  IInv'
<1>1. /\ LocksOK'
      /\ \A h \in held : h.by # c => h \in held'
      /\ \A p \in Paths : node[p] = Made => node'[p] = Made
  BY ReleaseFacts DEF Release
<1>2. \A d \in Client : d # c => cl'[d] = cl[d]
  BY ReturnFacts DEF IInv
<1>3. Careful(c)
  BY <1>1, <1>2 DEF Careful, IInv, Numbers
<1> QED BY <1>1, <1>3, FSReturn

LEMMA FSWriteSecondOK ==
  ASSUME IInv, NEW c \in Client, FSWriteSecond(c)
  PROVE  IInv'
<1>0. PICK k, n : k = KeyOf(c) /\ n = cl[c].num
  OBVIOUS
<1>1. /\ Local /\ FSCallerOK(c, cl[c]) /\ cl[c].pc = "rename" /\ k \in Key /\ Numbers
      /\ UNCHANGED <<world, writes>> /\ Release(c) /\ Return(c)
  BY <1>0, WorldFacts DEF FSWriteSecond, FSAt, IInv, FSInv
<1>2. CASE UNCHANGED <<body, ver>>
  BY <1>1, <1>2, FSReleaseReturn
<1>3. CASE body' = [body EXCEPT ![k] = n] /\ UNCHANGED ver
  <2>1. n = ver[k] /\ n \in 0..writes
    BY <1>0, <1>1 DEF FSCallerOK, Numbers
  <2>2. Numbers' /\ \A x \in Key : x # k => body'[x] = body[x] /\ ver'[x] = ver[x]
    BY <1>1, <1>3, <2>1 DEF Numbers
  <2>3. \A d \in Client : Listed(d, cl[d]) /\ KeyOf(d) = k => ver'[k] # cl[d].exp
    BY <1>0, <1>1, <1>3, <2>1 DEF IInv, FSInv, RenameFresh
  <2>4. cl[c].pc \in Inside
    BY <1>1 DEF Inside
  <2> QED BY <1>0, <1>1, <2>2, <2>3, <2>4, FSReleaseWritten
<1> QED BY <1>0, <1>2, <1>3 DEF FSWriteSecond, Written, WriteOrder

LEMMA FSRemoveOK ==
  ASSUME IInv, NEW c \in Client, FSRemove(c)
  PROVE  IInv'
<1>0. PICK k : k = KeyOf(c)
  OBVIOUS
<1>1. /\ Local /\ FSCallerOK(c, cl[c]) /\ cl[c].pc = "remove" /\ k \in Key /\ Numbers
      /\ UNCHANGED <<world, ver, writes>>
  BY <1>0, WorldFacts DEF FSRemove, FSAt, IInv, FSInv
<1>2. CASE Release(c) /\ Return(c) /\ UNCHANGED body
  BY <1>1, <1>2, FSReleaseReturn
<1>3. CASE ~ (Release(c) /\ Return(c) /\ UNCHANGED body)
  <2>1. PICK rec : rec = [cl[c] EXCEPT !.pc = "forget"]
    OBVIOUS
  <2>2. /\ cl' = [cl EXCEPT ![c] = rec] /\ UNCHANGED <<held, node>>
        /\ body' = [body EXCEPT ![k] = 0]
    BY <1>0, <1>3, <2>1 DEF FSRemove, Set
  <2>3. DOMAIN rec = Fields /\ rec.pc = "forget" /\ rec.exp = cl[c].exp
    BY <1>1, <2>1 DEF FSCallerOK, Fields
  <2>4. /\ Numbers' /\ body'[k] = 0
        /\ \A x \in Key : x # k => body'[x] = body[x]
    BY <1>1, <2>2 DEF Numbers
  <2>5. Careful(c)
    <3>1. \A d \in Client : d # c => cl'[d] = cl[d]
      BY <2>2 DEF IInv
    <3> QED BY <1>0, <1>1, <2>2, <2>4, <3>1 DEF Careful, Inside, Numbers
  <2>6. LocksOK'
    BY <1>1, <2>2 DEF IInv, FSInv, LocksOK
  <2>7. FSCallerOK(c, rec)' /\ ~Listed(c, rec)
    BY <1>0, <1>1, <2>2, <2>3, <2>4
       DEF FSCallerOK, Inside, Listed, KeyOf, Role, ShardPath, Grip
  <2> QED BY <1>1, <2>2, <2>3, <2>4, <2>5, <2>6, <2>7, FSStep
<1> QED BY <1>2, <1>3

LEMMA FSForgetOK ==
  ASSUME IInv, NEW c \in Client, FSForget(c)
  PROVE  IInv'
<1>0. PICK k : k = KeyOf(c)
  OBVIOUS
<1>1. /\ Local /\ FSCallerOK(c, cl[c]) /\ cl[c].pc = "forget" /\ k \in Key /\ Numbers
      /\ UNCHANGED <<world, body, writes>> /\ Release(c) /\ Return(c)
  BY <1>0, WorldFacts DEF FSForget, FSAt, IInv, FSInv
<1>2. CASE UNCHANGED ver
  BY <1>1, <1>2, FSReleaseReturn
<1>3. CASE ver' = [ver EXCEPT ![k] = 0]
  <2>1. Numbers' /\ \A x \in Key : x # k => body'[x] = body[x] /\ ver'[x] = ver[x]
    BY <1>1, <1>3 DEF Numbers
  <2>2. body'[k] = 0 /\ cl[c].pc \in Inside
    BY <1>0, <1>1 DEF FSCallerOK, Inside
  <2> QED BY <1>0, <1>1, <2>1, <2>2, FSReleaseWritten
<1> QED BY <1>0, <1>2, <1>3 DEF FSForget

(* A process that dies leaves what it had written; its locks go.             *)
LEMMA FSCrashOK ==
  ASSUME IInv, NEW c \in Client, FSCrash(c)
  PROVE  IInv'
<1>1. PICK rec : rec = [Caller EXCEPT !.pc = "done", !.n = 0]
  OBVIOUS
<1>2. /\ Local /\ UNCHANGED <<world, body, ver, writes, node>>
      /\ cl' = [cl EXCEPT ![c] = rec] /\ held' = {h \in held : h.by # c}
  BY <1>1 DEF FSCrash, Set
<1>3. DOMAIN rec = Fields /\ rec.pc = "done" /\ rec.exp = 0
  BY <1>1, CallerFields DEF Fields
<1>4. FSCallerOK(c, rec)' /\ ~Listed(c, rec)
  BY <1>3 DEF FSCallerOK, Inside, Listed
<1>5. /\ LocksOK'
      /\ \A h \in held : h.by # c => h \in held'
      /\ \A p \in Paths : node[p] = Made => node'[p] = Made
  BY <1>2, ReleaseFacts
<1>6. Careful(c) /\ Numbers'
  BY <1>2, <1>5, ReadOnlyIsCareful
<1> QED BY <1>2, <1>3, <1>4, <1>5, <1>6, FSStep

-----------------------------------------------------------------------------
(* In a cloud. *)

(* What a request of a caller may do to the others: it leaves the object     *)
(* alone, removes it with its version, or gives it a new version.            *)
Orderly(k) ==
  /\ writes' \in Nat /\ writes <= writes'
  /\ \A x \in Key : x # k => body'[x] = body[x] /\ ver'[x] = ver[x]
  /\ Distinct => \/ body'[k] = body[k] /\ ver'[k] = ver[k]
                 \/ body'[k] = 0 /\ ver'[k] = 0
                 \/ body'[k] # 0 /\ ver'[k] \in Nat /\ ver'[k] > writes

LEMMA CloudStep ==
  ASSUME IInv, ~Local, NEW c \in Client, NEW rec, cl' = [cl EXCEPT ![c] = rec], UNCHANGED world,
         Numbers', Orderly(KeyOf(c)), CloudCallerOK(c, rec)'
  PROVE  IInv'
<1>1. /\ cl'[c] = rec /\ cl' = [d \in Client |-> cl'[d]]
      /\ \A d \in Client : d # c => cl'[d] = cl[d]
  BY DEF IInv
<1>2. /\ Local' = Local /\ Distinct' = Distinct /\ Store' = Store
      /\ \A d \in Client : KeyOf(d)' = KeyOf(d) /\ Role(d)' = Role(d)
  BY DEF Local, Distinct, Store, KeyOf, Role
<1>3. KeyOf(c) \in Key /\ writes \in Nat
  BY WorldFacts DEF IInv, Numbers
<1>4. Distinct => \A k \in Key : ver'[k] = 0 <=> body'[k] = 0
  <2> SUFFICES ASSUME Distinct, NEW k \in Key PROVE ver'[k] = 0 <=> body'[k] = 0
    OBVIOUS
  <2>1. ver[k] = 0 <=> body[k] = 0
    BY DEF IInv, CloudInv
  <2>2. CASE k = KeyOf(c)
    BY <1>3, <2>1, <2>2 DEF Orderly
  <2>3. CASE k # KeyOf(c)
    BY <2>1, <2>3 DEF Orderly
  <2> QED BY <2>2, <2>3
<1>5. ASSUME NEW d \in Client, d # c PROVE CloudCallerOK(d, cl[d])'
  <2>1. PICK r, k : r = cl[d] /\ k = KeyOf(d)
    OBVIOUS
  <2>2. CloudCallerOK(d, r) /\ k \in Key /\ cl'[d] = r
    BY <1>1, <1>5, <2>1, WorldFacts DEF IInv, CloudInv
  <2>3. r.pc = "call" /\ Role(d) \in {"mutate", "prune"} /\ Distinct =>
          /\ r.exp \in Nat /\ r.exp <= writes'
          /\ r.exp = 0 => r.base = 0
          /\ ver'[k] = r.exp => body'[k] = r.base
    <3> SUFFICES ASSUME r.pc = "call", Role(d) \in {"mutate", "prune"}, Distinct
                 PROVE  /\ r.exp \in Nat /\ r.exp <= writes'
                        /\ r.exp = 0 => r.base = 0
                        /\ ver'[k] = r.exp => body'[k] = r.base
      OBVIOUS
    <3>1. /\ r.exp \in Nat /\ r.exp <= writes
          /\ r.exp = 0 => r.base = 0
          /\ ver[k] = r.exp => body[k] = r.base
      BY <2>1, <2>2 DEF CloudCallerOK
    <3>2. writes' \in Nat /\ writes <= writes'
      BY DEF Orderly
    <3>3. CASE k # KeyOf(c)
      BY <1>3, <2>2, <3>1, <3>2, <3>3 DEF Orderly
    <3>4. CASE k = KeyOf(c)
      BY <1>3, <2>2, <3>1, <3>2, <3>4 DEF Orderly
    <3> QED BY <3>3, <3>4
  <2> QED BY <1>2, <2>1, <2>2, <2>3 DEF CloudCallerOK
<1>6. \A d \in Client : CloudCallerOK(d, cl[d])'
  BY <1>1, <1>5
<1>7. FSInv' /\ CloudInv'
  BY <1>2, <1>4, <1>6 DEF FSInv, CloudInv
<1> QED BY <1>1, <1>7 DEF IInv

LEMMA UntouchedIsOrderly ==
  ASSUME IInv, NEW k, UNCHANGED <<body, ver, writes>>
  PROVE  Numbers' /\ Orderly(k)
BY DEF IInv, Numbers, Orderly

LEMMA UploadedIsOrderly ==
  ASSUME IInv, NEW c \in Client, Uploaded(c)
  PROVE  Numbers' /\ Orderly(KeyOf(c))
<1>1. PICK k, n, v : k = KeyOf(c) /\ n = writes + 1 /\ v = NewVersion
  OBVIOUS
<1>2. /\ Numbers /\ k \in Key
      /\ writes' = n /\ body' = [body EXCEPT ![k] = n] /\ ver' = [ver EXCEPT ![k] = v]
  BY <1>1, WorldFacts DEF IInv, Uploaded
<1>3. n \in Nat /\ n > writes /\ n # 0 /\ writes \in Nat
  BY <1>1, <1>2 DEF Numbers
<1>4. v \in 0..n
  <2>1. v \in {0, 1, n}
    BY <1>1 DEF NewVersion
  <2>2. n >= 1
    BY <1>3
  <2> QED BY <1>3, <2>1, <2>2
<1>5. Distinct => v = n
  BY <1>1 DEF NewVersion, Distinct
<1>6. Numbers'
  BY <1>2, <1>3, <1>4 DEF Numbers
<1>7. /\ body'[k] = n /\ ver'[k] = v
      /\ \A x \in Key : x # k => body'[x] = body[x] /\ ver'[x] = ver[x]
  BY <1>2 DEF Numbers
<1>8. Orderly(k)
  BY <1>2, <1>3, <1>5, <1>7 DEF Orderly
<1> QED BY <1>1, <1>6, <1>8

LEMMA RemovedIsOrderly ==
  ASSUME IInv, NEW c \in Client, UNCHANGED writes,
         body' = [body EXCEPT ![KeyOf(c)] = 0], ver' = [ver EXCEPT ![KeyOf(c)] = 0]
  PROVE  Numbers' /\ Orderly(KeyOf(c))
<1>1. PICK k : k = KeyOf(c)
  OBVIOUS
<1>2. Numbers /\ k \in Key
  BY <1>1, WorldFacts DEF IInv
<1>3. Numbers'
  BY <1>1, <1>2 DEF Numbers
<1>4. /\ body'[k] = 0 /\ ver'[k] = 0
      /\ \A x \in Key : x # k => body'[x] = body[x] /\ ver'[x] = ver[x]
  BY <1>1, <1>2 DEF Numbers
<1>5. Orderly(k)
  BY <1>2, <1>4 DEF Orderly, Numbers
<1> QED BY <1>1, <1>3, <1>5

LEMMA CloudQuiet ==
  ASSUME IInv, ~Local, NEW c \in Client, NEW rec, cl' = [cl EXCEPT ![c] = rec],
         UNCHANGED <<world, body, ver, writes>>, CloudCallerOK(c, rec)
  PROVE  IInv'
<1>1. CloudCallerOK(c, rec)'
  BY DEF CloudCallerOK, Distinct, Store, Role, KeyOf
<1> QED BY <1>1, UntouchedIsOrderly, CloudStep

LEMMA CloudReturn ==
  ASSUME IInv, ~Local, NEW c \in Client, Return(c), UNCHANGED world, Numbers', Orderly(KeyOf(c))
  PROVE  IInv'
<1>1. PICK rec : /\ cl' = [cl EXCEPT ![c] = rec] /\ DOMAIN rec = Fields
                 /\ rec.pc \in {"begin", "done"} /\ rec.exp = 0
                 /\ rec.probe = cl[c].probe /\ rec.dprobe = cl[c].dprobe
  BY ReturnFacts
<1>2. CloudCallerOK(c, cl[c])
  BY DEF IInv, CloudInv
<1>3. CloudCallerOK(c, rec)'
  BY <1>1, <1>2 DEF CloudCallerOK, Distinct, Store, Role
<1> QED BY <1>1, <1>3, CloudStep

LEMMA CloudLost ==
  ASSUME IInv, ~Local, NEW c \in Client, cl[c].pc = "call", Role(c) \in {"mutate", "create"},
         Lost(c), UNCHANGED world, Numbers', Orderly(KeyOf(c))
  PROVE  IInv'
<1>1. CASE Role(c) # "mutate"
  BY <1>1, CloudReturn DEF Lost
<1>2. CASE Role(c) = "mutate"
  <2>1. PICK rec : rec = [cl[c] EXCEPT !.pc = "read", !.base = 0, !.exp = 0, !.seen = 0,
                                       !.paths = << >>, !.fd = 0]
    OBVIOUS
  <2>2. cl' = [cl EXCEPT ![c] = rec] /\ CloudCallerOK(c, cl[c])
    BY <1>2, <2>1 DEF Lost, Set, IInv, CloudInv
  <2>3. /\ DOMAIN rec = Fields /\ rec.pc = "read" /\ rec.exp = 0
        /\ rec.probe = cl[c].probe /\ rec.dprobe = cl[c].dprobe
    BY <2>1, <2>2 DEF CloudCallerOK, Fields
  <2>4. CloudCallerOK(c, rec)'
    BY <1>2, <2>2, <2>3 DEF CloudCallerOK, Distinct, Store, Role
  <2> QED BY <2>2, <2>4, CloudStep
<1> QED BY <1>1, <1>2

(* The verdict of the probe comes before anything depends on it. *)
LEMMA CloudBeginOK ==
  ASSUME IInv, NEW c \in Client, CloudBegin(c)
  PROVE  IInv'
<1>1. /\ ~Local /\ cl[c].pc = "begin" /\ Role(c) \in {"mutate", "create"}
      /\ UNCHANGED <<world, body, ver, writes>> /\ CloudCallerOK(c, cl[c])
  BY DEF CloudBegin, CloudAt, IInv, CloudInv
<1>2. PICK v : /\ v \in IF cl[c].probe = "unknown" THEN ProbeConditionalWrites(Store) ELSE {cl[c].probe}
               /\ \/ /\ v = "enforced"
                     /\ Set(c, [cl[c] EXCEPT !.probe = Remembered(v),
                                  !.pc = IF Role(c) = "mutate" THEN "read" ELSE "call"])
                  \/ /\ v # "enforced"
                     /\ Set(c, [cl[c] EXCEPT !.probe = Remembered(v),
                                  !.pc = IF cl[c].n = 1 THEN "done" ELSE "begin",
                                  !.n = @ - 1])
  BY DEF CloudBegin
<1>3. /\ v = "enforced" => Store.create /\ Store.update /\ Distinct
      /\ v = "unsupported" => ~Store.create \/ ~Store.update \/ ~Distinct
  <2>1. CASE cl[c].probe = "unknown"
    BY <1>2, <2>1 DEF ProbeConditionalWrites, Distinct
  <2>2. CASE cl[c].probe # "unknown"
    BY <1>1, <1>2, <2>2 DEF CloudCallerOK
  <2> QED BY <2>1, <2>2
<1>4. PICK p : p = Remembered(v)
  OBVIOUS
<1>5. /\ p = "enforced" <=> v = "enforced"
      /\ p = "unsupported" <=> v = "unsupported"
  BY <1>4 DEF Remembered
<1>6. CASE v = "enforced"
  <2>1. PICK pc : pc = IF Role(c) = "mutate" THEN "read" ELSE "call"
    OBVIOUS
  <2>2. PICK rec : rec = [cl[c] EXCEPT !.probe = p, !.pc = pc]
    OBVIOUS
  <2>3. cl' = [cl EXCEPT ![c] = rec]
    BY <1>2, <1>4, <1>6, <2>1, <2>2 DEF Set
  <2>4. /\ DOMAIN rec = Fields /\ rec.pc = pc /\ rec.probe = p /\ rec.dprobe = cl[c].dprobe
        /\ rec.exp = cl[c].exp
    BY <1>1, <2>2 DEF CloudCallerOK, Fields
  <2>5. pc \in {"read", "call"} /\ (pc = "read" <=> Role(c) = "mutate")
    BY <2>1
  <2>6. CloudCallerOK(c, rec)
    BY <1>1, <1>3, <1>5, <1>6, <2>4, <2>5 DEF CloudCallerOK
  <2> QED BY <1>1, <2>3, <2>6, CloudQuiet
<1>7. CASE v # "enforced"
  <2>1. PICK pc : pc = IF cl[c].n = 1 THEN "done" ELSE "begin"
    OBVIOUS
  <2>2. PICK rec : rec = [cl[c] EXCEPT !.probe = p, !.pc = pc, !.n = @ - 1]
    OBVIOUS
  <2>3. cl' = [cl EXCEPT ![c] = rec]
    BY <1>2, <1>4, <1>7, <2>1, <2>2 DEF Set
  <2>4. /\ DOMAIN rec = Fields /\ rec.pc = pc /\ rec.probe = p /\ rec.dprobe = cl[c].dprobe
        /\ rec.exp = cl[c].exp
    BY <1>1, <2>2 DEF CloudCallerOK, Fields
  <2>5. pc \in {"begin", "done"}
    BY <2>1
  <2>6. CloudCallerOK(c, rec)
    BY <1>1, <1>3, <1>5, <1>7, <2>4, <2>5 DEF CloudCallerOK
  <2> QED BY <1>1, <2>3, <2>6, CloudQuiet
<1> QED BY <1>6, <1>7

(* A read, or a listing: contents and version in hand are those of the       *)
(* bucket.                                                                   *)
LEMMA CloudReads ==
  ASSUME IInv, ~Local, NEW c \in Client, UNCHANGED <<world, body, ver, writes>>,
         Role(c) \in {"mutate", "prune"}, Role(c) = "mutate" => cl[c].pc = "read",
         Set(c, [cl[c] EXCEPT !.pc = "call", !.base = body[KeyOf(c)], !.exp = ver[KeyOf(c)]])
  PROVE  IInv'
<1>1. PICK k, b, v : k = KeyOf(c) /\ b = body[k] /\ v = ver[k]
  OBVIOUS
<1>2. PICK rec : rec = [cl[c] EXCEPT !.pc = "call", !.base = b, !.exp = v]
  OBVIOUS
<1>3. cl' = [cl EXCEPT ![c] = rec] /\ CloudCallerOK(c, cl[c]) /\ k \in Key /\ Numbers
  BY <1>1, <1>2, WorldFacts DEF Set, IInv, CloudInv
<1>4. /\ DOMAIN rec = Fields /\ rec.pc = "call" /\ rec.probe = cl[c].probe
      /\ rec.dprobe = cl[c].dprobe /\ rec.exp = v /\ rec.base = b
  BY <1>2, <1>3 DEF CloudCallerOK, Fields
<1>5. v \in Nat /\ v <= writes /\ (Distinct => (v = 0 <=> b = 0))
  BY <1>1, <1>3 DEF IInv, CloudInv, Numbers
<1>6. CloudCallerOK(c, rec)
  BY <1>1, <1>3, <1>4, <1>5 DEF CloudCallerOK
<1> QED BY <1>3, <1>6, CloudQuiet

LEMMA CloudGetOK ==
  ASSUME IInv, NEW c \in Client, CloudGet(c)
  PROVE  IInv'
<1>1. /\ ~Local /\ cl[c].pc = "read" /\ CloudCallerOK(c, cl[c])
      /\ UNCHANGED <<world, body, ver, writes>>
  BY DEF CloudGet, CloudAt, IInv, CloudInv
<1>2. Role(c) = "mutate"
  BY <1>1 DEF CloudCallerOK
<1>3. \/ Set(c, [cl[c] EXCEPT !.pc = "call", !.base = body[KeyOf(c)], !.exp = ver[KeyOf(c)]])
      \/ Return(c)
  BY DEF CloudGet
<1> QED BY <1>1, <1>2, <1>3, CloudReads, CloudReturn, UntouchedIsOrderly

LEMMA CloudListOK ==
  ASSUME IInv, NEW c \in Client, CloudList(c)
  PROVE  IInv'
<1>1. ~Local /\ Role(c) = "prune" /\ UNCHANGED <<world, body, ver, writes>>
  BY DEF CloudList, CloudAt
<1>2. \/ Set(c, [cl[c] EXCEPT !.pc = "call", !.base = body[KeyOf(c)], !.exp = ver[KeyOf(c)]])
      \/ Return(c)
  BY DEF CloudList
<1> QED BY <1>1, <1>2, CloudReads, CloudReturn, UntouchedIsOrderly

LEMMA CloudPutOK ==
  ASSUME IInv, NEW c \in Client, CloudPut(c)
  PROVE  IInv'
<1>1. ~Local /\ UNCHANGED world /\ Return(c)
  BY DEF CloudPut, CloudAt
<1>2. Numbers' /\ Orderly(KeyOf(c))
  BY UploadedIsOrderly, UntouchedIsOrderly DEF CloudPut
<1> QED BY <1>1, <1>2, CloudReturn

LEMMA CloudPutIfMatchOK ==
  ASSUME IInv, NEW c \in Client, CloudPutIfMatch(c)
  PROVE  IInv'
<1>1. /\ ~Local /\ UNCHANGED world /\ cl[c].pc = "call" /\ Role(c) \in {"mutate", "create"}
      /\ Lost(c) \/ Return(c)
  BY DEF CloudPutIfMatch, CloudAt
<1>2. Numbers' /\ Orderly(KeyOf(c))
  BY UploadedIsOrderly, UntouchedIsOrderly DEF CloudPutIfMatch
<1> QED BY <1>1, <1>2, CloudReturn, CloudLost

LEMMA CloudDeleteOK ==
  ASSUME IInv, NEW c \in Client, CloudDelete(c)
  PROVE  IInv'
<1>1. ~Local /\ UNCHANGED <<world, writes>> /\ Return(c)
  BY DEF CloudDelete, CloudAt
<1>2. \/ UNCHANGED <<body, ver>>
      \/ body' = [body EXCEPT ![KeyOf(c)] = 0] /\ ver' = [ver EXCEPT ![KeyOf(c)] = 0]
  BY DEF CloudDelete
<1>3. Numbers' /\ Orderly(KeyOf(c))
  BY <1>1, <1>2, RemovedIsOrderly, UntouchedIsOrderly
<1> QED BY <1>1, <1>3, CloudReturn

LEMMA CloudEnsureDeletesOK ==
  ASSUME IInv, NEW c \in Client, CloudEnsureDeletes(c)
  PROVE  IInv'
<1>1. /\ ~Local /\ UNCHANGED <<world, body, ver, writes>> /\ CloudCallerOK(c, cl[c])
  BY DEF CloudEnsureDeletes, CloudAt, IInv, CloudInv
<1>2. PICK v \in ProbeConditionalDeletes(Store) :
             IF v = "cancelled" THEN Return(c) ELSE Set(c, [cl[c] EXCEPT !.dprobe = v])
  BY DEF CloudEnsureDeletes
<1>3. CASE Return(c)
  BY <1>1, <1>3, CloudReturn, UntouchedIsOrderly
<1>4. CASE ~Return(c)
  <2>1. PICK rec : rec = [cl[c] EXCEPT !.dprobe = v]
    OBVIOUS
  <2>2. cl' = [cl EXCEPT ![c] = rec]
    BY <1>2, <1>4, <2>1 DEF Set
  <2>3. v = "enforced" => Store.delete /\ Distinct
    BY <1>2 DEF ProbeConditionalDeletes, Distinct
  <2>4. /\ DOMAIN rec = Fields /\ rec.pc = cl[c].pc /\ rec.probe = cl[c].probe
        /\ rec.dprobe = v /\ rec.exp = cl[c].exp /\ rec.base = cl[c].base
    BY <1>1, <2>1 DEF CloudCallerOK, Fields
  <2>5. CloudCallerOK(c, rec)
    BY <1>1, <2>3, <2>4 DEF CloudCallerOK
  <2> QED BY <1>1, <2>2, <2>5, CloudQuiet
<1> QED BY <1>3, <1>4

LEMMA CloudDeleteIfMatchOK ==
  ASSUME IInv, NEW c \in Client, CloudDeleteIfMatch(c)
  PROVE  IInv'
<1>1. ~Local /\ UNCHANGED <<world, writes>> /\ Return(c)
  BY DEF CloudDeleteIfMatch, CloudAt
<1>2. \/ UNCHANGED <<body, ver>>
      \/ body' = [body EXCEPT ![KeyOf(c)] = 0] /\ ver' = [ver EXCEPT ![KeyOf(c)] = 0]
  BY DEF CloudDeleteIfMatch
<1>3. Numbers' /\ Orderly(KeyOf(c))
  BY <1>1, <1>2, RemovedIsOrderly, UntouchedIsOrderly
<1> QED BY <1>1, <1>3, CloudReturn

-----------------------------------------------------------------------------
LEMMA NextOK == IInv /\ [Next]_vars => IInv'
<1> SUFFICES ASSUME IInv, [Next]_vars PROVE IInv'
  OBVIOUS
<1>1. CASE UNCHANGED vars
  BY SMTT(30), <1>1 DEF vars, locks, IInv, Numbers, FSInv, LocksOK, RenameFresh, FSCallerOK, CloudInv, CloudCallerOK,
              Listed, Tells, Grip, ShardPath, Distinct, Store, Local, Role, KeyOf
<1>2. ASSUME NEW c \in Client,
             \/ FSBegin(c) \/ FSOpen(c) \/ FSVersion(c) \/ FSList(c) \/ FSOpenLock(c) \/ FSFlock(c)
             \/ FSInspect(c) \/ FSWriteFirst(c) \/ FSWriteSecond(c) \/ FSRemove(c) \/ FSForget(c)
             \/ FSCrash(c)
      PROVE IInv'
  BY <1>2, FSBeginOK, FSOpenOK, FSVersionOK, FSListOK, FSOpenLockOK, FSFlockOK, FSInspectOK,
     FSWriteFirstOK, FSWriteSecondOK, FSRemoveOK, FSForgetOK, FSCrashOK
<1>3. ASSUME NEW c \in Client,
             \/ CloudBegin(c) \/ CloudGet(c) \/ CloudPut(c) \/ CloudPutIfMatch(c) \/ CloudDelete(c)
             \/ CloudList(c) \/ CloudEnsureDeletes(c) \/ CloudDeleteIfMatch(c)
      PROVE IInv'
  BY <1>3, CloudBeginOK, CloudGetOK, CloudPutOK, CloudPutIfMatchOK, CloudDeleteOK, CloudListOK,
     CloudEnsureDeletesOK, CloudDeleteIfMatchOK
<1> QED BY <1>1, <1>2, <1>3 DEF Next, Finished

LEMMA Invariant == Spec => []IInv
BY InitOK, NextOK, PTL DEF Spec

-----------------------------------------------------------------------------
(* What the calls replaced. *)

(* What the history may say of one effective call. *)
Sound(role, base, seen, over) ==
  /\ seen = over
  /\ role = "create" => over = 0
  /\ role = "prune" \/ (~Local /\ role = "mutate") => base = over

AccInv == \A a \in acc : Sound(a.role, a.base, a.seen, a.over)

LEMMA ReplacedOK ==
  ASSUME AccInv, UNCHANGED world, NEW c \in Client, NEW seen, Replaced(c, seen),
         Sound(Role(c), cl[c].base, seen, body[KeyOf(c)])
  PROVE  AccInv'
<1>1. PICK a : a = [role |-> Role(c), base |-> cl[c].base, seen |-> seen, over |-> body[KeyOf(c)]]
  OBVIOUS
<1>2. acc' = acc \cup {a} /\ Sound(a.role, a.base, a.seen, a.over)
  BY <1>1 DEF Replaced
<1> QED BY <1>2 DEF AccInv, Sound, Local

(* Under the lock of its shard the object is what the condition was compared *)
(* with.                                                                     *)
LEMMA FSReplacedOK ==
  ASSUME IInv, Local, NEW c \in Client, cl[c].pc \in {"rename", "remove"}
  PROVE  Sound(Role(c), cl[c].base, cl[c].seen, body[KeyOf(c)])
<1>1. FSCallerOK(c, cl[c])
  BY DEF IInv, FSInv
<1> QED BY <1>1 DEF FSCallerOK, Sound

(* A write the provider performs finds what the caller read: the probe has   *)
(* seen to it that the provider looks.                                       *)
LEMMA CloudReplacedOK ==
  ASSUME IInv, ~Local, NEW c \in Client, cl[c].pc = "call", Role(c) \in {"mutate", "create"},
         Accepts(c)
  PROVE  Sound(Role(c), cl[c].base, body[KeyOf(c)], body[KeyOf(c)])
<1>1. CloudCallerOK(c, cl[c])
  BY DEF IInv, CloudInv
<1>2. Store.create /\ Store.update /\ Distinct
  BY <1>1 DEF CloudCallerOK
<1>3. CASE cl[c].exp = 0
  <2>1. body[KeyOf(c)] = 0
    BY <1>2, <1>3 DEF Accepts
  <2> QED BY <1>1, <1>2, <1>3, <2>1 DEF CloudCallerOK, Sound
<1>4. CASE cl[c].exp # 0
  <2>1. body[KeyOf(c)] # 0 /\ ver[KeyOf(c)] = cl[c].exp
    BY <1>2, <1>4 DEF Accepts
  <2> QED BY <1>1, <1>2, <1>4, <2>1 DEF CloudCallerOK, Sound
<1> QED BY <1>3, <1>4

LEMMA CloudDeletedOK ==
  ASSUME IInv, ~Local, NEW c \in Client, cl[c].pc = "call", Role(c) = "prune", Accepts(c),
         ByAdapter(S3DeleteIfMatch(cl[c].exp, cl[c].dprobe, "ok"),
                   GCSDeleteIfMatch(cl[c].exp, "ok"), AzDeleteIfMatch(cl[c].exp, "ok")) = "ok"
  PROVE  Sound(Role(c), cl[c].base, body[KeyOf(c)], body[KeyOf(c)])
<1>1. CloudCallerOK(c, cl[c])
  BY DEF IInv, CloudInv
<1>2. Store.delete /\ Distinct
  <2>1. CASE Store.adapter = "s3"
    <3>1. S3DeleteIfMatch(cl[c].exp, cl[c].dprobe, "ok") = "ok"
      BY <2>1 DEF ByAdapter
    <3>2. cl[c].dprobe = "enforced"
      BY <3>1 DEF S3DeleteIfMatch
    <3> QED BY <1>1, <3>2 DEF CloudCallerOK
  <2>2. CASE Store.adapter # "s3"
    BY <2>2, WorldFacts DEF IInv, Distinct
  <2> QED BY <2>1, <2>2
<1>3. ver[KeyOf(c)] = cl[c].exp
  <2>1. Accepts(c) = (body[KeyOf(c)] # 0 /\ (Store.delete => ver[KeyOf(c)] = cl[c].exp))
    BY DEF Accepts
  <2> QED BY <1>2, <2>1
<1> QED BY <1>1, <1>2, <1>3 DEF CloudCallerOK, Sound

LEMMA AccNextOK == IInv /\ AccInv /\ [Next]_vars => AccInv'
<1> SUFFICES ASSUME IInv, AccInv, [Next]_vars PROVE AccInv'
  OBVIOUS
<1>1. UNCHANGED world
  BY ZenonT(60) DEF Next, vars, Finished, FSBegin, FSOpen, FSVersion, FSList, FSOpenLock, FSFlock, FSInspect,
         FSWriteFirst, FSWriteSecond, FSRemove, FSForget, FSCrash, CloudBegin, CloudGet, CloudPut,
         CloudPutIfMatch, CloudDelete, CloudList, CloudEnsureDeletes, CloudDeleteIfMatch
<1>2. CASE UNCHANGED acc
  BY <1>1, <1>2 DEF AccInv, Sound, Local
<1>3. ASSUME NEW c \in Client, FSWriteSecond(c) PROVE AccInv'
  <2>1. Local /\ cl[c].pc = "rename"
    BY <1>3 DEF FSWriteSecond, FSAt
  <2>2. Replaced(c, cl[c].seen) \/ UNCHANGED acc
    BY <1>3 DEF FSWriteSecond, Written, WriteOrder
  <2> QED BY <1>1, <1>2, <2>1, <2>2, FSReplacedOK, ReplacedOK
<1>4. ASSUME NEW c \in Client, FSRemove(c) PROVE AccInv'
  <2>1. Local /\ cl[c].pc = "remove"
    BY <1>4 DEF FSRemove, FSAt
  <2>2. Replaced(c, cl[c].seen) \/ UNCHANGED acc
    BY <1>4 DEF FSRemove
  <2> QED BY <1>1, <1>2, <2>1, <2>2, FSReplacedOK, ReplacedOK
<1>5. ASSUME NEW c \in Client, CloudPut(c) PROVE AccInv'
  <2>1. Role(c) = "put" /\ (Replaced(c, body[KeyOf(c)]) \/ UNCHANGED acc)
    BY <1>5 DEF CloudPut, Uploaded
  <2>2. Sound(Role(c), cl[c].base, body[KeyOf(c)], body[KeyOf(c)])
    BY <2>1 DEF Sound
  <2> QED BY <1>1, <1>2, <2>1, <2>2, ReplacedOK
<1>6. ASSUME NEW c \in Client, CloudPutIfMatch(c) PROVE AccInv'
  <2>1. /\ ~Local /\ cl[c].pc = "call" /\ Role(c) \in {"mutate", "create"}
        /\ (Accepts(c) /\ Replaced(c, body[KeyOf(c)])) \/ UNCHANGED acc
    BY <1>6 DEF CloudPutIfMatch, CloudAt, Uploaded
  <2> QED BY <1>1, <1>2, <2>1, CloudReplacedOK, ReplacedOK
<1>7. ASSUME NEW c \in Client, CloudDeleteIfMatch(c) PROVE AccInv'
  <2>1. ~Local /\ cl[c].pc = "call" /\ Role(c) = "prune"
    BY <1>7 DEF CloudDeleteIfMatch, CloudAt
  <2>2. \/ UNCHANGED acc
        \/ /\ Accepts(c) /\ Replaced(c, body[KeyOf(c)])
           /\ ByAdapter(S3DeleteIfMatch(cl[c].exp, cl[c].dprobe, "ok"),
                        GCSDeleteIfMatch(cl[c].exp, "ok"), AzDeleteIfMatch(cl[c].exp, "ok")) = "ok"
    BY <1>7 DEF CloudDeleteIfMatch
  <2> QED BY <1>1, <1>2, <2>1, <2>2, CloudDeletedOK, ReplacedOK
<1>8. ASSUME NEW c \in Client,
             \/ FSBegin(c) \/ FSOpen(c) \/ FSVersion(c) \/ FSList(c) \/ FSOpenLock(c) \/ FSFlock(c)
             \/ FSInspect(c) \/ FSWriteFirst(c) \/ FSForget(c) \/ FSCrash(c)
             \/ CloudBegin(c) \/ CloudGet(c) \/ CloudDelete(c) \/ CloudList(c)
             \/ CloudEnsureDeletes(c)
      PROVE UNCHANGED acc
  BY <1>8 DEF FSBegin, FSOpen, FSVersion, FSList, FSOpenLock, FSFlock, FSInspect, FSWriteFirst,
              FSForget, FSCrash, CloudBegin, CloudGet, CloudDelete, CloudList, CloudEnsureDeletes,
              Written, WriteOrder
<1> QED BY <1>2, <1>3, <1>4, <1>5, <1>6, <1>7, <1>8 DEF Next, Finished, vars

LEMMA AccInvariant == Spec => []AccInv
<1>1. Init => AccInv
  BY DEF Init, BucketInit, AccInv
<1> QED BY <1>1, AccNextOK, Invariant, PTL DEF Spec

(* On every kind of bucket and with any number of callers, crashes and lost  *)
(* answers, a conditional write replaces what it was compared with, a        *)
(* write-once entry replaces nothing, and in a cloud no update of the lock   *)
(* store is lost (PutIfMatch of the four adapters, CASProbe.Ensure).         *)
THEOREM ReplacesWhatItSaw == Spec => []ReplacedAsSeen
<1>1. AccInv => ReplacedAsSeen
  BY DEF AccInv, Sound, ReplacedAsSeen, UpdatesKept
<1> QED BY <1>1, AccInvariant, PTL

(* Retention deletes the very object it listed, never one written since      *)
(* (DeleteIfMatch of the four adapters, ensureConditionalDeletes).           *)
THEOREM DeletesWhatItListed == Spec => []ListedIsDeleted
<1>1. AccInv => ListedIsDeleted
  BY DEF AccInv, Sound, ListedIsDeleted
<1> QED BY <1>1, AccInvariant, PTL

(* A verdict that a process keeps is true of the bucket, whatever requests   *)
(* of the probe failed (CASProbe.Ensure, probeConditionalWrites).            *)
THEOREM VerdictsHold == Spec => []VerdictsAreTrue
<1>1. IInv => VerdictsAreTrue
  BY DEF IInv, CloudInv, CloudCallerOK, Distinct, VerdictsAreTrue
<1> QED BY <1>1, Invariant, PTL

=============================================================================
