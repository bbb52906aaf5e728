-------------------------------- MODULE Bucket --------------------------------
(***************************************************************************)
(* The bucket as the rest of reeve uses it (blob.Store): the objects, the  *)
(* callers and what their conditional calls replaced.  FilesystemBucket    *)
(* and CloudBucket give the operations.                                    *)
(*                                                                         *)
(* A caller has one role: `mutate' is a read-modify-write (the lock store),*)
(* `create' a write-once (the audit log), `put' and `delete' are           *)
(* unconditional, `prune' deletes what it has listed (retention).          *)
(***************************************************************************)
EXTENDS Integers, FiniteSets, Sequences

CONSTANTS
  Client,       \* callers, each in a process of its own
  Key,          \* object keys
  Rounds,       \* bound: the operations a caller performs
  Worlds        \* what there is in the beginning: the store, its contents, the
                \* callers that take part, their roles and keys

ASSUME RoundsAssumption == Rounds \in Nat \ {0}

ASSUME KeyAssumption == IsFiniteSet(Key)

(* Contents and versions in the beginning are those of earlier writes, and   *)
(* where a cloud provider tells versions apart, what is there has one.  GCS  *)
(* and Azure delete on condition, and no two writes have the same version.   *)
ASSUME WorldsAssumption ==
  \A w \in Worlds :
    /\ w.role \in [Client -> {"mutate", "create", "put", "delete", "prune"}]
    /\ w.key \in [Client -> Key]
    /\ w.body \in [Key -> 0..Cardinality(Key)] /\ w.ver \in [Key -> 0..Cardinality(Key)]
    /\ w.store.adapter # "filesystem" /\ w.store.etag \notin {"none", "same"} =>
         \A k \in Key : w.ver[k] = 0 <=> w.body[k] = 0
    /\ w.store.adapter \in {"filesystem", "s3", "gcs", "azblob"}
    /\ w.store.adapter \in {"gcs", "azblob"} => w.store.delete /\ w.store.etag = "fresh"

VARIABLES
  world,        \* the member of Worlds that was chosen
  body,         \* contents of each object, named by the write that made them; 0: absent
  ver,          \* version stored with each object; 0: none
  writes,       \* number of writes so far
  cl,           \* local state of each caller
  node, held,   \* a filesystem's lock files: the inodes, and who has locked them
  crashes,      \* processes that died
  acc           \* history: what each effective call replaced

locks == <<node, held, crashes>>

(* factory.Open: "filesystem" (also the default), "s3" and "r2", "gcs" or    *)
(* "azblob".                                                                 *)
Local == world.store.adapter = "filesystem"
Role(c) == world.role[c]
KeyOf(c) == world.key[c]

(* A caller before and between operations.  `base' and `exp' are the         *)
(* contents and version it read, `seen' the contents its condition was       *)
(* compared with, `paths' and `fd' the lock files still to take and the one  *)
(* opened, `num' the number of its write, `probe' and `dprobe' the verdicts  *)
(* its process remembers.                                                    *)
Caller == [pc |-> "begin", n |-> Rounds, base |-> 0, exp |-> 0, seen |-> 0, num |-> 0,
           paths |-> << >>, fd |-> 0, probe |-> "unknown", dprobe |-> "unknown"]

Set(c, rec) == cl' = [cl EXCEPT ![c] = rec]

(* The operation has returned; the caller may start another. *)
Return(c) ==
  Set(c, [Caller EXCEPT !.pc = IF cl[c].n = 1 THEN "done" ELSE "begin", !.n = cl[c].n - 1,
                        !.probe = cl[c].probe, !.dprobe = cl[c].dprobe])

(* A lost race: the lock store reads again; others give up. *)
Lost(c) ==
  IF Role(c) = "mutate"
  THEN Set(c, [cl[c] EXCEPT !.pc = "read", !.base = 0, !.exp = 0, !.seen = 0, !.paths = << >>,
                            !.fd = 0])
  ELSE Return(c)

Replaced(c, seen) ==
  acc' = acc \cup {[role |-> Role(c), base |-> cl[c].base, seen |-> seen, over |-> body[KeyOf(c)]]}

BucketInit(w) ==
  /\ world = w
  /\ body = w.body
  /\ ver = w.ver
  /\ writes = Cardinality(Key)
  /\ cl = [c \in Client |-> IF c \in w.callers THEN Caller ELSE [Caller EXCEPT !.pc = "done"]]
  /\ acc = {}
=============================================================================
