--------------------------- MODULE FilesystemBucket ---------------------------
(***************************************************************************)
(* filesystem.Store: an object is a file, its version a second file (the   *)
(* generation) or, for objects older than generations, the metadata of the *)
(* file.  Writers serialize on flock'ed shard files; readers take no lock. *)
(* Any process may die between two system calls, which releases its locks. *)
(***************************************************************************)
EXTENDS Bucket

CONSTANTS
  Shard,        \* the shard of each key
  Crashes       \* bound: processes that die

(* The caller is at a step of an operation on a filesystem. *)
FSAt(c, pc) == Local /\ cl[c].pc = pc

Paths == {<<"shard", Shard[k]>> : k \in Key} \cup {<<"legacy", k>> : k \in Key}

FSInit ==
  /\ node = [p \in Paths |-> [ino |-> 0, linked |-> FALSE]]
  /\ held = {}
  /\ crashes = 0

(* versionForInfo: the generation, if there is one; otherwise size and time  *)
(* of the file at hand, that is the file itself (a negative number).         *)
VersionOf(k, contents) == IF ver[k] # 0 THEN ver[k] ELSE -contents

(* PutIfMatch on the keys of the lock store takes the lock of the key before *)
(* that of the shard.                                                        *)
LockPaths(c) ==
  IF Role(c) \in {"mutate", "create"} /\ KeyOf(c) \in world.lockKeys
  THEN <<<<"legacy", KeyOf(c)>>, <<"shard", Shard[KeyOf(c)]>>>>
  ELSE <<<<"shard", Shard[KeyOf(c)]>>>>

(* Mutant of Release: the lock file is removed. *)
ReleaseUnlinked(c) ==
  /\ held' = {h \in held : h.by # c}
  /\ node' = [p \in Paths |->
                [node[p] EXCEPT !.linked = @ /\ [path |-> p, ino |-> node[p].ino, by |-> c] \notin held]]

(* fileLock.release: the lock is dropped, its file stays. *)
Release(c) ==
  /\ held' = {h \in held : h.by # c}
  /\ UNCHANGED node

(* The start of an operation. *)
FSBegin(c) ==
  /\ FSAt(c, "begin")
  /\ Set(c, [cl[c] EXCEPT
       !.pc = CASE Role(c) = "mutate" -> "read" [] Role(c) = "prune" -> "list" [] OTHER -> "lock",
       !.paths = IF Role(c) \in {"mutate", "prune"} THEN << >> ELSE LockPaths(c)])
  /\ UNCHANGED <<world, body, ver, writes, acc, locks>>

(* Get, first half: the file is opened.  An absent object reads as an empty  *)
(* one, to be created; any other failure ends the operation.                 *)
FSOpen(c) ==
  /\ FSAt(c, "read")
  /\ \/ Set(c, [cl[c] EXCEPT
          !.pc = IF body[KeyOf(c)] = 0 THEN "lock" ELSE "version",
          !.base = body[KeyOf(c)],
          !.paths = IF body[KeyOf(c)] = 0 THEN LockPaths(c) ELSE << >>])
     \/ Return(c)
  /\ UNCHANGED <<world, body, ver, writes, acc, locks>>

(* Get, second half: the generation is read, without a lock. *)
FSVersion(c) ==
  /\ FSAt(c, "version")
  /\ \/ Set(c, [cl[c] EXCEPT !.pc = "lock", !.exp = VersionOf(KeyOf(c), cl[c].base),
                             !.paths = LockPaths(c)])
     \/ Return(c)
  /\ UNCHANGED <<world, body, ver, writes, acc, locks>>

ShardFree(k) ==
  \A h \in held : h.path # <<"shard", Shard[k]>> \/ h.ino # node[h.path].ino

(* ListMetadata looks at one object under its shard lock; an object that has *)
(* gone is not listed.                                                       *)
FSList(c) ==
  /\ FSAt(c, "list")
  /\ ShardFree(KeyOf(c))
  /\ IF body[KeyOf(c)] = 0
     THEN Return(c)
     ELSE Set(c, [cl[c] EXCEPT !.pc = "lock", !.base = body[KeyOf(c)],
                               !.exp = VersionOf(KeyOf(c), body[KeyOf(c)]), !.paths = LockPaths(c)])
  /\ UNCHANGED <<world, body, ver, writes, acc, locks>>

(* acquireLockPath, first half: the lock file is opened, or created. *)
FSOpenLock(c) ==
  LET p == Head(cl[c].paths)
      i == IF node[p].linked THEN node[p].ino ELSE node[p].ino + 1
  IN /\ FSAt(c, "lock")
     /\ node' = [node EXCEPT ![p] = [ino |-> i, linked |-> TRUE]]
     /\ Set(c, [cl[c] EXCEPT !.pc = "flock", !.fd = i])
     /\ UNCHANGED <<world, body, ver, writes, acc, held, crashes>>

(* acquireLockPath, second half: flock on the inode that was opened. *)
FSFlock(c) ==
  LET p == Head(cl[c].paths) IN
  /\ FSAt(c, "flock")
  /\ \A h \in held : <<h.path, h.ino>> # <<p, cl[c].fd>>
  /\ held' = held \cup {[path |-> p, ino |-> cl[c].fd, by |-> c]}
  /\ Set(c, [cl[c] EXCEPT !.pc = IF Len(cl[c].paths) = 1 THEN "inspect" ELSE "lock",
                          !.paths = Tail(@), !.fd = 0])
  /\ UNCHANGED <<world, body, ver, writes, acc, node, crashes>>

(* What the operation does once it holds its locks: only "not there" is read *)
(* as absence.  Unconditional operations do not look.                        *)
Condition(c, readable) ==
  LET there == body[KeyOf(c)] # 0
      match == there /\ VersionOf(KeyOf(c), body[KeyOf(c)]) = cl[c].exp
  IN IF Role(c) \in {"put", "delete"} THEN "go"
     ELSE IF ~readable THEN "error"
     ELSE IF (IF Role(c) # "prune" /\ cl[c].exp = 0 THEN ~there ELSE match) THEN "go"
     ELSE "lost"

FSInspect(c) ==
  /\ FSAt(c, "inspect")
  /\ \E readable \in BOOLEAN, d \in {"go", "lost", "error"} :
       /\ d = Condition(c, readable)
       /\ \/ /\ d = "go"
             /\ Set(c, [cl[c] EXCEPT !.seen = body[KeyOf(c)],
                                     !.pc = IF Role(c) \in {"delete", "prune"} THEN "remove"
                                                                               ELSE "write"])
             /\ UNCHANGED <<held, node>>
          \/ d = "lost" /\ Release(c) /\ Lost(c)
          \/ d = "error" /\ Release(c) /\ Return(c)
  /\ UNCHANGED <<world, body, ver, writes, acc, crashes>>

(* Mutant of WriteOrder: the object before its version. *)
ObjectFirst == <<"object", "generation">>

(* writeAtomic publishes the generation before the object. *)
WriteOrder == <<"generation", "object">>

Written(c, what, n) ==
  IF what = "generation"
  THEN ver' = [ver EXCEPT ![KeyOf(c)] = n] /\ UNCHANGED <<body, acc>>
  ELSE body' = [body EXCEPT ![KeyOf(c)] = n] /\ Replaced(c, cl[c].seen) /\ UNCHANGED ver

(* writeAtomic up to its first rename: the temporary file is written; until  *)
(* here a failure has done nothing.                                          *)
FSWriteFirst(c) ==
  /\ FSAt(c, "write")
  /\ \/ /\ writes' = writes + 1
        /\ Written(c, WriteOrder[1], writes + 1)
        /\ Set(c, [cl[c] EXCEPT !.pc = "rename", !.num = writes + 1])
        /\ UNCHANGED <<held, node>>
     \/ Release(c) /\ Return(c) /\ UNCHANGED <<body, ver, writes, acc>>
  /\ UNCHANGED <<world, crashes>>

(* The second rename, after which the locks are released.  If it fails, the  *)
(* old object keeps the new generation.                                      *)
FSWriteSecond(c) ==
  /\ FSAt(c, "rename")
  /\ \/ Written(c, WriteOrder[2], cl[c].num)
     \/ UNCHANGED <<body, ver, acc>>
  /\ Release(c)
  /\ Return(c)
  /\ UNCHANGED <<world, writes, crashes>>

(* Delete and DeleteIfMatch: the file, then its generation. *)
FSRemove(c) ==
  /\ FSAt(c, "remove")
  /\ \/ /\ body' = [body EXCEPT ![KeyOf(c)] = 0]
        /\ Replaced(c, cl[c].seen)
        /\ Set(c, [cl[c] EXCEPT !.pc = "forget"])
        /\ UNCHANGED <<held, node>>
     \/ Release(c) /\ Return(c) /\ UNCHANGED <<body, acc>>
  /\ UNCHANGED <<world, ver, writes, crashes>>

FSForget(c) ==
  /\ FSAt(c, "forget")
  /\ \/ ver' = [ver EXCEPT ![KeyOf(c)] = 0]
     \/ UNCHANGED ver
  /\ Release(c)
  /\ Return(c)
  /\ UNCHANGED <<world, body, writes, acc, crashes>>

(* The process dies; the kernel drops its locks. *)
FSCrash(c) ==
  /\ crashes < Crashes
  /\ Local
  /\ cl[c].pc \notin {"begin", "done"}
  /\ crashes' = crashes + 1
  /\ held' = {h \in held : h.by # c}
  /\ Set(c, [Caller EXCEPT !.pc = "done", !.n = 0])
  /\ UNCHANGED <<world, body, ver, writes, acc, node>>

=============================================================================
