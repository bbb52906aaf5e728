-------------------------------- MODULE Buckets --------------------------------
(***************************************************************************)
(* Callers on a bucket of one of the kinds factory.Open knows, and what    *)
(* they may rely on whatever the kind.                                     *)
(***************************************************************************)
EXTENDS FilesystemBucket, CloudBucket

vars == <<world, body, ver, writes, cl, acc, locks>>

Init == FSInit /\ \E w \in Worlds : BucketInit(w)

Finished == (\A c \in Client : cl[c].pc = "done") /\ UNCHANGED vars

Next ==
  \/ \E c \in Client :
       \/ FSBegin(c) \/ FSOpen(c) \/ FSVersion(c) \/ FSList(c) \/ FSOpenLock(c) \/ FSFlock(c)
       \/ FSInspect(c) \/ FSWriteFirst(c) \/ FSWriteSecond(c) \/ FSRemove(c) \/ FSForget(c)
       \/ FSCrash(c)
       \/ CloudBegin(c) \/ CloudGet(c) \/ CloudPut(c) \/ CloudPutIfMatch(c) \/ CloudDelete(c) \/ CloudList(c)
       \/ CloudEnsureDeletes(c) \/ CloudDeleteIfMatch(c)
  \/ Finished

Spec == Init /\ [][Next]_vars

-----------------------------------------------------------------------------
(* A conditional update that took effect replaced exactly the contents its   *)
(* caller had read: no update of the lock store is lost.                     *)
UpdatesKept == \A a \in acc : a.role = "mutate" => a.base = a.over

(* What a conditional write replaces is what it compared with, whatever      *)
(* fails, crashes or races.  Between the comparison and the replacement      *)
(* nobody else touches the object: the lock files exclude each other.  A     *)
(* write-once entry replaces no object.  And on every provider, also one     *)
(* that ignores conditions or reuses ETags, no update is lost: the probe has *)
(* stopped the caller.                                                       *)
ReplacedAsSeen ==
  /\ \A a \in acc : a.seen = a.over
  /\ \A a \in acc : a.role = "create" => a.over = 0
  /\ ~Local => UpdatesKept

(* Retention deletes the very object it has listed, never one that was       *)
(* written since, also after a writer died between its two renames.          *)
ListedIsDeleted == \A a \in acc : a.role = "prune" => a.base = a.over

(* A verdict on the bucket that a process keeps is true of the bucket.       *)
VerdictsAreTrue ==
  ~Local =>
    \A c \in Client :
      /\ cl[c].probe = "enforced" => Store.create /\ Store.update
      /\ cl[c].probe = "unsupported" =>
           ~Store.create \/ ~Store.update \/ Store.etag \in {"none", "same"}
=============================================================================
