------------------------------ MODULE MCBuckets ------------------------------
(* Instances of Buckets for TLC. *)
EXTENDS Buckets, TLC

CONSTANTS k1, k2, m1, m2, x, y

(* Both keys share a shard. *)
MCShard == [k \in Key |-> 0]

World(store, r, keys, contents, versions) ==
  [store |-> store, callers |-> DOMAIN r, lockKeys |-> {k1},
   role |-> [c \in Client |-> IF c \in DOMAIN r THEN r[c] ELSE "put"],
   key |-> [c \in Client |-> IF c \in DOMAIN keys THEN keys[c] ELSE k1],
   body |-> contents, ver |-> versions]

FS == [adapter |-> "filesystem", create |-> TRUE, update |-> TRUE, delete |-> TRUE, etag |-> "fresh"]

Providers ==
  [adapter : {"gcs", "azblob"}, create : {TRUE}, update : {TRUE}, delete : {TRUE}, etag : {"fresh"}]
  \cup
  [adapter : {"s3"}, create : BOOLEAN, update : BOOLEAN, delete : BOOLEAN,
   etag : {"fresh", "same", "none", "on_read"}]

Absent == [k \in Key |-> 0]
There  == k1 :> 1 @@ k2 :> 0
Versions(s) == IF s.etag = "none" THEN Absent ELSE There

(* Who meets whom: two read-modify-writes; two write-once; a writer and      *)
(* retention; deletions.  Objects that predate generations have no version.  *)
Meetings ==
  { [r |-> m1 :> "mutate" @@ m2 :> "mutate", k |-> << >>],
    [r |-> m1 :> "create" @@ m2 :> "create" @@ x :> "delete", k |-> << >>],
    [r |-> m1 :> "mutate" @@ m2 :> "create" @@ x :> "put", k |-> m2 :> k2],
    [r |-> x :> "put" @@ y :> "prune", k |-> << >>],
    [r |-> m1 :> "mutate" @@ y :> "prune" @@ x :> "delete", k |-> << >>] }

MCWorlds ==
  { World(FS, m.r, m.k, b, v) :
      m \in Meetings, b \in {Absent, There}, v \in {Absent, There} }
  \cup { World(s, m.r, m.k, b, IF b = Absent THEN Absent ELSE Versions(s)) :
      s \in Providers, m \in Meetings, b \in {Absent, There} }

LocalWorlds == {w \in MCWorlds : w.store = FS}
=============================================================================
