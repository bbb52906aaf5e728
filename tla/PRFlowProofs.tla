----------------------------- MODULE PRFlowProofs -----------------------------
(***************************************************************************)
(* Proofs about PRFlow: what an apply executes was previewed for its       *)
(* commit, the newest preview decides, and retention keeps what is young.  *)
(***************************************************************************)
EXTENDS PRFlow, Messages, FiniteSetTheorems, WellFoundedInduction, TLAPS

Key(m) == ManifestKey(m.id, m.sha)

(* Older than retention keeps: a listing now would name it. *)
Expired(t) == t + Retention < now

(* Process v, whose name is the version of what it writes, is past the write *)
(* of key k.                                                                 *)
Used(v, k) ==
  /\ v \in Preview /\ k.kind = "manifest" => pv[v].pc = "done"
  /\ v \in Preview /\ k.kind = "plan" =>
       \/ pv[v].pc = "done"
       \/ pv[v].pc \in {"plan", "put"} /\ k.stack \notin pv[v].todo
  /\ v \in Apply /\ k.kind = "applied" => ap[v].pc = "done"

PreviewOK(p, r) ==
  /\ DOMAIN r = {"pc", "sha", "tree", "todo", "res", "at"}
  /\ r.pc \in {"new", "plan", "put", "done"}
  /\ r.at \in Nat /\ r.at <= now
  /\ r.pc \in {"plan", "put"} /\ p \in Expected => r.tree = r.sha

(* Of a preview that has not ended there is no manifest, and what is stored  *)
(* under its run is its own.                                                 *)
OwnRun(p) ==
  pv[p].pc # "done" =>
    /\ \A m \in stored : m.id # Ident[p]
    /\ \A k \in DOMAIN obj : k.kind = "plan" /\ k.id = Ident[p] => obj[k].body.by = p

ObjectOK(k, o) ==
  /\ o.mod \in Int /\ o.mod <= now
  /\ k.kind = "manifest" => o.body \in stored /\ k = Key(o.body) /\ o.body.created <= o.mod
  /\ k.kind = "plan" /\ o.body.by \in Expected => o.body.tree = k.sha

(* A manifest that was stored is there, or it is old. *)
StoredOK(m) ==
  /\ m.id \in Nat \X Nat /\ m.created \in Int
  /\ Key(m) \in DOMAIN obj \/ Expired(m.created)
  /\ \A k \in DOMAIN obj : k.kind = "plan" /\ k.id = m.id => obj[k].body.by = m.by

ListedOK(e) ==
  /\ Used(e.ver, e.key)
  /\ e.key \in DOMAIN obj /\ obj[e.key].ver = e.ver => Expired(obj[e.key].mod)

ApplyOK(a, r) ==
  /\ DOMAIN r = {"pc", "sha", "tree", "keys", "snap", "age", "lost", "todo", "clean", "known"}
  /\ r.pc \in {"new", "load", "scope", "revalidate", "loop", "done"}
  /\ r.age \in Int /\ r.known \subseteq stored
  /\ r.pc \in {"new", "load"} => r.snap = Nothing
  /\ r.pc \in {"load", "scope", "revalidate", "loop"} /\ a \in Expected => r.tree = r.sha
  /\ \A m \in r.known : m.sha = r.sha
  /\ r.pc = "load" =>
       /\ \A k \in r.keys : k.kind = "manifest" /\ k.sha = r.sha
       /\ \A m \in r.known : Key(m) \in r.keys \/ Expired(m.created)
  /\ r.snap # Nothing =>
       /\ r.snap \in stored /\ r.snap.sha = r.sha
       /\ \A m \in r.known :
            NotNewer(m, r.snap) \/ m.created + Retention < r.snap.created + r.age

PvInv == pv = [p \in Preview |-> pv[p]] /\ \A p \in Preview : PreviewOK(p, pv[p])
OwnInv == \A p \in Preview : OwnRun(p)
ObjInv == IsFiniteSet(DOMAIN obj) /\ \A k \in DOMAIN obj : ObjectOK(k, obj[k])
UsedInv == \A k \in DOMAIN obj : Used(obj[k].ver, k)
StoredInv ==
  /\ \A m \in stored : StoredOK(m)
  /\ \A m, n \in stored : Key(m) = Key(n) => m = n
GcInv == \A e \in gc : ListedOK(e)
ApInv == ap = [a \in Apply |-> ap[a]] /\ \A a \in Apply : ApplyOK(a, ap[a])
RanInv == \A e \in ran : e.run \in Apply /\ ap[e.run].pc \in {"loop", "done"}

IInv ==
  /\ now \in Nat /\ PvInv /\ OwnInv /\ ObjInv /\ UsedInv /\ StoredInv /\ GcInv /\ ApInv
  /\ RanInv
-----------------------------------------------------------------------------
(* NewestPreviewManifest has a newest manifest to choose. *)

(* newerPreviewRunID orders the manifests of a commit strictly and totally. *)
LEMMA NewerIsStrictOrder ==
  ASSUME NEW m, NEW n, NEW l, m.created \in Int, n.created \in Int, l.created \in Int,
         m.id \in Nat \X Nat, n.id \in Nat \X Nat, l.id \in Nat \X Nat
  PROVE  /\ m.id # n.id => NewerPreview(m, n) \/ NewerPreview(n, m)
         /\ NewerPreview(m, n) /\ NewerPreview(n, l) => NewerPreview(m, l)
         /\ NewerPreview(m, n) => NotNewer(n, m)
<1>1. /\ m.id[1] \in Int /\ m.id[2] \in Int /\ m.id = <<m.id[1], m.id[2]>>
      /\ n.id[1] \in Int /\ n.id[2] \in Int /\ n.id = <<n.id[1], n.id[2]>>
      /\ l.id[1] \in Int /\ l.id[2] \in Int
  OBVIOUS
<1> QED BY <1>1 DEF NewerPreview, NotNewer

(* Every nonempty set of naturals has a least element. *)
LEMMA LeastOf ==
  ASSUME NEW S \in SUBSET Nat, S # {}
  PROVE  \E m \in S : \A x \in S : m <= x
<1>1. PICK m \in S : \A y \in S : ~ (<<y, m>> \in OpToRel(<, Nat))
  BY NatLessThanWellFounded, WFMin
<1>2. \A y \in S : ~ (y < m)
  BY <1>1 DEF OpToRel
<1> QED BY <1>2

(* A finite set of manifests of distinct runs has a newest one.             *)
LEMMA NewestExists ==
  ASSUME NEW ms, IsFiniteSet(ms), ms # {},
         \A m \in ms : m.id \in Nat \X Nat /\ m.created \in Int,
         \A m, n \in ms : m.id = n.id => m = n
  PROVE  \E m \in ms : \A n \in ms \ {m} : NewerPreview(m, n)
<1>1. PICK len \in Nat : ExistsSurjection(1..len, ms)
  BY FS_NatSurjection
<1>2. PICK f \in [1..len -> ms] : \A m \in ms : \E i \in 1..len : f[i] = m
  BY <1>1 DEF ExistsSurjection, Surjection
<1> DEFINE Top(t, i) == \A j \in 1..i : f[j] = f[t] \/ NewerPreview(f[t], f[j])
           Bad == {i \in 1..len : \A t \in 1..i : ~Top(t, i)}
<1>3. len >= 1
  BY <1>2
<1>4. ASSUME Bad # {} PROVE FALSE
  <2>0. Bad \in SUBSET Nat
    OBVIOUS
  <2>1. PICK i \in Bad : \A x \in Bad : i <= x
    <3> HIDE DEF Bad
    <3> QED BY <2>0, <1>4, LeastOf
  <2>2. i \in 1..len /\ i # 1
    <3>1. Top(1, 1)
      OBVIOUS
    <3> QED BY <2>1, <3>1
  <2>3. i - 1 \in 1..len /\ i - 1 \notin Bad
    <3>1. i - 1 \in 1..len /\ i \in Int /\ ~(i <= i - 1)
      BY <2>2
    <3> HIDE DEF Bad
    <3> QED BY <2>1, <3>1
  <2>4. PICK t \in 1..(i-1) : Top(t, i - 1)
    BY <2>3
  <2>5. t \in 1..len /\ t \in 1..i /\ i \in 1..i
    BY <2>2
  <2>6. CASE f[i] = f[t] \/ NewerPreview(f[t], f[i])
    <3>1. Top(t, i)
      BY <2>2, <2>4, <2>6
    <3> QED BY <3>1, <2>1, <2>5
  <2>7. CASE f[i] # f[t] /\ ~NewerPreview(f[t], f[i])
    <3>1. f[i] \in ms /\ f[t] \in ms
      BY <1>2, <2>2, <2>5
    <3>2. NewerPreview(f[i], f[t])
      BY <3>1, <2>7, NewerIsStrictOrder
    <3>3. Top(i, i)
      <4> SUFFICES ASSUME NEW j \in 1..i, f[j] # f[i] PROVE NewerPreview(f[i], f[j])
        OBVIOUS
      <4>1. j \in 1..(i-1) /\ f[j] \in ms
        BY <1>2, <2>2
      <4>2. f[j] = f[t] \/ NewerPreview(f[t], f[j])
        BY <2>4, <4>1
      <4> QED BY <4>1, <4>2, <3>1, <3>2, NewerIsStrictOrder
    <3> QED BY <3>3, <2>1, <2>5
  <2> QED BY <2>6, <2>7
<1>5. PICK t \in 1..len : Top(t, len)
  <2>1. len \in 1..len /\ len \notin Bad
    <3>1. len \in 1..len
      BY <1>3
    <3> HIDE DEF Bad
    <3> QED BY <1>4, <3>1
  <2> QED BY <2>1
<1>6. \A n \in ms \ {f[t]} : NewerPreview(f[t], n)
  BY <1>5, <1>2
<1> QED BY <1>6, <1>2

-----------------------------------------------------------------------------
(* The inductive invariant. *)

LEMMA FreshApplyOK ==
  ASSUME NEW a
  PROVE  /\ ApplyOK(a, NewApply) /\ ApplyOK(a, Ended(NewApply))
         /\ NewApply.pc = "new" /\ Ended(NewApply).pc = "done"
  BY DEF ApplyOK, NewApply, Ended

LEMMA FreshPreviewOK ==
  ASSUME NEW p, now \in Nat
  PROVE  /\ PreviewOK(p, NewPreview) /\ PreviewOK(p, Ended(NewPreview))
         /\ NewPreview.pc = "new" /\ Ended(NewPreview).pc = "done"
  BY DEF PreviewOK, NewPreview, Ended

(* What earlier processes left in the bucket satisfies it.                  *)
LEMMA InitOK == Init => IInv
<1> SUFFICES ASSUME Init PROVE IInv
  OBVIOUS
<1>1. PICK st \in Setups :
        /\ obj = st.bucket
        /\ pv = [p \in Preview |-> IF p \in st.starts THEN NewPreview ELSE Ended(NewPreview)]
        /\ ap = [a \in Apply |-> IF a \in st.starts THEN NewApply ELSE Ended(NewApply)]
  BY DEF Init
<1>2. /\ now = 0 /\ gc = {} /\ ran = {}
      /\ stored = {obj[k].body : k \in {x \in DOMAIN obj : x.kind = "manifest"}}
  BY DEF Init
<1>3. /\ IsFiniteSet(DOMAIN obj)
      /\ \A k \in DOMAIN obj :
           /\ obj[k].mod \in Int /\ obj[k].mod <= 0 /\ obj[k].ver \notin st.starts
           /\ k.kind \in {"manifest", "plan"} =>
                \A p \in Preview \cap st.starts : k.id # Ident[p]
           /\ k.kind = "manifest" =>
                /\ k = Key(obj[k].body)
                /\ obj[k].body.id \in Nat \X Nat
                /\ obj[k].body.created \in Int /\ obj[k].body.created <= obj[k].mod
                /\ \A l \in DOMAIN obj :
                     l.kind = "plan" /\ l.id = k.id => obj[l].body.by = obj[k].body.by
           /\ k.kind = "plan" /\ obj[k].body.by \in Expected => obj[k].body.tree = k.sha
  BY <1>1, SetupsAssumption DEF Key, ManifestKey
<1>4. \A p \in Preview :
        /\ PreviewOK(p, pv[p]) /\ pv[p].pc \in {"new", "done"}
        /\ p \notin st.starts => pv[p].pc = "done"
  BY <1>1, <1>2, FreshPreviewOK
<1>5. \A a \in Apply :
        /\ ApplyOK(a, ap[a])
        /\ a \notin st.starts => ap[a].pc = "done"
  BY <1>1, FreshApplyOK
<1>6. \A m \in stored : \E k \in DOMAIN obj : k.kind = "manifest" /\ m = obj[k].body /\ k = Key(m)
  BY <1>2, <1>3
<1>7. \A k \in DOMAIN obj : k.kind = "manifest" => obj[k].body \in stored
  BY <1>2
<1>8. PvInv
  BY <1>1, <1>4 DEF PvInv
<1>9. OwnInv
  <2> SUFFICES ASSUME NEW p \in Preview, pv[p].pc # "done"
               PROVE  /\ \A m \in stored : m.id # Ident[p]
                      /\ \A k \in DOMAIN obj : k.kind = "plan" => k.id # Ident[p]
    BY DEF OwnInv, OwnRun
  <2>1. p \in Preview \cap st.starts
    BY <1>4
  <2>2. \A m \in stored : m.id # Ident[p]
    <3> SUFFICES ASSUME NEW m \in stored PROVE m.id # Ident[p]
      OBVIOUS
    <3>1. PICK k \in DOMAIN obj : k.kind = "manifest" /\ k = Key(m)
      BY <1>6
    <3>2. k.id = m.id
      BY <3>1 DEF Key, ManifestKey
    <3> QED BY <2>1, <3>1, <3>2, <1>3
  <2> QED BY <2>1, <2>2, <1>3
<1>10. ObjInv
  BY <1>2, <1>3, <1>7 DEF ObjInv, ObjectOK
<1>11. UsedInv
  BY <1>3, <1>4, <1>5 DEF UsedInv, Used
<1>12. StoredInv
  <2>1. \A m \in stored : StoredOK(m)
    <3> SUFFICES ASSUME NEW m \in stored PROVE StoredOK(m)
      OBVIOUS
    <3>1. PICK k \in DOMAIN obj : k.kind = "manifest" /\ m = obj[k].body /\ k = Key(m)
      BY <1>6
    <3>2. k.id = m.id
      BY <3>1 DEF Key, ManifestKey
    <3> QED BY <3>1, <3>2, <1>3 DEF StoredOK
  <2> QED BY <2>1, <1>6 DEF StoredInv
<1>13. ApInv
  BY <1>1, <1>5 DEF ApInv
<1> QED BY <1>2, <1>8, <1>9, <1>10, <1>11, <1>12, <1>13 DEF IInv, GcInv, RanInv

(* Time makes things older. *)
LEMMA TickOK == IInv /\ Tick => IInv'
<1> SUFFICES ASSUME IInv, Tick PROVE IInv'
  OBVIOUS
<1>1. /\ now \in Nat /\ now' = now + 1 /\ Retention \in Nat
      /\ UNCHANGED <<obj, pv, ap, gc, ran, stored>>
  BY FreshnessAssumption DEF IInv, Tick
<1>2. \A t \in Int : Expired(t) => Expired(t)'
  BY <1>1 DEF Expired
<1>3. PvInv'
  BY <1>1 DEF IInv, PvInv, PreviewOK
<1>4. ObjInv'
  BY <1>1 DEF IInv, ObjInv, ObjectOK, Key, ManifestKey
<1>5. StoredInv'
  BY <1>1, <1>2 DEF IInv, StoredInv, StoredOK, Key, ManifestKey
<1>6. GcInv'
  BY <1>1, <1>2 DEF IInv, GcInv, ListedOK, Used, ObjInv, ObjectOK
<1>7. ApInv'
  <2> SUFFICES ASSUME NEW a \in Apply PROVE ApplyOK(a, ap[a])'
    BY <1>1 DEF IInv, ApInv
  <2>1. \A m \in ap[a].known : m.created \in Int
    BY DEF IInv, ApInv, ApplyOK, StoredInv, StoredOK
  <2> QED BY <1>1, <1>2, <2>1 DEF IInv, ApInv, ApplyOK, NotNewer, Key, ManifestKey
<1> QED BY <1>1, <1>3, <1>4, <1>5, <1>6, <1>7
     DEF IInv, OwnInv, OwnRun, UsedInv, Used, RanInv

LEMMA PushOK == IInv /\ Push => IInv'
  BY SMTT(30) DEF IInv, Push, PvInv, PreviewOK, OwnInv, OwnRun, ObjInv, ObjectOK, UsedInv, Used,
         StoredInv, StoredOK, GcInv, ListedOK, ApInv, ApplyOK, RanInv, Expired, Key, ManifestKey,
         NotNewer

-----------------------------------------------------------------------------
(* Retention. *)

(* What is listed was old when it was listed.                               *)
LEMMA PruneListOK == IInv /\ PruneList => IInv'
<1> SUFFICES ASSUME IInv, PruneList PROVE IInv'
  OBVIOUS
<1>1. /\ now \in Nat /\ Retention \in Nat /\ gc' = PruneCandidates(now - Retention)
      /\ UNCHANGED <<now, obj, pv, ap, ran, stored>>
  BY FreshnessAssumption DEF IInv, PruneList
<1>2. GcInv'
  <2> SUFFICES ASSUME NEW e \in gc' PROVE ListedOK(e)'
    BY DEF GcInv
  <2>1. PICK k \in DOMAIN obj : e = [key |-> k, ver |-> obj[k].ver] /\ obj[k].mod < now - Retention
    BY <1>1 DEF PruneCandidates
  <2>2. obj[k].mod \in Int /\ Used(obj[k].ver, k)
    BY DEF IInv, ObjInv, ObjectOK, UsedInv
  <2>3. Used(e.ver, e.key) /\ Expired(obj[e.key].mod)
    BY <1>1, <2>1, <2>2 DEF Expired
  <2> QED BY <1>1, <2>3 DEF ListedOK, Used, Expired
<1> QED BY <1>1, <1>2
     DEF IInv, PvInv, PreviewOK, OwnInv, OwnRun, ObjInv, ObjectOK, UsedInv, Used,
         StoredInv, StoredOK, ApInv, ApplyOK, RanInv, Expired, Key, ManifestKey, NotNewer

(* What an entry of the listing deletes is old, also when the object under   *)
(* its key was replaced since.                                               *)
LEMMA DeletesOld ==
  ASSUME IInv, PruneOne
  PROVE  /\ UNCHANGED <<now, pv, ap, ran, stored>>
         /\ gc' \subseteq gc
         /\ DOMAIN obj' \subseteq DOMAIN obj
         /\ \A k \in DOMAIN obj' : obj'[k] = obj[k]
         /\ \A k \in DOMAIN obj \ DOMAIN obj' : Expired(obj[k].mod)
<1>1. PICK e \in gc :
        /\ gc' = gc \ {e} /\ UNCHANGED <<now, pv, ap, ran, stored>>
        /\ \/ obj' = [k \in DOMAIN obj \ DeletedByPrune(e) |-> obj[k]]
           \/ UNCHANGED obj
  BY DEF PruneOne
<1>2. \A k \in DeletedByPrune(e) : Expired(obj[k].mod)
  BY <1>1 DEF DeletedByPrune, IInv, GcInv, ListedOK
<1>3. CASE obj' = [k \in DOMAIN obj \ DeletedByPrune(e) |-> obj[k]]
  BY <1>1, <1>2, <1>3
<1>4. CASE UNCHANGED obj
  BY <1>1, <1>4
<1> QED BY <1>1, <1>3, <1>4

(* A manifest that is deleted is old.                                       *)
LEMMA PruneOneOK == IInv /\ PruneOne => IInv'
<1> SUFFICES ASSUME IInv, PruneOne PROVE IInv'
  OBVIOUS
<1>1. /\ UNCHANGED <<now, pv, ap, ran, stored>>
      /\ gc' \subseteq gc
      /\ DOMAIN obj' \subseteq DOMAIN obj
      /\ \A k \in DOMAIN obj' : obj'[k] = obj[k]
      /\ \A k \in DOMAIN obj \ DOMAIN obj' : Expired(obj[k].mod)
  BY DeletesOld
<1>2. now \in Nat /\ Retention \in Nat
  BY FreshnessAssumption DEF IInv
<1>3. ObjInv'
  <2>1. IsFiniteSet(DOMAIN obj')
    BY <1>1, FS_Subset DEF IInv, ObjInv
  <2> QED BY <1>1, <2>1 DEF IInv, ObjInv, ObjectOK, Key, ManifestKey
<1>4. StoredInv'
  <2>1. \A m \in stored : StoredOK(m)'
    <3> SUFFICES ASSUME NEW m \in stored PROVE StoredOK(m)'
      OBVIOUS
    <3>1. StoredOK(m)
      BY DEF IInv, StoredInv
    <3>2. CASE Key(m) \in DOMAIN obj /\ Key(m) \notin DOMAIN obj'
      <4>1. ObjectOK(Key(m), obj[Key(m)]) /\ Key(m).kind = "manifest"
        BY <3>2 DEF IInv, ObjInv, Key, ManifestKey
      <4>2. obj[Key(m)].body = m
        BY <4>1 DEF IInv, StoredInv, ObjectOK
      <4>3. Expired(m.created)
        BY <4>1, <4>2, <3>1, <3>2, <1>1, <1>2 DEF ObjectOK, StoredOK, Expired
      <4> QED BY <4>3, <3>1, <1>1 DEF StoredOK, Expired
    <3>3. CASE ~ (Key(m) \in DOMAIN obj /\ Key(m) \notin DOMAIN obj')
      BY <3>1, <3>3, <1>1 DEF StoredOK, Expired, Key, ManifestKey
    <3> QED BY <3>2, <3>3
  <2> QED BY <2>1, <1>1 DEF IInv, StoredInv, Key, ManifestKey
<1>5. GcInv'
  BY <1>1 DEF IInv, GcInv, ListedOK, Used, Expired
<1> QED BY <1>1, <1>3, <1>4, <1>5
     DEF IInv, PvInv, PreviewOK, OwnInv, OwnRun, UsedInv, Used,
         ApInv, ApplyOK, RanInv, Expired, Key, ManifestKey, NotNewer

-----------------------------------------------------------------------------
(* Writes. *)

LEMMA PutFacts ==
  ASSUME NEW k, NEW by, NEW body, obj' = Put(k, by, body)
  PROVE  /\ DOMAIN obj' = DOMAIN obj \cup {k}
         /\ obj'[k] = [ver |-> by, mod |-> now, body |-> body]
         /\ \A x \in DOMAIN obj : x # k => obj'[x] = obj[x]
  BY DEF Put

(* A process that writes a key it has not used replaces nothing that the     *)
(* retention job has listed.                                                 *)
LEMMA PutKeepsGc ==
  ASSUME IInv, NEW k, NEW by, NEW body, obj' = Put(k, by, body), ~Used(by, k),
         UNCHANGED <<now, gc>>, \A v, x : Used(v, x) => Used(v, x)'
  PROVE  GcInv'
<1> SUFFICES ASSUME NEW e \in gc PROVE ListedOK(e)'
  BY DEF GcInv
<1>1. ListedOK(e)
  BY DEF IInv, GcInv
<1>2. /\ DOMAIN obj' = DOMAIN obj \cup {k}
      /\ obj'[k] = [ver |-> by, mod |-> now, body |-> body]
      /\ \A x \in DOMAIN obj : x # k => obj'[x] = obj[x]
  BY PutFacts
<1>3. CASE e.key = k
  BY <1>1, <1>2, <1>3 DEF ListedOK
<1>4. CASE e.key # k
  BY <1>1, <1>2, <1>4 DEF ListedOK, Expired
<1> QED BY <1>3, <1>4

(* Writing an object that is as it should be keeps the others as they are.  *)
LEMMA PutKeepsObjects ==
  ASSUME ObjInv, now \in Nat, NEW k, NEW by, NEW body, obj' = Put(k, by, body),
         UNCHANGED now, stored \subseteq stored',
         k.kind = "manifest" => body \in stored' /\ k = Key(body) /\ body.created <= now,
         k.kind = "plan" /\ body.by \in Expected => body.tree = k.sha
  PROVE  ObjInv'
<1>1. /\ DOMAIN obj' = DOMAIN obj \cup {k}
      /\ obj'[k] = [ver |-> by, mod |-> now, body |-> body]
      /\ \A x \in DOMAIN obj : x # k => obj'[x] = obj[x]
  BY PutFacts
<1>2. IsFiniteSet(DOMAIN obj')
  BY <1>1, FS_AddElement DEF ObjInv
<1>3. ASSUME NEW x \in DOMAIN obj' PROVE ObjectOK(x, obj[x])'
  <2>1. CASE x = k
    BY <1>1, <2>1 DEF ObjectOK, Key, ManifestKey
  <2>2. CASE x # k
    BY <1>1, <2>2 DEF ObjInv, ObjectOK, Key, ManifestKey
  <2> QED BY <2>1, <2>2
<1> QED BY <1>2, <1>3 DEF ObjInv

-----------------------------------------------------------------------------
(* The preview. *)

(* A step of a preview: it starts, it plans, or it ends. *)
PreviewStep(p, rec) ==
  /\ pv' = [pv EXCEPT ![p] = rec]
  /\ pv[p].pc # "done"
  /\ \/ rec.pc = "done"
     \/ pv[p].pc = "new"
     \/ /\ pv[p].pc = "plan" /\ rec.pc \in {"plan", "put"}
        /\ rec.todo \subseteq pv[p].todo

LEMMA PreviewStepFacts ==
  ASSUME IInv, NEW p \in Preview, NEW rec, PreviewStep(p, rec), PreviewOK(p, rec),
         UNCHANGED <<now, ap>>
  PROVE  /\ PvInv' /\ pv'[p] = rec
         /\ \A q \in Preview : q # p => pv'[q] = pv[q]
         /\ \A v, k : Used(v, k) => Used(v, k)'
<1>1. /\ pv'[p] = rec /\ \A q \in Preview : q # p => pv'[q] = pv[q]
      /\ pv' = [q \in Preview |-> pv'[q]]
  BY DEF PreviewStep, IInv, PvInv
<1>2. PvInv'
  BY <1>1 DEF IInv, PvInv, PreviewOK
<1>3. ASSUME NEW v, NEW k, Used(v, k) PROVE Used(v, k)'
  <2>1. CASE v = p
    BY <1>1, <1>3, <2>1 DEF Used, PreviewStep
  <2>2. CASE v # p
    BY <1>1, <1>3, <2>2 DEF Used
  <2> QED BY <2>1, <2>2
<1> QED BY <1>1, <1>2, <1>3

(* A step that touches nothing but the preview. *)
LEMMA QuietPreview ==
  ASSUME IInv, NEW p \in Preview, NEW rec, PreviewStep(p, rec), PreviewOK(p, rec),
         UNCHANGED <<now, obj, ap, gc, ran, stored>>
  PROVE  IInv'
<1>1. /\ PvInv' /\ pv'[p] = rec
      /\ \A q \in Preview : q # p => pv'[q] = pv[q]
      /\ \A v, k : Used(v, k) => Used(v, k)'
  BY PreviewStepFacts
<1>2. OwnInv'
  BY <1>1 DEF IInv, OwnInv, OwnRun, PreviewStep
<1>3. UsedInv'
  BY <1>1 DEF IInv, UsedInv
<1>4. GcInv'
  BY <1>1 DEF IInv, GcInv, ListedOK, Expired
<1> QED BY <1>1, <1>2, <1>3, <1>4
     DEF IInv, ObjInv, ObjectOK, StoredInv, StoredOK, ApInv, ApplyOK, RanInv, Expired, Key,
         ManifestKey, NotNewer

LEMMA ResolvePreviewOK ==
  ASSUME IInv, NEW p \in Preview, ResolvePreview(p)
  PROVE  IInv'
<1>1. /\ now \in Nat /\ PreviewOK(p, pv[p]) /\ pv[p].pc = "new"
      /\ UNCHANGED <<now, obj, ap, gc, ran, stored>>
  BY DEF IInv, PvInv, ResolvePreview
<1>2. CASE EndPreview(p)
  <2>1. PreviewStep(p, Ended(NewPreview)) /\ PreviewOK(p, Ended(NewPreview))
    BY <1>1, <1>2, FreshPreviewOK DEF PreviewStep, EndPreview, SetPreview
  <2> QED BY <1>1, <2>1, QuietPreview
<1>3. CASE ~EndPreview(p)
  <2>1. PICK tree \in Commit, target \in Scopes[p] \ {{}} :
        \E x \in PreviewSHAs(p, tree) :
          SetPreview(p, [pv[p] EXCEPT !.pc = "plan", !.sha = x, !.tree = tree,
                                      !.todo = target])
    BY <1>3 DEF ResolvePreview
  <2>0. PICK sha \in PreviewSHAs(p, tree) :
          SetPreview(p, [pv[p] EXCEPT !.pc = "plan", !.sha = sha, !.tree = tree,
                                      !.todo = target])
    BY <2>1
  <2> DEFINE rec == [pv[p] EXCEPT !.pc = "plan", !.sha = sha, !.tree = tree,
                                  !.todo = target]
  <2>2. p \in Expected => tree = sha
    BY DEF PreviewSHAs, ResolvedSHA
  <2>3. PreviewOK(p, rec)
    BY <1>1, <2>2 DEF PreviewOK
  <2>4. PreviewStep(p, rec)
    BY <1>1, <2>0 DEF PreviewStep, SetPreview
  <2> HIDE DEF rec
  <2> QED BY <1>1, <2>3, <2>4, QuietPreview
<1> QED BY <1>2, <1>3

(* A plan is stored under a run that has no manifest yet.                   *)
LEMMA PlanStackOK ==
  ASSUME IInv, NEW p \in Preview, PlanStack(p)
  PROVE  IInv'
<1>1. /\ now \in Nat /\ PreviewOK(p, pv[p]) /\ pv[p].pc = "plan" /\ OwnRun(p)
      /\ UNCHANGED <<now, ap, gc, ran, stored>>
  BY DEF IInv, PvInv, OwnInv, PlanStack
<1>2. PICK s \in pv[p].todo, status \in {"planned", "error"}, saved \in BOOLEAN :
       /\ obj' = IF saved
                 THEN Put(PlanArtifactKey(Ident[p], pv[p].sha, s), p,
                          [by |-> p, tree |-> pv[p].tree])
                 ELSE obj
       /\ SetPreview(p, [pv[p] EXCEPT
            !.todo = @ \ {s},
            !.res  = [x \in DOMAIN @ \cup {s} |->
                        IF x = s THEN [status |-> status, plan |-> saved] ELSE @[x]],
            !.pc   = IF pv[p].todo = {s} THEN "put" ELSE "plan",
            !.at   = now])
  BY ZenonT(60) DEF PlanStack
<1> DEFINE res == [x \in DOMAIN pv[p].res \cup {s} |->
                     IF x = s THEN [status |-> status, plan |-> saved] ELSE pv[p].res[x]]
           pc  == IF pv[p].todo = {s} THEN "put" ELSE "plan"
           todo == pv[p].todo \ {s}
           rec == [pv[p] EXCEPT !.todo = todo, !.res = res, !.pc = pc, !.at = now]
<1>3. pv' = [pv EXCEPT ![p] = rec]
  BY <1>2 DEF SetPreview
<1>4. pc \in {"plan", "put"}
  OBVIOUS
<1>5. PreviewOK(p, rec) /\ rec.todo = todo /\ rec.pc = pc
  <2> HIDE DEF pc, res, todo
  <2> QED BY <1>1, <1>4 DEF PreviewOK
<1>6. PreviewStep(p, rec)
  <2> HIDE DEF pc, rec
  <2> QED BY <1>1, <1>3, <1>4, <1>5 DEF PreviewStep
<1>7. CASE ~saved
  <2>1. obj' = obj
    BY <1>2, <1>7
  <2> HIDE DEF rec
  <2> QED BY <1>1, <1>5, <1>6, <2>1, QuietPreview
<1>8. CASE saved
  <2>0. PICK k, body : /\ k = PlanArtifactKey(Ident[p], pv[p].sha, s)
                       /\ body = [by |-> p, tree |-> pv[p].tree]
    OBVIOUS
  <2>1. obj' = Put(k, p, body)
    BY <1>2, <1>8, <2>0
  <2>2. /\ k.kind = "plan" /\ k.id = Ident[p] /\ k.sha = pv[p].sha /\ k.stack = s
        /\ body.by = p /\ body.tree = pv[p].tree
    BY <2>0 DEF PlanArtifactKey
  <2> HIDE DEF rec, pc
  <2>3. /\ PvInv' /\ pv'[p] = rec
        /\ \A q \in Preview : q # p => pv'[q] = pv[q]
        /\ \A v, x : Used(v, x) => Used(v, x)'
    BY <1>1, <1>5, <1>6, PreviewStepFacts
  <2>4. /\ DOMAIN obj' = DOMAIN obj \cup {k}
        /\ obj'[k] = [ver |-> p, mod |-> now, body |-> body]
        /\ \A x \in DOMAIN obj : x # k => obj'[x] = obj[x]
    BY <2>1, PutFacts
  <2>5. OwnInv'
    <3> SUFFICES ASSUME NEW q \in Preview, pv'[q].pc # "done" PROVE OwnRun(q)'
      BY DEF OwnInv, OwnRun
    <3>1. pv[q].pc # "done"
      BY <1>1, <2>3
    <3>2. OwnRun(q) /\ (Ident[q] = Ident[p] => q = p)
      BY IdentUnique DEF IInv, OwnInv
    <3> QED BY <1>1, <2>2, <2>4, <3>1, <3>2 DEF OwnRun
  <2>6. ObjInv'
    BY <1>1, <2>1, <2>2, PutKeepsObjects DEF IInv, PreviewOK
  <2>7. UsedInv'
    <3>1. Used(p, k)'
      BY <2>2, <2>3, <1>5, <1>4 DEF Used
    <3> SUFFICES ASSUME NEW x \in DOMAIN obj' PROVE Used(obj[x].ver, x)'
      BY DEF UsedInv
    <3>2. CASE x = k
      BY <2>4, <3>1, <3>2
    <3>3. CASE x # k
      BY <2>3, <2>4, <3>3 DEF IInv, UsedInv
    <3> QED BY <3>2, <3>3
  <2>8. StoredInv'
    <3>1. \A m \in stored : m.id # k.id
      BY <1>1, <2>2 DEF OwnRun
    <3> QED BY <1>1, <2>4, <3>1 DEF IInv, StoredInv, StoredOK, Key, ManifestKey, Expired
  <2>9. GcInv'
    <3>1. ~Used(p, k)
      BY <1>1, <2>2 DEF Used
    <3> QED BY <1>1, <2>1, <2>3, <3>1, PutKeepsGc
  <2> QED BY <1>1, <2>3, <2>5, <2>6, <2>7, <2>8, <2>9
       DEF IInv, ApInv, ApplyOK, RanInv, Expired, Key, ManifestKey, NotNewer
<1> QED BY <1>7, <1>8

(* The manifest of a run is stored once, beside the plans of that run.      *)
LEMMA PutManifestOK ==
  ASSUME IInv, NEW p \in Preview, PutManifest(p)
  PROVE  IInv'
<1>1. /\ now \in Nat /\ PreviewOK(p, pv[p]) /\ pv[p].pc = "put" /\ OwnRun(p)
      /\ UNCHANGED <<now, ap, gc, ran>>
      /\ pv' = [pv EXCEPT ![p] = Ended(NewPreview)]
  BY DEF IInv, PvInv, OwnInv, PutManifest, EndPreview, SetPreview
<1> DEFINE rec == Ended(NewPreview)
<1>2. PreviewStep(p, rec) /\ PreviewOK(p, rec) /\ rec.pc = "done"
  BY <1>1, FreshPreviewOK DEF PreviewStep
<1> HIDE DEF rec
<1>3. CASE UNCHANGED <<obj, stored>>
  BY <1>1, <1>2, <1>3, QuietPreview
<1>4. CASE /\ obj' = Put(ManifestKey(Ident[p], pv[p].sha), p, Manifest(p))
           /\ stored' = stored \cup {Manifest(p)}
  <2>0. PICK k, new : k = ManifestKey(Ident[p], pv[p].sha) /\ new = Manifest(p)
    OBVIOUS
  <2>1. /\ k.kind = "manifest" /\ k.id = Ident[p] /\ k = Key(new)
        /\ new.id = Ident[p] /\ new.by = p /\ new.created = pv[p].at
    BY <2>0 DEF Manifest, ManifestKey, Key
  <2>2. new.id \in Nat \X Nat /\ new.created \in Int /\ new.created <= now
    BY <1>1, <2>1, IdentAssumption DEF PreviewOK
  <2>3. obj' = Put(k, p, new) /\ stored' = stored \cup {new}
    BY <1>4, <2>0
  <2>4. /\ PvInv' /\ pv'[p] = rec
        /\ \A q \in Preview : q # p => pv'[q] = pv[q]
        /\ \A v, x : Used(v, x) => Used(v, x)'
    BY <1>1, <1>2, PreviewStepFacts
  <2>5. /\ DOMAIN obj' = DOMAIN obj \cup {k}
        /\ obj'[k] = [ver |-> p, mod |-> now, body |-> new]
        /\ \A x \in DOMAIN obj : x # k => obj'[x] = obj[x]
    BY <2>3, PutFacts
  <2>6. OwnInv'
    <3> SUFFICES ASSUME NEW q \in Preview, pv'[q].pc # "done" PROVE OwnRun(q)'
      BY DEF OwnInv, OwnRun
    <3>1. q # p /\ pv[q].pc # "done" /\ OwnRun(q) /\ Ident[q] # Ident[p]
      BY <1>2, <2>4, IdentUnique DEF IInv, OwnInv
    <3> QED BY <2>1, <2>3, <2>5, <3>1 DEF OwnRun
  <2>7. ObjInv'
    BY <1>1, <2>1, <2>2, <2>3, PutKeepsObjects DEF IInv
  <2>8. UsedInv'
    <3>1. Used(p, k)'
      BY <1>2, <2>1, <2>4 DEF Used
    <3> SUFFICES ASSUME NEW x \in DOMAIN obj' PROVE Used(obj[x].ver, x)'
      BY DEF UsedInv
    <3>2. CASE x = k
      BY <2>5, <3>1, <3>2
    <3>3. CASE x # k
      BY <2>4, <2>5, <3>3 DEF IInv, UsedInv
    <3> QED BY <3>2, <3>3
  <2>9. StoredInv'
    <3>1. StoredOK(new)'
      BY <1>1, <2>1, <2>2, <2>5 DEF OwnRun, StoredOK, Key, ManifestKey
    <3>2. \A m \in stored : StoredOK(m)'
      BY <1>1, <2>1, <2>5 DEF IInv, StoredInv, StoredOK, Key, ManifestKey, Expired
    <3>3. \A m \in stored : Key(m) # Key(new)
      BY <1>1, <2>1 DEF OwnRun, Key, ManifestKey
    <3> QED BY <2>3, <3>1, <3>2, <3>3 DEF IInv, StoredInv, Key, ManifestKey
  <2>10. GcInv'
    <3>1. ~Used(p, k)
      BY <1>1, <2>1 DEF Used
    <3> QED BY <1>1, <2>3, <2>4, <3>1, PutKeepsGc
  <2>11. ApInv'
    <3> SUFFICES ASSUME NEW a \in Apply PROVE ApplyOK(a, ap[a])'
      BY <1>1 DEF IInv, ApInv
    <3> QED BY <1>1, <2>3 DEF IInv, ApInv, ApplyOK, Expired, Key, ManifestKey, NotNewer
  <2> QED BY <1>1, <2>4, <2>6, <2>7, <2>8, <2>9, <2>10, <2>11 DEF IInv, RanInv
<1> QED BY <1>3, <1>4 DEF PutManifest

-----------------------------------------------------------------------------
(* The apply. *)

(* A step of an apply that writes nothing; what it makes the engine run, it  *)
(* runs in the loop.                                                         *)
LEMMA QuietApply ==
  ASSUME IInv, NEW a \in Apply, NEW rec, ApplyOK(a, rec), ap' = [ap EXCEPT ![a] = rec],
         ap[a].pc # "done", UNCHANGED <<now, obj, pv, gc, stored>>,
         ap[a].pc = "loop" => rec.pc \in {"loop", "done"},
         \A e \in ran' \ ran : e.run = a /\ ap[a].pc = "loop"
  PROVE  IInv' /\ ap'[a] = rec /\ \A b \in Apply : b # a => ap'[b] = ap[b]
<1>1. /\ ap'[a] = rec /\ \A b \in Apply : b # a => ap'[b] = ap[b]
      /\ ap' = [b \in Apply |-> ap'[b]]
  BY DEF IInv, ApInv
<1>2. \A v, k : Used(v, k) => Used(v, k)'
  BY <1>1 DEF Used
<1>3. ApInv'
  BY <1>1 DEF IInv, ApInv, ApplyOK, Expired, Key, ManifestKey, NotNewer
<1>4. UsedInv'
  BY <1>2 DEF IInv, UsedInv
<1>5. GcInv'
  BY <1>2 DEF IInv, GcInv, ListedOK, Expired
<1>6. RanInv'
  <2> SUFFICES ASSUME NEW e \in ran' PROVE e.run \in Apply /\ ap'[e.run].pc \in {"loop", "done"}
    BY DEF RanInv
  <2>1. CASE e \in ran
    BY <1>1, <2>1 DEF IInv, RanInv
  <2>2. CASE e \notin ran
    BY <1>1, <2>2
  <2> QED BY <2>1, <2>2
<1> QED BY <1>1, <1>3, <1>4, <1>5, <1>6
     DEF IInv, PvInv, PreviewOK, OwnInv, OwnRun, ObjInv, ObjectOK, StoredInv, StoredOK,
         Expired, Key, ManifestKey

LEMMA EndApplyOK ==
  ASSUME IInv, NEW a \in Apply, EndApply(a), ap[a].pc \notin {"loop", "done"},
         UNCHANGED <<now, obj, pv, gc, ran, stored>>
  PROVE  IInv'
<1>1. ApplyOK(a, Ended(NewApply)) /\ ap' = [ap EXCEPT ![a] = Ended(NewApply)]
  BY FreshApplyOK DEF EndApply, SetApply
<1> QED BY <1>1, QuietApply

(* The listing names every manifest of the commit, or it is old.            *)
LEMMA BindApplyOK ==
  ASSUME IInv, NEW a \in Apply, BindApply(a)
  PROVE  IInv'
<1>1. /\ ApplyOK(a, ap[a]) /\ ap[a].pc = "new"
      /\ UNCHANGED <<now, obj, pv, gc, ran, stored>>
  BY DEF IInv, ApInv, BindApply
<1>2. CASE EndApply(a)
  BY <1>1, <1>2, EndApplyOK
<1>3. CASE ~EndApply(a)
  <2>1. PICK tree \in Commit :
          /\ ResolvedSHA(a, tree) # Nothing
          /\ SetApply(a, [ap[a] EXCEPT !.pc = "load", !.sha = ResolvedSHA(a, tree),
                            !.tree = tree,
                            !.keys = PreviewManifestCandidates(ResolvedSHA(a, tree)),
                            !.known = {m \in stored : m.sha = ResolvedSHA(a, tree)}])
    BY <1>3 DEF BindApply
  <2>2. PICK sha : sha = ResolvedSHA(a, tree)
    OBVIOUS
  <2> DEFINE known == {m \in stored : m.sha = sha}
             keys  == PreviewManifestCandidates(sha)
             rec == [ap[a] EXCEPT !.pc = "load", !.sha = sha, !.tree = tree, !.keys = keys,
                                  !.known = known]
  <2>3. a \in Expected => tree = sha
    BY <2>1, <2>2 DEF ResolvedSHA
  <2>4. known \subseteq stored /\ \A m \in known : m.sha = sha
    OBVIOUS
  <2>5. \A k \in keys : k.kind = "manifest" /\ k.sha = sha
    BY DEF PreviewManifestCandidates
  <2>6. \A m \in known : Key(m) \in keys \/ Expired(m.created)
    BY DEF PreviewManifestCandidates, IInv, StoredInv, StoredOK, Key, ManifestKey
  <2>7. ApplyOK(a, rec) /\ rec.pc = "load"
    <3> HIDE DEF known, keys
    <3> QED BY <1>1, <2>3, <2>4, <2>5, <2>6 DEF ApplyOK
  <2>8. ap' = [ap EXCEPT ![a] = rec]
    BY <2>1, <2>2 DEF SetApply
  <2> HIDE DEF rec
  <2> QED BY <1>1, <2>7, <2>8, QuietApply
<1> QED BY <1>2, <1>3

(* Of manifests that are all there, the newest is chosen: of those that had  *)
(* been stored when they were listed, each is at most as new or was not      *)
(* listed.                                                                   *)
LEMMA BestIsNewest ==
  ASSUME IInv, NEW a \in Apply, ap[a].pc = "load",
         NEW ks, ks = ap[a].keys, ks \subseteq DOMAIN obj,
         NEW best, best = NewestPreviewManifest({obj[k].body : k \in ks}), best # Nothing
  PROVE  /\ best \in stored /\ best.sha = ap[a].sha /\ best.created \in Int
         /\ \A m \in ap[a].known : NotNewer(m, best) \/ Key(m) \notin ks
<1> DEFINE ms == {obj[k].body : k \in ks}
<1>1. ms # {}
  BY DEF NewestPreviewManifest
<1>2. \A k \in ks : /\ k.kind = "manifest" /\ k.sha = ap[a].sha
                    /\ obj[k].body \in stored /\ k = Key(obj[k].body)
  BY DEF IInv, ApInv, ApplyOK, ObjInv, ObjectOK
<1>3. \A m \in ms : /\ m \in stored /\ m.sha = ap[a].sha
                    /\ m.id \in Nat \X Nat /\ m.created \in Int
  <2> SUFFICES ASSUME NEW k \in ks
               PROVE  /\ obj[k].body \in stored /\ obj[k].body.sha = ap[a].sha
                      /\ obj[k].body.id \in Nat \X Nat /\ obj[k].body.created \in Int
    OBVIOUS
  <2>1. obj[k].body \in stored /\ k = Key(obj[k].body) /\ k.sha = ap[a].sha
    BY <1>2
  <2> QED BY <2>1 DEF IInv, StoredInv, StoredOK, Key, ManifestKey
<1>4. \A m, n \in ms : m.id = n.id => m = n
  BY <1>3 DEF IInv, StoredInv, Key
<1>5. IsFiniteSet(ms)
  <2>1. IsFiniteSet(ks)
    BY FS_Subset DEF IInv, ObjInv
  <2>2. [k \in ks |-> obj[k].body] \in Surjection(ks, ms)
    BY DEF Surjection
  <2> QED BY <2>1, <2>2, FS_Surjection DEF ExistsSurjection
<1>6. best \in ms /\ \A n \in ms \ {best} : NewerPreview(best, n)
  <2> HIDE DEF ms
  <2>1. \E m \in ms : \A n \in ms \ {m} : NewerPreview(m, n)
    BY <1>1, <1>3, <1>4, <1>5, NewestExists
  <2>2. best = CHOOSE m \in ms : \A n \in ms \ {m} : NewerPreview(m, n)
    BY <1>1 DEF NewestPreviewManifest, ms
  <2> QED BY <2>1, <2>2
<1>7. ASSUME NEW m \in ap[a].known PROVE NotNewer(m, best) \/ Key(m) \notin ks
  <2>1. m \in stored
    BY DEF IInv, ApInv, ApplyOK
  <2>2. CASE Key(m) \in ks
    <3>1. obj[Key(m)].body = m
      BY <1>2, <2>1, <2>2 DEF IInv, StoredInv
    <3>2. m \in ms /\ m.id \in Nat \X Nat /\ m.created \in Int
      BY <2>2, <3>1, <1>3
    <3>3. best.id \in Nat \X Nat /\ best.created \in Int
      BY <1>3, <1>6
    <3>4. CASE m = best
      BY <3>2, <3>4 DEF NotNewer
    <3>5. CASE m # best
      <4>1. NewerPreview(best, m)
        BY <1>6, <3>2, <3>5
      <4> QED BY <4>1, <3>2, <3>3, NewerIsStrictOrder
    <3> QED BY <3>4, <3>5
  <2> QED BY <2>1, <2>2
<1> QED BY <1>3, <1>6, <1>7

(* What is loaded is the newest, or the run goes on without or ends.        *)
LEMMA LoadPreviewSnapshotOK ==
  ASSUME IInv, NEW a \in Apply, LoadPreviewSnapshot(a)
  PROVE  IInv'
<1>1. /\ ApplyOK(a, ap[a]) /\ ap[a].pc = "load" /\ now \in Nat /\ Retention \in Nat
      /\ UNCHANGED <<now, obj, pv, gc, ran, stored>>
  BY FreshnessAssumption DEF IInv, ApInv, LoadPreviewSnapshot
<1>2. CASE EndApply(a)
  BY <1>1, <1>2, EndApplyOK
<1>3. CASE SetApply(a, [ap[a] EXCEPT !.pc = "scope", !.keys = {}, !.lost = TRUE])
  <2> DEFINE rec == [ap[a] EXCEPT !.pc = "scope", !.keys = {}, !.lost = TRUE]
  <2>1. ApplyOK(a, rec)
    BY <1>1 DEF ApplyOK
  <2>2. ap' = [ap EXCEPT ![a] = rec]
    BY <1>3 DEF SetApply
  <2> HIDE DEF rec
  <2> QED BY <1>1, <2>1, <2>2, QuietApply
<1>4. CASE ~EndApply(a) /\ ~SetApply(a, [ap[a] EXCEPT !.pc = "scope", !.keys = {}, !.lost = TRUE])
  <2>1. PICK ks, best : /\ ks = ap[a].keys
                        /\ best = NewestPreviewManifest({obj[k].body : k \in ks})
    OBVIOUS
  <2>2. PICK age : age = IF best = Nothing THEN 0 ELSE now - best.created
    OBVIOUS
  <2>3. /\ ks \subseteq DOMAIN obj
        /\ ap' = [ap EXCEPT ![a] = [ap[a] EXCEPT !.pc = "scope", !.keys = {}, !.snap = best,
                                                 !.age = age]]
    BY <1>4, <2>1, <2>2 DEF LoadPreviewSnapshot, SetApply
  <2> DEFINE rec == [ap[a] EXCEPT !.pc = "scope", !.keys = {}, !.snap = best, !.age = age]
  <2>4. best # Nothing =>
          /\ best \in stored /\ best.sha = ap[a].sha /\ best.created \in Int
          /\ \A m \in ap[a].known : NotNewer(m, best) \/ Expired(m.created)
    <3>1. best # Nothing =>
            /\ best \in stored /\ best.sha = ap[a].sha /\ best.created \in Int
            /\ \A m \in ap[a].known : NotNewer(m, best) \/ Key(m) \notin ks
      BY <1>1, <2>1, <2>3, BestIsNewest
    <3>2. \A m \in ap[a].known : Key(m) \in ks \/ Expired(m.created)
      BY <1>1, <2>1 DEF ApplyOK
    <3> QED BY <3>1, <3>2
  <2>5. age \in Int /\ (best # Nothing => best.created + age = now)
    BY <1>1, <2>2, <2>4
  <2>6. ApplyOK(a, rec)
    BY <1>1, <2>4, <2>5 DEF ApplyOK, Expired
  <2> HIDE DEF rec
  <2> QED BY <1>1, <2>3, <2>6, QuietApply DEF rec
<1> QED BY <1>2, <1>3, <1>4

LEMMA ScopeApplyOK ==
  ASSUME IInv, NEW a \in Apply, ScopeApply(a)
  PROVE  IInv'
<1>1. /\ ApplyOK(a, ap[a]) /\ ap[a].pc = "scope"
      /\ UNCHANGED <<now, obj, pv, gc, ran, stored>>
  BY DEF IInv, ApInv, ScopeApply
<1>2. CASE EndApply(a)
  BY <1>1, <1>2, EndApplyOK
<1>3. CASE ~EndApply(a)
  <2>1. PICK target : SetApply(a, [ap[a] EXCEPT !.pc = "revalidate", !.todo = target])
    BY <1>3 DEF ScopeApply
  <2> DEFINE rec == [ap[a] EXCEPT !.pc = "revalidate", !.todo = target]
  <2>2. ApplyOK(a, rec)
    BY <1>1 DEF ApplyOK
  <2>3. ap' = [ap EXCEPT ![a] = rec]
    BY <2>1 DEF SetApply
  <2> HIDE DEF rec
  <2> QED BY <1>1, <2>2, <2>3, QuietApply
<1> QED BY <1>2, <1>3

LEMMA RevalidateOK ==
  ASSUME IInv, NEW a \in Apply, Revalidate(a)
  PROVE  IInv'
<1>1. /\ ApplyOK(a, ap[a]) /\ ap[a].pc = "revalidate"
      /\ UNCHANGED <<now, obj, pv, gc, ran, stored>>
  BY DEF IInv, ApInv, Revalidate
<1>2. CASE EndApply(a)
  BY <1>1, <1>2, EndApplyOK
<1>3. CASE ~EndApply(a)
  <2> DEFINE rec == [ap[a] EXCEPT !.pc = "loop"]
  <2>1. ApplyOK(a, rec)
    BY <1>1 DEF ApplyOK
  <2>2. ap' = [ap EXCEPT ![a] = rec]
    BY <1>3 DEF Revalidate, SetApply
  <2> HIDE DEF rec
  <2> QED BY <1>1, <2>1, <2>2, QuietApply
<1> QED BY <1>2, <1>3

(* One stack: either its gates hold and the engine runs a plan of it, or     *)
(* nothing runs; the apply goes on in the loop.                              *)
LEMMA ApplyStackShape ==
  ASSUME IInv, NEW a \in Apply, ApplyStack(a)
  PROVE  /\ ap[a].pc = "loop" /\ UNCHANGED <<now, obj, pv, gc, stored>>
         /\ \E rec : /\ ap' = [ap EXCEPT ![a] = rec] /\ ApplyOK(a, rec)
                     /\ rec.pc = "loop" /\ rec.known = ap[a].known
         /\ \/ ran' = ran
            \/ \E s, plan :
                 /\ PreviewGates(a, s) /\ plan \in LockedPlans(a, s)
                 /\ ran' = ran \cup {[run |-> a, sha |-> ap[a].sha, stack |-> s, plan |-> plan,
                                      src |-> ap[a].snap]}
<1>1. /\ ApplyOK(a, ap[a]) /\ ap[a].pc = "loop"
      /\ UNCHANGED <<now, obj, pv, gc, stored>>
  BY DEF IInv, ApInv, ApplyStack
<1>2. PICK s \in ap[a].todo :
       \/ /\ PreviewGates(a, s)
          /\ \E plan \in LockedPlans(a, s) :
               ran' = ran \cup {[run |-> a, sha |-> ap[a].sha, stack |-> s, plan |-> plan,
                                 src |-> ap[a].snap]}
          /\ SetApply(a, [ap[a] EXCEPT !.todo = @ \ {s}])
       \/ /\ SetApply(a, [ap[a] EXCEPT !.todo = @ \ {s}, !.clean = FALSE])
          /\ UNCHANGED ran
  BY DEF ApplyStack
<1> DEFINE todo == ap[a].todo \ {s}
           ok  == [ap[a] EXCEPT !.todo = todo]
           bad == [ap[a] EXCEPT !.todo = todo, !.clean = FALSE]
<1>3. /\ ApplyOK(a, ok) /\ ok.pc = "loop" /\ ok.known = ap[a].known
      /\ ApplyOK(a, bad) /\ bad.pc = "loop" /\ bad.known = ap[a].known
  <2> HIDE DEF todo
  <2> QED BY <1>1 DEF ApplyOK
<1>4. \/ ap' = [ap EXCEPT ![a] = ok]
      \/ ap' = [ap EXCEPT ![a] = bad]
  BY <1>2 DEF SetApply
<1>5. \E rec : /\ ap' = [ap EXCEPT ![a] = rec] /\ ApplyOK(a, rec)
               /\ rec.pc = "loop" /\ rec.known = ap[a].known
  <2> HIDE DEF ok, bad
  <2> QED BY <1>3, <1>4
<1> QED BY <1>1, <1>2, <1>5

LEMMA ApplyStackOK ==
  ASSUME IInv, NEW a \in Apply, ApplyStack(a)
  PROVE  IInv'
<1>1. /\ ap[a].pc = "loop" /\ UNCHANGED <<now, obj, pv, gc, stored>>
      /\ \A e \in ran' \ ran : e.run = a
  BY ApplyStackShape
<1>2. PICK rec : ap' = [ap EXCEPT ![a] = rec] /\ ApplyOK(a, rec) /\ rec.pc = "loop"
  BY ApplyStackShape
<1> QED BY <1>1, <1>2, QuietApply

(* The applied marker is written once by an apply.                          *)
LEMMA FinishApplyOK ==
  ASSUME IInv, NEW a \in Apply, FinishApply(a)
  PROVE  /\ IInv' /\ UNCHANGED <<ran, stored>> /\ ap'[a].known = ap[a].known
         /\ \A b \in Apply : b # a => ap'[b] = ap[b]
<1> DEFINE rec == [ap[a] EXCEPT !.pc = "done"]
<1>1. /\ ApplyOK(a, ap[a]) /\ ap[a].pc = "loop" /\ now \in Nat
      /\ UNCHANGED <<now, pv, gc, ran, stored>>
      /\ obj' = IF ap[a].clean THEN Put(AppliedStateKey(ap[a].sha), a, Nothing) ELSE obj
      /\ ap' = [ap EXCEPT ![a] = rec]
  BY DEF IInv, ApInv, FinishApply, SetApply
<1>2. ApplyOK(a, rec) /\ rec.pc = "done" /\ rec.known = ap[a].known
  BY <1>1 DEF ApplyOK
<1> HIDE DEF rec
<1>3. CASE obj' = obj
  BY <1>1, <1>2, <1>3, QuietApply
<1>4. CASE obj' # obj
  <2>1. PICK k : k = AppliedStateKey(ap[a].sha)
    OBVIOUS
  <2>2. k.kind = "applied"
    BY <2>1 DEF AppliedStateKey
  <2>3. obj' = Put(k, a, Nothing)
    BY <1>1, <1>4, <2>1
  <2>4. /\ ap'[a] = rec /\ \A b \in Apply : b # a => ap'[b] = ap[b]
        /\ ap' = [b \in Apply |-> ap'[b]]
    BY <1>1 DEF IInv, ApInv
  <2>5. /\ DOMAIN obj' = DOMAIN obj \cup {k}
        /\ obj'[k] = [ver |-> a, mod |-> now, body |-> Nothing]
        /\ \A x \in DOMAIN obj : x # k => obj'[x] = obj[x]
    BY <2>3, PutFacts
  <2>6. \A v, x : Used(v, x) => Used(v, x)'
    BY <1>1, <1>2, <2>4 DEF Used
  <2>7. ObjInv'
    BY <1>1, <2>2, <2>3, PutKeepsObjects DEF IInv
  <2>8. UsedInv'
    <3> SUFFICES ASSUME NEW x \in DOMAIN obj' PROVE Used(obj[x].ver, x)'
      BY DEF UsedInv
    <3>1. CASE x = k
      BY <1>2, <2>2, <2>4, <2>5, <3>1 DEF Used
    <3>2. CASE x # k
      BY <2>5, <2>6, <3>2 DEF IInv, UsedInv
    <3> QED BY <3>1, <3>2
  <2>9. GcInv'
    <3>1. ~Used(a, k)
      BY <1>1, <2>2 DEF Used
    <3> QED BY <1>1, <2>3, <2>6, <3>1, PutKeepsGc
  <2>10. StoredInv'
    BY <1>1, <2>2, <2>5 DEF IInv, StoredInv, StoredOK, Key, ManifestKey, Expired
  <2>11. OwnInv'
    BY <1>1, <2>2, <2>5 DEF IInv, OwnInv, OwnRun
  <2>12. ApInv'
    BY <1>1, <1>2, <2>4 DEF IInv, ApInv, ApplyOK, Expired, Key, ManifestKey, NotNewer
  <2>13. RanInv'
    BY <1>1, <1>2, <2>4 DEF IInv, RanInv
  <2> QED BY <1>1, <1>2, <2>4, <2>7, <2>8, <2>9, <2>10, <2>11, <2>12, <2>13
       DEF IInv, PvInv, PreviewOK
<1> QED BY <1>3, <1>4

-----------------------------------------------------------------------------
LEMMA StutterOK == IInv /\ UNCHANGED vars => IInv'
  BY DEF IInv, vars, PvInv, PreviewOK, OwnInv, OwnRun, ObjInv, ObjectOK, UsedInv, Used,
         StoredInv, StoredOK, GcInv, ListedOK, ApInv, ApplyOK, RanInv, Expired, Key, ManifestKey,
         NotNewer

LEMMA NextOK == IInv /\ [Next]_vars => IInv'
<1> SUFFICES ASSUME IInv, [Next]_vars PROVE IInv'
  OBVIOUS
<1>1. CASE Push \/ Tick \/ PruneList \/ PruneOne \/ UNCHANGED vars
  BY <1>1, PushOK, TickOK, PruneListOK, PruneOneOK, StutterOK
<1>2. ASSUME NEW p \in Preview, ResolvePreview(p) \/ PlanStack(p) \/ PutManifest(p) PROVE IInv'
  BY <1>2, ResolvePreviewOK, PlanStackOK, PutManifestOK
<1>3. ASSUME NEW a \in Apply,
             \/ BindApply(a) \/ LoadPreviewSnapshot(a)
             \/ ScopeApply(a) \/ Revalidate(a) \/ ApplyStack(a) \/ FinishApply(a)
      PROVE  IInv'
  BY <1>3, BindApplyOK, LoadPreviewSnapshotOK, ScopeApplyOK, RevalidateOK, ApplyStackOK,
     FinishApplyOK
<1> QED BY <1>1, <1>2, <1>3 DEF Next

(* The invariant holds in every reachable state.                            *)
LEMMA Invariant == Spec => []IInv
<1>1. Init => IInv
  BY InitOK
<1>2. IInv /\ [Next]_vars => IInv'
  BY NextOK
<1> QED BY <1>1, <1>2, PTL DEF Spec

(* What the engine is made to run is the only thing added to the history.    *)
LEMMA RanOnlyInLoop ==
  ASSUME IInv, [Next]_vars
  PROVE  \/ ran' = ran
         \/ \E a \in Apply : ApplyStack(a)
  BY DEF Next, vars, Push, Tick, PruneList, PruneOne, ResolvePreview, PlanStack, PutManifest,
         BindApply, LoadPreviewSnapshot, ScopeApply, Revalidate, FinishApply

(* What an ordinary apply executes was previewed successfully for its        *)
(* commit, and comes from a checkout of it: whatever is pushed, however the  *)
(* base moves, and whatever else is previewed or deleted meanwhile.          *)
THEOREM AppliedIsPreviewed == Spec => []AppliedAsPreviewed
<1>1. Init => AppliedAsPreviewed
  BY DEF Init, AppliedAsPreviewed
<1>2. IInv /\ AppliedAsPreviewed /\ [Next]_vars => AppliedAsPreviewed'
  <2> SUFFICES ASSUME IInv, AppliedAsPreviewed, NEW a \in Apply, ApplyStack(a)
               PROVE  AppliedAsPreviewed'
    BY RanOnlyInLoop DEF AppliedAsPreviewed, Ordinary
  <2>1. CASE ran' = ran
    BY <2>1 DEF AppliedAsPreviewed, Ordinary
  <2>2. CASE ran' # ran
    <3>1. PICK s, plan :
            /\ PreviewGates(a, s) /\ plan \in LockedPlans(a, s)
            /\ ran' = ran \cup {[run |-> a, sha |-> ap[a].sha, stack |-> s, plan |-> plan,
                                 src |-> ap[a].snap]}
      BY <2>2, ApplyStackShape
    <3>2. PICK snap : snap = ap[a].snap
      OBVIOUS
    <3>3. ap[a].pc = "loop" /\ ApplyOK(a, ap[a])
      BY ApplyStackShape DEF IInv, ApInv
    <3> SUFFICES ASSUME a \notin BreakGlass
                 PROVE  /\ snap # Nothing /\ snap.sha = ap[a].sha
                        /\ s \in DOMAIN snap.res /\ snap.res[s].status # "error"
                        /\ plan.by \in {snap.by, a}
                        /\ a \in Expected /\ snap.by \in Expected => plan.tree = ap[a].sha
      BY <3>1, <3>2 DEF AppliedAsPreviewed, Ordinary
    <3>4. /\ snap # Nothing /\ s \in DOMAIN snap.res /\ snap.res[s].status # "error"
      BY <3>1, <3>2 DEF PreviewGates
    <3>5. snap \in stored /\ snap.sha = ap[a].sha /\ StoredOK(snap)
      BY <3>2, <3>3, <3>4 DEF ApplyOK, IInv, StoredInv
    <3>6. a \in Expected => ap[a].tree = ap[a].sha
      BY <3>3 DEF ApplyOK
    <3>7. PICK key : key = PlanArtifactKey(snap.id, snap.sha, s)
      OBVIOUS
    <3>8. \/ plan = FreshPlan(a)
          \/ key \in DOMAIN obj /\ plan = obj[key].body
      BY <3>1, <3>2, <3>7 DEF LockedPlans
    <3>9. CASE plan = FreshPlan(a)
      BY <3>4, <3>5, <3>6, <3>9 DEF FreshPlan
    <3>10. CASE key \in DOMAIN obj /\ plan = obj[key].body
      <4>1. key.kind = "plan" /\ key.id = snap.id /\ key.sha = snap.sha
        BY <3>7 DEF PlanArtifactKey
      <4>2. plan.by = snap.by
        BY <3>5, <3>10, <4>1 DEF StoredOK
      <4>3. plan.by \in Expected => plan.tree = key.sha
        BY <3>10, <4>1 DEF IInv, ObjInv, ObjectOK
      <4> QED BY <3>4, <3>5, <4>1, <4>2, <4>3
    <3> QED BY <3>8, <3>9, <3>10
  <2> QED BY <2>1, <2>2
<1> QED BY <1>1, <1>2, Invariant, PTL DEF Spec

(* What an apply looked for is at most as new as what it found, or it is not *)
(* in the bucket any more, and never will be again.                          *)
GoneOK(r) ==
  /\ r.pc = "load" => \A m \in r.known : Key(m) \in r.keys \/ Key(m) \notin DOMAIN obj
  /\ r.snap # Nothing =>
       \A m \in r.known : NotNewer(m, r.snap) \/ Key(m) \notin DOMAIN obj

GoneInv == \A a \in Apply : GoneOK(ap[a])

(* A manifest is written once: what retention deleted stays deleted.         *)
LEMMA GoneStays ==
  ASSUME IInv, [Next]_vars
  PROVE  \A m \in stored : Key(m) \notin DOMAIN obj => Key(m) \notin DOMAIN obj'
<1> SUFFICES ASSUME NEW m \in stored, Key(m) \notin DOMAIN obj, Key(m) \in DOMAIN obj'
             PROVE  FALSE
  OBVIOUS
<1>0. Key(m).kind = "manifest" /\ Key(m).id = m.id
  BY DEF Key, ManifestKey
<1>1. ASSUME NEW k, NEW by, NEW body, obj' = Put(k, by, body) PROVE k = Key(m)
  <2>1. DOMAIN obj' = DOMAIN obj \cup {k}
    BY <1>1, PutFacts
  <2>2. PICK x : x = Key(m)
    OBVIOUS
  <2> QED BY <2>1, <2>2
<1>2. obj' = obj => FALSE
  OBVIOUS
<1>3. ~PruneOne
  BY DeletesOld
<1>4. ASSUME NEW p \in Preview, PlanStack(p) PROVE FALSE
  <2>1. PICK s : obj' = Put(PlanArtifactKey(Ident[p], pv[p].sha, s), p,
                            [by |-> p, tree |-> pv[p].tree])
    BY ZenonT(60), <1>2, <1>4 DEF PlanStack
  <2> QED BY <1>0, <1>1, <2>1 DEF PlanArtifactKey
<1>5. ASSUME NEW p \in Preview, PutManifest(p) PROVE FALSE
  <2>1. pv[p].pc # "done" /\ obj' = Put(ManifestKey(Ident[p], pv[p].sha), p, Manifest(p))
    BY <1>2, <1>5 DEF PutManifest
  <2>2. m.id = Ident[p]
    BY <1>0, <1>1, <2>1 DEF ManifestKey
  <2> QED BY <2>1, <2>2 DEF IInv, OwnInv, OwnRun
<1>6. ASSUME NEW a \in Apply, FinishApply(a) PROVE FALSE
  <2>1. obj' = Put(AppliedStateKey(ap[a].sha), a, Nothing)
    BY <1>2, <1>6 DEF FinishApply
  <2> QED BY <1>0, <1>1, <2>1 DEF AppliedStateKey
<1> QED BY <1>2, <1>3, <1>4, <1>5, <1>6
     DEF Next, vars, Push, Tick, PruneList, ResolvePreview,
         BindApply, LoadPreviewSnapshot, ScopeApply, Revalidate, ApplyStack

(* The steps of an apply after it found its manifest keep what it found.     *)
LEMMA SameFind ==
  ASSUME IInv, NEW a \in Apply,
         ScopeApply(a) \/ Revalidate(a) \/ ApplyStack(a) \/ FinishApply(a)
  PROVE  /\ \A b \in Apply : b # a => ap'[b] = ap[b]
         /\ ap'[a].pc # "load"
         /\ \/ ap'[a].snap = Nothing
            \/ ap'[a].snap = ap[a].snap /\ ap'[a].known = ap[a].known
<1>1. ap = [b \in Apply |-> ap[b]] /\ ApplyOK(a, ap[a])
  BY DEF IInv, ApInv
<1>2. CASE EndApply(a)
  BY <1>1, <1>2 DEF EndApply, SetApply, Ended, NewApply
<1>3. ASSUME NEW rec, ap' = [ap EXCEPT ![a] = rec], rec.pc # "load",
             rec.snap = ap[a].snap /\ rec.known = ap[a].known
      PROVE  /\ \A b \in Apply : b # a => ap'[b] = ap[b]
             /\ ap'[a].pc # "load"
             /\ ap'[a].snap = ap[a].snap /\ ap'[a].known = ap[a].known
  <2>1. ap'[a] = rec /\ \A b \in Apply : b # a => ap'[b] = ap[b]
    BY <1>1, <1>3
  <2> QED BY <2>1, <1>3
<1>4. CASE ScopeApply(a) /\ ~EndApply(a)
  <2>1. PICK target : ap' = [ap EXCEPT ![a] = [ap[a] EXCEPT !.pc = "revalidate",
                                                            !.todo = target]]
    BY <1>4 DEF ScopeApply, SetApply
  <2> DEFINE rec == [ap[a] EXCEPT !.pc = "revalidate", !.todo = target]
  <2>2. rec.pc # "load" /\ rec.snap = ap[a].snap /\ rec.known = ap[a].known
    BY <1>1 DEF ApplyOK
  <2> HIDE DEF rec
  <2> QED BY <1>3, <2>1, <2>2 DEF rec
<1>5. CASE Revalidate(a) /\ ~EndApply(a)
  <2> DEFINE rec == [ap[a] EXCEPT !.pc = "loop"]
  <2>1. ap' = [ap EXCEPT ![a] = rec]
    BY <1>5 DEF Revalidate, SetApply
  <2>2. rec.pc # "load" /\ rec.snap = ap[a].snap /\ rec.known = ap[a].known
    BY <1>1 DEF ApplyOK
  <2> HIDE DEF rec
  <2> QED BY <1>3, <2>1, <2>2
<1>6. CASE ApplyStack(a)
  <2>1. ap[a].pc = "loop"
    BY <1>6 DEF ApplyStack
  <2>2. PICK s : \/ ap' = [ap EXCEPT ![a] = [ap[a] EXCEPT !.todo = @ \ {s}]]
                 \/ ap' = [ap EXCEPT ![a] = [ap[a] EXCEPT !.todo = @ \ {s}, !.clean = FALSE]]
    BY <1>6 DEF ApplyStack, SetApply
  <2> DEFINE ok  == [ap[a] EXCEPT !.todo = @ \ {s}]
             bad == [ap[a] EXCEPT !.todo = @ \ {s}, !.clean = FALSE]
  <2>3. /\ ok.pc # "load" /\ ok.snap = ap[a].snap /\ ok.known = ap[a].known
        /\ bad.pc # "load" /\ bad.snap = ap[a].snap /\ bad.known = ap[a].known
    BY <1>1, <2>1 DEF ApplyOK
  <2> HIDE DEF ok, bad
  <2>4. ap' = [ap EXCEPT ![a] = ok] \/ ap' = [ap EXCEPT ![a] = bad]
    BY <2>2 DEF ok, bad
  <2> QED BY <1>3, <2>3, <2>4
<1>7. CASE FinishApply(a)
  <2> DEFINE rec == [ap[a] EXCEPT !.pc = "done"]
  <2>1. ap' = [ap EXCEPT ![a] = rec]
    BY <1>7 DEF FinishApply, SetApply
  <2>2. rec.pc # "load" /\ rec.snap = ap[a].snap /\ rec.known = ap[a].known
    BY <1>1 DEF ApplyOK
  <2> HIDE DEF rec
  <2> QED BY <1>3, <2>1, <2>2
<1> QED BY <1>2, <1>4, <1>5, <1>6, <1>7

LEMMA GoneNext ==
  ASSUME IInv, GoneInv, [Next]_vars
  PROVE  GoneInv'
<1>1. \A a \in Apply : ApplyOK(a, ap[a]) /\ GoneOK(ap[a]) /\ ap[a].known \subseteq stored
  BY DEF IInv, ApInv, ApplyOK, GoneInv
<1>2. ASSUME NEW a \in Apply, ap'[a] = ap[a] PROVE GoneOK(ap[a])'
  BY <1>1, <1>2, GoneStays DEF GoneOK, Key, ManifestKey
<1>3. ASSUME NEW a \in Apply, \A b \in Apply : b # a => ap'[b] = ap[b], GoneOK(ap[a])'
      PROVE  GoneInv'
  BY <1>2, <1>3 DEF GoneInv
<1>4. ap = [b \in Apply |-> ap[b]]
  BY DEF IInv, ApInv
<1>5. ASSUME NEW a \in Apply, EndApply(a) PROVE GoneInv'
  <2>1. ap'[a] = Ended(NewApply) /\ \A b \in Apply : b # a => ap'[b] = ap[b]
    BY <1>4, <1>5 DEF EndApply, SetApply
  <2> QED BY <1>3, <2>1 DEF GoneOK, Ended, NewApply
<1>6. ASSUME NEW a \in Apply, BindApply(a), ~EndApply(a) PROVE GoneInv'
  <2>0. PICK tree \in Commit :
          SetApply(a, [ap[a] EXCEPT !.pc = "load", !.sha = ResolvedSHA(a, tree),
                            !.tree = tree,
                            !.keys = PreviewManifestCandidates(ResolvedSHA(a, tree)),
                            !.known = {m \in stored : m.sha = ResolvedSHA(a, tree)}])
    BY <1>6 DEF BindApply
  <2>1. PICK sha :
          ap' = [ap EXCEPT ![a] = [ap[a] EXCEPT !.pc = "load", !.sha = sha, !.tree = tree,
                            !.keys = PreviewManifestCandidates(sha),
                            !.known = {m \in stored : m.sha = sha}]]
    BY <2>0 DEF SetApply
  <2> DEFINE keys  == PreviewManifestCandidates(sha)
             known == {m \in stored : m.sha = sha}
             rec == [ap[a] EXCEPT !.pc = "load", !.sha = sha, !.tree = tree, !.keys = keys,
                                  !.known = known]
  <2>2. \A m \in known : Key(m) \in keys \/ Key(m) \notin DOMAIN obj
    BY DEF PreviewManifestCandidates, Key, ManifestKey
  <2>3. obj' = obj /\ ap[a].pc = "new"
    BY <1>6 DEF BindApply
  <2>4. rec.keys = keys /\ rec.known = known /\ rec.snap = Nothing
    <3> HIDE DEF keys, known
    <3> QED BY <1>1, <2>3 DEF ApplyOK
  <2>5. ap'[a] = rec /\ \A b \in Apply : b # a => ap'[b] = ap[b]
    <3> HIDE DEF rec
    <3> QED BY <1>4, <2>1 DEF rec
  <2> HIDE DEF rec, keys, known
  <2> QED BY <1>3, <2>2, <2>3, <2>4, <2>5 DEF GoneOK, Key, ManifestKey
<1>7. ASSUME NEW a \in Apply, LoadPreviewSnapshot(a), ~EndApply(a) PROVE GoneInv'
  <2>1. ap[a].pc = "load" /\ ap[a].snap = Nothing /\ obj' = obj
    BY <1>1, <1>7 DEF LoadPreviewSnapshot, ApplyOK
  <2>2. CASE ap' = [ap EXCEPT ![a] = [ap[a] EXCEPT !.pc = "scope", !.keys = {}, !.lost = TRUE]]
    <3> DEFINE rec == [ap[a] EXCEPT !.pc = "scope", !.keys = {}, !.lost = TRUE]
    <3>1. rec.pc = "scope" /\ rec.snap = Nothing
      BY <1>1, <2>1 DEF ApplyOK
    <3>2. ap'[a] = rec /\ \A b \in Apply : b # a => ap'[b] = ap[b]
      <4> HIDE DEF rec
      <4> QED BY <1>4, <2>2 DEF rec
    <3> HIDE DEF rec
    <3> QED BY <1>3, <3>1, <3>2 DEF GoneOK
  <2>3. CASE ap' # [ap EXCEPT ![a] = [ap[a] EXCEPT !.pc = "scope", !.keys = {}, !.lost = TRUE]]
    <3>0. PICK ks, best : /\ ks = ap[a].keys
                          /\ best = NewestPreviewManifest({obj[k].body : k \in ks})
      OBVIOUS
    <3>1. PICK age :
            /\ ks \subseteq DOMAIN obj
            /\ ap' = [ap EXCEPT ![a] = [ap[a] EXCEPT !.pc = "scope", !.keys = {}, !.snap = best,
                                                     !.age = age]]
      BY <1>7, <2>3, <3>0 DEF LoadPreviewSnapshot, SetApply
    <3> DEFINE rec == [ap[a] EXCEPT !.pc = "scope", !.keys = {}, !.snap = best, !.age = age]
    <3>2. rec.pc = "scope" /\ rec.snap = best /\ rec.known = ap[a].known
      BY <1>1 DEF ApplyOK
    <3>3. ap'[a] = rec /\ \A b \in Apply : b # a => ap'[b] = ap[b]
      <4> HIDE DEF rec
      <4> QED BY <1>4, <3>1 DEF rec
    <3> HIDE DEF rec
    <3>4. best # Nothing => \A m \in ap[a].known : NotNewer(m, best) \/ Key(m) \notin ks
      BY <2>1, <3>0, <3>1, BestIsNewest
    <3>5. \A m \in ap[a].known : Key(m) \in ks \/ Key(m) \notin DOMAIN obj
      BY <1>1, <2>1, <3>0 DEF GoneOK
    <3>6. GoneOK(ap[a])'
      BY <2>1, <3>2, <3>3, <3>4, <3>5 DEF GoneOK, Key, ManifestKey
    <3> QED BY <1>3, <3>3, <3>6
  <2> QED BY <2>2, <2>3
<1>8. ASSUME NEW a \in Apply,
             ScopeApply(a) \/ Revalidate(a) \/ ApplyStack(a) \/ FinishApply(a)
      PROVE  GoneInv'
  <2>1. /\ \A b \in Apply : b # a => ap'[b] = ap[b]
        /\ ap'[a].pc # "load"
        /\ \/ ap'[a].snap = Nothing
           \/ ap'[a].snap = ap[a].snap /\ ap'[a].known = ap[a].known
    BY <1>8, SameFind
  <2>2. GoneOK(ap[a])'
    BY <1>1, <2>1, GoneStays DEF GoneOK, Key, ManifestKey
  <2> QED BY <1>3, <2>1, <2>2
<1>9. ap' = ap => GoneInv'
  BY <1>2 DEF GoneInv
<1>10. ASSUME NEW p \in Preview, ResolvePreview(p) \/ PlanStack(p) \/ PutManifest(p)
       PROVE  ap' = ap
  BY <1>10 DEF ResolvePreview, PlanStack, PutManifest
<1>11. Push \/ Tick \/ PruneList \/ PruneOne \/ UNCHANGED vars => ap' = ap
  BY DEF Push, Tick, PruneList, PruneOne, vars
<1> QED BY <1>5, <1>6, <1>7, <1>8, <1>9, <1>10, <1>11 DEF Next

LEMMA GoneAlways == Spec => []GoneInv
<1>1. Init => GoneInv
  BY DEF Init, GoneInv, GoneOK, NewApply, Ended
<1>2. IInv /\ GoneInv /\ [Next]_vars => GoneInv'
  BY GoneNext
<1> QED BY <1>1, <1>2, Invariant, PTL DEF Spec

(* What an apply executes went by what it found, which is kept.              *)
FoundInv == \A e \in ran : e.run \in Apply /\ e.src = ap[e.run].snap

(* An ordinary apply executes only by a manifest as young as its age limit.  *)
YoungInv ==
  \A e \in ran : Ordinary(e) =>
    e.src # Nothing /\ (Freshness[e.run] = 0 \/ ap[e.run].age <= Freshness[e.run])

LEMMA SrcNext ==
  ASSUME IInv, FoundInv, YoungInv, [Next]_vars
  PROVE  FoundInv' /\ YoungInv'
<1>1. ASSUME \A b \in Apply : (\E e \in ran' : e.run = b) =>
                ap'[b].snap = ap[b].snap /\ ap'[b].age = ap[b].age,
             \A e \in ran' \ ran :
               /\ e.run \in Apply /\ e.src = ap[e.run].snap
               /\ \E s : PreviewGates(e.run, s)
      PROVE  FoundInv' /\ YoungInv'
  <2>1. ASSUME NEW e \in ran'
        PROVE  /\ e.run \in Apply /\ e.src = ap'[e.run].snap
               /\ Ordinary(e) =>
                    /\ e.src # Nothing
                    /\ Freshness[e.run] = 0 \/ ap'[e.run].age <= Freshness[e.run]
    <3>1. CASE e \in ran
      BY <1>1, <3>1 DEF FoundInv, YoungInv
    <3>2. CASE e \notin ran
      BY <1>1, <3>2 DEF PreviewGates, Ordinary
    <3> QED BY <3>1, <3>2
  <2> QED BY <2>1 DEF FoundInv, YoungInv, Ordinary
<1> DEFINE Same(b) == ap'[b].snap = ap[b].snap /\ ap'[b].age = ap[b].age
<1>2. ASSUME ran' = ran, ap' = ap PROVE FoundInv' /\ YoungInv'
  BY <1>2, <1>1
<1>3. \A e \in ran : e.run \in Apply /\ ap[e.run].pc \in {"loop", "done"}
  BY DEF IInv, RanInv
<1>4. ap = [b \in Apply |-> ap[b]]
  BY DEF IInv, ApInv
<1>5. ASSUME NEW a \in Apply,
             BindApply(a) \/ LoadPreviewSnapshot(a) \/ ScopeApply(a) \/ Revalidate(a)
      PROVE  FoundInv' /\ YoungInv'
  <2>1. ap[a].pc \notin {"loop", "done"} /\ ran' = ran
    BY <1>5 DEF BindApply, LoadPreviewSnapshot, ScopeApply, Revalidate
  <2>2. \A b \in Apply : b # a => ap'[b] = ap[b]
    <3>1. \E rec : ap' = [ap EXCEPT ![a] = rec]
      BY <1>5, Zenon
         DEF BindApply, LoadPreviewSnapshot, ScopeApply, Revalidate, EndApply, SetApply
    <3> QED BY <3>1, <1>4
  <2> QED BY <2>1, <2>2, <1>1, <1>3
<1>6. ASSUME NEW a \in Apply, NEW rec, ap' = [ap EXCEPT ![a] = rec],
             rec.snap = ap[a].snap, rec.age = ap[a].age
      PROVE  \A b \in Apply : Same(b)
  BY <1>4, <1>6
<1>7. ASSUME NEW a \in Apply, FinishApply(a) PROVE FoundInv' /\ YoungInv'
  <2> DEFINE rec == [ap[a] EXCEPT !.pc = "done"]
  <2>1. ran' = ran /\ ap' = [ap EXCEPT ![a] = rec]
    BY <1>7 DEF FinishApply, SetApply
  <2>2. rec.snap = ap[a].snap /\ rec.age = ap[a].age
    BY DEF IInv, ApInv, ApplyOK
  <2> HIDE DEF rec
  <2> QED BY <2>1, <2>2, <1>1, <1>6
<1>8. ASSUME NEW a \in Apply, ApplyStack(a) PROVE FoundInv' /\ YoungInv'
  <2>1. \/ ran' = ran
        \/ \E s, plan :
             /\ PreviewGates(a, s)
             /\ ran' = ran \cup {[run |-> a, sha |-> ap[a].sha, stack |-> s, plan |-> plan,
                                  src |-> ap[a].snap]}
    BY <1>8, ApplyStackShape
  <2>2. \A e \in ran' \ ran :
          /\ e.run \in Apply /\ e.src = ap[e.run].snap
          /\ \E s : PreviewGates(e.run, s)
    <3>1. CASE ran' = ran
      BY <3>1
    <3>2. ASSUME NEW s, NEW plan, PreviewGates(a, s),
                 ran' = ran \cup {[run |-> a, sha |-> ap[a].sha, stack |-> s, plan |-> plan,
                                   src |-> ap[a].snap]}
          PROVE  \A e \in ran' \ ran :
                   /\ e.run \in Apply /\ e.src = ap[e.run].snap
                   /\ \E t : PreviewGates(e.run, t)
      <4>1. \A e \in ran' \ ran : e.run = a /\ e.src = ap[a].snap
        BY <3>2
      <4> QED BY <3>2, <4>1
    <3> QED BY <2>1, <3>1, <3>2
  <2>3. PICK s : \/ ap' = [ap EXCEPT ![a] = [ap[a] EXCEPT !.todo = @ \ {s}]]
                 \/ ap' = [ap EXCEPT ![a] = [ap[a] EXCEPT !.todo = @ \ {s}, !.clean = FALSE]]
    BY <1>8 DEF ApplyStack, SetApply
  <2> DEFINE ok  == [ap[a] EXCEPT !.todo = @ \ {s}]
             bad == [ap[a] EXCEPT !.todo = @ \ {s}, !.clean = FALSE]
  <2>4. /\ ok.snap = ap[a].snap /\ ok.age = ap[a].age
        /\ bad.snap = ap[a].snap /\ bad.age = ap[a].age
    BY DEF IInv, ApInv, ApplyOK
  <2> HIDE DEF ok, bad
  <2>5. \A b \in Apply : Same(b)
    BY <2>3, <2>4, <1>6 DEF ok, bad
  <2> QED BY <2>2, <2>5, <1>1
<1>9. CASE Push \/ Tick \/ PruneList \/ PruneOne \/ UNCHANGED vars
  BY <1>2, <1>9 DEF Push, Tick, PruneList, PruneOne, vars
<1>10. ASSUME NEW p \in Preview, ResolvePreview(p) \/ PlanStack(p) \/ PutManifest(p)
       PROVE  FoundInv' /\ YoungInv'
  BY <1>2, <1>10 DEF ResolvePreview, PlanStack, PutManifest
<1> QED BY <1>5, <1>7, <1>8, <1>9, <1>10 DEF Next

(* The newest preview decides, also of those retention deleted when the age  *)
(* limit is no longer than max_age; otherwise of all but those that were     *)
(* older than max_age and gone.                                              *)
THEOREM NewestPreviewDecides == Spec => []NewestDecides
<1>1. Init => FoundInv /\ YoungInv
  BY DEF Init, FoundInv, YoungInv
<1>2. IInv /\ FoundInv /\ YoungInv /\ [Next]_vars => FoundInv' /\ YoungInv'
  BY SrcNext
<1>3. IInv /\ GoneInv /\ FoundInv /\ YoungInv => NewestDecides
  <2> SUFFICES ASSUME IInv, GoneInv, FoundInv, YoungInv, NEW e \in ran, Ordinary(e),
                      NEW m \in ap[e.run].known
               PROVE  NotNewer(m, e.src) \/ RetentionTook(m, e)
    BY DEF NewestDecides
  <2>1. PICK a, snap : /\ a = e.run /\ a \in Apply /\ snap = e.src /\ snap = ap[a].snap
                       /\ snap # Nothing
                       /\ Freshness[a] = 0 \/ ap[a].age <= Freshness[a]
    BY DEF FoundInv, YoungInv
  <2>2. /\ NotNewer(m, snap) \/ m.created + Retention < snap.created + ap[a].age
        /\ snap \in stored /\ m \in stored /\ ap[a].age \in Int
    BY <2>1 DEF IInv, ApInv, ApplyOK
  <2>3. snap.created \in Int /\ m.created \in Int
    BY <2>2 DEF IInv, StoredInv, StoredOK
  <2>4. NotNewer(m, snap) \/ ManifestKey(m.id, m.sha) \notin DOMAIN obj
    BY <2>1 DEF GoneInv, GoneOK, Key
  <2>5. Freshness[a] \in Nat /\ Retention \in Nat
    BY <2>1, FreshnessAssumption
  <2>6. CASE Freshness[a] = 0 \/ Freshness[a] > Retention
    BY <2>1, <2>2, <2>4, <2>6 DEF RetentionTook
  <2>7. CASE ~(Freshness[a] = 0 \/ Freshness[a] > Retention)
    BY <2>1, <2>2, <2>3, <2>5, <2>7 DEF NotNewer
  <2> QED BY <2>1, <2>6, <2>7
<1> QED BY <1>1, <1>2, <1>3, Invariant, GoneAlways, PTL DEF Spec

(* No step but a deletion by retention takes an object away, and that one    *)
(* takes only what is older than max_age: an object that replaced a listed   *)
(* one stays.                                                                *)
THEOREM YoungObjectsStay == Spec => YoungKept
<1>1. IInv /\ [Next]_vars =>
        [\A k \in DOMAIN obj \ DOMAIN obj' : now - obj[k].mod > Retention]_vars
  <2> SUFFICES ASSUME IInv, [Next]_vars, NEW k \in DOMAIN obj \ DOMAIN obj'
               PROVE  now - obj[k].mod > Retention
    OBVIOUS
  <2>1. CASE PruneOne
    <3>1. Expired(obj[k].mod)
      BY <2>1, DeletesOld
    <3>2. obj[k].mod \in Int /\ now \in Nat /\ Retention \in Nat
      BY FreshnessAssumption DEF IInv, ObjInv, ObjectOK
    <3> QED BY <3>1, <3>2 DEF Expired
  <2>2. ASSUME NEW x, NEW by, NEW body, obj' = Put(x, by, body) PROVE FALSE
    BY <2>2, PutFacts
  <2>3. obj' = obj => FALSE
    OBVIOUS
  <2>4. \A p \in Preview : ~PlanStack(p) /\ ~PutManifest(p)
    BY ZenonT(60), <2>2, <2>3 DEF PlanStack, PutManifest
  <2>5. \A a \in Apply : ~FinishApply(a)
    BY <2>2, <2>3 DEF FinishApply
  <2> QED BY <2>1, <2>3, <2>4, <2>5
       DEF Next, vars, Push, Tick, PruneList, ResolvePreview,
           BindApply, LoadPreviewSnapshot, ScopeApply, Revalidate, ApplyStack
<1> QED BY <1>1, Invariant, PTL DEF Spec, YoungKept

-----------------------------------------------------------------------------
(***************************************************************************)
(* What the pull request is told: the comments, the shared history of a    *)
(* plan and the thread on Slack, which several processes keep at once      *)
(* (Messages).                                                             *)
(***************************************************************************)

(* Where a process of each kind may be. *)
StageOK(r) ==
  /\ r.kind \in {"board", "apply", "series", "dash", "thread"}
  /\ r.pc \in {"idle", "part", "load", "save", "next", "upsert", "relist", "again",
               "whoami", "sweep", "post", "courtesy", "claim", "keep", "merge", "adopt", "reply", "end"}
  /\ r.pc \in {"part", "whoami", "sweep"} => r.kind = "board"
  /\ r.pc = "load" => r.kind # "board"
  /\ r.pc \in {"save", "next"} => r.kind \in {"apply", "series"}
  /\ r.pc \in {"upsert", "relist", "again"} =>
       /\ r.kind \in {"board", "apply", "series"}
       /\ r.then = IF r.kind = "board" THEN "part" ELSE "next"
  /\ r.pc \in {"post", "keep", "merge"} => r.kind \in {"dash", "thread"}
  /\ r.pc = "courtesy" => r.kind = "dash"
  /\ r.pc \in {"claim", "adopt", "reply"} => r.kind = "thread"

Message(m) == DOMAIN m = {"main", "thread", "owner"} /\ m.owner \in {None, "timeline"}

(* A process by itself: it has something left to tell until it ends, and a   *)
(* message to name once it has posted.                                       *)
LocalOK(r) ==
  /\ r = [f \in DOMAIN r |-> r[f]]
  /\ DOMAIN r = {"pc", "kind", "todo", "parts", "part", "board", "st", "etag", "n", "mem", "sl",
                 "marker", "text", "then", "ok", "author"}
  /\ StageOK(r)
  /\ r.todo \in Seq(Told) /\ (r.kind # "board" /\ r.pc # "end" => r.todo # << >>)
  /\ r.etag \in Nat
  /\ r.pc = "save" => r.st \in Seq(Seq(Told))
  /\ Message(r.sl)
  /\ r.pc \in {"courtesy", "claim", "keep", "merge"} => r.sl.main # None

(* What a process is about to save is the stored history, unless that has    *)
(* changed since.                                                            *)
HistOK(r, h) ==
  r.pc = "save" =>
    /\ r.etag <= h.ver
    /\ r.etag = h.ver => IF h.ver # 0 THEN r.st = h.val ELSE r.st \in {<< >>, <<Legacy>>}

(* What a process is about to save keeps the recorded message and owner,     *)
(* unless they have changed since, and a reply is under the recorded message.*)
SlackOK(r, s) ==
  /\ r.pc \in {"post", "courtesy", "claim", "keep"} =>
       /\ r.etag <= s.ver
       /\ r.etag = s.ver => /\ s.val.main # None => r.sl.main = s.val.main
                            /\ s.val.owner # None => r.sl.owner = s.val.owner
  /\ r.pc = "reply" => s.val.main # None /\ r.sl.main = s.val.main

StoreOK ==
  /\ ids \in Nat
  /\ DOMAIN hist = {"val", "ver"} /\ hist.ver \in Nat /\ hist.val \in Seq(Seq(Told))
  /\ hist.ver = 0 => hist.val = << >>
  /\ DOMAIN slack = {"val", "ver"} /\ slack.ver \in Nat /\ Message(slack.val)

ProcsOK ==
  /\ proc = [p \in Proc |-> proc[p]]
  /\ \A p \in Proc : LocalOK(proc[p]) /\ HistOK(proc[p], hist) /\ SlackOK(proc[p], slack)

Threaded(rs, s) == \A r \in rs : r.kind = "thread" => s.val.main # None /\ r.parent = s.val.main

MessagesInv == StoreOK /\ ProcsOK /\ Threaded(replies, slack)

LEMMA MessagesStart == MessagesInit => MessagesInv
<1> SUFFICES ASSUME MessagesInit PROVE MessagesInv OBVIOUS
<1>1. PICK cast \in Casts : proc = [p \in Proc |-> Idle(cast[p])] BY DEF MessagesInit
<1>2. StoreOK
  <2>1. << >> \in Seq(Seq(Told)) OBVIOUS
  <2> QED BY <2>1 DEF MessagesInit, StoreOK, Message, NoMessage
<1>3. ASSUME NEW p \in Proc
      PROVE  LocalOK(proc[p]) /\ HistOK(proc[p], hist) /\ SlackOK(proc[p], slack)
  <2>1. proc[p] = Idle(cast[p]) BY <1>1
  <2>2. /\ cast[p].kind \in {"board", "apply", "series", "dash", "thread"}
        /\ cast[p].todo \in Seq(Told)
        /\ cast[p].kind # "board" => cast[p].todo # << >>
    BY CastsAssumption
  <2> QED BY <2>1, <2>2 DEF Idle, LocalOK, StageOK, HistOK, SlackOK, Message, NoMessage
<1>4. Threaded(replies, slack) BY DEF MessagesInit, Threaded
<1> QED BY <1>1, <1>2, <1>3, <1>4 DEF MessagesInv, ProcsOK

-----------------------------------------------------------------------------
(* A process keeps what it has to tell until it is through with an event. *)
Unrecorded == {"idle", "load", "save"}

Forth(old, r) ==
  /\ r.kind = old.kind /\ r.pc # "idle"
  /\ r.kind \in {"apply", "series"} =>
       \/ r.todo = old.todo /\ (r.pc \in Unrecorded => old.pc \in Unrecorded)
       \/ r.todo = Tail(old.todo) /\ old.pc = "next"

(* A step of one process to the local state r. *)
Steps(p, r) ==
  Go(p, r) /\ LocalOK(r) /\ HistOK(r, hist') /\ SlackOK(r, slack') /\ Forth(proc[p], r)

(* A store is left alone, or its version moves on. *)
Moved(old, new) == new = old \/ new.ver = old.ver + 1

(* A recorded message and its owner stay. *)
Keeps(old, new) ==
  /\ old.val.main # None => new.val.main = old.val.main
  /\ old.val.owner # None => new.val.owner = old.val.owner

LEMMA StepKeeps ==
  ASSUME MessagesInv, NEW p \in Proc, NEW r, Steps(p, r), StoreOK', Threaded(replies, slack)',
         Moved(hist, hist'), Moved(slack, slack'), Keeps(slack, slack')
  PROVE  MessagesInv'
<1>1. proc' = [proc EXCEPT ![p] = r] BY DEF Steps, Go
<1>2. proc' = [x \in Proc |-> IF x = p THEN r ELSE proc[x]]
  BY <1>1 DEF MessagesInv, ProcsOK
<1>3. ASSUME NEW x \in Proc, x # p
      PROVE  LocalOK(proc[x]) /\ HistOK(proc[x], hist') /\ SlackOK(proc[x], slack')
  <2>1. LocalOK(proc[x]) /\ HistOK(proc[x], hist) /\ SlackOK(proc[x], slack)
    BY DEF MessagesInv, ProcsOK
  <2>2. proc[x].etag \in Nat BY <2>1 DEF LocalOK
  <2>3. hist.ver \in Nat /\ slack.ver \in Nat BY DEF MessagesInv, StoreOK
  <2>4. HistOK(proc[x], hist') BY <2>1, <2>2, <2>3 DEF Moved, HistOK
  <2>5. CASE slack' = slack BY <2>1, <2>4, <2>5
  <2>6. CASE slack'.ver = slack.ver + 1
    <3>1. proc[x].pc \in {"post", "courtesy", "claim", "keep"} =>
            proc[x].etag <= slack'.ver /\ proc[x].etag # slack'.ver
      BY <2>1, <2>2, <2>3, <2>6 DEF SlackOK
    <3>2. proc[x].pc = "reply" => slack'.val.main # None /\ proc[x].sl.main = slack'.val.main
      BY <2>1 DEF SlackOK, Keeps
    <3> QED BY <2>1, <2>4, <3>1, <3>2 DEF SlackOK
  <2> QED BY <2>5, <2>6 DEF Moved
<1>4. ProcsOK' BY <1>2, <1>3 DEF ProcsOK, Steps
<1> QED BY <1>4 DEF MessagesInv

(* A step of a process that leaves both stores alone. *)
LEMMA QuietStep ==
  ASSUME MessagesInv, NEW p \in Proc, NEW r, Steps(p, r), ids' \in Nat,
         UNCHANGED <<hist, slack>>, Threaded(replies', slack)
  PROVE  MessagesInv' /\ Keeps(slack, slack')
<1>1. StoreOK' BY DEF MessagesInv, StoreOK
<1>2. Threaded(replies, slack)' OBVIOUS
<1>3. Moved(hist, hist') /\ Moved(slack, slack') /\ Keeps(slack, slack') BY DEF Moved, Keeps
<1> QED BY <1>1, <1>2, <1>3, StepKeeps

LEMMA StartOK ==
  ASSUME MessagesInv, NEW p \in Proc, Start(p)
  PROVE  MessagesInv' /\ \E r : Steps(p, r)
<1> PICK r : r = [proc[p] EXCEPT !.pc = IF proc[p].kind = "board" THEN "part" ELSE "load"] OBVIOUS
<1>1. LocalOK(proc[p]) /\ proc[p].pc = "idle" BY DEF MessagesInv, ProcsOK, Start
<1>2. LocalOK(r) BY <1>1 DEF LocalOK, StageOK
<1>3. r.pc \in {"part", "load"} /\ r.kind = proc[p].kind /\ r.todo = proc[p].todo BY <1>1 DEF LocalOK
<1>4. Steps(p, r) BY <1>1, <1>2, <1>3 DEF Steps, Start, HistOK, SlackOK, Forth, Unrecorded
<1>5. ids' \in Nat /\ UNCHANGED <<hist, slack, replies>> BY DEF Start, MessagesInv, StoreOK
<1> QED BY <1>4, <1>5, QuietStep DEF MessagesInv

(* Where a process that writes a comment goes. *)
LEMMA UpsertedOK ==
  ASSUME NEW r, LocalOK(r), r.pc \in {"upsert", "relist", "again"}, NEW ok
  PROVE  LET new == [r EXCEPT !.pc = r.then, !.ok = @ /\ ok]
         IN  LocalOK(new) /\ new.pc \in {"part", "next"} /\ new.kind = r.kind /\ new.todo = r.todo
<1>0. PICK new : new = [r EXCEPT !.pc = r.then, !.ok = @ /\ ok] OBVIOUS
<1>1. r.kind \in {"board", "apply", "series"} /\ r.then = IF r.kind = "board" THEN "part" ELSE "next"
  BY DEF LocalOK, StageOK
<1>2. /\ DOMAIN new = DOMAIN r /\ new.pc = r.then /\ new.kind = r.kind /\ new.todo = r.todo
      /\ new.etag = r.etag /\ new.sl = r.sl /\ new = [f \in DOMAIN new |-> new[f]]
  BY <1>0 DEF LocalOK
<1>3. new.pc = IF new.kind = "board" THEN "part" ELSE "next" BY <1>1, <1>2
<1>4. StageOK(new) BY <1>1, <1>2, <1>3 DEF StageOK
<1>5. r.todo \in Seq(Told) /\ (r.kind # "board" /\ r.pc # "end" => r.todo # << >>) BY DEF LocalOK
<1>6. LocalOK(new) BY <1>2, <1>3, <1>4, <1>5 DEF LocalOK
<1> QED BY <1>0, <1>2, <1>3, <1>6

LEMMA CommentOK ==
  ASSUME MessagesInv, NEW p \in Proc, Comment(p)
  PROVE  MessagesInv' /\ \E r : Steps(p, r)
<1>1. LocalOK(proc[p]) BY DEF MessagesInv, ProcsOK
<1>2. UNCHANGED <<hist, slack, replies>> /\ ids \in Nat BY DEF Comment, MessagesInv, StoreOK
<1>3. \E r : Go(p, r) /\ LocalOK(r) /\ r.kind = proc[p].kind /\ r.todo = proc[p].todo
             /\ r.pc \notin {"idle", "load", "save", "post", "courtesy", "claim", "keep", "reply"}
             /\ ids' \in Nat
  <2> DEFINE Done(r) ==
        Go(p, r) /\ LocalOK(r) /\ r.kind = proc[p].kind /\ r.todo = proc[p].todo
        /\ r.pc \notin {"idle", "load", "save", "post", "courtesy", "claim", "keep", "reply"}
  <2>1. ASSUME NEW ok, Upserted(p, ok), proc[p].pc \in {"upsert", "relist", "again"}
        PROVE  \E r : Done(r)
    <3>1. PICK r : r = [proc[p] EXCEPT !.pc = proc[p].then, !.ok = @ /\ ok] OBVIOUS
    <3>2. Go(p, r) BY <2>1, <3>1 DEF Upserted
    <3>3. PICK w : w = proc[p] OBVIOUS
    <3>4. LocalOK(w) /\ w.pc \in {"upsert", "relist", "again"} BY <1>1, <2>1, <3>3
    <3>5. r = [w EXCEPT !.pc = w.then, !.ok = @ /\ ok] BY <3>1, <3>3
    <3>6. LocalOK(r) /\ r.pc \in {"part", "next"} /\ r.kind = w.kind /\ r.todo = w.todo
      BY <3>4, <3>5, UpsertedOK
    <3> QED BY <3>2, <3>3, <3>6
  <2>2. ASSUME NEW pc \in {"relist", "again", "upsert"}, proc[p].pc \in {"upsert", "relist", "again"},
               Go(p, [proc[p] EXCEPT !.pc = pc])
        PROVE  \E r : Done(r)
    <3>1. PICK r : r = [proc[p] EXCEPT !.pc = pc] OBVIOUS
    <3>2. LocalOK(r) /\ r.pc = pc /\ r.kind = proc[p].kind /\ r.todo = proc[p].todo
      BY <1>1, <2>2, <3>1 DEF LocalOK, StageOK
    <3> QED BY <2>2, <3>1, <3>2
  <2>3. ASSUME NEW r, proc[p].pc = "sweep",
               \/ r = [proc[p] EXCEPT !.pc = "end", !.ok = FALSE]
               \/ r = [proc[p] EXCEPT !.pc = "end"]
               \/ r = proc[p],
               Go(p, r)
        PROVE  \E x : Done(x)
    <3>1. /\ DOMAIN r = DOMAIN proc[p] /\ r = [f \in DOMAIN r |-> r[f]]
          /\ r.pc \in {"end", "sweep"} /\ r.kind = proc[p].kind /\ r.todo = proc[p].todo
          /\ r.etag = proc[p].etag /\ r.sl = proc[p].sl
      BY <1>1, <2>3 DEF LocalOK
    <3>2. proc[p].kind = "board" BY <1>1, <2>3 DEF LocalOK, StageOK
    <3>3. StageOK(r) BY <3>1, <3>2 DEF StageOK
    <3>4. LocalOK(r) BY <1>1, <3>1, <3>2, <3>3 DEF LocalOK
    <3> QED BY <2>3, <3>1, <3>4
  <2>9. ASSUME NEW r, proc[p].pc = "whoami", Go(p, r), NEW a,
               \/ r = [proc[p] EXCEPT !.pc = "sweep", !.author = a]
               \/ r = [proc[p] EXCEPT !.pc = "end", !.ok = FALSE]
        PROVE  \E x : Done(x)
    <3>1. /\ DOMAIN r = DOMAIN proc[p] /\ r = [f \in DOMAIN r |-> r[f]]
          /\ r.pc \in {"end", "sweep"} /\ r.kind = proc[p].kind /\ r.todo = proc[p].todo
          /\ r.etag = proc[p].etag /\ r.sl = proc[p].sl
      BY <1>1, <2>9 DEF LocalOK
    <3>2. proc[p].kind = "board" BY <1>1, <2>9 DEF LocalOK, StageOK
    <3>3. StageOK(r) BY <3>1, <3>2 DEF StageOK
    <3>4. LocalOK(r) BY <1>1, <3>1, <3>2, <3>3 DEF LocalOK
    <3> QED BY <2>9, <3>1, <3>4
  <2>4. UNCHANGED proc => Go(p, proc[p]) BY DEF Go, MessagesInv, ProcsOK
  <2> HIDE DEF Done
  <2>5. CASE ListComments(p)
    <3>1. ids' \in Nat BY <1>2, <2>5 DEF ListComments
    <3>2. CASE Go(p, [proc[p] EXCEPT !.pc = IF @ = "relist" THEN "again" ELSE @])
      <4>1. CASE proc[p].pc = "relist"
        <5>1. Go(p, [proc[p] EXCEPT !.pc = "again"]) BY <1>1, <3>2, <4>1 DEF LocalOK
        <5> QED BY <2>2, <3>1, <4>1, <5>1 DEF Done
      <4>2. CASE proc[p].pc = "upsert"
        <5>1. Go(p, [proc[p] EXCEPT !.pc = "upsert"]) BY <1>1, <3>2, <4>2 DEF LocalOK
        <5> QED BY <2>2, <3>1, <4>2, <5>1 DEF Done
      <4>3. CASE proc[p].pc = "sweep"
        <5>1. Go(p, proc[p])
          <6>1. [proc[p] EXCEPT !.pc = IF @ = "relist" THEN "again" ELSE @] = proc[p]
            BY <1>1, <4>3 DEF LocalOK
          <6> QED BY <3>2, <6>1
        <5> QED BY <2>3, <3>1, <4>3, <5>1 DEF Done
      <4> QED BY <2>5, <4>1, <4>2, <4>3 DEF ListComments
    <3>3. CASE IF proc[p].pc = "sweep" THEN Go(p, [proc[p] EXCEPT !.pc = "end", !.ok = FALSE])
                                       ELSE Upserted(p, FALSE)
      BY <2>1, <2>3, <2>5, <3>1, <3>3 DEF ListComments, Done
    <3> QED BY <2>5, <3>2, <3>3 DEF ListComments
  <2>6. CASE EditComment(p)
    <3>1. ids' \in Nat /\ proc[p].pc \in {"upsert", "again"} BY <1>2, <2>6 DEF EditComment
    <3>2. Upserted(p, TRUE) \/ Upserted(p, FALSE) \/ Go(p, [proc[p] EXCEPT !.pc = "relist"])
      BY <2>6 DEF EditComment
    <3> QED BY <2>1, <2>2, <3>1, <3>2 DEF Done
  <2>7. CASE CreateComment(p)
    <3>1. ids' \in Nat /\ proc[p].pc \in {"upsert", "again"}
      <4>1. ids' = ids \/ ids' = ids + 1 BY <2>7 DEF CreateComment
      <4> QED BY <1>2, <2>7, <4>1 DEF CreateComment
    <3>2. Upserted(p, TRUE) \/ Upserted(p, FALSE) BY <2>7 DEF CreateComment
    <3> QED BY <2>1, <3>1, <3>2 DEF Done
  <2>8. CASE DeleteStalePart(p)
    <3>1. ids' \in Nat /\ proc[p].pc = "sweep" BY <1>2, <2>8 DEF DeleteStalePart
    <3>2. \/ Go(p, [proc[p] EXCEPT !.pc = "end"]) \/ Go(p, [proc[p] EXCEPT !.pc = "end", !.ok = FALSE])
          \/ UNCHANGED proc
      BY <2>8 DEF DeleteStalePart
    <3> QED BY <2>3, <2>4, <3>1, <3>2 DEF Done
  <2>10. CASE IdentifyAuthor(p)
    <3>1. ids' \in Nat /\ proc[p].pc = "whoami" BY <1>2, <2>10 DEF IdentifyAuthor
    <3>2. \/ \E a \in {Account[p], Bot} : Go(p, [proc[p] EXCEPT !.pc = "sweep", !.author = a])
          \/ Go(p, [proc[p] EXCEPT !.pc = "end", !.ok = FALSE])
      BY <2>10 DEF IdentifyAuthor
    <3> QED BY <2>9, <3>1, <3>2 DEF Done
  <2> QED BY <2>5, <2>6, <2>7, <2>8, <2>10 DEF Comment
<1>4. PICK r : Steps(p, r) /\ ids' \in Nat BY <1>3 DEF Steps, HistOK, SlackOK, Forth, Unrecorded
<1>5. Threaded(replies', slack) BY <1>2 DEF MessagesInv
<1> QED BY <1>2, <1>4, <1>5, QuietStep

-----------------------------------------------------------------------------
(* The history. *)

LEMMA GreatestOf ==
  ASSUME NEW n \in Nat, NEW S \in SUBSET (1..n), S # {}
  PROVE  \E i \in S : \A j \in S : j <= i
<1> DEFINE T == {k \in Nat : n - k \in S}
<1>1. T \in SUBSET Nat OBVIOUS
<1>2. T # {}
  <2>1. PICK i \in S : TRUE OBVIOUS
  <2>2. i \in 1..n BY <2>1
  <2>3. n - i \in Nat /\ n - (n - i) = i BY <2>2
  <2> QED BY <2>1, <2>3
<1>3. PICK k \in T : \A j \in T : k <= j BY <1>1, <1>2, LeastOf
<1>4. n - k \in S /\ k \in Nat BY <1>3
<1>5. ASSUME NEW j \in S PROVE j <= n - k
  <2>1. j \in 1..n OBVIOUS
  <2>2. n - j \in Nat /\ n - (n - j) = j BY <2>1
  <2>3. n - j \in T BY <2>2
  <2>4. k <= n - j BY <1>3, <2>3
  <2> QED BY <1>4, <2>1, <2>4
<1> QED BY <1>4, <1>5

(* The series that hold an entry of the run of e. *)
OfRun(st, e) == {i \in DOMAIN st : e.run # None /\ \E k \in DOMAIN st[i] : st[i][k].run = e.run}

(* A run that is known in the history is found in its newest series. *)
LEMMA RunFound ==
  ASSUME NEW st \in Seq(Seq(Told)), NEW e
  PROVE  /\ SeriesForRun(st, e) \in 0..Len(st)
         /\ OfRun(st, e) # {} =>
              /\ SeriesForRun(st, e) \in OfRun(st, e)
              /\ \A j \in OfRun(st, e) : j <= SeriesForRun(st, e)
<1> DEFINE ByURL(i) == e.url # None /\ \E k \in DOMAIN st[i] :
                         st[i][k].url = e.url /\ (e.run = None \/ st[i][k].run = None)
           Top(S) == CHOOSE i \in S : \A j \in S : j <= i
<1> PICK R : R = OfRun(st, e) OBVIOUS
<1> PICK U : U = {i \in DOMAIN st : ByURL(i)} OBVIOUS
<1>1. SeriesForRun(st, e) = IF R # {} THEN Top(R) ELSE IF U # {} THEN Top(U) ELSE 0
  BY DEF SeriesForRun, OfRun
<1>2. Len(st) \in Nat /\ DOMAIN st = 1..Len(st) OBVIOUS
<1>3. R \in SUBSET (1..Len(st)) /\ U \in SUBSET (1..Len(st)) BY <1>2 DEF OfRun
<1>4. ASSUME NEW S \in SUBSET (1..Len(st)), S # {}
      PROVE  Top(S) \in S /\ \A j \in S : j <= Top(S)
  BY <1>2, <1>4, GreatestOf
<1> HIDE DEF Top
<1>5. CASE R # {} BY <1>1, <1>2, <1>3, <1>4, <1>5
<1>6. CASE R = {} /\ U # {}
  <2>1. SeriesForRun(st, e) = Top(U) BY <1>1, <1>6
  <2>2. Top(U) \in 1..Len(st) BY <1>3, <1>4, <1>6
  <2> QED BY <1>2, <1>6, <2>1, <2>2
<1>7. CASE R = {} /\ U = {}
  <2>1. SeriesForRun(st, e) = 0 BY <1>1, <1>7
  <2> QED BY <1>2, <1>7, <2>1
<1> QED BY <1>5, <1>6, <1>7

LEMMA SeriesExists ==
  ASSUME NEW st \in Seq(Seq(Told)), NEW e
  PROVE  SeriesFor(st, e) \in 1..(Len(st) + 1)
<1>1. SeriesForRun(st, e) \in 0..Len(st) BY RunFound
<1>2. Len(st) \in Nat /\ (st # << >> => Len(st) >= 1) OBVIOUS
<1>3. CASE st = << >>
  <2>1. SeriesFor(st, e) = 1 BY <1>3 DEF SeriesFor
  <2> QED BY <1>2, <2>1
<1>4. CASE st # << >> /\ (e.ev = "plan" \/ OpensSeries(st, e))
  <2>1. SeriesFor(st, e) = IF SeriesForRun(st, e) = 0 THEN Len(st) + 1 ELSE SeriesForRun(st, e)
    BY <1>4 DEF SeriesFor
  <2> QED BY <1>1, <1>2, <2>1
<1>5. CASE st # << >> /\ ~(e.ev = "plan" \/ OpensSeries(st, e))
  <2>1. SeriesFor(st, e) = Len(st) BY <1>5 DEF SeriesFor
  <2> QED BY <1>2, <1>5, <2>1
<1> QED BY <1>3, <1>4, <1>5

LEMMA Appended ==
  ASSUME NEW st \in Seq(Seq(Told)), NEW e \in Told, NEW i \in 1..(Len(st) + 1)
  PROVE  LET new == AppendTo(st, i, e) IN
         /\ new \in Seq(Seq(Told)) /\ Len(st) <= Len(new) /\ i \in 1..Len(new)
         /\ Len(new) <= Len(st) + 1
         /\ \A j \in 1..Len(new) : j # i => j \in 1..Len(st) /\ new[j] = st[j]
         /\ new[i] = IF i > Len(st) THEN <<e>> ELSE Append(st[i], e)
<1> PICK new : new = AppendTo(st, i, e) OBVIOUS
<1>1. Len(st) \in Nat /\ DOMAIN st = 1..Len(st) /\ \A j \in 1..Len(st) : st[j] \in Seq(Told)
  OBVIOUS
<1>2. CASE i > Len(st)
  <2>1. new = Append(st, <<e>>) /\ i = Len(st) + 1 BY <1>1, <1>2 DEF AppendTo
  <2>2. <<e>> \in Seq(Told) OBVIOUS
  <2>3. new \in Seq(Seq(Told)) /\ Len(new) = Len(st) + 1 BY <2>1, <2>2
  <2>4. new[i] = <<e>> BY <2>1
  <2>5. \A j \in 1..Len(st) : new[j] = st[j] BY <2>1
  <2> QED BY <1>1, <1>2, <2>1, <2>3, <2>4, <2>5
<1>3. CASE ~(i > Len(st))
  <2>1. new = [st EXCEPT ![i] = Append(st[i], e)] /\ i \in 1..Len(st) BY <1>1, <1>3 DEF AppendTo
  <2>2. Append(st[i], e) \in Seq(Told) BY <1>1, <2>1
  <2>3. new \in Seq(Seq(Told)) /\ Len(new) = Len(st) BY <1>1, <2>1, <2>2
  <2>4. new[i] = Append(st[i], e) /\ \A j \in 1..Len(st) : j # i => new[j] = st[j] BY <1>1, <2>1
  <2> QED BY <1>1, <1>3, <2>1, <2>3, <2>4
<1> QED BY <1>2, <1>3

(* The series only grow, and at their ends. *)
Grows(old, new) ==
  /\ Len(old.val) <= Len(new.val)
  /\ \A i \in DOMAIN old.val : IsPrefix(old.val[i], new.val[i])

LEMMA AppendedGrows ==
  ASSUME NEW st \in Seq(Seq(Told)), NEW e \in Told, NEW i \in 1..(Len(st) + 1), NEW j \in 1..Len(st)
  PROVE  IsPrefix(st[j], AppendTo(st, i, e)[j])
<1> PICK new : new = AppendTo(st, i, e) OBVIOUS
<1> PICK s : s = st[j] OBVIOUS
<1>1. s \in Seq(Told) OBVIOUS
<1>2. Len(s) \in Nat BY <1>1
<1>3. Len(st) <= Len(new) /\ Len(new) \in Nat /\ Len(st) \in Nat
  <2>1. new \in Seq(Seq(Told)) /\ Len(st) <= Len(new) BY Appended
  <2> QED BY <2>1
<1>4. j \in 1..Len(new) BY <1>3
<1>5. CASE j # i
  <2>1. new[j] = s BY <1>4, <1>5, Appended
  <2> QED BY <1>2, <2>1 DEF IsPrefix
<1>6. CASE j = i
  <2>1. new[j] = IF i > Len(st) THEN <<e>> ELSE Append(st[i], e) BY <1>6, Appended
  <2>2. new[j] = Append(s, e) BY <1>3, <1>6, <2>1
  <2>3. Len(Append(s, e)) = Len(s) + 1 BY <1>1
  <2>4. \A k \in 1..Len(s) : Append(s, e)[k] = s[k] BY <1>1
  <2>5. SubSeq(s, 1, Len(s)) = SubSeq(Append(s, e), 1, Len(s)) BY <1>1, <1>2, <2>4
  <2> QED BY <1>2, <2>2, <2>3, <2>5 DEF IsPrefix
<1> QED BY <1>5, <1>6

-----------------------------------------------------------------------------
(* The steps of the timelines. *)

LEMMA WithoutStoreOK ==
  ASSUME NEW p, LocalOK(proc[p]), proc[p].pc \in {"load", "save"},
         proc[p].kind \in {"apply", "series"}, WithoutStore(p)
  PROVE  \E r : Go(p, r) /\ LocalOK(r) /\ r.pc \in {"upsert", "next"} /\ r.todo = proc[p].todo
                /\ r.kind = proc[p].kind
<1>1. CASE proc[p].kind = "apply"
  <2> PICK r : r = [proc[p] EXCEPT !.pc = "upsert", !.then = "next", !.ok = FALSE,
                                   !.marker = <<"apply", 1>>,
                                   !.mem = Append(@, Event(p)), !.text = Append(proc[p].mem, Event(p))]
    OBVIOUS
  <2>1. Go(p, r) BY <1>1 DEF WithoutStore
  <2>2. /\ DOMAIN r = DOMAIN proc[p] /\ r = [f \in DOMAIN r |-> r[f]]
        /\ r.pc = "upsert" /\ r.then = "next" /\ r.kind = "apply" /\ r.todo = proc[p].todo
        /\ r.etag = proc[p].etag /\ r.sl = proc[p].sl
    BY <1>1 DEF LocalOK
  <2>3. LocalOK(r) BY <2>2 DEF LocalOK, StageOK
  <2>4. r.pc \in {"upsert", "next"} /\ r.kind = proc[p].kind BY <1>1, <2>2
  <2> QED BY <2>1, <2>2, <2>3, <2>4
<1>2. CASE proc[p].kind = "series"
  <2> PICK r : r = [proc[p] EXCEPT !.pc = "next", !.ok = FALSE] OBVIOUS
  <2>1. Go(p, r) BY <1>2 DEF WithoutStore
  <2>2. LocalOK(r) /\ r.pc = "next" /\ r.todo = proc[p].todo /\ r.kind = proc[p].kind
    BY <1>2 DEF LocalOK, StageOK
  <2> QED BY <2>1, <2>2
<1> QED BY <1>1, <1>2

(* What a timeline may do: keep the history and go on, or save it. *)
LEMMA LoadHistoryOK ==
  ASSUME MessagesInv, NEW p \in Proc, LoadHistory(p)
  PROVE  \E r : Go(p, r) /\ LocalOK(r) /\ HistOK(r, hist) /\ r.pc \in {"save", "upsert", "next"}
                /\ r.todo = proc[p].todo /\ r.kind = proc[p].kind
<1>1. LocalOK(proc[p]) /\ proc[p].pc = "load" /\ proc[p].kind \in {"apply", "series"}
  BY DEF MessagesInv, ProcsOK, LoadHistory
<1>2. CASE WithoutStore(p)
  <2>1. PICK r : Go(p, r) /\ LocalOK(r) /\ r.pc \in {"upsert", "next"} /\ r.todo = proc[p].todo
                 /\ r.kind = proc[p].kind
    BY <1>1, <1>2, WithoutStoreOK
  <2> QED BY <2>1 DEF HistOK
<1>3. CASE ~WithoutStore(p)
  <2> PICK st : st = IF hist.ver # 0 THEN hist.val
                     ELSE IF proc[p].kind = "series" /\ Legacy # << >> THEN <<Legacy>> ELSE << >>
    OBVIOUS
  <2> PICK r : r = [proc[p] EXCEPT !.pc = "save", !.etag = hist.ver, !.st = st] OBVIOUS
  <2>1. Go(p, r) BY <1>3 DEF LoadHistory
  <2>2. hist.ver \in Nat /\ hist.val \in Seq(Seq(Told)) BY DEF MessagesInv, StoreOK
  <2>3. st \in Seq(Seq(Told))
    <3>1. Legacy \in Seq(Told) BY CastsAssumption
    <3>2. <<Legacy>> \in Seq(Seq(Told)) /\ << >> \in Seq(Seq(Told)) BY <3>1
    <3> QED BY <2>2, <3>2
  <2>4. /\ DOMAIN r = DOMAIN proc[p] /\ r = [f \in DOMAIN r |-> r[f]]
        /\ r.pc = "save" /\ r.etag = hist.ver /\ r.st = st /\ r.kind = proc[p].kind
        /\ r.todo = proc[p].todo /\ r.sl = proc[p].sl
    BY <1>1 DEF LocalOK
  <2>5. LocalOK(r) BY <1>1, <2>2, <2>3, <2>4 DEF LocalOK, StageOK
  <2>6. HistOK(r, hist) BY <2>2, <2>4 DEF HistOK
  <2> QED BY <2>1, <2>4, <2>5, <2>6
<1> QED BY <1>2, <1>3

(* A save under the version that was read extends the stored history. *)
LEMMA SaveGrows ==
  ASSUME MessagesInv, NEW p \in Proc, proc[p].pc = "save", proc[p].kind \in {"apply", "series"},
         Matches(p), NEW i \in 1..(Len(proc[p].st) + 1)
  PROVE  LET new == AppendTo(proc[p].st, i, Event(p)) IN
         /\ Event(p) \in Told /\ proc[p].st \in Seq(Seq(Told)) /\ new \in Seq(Seq(Told))
         /\ Len(hist.val) <= Len(new)
         /\ \A j \in DOMAIN hist.val : IsPrefix(hist.val[j], new[j])
<1> PICK st : st = proc[p].st OBVIOUS
<1> PICK e : e = Event(p) OBVIOUS
<1> PICK new : new = AppendTo(st, i, e) OBVIOUS
<1>1. LocalOK(proc[p]) /\ HistOK(proc[p], hist) BY DEF MessagesInv, ProcsOK
<1>2. st \in Seq(Seq(Told)) BY <1>1 DEF LocalOK
<1>3. e \in Told
  <2>1. proc[p].todo \in Seq(Told) /\ proc[p].todo # << >> BY <1>1 DEF LocalOK
  <2> QED BY <2>1 DEF Event
<1>4. new \in Seq(Seq(Told)) /\ Len(st) <= Len(new) /\ Len(new) \in Nat
  <2>1. new \in Seq(Seq(Told)) /\ Len(st) <= Len(new) BY <1>2, <1>3, Appended
  <2> QED BY <2>1
<1>5. hist.ver \in Nat /\ (hist.ver = 0 => hist.val = << >>) BY DEF MessagesInv, StoreOK
<1>6. CASE hist.ver = 0
  <2>1. hist.val = << >> /\ Len(hist.val) = 0 BY <1>5, <1>6
  <2> QED BY <1>2, <1>3, <1>4, <2>1
<1>7. CASE hist.ver # 0
  <2>1. hist.val = st BY <1>1, <1>7 DEF HistOK, Matches
  <2>2. \A j \in 1..Len(st) : IsPrefix(st[j], new[j]) BY <1>2, <1>3, AppendedGrows
  <2>3. DOMAIN st = 1..Len(st) BY <1>2
  <2> QED BY <1>2, <1>3, <1>4, <2>1, <2>2, <2>3
<1> QED BY <1>6, <1>7

(* The series an entry is saved to. *)
Target(p) == IF proc[p].kind = "series" THEN SeriesFor(proc[p].st, Event(p)) ELSE 1

LEMMA SaveHistoryOK ==
  ASSUME MessagesInv, NEW p \in Proc, SaveHistory(p)
  PROVE  /\ \E r : /\ Go(p, r) /\ LocalOK(r) /\ r.pc \in {"load", "upsert", "next"}
                   /\ r.todo = proc[p].todo /\ r.kind = proc[p].kind
                   /\ r.pc = "load" => UNCHANGED hist
         /\ \/ UNCHANGED hist
            \/ /\ Matches(p) /\ Target(p) \in 1..(Len(proc[p].st) + 1)
               /\ hist' = [val |-> AppendTo(proc[p].st, Target(p), Event(p)), ver |-> hist.ver + 1]
               /\ Grows(hist, hist')
<1> PICK i : i = Target(p) OBVIOUS
<1> PICK st : st = proc[p].st OBVIOUS
<1> PICK new : new = AppendTo(st, i, Event(p)) OBVIOUS
<1>1. LocalOK(proc[p]) /\ proc[p].pc = "save" /\ proc[p].kind \in {"apply", "series"}
  BY DEF MessagesInv, ProcsOK, SaveHistory
<1>2. st \in Seq(Seq(Told)) BY <1>1 DEF LocalOK
<1>3. i \in 1..(Len(st) + 1)
  <2>1. Len(st) \in Nat BY <1>2
  <2> QED BY <1>2, <2>1, SeriesExists DEF Target
<1>4. \/ /\ Matches(p) /\ hist' = [val |-> new, ver |-> hist.ver + 1]
         /\ \/ Go(p, [proc[p] EXCEPT !.pc = "upsert", !.then = "next", !.mem = new[i],
                                     !.marker = <<proc[p].kind, i>>, !.text = new[i]])
            \/ WithoutStore(p)
      \/ /\ UNCHANGED hist
         /\ \/ Go(p, [proc[p] EXCEPT !.pc = "load", !.n = @ + 1])
            \/ WithoutStore(p)
  BY DEF SaveHistory, Target
<1>5. \/ UNCHANGED hist
      \/ Matches(p) /\ hist' = [val |-> new, ver |-> hist.ver + 1] /\ Grows(hist, hist')
  <2>1. Matches(p) => Len(hist.val) <= Len(new) /\ \A j \in DOMAIN hist.val : IsPrefix(hist.val[j], new[j])
    BY <1>1, <1>3, SaveGrows
  <2>2. hist' = [val |-> new, ver |-> hist.ver + 1] => hist'.val = new OBVIOUS
  <2> QED BY <1>4, <2>1, <2>2 DEF Grows
<1> DEFINE Done(r) == /\ Go(p, r) /\ LocalOK(r) /\ r.pc \in {"load", "upsert", "next"}
                      /\ r.todo = proc[p].todo /\ r.kind = proc[p].kind
                      /\ r.pc = "load" => UNCHANGED hist
<1>6. CASE WithoutStore(p)
  <2>1. PICK r : Go(p, r) /\ LocalOK(r) /\ r.pc \in {"upsert", "next"} /\ r.todo = proc[p].todo
                 /\ r.kind = proc[p].kind
    BY <1>1, <1>6, WithoutStoreOK
  <2>2. Done(r) BY <2>1
  <2> QED BY <1>3, <1>5, <2>2
<1>7. CASE Go(p, [proc[p] EXCEPT !.pc = "upsert", !.then = "next", !.mem = new[i],
                                 !.marker = <<proc[p].kind, i>>, !.text = new[i]])
  <2>0. PICK r : r = [proc[p] EXCEPT !.pc = "upsert", !.then = "next", !.mem = new[i],
                                     !.marker = <<proc[p].kind, i>>, !.text = new[i]]
    OBVIOUS
  <2>1. /\ DOMAIN r = DOMAIN proc[p] /\ r = [f \in DOMAIN r |-> r[f]]
        /\ r.pc = "upsert" /\ r.then = "next" /\ r.kind = proc[p].kind
        /\ r.todo = proc[p].todo /\ r.etag = proc[p].etag /\ r.sl = proc[p].sl
    <3>1. PICK w : w = proc[p] OBVIOUS
    <3>2. r = [w EXCEPT !.pc = "upsert", !.then = "next", !.mem = new[i],
                        !.marker = <<w.kind, i>>, !.text = new[i]]
      BY <2>0, <3>1
    <3>3. DOMAIN w = {"pc", "kind", "todo", "parts", "part", "board", "st", "etag",
                      "n", "mem", "sl", "marker", "text", "then", "ok", "author"}
      BY <1>1, <3>1 DEF LocalOK
    <3> QED BY <3>1, <3>2, <3>3
  <2>2. LocalOK(r) BY <1>1, <2>1 DEF LocalOK, StageOK
  <2>3. Done(r) BY <1>7, <2>0, <2>1, <2>2
  <2> QED BY <1>3, <1>5, <2>3
<1>8. CASE UNCHANGED hist /\ Go(p, [proc[p] EXCEPT !.pc = "load", !.n = @ + 1])
  <2> PICK r : r = [proc[p] EXCEPT !.pc = "load", !.n = @ + 1] OBVIOUS
  <2>1. /\ DOMAIN r = DOMAIN proc[p] /\ r = [f \in DOMAIN r |-> r[f]]
        /\ r.pc = "load" /\ r.kind = proc[p].kind
        /\ r.todo = proc[p].todo /\ r.etag = proc[p].etag /\ r.sl = proc[p].sl
    BY <1>1 DEF LocalOK
  <2>2. LocalOK(r) BY <1>1, <2>1 DEF LocalOK, StageOK
  <2>3. Done(r) BY <1>8, <2>1, <2>2
  <2> QED BY <1>5, <1>8, <2>3
<1> QED BY <1>4, <1>6, <1>7, <1>8


LEMMA NextEventOK ==
  ASSUME MessagesInv, NEW p \in Proc, NextEvent(p)
  PROVE  \E r : Go(p, r) /\ LocalOK(r) /\ r.pc \in {"load", "end"} /\ r.todo = Tail(proc[p].todo)
                /\ r.kind = proc[p].kind /\ proc[p].todo # << >>
<1>1. LocalOK(proc[p]) /\ proc[p].pc = "next" BY DEF MessagesInv, ProcsOK, NextEvent
<1>2. proc[p].kind \in {"apply", "series"} BY <1>1 DEF LocalOK, StageOK
<1> PICK todo : todo = proc[p].todo OBVIOUS
<1>3. todo \in Seq(Told) /\ todo # << >> BY <1>1, <1>2 DEF LocalOK
<1> PICK r : r = [proc[p] EXCEPT !.todo = Tail(@), !.n = 0, !.st = << >>,
                                 !.pc = IF Len(proc[p].todo) = 1 THEN "end" ELSE "load"]
  OBVIOUS
<1>4. Tail(todo) \in Seq(Told) /\ (Len(todo) # 1 => Tail(todo) # << >>)
  <2>1. Tail(todo) \in Seq(Told) /\ Len(Tail(todo)) = Len(todo) - 1 /\ Len(todo) \in Nat BY <1>3
  <2>2. Tail(todo) = << >> => Len(Tail(todo)) = 0 OBVIOUS
  <2> QED BY <2>1, <2>2
<1>5. /\ DOMAIN r = DOMAIN proc[p] /\ r = [f \in DOMAIN r |-> r[f]]
      /\ r.pc = (IF Len(todo) = 1 THEN "end" ELSE "load") /\ r.kind = proc[p].kind
      /\ r.todo = Tail(todo) /\ r.etag = proc[p].etag /\ r.sl = proc[p].sl
  BY <1>1 DEF LocalOK
<1>6. LocalOK(r) BY <1>1, <1>2, <1>4, <1>5 DEF LocalOK, StageOK
<1>7. Go(p, r) BY DEF NextEvent
<1> QED BY <1>3, <1>5, <1>6, <1>7

LEMMA NextPartOK ==
  ASSUME MessagesInv, NEW p \in Proc, NextPart(p)
  PROVE  \E r : Go(p, r) /\ LocalOK(r) /\ r.pc \in {"upsert", "end", "whoami"}
                /\ r.todo = proc[p].todo /\ r.kind = "board"
<1>1. LocalOK(proc[p]) /\ proc[p].kind = "board" BY DEF MessagesInv, ProcsOK, NextPart
<1> PICK r1 : r1 = [proc[p] EXCEPT !.pc = "upsert", !.then = "part", !.part = @ + 1,
                                   !.marker = <<"board", proc[p].part + 1>>, !.text = <<p>>]
  OBVIOUS
<1> PICK r2 : r2 = [proc[p] EXCEPT !.pc = "end"] OBVIOUS
<1> PICK r3 : r3 = [proc[p] EXCEPT !.pc = "whoami", !.board = "board"] OBVIOUS
<1>2. Go(p, r1) \/ Go(p, r2) \/ Go(p, r3) BY DEF NextPart
<1>3. LocalOK(r1) /\ r1.pc = "upsert" /\ r1.todo = proc[p].todo /\ r1.kind = "board"
  <2>1. /\ DOMAIN r1 = DOMAIN proc[p] /\ r1 = [f \in DOMAIN r1 |-> r1[f]]
        /\ r1.pc = "upsert" /\ r1.then = "part" /\ r1.kind = "board"
        /\ r1.todo = proc[p].todo /\ r1.etag = proc[p].etag /\ r1.sl = proc[p].sl
    BY <1>1 DEF LocalOK
  <2> QED BY <1>1, <2>1 DEF LocalOK, StageOK
<1>4. LocalOK(r2) /\ r2.pc = "end" /\ r2.todo = proc[p].todo /\ r2.kind = "board"
  BY <1>1 DEF LocalOK, StageOK
<1>5. LocalOK(r3) /\ r3.pc = "whoami" /\ r3.todo = proc[p].todo /\ r3.kind = "board"
  BY <1>1 DEF LocalOK, StageOK
<1> QED BY <1>2, <1>3, <1>4, <1>5

(* If the history changes, the process has appended its event to it. *)
Records(p, r) ==
  /\ proc[p].pc = "save" /\ r.pc \in {"upsert", "next"} /\ r.todo = proc[p].todo
  /\ proc[p].kind \in {"apply", "series"} /\ Matches(p)
  /\ Target(p) \in 1..(Len(proc[p].st) + 1)
  /\ hist' = [val |-> AppendTo(proc[p].st, Target(p), Event(p)), ver |-> hist.ver + 1]

LEMMA TimelineOK ==
  ASSUME MessagesInv, NEW p \in Proc, Timeline(p)
  PROVE  /\ MessagesInv' /\ (Grows(hist, hist') \/ UNCHANGED hist)
         /\ \E r : Steps(p, r) /\ (UNCHANGED hist \/ Records(p, r))
<1>1. UNCHANGED <<slack, replies, ids>> /\ ids' \in Nat /\ Threaded(replies', slack)
  BY DEF Timeline, MessagesInv, StoreOK, LoadHistory, SaveHistory, NextEvent, NextPart
<1>2. CASE LoadHistory(p)
  <2>1. PICK r : Go(p, r) /\ LocalOK(r) /\ HistOK(r, hist) /\ r.pc \in {"save", "upsert", "next"}
                 /\ r.todo = proc[p].todo /\ r.kind = proc[p].kind
    BY <1>2, LoadHistoryOK
  <2>2. UNCHANGED hist /\ proc[p].pc = "load" BY <1>2 DEF LoadHistory
  <2>3. Steps(p, r) BY <2>1, <2>2 DEF Steps, SlackOK, Forth, Unrecorded
  <2> QED BY <1>1, <2>2, <2>3, QuietStep
<1>3. CASE NextEvent(p) \/ NextPart(p)
  <2>1. PICK r : Go(p, r) /\ LocalOK(r) /\ r.pc \in {"load", "upsert", "end", "whoami"}
                 /\ r.kind = proc[p].kind
                 /\ (r.kind = "board" \/ (r.todo = Tail(proc[p].todo) /\ proc[p].pc = "next"))
    <3>1. CASE NextEvent(p)
      <4>1. proc[p].pc = "next" BY <3>1 DEF NextEvent
      <4> QED BY <3>1, <4>1, NextEventOK
    <3>2. CASE NextPart(p)
      <4>1. proc[p].kind = "board" BY <3>2 DEF NextPart
      <4> QED BY <3>2, <4>1, NextPartOK
    <3> QED BY <1>3, <3>1, <3>2
  <2>2. UNCHANGED hist BY <1>3 DEF NextEvent, NextPart
  <2>3. Steps(p, r) BY <2>1, <2>2 DEF Steps, SlackOK, HistOK, Forth
  <2> QED BY <1>1, <2>2, <2>3, QuietStep
<1>4. CASE SaveHistory(p)
  <2>1. PICK r : /\ Go(p, r) /\ LocalOK(r) /\ r.pc \in {"load", "upsert", "next"}
                 /\ r.todo = proc[p].todo /\ r.kind = proc[p].kind
                 /\ r.pc = "load" => UNCHANGED hist
    BY <1>4, SaveHistoryOK
  <2>2. Steps(p, r) BY <1>4, <2>1 DEF Steps, SlackOK, HistOK, Forth, Unrecorded, SaveHistory
  <2>3. CASE UNCHANGED hist BY <1>1, <2>2, <2>3, QuietStep
  <2>4. CASE ~UNCHANGED hist
    <3> PICK new : new = AppendTo(proc[p].st, Target(p), Event(p)) OBVIOUS
    <3>1. /\ Matches(p) /\ Target(p) \in 1..(Len(proc[p].st) + 1)
          /\ hist' = [val |-> new, ver |-> hist.ver + 1] /\ Grows(hist, hist')
      BY <1>4, <2>4, SaveHistoryOK
    <3>2. new \in Seq(Seq(Told)) BY <1>4, <3>1, SaveGrows DEF SaveHistory
    <3>3. hist.ver \in Nat BY DEF MessagesInv, StoreOK
    <3>4. StoreOK' BY <1>1, <3>1, <3>2, <3>3 DEF MessagesInv, StoreOK
    <3>5. Moved(hist, hist') /\ Moved(slack, slack') /\ Keeps(slack, slack')
      BY <1>1, <3>1 DEF Moved, Keeps
    <3>6. Threaded(replies, slack)' BY <1>1
    <3>7. MessagesInv' BY <2>2, <3>4, <3>5, <3>6, StepKeeps
    <3>8. Records(p, r) BY <1>4, <2>1, <2>4, <3>1 DEF Records, SaveHistory
    <3> QED BY <2>2, <3>1, <3>7, <3>8
  <2> QED BY <2>3, <2>4
<1> QED BY <1>2, <1>3, <1>4 DEF Timeline

-----------------------------------------------------------------------------
(* The steps of the Slack channels. *)

LEMMA DeliveredOK ==
  ASSUME NEW p, NEW ok, LocalOK(proc[p]), proc[p].kind \in {"dash", "thread"}, proc[p].pc # "end",
         Delivered(p, ok)
  PROVE  \E r : Go(p, r) /\ LocalOK(r) /\ r.pc \in {"load", "end"} /\ r.kind = proc[p].kind
<1> PICK todo : todo = proc[p].todo OBVIOUS
<1>1. todo \in Seq(Told) /\ todo # << >> BY DEF LocalOK
<1>0. PICK r : r = [proc[p] EXCEPT !.pc = IF Len(proc[p].todo) = 1 THEN "end" ELSE "load",
                                   !.todo = Tail(@), !.n = 0, !.sl = NoMessage, !.ok = @ /\ ok]
  OBVIOUS
<1>2. Tail(todo) \in Seq(Told) /\ (Len(todo) # 1 => Tail(todo) # << >>)
  <2>1. Tail(todo) \in Seq(Told) /\ Len(Tail(todo)) = Len(todo) - 1 /\ Len(todo) \in Nat BY <1>1
  <2>2. Tail(todo) = << >> => Len(Tail(todo)) = 0 OBVIOUS
  <2> QED BY <2>1, <2>2
<1>3. /\ DOMAIN r = DOMAIN proc[p] /\ r = [f \in DOMAIN r |-> r[f]]
      /\ r.pc = (IF Len(todo) = 1 THEN "end" ELSE "load") /\ r.kind = proc[p].kind
      /\ r.todo = Tail(todo) /\ r.etag = proc[p].etag /\ r.sl = NoMessage
  BY <1>0 DEF LocalOK
<1>4. StageOK(r) BY <1>3 DEF StageOK
<1>5. r.pc # "end" => r.todo # << >> BY <1>2, <1>3
<1>6. LocalOK(r) BY <1>2, <1>3, <1>4, <1>5 DEF LocalOK, Message, NoMessage
<1>7. Go(p, r) BY <1>0 DEF Delivered
<1>8. r.pc \in {"load", "end"} /\ r.kind = proc[p].kind BY <1>3
<1> QED BY <1>6, <1>7, <1>8

(* The next delivery, or the next place of this one. *)
Onward(p) == \E r : Steps(p, r)

LEMMA DeliveredOnward ==
  ASSUME MessagesInv, NEW p \in Proc, NEW ok, proc[p].kind \in {"dash", "thread"}, proc[p].pc # "end",
         Delivered(p, ok)
  PROVE  Onward(p)
<1>1. LocalOK(proc[p]) BY DEF MessagesInv, ProcsOK
<1>2. PICK r : Go(p, r) /\ LocalOK(r) /\ r.pc \in {"load", "end"} /\ r.kind = proc[p].kind
  BY <1>1, DeliveredOK
<1>3. Forth(proc[p], r) BY <1>2 DEF Forth
<1> QED BY <1>2, <1>3 DEF Onward, Steps, HistOK, SlackOK

(* A process that changes its place, its message and the version it read. *)
Hop(p, r) ==
  /\ proc[p].kind \in {"dash", "thread"} /\ proc[p].pc # "end"
  /\ Go(p, r) /\ DOMAIN r = DOMAIN proc[p] /\ r = [f \in DOMAIN r |-> r[f]]
  /\ r.kind = proc[p].kind /\ r.todo = proc[p].todo /\ r.etag \in Nat /\ Message(r.sl)
  /\ r.pc \in {"post", "courtesy", "claim", "keep", "merge", "adopt", "reply"}
  /\ r.pc = "courtesy" => r.kind = "dash"
  /\ r.pc \in {"claim", "adopt", "reply"} => r.kind = "thread"
  /\ r.pc \in {"courtesy", "claim", "keep", "merge"} => r.sl.main # None
  /\ SlackOK(r, slack')

LEMMA MessageStep ==
  ASSUME MessagesInv, NEW p \in Proc, NEW r, Hop(p, r)
  PROVE  Onward(p)
<1>1. LocalOK(proc[p]) BY DEF MessagesInv, ProcsOK
<1>2. StageOK(r) BY <1>1 DEF LocalOK, StageOK, Hop
<1>3. LocalOK(r) BY <1>1, <1>2 DEF LocalOK, Hop
<1>4. Forth(proc[p], r) BY DEF Forth, Hop
<1> QED BY <1>3, <1>4 DEF Onward, Steps, HistOK, Hop

LEMMA LoadSlackOK ==
  ASSUME MessagesInv, NEW p \in Proc, LoadSlack(p)
  PROVE  Onward(p)
<1>1. LocalOK(proc[p]) /\ proc[p].pc = "load" /\ proc[p].kind \in {"dash", "thread"}
  BY DEF MessagesInv, ProcsOK, LoadSlack, Slacker
<1>2. UNCHANGED slack /\ slack.ver \in Nat /\ Message(slack.val)
  BY DEF LoadSlack, MessagesInv, StoreOK
<1>3. CASE \E ok \in BOOLEAN : Delivered(p, ok) BY <1>1, <1>3, DeliveredOnward
<1>4. CASE ~\E ok \in BOOLEAN : Delivered(p, ok)
  <2>0. PICK r : r = [proc[p] EXCEPT
                        !.sl = slack.val, !.etag = slack.ver,
                        !.pc = IF proc[p].kind = "dash" \/ slack.val.main = None THEN "post"
                               ELSE IF slack.val.owner = None THEN "claim" ELSE "reply"]
    OBVIOUS
  <2>1. Go(p, r) BY <1>4, <2>0 DEF LoadSlack
  <2>2. /\ DOMAIN r = DOMAIN proc[p] /\ r = [f \in DOMAIN r |-> r[f]] /\ r.kind = proc[p].kind
        /\ r.todo = proc[p].todo /\ r.etag = slack.ver /\ r.sl = slack.val
        /\ r.pc = IF proc[p].kind = "dash" \/ slack.val.main = None THEN "post"
                  ELSE IF slack.val.owner = None THEN "claim" ELSE "reply"
    BY <1>1, <2>0 DEF LocalOK
  <2>3. SlackOK(r, slack') BY <1>2, <2>2 DEF SlackOK
  <2>4. r.pc \in {"post", "claim", "reply"} /\ (r.pc \in {"claim", "reply"} => r.kind = "thread")
    BY <1>1, <2>2
  <2>5. r.pc = "claim" => r.sl.main # None BY <2>2
  <2>9. Hop(p, r) BY <1>1, <1>2, <2>1, <2>2, <2>3, <2>4, <2>5 DEF Hop
  <2> QED BY <2>9, MessageStep
<1> QED BY <1>3, <1>4

LEMMA PostMainOK ==
  ASSUME MessagesInv, NEW p \in Proc, PostMain(p)
  PROVE  Onward(p) /\ ids' \in Nat
<1>1. LocalOK(proc[p]) /\ proc[p].pc = "post" /\ SlackOK(proc[p], slack)
  BY DEF MessagesInv, ProcsOK, PostMain
<1>2. proc[p].kind \in {"dash", "thread"} /\ Message(proc[p].sl) /\ proc[p].etag \in Nat
  BY <1>1 DEF LocalOK, StageOK
<1>3. UNCHANGED slack /\ ids \in Nat BY DEF PostMain, MessagesInv, StoreOK
<1>4. ids' \in Nat
  <2>1. ids' \in {ids, ids + 1} BY DEF PostMain
  <2> QED BY <1>3, <2>1
<1>5. CASE Delivered(p, FALSE)
  <2>1. \E ok \in BOOLEAN : Delivered(p, ok) BY <1>5
  <2> QED BY <1>1, <1>2, <1>4, <2>1, DeliveredOnward
<1>6. CASE ~Delivered(p, FALSE)
  <2>01. PICK ts : ts = IF proc[p].sl.main = None THEN ids + 1 ELSE proc[p].sl.main OBVIOUS
  <2>02. PICK r : r = [proc[p] EXCEPT !.sl.main = ts,
                         !.pc = IF proc[p].kind = "thread" THEN "claim"
                                ELSE IF proc[p].sl.owner = None THEN "courtesy" ELSE "keep"]
    OBVIOUS
  <2>1. Go(p, r) BY <1>6, <2>01, <2>02 DEF PostMain
  <2>2. /\ DOMAIN r = DOMAIN proc[p] /\ r = [f \in DOMAIN r |-> r[f]] /\ r.kind = proc[p].kind
        /\ r.todo = proc[p].todo /\ r.etag = proc[p].etag
        /\ r.sl = [proc[p].sl EXCEPT !.main = ts]
        /\ r.pc = IF proc[p].kind = "thread" THEN "claim"
                  ELSE IF proc[p].sl.owner = None THEN "courtesy" ELSE "keep"
    BY <1>1, <2>02 DEF LocalOK
  <2>3. DOMAIN r.sl = DOMAIN proc[p].sl /\ r.sl.main = ts /\ r.sl.owner = proc[p].sl.owner
    BY <1>2, <2>2 DEF Message
  <2>4. Message(r.sl) BY <1>2, <2>3 DEF Message
  <2>5. ts # None BY <1>3, <2>01, CastsAssumption
  <2>6. SlackOK(r, slack')
    <3>1. r.pc \in {"claim", "courtesy", "keep"} BY <2>2
    <3>2. /\ proc[p].etag <= slack.ver
          /\ proc[p].etag = slack.ver =>
               /\ slack.val.main # None => proc[p].sl.main = slack.val.main
               /\ slack.val.owner # None => proc[p].sl.owner = slack.val.owner
      BY <1>1 DEF SlackOK
    <3> QED BY <1>3, <2>01, <2>2, <2>3, <3>1, <3>2 DEF SlackOK
  <2>7. /\ r.pc \in {"claim", "courtesy", "keep"} /\ (r.pc = "courtesy" => r.kind = "dash")
        /\ (r.pc = "claim" => r.kind = "thread")
    BY <1>2, <2>2
  <2>8. DOMAIN r = DOMAIN proc[p] /\ r.kind = proc[p].kind /\ r.todo = proc[p].todo /\ r.etag \in Nat
        /\ r = [f \in DOMAIN r |-> r[f]]
    BY <1>2, <2>2
  <2>9. r.pc \in {"courtesy", "claim", "keep", "merge"} => r.sl.main # None BY <2>3, <2>5
  <2>10. Hop(p, r) BY <1>1, <1>2, <2>1, <2>4, <2>6, <2>7, <2>8, <2>9 DEF Hop
  <2> QED BY <1>4, <2>10, MessageStep
<1> QED BY <1>5, <1>6

LEMMA CourtesyOK ==
  ASSUME MessagesInv, NEW p \in Proc, Courtesy(p)
  PROVE  Onward(p) /\ ids' \in Nat /\ Threaded(replies', slack)
<1>1. LocalOK(proc[p]) /\ proc[p].pc = "courtesy" /\ SlackOK(proc[p], slack)
  BY DEF MessagesInv, ProcsOK, Courtesy
<1>2. proc[p].kind = "dash" /\ Message(proc[p].sl) /\ proc[p].etag \in Nat /\ proc[p].sl.main # None
  BY <1>1 DEF LocalOK, StageOK
<1>3. UNCHANGED slack /\ ids \in Nat BY DEF Courtesy, MessagesInv, StoreOK
<1>4. ids' \in Nat
  <2>1. ids' = ids + 1 \/ ids' = ids BY DEF Courtesy
  <2> QED BY <1>3, <2>1
<1>5. Threaded(replies', slack)
  <2>1. replies' = replies \cup {[parent |-> proc[p].sl.main, kind |-> "dash"]} \/ replies' = replies
    BY DEF Courtesy
  <2> QED BY <2>1 DEF MessagesInv, Threaded
<1>6. PICK r, sl : Go(p, r) /\ r = [proc[p] EXCEPT !.pc = "keep", !.sl = sl]
                   /\ DOMAIN sl = DOMAIN proc[p].sl /\ sl.main = proc[p].sl.main
                   /\ sl.owner = proc[p].sl.owner
  <2>1. CASE Go(p, [proc[p] EXCEPT !.pc = "keep",
                      !.sl.thread = IF @ = None THEN ids + 1 ELSE @])
    <3> PICK sl : sl = [proc[p].sl EXCEPT !.thread = IF @ = None THEN ids + 1 ELSE @] OBVIOUS
    <3>1. [proc[p] EXCEPT !.pc = "keep", !.sl.thread = IF @ = None THEN ids + 1 ELSE @]
            = [proc[p] EXCEPT !.pc = "keep", !.sl = sl]
      BY <1>1 DEF LocalOK
    <3>2. DOMAIN sl = DOMAIN proc[p].sl /\ sl.main = proc[p].sl.main /\ sl.owner = proc[p].sl.owner
      BY <1>2 DEF Message
    <3> QED BY <2>1, <3>1, <3>2
  <2>2. CASE Go(p, [proc[p] EXCEPT !.pc = "keep"])
    <3>1. [proc[p] EXCEPT !.pc = "keep"] = [proc[p] EXCEPT !.pc = "keep", !.sl = proc[p].sl]
      BY <1>1 DEF LocalOK
    <3> QED BY <2>2, <3>1
  <2> QED BY <2>1, <2>2 DEF Courtesy
<1>7. /\ DOMAIN r = DOMAIN proc[p] /\ r = [f \in DOMAIN r |-> r[f]] /\ r.kind = proc[p].kind
      /\ r.todo = proc[p].todo /\ r.etag = proc[p].etag /\ r.sl = sl /\ r.pc = "keep"
  BY <1>1, <1>6 DEF LocalOK
<1>8. Message(r.sl) /\ r.sl.main # None BY <1>2, <1>6, <1>7 DEF Message
<1>9. SlackOK(r, slack') BY <1>1, <1>3, <1>6, <1>7 DEF SlackOK
<1>10. Hop(p, r) BY <1>1, <1>2, <1>4, <1>5, <1>6, <1>7, <1>8, <1>9 DEF Hop
<1> QED BY <1>4, <1>5, <1>10, MessageStep

LEMMA ClaimOK ==
  ASSUME MessagesInv, NEW p \in Proc, Claim(p)
  PROVE  Onward(p)
<1>1. LocalOK(proc[p]) /\ proc[p].pc = "claim" /\ SlackOK(proc[p], slack)
  BY DEF MessagesInv, ProcsOK, Claim
<1>2. proc[p].kind = "thread" /\ Message(proc[p].sl) /\ proc[p].etag \in Nat /\ proc[p].sl.main # None
  BY <1>1 DEF LocalOK, StageOK
<1>3. UNCHANGED slack BY DEF Claim
<1> PICK sl : sl = [proc[p].sl EXCEPT !.owner = IF @ = None THEN "timeline" ELSE @] OBVIOUS
<1> PICK r : r = [proc[p] EXCEPT !.sl.owner = IF @ = None THEN "timeline" ELSE @, !.pc = "keep"]
  OBVIOUS
<1>4. Go(p, r) BY DEF Claim
<1>5. DOMAIN sl = DOMAIN proc[p].sl /\ sl.main = proc[p].sl.main
      /\ sl.owner = IF proc[p].sl.owner = None THEN "timeline" ELSE proc[p].sl.owner
  BY <1>2 DEF Message
<1>6. /\ DOMAIN r = DOMAIN proc[p] /\ r = [f \in DOMAIN r |-> r[f]] /\ r.kind = proc[p].kind
      /\ r.todo = proc[p].todo /\ r.etag = proc[p].etag /\ r.sl = sl /\ r.pc = "keep"
  BY <1>1 DEF LocalOK
<1>7. Message(r.sl) /\ r.sl.main # None BY <1>2, <1>5, <1>6 DEF Message
<1>8. SlackOK(r, slack')
  <2>1. /\ proc[p].etag <= slack.ver
        /\ proc[p].etag = slack.ver =>
             /\ slack.val.main # None => proc[p].sl.main = slack.val.main
             /\ slack.val.owner # None => proc[p].sl.owner = slack.val.owner
    BY <1>1 DEF SlackOK
  <2> QED BY <1>3, <1>5, <1>6, <2>1 DEF SlackOK
<1>9. Hop(p, r) BY <1>1, <1>2, <1>4, <1>6, <1>7, <1>8 DEF Hop
<1> QED BY <1>9, MessageStep

(* The place after a save. *)
LEMMA SavedOK ==
  ASSUME MessagesInv, NEW p \in Proc, proc[p].pc \in {"keep", "merge"}, NEW ok \in BOOLEAN,
         Saved(p, ok), ok => slack'.val.main # None /\ slack'.val.main = proc[p].sl.main
  PROVE  Onward(p)
<1>1. LocalOK(proc[p]) BY DEF MessagesInv, ProcsOK
<1>2. proc[p].kind \in {"dash", "thread"} /\ Message(proc[p].sl) /\ proc[p].etag \in Nat
  BY <1>1 DEF LocalOK, StageOK
<1>3. CASE proc[p].kind = "dash"
  <2>1. Delivered(p, ok) BY <1>3 DEF Saved
  <2> QED BY <1>2, <2>1, DeliveredOnward
<1>4. CASE proc[p].kind = "thread"
  <2> PICK r : r = [proc[p] EXCEPT !.pc = IF ok THEN "reply" ELSE "adopt"] OBVIOUS
  <2>1. Go(p, r) BY <1>4 DEF Saved
  <2>2. /\ DOMAIN r = DOMAIN proc[p] /\ r = [f \in DOMAIN r |-> r[f]] /\ r.kind = proc[p].kind
        /\ r.todo = proc[p].todo /\ r.etag = proc[p].etag /\ r.sl = proc[p].sl
        /\ r.pc = IF ok THEN "reply" ELSE "adopt"
    BY <1>1 DEF LocalOK
  <2>3. SlackOK(r, slack') BY <2>2 DEF SlackOK
  <2>4. r.pc \in {"adopt", "reply"} BY <2>2
  <2>9. Hop(p, r) BY <1>2, <1>4, <2>1, <2>2, <2>3, <2>4 DEF Hop
  <2> QED BY <2>9, MessageStep
<1> QED BY <1>2, <1>3, <1>4

LEMMA SaveSlackOK ==
  ASSUME MessagesInv, NEW p \in Proc, SaveSlack(p)
  PROVE  /\ Onward(p)
         /\ \/ UNCHANGED slack
            \/ slack' = [val |-> proc[p].sl, ver |-> slack.ver + 1] /\ Keeps(slack, slack')
<1>1. LocalOK(proc[p]) /\ proc[p].pc = "keep" /\ SlackOK(proc[p], slack)
  BY DEF MessagesInv, ProcsOK, SaveSlack
<1>2. /\ proc[p].kind \in {"dash", "thread"} /\ Message(proc[p].sl) /\ proc[p].etag \in Nat
      /\ proc[p].sl.main # None
  BY <1>1 DEF LocalOK, StageOK
<1>3. CASE slack.ver = proc[p].etag /\ slack' = [val |-> proc[p].sl, ver |-> slack.ver + 1]
           /\ \E ok \in BOOLEAN : Saved(p, ok)
  <2>1. slack'.val = proc[p].sl BY <1>3
  <2>2. Onward(p) BY <1>1, <1>2, <1>3, <2>1, SavedOK
  <2>3. Keeps(slack, slack') BY <1>1, <1>3, <2>1 DEF SlackOK, Keeps
  <2> QED BY <1>3, <2>2, <2>3
<1>4. CASE UNCHANGED slack /\ Saved(p, FALSE) BY <1>1, <1>4, SavedOK
<1>5. CASE UNCHANGED slack /\ Go(p, [proc[p] EXCEPT !.pc = "merge"])
  <2> PICK r : r = [proc[p] EXCEPT !.pc = "merge"] OBVIOUS
  <2>1. /\ DOMAIN r = DOMAIN proc[p] /\ r = [f \in DOMAIN r |-> r[f]] /\ r.kind = proc[p].kind
        /\ r.todo = proc[p].todo /\ r.etag = proc[p].etag /\ r.sl = proc[p].sl /\ r.pc = "merge"
    BY <1>1 DEF LocalOK
  <2>2. SlackOK(r, slack') BY <2>1 DEF SlackOK
  <2>9. Hop(p, r) BY <1>1, <1>2, <1>5, <2>1, <2>2 DEF Hop
  <2> QED BY <1>5, <2>9, MessageStep
<1> QED BY <1>3, <1>4, <1>5 DEF SaveSlack

LEMMA MergeSlackOK ==
  ASSUME MessagesInv, NEW p \in Proc, MergeSlack(p)
  PROVE  Onward(p)
<1>1. LocalOK(proc[p]) /\ proc[p].pc = "merge" BY DEF MessagesInv, ProcsOK, MergeSlack
<1>2. /\ proc[p].kind \in {"dash", "thread"} /\ Message(proc[p].sl) /\ proc[p].sl.main # None
  BY <1>1 DEF LocalOK, StageOK
<1>3. UNCHANGED slack /\ slack.ver \in Nat /\ Message(slack.val)
  BY DEF MergeSlack, MessagesInv, StoreOK
<1>4. CASE Saved(p, FALSE) BY <1>1, <1>4, SavedOK
<1>5. CASE ~Saved(p, FALSE)
  <2> PICK sl : sl = Merged(p) OBVIOUS
  <2> PICK r : r = [proc[p] EXCEPT !.sl = sl, !.etag = slack.ver, !.n = @ + 1, !.pc = "keep"] OBVIOUS
  <2>1. Go(p, r) /\ ~Conflicts(p) BY <1>5 DEF MergeSlack
  <2>2. /\ DOMAIN sl = DOMAIN proc[p].sl /\ sl.main = proc[p].sl.main
        /\ sl.owner = IF proc[p].sl.owner = None THEN slack.val.owner ELSE proc[p].sl.owner
    BY <1>2 DEF Merged, Message
  <2>3. /\ DOMAIN r = DOMAIN proc[p] /\ r = [f \in DOMAIN r |-> r[f]] /\ r.kind = proc[p].kind
        /\ r.todo = proc[p].todo /\ r.etag = slack.ver /\ r.sl = sl /\ r.pc = "keep"
    BY <1>1 DEF LocalOK
  <2>4. Message(r.sl) /\ r.sl.main # None BY <1>2, <1>3, <2>2, <2>3 DEF Message
  <2>5. slack.val.owner # None => sl.owner = slack.val.owner BY <1>2, <1>3, <2>2 DEF Message
  <2>6. slack.val.main # None => sl.main = slack.val.main BY <2>1, <2>2 DEF Conflicts
  <2>7. SlackOK(r, slack') BY <1>3, <2>3, <2>5, <2>6 DEF SlackOK
  <2>9. Hop(p, r) BY <1>1, <1>2, <1>3, <2>1, <2>3, <2>4, <2>7 DEF Hop
  <2> QED BY <2>9, MessageStep
<1> QED BY <1>4, <1>5

LEMMA AdoptAnchorOK ==
  ASSUME MessagesInv, NEW p \in Proc, AdoptAnchor(p)
  PROVE  Onward(p)
<1>1. LocalOK(proc[p]) /\ proc[p].pc = "adopt" BY DEF MessagesInv, ProcsOK, AdoptAnchor
<1>2. proc[p].kind = "thread" /\ proc[p].etag \in Nat BY <1>1 DEF LocalOK, StageOK
<1>3. UNCHANGED slack /\ Message(slack.val) BY DEF AdoptAnchor, MessagesInv, StoreOK
<1>4. CASE Delivered(p, FALSE)
  <2>1. \E ok \in BOOLEAN : Delivered(p, ok) BY <1>4
  <2> QED BY <1>1, <1>2, <2>1, DeliveredOnward
<1>5. CASE ~Delivered(p, FALSE)
  <2> PICK r : r = [proc[p] EXCEPT !.pc = "reply", !.sl = slack.val] OBVIOUS
  <2>1. Go(p, r) /\ slack.val.main # None BY <1>5 DEF AdoptAnchor
  <2>2. /\ DOMAIN r = DOMAIN proc[p] /\ r = [f \in DOMAIN r |-> r[f]] /\ r.kind = proc[p].kind
        /\ r.todo = proc[p].todo /\ r.etag = proc[p].etag /\ r.sl = slack.val /\ r.pc = "reply"
    BY <1>1 DEF LocalOK
  <2>3. SlackOK(r, slack') BY <1>3, <2>1, <2>2 DEF SlackOK
  <2>9. Hop(p, r) BY <1>1, <1>2, <1>3, <2>1, <2>2, <2>3 DEF Hop
  <2> QED BY <2>9, MessageStep
<1> QED BY <1>4, <1>5

LEMMA ReplyOK ==
  ASSUME MessagesInv, NEW p \in Proc, Reply(p)
  PROVE  Onward(p) /\ Threaded(replies', slack)
<1>1. LocalOK(proc[p]) /\ proc[p].pc = "reply" /\ SlackOK(proc[p], slack)
  BY DEF MessagesInv, ProcsOK, Reply
<1>2. proc[p].kind = "thread" BY <1>1 DEF LocalOK, StageOK
<1>3. \E ok \in BOOLEAN : Delivered(p, ok) BY DEF Reply
<1>4. Onward(p) BY <1>1, <1>2, <1>3, DeliveredOnward
<1>5. replies' = replies \cup {[parent |-> proc[p].sl.main, kind |-> "thread"]} \/ replies' = replies
  BY DEF Reply
<1>6. Threaded(replies', slack) BY <1>1, <1>5 DEF MessagesInv, Threaded, SlackOK
<1> QED BY <1>4, <1>6

LEMMA SlackStepOK ==
  ASSUME MessagesInv, NEW p \in Proc, Slack(p)
  PROVE  MessagesInv' /\ Keeps(slack, slack') /\ UNCHANGED hist /\ \E r : Steps(p, r)
<1>1. UNCHANGED hist BY DEF Slack
<1>2. ids \in Nat /\ Threaded(replies, slack) BY DEF MessagesInv, StoreOK
<1>3. CASE ~SaveSlack(p)
  <2>1. Onward(p) /\ UNCHANGED slack /\ ids' \in Nat /\ Threaded(replies', slack)
    <3>1. CASE LoadSlack(p) BY <1>2, <3>1, LoadSlackOK DEF LoadSlack
    <3>2. CASE PostMain(p) BY <1>2, <3>2, PostMainOK DEF PostMain
    <3>3. CASE Courtesy(p) BY <1>2, <3>3, CourtesyOK DEF Courtesy
    <3>4. CASE Claim(p) BY <1>2, <3>4, ClaimOK DEF Claim
    <3>5. CASE MergeSlack(p) BY <1>2, <3>5, MergeSlackOK DEF MergeSlack
    <3>6. CASE AdoptAnchor(p) BY <1>2, <3>6, AdoptAnchorOK DEF AdoptAnchor
    <3>7. CASE Reply(p) BY <1>2, <3>7, ReplyOK DEF Reply
    <3> QED BY <1>3, <3>1, <3>2, <3>3, <3>4, <3>5, <3>6, <3>7 DEF Slack
  <2>2. PICK r : Steps(p, r) BY <2>1 DEF Onward
  <2> QED BY <1>1, <2>1, <2>2, QuietStep
<1>4. CASE SaveSlack(p)
  <2>1. PICK r : Steps(p, r) BY <1>4, SaveSlackOK DEF Onward
  <2>2. UNCHANGED <<ids, replies>> BY <1>4 DEF SaveSlack
  <2>3. CASE UNCHANGED slack BY <1>1, <1>2, <2>1, <2>2, <2>3, QuietStep
  <2>4. CASE ~UNCHANGED slack
    <3>1. slack' = [val |-> proc[p].sl, ver |-> slack.ver + 1] /\ Keeps(slack, slack')
      BY <1>4, <2>4, SaveSlackOK
    <3>2. Message(proc[p].sl) BY DEF MessagesInv, ProcsOK, LocalOK
    <3>3. slack.ver \in Nat BY DEF MessagesInv, StoreOK
    <3>4. StoreOK' BY <1>1, <2>2, <3>1, <3>2, <3>3 DEF MessagesInv, StoreOK
    <3>5. Moved(hist, hist') /\ Moved(slack, slack') BY <1>1, <3>1 DEF Moved
    <3>6. Threaded(replies, slack)' BY <1>2, <2>2, <3>1 DEF Threaded, Keeps
    <3>7. MessagesInv' BY <2>1, <3>1, <3>4, <3>5, <3>6, StepKeeps
    <3> QED BY <1>1, <2>1, <3>1, <3>7
  <2> QED BY <2>3, <2>4
<1> QED BY <1>3, <1>4

(* Who goes on is not through, and does not start before others are. *)
Turn(p) ==
  /\ proc[p].pc # "end"
  /\ proc[p].pc = "idle" => \A q \in after[p] : proc[q].pc = "end"

LEMMA TakesTurn ==
  ASSUME NEW p \in Proc, Start(p) \/ Comment(p) \/ Timeline(p) \/ Slack(p)
  PROVE  Turn(p) /\ UNCHANGED after
<1>1. CASE Start(p) BY <1>1 DEF Start, Turn
<1>2. CASE Comment(p)
  BY <1>2 DEF Comment, ListComments, EditComment, CreateComment, IdentifyAuthor, DeleteStalePart, Turn
<1>3. CASE Timeline(p)
  BY <1>3 DEF Timeline, LoadHistory, SaveHistory, NextEvent, NextPart, Turn
<1>4. CASE Slack(p)
  BY <1>4 DEF Slack, LoadSlack, PostMain, Courtesy, Claim, SaveSlack, MergeSlack, AdoptAnchor,
              Reply, Turn
<1> QED BY <1>1, <1>2, <1>3, <1>4

(* Nothing is told, or one process goes on. *)
OneGoesOn ==
  \/ UNCHANGED <<proc, hist, after>>
  \/ \E p \in Proc : \E r : /\ Steps(p, r) /\ (UNCHANGED hist \/ Records(p, r))
                            /\ Turn(p) /\ UNCHANGED after

LEMMA MessagesStep ==
  MessagesInv /\ [MessagesNext]_messagesVars =>
    /\ MessagesInv' /\ OneGoesOn
    /\ UNCHANGED hist \/ Grows(hist, hist')
    /\ Keeps(slack, slack')
<1> SUFFICES ASSUME MessagesInv, [MessagesNext]_messagesVars
             PROVE  /\ MessagesInv' /\ OneGoesOn
                    /\ UNCHANGED hist \/ Grows(hist, hist')
                    /\ Keeps(slack, slack')
  OBVIOUS
<1>1. UNCHANGED slack => Keeps(slack, slack') BY DEF Keeps
<1>2. ASSUME NEW p \in Proc, Start(p) PROVE MessagesInv' /\ UNCHANGED <<hist, slack>> /\ OneGoesOn
  BY <1>2, StartOK, TakesTurn DEF Start, OneGoesOn
<1>3. ASSUME NEW p \in Proc, Comment(p) PROVE MessagesInv' /\ UNCHANGED <<hist, slack>> /\ OneGoesOn
  BY <1>3, CommentOK, TakesTurn DEF Comment, OneGoesOn
<1>4. ASSUME NEW p \in Proc, Timeline(p)
      PROVE  MessagesInv' /\ UNCHANGED slack /\ (UNCHANGED hist \/ Grows(hist, hist')) /\ OneGoesOn
  BY <1>4, TimelineOK, TakesTurn DEF Timeline, OneGoesOn
<1>5. ASSUME NEW p \in Proc, Slack(p)
      PROVE  MessagesInv' /\ UNCHANGED hist /\ Keeps(slack, slack') /\ OneGoesOn
  BY <1>5, SlackStepOK, TakesTurn DEF OneGoesOn
<1>6. ASSUME UNCHANGED <<proc, ids, hist, slack, replies>> PROVE MessagesInv'
  BY <1>6 DEF MessagesInv, StoreOK, ProcsOK
<1>7. ASSUME Vanish PROVE MessagesInv' /\ UNCHANGED <<hist, slack>> /\ OneGoesOn
  <2>1. UNCHANGED <<proc, ids, hist, slack, replies, after>> BY <1>7 DEF Vanish, RemoveComment
  <2> QED BY <1>6, <2>1 DEF OneGoesOn
<1>8. ASSUME UNCHANGED messagesVars PROVE MessagesInv' /\ UNCHANGED <<hist, slack>> /\ OneGoesOn
  <2>1. UNCHANGED <<proc, ids, hist, slack, replies, after>> BY <1>8 DEF messagesVars
  <2> QED BY <1>6, <2>1 DEF OneGoesOn
<1> QED BY <1>1, <1>2, <1>3, <1>4, <1>5, <1>7, <1>8 DEF MessagesNext, Finished

(* Whoever appends at the same time and whatever fails, nothing that the     *)
(* compare-and-swap loops of the timelines have recorded is lost or moved.   *)
THEOREM HistoryStays == MessagesSpec => HistoryKept
<1>1. MessagesInv /\ [MessagesNext]_messagesVars =>
        [/\ Len(hist.val) <= Len(hist'.val)
         /\ \A i \in DOMAIN hist.val : IsPrefix(hist.val[i], hist'.val[i])]_hist
  BY MessagesStep DEF Grows
<1> QED BY <1>1, MessagesStart, MessagesStep, PTL DEF MessagesSpec, HistoryKept

(* The message that StateStore.Save has recorded for the pull request, and   *)
(* the owner of its thread, are never replaced, by any number of writers.    *)
THEOREM AnchorStays == MessagesSpec => AnchorKept
<1>1. MessagesInv /\ [MessagesNext]_messagesVars =>
        [/\ slack.val.main # None => slack'.val.main = slack.val.main
         /\ slack.val.owner # None => slack'.val.owner = slack.val.owner]_slack
  BY MessagesStep DEF Keeps
<1> QED BY <1>1, MessagesStart, MessagesStep, PTL DEF MessagesSpec, AnchorKept

(* timeline_slack replies under the recorded message only, also when it lost *)
(* the race to record its own.                                               *)
THEOREM RepliesStayTogether == MessagesSpec => []RepliesUnderAnchor
<1>1. MessagesInv => RepliesUnderAnchor BY DEF MessagesInv, Threaded, RepliesUnderAnchor
<1> QED BY <1>1, MessagesStart, MessagesStep, PTL DEF MessagesSpec


-----------------------------------------------------------------------------
(* Plans and their series. *)

(* Every event names its run, and of a run a job tells the beginning first   *)
(* and the end before anything else; jobs of one run follow each other; what *)
(* an earlier version stored names no run; and the two timelines, which keep *)
(* a history each, are not played together.                                  *)
InOrder(todo) ==
  /\ \A k \in 1..Len(todo) : todo[k].run # None
  /\ \A k, l \in 1..Len(todo) :
       k < l /\ todo[k].run = todo[l].run =>
         todo[l].ev # "planning" /\ (todo[l].ev = "plan" => todo[k].ev \in {"planning", "plan"})

ApartRuns(todo1, todo2) ==
  \A k \in 1..Len(todo1), l \in 1..Len(todo2) : todo1[k].run # todo2[l].run

RunsInOrder ==
  /\ \A cast \in Casts :
       \/ \A p \in Proc : cast[p].kind # "series"
       \/ /\ \A p \in Proc : cast[p].kind # "apply"
          /\ \A p \in Proc : cast[p].kind = "series" => InOrder(cast[p].todo)
          /\ \A p, x \in Proc :
               p # x /\ cast[p].kind = "series" /\ cast[x].kind = "series" =>
                 \/ ApartRuns(cast[p].todo, cast[x].todo)
                 \/ p \in cast[x].after
                 \/ x \in cast[p].after
  /\ \A k \in DOMAIN Legacy : Legacy[k].run = None

(* The events of a process that are not in the history yet. *)
Ahead(r) == {k \in 1..Len(r.todo) : r.pc # "end" /\ (r.pc \in Unrecorded \/ k # 1)}

(* Of one job, about one run. *)
OfOneJob(e, f) == e.by = f.by /\ e.run = f.run

(* Of a plan that has not begun the job has recorded nothing; of one that    *)
(* has not ended, only its beginning, in the newest series of its run.       *)
AwaitsEvent(e, h) ==
  /\ e.ev = "planning" => \A i \in 1..Len(h) : \A a \in 1..Len(h[i]) : ~OfOneJob(h[i][a], e)
  /\ e.ev = "plan" =>
       \A i \in 1..Len(h) : \A a \in 1..Len(h[i]) : OfOneJob(h[i][a], e) =>
         /\ h[i][a].ev \in {"planning", "plan"}
         /\ \A j \in 1..Len(h) : \A b \in 1..Len(h[j]) : h[j][b].run = e.run => j <= i

Absent(p, h) == \A i \in 1..Len(h) : \A a \in 1..Len(h[i]) : h[i][a].by # p

Awaits(p, r, h) ==
  /\ \A k \in Ahead(r) : AwaitsEvent(r.todo[k], h)
  /\ r.pc = "idle" => Absent(p, h)

Joined(h) ==
  /\ \A i \in 1..Len(h) : \A a \in 1..Len(h[i]) : h[i][a].run = None => i = 1
  /\ \A i, j \in 1..Len(h) : \A a \in 1..Len(h[i]), b \in 1..Len(h[j]) :
       OfOneJob(h[i][a], h[j][b]) /\ h[i][a].ev = "planning" /\ h[j][b].ev = "plan" => i = j

SeriesOf(x) == proc[x].kind = "series"

(* A job that comes after another one has not started, or the other is over. *)
Ordered == \A p, x \in Proc : p \in after[x] => proc[x].pc = "idle" \/ proc[p].pc = "end"

(* Two jobs speak of different runs, or follow each other. *)
ApartOrAfter(p, x) ==
  ApartRuns(proc[p].todo, proc[x].todo) \/ p \in after[x] \/ x \in after[p]

Tells(p, todo) == \A k \in 1..Len(todo) : todo[k].by = p

SeriesInv ==
  \/ /\ \A p \in Proc : ~SeriesOf(p)
     /\ Len(hist.val) <= 1
  \/ /\ \A p \in Proc : proc[p].kind # "apply"
     /\ \A p \in Proc : SeriesOf(p) =>
          /\ InOrder(proc[p].todo) /\ Tells(p, proc[p].todo)
          /\ Awaits(p, proc[p], hist.val)
     /\ \A p, x \in Proc : p # x /\ SeriesOf(p) /\ SeriesOf(x) => ApartOrAfter(p, x)
     /\ Ordered
     /\ Joined(hist.val)

LEMMA SeriesStart == RunsInOrder /\ MessagesInit => SeriesInv
<1> SUFFICES ASSUME RunsInOrder, MessagesInit PROVE SeriesInv OBVIOUS
<1>1. PICK cast \in Casts : /\ proc = [p \in Proc |-> Idle(cast[p])]
                            /\ after = [p \in Proc |-> cast[p].after]
  BY DEF MessagesInit
<1>2. \A p \in Proc : /\ proc[p].kind = cast[p].kind /\ proc[p].todo = cast[p].todo
                      /\ proc[p].pc = "idle" /\ after[p] = cast[p].after
  BY <1>1 DEF Idle
<1>3. hist.val = << >> /\ Len(hist.val) = 0 BY DEF MessagesInit
<1>4. Joined(hist.val) BY <1>3 DEF Joined
<1>5. \A p \in Proc : Awaits(p, proc[p], hist.val) BY <1>3 DEF Awaits, AwaitsEvent, Absent
<1>6. CASE \A p \in Proc : cast[p].kind # "series" BY <1>2, <1>3, <1>6 DEF SeriesInv, SeriesOf
<1>7. CASE ~\A p \in Proc : cast[p].kind # "series"
  <2>1. /\ \A p \in Proc : cast[p].kind # "apply"
        /\ \A p \in Proc : cast[p].kind = "series" => InOrder(cast[p].todo)
        /\ \A p, x \in Proc :
             p # x /\ cast[p].kind = "series" /\ cast[x].kind = "series" =>
               \/ ApartRuns(cast[p].todo, cast[x].todo)
               \/ p \in cast[x].after
               \/ x \in cast[p].after
    BY <1>7 DEF RunsInOrder
  <2>2. \A p \in Proc : Tells(p, proc[p].todo)
    <3> TAKE p \in Proc
    <3>1. cast[p].todo \in Seq(Told) /\ \A k \in DOMAIN cast[p].todo : cast[p].todo[k].by = p
      BY CastsAssumption
    <3>2. DOMAIN cast[p].todo = 1..Len(cast[p].todo) BY <3>1
    <3> QED BY <1>2, <3>1, <3>2 DEF Tells
  <2>3. Ordered BY <1>2 DEF Ordered
  <2>4. \A p, x \in Proc : p # x /\ SeriesOf(p) /\ SeriesOf(x) => ApartOrAfter(p, x)
    BY <1>2, <2>1 DEF SeriesOf, ApartOrAfter
  <2> QED BY <1>2, <1>4, <1>5, <2>1, <2>2, <2>3, <2>4 DEF SeriesInv, SeriesOf
<1> QED BY <1>6, <1>7

(* The entries after an event has been appended. *)
Entered(new, st, i, e) ==
  \A j \in 1..Len(new) : \A a \in 1..Len(new[j]) :
    \/ j \in 1..Len(st) /\ a \in 1..Len(st[j]) /\ new[j][a] = st[j][a]
    \/ j = i /\ new[j][a] = e

LEMMA EntriesOf ==
  ASSUME NEW st \in Seq(Seq(Told)), NEW e \in Told, NEW i \in 1..(Len(st) + 1)
  PROVE  Entered(AppendTo(st, i, e), st, i, e)
<1> PICK new : new = AppendTo(st, i, e) OBVIOUS
<1> SUFFICES ASSUME NEW j \in 1..Len(new), NEW a \in 1..Len(new[j])
             PROVE  \/ j \in 1..Len(st) /\ a \in 1..Len(st[j]) /\ new[j][a] = st[j][a]
                    \/ j = i /\ new[j][a] = e
  BY DEF Entered
<1>1. /\ new \in Seq(Seq(Told)) /\ i \in 1..Len(new) /\ Len(st) <= Len(new)
      /\ \A k \in 1..Len(new) : k # i => k \in 1..Len(st) /\ new[k] = st[k]
      /\ new[i] = IF i > Len(st) THEN <<e>> ELSE Append(st[i], e)
  BY Appended
<1>2. Len(st) \in Nat /\ Len(new) \in Nat BY <1>1
<1>3. CASE j # i BY <1>1, <1>3
<1>4. CASE j = i /\ i > Len(st) BY <1>1, <1>4
<1>5. CASE j = i /\ ~(i > Len(st))
  <2> PICK s : s = st[i] OBVIOUS
  <2>1. i \in 1..Len(st) BY <1>2, <1>5
  <2>2. s \in Seq(Told) BY <2>1
  <2>3. new[j] = Append(s, e) BY <1>1, <1>5
  <2>4. Len(Append(s, e)) = Len(s) + 1 /\ Len(s) \in Nat BY <2>2
  <2>5. a \in 1..Len(s) \/ a = Len(s) + 1 BY <2>3, <2>4
  <2>6. Append(s, e)[Len(s) + 1] = e /\ \A b \in 1..Len(s) : Append(s, e)[b] = s[b] BY <2>2
  <2> QED BY <1>5, <2>1, <2>3, <2>5, <2>6
<1> QED BY <1>3, <1>4, <1>5

LEMMA StillAbsent ==
  ASSUME NEW new, NEW st, NEW i, NEW e, Entered(new, st, i, e), NEW x, Absent(x, st), e.by # x
  PROVE  Absent(x, new)
<1> SUFFICES ASSUME NEW j \in 1..Len(new), NEW a \in 1..Len(new[j]) PROVE new[j][a].by # x
  BY DEF Absent
<1>1. \/ j \in 1..Len(st) /\ a \in 1..Len(st[j]) /\ new[j][a] = st[j][a]
      \/ new[j][a] = e
  BY DEF Entered
<1> QED BY <1>1 DEF Absent

(* No series of the run is newer than the one its next entry goes to, and    *)
(* the end of a plan goes to the newest of them.                             *)
LEMMA TargetIsNewest ==
  ASSUME NEW st \in Seq(Seq(Told)), NEW e, NEW j \in OfRun(st, e)
  PROVE  /\ j <= SeriesFor(st, e)
         /\ e.ev = "plan" => SeriesFor(st, e) \in OfRun(st, e)
<1> PICK mine : mine = SeriesForRun(st, e) OBVIOUS
<1>1. mine \in OfRun(st, e) /\ j <= mine BY RunFound
<1>2. Len(st) \in Nat /\ j \in 1..Len(st) /\ mine \in 1..Len(st) BY <1>1 DEF OfRun
<1>3. st # << >> /\ mine # 0 BY <1>2
<1>4. CASE e.ev = "plan" \/ OpensSeries(st, e)
  <2>1. SeriesFor(st, e) = mine BY <1>3, <1>4 DEF SeriesFor
  <2> QED BY <1>1, <2>1
<1>5. CASE ~(e.ev = "plan" \/ OpensSeries(st, e))
  <2>1. SeriesFor(st, e) = Len(st) BY <1>3, <1>5 DEF SeriesFor
  <2> QED BY <1>2, <1>5, <2>1
<1> QED BY <1>4, <1>5

(* An event that is appended keeps what is awaited of every other one that   *)
(* is not of its run, or that may follow it, and joins its beginning.        *)
MayFollow(f, e) ==
  \/ f.run # e.run
  \/ f.by = e.by /\ f.ev # "planning" /\ (f.ev = "plan" => e.ev \in {"planning", "plan"})

LEMMA JoinsStart ==
  ASSUME NEW st \in Seq(Seq(Told)), NEW e \in Told, e.run # None,
         NEW i \in 1..(Len(st) + 1), i = SeriesFor(st, e),
         AwaitsEvent(e, st), Joined(st),
         NEW new, new = AppendTo(st, i, e)
  PROVE  /\ Joined(new)
         /\ \A f : MayFollow(f, e) /\ AwaitsEvent(f, st) => AwaitsEvent(f, new)
<1>1. new \in Seq(Seq(Told)) BY Appended
<1>2. Len(st) \in Nat /\ Len(new) \in Nat /\ i \in Nat BY <1>1
<1>3. ASSUME NEW j \in 1..Len(new), NEW a \in 1..Len(new[j])
      PROVE  \/ j \in 1..Len(st) /\ a \in 1..Len(st[j]) /\ new[j][a] = st[j][a]
             \/ j = i /\ new[j][a] = e
  <2>1. Entered(new, st, i, e) BY EntriesOf
  <2> QED BY <1>3, <2>1 DEF Entered
<1>4. ASSUME NEW j \in 1..Len(st), NEW a \in 1..Len(st[j]), st[j][a].run = e.run
      PROVE  /\ j <= i
             /\ e.ev = "plan" /\ st[j][a].by = e.by => j = i
  <2>1. DOMAIN st = 1..Len(st) /\ st[j] \in Seq(Told) /\ DOMAIN st[j] = 1..Len(st[j]) BY <1>4
  <2>2. j \in OfRun(st, e) BY <1>4, <2>1 DEF OfRun
  <2>3. j <= i /\ (e.ev = "plan" => i \in OfRun(st, e)) BY <2>2, TargetIsNewest
  <2>4. ASSUME e.ev = "plan", st[j][a].by = e.by PROVE i <= j
    <3>1. i \in 1..Len(st) /\ \E b \in DOMAIN st[i] : st[i][b].run = e.run
      BY <2>1, <2>3, <2>4 DEF OfRun
    <3>2. st[i] \in Seq(Told) /\ DOMAIN st[i] = 1..Len(st[i]) BY <3>1
    <3>3. OfOneJob(st[j][a], e) BY <1>4, <2>4 DEF OfOneJob
    <3> QED BY <1>4, <2>4, <3>1, <3>2, <3>3 DEF AwaitsEvent
  <2> QED BY <1>2, <2>3, <2>4
<1>5. Joined(new)
  <2>1. ASSUME NEW j \in 1..Len(new), NEW a \in 1..Len(new[j]), new[j][a].run = None
        PROVE  j = 1
    BY <1>3, <2>1 DEF Joined
  <2>2. ASSUME NEW j \in 1..Len(new), NEW l \in 1..Len(new), NEW a \in 1..Len(new[j]),
               NEW b \in 1..Len(new[l]), OfOneJob(new[j][a], new[l][b]),
               new[j][a].ev = "planning", new[l][b].ev = "plan"
        PROVE  j = l
    <3>1. CASE j = i /\ new[j][a] = e
      <4>1. CASE l \in 1..Len(st) /\ b \in 1..Len(st[l]) /\ new[l][b] = st[l][b]
        <5>1. OfOneJob(st[l][b], e) /\ e.ev = "planning" BY <2>2, <3>1, <4>1 DEF OfOneJob
        <5> QED BY <4>1, <5>1 DEF AwaitsEvent
      <4> QED BY <1>3, <3>1, <4>1
    <3>2. CASE j \in 1..Len(st) /\ a \in 1..Len(st[j]) /\ new[j][a] = st[j][a]
      <4>1. CASE l \in 1..Len(st) /\ b \in 1..Len(st[l]) /\ new[l][b] = st[l][b]
        BY <2>2, <3>2, <4>1 DEF Joined
      <4>2. CASE l = i /\ new[l][b] = e BY <1>4, <2>2, <3>2, <4>2 DEF OfOneJob
      <4> QED BY <1>3, <4>1, <4>2
    <3> QED BY <1>3, <3>1, <3>2
  <2> QED BY <2>1, <2>2 DEF Joined
<1>6. ASSUME NEW f, AwaitsEvent(f, st), MayFollow(f, e)
      PROVE  AwaitsEvent(f, new)
  <2>1. ASSUME f.ev = "planning", NEW j \in 1..Len(new), NEW a \in 1..Len(new[j])
        PROVE  ~OfOneJob(new[j][a], f)
    <3>1. f.run # e.run BY <1>6, <2>1 DEF MayFollow
    <3>2. CASE j = i /\ new[j][a] = e BY <3>1, <3>2 DEF OfOneJob
    <3>3. CASE j \in 1..Len(st) /\ a \in 1..Len(st[j]) /\ new[j][a] = st[j][a]
      BY <1>6, <2>1, <3>3 DEF AwaitsEvent
    <3> QED BY <1>3, <3>2, <3>3
  <2>2. ASSUME f.ev = "plan", NEW j \in 1..Len(new), NEW a \in 1..Len(new[j]),
               OfOneJob(new[j][a], f)
        PROVE  /\ new[j][a].ev \in {"planning", "plan"}
               /\ \A l \in 1..Len(new) : \A b \in 1..Len(new[l]) : new[l][b].run = f.run => l <= j
    <3>1. CASE f.run # e.run
      <4>1. new[j][a] # e BY <2>2, <3>1 DEF OfOneJob
      <4>2. j \in 1..Len(st) /\ a \in 1..Len(st[j]) /\ new[j][a] = st[j][a]
        BY <1>3, <4>1
      <4>3. OfOneJob(st[j][a], f) BY <2>2, <4>2
      <4>4. ASSUME NEW l \in 1..Len(new), NEW b \in 1..Len(new[l]), new[l][b].run = f.run
            PROVE  l <= j
        <5>1. l \in 1..Len(st) /\ b \in 1..Len(st[l]) /\ new[l][b] = st[l][b] BY <1>3, <3>1, <4>4
        <5> QED BY <1>6, <2>2, <4>2, <4>3, <4>4, <5>1 DEF AwaitsEvent
      <4>5. new[j][a].ev \in {"planning", "plan"} BY <1>6, <2>2, <4>2, <4>3 DEF AwaitsEvent
      <4> QED BY <4>4, <4>5
    <3>2. CASE f.run = e.run
      <4>1. f.by = e.by /\ e.ev \in {"planning", "plan"} BY <1>6, <2>2, <3>2 DEF MayFollow
      <4>2. j = i /\ new[j][a].ev \in {"planning", "plan"}
        <5>1. CASE j = i /\ new[j][a] = e BY <4>1, <5>1
        <5>2. CASE j \in 1..Len(st) /\ a \in 1..Len(st[j]) /\ new[j][a] = st[j][a]
          <6>1. OfOneJob(st[j][a], e) BY <2>2, <3>2, <4>1, <5>2 DEF OfOneJob
          <6>2. e.ev # "planning" BY <5>2, <6>1 DEF AwaitsEvent
          <6>3. e.ev = "plan" BY <4>1, <6>2
          <6>4. st[j][a].ev \in {"planning", "plan"} BY <5>2, <6>1, <6>3 DEF AwaitsEvent
          <6>5. j = i BY <1>4, <5>2, <6>1, <6>3 DEF OfOneJob
          <6> QED BY <5>2, <6>4, <6>5
        <5> QED BY <1>3, <5>1, <5>2
      <4>3. ASSUME NEW l \in 1..Len(new), NEW b \in 1..Len(new[l]), new[l][b].run = f.run
            PROVE  l <= i
        <5>1. CASE l = i BY <1>2, <5>1
        <5>2. CASE l \in 1..Len(st) /\ b \in 1..Len(st[l]) /\ new[l][b] = st[l][b]
          BY <1>4, <3>2, <4>3, <5>2
        <5> QED BY <1>3, <5>1, <5>2
      <4> QED BY <4>2, <4>3
    <3> QED BY <3>1, <3>2
  <2> QED BY <2>1, <2>2 DEF AwaitsEvent
<1> QED BY <1>5, <1>6


(* What a process saves to: nothing, what an earlier version stored, or the  *)
(* stored history.                                                           *)
LEMMA SavedTo ==
  ASSUME RunsInOrder, MessagesInv, NEW p \in Proc, proc[p].pc = "save", Matches(p),
         NEW st, st = proc[p].st
  PROVE  /\ st \in Seq(Seq(Told))
         /\ st = hist.val \/ Len(st) <= 1
         /\ Joined(hist.val) => Joined(st)
         /\ \A e : e.run # None /\ AwaitsEvent(e, hist.val) => AwaitsEvent(e, st)
         /\ \A x \in Proc : Absent(x, hist.val) => Absent(x, st)
<1>1. LocalOK(proc[p]) /\ HistOK(proc[p], hist) BY DEF MessagesInv, ProcsOK
<1>2. st \in Seq(Seq(Told)) BY <1>1 DEF LocalOK
<1>3. CASE st = hist.val BY <1>2, <1>3
<1>4. CASE st # hist.val
  <2>1. st \in {<< >>, <<Legacy>>} BY <1>1, <1>4 DEF HistOK, Matches
  <2>2. Legacy \in Seq(Told) /\ DOMAIN Legacy = 1..Len(Legacy) BY CastsAssumption
  <2>3. CASE st = << >>
    <3>1. Len(st) = 0 BY <2>3
    <3> QED BY <1>2, <3>1 DEF Joined, AwaitsEvent, Absent
  <2>4. CASE st = <<Legacy>>
    <3>1. Len(st) = 1 /\ st[1] = Legacy BY <2>4
    <3>2. \A i \in 1..Len(st) : i = 1 BY <3>1
    <3>3. \A a \in 1..Len(Legacy) : Legacy[a].run = None BY <2>2 DEF RunsInOrder
    <3>4. Joined(st) BY <3>1, <3>2 DEF Joined
    <3>5. \A e : e.run # None => AwaitsEvent(e, st)
      BY <3>1, <3>2, <3>3 DEF AwaitsEvent, OfOneJob
    <3>6. \A a \in 1..Len(Legacy) : Legacy[a].by \notin Proc BY <2>2, CastsAssumption
    <3>7. \A x \in Proc : Absent(x, st) BY <3>1, <3>2, <3>6 DEF Absent
    <3> QED BY <1>2, <3>1, <3>4, <3>5, <3>7
  <2> QED BY <2>1, <2>3, <2>4
<1> QED BY <1>3, <1>4

Shrinks(old, r) ==
  /\ InOrder(r.todo)
  /\ \A k \in Ahead(r) : \E l \in Ahead(old) : r.todo[k] = old.todo[l]
  /\ \A k \in 1..Len(r.todo) : \E l \in 1..Len(old.todo) : r.todo[k] = old.todo[l]

(* What is ahead of a process after its step was ahead of it before. *)
LEMMA AheadShrinks ==
  ASSUME NEW old, LocalOK(old), NEW r, LocalOK(r), Forth(old, r), old.kind = "series",
         InOrder(old.todo), old.pc # "end"
  PROVE  Shrinks(old, r)
<1> USE DEF Shrinks
<1> PICK todo : todo = old.todo OBVIOUS
<1>1. todo \in Seq(Told) /\ Len(todo) \in Nat BY DEF LocalOK
<1>2. CASE r.todo = todo /\ (r.pc \in Unrecorded => old.pc \in Unrecorded)
  <2>1. Ahead(r) \subseteq Ahead(old) BY <1>2 DEF Ahead
  <2> QED BY <1>2, <2>1
<1>3. CASE r.todo = Tail(todo) /\ old.pc = "next"
  <2>1. CASE todo # << >>
    <3>1. Len(Tail(todo)) = Len(todo) - 1 /\ \A k \in 1..(Len(todo) - 1) : Tail(todo)[k] = todo[k + 1]
      BY <1>1, <2>1
    <3>2. \A k \in 1..Len(r.todo) :
            k + 1 \in 1..Len(todo) /\ k + 1 # 1 /\ r.todo[k] = todo[k + 1]
      BY <1>1, <1>3, <3>1
    <3>3. InOrder(r.todo)
      <4>1. \A k \in 1..Len(r.todo) : r.todo[k].run # None BY <3>2 DEF InOrder
      <4>2. ASSUME NEW k \in 1..Len(r.todo), NEW l \in 1..Len(r.todo), k < l,
                   r.todo[k].run = r.todo[l].run
            PROVE  r.todo[l].ev # "planning" /\ (r.todo[l].ev = "plan" => r.todo[k].ev \in {"planning", "plan"})
        <5>1. k + 1 < l + 1 BY <4>2
        <5> QED BY <3>2, <4>2, <5>1 DEF InOrder
      <4> QED BY <4>1, <4>2 DEF InOrder
    <3>4. \A k \in 1..Len(r.todo) : k + 1 \in Ahead(old) BY <3>2 DEF Ahead
    <3>5. Ahead(r) \subseteq 1..Len(r.todo) BY DEF Ahead
    <3> QED BY <3>2, <3>3, <3>4, <3>5
  <2>2. CASE todo = << >>
    <3>1. old.kind # "board" /\ old.pc # "end" BY <1>3
    <3> QED BY <2>2, <3>1 DEF LocalOK
  <2> QED BY <2>1, <2>2
<1> QED BY <1>2, <1>3 DEF Forth, LocalOK, StageOK

LEMMA SeriesStep ==
  RunsInOrder /\ MessagesInv /\ SeriesInv /\ [MessagesNext]_messagesVars => SeriesInv'
<1> SUFFICES ASSUME RunsInOrder, MessagesInv, SeriesInv, OneGoesOn, MessagesInv' PROVE SeriesInv'
  BY MessagesStep
<1>1. CASE UNCHANGED <<proc, hist, after>>
  BY <1>1 DEF SeriesInv, SeriesOf, ApartOrAfter, Ordered
<1>2. CASE ~UNCHANGED <<proc, hist, after>>
  <2>1. PICK p \in Proc : \E r : /\ Steps(p, r) /\ (UNCHANGED hist \/ Records(p, r))
                                 /\ Turn(p) /\ UNCHANGED after
    BY <1>2 DEF OneGoesOn
  <2>2. PICK r : Steps(p, r) /\ (UNCHANGED hist \/ Records(p, r)) BY <2>1
  <2>20. Turn(p) /\ UNCHANGED after BY <2>1
  <2>3. \A x \in Proc : proc'[x] = IF x = p THEN r ELSE proc[x]
    BY <2>2 DEF Steps, Go, MessagesInv, ProcsOK
  <2>4. \A x \in Proc : proc'[x].kind = proc[x].kind BY <2>2, <2>3 DEF Steps, Forth
  <2>5. \A x \in Proc : LocalOK(proc[x]) BY DEF MessagesInv, ProcsOK
  <2>6. LocalOK(r) /\ Forth(proc[p], r) BY <2>2 DEF Steps
  <2> PICK st : st = proc[p].st OBVIOUS
  <2> PICK e : e = Event(p) OBVIOUS
  <2> PICK i : i = Target(p) OBVIOUS
  <2> PICK new : new = AppendTo(st, i, e) OBVIOUS
  <2>7. Records(p, r) =>
          /\ proc[p].pc = "save" /\ Matches(p) /\ st \in Seq(Seq(Told)) /\ e \in Told
          /\ i \in 1..(Len(st) + 1) /\ hist'.val = new
    <3> SUFFICES ASSUME Records(p, r)
                 PROVE  st \in Seq(Seq(Told)) /\ e \in Told
      BY DEF Records
    <3> QED BY SaveGrows DEF Records
  <2>8. CASE (\A x \in Proc : ~SeriesOf(x)) /\ Len(hist.val) <= 1
    <3>1. Len(hist'.val) <= 1
      <4>1. CASE UNCHANGED hist BY <2>8, <4>1
      <4>2. CASE Records(p, r)
        <5>1. i = 1 BY <2>8 DEF Target, SeriesOf
        <5>2. Len(st) <= 1 /\ st \in Seq(Seq(Told)) BY <2>7, <2>8, <4>2, SavedTo
        <5>30. e \in Told /\ i \in 1..(Len(st) + 1) BY <2>7, <4>2
        <5>3. new \in Seq(Seq(Told)) /\ \A j \in 1..Len(new) : j # i => j \in 1..Len(st)
          BY <5>2, <5>30, Appended
        <5>4. Len(new) \in Nat /\ Len(st) \in Nat BY <5>2, <5>3
        <5>5. 2 \notin 1..Len(new) BY <5>1, <5>2, <5>3, <5>4
        <5>6. Len(new) <= 1 BY <5>4, <5>5
        <5> QED BY <2>7, <4>2, <5>6
      <4> QED BY <2>2, <4>1, <4>2
    <3> QED BY <2>4, <2>8, <3>1 DEF SeriesInv, SeriesOf
  <2>9. CASE /\ \A x \in Proc : proc[x].kind # "apply"
             /\ \A x \in Proc : SeriesOf(x) =>
                  /\ InOrder(proc[x].todo) /\ Tells(x, proc[x].todo)
                  /\ Awaits(x, proc[x], hist.val)
             /\ \A x, y \in Proc : x # y /\ SeriesOf(x) /\ SeriesOf(y) => ApartOrAfter(x, y)
             /\ Ordered
             /\ Joined(hist.val)
    <3>1. \A x \in Proc : proc'[x].kind # "apply" BY <2>4, <2>9
    <3>2. \A x \in Proc : proc'[x].kind = "series" =>
            /\ InOrder(proc'[x].todo)
            /\ \A k \in Ahead(proc'[x]) : \E l \in Ahead(proc[x]) : proc'[x].todo[k] = proc[x].todo[l]
            /\ \A k \in 1..Len(proc'[x].todo) :
                 \E l \in 1..Len(proc[x].todo) : proc'[x].todo[k] = proc[x].todo[l]
      <4> TAKE x \in Proc
      <4>1. CASE x # p
        <5>1. proc'[x] = proc[x] BY <2>3, <4>1
        <5> QED BY <2>9, <5>1 DEF SeriesOf
      <4>2. CASE x = p
        <5>1. proc'[x] = r BY <2>3, <4>2
        <5> SUFFICES ASSUME r.kind = "series"
                     PROVE  /\ InOrder(r.todo)
                            /\ \A k \in Ahead(r) : \E l \in Ahead(proc[p]) : r.todo[k] = proc[p].todo[l]
                            /\ \A k \in 1..Len(r.todo) :
                                 \E l \in 1..Len(proc[p].todo) : r.todo[k] = proc[p].todo[l]
          BY <4>2, <5>1
        <5>2. proc[p].kind = "series" BY <2>4, <4>2, <5>1
        <5>3. LocalOK(proc[p]) /\ InOrder(proc[p].todo) BY <2>5, <2>9, <5>2 DEF SeriesOf
        <5> PICK old : old = proc[p] OBVIOUS
        <5>4. /\ LocalOK(old) /\ LocalOK(r) /\ Forth(old, r)
              /\ old.kind = "series" /\ InOrder(old.todo) /\ old.pc # "end"
          BY <2>6, <2>20, <5>2, <5>3 DEF Turn
        <5>5. /\ InOrder(r.todo)
              /\ \A k \in Ahead(r) : \E l \in Ahead(old) : r.todo[k] = old.todo[l]
              /\ \A k \in 1..Len(r.todo) : \E l \in 1..Len(old.todo) : r.todo[k] = old.todo[l]
          <6>1. Shrinks(old, r) BY <5>4, AheadShrinks
          <6> QED BY <6>1 DEF Shrinks
        <5> QED BY <5>5
      <4> QED BY <4>1, <4>2
    <3>3. \A x, y \in Proc :
            x # y /\ proc'[x].kind = "series" /\ proc'[y].kind = "series" => ApartOrAfter(x, y)'
      <4> SUFFICES ASSUME NEW x \in Proc, NEW y \in Proc, x # y, proc'[x].kind = "series",
                          proc'[y].kind = "series"
                   PROVE  ApartRuns(proc'[x].todo, proc'[y].todo) \/ x \in after[y] \/ y \in after[x]
        BY <2>20 DEF ApartOrAfter
      <4>1. ApartOrAfter(x, y) BY <2>4, <2>9 DEF SeriesOf
      <4>2. ASSUME ApartRuns(proc[x].todo, proc[y].todo), NEW k \in 1..Len(proc'[x].todo),
                   NEW l \in 1..Len(proc'[y].todo)
            PROVE  proc'[x].todo[k].run # proc'[y].todo[l].run
        <5>1. PICK k0 \in 1..Len(proc[x].todo) : proc'[x].todo[k] = proc[x].todo[k0] BY <3>2
        <5>2. PICK l0 \in 1..Len(proc[y].todo) : proc'[y].todo[l] = proc[y].todo[l0] BY <3>2
        <5> QED BY <4>2, <5>1, <5>2 DEF ApartRuns
      <4> QED BY <4>1, <4>2 DEF ApartRuns, ApartOrAfter
    <3>6. Ordered'
      <4> SUFFICES ASSUME NEW x \in Proc, NEW y \in Proc, x \in after[y]
                   PROVE  proc'[y].pc = "idle" \/ proc'[x].pc = "end"
        BY <2>20 DEF Ordered
      <4>1. proc[y].pc = "idle" \/ proc[x].pc = "end" BY <2>9 DEF Ordered
      <4>2. CASE proc[x].pc = "end"
        <5>1. x # p BY <2>20, <4>2 DEF Turn
        <5> QED BY <2>3, <4>2, <5>1
      <4>3. CASE proc[x].pc # "end"
        <5>1. y # p BY <2>20, <4>1, <4>3 DEF Turn
        <5> QED BY <2>3, <4>1, <4>3, <5>1
      <4> QED BY <4>2, <4>3
    <3>7. \A x \in Proc : proc'[x].kind = "series" => Tells(x, proc'[x].todo)
      <4> SUFFICES ASSUME NEW x \in Proc, proc'[x].kind = "series", NEW k \in 1..Len(proc'[x].todo)
                   PROVE  proc'[x].todo[k].by = x
        BY DEF Tells
      <4>1. PICK l \in 1..Len(proc[x].todo) : proc'[x].todo[k] = proc[x].todo[l] BY <3>2
      <4> QED BY <2>4, <2>9, <4>1 DEF Tells, SeriesOf
    <3>8. \A x \in Proc : proc'[x].pc = "idle" => x # p /\ proc'[x] = proc[x]
      BY <2>3, <2>6 DEF Forth
    <3>4. CASE UNCHANGED hist
      <4>1. \A x \in Proc : proc'[x].kind = "series" => Awaits(x, proc'[x], hist.val)
        BY <2>4, <2>9, <3>2, <3>8 DEF Awaits, SeriesOf
      <4> QED BY <2>9, <3>1, <3>2, <3>3, <3>4, <3>6, <3>7, <4>1 DEF SeriesInv, SeriesOf
    <3>5. CASE Records(p, r)
      <4>1. SeriesOf(p) BY <2>9, <3>5 DEF Records, SeriesOf
      <4> PICK todo : todo = proc[p].todo OBVIOUS
      <4>2. todo \in Seq(Told) /\ todo # << >> /\ e = todo[1] /\ 1 \in 1..Len(todo)
        <5>1. todo \in Seq(Told) /\ todo # << >> BY <2>5, <3>5 DEF LocalOK, Records
        <5> QED BY <5>1 DEF Event
      <4>3. InOrder(todo) /\ e.run # None BY <2>9, <4>1, <4>2 DEF InOrder
      <4>4. i = SeriesFor(st, e) BY <4>1 DEF Target, SeriesOf
      <4>5. /\ Joined(st) /\ \A f : f.run # None /\ AwaitsEvent(f, hist.val) => AwaitsEvent(f, st)
            /\ \A x \in Proc : Absent(x, hist.val) => Absent(x, st)
        BY <2>7, <2>9, <3>5, SavedTo
      <4>6. AwaitsEvent(e, hist.val)
        <5>1. 1 \in Ahead(proc[p]) BY <2>7, <2>20, <3>5, <4>2 DEF Ahead, Unrecorded, Turn
        <5> QED BY <2>9, <4>1, <4>2, <5>1 DEF Awaits
      <4>7. AwaitsEvent(e, st) BY <4>3, <4>5, <4>6
      <4>8. /\ Joined(new)
            /\ \A f : MayFollow(f, e) /\ AwaitsEvent(f, st) => AwaitsEvent(f, new)
        BY <2>7, <3>5, <4>3, <4>4, <4>5, <4>7, JoinsStart
      <4>12. Entered(new, st, i, e)
        <5>1. st \in Seq(Seq(Told)) /\ e \in Told /\ i \in 1..(Len(st) + 1) BY <2>7, <3>5
        <5> QED BY <5>1, EntriesOf
      <4>9. ASSUME NEW x \in Proc, proc'[x].kind = "series", NEW k \in Ahead(proc'[x])
            PROVE  AwaitsEvent(proc'[x].todo[k], new)
        <5>1. SeriesOf(x) BY <2>4, <4>9 DEF SeriesOf
        <5>2. PICK l \in Ahead(proc[x]) : proc'[x].todo[k] = proc[x].todo[l] BY <3>2, <4>9
        <5> PICK f : f = proc[x].todo[l] OBVIOUS
        <5>3. l \in 1..Len(proc[x].todo) BY DEF Ahead
        <5>4. f.run # None /\ AwaitsEvent(f, hist.val) BY <2>9, <5>1, <5>3 DEF InOrder, Awaits
        <5>5. AwaitsEvent(f, st) BY <4>5, <5>4
        <5>8. CASE x # p /\ ApartRuns(todo, proc[x].todo)
          <6>1. e.run # f.run BY <4>2, <5>3, <5>8 DEF ApartRuns
          <6> QED BY <4>8, <5>2, <5>5, <6>1 DEF MayFollow
        <5>6. CASE x # p /\ ~ApartRuns(todo, proc[x].todo)
          <6>1. ApartOrAfter(p, x) BY <2>9, <4>1, <5>1, <5>6
          <6>2. p \in after[x] \/ x \in after[p] BY <5>6, <6>1 DEF ApartOrAfter
          <6>3. proc[p].pc = "save" BY <2>7, <3>5
          <6>4. proc[x].pc = "idle" \/ proc[x].pc = "end" BY <2>9, <6>2, <6>3 DEF Ordered
          <6>5. proc'[x] = proc[x] BY <2>3, <5>6
          <6>6. proc[x].pc = "idle" BY <4>9, <6>4, <6>5 DEF Ahead
          <6>7. Absent(x, new)
            <7>1. Absent(x, st) BY <2>9, <4>5, <5>1, <6>6 DEF Awaits
            <7>2. e.by = p BY <2>9, <4>1, <4>2 DEF Tells
            <7> QED BY <4>12, <5>6, <7>1, <7>2, StillAbsent
          <6>8. f.by = x BY <2>9, <5>1, <5>3 DEF Tells
          <6> QED BY <5>2, <6>7, <6>8 DEF AwaitsEvent, Absent, OfOneJob
        <5>7. CASE x = p
          <6>1. proc'[x] = r /\ r.todo = todo /\ r.pc \in {"upsert", "next"}
            BY <2>3, <3>5, <5>7 DEF Records
          <6>2. k \in 2..Len(todo) /\ k # 1 BY <4>2, <4>9, <6>1 DEF Ahead, Unrecorded
          <6>3. k \in 1..Len(todo) /\ 1 < k BY <4>2, <6>2
          <6>4. todo[k] = f BY <5>2, <6>1
          <6>5. f.run = e.run => f.ev # "planning" /\ (f.ev = "plan" => e.ev \in {"planning", "plan"})
            BY <4>2, <4>3, <6>3, <6>4 DEF InOrder
          <6>6. f.by = e.by BY <2>9, <4>1, <4>2, <6>3, <6>4 DEF Tells
          <6>7. MayFollow(f, e) BY <6>5, <6>6 DEF MayFollow
          <6> QED BY <4>8, <5>2, <5>5, <6>7
        <5> QED BY <5>6, <5>7, <5>8
      <4>13. ASSUME NEW x \in Proc, proc'[x].kind = "series", proc'[x].pc = "idle"
             PROVE  Absent(x, new)
        <5>1. x # p /\ proc[x].pc = "idle" /\ SeriesOf(x) BY <3>8, <4>13 DEF SeriesOf
        <5>2. Absent(x, st) BY <2>9, <4>5, <5>1 DEF Awaits
        <5>3. e.by = p BY <2>9, <4>1, <4>2 DEF Tells
        <5> QED BY <4>12, <5>1, <5>2, <5>3, StillAbsent
      <4>10. \A x \in Proc : proc'[x].kind = "series" => Awaits(x, proc'[x], new)
        BY <4>9, <4>13 DEF Awaits
      <4>11. hist'.val = new BY <2>7, <3>5
      <4> QED BY <3>1, <3>2, <3>3, <3>6, <3>7, <4>8, <4>10, <4>11 DEF SeriesInv, SeriesOf
    <3> QED BY <2>2, <3>4, <3>5
  <2> QED BY <2>8, <2>9 DEF SeriesInv
<1> QED BY <1>1, <1>2

(* However the jobs of any number of plans overlap, fail and retry, each     *)
(* records the end of its plan in the series of its beginning (appendEntry,  *)
(* seriesForRun), also when it is a CI run that was run again; provided runs *)
(* are known, and no two jobs of one run are under way at once.              *)
THEOREM FinishesJoin ==
  ASSUME RunsInOrder
  PROVE  MessagesSpec => []FinishJoinsStart
<1>1. MessagesInv /\ SeriesInv => FinishJoinsStart
  <2> SUFFICES ASSUME MessagesInv, SeriesInv,
                      NEW i \in DOMAIN hist.val, NEW j \in DOMAIN hist.val,
                      NEW a \in DOMAIN hist.val[i], NEW b \in DOMAIN hist.val[j],
                      OfOneJob(hist.val[i][a], hist.val[j][b]),
                      hist.val[i][a].ev = "planning", hist.val[j][b].ev = "plan"
               PROVE  i = j
    BY DEF FinishJoinsStart, BeginsAndEnds, OfOneJob
  <2>1. hist.val \in Seq(Seq(Told)) BY DEF MessagesInv, StoreOK
  <2>2. i \in 1..Len(hist.val) /\ j \in 1..Len(hist.val) /\ Len(hist.val) \in Nat BY <2>1
  <2>3. a \in 1..Len(hist.val[i]) /\ b \in 1..Len(hist.val[j]) BY <2>1, <2>2
  <2>4. CASE Len(hist.val) <= 1 BY <2>2, <2>4
  <2>5. CASE Joined(hist.val) BY <2>2, <2>3, <2>5 DEF Joined
  <2> QED BY <2>4, <2>5 DEF SeriesInv
<1>2. MessagesInit => MessagesInv /\ SeriesInv BY MessagesStart, SeriesStart
<1>3. MessagesInv /\ SeriesInv /\ [MessagesNext]_messagesVars => (MessagesInv /\ SeriesInv)'
  BY MessagesStep, SeriesStep
<1> QED BY <1>1, <1>2, <1>3, PTL DEF MessagesSpec

-----------------------------------------------------------------------------
(* The comments of processes that did not overlap.  AloneInv says of the one *)
(* that is at work that its copy of the comments is the truth, but for one   *)
(* that vanished and that it is about to miss (Synced), and what of its      *)
(* board (BoardOK) or timeline (LineOK) is there by now; of one that ended,  *)
(* that the comments are as it wanted them (Settled).                        *)

(* Comments with ids and markers of their own. *)
Tidy(cs, n) ==
  /\ \E S : cs \in Seq(S)
  /\ \A i \in 1..Len(cs) :
       /\ DOMAIN cs[i] = {"id", "author", "marker", "text"}
       /\ cs[i].id \in 1..n /\ cs[i].author # None
       /\ cs[i].marker[1] = "board" => cs[i].marker[2] \in Nat
  /\ \A i, j \in 1..Len(cs) : cs[i].id = cs[j].id => i = j
  /\ \A i, j \in 1..Len(cs) : cs[i].marker = cs[j].marker => i = j

(* The first k parts of the board are there. *)
Has(cs, k) == \A j \in 1..k : <<"board", j>> \in Markers(cs)

Writing == {"upsert", "relist", "again"}

(* A process's copy c of the comments cs: exact, or it is found out that the *)
(* comment the process is about to edit is gone.                             *)
Synced(r, c, cs) ==
  /\ r.pc \in {"part", "whoami", "sweep", "load", "save", "next"} => c = None \/ c = cs
  /\ r.pc = "again" => c = cs
  /\ r.pc = "upsert" =>
       c = None \/ c = cs \/ (r.marker \in Markers(c) /\ c[FirstWith(c, r.marker)].id \notin IdsOf(cs))

BoardOK(p, r, cs) ==
  /\ r.parts \in Nat /\ r.part \in Nat /\ r.ok = TRUE
  /\ r.pc = "part" => Has(cs, r.part)
  /\ r.pc \in Writing => r.part # 0 /\ r.marker = <<"board", r.part>> /\ Has(cs, r.part - 1)
  /\ r.pc \in {"whoami", "sweep"} => r.board = "board" /\ Has(cs, r.parts)
  /\ r.pc = "sweep" => r.author = OwnLogin(p)

(* A comment shows the whole series of the stored history. *)
Shows(r, cs, h) ==
  \E i \in 1..Len(cs) : cs[i].marker = r.marker /\ cs[i].text = h.val[r.marker[2]]

LineOK(r, cs, h) ==
  /\ r.pc = "save" => r.etag = h.ver
  /\ r.pc \in Writing => r.marker[1] # "board" /\ r.text = h.val[r.marker[2]]
  /\ r.pc = "next" => Shows(r, cs, h)

Good(p, r, c, cs, h) ==
  /\ r.kind \in {"board", "apply", "series"} => Synced(r, c, cs)
  /\ r.kind = "board" => BoardOK(p, r, cs)
  /\ r.kind \in {"apply", "series"} => LineOK(r, cs, h)

(* What a process leaves behind. *)
Settled(p, r, cs, h) ==
  /\ r.kind = "board" =>
       /\ r.parts \in Nat /\ Has(cs, r.parts)
       /\ \A i \in 1..Len(cs) : cs[i].marker[1] = "board" /\ cs[i].author = OwnLogin(p) =>
            cs[i].marker[2] <= r.parts
  /\ r.kind \in {"apply", "series"} => Shows(r, cs, h)

(* A process that has not begun knows no comment. *)
Unbegun(r, c) ==
  r.pc = "idle" => c = None /\ r.part = 0 /\ r.ok = TRUE /\ (r.kind = "board" => r.parts \in Nat)

AloneInv ==
  /\ cache = [p \in Proc |-> cache[p]]
  /\ \A p \in Proc : Unbegun(proc[p], cache[p])
  /\ clean =>
       /\ Tidy(comments, ids)
       /\ \A p, q \in Active : p = q
       /\ \A p \in Active : Good(p, proc[p], cache[p], comments, hist)
       /\ last # None => last \in Proc /\ Settled(last, proc[last], comments, hist)

LEMMA AloneStart == MessagesInit => AloneInv
<1> SUFFICES ASSUME MessagesInit PROVE AloneInv OBVIOUS
<1>1. PICK cast \in Casts : proc = [p \in Proc |-> Idle(cast[p])] BY DEF MessagesInit
<1>2. \A p \in Proc : proc[p] = Idle(cast[p]) BY <1>1
<1>3. ASSUME NEW p \in Proc PROVE proc[p].pc = "idle"
  <2>1. proc[p] = Idle(cast[p]) BY <1>2
  <2>2. Idle(cast[p]).pc = "idle" BY DEF Idle
  <2> QED BY <2>1, <2>2
<1>3a. Active = {} BY <1>3 DEF Active
<1>4. Tidy(comments, ids)
  <2>1. << >> \in Seq({}) /\ Len(<< >>) = 0 OBVIOUS
  <2> QED BY <2>1 DEF MessagesInit, Tidy
<1>5. ASSUME NEW p \in Proc PROVE Unbegun(proc[p], cache[p])
  <2>1. proc[p] = Idle(cast[p]) BY <1>2
  <2>2. cast[p].kind = "board" => cast[p].parts \in Nat BY CastsAssumption
  <2>3. cache[p] = None BY DEF MessagesInit
  <2> QED BY <2>1, <2>2, <2>3 DEF Unbegun, Idle
<1> QED BY <1>3a, <1>4, <1>5 DEF AloneInv, MessagesInit

LEMMA Concatenated ==
  ASSUME NEW S, NEW a \in Seq(S), NEW b \in Seq(S)
  PROVE  /\ a \o b \in Seq(S) /\ Len(a \o b) = Len(a) + Len(b)
         /\ \A i \in 1..(Len(a) + Len(b)) : (a \o b)[i] = IF i <= Len(a) THEN a[i] ELSE b[i - Len(a)]
OBVIOUS

LEMMA Removed ==
  ASSUME NEW S, NEW s \in Seq(S), NEW k \in 1..Len(s)
  PROVE  /\ RemoveAt(s, k) \in Seq(S) /\ Len(RemoveAt(s, k)) = Len(s) - 1
         /\ \A i \in 1..Len(RemoveAt(s, k)) : RemoveAt(s, k)[i] = IF i < k THEN s[i] ELSE s[i + 1]
<1>a. PICK a : a = SubSeq(s, 1, k - 1) OBVIOUS
<1>b. PICK b : b = SubSeq(s, k + 1, Len(s)) OBVIOUS
<1>t. PICK t : t = a \o b OBVIOUS
<1>1. Len(s) \in Nat /\ k \in Nat OBVIOUS
<1>2. a \in Seq(S) /\ Len(a) = k - 1 /\ \A i \in 1..(k - 1) : a[i] = s[i]
  <2>1. /\ SubSeq(s, 1, k - 1) \in Seq(S) /\ Len(SubSeq(s, 1, k - 1)) = k - 1
        /\ \A i \in 1..(k - 1) : SubSeq(s, 1, k - 1)[i] = s[i]
    BY <1>1
  <2> QED BY <1>a, <2>1
<1>3. b \in Seq(S) /\ Len(b) = Len(s) - k /\ \A i \in 1..(Len(s) - k) : b[i] = s[k + i]
  <2>m. PICK m : m = Len(s) - k OBVIOUS
  <2>1. /\ SubSeq(s, k + 1, Len(s)) \in Seq(S) /\ Len(SubSeq(s, k + 1, Len(s))) = m
        /\ \A i \in 1..m : SubSeq(s, k + 1, Len(s))[i] = s[k + i]
    BY <1>1, <2>m
  <2> QED BY <1>b, <2>m, <2>1
<1>4. /\ t \in Seq(S) /\ Len(t) = Len(s) - 1
      /\ \A i \in 1..Len(t) : t[i] = IF i <= k - 1 THEN a[i] ELSE b[i - (k - 1)]
  <2>1. /\ a \o b \in Seq(S) /\ Len(a \o b) = Len(a) + Len(b)
        /\ \A i \in 1..(Len(a) + Len(b)) : (a \o b)[i] = IF i <= Len(a) THEN a[i] ELSE b[i - Len(a)]
    BY <1>2, <1>3, Concatenated
  <2>2. Len(a) + Len(b) = Len(s) - 1 BY <1>1, <1>2, <1>3
  <2> QED BY <1>t, <1>2, <2>1, <2>2
<1>5. ASSUME NEW i \in 1..Len(t) PROVE t[i] = IF i < k THEN s[i] ELSE s[i + 1]
  <2>1. CASE i < k
    <3>1. i <= k - 1 /\ i \in 1..(k - 1) BY <1>1, <2>1
    <3> QED BY <1>2, <1>4, <2>1, <3>1
  <2>2. CASE ~(i < k)
    <3>1. ~(i <= k - 1) /\ i - (k - 1) \in 1..(Len(s) - k) /\ k + (i - (k - 1)) = i + 1
      BY <1>1, <1>4, <2>2
    <3> QED BY <1>3, <1>4, <2>2, <3>1
  <2> QED BY <2>1, <2>2
<1>6. RemoveAt(s, k) = t BY <1>a, <1>b, <1>t DEF RemoveAt
<1> QED BY <1>4, <1>5, <1>6

(* The comment with an id goes, and no other. *)
Loses(cs, k, t) ==
  /\ \A i \in 1..Len(t) : \E j \in 1..Len(cs) : j # k /\ t[i] = cs[j]
  /\ \A j \in 1..Len(cs) : j # k => \E i \in 1..Len(t) : t[i] = cs[j]

LEMMA WithoutOne ==
  ASSUME NEW n \in Nat, NEW cs, Tidy(cs, n), NEW k \in 1..Len(cs)
  PROVE  Tidy(Without(cs, cs[k].id), n) /\ Loses(cs, k, Without(cs, cs[k].id))
<1> DEFINE t == Without(cs, cs[k].id)
<1>1. PICK S : cs \in Seq(S) BY DEF Tidy
<1>2. t = RemoveAt(cs, k)
  <2>1. DOMAIN cs = 1..Len(cs) BY <1>1
  <2>2. (CHOOSE i \in DOMAIN cs : cs[i].id = cs[k].id) = k BY <2>1 DEF Tidy
  <2> QED BY <2>2 DEF Without
<1>3. /\ t \in Seq(S) /\ Len(t) = Len(cs) - 1
      /\ \A i \in 1..Len(t) : t[i] = IF i < k THEN cs[i] ELSE cs[i + 1]
  BY <1>1, <1>2, Removed
<1> HIDE DEF t
<1> DEFINE at(i) == IF i < k THEN i ELSE i + 1
<1>4. Len(cs) \in Nat /\ k \in Nat BY <1>1
<1>5. ASSUME NEW i \in 1..Len(t) PROVE at(i) \in 1..Len(cs) /\ at(i) # k /\ t[i] = cs[at(i)]
  BY <1>3, <1>4
<1>6. ASSUME NEW i \in 1..Len(t), NEW j \in 1..Len(t), at(i) = at(j) PROVE i = j
  BY <1>4, <1>6
<1>7. ASSUME NEW j \in 1..Len(cs), j # k PROVE \E i \in 1..Len(t) : at(i) = j
  <2>1. CASE j < k
    <3>1. j \in 1..Len(t) /\ at(j) = j BY <1>3, <1>4, <2>1
    <3> QED BY <3>1
  <2>2. CASE j > k
    <3>1. j - 1 \in 1..Len(t) /\ at(j - 1) = j BY <1>3, <1>4, <2>2
    <3> QED BY <3>1
  <2> QED BY <1>4, <1>7, <2>1, <2>2
<1> HIDE DEF at
<1>8. Tidy(t, n)
  <2>1. \E Z : t \in Seq(Z) BY <1>3
  <2>2. ASSUME NEW i \in 1..Len(t)
        PROVE  /\ DOMAIN t[i] = {"id", "author", "marker", "text"} /\ t[i].id \in 1..n
               /\ t[i].author # None
               /\ t[i].marker[1] = "board" => t[i].marker[2] \in Nat
    BY <1>5 DEF Tidy
  <2>3. ASSUME NEW i \in 1..Len(t), NEW j \in 1..Len(t), t[i].id = t[j].id \/ t[i].marker = t[j].marker
        PROVE  i = j
    <3>1. at(i) = at(j) BY <1>5, <2>3 DEF Tidy
    <3> QED BY <1>6, <3>1
  <2> QED BY <2>1, <2>2, <2>3 DEF Tidy
<1>9. \A j \in 1..Len(cs) : j # k => \E i \in 1..Len(t) : t[i] = cs[j] BY <1>5, <1>7
<1>10. Loses(cs, k, t) BY <1>5, <1>9 DEF Loses
<1> QED BY <1>8, <1>10 DEF t

(* An edit changes a text and no marker. *)
LEMMA EditedOne ==
  ASSUME NEW n, NEW cs, Tidy(cs, n), NEW id, NEW text
  PROVE  LET t == Edited(cs, id, text)
         IN /\ Tidy(t, n) /\ Len(t) = Len(cs)
            /\ \A i \in 1..Len(cs) : t[i].marker = cs[i].marker /\ (cs[i].id = id => t[i].text = text)
<1> DEFINE t == Edited(cs, id, text)
<1>1. PICK S : cs \in Seq(S) BY DEF Tidy
<1>2. DOMAIN cs = 1..Len(cs) /\ Len(cs) \in Nat BY <1>1
<1>3. t = [i \in 1..Len(cs) |-> IF cs[i].id = id THEN [cs[i] EXCEPT !.text = text] ELSE cs[i]]
  BY <1>2 DEF Edited
<1> HIDE DEF t
<1>4. t \in Seq({t[i] : i \in 1..Len(cs)}) /\ Len(t) = Len(cs) BY <1>2, <1>3
<1>5. ASSUME NEW i \in 1..Len(cs)
      PROVE  /\ DOMAIN t[i] = {"id", "author", "marker", "text"} /\ t[i].id = cs[i].id
             /\ t[i].marker = cs[i].marker /\ t[i].author = cs[i].author
             /\ cs[i].id = id => t[i].text = text
  <2>1. DOMAIN cs[i] = {"id", "author", "marker", "text"} BY DEF Tidy
  <2> QED BY <1>3, <2>1
<1>6. Tidy(t, n)
  <2>1. \E Z : t \in Seq(Z) BY <1>4
  <2> QED BY <1>4, <1>5, <2>1 DEF Tidy
<1> QED BY <1>4, <1>5, <1>6 DEF t

(* A comment with a marker and an id that are new goes to the end. *)
LEMMA AppendedOne ==
  ASSUME NEW n \in Nat, NEW cs, Tidy(cs, n), NEW m, NEW text, m \notin Markers(cs),
         m[1] = "board" => m[2] \in Nat, NEW a, a # None
  PROVE  LET t == Append(cs, [id |-> n + 1, author |-> a, marker |-> m, text |-> text])
         IN /\ Tidy(t, n + 1) /\ Len(t) = Len(cs) + 1
            /\ \A i \in 1..Len(cs) : t[i] = cs[i]
            /\ t[Len(t)].marker = m /\ t[Len(t)].text = text
<1> DEFINE c == [id |-> n + 1, author |-> a, marker |-> m, text |-> text]
           t == Append(cs, c)
<1>1. PICK S : cs \in Seq(S) BY DEF Tidy
<1>2. DOMAIN cs = 1..Len(cs) /\ Len(cs) \in Nat BY <1>1
<1>3. DOMAIN c = {"id", "author", "marker", "text"} /\ c.id = n + 1 /\ c.marker = m /\ c.text = text
      /\ c.author = a
  OBVIOUS
<1> HIDE DEF c
<1>4. /\ t \in Seq(S \cup {c}) /\ Len(t) = Len(cs) + 1
      /\ \A i \in 1..Len(cs) : t[i] = cs[i]
      /\ t[Len(cs) + 1] = c
  BY <1>1
<1> HIDE DEF t
<1>5. \A i \in 1..Len(cs) : cs[i].marker # m BY <1>2 DEF Markers
<1>6. \A i \in 1..Len(cs) : cs[i].id \in 1..n /\ cs[i].id # n + 1 BY DEF Tidy
<1>7. 1..Len(t) = 1..Len(cs) \cup {Len(cs) + 1} BY <1>2, <1>4
<1>8. Tidy(t, n + 1)
  <2>1. \E Z : t \in Seq(Z) BY <1>4
  <2>2. ASSUME NEW i \in 1..Len(t)
        PROVE  /\ DOMAIN t[i] = {"id", "author", "marker", "text"} /\ t[i].id \in 1..(n + 1)
               /\ t[i].author # None
               /\ t[i].marker[1] = "board" => t[i].marker[2] \in Nat
    <3>1. CASE i \in 1..Len(cs) BY <1>4, <1>6, <3>1 DEF Tidy
    <3>2. CASE i = Len(cs) + 1 BY <1>3, <1>4, <3>2
    <3> QED BY <1>7, <3>1, <3>2
  <2>3. ASSUME NEW i \in 1..Len(t), NEW j \in 1..Len(t), t[i].id = t[j].id \/ t[i].marker = t[j].marker
        PROVE  i = j
    <3>1. CASE i \in 1..Len(cs) /\ j \in 1..Len(cs) BY <1>4, <2>3, <3>1 DEF Tidy
    <3>2. CASE i \in 1..Len(cs) /\ j = Len(cs) + 1 BY <1>3, <1>4, <1>5, <1>6, <2>3, <3>2
    <3>3. CASE i = Len(cs) + 1 /\ j \in 1..Len(cs) BY <1>3, <1>4, <1>5, <1>6, <2>3, <3>3
    <3> QED BY <1>7, <3>1, <3>2, <3>3
  <2> QED BY <2>1, <2>2, <2>3 DEF Tidy
<1> QED BY <1>3, <1>4, <1>8 DEF t, c

(* What markers and ids say when no two comments share one. *)
LEMMA Marked ==
  ASSUME NEW n, NEW cs, Tidy(cs, n)
  PROVE  /\ DOMAIN cs = 1..Len(cs) /\ Len(cs) \in Nat
         /\ \A m : m \in Markers(cs) <=> \E i \in 1..Len(cs) : cs[i].marker = m
         /\ \A x : x \in IdsOf(cs) <=> \E i \in 1..Len(cs) : cs[i].id = x
         /\ \A k \in 1..Len(cs) : FirstWith(cs, cs[k].marker) = k
<1>1. PICK S : cs \in Seq(S) BY DEF Tidy
<1>2. DOMAIN cs = 1..Len(cs) /\ Len(cs) \in Nat BY <1>1
<1>3. ASSUME NEW k \in 1..Len(cs) PROVE FirstWith(cs, cs[k].marker) = k
  <2> DEFINE first(i) == cs[i].marker = cs[k].marker /\ \A j \in 1..(i - 1) : cs[j].marker # cs[k].marker
  <2>1. first(k)
    <3>1. ASSUME NEW j \in 1..(k - 1) PROVE j \in 1..Len(cs) /\ j # k BY <1>2
    <3> QED BY <3>1 DEF Tidy
  <2>2. \A i \in 1..Len(cs) : first(i) => i = k BY DEF Tidy
  <2>3. FirstWith(cs, cs[k].marker) = CHOOSE i \in 1..Len(cs) : first(i) BY <1>2 DEF FirstWith
  <2> HIDE DEF first
  <2> QED BY <2>1, <2>2, <2>3
<1> QED BY <1>2, <1>3 DEF Markers, IdsOf

(* What the step of a process owes as long as no two overlap. *)
Onto(p) ==
  /\ Tidy(comments', ids')
  /\ IF proc'[p].pc = "end" THEN Settled(p, proc'[p], comments', hist')
                            ELSE Good(p, proc'[p], cache'[p], comments', hist')

(* One process goes on and the others stay where they are. *)
LEMMA AloneGoes ==
  ASSUME MessagesInv, AloneInv, NEW p \in Active, \E r : Steps(p, r), Ends(p),
         \E c : cache' = [cache EXCEPT ![p] = c], clean' => clean, clean' => Onto(p)
  PROVE  AloneInv'
<1>1. PICK r : Steps(p, r) OBVIOUS
<1>2. p \in Proc /\ proc[p].pc \notin {"idle", "end"} BY DEF Active
<1>3. \A x \in Proc : proc'[x] = IF x = p THEN r ELSE proc[x]
  BY <1>1, <1>2 DEF Steps, Go, MessagesInv, ProcsOK
<1>4. PICK c : cache' = [cache EXCEPT ![p] = c] OBVIOUS
<1>5. cache' = [x \in Proc |-> IF x = p THEN c ELSE cache[x]]
  <2>1. cache = [x \in Proc |-> cache[x]] BY DEF AloneInv
  <2> QED BY <1>4, <2>1
<1>6. cache' = [x \in Proc |-> cache'[x]] /\ \A x \in Proc : cache'[x] = IF x = p THEN c ELSE cache[x]
  BY <1>5
<1>7. r.pc # "idle" BY <1>1 DEF Steps, Forth
<1>8. ASSUME NEW x \in Proc PROVE Unbegun(proc'[x], cache'[x])
  <2>1. Unbegun(proc[x], cache[x]) BY DEF AloneInv
  <2>2. CASE x = p
    <3>1. proc'[x].pc # "idle" BY <1>3, <1>7, <2>2
    <3> QED BY <3>1 DEF Unbegun
  <2>3. CASE x # p BY <1>3, <1>6, <2>1, <2>3
  <2> QED BY <2>2, <2>3
<1>9. ASSUME clean'
      PROVE  /\ Tidy(comments', ids') /\ \A x, y \in Active' : x = y
             /\ \A x \in Active' : Good(x, proc'[x], cache'[x], comments', hist')
             /\ last' # None => last' \in Proc /\ Settled(last', proc'[last'], comments', hist')
  <2>1. \A x, y \in Active : x = y BY <1>9 DEF AloneInv
  <2>2. ASSUME NEW x \in Active' PROVE x = p /\ proc'[x].pc # "end"
    <3>1. x \in Proc /\ proc'[x].pc \notin {"idle", "end"} BY DEF Active
    <3>2. CASE x = p BY <3>1, <3>2
    <3>3. CASE x # p
      <4>1. proc[x].pc \notin {"idle", "end"} BY <1>3, <3>1, <3>3
      <4>2. x \in Active BY <3>1, <4>1 DEF Active
      <4> QED BY <2>1, <3>3, <4>2
    <3> QED BY <3>2, <3>3
  <2>3. \A x \in Active' : Good(x, proc'[x], cache'[x], comments', hist')
    BY <1>9, <2>2 DEF Onto
  <2>4. last' # None => last' = p /\ proc'[p].pc = "end" BY DEF Ends
  <2>5. last' # None => last' \in Proc /\ Settled(last', proc'[last'], comments', hist')
    BY <1>2, <1>9, <2>4 DEF Onto
  <2>6. \A x, y \in Active' : x = y BY <2>2
  <2> QED BY <1>9, <2>3, <2>5, <2>6 DEF Onto
<1> QED BY <1>6, <1>8, <1>9 DEF AloneInv

LEMMA StartAlone ==
  ASSUME MessagesInv, AloneInv, NEW p \in Proc, Start(p)
  PROVE  AloneInv'
<1>1. PICK r : r = [proc[p] EXCEPT !.pc = IF proc[p].kind = "board" THEN "part" ELSE "load"] OBVIOUS
<1>2. LocalOK(proc[p]) /\ proc[p].pc = "idle" BY DEF MessagesInv, ProcsOK, Start
<1>3. /\ r.pc = IF r.kind = "board" THEN "part" ELSE "load"
      /\ r.kind = proc[p].kind /\ r.parts = proc[p].parts /\ r.part = proc[p].part /\ r.ok = proc[p].ok
  BY <1>1, <1>2 DEF LocalOK
<1>4. \A x \in Proc : proc'[x] = IF x = p THEN r ELSE proc[x]
  BY <1>1 DEF Start, Go, MessagesInv, ProcsOK
<1>5. UNCHANGED <<comments, cache, ids, hist>> /\ last' = None /\ clean' = (clean /\ Active = {})
  BY DEF Start
<1>6. ASSUME NEW x \in Proc PROVE Unbegun(proc'[x], cache'[x])
  <2>1. Unbegun(proc[x], cache[x]) BY DEF AloneInv
  <2>2. CASE x = p
    <3>1. proc'[x].pc # "idle" BY <1>3, <1>4, <2>2
    <3> QED BY <3>1 DEF Unbegun
  <2>3. CASE x # p BY <1>4, <1>5, <2>1, <2>3
  <2> QED BY <2>2, <2>3
<1>7. Good(p, r, cache[p], comments, hist)
  <2>1. Unbegun(proc[p], cache[p]) BY DEF AloneInv
  <2>2. cache[p] = None /\ r.part = 0 /\ r.ok = TRUE /\ (r.kind = "board" => r.parts \in Nat)
    BY <1>2, <1>3, <2>1 DEF Unbegun
  <2>3. Has(comments, 0) BY DEF Has
  <2>4. r.kind = "board" => BoardOK(p, r, comments) BY <1>3, <2>2, <2>3 DEF BoardOK, Writing
  <2>5. r.kind \in {"apply", "series"} => LineOK(r, comments, hist) BY <1>3 DEF LineOK, Writing
  <2>6. Synced(r, cache[p], comments) BY <1>3, <2>2 DEF Synced
  <2> QED BY <2>4, <2>5, <2>6 DEF Good
<1>8. ASSUME clean' PROVE Active' \subseteq {p} /\ Tidy(comments, ids)
  <2>1. clean /\ Active = {} BY <1>5, <1>8
  <2>2. ASSUME NEW x \in Active' PROVE x = p
    <3>1. x \in Proc /\ proc'[x].pc \notin {"idle", "end"} BY DEF Active
    <3>2. CASE x # p
      <4>1. x \in Active BY <1>4, <3>1, <3>2 DEF Active
      <4> QED BY <2>1, <4>1
    <3> QED BY <3>2
  <2> QED BY <2>1, <2>2 DEF AloneInv
<1>9. ASSUME clean'
      PROVE  /\ \A x, y \in Active' : x = y
             /\ \A x \in Active' : Good(x, proc'[x], cache'[x], comments', hist')
  BY <1>4, <1>5, <1>7, <1>8, <1>9
<1>10. cache' = [x \in Proc |-> cache'[x]] BY <1>5 DEF AloneInv
<1> QED BY <1>5, <1>6, <1>8, <1>9, <1>10 DEF AloneInv

(* A process that works alone, before its step. *)
LEMMA Alone ==
  ASSUME MessagesInv, AloneInv, clean, NEW p \in Proc, proc[p].pc \notin {"idle", "end"}
  PROVE  /\ LocalOK(proc[p]) /\ Tidy(comments, ids) /\ ids \in Nat
         /\ Good(p, proc[p], cache[p], comments, hist)
         /\ cache = [x \in Proc |-> cache[x]] /\ proc = [x \in Proc |-> proc[x]]
<1>1. p \in Active BY DEF Active
<1> QED BY <1>1 DEF AloneInv, MessagesInv, ProcsOK, StoreOK

LEMMA ListAlone ==
  ASSUME MessagesInv, AloneInv, NEW p \in Proc, ListComments(p), UNCHANGED hist, clean'
  PROVE  Onto(p)
<1>1. /\ proc[p].pc \in {"upsert", "sweep", "relist"}
      /\ cache' = [cache EXCEPT ![p] = comments] /\ UNCHANGED <<comments, ids, clean>>
      /\ Go(p, [proc[p] EXCEPT !.pc = IF @ = "relist" THEN "again" ELSE @])
  BY DEF ListComments, Fails, Succeeds
<1>2. clean BY <1>1
<1>3. PICK old : old = proc[p] OBVIOUS
<1>4. /\ LocalOK(old) /\ Tidy(comments, ids) /\ Good(p, old, cache[p], comments, hist)
      /\ cache'[p] = comments
      /\ proc'[p] = [old EXCEPT !.pc = IF @ = "relist" THEN "again" ELSE @]
  BY <1>1, <1>2, <1>3, Alone DEF Go
<1>5. PICK r : r = proc'[p] OBVIOUS
<1>6. /\ r.pc = IF old.pc = "relist" THEN "again" ELSE old.pc
      /\ r.kind = old.kind /\ r.parts = old.parts /\ r.part = old.part /\ r.ok = old.ok
      /\ r.marker = old.marker /\ r.text = old.text /\ r.board = old.board
      /\ r.author = old.author
  BY <1>4, <1>5 DEF LocalOK
<1>7. old.pc \in {"upsert", "sweep", "relist"} /\ old.kind \in {"board", "apply", "series"}
  BY <1>1, <1>3, <1>4 DEF LocalOK, StageOK
<1>8. Synced(r, comments, comments) BY DEF Synced
<1>9. r.kind = "board" => BoardOK(p, r, comments) BY <1>4, <1>6, <1>7 DEF Good, BoardOK, Writing
<1>10. r.kind \in {"apply", "series"} => LineOK(r, comments, hist)
  BY <1>4, <1>6, <1>7 DEF Good, LineOK, Writing
<1>11. Good(p, r, comments, comments, hist) BY <1>8, <1>9, <1>10 DEF Good
<1> QED BY <1>1, <1>4, <1>5, <1>6, <1>7, <1>11 DEF Onto

(* The comment with the marker is written; the process is through with it. *)
After(r) == [r EXCEPT !.pc = r.then, !.ok = @ /\ TRUE]

Takes(new, cs, r) ==
  /\ \A i \in 1..Len(cs) : \E j \in 1..Len(new) : new[j].marker = cs[i].marker
  /\ \E k \in 1..Len(new) : new[k].marker = r.marker /\ new[k].text = r.text

LEMMA Written ==
  ASSUME NEW p, NEW old, LocalOK(old), old.pc \in {"upsert", "again"},
         NEW c, NEW cs, NEW h, NEW new, Good(p, old, c, cs, h),
         NEW n, Tidy(cs, n), NEW m, Tidy(new, m), Takes(new, cs, old)
  PROVE  After(old).pc # "end" /\ Good(p, After(old), new, new, h)
<1>0. PICK r : r = After(old) OBVIOUS
<1>1. /\ old.kind \in {"board", "apply", "series"}
      /\ old.then = IF old.kind = "board" THEN "part" ELSE "next"
  BY DEF LocalOK, StageOK
<1>2. /\ r.pc = old.then /\ r.kind = old.kind /\ r.parts = old.parts /\ r.part = old.part
      /\ r.marker = old.marker /\ r.text = old.text /\ r.board = old.board
      /\ r.ok = (old.ok /\ TRUE)
  BY <1>0 DEF LocalOK, After
<1>3. old.ok = TRUE => r.ok = TRUE BY <1>2
<1>4. Synced(r, new, new) BY DEF Synced
<1>5. \A x : x \in Markers(cs) => x \in Markers(new)
  <2>0. \A i \in 1..Len(cs) : \E j \in 1..Len(new) : new[j].marker = cs[i].marker BY DEF Takes
  <2>1. \A x : x \in Markers(cs) => \E i \in 1..Len(cs) : cs[i].marker = x BY Marked
  <2>2. \A x : (\E i \in 1..Len(new) : new[i].marker = x) => x \in Markers(new) BY Marked
  <2> QED BY <2>0, <2>1, <2>2
<1>6. old.marker \in Markers(new)
  <2>1. \A x : (\E i \in 1..Len(new) : new[i].marker = x) => x \in Markers(new) BY Marked
  <2> QED BY <2>1 DEF Takes
<1>7. ASSUME r.kind = "board" PROVE BoardOK(p, r, new)
  <2>1. /\ old.parts \in Nat /\ old.part \in Nat /\ old.ok = TRUE /\ old.part # 0
        /\ old.marker = <<"board", old.part>> /\ Has(cs, old.part - 1)
    BY <1>2, <1>7 DEF Good, BoardOK, Writing
  <2>2. Has(new, old.part)
    <3>1. ASSUME NEW j \in 1..old.part PROVE <<"board", j>> \in Markers(new)
      <4>1. CASE j = old.part BY <1>6, <2>1, <4>1
      <4>2. CASE j # old.part
        <5>1. j \in 1..(old.part - 1) BY <2>1, <4>2
        <5> QED BY <1>5, <2>1, <5>1 DEF Has
      <4> QED BY <4>1, <4>2
    <3> QED BY <3>1 DEF Has
  <2> QED BY <1>1, <1>2, <1>3, <1>7, <2>1, <2>2 DEF BoardOK, Writing
<1>8. ASSUME r.kind \in {"apply", "series"} PROVE LineOK(r, new, h)
  <2>1. old.text = h.val[old.marker[2]] BY <1>2, <1>8 DEF Good, LineOK, Writing
  <2>2. Shows(r, new, h) BY <1>2, <2>1 DEF Shows, Takes
  <2>3. r.pc = "next" BY <1>1, <1>2, <1>8
  <2> QED BY <2>2, <2>3 DEF LineOK, Writing
<1>9. r.pc # "end" BY <1>1, <1>2
<1>10. Good(p, r, new, new, h) BY <1>4, <1>7, <1>8 DEF Good
<1> QED BY <1>0, <1>9, <1>10

LEMMA EditAlone ==
  ASSUME MessagesInv, AloneInv, NEW p \in Proc, EditComment(p), UNCHANGED hist, clean'
  PROVE  Onto(p)
<1>1. PICK old : old = proc[p] OBVIOUS
<1>2. PICK c : c = cache[p][FirstWith(cache[p], old.marker)] OBVIOUS
<1>3. /\ old.pc \in {"upsert", "again"} /\ cache[p] # None /\ old.marker \in Markers(cache[p])
      /\ UNCHANGED <<ids, clean>>
      /\ \/ /\ c.id \in IdsOf(comments)
            /\ comments' = Edited(comments, c.id, old.text)
            /\ cache' = [cache EXCEPT ![p] = Edited(@, c.id, old.text)]
            /\ Go(p, After(old))
         \/ /\ c.id \notin IdsOf(comments) /\ UNCHANGED <<comments, cache>>
            /\ old.pc = "upsert" => Go(p, [old EXCEPT !.pc = "relist"])
  BY <1>1, <1>2 DEF EditComment, Fails, Succeeds, Upserted, After
<1>4. clean BY <1>3
<1>5. /\ LocalOK(old) /\ Tidy(comments, ids) /\ Good(p, old, cache[p], comments, hist)
      /\ cache = [x \in Proc |-> cache[x]] /\ proc = [x \in Proc |-> proc[x]]
  BY <1>1, <1>3, <1>4, Alone
<1>6. old.kind \in {"board", "apply", "series"} BY <1>3, <1>5 DEF LocalOK, StageOK
<1>7. Synced(old, cache[p], comments) BY <1>5, <1>6 DEF Good
<1>8. CASE c.id \in IdsOf(comments)
  <2>1. cache[p] = comments BY <1>2, <1>3, <1>7, <1>8 DEF Synced
  <2>2. PICK k \in 1..Len(comments) : comments[k].marker = old.marker BY <1>3, <1>5, <2>1, Marked
  <2>3. FirstWith(comments, old.marker) = k BY <1>5, <2>2, Marked
  <2>4. c = comments[k] BY <1>2, <2>1, <2>3
  <2>5. PICK new : new = Edited(comments, c.id, old.text) OBVIOUS
  <2>6. /\ Tidy(new, ids) /\ Len(new) = Len(comments)
        /\ \A i \in 1..Len(comments) : new[i].marker = comments[i].marker
                                       /\ (comments[i].id = c.id => new[i].text = old.text)
    BY <1>5, <2>5, EditedOne
  <2>7. comments' = new /\ cache'[p] = new BY <1>3, <1>5, <1>8, <2>1, <2>5
  <2>8. proc'[p] = After(old) BY <1>3, <1>5, <1>8 DEF Go
  <2>9. Takes(new, comments, old) BY <2>2, <2>4, <2>6 DEF Takes
  <2>10. Tidy(new, ids') BY <1>3, <2>6
  <2>11. After(old).pc # "end" /\ Good(p, After(old), new, new, hist)
    BY <1>3, <1>5, <2>6, <2>9, Written
  <2> QED BY <2>7, <2>8, <2>10, <2>11 DEF Onto
<1>9. CASE c.id \notin IdsOf(comments)
  <2>1. old.pc = "upsert"
    <3>1. SUFFICES ASSUME old.pc = "again" PROVE FALSE BY <1>3
    <3>2. cache[p] = comments BY <1>7, <3>1 DEF Synced
    <3>3. PICK k \in 1..Len(comments) : comments[k].marker = old.marker BY <1>3, <1>5, <3>2, Marked
    <3>4. c = comments[k] BY <1>2, <1>5, <3>2, <3>3, Marked
    <3> QED BY <1>5, <1>9, <3>4, Marked
  <2>2. PICK r : r = [old EXCEPT !.pc = "relist"] OBVIOUS
  <2>3. proc'[p] = r BY <1>3, <1>5, <1>9, <2>1, <2>2 DEF Go
  <2>4. /\ r.pc = "relist" /\ r.kind = old.kind /\ r.parts = old.parts /\ r.part = old.part
        /\ r.ok = old.ok /\ r.marker = old.marker /\ r.text = old.text /\ r.board = old.board
    BY <1>5, <2>2 DEF LocalOK
  <2>5. r.kind = "board" => BoardOK(p, r, comments) BY <1>5, <2>1, <2>4 DEF Good, BoardOK, Writing
  <2>6. r.kind \in {"apply", "series"} => LineOK(r, comments, hist)
    BY <1>5, <2>1, <2>4 DEF Good, LineOK, Writing
  <2>7. Good(p, r, cache[p], comments, hist) BY <2>4, <2>5, <2>6 DEF Good, Synced
  <2>8. UNCHANGED <<comments, cache, ids, hist>> BY <1>3, <1>9
  <2> QED BY <1>5, <2>3, <2>4, <2>7, <2>8 DEF Onto
<1> QED BY <1>8, <1>9

LEMMA CreateAlone ==
  ASSUME MessagesInv, AloneInv, NEW p \in Proc, CreateComment(p), UNCHANGED hist, clean'
  PROVE  Onto(p)
<1>1. PICK old : old = proc[p] OBVIOUS
<1>2. PICK c : c = [id |-> ids + 1, author |-> Account[p],
                   marker |-> old.marker, text |-> old.text] OBVIOUS
<1>3. /\ old.pc \in {"upsert", "again"} /\ cache[p] # None /\ old.marker \notin Markers(cache[p])
      /\ comments' = Append(comments, c) /\ cache' = [cache EXCEPT ![p] = Append(@, c)]
      /\ ids' = ids + 1 /\ UNCHANGED clean /\ Go(p, After(old))
  BY <1>1, <1>2 DEF CreateComment, Fails, Succeeds, Upserted, After
<1>4. clean BY <1>3
<1>5. /\ LocalOK(old) /\ Tidy(comments, ids) /\ Good(p, old, cache[p], comments, hist) /\ ids \in Nat
      /\ cache = [x \in Proc |-> cache[x]] /\ proc = [x \in Proc |-> proc[x]]
  BY <1>1, <1>3, <1>4, Alone
<1>6. old.kind \in {"board", "apply", "series"} BY <1>3, <1>5 DEF LocalOK, StageOK
<1>7. cache[p] = comments
  <2>1. Synced(old, cache[p], comments) BY <1>5, <1>6 DEF Good
  <2> QED BY <1>3, <2>1 DEF Synced
<1>8. old.marker[1] = "board" => old.marker[2] \in Nat
  <2>1. old.kind = "board" => old.marker = <<"board", old.part>> /\ old.part \in Nat
    BY <1>3, <1>5 DEF Good, BoardOK, Writing
  <2>2. old.kind \in {"apply", "series"} => old.marker[1] # "board"
    BY <1>3, <1>5 DEF Good, LineOK, Writing
  <2> QED BY <1>6, <2>1, <2>2
<1>9. PICK new : new = Append(comments, c) OBVIOUS
<1>10. /\ Tidy(new, ids + 1) /\ Len(new) = Len(comments) + 1
       /\ \A i \in 1..Len(comments) : new[i] = comments[i]
       /\ new[Len(new)].marker = old.marker /\ new[Len(new)].text = old.text
  <2>1. PICK m, t, a : m = old.marker /\ t = old.text /\ a = Account[p] OBVIOUS
  <2>2. a # None BY <2>1, AccountAssumption
  <2>3. ids \in Nat /\ Tidy(comments, ids) /\ m \notin Markers(comments)
    BY <1>3, <1>5, <1>7, <2>1
  <2>4. m[1] = "board" => m[2] \in Nat BY <1>8, <2>1
  <2>5. new = Append(comments, [id |-> ids + 1, author |-> a, marker |-> m, text |-> t])
    BY <1>2, <1>9, <2>1
  <2> QED BY <2>1, <2>2, <2>3, <2>4, <2>5, AppendedOne
<1>11. Takes(new, comments, old)
  <2>1. Len(comments) \in Nat BY <1>5, Marked
  <2>2. Len(new) \in 1..Len(new) /\ 1..Len(comments) \subseteq 1..Len(new) BY <1>10, <2>1
  <2> QED BY <1>10, <2>2 DEF Takes
<1>12. After(old).pc # "end" /\ Good(p, After(old), new, new, hist)
  BY <1>3, <1>5, <1>10, <1>11, Written
<1>13. proc'[p] = After(old) /\ cache'[p] = new /\ comments' = new
  BY <1>3, <1>5, <1>7, <1>9 DEF Go
<1> QED BY <1>3, <1>10, <1>12, <1>13 DEF Onto

LEMMA IdentifyAlone ==
  ASSUME MessagesInv, AloneInv, NEW p \in Proc, IdentifyAuthor(p), UNCHANGED hist, clean'
  PROVE  Onto(p)
<1>1. PICK old : old = proc[p] OBVIOUS
<1>2. old.pc = "whoami" /\ clean /\ UNCHANGED <<comments, cache, ids>>
  BY <1>1 DEF IdentifyAuthor, Fails, Succeeds
<1>3. /\ LocalOK(old) /\ Tidy(comments, ids) /\ Good(p, old, cache[p], comments, hist)
      /\ proc = [x \in Proc |-> proc[x]]
  BY <1>1, <1>2, Alone
<1>4. old.kind = "board" BY <1>2, <1>3 DEF LocalOK, StageOK
<1>5. BoardOK(p, old, comments) /\ Synced(old, cache[p], comments) BY <1>3, <1>4 DEF Good
<1>6. old.board = "board" /\ old.parts \in Nat /\ old.part \in Nat /\ old.ok = TRUE
      /\ Has(comments, old.parts)
  BY <1>2, <1>5 DEF BoardOK
<1>7. CASE Go(p, [old EXCEPT !.pc = "sweep", !.author = OwnLogin(p)])
  <2>1. PICK r : r = [old EXCEPT !.pc = "sweep", !.author = OwnLogin(p)] OBVIOUS
  <2>2. proc'[p] = r BY <1>3, <1>7, <2>1 DEF Go
  <2>3. /\ r.pc = "sweep" /\ r.kind = "board" /\ r.parts = old.parts /\ r.part = old.part
        /\ r.ok = old.ok /\ r.board = "board" /\ r.author = OwnLogin(p)
    BY <1>3, <1>4, <1>6, <2>1 DEF LocalOK
  <2>4. BoardOK(p, r, comments) BY <1>6, <2>3 DEF BoardOK, Writing
  <2>5. Synced(r, cache[p], comments) BY <1>2, <1>5, <2>3 DEF Synced
  <2>6. Good(p, r, cache[p], comments, hist) BY <2>3, <2>4, <2>5 DEF Good
  <2> QED BY <1>2, <1>3, <2>2, <2>3, <2>6 DEF Onto
<1>8. CASE OwnLogin(p) = None /\ Go(p, [old EXCEPT !.pc = "end", !.ok = FALSE])
  <2>1. PICK r : r = [old EXCEPT !.pc = "end", !.ok = FALSE] OBVIOUS
  <2>2. proc'[p] = r BY <1>3, <1>8, <2>1 DEF Go
  <2>3. r.pc = "end" /\ r.kind = "board" /\ r.parts = old.parts BY <1>3, <1>4, <2>1 DEF LocalOK
  <2>4. \A i \in 1..Len(comments) : comments[i].author # OwnLogin(p) BY <1>3, <1>8 DEF Tidy
  <2>5. Settled(p, r, comments, hist) BY <1>6, <2>3, <2>4 DEF Settled
  <2> QED BY <1>2, <1>3, <2>2, <2>3, <2>5 DEF Onto
<1> QED
  <2>1. \/ Account[p] \notin Hidden /\ Go(p, [old EXCEPT !.pc = "sweep", !.author = Account[p]])
        \/ /\ Account[p] \in Hidden
           /\ IF p \in Actions THEN Go(p, [old EXCEPT !.pc = "sweep", !.author = Bot])
                               ELSE Go(p, [old EXCEPT !.pc = "end", !.ok = FALSE])
    BY <1>1 DEF IdentifyAuthor, Fails
  <2> QED BY <1>7, <1>8, <2>1 DEF OwnLogin

LEMMA DeleteAlone ==
  ASSUME MessagesInv, AloneInv, NEW p \in Proc, DeleteStalePart(p), UNCHANGED hist, clean'
  PROVE  Onto(p)
<1>1. PICK old : old = proc[p] OBVIOUS
<1>2. old.pc = "sweep" /\ cache[p] # None BY <1>1 DEF DeleteStalePart
<1>3. clean BY DEF DeleteStalePart, Fails, Succeeds
<1>4. /\ LocalOK(old) /\ Tidy(comments, ids) /\ Good(p, old, cache[p], comments, hist) /\ ids \in Nat
      /\ cache = [x \in Proc |-> cache[x]] /\ proc = [x \in Proc |-> proc[x]]
  BY <1>1, <1>2, <1>3, Alone
<1>5. old.kind = "board" BY <1>2, <1>4 DEF LocalOK, StageOK
<1>6. /\ cache[p] = comments /\ old.board = "board" /\ old.parts \in Nat /\ Has(comments, old.parts)
      /\ old.author = OwnLogin(p)
  BY <1>2, <1>4, <1>5 DEF Good, Synced, BoardOK
<1>7. PICK stale : stale = StaleParts(comments, "board", old.parts, old.author) OBVIOUS
<1>8. DOMAIN comments = 1..Len(comments) /\ Len(comments) \in Nat BY <1>4, Marked
<1>9. \A i \in 1..Len(comments) :
        comments[i].id \in stale <=> /\ comments[i].author = old.author
                                     /\ comments[i].marker[1] = "board"
                                     /\ comments[i].marker[2] > old.parts
  <2>1. stale = {comments[i].id : i \in {j \in 1..Len(comments) :
                    /\ comments[j].author = old.author
                    /\ comments[j].marker[1] = "board" /\ comments[j].marker[2] > old.parts}}
    BY <1>7, <1>8 DEF StaleParts
  <2> QED BY <1>4, <2>1 DEF Tidy
<1>10. CASE stale = {}
  <2>1. PICK r : r = [old EXCEPT !.pc = "end"] OBVIOUS
  <2>2. proc'[p] = r /\ UNCHANGED <<comments, ids>>
    BY <1>1, <1>4, <1>6, <1>7, <1>10, <2>1 DEF DeleteStalePart, Go
  <2>3. r.pc = "end" /\ r.kind = "board" /\ r.parts = old.parts BY <1>4, <1>5, <2>1 DEF LocalOK
  <2>4. ASSUME NEW i \in 1..Len(comments), comments[i].marker[1] = "board",
               comments[i].author = OwnLogin(p)
        PROVE  comments[i].marker[2] <= old.parts
    <3>1. comments[i].marker[2] \in Nat BY <1>4, <2>4 DEF Tidy
    <3>2. ~(comments[i].marker[2] > old.parts) BY <1>6, <1>9, <1>10, <2>4
    <3> QED BY <1>6, <3>1, <3>2
  <2>5. Settled(p, r, comments, hist) BY <1>6, <2>3, <2>4 DEF Settled
  <2> QED BY <1>4, <2>2, <2>3, <2>5 DEF Onto
<1>11. CASE stale # {}
  <2>1. PICK k \in 1..Len(comments) :
          comments[k].id \in stale /\ \A j \in 1..(k - 1) : comments[j].id \notin stale
    <3>1. stale \subseteq {comments[i].id : i \in 1..Len(comments)} BY <1>7, <1>8 DEF StaleParts
    <3>2. PICK i \in 1..Len(comments) : comments[i].id \in stale BY <1>11, <3>1
    <3>a. PICK S : S = {j \in 1..Len(comments) : comments[j].id \in stale} OBVIOUS
    <3>b. S \in SUBSET Nat /\ S # {} BY <1>8, <3>2, <3>a
    <3>3. PICK least \in S : \A j \in S : least <= j BY <3>b, LeastOf
    <3>4. ASSUME NEW j \in 1..(least - 1) PROVE comments[j].id \notin stale
      <4>1. j \in 1..Len(comments) /\ ~(least <= j) BY <1>8, <3>a, <3>3
      <4> QED BY <3>a, <3>3, <4>1
    <3> QED BY <3>a, <3>3, <3>4
  <2>2. PICK first : first = CHOOSE i \in DOMAIN comments :
                       comments[i].id \in stale /\ \A j \in 1..(i - 1) : comments[j].id \notin stale
    OBVIOUS
  <2>3. first \in 1..Len(comments) /\ comments[first].id \in stale BY <1>8, <2>1, <2>2
  <2>4. comments[first].id \in IdsOf(comments) BY <1>4, <2>3, Marked
  <2>5. PICK id : id = comments[first].id OBVIOUS
  <2>6. PICK new : new = Without(comments, id) OBVIOUS
  <2>7. comments' = new /\ cache' = [cache EXCEPT ![p] = new] /\ UNCHANGED <<ids, proc>>
    <3>1. StaleParts(cache[p], proc[p].board, proc[p].parts, proc[p].author) = stale BY <1>1, <1>6, <1>7
    <3>2. id = cache[p][CHOOSE i \in DOMAIN cache[p] :
                          cache[p][i].id \in stale
                          /\ \A j \in 1..(i - 1) : cache[p][j].id \notin stale].id
      BY <1>6, <2>2, <2>5
    <3>3. id \in IdsOf(comments) BY <2>4, <2>5
    <3> QED BY <1>6, <1>11, <2>6, <3>1, <3>2, <3>3 DEF DeleteStalePart, Fails
  <2>8. /\ Tidy(new, ids)
        /\ \A j \in 1..Len(comments) : j # first => \E i \in 1..Len(new) : new[i] = comments[j]
    <3>0. Tidy(comments, ids) /\ ids \in Nat /\ first \in 1..Len(comments) BY <1>4, <2>3
    <3>1. /\ Tidy(Without(comments, comments[first].id), ids)
          /\ Loses(comments, first, Without(comments, comments[first].id))
      BY <3>0, WithoutOne
    <3> QED BY <2>5, <2>6, <3>1 DEF Loses
  <2>9. Has(new, old.parts)
    <3>1. ASSUME NEW j \in 1..old.parts PROVE <<"board", j>> \in Markers(new)
      <4>1. PICK i \in 1..Len(comments) : comments[i].marker = <<"board", j>>
        BY <1>4, <1>6, Marked DEF Has
      <4>2. i # first
        <5>1. ~(j > old.parts) BY <1>6
        <5>2. comments[first].marker[2] > old.parts BY <1>9, <2>3
        <5> QED BY <4>1, <5>1, <5>2
      <4>3. PICK l \in 1..Len(new) : new[l] = comments[i] BY <2>8, <4>2
      <4>4. \A m : (\E x \in 1..Len(new) : new[x].marker = m) => m \in Markers(new) BY <2>8, Marked
      <4> QED BY <4>1, <4>3, <4>4
    <3> QED BY <3>1 DEF Has
  <2>10. Good(p, old, new, new, hist)
    <3>1. BoardOK(p, old, new) BY <1>2, <1>4, <1>5, <2>9 DEF Good, BoardOK, Writing
    <3> QED BY <1>5, <3>1 DEF Good, Synced
  <2>11. proc'[p] = old /\ cache'[p] = new /\ proc'[p].pc # "end" BY <1>1, <1>2, <1>4, <2>7
  <2> QED BY <2>7, <2>8, <2>10, <2>11 DEF Onto
<1> QED BY <1>10, <1>11

LEMMA CommentAlone ==
  ASSUME MessagesInv, AloneInv, NEW p \in Proc, Comment(p)
  PROVE  AloneInv'
<1>1. \E r : Steps(p, r) BY CommentOK
<1>2. Ends(p) /\ UNCHANGED hist BY DEF Comment
<1>3. p \in Active
  BY DEF Comment, ListComments, EditComment, CreateComment, IdentifyAuthor, DeleteStalePart, Active
<1>4. cache = [x \in Proc |-> cache[x]] BY DEF AloneInv
<1>5. cache = [cache EXCEPT ![p] = cache[p]] BY <1>4
<1>6. \E c : cache' = [cache EXCEPT ![p] = c]
  <2>1. CASE UNCHANGED cache BY <1>5, <2>1
  <2>2. CASE ~UNCHANGED cache
    BY <2>2 DEF Comment, ListComments, EditComment, CreateComment, IdentifyAuthor, DeleteStalePart
  <2> QED BY <2>1, <2>2
<1>7. clean' => clean
  BY DEF Comment, ListComments, EditComment, CreateComment, IdentifyAuthor, DeleteStalePart,
         Fails, Succeeds
<1>8. clean' => Onto(p)
  BY <1>2, ListAlone, EditAlone, CreateAlone, IdentifyAlone, DeleteAlone DEF Comment
<1> QED BY <1>1, <1>2, <1>3, <1>6, <1>7, <1>8, AloneGoes

LEMMA LoadAlone ==
  ASSUME MessagesInv, AloneInv, NEW p \in Proc, LoadHistory(p), clean'
  PROVE  Onto(p)
<1>1. PICK old : old = proc[p] OBVIOUS
<1>2. PICK st : st = IF hist.ver # 0 THEN hist.val
                     ELSE IF old.kind = "series" /\ Legacy # << >> THEN <<Legacy>> ELSE << >>
  OBVIOUS
<1>3. PICK r : r = [old EXCEPT !.pc = "save", !.etag = hist.ver, !.st = st] OBVIOUS
<1>4. /\ old.pc = "load" /\ old.kind \in {"apply", "series"} /\ Go(p, r)
      /\ UNCHANGED <<comments, cache, ids, hist, clean>>
  BY <1>1, <1>2, <1>3 DEF LoadHistory, Fails, Succeeds
<1>5. clean BY <1>4
<1>6. /\ LocalOK(old) /\ Tidy(comments, ids) /\ Good(p, old, cache[p], comments, hist)
      /\ proc = [x \in Proc |-> proc[x]]
  BY <1>1, <1>4, <1>5, Alone
<1>7. proc'[p] = r BY <1>4, <1>6 DEF Go
<1>8. r.pc = "save" /\ r.kind = old.kind /\ r.etag = hist.ver BY <1>3, <1>6 DEF LocalOK
<1>9. Synced(r, cache[p], comments) BY <1>4, <1>6, <1>8 DEF Good, Synced
<1>10. LineOK(r, comments, hist) BY <1>8 DEF LineOK, Writing
<1>11. Good(p, r, cache[p], comments, hist) BY <1>4, <1>8, <1>9, <1>10 DEF Good
<1> QED BY <1>4, <1>6, <1>7, <1>8, <1>11 DEF Onto

LEMMA SaveAlone ==
  ASSUME MessagesInv, AloneInv, NEW p \in Proc, SaveHistory(p), clean'
  PROVE  Onto(p)
<1>1. PICK old : old = proc[p] OBVIOUS
<1>2. PICK i : i = Target(p) OBVIOUS
<1>3. PICK new : new = AppendTo(old.st, i, Event(p)) OBVIOUS
<1>4. PICK r : r = [old EXCEPT !.pc = "upsert", !.then = "next", !.mem = new[i],
                               !.marker = <<old.kind, i>>, !.text = new[i]]
  OBVIOUS
<1>5. old.pc = "save" /\ old.kind \in {"apply", "series"} /\ clean
  BY <1>1 DEF SaveHistory, Fails, Succeeds
<1>6. /\ LocalOK(old) /\ Tidy(comments, ids) /\ Good(p, old, cache[p], comments, hist)
      /\ proc = [x \in Proc |-> proc[x]]
  BY <1>1, <1>5, Alone
<1>7. Matches(p) BY <1>1, <1>5, <1>6 DEF Good, LineOK, Matches
<1>8. /\ hist' = [val |-> new, ver |-> hist.ver + 1] /\ Go(p, r)
      /\ UNCHANGED <<comments, cache, ids>>
  BY <1>1, <1>2, <1>3, <1>4, <1>7 DEF SaveHistory, Fails, Succeeds, Target
<1>9. proc'[p] = r /\ hist'.val = new BY <1>6, <1>8 DEF Go
<1>10. r.pc = "upsert" /\ r.kind = old.kind /\ r.marker = <<old.kind, i>> /\ r.text = new[i]
  BY <1>4, <1>6 DEF LocalOK
<1>11. Synced(r, cache[p], comments) BY <1>5, <1>6, <1>10 DEF Good, Synced
<1>12. LineOK(r, comments, hist')
  <2>1. r.marker[1] = old.kind /\ r.marker[2] = i BY <1>10
  <2> QED BY <1>5, <1>9, <1>10, <2>1 DEF LineOK, Writing
<1>13. Good(p, r, cache[p], comments, hist') BY <1>5, <1>10, <1>11, <1>12 DEF Good
<1> QED BY <1>6, <1>8, <1>9, <1>10, <1>13 DEF Onto

LEMMA NextEventAlone ==
  ASSUME MessagesInv, AloneInv, NEW p \in Proc, NextEvent(p), clean'
  PROVE  Onto(p)
<1>1. PICK old : old = proc[p] OBVIOUS
<1>2. PICK pc : pc = IF Len(old.todo) = 1 THEN "end" ELSE "load" OBVIOUS
<1>3. PICK r : r = [old EXCEPT !.todo = Tail(@), !.n = 0, !.st = << >>, !.pc = pc] OBVIOUS
<1>4. /\ old.pc = "next" /\ Go(p, r) /\ clean /\ UNCHANGED <<comments, cache, ids, hist>>
  BY <1>1, <1>2, <1>3 DEF NextEvent
<1>5. /\ LocalOK(old) /\ Tidy(comments, ids) /\ Good(p, old, cache[p], comments, hist)
      /\ proc = [x \in Proc |-> proc[x]]
  BY <1>1, <1>4, Alone
<1>6. old.kind \in {"apply", "series"} BY <1>4, <1>5 DEF LocalOK, StageOK
<1>7. proc'[p] = r BY <1>4, <1>5 DEF Go
<1>8. r.pc \in {"end", "load"} /\ r.kind = old.kind /\ r.marker = old.marker
  BY <1>2, <1>3, <1>5 DEF LocalOK
<1>9. Settled(p, r, comments, hist)
  BY <1>4, <1>5, <1>6, <1>8 DEF Good, LineOK, Shows, Settled
<1>10. Synced(r, cache[p], comments) BY <1>4, <1>5, <1>6, <1>8 DEF Good, Synced
<1>11. LineOK(r, comments, hist) BY <1>8 DEF LineOK, Writing
<1>12. Good(p, r, cache[p], comments, hist) BY <1>6, <1>8, <1>10, <1>11 DEF Good
<1> QED BY <1>4, <1>5, <1>7, <1>9, <1>12 DEF Onto

LEMMA NextPartAlone ==
  ASSUME MessagesInv, AloneInv, NEW p \in Proc, NextPart(p), clean'
  PROVE  Onto(p)
<1>1. PICK old : old = proc[p] OBVIOUS
<1>2. old.pc = "part" /\ old.kind = "board" /\ clean /\ UNCHANGED <<comments, cache, ids, hist>>
  BY <1>1 DEF NextPart
<1>3. /\ LocalOK(old) /\ Tidy(comments, ids) /\ Good(p, old, cache[p], comments, hist)
      /\ proc = [x \in Proc |-> proc[x]]
  BY <1>1, <1>2, Alone
<1>4. /\ Synced(old, cache[p], comments)
      /\ old.parts \in Nat /\ old.part \in Nat /\ old.ok = TRUE /\ Has(comments, old.part)
  BY <1>2, <1>3 DEF Good, BoardOK
<1>5. CASE old.part < old.parts
  <2>1. PICK r : r = [old EXCEPT !.pc = "upsert", !.then = "part", !.part = @ + 1,
                                 !.marker = <<"board", old.part + 1>>, !.text = <<p>>]
    OBVIOUS
  <2>2. proc'[p] = r BY <1>1, <1>3, <1>5, <2>1 DEF NextPart, Go
  <2>3. /\ r.pc = "upsert" /\ r.kind = "board" /\ r.parts = old.parts /\ r.part = old.part + 1
        /\ r.ok = old.ok /\ r.marker = <<"board", old.part + 1>>
    BY <1>2, <1>3, <2>1 DEF LocalOK
  <2>4. r.part # 0 /\ r.part \in Nat /\ r.part - 1 = old.part BY <1>4, <2>3
  <2>5. BoardOK(p, r, comments) BY <1>4, <2>3, <2>4 DEF BoardOK, Writing
  <2>6. Synced(r, cache[p], comments) BY <1>2, <1>4, <2>3 DEF Synced
  <2>7. Good(p, r, cache[p], comments, hist) BY <2>3, <2>5, <2>6 DEF Good
  <2> QED BY <1>2, <1>3, <2>2, <2>3, <2>7 DEF Onto
<1>6. CASE ~(old.part < old.parts)
  <2>1. PICK r : r = [old EXCEPT !.pc = "whoami", !.board = "board"] OBVIOUS
  <2>2. ~(old.parts = 1 /\ ~old.ok) BY <1>4
  <2>3. proc'[p] = r BY <1>1, <1>3, <1>6, <2>1, <2>2 DEF NextPart, Go
  <2>4. /\ r.pc = "whoami" /\ r.kind = "board" /\ r.parts = old.parts /\ r.part = old.part
        /\ r.ok = old.ok /\ r.board = "board"
    BY <1>2, <1>3, <2>1 DEF LocalOK
  <2>5. Has(comments, old.parts)
    <3>1. \A j \in 1..old.parts : j \in 1..old.part BY <1>4, <1>6
    <3> QED BY <1>4, <3>1 DEF Has
  <2>6. BoardOK(p, r, comments) BY <1>4, <2>4, <2>5 DEF BoardOK, Writing
  <2>7. Synced(r, cache[p], comments) BY <1>2, <1>4, <2>4 DEF Synced
  <2>8. Good(p, r, cache[p], comments, hist) BY <2>4, <2>6, <2>7 DEF Good
  <2> QED BY <1>2, <1>3, <2>3, <2>4, <2>8 DEF Onto
<1> QED BY <1>5, <1>6

LEMMA TimelineAlone ==
  ASSUME MessagesInv, AloneInv, NEW p \in Proc, Timeline(p)
  PROVE  AloneInv'
<1>1. \E r : Steps(p, r) BY TimelineOK
<1>2. Ends(p) /\ UNCHANGED cache /\ cache = [x \in Proc |-> cache[x]]
  BY DEF Timeline, LoadHistory, SaveHistory, NextEvent, NextPart, AloneInv
<1>3. p \in Active BY DEF Timeline, LoadHistory, SaveHistory, NextEvent, NextPart, Active
<1>4. cache' = [cache EXCEPT ![p] = cache[p]] BY <1>2
<1>5. clean' => clean
  BY DEF Timeline, LoadHistory, SaveHistory, NextEvent, NextPart, Fails, Succeeds
<1>6. clean' => Onto(p)
  BY LoadAlone, SaveAlone, NextEventAlone, NextPartAlone DEF Timeline
<1> QED BY <1>1, <1>2, <1>3, <1>4, <1>5, <1>6, AloneGoes

(* What is told on Slack leaves the comments alone. *)
LEMMA SlackAlone ==
  ASSUME MessagesInv, AloneInv, NEW p \in Proc, Slack(p)
  PROVE  AloneInv'
<1>1. PICK r : Steps(p, r) BY SlackStepOK
<1>2. Ends(p) /\ UNCHANGED hist BY DEF Slack
<1>3. LocalOK(proc[p]) /\ proc = [x \in Proc |-> proc[x]] BY DEF MessagesInv, ProcsOK
<1>4. proc[p].kind \in {"dash", "thread"}
  BY <1>3 DEF Slack, LoadSlack, PostMain, Courtesy, Claim, SaveSlack, MergeSlack, AdoptAnchor, Reply,
              Slacker, LocalOK, StageOK
<1>5. /\ UNCHANGED <<comments, cache>> /\ ids' \in {ids, ids + 1} /\ (clean' => clean)
      /\ proc[p].pc \notin {"idle", "end"}
  <2> USE DEF LoadSlack, PostMain, Courtesy, Claim, SaveSlack, MergeSlack, AdoptAnchor, Reply
  <2>1. UNCHANGED <<comments, cache>> /\ proc[p].pc \notin {"idle", "end"} BY DEF Slack
  <2>2. ids' \in {ids, ids + 1} BY DEF Slack
  <2>3. clean' => clean BY DEF Slack, Fails, Succeeds
  <2> QED BY <2>1, <2>2, <2>3
<1>6. cache = [x \in Proc |-> cache[x]] BY DEF AloneInv
<1>7. cache' = [cache EXCEPT ![p] = cache[p]] BY <1>5, <1>6
<1>8. p \in Active BY <1>5 DEF Active
<1>9. ASSUME clean' PROVE Onto(p)
  <2>1. Tidy(comments, ids) /\ ids \in Nat BY <1>5, <1>9, Alone
  <2>2. Tidy(comments, ids')
    <3>1. \A x \in 1..ids : x \in 1..ids' BY <1>5, <2>1
    <3> QED BY <2>1, <3>1 DEF Tidy
  <2>3. proc'[p] = r BY <1>1, <1>3 DEF Steps, Go
  <2>4. r.kind \in {"dash", "thread"} BY <1>1, <1>4 DEF Steps, Forth
  <2>5. Settled(p, r, comments, hist) /\ Good(p, r, cache[p], comments, hist) BY <2>4 DEF Settled, Good
  <2> QED BY <1>2, <1>5, <2>2, <2>3, <2>5 DEF Onto
<1> QED BY <1>1, <1>2, <1>5, <1>7, <1>8, <1>9, AloneGoes

(* A comment that vanishes while it is about to be edited is missed. *)
LEMMA VanishAlone ==
  ASSUME MessagesInv, AloneInv, Vanish
  PROVE  AloneInv'
<1>1. PICK k \in DOMAIN comments :
        /\ comments' = Without(comments, comments[k].id)
        /\ clean' = (clean /\ \A p \in Active :
                       proc[p].pc = "upsert" /\ proc[p].marker = comments[k].marker)
  BY DEF Vanish, RemoveComment
<1>2. UNCHANGED <<proc, cache, ids, hist>> /\ last' = None BY DEF Vanish, RemoveComment
<1>3. Active' = Active BY <1>2 DEF Active
<1>4. ASSUME clean'
      PROVE  /\ Tidy(comments', ids) /\ \A x, y \in Active : x = y
             /\ \A p \in Active : Good(p, proc[p], cache[p], comments', hist)
  <2>1. clean /\ \A p \in Active : proc[p].pc = "upsert" /\ proc[p].marker = comments[k].marker
    BY <1>1, <1>4
  <2>2. Tidy(comments, ids) /\ ids \in Nat /\ \A x, y \in Active : x = y
    BY <2>1 DEF AloneInv, MessagesInv, StoreOK
  <2>3. DOMAIN comments = 1..Len(comments) /\ k \in 1..Len(comments) BY <1>1, <2>2, Marked
  <2>4. PICK new : new = comments' OBVIOUS
  <2>5. /\ Tidy(new, ids)
        /\ \A i \in 1..Len(new) : \E j \in 1..Len(comments) : j # k /\ new[i] = comments[j]
        /\ \A j \in 1..Len(comments) : j # k => \E i \in 1..Len(new) : new[i] = comments[j]
    <3>0. Tidy(comments, ids) /\ ids \in Nat /\ k \in 1..Len(comments) BY <2>2, <2>3
    <3>1. new = Without(comments, comments[k].id) BY <1>1, <2>4
    <3>2. /\ Tidy(Without(comments, comments[k].id), ids)
          /\ Loses(comments, k, Without(comments, comments[k].id))
      BY <3>0, WithoutOne
    <3> QED BY <3>1, <3>2 DEF Loses
  <2>6. comments[k].id \notin IdsOf(new)
    <3>1. SUFFICES ASSUME comments[k].id \in IdsOf(new) PROVE FALSE OBVIOUS
    <3>2. PICK i \in 1..Len(new) : new[i].id = comments[k].id BY <2>5, <3>1, Marked
    <3>3. PICK j \in 1..Len(comments) : j # k /\ new[i] = comments[j] BY <2>5
    <3>4. comments[j].id = comments[k].id BY <3>2, <3>3
    <3> QED BY <2>2, <2>3, <3>3, <3>4 DEF Tidy
  <2>7. IdsOf(new) \subseteq IdsOf(comments)
    <3>1. ASSUME NEW x \in IdsOf(new) PROVE x \in IdsOf(comments)
      <4>1. PICK i \in 1..Len(new) : new[i].id = x BY <2>5, Marked
      <4>2. PICK j \in 1..Len(comments) : new[i] = comments[j] BY <2>5
      <4> QED BY <2>2, <4>1, <4>2, Marked
    <3> QED BY <3>1
  <2>8. \A m \in Markers(comments) : m # comments[k].marker => m \in Markers(new)
    <3>1. ASSUME NEW m \in Markers(comments), m # comments[k].marker PROVE m \in Markers(new)
      <4>1. PICK j \in 1..Len(comments) : comments[j].marker = m BY <2>2, Marked
      <4>2. PICK i \in 1..Len(new) : new[i] = comments[j] BY <2>5, <3>1, <4>1
      <4> QED BY <2>5, <4>1, <4>2, Marked
    <3> QED BY <3>1
  <2>9. ASSUME NEW p \in Active PROVE Good(p, proc[p], cache[p], new, hist)
    <3>1. PICK r : r = proc[p] OBVIOUS
    <3>2. PICK c : c = cache[p] OBVIOUS
    <3>3. LocalOK(r) /\ Good(p, r, c, comments, hist) /\ r.pc = "upsert" /\ r.marker = comments[k].marker
      BY <2>1, <3>1, <3>2 DEF AloneInv, Active, MessagesInv, ProcsOK
    <3>4. r.kind \in {"board", "apply", "series"} BY <3>3 DEF LocalOK, StageOK
    <3>5. Synced(r, c, new)
      <4>1. \/ c = None \/ c = comments
            \/ r.marker \in Markers(c) /\ c[FirstWith(c, r.marker)].id \notin IdsOf(comments)
        BY <3>3, <3>4 DEF Good, Synced
      <4>2. c = comments =>
              r.marker \in Markers(c) /\ c[FirstWith(c, r.marker)].id \notin IdsOf(new)
        <5>1. FirstWith(comments, comments[k].marker) = k /\ comments[k].marker \in Markers(comments)
          BY <2>2, <2>3, Marked
        <5> QED BY <2>6, <3>3, <5>1
      <4> QED BY <2>7, <3>3, <4>1, <4>2 DEF Synced
    <3>6. ASSUME r.kind = "board" PROVE BoardOK(p, r, new)
      <4>1. BoardOK(p, r, comments) BY <3>3, <3>6 DEF Good
      <4>2. r.part \in Nat /\ r.marker = <<"board", r.part>> /\ Has(comments, r.part - 1)
        BY <3>3, <4>1 DEF BoardOK, Writing
      <4>3. Has(new, r.part - 1)
        <5>1. ASSUME NEW j \in 1..(r.part - 1) PROVE <<"board", j>> \in Markers(new)
          <6>1. <<"board", j>> \in Markers(comments) BY <4>2 DEF Has
          <6>2. j # r.part BY <4>2
          <6>3. <<"board", j>> # comments[k].marker BY <3>3, <4>2, <6>2
          <6> QED BY <2>8, <6>1, <6>3
        <5> QED BY <5>1 DEF Has
      <4> QED BY <3>3, <4>1, <4>3 DEF BoardOK, Writing
    <3>7. r.kind \in {"apply", "series"} => LineOK(r, new, hist) BY <3>3 DEF Good, LineOK, Writing
    <3>8. Good(p, r, c, new, hist) BY <3>5, <3>6, <3>7 DEF Good
    <3> QED BY <3>1, <3>2, <3>8
  <2> QED BY <2>2, <2>4, <2>5, <2>9
<1> QED BY <1>2, <1>3, <1>4 DEF AloneInv

LEMMA AloneStep ==
  MessagesInv /\ AloneInv /\ [MessagesNext]_messagesVars => AloneInv'
<1> SUFFICES ASSUME MessagesInv, AloneInv, [MessagesNext]_messagesVars PROVE AloneInv' OBVIOUS
<1>1. CASE UNCHANGED messagesVars
  <2>1. UNCHANGED <<proc, comments, cache, ids, clean, hist, last>> BY <1>1 DEF messagesVars
  <2>2. Active' = Active BY <2>1 DEF Active
  <2> QED BY <2>1, <2>2 DEF AloneInv
<1>2. ASSUME NEW p \in Proc, Start(p) \/ Comment(p) \/ Timeline(p) \/ Slack(p) PROVE AloneInv'
  BY <1>2, StartAlone, CommentAlone, TimelineAlone, SlackAlone
<1>3. CASE Vanish BY <1>3, VanishAlone
<1> QED BY <1>1, <1>2, <1>3 DEF MessagesNext, Finished

LEMMA OneWith ==
  ASSUME NEW n, Tidy(comments, n), NEW k \in 1..Len(comments)
  PROVE  WithMarker(comments[k].marker) = {k} /\ Cardinality(WithMarker(comments[k].marker)) = 1
<1>1. DOMAIN comments = 1..Len(comments) BY Marked
<1>2. WithMarker(comments[k].marker) = {k} BY <1>1 DEF WithMarker, Tidy
<1>3. Cardinality({k}) = 1 BY FS_Singleton
<1> QED BY <1>2, <1>3

LEMMA AloneExact == AloneInv => AloneIsExact
<1> SUFFICES ASSUME AloneInv, clean, last # None
             PROVE  AloneIsExact
  BY DEF AloneIsExact
<1>1. Tidy(comments, ids) /\ Settled(last, proc[last], comments, hist) BY DEF AloneInv
<1>2. PICK r : r = proc[last] OBVIOUS
<1>3. ASSUME r.kind = "board", NEW i \in 1..3
      PROVE  IF i <= r.parts THEN Cardinality(WithMarker(<<"board", i>>)) = 1
             ELSE \A c \in WithMarker(<<"board", i>>) : comments[c].author # OwnLogin(last)
  <2>1. /\ r.parts \in Nat /\ Has(comments, r.parts)
        /\ \A j \in 1..Len(comments) :
             comments[j].marker[1] = "board" /\ comments[j].author = OwnLogin(last) =>
               comments[j].marker[2] <= r.parts
    BY <1>1, <1>2, <1>3 DEF Settled
  <2>2. CASE i <= r.parts
    <3>1. i \in 1..r.parts BY <2>1, <2>2
    <3>2. <<"board", i>> \in Markers(comments) BY <2>1, <3>1 DEF Has
    <3>3. PICK k \in 1..Len(comments) : comments[k].marker = <<"board", i>> BY <1>1, <3>2, Marked
    <3>4. Cardinality(WithMarker(comments[k].marker)) = 1 BY <1>1, OneWith
    <3> QED BY <2>2, <3>3, <3>4
  <2>3. CASE ~(i <= r.parts)
    <3>1. DOMAIN comments = 1..Len(comments) BY <1>1, Marked
    <3>2. \A c \in WithMarker(<<"board", i>>) : comments[c].author # OwnLogin(last)
      BY <2>1, <2>3, <3>1 DEF WithMarker
    <3> QED BY <2>3, <3>2
  <2> QED BY <2>2, <2>3
<1>4. ASSUME r.kind \in {"apply", "series"}
      PROVE  /\ Cardinality(WithMarker(r.marker)) = 1
             /\ \A i \in WithMarker(r.marker) : comments[i].text = hist.val[r.marker[2]]
  <2>1. PICK k \in 1..Len(comments) :
          comments[k].marker = r.marker /\ comments[k].text = hist.val[r.marker[2]]
    BY <1>1, <1>2, <1>4 DEF Settled, Shows
  <2>2. WithMarker(r.marker) = {k} /\ Cardinality(WithMarker(r.marker)) = 1
    BY <1>1, <2>1, OneWith
  <2> QED BY <2>1, <2>2
<1> QED BY <1>2, <1>3, <1>4 DEF AloneIsExact

(* After runs that did not overlap, and of which nothing failed, the         *)
(* comments are what the last one had to say: for any boards and timelines,  *)
(* and also when comments were deleted right before they were edited.  Parts *)
(* beyond a board stay that have another author than the one its run takes   *)
(* itself for (authenticatedCommentAuthor).                                  *)
THEOREM LastOneIsShown == MessagesSpec => []AloneIsExact
<1>1. MessagesInit => MessagesInv /\ AloneInv BY MessagesStart, AloneStart
<1>2. MessagesInv /\ AloneInv /\ [MessagesNext]_messagesVars => (MessagesInv /\ AloneInv)'
  BY MessagesStep, AloneStep
<1>3. AloneInv => AloneIsExact BY AloneExact
<1> QED BY <1>1, <1>2, <1>3, PTL DEF MessagesSpec

=============================================================================
