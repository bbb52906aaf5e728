-------------------------------- MODULE PRFlow --------------------------------
(***************************************************************************)
(* What previews, applies and retention exchange through the bucket for    *)
(* one pull request.  A preview binds itself to the head, plans the stacks *)
(* the change affects, stores their plans and at last a manifest; an apply *)
(* finds the newest manifest of its commit, binds its scope to it and      *)
(* executes the stored plans; `reeve maintenance run' deletes what is old. *)
(* Meanwhile commits are pushed, the base moves (so that the same commit   *)
(* affects other stacks), writes fail and processes die.                   *)
(*                                                                         *)
(* Locks, approvals and the other gates of an apply are in ApplyRun and    *)
(* Decision: here their verdict is an input.                               *)
(***************************************************************************)
EXTENDS Integers, FiniteSets

CONSTANTS
  Commit,       \* commits that may become the head
  Stack,        \* declared stacks
  Scopes,       \* the sets of stacks the changed files may map to, per process
  Preview,      \* preview processes
  Apply,        \* apply processes
  Ident,        \* the CI run number and attempt of each preview: <<number, attempt>>
  Expected,     \* processes that were given the commit of their checkout
  Forced,       \* applies with --force
  BreakGlass,   \* emergency applies
  Freshness,    \* preview_freshness in the checkout of each apply; 0: no age limit
  Retention,    \* retention.max_age
  Setups,       \* what there is in the beginning: the objects earlier processes
                \* left in the bucket, and the processes still to start
  Faults,       \* failures that may happen
  MaxTime,      \* bound: the last instant
  MaxPush,      \* bound: pushes
  Nothing

ASSUME FreshnessAssumption == Freshness \in [Apply -> Nat] /\ Retention \in Nat \ {0}
ASSUME ScopesAssumption == Scopes \in [Preview \cup Apply -> SUBSET SUBSET Stack]
ASSUME IdentAssumption == Ident \in [Preview -> Nat \X Nat]
ASSUME FaultsAssumption ==
  Faults \subseteq {"put_plan", "put_manifest", "delete", "fetch"}

(* The CI system numbers runs and attempts: no two previews share them.      *)
ASSUME IdentUnique == \A p, q \in Preview : Ident[p] = Ident[q] => p = q

(* What is in the bucket in the beginning was written before, by processes   *)
(* like these: under the key that names its run and commit, not before it    *)
(* was made, and with the plans of a run beside its manifest.                *)
ASSUME SetupsAssumption ==
  \A st \in Setups :
    /\ IsFiniteSet(DOMAIN st.bucket)
    /\ \A k \in DOMAIN st.bucket :
         LET o == st.bucket[k] IN
         /\ o.mod \in Int /\ o.mod <= 0 /\ o.ver \notin st.starts
         /\ k.kind \in {"manifest", "plan"} =>
              \A p \in Preview \cap st.starts : k.id # Ident[p]
         /\ k.kind = "manifest" =>
              /\ k = [kind |-> "manifest", id |-> o.body.id, sha |-> o.body.sha]
              /\ o.body.id \in Nat \X Nat
              /\ o.body.created \in Int /\ o.body.created <= o.mod
              /\ \A l \in DOMAIN st.bucket :
                   l.kind = "plan" /\ l.id = k.id => st.bucket[l].body.by = o.body.by
         /\ k.kind = "plan" /\ o.body.by \in Expected => o.body.tree = k.sha

VARIABLES
  head, pushes, \* the head of the pull request, and how often it was moved
  now,          \* the clock, in seconds
  obj,          \* the bucket: objects under runs/pr-N/
  pv, ap, gc,   \* local states of the previews, the applies and the maintenance job
  ran,          \* history: what the engine was made to apply
  stored        \* history: every preview manifest ever stored

vars == <<head, pushes, now, obj, pv, ap, gc, ran, stored>>

Fault(f) == f \in Faults

Ended(rec) == [rec EXCEPT !.pc = "done"]

-----------------------------------------------------------------------------
(* Keys and objects.  `ver' is the version the bucket gave the object: every *)
(* process writes an object at most once, so its name serves as version.     *)

ManifestKey(id, sha)        == [kind |-> "manifest", id |-> id, sha |-> sha]
PlanArtifactKey(id, sha, s) == [kind |-> "plan", id |-> id, sha |-> sha, stack |-> s]
AppliedStateKey(sha)        == [kind |-> "applied", sha |-> sha]

Put(k, by, body) ==
  [x \in DOMAIN obj \cup {k} |-> IF x = k THEN [ver |-> by, mod |-> now, body |-> body]
                                          ELSE obj[x]]

-----------------------------------------------------------------------------
(* Preview. *)

NewPreview == [pc |-> "new", sha |-> Nothing, tree |-> Nothing, todo |-> {},
               res |-> << >>, at |-> 0]

SetPreview(p, rec) == pv' = [pv EXCEPT ![p] = rec]
EndPreview(p) == SetPreview(p, Ended(NewPreview))

(* Mutant of ResolvedSHA: the checkout is not compared with the head. *)
ResolvedUnchecked(c, tree) == head

(* The commit a readable pull request binds a process to: with an expected   *)
(* head the checkout must be the head (Nothing is the error), without one    *)
(* the head is taken for the checkout.                                       *)
ResolvedSHA(c, tree) ==
  IF c \in Expected /\ tree # head THEN Nothing ELSE head

(* resolvePR: without an expected head a pull request that cannot be read is *)
(* no error, and the preview goes by the commit it was started with.         *)
PreviewSHAs(p, tree) ==
  ({ResolvedSHA(p, tree)} \cup IF p \in Expected THEN {} ELSE {tree}) \ {Nothing}

(* The workflow has checked out what is or was the head (`tree').  The pull  *)
(* request and its changed files are read; the stacks they map to depend on  *)
(* a base that moves.  Without targets the bucket is not even opened; an     *)
(* unreadable list of files is an error.                                     *)
ResolvePreview(p) ==
  /\ pv[p].pc = "new"
  /\ \/ EndPreview(p)
     \/ \E tree \in Commit, target \in Scopes[p] \ {{}} :
          \E sha \in PreviewSHAs(p, tree) :
            SetPreview(p, [pv[p] EXCEPT !.pc = "plan", !.sha = sha, !.tree = tree,
                                        !.todo = target])
  /\ UNCHANGED <<head, pushes, now, obj, ap, gc, ran, stored>>

(* runPreviewOne: the engine plans a stack in the checked-out tree.  A plan  *)
(* that cannot be saved or stored leaves its summary without a plan key.     *)
(* Workers take the stacks in any order.                                     *)
PlanStack(p) ==
  /\ pv[p].pc = "plan"
  /\ \E s \in pv[p].todo, status \in {"planned", "error"}, saved \in BOOLEAN :
       /\ ~saved => status = "error" \/ Fault("put_plan")
       /\ status = "error" => ~saved
       /\ obj' = IF saved
                 THEN Put(PlanArtifactKey(Ident[p], pv[p].sha, s), p,
                          [by |-> p, tree |-> pv[p].tree])
                 ELSE obj
       /\ SetPreview(p, [pv[p] EXCEPT
            !.todo = @ \ {s},
            !.res  = [x \in DOMAIN @ \cup {s} |->
                        IF x = s THEN [status |-> status, plan |-> saved] ELSE @[x]],
            !.pc   = IF pv[p].todo = {s} THEN "put" ELSE "plan",
            !.at   = now])
  /\ UNCHANGED <<head, pushes, now, ap, gc, ran, stored>>

(* The manifest of a preview, stamped with the second it was made in. *)
Manifest(p) == [pr |-> "ok", by |-> p, id |-> Ident[p], sha |-> pv[p].sha,
                created |-> pv[p].at, res |-> pv[p].res]

(* writeManifest: the time is taken before the write, which may come later,  *)
(* fail, or take effect although it failed.                                  *)
PutManifest(p) ==
  /\ pv[p].pc = "put"
  /\ \/ /\ obj' = Put(ManifestKey(Ident[p], pv[p].sha), p, Manifest(p))
        /\ stored' = stored \cup {Manifest(p)}
     \/ Fault("put_manifest") /\ UNCHANGED <<obj, stored>>
  /\ EndPreview(p)
  /\ UNCHANGED <<head, pushes, now, ap, gc, ran>>

-----------------------------------------------------------------------------
(* Apply. *)

NewApply == [pc |-> "new", sha |-> Nothing, tree |-> Nothing, keys |-> {}, snap |-> Nothing,
             age |-> 0, lost |-> FALSE, todo |-> {}, clean |-> TRUE, known |-> {}]

SetApply(a, rec) == ap' = [ap EXCEPT ![a] = rec]
EndApply(a) == SetApply(a, Ended(NewApply))

(* previewManifestCandidate: the manifests whose key names the commit. *)
PreviewManifestCandidates(sha) ==
  {k \in DOMAIN obj : k.kind = "manifest" /\ k.sha = sha}

(* GetPR, the comparison of heads and the listing of the manifests. *)
BindApply(a) ==
  /\ ap[a].pc = "new"
  /\ \/ EndApply(a)
     \/ \E tree \in Commit :
          LET sha == ResolvedSHA(a, tree) IN
          /\ sha # Nothing
          /\ SetApply(a, [ap[a] EXCEPT !.pc = "load", !.sha = sha, !.tree = tree,
                            !.keys = PreviewManifestCandidates(sha),
                            !.known = {m \in stored : m.sha = sha}])
  /\ UNCHANGED <<head, pushes, now, obj, pv, gc, ran, stored>>

(* Mutant of NewerPreview: manifests of one second in any order. *)
NewerBySecond(m, n) == m.created >= n.created

(* newerPreviewRunID: by time, then by run number, then by attempt. *)
NewerPreview(m, n) ==
  \/ m.created > n.created
  \/ /\ m.created = n.created
     /\ \/ m.id[1] > n.id[1]
        \/ m.id[1] = n.id[1] /\ m.id[2] > n.id[2]

(* newestPreviewManifest over what is read under the listed keys. *)
NewestPreviewManifest(ms) ==
  IF ms = {} THEN Nothing
  ELSE CHOOSE m \in ms : \A n \in ms \ {m} : NewerPreview(m, n)

(* LoadPreviewSnapshot.  A listed manifest that is gone, damaged or not what *)
(* its key says fails the lookup; only an emergency apply goes on without.   *)
LoadPreviewSnapshot(a) ==
  /\ ap[a].pc = "load"
  /\ LET ks       == ap[a].keys
         readable == \A k \in ks : k \in DOMAIN obj /\ obj[k].body.pr = "ok"
         best     == NewestPreviewManifest({obj[k].body : k \in ks})
     IN  \/ /\ readable
            /\ SetApply(a, [ap[a] EXCEPT !.pc = "scope", !.keys = {}, !.snap = best,
                              !.age = IF best = Nothing THEN 0 ELSE now - best.created])
         \/ /\ ~readable
            /\ IF a \in BreakGlass
               THEN SetApply(a, [ap[a] EXCEPT !.pc = "scope", !.keys = {}, !.lost = TRUE])
               ELSE EndApply(a)
  /\ UNCHANGED <<head, pushes, now, obj, pv, gc, ran, stored>>

(* The scope is what was previewed; without a preview it is what the changed *)
(* files map to precisely.                                                   *)
BoundScope(snap, mapped) == IF snap = Nothing THEN mapped ELSE DOMAIN snap.res

(* The already-applied guard, the scope and the inputs of the gates, any of  *)
(* which may be unreadable.                                                  *)
ScopeApply(a) ==
  /\ ap[a].pc = "scope"
  /\ \/ /\ AppliedStateKey(ap[a].sha) \in DOMAIN obj /\ a \notin Forced
        /\ EndApply(a)
     \/ EndApply(a)
     \/ /\ AppliedStateKey(ap[a].sha) \notin DOMAIN obj \/ a \in Forced
        /\ \E mapped \in Scopes[a] :
             LET target == BoundScope(ap[a].snap, mapped) IN
             IF target = {} THEN EndApply(a)
             ELSE SetApply(a, [ap[a] EXCEPT !.pc = "revalidate", !.todo = target])
  /\ UNCHANGED <<head, pushes, now, obj, pv, gc, ran, stored>>

(* revalidatePRHead: a no-op without an expected head. *)
HeadStands(a) == a \notin Expected \/ head = ap[a].sha

Revalidate(a) ==
  /\ ap[a].pc = "revalidate"
  /\ IF HeadStands(a) THEN SetApply(a, [ap[a] EXCEPT !.pc = "loop"]) ELSE EndApply(a)
  /\ UNCHANGED <<head, pushes, now, obj, pv, gc, ran, stored>>

(* preview_succeeded and preview_fresh, which is skipped when the age limit  *)
(* is disabled; an emergency overrides them only when the history could not  *)
(* be read.                                                                  *)
PreviewGates(a, s) ==
  \/ a \in BreakGlass /\ ap[a].lost
  \/ /\ ap[a].snap # Nothing
     /\ s \in DOMAIN ap[a].snap.res
     /\ ap[a].snap.res[s].status # "error"
     /\ Freshness[a] = 0 \/ ap[a].age <= Freshness[a]

(* The plan the engine gets: the stored one, or the fresh one it makes       *)
(* itself when the manifest names none or it cannot be fetched.              *)
FreshPlan(a) == [by |-> a, tree |-> ap[a].tree]

LockedPlans(a, s) ==
  LET snap == ap[a].snap
      key  == PlanArtifactKey(snap.id, snap.sha, s)
  IN  IF snap = Nothing \/ ~(s \in DOMAIN snap.res /\ snap.res[s].plan)
      THEN {FreshPlan(a)}
      ELSE (IF key \in DOMAIN obj THEN {obj[key].body} ELSE {FreshPlan(a)})
             \cup (IF Fault("fetch") THEN {FreshPlan(a)} ELSE {})

(* One stack: gates, policy hooks (which judge the plan in the manifest),    *)
(* the saved plan and the engine.                                            *)
ApplyStack(a) ==
  /\ ap[a].pc = "loop"
  /\ \E s \in ap[a].todo :
       \/ /\ PreviewGates(a, s)
          /\ \E plan \in LockedPlans(a, s) :
               ran' = ran \cup {[run |-> a, sha |-> ap[a].sha, stack |-> s, plan |-> plan,
                                 src |-> ap[a].snap]}
          /\ SetApply(a, [ap[a] EXCEPT !.todo = @ \ {s}])
       \/ /\ SetApply(a, [ap[a] EXCEPT !.todo = @ \ {s}, !.clean = FALSE])
          /\ UNCHANGED ran
  /\ UNCHANGED <<head, pushes, now, obj, pv, gc, stored>>

(* A clean run leaves the applied marker. *)
FinishApply(a) ==
  /\ ap[a].pc = "loop" /\ ap[a].todo = {}
  /\ obj' = IF ap[a].clean THEN Put(AppliedStateKey(ap[a].sha), a, Nothing) ELSE obj
  /\ SetApply(a, [ap[a] EXCEPT !.pc = "done"])
  /\ UNCHANGED <<head, pushes, now, pv, gc, ran, stored>>

-----------------------------------------------------------------------------
(* Retention. *)

(* Mutant of PruneCandidates: the cutoff second itself is taken for old. *)
PruneListed(cutoff) ==
  {[key |-> k, ver |-> obj[k].ver] : k \in {x \in DOMAIN obj : obj[x].mod <= cutoff}}

(* The objects a listing proves to be older than the cutoff. *)
PruneCandidates(cutoff) ==
  {[key |-> k, ver |-> obj[k].ver] : k \in {x \in DOMAIN obj : obj[x].mod < cutoff}}

PruneList ==
  /\ gc = {}
  /\ gc' = PruneCandidates(now - Retention)
  /\ gc' # {}
  /\ UNCHANGED <<head, pushes, now, obj, pv, ap, ran, stored>>

(* DeleteIfMatch: an object that changed since the listing stays. *)
DeletedByPrune(e) == {k \in {e.key} \cap DOMAIN obj : obj[k].ver = e.ver}

(* A deletion that fails is logged and the next one tried. *)
PruneOne ==
  \E e \in gc :
    /\ gc' = gc \ {e}
    /\ \/ obj' = [k \in DOMAIN obj \ DeletedByPrune(e) |-> obj[k]]
       \/ Fault("delete") /\ UNCHANGED obj
    /\ UNCHANGED <<head, pushes, now, pv, ap, ran, stored>>

-----------------------------------------------------------------------------
(* The surroundings. *)

Push ==
  /\ pushes < MaxPush
  /\ pushes' = pushes + 1
  /\ head' \in Commit \ {head}
  /\ UNCHANGED <<now, obj, pv, ap, gc, ran, stored>>

Tick ==
  /\ now < MaxTime
  /\ now' = now + 1
  /\ UNCHANGED <<head, pushes, obj, pv, ap, gc, ran, stored>>

Init ==
  /\ head \in Commit
  /\ now = 0
  /\ pushes = 0
  /\ \E setup \in Setups :
       /\ obj = setup.bucket
       /\ pv = [p \in Preview |-> IF p \in setup.starts THEN NewPreview ELSE Ended(NewPreview)]
       /\ ap = [a \in Apply |-> IF a \in setup.starts THEN NewApply ELSE Ended(NewApply)]
  /\ gc = {}
  /\ ran = {}
  /\ stored = {obj[k].body : k \in {x \in DOMAIN obj : x.kind = "manifest"}}

Next ==
  \/ Push \/ Tick \/ PruneList \/ PruneOne
  \/ \E p \in Preview :
       ResolvePreview(p) \/ PlanStack(p) \/ PutManifest(p)
  \/ \E a \in Apply :
       \/ BindApply(a) \/ LoadPreviewSnapshot(a)
       \/ ScopeApply(a) \/ Revalidate(a) \/ ApplyStack(a) \/ FinishApply(a)

Spec == Init /\ [][Next]_vars

-----------------------------------------------------------------------------
Ordinary(e) == e.run \notin BreakGlass

(* One commit.  What an ordinary apply executes was previewed successfully   *)
(* for the very commit its gates looked at, by one preview: the stack is in  *)
(* that preview's manifest, a stored plan is the one that preview computed,  *)
(* and whether stored or fresh it comes from a checkout of that commit.      *)
(* Pushes, moving bases, other previews and deletions do not mix into it.    *)
AppliedAsPreviewed ==
  \A e \in ran : Ordinary(e) =>
    /\ e.src # Nothing /\ e.src.sha = e.sha
    /\ e.stack \in DOMAIN e.src.res /\ e.src.res[e.stack].status # "error"
    /\ e.plan.by \in {e.src.by, e.run}
    /\ e.run \in Expected /\ e.src.by \in Expected => e.plan.tree = e.sha

(* m is no newer than n. *)
NotNewer(m, n) ==
  \/ m.created < n.created
  \/ m.created = n.created /\ m.id[1] < n.id[1]
  \/ m.created = n.created /\ m.id[1] = n.id[1] /\ m.id[2] <= n.id[2]

(* Retention had deleted the manifest m when the apply of e looked for it,   *)
(* and no age limit keeps what is older from being applied.                  *)
RetentionTook(m, e) ==
  /\ Freshness[e.run] = 0 \/ Freshness[e.run] > Retention
  /\ m.created + Retention < e.src.created + ap[e.run].age
  /\ ManifestKey(m.id, m.sha) \notin DOMAIN obj

(* The newest preview decides.  No preview of the commit that was stored     *)
(* before the apply looked is newer than the one it went by: a failed newer  *)
(* preview hides an older good one.  With an age limit no longer than        *)
(* max_age this holds of every preview ever stored, also of those retention  *)
(* removed; with a longer limit, or with preview_freshness "0", it fails for *)
(* those alone that were older than max_age and gone.                        *)
NewestDecides ==
  \A e \in ran : Ordinary(e) =>
    \A m \in ap[e.run].known : NotNewer(m, e.src) \/ RetentionTook(m, e)

(* Retention deletes no object that is younger than max_age, although it     *)
(* works from a listing others write behind.                                 *)
YoungKept ==
  [][\A k \in DOMAIN obj \ DOMAIN obj' : now - obj[k].mod > Retention]_vars

=============================================================================
