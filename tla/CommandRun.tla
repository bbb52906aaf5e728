------------------------------ MODULE CommandRun ------------------------------
(***************************************************************************)
(* One command as a process: `reeve run preview' or `reeve drift run'.     *)
(* The main goroutine decides what may be reached, acquires the state      *)
(* credential, hands the stacks to workers and reports; every worker       *)
(* acquires the credentials of its stack and drives the engine, which      *)
(* selects the workspace of the stack in its directory and plans there.    *)
(***************************************************************************)
EXTENDS Credentials

CONSTANTS
  Main, Worker,         \* the goroutines; Consumer is both
  Stack,
  Dir,                  \* the directory of each stack
  Name,                 \* the workspace of each stack
  Needs,                \* the providers each stack is bound to, in order
  StateProvider,        \* engine.state.auth_provider
  Worlds                \* commands: [kind, targets, workers, vcs, touches]

ASSUME ConsumerAssumption ==
  Consumer = Worker \cup {Main} /\ Main \notin Worker /\ None \notin Consumer
ASSUME StackAssumption ==
  /\ Needs \in [Stack -> Seq(Provider)]
  /\ StateProvider \in Provider
ASSUME WorldsAssumption ==
  \A x \in Worlds : /\ x.targets \in Seq(Stack)
                    /\ x.workers \subseteq Worker
                    /\ x.kind \in {"preview", "drift"}
                    /\ x.vcs \in {"local", "none", "error", "listed"}

VARIABLES
  world,        \* the member of Worlds that was chosen
  cancelled,    \* the context of the run has ended
  queue,        \* the groups not yet taken by a worker, as sets of positions in the targets
  ws,           \* per directory: the workspace that is selected there
  stateEnv,     \* the state credentials all stacks are given
  sum,          \* results by stack
  out,          \* what has left the process: [otel, sent, manifest, board, exit]
  ran           \* history: the plans the engine made

runVars == <<world, cancelled, queue, ws, stateEnv, sum, out, ran>>
vars == <<cacheVars, cred, wk, runVars>>

(* A goroutine at rest. *)
Idle == [pc |-> "idle", names |-> << >>, got |-> {}, new |-> 0, began |-> 0, answer |-> NoAnswer,
         then |-> "idle", else |-> "idle", todo |-> {}, env |-> {}, since |-> 0, rebound |-> FALSE]

Drifting == world.kind = "drift"

(* Mutant of Groups: every stack is a group, as for drift checks. *)
GroupsOfOne(kind, targets) == {{i} : i \in DOMAIN targets}

(* runPreviewTargets: the stacks of a directory form a group.  drift.Run has *)
(* a semaphore and no groups.                                                *)
Groups(kind, targets) ==
  LET mates(i) == {j \in DOMAIN targets : Dir[targets[j]] = Dir[targets[i]]}
  IN {IF kind = "drift" THEN {i} ELSE mates(i) : i \in DOMAIN targets}

Workers == {w \in Worker : wk[w].pc # "off"}

-----------------------------------------------------------------------------
(* The main goroutine. *)

At(c, pc) == wk[c].pc = pc
Move(pc) == Consumed(Main, [wk[Main] EXCEPT !.pc = pc])
Exit(how) == out' = [out EXCEPT !.exit = how]
Fail(pc) == Exit("failed") /\ Move(pc)

(* Mutant of SuppressPreApprovalConfig: an unknown list of files is empty. *)
SuppressIfTouched(what) == world.vcs = "listed" /\ what \in world.touches

(* suppressPreApprovalConfig: may the configuration in this checkout be      *)
(* acted on before anybody approved it?  Not if the pull request changes it, *)
(* and not if that is unknown; a local run is its owner's.                   *)
SuppressPreApprovalConfig(what) ==
  CASE world.vcs = "local"             -> FALSE
    [] world.vcs \in {"none", "error"} -> TRUE
    [] OTHER                           -> what \in world.touches

(* Preview up to the decision what to plan: the pull request, the telemetry  *)
(* and the targets.  A list of files that could not be read is an error, but *)
(* only after the telemetry was set up.                                      *)
Resolve ==
  /\ At(Main, "start")
  /\ ~Drifting
  /\ \/ Fail("end") /\ UNCHANGED queue
     \/ /\ out' = [out EXCEPT !.otel = ~SuppressPreApprovalConfig("otel"),
                              !.exit = IF world.vcs = "error" THEN "failed" ELSE @]
        /\ queue' = IF world.vcs = "error" THEN {} ELSE Groups(world.kind, world.targets)
        /\ Move(IF world.vcs = "error" THEN "end"
                ELSE IF world.targets = << >> THEN "manifest" ELSE "open")
  /\ UNCHANGED <<cacheVars, cred, world, cancelled, ws, stateEnv, sum, ran>>

(* The channels are built from the checkout and told, in previews of pull    *)
(* requests, unless suppressed.                                              *)
MayNotify == world.vcs \in {"listed", "none"} /\ ~SuppressPreApprovalConfig("channels")

Announced(ev) == IF MayNotify THEN [out EXCEPT !.sent = @ \cup {ev}] ELSE out

(* The bucket is opened and the channels told, once there is something to    *)
(* plan; then the state credential is asked for.                             *)
OpenBucket ==
  /\ At(Main, "open")
  /\ \/ Fail("end")
     \/ /\ out' = Announced("planning")
        /\ Consumed(Main, [wk[Main] EXCEPT !.pc = "request", !.names = <<StateProvider>>,
                                           !.then = "login", !.else = "denied"])
  /\ UNCHANGED <<cacheVars, cred, world, cancelled, queue, ws, stateEnv, sum, ran>>

(* buildDriftAuth *)
StartDrift ==
  /\ At(Main, "start")
  /\ Drifting
  /\ queue' = Groups(world.kind, world.targets)
  /\ Consumed(Main, [wk[Main] EXCEPT !.pc = "request", !.names = <<StateProvider>>,
                                     !.then = "login", !.else = "denied"])
  /\ UNCHANGED <<cacheVars, cred, world, cancelled, ws, stateEnv, sum, out, ran>>

Denied ==
  /\ At(Main, "denied")
  /\ Fail("close")
  /\ UNCHANGED <<cacheVars, cred, world, cancelled, queue, ws, stateEnv, sum, ran>>

(* PulumiLogin with the state credential, which all stacks then get. *)
Login ==
  /\ At(Main, "login")
  /\ \/ /\ stateEnv' = {g.id : g \in wk[Main].got}
        /\ Move("work")
        /\ UNCHANGED out
     \/ Fail("close") /\ UNCHANGED stateEnv
  /\ UNCHANGED <<cacheVars, cred, world, cancelled, queue, ws, sum, ran>>

(* workers.Wait *)
Collect ==
  /\ At(Main, "work")
  /\ queue = {}
  /\ \A w \in Workers : At(w, "idle")
  /\ Move(IF Drifting THEN "close" ELSE "manifest")
  /\ out' = IF Drifting THEN [out EXCEPT !.exit = "ok"] ELSE out
  /\ UNCHANGED <<cacheVars, cred, world, cancelled, queue, ws, stateEnv, sum, ran>>

(* Where a preview ends: only one with targets has a cache to close. *)
Ending == IF world.targets = << >> THEN "end" ELSE "close"

(* writeManifest; without targets there is no bucket and nothing is written. *)
WriteManifest ==
  /\ At(Main, "manifest")
  /\ \/ /\ out' = [out EXCEPT !.manifest = IF world.targets = << >> THEN @ ELSE DOMAIN sum]
        /\ Move("board")
     \/ world.targets # << >> /\ Fail(Ending)
  /\ UNCHANGED <<cacheVars, cred, world, cancelled, queue, ws, stateEnv, sum, ran>>

(* The board on the pull request; the help comment may fail. *)
PostComment ==
  /\ At(Main, "board")
  /\ \/ out' = [out EXCEPT !.board = TRUE] /\ Move("notify")
     \/ Fail(Ending)
  /\ UNCHANGED <<cacheVars, cred, world, cancelled, queue, ws, stateEnv, sum, ran>>

(* previewFailedRefs *)
FailedRefs == {s \in DOMAIN sum : sum[s] = "error"}

(* The channels are told, which may fail, and the verdict is returned. *)
Finish ==
  /\ At(Main, "notify")
  /\ out' = [(IF world.targets = << >> THEN out ELSE Announced("plan"))
               EXCEPT !.exit = IF FailedRefs = {} THEN "ok" ELSE "failed"]
  /\ Move(Ending)
  /\ UNCHANGED <<cacheVars, cred, world, cancelled, queue, ws, stateEnv, sum, ran>>

(* The deferred Close. *)
Close ==
  /\ At(Main, "close")
  /\ CloseCache
  /\ Move("end")
  /\ UNCHANGED runVars

-----------------------------------------------------------------------------
(* The workers. *)

(* The stack a worker is at: those of a group are taken in order. *)
Cur(todo) == world.targets[Min(todo)]

(* The next stack of a worker. *)
Begin(w, todo) ==
  IF todo = {} THEN Idle
  ELSE [Idle EXCEPT !.todo = todo, !.names = Needs[Cur(todo)],
                    !.pc = IF Needs[Cur(todo)] = << >> THEN "merge" ELSE "request",
                    !.then = "merge", !.else = "refused"]

(* Groups are handed out in the order of their first stacks. *)
Take(w) ==
  /\ At(Main, "work")
  /\ At(w, "idle")
  /\ \E group \in queue :
       /\ \A g \in queue : Min(group) <= Min(g)
       /\ Consumed(w, Begin(w, group))
       /\ queue' = queue \ {group}
  /\ UNCHANGED <<cacheVars, cred, world, cancelled, ws, stateEnv, sum, out, ran>>

(* resolveAuthEnv returns: the state credentials below those of the stack. *)
Merge(w) ==
  /\ At(w, "merge")
  /\ Consumed(w, [wk[w] EXCEPT !.env = stateEnv \cup {g.id : g \in wk[w].got}, !.pc = "select"])
  /\ UNCHANGED <<cacheVars, cred, runVars>>

(* A result of the stack, and the deferred cleanup of its credentials. *)
Record(w, status) ==
  /\ sum' = [s \in DOMAIN sum \cup {Cur(wk[w].todo)} |->
               IF s = Cur(wk[w].todo) THEN status ELSE sum[s]]
  /\ cred' = ReleaseClones(w)
  /\ Consumed(w, Begin(w, wk[w].todo \ {Min(wk[w].todo)}))

(* The credentials could not be acquired. *)
AuthFails(w) ==
  /\ At(w, "refused")
  /\ Record(w, "error")
  /\ UNCHANGED <<cacheVars, world, cancelled, queue, ws, stateEnv, out, ran>>

(* tfInit and selectWorkspace: the default workspace is not selected. *)
SelectWorkspace(w) ==
  LET s == Cur(wk[w].todo) IN
  /\ At(w, "select")
  /\ \/ /\ ws' = IF Name[s] = "default" THEN ws ELSE [ws EXCEPT ![Dir[s]] = Name[s]]
        /\ Consumed(w, [wk[w] EXCEPT !.pc = "plan"])
        /\ UNCHANGED <<cred, sum>>
     \/ Record(w, "error") /\ UNCHANGED ws
  /\ UNCHANGED <<cacheVars, world, cancelled, queue, stateEnv, out, ran>>

(* The engine plans, or checks for drift, in the directory. *)
Plan(w) ==
  LET s == Cur(wk[w].todo) IN
  /\ At(w, "plan")
  /\ ran' = ran \cup {[stack |-> s, ws |-> ws[Dir[s]], env |-> wk[w].env, since |-> wk[w].since,
                       own |-> {g.id : g \in wk[w].got}]}
  /\ \/ \E status \in {"planned", "error"} : Record(w, status)
     \/ /\ Drifting /\ ~wk[w].rebound
        /\ Consumed(w, [wk[w] EXCEPT !.pc = "expired"])
        /\ UNCHANGED <<cred, sum>>
  /\ UNCHANGED <<cacheVars, world, cancelled, queue, ws, stateEnv, out>>

(* The rebinder of a drift run, once per stack: everything is invalidated,   *)
(* the state credential acquired anew, then those of the stack.              *)
Rebind(w) ==
  /\ At(w, "expired")
  /\ InvalidateAll(w, [wk[w] EXCEPT !.pc = "request", !.names = <<StateProvider>>, !.got = {},
                                    !.rebound = TRUE, !.then = "restate", !.else = "refused"])
  /\ UNCHANGED runVars

Restate(w) ==
  /\ At(w, "restate")
  /\ stateEnv' = {g.id : g \in wk[w].got}
  /\ Consumed(w, [wk[w] EXCEPT !.got = {}, !.names = Needs[Cur(wk[w].todo)], !.then = "merge",
                    !.pc = IF Needs[Cur(wk[w].todo)] = << >> THEN "merge" ELSE "request"])
  /\ UNCHANGED <<cacheVars, cred, world, cancelled, queue, ws, sum, out, ran>>

-----------------------------------------------------------------------------
Cancel ==
  /\ ~cancelled
  /\ cancelled' = TRUE
  /\ UNCHANGED <<cacheVars, cred, wk, world, queue, ws, stateEnv, sum, out, ran>>

Finished == At(Main, "end") /\ UNCHANGED vars

Init ==
  /\ CacheInit
  /\ world \in Worlds
  /\ wk = [c \in Consumer |->
             [Idle EXCEPT !.pc = IF c = Main THEN "start"
                                 ELSE IF c \in world.workers THEN "idle" ELSE "off"]]
  /\ cancelled = FALSE
  /\ queue = {}
  /\ ws = [d \in {Dir[s] : s \in Stack} |-> "default"]
  /\ stateEnv = {}
  /\ sum = << >>
  /\ out = [otel |-> FALSE, sent |-> {}, manifest |-> {}, board |-> FALSE, exit |-> "none"]
  /\ ran = {}

Next ==
  \/ Resolve \/ OpenBucket \/ StartDrift \/ Denied \/ Login \/ Collect
  \/ WriteManifest \/ PostComment \/ Finish \/ Close
  \/ \E w \in Worker : \/ Take(w) \/ Merge(w) \/ AuthFails(w) \/ SelectWorkspace(w) \/ Plan(w)
                       \/ Rebind(w) \/ Restate(w)
  \/ \E c \in Consumer : /\ \/ Request(c) \/ ProviderAnswers(c) \/ Settle(c) \/ Wake(c)
                            \/ cancelled /\ StopWaiting(c)
                         /\ UNCHANGED runVars
  \/ Age /\ UNCHANGED runVars
  \/ Cancel
  \/ Finished

Spec == Init /\ [][Next]_vars

-----------------------------------------------------------------------------
(* Every credential a provider ever issued is cleaned up, once, by the time  *)
(* the command ends: cached ones, invalidated ones, ones that came too late. *)
(* And not too early: no stack is planned with a credential that was already *)
(* cleaned up, although stacks that shared it ended or invalidated it.       *)
CleanupSound ==
  /\ \A i \in DOMAIN cred :
       /\ cred[i].cleaned <= 1
       /\ At(Main, "end") => cred[i].cleaned = 1
  /\ \A w \in Worker : wk[w].pc \in {"select", "plan"} =>
       \A i \in wk[w].env : cred[i].cleaned = 0

(* After its credential was rejected and the cache invalidated, a drift check*)
(* gets no credential whose acquisition began before, whoever acquired it.   *)
RebindIsFresh == \A r \in ran : \A i \in r.own : cred[i].born >= r.since

(* A consumer waits only for an acquisition that is under way: none is left  *)
(* behind by one that failed, was invalidated or met a closed cache.         *)
AwaitedIsUnderWay ==
  \A c \in Consumer : At(c, "wait") /\ wk[c].answer = NoAnswer =>
    LET by == entry[Head(wk[c].names)].by IN
    by # None /\ wk[by].pc \in {"acquire", "settle"} /\ Head(wk[by].names) = Head(wk[c].names)

(* Previews of stacks that share a directory do not disturb each other: a    *)
(* named workspace is still selected when its plan is made.                  *)
PlannedInOwnWorkspace ==
  ~Drifting => \A r \in ran : Name[r.stack] # "default" => r.ws = Name[r.stack]

(* Nothing is sent to a channel or a collector on the word of a checkout     *)
(* that changes the configuration of channels or collectors, or may do so.   *)
SilentBeforeApproval ==
  LET trusted(what) == world.vcs = "local" \/ (world.vcs = "listed" /\ what \notin world.touches)
  IN (out.otel => trusted("otel")) /\ (out.sent # {} => trusted("channels"))

(* "selectWorkspace switches to the stack's workspace. The "default"         *)
(* workspace always exists and needs no select."                             *)
RightWorkspace == ~Drifting => \A r \in ran : r.ws = Name[r.stack]

(* The same for concurrent drift checks in one directory. *)
DriftInOwnWorkspace == Drifting => \A r \in ran : Name[r.stack] # "default" => r.ws = Name[r.stack]

(* As RebindIsFresh, for the state credentials all stacks share. *)
StateIsFresh == \A r \in ran : \A i \in r.env : cred[i].born >= r.since
=============================================================================
