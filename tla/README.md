# A TLA+ model of reeve

reeve runs Pulumi, Terraform and OpenTofu from pull requests: it previews the
stacks a change affects, decides whether they may be applied, applies them under
per-stack locks, and looks for drift on a schedule. It has no server. Every
command is a short-lived process in a CI job; what processes share is a bucket
(S3, GCS, Azure Blob or a directory), the forge (GitHub) and the channels they
report to. What makes the system correct is therefore what happens *between*
processes: jobs that race, are cancelled or killed, repeat a step or work with
what they read a while ago, on storage whose only synchronisation is a
conditional write; and, inside one process, between its goroutines.

This directory holds TLA+ modules for the parts that carry that logic, TLC
configurations for small instances, and proofs checked by TLAPS.
`PROJECT.json` lists the runs, which source lines each definition stands for,
the hazards the properties are meant for, and mutated definitions that show that
each property can fail.

Contents: [the system](#the-system) · [modules](#modules) ·
[runs](#runs-and-what-they-show) · [bounds](#bounds) · [fairness](#fairness) ·
[proofs](#proofs) · [disagreements](#disagreements-between-code-and-docs) ·
[observations](#other-observations) · [not modelled](#not-modelled) · [plan](#plan)

## The system

### Inventory

| Component (source) | State it keeps | Operations | Talks to | What makes it correct | Module |
|---|---|---|---|---|---|
| Lock state machine (`internal/core/locks`) | per stack: holder (PR, run, expiry, promoted), FIFO queue | TryAcquire, Release, UnlockPR, Reap, promotion, eviction | pure; called by the lock store | queues lose and duplicate nobody, order is kept, a lease is respected | LockMachine, Locks |
| Lock store (`internal/blob/locks`) | lock objects in the bucket | Get, conditional write with retries, UnlockPRAll, ReapAll, ForceUnlock | bucket; called by apply, refresh, commands, maintenance | each operation is atomic; a lease somebody was told of is what the bucket says | LockStore |
| Apply, refresh (`internal/run/apply.go`, `refresh.go`) | progress; manifest, applied marker, audit entries in the bucket | bind, guard, gather, intent, per stack: lock, gates, credentials, engine, release; final writes | lock store, bucket, forge, engine, hooks, channels | the engine works only under the run's lock; nothing stays held; what is recorded is true | ApplyRun |
| Previews and plans (`internal/run/preview*.go`, `sha_helper.go`, `plan_artifacts.go`) | manifests and plans per commit and attempt | preview, lookup of the newest, binding of scope, revalidation of the head | engine, bucket, forge | an apply executes what the newest preview of its commit computed | PRFlow |
| Retention (`internal/run/gc.go`) | none | list, conditional delete | bucket | nothing young and nothing rewritten is deleted | PRFlow, Buckets |
| Preview and drift commands (`internal/run/preview.go`, `cmd/reeve/drift.go`) | results, selected workspaces | resolve, open bucket, log in, plan with workers, report | cache, engine, channels | previews do not disturb each other; an untrusted checkout is not obeyed | CommandRun |
| Authentication (`internal/auth`) | credential cache of a process | acquire, wait, invalidate, close | clouds | a credential is cleaned up once, in time; a fresh one is fresh | Credentials |
| Credential bindings (`internal/auth/binding.go`) | none | resolve, validate | configuration | one provider for a credential scope | Bindings |
| Reading the pull request (`internal/vcs/github`, `internal/run/gate_inputs.go`) | none | reviews, comments, checks, files, owners, teams, page by page | forge | what is decided on was true of one commit | Forge, Gathering |
| Discovery, CODEOWNERS (`internal/core/discovery`, `internal/vcs/codeowners`) | none | affected stacks, owners of paths | used by preview, apply, drift | no change goes unplanned | Scope |
| Approval rules (`internal/core/approvals`) | none | Resolve, Evaluate, ExpandTeams | called by apply, explain | fails closed; the most specific pattern decides | Approvals |
| Preconditions (`internal/core/preconditions`) | none | Evaluate, EvaluateAll | called by apply, explain | order, binding gates, exact record of what was overridden | Gates |
| Policy hooks (`internal/policy`) | none | Run | called by apply | a required hook that did not pass blocks | Policy |
| Freeze windows (`internal/core/freeze`) | none | ActiveFor | called by apply, refresh, explain | a window covers its whole duration | Freeze |
| Break-glass (`internal/core/breakglass`) | none | Parse, Authorize | called by apply | nobody authorizes himself | BreakGlass |
| Explain (`internal/run/explain.go`) | none | Explain | forge, bucket | says what apply would do | Decision |
| Drift (`internal/drift`) | per stack: last outcome, fingerprint, times; suppressions; markers of undelivered events | run, bootstrap, suppress | engine, bucket, channels | alerts are news, incidents end up true, nothing owed is dropped | Drift |
| Noise filter, drift checks (`internal/drift/classify_filter.go`, `internal/iac/*/drift.go`) | none | DriftCheck, Filter | called by drift | only a complete plan is a verdict, only noise is dropped | Engines, Noise |
| Buckets (`internal/blob`) | objects with versions | Get, Put, PutIfMatch, List, Delete, DeleteIfMatch, probes | file system, storage services | what a conditional call replaces is what it compared with | Bucket, FilesystemBucket, CloudBucket |
| Comments (`internal/vcs/github/client.go`, `internal/run/overflow.go`) | comments found by a marker, a copy of the list | upsert, delete stale parts | forge | what a board shows is the newest board | Comments |
| Timelines (`internal/run/timeline.go`, `notify/channels/timeline`) | histories per commit | append by optimistic loop, mirror | bucket, comments | histories are append-only, series stay together | Timelines |
| Slack (`notify/channels/slack`, `channels/timeline/slack.go`) | one message and its thread | upsert, claim, reply | Slack, bucket | one message is the anchor for good | SlackThread |
| Audit (`internal/audit`) | write-once entries | write | bucket | an entry is never replaced | ApplyRun, Buckets |
| Configuration, parsing, rendering, redaction, telemetry, HTTP | none or outside | I/O and text | | inputs of the model | |

### Where it is hard

* **Races on a lock object.** Read, compute, conditional write, retry; answers
  get lost, storage clients repeat writes, walks over all locks meet locks that
  change behind and before them.
* **Leases against clocks.** Times are cut to seconds, clocks differ, a missing
  expiry never ends and an unreadable one has ended; a lease is renewed by a
  heartbeat only while the engine works.
* **Death and cancellation** between any two writes of an apply, a drift run, or
  a file operation.
* **Partial failure.** One stack, one storage call, one page, one channel of
  several.
* **Reads that are spread out.** Files, reviews, comments, checks and statuses
  come page by page while people act and checks start again; manifests are listed, read and used while previews store and
  retention deletes.
* **Storage that promises too much.** Providers that accept conditions and
  ignore them, ETags that do not change, a directory of files that has to
  imitate versions.
* **Goroutines.** Workers share a credential cache that is filled, waited for,
  invalidated and closed, and directories with one selected workspace each.
* **Two implementations of one question.** explain and apply gather the same
  inputs through different code.
* **Histories.** What drift alerts depends on a sequence of verdicts, errors,
  suppressions and deliveries, some of which failed; what a timeline shows
  depends on runs that overlap.

The full list, with lines and the properties that cover each, is
`PROJECT.json`/`hazards`.

## Modules

```
LockMachine ──┬── LockMachineProofs                  lemmas on transitions
              ├── Locks ──────── LocksProofs         atomic locks; proofs
              ├── LockStore ──── LockStoreProofs     bucket, retries, failures; refines Locks
              └── ApplyRun ───── ApplyRunProofs      applies and refreshes over atomic locks
PRFlow ── PRFlowProofs                               previews, applies, retention, one pull request

Approvals ─┬─ BreakGlass ─┐
           │  Gates ──────┤
           │  Policy ─────┼── Decision ─┐            what apply decides, explain says
           │  Freeze ─────┘             ├─ ApplyRunProofs
           └─ Forge ──────┐             │
              Scope ──────┼── Gathering ┘            what an apply decides on
              Bindings ───┘

Noise ── Engines ── Drift ── DriftProofs             drift runs, events, channels
Credentials ── CommandRun ── CommandRunProofs        one preview or drift command
Bucket ─┬─ FilesystemBucket ─┬─ Buckets              conditional calls on every kind of bucket
        └─ CloudBucket ──────┘    └─ BucketsProofs
Comments ─┬─ Timelines ───┬─ Messages                what concurrent runs tell people
          └─ SlackThread ─┘    └─ PRFlowProofs
MC*  : instances for TLC
```

ApplyRunProofs holds the proofs about everything that goes into one apply: what
it gathers, what it decides and what it does beside others. PRFlowProofs holds
those about one pull request: its previews and applies, and what its comments,
timelines and thread say. Both extend several specifications at once, which is why
Decision, Gathering and Messages put their name before `Init`, `Next`, `Spec` and
`vars`.

**LockMachine** is `internal/core/locks/locks.go` and the transition functions
`store.go` passes to its loop: operators from a lock and a time to a lock and a
result. A lock is a record of holder and queue; `commit_sha`, `actor` and display
times are left out because no branch reads them. Times keep what decides:
`Stamp` cuts to the second, `Missing` never expires, `Unparseable` always has.
`Transition(req, lock, t)` gives the new lock, whether it is written, and the
error of each operation.

**Locks** is the abstract specification: each operation is one atomic step with
a clock reading that is not ahead of the caller's clock. **LockStore** is the
code: `Read` takes a snapshot and computes, `PutOK`, `PutConflict`,
`PutRepeated` and `PutLost` are the outcomes of the conditional write, `Retry`
counts to `MaxRetries`, `CallAll` and `Advance` walk over several locks,
`PassOver` is a lock that a walk could not read. `Atomic` says that LockStore
implements Locks under the mapping `lock <- [k |-> LockOf(blob[k])]`. The clock
reading of a landed write may be old by then, hence "not ahead" in Locks.

**ApplyRun** has one action per phase of `Apply`, from `Begin` to the exit code,
for any number of concurrent runs with their target lists, and the phases of
`Refresh` (`refresh`, `login`, `rewrite`) where they differ: it respects freezes,
has no approvals, intent, marker or final sweep, and writes one audit entry.
`Heartbeat` beats beside the engine; `Cancel` (SIGTERM) and `Die` (SIGKILL, a
lost runner) may come at any point, and so may the maintenance job's
`ReapStack`. A call to the lock store that succeeds is a single step, which is
what `Atomic` entitles it to. One that fails may or may not have been stored:
`AcquireFails` and `ReleaseLock` fail when the bucket does, when rivals win every
attempt (`store.go:462`; both are the fault kinds `acquire_*` and
`release_error`), or when a signal cuts them, which needs no fault. For a release
that is `Left`: `terminalContext` gives a context of its own only to a run that is
cancelled already (`apply.go:1081`), so a signal *during* the release of a run
that was not cancelled cuts it. The record `unsure` remembers such calls. Time is
not held up by anything, so that a lease may end in every phase. What gates,
hooks, credentials and engine answer is nondeterministic; the lock gate is not.

**PRFlow** is what previews, applies and retention exchange through the bucket.
A preview binds itself to the head or to its checkout (`ResolvePreview`,
`ResolvedSHA`; without an expected head also when the pull request cannot be read,
`PreviewSHAs`), plans stack by stack (`PlanStack`), and stores its manifest last
(`PutManifest`). An apply binds (`BindApply`), lists and reads the manifests of
its commit (`LoadPreviewSnapshot`, `NewestPreviewManifest`), takes its scope from
the newest (`BoundScope`), looks at the head again (`Revalidate`) and executes
the stored plans (`ApplyStack`). `PruneList` and `PruneOne` are retention, whose
deletion is conditional on the version listed. `Push` and the clock go on. Each
apply has the `preview_freshness` of its checkout; 0 is the documented way to
disable the age limit, and `PreviewGates` then asks for a successful preview only.

**Approvals**, **Gates**, **Policy**, **Freeze**, **BreakGlass** are the pure
deciders as operators. **Decision** composes them as `Apply` and `Explain` do:
both look at one state of the world (`q`), resolve the rules in whatever order
their map yields, and answer. The lock of the stack is part of that state: apply
asks for it (`Asked`, the `TryAcquire` of LockMachine, which evicts, promotes and
refuses), explain reads it (`Readable`). Patterns, globs, cron expressions and texts are
inputs: a layer of rules comes with its counts of literals and wildcards, a
window with the set of its fires, a command with its words.

**Forge** is how the GitHub adapter reduces reviews and comments to approvals and
checks to a verdict; **Scope** is discovery and CODEOWNERS over paths as
sequences of segments; **Bindings** is the resolution of credential bindings.
**Gathering** is one apply that makes these reads call by call and page by page
(`ReadPR` … `Revalidate`) while people review, dismiss, comment, delete comments,
push and force-push (also back to a commit that was the head), while check runs
start, end and start again, which moves them in the listing, and while statuses
change. The files are those of whatever head is current when a page is asked for.
Its history variables say what stood or was in trouble at some moment of the
apply, what did all the time, whether a listing of checks shifted between two
pages, and whether the head came back to the commit.

**Drift** has the classification and damping of `state.go`, the check of one
stack in `runOne` (load, skip, refuse, retries, verdict, save), and the
publication of a run: artifacts, leftovers merged with new payloads, markers,
concurrent delivery to channels, and clearing. A verdict is what **Engines**
makes of an answer of Pulumi or Terraform, filtered by **Noise**. Channels are
the stateful ones: an incident per stack for drift and one for checks, opened
and closed by events. Faults (`Fault(kind)`) are failing reads and writes of
state, artifacts and markers, failing or slow deliveries, and death. The
variables `seen` and `excused` are histories that only the properties read.

**Credentials** is `CredentialCache`: consumers ask for providers by name, the
first acquires and the others wait, answers arrive after an invalidation or after
`Close`, and clones carry no cleanup. **CommandRun** is the process around it:
the main goroutine resolves what may be reached, opens the bucket, logs in,
hands groups of stacks (sets of positions in the list of targets, the group
with the smallest position first) to workers and reports; a worker acquires, selects the
workspace in its directory, plans, and in a drift check may rebind once.

**Bucket** has callers with a role: read-modify-write (`mutate`), write-once
(`create`), `put`, `delete`, and retention (`prune`). **FilesystemBucket** gives
their operations system call by system call: lock files by inode, the version in
a second file, two renames, readers without locks, processes that die in
between. **CloudBucket** gives them request by request, with the probes that
come first and each adapter's reading of the provider's answer. **Buckets** puts
both under the same properties.

**Comments** is the upsert by marker on a cached list and the sweep of stale
parts, which first asks for the own login (`IdentifyAuthor`: `/user`, or
`github-actions[bot]` inside Actions when that is refused or fails) and passes over
what another account wrote. **Timelines** is the two
optimistic loops with their fallbacks and the comments that mirror them,
**SlackThread** the message two channels share. **Messages** runs three
processes with these and people who delete comments. A process is one job of a CI
run; a run that is run again keeps its number, so two processes may tell of one
run, the second after the first has ended (`after`).

## Runs and what they show

| Run | Properties | Question |
|---|---|---|
| `locks` | `QueuesOK`, `NoOvertaking`, `NoEarlyEviction` | are the atomic lock operations right, also on left-over locks with missing and unreadable expiry |
| `store` | `Atomic`, `LeaseHonoured`, `SweptClean` | does the optimistic loop over the bucket implement them |
| `apply` | `EngineHoldsLock`, `NothingLeftHeld`, `RecordsTrue` | what applies and refreshes hold, leave behind and record |
| `decision` | `ApprovalsEarned`, `BindingGates`, `FreezeHolds`, `EmergencySound`, `ExplainIsSound` | what is let through |
| `gather` | `ApprovalsExact`, `BlockersSeen`, `OneCommit`, `ScopeCovers`, `ProvidersExact` | is what an apply decides on true |
| `flow` | `AppliedAsPreviewed`, `NewestDecides`, `YoungKept` | is what is applied what was previewed |
| `drift` | `IncidentsSettle`, `AcceptedIsSilent`, `MarkersKept`, `AlertIsNews`, `Redelivered` | do alerts and incidents tell the truth |
| `command` | `CleanupSound`, `RebindIsFresh`, `AwaitedIsUnderWay`, `PlannedInOwnWorkspace`, `SilentBeforeApproval` | do the goroutines of one command respect each other |
| `buckets` | `ReplacedAsSeen`, `ListedIsDeleted`, `VerdictsAreTrue` | may callers rely on conditional calls |
| `messages` | `FinishJoinsStart`, `AloneIsExact`, `RepliesUnderAnchor`, `HistoryKept`, `AnchorKept` | do concurrent runs tell one story |
| `drift_lost`, `buckets_lost` | `AlertsSurvive`, `UpdatesKept` | counterexamples, see [disagreements](#disagreements-between-code-and-docs) |

`LeaseHonoured` is the property everything else rests on: while a lease a run
was told of has not ended on any clock, the bucket names that run as active
holder. Forced unlocks revoke a lease; a run that released gave it up.
`SweptClean`: a sweep that succeeded and read every lock leaves no trace of its
run.

`EngineHoldsLock`: while the engine changes a stack or its record, the run holds
the lock and, until its lease ends, is the active holder. Every phase may outlast
the lease, and the property claims nothing after its end.
`NothingLeftHeld`: a run that returned holds no lock but those of which an acquire
or release was reported as failed. Where calls fail by signals only, that is one
lock at most, the one whose call the first signal cut: what a run that was
cancelled before releases is released, as `terminalContext` is there to provide. `RecordsTrue` joins four
records: an emergency is on record before it touches anything, a commit is marked
as applied only by a run without a blocked or failed stack, changes are in a
manifest or in the exit code, and a failure is in the exit code.

`ApprovalsEarned`: the most specific pattern decides, no policy lets a change
through without an approval by somebody else, approvals of other commits and
outsiders do not tip a decision where the rules exclude them. `BindingGates`: no
gate that nothing may override is passed over, required policy hooks included.
`FreezeHolds`: a freeze holds for its whole duration and not longer.
`EmergencySound`: an emergency has an actor somebody vouched for, and the record
of overridden gates is exact. `ExplainIsSound`: what explain calls clear, apply
does not block, with the two exceptions of the lock that `TwinHolds` and
`OtherInherits` define: another run of the pull request works under it, or its
lease has run out and another pull request is next in the queue. A lock that
explain says is in the way is refused to an apply.

`ApprovalsExact`: whoever counts as an approver did approve, at some moment of
the apply, and this commit where commits dismiss approvals; and a review that
stood from beginning to end counts. That a human whose association is allowed
must have written it is asked of comments only: reviews have no such filter.
`BlockersSeen`: a status that blocked all the time blocks, and so does a check of
somebody else, unless a check of the commit started (again) between two pages of
the listing, which moves entries to pages that were read; reeve's own checks and
those never in trouble do not block, under the same condition. `OneCommit`: an
apply that knows its checkout decides on the files of that commit, unless the head
left it and came back between the two looks, which compare the ends only. `ScopeCovers`: a changed file is claimed by a stack that is
planned or everything is planned. `ProvidersExact`: bindings that pass
`reeve lint` give one provider for a scope, named by a most specific binding.

`AppliedAsPreviewed`: an ordinary apply executes what one preview computed for
the very commit its gates looked at. `NewestDecides`: no preview of the commit
that was ever stored when the apply looked is newer than the one it went by; a
failed newer preview hides an older good one. The exception is a newer one that
retention has deleted, which only an apply without an age limit
(`preview_freshness` "0"), or with one longer than `max_age`, can meet
(`RetentionTook`). `YoungKept`: retention takes
nothing younger than its limit.

`IncidentsSettle`: once nothing is under way and nothing is owed, an open drift
incident means that the last diff was more than noise, drift that was alerted has
its incident, and a check incident is open iff the last check failed, for all
channels that hear of beginnings and ends. Streams whose events fell through a
known gap are excused, each at the action that has the gap: a check refused
before the state was read, a state that could not be stored, a bootstrap, a run
that failed or died before its markers were stored, leftovers that could not be
read or come back crossed, a marker that could not be cleared. `AlertIsNews`:
failed checks between two verdicts of one shape cause no alert. `AcceptedIsSilent`:
drift that is suppressed for good reaches no channel. `MarkersKept`: a marker is
cleared only when every subscriber got its event. `Redelivered`: again and again
nothing is owed.

`CleanupSound`: every credential a provider issued is cleaned up exactly once by
the end, and none is planned with after its cleanup. `RebindIsFresh`: after an
invalidation a check gets no credential whose acquisition began before.
`AwaitedIsUnderWay`: nobody waits for an acquisition that is not under way.
`PlannedInOwnWorkspace`: previews of one directory do not disturb each other.
`SilentBeforeApproval`: nothing is sent on the word of a checkout that changes
where things are sent, or that may.

`ReplacedAsSeen`: what a conditional write replaces is what its condition was
compared with, whatever crashes or races and whatever the provider ignores.
`ListedIsDeleted`: retention deletes the very object it listed. `VerdictsAreTrue`:
a remembered probe verdict is true of the bucket.

`HistoryKept`: what a timeline recorded stays, in order. `FinishJoinsStart`: the
end of a plan is in the series of its beginning, for every attempt of a run that
is run again. `AloneIsExact`: after runs that did not overlap and did not fail, the
comments are exact, also after somebody deleted one: the parts of the last board
are there once, and none beyond it of the account its run took itself for. `AnchorKept`, `RepliesUnderAnchor`: the recorded Slack message
stays, and every reply is under it.

### Bounds

* `locks`: three pull requests (one with two runs) are the least for an order
  among waiters while a holder exists and for two runs of one pull request;
  instants 0..3 with a lease of 2 let a lease end, be renewed and end again.
  Every stack has its own lock and operations touch one, so one key is enough.
  Skewed clocks are covered by the proofs; operations act with any reading up to
  the caller's clock, so stale readings are part of every run.
* `store`: two processes in a call at a time (`MaxBusy`) are enough for every
  pairwise race, as a third only adds another landed write between read and
  write; instants 0..2 with a lease of 1. The four worlds have one retry, one
  abandoned write in flight, an administrator (a conflict then ends the call,
  which the process may repeat), or two keys for the walks; the last has no
  abandoned writes, because one that arrives after the sweep puts its run back on
  a lock. The two runs differ in their pull requests only, hence the symmetry.
* `apply`: seven casts: two applies of one pull request and a refresh of another on
  one stack; two applies of one pull request and commit; an apply beside an
  emergency of another pull request; an emergency of two stacks beside a refresh;
  an apply beside a refresh of two stacks; the same with lost answers; a forced
  apply beside a dry run; each also with the two runs of one pull request changed places, which
  makes those symmetric. The first has no faults, so that its calls fail by signals
  only. Instants 0..1 with a lease of 1 let every lease end.
* `decision`: seven families of questions (approvals, layers, gate inputs, locks,
  hooks, freeze windows, emergencies), each enumerated in full with simple values
  for the rest: the composition passes only verdicts from one decider to the next.
  The locks are those three pull requests can leave, with or without a lease that
  has run out, for a run that may wait, hold or meet another run of its own.
* `gather`: pages of two entries, two commits, three or four events: a page
  boundary can fall before, between and after what moves, and the head may leave a
  commit and return. Four check runs (one failing or green, one green, an earlier
  and the current one of reeve) and three statuses make two pages each. A family of
  many quiet repositories enumerates scope, owners and bindings, without events.
* `flow`: two commits, two stacks, four previews (two attempts of each of two CI
  runs, the last without an expected head), three applies (two with an age limit of
  1, one without), one push, instants 0..2, retention of 1; six setups of what is in
  the bucket and who starts.
* `drift`: one stack (stacks share only the batch), seven answers of Pulumi and
  nine of Terraform, three configurations with different noise filters, two
  channels, one fault of any kind, runs without limit; the clock stops at 3,
  after which runs share an instant and the parts of the properties that compare
  times are no longer asserted.
* `command`: two stacks that share a directory and one elsewhere, two workers,
  three credentials, a preview and two drift runs; every way the changed files
  may be known, with one worker.
* `buckets`: five meetings of two or three callers on two keys of one shard, two
  operations each, one crash; every combination of what an S3-like provider may
  ignore, GCS and Azure. Two keys of one shard are the most contended case.
* `messages`: three processes in eight casts (two applies; two plan series of
  the same or of different pages; a series that is run again beside a new one;
  boards of three parts, one and one; dashboards and threads), two failures. Two
  processes write with the token of Actions, which `/user` refuses, the third with
  a user's. A third overlapping writer meets the loop only as another conflict.

`CHECK_DEADLOCK FALSE` is set where processes really end: runs that are done,
questions that are answered. Buckets, Messages and CommandRun say so by an action
`Finished` instead, so that TLC finds a caller that waits for ever.

### Fairness

Only `Redelivered` needs it. `Drift!FairSpec` has weak fairness of the steps of a
run, and strong fairness of starting an ordinary run: the workflow's schedule
starts it again and again, and the concurrency group queues it behind a
bootstrap instead of dropping every one of them. Faults are bounded, so
`Redelivered` says that markers are cleared once failures stop. That goroutines
and system calls do not wait for each other for ever is checked as absence of
deadlock, which needs no fairness.

## Proofs

Eight modules hold theorems. Each is about every value of the constants: any
number of runs, processes, stacks, keys, workers, retries and crashes, under the
assumptions named below, which TLC evaluates on the instances of the runs.

| Module | Theorem | States | Under |
|---|---|---|---|
| LocksProofs | `TypeCorrect` | `[]TypeOK` | |
| | `QueuesAlwaysOK` | `[]QueuesOK` | |
| | `LeasesRespected` | `NoEarlyEviction` | |
| | `WaitersInOrder` | `NoOvertaking` | |
| LockStoreProofs | `StoreIsAtomic` | `Atomic`: LockStore implements Locks | |
| | `LeasesReliable` | `[]LeaseHonoured` | `SeedsAreOld` |
| | `SweepsClean` | `[]SweptClean` | `SeedsAreOwn` |
| ApplyRunProofs | `EngineAlwaysHoldsLock` | `[]EngineHoldsLock` | |
| | `NothingIsLeftHeld` | `[]NothingLeftHeld` | |
| | `RecordsAlwaysTrue` | `[]RecordsTrue` | |
| | `OneEngineUnderLease` | `[]OneUnderLease` | |
| | `GatesBind` | `[]BindingGates` | |
| | `FreezesHold` | `[]FreezeHolds` | |
| | `EmergenciesAreSound` | `[]EmergencySound` | |
| | `ApprovalsAreEarned` | `[]ApprovalsEarned` | `ReviewsNameCommits` |
| | `ExplainTellsTheTruth` | `[]ExplainIsSound` | `TiesAgree` |
| | `ApprovalsAreFacts` | `[]ApprovalsExact` | |
| | `BlockersAreSeen` | `[]BlockersSeen` | |
| | `DecidesOnOneCommit` | `[]OneCommit` | |
| | `NoChangeUnplanned` | `[]ScopeCovers` | |
| | `CredentialsAreUnambiguous` | `[]ProvidersExact` | |
| PRFlowProofs | `AppliedIsPreviewed` | `[]AppliedAsPreviewed` | |
| | `NewestPreviewDecides` | `[]NewestDecides` | |
| | `YoungObjectsStay` | `YoungKept` | |
| | `HistoryStays` | `HistoryKept` | |
| | `AnchorStays` | `AnchorKept` | |
| | `RepliesStayTogether` | `[]RepliesUnderAnchor` | |
| | `FinishesJoin` | `[]FinishJoinsStart` | `RunsInOrder` |
| | `LastOneIsShown` | `[]AloneIsExact` | |
| BucketsProofs | `ReplacesWhatItSaw` | `[]ReplacedAsSeen` | |
| | `DeletesWhatItListed` | `[]ListedIsDeleted` | |
| | `VerdictsHold` | `[]VerdictsAreTrue` | |
| CommandRunProofs | `CleanedUpOnce` | `[]CleanupSound` | |
| | `RebindsAreFresh` | `[]RebindIsFresh` | |
| | `WaitersAreServed` | `[]AwaitedIsUnderWay` | |
| | `PlansInOwnWorkspace` | `[]PlannedInOwnWorkspace` | |
| | `SilentUntilApproved` | `[]SilentBeforeApproval` | |
| DriftProofs | `ToldBeforeCleared` | `MarkersKept` | |
| | `AcceptedStaysSilent` | `[]AcceptedIsSilent` | |
| | `AlertsAreNews` | `AlertIsNews` | `EnginesAdmitFailure` |
| | `IncidentsTellTheTruth` | `[]IncidentsSettle` | `EnginesAdmitFailure` |
| | `NoiseIsFiltered` | what `DriftedSet` computes | |

LockMachineProofs holds the lemmas about single transitions of a lock that
LocksProofs, LockStoreProofs and ApplyRunProofs share.

### Assumptions

Those on constants stand in the modules that declare them. Most are types.
The others are about what is there in the beginning and about names:

* left-over locks are well-formed (`LockOK`), an absent object is no lock, a world
  names existing stacks;
* no two previews have the same CI run and attempt (`IdentUnique`), and the
  objects in the bucket of a setup were written before, under the key of their
  run and commit, by processes like the ones modelled (`SetupsAssumption`);
* contents and versions in a bucket are those of earlier writes, and a provider
  that tells versions apart gave its object one (`Bucket!WorldsAssumption`); keys
  are finitely many (`KeyAssumption`);
* the main goroutine is no worker and stacks need existing providers
  (`ConsumerAssumption`, `StackAssumption`);
* an engine that came to its end gave a usable answer (`DriftAssumption`), and a
  failed check is no set of addresses (`FailedAssumption`);
* a question to Decision has finitely many layers and approvals, and the outcome of
  the hooks and the emergency are not yet in the inputs of its gates
  (`QuestionAssumption`); windows, hooks and fires may be any number;
* a page of a listing has at least one entry, commits are numbers
  (`CommitsAssumption`), whether a check is one of reeve's goes by its name
  (`CheckAssumption`), the forge lists exactly the check runs a commit has, and no rule of Gathering looks at the age of approvals, which
  it leaves out (`ProjectsAssumption`; Decision has it); bindings list declared
  providers (`BindingsAssumption`);
* a timeline or Slack channel is started for an event, a board has a number of
  parts (`CastsAssumption`), every process writes with some account
  (`AccountAssumption`).

Seven theorems have a hypothesis of their own:

* `SeedsAreOld`: no left-over lock was acquired for longer than the TTL.
* `SeedsAreOwn`: left-over locks name a run only under its own pull request. A
  sweep asks for the pull request and the run together and passes over a lock
  that pairs the run with another one.
* `EnginesAdmitFailure`: an answer the adapters accept as a verdict comes from an
  engine that came to its end. The adapters ask for it as far as they can (exit
  code, a plan that parses, no error diagnostic); the answers of run `drift`
  satisfy it, and its mutant `PulumiUsableIfParsed` shows what happens otherwise.
* `ReviewsNameCommits`: every review carries the commit it is of. A review without
  one is kept whatever the head is (`rules.go:177`), so the code relies on the
  forge here; that the other commits' approvals tip nothing needs it.
* `TiesAgree`: patterns of equal specificity do not set one field differently.
  Otherwise apply and explain, each of which iterates over the map in an order of
  its own, may go by different rules, and neither is wrong.
* `RunsInOrder`: the events of a plan carry their run, a process tells the
  beginning first, processes that tell of one run do not overlap (a CI run is run
  again when it is over), and what an earlier version stored has no run. An event
  without a run is joined by its page, and two of those are not told apart; the cast
  of run `messages` that has one stays with TLC.

### Locks

The inductive invariant is `IInv == TypeOK /\ \A k : LockOK(lock[k])`. `LockOK`
adds to the type of a lock that its queue names each pull request once, not its
holder, and is empty when nobody holds the lock. None of these is inductive
alone: promotion takes the head of the queue and removes the *pull request*, so
"nobody waits behind himself" after a promotion needs uniqueness before it, and
"nobody waits for a free lock" after a removal needs to know that an emptied
holder was replaced. The argument goes bottom-up: counting lemmas about
the removal of entries (`NthFacts`, `RemovePRFacts`: what is kept are the other
entries, in order), one lemma per operation that it preserves `LockOK`
(`PromoteNextOK` … `ReapOK`), `TransitionOK` for every request, and `NextOK`.
`LeasesRespected` splits by request (`AcquireKeeps`, `ReleaseKeeps`,
`UnlockKeeps`) and concludes in `LossIsLate`: a run that loses a lock it
acquired, to somebody who may not evict it, had an expiry not after the clock of
the process that took it.

`WaitersInOrder` needs a relation between the lock before and after a step that,
unlike the absence of overtaking, composes: an acquire or a release first evicts
an expired holder and then acts on the result. `Follows` says that no waiter
appears, none are swapped, and the lock does not go to a waiter ahead of one
that still waits (`VacateFollows`, `RemoveFollows`, `FollowsTransitive`);
`Remembers`, that an eviction forgets nobody, so that whoever is appended
afterwards (`EnqueueOrderly`) did not wait in front before. A direct acquire of a
free lock passes nobody, because nobody waits for a free lock.

### Lock store

`StoreIsAtomic` is the refinement: `InitMaps` for the initial states and
`StepMaps` for the steps, of which only those that land a write change what Locks
sees. Its invariant `StoreInv` is about writes that are prepared or under way,
also those whose caller has given up: each belongs to a request its sender may
make, was computed from a well-formed lock, and with a clock reading that is not
ahead of the sender's clock now. With the condition of the write (the object is
still the one that was read) that makes it, whenever it lands, one atomic
operation (`LandIsStep`).

`LeasesReliable` adds `LeaseInv`. A lease that runs on every clock is backed by
the object (`Granted`): same run, not merely promoted, own pull request, expiry
not earlier. A late write must not shorten it: no acquired lease in the bucket is
longer than what its run could take now (`NotLonger`), hence a prepared acquire
extends the lease it found, however late it lands, which rests on stored times
being monotone although cut to the second (`StampMonotone`). And a release or
sweep under way belongs to a run that has given the lease up. `ActiveKept` then
shows that no transition of another process touches a lease that runs unless it
is a forced unlock. `SeedsAreOld` is needed because the model compares contents
where a bucket compares versions: a left-over lock with an expiry in the future
could otherwise look like one that the run acquired since.

`SweepsClean` rests on `SweepInv`: locks name a run only under its own pull
request, and the locks a sweep has behind it are clear of its run (`Clear`). What
others write there does not bring it back, since an acquire names the caller only
and every other transition only moves or removes names that were there.

`StoreInv`, `LeaseInv` and `SweepInv` were checked with TLC on the instance of
run `store`, the first two also with skewed clocks and two ticks to the second,
before they were proved.

### Apply and refresh

`RunOK` says for every phase of a run where in its list of stacks it is, how many
verdicts it has, and whether it was told that it has the lock of the current one.
`StepShape` then sorts the steps by what they do to locks: nothing, an acquire, a
release, a sweep of one lock. Three invariants build on that. `GrantInv`: a grant
whose lease still runs is backed by the lock, which no step of another run can
change, by the lemmas on transitions. `OneEngineUnderLease` follows from it: two
runs under running leases would both be named by one lock. `HeldInv`: where a lock
names a run as its active holder, the run knows, or a call for that stack failed;
so every path out of the loop (blocked gates, refused credentials, a failed or
cancelled engine) goes through the release. `DoubtInv` counts those calls: where
only signals make calls fail, a run that is not cancelled has none, and a cancelled
one has one stack at most, with a call that was under way when the signal came,
because from then on the release has a context of its own. `RecordInv` ties the
sequence of verdicts to the audit entries, manifest, applied marker and exit code.

### Decisions

A behaviour of Decision is a question and its answer, so the invariant
(`AnswerInv`) only says that the answer is what the operators compute from rules
that `Resolve` may yield; the arguments are about these operators, for any numbers
of layers, approvals, hooks, windows and fires.

`GatesBind` goes from the inputs to the verdict: `EvalGate` lets a failed gate pass
only if it is overridable and there is an emergency (`Overridable` does not have
the lock, draft, fork, checks, base and policy gates), `Evaluate` stops at the
first failure, and `Decide` runs the hooks behind it. `FreezesHold` needs what the
scan of `mostRecentFire` finds. `Scan` is a recursive function, whose existence
and values are shown by a least counterexample (`ScanExists`, `ScanIs`); every
fire it passes lies in the horizon, so a scan that is cut short has found one that
still freezes. `ApprovalsAreEarned` needs the same for `Resolve`: any two
layers of different specificity are in this order in every admissible sequence,
hence the last layer that sets a field is a most specific one. That no policy is
satisfied by nobody is a case for each gate; that outsiders tip nothing follows
because each gate grows with the set of approvers. `ExplainTellsTheTruth`
compares two evaluations: `EvaluateAll` finds no failure where `Evaluate`
does, the sets of approvers that explain uses are not larger than those of
apply (`TiesAgree` makes the rules equal), and a lock that reads as acquirable is
acquired outside `TwinHolds` and `OtherInherits`, by cases on its holder and queue.

### What an apply gathers

`GatheringInv` has one conjunct for each kind of read, with what was true since
the apply began (the histories `stood`, `lasting`, `unready`): `RevsOK` says that
the reviews read so far are those that head the listing now, up to dismissals
since, which is inductive because reviews are only appended or dismissed in place;
`CommentsOK` only that each comment that was read stood at some time, as deletions
move the pages; `RawOK` and `GreenOK` carry that over to the verdicts. `RunsOK` says of the check runs read so far that each was read in a state it had
since the apply began and, unless the listing shifted, that they cover its first
pages. `ChangedOK`: as long as the head has not come back, the pages of files are
those of the commit or the head is another one, so that `Revalidate`, which compares
the two ends, fixes it. `PageFollows` is arithmetic:
a page that begins behind what was read of a listing that grew at its end
continues it. A review that stood all along is still the last decisive one of its
author when the pages are complete (`Stands`), and hence counts. `ScopeCovers`
holds of all values of the operators of Scope; the proof is by the kinds of
mapping.

`CredentialsAreUnambiguous` needs what loops compute. They are written as functions
of the number of iterations (`Replacing`, `Resolving`, `Substituting`), and the
only induction is `AllAlong`: if a claim about such a function fails, it fails
first at some number, where one iteration refutes it. (`Iterates` shows in the same
way that the function exists.) `MostSpecificNames` says
that the provider of a scope is named by the last matching binding with a say in
it; that bindings are sorted to that end is shown by counting: the place of a
binding is one more than the number of those before it, so places are distinct
and fill `1..Len` (`SortIs`). Substitutes only replace, so a list of providers with
one for each scope stays one.

The invariant was checked with TLC on the busy pull requests of run `gather`
first, which found two conjuncts that were wrong.

### Previews, applies and retention

A key names the commit, run and attempt that wrote it; a version, the process.
The invariant says that no process writes a key twice (`UsedInv`, `OwnInv`), which
makes the conditional deletion of retention exact: what it listed is still what
is there, and old (`GcInv`). `StoredInv` says that a manifest that was ever
stored is there or has expired, so that an apply that listed manifests missed
only expired ones, which are too old to be fresh (`NewestPreviewDecides`). `ApInv`
follows an apply through its reads, and `ObjInv` says that a plan of a preview
that knew its checkout was made from the commit of its key. That a
finite set of manifests of different runs has a newest one (`NewestExists`) is
shown by a least counterexample, as induction is not available.

### What people are told

`MessagesInv` says where a process of each kind may be and what it carries, and of
the two stored objects that a process that has loaded version n holds the contents
of version n as long as that is the current one. Whoever then writes conditionally
extends what is there: `SaveGrows` for the timelines (one event at the end of one
series), `Keeps` for the Slack state, where a process that lost the race adopts the
recorded message before it replies (`Threaded`).

`FinishesJoin` adds `SeriesInv`: for every event a process still has to tell,
nothing of its run is recorded that would have to come later (`AwaitsEvent`), and
what is recorded of one run, begun or ended, is in one series (`Joined`).
A run that is run again appends to the newest series, so both are said of a run
and the process that tells of it; that no other process tells of the run meanwhile
is `after`. `JoinsStart` shows that an append keeps both, for the series `SeriesFor`
chooses; `AheadShrinks`, that a process only ever has fewer events to tell.

`LastOneIsShown` compares the comments with a whole history of runs that did not
overlap. `AloneInv` cuts it into steps: the only process at work has a copy of the
comments that is true, but for a comment that vanished and that it is about to
miss (`Synced`); no two comments share a marker or an id (`Tidy`); and what its
board or its timeline has written by then is there (`BoardOK`, `LineOK`), the sweep
with the login of `OwnLogin`, as no request failed (`IdentifyAlone`). A creation
is the delicate step: it is right only because the copy it relies on is the truth.

### Buckets

On a filesystem the lock file of a shard is never removed once it is made, so two
open descriptors of it are the same inode and the steps between lock and unlock
exclude each other (`FSInv`). Between the two renames of a write the version is
already the new one while the contents are old; `RenameFresh` says that no
listing names that version, hence a deletion that finds it does not match. In a
cloud (`CloudInv`) a caller that got past the probe talks to a provider that
enforces the condition it uses, and equal ETags mean equal contents; that is
where a provider that ignores conditions is excluded. `AccInv` says of every
change of an object that it was sound when it was made.

### One command

`CacheInv` has, for every goroutine, its place and what it was told (`Shape`,
`Data`), that a credential is with the cache, or with the one goroutine that
acquired it, or has been cleaned up (`CredsOK`, `NewOK`), and that an
acquisition is under way wherever an entry or a waiter says so (`EntriesOK`,
`Acquiring`). Every credential handed out is not older than the last
invalidation of who asked for it. `MainInv`: the main goroutine leaves its work
only after all workers have, and ends after the cache is closed or when none was
filled. `DirInv`: two groups, queued or being worked on, never have stacks of one
directory, so nobody else selects a workspace between a worker's selection and
its plan. All were checked with TLC on the instance of run `command` first.

### Drift

`TypeInv` holds what a stored state can look like: its times are not ahead of the
clock, a stack that was never checked has no drift and no alert, and without
damping every drift on record was alerted or is there since a silent baseline.
`Concludes` says, from `Classify`, `Damp` and the baseline together, which event
a verdict sends out and what it leaves in the state; `PublishedFacts`, that a
batch is the readable leftovers no new payload supersedes, in some order, and the
new payloads behind them.

`VerdictInv` ties the record to the truth: a stack has drift on record exactly
when its last diff was more than noise, with that diff's shape, however many
checks failed since. It rests on `NoiseIsFiltered`, and `AlertsAreNews` follows.

`StreamInv` is the invariant behind `IncidentsTellTheTruth`. The truth about an
incident may at any time be in the channel, in markers, in the batch under way or
partly in each. For every watching channel, stack and stream there is a value b
that agrees with the stored state (`Agrees`) and that the incident comes to once
everything under way is delivered (`ComesTo`): new payloads decide, else what is
owed (`Checking`, `Rest`); from the merge on, the payloads of a stream in the
batch switch to b once and stay there (`EndsWith`), which is what makes repeating
a batch after a failed delivery harmless; while markers are cleared, those still
there are the later ones (`Clearing`), so a death in the middle leaves a marker
that says b. `Agrees` is weaker than "open iff drift": damping, suppressions and
silent baselines leave drift without an incident, and the proof needs that an
incident is open only if the drift was not accepted and its alert not older than
the drift, as only then a resolution goes out.

All were checked with TLC on the instance of run `drift`, and on one with two
faults, a suppression that ends and channels that hear of ongoing drift.

### Only model-checked

* Liveness (`Redelivered`) and the absence of deadlock: fairness and ENABLED are
  outside the reach of the installed provers.
* The properties of runs `drift_lost` and `buckets_lost`, and of the table below,
  which do not hold.

## Disagreements between code and docs

Two are runs with a counterexample and an entry under `findings`.

* `drift_lost`: the state of each stack is stored while it is checked, its
  events only at the end of the run; a death in between loses them, the window
  `pending.go` says is closed (`runner.go:562`).
* `buckets_lost`: `Get` of the filesystem bucket reads an object and then its
  version without the lock writers hold (`filesystem.go:94`); old contents with
  the new version let a conditional write replace an update nobody has seen,
  while `docs/configuration.md:83` counts that bucket among those that enforce
  conditions.

The others are reproduced by changing the configuration of a run as described
and leaving one invariant, which TLC then finds violated:

| Configuration, changed to | Property | What happens |
|---|---|---|
| `MCApplyRun.cfg`: `Run = {r1, r3}`, `Second = 1`, `Casts <- TwoPulls`, `MaxTime = 2`, no `SYMMETRY` | `ApplyExclusion` | between acquiring a lock and the engine, hooks, logins and downloads run without heartbeat and the lease is not looked at again; when they outlast it, two applies work on one stack (`apply.go:810`, against "two applies would then run concurrently", which the heartbeat is said to prevent). `OneUnderLease` is what remains |
| `MCDrift.cfg`: `SPECIFICATION Spec`, `Answers <- FewAnswers`, `Channel = {pager}`, `Configs <- Plain`, `SuppressFor = {}`, `Faults = {"load"}`, `MaxTime = 4` | `HealedChecksClose` | a check that fails before its state is read reports `check_failed` but stores nothing, so `check_recovered` never follows (`runner.go:341`; `notify.go` says a channel must hear it) |
| `MCDecision.cfg` | `ExplainAgrees` | explain and apply differ, against "Apply and explain must agree on these" (`gate_inputs.go:28`). explain does not expand the teams CODEOWNERS names and reports a missing owner approval that apply accepts (`explain.go:181`). It reads the lock where apply acquires it (`explain.go:224` against `apply.go:590`): a lock that another run of the pull request works under, and one whose expired holder another queued pull request replaces, are reported as no obstacle, and apply blocks |
| `MCGathering.cfg`: `Projects <- Rooted` | `OwnersRequired` | changed files are made relative to the root before CODEOWNERS, whose patterns start at the repository, is asked about them (`apply.go:280`), so with a root no anchored rule matches and no owner is required (`docs/pull-requests.md:234`) |
| `MCCommandRun.cfg`: `Name <- DefaultAmong` | `RightWorkspace` | the workspace `default` is never selected (`hcl/engine.go:173`: "needs no select"), so its plan is made in the workspace of the stack before it |
| `MCCommandRun.cfg`: `Worlds <- SharedDrift` | `DriftInOwnWorkspace` | drift checks are not grouped by directory: two of one directory plan in the workspace selected last |
| `MCCommandRun.cfg` | `StateIsFresh` | the counterpart of `RebindIsFresh` for the state credential all stacks share: a worker that rebinds restores the one of an older generation |
| `MCMessages.cfg` | `RunInOneSeries` | a run keeps its number when it is run again (`cmd/reeve/run.go:129`); its new beginning goes to the newest series, its first plan is in an older one, where `github.go:86` says that "one plan is never split across two comments". Each attempt is in one series (`FinishJoinsStart`) |
| `MCMessages.cfg`; also with `Bot = ada` | `NoPartBeyond` | parts of a longer board that another account wrote are passed over without an error, and a token that is not the one of `github-actions[bot]` but that `/user` refuses is taken for it inside Actions, so that its own parts stay (`client.go:328`); `client.go:230` says a board that shrinks must remove the parts it no longer writes |
| `MCMessages.cfg` | `OneComment` | two runs that find no comment create one each, where `run/timeline.go:16` says there is one per commit |

## Other observations

Locks, apply and refresh

* A second run of a pull request that waits already gets `ErrAlreadyQueued`,
  which apply counts as a failed stack rather than as waiting (`apply.go:610`).
* `forceUnlock` asks for no identity: repeated after a lost answer it clears the
  holder the first one promoted. `releaseLockOrLog` of a run that only waits
  removes its pull request's entry, also one another run of it made.
* A run's identity is unique within a workflow only: two local refreshes share
  pull request 0 and the run `refresh-0-unknown`, and the lock excludes neither
  from the other. A blocked refresh leaves its pull request in the queue, as
  nothing sweeps after it. An acquire whose answer was lost may land after the
  final sweep. The freeze clock is read once per run.
* A zero-target preview stores no manifest, so an older one of the commit stays
  in force. Plans and manifests, called immutable (`preview_lookup.go:148`), are
  plain writes. Without an expected head, a preview or apply may label another
  tree with the head's commit.
* When a stored plan cannot be used, the engine plans anew after the hooks have
  judged the stored one (`preview_lookup.go:30` against `apply.go:783`).

Decisions

* Patterns of equal specificity are layered in the iteration order of a Go map
  (`rules.go:468`), while `docs/pull-requests.md:112` says that more literal
  characters win ties. `ApprovalsEarned` asks about different specificities
  only; `Resolutions` has every order for ties.
* A required policy hook with an empty command is skipped.
* CODEOWNERS is read from the default branch (`reviews.go:337`), where
  `docs/break-glass.md:66` says the head of the pull request. With a root, the
  files that authorize are not seen among the changed ones.
* Deleting comments between two pages of their listing can hide an approval in a
  later comment: that no standing approval is missed is claimed of reviews only.
* `auth.Validate` runs in `reeve lint` only; `ProvidersExact` assumes bindings
  that pass it.

Drift

* A state that could not be stored may leave an incident open for good, where the
  comment at `runner.go:563` expects a duplicate alert at worst; in baseline mode
  with `renotify_after`, the second check of unchanged drift alerts, as no alert
  was ever stamped; a bootstrap swallows resolutions and recoveries; leftovers
  come back by name, so a later detection is redelivered before an earlier
  resolution. `IncidentsSettle` excuses exactly these.
* `parsePlan` of the HCL engines ignores `errored`; a Pulumi preview that prints
  `{}` counts as a clean verdict.

Storage and messages

* `docs/configuration.md:87` describes the probe as two writes against
  `locks/.cas-probe/*`; the code makes up to four against `.cas-probe/`. The
  probe for conditional deletes keeps any failure but a cancellation as its
  verdict. The loops of the timeline and of the Slack state write conditionally
  without asking the probe.
* Runs that overlap may write their comments out of order, so that a timeline
  shows less than its history until the next entry.

## Not modelled

* Texts: rendering, trimming, redaction, logging, telemetry, drift reports. How
  many parts a board has is an input of Messages.
* Parsers of YAML, CODEOWNERS lines, comments and plans, globs and cron
  expressions: their results are inputs, as sets of what matches.
* HTTP transport, SDK clients, authentication exchanges with clouds, subprocesses:
  external, with every answer the code tells apart.
* Loading, validation, migration and scaffolding of configuration: each is one
  pass over one file, without other actors.
* Grouping of notifications, webhook and e-mail payloads, the listing commands.
* Concurrent drift runs: `.github/workflows/reeve.yml` serialises them, and so
  does the model.

`PROJECT.json`/`components` lists every part with its status.

## Plan

Done, in this order: locks; deciding and applying; drift; previews, plans and
retention (PRFlow); refresh; buckets and probes; credentials and the command
around them; comments, timelines and Slack; reading the pull request, discovery,
ownership and bindings.

Proved: locks and their store, apply and refresh, previews and retention,
buckets, the command with its credentials, drift, decisions, what they are made
on, and what people are told.

Every invariant and every action property that the passing runs check is proved.
Next, of the model: grouping of notifications, the
rest of explain (lock display), and several directories of HCL stacks with
capability fallbacks in CommandRun.
