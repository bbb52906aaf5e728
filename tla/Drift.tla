--------------------------------- MODULE Drift ---------------------------------
(***************************************************************************)
(* Drift detection (internal/drift, `reeve drift run' and `bootstrap'): a  *)
(* run checks every stack against the state stored for it, stores the      *)
(* advanced state, and tells the channels what changed.  State is stored   *)
(* before anybody is told; undelivered events are kept as markers in the   *)
(* bucket and redelivered by the next run.  Runs are serialised by the     *)
(* workflow (one concurrency group); they may fail or die at every step.   *)
(***************************************************************************)
EXTENDS Integers, Sequences, FiniteSets, Engines

CONSTANTS
  StackOrder,   \* the stacks, in the order of their keys
  Answers,      \* what engines may answer, and whether the check was complete
  Failed,       \* no verdict: the check failed
  Channel,
  On,           \* the events each channel is configured for
  Configs,      \* drift.yaml: [renotify, fresh, mode, until, classify, engine]
  Retries,      \* behavior.retry_on_transient_error
  SuppressFor,  \* durations of `reeve drift suppress'
  Faults,       \* the faults that may happen
  MaxFaults,    \* bound: how many of them
  MaxTime       \* bound on the clock, and so on the runs told apart

Stack == {StackOrder[i] : i \in DOMAIN StackOrder}

(* A permanent suppression without an `until', or with one that does not     *)
(* parse.                                                                    *)
Forever == -1

(* A verdict is the set of drifted addresses, and so its own fingerprint.    *)
Clean == {}
NoShape == {}

ASSUME StacksAssumption == StackOrder \in Seq(Stack)
ASSUME DriftAssumption ==
  /\ Retries \in Nat /\ MaxFaults \in Nat /\ MaxTime \in Nat \ {0}
  /\ SuppressFor \subseteq Nat
  /\ \A c \in Configs : c.renotify \in Nat /\ c.fresh \in Nat /\ c.until \in Nat \cup {Forever}
  /\ \A a \in Answers : a.complete => Usable(a)
ASSUME FailedAssumption ==
  \A c \in Configs, a \in Answers : DriftedSet(c.classify, DriftCheck(a).diff) # Failed

VARIABLES
  cfg,        \* the configuration
  now,        \* the clock; 0 is the zero time of a field that is not set
  st,         \* per stack: the stored drift.State
  sup,        \* per stack: the end of the stored suppression, 0 for none
  marker,     \* the undelivered-event markers in the bucket
  inc,        \* per channel and stack: which incidents are open
  run,        \* the drift run under way
  faults,     \* how many faults have happened
  seen,       \* history: per stack what had really drifted at the last verdict,
              \* and whether the last check had one
  excused     \* history: the stacks and incident streams whose events fell through

vars == <<cfg, now, st, sup, marker, inc, run, faults, seen, excused>>

-----------------------------------------------------------------------------
(* Classification. *)

(* A stack that was never checked.  Of LastCheckedAt and ConsecutiveErrors   *)
(* only whether they are zero is ever asked.                                 *)
NoState ==
  [last |-> "none", checked |-> FALSE, ok |-> 0, since |-> 0, fp |-> NoShape,
   failing |-> FALSE, notified |-> 0]

Drifted(s) == s.last = "drift_detected"

(* A check with a verdict.  A change of shape is a fresh detection. *)
Decisive(prev, verdict, at) ==
  IF verdict = Clean
  THEN [ev   |-> IF Drifted(prev) THEN "drift_resolved" ELSE "none",
        next |-> [NoState EXCEPT !.last = "no_drift", !.checked = TRUE, !.ok = at,
                                 !.notified = prev.notified]]
  ELSE [ev   |-> IF Drifted(prev) /\ prev.fp = verdict THEN "drift_ongoing" ELSE "drift_detected",
        next |-> [last |-> "drift_detected", checked |-> TRUE, ok |-> at,
                  since |-> IF Drifted(prev) /\ prev.since # 0 THEN prev.since ELSE at,
                  fp |-> verdict, failing |-> FALSE, notified |-> prev.notified]]

(* Mutant of Classify: an error becomes the last outcome. *)
ClassifyOverwrites(prev, verdict, at) ==
  IF verdict = Failed
  THEN [ev   |-> "check_failed",
        next |-> [prev EXCEPT !.last = "error", !.checked = TRUE, !.failing = TRUE]]
  ELSE Decisive(prev, verdict, at)

(* The event of a check and the state after it.  An error leaves the last    *)
(* decisive outcome alone.                                                   *)
Classify(prev, verdict, at) ==
  IF verdict = Failed
  THEN [ev   |-> "check_failed",
        next |-> [prev EXCEPT !.checked = TRUE, !.failing = TRUE]]
  ELSE Decisive(prev, verdict, at)

(* dampNotification: the event that goes out; an alert is a drift_detected.  *)
Damp(prev, ev, at) ==
  LET elapsed == prev.notified = 0 \/ at - prev.notified >= cfg.renotify
  IN  CASE ev = "drift_detected" ->
             IF cfg.renotify = 0 \/ elapsed THEN "drift_detected" ELSE "none"
        [] ev = "drift_ongoing" ->
             IF cfg.renotify = 0 THEN "drift_ongoing"
             ELSE IF elapsed THEN "drift_detected" ELSE "none"
        [] ev = "drift_resolved" ->
             IF prev.notified = 0 \/ prev.notified >= prev.since THEN "drift_resolved" ELSE "none"
        [] OTHER -> ev

(* A permanent suppression matches every stack of the model. *)
Accepted(at) == cfg.until = Forever \/ at < cfg.until

Suppressed(s, at) == at < sup[s]

(* Only stacks that were clean are skipped as fresh; bootstrap skips none. *)
Fresh(prev, at, boot) ==
  /\ ~boot /\ cfg.fresh > 0 /\ ~Drifted(prev)
  /\ prev.ok # 0 /\ at - prev.ok < cfg.fresh

FirstRun(prev, mode, boot) == ~prev.checked /\ (IF boot THEN "baseline" ELSE cfg.mode) = mode

(* What a check makes of the stored state: the state to store, the event     *)
(* that goes out, and whether the check has recovered.  The first check of a *)
(* baseline is silent unless it failed.                                      *)
Conclusion(prev, verdict, at, boot) ==
  LET c   == Classify(prev, verdict, at)
      ev  == IF FirstRun(prev, "baseline", boot) /\ c.ev # "check_failed" THEN "none" ELSE c.ev
      out == Damp(prev, ev, at)
  IN  [next      |-> [c.next EXCEPT !.notified = IF out = "drift_detected" THEN at ELSE @],
       ev        |-> ev,
       out       |-> out,
       recovered |-> prev.failing /\ verdict # Failed]

(* Mutant of Outgoing: only the classified event is silenced, not the        *)
(* re-alert damping makes of it.                                             *)
OutgoingRealerts(c, at) ==
  IF Accepted(at) /\ c.ev \notin {"check_failed", "drift_ongoing"} THEN "none" ELSE c.out

(* A permanent suppression silences everything but a failed check. *)
Outgoing(c, at) ==
  IF Accepted(at) /\ c.ev # "check_failed" THEN "none" ELSE c.out

Payload(s, ev) == [stack |-> s, event |-> ev]

(* NotifyPayloads: the recovery comes first. *)
Payloads(s, recovered, ev) ==
  (IF recovered THEN <<Payload(s, "check_recovered")>> ELSE << >>)
    \o (IF ev # "none" THEN <<Payload(s, ev)>> ELSE << >>)

-----------------------------------------------------------------------------
(* Markers and channels. *)
EventOrder ==
  <<"check_failed", "check_recovered", "drift_detected", "drift_ongoing", "drift_resolved">>

Event == {EventOrder[i] : i \in 1..5}

(* Every marker key, in the order the bucket lists them. *)
KeyOrder ==
  [k \in 1..(5 * Len(StackOrder)) |->
     Payload(StackOrder[1 + ((k - 1) \div 5)], EventOrder[1 + ((k - 1) % 5)])]

(* The entries of a sequence at some positions, in the order of these. *)
Entries(seq, positions) ==
  LET f == CHOOSE g \in [1..Cardinality(positions) -> positions] :
             \A k, l \in DOMAIN g : k < l => g[k] < g[l]
  IN  [k \in 1..Cardinality(positions) |-> seq[f[k]]]

(* PendingStore.List, of the markers that could be read. *)
Leftover(readable) ==
  Entries(KeyOrder, {k \in DOMAIN KeyOrder : KeyOrder[k] \in readable})

(* Mutant of MergePending: leftovers are not sent again. *)
MergeNothing(leftover, batch) == batch

(* MergePending: leftovers first, except those a new payload supersedes. *)
MergePending(leftover, batch) ==
  Entries(leftover, {k \in DOMAIN leftover : \A i \in DOMAIN batch : batch[i] # leftover[k]})
    \o batch

(* WithImpliedEvents: who hears of failures hears of recoveries. *)
Subscribes(c) ==
  On[c] \cup (IF "check_failed" \in On[c] THEN {"check_recovered"} ELSE {})

Stream(ev) == IF ev \in {"check_failed", "check_recovered"} THEN "check" ELSE "drift"
Closing(ev) == ev \in {"drift_resolved", "check_recovered"}

(* What a stateful channel (PagerDuty, GitHub issues) makes of a payload.    *)
Handle(c, p) ==
  [inc EXCEPT ![c][p.stack][Stream(p.event)] = ~Closing(p.event)]

-----------------------------------------------------------------------------
Idle == [pc |-> "idle"]

Init ==
  /\ cfg \in Configs
  /\ now = 0
  /\ st = [s \in Stack |-> NoState]
  /\ sup = [s \in Stack |-> 0]
  /\ marker = {}
  /\ inc = [c \in Channel |-> [s \in Stack |-> [drift |-> FALSE, check |-> FALSE]]]
  /\ run = Idle
  /\ faults = 0
  /\ seen = [s \in Stack |-> [verdict |-> Clean, ok |-> FALSE]]
  /\ excused = {}

(* `reeve drift suppress add' and `clear'.  A check reads the suppression    *)
(* once: a change during a run has the effect of one before or after it.     *)
SuppressAdd ==
  /\ run = Idle
  /\ \E s \in Stack, d \in SuppressFor : sup' = [sup EXCEPT ![s] = now + d]
  /\ UNCHANGED <<cfg, now, st, marker, inc, run, faults, seen, excused>>

SuppressClear ==
  /\ run = Idle
  /\ \E s \in Stack : sup[s] # 0 /\ sup' = [sup EXCEPT ![s] = 0]
  /\ UNCHANGED <<cfg, now, st, marker, inc, run, faults, seen, excused>>

Fault(kind) ==
  /\ kind \in Faults /\ faults < MaxFaults
  /\ faults' = faults + 1

-----------------------------------------------------------------------------
(* A run.  runDrift with and without bootstrap; checks of different stacks   *)
(* interleave.  Every run has an instant of its own, until the clock has     *)
(* reached its bound.                                                        *)
Todo == [step |-> "todo"]
Done == [step |-> "done"]

Start(boot) ==
  /\ run = Idle
  /\ now' = IF now < MaxTime THEN now + 1 ELSE now
  /\ run' = [pc |-> "check", boot |-> boot, batch |-> << >>, work |-> [s \in Stack |-> Todo]]
  /\ UNCHANGED <<cfg, st, sup, marker, inc, faults, seen, excused>>

At(s, step) == run.pc = "check" /\ run.work[s].step = step

(* The stack is done with, and adds payloads to the batch. *)
Finish(s, payloads) ==
  run' = [run EXCEPT !.work[s] = Done, !.batch = @ \o payloads]

(* A check that fails before it has loaded the state: told, but not stored.  *)
Refuse(s) ==
  /\ Finish(s, Payloads(s, FALSE, "check_failed"))
  /\ seen' = [seen EXCEPT ![s].ok = FALSE]
  /\ excused' = excused \cup {<<s, "check">>}
  /\ UNCHANGED <<cfg, now, st, sup, marker, inc>>

(* The suppression or the state cannot be read. *)
LoadFails(s) ==
  At(s, "todo") /\ Fault("load") /\ Refuse(s)

Skip(s) ==
  /\ At(s, "todo")
  /\ Suppressed(s, now) \/ Fresh(st[s], now, run.boot)
  /\ Finish(s, << >>)
  /\ UNCHANGED <<cfg, now, st, sup, marker, inc, faults, seen, excused>>

RequireManual(s) ==
  /\ At(s, "todo")
  /\ ~Suppressed(s, now) /\ FirstRun(st[s], "require_manual", run.boot)
  /\ Refuse(s)
  /\ UNCHANGED faults

Load(s) ==
  /\ At(s, "todo")
  /\ ~Suppressed(s, now) /\ ~Fresh(st[s], now, run.boot)
  /\ ~FirstRun(st[s], "require_manual", run.boot)
  /\ run' = [run EXCEPT !.work[s] = [step |-> "try", prev |-> st[s], at |-> now,
                                     retries |-> 0, rebound |-> FALSE]]
  /\ UNCHANGED <<cfg, now, st, sup, marker, inc, faults, seen, excused>>

(* classifyDriftError.  A timeout of the stack is permanent. *)
ErrKind == {"network", "expired", "permanent"}

(* A failure of the network is retried while retries are left, expired       *)
(* credentials are replaced once.                                            *)
Retriable(w, kind) ==
  /\ w.retries < Retries
  /\ kind = "network" \/ (kind = "expired" /\ ~w.rebound)

Retry(s) ==
  /\ At(s, "try")
  /\ \E kind \in ErrKind :
       /\ Retriable(run.work[s], kind)
       /\ run' = [run EXCEPT !.work[s].retries = @ + 1,
                             !.work[s].rebound = @ \/ kind = "expired"]
  /\ UNCHANGED <<cfg, now, st, sup, marker, inc, faults, seen, excused>>

(* What a check makes of an answer: a verdict, what the filter leaves of the *)
(* diff, or a failure.  Beside it, for the history, the addresses of the     *)
(* changes that are no noise, if the engine came to its end.                 *)
Answered ==
  [c \in Configs |->
     {[verdict |-> IF DriftCheck(a).failed THEN Failed ELSE DriftedSet(c.classify, DriftCheck(a).diff),
       real    |-> IF a.complete
                   THEN {ch.address : ch \in {x \in Changes(a) : ~IsNoise(c.classify, x)}}
                   ELSE Failed] :
        a \in {x \in Answers : x.engine = c.engine}}]

(* How a check may end: with an answer, or with a failure that is not        *)
(* retried (a timeout, no credentials).                                      *)
Endings(w) ==
  Answered[cfg]
    \cup {[verdict |-> Failed, real |-> Failed] : kind \in {k \in ErrKind : ~Retriable(w, k)}}

(* The check ends, whatever the infrastructure is like now.  The state is    *)
(* stored before anybody is told; a failed store is only logged.             *)
Check(s) ==
  /\ At(s, "try")
  /\ \E e \in Endings(run.work[s]) :
       LET w == run.work[s]
           c == Conclusion(w.prev, e.verdict, w.at, run.boot)
       IN  /\ Finish(s, Payloads(s, c.recovered, Outgoing(c, w.at)))
           /\ seen' = [seen EXCEPT ![s] = [verdict |-> IF e.real = Failed THEN @.verdict ELSE e.real,
                                           ok |-> e.real # Failed]]
           /\ \/ st' = [st EXCEPT ![s] = c.next] /\ UNCHANGED <<faults, excused>>
              \/ /\ Fault("save") /\ UNCHANGED st
                 /\ excused' = excused \cup {<<s, "drift">>, <<s, "check">>}
  /\ UNCHANGED <<cfg, now, sup, marker, inc>>

-----------------------------------------------------------------------------
Batched == {run.batch[i] : i \in DOMAIN run.batch}
Streams(ps) == {<<p.stack, Stream(p.event)>> : p \in ps}

AllDone == run.pc = "check" /\ \A s \in Stack : run.work[s] = Done

(* A bootstrap ends without telling anybody. *)
EndBootstrap ==
  /\ AllDone /\ run.boot
  /\ run' = Idle
  /\ excused' = excused \cup Streams(Batched)
  /\ UNCHANGED <<cfg, now, st, sup, marker, inc, faults, seen>>

(* WriteArtifacts or the construction of the channels fails: the run ends    *)
(* with its state stored and nobody told.                                    *)
PublishFails ==
  /\ AllDone /\ Fault("publish")
  /\ run' = Idle
  /\ excused' = excused \cup Streams(Batched)
  /\ UNCHANGED <<cfg, now, st, sup, marker, inc, seen>>

(* Leftovers that open and close one incident come back in the order of      *)
(* their names.                                                              *)
Crossed(readable) ==
  {<<p.stack, Stream(p.event)>> :
     p \in {x \in readable : ~Closing(x.event) /\ \E y \in readable :
               y.stack = x.stack /\ Stream(y.event) = Stream(x.event) /\ Closing(y.event)}}

(* The leftovers join the batch.  One that cannot be read is passed over,    *)
(* and comes back behind later events.                                       *)
Publish ==
  /\ AllDone /\ ~run.boot
  /\ \E readable \in SUBSET marker :
       /\ \/ readable = marker /\ UNCHANGED faults
          \/ readable # marker /\ Fault("list")
       /\ run' = [pc |-> "mark", batch |-> MergePending(Leftover(readable), run.batch), at |-> 1]
       /\ excused' = excused \cup Crossed(readable) \cup Streams(marker \ readable)
  /\ UNCHANGED <<cfg, now, st, sup, marker, inc, seen>>

(* DispatchDurable: every payload is stored as a marker, *)
Mark ==
  /\ run.pc = "mark" /\ run.at <= Len(run.batch)
  /\ \/ marker' = marker \cup {run.batch[run.at]} /\ UNCHANGED <<faults, excused>>
     \/ /\ Fault("mark") /\ UNCHANGED marker
        /\ excused' = excused \cup Streams({run.batch[run.at]})
  /\ run' = [run EXCEPT !.at = @ + 1]
  /\ UNCHANGED <<cfg, now, st, sup, inc, seen>>

(* then the batch goes to all channels at once, to each one in order, *)
Dispatch ==
  /\ run.pc = "mark" /\ run.at > Len(run.batch)
  /\ run' = [pc |-> "deliver", batch |-> run.batch, next |-> [c \in Channel |-> 1],
             failed |-> FALSE, got |-> {}]
  /\ UNCHANGED <<cfg, now, st, sup, marker, inc, faults, seen, excused>>

Heading(c) == run.pc = "deliver" /\ run.next[c] <= Len(run.batch)

Deliver(c) ==
  /\ Heading(c)
  /\ LET p == run.batch[run.next[c]]
     IN  IF p.event \in Subscribes(c)
         THEN /\ inc' = Handle(c, p)
              /\ run' = [run EXCEPT !.next[c] = @ + 1, !.got = @ \cup {<<c, p>>}]
         ELSE run' = [run EXCEPT !.next[c] = @ + 1] /\ UNCHANGED inc
  /\ UNCHANGED <<cfg, now, st, sup, marker, faults, seen, excused>>

(* A delivery fails, and the channel goes on with the next one, or takes too *)
(* long, and the channel is abandoned.  Either may have had its effect.      *)
DeliverFails(c) ==
  /\ Heading(c) /\ Fault("deliver")
  /\ LET p == run.batch[run.next[c]]
     IN  p.event \in Subscribes(c) /\ inc' \in {inc, Handle(c, p)}
  /\ \E next \in {run.next[c] + 1, Len(run.batch) + 1} :
       run' = [run EXCEPT !.next[c] = next, !.failed = TRUE]
  /\ UNCHANGED <<cfg, now, st, sup, marker, seen, excused>>

Delivered == run.pc = "deliver" /\ \A c \in Channel : run.next[c] > Len(run.batch)

(* Mutant of Settle: markers are cleared although a channel failed. *)
SettleAnyway ==
  /\ Delivered
  /\ run' = [pc |-> "clear", batch |-> run.batch, at |-> 1, got |-> run.got]
  /\ UNCHANGED <<cfg, now, st, sup, marker, inc, faults, seen, excused>>

(* and the markers are cleared if no channel failed. *)
Settle ==
  /\ Delivered
  /\ run' = IF run.failed THEN Idle
            ELSE [pc |-> "clear", batch |-> run.batch, at |-> 1, got |-> run.got]
  /\ UNCHANGED <<cfg, now, st, sup, marker, inc, faults, seen, excused>>

(* A marker that outlives its delivery is delivered again behind later ones. *)
Clear ==
  /\ run.pc = "clear" /\ run.at <= Len(run.batch)
  /\ \/ marker' = marker \ {run.batch[run.at]} /\ UNCHANGED <<faults, excused>>
     \/ /\ Fault("clear") /\ UNCHANGED marker
        /\ excused' = excused \cup Streams({run.batch[run.at]})
  /\ run' = [run EXCEPT !.at = @ + 1]
  /\ UNCHANGED <<cfg, now, st, sup, inc, seen>>

End ==
  /\ run.pc = "clear" /\ run.at > Len(run.batch)
  /\ run' = Idle
  /\ UNCHANGED <<cfg, now, st, sup, marker, inc, faults, seen, excused>>

(* The process is killed or its context is cancelled: what was stored stays, *)
(* payloads without a marker are gone.                                       *)
Die ==
  /\ run # Idle /\ Fault("die")
  /\ run' = Idle
  /\ excused' = excused \cup
       IF run.pc \in {"check", "mark"} THEN Streams(Batched \ marker) ELSE {}
  /\ UNCHANGED <<cfg, now, st, sup, marker, inc, seen>>

Step ==
  \/ \E s \in Stack :
       LoadFails(s) \/ Skip(s) \/ RequireManual(s) \/ Load(s) \/ Retry(s) \/ Check(s)
  \/ EndBootstrap \/ PublishFails \/ Publish
  \/ Mark \/ Dispatch \/ Settle \/ Clear \/ End
  \/ \E c \in Channel : Deliver(c) \/ DeliverFails(c)

Next == SuppressAdd \/ SuppressClear \/ Start(FALSE) \/ Start(TRUE) \/ Step \/ Die

Spec == Init /\ [][Next]_vars

(* Ordinary runs are scheduled again and again (cron) and get their turn in  *)
(* the concurrency group; a run that is alive goes on: engine, storage and   *)
(* channels have timeouts.                                                   *)
FairSpec == Spec /\ SF_vars(Start(FALSE)) /\ WF_vars(Step)

-----------------------------------------------------------------------------
(* A marker is cleared only after every channel that subscribes to its event *)
(* has been given it, whatever failed, was repeated or died in between.      *)
MarkersKept ==
  [][\A p \in marker \ marker' :
       \A c \in Channel : p.event \in Subscribes(c) => <<c, p>> \in run.got]_vars

Settled == run = Idle /\ marker = {}

(* The stored state says that the drift was alerted.  Told only while the    *)
(* clock tells runs apart.                                                   *)
Alerted(s) ==
  Drifted(st[s]) /\ st[s].notified >= st[s].since /\ now < MaxTime

(* Once nothing is under way and nothing is owed, the incidents of a channel *)
(* that hears of beginnings and ends tell the truth: a drift incident is     *)
(* open only on a stack whose last diff was more than noise, a diff that was *)
(* more than noise is on record as drift, and an incident is open if an      *)
(* alert was due; a check incident is open iff the last check failed.        *)
(* Errors between two verdicts, repairs, changes of shape, damping,          *)
(* suppression, freshness and failed deliveries do not break that.  Excused  *)
(* are the streams whose events fell through a gap named in an action.       *)
IncidentsSettle ==
  Settled =>
    \A c \in Channel, s \in Stack :
      /\ {"drift_detected", "drift_resolved"} \subseteq On[c] /\ <<s, "drift">> \notin excused =>
           /\ inc[c][s].drift => seen[s].verdict # Clean
           /\ seen[s].verdict # Clean => Drifted(st[s])
           /\ Alerted(s) /\ cfg.until = 0 => inc[c][s].drift
      /\ "check_failed" \in On[c] /\ <<s, "check">> \notin excused =>
           (inc[c][s].check <=> st[s].failing)

(* Without damping, drift is alerted when it is news: never because failed   *)
(* checks lay between two verdicts of the same shape.                        *)
AlertIsNews ==
  [][\A s \in Stack :
       /\ run.pc = "check" /\ run'.pc = "check" /\ cfg.renotify = 0
       /\ Len(run'.batch) > Len(run.batch)
       /\ run'.batch[Len(run'.batch)] = Payload(s, "drift_detected")
       /\ <<s, "drift">> \notin excused
       => seen[s].verdict # seen'[s].verdict]_vars

(* Drift that is accepted for good reaches no channel, at once or by a       *)
(* marker, as a detection, a re-alert or a resolution.                       *)
AcceptedIsSilent ==
  cfg.until = Forever =>
    /\ \A c \in Channel, s \in Stack : ~inc[c][s].drift
    /\ \A p \in marker : Stream(p.event) = "check"

(* What is on record as undelivered does not stay there: after every failure *)
(* a time comes when nothing is owed, although new events keep coming.       *)
Redelivered == []<>(marker = {})

(* "A channel that opens an incident/issue on check_failed must also hear    *)
(* check_recovered, or the incident survives forever once the check heals"   *)
(* (notify.go): when the last check of a stack had a verdict and every event *)
(* was delivered, no check incident of the stack is open.                    *)
HealedChecksClose ==
  Settled => \A c \in Channel, s \in Stack : seen[s].ok => ~inc[c][s].check

(* "A crashed process or a failing channel used to lose the event forever.   *)
(* DispatchDurable closes that window" (pending.go): when the stored state   *)
(* says that the drift of a stack was alerted, the alert has been delivered, *)
(* is in hand or is on record as undelivered.                                *)
AlertsSurvive ==
  Settled => \A c \in Channel, s \in Stack :
    "drift_detected" \in On[c] /\ Alerted(s) => inc[c][s].drift

=============================================================================
