------------------------------ MODULE SlackThread ------------------------------
(***************************************************************************)
(* The Slack message of a pull request.  The dashboard channel (kind       *)
(* "dash") owns the message and edits it in place; timeline_slack (kind    *)
(* "thread") replies under it.  Both find it through one stored state,     *)
(* [main, thread, owner], saved with compare-and-swap.                     *)
(***************************************************************************)
EXTENDS Comments

CONSTANTS
  Trigger,      \* when the dashboard may post its message: "plan", "ready", "apply"
  SaveTries     \* attempts of a save (3 in the code)

VARIABLES
  slack,        \* the stored state: [val, ver]; version 0: absent
  replies       \* replies in threads: [parent, kind]

NoMessage == [main |-> None, thread |-> None, owner |-> None]

Slacker(p) == proc[p].kind \in {"dash", "thread"}

SlackEvent(p) == Head(proc[p].todo).ev

Delivered(p, ok) ==
  Go(p, [proc[p] EXCEPT !.pc = IF Len(proc[p].todo) = 1 THEN "end" ELSE "load",
                        !.todo = Tail(@), !.n = 0, !.sl = NoMessage, !.ok = @ /\ ok])

(* deliverPR: which events may create the message. *)
MayCreate(ev) ==
  CASE ev = "plan"                            -> Trigger = "plan"
    [] ev = "ready"                           -> Trigger # "apply"
    [] ev \in {"applying", "applied", "blocked"} -> TRUE
    [] OTHER                                  -> FALSE

(* StateStore.Load: an absent state is a fresh one; any other failure ends   *)
(* the delivery, so that no second message is posted.                        *)
LoadSlack(p) ==
  /\ proc[p].pc = "load"
  /\ Slacker(p)
  /\ \/ /\ Succeeds
        /\ IF slack.val.main = None /\ proc[p].kind = "dash" /\ ~MayCreate(SlackEvent(p))
           THEN Delivered(p, TRUE)
           ELSE Go(p, [proc[p] EXCEPT
                  !.sl = slack.val, !.etag = slack.ver,
                  !.pc = IF proc[p].kind = "dash" \/ slack.val.main = None THEN "post"
                         ELSE IF slack.val.owner = None THEN "claim" ELSE "reply"])
     \/ Fails /\ Delivered(p, FALSE)
  /\ UNCHANGED <<comments, cache, ids, slack, replies>>

(* The message is posted, or edited (which keeps its time stamp).  A request *)
(* may fail although it took effect.                                         *)
PostMain(p) ==
  LET new == proc[p].sl.main = None
      ts  == IF new THEN ids + 1 ELSE proc[p].sl.main
  IN /\ proc[p].pc = "post"
     /\ \/ /\ Succeeds
           /\ ids' = IF new THEN ids + 1 ELSE ids
           /\ Go(p, [proc[p] EXCEPT !.sl.main = ts,
                       !.pc = IF proc[p].kind = "thread" THEN "claim"
                              ELSE IF proc[p].sl.owner = None THEN "courtesy" ELSE "keep"])
        \/ Fails /\ ids' \in {ids, ids + 1} /\ Delivered(p, FALSE)
     /\ UNCHANGED <<comments, cache, slack, replies>>

(* The dashboard's own entry in a thread that nobody owns; failure is logged. *)
Courtesy(p) ==
  /\ proc[p].pc = "courtesy"
  /\ \/ /\ Succeeds
        /\ ids' = ids + 1
        /\ replies' = replies \cup {[parent |-> proc[p].sl.main, kind |-> "dash"]}
        /\ Go(p, [proc[p] EXCEPT !.pc = "keep",
                    !.sl.thread = IF @ = None THEN ids + 1 ELSE @])
     \/ Fails /\ Go(p, [proc[p] EXCEPT !.pc = "keep"]) /\ UNCHANGED <<ids, replies>>
  /\ UNCHANGED <<comments, cache, slack>>

(* timeline_slack takes the thread for its own. *)
Claim(p) ==
  /\ proc[p].pc = "claim"
  /\ Go(p, [proc[p] EXCEPT !.sl.owner = IF @ = None THEN "timeline" ELSE @, !.pc = "keep"])
  /\ UNCHANGED <<comments, cache, ids, faults, clean, slack, replies>>

(* A save has ended: the dashboard is done either way, the timeline goes on  *)
(* under its own message or looks for the one that won.                      *)
Saved(p, ok) ==
  IF proc[p].kind = "dash" THEN Delivered(p, ok)
  ELSE Go(p, [proc[p] EXCEPT !.pc = IF ok THEN "reply" ELSE "adopt"])

SaveSlack(p) ==
  /\ proc[p].pc = "keep"
  /\ \/ /\ slack.ver = proc[p].etag
        /\ slack' = [val |-> proc[p].sl, ver |-> slack.ver + 1]
        /\ \/ Succeeds /\ Saved(p, TRUE)
           \/ Fails /\ Saved(p, FALSE)
     \/ /\ slack.ver # proc[p].etag
        /\ Succeeds
        /\ Go(p, [proc[p] EXCEPT !.pc = "merge"])
        /\ UNCHANGED slack
     \/ Fails /\ Saved(p, FALSE) /\ UNCHANGED slack
  /\ UNCHANGED <<comments, cache, ids, replies>>

(* Mutant of Conflicts: the last writer wins. *)
NeverConflicts(p) == FALSE

(* Another message was recorded meanwhile. *)
Conflicts(p) == slack.val.main # None /\ slack.val.main # proc[p].sl.main

(* The thread and the owner another writer has recorded are kept. *)
Merged(p) ==
  [proc[p].sl EXCEPT !.thread = IF @ = None THEN slack.val.thread ELSE @,
                     !.owner  = IF @ = None THEN slack.val.owner ELSE @]

(* StateStore.Save after a conflict: the first writer's message stays. *)
MergeSlack(p) ==
  /\ proc[p].pc = "merge"
  /\ \/ /\ Succeeds
        /\ IF Conflicts(p) \/ proc[p].n + 1 = SaveTries
           THEN Saved(p, FALSE)
           ELSE Go(p, [proc[p] EXCEPT !.sl = Merged(p), !.etag = slack.ver, !.n = @ + 1,
                                      !.pc = "keep"])
     \/ Fails /\ Saved(p, FALSE)
  /\ UNCHANGED <<comments, cache, ids, slack, replies>>

(* Mutant of AdoptAnchor: the reply goes under the message that lost. *)
KeepAnchor(p) ==
  /\ proc[p].pc = "adopt"
  /\ Go(p, [proc[p] EXCEPT !.pc = "reply"])
  /\ UNCHANGED <<comments, cache, ids, faults, clean, slack, replies>>

(* timeline_slack after a failed save: the recorded message is taken; if     *)
(* there is none, or it cannot be read, the delivery has failed.             *)
AdoptAnchor(p) ==
  /\ proc[p].pc = "adopt"
  /\ \/ /\ Succeeds
        /\ IF slack.val.main = None THEN Delivered(p, FALSE)
           ELSE Go(p, [proc[p] EXCEPT !.pc = "reply", !.sl = slack.val])
     \/ Fails /\ Delivered(p, FALSE)
  /\ UNCHANGED <<comments, cache, ids, slack, replies>>

Reply(p) ==
  /\ proc[p].pc = "reply"
  /\ \/ /\ Succeeds
        /\ replies' = replies \cup {[parent |-> proc[p].sl.main, kind |-> "thread"]}
        /\ Delivered(p, TRUE)
     \/ Fails /\ Delivered(p, FALSE) /\ UNCHANGED replies
  /\ UNCHANGED <<comments, cache, ids, slack>>
=============================================================================
