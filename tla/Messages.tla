------------------------------- MODULE Messages -------------------------------
(***************************************************************************)
(* What concurrent CI runs tell the people of one pull request: boards and *)
(* timelines in its comments, and its Slack message.                       *)
(***************************************************************************)
EXTENDS Timelines, SlackThread

CONSTANT Casts  \* what each process does: [Proc -> [kind, todo, parts, after]]

(* What the processes have to tell, and what an earlier version told. *)
Told == UNION {Range(cast[p].todo) : cast \in Casts, p \in Proc} \cup Range(Legacy)

(* A channel is started for an event; nothing numbered is called None.       *)
ASSUME CastsAssumption ==
  /\ \A cast \in Casts, p \in Proc :
       /\ cast[p].kind \in {"board", "apply", "series", "dash", "thread"}
       /\ cast[p].todo \in Seq(Told)
       /\ cast[p].after \subseteq Proc
       /\ cast[p].kind # "board" => cast[p].todo # << >>
       /\ cast[p].kind = "board" => cast[p].parts \in Nat
       /\ \A k \in DOMAIN cast[p].todo : cast[p].todo[k].by = p
  /\ Legacy \in Seq(Told)
  /\ \A k \in DOMAIN Legacy : Legacy[k].by \notin Proc
  /\ None \notin Nat

VARIABLES
  after,  \* who must have ended before a process starts: a run is run again when it is over
  last    \* history: the process that ended last, nothing having happened since

messagesVars == <<proc, comments, cache, ids, faults, clean, hist, slack, replies, after, last>>

Idle(j) ==
  [pc |-> "idle", kind |-> j.kind, todo |-> j.todo, parts |-> j.parts, part |-> 0, board |-> None,
   author |-> None,
   st |-> << >>, etag |-> 0, n |-> 0, mem |-> << >>, sl |-> NoMessage,
   marker |-> None, text |-> << >>, then |-> None, ok |-> TRUE]

Active == {p \in Proc : proc[p].pc \notin {"idle", "end"}}

MessagesInit ==
  /\ \E cast \in Casts :
       /\ proc = [p \in Proc |-> Idle(cast[p])]
       /\ after = [p \in Proc |-> cast[p].after]
  /\ comments = << >>
  /\ cache = [p \in Proc |-> None]
  /\ ids = 0
  /\ faults = 0
  /\ clean = TRUE
  /\ hist = [val |-> << >>, ver |-> 0]
  /\ slack = [val |-> NoMessage, ver |-> 0]
  /\ replies = {}
  /\ last = None

Start(p) ==
  /\ proc[p].pc = "idle"
  /\ \A q \in after[p] : proc[q].pc = "end"
  /\ Go(p, [proc[p] EXCEPT !.pc = IF proc[p].kind = "board" THEN "part" ELSE "load"])
  /\ clean' = (clean /\ Active = {})
  /\ last' = None
  /\ UNCHANGED <<comments, cache, ids, faults, hist, slack, replies, after>>

(* The end of a process is the step that brings it there. *)
Ends(p) == last' = IF proc'[p].pc = "end" THEN p ELSE None

Comment(p) ==
  /\ \/ ListComments(p) \/ EditComment(p) \/ CreateComment(p)
     \/ IdentifyAuthor(p) \/ DeleteStalePart(p)
  /\ Ends(p)
  /\ UNCHANGED <<hist, slack, replies, after>>

Timeline(p) ==
  /\ LoadHistory(p) \/ SaveHistory(p) \/ NextEvent(p) \/ NextPart(p)
  /\ Ends(p)
  /\ UNCHANGED <<slack, replies, after>>

Slack(p) ==
  /\ \/ LoadSlack(p) \/ PostMain(p) \/ Courtesy(p) \/ Claim(p) \/ SaveSlack(p) \/ MergeSlack(p)
     \/ AdoptAnchor(p) \/ Reply(p)
  /\ Ends(p)
  /\ UNCHANGED <<hist, after>>

Vanish ==
  /\ RemoveComment(Active)
  /\ last' = None
  /\ UNCHANGED <<hist, slack, replies, after>>

Finished == (\A p \in Proc : proc[p].pc = "end") /\ UNCHANGED messagesVars

MessagesNext ==
  \/ \E p \in Proc : Start(p) \/ Comment(p) \/ Timeline(p) \/ Slack(p)
  \/ Vanish
  \/ Finished

MessagesSpec == MessagesInit /\ [][MessagesNext]_messagesVars

-----------------------------------------------------------------------------
(* What a timeline has recorded stays, in its series and in its order,       *)
(* whoever appends at the same time and whatever fails.                      *)
HistoryKept ==
  [][/\ Len(hist.val) <= Len(hist'.val)
     /\ \A i \in DOMAIN hist.val : IsPrefix(hist.val[i], hist'.val[i])]_hist

(* The beginning and the end of one plan. *)
BeginsAndEnds(e, f) == e.run = f.run /\ e.ev = "planning" /\ f.ev = "plan"

(* The end of a plan is in the series of its beginning, if that was          *)
(* recorded, however the runs of several plans overlap; of a run that was    *)
(* run again under its old number, each attempt ends where it began.         *)
FinishJoinsStart ==
  \A i, j \in DOMAIN hist.val : \A a \in DOMAIN hist.val[i], b \in DOMAIN hist.val[j] :
    LET e == hist.val[i][a]  f == hist.val[j][b]
    IN  BeginsAndEnds(e, f) /\ e.by = f.by => i = j

WithMarker(m) == {i \in DOMAIN comments : comments[i].marker = m}

(* After runs that did not overlap, and of which nothing failed, the         *)
(* comments are exact: one comment for each part of the newest board and     *)
(* none beyond of the author its run took itself for, one for each timeline, *)
(* which shows the whole history; also if a comment was deleted while it was *)
(* about to be edited.                                                       *)
AloneIsExact ==
  (clean /\ last # None) =>
    LET p == last IN
    CASE proc[p].kind = "board" ->
           \A i \in 1..3 :
             IF i <= proc[p].parts
             THEN Cardinality(WithMarker(<<"board", i>>)) = 1
             ELSE \A c \in WithMarker(<<"board", i>>) : comments[c].author # OwnLogin(p)
      [] proc[p].kind \in {"apply", "series"} ->
           /\ Cardinality(WithMarker(proc[p].marker)) = 1
           /\ \A i \in WithMarker(proc[p].marker) :
                comments[i].text = hist.val[proc[p].marker[2]]
      [] OTHER -> TRUE

(* The recorded message of the pull request never changes to another one,    *)
(* and the owner of its thread stays the owner.                              *)
AnchorKept ==
  [][/\ slack.val.main # None => slack'.val.main = slack.val.main
     /\ slack.val.owner # None => slack'.val.owner = slack.val.owner]_slack

(* The timeline replies under the recorded message only, also when several   *)
(* runs have posted a message each.                                          *)
RepliesUnderAnchor ==
  \A r \in replies : r.kind = "thread" => r.parent = slack.val.main

(* There is one comment for each marker. *)
OneComment == \A m \in Markers(comments) : Cardinality(WithMarker(m)) = 1

(* The plan of one CI run is in one series, also if it was run again. *)
RunInOneSeries ==
  \A i, j \in DOMAIN hist.val : \A a \in DOMAIN hist.val[i], b \in DOMAIN hist.val[j] :
    BeginsAndEnds(hist.val[i][a], hist.val[j][b]) => i = j

(* After a board that nothing disturbed there is no part beyond it. *)
NoPartBeyond ==
  (clean /\ last # None /\ proc[last].kind = "board") =>
    \A i \in 1..3 : i > proc[last].parts => WithMarker(<<"board", i>>) = {}
=============================================================================
