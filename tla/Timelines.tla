------------------------------- MODULE Timelines -------------------------------
(***************************************************************************)
(* The two timelines of a commit: applyTimeline (one comment) and the      *)
(* timeline_github channel (one comment per plan series).  Both append an  *)
(* entry to a stored history with compare-and-swap and write the comment   *)
(* anew from it.  A process has one of them: kind "apply" or "series".     *)
(***************************************************************************)
EXTENDS Comments

CONSTANTS
  Legacy,       \* what an earlier version stored for the commit: a series, or << >>
  Retries       \* attempts of a save (3 in the code)

ASSUME RetriesAssumption == Retries \in Nat \ {0}

VARIABLE hist   \* the stored history: [val: series of entries, ver: version, 0 if absent]

(* An entry is [ev, run, url]; a run that is not known is None.  `requested' *)
(* is known of an event when it is told; `by', the process, is history.      *)

(* seriesForRun: the newest series with an entry of the same run; an entry   *)
(* without a run is recognized by its URL.  0: none.                         *)
SeriesForRun(st, e) ==
  LET byRun(i) == e.run # None /\ \E k \in DOMAIN st[i] : st[i][k].run = e.run
      byURL(i) == e.url # None /\ \E k \in DOMAIN st[i] :
                    st[i][k].url = e.url /\ (e.run = None \/ st[i][k].run = None)
      last(S) == CHOOSE i \in S : \A j \in S : j <= i
      R == {i \in DOMAIN st : byRun(i)}
      U == {i \in DOMAIN st : byURL(i)}
  IN IF R # {} THEN last(R) ELSE IF U # {} THEN last(U) ELSE 0

(* opensSeries *)
OpensSeries(st, e) ==
  /\ e.ev \in {"planning", "plan"}
  /\ st = << >> \/ (e.ev = "planning" /\ e.requested)

(* Mutant of SeriesFor: the end of a plan goes to the newest series. *)
FinishNewest(st, e) ==
  CASE st = << >>                         -> 1
    [] st # << >> /\ OpensSeries(st, e)   -> Len(st) + 1
    [] OTHER                              -> Len(st)

(* appendEntry: the series an entry goes to; a number past the last opens a  *)
(* new one.  The end of a plan joins its beginning; if that is not known it  *)
(* gets a series of its own rather than the newest.                          *)
SeriesFor(st, e) ==
  LET mine == SeriesForRun(st, e) IN
  CASE st = << >>                                            -> 1
    [] st # << >> /\ (e.ev = "plan" \/ OpensSeries(st, e))   -> IF mine = 0 THEN Len(st) + 1 ELSE mine
    [] OTHER                                                 -> Len(st)

(* appendTo *)
AppendTo(st, i, e) ==
  IF i > Len(st) THEN Append(st, <<e>>) ELSE [st EXCEPT ![i] = Append(@, e)]

-----------------------------------------------------------------------------
Event(p) == Head(proc[p].todo)

(* The delivery is over; the next event of the process follows. *)
NextEvent(p) ==
  /\ proc[p].pc = "next"
  /\ Go(p, [proc[p] EXCEPT !.todo = Tail(@), !.n = 0, !.st = << >>,
                           !.pc = IF Len(proc[p].todo) = 1 THEN "end" ELSE "load"])
  /\ UNCHANGED <<comments, cache, ids, faults, clean, hist>>

(* What is written when the store does not work: the apply timeline goes on  *)
(* with what this process knows, the channel gives the delivery up.          *)
WithoutStore(p) ==
  IF proc[p].kind = "apply"
  THEN Go(p, [proc[p] EXCEPT !.pc = "upsert", !.then = "next", !.ok = FALSE,
                             !.marker = <<"apply", 1>>,
                             !.mem = Append(@, Event(p)), !.text = Append(proc[p].mem, Event(p))])
  ELSE Go(p, [proc[p] EXCEPT !.pc = "next", !.ok = FALSE])

(* loadState: an absent history is empty, or what an earlier version stored. *)
LoadHistory(p) ==
  /\ proc[p].pc = "load"
  /\ proc[p].kind \in {"apply", "series"}
  /\ \/ /\ Go(p, [proc[p] EXCEPT
             !.pc = "save", !.etag = hist.ver,
             !.st = IF hist.ver # 0 THEN hist.val
                    ELSE IF proc[p].kind = "series" /\ Legacy # << >> THEN <<Legacy>> ELSE << >>])
        /\ Succeeds
     \/ Fails /\ WithoutStore(p)
  /\ UNCHANGED <<comments, cache, ids, hist>>

(* Mutant of Matches: the history is written whatever is there. *)
MatchesAlways(p) == TRUE

(* The condition of PutIfMatch. *)
Matches(p) == hist.ver = proc[p].etag

(* The entry is appended and the history saved; a conflict starts over. *)
SaveHistory(p) ==
  LET st  == proc[p].st
      i   == IF proc[p].kind = "series" THEN SeriesFor(st, Event(p)) ELSE 1
      new == AppendTo(st, i, Event(p))
  IN /\ proc[p].pc = "save"
     /\ proc[p].kind \in {"apply", "series"}
     /\ \/ /\ Matches(p)
           /\ hist' = [val |-> new, ver |-> hist.ver + 1]
           /\ \/ /\ Succeeds
                 /\ Go(p, [proc[p] EXCEPT !.pc = "upsert", !.then = "next", !.mem = new[i],
                                          !.marker = <<proc[p].kind, i>>, !.text = new[i]])
              \/ Fails /\ WithoutStore(p)
        \/ /\ ~Matches(p)
           /\ IF proc[p].n + 1 < Retries
              THEN Go(p, [proc[p] EXCEPT !.pc = "load", !.n = @ + 1])
              ELSE WithoutStore(p)
           /\ Succeeds
           /\ UNCHANGED hist
        \/ Fails /\ WithoutStore(p) /\ UNCHANGED hist
     /\ UNCHANGED <<comments, cache, ids>>

-----------------------------------------------------------------------------
(* postBoard: the parts are written in order, also after one has failed;     *)
(* then the parts of a larger earlier run are removed.  A board of one part  *)
(* (postSingleBoard) stops when its part cannot be written.                  *)
NextPart(p) ==
  /\ proc[p].pc = "part"
  /\ proc[p].kind = "board"
  /\ Go(p, IF proc[p].part < proc[p].parts
           THEN [proc[p] EXCEPT !.pc = "upsert", !.then = "part", !.part = @ + 1,
                                !.marker = <<"board", proc[p].part + 1>>, !.text = <<p>>]
           ELSE IF proc[p].parts = 1 /\ ~proc[p].ok
           THEN [proc[p] EXCEPT !.pc = "end"]
           ELSE [proc[p] EXCEPT !.pc = "whoami", !.board = "board"])
  /\ UNCHANGED <<comments, cache, ids, faults, clean, hist>>
=============================================================================
