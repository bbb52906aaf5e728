------------------------------- MODULE Comments -------------------------------
(***************************************************************************)
(* The comments of one pull request as github.Client writes them: found by *)
(* a marker in the body, edited in place, created when there is none.  A   *)
(* process lists the comments once and from then on keeps its own copy.    *)
(* Other processes and people change the comments meanwhile.               *)
(*                                                                         *)
(* The process of a step is in a function proc; `pc' is where it stands,   *)
(* `marker' and `text' the comment it is writing, `then' where it goes on. *)
(***************************************************************************)
EXTENDS Integers, Sequences, FiniteSets, SequencesExt

CONSTANTS
  Proc,         \* processes: CI runs that report on the pull request
  Account,      \* the account whose token each process writes with
  Hidden,       \* accounts that /user does not name: those of installation tokens
  Actions,      \* processes that run in GitHub Actions
  Bot,          \* github-actions[bot]
  None

ASSUME AccountAssumption == Bot # None /\ \A p \in Proc : Account[p] # None

VARIABLES
  proc,         \* local state of each process
  comments,     \* the comments, oldest first: [id, author, marker, text]
  cache,        \* each process's copy of them, or None
  ids,          \* comments and messages created so far
  faults,       \* failures so far
  clean         \* history: no failure, and no two processes at once, so far

CONSTANT MaxFaults    \* bound: failures of requests

Go(p, rec) == proc' = [proc EXCEPT ![p] = rec]

Fails == faults < MaxFaults /\ faults' = faults + 1 /\ clean' = FALSE
Succeeds == UNCHANGED <<faults, clean>>

Markers(s) == {s[i].marker : i \in DOMAIN s}
FirstWith(s, m) == CHOOSE i \in DOMAIN s : s[i].marker = m /\ \A j \in 1..(i - 1) : s[j].marker # m
IdsOf(s) == {s[i].id : i \in DOMAIN s}
Edited(s, id, text) ==
  [i \in DOMAIN s |-> IF s[i].id = id THEN [s[i] EXCEPT !.text = text] ELSE s[i]]
(* The comment with the id, which is there, is gone. *)
Without(s, id) == RemoveAt(s, CHOOSE i \in DOMAIN s : s[i].id = id)

(* The comment has been written, or given up. *)
Upserted(p, ok) == Go(p, [proc[p] EXCEPT !.pc = proc[p].then, !.ok = @ /\ ok])

(* issueCommentsLocked: all pages are read, and kept. *)
ListComments(p) ==
  /\ \/ proc[p].pc \in {"upsert", "sweep"} /\ cache[p] = None
     \/ proc[p].pc = "relist"
  /\ \/ /\ cache' = [cache EXCEPT ![p] = comments]
        /\ Go(p, [proc[p] EXCEPT !.pc = IF @ = "relist" THEN "again" ELSE @])
        /\ Succeeds
     \/ /\ Fails
        /\ IF proc[p].pc = "sweep" THEN Go(p, [proc[p] EXCEPT !.pc = "end", !.ok = FALSE])
                                   ELSE Upserted(p, FALSE)
        /\ UNCHANGED cache
  /\ UNCHANGED <<comments, ids>>

(* upsertCommentLocked, a comment with the marker is known: it is edited; if *)
(* it is gone, the list is read again, once.                                 *)
EditComment(p) ==
  LET c == cache[p][FirstWith(cache[p], proc[p].marker)] IN
  /\ proc[p].pc \in {"upsert", "again"}
  /\ cache[p] # None
  /\ proc[p].marker \in Markers(cache[p])
  /\ \/ /\ c.id \in IdsOf(comments)
        /\ comments' = Edited(comments, c.id, proc[p].text)
        /\ cache' = [cache EXCEPT ![p] = Edited(@, c.id, proc[p].text)]
        /\ Upserted(p, TRUE)
        /\ Succeeds
     \/ /\ c.id \notin IdsOf(comments)
        /\ IF proc[p].pc = "upsert" THEN Go(p, [proc[p] EXCEPT !.pc = "relist"])
                                    ELSE Upserted(p, FALSE)
        /\ Succeeds
        /\ UNCHANGED <<comments, cache>>
     \/ Fails /\ Upserted(p, FALSE) /\ UNCHANGED <<comments, cache>>
  /\ UNCHANGED ids

(* upsertCommentLocked, no comment with the marker is known: one is created. *)
(* A creation may fail although it took effect.                              *)
CreateComment(p) ==
  LET c == [id |-> ids + 1, author |-> Account[p],
            marker |-> proc[p].marker, text |-> proc[p].text] IN
  /\ proc[p].pc \in {"upsert", "again"}
  /\ cache[p] # None
  /\ proc[p].marker \notin Markers(cache[p])
  /\ \/ /\ comments' = Append(comments, c)
        /\ ids' = ids + 1
        /\ \/ Succeeds /\ Upserted(p, TRUE) /\ cache' = [cache EXCEPT ![p] = Append(@, c)]
           \/ Fails /\ Upserted(p, FALSE) /\ UNCHANGED cache
     \/ Fails /\ Upserted(p, FALSE) /\ UNCHANGED <<comments, ids, cache>>

(* authenticatedCommentAuthor, when no request fails: the account that /user *)
(* names, or in Actions github-actions[bot], whichever account it is.        *)
OwnLogin(p) ==
  CASE Account[p] \notin Hidden                     -> Account[p]
    [] Account[p] \in Hidden /\ p \in Actions      -> Bot
    [] Account[p] \in Hidden /\ p \notin Actions   -> None

(* The sweep begins with the own login.  A request that fails is taken for   *)
(* one that is refused; outside Actions the sweep is given up.               *)
IdentifyAuthor(p) ==
  /\ proc[p].pc = "whoami"
  /\ \/ /\ Account[p] \notin Hidden
        /\ Go(p, [proc[p] EXCEPT !.pc = "sweep", !.author = Account[p]])
        /\ Succeeds
     \/ /\ IF p \in Actions
           THEN Go(p, [proc[p] EXCEPT !.pc = "sweep", !.author = Bot])
           ELSE Go(p, [proc[p] EXCEPT !.pc = "end", !.ok = FALSE])
        /\ IF Account[p] \in Hidden THEN Succeeds ELSE Fails
  /\ UNCHANGED <<comments, cache, ids>>

(* Mutant of StaleParts: only the next part is looked for. *)
StaleNext(s, board, keep, author) ==
  {s[i].id : i \in {j \in DOMAIN s : /\ s[j].author = author /\ s[j].marker[1] = board
                                    /\ s[j].marker[2] = keep + 1}}

(* partOrdinal: the author's parts of the board beyond the ones that are     *)
(* written.  A marker is <<board, ordinal>>; part 1 has the bare marker.     *)
StaleParts(s, board, keep, author) ==
  {s[i].id : i \in {j \in DOMAIN s : /\ s[j].author = author /\ s[j].marker[1] = board
                                    /\ s[j].marker[2] > keep}}

(* DeleteCommentsByMarkerPrefix: the stale parts of the copy are deleted one *)
(* by one, up to a failure; a comment that is gone is a failure, too.  What  *)
(* another account wrote is passed over.                                     *)
DeleteStalePart(p) ==
  /\ proc[p].pc = "sweep"
  /\ cache[p] # None
  /\ LET stale == StaleParts(cache[p], proc[p].board, proc[p].parts, proc[p].author) IN
     IF stale = {}
     THEN Go(p, [proc[p] EXCEPT !.pc = "end"]) /\ Succeeds /\ UNCHANGED <<comments, cache>>
     ELSE LET id == cache[p][CHOOSE i \in DOMAIN cache[p] :
                               cache[p][i].id \in stale
                               /\ \A j \in 1..(i - 1) : cache[p][j].id \notin stale].id
          IN \/ /\ id \in IdsOf(comments)
                /\ comments' = Without(comments, id)
                /\ cache' = [cache EXCEPT ![p] = Without(@, id)]
                /\ Succeeds
                /\ UNCHANGED proc
             \/ /\ IF id \in IdsOf(comments) THEN Fails ELSE Succeeds
                /\ Go(p, [proc[p] EXCEPT !.pc = "end", !.ok = FALSE])
                /\ UNCHANGED <<comments, cache>>
  /\ UNCHANGED ids

(* External: somebody deletes a comment of reeve's.  Only if it is about to  *)
(* be written anyway, or nobody is at work, is that made good at once.       *)
RemoveComment(active) ==
  /\ faults < MaxFaults
  /\ faults' = faults + 1
  /\ \E i \in DOMAIN comments :
       /\ comments' = Without(comments, comments[i].id)
       /\ clean' = (clean /\ \A p \in active :
                      proc[p].pc = "upsert" /\ proc[p].marker = comments[i].marker)
  /\ UNCHANGED <<proc, cache, ids>>
=============================================================================
