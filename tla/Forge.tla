--------------------------------- MODULE Forge ---------------------------------
(***************************************************************************)
(* How the GitHub adapter (internal/vcs/github) reduces what the forge     *)
(* keeps of a pull request: its reviews and comments, oldest first, to     *)
(* approvals, and the checks of a commit to a verdict.  Pure functions.    *)
(***************************************************************************)
EXTENDS Approvals

CONSTANTS
  PageSize,     \* entries on a page of a listing (100)
  ReeveRun,     \* the CI run reeve runs in (IgnoreRunID)
  SelfNames     \* names of reeve's own checks, when configured (IgnoreNames)

ASSUME PageSizeAssumption == PageSize \in Nat \ {0}

(* The n-th page of a listing, and whether it is the last. *)
Page(s, n) == SubSeq(s, (n - 1) * PageSize + 1,
                     IF n * PageSize < Len(s) THEN n * PageSize ELSE Len(s))

LastPage(s, n) == n * PageSize >= Len(s)

-----------------------------------------------------------------------------
(* Reviews: [by, state, sha].  A comment in a review does not change the     *)
(* stance of its author.                                                     *)
Decisive(review) == review.state \in {"APPROVED", "CHANGES_REQUESTED", "DISMISSED"}

(* The time of an approval is left out: freshness is judged in Decision. *)
Approval(who, sha, pinned) == [by |-> who, sha |-> sha, pinned |-> pinned, at |-> NoTime]

(* Mutant of LatestApprovals: every review that says APPROVED counts. *)
AllApprovals(revs) ==
  {Approval(revs[i].by, revs[i].sha, TRUE) :
     i \in {j \in DOMAIN revs : revs[j].state = "APPROVED"}}

(* latestApprovals: those whose last decisive review approves. *)
LatestApprovals(revs) ==
  LET superseded(i) == \E j \in (i + 1)..Len(revs) : revs[j].by = revs[i].by /\ Decisive(revs[j])
  IN {Approval(revs[i].by, revs[i].sha, TRUE) :
        i \in {j \in DOMAIN revs : revs[j].state = "APPROVED" /\ ~superseded(j)}}

-----------------------------------------------------------------------------
(* Comments: [by, bot, assoc, line]; `line' holds the words of the first *)
(* line.                                                                     *)

(* parseCommentTrigger, parseApproveCommand: prefix, verb, and the commit    *)
(* that is approved, if any.                                                 *)
Trigger == [prefixes |-> {"/reeve"}, verb |-> "approve"]
IsApprove(line) == Len(line) >= 2 /\ line[1] \in Trigger.prefixes /\ line[2] = Trigger.verb
NamedCommit(line) == IF Len(line) >= 3 THEN line[3] ELSE NoSHA

(* resolveApprovedCommit: words are commits, or abbreviations too short to   *)
(* stand for one; a commit other than the head is kept as it was written.    *)
(* A bare command is not pinned.                                             *)
CommentApproval(c) ==
  LET arg == NamedCommit(c.line)
  IN IF arg = NoSHA THEN Approval(c.by, NoSHA, FALSE) ELSE Approval(c.by, arg, TRUE)

(* No bots, and only commenters whose association with the repository is in  *)
(* the list; an empty list admits nobody.                                    *)
Qualifies(c, allowed) == ~c.bot /\ IsApprove(c.line) /\ c.assoc \in allowed

(* commentApprovals: the last qualifying comment of each commenter. *)
CommentApprovals(cs, allowed) ==
  LET good == {i \in DOMAIN cs : Qualifies(cs[i], allowed)}
  IN {CommentApproval(cs[i]) : i \in {j \in good : ~\E k \in good : k > j /\ cs[k].by = cs[j].by}}

-----------------------------------------------------------------------------
(* Checks: [name, run, self, state], where `self' says that the name is one  *)
(* under which reeve's job is published; commit statuses are a function from *)
(* contexts to states.                                                       *)
ConcludedWell(c) == c.state \in {"success", "skipped", "neutral"}

(* The names reeve itself is published under: those configured, and those of *)
(* its jobs in the run under way.                                            *)
OwnNames(cs) == SelfNames \cup {c.name : c \in {x \in cs : x.run = ReeveRun /\ x.self}}

(* Mutant of FailingChecks: a check that has not concluded is passed over. *)
FailingConcluded(cs) ==
  {c \in cs : /\ c.run # ReeveRun /\ c.name \notin OwnNames(cs)
              /\ c.state # "running" /\ ~ConcludedWell(c)}

(* ChecksGreen over the check runs: pending is not passing. *)
FailingChecks(cs) == {c \in cs : c.run # ReeveRun /\ c.name \notin OwnNames(cs) /\ ~ConcludedWell(c)}

(* ... and over the combined status, which is "pending" when there is none. *)
FailingStatuses(st) == {x \in DOMAIN st : st[x] # "success"}

=============================================================================
