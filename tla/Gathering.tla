------------------------------- MODULE Gathering -------------------------------
(***************************************************************************)
(* How an apply comes to know what it decides on.  One process reads the   *)
(* pull request, its changed files, the checks and statuses of its commit, *)
(* reviews, comments, CODEOWNERS and team members, and compares the head   *)
(* once more; all the while reviewers, checks and pushes go on.  Every     *)
(* page of a listing is a call of its own, and any call may fail.          *)
(***************************************************************************)
EXTENDS Forge, Scope, Bindings

CONSTANTS
  Commits,      \* the pull request may have any of the commits 1..Commits as its head
  Reviewer,     \* those who review and comment
  Check,        \* check runs of a commit: [name, run, self]
  Context,      \* the contexts of its commit statuses
  Projects,     \* repositories and their configuration
  Mode,         \* preview, apply, drift
  Never         \* the state of a check or status that has not been created

ASSUME ReviewerAssumption == Reviewer \subseteq User

(* Commits are numbers; an approval without one carries none of them. *)
ASSUME CommitsAssumption == Commits \in Nat \ {0} /\ NoSHA \notin Nat

(* Whether a check is one of reeve's goes by its name.                       *)
ASSUME CheckAssumption ==
  /\ \A k, l \in Check : k.name = l.name => k.self = l.self
  /\ Check \cap Context = {}
  /\ Never \notin {"running", "pending", "success", "failure", "skipped", "neutral"}

(* A binding has lists of declared providers, and a pattern with so many     *)
(* literal characters and wildcards.                                         *)
ASSUME BindingsAssumption ==
  \A p \in Projects :
    /\ p.bindings \in Seq(ToSet(p.bindings))
    /\ \A b \in ToSet(p.bindings) :
         /\ b.providers \subseteq DOMAIN Domain
         /\ {b.override, b.local} \subseteq Seq(DOMAIN Domain)
         /\ b.literals \in Nat /\ b.wildcards \in Nat

(* The time of an approval is left out here, so no rule looks at it.  The    *)
(* checks a commit has from the start are listed in some order.              *)
ASSUME ProjectsAssumption ==
  \A p \in Projects :
    /\ p.rules.freshness = 0
    /\ \A c \in 1..Commits : p.files[c] \in Seq(ToSet(p.files[c]))
    /\ p.listing \in Seq(Check)
    /\ \A k \in Check : p.checks[k] # Never <=> \E i \in DOMAIN p.listing : p.listing[i] = k
    /\ p.statuses \in [Context -> {Never, "pending", "success", "failure"}]

VARIABLES
  project,      \* the member of Projects, constant
  head,         \* the head of the pull request
  reviews, comments,    \* sequences, oldest first
  checks,       \* per commit: the state of every check run
  listing,      \* per commit: the check runs in the order the forge lists them
  statuses,     \* per commit: the state of every commit status
  events,       \* how much has happened
  apply,        \* the apply
  standing,     \* history: the reviews by which their authors approve a commit now
  stood,        \* history: approvals that stood at some moment of the apply
  lasting,      \* history: reviews that have stood since the apply began
  unready,      \* history: checks that have blocked since the apply began
  troubled,     \* history: checks that blocked at some moment of the apply
  shifted,      \* history: a check of the commit was listed anew between two pages
  returned      \* history: the head came back to the commit after a push

forge == <<head, reviews, comments, checks, listing, statuses>>
readiness == <<unready, troubled, shifted>>
history == <<standing, stood, lasting, readiness, returned>>
gatheringVars == <<project, forge, events, apply, history>>

Commit == 1..Commits

(* Comments by which somebody who may approves, and what is approved. *)
Said(cs) ==
  {[kind |-> "comment", by |-> cs[i].by, sha |-> NamedCommit(cs[i].line)] :
     i \in {j \in DOMAIN cs : Qualifies(cs[j], project.allowed)}}

(* Reeve's own: the job of the run under way, and every check with one of    *)
(* its names, be they configured or those of that job.                       *)
Ours(c, k) ==
  \/ k.run = ReeveRun \/ k.name \in SelfNames
  \/ \E l \in Check : l.run = ReeveRun /\ l.self /\ l.name = k.name /\ checks[c][l] # Never

Fine == {Never, "success", "skipped", "neutral"}

(* The checks of others and the commit statuses that have not ended well. *)
Blockers ==
  {x \in Commit \X Check : ~Ours(x[1], x[2]) /\ checks[x[1]][x[2]] \notin Fine}
    \cup {x \in Commit \X Context : statuses[x[1]][x[2]] \notin Fine}

-----------------------------------------------------------------------------
(* The apply. *)

Fresh0 == [pc |-> "new", sha |-> 0, changed |-> {}, runs |-> {}, green |-> FALSE, revs |-> << >>,
           cs |-> << >>, page |-> 1, raw |-> {}, owners |-> << >>, live |-> << >>]

Set(rec) == apply' = rec
Abort == Set([Fresh0 EXCEPT !.pc = "error"])
Goto(pc) == [apply EXCEPT !.pc = pc]

(* A call that fails ends the apply: gates are never passed for want of an   *)
(* answer.                                                                   *)
Call(pc, answer) == /\ apply.pc = pc
                    /\ Set(answer) \/ Abort
                    /\ UNCHANGED <<project, forge, events, history>>

(* The apply begins with resolvePR.  The checkout is what was the head when  *)
(* the workflow was started; with an expected head it must still be.         *)
ReadPR ==
  /\ apply.pc = "new"
  /\ \E tree \in Commit :
       IF project.expected /\ tree # head THEN Abort ELSE Set([Goto("files") EXCEPT !.sha = head])
  /\ stood' = standing \cup Said(comments)
  /\ lasting' = standing
  /\ unready' = Blockers /\ troubled' = Blockers
  /\ UNCHANGED <<project, forge, events, standing, shifted, returned>>

(* The files on a page are those of the pull request, whatever its head is   *)
(* when the page is asked for.                                               *)
ReadFiles ==
  Call("files",
    LET files == project.files[head]
        got   == [apply EXCEPT !.changed = @ \cup ToSet(Page(files, apply.page))]
    IN IF LastPage(files, apply.page) THEN [got EXCEPT !.pc = "checks", !.page = 1]
                                      ELSE [got EXCEPT !.page = @ + 1])

CheckRun(c, k) == [name |-> k.name, run |-> k.run, self |-> k.self, state |-> checks[c][k]]

(* ChecksGreen: the check runs, and a verdict once the last page is read. *)
ReadChecks ==
  Call("checks",
    LET list == listing[apply.sha]
        runs == apply.runs \cup {CheckRun(apply.sha, k) : k \in ToSet(Page(list, apply.page))}
    IN IF LastPage(list, apply.page)
       THEN [apply EXCEPT !.pc = "statuses", !.page = 1, !.runs = {}, !.green = FailingChecks(runs) = {}]
       ELSE [apply EXCEPT !.page = @ + 1, !.runs = runs])

Reported(c) == {x \in Context : statuses[c][x] # Never}

(* ... and the statuses: the combined state that comes with the last page    *)
(* decides, for a failure that no page showed counts as well.                *)
ReadStatuses ==
  Call("statuses",
    LET n == Cardinality(Reported(apply.sha))
    IN IF apply.page * PageSize >= n
       THEN [apply EXCEPT !.pc = "reviews", !.page = 1,
                          !.green = @ /\ FailingStatuses([x \in Reported(apply.sha) |->
                                                            statuses[apply.sha][x]]) = {}]
       ELSE [apply EXCEPT !.page = @ + 1])

(* CompareBranches comes here; its answer, `behind', is an input of Gates.   *)
(* Then ListApprovals, a page at a time.                                     *)
ReadReviews ==
  Call("reviews",
    LET got == [apply EXCEPT !.revs = @ \o Page(reviews, apply.page)]
    IN IF LastPage(reviews, apply.page) THEN [got EXCEPT !.pc = "comments", !.page = 1]
                                      ELSE [got EXCEPT !.page = @ + 1])

(* ListCommentApprovals, if the source is enabled. *)
ReadComments ==
  Call("comments",
    LET got == [apply EXCEPT !.cs = @ \o Page(comments, apply.page)]
    IN IF ~project.commentSource THEN [apply EXCEPT !.pc = "owners"]
       ELSE IF LastPage(comments, apply.page) THEN [got EXCEPT !.pc = "owners", !.page = 1]
       ELSE [got EXCEPT !.page = @ + 1])

(* MergeApprovals, and FetchCodeowners of the default branch. *)
Scoped == ScopeChangedFiles(apply.changed, project.root)

ReadOwners ==
  Call("owners",
    [Goto("teams") EXCEPT
       !.raw    = LatestApprovals(apply.revs) \cup CommentApprovals(apply.cs, project.allowed),
       !.owners = ResolveOwners(project.codeowners, {f.path : f \in Scoped}),
       !.revs   = << >>, !.cs = << >>])

(* ExpandTeams: a team that cannot be read has no members. *)
ReadTeams ==
  /\ apply.pc = "teams"
  /\ \E known \in {{}, Team} :
       Set([Goto("revalidate") EXCEPT
              !.live = ApplyTeams(project.rules, apply.owners, {},
                         [t \in Team |-> IF t \in known THEN project.teams[t] ELSE {}])])
  /\ UNCHANGED <<project, forge, events, history>>

(* Mutant of HeadStands: the head is not read again. *)
HeadStood == TRUE

(* revalidatePRHead: a no-op without an expected head. *)
HeadStands == project.expected => head = apply.sha

Revalidate ==
  Call("revalidate", IF HeadStands THEN Goto("decided") ELSE [Fresh0 EXCEPT !.pc = "error"])

-----------------------------------------------------------------------------
(* What the apply decides with. *)

PullRequest == [head |-> apply.sha, author |-> project.author, private |-> TRUE]

Counted == Approvers(project.rules, apply.raw, PullRequest, 0)

Approved == Satisfied(project.rules, apply.raw, PullRequest, apply.owners, apply.live, 0)

Stacks == DeclaredStacks(project.stacks, project.decls, project.exclude)

Affected == AffectedDetailed(Stacks, Scoped, project.mapping)

-----------------------------------------------------------------------------
(* The forge.  What may happen before the apply is over, and how much, is    *)
(* part of the project: a bound of the model.                                *)

Happens(what) ==
  /\ events < project.events /\ what \in project.busy
  /\ apply.pc \notin {"decided", "error"}
  /\ events' = events + 1
  /\ UNCHANGED <<project, apply>>

(* A review of the head; nobody reviews his own pull request.  `standing' is *)
(* kept up with every review rather than computed from the list.             *)
Review(u, state) ==
  LET mine     == [kind |-> "review", by |-> u, sha |-> head]
      others   == {x \in standing : x.by # u}
      now      == IF state = "APPROVED" THEN others \cup {mine} ELSE others
  IN /\ Happens("review") /\ u # project.author
     /\ reviews' = Append(reviews, [by |-> u, state |-> state, sha |-> head])
     /\ standing' = IF state = "COMMENTED" THEN standing ELSE now
     /\ stood' = stood \cup standing'
     /\ lasting' = lasting \cap standing'
     /\ UNCHANGED <<head, comments, checks, listing, statuses, readiness, returned>>

(* A maintainer dismisses somebody's approval: the review changes in place.  *)
Dismiss(u) ==
  /\ Happens("review")
  /\ \E i \in DOMAIN reviews :
       /\ reviews[i].by = u /\ reviews[i].state = "APPROVED"
       /\ ~\E j \in (i + 1)..Len(reviews) : reviews[j].by = u
       /\ reviews' = [reviews EXCEPT ![i].state = "DISMISSED"]
  /\ standing' = {x \in standing : x.by # u}
  /\ lasting' = lasting \cap standing'
  /\ UNCHANGED <<head, comments, checks, listing, statuses, stood, readiness, returned>>

Say(u, words) ==
  /\ Happens("comment")
  /\ comments' = Append(comments, [by |-> u, bot |-> u \in project.bots, assoc |-> project.assoc[u],
                                   line |-> words])
  /\ stood' = stood \cup Said(comments')
  /\ UNCHANGED <<head, reviews, checks, listing, statuses, standing, lasting, readiness, returned>>

Unsay(i) ==
  /\ Happens("comment")
  /\ comments' = SubSeq(comments, 1, i - 1) \o SubSeq(comments, i + 1, Len(comments))
  /\ UNCHANGED <<head, reviews, checks, listing, statuses, history>>

(* A push, or a force push to any commit, also to one that was the head.     *)
Push(c) ==
  /\ Happens("push") /\ c # head
  /\ head' = c
  /\ returned' = (returned \/ c = apply.sha)
  /\ UNCHANGED <<reviews, comments, checks, listing, statuses, standing, stood, lasting, readiness>>

Moved ==
  /\ unready' = unready \cap Blockers' /\ troubled' = troubled \cup Blockers'
  /\ UNCHANGED <<head, reviews, comments, standing, stood, lasting, returned>>

(* The forge documents no order of its listing: a new run comes first or     *)
(* last, and the old one of a check that starts again is listed no more.     *)
Relisted(list, k) ==
  LET at   == {i \in DOMAIN list : list[i] = k}
      rest == IF at = {} THEN list ELSE RemoveAt(list, CHOOSE i \in at : TRUE)
  IN {<<k>> \o rest, Append(rest, k)}

(* A check run starts, or starts again. *)
CheckStarts(c, k) ==
  /\ Happens("check") /\ k.run # ReeveRun
  /\ checks' = [checks EXCEPT ![c][k] = "running"]
  /\ \E list \in Relisted(listing[c], k) : listing' = [listing EXCEPT ![c] = list]
  /\ shifted' = (shifted \/ (apply.pc = "checks" /\ apply.page > 1 /\ c = apply.sha))
  /\ UNCHANGED statuses /\ Moved

CheckEnds(c, k, state) ==
  /\ Happens("check") /\ k.run # ReeveRun /\ checks[c][k] \notin {Never, state}
  /\ checks' = [checks EXCEPT ![c][k] = state]
  /\ UNCHANGED <<listing, statuses, shifted>> /\ Moved

StatusMoves(c, x, state) ==
  /\ Happens("check") /\ statuses[c][x] # state
  /\ statuses' = [statuses EXCEPT ![c][x] = state]
  /\ UNCHANGED <<checks, listing, shifted>> /\ Moved

Words == {<<"/reeve", "approve">>, <<"/reeve", "approve", 0>>}
           \cup {<<"/reeve", "approve", c>> : c \in Commit}
           \cup {<<"please", "approve">>}

GatheringInit ==
  /\ project \in Projects
  /\ head = 1
  /\ reviews = << >> /\ comments = << >>
  /\ checks = [c \in Commit |-> [k \in Check |-> project.checks[k]]]
  /\ listing = [c \in Commit |-> project.listing]
  /\ statuses = [c \in Commit |-> [x \in Context |-> project.statuses[x]]]
  /\ events = 0
  /\ apply = Fresh0
  /\ standing = {} /\ stood = {} /\ lasting = {} /\ unready = {} /\ troubled = {}
  /\ shifted = FALSE /\ returned = FALSE

GatheringNext ==
  \/ ReadPR \/ ReadFiles \/ ReadChecks \/ ReadStatuses \/ ReadReviews \/ ReadComments
  \/ ReadOwners \/ ReadTeams \/ Revalidate
  \/ \E u \in Reviewer :
       \/ \E state \in {"APPROVED", "CHANGES_REQUESTED", "COMMENTED"} : Review(u, state)
       \/ Dismiss(u)
       \/ \E words \in Words : Say(u, words)
  \/ \E i \in DOMAIN comments : Unsay(i)
  \/ \E c \in Commit :
       \/ Push(c)
       \/ \E k \in Check :
            CheckStarts(c, k) \/ \E state \in {"success", "failure"} : CheckEnds(c, k, state)
       \/ \E x \in Context, state \in {"pending", "success", "failure"} : StatusMoves(c, x, state)

GatheringSpec == GatheringInit /\ [][GatheringNext]_gatheringVars

-----------------------------------------------------------------------------
Decided == apply.pc = "decided"

(* Approvals are facts, and facts count.  Whoever counts as an approver did  *)
(* approve, in a review (of which nothing more is asked) or in a comment (if *)
(* a human whose association is allowed wrote it), at some moment of the     *)
(* apply and, where new commits dismiss approvals, this very commit (or, if  *)
(* the rules admit bare approve comments, by one); an approval withdrawn     *)
(* before the apply began does not count however the pages were read.        *)
(* Conversely, a review of the commit that stood from the beginning of the   *)
(* apply to its end is counted.                                              *)
ApprovalsExact ==
  Decided =>
    /\ \A u \in Counted :
         \E x \in stood :
           /\ x.by = u
           /\ project.rules.dismiss =>
                \/ x.sha = apply.sha
                \/ x.kind = "comment" /\ x.sha = NoSHA /\ project.rules.unpinned
    /\ \A x \in lasting : x.sha = apply.sha /\ x.by # project.author => x.by \in Counted

(* A check or status of the commit that was pending or failing all the time  *)
(* the apply was reading blocks it; reeve's own checks and those that were   *)
(* never in trouble meanwhile do not.  That holds for statuses without       *)
(* exception, and for check runs unless one of the commit started, or        *)
(* started again, between two pages of their listing: entries move to pages  *)
(* that have been read then.                                                 *)
BlockersSeen ==
  Decided =>
    /\ apply.green => \A x \in unready : x[1] = apply.sha => x[2] \in Check /\ shifted
    /\ ~apply.green /\ ~shifted => \E x \in troubled : x[1] = apply.sha

(* One commit.  An apply that was told its checkout decides on the changed   *)
(* files of that commit, whatever was pushed while it read them, except for  *)
(* a head that left the commit and came back: only the ends are compared.    *)
OneCommit ==
  Decided /\ project.expected /\ ~returned => apply.changed = ToSet(project.files[apply.sha])

(* No change goes unplanned.  Every changed file under the root that is not  *)
(* skipped is claimed by a stack that is planned, or all stacks are planned; *)
(* and what an apply takes without a manifest was planned because of a file. *)
ScopeCovers ==
  apply.pc \notin {"new", "files", "error"} =>
    /\ project.mapping.scope # "pulumi_only" =>
         \A f \in Scoped : \/ f.path \in project.mapping.skip
                            \/ Affected.stacks = Stacks
                            \/ \E s \in Affected.stacks : Claims(s, f, project.mapping)
    /\ \A s \in ApplyScope(Affected) :
         s \in Affected.stacks /\ \E f \in Scoped : Claims(s, f, project.mapping)

(* Credentials are unambiguous.  With bindings that `reeve lint' accepts a   *)
(* stack gets at most one provider of a credential scope, in CI and locally: *)
(* one that a most specific of the bindings with a say in the scope names,   *)
(* and locally never a CI-only one where a local provider is listed.         *)
ProvidersExact ==
  apply.pc = "new" /\ ValidBindings(project.bindings, Stacks, Mode) =>
    \A s \in Stacks, m \in Mode :
      LET bs       == {b \in ToSet(project.bindings) : BindingMatches(b, s, m)}
          names(b) == b.providers \cup ToSet(b.override)
          ci       == ResolveProviders(project.bindings, s, m, FALSE, << >>)
          here     == ResolveProviders(project.bindings, s, m, TRUE, << >>)
          say(x)   == {b \in bs : \E y \in names(b) : SameScope(x, y)}
      IN /\ \A x \in ci : \E b \in say(x) :
              x \in names(b) /\ \A d \in say(x) : ~(IF (d.mode = AnyMode) = (b.mode = AnyMode)
                                                   THEN Rank(d) > Rank(b) ELSE b.mode = AnyMode)
         /\ \A x, y \in here : SameScope(x, y) => x = y
         /\ \A b \in bs : \A x \in here :
              x \in CIOnly => ~\E y \in ToSet(b.local) : SameScope(x, y)

(* docs/pull-requests.md: "reeve parses the repo's CODEOWNERS file and       *)
(* requires at least one approval from an owner of each changed file".       *)
OwnersRequired ==
  Decided /\ Approved /\ project.rules.codeowners =>
    \A f \in apply.changed :
      LET os == OwnersOf(project.codeowners, f.path)
      IN Below(project.root, f.path) /\ os # {} => Counted \cap Eligible(os, project.teams) # {}

=============================================================================
