------------------------------- MODULE MCDecision -------------------------------
(* Questions for TLC, in seven families: every combination of approval rules   *)
(* and approvals, of rule layers, of gate inputs and locks, of policy hooks, *)
(* of freeze windows and of emergency settings, with simple values for the   *)
(* rest.                                                                     *)
EXTENDS Decision

CONSTANTS author, u1, u2, t1, t2, mail, c1, c2, p1, p2, p3, r1, r2, r3, r4

(* How an emergency apply is asked for: with the flag, or in a comment. *)
ByFlag == [flag |-> TRUE, line |-> << >>]

MCOrders ==
  {ByFlag} \cup
  {[flag |-> FALSE, line |-> <<"/reeve">> \o rest] :
     rest \in {<<"breakglass", "quoted", "apply", "--force">>, <<"breakglass", "blank", "apply">>,
               <<"breakglass", "apply">>, <<"apply">>}}

MCApproval(who, sha, pinned, at) == [by |-> who, sha |-> sha, pinned |-> pinned, at |-> at]

Approved == {MCApproval(u1, c2, TRUE, Now)}

(* The author's own review, reviews of both commits, one of them old, a      *)
(* review without a time and a bare approve comment.                         *)
MCRaw ==
  {MCApproval(author, c2, TRUE, Now), MCApproval(u1, c2, TRUE, Now),
   MCApproval(u1, c1, TRUE, Now - 2), MCApproval(u2, c2, TRUE, NoTime),
   MCApproval(u2, NoSHA, FALSE, Now)}

MCRules ==
  [required : {-1, 0, 1, 2}, approvers : {{}, {u1}, {t1}, {u1, t1}}, allGroups : BOOLEAN,
   codeowners : BOOLEAN, dismiss : BOOLEAN, unpinned : BOOLEAN, freshness : {0, 1},
   unlistedOnPublic : BOOLEAN]

OneApproval ==
  [required |-> 1, approvers |-> {u1}, allGroups |-> FALSE, codeowners |-> FALSE,
   dismiss |-> TRUE, unpinned |-> FALSE, freshness |-> 0, unlistedOnPublic |-> FALSE]

MCPull(private) == [head |-> c2, author |-> author, private |-> private]

(* No CODEOWNERS, a mail address only, a team and a mail address. *)
NoOwners == [p \in {} |-> {}]
TeamOwns == [p \in {"a"} |-> {t1, mail}]
MCOwners == {NoOwners, [p \in {"a"} |-> {mail}], TeamOwns}

(* The teams are known, or the forge cannot say. *)
Known   == [t \in Team |-> IF t = t1 THEN {u2} ELSE {u1}]
Unknown == [t \in Team |-> {}]

MCConfig ==
  [requireUpToDate : BOOLEAN, requireChecks : BOOLEAN, freshness : {0, 1}, maxBehind : {0, 1}]

Strict == [requireUpToDate |-> TRUE, requireChecks |-> TRUE, freshness |-> 1, maxBehind |-> 0]

(* What gatherGateInputs and the preview snapshot can produce: a stack that  *)
(* is not in the snapshot has not succeeded, and an unavailable history      *)
(* shows no stack.                                                           *)
MCInputs ==
  {i \in [fork : BOOLEAN, forkOptIn : BOOLEAN, draft : BOOLEAN, behind : {-1, 0, 1, 2},
          checks : BOOLEAN, found : BOOLEAN, age : {0, 2}, succeeded : BOOLEAN,
          approved : {FALSE}, acquired : {FALSE}, frozen : {FALSE}, policy : {"none"},
          breakGlass : {FALSE}, overrideFreeze : {FALSE}, unavailable : BOOLEAN] :
     /\ ~i.found => ~i.succeeded /\ i.age = 0
     /\ i.unavailable => ~i.found
     /\ ~i.fork => ~i.forkOptIn}

Green ==
  [fork |-> FALSE, forkOptIn |-> FALSE, draft |-> FALSE, behind |-> 0, checks |-> TRUE,
   found |-> TRUE, age |-> 0, succeeded |-> TRUE, approved |-> FALSE, acquired |-> FALSE,
   frozen |-> FALSE, policy |-> "none", breakGlass |-> FALSE, overrideFreeze |-> FALSE,
   unavailable |-> FALSE]

Waiting(pr, r) == [pr |-> pr, run |-> r]

Mine == Waiting(p1, r1)

(* Every lock three pull requests may leave that involves the run's own with *)
(* two runs: free, held or promoted, expired or not, with and without        *)
(* waiters.                                                                  *)
MCLock ==
  {l \in [holder : {NoHolder} \cup
                    {[pr |-> w.pr, run |-> w.run, expires |-> e, promoted |-> b] :
                       w \in {Mine, Waiting(p1, r2), Waiting(p2, r3)},
                       e \in {Now - 1, Now, Missing, Unparseable}, b \in BOOLEAN},
          queue : {<< >>, <<Mine>>, <<Waiting(p1, r2)>>, <<Waiting(p3, r4)>>,
                   <<Mine, Waiting(p3, r4)>>, <<Waiting(p3, r4), Waiting(p1, r2)>>}] :
     LockOK(l)}

HeldBy(w) == [holder |-> [pr |-> w.pr, run |-> w.run, expires |-> Now + 1, promoted |-> FALSE],
              queue  |-> << >>]

MCWindow ==
  [fires : SUBSET (0..(Now + 1)), duration : 0..(Now + 1), matches : BOOLEAN, parses : {TRUE}]
  \cup [fires : {{}}, duration : {1}, matches : BOOLEAN, parses : {FALSE}]

Always == [fires |-> {Now - 1}, duration |-> 3, matches |-> TRUE, parses |-> TRUE]

MCBreakGlass ==
  [configured : BOOLEAN, list : {{}, {u1}, {t2}}, codeowners : BOOLEAN, anyone : BOOLEAN,
   unsupported : BOOLEAN, rejectSelf : BOOLEAN, overrideFreeze : BOOLEAN]

Lenient ==
  [configured |-> TRUE, list |-> {u1}, codeowners |-> FALSE, anyone |-> FALSE,
   unsupported |-> FALSE, rejectSelf |-> FALSE, overrideFreeze |-> TRUE]

MCHook(onFail, required, exit) ==
  [command |-> TRUE, onFail |-> onFail, required |-> required, present |-> TRUE,
   prepared |-> TRUE, exit |-> exit]

Content == MCHook("omitted", "omitted", "zero")
Strong  == MCHook("block", "yes", "nonzero")

(* One hook of every kind, alone and beside one that is content or warns. *)
Hooking ==
  [default : {OneApproval}, layers : {{}}, raw : {Approved}, pr : {MCPull(TRUE)}, owners : {NoOwners},
   live : {Known}, cfg : {Strict}, in : {Green, [Green EXCEPT !.found = FALSE, !.succeeded = FALSE,
                                                              !.unavailable = TRUE]},
   hooks : {{h} \cup hs : h \in Configured, hs \in {{}, {Content}, {MCHook("warn", "yes", "nonzero")}}},
   written : BOOLEAN, windows : {<< >>}, emergency : BOOLEAN, order : {ByFlag}, bg : {Lenient}, actor : {u1},
   touched : {FALSE},
   lock : {NewLock}, self : {Mine}]

Approving ==
  [default : MCRules, layers : {{}}, raw : SUBSET MCRaw, pr : {MCPull(b) : b \in BOOLEAN}, owners : MCOwners,
   live : {Known, Unknown}, cfg : {Strict}, in : {Green}, hooks : {{}}, written : {TRUE}, windows : {<< >>},
   emergency : {FALSE}, order : {ByFlag}, bg : {Lenient}, actor : {u1}, touched : {FALSE},
   lock : {NewLock}, self : {Mine}]

Gating ==
  [default : {OneApproval}, layers : {{}}, raw : {{}, Approved}, pr : {MCPull(TRUE)}, owners : {NoOwners},
   live : {Known}, cfg : MCConfig, in : MCInputs, hooks : {{}, {Content}, {Strong}}, written : {TRUE},
   windows : {<< >>, <<Always>>}, emergency : BOOLEAN, order : {ByFlag}, bg : {Lenient}, actor : {u1},
   touched : {FALSE},
   lock : {NewLock, HeldBy(Waiting(p2, r3))}, self : {Mine}]

Locking ==
  [default : {OneApproval}, layers : {{}}, raw : {{}, Approved}, pr : {MCPull(TRUE)}, owners : {NoOwners},
   live : {Known}, cfg : {Strict}, in : {Green, [Green EXCEPT !.draft = TRUE]}, hooks : {{}, {Content}},
   written : {TRUE}, windows : {<< >>}, emergency : BOOLEAN, order : {ByFlag}, bg : {Lenient}, actor : {u1},
   touched : {FALSE}, lock : MCLock, self : {Mine}]

Freezing ==
  [default : {OneApproval}, layers : {{}}, raw : {Approved}, pr : {MCPull(TRUE)}, owners : {NoOwners},
   live : {Known}, cfg : {Strict}, in : {Green}, hooks : {{}}, written : {TRUE},
   windows : {<<w>> : w \in MCWindow} \cup {<<w, Always>> : w \in MCWindow}
               \cup {<<Always, w>> : w \in MCWindow},
   emergency : {FALSE}, order : {ByFlag}, bg : {Lenient}, actor : {u1}, touched : {FALSE},
   lock : {NewLock}, self : {Mine}]

Breaking ==
  [default : {OneApproval}, layers : {{}}, raw : {{}, Approved}, pr : {MCPull(TRUE)}, owners : MCOwners,
   live : {Known, Unknown}, cfg : {Strict}, in : {Green}, hooks : {{}}, written : {TRUE},
   windows : {<< >>, <<Always>>}, emergency : {TRUE}, order : MCOrders, bg : MCBreakGlass,
   actor : {author, u1, u2, NoActor}, touched : BOOLEAN,
   lock : {NewLock}, self : {Mine}]

MCLayer(lit, wild, present, required, freshness, approvers) ==
  [literals |-> lit, wildcards |-> wild, present |-> present,
   rules |-> [OneApproval EXCEPT !.required = required, !.freshness = freshness,
                                 !.approvers = approvers]]

(* What `**', `pay/*', `*ay/prod' and `pay/prod' may set for pay/prod.  No   *)
(* two are equally specific: between such the iteration order of a Go map    *)
(* decides, and two processes may go by different rules.                     *)
MCLayers ==
  {MCLayer(0, 2, {"required"}, 0, 0, {u2}), MCLayer(4, 1, {"required", "freshness"}, 2, 1, {}),
   MCLayer(7, 1, {"freshness"}, 1, 0, {t1}), MCLayer(8, 0, {"required"}, 1, 0, {})}

Layering ==
  [default : {OneApproval, [OneApproval EXCEPT !.approvers = {}]}, layers : SUBSET MCLayers,
   raw : SUBSET MCRaw, pr : {MCPull(TRUE)}, owners : {NoOwners}, live : {Known}, cfg : {Strict},
   in : {Green}, hooks : {{}}, written : {TRUE}, windows : {<< >>}, emergency : {FALSE}, order : {ByFlag}, bg : {Lenient},
   actor : {u1}, touched : {FALSE},
   lock : {NewLock}, self : {Mine}]

MCQuestion == Approving \cup Layering \cup Gating \cup Locking \cup Hooking \cup Freezing \cup Breaking

=============================================================================
