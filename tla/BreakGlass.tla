------------------------------- MODULE BreakGlass -------------------------------
(***************************************************************************)
(* Authorization of emergency applies (internal/core/breakglass): who may  *)
(* break the glass on a pull request, and by which source.  Groups of      *)
(* external identity providers and vcs_bypass are configurable and not yet *)
(* supported.                                                              *)
(***************************************************************************)
EXTENDS Approvals, Sequences

CONSTANT NoActor    \* the empty login

(* bg is [configured, list, codeowners, anyone, unsupported, rejectSelf,     *)
(* overrideFreeze]; touched says whether the pull request changes a reeve    *)
(* configuration or CODEOWNERS file.                                         *)
HasSource(bg) == bg.list # {} \/ bg.codeowners \/ bg.anyone \/ bg.unsupported

(* A login that owns some changed path, itself or through a team. *)
OwnsAny(owners, actor, teams) ==
  \E p \in DOMAIN owners : actor \in Eligible(owners[p], teams)

(* The source that grants the emergency apply, the narrowest one first. *)
Authorize(bg, actor, owners, teams, touched) ==
  CASE ~bg.configured \/ ~HasSource(bg) \/ bg.unsupported -> "error"
    [] OTHER ->
       IF actor = NoActor \/ (bg.rejectSelf /\ touched) THEN "denied"
       ELSE IF actor \in Eligible(bg.list, teams) THEN "internal_list"
       ELSE IF bg.codeowners /\ OwnsAny(owners, actor, teams) THEN "codeowners"
       ELSE IF bg.anyone THEN "anyone"
       ELSE "denied"

(* ParseCommand.  The first line of a comment as its tokens: "quoted" is a   *)
(* quoted text, "blank" a quoted one of nothing but spaces, "open" a text    *)
(* whose quote is not closed.  Only a trailing --force may follow the verb.  *)
ParseCommand(line) ==
  /\ Len(line) \in 4..5
  /\ SubSeq(line, 1, 4) = <<"/reeve", "breakglass", "quoted", "apply">>
  /\ Len(line) = 5 => line[5] \in {"--force", "force"}

(* The reason an emergency apply must state: in a flag, else in the comment  *)
(* that triggered it.                                                        *)
Justified(order) == order.flag \/ ParseCommand(order.line)

Granted(verdict) == verdict \notin {"error", "denied"}

=============================================================================
