--------------------------------- MODULE Scope ---------------------------------
(***************************************************************************)
(* From changed files to stacks and owners: discovery                      *)
(* (internal/core/discovery) and CODEOWNERS (internal/vcs/codeowners).     *)
(* Pure functions.  A path is the sequence of its segments; a file is      *)
(* [path, config], where config is the stack n of a file Pulumi.n.yaml;    *)
(* the globs of the configuration are the sets of paths they match.        *)
(***************************************************************************)
EXTENDS Integers, Sequences, FiniteSets

CONSTANT NoStack        \* the config of a file that is not Pulumi.n.yaml

Below(dir, path) == Len(dir) <= Len(path) /\ SubSeq(path, 1, Len(dir)) = dir

(* scopeChangedFiles: paths relative to the configured root; others dropped. *)
ScopeChangedFiles(files, root) ==
  {[f EXCEPT !.path = SubSeq(@, Len(root) + 1, Len(@))] : f \in {x \in files : Below(root, x.path)}}

-----------------------------------------------------------------------------
(* Stacks [project, name, path]; declarations [paths, stacks] with a literal *)
(* path or those a pattern matches; exclusions of paths and of stacks.       *)
Declared(s, decls) == \E d \in decls : s.path \in d.paths /\ s.name \in d.stacks

DeclaredStacks(enumerated, decls, exclude) ==
  {s \in enumerated : Declared(s, decls) /\ s.path \notin exclude.paths /\ s \notin exclude.stacks}

UniqueRefs(stacks) ==
  \A s, t \in stacks : s.project = t.project /\ s.name = t.name => s = t

(* fileMatchesStack: a file directly in the directory of a stack that        *)
(* configures one stack concerns that stack; everything else in the          *)
(* directory or below it concerns all stacks there.                          *)
FileMatchesStack(s, f) ==
  /\ Below(s.path, f.path)
  /\ f.config # NoStack /\ Len(f.path) = Len(s.path) + 1 => f.config = s.name

Triggers(s, f, cm) == s.project \in DOMAIN cm.triggers /\ f.path \in cm.triggers[s.project]

Claims(s, f, cm) == FileMatchesStack(s, f) \/ Triggers(s, f, cm)

(* Mutant of AffectedDetailed: one match is enough not to broaden. *)
AffectedIfAny(stacks, files, cm) ==
  LET load    == {f \in files : f.path \notin cm.skip}
      matched == {s \in stacks : \E f \in load : Claims(s, f, cm)}
      orphans == {f \in load : ~\E s \in matched : Claims(s, f, cm)}
  IN IF orphans # {} /\ matched = {} /\ cm.scope # "pulumi_only"
     THEN [reason |-> "broadened", stacks |-> stacks, matched |-> matched]
     ELSE [reason |-> "matched", stacks |-> matched, matched |-> matched]

(* AffectedDetailed: without a file that counts, nothing; with one no stack  *)
(* claims, every stack, unless the scope forbids it.                         *)
AffectedDetailed(stacks, files, cm) ==
  LET load    == {f \in files : f.path \notin cm.skip}
      matched == {s \in stacks : \E f \in load : Claims(s, f, cm)}
      orphans == {f \in load : ~\E s \in matched : Claims(s, f, cm)}
  IN CASE load = {} -> [reason |-> "docs_only", stacks |-> {}, matched |-> {}]
       [] load # {} /\ orphans # {} /\ cm.scope # "pulumi_only" ->
            [reason |-> "broadened", stacks |-> stacks, matched |-> matched]
       [] OTHER -> [reason |-> "matched", stacks |-> matched, matched |-> matched]

(* What apply takes when no manifest of the commit binds it: never more than *)
(* what was matched.                                                         *)
ApplyScope(res) == IF res.reason = "broadened" THEN res.matched ELSE res.stacks

-----------------------------------------------------------------------------
(* CODEOWNERS.  A rule is [pattern, owners] with pattern [segs, anchored,    *)
(* dir]: a pattern with a slash before its end starts at the root of the     *)
(* repository, others at any depth; `dir' is a trailing slash; the last      *)
(* segment may be a wildcard.                                                *)
SegsMatch(segs, path, d) ==
  /\ d + Len(segs) <= Len(path)
  /\ \A i \in DOMAIN segs : segs[i] \in {"*", path[d + i]}

(* match: a directory owns what is below it, a wildcard only its children. *)
OwnerMatch(pattern, path) ==
  \E d \in 0..(IF pattern.anchored THEN 0 ELSE Len(path)) :
    /\ SegsMatch(pattern.segs, path, d)
    /\ LET rest == Len(path) - d - Len(pattern.segs)
       IN IF pattern.dir THEN rest > 0
          ELSE rest = 0 \/ pattern.segs[Len(pattern.segs)] # "*"

(* codeowners.Resolve: the last match decides, also when it names nobody. *)
OwnersOf(rules, path) ==
  LET hits == {i \in DOMAIN rules : OwnerMatch(rules[i].pattern, path)}
  IN IF hits = {} THEN {} ELSE rules[CHOOSE i \in hits : \A j \in hits : j <= i].owners

ResolveOwners(rules, paths) ==
  [p \in {x \in paths : OwnersOf(rules, x) # {}} |-> OwnersOf(rules, p)]

=============================================================================
