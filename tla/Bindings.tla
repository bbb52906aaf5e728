------------------------------- MODULE Bindings -------------------------------
(***************************************************************************)
(* Which credential providers a stack is given (internal/auth/binding.go). *)
(* Pure functions.  A binding is [matches, mode, providers, override,      *)
(* local, literals, wildcards]: the stacks its pattern matches, the mode   *)
(* it is for (AnyMode: all), lists of providers, and the counts that rank  *)
(* the pattern.  Order within a result is left out.                        *)
(***************************************************************************)
EXTENDS Integers, Sequences, FiniteSets, SequencesExt

CONSTANTS
  AnyMode,
  Domain,       \* the credential scope of each declared provider (scopeOfType)
  CIOnly        \* declared providers that only work in GitHub Actions

(* sameScope, for declared providers. *)
SameScope(a, b) == Domain[a] = Domain[b]

Rank(b) == b.literals - 2 * b.wildcards

(* Mutant of MoreSpecific: the mode is not looked at. *)
MoreSpecificPattern(a, b) == Rank(a) > Rank(b)

MoreSpecific(a, b) ==
  IF (a.mode = AnyMode) # (b.mode = AnyMode) THEN b.mode = AnyMode ELSE Rank(a) > Rank(b)

(* sortBindings: stable, the more specific later. *)
SortBindings(bs) ==
  LET after(i, j) == MoreSpecific(bs[i], bs[j]) \/ (~MoreSpecific(bs[j], bs[i]) /\ i > j)
      place(i)    == 1 + Cardinality({j \in DOMAIN bs : after(i, j)})
  IN [k \in DOMAIN bs |-> bs[CHOOSE i \in DOMAIN bs : place(i) = k]]

BindingMatches(b, stack, mode) == b.mode \in {AnyMode, mode} /\ stack \in b.matches

ReplaceScope(names, repl) == {x \in names : ~SameScope(x, repl)} \cup {repl}

(* replaceScope for each name of a list, in order. *)
Replacing(names, list) ==
  LET out[i \in 0..Len(list)] == IF i = 0 THEN names ELSE ReplaceScope(out[i - 1], list[i])
  IN out

ReplaceEach(names, list) == Replacing(names, list)[Len(list)]

(* The overrides of a binding replace, its providers are added. *)
Bind(names, b) == ReplaceEach(names, b.override) \cup b.providers

(* The first pass over the sorted bindings: what is resolved after each. *)
Resolving(sorted, stack, mode) ==
  LET out[i \in 0..Len(sorted)] ==
        IF i = 0 THEN {}
        ELSE IF BindingMatches(sorted[i], stack, mode) THEN Bind(out[i - 1], sorted[i])
        ELSE out[i - 1]
  IN out

(* The second: the `local' lists replace, from what the first has resolved. *)
Substituting(names, sorted, stack, mode) ==
  LET out[i \in 0..Len(sorted)] ==
        IF i = 0 THEN names
        ELSE IF BindingMatches(sorted[i], stack, mode) THEN ReplaceEach(out[i - 1], sorted[i].local)
        ELSE out[i - 1]
  IN out

(* ResolveWithOpts: only a local run makes the second pass; the substitutes  *)
(* of the command line come last.                                            *)
ResolveProviders(bs, stack, mode, isLocal, cli) ==
  LET sorted == SortBindings(bs)
      ci     == Resolving(sorted, stack, mode)[Len(bs)]
      subs   == Substituting(ci, sorted, stack, mode)[Len(bs)]
  IN IF isLocal THEN ReplaceEach(subs, cli) ELSE ci

(* Validate, which `reeve lint' runs: no CI-only provider in a local list,   *)
(* and no two providers of one scope for any stack and mode.                 *)
ValidBindings(bs, stacks, modes) ==
  /\ \A i \in DOMAIN bs : \A j \in DOMAIN bs[i].local : bs[i].local[j] \notin CIOnly
  /\ \A s \in stacks, m \in modes :
       \A x, y \in ResolveProviders(bs, s, m, FALSE, << >>) : SameScope(x, y) => x = y

=============================================================================
