------------------------------ MODULE MCApplyRun ------------------------------
(* Instances of ApplyRun for TLC. *)
EXTENDS ApplyRun, TLC

CONSTANTS p1, p2, r1, r2, r3, s1, s2, c1, c2

(* Two runs of p1 at the same commit, one run of p2. *)
MCPRof     == [r \in Run |-> IF r \in {r1, r2} THEN p1 ELSE p2]
MCCommitOf == [r \in Run |-> IF r \in {r1, r2} THEN c1 ELSE c2]

MCCast(targets, forced, emergency, refresh, dry, faults) ==
  [targets |-> targets, forced |-> forced, emergency |-> emergency,
   refresh |-> refresh, dry |-> dry, faults |-> faults]

Unclear == {"acquire_landed", "release_error"}
Failing == {"acquire_error", "write_error"}

(* Two applies of one pull request and a refresh of another whose calls fail *)
(* by signals only; two applies of one, and of two, pull requests, one of    *)
(* these an emergency; an apply and a refresh, an emergency of two stacks,   *)
(* a refresh of two or lost answers; a forced apply and a dry run.           *)
Three   == MCCast([r \in Run |-> <<s1>>], {}, {}, {r3}, {}, {})
Twins   == MCCast((r1 :> <<s1>>) @@ (r2 :> <<s1>>), {}, {}, {}, {}, Unclear)
Rivals  == MCCast((r1 :> <<s1>>) @@ (r3 :> <<s1>>), {}, {r3}, {}, {}, Failing)
Several == MCCast((r1 :> <<s1, s2>>) @@ (r3 :> <<s1>>), {}, {r1}, {r3}, {}, Failing)
Rewrite == MCCast((r1 :> <<s1>>) @@ (r3 :> <<s1, s2>>), {}, {}, {r3}, {}, {"acquire_error"})
Waiting == MCCast((r1 :> <<s1>>) @@ (r3 :> <<s1>>), {}, {}, {r3}, {}, Unclear)
Look    == MCCast((r2 :> <<s1>>) @@ (r3 :> <<s1>>), {r2}, {}, {r3}, {r3}, Failing)

(* r1 and r2 differ in nothing but their names and what a cast has them do: *)
(* with every cast also stands the one in which they have changed places,    *)
(* and then they are symmetric.                                              *)
Other(r) == IF r = r1 THEN r2 ELSE IF r = r2 THEN r1 ELSE r

Mirrored(c) ==
  [c EXCEPT !.targets   = [r \in {Other(q) : q \in DOMAIN c.targets} |-> c.targets[Other(r)]],
            !.forced    = {Other(r) : r \in c.forced},
            !.emergency = {Other(r) : r \in c.emergency}]

TwinRuns == Permutations({r1, r2})

Chosen  == {Three, Twins, Rivals, Several, Rewrite, Waiting, Look}
MCCasts == Chosen \cup {Mirrored(c) : c \in Chosen}

TwoPulls == {[Rivals EXCEPT !.emergency = {}, !.faults = {}]}

=============================================================================
