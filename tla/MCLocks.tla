-------------------------------- MODULE MCLocks --------------------------------
(* Instances of Locks for TLC. *)
EXTENDS Locks, TLC

CONSTANTS p1, p2, p3, r1, r2, r3, r4

(* Two runs of p1, one of each other pull request. *)
MCPRof == (r1 :> p1) @@ (r2 :> p1) @@ (r3 :> p2) @@ (r4 :> p3)

(* A lock whose expires_at cannot be parsed, with a waiter behind it. *)
MCSeeds ==
  {[holder |-> [pr |-> p1, run |-> r1, expires |-> e, promoted |-> FALSE],
    queue  |-> <<[pr |-> p2, run |-> r3]>>] : e \in {Unparseable, Missing}}

=============================================================================
