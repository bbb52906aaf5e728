------------------------------ MODULE MCLockStore ------------------------------
(* Instances of LockStore for TLC. *)
EXTENDS LockStore, TLC

CONSTANTS p1, p2, r1, r2, r3

(* Two runs of p1 and one of p2; the run sets of the configurations are      *)
(* subsets of these.                                                         *)
MCPRof == [r \in Run |-> IF r \in {r1, r2} THEN p1 ELSE p2]

MCWorld(retries, late, admins, keys, last) ==
  [retries |-> retries, lost |-> late, admins |-> admins, keys |-> keys, last |-> last]

(* Two runs and one lock, with retries, with a late write, or with an        *)
(* administrator; two locks, for the walks over all of them.                 *)
MCWorlds ==
  {MCWorld(1, 0, {}, {"k1"}, 2), MCWorld(0, 1, {}, {"k1"}, 2), MCWorld(0, 0, Admin, {"k1"}, 2),
   MCWorld(0, 0, {}, {"k1", "k2"}, 0)}

(* r1 and r3 differ in their pull requests only. *)
Swap == {<<r1, r3, p1, p2>>, <<r3, r1, p2, p1>>}
Twins == {[x \in {r1, r3, p1, p2} |->
             CASE x = r1 -> w[1] [] x = r3 -> w[2] [] x = p1 -> w[3] [] x = p2 -> w[4]] :
            w \in Swap}

=============================================================================
