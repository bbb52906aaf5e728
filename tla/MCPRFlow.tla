------------------------------- MODULE MCPRFlow -------------------------------
(* Instances of PRFlow for TLC. *)
EXTENDS PRFlow, TLC

CONSTANTS c1, c2, s1, s2, v1, v2, v3, v4, a1, a2, a3, old

(* Two attempts of one CI run, and two more runs; v4 is not told its head. *)
MCIdent == v1 :> <<1, 1>> @@ v2 :> <<1, 2>> @@ v3 :> <<2, 1>> @@ v4 :> <<2, 2>>

(* The age limit is max_age for a1 and a2 and disabled for a3. *)
MCFreshness == a1 :> 1 @@ a2 :> 1 @@ a3 :> 0

Body(who, sha, health) ==
  [pr |-> health, by |-> who, id |-> <<0, 1>>, sha |-> sha, created |-> 0,
   res |-> s1 :> [status |-> "planned", plan |-> FALSE]]
Old(sha, health) ==
  [kind |-> "manifest", id |-> <<0, 1>>, sha |-> sha]
    :> [ver |-> old, mod |-> 0, body |-> Body(old, sha, health)]

MCScopes == [x \in Preview \cup Apply |-> IF x \in {v3, v4} THEN SUBSET Stack ELSE {{}, {s1}}]

(* Two previews and an apply from nothing; a preview and a forced apply, and *)
(* two applies, after an earlier apply left its marker; a preview and an     *)
(* apply that finds an earlier manifest, each in two ways; a damaged one.    *)
Marked ==
  [kind |-> "applied", sha |-> c1] :> [ver |-> old, mod |-> 0, body |-> Nothing]

MCSetups ==
  { [bucket |-> << >>, starts |-> {v1, v2, a1}],
    [bucket |-> Marked, starts |-> {v1, a2}],
    [bucket |-> Marked, starts |-> {a1, a2}],
    [bucket |-> Old(c1, "ok"), starts |-> {v3, a1}],
    [bucket |-> Old(c1, "ok"), starts |-> {v4, a3}],
    [bucket |-> Old(c1, "damaged"), starts |-> {a1, a2}] }
=============================================================================
