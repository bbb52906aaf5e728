----------------------------- MODULE MCCommandRun -----------------------------
(* Instances of CommandRun for TLC. *)
EXTENDS CommandRun, TLC

CONSTANTS s1, s2, s3, d1, d2, p1, p2, w1, w2

(* Two workspaces of one directory, in the order of their references, and a  *)
(* stack elsewhere.                                                          *)
MCDir == s1 :> d1 @@ s2 :> d1 @@ s3 :> d2
MCName == s1 :> "blue" @@ s2 :> "green" @@ s3 :> "default"
MCNeeds == s1 :> <<p1>> @@ s2 :> <<p2, p1>> @@ s3 :> <<p1>>

(* The default workspace beside a named one. *)
DefaultAmong == s1 :> "blue" @@ s2 :> "default" @@ s3 :> "default"

Command(kind, targets, workers, vcs, touches) ==
  [kind |-> kind, targets |-> targets, workers |-> workers, vcs |-> vcs, touches |-> touches]

MCWorlds ==
  { Command("preview", <<s1, s2, s3>>, {w1, w2}, "listed", {}),
    Command("drift", <<s1, s3>>, {w1, w2}, "none", {}),
    Command("drift", <<s2>>, {w1}, "none", {}) }
  \cup { Command("preview", ts, {w1}, vcs, touches) :
           ts \in {<< >>, <<s1>>}, vcs \in {"listed", "error", "none", "local"},
           touches \in SUBSET {"channels", "otel"} }

(* Two drift checks at once in one directory. *)
SharedDrift == {Command("drift", <<s1, s2>>, {w1, w2}, "none", {})}
=============================================================================
