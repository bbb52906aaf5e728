------------------------------ MODULE MCMessages ------------------------------
(* Instances of Messages for TLC. *)
EXTENDS Messages, TLC

CONSTANTS p1, p2, p3, u1, u2, bot, ada

Ev(e, r, u, q) == [ev |-> e, run |-> r, url |-> u, requested |-> q, by |-> None]
Plan(r, u, q)  == <<Ev("planning", r, u, q), Ev("plan", r, u, q)>>

(* The plan of an earlier version is known by its URL only. *)
MCLegacy == <<Ev("planning", None, u1, FALSE)>>

Job(k, todo, parts) == [kind |-> k, todo |-> todo, parts |-> parts, after |-> {}]
Rerun(job, q) == [job EXCEPT !.after = {q}]

By(p, job) == [job EXCEPT !.todo = [i \in DOMAIN @ |-> [@[i] EXCEPT !.by = p]]]
Plays(a, b, c) == p1 :> By(p1, a) @@ p2 :> By(p2, b) @@ p3 :> By(p3, c)

(* Two workflows write with the token of Actions, somebody with her own. *)
MCAccount == p1 :> bot @@ p2 :> bot @@ p3 :> ada

Said(evs) == [i \in DOMAIN evs |-> Ev(evs[i], None, None, FALSE)]

Silent == Job("dash", Said(<<"failed">>), 0)
Apply(r) == Job("apply", <<Ev("applying", r, None, FALSE), Ev("applied", r, None, FALSE)>>, 0)
Series(r, u, q) == Job("series", Plan(r, u, q), 0)
Board(n) == Job("board", << >>, n)

MCCasts ==
  { Plays(Apply(p1), Apply(p2), Silent),
    Plays(Series(p1, u1, FALSE), Series(p2, u2, TRUE), Silent),
    Plays(Series(None, u1, FALSE), Series(p2, u1, TRUE), Silent),
    Plays(Series(p1, u1, FALSE), Job("series", <<Ev("plan", p2, u2, TRUE)>>, 0), Silent),
    Plays(Series(p1, u1, FALSE), Job("series", <<Ev("planning", p2, u2, TRUE)>>, 0),
          Rerun(Series(p1, u1, FALSE), p1)),
    Plays(Board(3), Board(1), Board(1)),
    Plays(Job("dash", Said(<<"plan", "applying">>), 0), Job("thread", Said(<<"plan", "applied">>), 0),
          Job("thread", Said(<<"ready">>), 0)),
    Plays(Job("dash", Said(<<"applied">>), 0), Job("dash", Said(<<"ready", "applied">>), 0),
          Job("thread", Said(<<"ready">>), 0)) }
=============================================================================
