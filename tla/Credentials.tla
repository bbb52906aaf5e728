----------------------------- MODULE Credentials -----------------------------
(***************************************************************************)
(* auth.CredentialCache: the credentials of one command.  Its consumers    *)
(* ask for providers by name; concurrent requests for one provider share   *)
(* one acquisition, a drift check whose credential was rejected            *)
(* invalidates all, and Close cleans up everything the cache ever took.    *)
(*                                                                         *)
(* A consumer is a goroutine; its state is a record wk[c].  `names' are    *)
(* the providers still to acquire, `got' the clones it was handed, `then'  *)
(* where it goes with them.                                                *)
(***************************************************************************)
EXTENDS Integers, Sequences, FiniteSets, SequencesExt

CONSTANTS
  Consumer,     \* goroutines that ask for credentials
  Provider,     \* registered providers
  MaxMint,      \* bound: credentials the providers issue
  None

ASSUME MaxMintAssumption == MaxMint \in Nat

VARIABLES
  entry,        \* per provider: the cached credential (0: none) and who acquires one
  generation,   \* number of invalidations
  owned,        \* the credentials the cache must clean up, oldest first
  closed,
  cred,         \* every credential issued: [prov, born, soon, cleaned]
  wk            \* the consumers

cacheVars == <<entry, generation, owned, closed>>

(* What a waiter is told when the attempt it joined has ended. *)
NoAnswer == [kind |-> "none", id |-> 0]

Consumed(c, rec) == wk' = [wk EXCEPT ![c] = rec]

CacheInit ==
  /\ entry = [p \in Provider |-> [id |-> 0, by |-> None]]
  /\ generation = 0
  /\ owned = << >>
  /\ closed = FALSE
  /\ cred = << >>

(* credentialUsable: there is one and it does not expire within the margin. *)
Usable(id) == id # 0 /\ ~cred[id].soon

(* Mutant of CloneCredential: the consumer gets the cleanup, too. *)
CloneWithCleanup(id) == [id |-> id, cleanup |-> TRUE]

(* cloneCredential: a consumer never owns the cleanup. *)
CloneCredential(id) == [id |-> id, cleanup |-> FALSE]

(* AcquireAll goes on to the next name, or returns. *)
Took(c, rec, id) ==
  [rec EXCEPT !.got = @ \cup {CloneCredential(id)}, !.names = Tail(@), !.answer = NoAnswer,
              !.pc = IF Len(rec.names) = 1 THEN rec.then ELSE "request"]
Refused(rec) == [rec EXCEPT !.pc = rec.else, !.got = {}, !.names = << >>, !.answer = NoAnswer]

(* acquireOne up to the provider's call: all under the lock. *)
Request(c) ==
  LET p == Head(wk[c].names) IN
  /\ wk[c].pc = "request"
  /\ \/ /\ closed
        /\ Consumed(c, Refused(wk[c]))
        /\ UNCHANGED entry
     \/ /\ ~closed /\ Usable(entry[p].id)
        /\ Consumed(c, Took(c, wk[c], entry[p].id))
        /\ UNCHANGED entry
     \/ /\ ~closed /\ ~Usable(entry[p].id) /\ entry[p].by # None
        /\ Consumed(c, [wk[c] EXCEPT !.pc = "wait"])
        /\ UNCHANGED entry
     \/ /\ ~closed /\ ~Usable(entry[p].id) /\ entry[p].by = None
        /\ Consumed(c, [wk[c] EXCEPT !.pc = "acquire", !.began = generation])
        /\ entry' = [entry EXCEPT ![p].by = c]
  /\ UNCHANGED <<generation, owned, closed, cred>>

(* provider.Acquire, outside the lock.  A credential that expires too soon   *)
(* is cleaned up and counts as a failure.                                    *)
ProviderAnswers(c) ==
  /\ wk[c].pc = "acquire"
  /\ \/ /\ Len(cred) < MaxMint
        /\ \E soon \in BOOLEAN :
             /\ cred' = Append(cred, [prov |-> Head(wk[c].names), born |-> wk[c].began,
                                      soon |-> soon, cleaned |-> IF soon THEN 1 ELSE 0])
             /\ Consumed(c, [wk[c] EXCEPT !.pc = "settle", !.new = IF soon THEN 0 ELSE Len(cred) + 1])
     \/ UNCHANGED cred /\ Consumed(c, [wk[c] EXCEPT !.pc = "settle", !.new = 0])
  /\ UNCHANGED cacheVars

Waiting(p) == {w \in Consumer : wk[w].pc = "wait" /\ Head(wk[w].names) = p
                                /\ wk[w].answer = NoAnswer}

(* Mutant of Outcome: the generation is not looked at. *)
OutcomeAnyGeneration(c) ==
  CASE wk[c].new = 0 \/ closed  -> [kind |-> "error", id |-> 0]
    [] OTHER                    -> [kind |-> "ok", id |-> wk[c].new]

(* How the attempt ends: an error, a credential, or, if it was invalidated   *)
(* meanwhile, another try.                                                   *)
Outcome(c) ==
  IF wk[c].new = 0 \/ closed THEN [kind |-> "error", id |-> 0]
  ELSE IF generation # wk[c].began THEN [kind |-> "retry", id |-> 0]
  ELSE [kind |-> "ok", id |-> wk[c].new]

(* The cache owns every success, also one that was invalidated. *)
Owned(c) == IF wk[c].new # 0 /\ ~closed THEN Append(owned, wk[c].new) ELSE owned

(* A waiter or the acquirer goes on with an outcome. *)
GoOn(c, rec, o) ==
  CASE o.kind = "ok"    -> Took(c, rec, o.id)
    [] o.kind = "retry" -> [rec EXCEPT !.pc = "request", !.answer = NoAnswer]
    [] OTHER            -> Refused(rec)

(* Mutant of Told: waiters learn of successes only. *)
ToldOfSuccess(c) == IF Outcome(c).kind = "error" THEN {} ELSE Waiting(Head(wk[c].names))

(* close(attempt.ready) *)
Told(c) == Waiting(Head(wk[c].names))

(* acquireOne after the call, under the lock again.  When the cache has been *)
(* closed meanwhile nobody will clean the credential up but the acquirer.    *)
Settle(c) ==
  LET p == Head(wk[c].names)
      o == Outcome(c)
  IN /\ wk[c].pc = "settle"
     /\ owned' = Owned(c)
     /\ entry' = [entry EXCEPT ![p] = [id |-> IF o.kind = "ok" THEN o.id ELSE @.id, by |-> None]]
     /\ cred' = IF closed /\ wk[c].new # 0 THEN [cred EXCEPT ![wk[c].new].cleaned = @ + 1] ELSE cred
     /\ wk' = [x \in Consumer |->
                 IF x = c THEN GoOn(c, [wk[c] EXCEPT !.new = 0], o)
                 ELSE IF x \in Told(c) THEN [wk[x] EXCEPT !.answer = o] ELSE wk[x]]
     /\ UNCHANGED <<generation, closed>>

Wake(c) ==
  /\ wk[c].pc = "wait"
  /\ wk[c].answer # NoAnswer
  /\ Consumed(c, GoOn(c, wk[c], wk[c].answer))
  /\ UNCHANGED <<cacheVars, cred>>

(* The context of a waiter ends. *)
StopWaiting(c) ==
  /\ wk[c].pc = "wait"
  /\ Consumed(c, Refused(wk[c]))
  /\ UNCHANGED <<cacheVars, cred>>

(* A cached credential comes near its expiry. *)
Age ==
  \E p \in Provider :
    /\ Usable(entry[p].id)
    /\ cred' = [cred EXCEPT ![entry[p].id].soon = TRUE]
    /\ UNCHANGED <<cacheVars, wk>>

Invalidated == [p \in Provider |-> [entry[p] EXCEPT !.id = 0]]

(* InvalidateAll by c, which goes on with rec. *)
InvalidateAll(c, rec) ==
  /\ entry' = Invalidated
  /\ generation' = generation + 1
  /\ Consumed(c, [rec EXCEPT !.since = generation + 1])
  /\ UNCHANGED <<owned, closed, cred>>

CleanedUp(ids) == [i \in DOMAIN cred |-> IF i \in ids THEN [cred[i] EXCEPT !.cleaned = @ + 1]
                                                     ELSE cred[i]]

(* credentialCleanup of a consumer: what its clones let it clean. *)
ReleaseClones(c) == CleanedUp({g.id : g \in {x \in wk[c].got : x.cleanup}})

CloseCache ==
  /\ ~closed
  /\ closed' = TRUE
  /\ cred' = CleanedUp(ToSet(owned))
  /\ UNCHANGED <<entry, generation, owned>>
=============================================================================
