--------------------------- MODULE CommandRunProofs ---------------------------
(***************************************************************************)
(* Proofs about one command: its credentials, its goroutines and its       *)
(* directories, for any number of workers, stacks and providers.           *)
(***************************************************************************)
EXTENDS CommandRun, WellFoundedInduction, TLAPS

Fields == {"pc", "names", "got", "new", "began", "answer", "then", "else", "todo", "env",
           "since", "rebound"}
Asking == {"request", "wait", "acquire", "settle"}
MainPCs == {"start", "open", "login", "denied", "work", "manifest", "board", "notify", "close",
            "end"} \cup Asking
WorkerPCs == {"idle", "off", "merge", "select", "plan", "expired", "restate", "refused"}
             \cup Asking

Credential == [prov : Provider, born : Nat, soon : BOOLEAN, cleaned : {0, 1}]

(* The credentials the cache has taken. *)
Kept == ToSet(owned)

(* Credential i is the cache's and not older than the given invalidation. *)
Fresh(i, since) == i \in Kept /\ cred[i].born >= since

(* A goroutine c in state x: where it is, what it asks for, what it was told. *)
Shape(c, x) ==
  /\ DOMAIN x = Fields
  /\ x.pc \in IF c = Main THEN MainPCs ELSE WorkerPCs
  /\ x.names \in Seq(Provider)
  /\ x.pc \in Asking =>
       /\ x.names # << >>
       /\ x.then \in IF c = Main THEN {"login"} ELSE {"merge", "restate"}
       /\ x.else = IF c = Main THEN "denied" ELSE "refused"
  /\ x.pc = "restate" => x.else = "refused"
  /\ DOMAIN x.answer = {"kind", "id"}
  /\ x.answer.kind \in {"none", "ok", "error", "retry"}
  /\ x.pc # "wait" => x.answer = NoAnswer
  /\ (c = Main \/ x.pc \in {"idle", "off"}) <=> x.todo = {}

(* The credentials and the stacks it has. *)
Data(x) ==
  /\ x.began \in 0..generation /\ x.since \in 0..generation
  /\ \A g \in x.got : g.cleanup = FALSE /\ Fresh(g.id, x.since)
  /\ x.answer.kind = "ok" => Fresh(x.answer.id, x.since)
  /\ x.env \subseteq Kept
  /\ x.todo \subseteq DOMAIN world.targets

RecOK(c, x) == Shape(c, x) /\ Data(x)

(* A credential that its acquirer has and the cache not yet. *)
NewOK(x) ==
  x.new # 0 => /\ x.pc = "settle"
               /\ x.new \in DOMAIN cred \ Kept
               /\ cred[x.new].cleaned = 0 /\ cred[x.new].born = x.began

CredsOK ==
  /\ cred \in Seq(Credential)
  /\ owned \in Seq(DOMAIN cred)
  /\ \A i \in DOMAIN cred :
       /\ i \in Kept => cred[i].cleaned = IF closed THEN 1 ELSE 0
       /\ cred[i].cleaned = 0 /\ i \notin Kept => \E c \in Consumer : wk[c].new = i
  /\ stateEnv \subseteq Kept
  /\ \A r \in ran : \A i \in r.own : Fresh(i, r.since)

EntriesOK ==
  /\ entry \in [Provider -> [id : Nat, by : Consumer \cup {None}]]
  /\ \A p \in Provider :
       /\ entry[p].id # 0 => entry[p].id \in Kept /\ cred[entry[p].id].born = generation
       /\ entry[p].by # None => /\ wk[entry[p].by].pc \in {"acquire", "settle"}
                                /\ Head(wk[entry[p].by].names) = p

(* Who acquires is registered, who waits without an answer waits for someone *)
(* registered, and no credential has two acquirers.                          *)
Acquiring ==
  /\ \A c \in Consumer : wk[c].pc \in {"acquire", "settle"} => entry[Head(wk[c].names)].by = c
  /\ \A c \in Consumer : wk[c].pc = "wait" /\ wk[c].answer = NoAnswer =>
                           entry[Head(wk[c].names)].by # None
  /\ \A c, d \in Consumer : c # d /\ wk[c].new # 0 => wk[c].new # wk[d].new

CacheInv ==
  /\ generation \in Nat /\ closed \in BOOLEAN
  /\ DOMAIN wk = Consumer
  /\ \A c \in Consumer : RecOK(c, wk[c]) /\ NewOK(wk[c])
  /\ CredsOK
  /\ EntriesOK
  /\ Acquiring

(* The main goroutine waits for its workers, and ends with a closed cache or *)
(* without ever having filled one.                                           *)
NoTargets == ~Drifting /\ world.targets = << >>
MainInv ==
  /\ world \in Worlds
  /\ closed => wk[Main].pc = "end"
  /\ wk[Main].pc \in {"start", "open"} \/ NoTargets => cred = << >>
  /\ NoTargets => wk[Main].pc \in {"start", "manifest", "board", "notify", "end"}
  /\ wk[Main].pc \in {"open", "manifest", "board", "notify"} => ~Drifting
  /\ wk[Main].pc = "end" => closed \/ cred = << >>
  /\ wk[Main].pc # "work" => \A w \in Worker : wk[w].pc \in {"idle", "off"}

(* Positions of A and of B are in different directories. *)
Apart(A, B) == \A i \in A, j \in B : Dir[world.targets[i]] # Dir[world.targets[j]]

(* Outside drift runs, nobody else works in the directory of a worker. *)
DirInv ==
  /\ \A g \in queue : g \subseteq DOMAIN world.targets /\ g # {}
  /\ ~Drifting =>
       /\ \A g, h \in queue : g = h \/ Apart(g, h)
       /\ \A g \in queue, w \in Worker : Apart(g, wk[w].todo)
       /\ \A v, w \in Worker : v # w => Apart(wk[v].todo, wk[w].todo)
       /\ \A w \in Worker : wk[w].pc = "plan" =>
            LET s == Cur(wk[w].todo) IN Name[s] # "default" => ws[Dir[s]] = Name[s]
  /\ DOMAIN ws = {Dir[s] : s \in Stack}
  /\ PlannedInOwnWorkspace

IInv == CacheInv /\ MainInv /\ DirInv

-----------------------------------------------------------------------------
(* Lemmas. *)

(* A set of positions has a first one. *)
LEMMA FirstIsIn ==
  ASSUME NEW S \in SUBSET Nat, S # {}
  PROVE  Min(S) \in S
<1>1. PICK x \in S : \A y \in S : ~(<<y, x>> \in OpToRel(<, Nat))
  BY NatLessThanWellFounded, WFMin
<1>2. \A y \in S : ~(y < x) BY <1>1 DEF OpToRel
<1>3. \A y \in S : x <= y BY <1>2
<1> QED BY <1>3 DEF Min

(* What the cache has taken was issued. *)
LEMMA KeptIssued ==
  ASSUME CredsOK
  PROVE  /\ Kept \subseteq DOMAIN cred
         /\ DOMAIN cred = 1..Len(cred)
         /\ \A i \in DOMAIN cred : cred[i] \in Credential
<1>1. owned \in Seq(DOMAIN cred) BY DEF CredsOK
<1>2. \A i \in DOMAIN owned : owned[i] \in DOMAIN cred BY <1>1
<1>3. Kept \subseteq DOMAIN cred BY <1>2 DEF Kept, ToSet
<1>4. cred \in Seq(Credential) BY DEF CredsOK
<1> QED BY <1>3, <1>4

(* A step of one goroutine that leaves the cache alone. *)
LEMMA Quiet ==
  ASSUME CacheInv, NEW c \in Consumer, NEW rec,
         RecOK(c, rec),
         wk' = [wk EXCEPT ![c] = rec],
         wk[c].pc \notin {"acquire", "settle"}, rec.pc \notin {"acquire", "settle"},
         rec.pc = "wait" /\ rec.answer = NoAnswer => entry[Head(rec.names)].by # None,
         rec.new = 0,
         UNCHANGED <<cacheVars, cred, world>>,
         stateEnv' \subseteq Kept,
         \A r \in ran' \ ran : \A i \in r.own : Fresh(i, r.since)
  PROVE  CacheInv'
<1> USE DEF cacheVars
<1>1. Kept' = Kept BY DEF Kept
<1>2. \A x, d : RecOK(d, x)' <=> RecOK(d, x)
  BY <1>1 DEF RecOK, Shape, Data, Fresh
<1>3. DOMAIN wk' = Consumer /\ wk'[c] = rec /\ \A d \in Consumer \ {c} : wk'[d] = wk[d]
  BY DEF CacheInv
<1>4. wk[c].new = 0 BY DEF CacheInv, NewOK
<1>5. ASSUME NEW d \in Consumer PROVE (RecOK(d, wk[d]) /\ NewOK(wk[d]))'
  <2>1. CASE d = c
    <3>1. RecOK(c, rec)' BY <1>2
    <3>2. NewOK(rec) BY DEF NewOK
    <3> QED BY <2>1, <3>1, <3>2, <1>1, <1>3 DEF RecOK, Shape, Data, NewOK, Fresh
  <2>2. CASE d # c
    BY <2>2, <1>1, <1>3 DEF CacheInv, RecOK, Shape, Data, NewOK, Fresh
  <2> QED BY <2>1, <2>2
<1>6. CredsOK'
  <2>1. \A d \in Consumer : wk'[d].new = wk[d].new BY <1>3, <1>4
  <2>2. \A r \in ran' : \A i \in r.own : Fresh(i, r.since)
    BY DEF CacheInv, CredsOK
  <2> QED BY <2>1, <2>2, <1>1 DEF CacheInv, CredsOK, Fresh
<1>7. EntriesOK'
  BY <1>1, <1>3 DEF CacheInv, EntriesOK
<1>8. Acquiring'
  BY <1>3, <1>4 DEF CacheInv, Acquiring
<1> QED BY <1>3, <1>5, <1>6, <1>7, <1>8 DEF CacheInv

(* A consumer goes on with an outcome: with the credential, again, or not. *)
Onward(c, x, y) ==
  /\ Shape(c, y)
  /\ y.pc \notin {"wait", "acquire", "settle"}
  /\ y.answer = NoAnswer
  /\ \A f \in {"new", "began", "since", "env", "todo"} : y[f] = x[f]

LEMMA TookOK ==
  ASSUME NEW c, NEW x, Shape(c, x), x.pc \in Asking, NEW i
  PROVE  LET y == Took(c, x, i) IN Onward(c, x, y) /\ y.got = x.got \cup {CloneCredential(i)}
<1> PICK y : y = Took(c, x, i) OBVIOUS
<1>1. /\ DOMAIN y = Fields
      /\ \A f \in Fields \ {"got", "names", "answer", "pc"} : y[f] = x[f]
      /\ y.got = x.got \cup {CloneCredential(i)}
      /\ y.names = Tail(x.names)
      /\ y.answer = NoAnswer
      /\ y.pc = IF Len(x.names) = 1 THEN x.then ELSE "request"
  BY DEF Shape, Took, Fields
<1>2. x.names \in Seq(Provider) /\ x.names # << >> BY DEF Shape
<1>3. Tail(x.names) \in Seq(Provider) /\ (Len(x.names) # 1 => Tail(x.names) # << >>)
  <2> PICK n : n = x.names OBVIOUS
  <2>1. n \in Seq(Provider) /\ Len(n) \in Nat /\ Len(n) # 0 BY <1>2
  <2>2. Tail(n) \in Seq(Provider) /\ Len(Tail(n)) = Len(n) - 1 BY <2>1
  <2>3. Len(n) # 1 => Tail(n) # << >>
    <3> SUFFICES ASSUME Len(n) # 1, Tail(n) = << >> PROVE FALSE OBVIOUS
    <3>1. Len(Tail(n)) = 0 OBVIOUS
    <3> QED BY <3>1, <2>1, <2>2
  <2> QED BY <2>2, <2>3
<1>4. /\ y.pc \in {"merge", "restate", "login", "request"}
      /\ c = Main => y.pc \in {"login", "request"}
      /\ c # Main => y.pc \in {"merge", "restate", "request"}
  BY <1>1 DEF Shape
<1>5. y.pc \in Asking => y.names # << >>
  BY <1>1, <1>3, <1>4 DEF Shape, Asking
<1>6. /\ y.then \in IF c = Main THEN {"login"} ELSE {"merge", "restate"}
      /\ y.else = IF c = Main THEN "denied" ELSE "refused"
      /\ (c = Main <=> y.todo = {})
      /\ \A f \in {"new", "began", "since", "env", "todo"} : y[f] = x[f]
  BY <1>1 DEF Shape, Fields, Asking
<1>7. DOMAIN y.answer = {"kind", "id"} /\ y.answer.kind = "none" /\ y.names \in Seq(Provider)
  BY <1>1, <1>3 DEF NoAnswer
<1>8. Shape(c, y)
  BY <1>1, <1>4, <1>5, <1>6, <1>7 DEF Shape, Asking, MainPCs, WorkerPCs
<1> QED BY <1>1, <1>4, <1>6, <1>8 DEF Onward

LEMMA RefusedOK ==
  ASSUME NEW c, NEW x, Shape(c, x), x.pc \in Asking
  PROVE  LET y == Refused(x) IN Onward(c, x, y) /\ y.got = {}
<1> PICK y : y = Refused(x) OBVIOUS
<1>1. /\ DOMAIN y = Fields
      /\ \A f \in Fields \ {"got", "names", "answer", "pc"} : y[f] = x[f]
      /\ y.got = {} /\ y.names = << >> /\ y.answer = NoAnswer /\ y.pc = x.else
  BY DEF Shape, Refused, Fields
<1>2. y.pc = IF c = Main THEN "denied" ELSE "refused" BY <1>1 DEF Shape
<1>3. Shape(c, y)
  BY <1>1, <1>2 DEF Shape, NoAnswer, Fields, Asking, MainPCs, WorkerPCs
<1> QED BY <1>1, <1>2, <1>3 DEF Fields, Onward

LEMMA GoOnOK ==
  ASSUME NEW c, NEW x, Shape(c, x), x.pc \in Asking, NEW o
  PROVE  LET y == GoOn(c, x, o) IN
         Onward(c, x, y) /\ y.got \subseteq x.got \cup (IF o.kind = "ok" THEN {CloneCredential(o.id)} ELSE {})
<1>1. CASE o.kind = "ok"
  BY <1>1, TookOK DEF GoOn
<1>2. CASE o.kind = "retry"
  <2> PICK y : y = [x EXCEPT !.pc = "request", !.answer = NoAnswer] OBVIOUS
  <2>1. /\ DOMAIN y = Fields
        /\ \A f \in Fields \ {"answer", "pc"} : y[f] = x[f]
        /\ y.answer = NoAnswer /\ y.pc = "request"
    BY DEF Shape, Fields
  <2>2. Shape(c, y)
    BY <2>1 DEF Shape, NoAnswer, Fields, Asking, MainPCs, WorkerPCs
  <2>3. GoOn(c, x, o) = y BY <1>2 DEF GoOn
  <2> QED BY <2>1, <2>2, <2>3 DEF Fields, Onward
<1>3. CASE o.kind \notin {"ok", "retry"}
  <2>1. GoOn(c, x, o) = Refused(x) BY <1>3 DEF GoOn
  <2> QED BY <2>1, RefusedOK
<1> QED BY <1>1, <1>2, <1>3

(* A worker starts with a group, or goes on with the rest of it. *)
LEMMA BeginOK ==
  ASSUME IInv, NEW w \in Worker, NEW todo \in SUBSET DOMAIN world.targets
  PROVE  LET y == Begin(w, todo) IN
         RecOK(w, y) /\ y.pc \in {"idle", "merge", "request"} /\ y.new = 0 /\ y.todo = todo
<1> USE ConsumerAssumption, StackAssumption, WorldsAssumption
<1> PICK y : y = Begin(w, todo) OBVIOUS
<1>0. world.targets \in Seq(Stack) /\ generation \in Nat BY DEF IInv, MainInv, CacheInv
<1>1. CASE todo = {}
  <2>1. y = Idle BY <1>1 DEF Begin
  <2> QED BY <2>1, <1>0, <1>1 DEF Idle, RecOK, Shape, Data, Fields, WorkerPCs, Asking, NoAnswer
<1>2. CASE todo # {}
  <2>1. Min(todo) \in todo BY <1>0, <1>2, FirstIsIn
  <2>2. Needs[Cur(todo)] \in Seq(Provider) BY <2>1, <1>0 DEF Cur
  <2>3. /\ DOMAIN y = Fields /\ y.names = Needs[Cur(todo)] /\ y.todo = todo /\ y.got = {}
        /\ y.new = 0 /\ y.began = 0 /\ y.since = 0 /\ y.answer = NoAnswer /\ y.env = {}
        /\ y.then = "merge" /\ y.else = "refused"
        /\ y.pc = IF Needs[Cur(todo)] = << >> THEN "merge" ELSE "request"
    BY <1>2 DEF Begin, Idle, Fields
  <2>4. RecOK(w, y)
    BY <2>2, <2>3, <1>0, <1>2 DEF RecOK, Shape, Data, NoAnswer, Fields, Asking, WorkerPCs
  <2> QED BY <2>3, <2>4
<1> QED BY <1>1, <1>2

(* The end of a stack cleans nothing up: no clone carries the cleanup. *)
LEMMA ClonesAreFree ==
  ASSUME IInv, NEW w \in Worker
  PROVE  ReleaseClones(w) = cred
<1>1. \A g \in wk[w].got : g.cleanup = FALSE
  BY ConsumerAssumption DEF IInv, CacheInv, RecOK, Shape, Data
<1>2. {g.id : g \in {x \in wk[w].got : x.cleanup}} = {}
  BY <1>1
<1>3. cred \in Seq(Credential) BY DEF IInv, CacheInv, CredsOK
<1>4. CleanedUp({}) = [i \in DOMAIN cred |-> cred[i]] BY DEF CleanedUp
<1>5. cred = [i \in DOMAIN cred |-> cred[i]] BY <1>3
<1> QED BY <1>2, <1>4, <1>5 DEF ReleaseClones

-----------------------------------------------------------------------------
(* The cache: steps of the main goroutine. *)

LEMMA MoveKeeps ==
  ASSUME IInv, NEW pc \in MainPCs \ Asking, Move(pc), wk[Main].pc \notin Asking,
         UNCHANGED <<cacheVars, cred, world, ran>>, stateEnv' \subseteq Kept
  PROVE  CacheInv'
<1> USE ConsumerAssumption
<1> PICK rec : rec = [wk[Main] EXCEPT !.pc = pc] OBVIOUS
<1>1. RecOK(Main, wk[Main]) /\ wk[Main].new = 0 /\ DOMAIN wk[Main] = Fields
  BY DEF IInv, CacheInv, NewOK, RecOK, Shape, Data, Asking
<1>2. DOMAIN rec = Fields /\ rec.pc = pc /\ \A f \in Fields \ {"pc"} : rec[f] = wk[Main][f]
  BY <1>1 DEF Fields
<1>3. RecOK(Main, rec)
  BY <1>1, <1>2 DEF RecOK, Shape, Data, Fields, Asking, MainPCs
<1>4. rec.new = 0 BY <1>1, <1>2 DEF Fields
<1> QED BY <1>2, <1>3, <1>4, Quiet DEF Move, Consumed, IInv, Asking

(* Asking for the state credential. *)
LEMMA AskKeeps ==
  ASSUME IInv, wk[Main].pc \in {"start", "open"},
         Consumed(Main, [wk[Main] EXCEPT !.pc = "request", !.names = <<StateProvider>>,
                                         !.then = "login", !.else = "denied"]),
         UNCHANGED <<cacheVars, cred, world, ran, stateEnv>>
  PROVE  CacheInv'
<1> USE ConsumerAssumption, StackAssumption
<1> PICK rec : rec = [wk[Main] EXCEPT !.pc = "request", !.names = <<StateProvider>>,
                                      !.then = "login", !.else = "denied"] OBVIOUS
<1>1. RecOK(Main, wk[Main]) /\ wk[Main].new = 0 /\ DOMAIN wk[Main] = Fields
  BY DEF IInv, CacheInv, NewOK, RecOK, Shape, Data
<1>2. /\ DOMAIN rec = Fields /\ rec.pc = "request" /\ rec.names = <<StateProvider>>
      /\ rec.then = "login" /\ rec.else = "denied"
      /\ \A f \in Fields \ {"pc", "names", "then", "else"} : rec[f] = wk[Main][f]
  BY <1>1 DEF Fields
<1>3. <<StateProvider>> \in Seq(Provider) /\ <<StateProvider>> # << >> OBVIOUS
<1>4. RecOK(Main, rec)
  BY <1>1, <1>2, <1>3 DEF RecOK, Shape, Data, Fields, Asking, MainPCs
<1>5. rec.new = 0 BY <1>1, <1>2 DEF Fields
<1>6. stateEnv' \subseteq Kept BY DEF IInv, CacheInv, CredsOK
<1> QED BY <1>2, <1>4, <1>5, <1>6, Quiet DEF Consumed, IInv

MainStep ==
  \/ Resolve \/ OpenBucket \/ StartDrift \/ Denied \/ Login \/ Collect
  \/ WriteManifest \/ PostComment \/ Finish

LEMMA MainKeepsCache ==
  ASSUME IInv, MainStep
  PROVE  CacheInv'
<1> USE DEF At, Fail, Asking, MainPCs
<1>1. stateEnv \subseteq Kept BY DEF IInv, CacheInv, CredsOK
<1>2. CASE Resolve
  <2> HIDE DEF Asking, MainPCs
  <2>1. \E pc \in {"end", "manifest", "open"} : Move(pc) BY <1>2 DEF Resolve
  <2>2. wk[Main].pc = "start" /\ UNCHANGED <<cacheVars, cred, world, ran, stateEnv>>
    BY <1>2 DEF Resolve
  <2>3. stateEnv' \subseteq Kept BY <1>1, <2>2
  <2> QED BY <2>1, <2>2, <2>3, MoveKeeps DEF Asking, MainPCs
<1>3. CASE OpenBucket
  <2>1. CASE Fail("end")
    <3>1. stateEnv' \subseteq Kept BY <1>1, <1>3 DEF OpenBucket
    <3> QED BY <1>3, <2>1, <3>1, MoveKeeps DEF OpenBucket
  <2>2. CASE ~Fail("end")
    BY <1>3, <2>2, AskKeeps DEF OpenBucket
  <2> QED BY <2>1, <2>2
<1>4. CASE StartDrift
  BY <1>4, AskKeeps DEF StartDrift
<1>5. CASE Denied
  <2>1. stateEnv' \subseteq Kept BY <1>1, <1>5 DEF Denied
  <2> QED BY <1>5, <2>1, MoveKeeps DEF Denied
<1>6. CASE Login
  <2>1. \A g \in wk[Main].got : g.id \in Kept
    BY ConsumerAssumption DEF IInv, CacheInv, RecOK, Shape, Data, Fresh
  <2>2. stateEnv' \subseteq Kept BY <1>1, <1>6, <2>1 DEF Login
  <2> QED BY <1>6, <2>2, MoveKeeps DEF Login
<1>7. CASE Collect
  <2>1. stateEnv' \subseteq Kept BY <1>1, <1>7 DEF Collect
  <2> QED BY <1>7, <2>1, MoveKeeps DEF Collect
<1>8. CASE WriteManifest
  <2>1. stateEnv' \subseteq Kept BY <1>1, <1>8 DEF WriteManifest
  <2> QED BY <1>8, <2>1, MoveKeeps DEF WriteManifest, Ending
<1>9. CASE PostComment
  <2>1. stateEnv' \subseteq Kept BY <1>1, <1>9 DEF PostComment
  <2> QED BY <1>9, <2>1, MoveKeeps DEF PostComment, Ending
<1>10. CASE Finish
  <2>1. stateEnv' \subseteq Kept BY <1>1, <1>10 DEF Finish
  <2> QED BY <1>10, <2>1, MoveKeeps DEF Finish, Ending
<1> QED BY <1>2, <1>3, <1>4, <1>5, <1>6, <1>7, <1>8, <1>9, <1>10 DEF MainStep

-----------------------------------------------------------------------------
(* The cache: steps of a worker. *)

LEMMA WorkerFacts ==
  ASSUME IInv, NEW w \in Worker
  PROVE  /\ w \in Consumer /\ w # Main
         /\ RecOK(w, wk[w]) /\ NewOK(wk[w]) /\ DOMAIN wk[w] = Fields
         /\ stateEnv \subseteq Kept
         /\ {g.id : g \in wk[w].got} \subseteq Kept
         /\ wk[w].todo \subseteq DOMAIN world.targets
<1>1. w \in Consumer /\ w # Main BY ConsumerAssumption
<1>2. RecOK(w, wk[w]) /\ NewOK(wk[w]) BY <1>1 DEF IInv, CacheInv
<1>3. stateEnv \subseteq Kept BY DEF IInv, CacheInv, CredsOK
<1> QED BY <1>1, <1>2, <1>3 DEF RecOK, Shape, Data, Fresh

(* A worker moves on within its stack. *)
LEMMA StayKeeps ==
  ASSUME IInv, NEW w \in Worker,
         wk[w].pc \in {"merge", "select", "plan"},
         NEW pc \in {"select", "plan", "expired"},
         NEW env \in SUBSET Kept,
         Consumed(w, [wk[w] EXCEPT !.pc = pc, !.env = env]),
         UNCHANGED <<cacheVars, cred, world, stateEnv>>,
         \A r \in ran' \ ran : \A i \in r.own : Fresh(i, r.since)
  PROVE  CacheInv'
<1> PICK rec : rec = [wk[w] EXCEPT !.pc = pc, !.env = env] OBVIOUS
<1>1. /\ w \in Consumer /\ w # Main /\ RecOK(w, wk[w]) /\ DOMAIN wk[w] = Fields
      /\ stateEnv' \subseteq Kept
  BY WorkerFacts
<1>2. wk[w].new = 0 BY WorkerFacts DEF NewOK
<1>3. /\ DOMAIN rec = Fields /\ rec.pc = pc /\ rec.env = env
      /\ \A f \in Fields \ {"pc", "env"} : rec[f] = wk[w][f]
  BY <1>1 DEF Fields
<1>4. RecOK(w, rec)
  BY <1>1, <1>3 DEF RecOK, Shape, Data, Fields, Asking, WorkerPCs
<1>5. rec.new = 0 BY <1>2, <1>3 DEF Fields
<1> QED BY <1>1, <1>3, <1>4, <1>5, Quiet DEF Consumed, IInv

(* A worker starts with a set of positions. *)
LEMMA StartKeeps ==
  ASSUME IInv, NEW w \in Worker,
         wk[w].pc \notin {"acquire", "settle"},
         NEW todo \in SUBSET DOMAIN world.targets,
         Consumed(w, Begin(w, todo)),
         UNCHANGED <<cacheVars, cred, world, stateEnv>>,
         \A r \in ran' \ ran : \A i \in r.own : Fresh(i, r.since)
  PROVE  CacheInv'
<1> PICK rec : rec = Begin(w, todo) OBVIOUS
<1>1. w \in Consumer /\ stateEnv' \subseteq Kept BY WorkerFacts
<1>2. RecOK(w, rec) /\ rec.pc \in {"idle", "merge", "request"} /\ rec.new = 0
  BY BeginOK
<1> QED BY <1>1, <1>2, Quiet DEF Consumed, IInv

LEMMA RecordKeeps ==
  ASSUME IInv, NEW w \in Worker, NEW status, Record(w, status),
         wk[w].pc \in {"refused", "select", "plan"},
         UNCHANGED <<cacheVars, world, stateEnv>>,
         \A r \in ran' \ ran : \A i \in r.own : Fresh(i, r.since)
  PROVE  CacheInv'
<1>1. cred' = cred BY ClonesAreFree DEF Record
<1>2. wk[w].todo \ {Min(wk[w].todo)} \in SUBSET DOMAIN world.targets BY WorkerFacts
<1> QED BY <1>1, <1>2, StartKeeps DEF Record

WorkerStep(w) == Take(w) \/ Merge(w) \/ AuthFails(w) \/ SelectWorkspace(w) \/ Plan(w) \/ Restate(w)

LEMMA WorkerKeepsCache ==
  ASSUME IInv, NEW w \in Worker, WorkerStep(w)
  PROVE  CacheInv'
<1> USE DEF At
<1>1. CASE Take(w)
  <2>1. PICK group \in queue : Consumed(w, Begin(w, group)) BY <1>1 DEF Take
  <2>2. group \in SUBSET DOMAIN world.targets BY DEF IInv, DirInv
  <2> QED BY <1>1, <2>1, <2>2, StartKeeps DEF Take
<1>2. CASE Merge(w)
  <2>1. stateEnv \cup {g.id : g \in wk[w].got} \in SUBSET Kept BY WorkerFacts
  <2>2. PICK env \in SUBSET Kept : env = stateEnv \cup {g.id : g \in wk[w].got} BY <2>1
  <2>3. Consumed(w, [wk[w] EXCEPT !.pc = "select", !.env = env])
    <3>1. wk[w].pc = "merge" /\ DOMAIN wk[w] = Fields BY <1>2, WorkerFacts DEF Merge
    <3>2. [wk[w] EXCEPT !.env = env, !.pc = "select"] = [wk[w] EXCEPT !.pc = "select", !.env = env]
      BY <3>1 DEF Fields
    <3> QED BY <1>2, <2>2, <3>2 DEF Merge, Consumed
  <2> QED BY <1>2, <2>3, StayKeeps DEF Merge, runVars
<1>3. CASE AuthFails(w)
  BY <1>3, RecordKeeps DEF AuthFails
<1>4. ASSUME NEW pc \in {"plan", "expired"}, Consumed(w, [wk[w] EXCEPT !.pc = pc]),
             wk[w].pc \in {"select", "plan"},
             UNCHANGED <<cacheVars, cred, world, stateEnv>>,
             \A r \in ran' \ ran : \A i \in r.own : Fresh(i, r.since)
      PROVE  CacheInv'
  <2>1. PICK env \in SUBSET Kept : env = wk[w].env BY WorkerFacts DEF RecOK, Shape, Data
  <2>2. [wk[w] EXCEPT !.pc = pc] = [wk[w] EXCEPT !.pc = pc, !.env = env]
    BY <2>1, WorkerFacts DEF Fields
  <2> QED BY <1>4, <2>2, StayKeeps
<1>5. CASE SelectWorkspace(w)
  <2>1. CASE Consumed(w, [wk[w] EXCEPT !.pc = "plan"]) /\ UNCHANGED cred
    BY <1>5, <2>1, <1>4 DEF SelectWorkspace
  <2>2. CASE Record(w, "error")
    BY <1>5, <2>2, RecordKeeps DEF SelectWorkspace
  <2> QED BY <1>5, <2>1, <2>2 DEF SelectWorkspace
<1>6. CASE Plan(w)
  <2>1. \A r \in ran' \ ran : r.own = {g.id : g \in wk[w].got} /\ r.since = wk[w].since
    BY <1>6 DEF Plan
  <2>2. \A g \in wk[w].got : Fresh(g.id, wk[w].since) BY WorkerFacts DEF RecOK, Shape, Data
  <2>3. \A r \in ran' \ ran : \A i \in r.own : Fresh(i, r.since) BY <2>1, <2>2
  <2>4. CASE \E status \in {"planned", "error"} : Record(w, status)
    BY <1>6, <2>3, <2>4, RecordKeeps DEF Plan
  <2>5. CASE Consumed(w, [wk[w] EXCEPT !.pc = "expired"]) /\ UNCHANGED cred
    BY <1>6, <2>3, <2>5, <1>4 DEF Plan
  <2> QED BY <1>6, <2>4, <2>5 DEF Plan
<1>7. CASE Restate(w)
  <2> PICK n : n = Needs[Cur(wk[w].todo)] OBVIOUS
  <2> PICK rec : rec = [wk[w] EXCEPT !.got = {}, !.names = n, !.then = "merge",
                          !.pc = IF n = << >> THEN "merge" ELSE "request"] OBVIOUS
  <2>1. /\ w \in Consumer /\ w # Main /\ RecOK(w, wk[w]) /\ DOMAIN wk[w] = Fields
        /\ wk[w].pc = "restate"
    BY <1>7, WorkerFacts DEF Restate
  <2>2. wk[w].new = 0 BY <2>1, WorkerFacts DEF NewOK
  <2>3. n \in Seq(Provider)
    <3>1. world.targets \in Seq(Stack) BY WorldsAssumption DEF IInv, MainInv
    <3>2. wk[w].todo # {} /\ wk[w].todo \subseteq DOMAIN world.targets BY <2>1 DEF RecOK, Shape, Data
    <3>3. Min(wk[w].todo) \in wk[w].todo BY <3>1, <3>2, FirstIsIn
    <3> QED BY <3>1, <3>2, <3>3, StackAssumption DEF Cur
  <2>4. /\ DOMAIN rec = Fields /\ rec.got = {} /\ rec.names = n /\ rec.then = "merge"
        /\ rec.pc = IF n = << >> THEN "merge" ELSE "request"
        /\ \A f \in Fields \ {"pc", "got", "names", "then"} : rec[f] = wk[w][f]
    BY <2>1 DEF Fields
  <2>5. RecOK(w, rec)
    BY <2>1, <2>3, <2>4 DEF RecOK, Shape, Data, Fields, Asking, WorkerPCs
  <2>6. rec.new = 0 BY <2>2, <2>4 DEF Fields
  <2>7. stateEnv' \subseteq Kept BY <1>7, WorkerFacts DEF Restate
  <2>8. wk' = [wk EXCEPT ![w] = rec] BY <1>7 DEF Restate, Consumed
  <2>9. UNCHANGED <<cacheVars, cred, world, ran>> BY <1>7 DEF Restate
  <2>10. rec.pc \in {"merge", "request"} BY <2>4
  <2>11. CacheInv BY DEF IInv
  <2> QED BY <2>1, <2>5, <2>6, <2>7, <2>8, <2>9, <2>10, <2>11, Quiet
<1> QED BY <1>1, <1>2, <1>3, <1>5, <1>6, <1>7 DEF WorkerStep

-----------------------------------------------------------------------------
(* The cache itself. *)

LEMMA ConsumerFacts ==
  ASSUME IInv, NEW c \in Consumer
  PROVE  /\ RecOK(c, wk[c]) /\ NewOK(wk[c]) /\ DOMAIN wk[c] = Fields
         /\ wk[c].pc \in Asking => /\ wk[c].names # << >>
                                   /\ Head(wk[c].names) \in Provider
         /\ closed => wk[c].pc \notin Asking
<1>1. RecOK(c, wk[c]) /\ NewOK(wk[c]) BY DEF IInv, CacheInv
<1>2. wk[c].pc \in Asking => wk[c].names \in Seq(Provider) /\ wk[c].names # << >>
  BY <1>1 DEF RecOK, Shape, Data
<1>3. wk[c].pc \in Asking => Head(wk[c].names) \in Provider
  BY <1>2
<1>4. closed => wk[c].pc \notin Asking
  BY ConsumerAssumption DEF IInv, MainInv, Asking
<1> QED BY <1>1, <1>2, <1>3, <1>4 DEF RecOK, Shape, Data

(* A consumer goes on, as told by the cache. *)
LEMMA GoOnKeeps ==
  ASSUME IInv, NEW c \in Consumer, wk[c].pc \in {"request", "wait"},
         NEW o, o.kind = "ok" => Fresh(o.id, wk[c].since),
         Consumed(c, GoOn(c, wk[c], o)),
         UNCHANGED <<cacheVars, cred, world, stateEnv, ran>>
  PROVE  CacheInv'
<1> PICK rec : rec = GoOn(c, wk[c], o) OBVIOUS
<1>1. RecOK(c, wk[c]) /\ wk[c].new = 0 BY ConsumerFacts DEF NewOK
<1>2. Onward(c, wk[c], rec) /\ rec.got \subseteq wk[c].got \cup (IF o.kind = "ok" THEN {CloneCredential(o.id)} ELSE {})
  BY <1>1, GoOnOK DEF Asking, RecOK
<1>2a. RecOK(c, rec) /\ rec.pc \notin {"wait", "acquire", "settle"} /\ rec.new = wk[c].new
  BY <1>1, <1>2 DEF Onward, RecOK, Data, CloneCredential, NoAnswer
<1>3. stateEnv' \subseteq Kept /\ CacheInv BY DEF IInv, CacheInv, CredsOK
<1> QED BY <1>1, <1>2a, <1>3, Quiet DEF Consumed

LEMMA RequestKeeps ==
  ASSUME IInv, NEW c \in Consumer, Request(c), UNCHANGED runVars
  PROVE  CacheInv'
<1> PICK p : p = Head(wk[c].names) OBVIOUS
<1>1. /\ wk[c].pc = "request" /\ ~closed /\ p \in Provider
      /\ RecOK(c, wk[c]) /\ NewOK(wk[c]) /\ DOMAIN wk[c] = Fields
  BY ConsumerFacts DEF Request, Asking
<1>2. wk[c].new = 0 /\ wk[c].answer = NoAnswer BY <1>1 DEF NewOK, RecOK, Shape, Data
<1>3. CacheInv /\ stateEnv' \subseteq Kept /\ UNCHANGED <<world, stateEnv, ran>>
  BY DEF IInv, CacheInv, CredsOK, runVars
<1>4. CASE Usable(entry[p].id) /\ Consumed(c, Took(c, wk[c], entry[p].id)) /\ UNCHANGED entry
  <2> PICK o : o = [kind |-> "ok", id |-> entry[p].id] OBVIOUS
  <2>1. Fresh(o.id, wk[c].since)
    BY SMTT(30), <1>1, <1>3, <1>4 DEF CacheInv, EntriesOK, Usable, Fresh, RecOK, Shape, Data
  <2>2. GoOn(c, wk[c], o) = Took(c, wk[c], entry[p].id) BY DEF GoOn
  <2> QED BY <1>1, <1>3, <1>4, <2>1, <2>2, GoOnKeeps DEF Request, cacheVars
<1>5. CASE entry[p].by # None /\ Consumed(c, [wk[c] EXCEPT !.pc = "wait"]) /\ UNCHANGED entry
  <2> PICK rec : rec = [wk[c] EXCEPT !.pc = "wait"] OBVIOUS
  <2>1. DOMAIN rec = Fields /\ rec.pc = "wait" /\ \A f \in Fields \ {"pc"} : rec[f] = wk[c][f]
    BY <1>1 DEF Fields
  <2>2. RecOK(c, rec)
    BY <1>1, <2>1 DEF RecOK, Shape, Data, Fields, Asking, MainPCs, WorkerPCs
  <2>3. rec.new = 0 /\ rec.names = wk[c].names BY <1>2, <2>1 DEF Fields
  <2>4. UNCHANGED <<cacheVars, cred>> BY <1>5 DEF Request, cacheVars
  <2> QED BY <1>1, <1>3, <1>5, <2>1, <2>2, <2>3, <2>4, Quiet DEF Consumed
<1>6. CASE /\ entry[p].by = None
           /\ Consumed(c, [wk[c] EXCEPT !.pc = "acquire", !.began = generation])
           /\ entry' = [entry EXCEPT ![p].by = c]
  <2> PICK rec : rec = [wk[c] EXCEPT !.pc = "acquire", !.began = generation] OBVIOUS
  <2>1. /\ DOMAIN rec = Fields /\ rec.pc = "acquire" /\ rec.began = generation
        /\ \A f \in Fields \ {"pc", "began"} : rec[f] = wk[c][f]
    BY <1>1 DEF Fields
  <2>2. generation \in Nat BY <1>3 DEF CacheInv
  <2>3. RecOK(c, rec)
    BY <1>1, <2>1, <2>2 DEF RecOK, Shape, Data, Fields, Asking, MainPCs, WorkerPCs
  <2>4. rec.new = 0 /\ rec.names = wk[c].names BY <1>2, <2>1 DEF Fields
  <2>5. UNCHANGED <<generation, owned, closed, cred, world>> /\ Kept' = Kept
    BY <1>3 DEF Request, Kept
  <2>6. DOMAIN wk' = Consumer /\ wk'[c] = rec /\ \A d \in Consumer \ {c} : wk'[d] = wk[d]
    BY <1>3, <1>6 DEF CacheInv, Consumed
  <2>7. ASSUME NEW d \in Consumer PROVE (RecOK(d, wk[d]) /\ NewOK(wk[d]))'
    <3>1. NewOK(rec) BY <2>4 DEF NewOK
    <3>2. CASE d = c BY <3>1, <3>2, <2>3, <2>5, <2>6 DEF RecOK, Shape, Data, NewOK, Fresh
    <3>3. CASE d # c BY <3>3, <1>3, <2>5, <2>6 DEF CacheInv, RecOK, Shape, Data, NewOK, Fresh
    <3> QED BY <3>2, <3>3
  <2>8. CredsOK'
    <3>1. \A d \in Consumer : wk'[d].new = wk[d].new BY <2>6, <1>2, <2>4
    <3> QED BY <3>1, <1>3, <2>5 DEF CacheInv, CredsOK, Fresh
  <2>9. EntriesOK'
    <3>1. entry \in [Provider -> [id : Nat, by : Consumer \cup {None}]]
      BY <1>3 DEF CacheInv, EntriesOK
    <3>2. entry' \in [Provider -> [id : Nat, by : Consumer \cup {None}]]
      BY <3>1, <1>1, <1>6
    <3>3. \A q \in Provider : /\ entry'[q].id = entry[q].id
                              /\ entry'[q].by = IF q = p THEN c ELSE entry[q].by
      BY <3>1, <1>1, <1>6
    <3>4. \A q \in Provider : entry[q].by # c
      BY <1>1, <1>3, ConsumerAssumption DEF CacheInv, EntriesOK
    <3>5. \A q \in Provider \ {p} : entry[q].by # None => entry[q].by \in Consumer \ {c}
      BY <3>1, <3>4
    <3>6. ASSUME NEW q \in Provider, entry'[q].id # 0
          PROVE  entry'[q].id \in Kept' /\ cred'[entry'[q].id].born = generation'
      BY <3>3, <3>6, <1>3, <2>5 DEF CacheInv, EntriesOK
    <3>7. ASSUME NEW q \in Provider, entry'[q].by # None
          PROVE  wk'[entry'[q].by].pc \in {"acquire", "settle"} /\ Head(wk'[entry'[q].by].names) = q
      <4>1. CASE q = p BY <4>1, <3>3, <2>1, <2>4, <2>6
      <4>2. CASE q # p BY <4>2, <3>3, <3>5, <3>7, <1>3, <2>6 DEF CacheInv, EntriesOK
      <4> QED BY <4>1, <4>2
    <3> QED BY <3>2, <3>6, <3>7 DEF EntriesOK
  <2>10. Acquiring'
    <3>1. entry \in [Provider -> [id : Nat, by : Consumer \cup {None}]]
      BY <1>3 DEF CacheInv, EntriesOK
    <3>2. \A q \in Provider : entry'[q].by = IF q = p THEN c ELSE entry[q].by
      BY <3>1, <1>1, <1>6
    <3>3. \A d \in Consumer : wk[d].pc \in Asking => Head(wk[d].names) \in Provider
      BY ConsumerFacts
    <3>4. c # None BY ConsumerAssumption
    <3>5. \A d \in Consumer \ {c} : wk[d].pc \in {"acquire", "settle"} =>
            entry'[Head(wk[d].names)].by = d
      BY <3>2, <3>3, <3>4, <1>3, <1>6, ConsumerAssumption DEF CacheInv, Acquiring, Asking
    <3>6. \A d \in Consumer \ {c} : wk[d].pc = "wait" /\ wk[d].answer = NoAnswer =>
            entry'[Head(wk[d].names)].by # None
      BY <3>2, <3>3, <3>4, <1>3 DEF CacheInv, Acquiring, Asking
    <3>7. entry'[Head(rec.names)].by = c BY <3>2, <1>1, <2>4
    <3>8. \A d \in Consumer : wk'[d].new = wk[d].new BY <2>6, <1>2, <2>4
    <3>9. \A d \in Consumer : wk'[d].pc \in {"acquire", "settle"} => entry'[Head(wk'[d].names)].by = d
      <4> TAKE d \in Consumer
      <4>1. CASE d = c BY <4>1, <3>7, <2>6
      <4>2. CASE d # c BY <4>2, <3>5, <2>6
      <4> QED BY <4>1, <4>2
    <3>10. \A d \in Consumer : wk'[d].pc = "wait" /\ wk'[d].answer = NoAnswer =>
             entry'[Head(wk'[d].names)].by # None
      BY <3>6, <2>1, <2>6
    <3>11. \A d, e \in Consumer : d # e /\ wk'[d].new # 0 => wk'[d].new # wk'[e].new
      BY <3>8, <1>3 DEF CacheInv, Acquiring
    <3> QED BY <3>9, <3>10, <3>11 DEF Acquiring
  <2> QED BY <1>3, <2>2, <2>5, <2>6, <2>7, <2>8, <2>9, <2>10 DEF CacheInv
<1> QED BY <1>1, <1>4, <1>5, <1>6 DEF Request

LEMMA AnswersKeeps ==
  ASSUME IInv, NEW c \in Consumer, ProviderAnswers(c), UNCHANGED runVars
  PROVE  CacheInv'
<1>1. /\ wk[c].pc = "acquire" /\ ~closed /\ Head(wk[c].names) \in Provider
      /\ RecOK(c, wk[c]) /\ NewOK(wk[c]) /\ DOMAIN wk[c] = Fields
  BY ConsumerFacts DEF ProviderAnswers, Asking
<1>2. CacheInv /\ UNCHANGED <<world, stateEnv, ran>> BY DEF IInv, runVars
<1>3. PICK n : /\ wk' = [wk EXCEPT ![c] = [wk[c] EXCEPT !.pc = "settle", !.new = n]]
               /\ n = 0 \/ n = Len(cred) + 1
               /\ \/ n = 0 /\ cred' = cred
                  \/ \E soon \in BOOLEAN :
                       /\ cred' = Append(cred, [prov |-> Head(wk[c].names), born |-> wk[c].began,
                                                soon |-> soon, cleaned |-> IF soon THEN 1 ELSE 0])
                       /\ n = IF soon THEN 0 ELSE Len(cred) + 1
  BY Zenon DEF ProviderAnswers, Consumed
<1> PICK rec : rec = [wk[c] EXCEPT !.pc = "settle", !.new = n] OBVIOUS
<1>4. /\ DOMAIN rec = Fields /\ rec.pc = "settle" /\ rec.new = n
      /\ \A f \in Fields \ {"pc", "new"} : rec[f] = wk[c][f]
  BY <1>1 DEF Fields
<1>5. cred \in Seq(Credential) /\ Len(cred) \in Nat /\ Kept \subseteq 1..Len(cred)
      /\ \A i \in 1..Len(cred) : cred[i] \in Credential
  BY <1>2, KeptIssued DEF CacheInv, CredsOK
<1>6. wk[c].began \in Nat BY <1>1, <1>2 DEF RecOK, Shape, Data, CacheInv
<1>7. /\ cred' \in Seq(Credential)
      /\ \A i \in 1..Len(cred) : cred'[i] = cred[i]
      /\ Len(cred') \in {Len(cred), Len(cred) + 1}
      /\ n # 0 => /\ Len(cred') = Len(cred) + 1
                  /\ cred'[n].cleaned = 0 /\ cred'[n].born = wk[c].began
      /\ n = 0 => \A i \in 1..Len(cred') : i > Len(cred) => cred'[i].cleaned = 1
  <2>1. CASE cred' = cred /\ n = 0 BY <1>5, <2>1
  <2>2. CASE ~(cred' = cred /\ n = 0)
    <3>1. PICK soon \in BOOLEAN :
            /\ cred' = Append(cred, [prov |-> Head(wk[c].names), born |-> wk[c].began,
                                     soon |-> soon, cleaned |-> IF soon THEN 1 ELSE 0])
            /\ n = IF soon THEN 0 ELSE Len(cred) + 1
      BY <1>3, <2>2
    <3>2. PICK r : r = [prov |-> Head(wk[c].names), born |-> wk[c].began,
                        soon |-> soon, cleaned |-> IF soon THEN 1 ELSE 0] OBVIOUS
    <3>3. r \in Credential /\ r.born = wk[c].began /\ r.cleaned = IF soon THEN 1 ELSE 0
      BY <3>2, <1>1, <1>6 DEF Credential
    <3>4. /\ cred' \in Seq(Credential) /\ Len(cred') = Len(cred) + 1
          /\ \A i \in 1..Len(cred) : cred'[i] = cred[i]
          /\ cred'[Len(cred) + 1] = r
      BY <3>1, <3>2, <3>3, <1>5
    <3> QED BY <3>1, <3>3, <3>4, <1>5
  <2> QED BY <2>1, <2>2
<1>8. UNCHANGED cacheVars /\ Kept' = Kept BY DEF ProviderAnswers, Kept, cacheVars
<1>9. \A i, t : Fresh(i, t) => Fresh(i, t)' BY <1>5, <1>7, <1>8 DEF Fresh
<1>10. DOMAIN wk' = Consumer /\ wk'[c] = rec /\ \A d \in Consumer \ {c} : wk'[d] = wk[d]
  BY <1>2, <1>3 DEF CacheInv
<1>11. RecOK(c, rec)
  BY <1>1, <1>4 DEF RecOK, Shape, Data, Fields, Asking, MainPCs, WorkerPCs
<1>12. ASSUME NEW d \in Consumer, NEW x, RecOK(d, x) PROVE RecOK(d, x)'
  BY <1>2, <1>8, <1>9, <1>12 DEF RecOK, Shape, Data, cacheVars
<1>13. ASSUME NEW d \in Consumer PROVE (RecOK(d, wk[d]) /\ NewOK(wk[d]))'
  <2>1. CASE d = c
    <3>1. RecOK(c, rec)' BY <1>11, <1>12
    <3>2. n # 0 => n \in DOMAIN cred' \ Kept BY <1>3, <1>5, <1>7
    <3>3. rec.began = wk[c].began BY <1>4 DEF Fields
    <3>4. NewOK(rec)' BY <3>2, <3>3, <1>4, <1>7, <1>8 DEF NewOK
    <3> QED BY <2>1, <3>1, <3>4, <1>10 DEF RecOK, Shape, Data, NewOK
  <2>2. CASE d # c
    <3>1. RecOK(d, wk[d]) /\ NewOK(wk[d]) BY <1>2 DEF CacheInv
    <3>2. PICK x : x = wk[d] OBVIOUS
    <3>3. RecOK(d, x)' BY <3>1, <3>2, <1>12
    <3>4. NewOK(x)' BY <3>1, <3>2, <1>5, <1>7, <1>8 DEF NewOK
    <3> QED BY <2>2, <3>2, <3>3, <3>4, <1>10 DEF RecOK, Shape, Data, NewOK
  <2> QED BY <2>1, <2>2
<1>14. wk[c].new = 0 BY <1>1 DEF NewOK
<1>15. CredsOK'
  <2>1. owned \in Seq(DOMAIN cred') BY <1>2, <1>5, <1>7 DEF CacheInv, CredsOK
  <2>2. ASSUME NEW i \in DOMAIN cred'
        PROVE  /\ i \in Kept => cred'[i].cleaned = IF closed THEN 1 ELSE 0
               /\ cred'[i].cleaned = 0 /\ i \notin Kept => \E d \in Consumer : wk'[d].new = i
    <3>1. i \in Nat /\ i > 0 BY <1>7
    <3>2. CASE i <= Len(cred)
      <4>1. i \in DOMAIN cred /\ cred'[i] = cred[i] BY <3>1, <3>2, <1>5, <1>7
      <4>2. \A d \in Consumer : wk[d].new = i => wk'[d].new = i BY <1>10, <1>14, <3>1
      <4> QED BY <4>1, <4>2, <1>2 DEF CacheInv, CredsOK
    <3>3. CASE i > Len(cred)
      <4>1. i = Len(cred) + 1 BY <3>1, <3>3, <1>5, <1>7
      <4>2. i \notin Kept BY <4>1, <1>5
      <4>3. cred'[i].cleaned = 0 => n = i BY <4>1, <1>3, <1>5, <1>7
      <4> QED BY <4>2, <4>3, <1>4, <1>10
    <3> QED BY <3>1, <3>2, <3>3, <1>5
  <2>3. \A r \in ran : \A i \in r.own : Fresh(i, r.since)' BY <1>2, <1>9 DEF CacheInv, CredsOK
  <2>4. UNCHANGED <<owned, closed, stateEnv, ran>> BY <1>2, <1>8 DEF cacheVars
  <2>5. stateEnv \subseteq Kept BY <1>2 DEF CacheInv, CredsOK
  <2> QED BY <2>1, <2>2, <2>3, <2>4, <2>5, <1>7, <1>8 DEF CredsOK, Fresh
<1>16. EntriesOK'
  <2>1. \A i \in Kept : cred'[i] = cred[i] BY <1>5, <1>7
  <2>2. rec.names = wk[c].names /\ rec.pc = "settle" BY <1>4 DEF Fields
  <2>3. \A d \in Consumer : wk[d].pc \in {"acquire", "settle"} =>
          wk'[d].pc \in {"acquire", "settle"} /\ wk'[d].names = wk[d].names
    BY <2>2, <1>10
  <2>4. \A p \in Provider : entry[p].by # None => entry[p].by \in Consumer
    BY <1>2 DEF CacheInv, EntriesOK
  <2> QED BY <2>1, <2>3, <2>4, <1>2, <1>8 DEF CacheInv, EntriesOK, cacheVars
<1>17. Acquiring'
  <2>1. rec.names = wk[c].names /\ rec.pc = "settle" BY <1>4 DEF Fields
  <2>2. \A d \in Consumer \ {c} : wk[d].new # 0 => wk[d].new \in 1..Len(cred)
    BY <1>2, <1>5 DEF CacheInv, NewOK
  <2>3. \A d \in Consumer \ {c} : n # 0 => wk[d].new # n BY <2>2, <1>3, <1>5
  <2>4. \A d, e \in Consumer : d # e /\ wk'[d].new # 0 => wk'[d].new # wk'[e].new
    <3> SUFFICES ASSUME NEW d \in Consumer, NEW e \in Consumer, d # e, wk'[d].new # 0
                 PROVE  wk'[d].new # wk'[e].new
      OBVIOUS
    <3>1. CASE d = c BY <3>1, <2>3, <1>4, <1>10
    <3>2. CASE e = c BY <3>2, <2>3, <1>4, <1>10
    <3>3. CASE d # c /\ e # c BY <3>3, <1>2, <1>10 DEF CacheInv, Acquiring
    <3> QED BY <3>1, <3>2, <3>3
  <2>5. \A d \in Consumer : wk'[d].names = wk[d].names BY <2>1, <1>10
  <2>6. \A d \in Consumer : wk'[d].pc \in {"acquire", "settle"} => wk[d].pc \in {"acquire", "settle"}
    BY <1>1, <1>10
  <2>7. \A d \in Consumer : wk'[d].pc = "wait" /\ wk'[d].answer = NoAnswer =>
                             wk[d].pc = "wait" /\ wk[d].answer = NoAnswer
    BY <2>1, <1>10
  <2> QED BY <2>4, <2>5, <2>6, <2>7, <1>2, <1>8 DEF CacheInv, Acquiring, cacheVars
<1> QED BY <1>2, <1>8, <1>10, <1>13, <1>15, <1>16, <1>17 DEF CacheInv, cacheVars

(* A waiter learns of a success that is good for it, too. *)
LEMMA SettleKeeps ==
  ASSUME IInv, NEW c \in Consumer, Settle(c), UNCHANGED runVars
  PROVE  CacheInv'
<1> PICK p : p = Head(wk[c].names) OBVIOUS
<1> PICK n : n = wk[c].new OBVIOUS
<1> PICK o : o = Outcome(c) OBVIOUS
<1> PICK y : y = [wk[c] EXCEPT !.new = 0] OBVIOUS
<1> PICK rec : rec = GoOn(c, y, o) OBVIOUS
<1>1. /\ wk[c].pc = "settle" /\ ~closed /\ p \in Provider
      /\ RecOK(c, wk[c]) /\ NewOK(wk[c]) /\ DOMAIN wk[c] = Fields
  BY ConsumerFacts DEF Settle, Asking
<1>2. CacheInv /\ UNCHANGED <<world, stateEnv, ran>> BY DEF IInv, runVars
<1>3. /\ owned' = IF n # 0 THEN Append(owned, n) ELSE owned
      /\ entry' = [entry EXCEPT ![p] = [id |-> IF o.kind = "ok" THEN o.id ELSE @.id, by |-> None]]
      /\ UNCHANGED <<cred, generation, closed>>
      /\ wk' = [x \in Consumer |-> IF x = c THEN rec
                                    ELSE IF x \in Told(c) THEN [wk[x] EXCEPT !.answer = o] ELSE wk[x]]
  BY <1>1 DEF Settle, Owned
<1>4. /\ o.kind \in {"ok", "error", "retry"} /\ DOMAIN o = {"kind", "id"} /\ o # NoAnswer
      /\ o.kind = "ok" => o.id = n /\ n # 0 /\ wk[c].began = generation
  BY <1>1 DEF Outcome, NoAnswer
<1>5. /\ n # 0 => n \in DOMAIN cred \ Kept /\ cred[n].cleaned = 0 /\ cred[n].born = wk[c].began
      /\ Kept \subseteq DOMAIN cred /\ owned \in Seq(DOMAIN cred) /\ DOMAIN cred = 1..Len(cred)
  BY <1>1, <1>2, KeptIssued DEF NewOK, CacheInv, CredsOK
<1>6. Kept' = (IF n # 0 THEN Kept \cup {n} ELSE Kept) /\ owned' \in Seq(DOMAIN cred)
  <2>1. CASE n = 0 BY <2>1, <1>3, <1>5 DEF Kept
  <2>2. CASE n # 0
    <3>1. owned' = Append(owned, n) /\ n \in DOMAIN cred BY <2>2, <1>3, <1>5
    <3>2. /\ owned' \in Seq(DOMAIN cred) /\ DOMAIN owned' = 1..(Len(owned) + 1)
          /\ DOMAIN owned = 1..Len(owned) /\ Len(owned) \in Nat
          /\ owned'[Len(owned) + 1] = n /\ \A i \in 1..Len(owned) : owned'[i] = owned[i]
      BY <3>1, <1>5
    <3>3. {owned'[i] : i \in DOMAIN owned'} = {owned[i] : i \in DOMAIN owned} \cup {n}
      BY <3>2
    <3> QED BY <2>2, <3>2, <3>3 DEF Kept, ToSet
  <2> QED BY <2>1, <2>2
<1>7. \A i, t : Fresh(i, t) => Fresh(i, t)' BY <1>3, <1>6 DEF Fresh
<1>8. \A t \in 0..generation : o.kind = "ok" => Fresh(o.id, t)'
  BY <1>2, <1>3, <1>4, <1>5, <1>6 DEF CacheInv, Fresh
<1>9. ASSUME NEW d \in Consumer, NEW x, RecOK(d, x) PROVE RecOK(d, x)'
  BY <1>2, <1>3, <1>6, <1>7, <1>9 DEF RecOK, Shape, Data
<1>10. /\ DOMAIN y = Fields /\ y.new = 0 /\ \A f \in Fields \ {"new"} : y[f] = wk[c][f]
  BY <1>1 DEF Fields
<1>11. RecOK(c, y) /\ y.pc \in Asking
  BY <1>1, <1>10 DEF RecOK, Shape, Data, Fields, Asking
<1>12. RecOK(c, rec)' /\ rec.pc \notin {"wait", "acquire", "settle"} /\ rec.new = 0
  <2>1. Onward(c, y, rec) /\ rec.got \subseteq y.got \cup (IF o.kind = "ok" THEN {CloneCredential(o.id)} ELSE {})
    BY <1>11, GoOnOK DEF RecOK
  <2>2. Data(y)' BY <1>9, <1>11 DEF RecOK
  <2>3. y.since \in 0..generation BY <1>11 DEF RecOK, Data
  <2>4. o.kind = "ok" => Fresh(o.id, y.since)' BY <1>8, <2>3
  <2>5. \A g \in rec.got : g.cleanup = FALSE /\ Fresh(g.id, y.since)'
    BY <2>1, <2>2, <2>4 DEF Data, CloneCredential
  <2>6. Data(rec)' BY <2>1, <2>2, <2>5 DEF Data, Onward, NoAnswer
  <2> QED BY <2>1, <2>6, <1>10 DEF RecOK, Onward
<1>13. ASSUME NEW d \in Consumer PROVE (RecOK(d, wk[d]) /\ NewOK(wk[d]))'
  <2>1. PICK x : x = wk[d] OBVIOUS
  <2>2. RecOK(d, x) /\ NewOK(x) /\ DOMAIN x = Fields BY <1>2, <2>1 DEF CacheInv, RecOK, Shape
  <2>3. RecOK(d, x)' BY <2>2, <1>9
  <2>4. CASE d = c
    <3>1. NewOK(rec)' BY <1>12 DEF NewOK
    <3>2. wk'[d] = rec BY <2>4, <1>3
    <3> QED BY <2>4, <3>1, <3>2, <1>12 DEF RecOK, Data, NewOK
  <2>5. d # c => NewOK(x)'
    BY <2>1, <2>2, <1>2, <1>3, <1>6 DEF NewOK, CacheInv, Acquiring
  <2>6. CASE d # c /\ d \notin Told(c)
    <3>1. wk'[d] = x BY <2>1, <2>6, <1>3
    <3> QED BY <3>1, <2>3, <2>5, <2>6 DEF RecOK, Data, NewOK
  <2>7. CASE d # c /\ d \in Told(c)
    <3>1. PICK z : z = [x EXCEPT !.answer = o] OBVIOUS
    <3>2. wk'[d] = z BY <2>1, <2>7, <3>1, <1>3
    <3>3. DOMAIN z = Fields /\ z.answer = o /\ \A f \in Fields \ {"answer"} : z[f] = x[f]
      BY <2>2, <3>1 DEF Fields
    <3>4. x.pc = "wait" BY <2>1, <2>7 DEF Told, Waiting
    <3>5. Shape(d, z) BY <2>2, <3>3, <3>4, <1>4 DEF RecOK, Shape, Fields
    <3>6. o.kind = "ok" => Fresh(o.id, x.since)' BY <1>8, <2>2 DEF RecOK, Data
    <3>7. Data(z)' BY <2>3, <3>3, <3>6 DEF RecOK, Data, Fields
    <3>8. NewOK(z)' BY <2>5, <2>7, <3>3 DEF NewOK, Fields
    <3> QED BY <3>2, <3>5, <3>7, <3>8 DEF RecOK, Data, NewOK
  <2> QED BY <2>4, <2>6, <2>7
<1>14. /\ DOMAIN wk' = Consumer
       /\ \A d \in Consumer \ {c} : \A f \in {"pc", "names", "new"} : wk'[d][f] = wk[d][f]
       /\ \A d \in Consumer \ {c} : wk'[d].answer = IF d \in Told(c) THEN o ELSE wk[d].answer
       /\ wk'[c] = rec
  <2>1. DOMAIN wk' = Consumer /\ wk'[c] = rec BY <1>3
  <2>2. ASSUME NEW d \in Consumer \ {c}
        PROVE  /\ \A f \in {"pc", "names", "new"} : wk'[d][f] = wk[d][f]
               /\ wk'[d].answer = IF d \in Told(c) THEN o ELSE wk[d].answer
    <3>1. DOMAIN wk[d] = Fields BY ConsumerFacts
    <3>2. CASE d \in Told(c) BY <3>1, <3>2, <1>3 DEF Fields
    <3>3. CASE d \notin Told(c) BY <3>1, <3>3, <1>3
    <3> QED BY <3>2, <3>3
  <2> QED BY <2>1, <2>2
<1>15. CredsOK'
  <2>1. ASSUME NEW i \in DOMAIN cred
        PROVE  /\ i \in Kept' => cred[i].cleaned = 0
               /\ cred[i].cleaned = 0 /\ i \notin Kept' => \E d \in Consumer : wk'[d].new = i
    <3>1. i \in Kept' => cred[i].cleaned = 0 BY <1>1, <1>2, <1>5, <1>6 DEF CacheInv, CredsOK
    <3>2. ASSUME cred[i].cleaned = 0, i \notin Kept' PROVE \E d \in Consumer : wk'[d].new = i
      <4>1. PICK d \in Consumer : wk[d].new = i BY <3>2, <1>2, <1>6 DEF CacheInv, CredsOK
      <4>2. i # 0 BY <1>5
      <4>3. d # c BY <4>1, <4>2, <3>2, <1>6
      <4> QED BY <4>1, <4>3, <1>14
    <3> QED BY <3>1, <3>2
  <2>2. \A r \in ran : \A i \in r.own : Fresh(i, r.since)' BY <1>2, <1>7 DEF CacheInv, CredsOK
  <2>3. stateEnv \subseteq Kept' /\ cred \in Seq(Credential)
    BY <1>2, <1>6 DEF CacheInv, CredsOK
  <2> QED BY <2>1, <2>2, <2>3, <1>1, <1>2, <1>3, <1>6 DEF CredsOK, Fresh
<1>16. entry \in [Provider -> [id : Nat, by : Consumer \cup {None}]] BY <1>2 DEF CacheInv, EntriesOK
<1>17. /\ \A q \in Provider \ {p} : entry'[q] = entry[q]
       /\ entry'[p] = [id |-> IF o.kind = "ok" THEN o.id ELSE entry[p].id, by |-> None]
  BY <1>1, <1>3, <1>16
<1>18. entry[p].by = c BY <1>1, <1>2 DEF CacheInv, Acquiring
<1>19. EntriesOK'
  <2>1. entry' \in [Provider -> [id : Nat, by : Consumer \cup {None}]]
    BY <1>1, <1>3, <1>4, <1>5, <1>16
  <2>2. ASSUME NEW q \in Provider, entry'[q].id # 0
        PROVE  entry'[q].id \in Kept' /\ cred'[entry'[q].id].born = generation'
    <3>1. CASE q = p /\ o.kind = "ok" BY <3>1, <1>3, <1>4, <1>5, <1>6, <1>17
    <3>2. CASE ~(q = p /\ o.kind = "ok")
      <4>1. entry'[q].id = entry[q].id BY <3>2, <1>17
      <4> QED BY <4>1, <2>2, <1>2, <1>3, <1>6 DEF CacheInv, EntriesOK
    <3> QED BY <3>1, <3>2
  <2>3. ASSUME NEW q \in Provider, entry'[q].by # None
        PROVE  wk'[entry'[q].by].pc \in {"acquire", "settle"} /\ Head(wk'[entry'[q].by].names) = q
    <3>1. q # p /\ entry'[q] = entry[q] BY <2>3, <1>17
    <3>2. PICK d : d = entry[q].by OBVIOUS
    <3>3. d \in Consumer BY <3>1, <3>2, <2>3, <1>16
    <3>4. wk[d].pc \in {"acquire", "settle"} /\ Head(wk[d].names) = q
      BY <3>1, <3>2, <2>3, <1>2 DEF CacheInv, EntriesOK
    <3>5. d # c BY <3>1, <3>4
    <3> QED BY <3>1, <3>2, <3>3, <3>4, <3>5, <1>14
  <2> QED BY <2>1, <2>2, <2>3 DEF EntriesOK
<1>20. Acquiring'
  <2>1. ASSUME NEW d \in Consumer, wk'[d].pc \in {"acquire", "settle"}
        PROVE  entry'[Head(wk'[d].names)].by = d
    <3>1. d # c BY <2>1, <1>12, <1>14
    <3>2. wk[d].pc \in {"acquire", "settle"} /\ wk'[d].names = wk[d].names BY <2>1, <3>1, <1>14
    <3>3. Head(wk[d].names) \in Provider BY <3>2, ConsumerFacts DEF Asking
    <3>4. entry[Head(wk[d].names)].by = d BY <3>2, <1>2 DEF CacheInv, Acquiring
    <3>5. Head(wk[d].names) # p BY <3>1, <3>4, <1>18
    <3> QED BY <3>2, <3>3, <3>4, <3>5, <1>17
  <2>2. ASSUME NEW d \in Consumer, wk'[d].pc = "wait", wk'[d].answer = NoAnswer
        PROVE  entry'[Head(wk'[d].names)].by # None
    <3>1. d # c BY <2>2, <1>12, <1>14
    <3>2. d \notin Told(c) BY <2>2, <3>1, <1>4, <1>14
    <3>3. wk[d].pc = "wait" /\ wk[d].answer = NoAnswer /\ wk'[d].names = wk[d].names
      BY <2>2, <3>1, <3>2, <1>14
    <3>4. Head(wk[d].names) \in Provider BY <3>3, ConsumerFacts DEF Asking
    <3>5. Head(wk[d].names) # p BY <3>2, <3>3 DEF Told, Waiting
    <3>6. entry[Head(wk[d].names)].by # None BY <3>3, <1>2 DEF CacheInv, Acquiring
    <3> QED BY <3>3, <3>4, <3>5, <3>6, <1>17
  <2>3. ASSUME NEW d \in Consumer, NEW e \in Consumer, d # e, wk'[d].new # 0
        PROVE  wk'[d].new # wk'[e].new
    <3>1. d # c BY <2>3, <1>12, <1>14
    <3>2. CASE e = c BY <2>3, <3>2, <1>12, <1>14
    <3>3. CASE e # c BY <2>3, <3>1, <3>3, <1>2, <1>14 DEF CacheInv, Acquiring
    <3> QED BY <3>2, <3>3
  <2> QED BY <2>1, <2>2, <2>3 DEF Acquiring
<1> QED BY <1>2, <1>3, <1>13, <1>14, <1>15, <1>19, <1>20 DEF CacheInv

LEMMA AgeKeeps ==
  ASSUME IInv, Age, UNCHANGED runVars
  PROVE  CacheInv'
<1>1. CacheInv /\ UNCHANGED <<world, stateEnv, ran>> /\ UNCHANGED <<cacheVars, wk>>
  BY DEF IInv, runVars, Age
<1>2. PICK k : k \in Kept /\ cred' = [cred EXCEPT ![k].soon = TRUE]
  <2>1. PICK p \in Provider : Usable(entry[p].id) /\ cred' = [cred EXCEPT ![entry[p].id].soon = TRUE]
    BY DEF Age
  <2>2. entry[p].id \in Kept BY <1>1, <2>1 DEF CacheInv, EntriesOK, Usable
  <2> QED BY <2>1, <2>2
<1>3. cred \in Seq(Credential) /\ Kept \subseteq DOMAIN cred BY <1>1, KeptIssued DEF CacheInv, CredsOK
<1>4. Kept' = Kept BY <1>1 DEF Kept, cacheVars
<1>5. /\ cred' \in Seq(Credential) /\ DOMAIN cred' = DOMAIN cred
      /\ \A i \in DOMAIN cred : cred'[i].born = cred[i].born /\ cred'[i].cleaned = cred[i].cleaned
  <2>1. PICK x : x = cred[k] OBVIOUS
  <2>2. PICK z : z = [x EXCEPT !.soon = TRUE] OBVIOUS
  <2>3. DOMAIN cred = 1..Len(cred) /\ Len(cred) \in Nat /\ k \in DOMAIN cred BY <1>2, <1>3
  <2>4. x \in Credential BY <2>1, <2>3, <1>3
  <2>5. z \in Credential /\ z.born = x.born /\ z.cleaned = x.cleaned BY <2>2, <2>4 DEF Credential
  <2>6. cred' = [cred EXCEPT ![k] = z] BY <2>1, <2>2, <1>2
  <2>7. cred' \in Seq(Credential) /\ DOMAIN cred' = DOMAIN cred BY <2>3, <2>5, <2>6, <1>3
  <2> QED BY <2>1, <2>3, <2>5, <2>6, <2>7
<1>6. \A i, t : Fresh(i, t) => Fresh(i, t)' BY <1>3, <1>4, <1>5 DEF Fresh
<1>7. ASSUME NEW d \in Consumer PROVE (RecOK(d, wk[d]) /\ NewOK(wk[d]))'
  <2>1. PICK x : x = wk[d] OBVIOUS
  <2>2. RecOK(d, x) /\ NewOK(x) BY <1>1, <2>1 DEF CacheInv
  <2>3. RecOK(d, x)' BY <2>2, <1>1, <1>4, <1>6 DEF RecOK, Data, cacheVars
  <2>4. NewOK(x)' BY <2>2, <1>4, <1>5 DEF NewOK
  <2> QED BY <2>1, <2>3, <2>4, <1>1
<1>8. CredsOK' BY <1>1, <1>4, <1>5, <1>6 DEF CacheInv, CredsOK, Fresh, cacheVars
<1>9. EntriesOK' BY <1>1, <1>3, <1>4, <1>5 DEF CacheInv, EntriesOK, cacheVars
<1>10. Acquiring' BY <1>1 DEF CacheInv, Acquiring, cacheVars
<1> QED BY <1>1, <1>7, <1>8, <1>9, <1>10 DEF CacheInv, cacheVars

LEMMA RebindKeeps ==
  ASSUME IInv, NEW w \in Worker, Rebind(w)
  PROVE  CacheInv'
<1> USE StackAssumption
<1> PICK rec : rec = [[wk[w] EXCEPT !.pc = "request", !.names = <<StateProvider>>, !.got = {},
                         !.rebound = TRUE, !.then = "restate", !.else = "refused"]
                         EXCEPT !.since = generation + 1] OBVIOUS
<1>1. /\ w \in Consumer /\ w # Main /\ RecOK(w, wk[w]) /\ NewOK(wk[w]) /\ DOMAIN wk[w] = Fields
      /\ wk[w].pc = "expired"
  BY WorkerFacts DEF Rebind, At
<1>2. CacheInv /\ UNCHANGED <<world, stateEnv, ran>> BY DEF IInv, runVars, Rebind
<1>3. /\ entry' = [p \in Provider |-> [entry[p] EXCEPT !.id = 0]]
      /\ generation' = generation + 1
      /\ wk' = [wk EXCEPT ![w] = rec]
      /\ UNCHANGED <<owned, closed, cred>>
  BY DEF Rebind, InvalidateAll, Invalidated, Consumed
<1>4. Kept' = Kept /\ generation \in Nat BY <1>2, <1>3 DEF Kept, CacheInv
<1>5. /\ DOMAIN rec = Fields /\ rec.pc = "request" /\ rec.names = <<StateProvider>>
      /\ rec.got = {} /\ rec.then = "restate" /\ rec.else = "refused" /\ rec.since = generation + 1
      /\ \A f \in {"new", "began", "answer", "todo", "env"} : rec[f] = wk[w][f]
  BY <1>1 DEF Fields
<1>6. wk[w].new = 0 /\ wk[w].answer = NoAnswer BY <1>1 DEF NewOK, RecOK, Shape
<1>7. <<StateProvider>> \in Seq(Provider) /\ <<StateProvider>> # << >> OBVIOUS
<1>8. Shape(w, rec) BY <1>1, <1>5, <1>7 DEF RecOK, Shape, Asking, WorkerPCs
<1>9. Data(rec)' BY <1>1, <1>2, <1>3, <1>4, <1>5, <1>6 DEF RecOK, Data, NoAnswer
<1>10. DOMAIN wk' = Consumer /\ wk'[w] = rec /\ \A d \in Consumer \ {w} : wk'[d] = wk[d]
  BY <1>1, <1>2, <1>3 DEF CacheInv
<1>11. ASSUME NEW d \in Consumer PROVE (RecOK(d, wk[d]) /\ NewOK(wk[d]))'
  <2>1. CASE d = w
    <3>1. NewOK(rec)' BY <1>5, <1>6 DEF NewOK
    <3> QED BY <2>1, <3>1, <1>8, <1>9, <1>10 DEF RecOK, NewOK, Data
  <2>2. CASE d # w
    <3>1. PICK x : x = wk[d] OBVIOUS
    <3>2. RecOK(d, x) /\ NewOK(x) BY <1>2, <3>1 DEF CacheInv
    <3>3. Data(x)' BY <3>2, <1>2, <1>3, <1>4 DEF RecOK, Data, Fresh
    <3>4. NewOK(x)' BY <3>2, <1>3, <1>4 DEF NewOK
    <3> QED BY <2>2, <3>1, <3>2, <3>3, <3>4, <1>10 DEF RecOK, NewOK, Data
  <2> QED BY <2>1, <2>2
<1>12. \A d \in Consumer : wk'[d].new = wk[d].new BY ZenonT(60), <1>5, <1>6, <1>10
<1>13. CredsOK' BY <1>2, <1>3, <1>4, <1>12 DEF CacheInv, CredsOK, Fresh
<1>14. entry \in [Provider -> [id : Nat, by : Consumer \cup {None}]] BY <1>2 DEF CacheInv, EntriesOK
<1>15. \A p \in Provider : entry'[p] \in [id : Nat, by : Consumer \cup {None}]
                            /\ entry'[p].id = 0 /\ entry'[p].by = entry[p].by
  BY <1>3, <1>14
<1>16. EntriesOK'
  <2>1. entry' \in [Provider -> [id : Nat, by : Consumer \cup {None}]]
    BY <1>3, <1>15
  <2>2. ASSUME NEW p \in Provider, entry'[p].by # None
        PROVE  wk'[entry'[p].by].pc \in {"acquire", "settle"} /\ Head(wk'[entry'[p].by].names) = p
    <3>1. entry[p].by \in Consumer /\ entry'[p].by = entry[p].by BY <2>2, <1>14, <1>15
    <3>2. wk[entry[p].by].pc \in {"acquire", "settle"} /\ Head(wk[entry[p].by].names) = p
      BY <2>2, <3>1, <1>2 DEF CacheInv, EntriesOK
    <3> QED BY <3>1, <3>2, <1>1, <1>10
  <2> QED BY <2>1, <2>2, <1>15 DEF EntriesOK
<1>17. Acquiring'
  <2>1. \A d \in Consumer : wk'[d].pc \in {"acquire", "settle", "wait"} =>
          d # w /\ wk'[d] = wk[d] /\ Head(wk[d].names) \in Provider
    BY ZenonT(60), <1>5, <1>10, ConsumerFacts DEF Asking
  <2>2. \A d \in Consumer : wk'[d].pc \in {"acquire", "settle"} => entry'[Head(wk'[d].names)].by = d
    BY <2>1, <1>2, <1>15 DEF CacheInv, Acquiring
  <2>3. \A d \in Consumer : wk'[d].pc = "wait" /\ wk'[d].answer = NoAnswer =>
                             entry'[Head(wk'[d].names)].by # None
    BY <2>1, <1>2, <1>15 DEF CacheInv, Acquiring
  <2> QED BY <2>2, <2>3, <1>2, <1>12 DEF CacheInv, Acquiring
<1> QED BY <1>2, <1>3, <1>4, <1>10, <1>11, <1>13, <1>16, <1>17 DEF CacheInv

(* Nothing is being acquired when the main goroutine closes the cache. *)
LEMMA CloseKeeps ==
  ASSUME IInv, Close
  PROVE  /\ CacheInv'
         /\ closed' = TRUE /\ wk'[Main].pc = "end" /\ \A i \in DOMAIN cred' : cred'[i].cleaned = 1
<1> USE ConsumerAssumption
<1>1. CacheInv /\ MainInv /\ UNCHANGED <<world, stateEnv, ran>> BY DEF IInv, runVars, Close
<1>2. /\ ~closed /\ closed' = TRUE /\ UNCHANGED <<entry, generation, owned>>
      /\ cred' = CleanedUp(Kept)
      /\ wk' = [wk EXCEPT ![Main] = [wk[Main] EXCEPT !.pc = "end"]] /\ wk[Main].pc = "close"
  BY DEF Close, CloseCache, Move, Consumed, At, Kept
<1>3. cred \in Seq(Credential) /\ Kept \subseteq DOMAIN cred
      /\ \A i \in DOMAIN cred : cred[i] \in Credential
  BY <1>1, KeptIssued DEF CacheInv, CredsOK
<1>4. \A d \in Consumer : wk[d].pc \notin Asking /\ wk[d].new = 0
  BY <1>1, <1>2 DEF CacheInv, MainInv, NewOK, Asking
<1>5. \A i \in DOMAIN cred : i \in Kept <=> cred[i].cleaned = 0
  <2>1. DOMAIN cred = 1..Len(cred) BY <1>3
  <2> QED BY <2>1, <1>1, <1>2, <1>4 DEF CacheInv, CredsOK
<1>6. /\ cred' \in Seq(Credential) /\ DOMAIN cred' = DOMAIN cred
      /\ \A i \in DOMAIN cred : cred'[i].born = cred[i].born /\ cred'[i].cleaned = 1
  <2>1. cred' = [i \in DOMAIN cred |-> IF i \in Kept THEN [cred[i] EXCEPT !.cleaned = @ + 1] ELSE cred[i]]
    BY <1>2 DEF CleanedUp
  <2>2. ASSUME NEW i \in DOMAIN cred
        PROVE  cred'[i] \in Credential /\ cred'[i].born = cred[i].born /\ cred'[i].cleaned = 1
    <3>1. cred[i] \in Credential BY <1>3
    <3>2. PICK x : x = cred[i] OBVIOUS
    <3>3. CASE i \in Kept
      <4>1. x.cleaned = 0 BY <3>2, <3>3, <1>5
      <4>2. cred'[i] = [x EXCEPT !.cleaned = x.cleaned + 1] BY <2>1, <3>2, <3>3
      <4>3. PICK z : z = [x EXCEPT !.cleaned = x.cleaned + 1] OBVIOUS
      <4>4. z \in Credential /\ z.born = x.born /\ z.cleaned = 1 BY <4>1, <4>3, <3>1, <3>2 DEF Credential
      <4> QED BY <4>2, <4>3, <4>4, <3>2
    <3>4. CASE i \notin Kept
      <4>1. cred'[i] = x BY <2>1, <3>2, <3>4
      <4>2. x.cleaned # 0 BY <3>2, <3>4, <1>5
      <4>3. x.cleaned \in {0, 1} BY <3>1, <3>2 DEF Credential
      <4> QED BY <4>1, <4>2, <4>3, <3>1, <3>2
    <3> QED BY <3>3, <3>4
  <2>3. DOMAIN cred' = 1..Len(cred) /\ Len(cred) \in Nat /\ DOMAIN cred = 1..Len(cred)
    BY <2>1, <1>3
  <2>4. cred' \in [1..Len(cred) -> Credential] BY <2>1, <2>2, <2>3
  <2>5. cred' \in Seq(Credential) BY <2>3, <2>4
  <2> QED BY <2>2, <2>3, <2>5
<1>7. Kept' = Kept BY <1>2 DEF Kept
<1>8. \A i, t : Fresh(i, t) => Fresh(i, t)' BY <1>3, <1>6, <1>7 DEF Fresh
<1> PICK rec : rec = [wk[Main] EXCEPT !.pc = "end"] OBVIOUS
<1>9. RecOK(Main, wk[Main]) /\ DOMAIN wk[Main] = Fields BY <1>1 DEF CacheInv, RecOK, Shape
<1>10. DOMAIN rec = Fields /\ rec.pc = "end" /\ \A f \in Fields \ {"pc"} : rec[f] = wk[Main][f]
  BY <1>9 DEF Fields
<1>11. RecOK(Main, rec) /\ rec.new = 0
  BY <1>2, <1>4, <1>9, <1>10 DEF RecOK, Shape, Data, Fields, Asking, MainPCs
<1>12. DOMAIN wk' = Consumer /\ wk'[Main] = rec /\ \A d \in Consumer \ {Main} : wk'[d] = wk[d]
  BY <1>1, <1>2 DEF CacheInv
<1>13. \A d \in Consumer : wk'[d].new = 0 /\ wk'[d].pc \notin Asking
  BY <1>4, <1>10, <1>11, <1>12 DEF Asking
<1>14. ASSUME NEW d \in Consumer PROVE (RecOK(d, wk[d]) /\ NewOK(wk[d]))'
  <2>1. PICK x : x = wk'[d] OBVIOUS
  <2>2. RecOK(d, x) BY <2>1, <1>1, <1>11, <1>12 DEF CacheInv
  <2>3. RecOK(d, x)' BY <2>2, <1>1, <1>2, <1>7, <1>8 DEF RecOK, Data
  <2> QED BY <2>1, <2>3, <1>13 DEF RecOK, Data, NewOK
<1>15. CredsOK' BY <1>1, <1>2, <1>6, <1>7, <1>8 DEF CacheInv, CredsOK, Fresh
<1>16. EntriesOK'
  <2>1. \A p \in Provider : entry[p].by = None
    BY <1>1, <1>4 DEF CacheInv, EntriesOK, Asking
  <2> QED BY <2>1, <1>1, <1>2, <1>3, <1>6, <1>7 DEF CacheInv, EntriesOK
<1>17. Acquiring' BY <1>13 DEF Acquiring, Asking
<1> QED BY <1>1, <1>2, <1>6, <1>10, <1>12, <1>14, <1>15, <1>16, <1>17 DEF CacheInv

(* A step of a consumer in the cache. *)
CacheStep(c) ==
  Request(c) \/ ProviderAnswers(c) \/ Settle(c) \/ Wake(c) \/ (cancelled /\ StopWaiting(c))

LEMMA CacheStepKeeps ==
  ASSUME IInv, NEW c \in Consumer, CacheStep(c), UNCHANGED runVars
  PROVE  CacheInv'
<1>1. RecOK(c, wk[c]) BY ConsumerFacts
<1>2. CASE Wake(c)
  <2> PICK o : o = wk[c].answer OBVIOUS
  <2>1. o.kind = "ok" => Fresh(o.id, wk[c].since) BY <1>1 DEF RecOK, Data
  <2>2. wk[c].pc = "wait" /\ Consumed(c, GoOn(c, wk[c], o)) /\ UNCHANGED <<cacheVars, cred>>
    BY <1>2 DEF Wake
  <2>3. UNCHANGED <<world, stateEnv, ran>> BY DEF runVars
  <2> QED BY <2>1, <2>2, <2>3, GoOnKeeps
<1>3. CASE StopWaiting(c)
  <2> PICK o : o = [kind |-> "error", id |-> 0] OBVIOUS
  <2>1. GoOn(c, wk[c], o) = Refused(wk[c]) BY DEF GoOn
  <2>2. wk[c].pc = "wait" /\ Consumed(c, GoOn(c, wk[c], o)) /\ UNCHANGED <<cacheVars, cred>>
    BY <1>3, <2>1 DEF StopWaiting
  <2>3. UNCHANGED <<world, stateEnv, ran>> BY DEF runVars
  <2>4. o.kind # "ok" OBVIOUS
  <2> QED BY <2>2, <2>3, <2>4, GoOnKeeps
<1> QED BY <1>2, <1>3, RequestKeeps, AnswersKeeps, SettleKeeps DEF CacheStep

(* Where such a step leads to. *)
LEMMA CacheStepPlaces ==
  ASSUME IInv, NEW c \in Consumer, CacheStep(c)
  PROVE  /\ wk[c].pc \in Asking
         /\ wk'[c].pc \in Asking \cup {"login", "denied", "merge", "restate", "refused"}
         /\ \A d \in Consumer : wk'[d].todo = wk[d].todo
         /\ \A d \in Consumer \ {c} : wk'[d].pc = wk[d].pc
         /\ closed' = closed
<1>0. DOMAIN wk = Consumer /\ Shape(c, wk[c]) BY DEF IInv, CacheInv, RecOK
<1>1. wk[c].pc \in Asking
  BY DEF CacheStep, Request, ProviderAnswers, Settle, Wake, StopWaiting, Asking
<1>2. ASSUME NEW o, NEW x, Shape(c, x), x.pc \in Asking
      PROVE  LET y == GoOn(c, x, o) IN
             y.pc \in {"request", "login", "denied", "merge", "restate", "refused"} /\ y.todo = x.todo
  <2>1. x.then \in {"login", "merge", "restate"} /\ x.else \in {"denied", "refused"}
    BY <1>2 DEF Shape
  <2> USE DEF Fields
  <2>2. CASE o.kind = "ok" BY <1>2, <2>1, <2>2 DEF GoOn, Took, Shape
  <2>3. CASE o.kind = "retry" BY <1>2, <2>3 DEF GoOn, Shape
  <2>4. CASE o.kind \notin {"ok", "retry"}
    <3>1. GoOn(c, x, o) = Refused(x) BY <2>4 DEF GoOn
    <3> QED BY <1>2, <2>1, <3>1 DEF Refused, Shape
  <2> QED BY <2>2, <2>3, <2>4
<1>3. ASSUME NEW rec, wk' = [wk EXCEPT ![c] = rec], rec.todo = wk[c].todo
      PROVE  /\ \A d \in Consumer : wk'[d].todo = wk[d].todo
             /\ \A d \in Consumer \ {c} : wk'[d].pc = wk[d].pc
             /\ wk'[c].pc = rec.pc
  BY <1>0, <1>3
<1>4. CASE Request(c)
  <2> PICK p : p = Head(wk[c].names) OBVIOUS
  <2>0. closed' = closed BY <1>4 DEF Request
  <2>1. PICK rec : /\ wk' = [wk EXCEPT ![c] = rec]
                   /\ \/ rec = Refused(wk[c])
                      \/ rec = Took(c, wk[c], entry[p].id)
                      \/ rec = [wk[c] EXCEPT !.pc = "wait"]
                      \/ rec = [wk[c] EXCEPT !.pc = "acquire", !.began = generation]
    BY <1>4 DEF Request, Consumed
  <2>2. CASE rec = Refused(wk[c])
    <3> PICK o : o = [kind |-> "error", id |-> 0] OBVIOUS
    <3>1. GoOn(c, wk[c], o) = Refused(wk[c]) BY DEF GoOn
    <3> QED BY <2>0, <2>1, <2>2, <3>1, <1>0, <1>1, <1>2, <1>3 DEF Asking
  <2>3. CASE rec = Took(c, wk[c], entry[p].id)
    <3> PICK o : o = [kind |-> "ok", id |-> entry[p].id] OBVIOUS
    <3>1. GoOn(c, wk[c], o) = Took(c, wk[c], entry[p].id) BY DEF GoOn
    <3>2. rec = GoOn(c, wk[c], o) BY <2>3, <3>1
    <3>3. /\ rec.pc \in {"request", "login", "denied", "merge", "restate", "refused"}
          /\ rec.todo = wk[c].todo
      BY <3>2, <1>0, <1>1, <1>2
    <3> QED BY <2>0, <2>1, <3>3, <1>1, <1>3 DEF Asking
  <2>4. CASE rec = [wk[c] EXCEPT !.pc = "wait"]
    <3>1. rec.todo = wk[c].todo /\ rec.pc = "wait" BY <2>4, <1>0 DEF Shape, Fields
    <3> QED BY <2>0, <2>1, <3>1, <1>1, <1>3 DEF Asking
  <2>5. CASE rec = [wk[c] EXCEPT !.pc = "acquire", !.began = generation]
    <3>1. rec.todo = wk[c].todo /\ rec.pc = "acquire" BY <2>5, <1>0 DEF Shape, Fields
    <3> QED BY <2>0, <2>1, <3>1, <1>1, <1>3 DEF Asking
  <2> QED BY <2>1, <2>2, <2>3, <2>4, <2>5
<1>5. CASE ProviderAnswers(c)
  <2>1. PICK n : wk' = [wk EXCEPT ![c] = [wk[c] EXCEPT !.pc = "settle", !.new = n]]
    BY <1>5 DEF ProviderAnswers, Consumed
  <2> PICK rec : rec = [wk[c] EXCEPT !.pc = "settle", !.new = n] OBVIOUS
  <2>2. rec.todo = wk[c].todo /\ rec.pc = "settle" BY <1>0 DEF Shape, Fields
  <2>3. closed' = closed BY <1>5 DEF ProviderAnswers, cacheVars
  <2> QED BY <2>1, <2>2, <2>3, <1>1, <1>3 DEF Asking
<1>6. CASE Settle(c)
  <2> PICK o : o = Outcome(c) OBVIOUS
  <2> PICK y : y = [wk[c] EXCEPT !.new = 0] OBVIOUS
  <2>1. Shape(c, y) /\ y.pc \in Asking /\ y.todo = wk[c].todo
    BY <1>0, <1>1 DEF Shape, Fields
  <2>2. wk'[c] = GoOn(c, y, o) BY <1>6 DEF Settle
  <2>3. wk'[c].pc \in {"request", "login", "denied", "merge", "restate", "refused"}
        /\ wk'[c].todo = wk[c].todo
    <3> PICK z : z = GoOn(c, y, o) OBVIOUS
    <3>1. z.pc \in {"request", "login", "denied", "merge", "restate", "refused"} /\ z.todo = y.todo
      BY ZenonT(60), <2>1, <1>2
    <3>2. wk'[c] = z BY <2>2
    <3> QED BY <2>1, <3>1, <3>2
  <2>4. ASSUME NEW d \in Consumer \ {c} PROVE wk'[d].pc = wk[d].pc /\ wk'[d].todo = wk[d].todo
    <3>1. DOMAIN wk[d] = Fields BY ConsumerFacts
    <3>2. wk'[d] = IF d \in Told(c) THEN [wk[d] EXCEPT !.answer = o] ELSE wk[d] BY <1>6 DEF Settle
    <3> QED BY <3>1, <3>2 DEF Fields
  <2>5. closed' = closed BY <1>6 DEF Settle
  <2> QED BY <2>3, <2>4, <2>5, <1>1 DEF Asking
<1>7. CASE Wake(c)
  <2> PICK o : o = wk[c].answer OBVIOUS
  <2> PICK rec : rec = GoOn(c, wk[c], o) OBVIOUS
  <2>1. wk' = [wk EXCEPT ![c] = rec] /\ closed' = closed BY <1>7 DEF Wake, Consumed, cacheVars
  <2> QED BY <2>1, <1>0, <1>1, <1>2, <1>3 DEF Asking
<1>8. CASE StopWaiting(c)
  <2> PICK o : o = [kind |-> "error", id |-> 0] OBVIOUS
  <2> PICK rec : rec = GoOn(c, wk[c], o) OBVIOUS
  <2>1. rec = Refused(wk[c]) BY DEF GoOn
  <2>2. wk' = [wk EXCEPT ![c] = rec] /\ closed' = closed BY <1>8, <2>1 DEF StopWaiting, Consumed, cacheVars
  <2> QED BY <2>2, <1>0, <1>1, <1>2, <1>3 DEF Asking
<1> QED BY <1>4, <1>5, <1>6, <1>7, <1>8 DEF CacheStep

LEMMA CacheNext ==
  ASSUME IInv, [Next]_vars
  PROVE  CacheInv'
<1>1. CASE UNCHANGED <<cacheVars, cred, wk, world, stateEnv, ran>>
  BY <1>1 DEF cacheVars, IInv, CacheInv, RecOK, Data, NewOK, CredsOK, EntriesOK, Acquiring, Fresh, Kept
<1>2. CASE \E w \in Worker : WorkerStep(w) BY <1>2, WorkerKeepsCache
<1>3. CASE \E w \in Worker : Rebind(w) BY <1>3, RebindKeeps
<1>4. CASE \E c \in Consumer : CacheStep(c) /\ UNCHANGED runVars BY <1>4, CacheStepKeeps
<1>5. CASE Cancel \/ Finished \/ UNCHANGED vars
  BY <1>1, <1>5 DEF Cancel, Finished, vars, runVars
<1> QED
  BY <1>2, <1>3, <1>4, <1>5, MainKeepsCache, CloseKeeps, AgeKeeps
  DEF Next, MainStep, WorkerStep, CacheStep

-----------------------------------------------------------------------------
(* The main goroutine. *)

(* A worker that does something has a main goroutine that waits for it. *)
LEMMA MainWaits ==
  ASSUME IInv, NEW w \in Worker, wk[w].pc \notin {"idle", "off"}
  PROVE  wk[Main].pc = "work" /\ ~closed /\ ~NoTargets
  BY DEF IInv, MainInv

LEMMA MainNext ==
  ASSUME IInv, [Next]_vars
  PROVE  MainInv'
<1> USE ConsumerAssumption DEF NoTargets, Drifting
<1>0. MainInv /\ DOMAIN wk = Consumer /\ Main \in Consumer /\ RecOK(Main, wk[Main])
      /\ DOMAIN wk[Main] = Fields
  BY DEF IInv, CacheInv, RecOK, Shape
<1>1. ASSUME wk'[Main].pc = "work", wk[Main].pc = "work", ~closed, ~closed', world' = world
      PROVE  MainInv'
  BY <1>0, <1>1 DEF MainInv
<1>2. ASSUME NEW w \in Worker, NEW rec, wk' = [wk EXCEPT ![w] = rec], wk[Main].pc = "work", ~closed,
             closed' = closed, world' = world
      PROVE  MainInv'
  BY <1>0, <1>1, <1>2
<1>3. CASE \E w \in Worker : WorkerStep(w) \/ Rebind(w)
  <2>1. PICK w \in Worker : WorkerStep(w) \/ Rebind(w) BY <1>3
  <2>2. PICK rec : wk' = [wk EXCEPT ![w] = rec]
    BY <2>1 DEF WorkerStep, Take, Merge, AuthFails, SelectWorkspace, Plan, Restate, Rebind, Record,
                Consumed, InvalidateAll
  <2>3. closed' = closed /\ world' = world
    BY <2>1 DEF WorkerStep, Take, Merge, AuthFails, SelectWorkspace, Plan, Restate, Rebind, Record,
                InvalidateAll, cacheVars, runVars
  <2>4. wk[Main].pc = "work" \/ wk[w].pc \notin {"idle", "off"}
    BY <2>1 DEF WorkerStep, Take, Merge, AuthFails, SelectWorkspace, Plan, Restate, Rebind, At
  <2>5. wk[Main].pc = "work" BY <2>4, MainWaits
  <2>6. ~closed BY <2>5, <1>0 DEF MainInv
  <2> QED BY <2>2, <2>3, <2>5, <2>6, <1>2
<1>4. CASE \E c \in Consumer : CacheStep(c) /\ UNCHANGED runVars
  <2>1. PICK c \in Consumer : CacheStep(c) /\ UNCHANGED runVars BY <1>4
  <2>2. /\ wk[c].pc \in Asking
        /\ wk'[c].pc \in Asking \cup {"login", "denied", "merge", "restate", "refused"}
        /\ \A d \in Consumer \ {c} : wk'[d].pc = wk[d].pc
        /\ closed' = closed /\ world' = world
    BY <2>1, CacheStepPlaces DEF runVars
  <2>3. CASE c = Main
    <3>1. /\ wk[Main].pc \notin {"start", "open", "work", "end", "manifest", "board", "notify"}
          /\ wk'[Main].pc \notin {"start", "open", "work", "end", "manifest", "board", "notify"}
          /\ \A w \in Worker : wk'[w].pc = wk[w].pc
      BY <2>2, <2>3 DEF Asking
    <3> QED BY <3>1, <2>2, <1>0 DEF MainInv
  <2>4. CASE c # Main
    <3>1. wk[Main].pc = "work" /\ ~closed BY <2>2, <2>4, MainWaits DEF Asking
    <3> QED BY <3>1, <2>2, <2>4, <1>0, <1>1
  <2> QED BY <2>3, <2>4
<1>5. CASE Age /\ UNCHANGED runVars
  <2>1. cred # << >> /\ UNCHANGED <<closed, wk, world>>
    <3>1. PICK p \in Provider : Usable(entry[p].id) BY <1>5 DEF Age
    <3>2. entry[p].id \in Kept BY <3>1 DEF IInv, CacheInv, EntriesOK, Usable
    <3>3. entry[p].id \in DOMAIN cred BY <3>2, KeptIssued DEF IInv, CacheInv
    <3> QED BY <3>3, <1>5 DEF Age, cacheVars, runVars
  <2> QED BY <2>1, <1>0 DEF MainInv
<1>6. CASE Close
  <2>1. /\ closed' = TRUE /\ wk'[Main].pc = "end" /\ world' = world
        /\ wk[Main].pc = "close" /\ \A w \in Worker : wk'[w] = wk[w]
    BY <1>0, <1>6, CloseKeeps DEF Close, runVars, Move, Consumed, At
  <2> QED BY <2>1, <1>0 DEF MainInv
<1>7. CASE MainStep
  <2>1. /\ UNCHANGED <<closed, cred, world>>
        /\ \A w \in Worker : wk'[w] = wk[w]
    BY <1>0, <1>7 DEF MainStep, Resolve, OpenBucket, StartDrift, Denied, Login, Collect, WriteManifest,
                      PostComment, Finish, Fail, Move, Consumed, cacheVars
  <2>2. ASSUME NEW pc, Move(pc) PROVE wk'[Main].pc = pc
    BY <1>0, <2>2 DEF Move, Consumed, Fields
  <2>3. ASSUME Consumed(Main, [wk[Main] EXCEPT !.pc = "request", !.names = <<StateProvider>>,
                                               !.then = "login", !.else = "denied"])
        PROVE  wk'[Main].pc = "request"
    BY <1>0, <2>3 DEF Consumed, Fields
  <2> USE DEF At, Fail
  <2>4. CASE Resolve
    <3>1. wk[Main].pc = "start" /\ ~Drifting BY <2>4 DEF Resolve
    <3>2. /\ wk'[Main].pc \in {"end", "manifest", "open"}
          /\ wk'[Main].pc = "open" => world.targets # << >>
          /\ wk'[Main].pc = "manifest" => world.targets = << >>
      BY <2>2, <2>4 DEF Resolve
    <3>3. cred = << >> BY <3>1, <1>0 DEF MainInv
    <3>4. \A w \in Worker : wk[w].pc \in {"idle", "off"} BY <3>1, <1>0 DEF MainInv
    <3> QED BY <3>1, <3>2, <3>3, <3>4, <2>1, <1>0 DEF MainInv
  <2>5. CASE OpenBucket
    <3>1. wk[Main].pc = "open" /\ wk'[Main].pc \in {"end", "request"}
      BY <2>2, <2>3, <2>5 DEF OpenBucket
    <3> QED BY <3>1, <2>1, <1>0 DEF MainInv
  <2>6. CASE StartDrift
    <3>1. wk[Main].pc = "start" /\ wk'[Main].pc = "request" /\ Drifting BY <2>3, <2>6 DEF StartDrift
    <3> QED BY <3>1, <2>1, <1>0 DEF MainInv
  <2>7. CASE Denied
    <3>1. wk[Main].pc = "denied" /\ wk'[Main].pc = "close" BY <2>2, <2>7 DEF Denied
    <3> QED BY <3>1, <2>1, <1>0 DEF MainInv
  <2>8. CASE Login
    <3>1. wk[Main].pc = "login" /\ wk'[Main].pc \in {"work", "close"} BY <2>2, <2>8 DEF Login
    <3> QED BY <3>1, <2>1, <1>0 DEF MainInv
  <2>9. CASE Collect
    <3>1. wk[Main].pc = "work" /\ wk'[Main].pc = IF Drifting THEN "close" ELSE "manifest"
      BY <2>2, <2>9 DEF Collect
    <3>2. \A w \in Worker : wk[w].pc \in {"idle", "off"} BY <2>9 DEF Collect, Workers
    <3> QED BY <3>1, <3>2, <2>1, <1>0 DEF MainInv
  <2>10. CASE WriteManifest
    <3>1. wk[Main].pc = "manifest" /\ wk'[Main].pc \in {"board", "close"}
      BY <2>2, <2>10 DEF WriteManifest, Ending
    <3>2. world.targets = << >> => wk'[Main].pc = "board" BY <2>2, <2>10 DEF WriteManifest
    <3> QED BY <3>1, <3>2, <2>1, <1>0 DEF MainInv
  <2>11. CASE PostComment
    <3>1. wk[Main].pc = "board" /\ wk'[Main].pc \in {"notify", Ending} BY <2>2, <2>11 DEF PostComment
    <3> QED BY <3>1, <2>1, <1>0 DEF MainInv, Ending
  <2>12. CASE Finish
    <3>1. wk[Main].pc = "notify" /\ wk'[Main].pc = Ending BY <2>2, <2>12 DEF Finish
    <3> QED BY <3>1, <2>1, <1>0 DEF MainInv, Ending
  <2> QED BY <1>7, <2>4, <2>5, <2>6, <2>7, <2>8, <2>9, <2>10, <2>11, <2>12 DEF MainStep
<1>8. CASE Cancel \/ Finished \/ UNCHANGED vars
  <2>1. UNCHANGED <<closed, cred, wk, world>> BY <1>8 DEF Cancel, Finished, vars, cacheVars, runVars
  <2> QED BY <2>1, <1>0 DEF MainInv
<1> QED
  BY <1>3, <1>4, <1>5, <1>6, <1>7, <1>8 DEF Next, MainStep, WorkerStep, CacheStep

-----------------------------------------------------------------------------
(* The directories. *)

(* The stack a busy worker is at is one of the targets. *)
LEMMA CurIsTarget ==
  ASSUME IInv, NEW w \in Worker, wk[w].pc \notin {"idle", "off"}
  PROVE  /\ Min(wk[w].todo) \in wk[w].todo
         /\ Cur(wk[w].todo) = world.targets[Min(wk[w].todo)]
         /\ Cur(wk[w].todo) \in Stack
<1>1. world.targets \in Seq(Stack) BY WorldsAssumption DEF IInv, MainInv
<1>2. wk[w].todo # {} /\ wk[w].todo \subseteq DOMAIN world.targets
  BY WorkerFacts DEF RecOK, Shape
<1>3. Min(wk[w].todo) \in wk[w].todo BY <1>1, <1>2, FirstIsIn
<1> QED BY <1>1, <1>2, <1>3 DEF Cur

(* Steps in which nobody gets stacks, selects a workspace or plans. *)
LEMMA DirQuiet ==
  ASSUME IInv, UNCHANGED <<world, queue, ws, ran>>,
         \A w \in Worker : /\ wk'[w].todo \subseteq wk[w].todo
                           /\ wk'[w].pc = "plan" => wk[w].pc = "plan" /\ wk'[w].todo = wk[w].todo
  PROVE  DirInv'
  BY DEF IInv, DirInv, Drifting, Apart, Cur, PlannedInOwnWorkspace

(* A stack is done with, and the worker goes on. *)
LEMMA RecordPlaces ==
  ASSUME IInv, NEW w \in Worker, NEW status, Record(w, status)
  PROVE  /\ \A v \in Worker \ {w} : wk'[v] = wk[v]
         /\ wk'[w].todo \subseteq wk[w].todo
         /\ wk'[w].pc # "plan"
<1>1. wk[w].todo \ {Min(wk[w].todo)} \in SUBSET DOMAIN world.targets BY WorkerFacts
<1>2. PICK t \in SUBSET DOMAIN world.targets : t = wk[w].todo \ {Min(wk[w].todo)} BY <1>1
<1>3. PICK y : y = Begin(w, t) OBVIOUS
<1>4. y.pc \in {"idle", "merge", "request"} /\ y.todo = t BY <1>3, BeginOK
<1>5. wk' = [wk EXCEPT ![w] = y] BY <1>2, <1>3 DEF Record, Consumed
<1>6. DOMAIN wk = Consumer /\ Worker \subseteq Consumer BY ConsumerAssumption DEF IInv, CacheInv
<1> QED BY <1>2, <1>4, <1>5, <1>6

(* The groups of a preview are in different directories. *)
LEMMA GroupsApart ==
  ASSUME IInv, ~Drifting,
         NEW g \in Groups(world.kind, world.targets), NEW h \in Groups(world.kind, world.targets)
  PROVE  g = h \/ Apart(g, h)
<1> DEFINE mates(i) == {j \in DOMAIN world.targets : Dir[world.targets[j]] = Dir[world.targets[i]]}
<1>1. PICK i \in DOMAIN world.targets : g = mates(i) BY DEF Groups, Drifting
<1>2. PICK j \in DOMAIN world.targets : h = mates(j) BY DEF Groups, Drifting
<1>3. CASE Dir[world.targets[i]] = Dir[world.targets[j]] BY <1>1, <1>2, <1>3
<1>4. CASE Dir[world.targets[i]] # Dir[world.targets[j]] BY <1>1, <1>2, <1>4 DEF Apart
<1> QED BY <1>3, <1>4

LEMMA GroupsNonempty ==
  ASSUME NEW g \in Groups(world.kind, world.targets)
  PROVE  g \subseteq DOMAIN world.targets /\ g # {}
  BY DEF Groups

LEMMA DirNext ==
  ASSUME IInv, [Next]_vars
  PROVE  DirInv'
<1> USE ConsumerAssumption
<1>0. /\ CacheInv /\ MainInv /\ DirInv /\ DOMAIN wk = Consumer /\ Worker \subseteq Consumer
      /\ Main \in Consumer
  BY DEF IInv, CacheInv
<1>1. CASE Resolve \/ StartDrift
  <2>1. /\ \A w \in Worker : wk'[w] = wk[w]
        /\ UNCHANGED <<world, ws, ran>> /\ wk[Main].pc = "start"
    BY <1>0, <1>1 DEF Resolve, StartDrift, Fail, Move, Consumed, At
  <2>2. \A w \in Worker : wk[w].pc \in {"idle", "off"} /\ wk[w].todo = {}
    BY <2>1, <1>0, WorkerFacts DEF MainInv, RecOK, Shape
  <2>3. queue' \in {queue, {}, Groups(world.kind, world.targets)}
    BY <1>1 DEF Resolve, StartDrift
  <2>4. \A g \in queue' : g \subseteq DOMAIN world.targets /\ g # {}
    BY <2>3, <1>0, GroupsNonempty DEF DirInv
  <2>5. ~Drifting => \A g, h \in queue' : g = h \/ Apart(g, h)
    BY <2>3, <1>0, GroupsApart DEF DirInv
  <2> QED BY <2>1, <2>2, <2>4, <2>5, <1>0 DEF DirInv, Drifting, Apart, PlannedInOwnWorkspace
<1>2. CASE MainStep /\ ~(Resolve \/ StartDrift)
  <2>1. (\A w \in Worker : wk'[w] = wk[w]) /\ UNCHANGED <<world, queue, ws, ran>>
    BY <1>0, <1>2 DEF MainStep, OpenBucket, Denied, Login, Collect, WriteManifest, PostComment, Finish,
                      Fail, Move, Consumed
  <2> QED BY <2>1, DirQuiet
<1>3. CASE Close
  <2>1. (\A w \in Worker : wk'[w] = wk[w]) /\ UNCHANGED <<world, queue, ws, ran>>
    BY <1>0, <1>3 DEF Close, Move, Consumed, runVars
  <2> QED BY <2>1, DirQuiet
<1>4. CASE \E c \in Consumer : CacheStep(c) /\ UNCHANGED runVars
  <2>1. PICK c \in Consumer : CacheStep(c) /\ UNCHANGED runVars BY <1>4
  <2>2. /\ wk'[c].pc \in Asking \cup {"login", "denied", "merge", "restate", "refused"}
        /\ \A d \in Consumer : wk'[d].todo = wk[d].todo
        /\ \A d \in Consumer \ {c} : wk'[d].pc = wk[d].pc
    BY <2>1, CacheStepPlaces
  <2>3. UNCHANGED <<world, queue, ws, ran>> BY <2>1 DEF runVars
  <2> QED BY <2>2, <2>3, <1>0, DirQuiet DEF Asking
<1>5. CASE (Age /\ UNCHANGED runVars) \/ Cancel \/ Finished \/ UNCHANGED vars
  <2>1. UNCHANGED <<wk, world, queue, ws, ran>> BY <1>5 DEF Age, Cancel, Finished, vars, runVars
  <2> QED BY <2>1, DirQuiet
<1>6. ASSUME NEW w \in Worker, Take(w) PROVE DirInv'
  <2>1. PICK group \in queue : wk' = [wk EXCEPT ![w] = Begin(w, group)] /\ queue' = queue \ {group}
    BY <1>6 DEF Take, Consumed
  <2>2. group \in SUBSET DOMAIN world.targets BY <1>0 DEF DirInv
  <2>3. PICK y : y = Begin(w, group) OBVIOUS
  <2>4. y.todo = group /\ y.pc # "plan" BY <2>2, <2>3, BeginOK
  <2>5. wk'[w] = y /\ \A v \in Worker \ {w} : wk'[v] = wk[v] BY <2>1, <2>3, <1>0
  <2>6. UNCHANGED <<world, ws, ran>> BY <1>6 DEF Take
  <2>7. ASSUME ~Drifting
        PROVE  /\ \A g \in queue', v \in Worker : Apart(g, wk'[v].todo)
               /\ \A u, v \in Worker : u # v => Apart(wk'[u].todo, wk'[v].todo)
    <3>1. \A g \in queue' : Apart(g, group) BY <2>1, <2>7, <1>0 DEF DirInv
    <3>2. \A v \in Worker : Apart(group, wk[v].todo) /\ Apart(wk[v].todo, group)
      BY <2>7, <1>0 DEF DirInv, Apart
    <3> QED BY <3>1, <3>2, <2>1, <2>4, <2>5, <2>7, <1>0 DEF DirInv
  <2>8. \A v \in Worker : wk'[v].pc = "plan" => v # w BY <2>4, <2>5
  <2> QED BY <2>1, <2>5, <2>6, <2>7, <2>8, <1>0 DEF DirInv, Drifting, Apart, Cur, PlannedInOwnWorkspace
<1>7. ASSUME NEW w \in Worker, Merge(w) \/ Rebind(w) \/ Restate(w) PROVE DirInv'
  <2>1. DOMAIN wk[w] = Fields BY WorkerFacts
  <2>2. PICK rec : wk' = [wk EXCEPT ![w] = rec] /\ rec.todo = wk[w].todo /\ rec.pc # "plan"
    <3>1. CASE Merge(w)
      <4> PICK rec : rec = [wk[w] EXCEPT !.env = stateEnv \cup {g.id : g \in wk[w].got}, !.pc = "select"]
        OBVIOUS
      <4>1. wk' = [wk EXCEPT ![w] = rec] BY <3>1 DEF Merge, Consumed
      <4>2. rec.todo = wk[w].todo /\ rec.pc = "select" BY <2>1 DEF Fields
      <4> QED BY <4>1, <4>2
    <3>2. CASE Rebind(w)
      <4> PICK rec : rec = [[wk[w] EXCEPT !.pc = "request", !.names = <<StateProvider>>, !.got = {},
                               !.rebound = TRUE, !.then = "restate", !.else = "refused"]
                               EXCEPT !.since = generation + 1] OBVIOUS
      <4>1. wk' = [wk EXCEPT ![w] = rec] BY <3>2 DEF Rebind, InvalidateAll, Consumed
      <4>2. rec.todo = wk[w].todo /\ rec.pc = "request" BY <2>1 DEF Fields
      <4> QED BY <4>1, <4>2
    <3>3. CASE Restate(w)
      <4> PICK n : n = Needs[Cur(wk[w].todo)] OBVIOUS
      <4> PICK rec : rec = [wk[w] EXCEPT !.got = {}, !.names = n, !.then = "merge",
                              !.pc = IF n = << >> THEN "merge" ELSE "request"] OBVIOUS
      <4>1. wk' = [wk EXCEPT ![w] = rec] BY <3>3 DEF Restate, Consumed
      <4>2. rec.todo = wk[w].todo /\ rec.pc \in {"merge", "request"} BY <2>1 DEF Fields
      <4> QED BY <4>1, <4>2
    <3> QED BY <1>7, <3>1, <3>2, <3>3
  <2>3. UNCHANGED <<world, queue, ws, ran>> BY <1>7 DEF Merge, Rebind, Restate, runVars
  <2> QED BY <2>2, <2>3, <1>0, DirQuiet
<1>8. ASSUME NEW w \in Worker, AuthFails(w) PROVE DirInv'
  <2>1. Record(w, "error") /\ UNCHANGED <<world, queue, ws, ran>> BY <1>8 DEF AuthFails
  <2> QED BY <2>1, RecordPlaces, DirQuiet
<1>9. ASSUME NEW w \in Worker, SelectWorkspace(w) PROVE DirInv'
  <2>1. PICK s : s = Cur(wk[w].todo) OBVIOUS
  <2>2. UNCHANGED <<world, queue, ran>> BY <1>9 DEF SelectWorkspace
  <2>3. CASE Record(w, "error") /\ UNCHANGED ws
    BY <2>2, <2>3, RecordPlaces, DirQuiet
  <2>4. CASE /\ ws' = IF Name[s] = "default" THEN ws ELSE [ws EXCEPT ![Dir[s]] = Name[s]]
             /\ Consumed(w, [wk[w] EXCEPT !.pc = "plan"])
    <3>1. DOMAIN wk[w] = Fields /\ wk[w].pc = "select" BY <1>9, WorkerFacts DEF SelectWorkspace, At
    <3>2. /\ \A v \in Worker : wk'[v].todo = wk[v].todo
          /\ \A v \in Worker \ {w} : wk'[v].pc = wk[v].pc
      BY <2>4, <3>1, <1>0 DEF Consumed, Fields
    <3>3. /\ Min(wk[w].todo) \in wk[w].todo /\ s = world.targets[Min(wk[w].todo)] /\ s \in Stack
      BY <2>1, <3>1, CurIsTarget
    <3>4. DOMAIN ws = {Dir[x] : x \in Stack} /\ DOMAIN ws' = DOMAIN ws
      BY <2>4, <1>0 DEF DirInv
    <3>5. /\ Name[s] # "default" => ws'[Dir[s]] = Name[s]
          /\ \A d \in DOMAIN ws : d # Dir[s] => ws'[d] = ws[d]
      BY <2>4, <3>3, <3>4
    <3>6. ASSUME NEW v \in Worker, wk'[v].pc = "plan", ~Drifting,
                 NEW x, x = Cur(wk[v].todo), Name[x] # "default"
          PROVE  ws'[Dir[x]] = Name[x]
      <4>1. CASE v = w BY <2>1, <3>5, <3>6, <4>1
      <4>2. CASE v # w
        <5>1. wk[v].pc = "plan" BY <3>2, <3>6, <4>2
        <5>2. Min(wk[v].todo) \in wk[v].todo /\ x = world.targets[Min(wk[v].todo)] /\ x \in Stack
          BY <3>6, <5>1, CurIsTarget
        <5>3. Dir[x] # Dir[s] BY <3>3, <3>6, <4>2, <5>2, <1>0 DEF DirInv, Apart
        <5>4. ws[Dir[x]] = Name[x] BY <3>6, <5>1, <1>0 DEF DirInv
        <5> QED BY <3>4, <3>5, <5>2, <5>3, <5>4
      <4> QED BY <4>1, <4>2
    <3>7. ~Drifting => \A v \in Worker : wk'[v].pc = "plan" =>
             LET x == Cur(wk[v].todo) IN Name[x] # "default" => ws'[Dir[x]] = Name[x]
      BY <3>6
    <3> QED BY <2>2, <3>2, <3>4, <3>7, <1>0 DEF DirInv, Drifting, Apart, Cur, PlannedInOwnWorkspace
  <2> QED BY <1>9, <2>1, <2>3, <2>4 DEF SelectWorkspace
<1>10. ASSUME NEW w \in Worker, Plan(w) PROVE DirInv'
  <2>1. PICK s : s = Cur(wk[w].todo) OBVIOUS
  <2>2. /\ wk[w].pc = "plan" /\ UNCHANGED <<world, queue, ws>>
        /\ \A r \in ran' : r \in ran \/ (r.stack = s /\ r.ws = ws[Dir[s]])
    BY <1>10, <2>1 DEF Plan, At
  <2>3. /\ \A v \in Worker \ {w} : wk'[v] = wk[v]
        /\ wk'[w].todo \subseteq wk[w].todo /\ wk'[w].pc # "plan"
    <3>1. CASE \E status \in {"planned", "error"} : Record(w, status) BY <3>1, RecordPlaces
    <3>2. CASE Consumed(w, [wk[w] EXCEPT !.pc = "expired"])
      <4>1. DOMAIN wk[w] = Fields BY WorkerFacts
      <4> QED BY <3>2, <4>1, <1>0 DEF Consumed, Fields
    <3> QED BY <1>10, <3>1, <3>2 DEF Plan
  <2>4. ~Drifting => (Name[s] # "default" => ws[Dir[s]] = Name[s])
    BY <2>1, <2>2, <1>0 DEF DirInv
  <2>5. PlannedInOwnWorkspace'
    BY <2>2, <2>4, <1>0 DEF DirInv, PlannedInOwnWorkspace, Drifting
  <2>6. \A v \in Worker : wk'[v].todo \subseteq wk[v].todo BY <2>3
  <2>7. \A v \in Worker : wk'[v].pc = "plan" => wk'[v] = wk[v] BY <2>3
  <2> QED BY <2>2, <2>5, <2>6, <2>7, <1>0 DEF DirInv, Drifting, Apart, Cur
<1> QED
  BY <1>1, <1>2, <1>3, <1>4, <1>5, <1>6, <1>7, <1>8, <1>9, <1>10 DEF Next, MainStep, CacheStep

LEMMA InitOK ==
  ASSUME Init
  PROVE  IInv
<1> USE ConsumerAssumption
<1>1. /\ owned = << >> /\ world \in Worlds /\ DOMAIN wk = Consumer
      /\ generation = 0 /\ cred = << >> /\ closed = FALSE
      /\ entry = [p \in Provider |-> [id |-> 0, by |-> None]]
      /\ queue = {} /\ stateEnv = {} /\ ran = {} /\ DOMAIN ws = {Dir[s] : s \in Stack}
  BY DEF Init, CacheInit
<1>1a. Kept = {} BY <1>1 DEF Kept, ToSet
<1>2. ASSUME NEW c \in Consumer
      PROVE  /\ DOMAIN wk[c] = Fields /\ wk[c].names = << >> /\ wk[c].got = {} /\ wk[c].new = 0
             /\ wk[c].began = 0 /\ wk[c].since = 0 /\ wk[c].answer = NoAnswer /\ wk[c].todo = {}
             /\ wk[c].env = {}
             /\ wk[c].pc = IF c = Main THEN "start" ELSE IF c \in world.workers THEN "idle" ELSE "off"
  BY <1>2 DEF Idle, Fields, Init
<1>3. ASSUME NEW c \in Consumer PROVE RecOK(c, wk[c]) /\ NewOK(wk[c])
  <2>1. << >> \in Seq(Provider) OBVIOUS
  <2>2. wk[c].pc \in IF c = Main THEN {"start"} ELSE {"idle", "off"} BY <1>2
  <2>3. DOMAIN NoAnswer = {"kind", "id"} /\ NoAnswer.kind = "none" BY DEF NoAnswer
  <2>4. Shape(c, wk[c])
    BY <2>1, <2>2, <2>3, <1>2 DEF Shape, Asking, MainPCs, WorkerPCs
  <2>5. Data(wk[c]) BY <2>3, <1>1, <1>2 DEF Data
  <2> QED BY <2>4, <2>5, <1>2 DEF RecOK, NewOK
<1>4. CredsOK
  <2>1. cred \in Seq(Credential) /\ owned \in Seq(DOMAIN cred) /\ DOMAIN cred = {} BY <1>1
  <2> QED BY <2>1, <1>1, <1>1a DEF CredsOK
<1>5. EntriesOK BY <1>1 DEF EntriesOK
<1>5a. \A c \in Consumer : wk[c].pc \in {"start", "idle", "off"} /\ wk[c].new = 0 /\ wk[c].todo = {}
  BY <1>2
<1>6. Acquiring BY <1>5a DEF Acquiring
<1>7. CacheInv BY <1>1, <1>3, <1>4, <1>5, <1>6 DEF CacheInv
<1>8. MainInv
  <2>1. wk[Main].pc = "start" /\ \A w \in Worker : wk[w].pc \in {"idle", "off"} BY <1>2
  <2> QED BY <2>1, <1>1 DEF MainInv
<1>9. DirInv BY <1>1, <1>5a DEF DirInv, Apart, PlannedInOwnWorkspace
<1> QED BY <1>7, <1>8, <1>9 DEF IInv

LEMMA Invariance == Spec => []IInv
<1>1. Init => IInv BY InitOK
<1>2. IInv /\ [Next]_vars => IInv' BY CacheNext, MainNext, DirNext DEF IInv
<1> QED BY <1>1, <1>2, PTL DEF Spec

-----------------------------------------------------------------------------
(* Theorems. *)

(* Every credential the providers of a command issued is cleaned up exactly  *)
(* once by its end, and none that a stack is planned with before: whatever   *)
(* is shared, invalidated, refused or cancelled (CredentialCache and its     *)
(* deferred Close).                                                          *)
THEOREM CleanedUpOnce == Spec => []CleanupSound
<1>1. IInv => CleanupSound
  <2> SUFFICES ASSUME IInv PROVE CleanupSound OBVIOUS
  <2>1. CacheInv /\ MainInv /\ CredsOK BY DEF IInv, CacheInv
  <2>2. \A i \in DOMAIN cred : cred[i].cleaned \in {0, 1} BY <2>1, KeptIssued DEF Credential
  <2>3. ASSUME NEW i \in DOMAIN cred, At(Main, "end") PROVE cred[i].cleaned = 1
    <3>1. cred # << >> BY <2>3
    <3>2. closed BY <2>1, <2>3, <3>1 DEF MainInv, At
    <3>3. i # 0 BY <2>1, <2>3, KeptIssued
    <3>4. \A c \in Consumer : wk[c].pc # "settle"
      BY <3>2, ConsumerFacts DEF Asking
    <3>5. \A c \in Consumer : wk[c].new # i BY <2>1, <3>3, <3>4 DEF CacheInv, NewOK
    <3> QED BY <2>1, <2>2, <2>3, <3>2, <3>5 DEF CredsOK
  <2>4. ASSUME NEW w \in Worker, wk[w].pc \in {"select", "plan"}, NEW i \in wk[w].env
        PROVE  cred[i].cleaned = 0
    <3>1. ~closed BY <2>4, MainWaits
    <3>2. i \in Kept BY <2>4, WorkerFacts DEF RecOK, Data
    <3> QED BY <2>1, <3>1, <3>2, KeptIssued DEF CredsOK
  <2> QED BY <2>2, <2>3, <2>4 DEF CleanupSound
<1> QED BY <1>1, Invariance, PTL

(* After an invalidation a drift check gets no credential of its own whose   *)
(* acquisition began before, whoever acquired it (the generation of          *)
(* CredentialCache).                                                         *)
THEOREM RebindsAreFresh == Spec => []RebindIsFresh
<1>1. IInv => RebindIsFresh BY DEF IInv, CacheInv, CredsOK, Fresh, RebindIsFresh
<1> QED BY <1>1, Invariance, PTL

(* Nobody waits for an acquisition that is not under way (the attempts of    *)
(* CredentialCache).                                                         *)
THEOREM WaitersAreServed == Spec => []AwaitedIsUnderWay
<1>1. IInv => AwaitedIsUnderWay
  <2> SUFFICES ASSUME IInv, NEW c \in Consumer, At(c, "wait"), wk[c].answer = NoAnswer,
                      NEW by, by = entry[Head(wk[c].names)].by
               PROVE  by # None /\ wk[by].pc \in {"acquire", "settle"}
                      /\ Head(wk[by].names) = Head(wk[c].names)
    BY DEF AwaitedIsUnderWay
  <2>1. Head(wk[c].names) \in Provider BY ConsumerFacts DEF At, Asking
  <2>2. by # None BY DEF IInv, CacheInv, Acquiring, At
  <2> QED BY <2>1, <2>2 DEF IInv, CacheInv, EntriesOK
<1> QED BY <1>1, Invariance, PTL

(* A named workspace is still selected when its plan is made: previews of    *)
(* one directory are serial (the groups of runPreviewTargets).               *)
THEOREM PlansInOwnWorkspace == Spec => []PlannedInOwnWorkspace
<1>1. IInv => PlannedInOwnWorkspace BY DEF IInv, DirInv
<1> QED BY <1>1, Invariance, PTL

(* Nothing reaches a channel or a collector on the word of a checkout that   *)
(* changes where things are sent, or may (suppressPreApprovalConfig).        *)
THEOREM SilentUntilApproved == Spec => []SilentBeforeApproval
<1> DEFINE Inv == world \in Worlds /\ SilentBeforeApproval
                  /\ DOMAIN out = {"otel", "sent", "manifest", "board", "exit"}
<1>1. Init => Inv BY DEF Init, SilentBeforeApproval
<1>2. Inv /\ [Next]_vars => Inv'
  <2> SUFFICES ASSUME Inv, [Next]_vars PROVE Inv' OBVIOUS
  <2>1. world' = world
    BY DEF Next, vars, runVars, Resolve, OpenBucket, StartDrift, Denied, Login, Collect, WriteManifest,
           PostComment, Finish, Close, Take, Merge, AuthFails, SelectWorkspace, Plan, Rebind, Restate,
           Cancel, Finished
  <2>2. world.vcs \in {"local", "none", "error", "listed"} BY WorldsAssumption
  <2>3. \A what : ~SuppressPreApprovalConfig(what) =>
          world.vcs = "local" \/ (world.vcs = "listed" /\ what \notin world.touches)
    BY <2>2 DEF SuppressPreApprovalConfig
  <2>4. \/ UNCHANGED out
        \/ \E how : out' = [out EXCEPT !.exit = how]
        \/ \E how : out' = [out EXCEPT !.otel = ~SuppressPreApprovalConfig("otel"), !.exit = how]
        \/ \E ev : out' = Announced(ev)
        \/ \E m : out' = [out EXCEPT !.manifest = m]
        \/ out' = [out EXCEPT !.board = TRUE]
        \/ \E how, ev : out' = [Announced(ev) EXCEPT !.exit = how]
    <3>1. CASE MainStep
      BY <3>1, Zenon DEF MainStep, Resolve, OpenBucket, StartDrift, Denied, Login, Collect, WriteManifest,
                  PostComment, Finish, Fail, Exit
    <3>2. CASE Close BY <3>2 DEF Close, runVars
    <3>3. CASE ~MainStep /\ ~Close
      BY <3>3 DEF MainStep, Next, vars, runVars, Take, Merge, AuthFails, SelectWorkspace, Plan,
                  Rebind, Restate, Cancel, Finished
    <3> QED BY <3>1, <3>2, <3>3
  <2>5. \A ev : /\ DOMAIN Announced(ev) = DOMAIN out /\ Announced(ev).otel = out.otel
                /\ Announced(ev).sent # {} => out.sent # {} \/ MayNotify
    BY DEF Announced
  <2>6. MayNotify => world.vcs = "listed" /\ "channels" \notin world.touches
    BY <2>2 DEF MayNotify, SuppressPreApprovalConfig
  <2>7. /\ DOMAIN out' = DOMAIN out
        /\ out'.otel => out.otel \/ ~SuppressPreApprovalConfig("otel")
        /\ out'.sent # {} => out.sent # {} \/ MayNotify
    <3>1. CASE UNCHANGED out BY <3>1
    <3>2. CASE \E how : out' = [out EXCEPT !.exit = how] BY <3>2
    <3>3. CASE \E how : out' = [out EXCEPT !.otel = ~SuppressPreApprovalConfig("otel"), !.exit = how]
      <4>1. PICK how : out' = [out EXCEPT !.otel = ~SuppressPreApprovalConfig("otel"), !.exit = how]
        BY <3>3
      <4>2. /\ DOMAIN out' = DOMAIN out /\ out'.sent = out.sent
            /\ out'.otel = ~SuppressPreApprovalConfig("otel")
        BY <4>1
      <4> QED BY <4>2
    <3>4. CASE \E ev : out' = Announced(ev) BY <3>4, <2>5
    <3>5. CASE \E m : out' = [out EXCEPT !.manifest = m] BY <3>5
    <3>6. CASE out' = [out EXCEPT !.board = TRUE] BY <3>6
    <3>7. CASE \E how, ev : out' = [Announced(ev) EXCEPT !.exit = how]
      <4>1. PICK how, ev : out' = [Announced(ev) EXCEPT !.exit = how] BY <3>7
      <4>2. PICK a : a = Announced(ev) OBVIOUS
      <4>3. /\ DOMAIN a = DOMAIN out /\ a.otel = out.otel
            /\ a.sent # {} => out.sent # {} \/ MayNotify
        BY <4>2, <2>5
      <4>4. out' = [a EXCEPT !.exit = how] BY <4>1, <4>2
      <4>5. DOMAIN out' = DOMAIN a /\ out'.otel = a.otel /\ out'.sent = a.sent BY <4>3, <4>4
      <4> QED BY <4>3, <4>5
    <3> QED BY <2>4, <3>1, <3>2, <3>3, <3>4, <3>5, <3>6, <3>7
  <2> QED BY <2>1, <2>3, <2>6, <2>7 DEF SilentBeforeApproval
<1>3. Inv => SilentBeforeApproval OBVIOUS
<1> QED BY <1>1, <1>2, <1>3, PTL DEF Spec
=============================================================================
