------------------------------ MODULE DriftProofs ------------------------------
(***************************************************************************)
(* Proofs about drift runs: what channels are told ends up true, accepted  *)
(* drift stays silent, markers outlive failed deliveries, and an alert is  *)
(* news; for any number of stacks, channels, runs and faults.              *)
(***************************************************************************)
EXTENDS Drift, FiniteSetTheorems, WellFoundedInduction, TLAPS

Message == [stack : Stack, event : Event]

StateFields == {"last", "checked", "ok", "since", "fp", "failing", "notified"}

(* A stored state.  Its times are not ahead; what was never checked was      *)
(* never alerted, and without damping every drift was alerted or was there   *)
(* from the first check on.                                                  *)
StateOK(x) ==
  /\ DOMAIN x = StateFields
  /\ x.failing \in BOOLEAN
  /\ x.since \in Nat /\ x.since <= now
  /\ x.notified \in Nat /\ x.notified <= now
  /\ ~x.checked => ~Drifted(x) /\ x.notified = 0
  /\ Drifted(x) => x.since # 0
  /\ Drifted(x) /\ cfg.renotify = 0 => x.notified = 0 \/ x.notified >= x.since

WorkOK(s, w) ==
  \/ w = Todo
  \/ w = Done
  \/ /\ DOMAIN w = {"step", "prev", "at", "retries", "rebound"}
     /\ w.step = "try" /\ w.prev = st[s] /\ w.at = now

(* A run that checks: stacks that are not done with have no payloads yet,    *)
(* and were last alerted by an earlier run.                                  *)
CheckOK(r) ==
  /\ DOMAIN r = {"pc", "boot", "batch", "work"}
  /\ now # 0
  /\ DOMAIN r.work = Stack
  /\ \A s \in Stack : WorkOK(s, r.work[s])
  /\ \A i \in DOMAIN r.batch : r.work[r.batch[i].stack] = Done
  /\ \A s \in Stack : r.work[s] # Done /\ now < MaxTime => st[s].notified < now

RunOK(r) ==
  \/ r = Idle
  \/ /\ r.batch \in Seq(Message)
     /\ \/ r.pc = "check" /\ CheckOK(r)
        \/ r.pc = "mark" /\ DOMAIN r = {"pc", "batch", "at"} /\ r.at \in Nat \ {0}
        \/ /\ r.pc = "deliver" /\ DOMAIN r = {"pc", "batch", "next", "failed", "got"}
           /\ r.next \in [Channel -> Nat \ {0}] /\ r.failed \in BOOLEAN
        \/ r.pc = "clear" /\ DOMAIN r = {"pc", "batch", "at", "got"} /\ r.at \in Nat \ {0}

TypeInv ==
  /\ cfg \in Configs
  /\ now \in Nat
  /\ DOMAIN st = Stack /\ \A s \in Stack : StateOK(st[s])
  /\ marker \in SUBSET Message
  /\ inc \in [Channel -> [Stack -> [drift : BOOLEAN, check : BOOLEAN]]]
  /\ DOMAIN seen = Stack /\ \A s \in Stack : DOMAIN seen[s] = {"verdict", "ok"}
  /\ RunOK(run)

-----------------------------------------------------------------------------
(* Who got what: a channel that has not failed got all payloads up to where  *)
(* it is, and markers are cleared when every channel got them all.           *)

Gets(c, p) == p.event \in Subscribes(c)

GotInv ==
  /\ run.pc = "deliver" /\ ~run.failed =>
       \A c \in Channel : \A i \in DOMAIN run.batch :
         i < run.next[c] /\ Gets(c, run.batch[i]) => <<c, run.batch[i]>> \in run.got
  /\ run.pc = "clear" =>
       \A c \in Channel : \A i \in DOMAIN run.batch :
         Gets(c, run.batch[i]) => <<c, run.batch[i]>> \in run.got

(* Under a permanent suppression no payload is about drift. *)
SilentInv ==
  cfg.until = Forever =>
    /\ \A c \in Channel, s \in Stack : ~inc[c][s].drift
    /\ \A p \in marker : Stream(p.event) = "check"
    /\ run # Idle => \A i \in DOMAIN run.batch : Stream(run.batch[i].event) = "check"

-----------------------------------------------------------------------------
(* What incidents come to. *)

Opens(p) == ~Closing(p.event)

(* The payloads of a stream that a channel is told of. *)
Concerns(c, s, x, p) == p.stack = s /\ Stream(p.event) = x /\ Gets(c, p)

Owed(c, s, x) == {p \in marker : Concerns(c, s, x, p)}

(* With no run under way: the incident is as b says, or a marker is.         *)
Rest(c, s, x, b) ==
  IF Owed(c, s, x) = {} THEN inc[c][s][x] = b
  ELSE \E p \in Owed(c, s, x) : Opens(p) = b

(* A batch ends with payloads that make the incident what b says. *)
EndsWith(c, s, x, b) ==
  /\ Owed(c, s, x) \subseteq Batched
  /\ \A i, j \in DOMAIN run.batch :
       /\ i < j /\ Opens(run.batch[i]) = b
       /\ Concerns(c, s, x, run.batch[i]) /\ Concerns(c, s, x, run.batch[j])
       => Opens(run.batch[j]) = b
  /\ IF \E i \in DOMAIN run.batch : Concerns(c, s, x, run.batch[i])
     THEN \E i \in DOMAIN run.batch : Concerns(c, s, x, run.batch[i]) /\ Opens(run.batch[i]) = b
     ELSE inc[c][s][x] = b

(* New payloads decide, or else what was owed before. *)
Checking(c, s, x, b) ==
  /\ \A i \in DOMAIN run.batch : Concerns(c, s, x, run.batch[i]) => Opens(run.batch[i]) = b
  /\ \/ \E i \in DOMAIN run.batch : Concerns(c, s, x, run.batch[i])
     \/ Rest(c, s, x, b)

Marking(c, s, x, b) ==
  /\ EndsWith(c, s, x, b)
  /\ \A i \in DOMAIN run.batch :
       i < run.at /\ Concerns(c, s, x, run.batch[i]) => run.batch[i] \in marker

Delivering(c, s, x, b) ==
  /\ EndsWith(c, s, x, b)
  /\ \A i \in DOMAIN run.batch : Concerns(c, s, x, run.batch[i]) => run.batch[i] \in marker
  /\ ~run.failed =>
       \A i \in DOMAIN run.batch :
         i < run.next[c] /\ Concerns(c, s, x, run.batch[i]) /\ Opens(run.batch[i]) = b
         => inc[c][s][x] = b

Clearing(c, s, x, b) ==
  /\ EndsWith(c, s, x, b)
  /\ inc[c][s][x] = b
  /\ \A i \in DOMAIN run.batch :
       Concerns(c, s, x, run.batch[i]) =>
         /\ i < run.at => run.batch[i] \notin marker
         /\ run.batch[i] \in marker \/ \E j \in DOMAIN run.batch : j < run.at /\ run.batch[j] = run.batch[i]

(* Once everything that is under way has been delivered, the incident of     *)
(* channel c on stack s is open, or not, as b says.                          *)
ComesTo(c, s, x, b) ==
  /\ run.pc = "idle" => Rest(c, s, x, b)
  /\ run.pc = "check" => Checking(c, s, x, b)
  /\ run.pc = "mark" => Marking(c, s, x, b)
  /\ run.pc = "deliver" => Delivering(c, s, x, b)
  /\ run.pc = "clear" => Clearing(c, s, x, b)

(* What the stored state says the incident should come to. *)
Agrees(s, x, b) ==
  IF x = "check" THEN b = st[s].failing
  ELSE /\ b => /\ Drifted(st[s]) /\ ~Accepted(now)
               /\ st[s].notified = 0 \/ st[s].notified >= st[s].since
       /\ Alerted(s) /\ cfg.until = 0 => b

Watches(c, x) ==
  IF x = "check" THEN "check_failed" \in On[c]
  ELSE {"drift_detected", "drift_resolved"} \subseteq On[c]

Faithful(c, s, x) == \E b \in BOOLEAN : Agrees(s, x, b) /\ ComesTo(c, s, x, b)

StreamInv ==
  \A c \in Channel, s \in Stack, x \in {"drift", "check"} :
    Watches(c, x) /\ <<s, x>> \notin excused => Faithful(c, s, x)

(* The stored state tells what had really drifted at the last verdict. *)
Recorded(s) ==
  /\ Drifted(st[s]) <=> seen[s].verdict # Clean
  /\ Drifted(st[s]) => st[s].fp = seen[s].verdict

VerdictInv == \A s \in Stack : <<s, "drift">> \notin excused => Recorded(s)

-----------------------------------------------------------------------------
(* The entries of a sequence at some positions. *)

LEMMA LeastOf ==
  ASSUME NEW S \in SUBSET Nat, S # {}
  PROVE  \E m \in S : \A x \in S : m <= x
<1>1. PICK m \in S : \A y \in S : ~ (<<y, m>> \in OpToRel(<, Nat))
  BY NatLessThanWellFounded, WFMin
<1>2. \A y \in S : ~ (y < m)
  BY <1>1 DEF OpToRel
<1> QED BY <1>2

Increasing(S) ==
  {g \in [1..Cardinality(S) -> S] : \A k, l \in DOMAIN g : k < l => g[k] < g[l]}

(* Positions can be put in order. *)
LEMMA IncreasingExists ==
  ASSUME NEW n \in Nat, NEW S \in SUBSET (1..n)
  PROVE  Increasing(S) # {}
<1> DEFINE Bad == {m \in Nat : \E T \in SUBSET (1..m) : Increasing(T) = {}}
<1>1. ASSUME Bad # {} PROVE FALSE
  <2>0. Bad \in SUBSET Nat OBVIOUS
  <2>1. PICK m \in Bad : \A x \in Bad : m <= x
    <3> HIDE DEF Bad
    <3> QED BY <1>1, <2>0, LeastOf
  <2>2. PICK T \in SUBSET (1..m) : Increasing(T) = {} BY <2>1
  <2>3. m \in Nat /\ m # 0
    <3>1. CASE m = 0
      <4>1. T = {} /\ 1..0 = {} BY <2>2, <3>1
      <4>2. Cardinality(T) = 0 BY <4>1, FS_EmptySet
      <4>3. [k \in 1..0 |-> 0] \in Increasing(T) BY <4>1, <4>2 DEF Increasing
      <4> QED BY <4>3, <2>2
    <3> QED BY <2>1, <3>1
  <2>4. \A U \in SUBSET (1..(m - 1)) : Increasing(U) # {}
    <3>1. m - 1 \in Nat /\ ~(m <= m - 1) BY <2>3
    <3>2. m - 1 \notin Bad BY <2>1, <3>1
    <3> QED BY <3>1, <3>2
  <2>5. CASE m \notin T
    <3>1. T \in SUBSET (1..(m - 1)) BY <2>2, <2>3, <2>5
    <3> QED BY <3>1, <2>2, <2>4
  <2>6. CASE m \in T
    <3> PICK U : U = T \ {m} OBVIOUS
    <3>1. U \in SUBSET (1..(m - 1)) BY <2>2, <2>3
    <3>2. PICK g : g \in Increasing(U) BY <2>4, <3>1
    <3>3. IsFiniteSet(U)
      <4>1. IsFiniteSet(1..(m - 1)) BY <2>3, FS_Interval
      <4> QED BY <3>1, <4>1, FS_Subset
    <3> PICK u : u = Cardinality(U) OBVIOUS
    <3>4. u \in Nat BY <3>3, FS_CardinalityType
    <3>5. Cardinality(T) = u + 1
      <4>1. T = U \cup {m} /\ m \notin U BY <2>6
      <4> QED BY <3>3, <4>1, FS_AddElement
    <3> PICK h : h = [k \in 1..(u + 1) |-> IF k = u + 1 THEN m ELSE g[k]] OBVIOUS
    <3>6. g \in [1..u -> U] /\ \A k, l \in 1..u : k < l => g[k] < g[l] BY <3>2 DEF Increasing
    <3>7. ASSUME NEW k \in 1..(u + 1)
          PROVE  h[k] \in T /\ (k # u + 1 => k \in 1..u /\ h[k] = g[k] /\ g[k] \in 1..(m - 1))
      <4>1. CASE k = u + 1 BY <4>1, <3>4, <2>6
      <4>2. CASE k # u + 1
        <5>1. k \in 1..u /\ h[k] = g[k] BY <4>2, <3>4
        <5>2. g[k] \in U BY <5>1, <3>6
        <5> QED BY <4>2, <5>1, <5>2, <3>1
      <4> QED BY <4>1, <4>2
    <3>8. ASSUME NEW k \in 1..(u + 1), NEW l \in 1..(u + 1), k < l PROVE h[k] < h[l]
      <4>0. k # u + 1 BY <3>4, <3>8
      <4>1. k \in 1..u /\ h[k] = g[k] /\ g[k] \in 1..(m - 1) BY <4>0, <3>7
      <4>2. CASE l = u + 1
        <5>1. h[l] = m BY <4>2
        <5> QED BY <4>1, <5>1, <2>3
      <4>3. CASE l # u + 1 BY <4>1, <4>3, <3>6, <3>7, <3>8
      <4> QED BY <4>2, <4>3
    <3>9. h \in Increasing(T)
      <4>1. h \in [1..(u + 1) -> T] BY <3>7
      <4>2. \A k, l \in DOMAIN h : k < l => h[k] < h[l]
        <5>1. DOMAIN h = 1..(u + 1) OBVIOUS
        <5> QED BY <5>1, <3>8
      <4>3. Increasing(T) = {f \in [1..(u + 1) -> T] : \A k, l \in DOMAIN f : k < l => f[k] < f[l]}
        BY <3>5 DEF Increasing
      <4> QED BY <4>1, <4>2, <4>3
    <3> QED BY <3>9, <2>2
  <2> QED BY <2>5, <2>6
<1>2. n \notin Bad BY <1>1
<1> QED BY <1>2

Selects(e, q, S) ==
  /\ \A k \in DOMAIN e : \E i \in S : e[k] = q[i]
  /\ \A i \in S : \E k \in DOMAIN e : e[k] = q[i]

LEMMA EntriesFacts ==
  ASSUME NEW T, NEW q \in Seq(T), NEW S, \A i \in S : i \in DOMAIN q
  PROVE  Entries(q, S) \in Seq(T) /\ Selects(Entries(q, S), q, S)
<1> PICK e : e = Entries(q, S) OBVIOUS
<1>0. Len(q) \in Nat /\ DOMAIN q = 1..Len(q) /\ \A i \in S : i \in 1..Len(q) /\ q[i] \in T OBVIOUS
<1>1. IsFiniteSet(S)
  <2>1. IsFiniteSet(1..Len(q)) BY <1>0, FS_Interval
  <2> QED BY <2>1, FS_Subset
<1> PICK n : n = Cardinality(S) OBVIOUS
<1>2. n \in Nat BY <1>1, FS_CardinalityType
<1>3. PICK f \in Increasing(S) : e = [k \in 1..n |-> q[f[k]]]
  <2>1. Increasing(S) # {} BY <1>0, IncreasingExists
  <2> PICK g : g = CHOOSE h \in [1..Cardinality(S) -> S] :
                     \A k, l \in DOMAIN h : k < l => h[k] < h[l] OBVIOUS
  <2>2. g \in Increasing(S) BY <2>1 DEF Increasing
  <2> QED BY <2>2 DEF Entries
<1>4. f \in [1..n -> S] /\ \A k, l \in 1..n : k < l => f[k] < f[l] BY DEF Increasing
<1>5. \A k, l \in 1..n : f[k] = f[l] => k = l
  <2> SUFFICES ASSUME NEW k \in 1..n, NEW l \in 1..n, f[k] = f[l], k # l PROVE FALSE OBVIOUS
  <2>1. k < l \/ l < k OBVIOUS
  <2>2. f[k] \in S BY <1>4
  <2>3. f[k] < f[k] BY <1>4, <2>1
  <2>4. \A i \in S : ~(i < i) BY <1>0
  <2> QED BY <2>2, <2>3, <2>4
<1>6. \A i \in S : \E k \in 1..n : f[k] = i
  <2>1. f \in Injection(1..n, S) BY <1>4, <1>5 DEF Injection, IsInjective
  <2>2. Cardinality(1..n) = n BY <1>2, FS_Interval
  <2>3. f \in Surjection(1..n, S) BY <1>1, <2>1, <2>2, FS_Injection
  <2> QED BY <2>3 DEF Surjection
<1>7. e \in Seq(T) /\ DOMAIN e = 1..n
  <2>1. \A k \in 1..n : f[k] \in S BY <1>4
  <2>2. \A k \in 1..n : q[f[k]] \in T BY <2>1, <1>0
  <2> QED BY <1>2, <1>3, <2>2
<1>8. \A k \in 1..n : e[k] = q[f[k]] /\ f[k] \in S BY <1>3, <1>4
<1>9. \A i \in S : \E k \in DOMAIN e : e[k] = q[i]
  <2> SUFFICES ASSUME NEW i \in S PROVE \E k \in DOMAIN e : e[k] = q[i] OBVIOUS
  <2>1. PICK k \in 1..n : f[k] = i BY <1>6
  <2> QED BY <2>1, <1>7, <1>8
<1> QED BY <1>7, <1>8, <1>9 DEF Selects

Joined(b, q, ps) ==
  /\ \A i \in DOMAIN b :
       \/ i \in DOMAIN q /\ b[i] = q[i]
       \/ i \notin DOMAIN q /\ \E j \in DOMAIN ps : b[i] = ps[j]
  /\ \A i \in DOMAIN q : i \in DOMAIN b /\ b[i] = q[i]
  /\ \A j \in DOMAIN ps : \E i \in DOMAIN b : b[i] = ps[j]

LEMMA Appended ==
  ASSUME NEW T, NEW q \in Seq(T), NEW ps \in Seq(T), NEW b, b = q \o ps
  PROVE  b \in Seq(T) /\ Joined(b, q, ps)
<1> PICK m : m = Len(q) OBVIOUS
<1> PICK n : n = Len(ps) OBVIOUS
<1>1. m \in Nat /\ n \in Nat /\ DOMAIN q = 1..m /\ DOMAIN ps = 1..n OBVIOUS
<1>2. b \in Seq(T) /\ DOMAIN b = 1..(m + n)
      /\ \A i \in DOMAIN b : b[i] = IF i <= m THEN q[i] ELSE ps[i - m]
  BY <1>1
<1>3. ASSUME NEW i \in 1..(m + n)
      PROVE  \/ i \in 1..m /\ b[i] = q[i]
             \/ i \notin 1..m /\ \E j \in 1..n : b[i] = ps[j]
  <2>1. CASE i <= m BY <1>1, <1>2, <2>1
  <2>2. CASE ~(i <= m)
    <3>1. i - m \in 1..n BY <1>1, <2>2
    <3>2. b[i] = ps[i - m] /\ i \notin 1..m BY <1>1, <1>2, <2>2
    <3> QED BY <3>1, <3>2
  <2> QED BY <2>1, <2>2
<1>4. ASSUME NEW i \in 1..m PROVE i \in 1..(m + n) /\ b[i] = q[i]
  <2>1. i \in 1..(m + n) /\ i <= m BY <1>1
  <2> QED BY <2>1, <1>2
<1>5. ASSUME NEW j \in 1..n PROVE \E i \in 1..(m + n) : b[i] = ps[j]
  <2>1. m + j \in 1..(m + n) /\ ~(m + j <= m) /\ (m + j) - m = j BY <1>1
  <2> QED BY <2>1, <1>2
<1>6. b \in Seq(T) /\ DOMAIN b = 1..(m + n) /\ DOMAIN q = 1..m /\ DOMAIN ps = 1..n BY <1>1, <1>2
<1>7. \A i \in DOMAIN q : i \in DOMAIN b /\ b[i] = q[i] BY <1>4, <1>6
<1>8. \A j \in DOMAIN ps : \E i \in DOMAIN b : b[i] = ps[j] BY <1>5, <1>6
<1>9. ASSUME NEW i \in DOMAIN b
      PROVE  \/ i \in DOMAIN q /\ b[i] = q[i]
             \/ i \notin DOMAIN q /\ \E j \in DOMAIN ps : b[i] = ps[j]
  <2>1. i \in 1..(m + n) BY <1>6
  <2> QED BY <2>1, <1>3, <1>6
<1> QED BY <1>6, <1>7, <1>8, <1>9, Zenon DEF Joined

(* A batch behind n leftovers. *)
Merged(m, n, readable, batch) ==
  /\ \A i \in DOMAIN m : IF i <= n THEN m[i] \in readable
                         ELSE i - n \in DOMAIN batch /\ m[i] = batch[i - n]
  /\ \A i \in DOMAIN batch : i + n \in DOMAIN m /\ m[i + n] = batch[i]
  /\ \A p \in readable : \E i \in DOMAIN m : m[i] = p

(* All leftovers that could be read, and nothing else, join the new payloads. *)
LEMMA PublishedFacts ==
  ASSUME NEW readable \in SUBSET Message, NEW batch \in Seq(Message),
         NEW m, m = MergePending(Leftover(readable), batch)
  PROVE  /\ m \in Seq(Message)
         /\ \E n \in Nat : Merged(m, n, readable, batch)
<1>1. KeyOrder \in Seq(Message) /\ \A p \in Message : \E k \in DOMAIN KeyOrder : KeyOrder[k] = p
  <2> PICK n : n = Len(StackOrder) OBVIOUS
  <2>1. n \in Nat /\ DOMAIN StackOrder = 1..n BY StacksAssumption
  <2>2. \A k \in 1..(5 * n) : 1 + ((k - 1) \div 5) \in 1..n /\ 1 + ((k - 1) % 5) \in 1..5
    BY <2>1
  <2>3. \A k \in 1..(5 * n) : KeyOrder[k] \in Message
    BY <2>1, <2>2 DEF KeyOrder, Payload, Message, Stack, Event
  <2>4. KeyOrder \in Seq(Message) /\ DOMAIN KeyOrder = 1..(5 * n)
    <3>1. KeyOrder = [k \in 1..(5 * n) |-> KeyOrder[k]] BY DEF KeyOrder
    <3> HIDE DEF KeyOrder
    <3> QED BY <2>1, <2>3, <3>1
  <2>5. ASSUME NEW p \in Message PROVE \E k \in 1..(5 * n) : KeyOrder[k] = p
    <3>1. PICK i \in 1..n, j \in 1..5 : p.stack = StackOrder[i] /\ p.event = EventOrder[j]
      BY <2>1 DEF Message, Stack, Event
    <3>2. p = Payload(StackOrder[i], EventOrder[j]) BY <3>1 DEF Message, Payload
    <3> PICK k : k = 5 * (i - 1) + j OBVIOUS
    <3>3. k \in 1..(5 * n) /\ (k - 1) \div 5 = i - 1 /\ (k - 1) % 5 = j - 1
      <4>1. \A a \in Nat, r \in 0..4 : (5 * a + r) \div 5 = a /\ (5 * a + r) % 5 = r OBVIOUS
      <4>2. i - 1 \in Nat /\ j - 1 \in 0..4 /\ k - 1 = 5 * (i - 1) + (j - 1) BY <2>1
      <4>3. k \in 1..(5 * n) BY <2>1
      <4> QED BY <4>1, <4>2, <4>3
    <3>4. KeyOrder[k] = Payload(StackOrder[1 + (i - 1)], EventOrder[1 + (j - 1)])
      BY <3>3 DEF KeyOrder
    <3>5. 1 + (i - 1) = i /\ 1 + (j - 1) = j BY <2>1
    <3> QED BY <3>2, <3>3, <3>4, <3>5
  <2> QED BY <2>4, <2>5
<1> PICK l : l = Leftover(readable) OBVIOUS
<1>2. l \in Seq(Message) /\ \A p : p \in readable <=> \E k \in DOMAIN l : l[k] = p
  <2> PICK S : S = {k \in DOMAIN KeyOrder : KeyOrder[k] \in readable} OBVIOUS
  <2>1. (\A i \in S : i \in DOMAIN KeyOrder) /\ l = Entries(KeyOrder, S) BY DEF Leftover
  <2>2. l \in Seq(Message) /\ Selects(l, KeyOrder, S) BY <1>1, <2>1, EntriesFacts
  <2>3. \A p \in readable : \E i \in S : KeyOrder[i] = p BY <1>1
  <2> QED BY <2>2, <2>3 DEF Selects
<1> PICK old : old = Entries(l, {k \in DOMAIN l : \A i \in DOMAIN batch : batch[i] # l[k]}) OBVIOUS
<1>3. /\ old \in Seq(Message)
      /\ \A k \in DOMAIN old : old[k] \in readable
      /\ \A p \in readable : (\E k \in DOMAIN old : old[k] = p) \/ (\E i \in DOMAIN batch : batch[i] = p)
  <2> PICK S : S = {k \in DOMAIN l : \A i \in DOMAIN batch : batch[i] # l[k]} OBVIOUS
  <2>1. (\A i \in S : i \in DOMAIN l) /\ old = Entries(l, S) OBVIOUS
  <2>2. old \in Seq(Message) /\ Selects(old, l, S) BY <1>2, <2>1, EntriesFacts
  <2>3. \A k \in DOMAIN old : old[k] \in readable BY <1>2, <2>2 DEF Selects
  <2>4. ASSUME NEW p \in readable, \A i \in DOMAIN batch : batch[i] # p
        PROVE  \E k \in DOMAIN old : old[k] = p
    <3>1. PICK k \in DOMAIN l : l[k] = p BY <1>2
    <3>2. k \in S BY <2>4, <3>1
    <3> QED BY <2>2, <3>1, <3>2 DEF Selects
  <2> QED BY <2>2, <2>3, <2>4
<1>4. m = old \o batch BY DEF MergePending
<1> PICK n : n = Len(old) OBVIOUS
<1>5. n \in Nat /\ DOMAIN old = 1..n /\ Len(batch) \in Nat /\ DOMAIN batch = 1..Len(batch) BY <1>3
<1>6. m \in Seq(Message) /\ DOMAIN m = 1..(n + Len(batch))
      /\ \A i \in DOMAIN m : m[i] = IF i <= n THEN old[i] ELSE batch[i - n]
  BY <1>3, <1>4, <1>5
<1> PICK b : b = Len(batch) OBVIOUS
<1>7. ASSUME NEW i \in DOMAIN m
      PROVE  IF i <= n THEN m[i] \in readable ELSE i - n \in DOMAIN batch /\ m[i] = batch[i - n]
  <2>1. i \in 1..(n + b) /\ n \in Nat /\ b \in Nat BY <1>5, <1>6
  <2>2. CASE i <= n
    <3>1. i \in DOMAIN old BY <1>5, <2>1, <2>2
    <3> QED BY <1>3, <1>6, <2>2, <3>1
  <2>3. CASE ~(i <= n)
    <3>1. i - n \in 1..b BY <2>1, <2>3
    <3> QED BY <1>5, <1>6, <2>3, <3>1
  <2> QED BY <2>2, <2>3
<1>8. ASSUME NEW i \in DOMAIN batch PROVE i + n \in DOMAIN m /\ m[i + n] = batch[i]
  <2>1. i \in 1..b /\ b \in Nat /\ n \in Nat BY <1>5
  <2>2. i + n \in 1..(n + b) /\ ~(i + n <= n) /\ (i + n) - n = i BY <2>1
  <2> QED BY <1>6, <2>2
<1>9. ASSUME NEW k \in DOMAIN old PROVE k \in DOMAIN m /\ m[k] = old[k]
  <2>1. k \in 1..n /\ b \in Nat /\ n \in Nat BY <1>5
  <2>2. k \in 1..(n + b) /\ k <= n BY <2>1
  <2> QED BY <1>6, <2>2
<1>10. ASSUME NEW p \in readable PROVE \E i \in DOMAIN m : m[i] = p
  <2>1. CASE \E k \in DOMAIN old : old[k] = p BY <2>1, <1>9
  <2>2. CASE \E i \in DOMAIN batch : batch[i] = p BY <2>2, <1>8
  <2> QED BY <2>1, <2>2, <1>3
<1>11. Merged(m, n, readable, batch) BY <1>7, <1>8, <1>10 DEF Merged
<1> QED BY <1>5, <1>6, <1>11

-----------------------------------------------------------------------------
(* What a check concludes. *)

(* The state x after a check that sends out, given the state prev before it. *)
Failing(prev, x, out, recovered) ==
  /\ out = "check_failed" /\ ~recovered
  /\ x.failing
  /\ Drifted(x) = Drifted(prev) /\ x.since = prev.since /\ x.notified = prev.notified

Resolving(prev, x, out, recovered) ==
  /\ recovered = prev.failing /\ ~x.failing
  /\ ~Drifted(x)
  /\ \/ out = "drift_resolved"
     \/ out = "none" /\ (Drifted(prev) => prev.notified # 0 /\ prev.notified < prev.since)

Detecting(prev, x, out, recovered) ==
  /\ recovered = prev.failing /\ ~x.failing
  /\ Drifted(x) /\ x.since = IF Drifted(prev) THEN prev.since ELSE now
  /\ \/ out = "drift_detected" /\ x.notified = now
     \/ out = "none" /\ x.notified = prev.notified
     \/ /\ out = "drift_ongoing" /\ x.notified = prev.notified
        /\ Drifted(prev) /\ cfg.renotify = 0

(* The shape on record is the last verdict's, and a detection that is not    *)
(* damped is of another shape than the one on record.                        *)
Shapes(prev, x, verdict, out) ==
  /\ Drifted(x) => x.fp = IF verdict = Failed THEN prev.fp ELSE verdict
  /\ cfg.renotify = 0 /\ out = "drift_detected" => ~(Drifted(prev) /\ prev.fp = verdict)

LEMMA Concludes ==
  ASSUME TypeInv, now # 0, NEW s \in Stack, NEW prev, prev = st[s], NEW verdict, NEW boot,
         NEW c, c = Conclusion(prev, verdict, now, boot)
  PROVE  /\ StateOK(c.next)
         /\ c.ev = "check_failed" <=> verdict = Failed
         /\ verdict = Failed => Failing(prev, c.next, c.out, c.recovered)
         /\ verdict # Failed /\ verdict = Clean => Resolving(prev, c.next, c.out, c.recovered)
         /\ verdict # Failed /\ verdict # Clean => Detecting(prev, c.next, c.out, c.recovered)
         /\ Shapes(prev, c.next, verdict, c.out)
<1> PICK k : k = Classify(prev, verdict, now) OBVIOUS
<1> PICK ev : ev = IF FirstRun(prev, "baseline", boot) /\ k.ev # "check_failed" THEN "none" ELSE k.ev
  OBVIOUS
<1> PICK out : out = Damp(prev, ev, now) OBVIOUS
<1> PICK x : x = [k.next EXCEPT !.notified = IF out = "drift_detected" THEN now ELSE @] OBVIOUS
<1>1. c.next = x /\ c.ev = ev /\ c.out = out /\ c.recovered = (prev.failing /\ verdict # Failed)
  BY DEF Conclusion
<1>2. StateOK(prev) /\ now \in Nat /\ cfg.renotify \in Nat BY DriftAssumption DEF TypeInv
<1>3. prev.failing \in BOOLEAN BY <1>2 DEF StateOK
<1>4. CASE verdict = Failed
  <2>1. k.ev = "check_failed" /\ k.next = [prev EXCEPT !.checked = TRUE, !.failing = TRUE]
    BY <1>4 DEF Classify
  <2>2. ev = "check_failed" BY <2>1
  <2>3. out = "check_failed" BY <2>2 DEF Damp
  <2>4. /\ x = [prev EXCEPT !.checked = TRUE, !.failing = TRUE, !.notified = prev.notified]
    BY <2>1, <2>3, <1>2 DEF StateOK, StateFields
  <2>5. /\ DOMAIN x = StateFields /\ x.checked = TRUE /\ x.failing = TRUE /\ x.last = prev.last
        /\ x.since = prev.since /\ x.notified = prev.notified /\ x.fp = prev.fp
    BY <2>4, <1>2 DEF StateOK, StateFields
  <2>6. StateOK(x) BY <1>2, <2>5 DEF StateOK, Drifted
  <2>7. Failing(prev, x, out, FALSE) BY <2>3, <2>5 DEF Drifted, Failing
  <2>8. Shapes(prev, x, verdict, out) BY <1>4, <2>3, <2>5 DEF Shapes
  <2> QED BY <1>1, <1>4, <2>2, <2>6, <2>7, <2>8
<1>5. CASE verdict # Failed /\ verdict = Clean
  <2>1. /\ k.ev = IF Drifted(prev) THEN "drift_resolved" ELSE "none"
        /\ k.next = [NoState EXCEPT !.last = "no_drift", !.checked = TRUE, !.ok = now,
                                    !.notified = prev.notified]
    BY <1>5 DEF Classify, Decisive
  <2>2. ev \in {"none", "drift_resolved"} /\ (Drifted(prev) => ev = "drift_resolved")
    BY <1>2, <2>1 DEF FirstRun, StateOK
  <2>3. /\ out \in {"none", "drift_resolved"}
        /\ out = "none" /\ Drifted(prev) => prev.notified # 0 /\ ~(prev.notified >= prev.since)
    BY <2>2 DEF Damp
  <2>4. /\ DOMAIN x = StateFields /\ x.checked = TRUE /\ x.failing = FALSE /\ x.last = "no_drift"
        /\ x.since = 0 /\ x.notified = prev.notified
    BY <2>1, <2>3 DEF NoState, StateFields
  <2>5. Drifted(prev) /\ out = "none" => prev.notified < prev.since BY <1>2, <2>3 DEF StateOK
  <2>6. StateOK(x)
    <3>1. prev.notified \in Nat /\ prev.notified <= now /\ 0 <= now BY <1>2 DEF StateOK
    <3>2. ~Drifted(x) BY <2>4 DEF Drifted
    <3>3. x.since \in Nat /\ x.since <= now /\ x.notified \in Nat /\ x.notified <= now BY <2>4, <3>1
    <3> QED BY <2>4, <3>2, <3>3, Zenon DEF StateOK
  <2>7. Resolving(prev, x, out, prev.failing) BY <2>3, <2>4, <2>5 DEF Drifted, Resolving
  <2>8. c.recovered = prev.failing BY <1>1, <1>3, <1>5
  <2>9. Shapes(prev, x, verdict, out) BY <2>3, <2>4 DEF Shapes, Drifted
  <2> QED BY <1>1, <1>5, <2>2, <2>6, <2>7, <2>8, <2>9
<1>6. CASE verdict # Failed /\ verdict # Clean
  <2> PICK since : since = IF Drifted(prev) THEN prev.since ELSE now OBVIOUS
  <2>1. /\ k.ev = IF Drifted(prev) /\ prev.fp = verdict THEN "drift_ongoing" ELSE "drift_detected"
        /\ k.next = [last |-> "drift_detected", checked |-> TRUE, ok |-> now, since |-> since,
                     fp |-> verdict, failing |-> FALSE, notified |-> prev.notified]
    BY <1>2, <1>6 DEF Classify, Decisive, StateOK
  <2>2. /\ ev \in {"none", "drift_ongoing", "drift_detected"}
        /\ ev = "drift_ongoing" => Drifted(prev)
        /\ ev = "none" => ~prev.checked
        /\ ev = "drift_detected" => ~(Drifted(prev) /\ prev.fp = verdict)
    BY <2>1 DEF FirstRun
  <2>3. /\ out \in {"none", "drift_ongoing", "drift_detected"}
        /\ out = "drift_ongoing" => ev = "drift_ongoing" /\ cfg.renotify = 0
        /\ cfg.renotify = 0 => out = ev
    BY <2>2 DEF Damp
  <2>4. /\ DOMAIN x = StateFields /\ x.checked = TRUE /\ x.failing = FALSE
        /\ x.last = "drift_detected" /\ x.since = since /\ x.fp = verdict
        /\ x.notified = IF out = "drift_detected" THEN now ELSE prev.notified
    BY <2>1 DEF StateFields
  <2>5. since \in Nat /\ since <= now /\ since # 0 BY <1>2 DEF StateOK
  <2>6. x.notified \in Nat /\ x.notified <= now BY <1>2, <2>4 DEF StateOK
  <2>7. ASSUME cfg.renotify = 0 PROVE x.notified = 0 \/ x.notified >= x.since
    <3>1. CASE ev = "drift_detected" BY <2>3, <2>4, <2>5, <2>7, <3>1, <1>2
    <3>2. CASE ev = "drift_ongoing" BY <2>2, <2>3, <2>4, <2>7, <3>2, <1>2 DEF StateOK
    <3>3. CASE ev = "none" BY <2>2, <2>3, <2>4, <2>7, <3>3, <1>2 DEF StateOK
    <3> QED BY <2>2, <3>1, <3>2, <3>3
  <2>8. StateOK(x) BY <2>4, <2>5, <2>6, <2>7 DEF StateOK, Drifted
  <2>9. Detecting(prev, x, out, prev.failing) BY <2>2, <2>3, <2>4 DEF Drifted, Detecting
  <2>10. c.recovered = prev.failing BY <1>1, <1>3, <1>6
  <2>11. Shapes(prev, x, verdict, out) BY <1>6, <2>2, <2>3, <2>4 DEF Shapes
  <2> QED BY <1>1, <1>6, <2>2, <2>8, <2>9, <2>10, <2>11
<1> QED BY <1>4, <1>5, <1>6

-----------------------------------------------------------------------------
(* Types. *)

LEMMA PayloadsFacts ==
  ASSUME NEW s \in Stack, NEW recovered, NEW ev \in Event \cup {"none"},
         NEW ps, ps = Payloads(s, recovered, ev)
  PROVE  /\ ps \in Seq(Message)
         /\ \A i \in DOMAIN ps : /\ ps[i].stack = s
                                /\ \/ recovered /\ ps[i].event = "check_recovered"
                                   \/ ev # "none" /\ ps[i].event = ev
         /\ recovered => \E i \in DOMAIN ps : ps[i].event = "check_recovered"
         /\ ev # "none" => \E i \in DOMAIN ps : ps[i].event = ev
<1> PICK r : r = IF recovered THEN <<Payload(s, "check_recovered")>> ELSE << >> OBVIOUS
<1> PICK e : e = IF ev # "none" THEN <<Payload(s, ev)>> ELSE << >> OBVIOUS
<1>1. ps = r \o e BY DEF Payloads
<1>2. "check_recovered" \in Event
  <2>1. EventOrder[2] = "check_recovered" BY DEF EventOrder
  <2> QED BY <2>1 DEF Event
<1>3. \A x \in Event : Payload(s, x) \in Message /\ Payload(s, x).stack = s /\ Payload(s, x).event = x
  BY DEF Payload, Message
<1>4. /\ r \in Seq(Message) /\ e \in Seq(Message)
      /\ DOMAIN r = 1..Len(r) /\ DOMAIN e = 1..Len(e)
      /\ recovered => Len(r) = 1 /\ r[1] = Payload(s, "check_recovered")
      /\ ~recovered => Len(r) = 0
      /\ ev # "none" => Len(e) = 1 /\ e[1] = Payload(s, ev)
      /\ ev = "none" => Len(e) = 0
  <2>1. /\ \A p \in Message : <<p>> \in Seq(Message) /\ Len(<<p>>) = 1 /\ <<p>>[1] = p
                             /\ DOMAIN <<p>> = 1..1
        /\ << >> \in Seq(Message) /\ Len(<< >>) = 0 /\ DOMAIN << >> = 1..0
    OBVIOUS
  <2>2. Payload(s, "check_recovered") \in Message /\ (ev # "none" => Payload(s, ev) \in Message)
    BY <1>2, <1>3
  <2>3. /\ recovered => r = <<Payload(s, "check_recovered")>>
        /\ ~recovered => r = << >>
        /\ ev # "none" => e = <<Payload(s, ev)>>
        /\ ev = "none" => e = << >>
    OBVIOUS
  <2>4. CASE recovered
    <3>1. r \in Seq(Message) /\ DOMAIN r = 1..Len(r) /\ Len(r) = 1 /\ r[1] = Payload(s, "check_recovered")
      BY <2>1, <2>2, <2>3, <2>4
    <3>2. CASE ev # "none" BY <2>1, <2>2, <2>3, <2>4, <3>1, <3>2
    <3>3. CASE ev = "none" BY <2>1, <2>3, <2>4, <3>1, <3>3
    <3> QED BY <3>2, <3>3
  <2>5. CASE ~recovered
    <3>1. r \in Seq(Message) /\ DOMAIN r = 1..Len(r) /\ Len(r) = 0 BY <2>1, <2>3, <2>5
    <3>2. CASE ev # "none" BY <2>1, <2>2, <2>3, <2>5, <3>1, <3>2
    <3>3. CASE ev = "none" BY <2>1, <2>3, <2>5, <3>1, <3>3
    <3> QED BY <3>2, <3>3
  <2> QED BY <2>4, <2>5
<1>5. /\ ps \in Seq(Message) /\ DOMAIN ps = 1..(Len(r) + Len(e))
      /\ \A i \in DOMAIN ps : ps[i] = IF i <= Len(r) THEN r[i] ELSE e[i - Len(r)]
  BY <1>1, <1>4
<1>6. ASSUME NEW i \in DOMAIN ps
      PROVE  \/ recovered /\ ps[i] = Payload(s, "check_recovered")
             \/ ev # "none" /\ ps[i] = Payload(s, ev)
  <2>1. CASE i <= Len(r)
    <3>1. i \in DOMAIN r BY <1>4, <1>5, <2>1
    <3>2. recovered /\ i = 1 BY <1>4, <3>1
    <3> QED BY <1>4, <1>5, <2>1, <3>2
  <2>2. CASE ~(i <= Len(r))
    <3>1. i - Len(r) \in DOMAIN e BY <1>4, <1>5, <2>2
    <3>2. ev # "none" /\ i - Len(r) = 1
      <4>1. i - Len(r) \in 1..Len(e) BY <1>4, <3>1
      <4>2. ev # "none" BY <4>1, <1>4
      <4>3. Len(e) = 1 BY <4>2, <1>4
      <4>4. \A k : k \in 1..1 => k = 1 OBVIOUS
      <4>5. i - Len(r) \in 1..1 BY <4>1, <4>3
      <4> QED BY <4>2, <4>4, <4>5, Zenon
    <3> QED BY <1>4, <1>5, <2>2, <3>2
  <2> QED BY <2>1, <2>2
<1>7. ASSUME recovered PROVE 1 \in DOMAIN ps /\ ps[1] = Payload(s, "check_recovered")
  <2>1. Len(r) = 1 /\ Len(e) \in Nat BY <1>4, <1>7
  <2>2. 1 \in DOMAIN ps /\ 1 <= Len(r) BY <1>5, <2>1
  <2> QED BY <1>4, <1>5, <1>7, <2>2
<1>8. ASSUME ev # "none" PROVE Len(r) + 1 \in DOMAIN ps /\ ps[Len(r) + 1] = Payload(s, ev)
  <2>1. Len(r) \in {0, 1} /\ Len(e) = 1 BY <1>4, <1>8
  <2>2. Len(r) + 1 \in DOMAIN ps /\ ~(Len(r) + 1 <= Len(r)) /\ (Len(r) + 1) - Len(r) = 1 BY <1>5, <2>1
  <2> QED BY <1>4, <1>5, <1>8, <2>2
<1> QED BY <1>2, <1>3, <1>5, <1>6, <1>7, <1>8

LEMMA QuietType ==
  ASSUME TypeInv, UNCHANGED <<cfg, now, st, seen>>, marker' \in SUBSET Message,
         inc' \in [Channel -> [Stack -> [drift : BOOLEAN, check : BOOLEAN]]], RunOK(run)'
  PROVE  TypeInv'
BY DEF TypeInv, StateOK, Drifted

(* A step of the check of stack s. *)
CheckStep(s, w, payloads) ==
  /\ run.pc = "check" /\ run.work[s] # Done
  /\ DOMAIN run' = DOMAIN run /\ run'.pc = run.pc /\ run'.boot = run.boot
  /\ run'.work = [run.work EXCEPT ![s] = w]
  /\ run'.batch = run.batch \o payloads

LEMMA CheckStepType ==
  ASSUME TypeInv, NEW s \in Stack, NEW w, NEW ps \in Seq(Message),
         CheckStep(s, w, ps),
         UNCHANGED <<cfg, now, marker, inc>>,
         DOMAIN st' = Stack, StateOK(st'[s]), \A t \in Stack \ {s} : st'[t] = st[t],
         DOMAIN seen' = Stack, DOMAIN seen'[s] = {"verdict", "ok"},
         \A t \in Stack \ {s} : seen'[t] = seen[t],
         \/ w = Done /\ \A i \in DOMAIN ps : ps[i].stack = s
         \/ /\ ps = << >> /\ st' = st
            /\ DOMAIN w = {"step", "prev", "at", "retries", "rebound"}
            /\ w.step = "try" /\ w.prev = st[s] /\ w.at = now
  PROVE  TypeInv'
<1>1. run.pc = "check" /\ run.work[s] # Done /\ run # Idle /\ run.batch \in Seq(Message) /\ CheckOK(run)
  BY DEF TypeInv, RunOK, Idle, CheckStep
<1> PICK r : r = run' OBVIOUS
<1>2. /\ DOMAIN r = {"pc", "boot", "batch", "work"} /\ r.pc = "check"
      /\ r.work = [run.work EXCEPT ![s] = w] /\ r.batch = run.batch \o ps
  BY <1>1 DEF CheckOK, CheckStep
<1>3. /\ DOMAIN r.work = Stack /\ r.work[s] = w
      /\ \A t \in Stack \ {s} : r.work[t] = run.work[t]
  BY <1>1, <1>2 DEF CheckOK
<1>4. r.batch \in Seq(Message)
      /\ \A i \in DOMAIN r.batch : \/ \E j \in DOMAIN run.batch : r.batch[i] = run.batch[j]
                                   \/ \E j \in DOMAIN ps : r.batch[i] = ps[j]
  <2> PICK b, q : b = r.batch /\ q = run.batch OBVIOUS
  <2>1. q \in Seq(Message) /\ b = q \o ps BY <1>1, <1>2
  <2>2. b \in Seq(Message) /\ Joined(b, q, ps) BY <2>1, Appended
  <2> QED BY <2>2 DEF Joined
<1>5. \A t \in Stack : WorkOK(t, r.work[t])'
  <2> SUFFICES ASSUME NEW t \in Stack PROVE WorkOK(t, r.work[t])' OBVIOUS
  <2>1. CASE t = s BY <2>1, <1>3 DEF WorkOK
  <2>2. CASE t # s
    <3>1. WorkOK(t, run.work[t]) /\ r.work[t] = run.work[t] /\ st'[t] = st[t]
      BY <1>1, <1>3, <2>2 DEF CheckOK
    <3> QED BY <3>1 DEF WorkOK
  <2> QED BY <2>1, <2>2
<1>6. ASSUME NEW i \in DOMAIN r.batch PROVE r.work[r.batch[i].stack] = Done
  <2>1. CASE \E j \in DOMAIN run.batch : r.batch[i] = run.batch[j]
    <3>1. PICK j \in DOMAIN run.batch : r.batch[i] = run.batch[j] BY <2>1
    <3>2. run.batch[j] \in Message BY <1>1
    <3>3. run.work[run.batch[j].stack] = Done /\ run.batch[j].stack \in Stack
      BY <1>1, <3>2 DEF CheckOK, Message
    <3>4. run.batch[j].stack # s BY <3>3, <1>1
    <3> QED BY <3>1, <3>3, <3>4, <1>3
  <2>2. CASE \E j \in DOMAIN ps : r.batch[i] = ps[j]
    <3>1. PICK j \in DOMAIN ps : r.batch[i] = ps[j] BY <2>2
    <3>2. w = Done
      <4>1. CASE ps = << >> BY <4>1
      <4> QED BY <4>1
    <3>3. ps[j].stack = s
      <4>1. CASE ps = << >> BY <4>1
      <4> QED BY <4>1
    <3>4. r.batch[i].stack = s BY <3>1, <3>3
    <3> QED BY <3>2, <3>4, <1>3, Zenon
  <2> QED BY <1>4, <2>1, <2>2
<1>7. ASSUME NEW t \in Stack, r.work[t] # Done, now < MaxTime PROVE st'[t].notified < now
  <2>1. run.work[t] # Done /\ st'[t] = st[t]
    <3>1. CASE t = s BY <3>1, <1>1, <1>3, <1>7
    <3>2. CASE t # s BY <3>2, <1>3, <1>7
    <3> QED BY <3>1, <3>2
  <2> QED BY <2>1, <1>1, <1>7 DEF CheckOK
<1>8. RunOK(r)'
  <2>1. CheckOK(r)' BY <1>1, <1>2, <1>3, <1>5, <1>6, <1>7 DEF CheckOK
  <2> QED BY <2>1, <1>2, <1>4 DEF RunOK
<1>9. \A t \in Stack : StateOK(st[t])'
  <2>1. \A t \in Stack : StateOK(st'[t]) BY DEF TypeInv
  <2> QED BY <2>1 DEF StateOK, Drifted
<1>10. \A t \in Stack : DOMAIN seen'[t] = {"verdict", "ok"} BY DEF TypeInv
<1> QED BY <1>8, <1>9, <1>10 DEF TypeInv

LEMMA TypeInitially == Init => TypeInv
<1> SUFFICES ASSUME Init PROVE TypeInv OBVIOUS
<1>1. StateOK(NoState) BY DEF Init, StateOK, NoState, StateFields, Drifted
<1>2. DOMAIN st = Stack /\ \A s \in Stack : st[s] = NoState BY DEF Init
<1>3. DOMAIN seen = Stack /\ \A s \in Stack : DOMAIN seen[s] = {"verdict", "ok"} BY DEF Init
<1>4. inc \in [Channel -> [Stack -> [drift : BOOLEAN, check : BOOLEAN]]] BY DEF Init
<1>5. RunOK(run) BY DEF Init, RunOK
<1> QED BY <1>1, <1>2, <1>3, <1>4, <1>5 DEF Init, TypeInv

LEMMA Events ==
  Event = {"check_failed", "check_recovered", "drift_detected", "drift_ongoing", "drift_resolved"}
<1>1. /\ EventOrder[1] = "check_failed" /\ EventOrder[2] = "check_recovered"
      /\ EventOrder[3] = "drift_detected" /\ EventOrder[4] = "drift_ongoing"
      /\ EventOrder[5] = "drift_resolved"
  BY DEF EventOrder
<1>2. 1..5 = {1, 2, 3, 4, 5} OBVIOUS
<1> QED BY <1>1, <1>2 DEF Event

LEMMA StartType ==
  ASSUME TypeInv, NEW boot, Start(boot)
  PROVE  TypeInv'
<1> PICK r : r = run' OBVIOUS
<1>0. now \in Nat /\ MaxTime \in Nat \ {0} BY DriftAssumption DEF TypeInv
<1>1. now' \in Nat /\ now <= now' /\ now' # 0 /\ (now' < MaxTime => now < now') BY <1>0 DEF Start
<1>2. r = [pc |-> "check", boot |-> boot, batch |-> << >>, work |-> [s \in Stack |-> Todo]]
  BY DEF Start
<1>3. /\ DOMAIN r = {"pc", "boot", "batch", "work"} /\ r.pc = "check" /\ r.batch = << >>
      /\ DOMAIN r.work = Stack /\ \A s \in Stack : r.work[s] = Todo
  BY <1>2
<1>4. \A s \in Stack : StateOK(st[s])' /\ st[s].notified <= now /\ st[s].notified \in Nat
  <2> SUFFICES ASSUME NEW s \in Stack
               PROVE StateOK(st[s])' /\ st[s].notified <= now /\ st[s].notified \in Nat
    OBVIOUS
  <2>1. StateOK(st[s]) /\ st' = st /\ cfg' = cfg BY DEF TypeInv, Start
  <2>2. /\ st[s].notified \in Nat /\ st[s].notified <= now
        /\ st[s].since \in Nat /\ st[s].since <= now
    BY <2>1 DEF StateOK
  <2>3. st[s].notified <= now' /\ st[s].since <= now' BY <1>0, <1>1, <2>2
  <2> QED BY <2>1, <2>2, <2>3 DEF StateOK, Drifted
<1>5. \A s \in Stack : now' < MaxTime => st[s].notified < now' BY <1>0, <1>1, <1>4
<1>6. CheckOK(r)'
  <2>1. \A i \in DOMAIN << >> : FALSE OBVIOUS
  <2> QED BY <1>1, <1>3, <1>5, <2>1 DEF CheckOK, WorkOK, Start
<1>7. RunOK(r)' BY <1>3, <1>6 DEF RunOK
<1> QED BY <1>1, <1>4, <1>7 DEF TypeInv, Start

(* A check that ends: the verdict, the stored state and what goes out. *)
Ends(s, e, x, out, recovered) ==
  /\ now # 0
  /\ StateOK(x)
  /\ e.verdict = Failed => Failing(st[s], x, out, recovered)
  /\ e.verdict # Failed /\ e.verdict = Clean => Resolving(st[s], x, out, recovered)
  /\ e.verdict # Failed /\ e.verdict # Clean => Detecting(st[s], x, out, recovered)
  /\ Shapes(st[s], x, e.verdict, out)
  /\ seen' = [seen EXCEPT ![s] = [verdict |-> IF e.real = Failed THEN @.verdict ELSE e.real,
                                  ok |-> e.real # Failed]]
  /\ \/ st' = [st EXCEPT ![s] = x] /\ UNCHANGED excused
     \/ UNCHANGED st /\ excused' = excused \cup {<<s, "drift">>, <<s, "check">>}
  /\ UNCHANGED <<cfg, now, sup, marker, inc>>

Sent(e, out) == IF Accepted(now) /\ e.verdict # Failed THEN "none" ELSE out

LEMMA CheckEnds ==
  ASSUME TypeInv, NEW s \in Stack, Check(s)
  PROVE  \E e \in Endings(run.work[s]) : \E x, out, recovered :
           /\ Ends(s, e, x, out, recovered)
           /\ Sent(e, out) \in Event \cup {"none"}
           /\ CheckStep(s, Done, Payloads(s, recovered, Sent(e, out)))
<1> PICK w : w = run.work[s] OBVIOUS
<1>1. run.pc = "check" /\ w.step = "try" BY DEF Check, At
<1>2. CheckOK(run) BY <1>1 DEF TypeInv, RunOK, Idle
<1>3. w # Todo /\ w # Done BY <1>1 DEF Todo, Done
<1>4. w.prev = st[s] /\ w.at = now /\ now # 0 BY <1>2, <1>3 DEF CheckOK, WorkOK
<1>5. PICK e \in Endings(w) :
        LET c == Conclusion(w.prev, e.verdict, w.at, run.boot)
        IN  /\ Finish(s, Payloads(s, c.recovered, Outgoing(c, w.at)))
            /\ seen' = [seen EXCEPT ![s] = [verdict |-> IF e.real = Failed THEN @.verdict ELSE e.real,
                                            ok |-> e.real # Failed]]
            /\ \/ st' = [st EXCEPT ![s] = c.next] /\ UNCHANGED <<faults, excused>>
               \/ /\ Fault("save") /\ UNCHANGED st
                  /\ excused' = excused \cup {<<s, "drift">>, <<s, "check">>}
  BY DEF Check
<1> PICK c : c = Conclusion(st[s], e.verdict, now, run.boot) OBVIOUS
<1>6. /\ Finish(s, Payloads(s, c.recovered, Outgoing(c, now)))
      /\ seen' = [seen EXCEPT ![s] = [verdict |-> IF e.real = Failed THEN @.verdict ELSE e.real,
                                      ok |-> e.real # Failed]]
      /\ \/ st' = [st EXCEPT ![s] = c.next] /\ UNCHANGED excused
         \/ UNCHANGED st /\ excused' = excused \cup {<<s, "drift">>, <<s, "check">>}
  BY <1>4, <1>5
<1>7. /\ StateOK(c.next)
      /\ c.ev = "check_failed" <=> e.verdict = Failed
      /\ e.verdict = Failed => Failing(st[s], c.next, c.out, c.recovered)
      /\ e.verdict # Failed /\ e.verdict = Clean => Resolving(st[s], c.next, c.out, c.recovered)
      /\ e.verdict # Failed /\ e.verdict # Clean => Detecting(st[s], c.next, c.out, c.recovered)
      /\ Shapes(st[s], c.next, e.verdict, c.out)
  <2> PICK v, prev, boot : v = e.verdict /\ prev = st[s] /\ boot = run.boot OBVIOUS
  <2>1. c = Conclusion(prev, v, now, boot) OBVIOUS
  <2>2. /\ StateOK(c.next)
        /\ c.ev = "check_failed" <=> v = Failed
        /\ v = Failed => Failing(prev, c.next, c.out, c.recovered)
        /\ v # Failed /\ v = Clean => Resolving(prev, c.next, c.out, c.recovered)
        /\ v # Failed /\ v # Clean => Detecting(prev, c.next, c.out, c.recovered)
        /\ Shapes(prev, c.next, v, c.out)
    BY <1>4, <2>1, Concludes
  <2> QED BY <2>2
<1>8. UNCHANGED <<cfg, now, sup, marker, inc>> BY DEF Check
<1>9. Ends(s, e, c.next, c.out, c.recovered) BY <1>4, <1>6, <1>7, <1>8 DEF Ends
<1>10. Outgoing(c, now) = Sent(e, c.out) BY <1>7 DEF Outgoing, Sent
<1>11. c.out \in Event \cup {"none"}
  BY <1>7, Events DEF Failing, Resolving, Detecting
<1>12. Sent(e, c.out) \in Event \cup {"none"} BY <1>11 DEF Sent
<1>13. CheckStep(s, Done, Payloads(s, c.recovered, Sent(e, c.out)))
  BY <1>1, <1>2, <1>3, <1>6, <1>10 DEF Finish, CheckStep, CheckOK
<1> QED BY <1>9, <1>12, <1>13

LEMMA CheckType ==
  ASSUME TypeInv, NEW s \in Stack, Check(s)
  PROVE  TypeInv'
<1>1. PICK e, x, out, recovered :
        /\ e \in Endings(run.work[s])
        /\ Ends(s, e, x, out, recovered)
        /\ Sent(e, out) \in Event \cup {"none"}
        /\ CheckStep(s, Done, Payloads(s, recovered, Sent(e, out)))
  BY CheckEnds
<1> e \in Endings(run.work[s]) BY <1>1
<1> PICK ps, ev : ps = Payloads(s, recovered, ev) /\ ev = Sent(e, out) OBVIOUS
<1>2. ps \in Seq(Message) /\ \A i \in DOMAIN ps : ps[i].stack = s BY <1>1, PayloadsFacts
<1>3. DOMAIN st = Stack /\ StateOK(st[s]) /\ DOMAIN seen = Stack BY DEF TypeInv
<1>4. DOMAIN st' = Stack /\ StateOK(st'[s]) /\ \A t \in Stack \ {s} : st'[t] = st[t]
  BY <1>1, <1>3 DEF Ends
<1>5. /\ DOMAIN seen' = Stack /\ DOMAIN seen'[s] = {"verdict", "ok"}
      /\ \A t \in Stack \ {s} : seen'[t] = seen[t]
  BY <1>1, <1>3 DEF Ends
<1>6. UNCHANGED <<cfg, now, marker, inc>> BY <1>1 DEF Ends
<1>7. CheckStep(s, Done, ps) BY <1>1
<1> QED BY <1>2, <1>4, <1>5, <1>6, <1>7, CheckStepType

(* A step of a check that tells nothing, or only that it failed. *)
LEMMA RefuseStep ==
  ASSUME TypeInv, NEW s \in Stack, At(s, "todo"), Refuse(s)
  PROVE  \E ps \in Seq(Message) :
           /\ ps = Payloads(s, FALSE, "check_failed")
           /\ \A i \in DOMAIN ps : ps[i].stack = s /\ ps[i].event = "check_failed"
           /\ \E i \in DOMAIN ps : ps[i].event = "check_failed"
           /\ CheckStep(s, Done, ps)
<1> PICK ps, ev, no : ps = Payloads(s, no, ev) /\ ev = "check_failed" /\ no = FALSE OBVIOUS
<1>1. ev \in Event \cup {"none"} /\ ev # "none" /\ ~no BY Events
<1>2. /\ ps \in Seq(Message) /\ \A i \in DOMAIN ps : ps[i].stack = s /\ ps[i].event = ev
      /\ \E i \in DOMAIN ps : ps[i].event = ev
  BY <1>1, PayloadsFacts
<1>3. run.pc = "check" /\ run.work[s] # Done /\ CheckOK(run)
  BY DEF At, Done, TypeInv, RunOK, Idle
<1>4. CheckStep(s, Done, ps) BY <1>3 DEF CheckStep, Refuse, Finish, CheckOK
<1> QED BY <1>2, <1>4

LEMMA HushedStep ==
  ASSUME TypeInv, NEW s \in Stack, Skip(s) \/ Load(s) \/ Retry(s)
  PROVE  /\ UNCHANGED <<cfg, now, st, sup, marker, inc, faults, seen, excused>>
         /\ \E w : /\ CheckStep(s, w, << >>)
                   /\ \/ w = Done
                      \/ /\ DOMAIN w = {"step", "prev", "at", "retries", "rebound"}
                         /\ w.step = "try" /\ w.prev = st[s] /\ w.at = now
<1>0. UNCHANGED <<cfg, now, st, sup, marker, inc, faults, seen, excused>> BY DEF Skip, Load, Retry
<1>1. run.pc = "check" /\ run.work[s] # Done /\ CheckOK(run) /\ run.batch \in Seq(Message)
  <2>1. At(s, "todo") \/ At(s, "try") BY DEF Skip, Load, Retry
  <2>2. run.pc = "check" /\ run.work[s] # Done BY <2>1 DEF At, Done
  <2> QED BY <2>2 DEF TypeInv, RunOK, Idle
<1>2. run.batch \o << >> = run.batch BY <1>1
<1>3. CASE Skip(s)
  <2>1. CheckStep(s, Done, << >>) BY <1>1, <1>3 DEF Skip, Finish, CheckStep, CheckOK
  <2> QED BY <1>0, <2>1
<1>4. CASE Load(s)
  <2> PICK w : w = [step |-> "try", prev |-> st[s], at |-> now, retries |-> 0, rebound |-> FALSE]
    OBVIOUS
  <2>1. run' = [run EXCEPT !.work[s] = w] BY <1>4 DEF Load
  <2>2. CheckStep(s, w, << >>) BY <1>1, <1>2, <2>1 DEF CheckStep, CheckOK
  <2> QED BY <1>0, <2>2
<1>5. CASE Retry(s)
  <2> PICK v : v = run.work[s] OBVIOUS
  <2>1. PICK kind \in ErrKind :
          run' = [run EXCEPT !.work[s].retries = @ + 1,
                             !.work[s].rebound = @ \/ kind = "expired"]
    BY <1>5 DEF Retry
  <2>2. /\ DOMAIN v = {"step", "prev", "at", "retries", "rebound"}
        /\ v.step = "try" /\ v.prev = st[s] /\ v.at = now
    <3>1. v.step = "try" BY <1>5 DEF Retry, At
    <3>2. v # Todo /\ v # Done BY <3>1 DEF Todo, Done
    <3>3. WorkOK(s, v) BY <1>1 DEF CheckOK
    <3> QED BY <3>2, <3>3 DEF WorkOK
  <2> PICK w : w = [v EXCEPT !.retries = @ + 1, !.rebound = @ \/ kind = "expired"] OBVIOUS
  <2>3. /\ DOMAIN w = {"step", "prev", "at", "retries", "rebound"}
        /\ w.step = "try" /\ w.prev = st[s] /\ w.at = now
    BY <2>2
  <2>4. /\ DOMAIN run' = DOMAIN run /\ run'.pc = run.pc /\ run'.boot = run.boot
        /\ run'.batch = run.batch
    BY <1>1, <2>1 DEF CheckOK
  <2>5. run'.work = [run.work EXCEPT ![s] = w] BY <1>1, <2>1, <2>2 DEF CheckOK
  <2>6. CheckStep(s, w, << >>) BY <1>1, <1>2, <2>4, <2>5 DEF CheckStep
  <2> QED BY <1>0, <2>3, <2>6
<1> QED BY <1>3, <1>4, <1>5

LEMMA StackStepType ==
  ASSUME TypeInv, NEW s \in Stack,
         LoadFails(s) \/ Skip(s) \/ RequireManual(s) \/ Load(s) \/ Retry(s) \/ Check(s)
  PROVE  TypeInv'
<1>1. DOMAIN st = Stack /\ StateOK(st[s]) /\ DOMAIN seen = Stack /\ DOMAIN seen[s] = {"verdict", "ok"}
  BY DEF TypeInv
<1>2. CASE LoadFails(s) \/ RequireManual(s)
  <2>1. At(s, "todo") /\ Refuse(s) BY <1>2 DEF LoadFails, RequireManual
  <2>2. PICK ps \in Seq(Message) :
          (\A i \in DOMAIN ps : ps[i].stack = s) /\ CheckStep(s, Done, ps)
    BY <2>1, RefuseStep
  <2>3. UNCHANGED <<cfg, now, st, marker, inc>> /\ seen' = [seen EXCEPT ![s].ok = FALSE]
    BY <2>1 DEF Refuse
  <2>4. /\ DOMAIN seen' = Stack /\ DOMAIN seen'[s] = {"verdict", "ok"}
        /\ \A t \in Stack \ {s} : seen'[t] = seen[t]
    BY <1>1, <2>3
  <2>5. DOMAIN st' = Stack /\ StateOK(st'[s]) /\ \A t \in Stack \ {s} : st'[t] = st[t] BY <1>1, <2>3
  <2> QED BY <2>2, <2>3, <2>4, <2>5, CheckStepType
<1>3. CASE Skip(s) \/ Load(s) \/ Retry(s)
  <2>1. PICK w : /\ CheckStep(s, w, << >>)
                 /\ \/ w = Done
                    \/ /\ DOMAIN w = {"step", "prev", "at", "retries", "rebound"}
                       /\ w.step = "try" /\ w.prev = st[s] /\ w.at = now
    BY <1>3, HushedStep
  <2>2. UNCHANGED <<cfg, now, st, marker, inc, seen>> BY <1>3 DEF Skip, Load, Retry
  <2> PICK ps : ps = << >> OBVIOUS
  <2>3. ps \in Seq(Message) /\ \A i \in DOMAIN ps : ps[i].stack = s OBVIOUS
  <2>4. DOMAIN st' = Stack /\ StateOK(st'[s]) /\ \A t \in Stack \ {s} : st'[t] = st[t] BY <1>1, <2>2
  <2>5. /\ DOMAIN seen' = Stack /\ DOMAIN seen'[s] = {"verdict", "ok"}
        /\ \A t \in Stack \ {s} : seen'[t] = seen[t]
    BY <1>1, <2>2
  <2> QED BY <2>1, <2>2, <2>3, <2>4, <2>5, CheckStepType
<1>4. CASE Check(s) BY <1>4, CheckType
<1> QED BY <1>2, <1>3, <1>4

LEMMA BatchOK ==
  ASSUME TypeInv, run # Idle
  PROVE  run.batch \in Seq(Message) /\ run.pc \in {"check", "mark", "deliver", "clear"}
BY DEF TypeInv, RunOK

LEMMA RunTypes ==
  ASSUME TypeInv
  PROVE  /\ run.pc = "check" => CheckOK(run) /\ run # Idle
         /\ run.pc = "mark" => DOMAIN run = {"pc", "batch", "at"} /\ run.at \in Nat \ {0} /\ run # Idle
         /\ run.pc = "deliver" => /\ DOMAIN run = {"pc", "batch", "next", "failed", "got"} /\ run # Idle
                                  /\ run.next \in [Channel -> Nat \ {0}] /\ run.failed \in BOOLEAN
         /\ run.pc = "clear" => DOMAIN run = {"pc", "batch", "at", "got"} /\ run.at \in Nat \ {0} /\ run # Idle
         /\ run.pc = "idle" => run = Idle
<1>1. run.pc \in {"check", "mark", "deliver", "clear", "idle"} /\ (run = Idle => run.pc = "idle")
  BY DEF TypeInv, RunOK, Idle
<1>2. CASE run = Idle BY <1>1, <1>2
<1>3. CASE run # Idle BY <1>1, <1>3 DEF TypeInv, RunOK
<1> QED BY <1>2, <1>3

(* The payload of a position of the batch. *)
LEMMA PositionOK ==
  ASSUME TypeInv, run # Idle, NEW i \in Nat \ {0}, i <= Len(run.batch)
  PROVE  i \in DOMAIN run.batch /\ run.batch[i] \in Message
<1> PICK b : b = run.batch OBVIOUS
<1>1. b \in Seq(Message) BY BatchOK
<1>2. Len(b) \in Nat /\ DOMAIN b = 1..Len(b) /\ i <= Len(b) BY <1>1
<1>3. i \in DOMAIN b BY <1>2
<1> QED BY <1>1, <1>3

LEMMA HandleType ==
  ASSUME TypeInv, NEW c \in Channel, NEW p \in Message
  PROVE  /\ Handle(c, p) \in [Channel -> [Stack -> [drift : BOOLEAN, check : BOOLEAN]]]
         /\ \A d \in Channel, s \in Stack, x \in {"drift", "check"} :
              Handle(c, p)[d][s][x] = IF d = c /\ s = p.stack /\ x = Stream(p.event) THEN Opens(p)
                                      ELSE inc[d][s][x]
<1>1. p.stack \in Stack /\ Stream(p.event) \in {"drift", "check"} /\ Opens(p) \in BOOLEAN
  BY DEF Message, Stream, Opens, Closing
<1> PICK t, y, b : t = p.stack /\ y = Stream(p.event) /\ b = Opens(p) OBVIOUS
<1>2. inc \in [Channel -> [Stack -> [drift : BOOLEAN, check : BOOLEAN]]] BY DEF TypeInv
<1>3. Handle(c, p) = [inc EXCEPT ![c] = [inc[c] EXCEPT ![t] = [inc[c][t] EXCEPT ![y] = b]]]
  BY DEF Handle, Opens
<1> PICK row : row = inc[c] OBVIOUS
<1> PICK cell : cell = row[t] OBVIOUS
<1>4. row \in [Stack -> [drift : BOOLEAN, check : BOOLEAN]] /\ cell \in [drift : BOOLEAN, check : BOOLEAN]
  BY <1>1, <1>2
<1> PICK new : new = [cell EXCEPT ![y] = b] OBVIOUS
<1>5. /\ new \in [drift : BOOLEAN, check : BOOLEAN]
      /\ new[y] = b /\ \A x \in {"drift", "check"} : x # y => new[x] = cell[x]
  BY <1>1, <1>4
<1> PICK line : line = [row EXCEPT ![t] = new] OBVIOUS
<1>6. /\ line \in [Stack -> [drift : BOOLEAN, check : BOOLEAN]]
      /\ line[t] = new /\ \A s \in Stack : s # t => line[s] = row[s]
  BY <1>1, <1>4, <1>5
<1> PICK h : h = Handle(c, p) OBVIOUS
<1>7. /\ h \in [Channel -> [Stack -> [drift : BOOLEAN, check : BOOLEAN]]]
      /\ h[c] = line /\ \A d \in Channel : d # c => h[d] = inc[d]
  BY <1>2, <1>3, <1>6
<1>8. ASSUME NEW d \in Channel, NEW s \in Stack, NEW x \in {"drift", "check"}
      PROVE  h[d][s][x] = IF d = c /\ s = t /\ x = y THEN b ELSE inc[d][s][x]
  <2>1. CASE d # c BY <2>1, <1>7
  <2>2. CASE d = c /\ s # t BY <2>2, <1>6, <1>7
  <2>3. CASE d = c /\ s = t BY <2>3, <1>5, <1>6, <1>7
  <2> QED BY <2>1, <2>2, <2>3
<1> QED BY <1>7, <1>8

LEMMA OtherType ==
  ASSUME TypeInv, SuppressAdd \/ SuppressClear \/ EndBootstrap \/ PublishFails \/ Settle \/ End \/ Die
  PROVE  TypeInv'
<1>1. UNCHANGED <<cfg, now, st, seen, marker, inc>>
  BY DEF SuppressAdd, SuppressClear, EndBootstrap, PublishFails, Settle, End, Die
<1>2. marker \in SUBSET Message /\ inc \in [Channel -> [Stack -> [drift : BOOLEAN, check : BOOLEAN]]]
  BY DEF TypeInv
<1>3. RunOK(run)'
  <2>1. CASE run' = run
    <3>1. RunOK(run) BY DEF TypeInv
    <3> QED BY <1>1, <2>1, <3>1 DEF RunOK, CheckOK, WorkOK
  <2>2. CASE run' = Idle BY <2>2 DEF RunOK
  <2>3. CASE Settle /\ run' = [pc |-> "clear", batch |-> run.batch, at |-> 1, got |-> run.got]
    <3>1. run # Idle BY <2>3 DEF Settle, Delivered, Idle
    <3>2. run.batch \in Seq(Message) BY <3>1, BatchOK
    <3> QED BY <2>3, <3>2 DEF RunOK
  <2> QED BY <2>1, <2>2, <2>3
        DEF SuppressAdd, SuppressClear, EndBootstrap, PublishFails, Settle, End, Die
<1> QED BY <1>1, <1>2, <1>3, QuietType

LEMMA PublishType ==
  ASSUME TypeInv, Publish
  PROVE  TypeInv'
<1>1. PICK readable \in SUBSET marker :
        run' = [pc |-> "mark", batch |-> MergePending(Leftover(readable), run.batch), at |-> 1]
  BY DEF Publish
<1>2. run # Idle BY DEF Publish, AllDone, Idle
<1> PICK b, m : b = run.batch /\ m = MergePending(Leftover(readable), b) OBVIOUS
<1>3. b \in Seq(Message) BY <1>2, BatchOK
<1>4. readable \in SUBSET Message BY DEF TypeInv
<1>5. m \in Seq(Message) BY <1>3, <1>4, PublishedFacts
<1>6. RunOK(run)' BY <1>1, <1>5 DEF RunOK
<1> QED BY <1>6, QuietType DEF Publish, TypeInv

LEMMA DeliveryType ==
  ASSUME TypeInv,
         Mark \/ Dispatch \/ Clear \/ \E c \in Channel : Deliver(c) \/ DeliverFails(c)
  PROVE  TypeInv'
<1>1. run # Idle
  <2>1. run.pc \in {"mark", "clear", "deliver"}
    BY DEF Mark, Dispatch, Clear, Deliver, DeliverFails, Heading
  <2> QED BY <2>1 DEF Idle
<1>2. run.batch \in Seq(Message) BY <1>1, BatchOK
<1>3. UNCHANGED <<cfg, now, st, seen>> BY DEF Mark, Dispatch, Clear, Deliver, DeliverFails
<1>4. marker \in SUBSET Message /\ inc \in [Channel -> [Stack -> [drift : BOOLEAN, check : BOOLEAN]]]
  BY DEF TypeInv
<1>5. CASE Mark \/ Clear
  <2>1. run.pc \in {"mark", "clear"} /\ run.at <= Len(run.batch) BY <1>5 DEF Mark, Clear
  <2>2. run.at \in Nat \ {0} BY <2>1, RunTypes
  <2> PICK p : p = run.batch[run.at] OBVIOUS
  <2>3. p \in Message BY <1>1, <2>1, <2>2, PositionOK
  <2>4. marker' \in SUBSET Message
    <3>1. marker' \in {marker, marker \cup {p}, marker \ {p}} BY <1>5 DEF Mark, Clear
    <3> QED BY <1>4, <2>3, <3>1
  <2>5. run' = [run EXCEPT !.at = @ + 1] /\ inc' = inc BY <1>5 DEF Mark, Clear
  <2>6. run'.batch = run.batch /\ run'.pc = run.pc /\ DOMAIN run' = DOMAIN run /\ run'.at \in Nat \ {0}
    <3>1. {"pc", "batch", "at"} \subseteq DOMAIN run BY <2>1, RunTypes
    <3>2. run'.batch = run.batch /\ run'.pc = run.pc /\ DOMAIN run' = DOMAIN run /\ run'.at = run.at + 1
      BY <2>5, <3>1
    <3> QED BY <2>2, <3>2
  <2>7. RunOK(run)' BY <1>2, <2>1, <2>6, RunTypes DEF RunOK
  <2> QED BY <1>3, <1>4, <2>4, <2>5, <2>7, QuietType
<1>6. CASE Dispatch
  <2>1. run' = [pc |-> "deliver", batch |-> run.batch, next |-> [c \in Channel |-> 1],
                failed |-> FALSE, got |-> {}]
    BY <1>6 DEF Dispatch
  <2>2. RunOK(run)' BY <1>2, <2>1 DEF RunOK
  <2>3. UNCHANGED <<marker, inc>> BY <1>6 DEF Dispatch
  <2> QED BY <1>3, <1>4, <2>2, <2>3, QuietType
<1>7. ASSUME NEW c \in Channel, Deliver(c) \/ DeliverFails(c) PROVE TypeInv'
  <2>1. run.pc = "deliver" /\ run.next[c] <= Len(run.batch) /\ marker' = marker
    BY <1>7 DEF Deliver, DeliverFails, Heading
  <2>2. /\ DOMAIN run = {"pc", "batch", "next", "failed", "got"}
        /\ run.next \in [Channel -> Nat \ {0}] /\ run.failed \in BOOLEAN
    BY <2>1, RunTypes
  <2> PICK k : k = run.next[c] OBVIOUS
  <2> PICK p : p = run.batch[k] OBVIOUS
  <2>3. p \in Message BY <1>1, <2>1, <2>2, PositionOK
  <2>4. inc' \in [Channel -> [Stack -> [drift : BOOLEAN, check : BOOLEAN]]]
    <3>1. inc' = inc \/ inc' = Handle(c, p) BY <1>7 DEF Deliver, DeliverFails
    <3> QED BY <1>4, <2>3, <3>1, HandleType
  <2>5. Len(run.batch) \in Nat BY <1>2
  <2>6. /\ DOMAIN run' = {"pc", "batch", "next", "failed", "got"} /\ run'.pc = "deliver"
        /\ run'.batch = run.batch
        /\ run'.next \in [Channel -> Nat \ {0}] /\ run'.failed \in BOOLEAN
    <3>1. CASE Deliver(c)
      <4>1. \/ run' = [run EXCEPT !.next[c] = @ + 1, !.got = @ \cup {<<c, p>>}]
            \/ run' = [run EXCEPT !.next[c] = @ + 1]
        BY <3>1 DEF Deliver
      <4>2. /\ DOMAIN run' = {"pc", "batch", "next", "failed", "got"} /\ run'.pc = "deliver"
            /\ run'.batch = run.batch /\ run'.next = [run.next EXCEPT ![c] = @ + 1]
            /\ run'.failed = run.failed
        BY <2>1, <2>2, <4>1
      <4> QED BY <2>2, <4>2
    <3>2. CASE DeliverFails(c)
      <4>1. PICK n \in {run.next[c] + 1, Len(run.batch) + 1} :
              run' = [run EXCEPT !.next[c] = n, !.failed = TRUE]
        BY <3>2 DEF DeliverFails
      <4>2. n \in Nat \ {0} BY <2>2, <2>5
      <4>3. /\ DOMAIN run' = {"pc", "batch", "next", "failed", "got"} /\ run'.pc = "deliver"
            /\ run'.batch = run.batch /\ run'.next = [run.next EXCEPT ![c] = n]
            /\ run'.failed = TRUE
        BY <2>1, <2>2, <4>1
      <4> QED BY <2>2, <4>2, <4>3
    <3> QED BY <1>7, <3>1, <3>2
  <2>7. RunOK(run)' BY <1>2, <2>6 DEF RunOK
  <2> QED BY <1>3, <1>4, <2>1, <2>4, <2>7, QuietType
<1> QED BY <1>5, <1>6, <1>7

LEMMA TypeStep == TypeInv /\ [Next]_vars => TypeInv'
<1> SUFFICES ASSUME TypeInv, [Next]_vars PROVE TypeInv' OBVIOUS
<1>1. CASE UNCHANGED vars
  <2>1. RunOK(run)' BY <1>1 DEF vars, TypeInv, RunOK, CheckOK, WorkOK
  <2> QED BY <1>1, <2>1, QuietType DEF vars, TypeInv
<1>2. CASE Next
  <2>1. CASE SuppressAdd \/ SuppressClear \/ EndBootstrap \/ PublishFails \/ Settle \/ End \/ Die
    BY <2>1, OtherType
  <2>2. CASE Start(FALSE) \/ Start(TRUE) BY <2>2, StartType
  <2>3. CASE Publish BY <2>3, PublishType
  <2>4. CASE Mark \/ Dispatch \/ Clear \/ \E c \in Channel : Deliver(c) \/ DeliverFails(c)
    BY <2>4, DeliveryType
  <2>5. CASE \E s \in Stack :
               LoadFails(s) \/ Skip(s) \/ RequireManual(s) \/ Load(s) \/ Retry(s) \/ Check(s)
    BY <2>5, StackStepType
  <2> QED BY <1>2, <2>1, <2>2, <2>3, <2>4, <2>5, Zenon DEF Next, Step
<1> QED BY <1>1, <1>2

-----------------------------------------------------------------------------
(* Markers are kept until everybody was told. *)

(* A step that leaves the delivery alone. *)
LEMMA QuietRun ==
  ASSUME TypeInv, Next, ~Dispatch, ~Clear, ~Settle, \A c \in Channel : ~(Deliver(c) \/ DeliverFails(c))
  PROVE  (run' = run \/ run'.pc \in {"idle", "check", "mark"}) /\ marker \subseteq marker'
<1>1. CASE SuppressAdd \/ SuppressClear BY <1>1 DEF SuppressAdd, SuppressClear
<1>2. CASE EndBootstrap \/ PublishFails \/ End \/ Die
  <2>1. run' = Idle /\ marker' = marker BY <1>2 DEF EndBootstrap, PublishFails, End, Die
  <2> QED BY <2>1 DEF Idle
<1>3. CASE Start(FALSE) \/ Start(TRUE) BY <1>3 DEF Start
<1>4. CASE Publish BY <1>4 DEF Publish
<1>5. CASE Mark
  <2>1. run.pc = "mark" /\ run' = [run EXCEPT !.at = @ + 1] BY <1>5 DEF Mark
  <2>2. run'.pc = "mark" BY <2>1, RunTypes
  <2>3. marker \subseteq marker' BY <1>5 DEF Mark
  <2> QED BY <2>2, <2>3
<1>6. ASSUME NEW s \in Stack,
             LoadFails(s) \/ Skip(s) \/ RequireManual(s) \/ Load(s) \/ Retry(s) \/ Check(s)
      PROVE  run'.pc = "check" /\ marker' = marker
  <2>1. CASE LoadFails(s) \/ RequireManual(s)
    <3>1. At(s, "todo") /\ Refuse(s) BY <2>1 DEF LoadFails, RequireManual
    <3>2. PICK ps : CheckStep(s, Done, ps) BY <3>1, RefuseStep
    <3> QED BY <3>1, <3>2 DEF CheckStep, Refuse
  <2>2. CASE Skip(s) \/ Load(s) \/ Retry(s)
    <3>1. PICK w : CheckStep(s, w, << >>) /\ marker' = marker BY <2>2, HushedStep
    <3> QED BY <3>1 DEF CheckStep
  <2>3. CASE Check(s)
    <3>1. PICK ps : CheckStep(s, Done, ps) BY <2>3, CheckEnds
    <3> QED BY <2>3, <3>1 DEF CheckStep, Check
  <2> QED BY <1>6, <2>1, <2>2, <2>3
<1> QED BY <1>1, <1>2, <1>3, <1>4, <1>5, <1>6 DEF Next, Step

LEMMA GotInitially == Init => GotInv
BY DEF Init, Idle, GotInv

LEMMA GotStep ==
  ASSUME TypeInv, GotInv, [Next]_vars
  PROVE  GotInv'
<1>1. CASE run' = run BY <1>1 DEF GotInv, Gets
<1>2. CASE run'.pc \in {"idle", "check", "mark"} BY <1>2 DEF GotInv
<1>3. CASE Dispatch
  <2>1. run' = [pc |-> "deliver", batch |-> run.batch, next |-> [c \in Channel |-> 1],
                failed |-> FALSE, got |-> {}]
    BY <1>3 DEF Dispatch
  <2>2. run.batch \in Seq(Message)
    <3>1. run # Idle BY <1>3 DEF Dispatch, Idle
    <3> QED BY <3>1, BatchOK
  <2>3. \A i \in DOMAIN run.batch : ~(i < 1) BY <2>2
  <2> QED BY <2>1, <2>3 DEF GotInv
<1>4. CASE Clear
  <2>1. run.pc = "clear" /\ run' = [run EXCEPT !.at = @ + 1] BY <1>4 DEF Clear
  <2>2. run'.pc = run.pc /\ run'.batch = run.batch /\ run'.got = run.got BY <2>1, RunTypes
  <2> QED BY <2>1, <2>2 DEF GotInv, Gets
<1>5. CASE Settle
  <2>1. CASE run' = Idle BY <2>1 DEF GotInv, Idle
  <2>2. CASE run' # Idle
    <3>1. /\ ~run.failed /\ run.pc = "deliver" /\ \A c \in Channel : run.next[c] > Len(run.batch)
          /\ run' = [pc |-> "clear", batch |-> run.batch, at |-> 1, got |-> run.got]
      BY <1>5, <2>2 DEF Settle, Delivered
    <3>2. run.batch \in Seq(Message) /\ run.next \in [Channel -> Nat \ {0}]
      BY <3>1, BatchOK, RunTypes
    <3>3. \A c \in Channel : \A i \in DOMAIN run.batch : i < run.next[c]
      <4> SUFFICES ASSUME NEW c \in Channel, NEW i \in DOMAIN run.batch PROVE i < run.next[c] OBVIOUS
      <4> PICK n, l : n = run.next[c] /\ l = Len(run.batch) OBVIOUS
      <4>1. n \in Nat /\ l \in Nat /\ i \in 1..l /\ n > l BY <3>1, <3>2
      <4> QED BY <4>1
    <3> QED BY <3>1, <3>3 DEF GotInv, Gets
  <2> QED BY <2>1, <2>2
<1>6. ASSUME NEW c \in Channel, DeliverFails(c) PROVE GotInv'
  <2>1. PICK n : run' = [run EXCEPT !.next[c] = n, !.failed = TRUE] BY <1>6 DEF DeliverFails
  <2>2. run.pc = "deliver" BY <1>6 DEF DeliverFails, Heading
  <2>3. run'.pc = "deliver" /\ run'.failed = TRUE BY <2>1, <2>2, RunTypes
  <2> QED BY <2>3 DEF GotInv
<1>7. ASSUME NEW c \in Channel, Deliver(c) PROVE GotInv'
  <2>1. run.pc = "deliver" /\ run.next[c] <= Len(run.batch) BY <1>7 DEF Deliver, Heading
  <2>2. /\ DOMAIN run = {"pc", "batch", "next", "failed", "got"}
        /\ run.next \in [Channel -> Nat \ {0}] /\ run.batch \in Seq(Message)
    BY <2>1, RunTypes, BatchOK
  <2> PICK p : p = run.batch[run.next[c]] OBVIOUS
  <2>3. IF Gets(c, p)
        THEN run' = [run EXCEPT !.next[c] = @ + 1, !.got = @ \cup {<<c, p>>}]
        ELSE run' = [run EXCEPT !.next[c] = @ + 1]
    BY <1>7 DEF Deliver, Gets
  <2>4. /\ run'.pc = "deliver" /\ run'.batch = run.batch /\ run'.failed = run.failed
        /\ run'.next = [run.next EXCEPT ![c] = @ + 1]
        /\ run.got \subseteq run'.got /\ (Gets(c, p) => <<c, p>> \in run'.got)
    <3>1. CASE Gets(c, p)
      <4> PICK G : G = run.got \cup {<<c, p>>} OBVIOUS
      <4>1. run' = [run EXCEPT !.next[c] = @ + 1, !.got = G] BY <2>3, <3>1
      <4>2. /\ run'.pc = run.pc /\ run'.batch = run.batch /\ run'.failed = run.failed
            /\ run'.next = [run.next EXCEPT ![c] = @ + 1] /\ run'.got = G
        BY <2>2, <4>1
      <4> QED BY <2>1, <4>2
    <3>2. CASE ~Gets(c, p) BY <2>1, <2>2, <2>3, <3>2
    <3> QED BY <3>1, <3>2
  <2>5. ASSUME NEW d \in Channel, NEW i \in DOMAIN run.batch, ~run.failed,
               i < run'.next[d], Gets(d, run.batch[i])
        PROVE  <<d, run.batch[i]>> \in run'.got
    <3>1. CASE i < run.next[d] BY <2>1, <2>4, <2>5, <3>1 DEF GotInv
    <3>2. CASE ~(i < run.next[d])
      <4>1. d = c /\ run'.next[d] = run.next[c] + 1 BY <2>2, <2>4, <2>5, <3>2
      <4>2. i = run.next[c]
        <5> PICK n : n = run.next[c] OBVIOUS
        <5>1. n \in Nat /\ i \in Nat /\ i < n + 1 /\ ~(i < n) BY <2>2, <2>5, <3>2, <4>1
        <5> QED BY <5>1
      <4> QED BY <2>4, <2>5, <4>1, <4>2
    <3> QED BY <3>1, <3>2
  <2> QED BY <2>4, <2>5 DEF GotInv, Gets, Subscribes
<1> QED BY <1>1, <1>2, <1>3, <1>4, <1>5, <1>6, <1>7, QuietRun DEF vars

LEMMA ClearsWhatWasGot ==
  ASSUME TypeInv, GotInv, [Next]_vars, NEW p \in marker \ marker'
  PROVE  \A c \in Channel : Gets(c, p) => <<c, p>> \in run.got
<1>1. CASE Clear
  <2>1. run.pc = "clear" /\ run.at <= Len(run.batch) /\ p = run.batch[run.at] BY <1>1 DEF Clear
  <2>2. run # Idle /\ run.at \in Nat \ {0} BY <2>1, RunTypes
  <2>3. run.at \in DOMAIN run.batch BY <2>1, <2>2, PositionOK
  <2> QED BY <2>1, <2>3 DEF GotInv
<1>2. CASE Dispatch \/ Settle \/ \E c \in Channel : Deliver(c) \/ DeliverFails(c)
  BY <1>2 DEF Dispatch, Settle, Deliver, DeliverFails
<1> QED BY <1>1, <1>2, QuietRun DEF vars

(* A marker is cleared (PendingStore.Clear) only after every channel that    *)
(* subscribes to its event has been given it.                                *)
THEOREM ToldBeforeCleared == Spec => MarkersKept
<1>1. Init => TypeInv /\ GotInv BY TypeInitially, GotInitially
<1>2. TypeInv /\ GotInv /\ [Next]_vars => (TypeInv /\ GotInv)' BY TypeStep, GotStep
<1>3. TypeInv /\ GotInv /\ [Next]_vars =>
        [\A p \in marker \ marker' :
           \A c \in Channel : p.event \in Subscribes(c) => <<c, p>> \in run.got]_vars
  BY ClearsWhatWasGot DEF Gets
<1> QED BY <1>1, <1>2, <1>3, PTL DEF Spec, MarkersKept

-----------------------------------------------------------------------------
(* Accepted drift is silent. *)

OfChecks(ps) == \A i \in DOMAIN ps : Stream(ps[i].event) = "check"

LEMMA SilentInitially == Init => SilentInv
BY DEF Init, SilentInv

LEMMA SilentStays ==
  ASSUME TypeInv, SilentInv, UNCHANGED <<cfg, inc, marker>>,
         cfg.until = Forever => run' = Idle \/ OfChecks(run'.batch)
  PROVE  SilentInv'
BY DEF SilentInv, OfChecks, Stream

LEMMA SilentCheckStep ==
  ASSUME TypeInv, SilentInv, NEW s \in Stack, NEW w, NEW ps \in Seq(Message), CheckStep(s, w, ps),
         UNCHANGED <<cfg, inc, marker>>, cfg.until = Forever => OfChecks(ps)
  PROVE  SilentInv'
<1>1. run # Idle /\ run.batch \in Seq(Message) BY BatchOK DEF CheckStep, Idle
<1> PICK b, q : b = run'.batch /\ q = run.batch OBVIOUS
<1>2. b = q \o ps BY DEF CheckStep
<1>3. Joined(b, q, ps) BY <1>1, <1>2, Appended
<1>4. cfg.until = Forever => OfChecks(q) BY <1>1 DEF SilentInv, OfChecks
<1>5. cfg.until = Forever => OfChecks(b) BY <1>3, <1>4 DEF OfChecks, Joined
<1> QED BY <1>5, SilentStays

LEMMA SilentStep ==
  ASSUME TypeInv, SilentInv, [Next]_vars
  PROVE  SilentInv'
<1>0. cfg \in Configs /\ now \in Nat BY DEF TypeInv
<1>1. CASE UNCHANGED <<cfg, inc, marker, run>> BY <1>1, SilentStays DEF SilentInv, OfChecks
<1>2. CASE EndBootstrap \/ PublishFails \/ End \/ Die
  <2>1. run' = Idle /\ UNCHANGED <<cfg, inc, marker>> BY <1>2 DEF EndBootstrap, PublishFails, End, Die
  <2> QED BY <2>1, SilentStays
<1>3. ASSUME NEW boot, Start(boot) PROVE SilentInv'
  <2>1. run'.batch = << >> /\ UNCHANGED <<cfg, inc, marker>> BY <1>3 DEF Start
  <2>2. OfChecks(<< >>) BY DEF OfChecks
  <2> QED BY <2>1, <2>2, SilentStays
<1>4. CASE Publish
  <2>1. PICK readable \in SUBSET marker :
          run' = [pc |-> "mark", batch |-> MergePending(Leftover(readable), run.batch), at |-> 1]
    BY <1>4 DEF Publish
  <2>2. run # Idle /\ UNCHANGED <<cfg, inc, marker>> BY <1>4 DEF Publish, AllDone, Idle
  <2> PICK b, m : b = run.batch /\ m = MergePending(Leftover(readable), b) OBVIOUS
  <2>3. b \in Seq(Message) BY <2>2, BatchOK
  <2>4. readable \in SUBSET Message BY DEF TypeInv
  <2>5. PICK n \in Nat : Merged(m, n, readable, b) BY <2>3, <2>4, PublishedFacts
  <2>6. ASSUME cfg.until = Forever PROVE OfChecks(m)
    <3>1. \A p \in readable : Stream(p.event) = "check" BY <2>6 DEF SilentInv
    <3>2. OfChecks(b) BY <2>2, <2>6 DEF SilentInv, OfChecks
    <3> QED BY <2>5, <3>1, <3>2 DEF OfChecks, Merged
  <2>7. run'.batch = m BY <2>1
  <2> QED BY <2>2, <2>6, <2>7, SilentStays
<1>5. CASE Mark \/ Clear
  <2>1. run.pc \in {"mark", "clear"} /\ run.at <= Len(run.batch) BY <1>5 DEF Mark, Clear
  <2>2. run # Idle /\ run.at \in Nat \ {0} BY <2>1, RunTypes
  <2> PICK p : p = run.batch[run.at] OBVIOUS
  <2>3. run.at \in DOMAIN run.batch BY <2>1, <2>2, PositionOK
  <2>4. marker' \subseteq marker \cup {p} /\ UNCHANGED <<cfg, inc>> BY <1>5 DEF Mark, Clear
  <2>5. run'.batch = run.batch
    <3>1. run' = [run EXCEPT !.at = @ + 1] BY <1>5 DEF Mark, Clear
    <3> QED BY <2>1, <3>1, RunTypes
  <2>6. cfg.until = Forever => Stream(p.event) = "check" BY <2>2, <2>3 DEF SilentInv
  <2> QED BY <2>2, <2>4, <2>5, <2>6 DEF SilentInv, Stream
<1>6. CASE Dispatch \/ Settle
  <2>1. run.pc \in {"mark", "deliver"} BY <1>6 DEF Dispatch, Settle, Delivered
  <2>2. run # Idle BY <2>1 DEF Idle
  <2>3. run' = Idle \/ run'.batch = run.batch BY <1>6 DEF Dispatch, Settle
  <2>4. UNCHANGED <<cfg, inc, marker>> BY <1>6 DEF Dispatch, Settle
  <2> QED BY <2>2, <2>3, <2>4, SilentStays DEF SilentInv, OfChecks
<1>7. ASSUME NEW c \in Channel, Deliver(c) \/ DeliverFails(c) PROVE SilentInv'
  <2>1. run.pc = "deliver" /\ run.next[c] <= Len(run.batch) /\ UNCHANGED <<cfg, marker>>
    BY <1>7 DEF Deliver, DeliverFails, Heading
  <2>2. DOMAIN run = {"pc", "batch", "next", "failed", "got"} /\ run # Idle
        /\ run.next \in [Channel -> Nat \ {0}]
    BY <2>1, RunTypes
  <2> PICK k : k = run.next[c] OBVIOUS
  <2> PICK p : p = run.batch[k] OBVIOUS
  <2>3. k \in DOMAIN run.batch /\ p \in Message BY <2>1, <2>2, PositionOK
  <2>4. inc' = inc \/ inc' = Handle(c, p) BY <1>7 DEF Deliver, DeliverFails
  <2>5. run'.batch = run.batch
    <3>1. \/ run' = [run EXCEPT !.next[c] = @ + 1, !.got = @ \cup {<<c, p>>}]
          \/ run' = [run EXCEPT !.next[c] = @ + 1]
          \/ \E n : run' = [run EXCEPT !.next[c] = n, !.failed = TRUE]
      BY <1>7 DEF Deliver, DeliverFails
    <3> QED BY <2>2, <3>1
  <2>6. ASSUME cfg.until = Forever, NEW d \in Channel, NEW s \in Stack PROVE ~inc'[d][s].drift
    <3>1. Stream(p.event) = "check" /\ ~inc[d][s].drift BY <2>2, <2>3, <2>6 DEF SilentInv
    <3>2. Handle(c, p)[d][s]["drift"] = inc[d][s]["drift"] BY <2>3, <3>1, HandleType
    <3> QED BY <2>4, <3>1, <3>2
  <2> QED BY <2>1, <2>2, <2>5, <2>6 DEF SilentInv, Stream
<1>8. ASSUME NEW s \in Stack,
             LoadFails(s) \/ Skip(s) \/ RequireManual(s) \/ Load(s) \/ Retry(s) \/ Check(s)
      PROVE  SilentInv'
  <2>1. CASE LoadFails(s) \/ RequireManual(s)
    <3>1. At(s, "todo") /\ Refuse(s) BY <2>1 DEF LoadFails, RequireManual
    <3>2. PICK ps \in Seq(Message) :
            (\A i \in DOMAIN ps : ps[i].event = "check_failed") /\ CheckStep(s, Done, ps)
      BY <3>1, RefuseStep
    <3>3. OfChecks(ps) BY <3>2 DEF OfChecks, Stream
    <3>4. UNCHANGED <<cfg, inc, marker>> BY <3>1 DEF Refuse
    <3> QED BY <3>2, <3>3, <3>4, SilentCheckStep
  <2>2. CASE Skip(s) \/ Load(s) \/ Retry(s)
    <3>1. PICK w : CheckStep(s, w, << >>) BY <2>2, HushedStep
    <3>2. UNCHANGED <<cfg, inc, marker>> BY <2>2, HushedStep
    <3> PICK ps : ps = << >> OBVIOUS
    <3>3. ps \in Seq(Message) /\ OfChecks(ps) /\ CheckStep(s, w, ps) BY <3>1 DEF OfChecks
    <3> QED BY <3>2, <3>3, SilentCheckStep
  <2>3. CASE Check(s)
    <3>1. PICK e, x, out, recovered :
            /\ e \in Endings(run.work[s])
            /\ Ends(s, e, x, out, recovered)
            /\ Sent(e, out) \in Event \cup {"none"}
            /\ CheckStep(s, Done, Payloads(s, recovered, Sent(e, out)))
      BY <2>3, CheckEnds
    <3> e \in Endings(run.work[s]) BY <3>1
    <3> PICK ps, ev : ps = Payloads(s, recovered, ev) /\ ev = Sent(e, out) OBVIOUS
    <3>2. /\ ps \in Seq(Message)
          /\ \A i \in DOMAIN ps : ps[i].event = "check_recovered" \/ (ev # "none" /\ ps[i].event = ev)
      BY <3>1, PayloadsFacts
    <3>3. cfg.until = Forever => ev \in {"none", "check_failed"}
      BY <3>1 DEF Ends, Sent, Accepted, Failing
    <3>4. cfg.until = Forever => OfChecks(ps) BY <3>2, <3>3 DEF OfChecks, Stream
    <3>5. UNCHANGED <<cfg, inc, marker>> /\ CheckStep(s, Done, ps) BY <3>1 DEF Ends
    <3> QED BY <3>2, <3>4, <3>5, SilentCheckStep
  <2> QED BY <1>8, <2>1, <2>2, <2>3
<1>9. CASE SuppressAdd \/ SuppressClear BY <1>9, <1>1 DEF SuppressAdd, SuppressClear
<1>10. CASE UNCHANGED vars BY <1>10, <1>1 DEF vars
<1> QED BY <1>2, <1>3, <1>4, <1>5, <1>6, <1>7, <1>8, <1>9, <1>10 DEF Next, Step

(* Drift that is accepted for good (permanent.go) reaches no channel, at     *)
(* once or by a marker.                                                      *)
THEOREM AcceptedStaysSilent == Spec => []AcceptedIsSilent
<1>1. Init => TypeInv /\ SilentInv BY TypeInitially, SilentInitially
<1>2. TypeInv /\ SilentInv /\ [Next]_vars => (TypeInv /\ SilentInv)' BY TypeStep, SilentStep
<1>3. SilentInv => AcceptedIsSilent BY DEF SilentInv, AcceptedIsSilent
<1> QED BY <1>1, <1>2, <1>3, PTL DEF Spec

-----------------------------------------------------------------------------
(* The record of the last verdict is true, where engines do not call a check *)
(* complete that was not.                                                    *)

EnginesAdmitFailure == \A a \in Answers : Usable(a) => a.complete

Addresses(chs) == {ch.address : ch \in chs}

(* What counts as drift after the noise filter (classify_filter.go) are the  *)
(* addresses of the changes that are no noise, whichever of the filter's     *)
(* short cuts is taken.                                                      *)
THEOREM NoiseIsFiltered ==
  ASSUME NEW c, NEW chs,
         \A ch \in chs : DOMAIN ch = {"address", "type", "op", "category", "paths"}
  PROVE  DriftedSet(c, Diff(chs)) = Addresses({x \in chs : ~IsNoise(c, x)})
<1> PICK d : d = Diff(chs) OBVIOUS
<1>1. d.changes = chs /\ d.urns = Addresses(chs) BY DEF Diff, Addresses
<1>2. ASSUME NEW ch \in chs PROVE Counted(c, ch) <=> ~IsNoise(c, ch)
  BY DEF Counted, IsNoise, RetainedPaths, IgnoredPropsFor
<1>3. Addresses(Filter(c, chs)) = Addresses({x \in chs : Counted(c, x)})
  <2> DEFINE Kept(ch) == IF ch.op = "update" THEN [ch EXCEPT !.paths = RetainedPaths(c, ch)] ELSE ch
  <2>1. \A ch \in chs : Kept(ch).address = ch.address OBVIOUS
  <2>2. Filter(c, chs) = {Kept(ch) : ch \in {x \in chs : Counted(c, x)}} BY DEF Filter
  <2> HIDE DEF Kept
  <2> PICK left : left = {x \in chs : Counted(c, x)} OBVIOUS
  <2>3. \A k : k \in Filter(c, chs) <=> \E ch \in left : k = Kept(ch) BY <2>2
  <2>4. \A ch \in left : Kept(ch).address = ch.address BY <2>1
  <2>5. \A y : y \in Addresses(Filter(c, chs)) <=> \E ch \in left : y = ch.address
    BY <2>3, <2>4 DEF Addresses
  <2>6. \A y : y \in Addresses(left) <=> \E ch \in left : y = ch.address BY DEF Addresses
  <2> QED BY <2>5, <2>6
<1>4. Empty(c) => \A ch \in chs : Counted(c, ch)
  BY DEF Empty, NoClassification, Classification, Counted, RetainedPaths, IgnoredPropsFor
<1>5. DriftedSet(c, d) = Addresses({x \in chs : Counted(c, x)})
  <2>1. CASE Empty(c)
    <3>1. {x \in chs : Counted(c, x)} = chs BY <1>4, <2>1
    <3> QED BY <1>1, <2>1, <3>1 DEF DriftedSet
  <2>2. CASE ~Empty(c) /\ chs = {}
    <3>1. {x \in chs : Counted(c, x)} = chs BY <2>2
    <3> QED BY <1>1, <2>2, <3>1 DEF DriftedSet
  <2>3. CASE ~Empty(c) /\ chs # {} /\ Filter(c, chs) = chs BY <1>1, <1>3, <2>3 DEF DriftedSet
  <2>4. CASE ~Empty(c) /\ chs # {} /\ Filter(c, chs) # chs BY <1>1, <1>3, <2>4 DEF DriftedSet, Addresses
  <2> QED BY <2>1, <2>2, <2>3, <2>4
<1>6. {x \in chs : Counted(c, x)} = {x \in chs : ~IsNoise(c, x)} BY <1>2
<1> QED BY <1>5, <1>6

LEMMA EndingsTell ==
  ASSUME EnginesAdmitFailure, cfg \in Configs, NEW w, NEW e \in Endings(w)
  PROVE  e.verdict = e.real
<1>1. CASE e \in Answered[cfg]
  <2>1. PICK a \in Answers :
          e = [verdict |-> IF DriftCheck(a).failed THEN Failed
                           ELSE DriftedSet(cfg.classify, DriftCheck(a).diff),
               real    |-> IF a.complete
                           THEN {ch.address : ch \in {x \in Changes(a) : ~IsNoise(cfg.classify, x)}}
                           ELSE Failed]
    BY <1>1 DEF Answered
  <2>2. /\ e.verdict = IF Usable(a) THEN DriftedSet(cfg.classify, Diff(Changes(a))) ELSE Failed
        /\ e.real = IF a.complete THEN Addresses({x \in Changes(a) : ~IsNoise(cfg.classify, x)})
                    ELSE Failed
    BY <2>1 DEF DriftCheck, Addresses
  <2>3. Usable(a) <=> a.complete
    BY DriftAssumption DEF EnginesAdmitFailure
  <2>4. \A ch \in Changes(a) : DOMAIN ch = {"address", "type", "op", "category", "paths"}
    BY DEF Changes, PulumiChanges, TerraformChanges, Change
  <2> PICK chs, k : chs = Changes(a) /\ k = cfg.classify OBVIOUS
  <2>5. DriftedSet(k, Diff(chs)) = Addresses({x \in chs : ~IsNoise(k, x)})
    BY <2>4, NoiseIsFiltered
  <2> QED BY <2>2, <2>3, <2>5
<1>2. CASE e \notin Answered[cfg]
  BY <1>2 DEF Endings
<1> QED BY <1>1, <1>2

LEMMA VerdictInitially == Init => VerdictInv
<1> SUFFICES ASSUME Init, NEW s \in Stack PROVE Recorded(s) BY DEF VerdictInv
<1>1. st[s] = NoState /\ seen[s].verdict = Clean BY DEF Init
<1> QED BY <1>1 DEF Recorded, NoState, Drifted

LEMMA ExcusedGrows ==
  ASSUME TypeInv, [Next]_vars
  PROVE  excused \subseteq excused'
<1>1. ASSUME NEW s \in Stack,
             LoadFails(s) \/ Skip(s) \/ RequireManual(s) \/ Load(s) \/ Retry(s) \/ Check(s)
      PROVE  excused \subseteq excused'
  BY <1>1 DEF LoadFails, RequireManual, Refuse, Skip, Load, Retry, Check
<1>2. ASSUME NEW c \in Channel, Deliver(c) \/ DeliverFails(c) PROVE excused \subseteq excused'
  BY <1>2 DEF Deliver, DeliverFails
<1>3. CASE SuppressAdd \/ SuppressClear \/ Start(FALSE) \/ Start(TRUE) \/ Die \/ EndBootstrap
           \/ PublishFails \/ Publish
  BY <1>3 DEF SuppressAdd, SuppressClear, Start, Die, EndBootstrap, PublishFails, Publish
<1>4. CASE Mark \/ Dispatch \/ Settle \/ Clear \/ End
  BY <1>4 DEF Mark, Dispatch, Settle, Clear, End
<1> QED BY <1>1, <1>2, <1>3, <1>4 DEF Next, Step, vars

(* Only checks change the record. *)
LEMMA RecordKept ==
  ASSUME TypeInv, [Next]_vars, NEW s \in Stack, ~Check(s)
  PROVE  st'[s] = st[s] /\ seen'[s].verdict = seen[s].verdict
<1>0. DOMAIN st = Stack /\ DOMAIN seen = Stack /\ \A t \in Stack : DOMAIN seen[t] = {"verdict", "ok"}
  BY DEF TypeInv
<1>1. ASSUME NEW t \in Stack, LoadFails(t) \/ RequireManual(t)
      PROVE  st'[s] = st[s] /\ seen'[s].verdict = seen[s].verdict
  <2>1. st' = st /\ seen' = [seen EXCEPT ![t].ok = FALSE]
    BY <1>1 DEF LoadFails, RequireManual, Refuse
  <2> QED BY <1>0, <2>1
<1>2. ASSUME NEW t \in Stack, Check(t) PROVE st'[s] = st[s] /\ seen'[s].verdict = seen[s].verdict
  <2>1. PICK e, x, out, recovered : Ends(t, e, x, out, recovered) BY <1>2, CheckEnds
  <2>2. t # s BY <1>2
  <2> QED BY <1>0, <2>1, <2>2 DEF Ends
<1>3. ASSUME NEW t \in Stack, Skip(t) \/ Load(t) \/ Retry(t)
      PROVE  st'[s] = st[s] /\ seen'[s].verdict = seen[s].verdict
  BY <1>3 DEF Skip, Load, Retry
<1>4. ASSUME NEW c \in Channel, Deliver(c) \/ DeliverFails(c)
      PROVE  st'[s] = st[s] /\ seen'[s].verdict = seen[s].verdict
  BY <1>4 DEF Deliver, DeliverFails
<1>5. CASE SuppressAdd \/ SuppressClear \/ Start(FALSE) \/ Start(TRUE) \/ Die \/ EndBootstrap
           \/ PublishFails \/ Publish
  BY <1>5 DEF SuppressAdd, SuppressClear, Start, Die, EndBootstrap, PublishFails, Publish
<1>6. CASE Mark \/ Dispatch \/ Settle \/ Clear \/ End
  BY <1>6 DEF Mark, Dispatch, Settle, Clear, End
<1> QED BY <1>1, <1>2, <1>3, <1>4, <1>5, <1>6 DEF Next, Step, vars

LEMMA VerdictStep ==
  ASSUME EnginesAdmitFailure, TypeInv, VerdictInv, [Next]_vars
  PROVE  VerdictInv'
<1> SUFFICES ASSUME NEW s \in Stack, <<s, "drift">> \notin excused' PROVE Recorded(s)'
  BY DEF VerdictInv
<1>1. Recorded(s) BY ExcusedGrows DEF VerdictInv
<1>2. CASE ~Check(s)
  <2>1. st'[s] = st[s] /\ seen'[s].verdict = seen[s].verdict BY <1>2, RecordKept
  <2> QED BY <1>1, <2>1 DEF Recorded, Drifted
<1>3. CASE Check(s)
  <2>1. PICK e, x, out, recovered : e \in Endings(run.work[s]) /\ Ends(s, e, x, out, recovered)
    BY <1>3, CheckEnds
  <2> e \in Endings(run.work[s]) BY <2>1
  <2>2. cfg \in Configs /\ DOMAIN st = Stack /\ DOMAIN seen = Stack BY DEF TypeInv
  <2>3. e.verdict = e.real BY <2>2, EndingsTell
  <2>4. st'[s] = x BY <2>1, <2>2 DEF Ends
  <2>5. seen'[s].verdict = IF e.verdict = Failed THEN seen[s].verdict ELSE e.verdict
    BY <2>1, <2>2, <2>3 DEF Ends
  <2>6. CASE e.verdict = Failed
    BY <1>1, <2>1, <2>4, <2>5, <2>6 DEF Ends, Failing, Shapes, Recorded, Drifted
  <2>7. CASE e.verdict # Failed /\ e.verdict = Clean
    BY <2>1, <2>4, <2>5, <2>7 DEF Ends, Resolving, Recorded, Drifted
  <2>8. CASE e.verdict # Failed /\ e.verdict # Clean
    BY <2>1, <2>4, <2>5, <2>8 DEF Ends, Detecting, Shapes, Recorded, Drifted
  <2> QED BY <2>6, <2>7, <2>8
<1> QED BY <1>2, <1>3

(* A step that adds a detection to the batch is a check that had a verdict   *)
(* of another shape than the one on record.                                  *)
LEMMA AlertedCheck ==
  ASSUME EnginesAdmitFailure, TypeInv, VerdictInv, [Next]_vars, NEW s \in Stack,
         run.pc = "check", run'.pc = "check", cfg.renotify = 0,
         Len(run'.batch) > Len(run.batch),
         run'.batch[Len(run'.batch)] = Payload(s, "drift_detected"),
         <<s, "drift">> \notin excused
  PROVE  seen[s].verdict # seen'[s].verdict
<1> PICK q, b : q = run.batch /\ b = run'.batch OBVIOUS
<1>1. run # Idle /\ q \in Seq(Message) BY BatchOK DEF Idle
<1>2. b # q BY <1>1
<1>3. ASSUME NEW ps \in Seq(Message), b = q \o ps
      PROVE  \E j \in DOMAIN ps : ps[j] = Payload(s, "drift_detected")
  <2>1. b \in Seq(Message) /\ Joined(b, q, ps) BY <1>1, <1>3, Appended
  <2>2. Len(b) \in Nat /\ Len(q) \in Nat /\ DOMAIN b = 1..Len(b) /\ DOMAIN q = 1..Len(q) BY <1>1, <2>1
  <2>3. Len(b) \in DOMAIN b /\ Len(b) \notin DOMAIN q BY <2>2
  <2> QED BY <2>1, <2>3 DEF Joined
<1>4. Payload(s, "drift_detected").stack = s /\ Payload(s, "drift_detected").event = "drift_detected"
  BY DEF Payload
<1>5. ASSUME NEW t \in Stack, LoadFails(t) \/ RequireManual(t) PROVE FALSE
  <2>1. At(t, "todo") /\ Refuse(t) BY <1>5 DEF LoadFails, RequireManual
  <2>2. PICK ps \in Seq(Message) :
          (\A i \in DOMAIN ps : ps[i].event = "check_failed") /\ CheckStep(t, Done, ps)
    BY <2>1, RefuseStep
  <2>3. b = q \o ps BY <2>2 DEF CheckStep
  <2> QED BY <1>3, <1>4, <2>2, <2>3
<1>6. ASSUME NEW t \in Stack, Skip(t) \/ Load(t) \/ Retry(t) PROVE FALSE
  <2>1. PICK w : CheckStep(t, w, << >>) BY <1>6, HushedStep
  <2>2. b = q \o << >> BY <2>1 DEF CheckStep
  <2> QED BY <1>1, <1>2, <2>2
<1>7. ASSUME NEW t \in Stack, Check(t) PROVE seen[s].verdict # seen'[s].verdict
  <2>1. PICK e, x, out, recovered :
          /\ e \in Endings(run.work[t])
          /\ Ends(t, e, x, out, recovered)
          /\ Sent(e, out) \in Event \cup {"none"}
          /\ CheckStep(t, Done, Payloads(t, recovered, Sent(e, out)))
    BY <1>7, CheckEnds
  <2> e \in Endings(run.work[t]) BY <2>1
  <2> PICK ps, ev : ps = Payloads(t, recovered, ev) /\ ev = Sent(e, out) OBVIOUS
  <2>2. /\ ps \in Seq(Message)
        /\ \A i \in DOMAIN ps : ps[i].stack = t /\ (ps[i].event = "check_recovered" \/ ps[i].event = ev)
    BY <2>1, PayloadsFacts
  <2>3. b = q \o ps BY <2>1 DEF CheckStep
  <2>4. t = s /\ ev = "drift_detected" BY <1>3, <1>4, <2>2, <2>3
  <2>5. out = "drift_detected" BY <2>4 DEF Sent
  <2>6. e.verdict # Failed /\ e.verdict # Clean
    BY <2>1, <2>5 DEF Ends, Failing, Resolving
  <2>7. ~(Drifted(st[s]) /\ st[s].fp = e.verdict) BY <2>1, <2>4, <2>5 DEF Ends, Shapes
  <2>8. Recorded(s) BY DEF VerdictInv
  <2>9. seen[s].verdict # e.verdict BY <2>6, <2>7, <2>8 DEF Recorded
  <2>10. cfg \in Configs /\ DOMAIN seen = Stack BY DEF TypeInv
  <2>11. e.verdict = e.real BY <2>10, EndingsTell
  <2>12. seen'[s].verdict = e.verdict BY <2>1, <2>4, <2>6, <2>10, <2>11 DEF Ends
  <2> QED BY <2>9, <2>12
<1>8. CASE EndBootstrap \/ PublishFails \/ End \/ Die
  <2>1. run' = Idle BY <1>8 DEF EndBootstrap, PublishFails, End, Die
  <2> QED BY <2>1 DEF Idle
<1>9. CASE Publish BY <1>9 DEF Publish
<1>10. CASE Start(FALSE) \/ Start(TRUE) BY <1>1, <1>10 DEF Start
<1>11. CASE Mark \/ Dispatch \/ Settle \/ Clear \/ \E c \in Channel : Deliver(c) \/ DeliverFails(c)
  BY <1>11 DEF Mark, Dispatch, Settle, Delivered, Clear, Deliver, DeliverFails, Heading
<1>12. CASE UNCHANGED vars \/ SuppressAdd \/ SuppressClear
  BY <1>2, <1>12 DEF vars, SuppressAdd, SuppressClear
<1> QED BY <1>5, <1>6, <1>7, <1>8, <1>9, <1>10, <1>11, <1>12 DEF Next, Step

(* Without damping, drift is alerted only when the last diff that was more   *)
(* than noise had another shape, however many failed checks lie between.     *)
THEOREM AlertsAreNews == EnginesAdmitFailure => (Spec => AlertIsNews)
<1> SUFFICES ASSUME EnginesAdmitFailure PROVE Spec => AlertIsNews OBVIOUS
<1>1. Init => TypeInv /\ VerdictInv BY TypeInitially, VerdictInitially
<1>2. TypeInv /\ VerdictInv /\ [Next]_vars => (TypeInv /\ VerdictInv)' BY TypeStep, VerdictStep
<1>3. TypeInv /\ VerdictInv /\ [Next]_vars =>
        [\A s \in Stack :
           /\ run.pc = "check" /\ run'.pc = "check" /\ cfg.renotify = 0
           /\ Len(run'.batch) > Len(run.batch)
           /\ run'.batch[Len(run'.batch)] = Payload(s, "drift_detected")
           /\ <<s, "drift">> \notin excused
           => seen[s].verdict # seen'[s].verdict]_vars
  BY AlertedCheck
<1> QED BY <1>1, <1>2, <1>3, PTL DEF Spec, AlertIsNews

-----------------------------------------------------------------------------
(* Incidents come to what the stored state says. *)

LEMMA RestKept ==
  ASSUME NEW c, NEW s, NEW x, NEW b, Rest(c, s, x, b), UNCHANGED <<marker, inc>>
  PROVE  Rest(c, s, x, b)'
BY DEF Rest, Owed, Concerns, Gets, Opens, Closing, Stream, Subscribes

LEMMA AgreesKept ==
  ASSUME NEW s, NEW x, NEW b, Agrees(s, x, b), st'[s] = st[s], UNCHANGED <<cfg, now>>
  PROVE  Agrees(s, x, b)'
BY DEF Agrees, Alerted, Accepted, Drifted

LEMMA Idles ==
  ASSUME NEW c, NEW s, NEW x, NEW b, run' = Idle, Rest(c, s, x, b)'
  PROVE  ComesTo(c, s, x, b)'
BY DEF ComesTo, Idle

LEMMA StartComes ==
  ASSUME TypeInv, NEW boot, Start(boot), NEW c, NEW s \in Stack, NEW x, NEW b,
         Agrees(s, x, b), ComesTo(c, s, x, b)
  PROVE  Agrees(s, x, b)' /\ ComesTo(c, s, x, b)'
<1>1. run = Idle /\ UNCHANGED <<cfg, st, marker, inc>> /\ run'.pc = "check" /\ run'.batch = << >>
  BY DEF Start
<1>2. Rest(c, s, x, b)' BY <1>1, RestKept DEF ComesTo, Idle
<1>3. \A i \in DOMAIN << >> : FALSE OBVIOUS
<1>4. Checking(c, s, x, b)' BY <1>1, <1>2, <1>3 DEF Checking
<1>5. ComesTo(c, s, x, b)' BY <1>1, <1>4 DEF ComesTo
<1>6. now \in Nat /\ now' \in Nat /\ now <= now' /\ MaxTime \in Nat
  BY DriftAssumption DEF TypeInv, Start
<1>7. Accepted(now)' => Accepted(now)
  <2>1. cfg.until \in Nat \cup {Forever} BY DriftAssumption DEF TypeInv
  <2>2. cfg.until \in Int BY <2>1 DEF Forever
  <2> QED BY <1>1, <1>6, <2>2 DEF Accepted
<1>8. Alerted(s)' => Alerted(s) BY <1>1, <1>6 DEF Alerted, Drifted
<1>9. Agrees(s, x, b)' BY <1>1, <1>7, <1>8 DEF Agrees, Drifted
<1> QED BY <1>5, <1>9

(* Payloads that do not concern an incident do not change what it comes to. *)
LEMMA OtherCheckComes ==
  ASSUME TypeInv, NEW c, NEW s \in Stack, NEW x, NEW b, ComesTo(c, s, x, b),
         NEW t \in Stack, NEW w, NEW ps \in Seq(Message), CheckStep(t, w, ps),
         \A i \in DOMAIN ps : ~Concerns(c, s, x, ps[i]), UNCHANGED <<marker, inc>>
  PROVE  ComesTo(c, s, x, b)'
<1>1. run.pc = "check" /\ run'.pc = "check" /\ run # Idle BY DEF CheckStep, Idle
<1> PICK q, n : q = run.batch /\ n = run'.batch OBVIOUS
<1>2. q \in Seq(Message) /\ n = q \o ps BY <1>1, BatchOK DEF CheckStep
<1>3. Joined(n, q, ps) BY <1>2, Appended
<1>4. Checking(c, s, x, b) BY <1>1 DEF ComesTo
<1>5. \A i \in DOMAIN n : Concerns(c, s, x, n[i]) => Opens(n[i]) = b
  BY <1>3, <1>4 DEF Checking, Joined
<1>6. (\E i \in DOMAIN n : Concerns(c, s, x, n[i])) \/ Rest(c, s, x, b)'
  <2>1. CASE \E i \in DOMAIN q : Concerns(c, s, x, q[i])
    <3>1. PICK i \in DOMAIN q : Concerns(c, s, x, q[i]) BY <2>1
    <3>2. i \in DOMAIN n /\ n[i] = q[i] BY <1>3 DEF Joined
    <3> QED BY <3>1, <3>2
  <2>2. CASE Rest(c, s, x, b) BY <2>2, RestKept
  <2> QED BY <1>4, <2>1, <2>2 DEF Checking
<1>7. Checking(c, s, x, b)'
  BY <1>5, <1>6 DEF Checking, Concerns, Gets, Stream, Subscribes, Opens, Closing
<1> QED BY <1>1, <1>7 DEF ComesTo

(* The payloads of a check of the stack decide, or what was owed before. *)
LEMMA OwnCheckComes ==
  ASSUME TypeInv, NEW c, NEW s \in Stack, NEW x, NEW b,
         NEW w, NEW ps \in Seq(Message), CheckStep(s, w, ps),
         \A i \in DOMAIN ps : Concerns(c, s, x, ps[i]) => Opens(ps[i]) = b,
         (\E i \in DOMAIN ps : Concerns(c, s, x, ps[i])) \/ Rest(c, s, x, b),
         UNCHANGED <<marker, inc>>
  PROVE  ComesTo(c, s, x, b)'
<1>1. run.pc = "check" /\ run'.pc = "check" /\ run # Idle /\ run.work[s] # Done BY DEF CheckStep, Idle
<1> PICK q, n : q = run.batch /\ n = run'.batch OBVIOUS
<1>2. q \in Seq(Message) /\ n = q \o ps BY <1>1, BatchOK DEF CheckStep
<1>3. Joined(n, q, ps) BY <1>2, Appended
<1>4. \A i \in DOMAIN q : ~Concerns(c, s, x, q[i])
  <2>1. CheckOK(run) BY <1>1, RunTypes
  <2>2. \A i \in DOMAIN q : q[i].stack # s BY <1>1, <2>1 DEF CheckOK
  <2> QED BY <2>2 DEF Concerns
<1>5. \A i \in DOMAIN n : Concerns(c, s, x, n[i]) => Opens(n[i]) = b BY <1>3, <1>4 DEF Joined
<1>6. (\E i \in DOMAIN n : Concerns(c, s, x, n[i])) \/ Rest(c, s, x, b)'
  <2>1. CASE \E i \in DOMAIN ps : Concerns(c, s, x, ps[i])
    <3>1. PICK j \in DOMAIN ps : Concerns(c, s, x, ps[j]) BY <2>1
    <3>2. PICK i \in DOMAIN n : n[i] = ps[j] BY <1>3 DEF Joined
    <3> QED BY <3>1, <3>2
  <2>2. CASE Rest(c, s, x, b) BY <2>2, RestKept
  <2> QED BY <2>1, <2>2
<1>7. Checking(c, s, x, b)'
  BY <1>5, <1>6 DEF Checking, Concerns, Gets, Stream, Subscribes, Opens, Closing
<1> QED BY <1>1, <1>7 DEF ComesTo

LEMMA WatchersGet ==
  ASSUME NEW c, NEW s, NEW x \in {"drift", "check"}, Watches(c, x), NEW p, p.stack = s,
         p.event \in IF x = "check" THEN {"check_failed", "check_recovered"}
                     ELSE {"drift_detected", "drift_resolved"}
  PROVE  Concerns(c, s, x, p)
BY DEF Watches, Concerns, Gets, Subscribes, Stream

(* What a check makes of an incident of its stack. *)
LEMMA CheckComes ==
  ASSUME TypeInv, NEW c \in Channel, NEW s \in Stack, NEW x \in {"drift", "check"}, Watches(c, x),
         Faithful(c, s, x), Check(s), <<s, x>> \notin excused'
  PROVE  Faithful(c, s, x)'
<1>1. PICK e, z, out, recovered :
        /\ e \in Endings(run.work[s])
        /\ Ends(s, e, z, out, recovered)
        /\ Sent(e, out) \in Event \cup {"none"}
        /\ CheckStep(s, Done, Payloads(s, recovered, Sent(e, out)))
  BY CheckEnds
<1> e \in Endings(run.work[s]) BY <1>1
<1> PICK ps, ev : ps = Payloads(s, recovered, ev) /\ ev = Sent(e, out) OBVIOUS
<1>2. /\ ps \in Seq(Message)
      /\ \A i \in DOMAIN ps : /\ ps[i].stack = s
                              /\ \/ recovered /\ ps[i].event = "check_recovered"
                                 \/ ev # "none" /\ ps[i].event = ev
      /\ recovered => \E i \in DOMAIN ps : ps[i].event = "check_recovered"
      /\ ev # "none" => \E i \in DOMAIN ps : ps[i].event = ev
  BY <1>1, PayloadsFacts
<1> PICK prev : prev = st[s] OBVIOUS
<1>3. CheckStep(s, Done, ps) /\ UNCHANGED <<cfg, now, marker, inc>> BY <1>1 DEF Ends
<1>4. st'[s] = z /\ StateOK(z) /\ StateOK(prev) /\ now \in Nat
  <2>1. DOMAIN st = Stack /\ StateOK(prev) /\ now \in Nat BY DEF TypeInv
  <2>2. st' = [st EXCEPT ![s] = z] BY <1>1 DEF Ends
  <2> QED BY <1>1, <2>1, <2>2 DEF Ends
<1>5. PICK a \in BOOLEAN : Agrees(s, x, a) /\ ComesTo(c, s, x, a) BY DEF Faithful
<1>6. Rest(c, s, x, a)
  <2>1. run.pc = "check" /\ run.work[s] # Done BY <1>3 DEF CheckStep
  <2>2. CheckOK(run) BY <2>1, RunTypes
  <2>3. \A i \in DOMAIN run.batch : ~Concerns(c, s, x, run.batch[i])
    BY <2>1, <2>2 DEF CheckOK, Concerns
  <2> QED BY <1>5, <2>1, <2>3 DEF ComesTo, Checking
<1>7. ASSUME NEW b \in BOOLEAN, Agrees(s, x, b)',
             \A i \in DOMAIN ps : Concerns(c, s, x, ps[i]) => Opens(ps[i]) = b,
             (\E i \in DOMAIN ps : Concerns(c, s, x, ps[i])) \/ a = b
      PROVE  Faithful(c, s, x)'
  <2>1. ComesTo(c, s, x, b)' BY <1>2, <1>3, <1>6, <1>7, OwnCheckComes
  <2> QED BY <1>7, <2>1 DEF Faithful
<1>8. /\ e.verdict = Failed => Failing(prev, z, out, recovered)
      /\ e.verdict # Failed /\ e.verdict = Clean => Resolving(prev, z, out, recovered)
      /\ e.verdict # Failed /\ e.verdict # Clean => Detecting(prev, z, out, recovered)
  BY <1>1 DEF Ends
<1>9. CASE x = "check"
  <2>1. \A b : Agrees(s, x, b) <=> b = prev.failing BY <1>9 DEF Agrees
  <2>2. \A b : Agrees(s, x, b)' <=> b = z.failing BY <1>4, <1>9 DEF Agrees
  <2>3. CASE e.verdict = Failed
    <3>1. ~recovered /\ ev = "check_failed" /\ z.failing = TRUE BY <1>4, <1>8, <2>3 DEF Failing, Sent, StateOK
    <3>2. PICK i \in DOMAIN ps : ps[i].event = "check_failed" BY <1>2, <3>1
    <3>3. Concerns(c, s, x, ps[i]) BY <1>2, <1>9, <3>2, WatchersGet
    <3>4. \A j \in DOMAIN ps : Opens(ps[j]) = TRUE BY <1>2, <3>1 DEF Opens, Closing
    <3> QED BY <1>7, <2>2, <3>1, <3>3, <3>4
  <2>4. CASE e.verdict # Failed
    <3>1. recovered = prev.failing /\ z.failing = FALSE /\ out \notin {"check_failed", "check_recovered"}
      BY <1>4, <1>8, <2>4 DEF Resolving, Detecting, StateOK
    <3>2. ev \notin {"check_failed", "check_recovered"} BY <3>1 DEF Sent
    <3>3. \A j \in DOMAIN ps : Concerns(c, s, x, ps[j]) => Opens(ps[j]) = FALSE
      BY <1>2, <1>9, <3>2 DEF Opens, Closing, Concerns, Stream
    <3>4. CASE recovered
      <4>1. PICK i \in DOMAIN ps : ps[i].event = "check_recovered" BY <1>2, <3>4
      <4>2. Concerns(c, s, x, ps[i]) BY <1>2, <1>9, <4>1, WatchersGet
      <4> QED BY <1>7, <2>2, <3>1, <3>3, <4>2
    <3>5. CASE ~recovered
      <4>1. a = FALSE BY <1>5, <2>1, <3>1, <3>5
      <4> QED BY <1>7, <2>2, <3>1, <3>3, <4>1
    <3> QED BY <3>4, <3>5
  <2> QED BY <2>3, <2>4
<1>10. CASE x = "drift"
  <2>1. /\ a => Drifted(prev) /\ ~Accepted(now) /\ (prev.notified = 0 \/ prev.notified >= prev.since)
        /\ Drifted(prev) /\ prev.notified >= prev.since /\ now < MaxTime /\ cfg.until = 0 => a
    BY <1>5, <1>10 DEF Agrees, Alerted
  <2>2. ASSUME NEW b \in BOOLEAN,
               b => Drifted(z) /\ ~Accepted(now) /\ (z.notified = 0 \/ z.notified >= z.since),
               Drifted(z) /\ z.notified >= z.since /\ now < MaxTime /\ cfg.until = 0 => b
        PROVE  Agrees(s, x, b)'
    BY <1>3, <1>4, <1>10, <2>2 DEF Agrees, Alerted, Accepted, Drifted
  <2>3. \A j \in DOMAIN ps : Concerns(c, s, x, ps[j]) => ev # "none" /\ ps[j].event = ev
    BY <1>2, <1>10 DEF Concerns, Stream
  <2>4. CASE e.verdict = Failed
    <3>1. /\ out = "check_failed" /\ Drifted(z) = Drifted(prev)
          /\ z.since = prev.since /\ z.notified = prev.notified
      BY <1>8, <2>4 DEF Failing
    <3>2. ev = "check_failed" BY <2>4, <3>1 DEF Sent
    <3>3. \A j \in DOMAIN ps : ~Concerns(c, s, x, ps[j]) BY <1>10, <2>3, <3>2 DEF Concerns, Stream
    <3>4. Agrees(s, x, a)' BY <2>1, <2>2, <3>1
    <3> QED BY <1>7, <3>3, <3>4
  <2>5. CASE e.verdict # Failed /\ e.verdict = Clean
    <3>1. Resolving(prev, z, out, recovered) BY <1>8, <2>5
    <3>2. Agrees(s, x, FALSE)' BY <2>2, <3>1 DEF Resolving
    <3>3. CASE ev = "drift_resolved"
      <4>1. PICK i \in DOMAIN ps : ps[i].event = "drift_resolved" BY <1>2, <3>3
      <4>2. Concerns(c, s, x, ps[i]) BY <1>2, <1>10, <4>1, WatchersGet
      <4>3. \A j \in DOMAIN ps : Concerns(c, s, x, ps[j]) => Opens(ps[j]) = FALSE
        BY <2>3, <3>3 DEF Opens, Closing
      <4> QED BY <1>7, <3>2, <4>2, <4>3
    <3>4. CASE ev # "drift_resolved"
      <4>1. ev = "none" BY <3>1, <3>4 DEF Resolving, Sent
      <4>2. a = FALSE
        <5>1. CASE Accepted(now) BY <2>1, <5>1
        <5>2. CASE ~Accepted(now)
          <6>1. out = "none" BY <4>1, <5>2 DEF Sent
          <6>2. Drifted(prev) => prev.notified # 0 /\ prev.notified < prev.since BY <3>1, <6>1 DEF Resolving
          <6>3. prev.notified \in Nat /\ prev.since \in Nat BY <1>4 DEF StateOK
          <6>4. prev.notified < prev.since => ~(prev.notified >= prev.since) BY <6>3
          <6> QED BY <2>1, <6>2, <6>4
        <5> QED BY <5>1, <5>2
      <4> QED BY <1>7, <2>3, <3>2, <4>1, <4>2
    <3> QED BY <3>3, <3>4
  <2>6. CASE e.verdict # Failed /\ e.verdict # Clean
    <3>1. Detecting(prev, z, out, recovered) BY <1>8, <2>6
    <3>2. Drifted(z) /\ z.since \in Nat /\ z.since <= now /\ z.notified \in Nat
      BY <1>4, <3>1 DEF Detecting, StateOK
    <3>3. CASE Accepted(now)
      <4>1. ev = "none" /\ a = FALSE BY <2>1, <2>6, <3>3 DEF Sent
      <4>2. cfg.until # 0 BY <1>4, <3>3 DEF Accepted, Forever
      <4>3. Agrees(s, x, FALSE)' BY <2>2, <4>2
      <4> QED BY <1>7, <2>3, <4>1, <4>3
    <3>4. CASE ~Accepted(now) /\ out = "drift_detected"
      <4>1. ev = "drift_detected" /\ z.notified = now BY <3>1, <3>4 DEF Sent, Detecting
      <4>2. z.notified >= z.since BY <1>4, <3>2, <4>1
      <4>3. Agrees(s, x, TRUE)' BY <2>2, <3>2, <3>4, <4>2
      <4>4. PICK i \in DOMAIN ps : ps[i].event = "drift_detected" BY <1>2, <4>1
      <4>5. Concerns(c, s, x, ps[i]) BY <1>2, <1>10, <4>4, WatchersGet
      <4>6. \A j \in DOMAIN ps : Concerns(c, s, x, ps[j]) => Opens(ps[j]) = TRUE
        BY <2>3, <4>1 DEF Opens, Closing
      <4> QED BY <1>7, <4>3, <4>5, <4>6
    <3>5. CASE ~Accepted(now) /\ out = "none"
      <4>1. ev = "none" /\ z.notified = prev.notified BY <3>1, <3>5 DEF Sent, Detecting
      <4>2. CASE Drifted(prev)
        <5>1. z.since = prev.since BY <3>1, <4>2 DEF Detecting
        <5>2. Agrees(s, x, a)' BY <2>1, <2>2, <3>2, <4>1, <4>2, <5>1
        <5> QED BY <1>7, <2>3, <4>1, <5>2
      <4>3. CASE ~Drifted(prev)
        <5>1. a = FALSE /\ z.since = now BY <2>1, <3>1, <4>3 DEF Detecting
        <5>2. now < MaxTime => prev.notified < now
          <6>1. run.pc = "check" /\ run.work[s] # Done BY <1>3 DEF CheckStep
          <6>2. CheckOK(run) BY <6>1, RunTypes
          <6> QED BY <6>1, <6>2 DEF CheckOK
        <5>3. ~(z.notified >= z.since /\ now < MaxTime) BY <1>4, <3>2, <4>1, <5>1, <5>2
        <5>4. Agrees(s, x, FALSE)' BY <2>2, <5>3
        <5> QED BY <1>7, <2>3, <4>1, <5>1, <5>4
      <4> QED BY <4>2, <4>3
    <3>6. CASE ~Accepted(now) /\ out = "drift_ongoing"
      <4>1. /\ ev = "drift_ongoing" /\ z.notified = prev.notified /\ z.since = prev.since
            /\ Drifted(prev) /\ cfg.renotify = 0
        BY <3>1, <3>6 DEF Sent, Detecting
      <4>2. z.notified = 0 \/ z.notified >= z.since BY <1>4, <3>2, <4>1 DEF StateOK
      <4>3. \A j \in DOMAIN ps : Concerns(c, s, x, ps[j]) => Opens(ps[j]) = TRUE
        BY <2>3, <4>1 DEF Opens, Closing
      <4>4. CASE \E j \in DOMAIN ps : Concerns(c, s, x, ps[j])
        <5>1. Agrees(s, x, TRUE)' BY <2>2, <3>2, <3>6, <4>2
        <5> QED BY <1>7, <4>3, <4>4, <5>1
      <4>5. CASE ~\E j \in DOMAIN ps : Concerns(c, s, x, ps[j])
        <5>1. Agrees(s, x, a)' BY <2>1, <2>2, <3>2, <4>1
        <5> QED BY <1>7, <4>5, <5>1
      <4> QED BY <4>4, <4>5
    <3> QED BY <3>1, <3>3, <3>4, <3>5, <3>6 DEF Detecting
  <2> QED BY <2>4, <2>5, <2>6
<1> QED BY <1>9, <1>10

(* A run that stops here leaves what is owed to its markers. *)
LEMMA EndsOwed ==
  ASSUME NEW c, NEW s, NEW x, NEW b, EndsWith(c, s, x, b),
         \A i \in DOMAIN run.batch : Concerns(c, s, x, run.batch[i]) => run.batch[i] \in marker
  PROVE  Rest(c, s, x, b)
<1>1. CASE \E i \in DOMAIN run.batch : Concerns(c, s, x, run.batch[i])
  <2>1. PICK i \in DOMAIN run.batch : Concerns(c, s, x, run.batch[i]) /\ Opens(run.batch[i]) = b
    BY <1>1 DEF EndsWith
  <2>2. run.batch[i] \in Owed(c, s, x) BY <2>1 DEF Owed
  <2> QED BY <2>1, <2>2 DEF Rest
<1>2. CASE ~\E i \in DOMAIN run.batch : Concerns(c, s, x, run.batch[i])
  <2>1. inc[c][s][x] = b BY <1>2 DEF EndsWith
  <2>2. Owed(c, s, x) = {} BY <1>2 DEF EndsWith, Owed, Batched
  <2> QED BY <2>1, <2>2 DEF Rest
<1> QED BY <1>1, <1>2

LEMMA ClearedRest ==
  ASSUME TypeInv, run.pc = "clear", NEW c, NEW s, NEW x, NEW b, Clearing(c, s, x, b)
  PROVE  Rest(c, s, x, b)
<1> PICK q : q = run.batch OBVIOUS
<1>0. q \in Seq(Message) /\ run.at \in Nat BY RunTypes, BatchOK
<1>1. CASE Owed(c, s, x) = {} BY <1>1 DEF Rest, Clearing
<1>2. ASSUME NEW p \in Owed(c, s, x) PROVE Rest(c, s, x, b)
  <2>1. PICK j \in DOMAIN q : p = q[j] BY <1>2 DEF Clearing, EndsWith, Batched
  <2>2. Concerns(c, s, x, q[j]) /\ q[j] \in marker BY <1>2, <2>1 DEF Owed
  <2>3. PICK i \in DOMAIN q : Concerns(c, s, x, q[i]) /\ Opens(q[i]) = b
    BY <2>2 DEF Clearing, EndsWith
  <2>4. CASE q[i] \in marker
    <3>1. q[i] \in Owed(c, s, x) BY <2>3, <2>4 DEF Owed
    <3> QED BY <2>3, <3>1 DEF Rest
  <2>5. CASE q[i] \notin marker
    <3>1. PICK k \in DOMAIN q : k < run.at /\ q[k] = q[i] BY <2>3, <2>5 DEF Clearing
    <3>2. ~(j < run.at) BY <2>2 DEF Clearing
    <3>3. k < j
      <4>1. k \in Nat /\ j \in Nat BY <1>0
      <4> QED BY <1>0, <3>1, <3>2, <4>1
    <3>4. Opens(q[j]) = b BY <2>2, <2>3, <3>1, <3>3 DEF Clearing, EndsWith
    <3> QED BY <1>2, <2>1, <3>4 DEF Rest
  <2> QED BY <2>4, <2>5
<1> QED BY <1>1, <1>2

LEMMA NotExcused ==
  ASSUME NEW ps, NEW c, NEW s, NEW x, <<s, x>> \notin Streams(ps)
  PROVE  \A p \in ps : ~Concerns(c, s, x, p)
BY DEF Streams, Concerns

LEMMA StopComes ==
  ASSUME TypeInv, NEW c, NEW s, NEW x, NEW b, ComesTo(c, s, x, b),
         EndBootstrap \/ PublishFails \/ End \/ Die, <<s, x>> \notin excused'
  PROVE  ComesTo(c, s, x, b)'
<1>1. run' = Idle /\ UNCHANGED <<marker, inc>> BY DEF EndBootstrap, PublishFails, End, Die
<1> SUFFICES Rest(c, s, x, b) BY <1>1, RestKept, Idles
<1>2. CASE EndBootstrap \/ PublishFails
  <2>1. run.pc = "check" /\ <<s, x>> \notin Streams(Batched)
    BY <1>2 DEF EndBootstrap, PublishFails, AllDone
  <2>2. \A p \in Batched : ~Concerns(c, s, x, p) BY <2>1, NotExcused
  <2> QED BY <2>1, <2>2 DEF ComesTo, Checking, Batched
<1>3. CASE End BY <1>3, ClearedRest DEF ComesTo, End
<1>4. CASE Die
  <2>1. run.pc \in {"check", "mark", "deliver", "clear"} BY <1>4, BatchOK DEF Die
  <2>2. ASSUME run.pc \in {"check", "mark"}
        PROVE  \A i \in DOMAIN run.batch : Concerns(c, s, x, run.batch[i]) => run.batch[i] \in marker
    <3>1. <<s, x>> \notin Streams(Batched \ marker) BY <1>4, <2>2 DEF Die
    <3>2. \A p \in Batched \ marker : ~Concerns(c, s, x, p) BY <3>1, NotExcused
    <3> QED BY <3>2 DEF Batched
  <2>3. CASE run.pc = "check"
    <3>1. CASE Rest(c, s, x, b) BY <3>1
    <3>2. CASE ~Rest(c, s, x, b)
      <4>1. PICK i \in DOMAIN run.batch : Concerns(c, s, x, run.batch[i]) /\ Opens(run.batch[i]) = b
        BY <2>3, <3>2 DEF ComesTo, Checking
      <4>2. run.batch[i] \in Owed(c, s, x) BY <2>2, <2>3, <4>1 DEF Owed
      <4> QED BY <4>1, <4>2 DEF Rest
    <3> QED BY <3>1, <3>2
  <2>4. CASE run.pc = "mark" BY <2>2, <2>4, EndsOwed DEF ComesTo, Marking
  <2>5. CASE run.pc = "deliver" BY <2>5, EndsOwed DEF ComesTo, Delivering
  <2>6. CASE run.pc = "clear" BY <2>6, ClearedRest DEF ComesTo
  <2> QED BY <2>1, <2>3, <2>4, <2>5, <2>6
<1> QED BY <1>2, <1>3, <1>4

LEMMA SettleComes ==
  ASSUME TypeInv, NEW c \in Channel, NEW s, NEW x, NEW b, ComesTo(c, s, x, b), Settle
  PROVE  ComesTo(c, s, x, b)'
<1>1. run.pc = "deliver" /\ UNCHANGED <<marker, inc>> /\ run.next[c] > Len(run.batch)
  BY DEF Settle, Delivered
<1>2. Delivering(c, s, x, b) BY <1>1 DEF ComesTo
<1>3. CASE run.failed
  <2>1. run' = Idle BY <1>3 DEF Settle
  <2>2. Rest(c, s, x, b) BY <1>2, EndsOwed DEF Delivering
  <2> QED BY <1>1, <2>1, <2>2, RestKept, Idles
<1>4. CASE ~run.failed
  <2>1. run' = [pc |-> "clear", batch |-> run.batch, at |-> 1, got |-> run.got] BY <1>4 DEF Settle
  <2>2. run'.pc = "clear" /\ run'.batch = run.batch /\ run'.at = 1 BY <2>1
  <2>3. run.batch \in Seq(Message) /\ run.next \in [Channel -> Nat \ {0}]
    BY <1>1, BatchOK, RunTypes
  <2>4. \A i \in DOMAIN run.batch : i < run.next[c] /\ ~(i < 1)
    <3> PICK n, l : n = run.next[c] /\ l = Len(run.batch) OBVIOUS
    <3>1. n \in Nat /\ l \in Nat /\ DOMAIN run.batch = 1..l /\ n > l BY <1>1, <2>3
    <3> QED BY <3>1
  <2>5. inc[c][s][x] = b
    <3>1. CASE \E i \in DOMAIN run.batch : Concerns(c, s, x, run.batch[i])
      <4>1. PICK i \in DOMAIN run.batch : Concerns(c, s, x, run.batch[i]) /\ Opens(run.batch[i]) = b
        BY <1>2, <3>1 DEF Delivering, EndsWith
      <4> QED BY <1>2, <1>4, <2>4, <4>1 DEF Delivering
    <3>2. CASE ~\E i \in DOMAIN run.batch : Concerns(c, s, x, run.batch[i])
      BY <1>2, <3>2 DEF Delivering, EndsWith
    <3> QED BY <3>1, <3>2
  <2>6. EndsWith(c, s, x, b)'
    BY <1>1, <1>2, <2>2
    DEF Delivering, EndsWith, Owed, Batched, Concerns, Gets, Stream, Subscribes, Opens, Closing
  <2>7. Clearing(c, s, x, b)'
    BY <1>1, <1>2, <2>2, <2>4, <2>5, <2>6
    DEF Delivering, Clearing, Concerns, Gets, Stream, Subscribes
  <2> QED BY <2>2, <2>7 DEF ComesTo
<1> QED BY <1>3, <1>4

LEMMA PublishComes ==
  ASSUME TypeInv, NEW c, NEW s, NEW x, NEW b \in BOOLEAN, ComesTo(c, s, x, b), Publish,
         <<s, x>> \notin excused'
  PROVE  ComesTo(c, s, x, b)'
<1>1. PICK readable \in SUBSET marker :
        /\ run' = [pc |-> "mark", batch |-> MergePending(Leftover(readable), run.batch), at |-> 1]
        /\ excused' = excused \cup Crossed(readable) \cup Streams(marker \ readable)
  BY DEF Publish
<1>2. run.pc = "check" /\ run # Idle /\ UNCHANGED <<marker, inc>> BY DEF Publish, AllDone, Idle
<1> PICK q, m : q = run.batch /\ m = MergePending(Leftover(readable), q) OBVIOUS
<1>3. q \in Seq(Message) /\ readable \in SUBSET Message BY <1>2, BatchOK DEF TypeInv
<1>4. m \in Seq(Message) BY <1>3, PublishedFacts
<1>5. PICK n \in Nat : Merged(m, n, readable, q) BY <1>3, PublishedFacts
<1>6. run'.pc = "mark" /\ run'.batch = m /\ run'.at = 1 BY <1>1
<1>7. Owed(c, s, x) \subseteq readable
  <2>1. \A p \in marker \ readable : ~Concerns(c, s, x, p) BY <1>1, NotExcused
  <2> QED BY <2>1 DEF Owed
<1>8. \A p, r \in readable : Concerns(c, s, x, p) /\ Concerns(c, s, x, r) => Opens(p) = Opens(r)
  <2>1. <<s, x>> \notin Crossed(readable) BY <1>1
  <2>2. ASSUME NEW p \in readable, NEW r \in readable, Concerns(c, s, x, p), Concerns(c, s, x, r),
               Opens(p), ~Opens(r)
        PROVE  FALSE
    BY <2>1, <2>2 DEF Crossed, Concerns, Opens
  <2>3. \A p : Opens(p) \in BOOLEAN BY DEF Opens
  <2> QED BY <2>2, <2>3
<1>9. Checking(c, s, x, b) BY <1>2 DEF ComesTo
<1>10. \A i \in DOMAIN m : m[i] \in readable \/ (~(i <= n) /\ i - n \in DOMAIN q /\ m[i] = q[i - n])
  BY <1>5 DEF Merged
<1>11. ASSUME NEW i \in DOMAIN m, NEW j \in DOMAIN m, i < j, Opens(m[i]) = b,
              Concerns(c, s, x, m[i]), Concerns(c, s, x, m[j])
       PROVE  Opens(m[j]) = b
  <2>1. CASE j <= n
    <3>1. i <= n BY <1>4, <1>11, <2>1
    <3>2. m[i] \in readable /\ m[j] \in readable BY <1>5, <2>1, <3>1 DEF Merged
    <3> QED BY <1>8, <1>11, <3>2
  <2>2. CASE ~(j <= n)
    <3>1. j - n \in DOMAIN q /\ m[j] = q[j - n] BY <1>5, <2>2 DEF Merged
    <3> QED BY <1>9, <1>11, <3>1 DEF Checking
  <2> QED BY <2>1, <2>2
<1>12. \A p \in Owed(c, s, x) : \E i \in DOMAIN m : m[i] = p BY <1>5, <1>7 DEF Merged
<1>13. ASSUME NEW i \in DOMAIN m, Concerns(c, s, x, m[i])
       PROVE  \E k \in DOMAIN m : Concerns(c, s, x, m[k]) /\ Opens(m[k]) = b
  <2>1. CASE \E j \in DOMAIN q : Concerns(c, s, x, q[j])
    <3>1. PICK j \in DOMAIN q : Concerns(c, s, x, q[j]) BY <2>1
    <3>2. Opens(q[j]) = b BY <1>9, <3>1 DEF Checking
    <3>3. j + n \in DOMAIN m /\ m[j + n] = q[j] BY <1>5 DEF Merged
    <3> QED BY <3>1, <3>2, <3>3
  <2>2. CASE ~\E j \in DOMAIN q : Concerns(c, s, x, q[j])
    <3>1. Rest(c, s, x, b) BY <1>9, <2>2 DEF Checking
    <3>2. m[i] \in readable BY <1>10, <1>13, <2>2
    <3>3. m[i] \in Owed(c, s, x) BY <1>13, <3>2 DEF Owed
    <3>4. PICK p \in Owed(c, s, x) : Opens(p) = b BY <3>1, <3>3 DEF Rest
    <3>5. PICK k \in DOMAIN m : m[k] = p BY <1>12
    <3> QED BY <3>4, <3>5 DEF Owed
  <2> QED BY <2>1, <2>2
<1>14. ASSUME ~\E i \in DOMAIN m : Concerns(c, s, x, m[i]) PROVE inc[c][s][x] = b
  <2>1. Owed(c, s, x) = {} BY <1>12, <1>14 DEF Owed
  <2>2. \A j \in DOMAIN q : ~Concerns(c, s, x, q[j])
    <3> SUFFICES ASSUME NEW j \in DOMAIN q PROVE ~Concerns(c, s, x, q[j]) OBVIOUS
    <3>1. j + n \in DOMAIN m /\ m[j + n] = q[j] BY <1>5 DEF Merged
    <3> QED BY <1>14, <3>1
  <2> QED BY <1>9, <2>1, <2>2 DEF Checking, Rest
<1>15. EndsWith(c, s, x, b)'
  <2>1. Owed(c, s, x)' = Owed(c, s, x) BY <1>2 DEF Owed, Concerns, Gets, Stream, Subscribes
  <2>2. (Owed(c, s, x) \subseteq Batched)' BY <1>6, <1>12, <2>1 DEF Batched
  <2>3. \A p : (Concerns(c, s, x, p)' <=> Concerns(c, s, x, p)) /\ Opens(p)' = Opens(p)
    BY DEF Concerns, Gets, Stream, Subscribes, Opens, Closing
  <2>4. IF \E i \in DOMAIN m : Concerns(c, s, x, m[i])
        THEN \E i \in DOMAIN m : Concerns(c, s, x, m[i]) /\ Opens(m[i]) = b
        ELSE inc[c][s][x] = b
    BY <1>13, <1>14
  <2> QED BY <1>2, <1>6, <1>11, <2>2, <2>3, <2>4 DEF EndsWith
<1>16. \A i \in DOMAIN m : ~(i < 1) BY <1>4
<1>17. Marking(c, s, x, b)' BY <1>6, <1>15, <1>16 DEF Marking
<1> QED BY <1>6, <1>17 DEF ComesTo

(* The batch stays; markers may come and go, and the incident may change. *)
LEMMA EndsKept ==
  ASSUME NEW c, NEW s, NEW x, NEW b, EndsWith(c, s, x, b), run'.batch = run.batch,
         Owed(c, s, x)' \subseteq Batched,
         (\E i \in DOMAIN run.batch : Concerns(c, s, x, run.batch[i])) \/ inc'[c][s][x] = inc[c][s][x]
  PROVE  EndsWith(c, s, x, b)'
<1>1. Batched' = Batched BY DEF Batched
<1>2. (Owed(c, s, x) \subseteq Batched)' BY <1>1
<1>3. \A p : (Concerns(c, s, x, p)' <=> Concerns(c, s, x, p)) /\ Opens(p)' = Opens(p)
  BY DEF Concerns, Gets, Stream, Subscribes, Opens, Closing
<1> QED BY <1>2, <1>3 DEF EndsWith

LEMMA MarkComes ==
  ASSUME TypeInv, NEW c, NEW s, NEW x, NEW b, ComesTo(c, s, x, b), Mark, <<s, x>> \notin excused'
  PROVE  ComesTo(c, s, x, b)'
<1>1. run.pc = "mark" /\ run.at <= Len(run.batch) /\ run' = [run EXCEPT !.at = @ + 1] /\ inc' = inc
  BY DEF Mark
<1>2. DOMAIN run = {"pc", "batch", "at"} /\ run.at \in Nat \ {0} /\ run # Idle BY <1>1, RunTypes
<1>3. run'.pc = "mark" /\ run'.batch = run.batch /\ run'.at = run.at + 1 BY <1>1, <1>2
<1> PICK p : p = run.batch[run.at] OBVIOUS
<1>4. run.at \in DOMAIN run.batch /\ run.batch \in Seq(Message) BY <1>1, <1>2, PositionOK, BatchOK
<1>5. Marking(c, s, x, b) BY <1>1 DEF ComesTo
<1>6. marker \subseteq marker' /\ marker' \subseteq marker \cup {p} /\ (Concerns(c, s, x, p) => p \in marker')
  <2>1. CASE marker' = marker \cup {p} BY <2>1
  <2>2. CASE marker' = marker /\ excused' = excused \cup Streams({p})
    <3>1. ~Concerns(c, s, x, p) BY <2>2, NotExcused
    <3> QED BY <2>2, <3>1
  <2> QED BY <2>1, <2>2 DEF Mark
<1>7. EndsWith(c, s, x, b)'
  <2>1. Owed(c, s, x)' \subseteq Owed(c, s, x) \cup {p}
    BY <1>6 DEF Owed, Concerns, Gets, Stream, Subscribes
  <2>2. p \in Batched /\ Owed(c, s, x) \subseteq Batched BY <1>4, <1>5 DEF Batched, Marking, EndsWith
  <2> QED BY <1>1, <1>3, <1>5, <2>1, <2>2, EndsKept DEF Marking
<1>8. \A i \in DOMAIN run.batch : i < run.at + 1 => i < run.at \/ i = run.at BY <1>2, <1>4
<1>9. ASSUME NEW i \in DOMAIN run.batch, i < run.at + 1, Concerns(c, s, x, run.batch[i])
      PROVE  run.batch[i] \in marker'
  <2>1. CASE i < run.at BY <1>5, <1>6, <1>9, <2>1 DEF Marking
  <2>2. CASE i = run.at BY <1>6, <1>9, <2>2
  <2> QED BY <1>8, <1>9, <2>1, <2>2
<1>10. Marking(c, s, x, b)' BY <1>3, <1>7, <1>9 DEF Marking, Concerns, Gets, Stream, Subscribes
<1> QED BY <1>3, <1>10 DEF ComesTo

LEMMA DispatchComes ==
  ASSUME TypeInv, NEW c \in Channel, NEW s, NEW x, NEW b, ComesTo(c, s, x, b), Dispatch
  PROVE  ComesTo(c, s, x, b)'
<1>1. /\ run.pc = "mark" /\ run.at > Len(run.batch) /\ UNCHANGED <<marker, inc>>
      /\ run'.pc = "deliver" /\ run'.batch = run.batch /\ run'.next[c] = 1
  BY DEF Dispatch
<1>2. run.batch \in Seq(Message) /\ run.at \in Nat BY <1>1, BatchOK, RunTypes
<1>3. \A i \in DOMAIN run.batch : i < run.at /\ ~(i < 1) BY <1>1, <1>2
<1>4. Marking(c, s, x, b) BY <1>1 DEF ComesTo
<1>5. Owed(c, s, x)' = Owed(c, s, x) BY <1>1 DEF Owed, Concerns, Gets, Stream, Subscribes
<1>6. EndsWith(c, s, x, b)' BY <1>1, <1>4, <1>5, EndsKept DEF Marking, EndsWith
<1>7. Delivering(c, s, x, b)'
  BY <1>1, <1>3, <1>4, <1>6 DEF Delivering, Marking, Concerns, Gets, Stream, Subscribes
<1> QED BY <1>1, <1>7 DEF ComesTo

LEMMA ClearComes ==
  ASSUME TypeInv, NEW c, NEW s, NEW x, NEW b, ComesTo(c, s, x, b), Clear, <<s, x>> \notin excused'
  PROVE  ComesTo(c, s, x, b)'
<1>1. run.pc = "clear" /\ run.at <= Len(run.batch) /\ run' = [run EXCEPT !.at = @ + 1] /\ inc' = inc
  BY DEF Clear
<1>2. DOMAIN run = {"pc", "batch", "at", "got"} /\ run.at \in Nat \ {0} /\ run # Idle BY <1>1, RunTypes
<1>3. run'.pc = "clear" /\ run'.batch = run.batch /\ run'.at = run.at + 1 BY <1>1, <1>2
<1> PICK p : p = run.batch[run.at] OBVIOUS
<1>4. run.at \in DOMAIN run.batch /\ run.batch \in Seq(Message) BY <1>1, <1>2, PositionOK, BatchOK
<1>5. Clearing(c, s, x, b) BY <1>1 DEF ComesTo
<1>6. marker' \subseteq marker /\ marker \subseteq marker' \cup {p} /\ (Concerns(c, s, x, p) => p \notin marker')
  <2>1. CASE marker' = marker \ {p} BY <2>1
  <2>2. CASE marker' = marker /\ excused' = excused \cup Streams({p})
    <3>1. ~Concerns(c, s, x, p) BY <2>2, NotExcused
    <3> QED BY <2>2, <3>1
  <2> QED BY <2>1, <2>2 DEF Clear
<1>7. EndsWith(c, s, x, b)'
  <2>1. Owed(c, s, x)' \subseteq Owed(c, s, x) BY <1>6 DEF Owed, Concerns, Gets, Stream, Subscribes
  <2>2. Owed(c, s, x) \subseteq Batched BY <1>5 DEF Clearing, EndsWith
  <2> QED BY <1>1, <1>3, <1>5, <2>1, <2>2, EndsKept DEF Clearing
<1>8. \A i \in DOMAIN run.batch :
        (i < run.at + 1 => i < run.at \/ i = run.at) /\ (i < run.at => i < run.at + 1)
  BY <1>2, <1>4
<1>9. ASSUME NEW i \in DOMAIN run.batch, Concerns(c, s, x, run.batch[i])
      PROVE  /\ i < run.at + 1 => run.batch[i] \notin marker'
             /\ \/ run.batch[i] \in marker'
                \/ \E j \in DOMAIN run.batch : j < run.at + 1 /\ run.batch[j] = run.batch[i]
  <2>1. i < run.at => run.batch[i] \notin marker BY <1>5, <1>9 DEF Clearing
  <2>2. i = run.at => run.batch[i] \notin marker' BY <1>6, <1>9
  <2>3. CASE run.batch[i] \in marker
    <3>1. run.batch[i] \in marker' \/ run.batch[i] = p BY <1>6, <2>3
    <3>2. run.at < run.at + 1 BY <1>2
    <3> QED BY <1>4, <1>6, <1>8, <2>1, <2>2, <3>1, <3>2
  <2>4. CASE run.batch[i] \notin marker
    <3>1. PICK j \in DOMAIN run.batch : j < run.at /\ run.batch[j] = run.batch[i]
      BY <1>5, <1>9, <2>4 DEF Clearing
    <3> QED BY <1>6, <1>8, <2>4, <3>1
  <2> QED BY <2>3, <2>4
<1>10. inc[c][s][x] = b BY <1>5 DEF Clearing
<1>11. Clearing(c, s, x, b)'
  BY <1>1, <1>3, <1>7, <1>9, <1>10 DEF Clearing, Concerns, Gets, Stream, Subscribes
<1> QED BY <1>3, <1>11 DEF ComesTo

LEMMA DeliverComes ==
  ASSUME TypeInv, NEW c \in Channel, NEW s \in Stack, NEW x \in {"drift", "check"}, NEW b,
         ComesTo(c, s, x, b), NEW d \in Channel, Deliver(d) \/ DeliverFails(d)
  PROVE  ComesTo(c, s, x, b)'
<1>1. run.pc = "deliver" /\ run.next[d] <= Len(run.batch) /\ marker' = marker
  BY DEF Deliver, DeliverFails, Heading
<1>2. /\ DOMAIN run = {"pc", "batch", "next", "failed", "got"} /\ run # Idle
      /\ run.next \in [Channel -> Nat \ {0}] /\ run.batch \in Seq(Message)
  BY <1>1, RunTypes, BatchOK
<1> PICK k : k = run.next[d] OBVIOUS
<1> PICK p : p = run.batch[k] OBVIOUS
<1>3. k \in DOMAIN run.batch /\ p \in Message /\ k \in Nat BY <1>1, <1>2, PositionOK
<1>4. Delivering(c, s, x, b) BY <1>1 DEF ComesTo
<1>5. inc' = inc \/ (inc' = Handle(d, p) /\ Gets(d, p)) BY DEF Deliver, DeliverFails, Gets
<1>6. ~(d = c /\ Concerns(c, s, x, p)) => inc'[c][s][x] = inc[c][s][x]
  <2>1. Handle(d, p)[c][s][x] = IF c = d /\ s = p.stack /\ x = Stream(p.event) THEN Opens(p)
                                ELSE inc[c][s][x]
    BY <1>3, HandleType
  <2> QED BY <1>5, <2>1 DEF Concerns
<1>7. run'.pc = "deliver" /\ run'.batch = run.batch
  <2>1. \/ run' = [run EXCEPT !.next[d] = @ + 1, !.got = @ \cup {<<d, p>>}]
        \/ run' = [run EXCEPT !.next[d] = @ + 1]
        \/ \E n : run' = [run EXCEPT !.next[d] = n, !.failed = TRUE]
    BY DEF Deliver, DeliverFails
  <2> QED BY <1>1, <1>2, <2>1
<1>8. EndsWith(c, s, x, b)'
  <2>1. Owed(c, s, x)' = Owed(c, s, x) BY <1>1 DEF Owed, Concerns, Gets, Stream, Subscribes
  <2>2. Owed(c, s, x) \subseteq Batched /\ EndsWith(c, s, x, b) BY <1>4 DEF Delivering, EndsWith
  <2> QED BY <1>3, <1>6, <1>7, <2>1, <2>2, EndsKept
<1>9. ASSUME ~run'.failed, NEW i \in DOMAIN run.batch, i < run'.next[c],
             Concerns(c, s, x, run.batch[i]), Opens(run.batch[i]) = b
      PROVE  inc'[c][s][x] = b
  <2>1. Deliver(d)
    <3>1. CASE DeliverFails(d)
      <4>1. PICK n : run' = [run EXCEPT !.next[d] = n, !.failed = TRUE] BY <3>1 DEF DeliverFails
      <4>2. run'.failed = TRUE BY <1>2, <4>1
      <4> QED BY <1>9, <4>2
    <3> QED BY <3>1
  <2>2. /\ run'.failed = run.failed /\ run'.next = [run.next EXCEPT ![d] = @ + 1]
        /\ Gets(d, p) => inc' = Handle(d, p)
    <3>1. IF Gets(d, p)
          THEN inc' = Handle(d, p) /\ run' = [run EXCEPT !.next[d] = @ + 1, !.got = @ \cup {<<d, p>>}]
          ELSE run' = [run EXCEPT !.next[d] = @ + 1]
      BY <2>1 DEF Deliver, Gets
    <3>2. CASE Gets(d, p) BY <1>2, <3>1, <3>2
    <3>3. CASE ~Gets(d, p) BY <1>2, <3>1, <3>3
    <3> QED BY <3>2, <3>3
  <2>3. CASE d = c /\ Concerns(c, s, x, p)
    <3>1. inc' = Handle(d, p) BY <2>2, <2>3 DEF Concerns
    <3>2. inc'[c][s][x] = Opens(p) BY <1>3, <2>3, <3>1, HandleType DEF Concerns
    <3>3. i < k \/ i = k
      <4>1. i < k + 1 /\ i \in Nat BY <1>2, <1>9, <2>2, <2>3
      <4> QED BY <1>3, <4>1
    <3>4. Opens(p) = b
      <4>1. CASE i = k BY <1>9, <4>1
      <4>2. CASE i < k BY <1>3, <1>4, <1>9, <2>3, <4>2 DEF Delivering, EndsWith
      <4> QED BY <3>3, <4>1, <4>2
    <3> QED BY <3>2, <3>4
  <2>4. CASE ~(d = c /\ Concerns(c, s, x, p))
    <3>1. i < run.next[c]
      <4>1. CASE d # c BY <1>2, <1>9, <2>2, <4>1
      <4>2. CASE d = c
        <5>1. i < k + 1 /\ i \in Nat BY <1>2, <1>9, <2>2, <4>2
        <5>2. i # k BY <1>9, <2>4, <4>2
        <5> QED BY <1>3, <4>2, <5>1, <5>2
      <4> QED BY <4>1, <4>2
    <3>2. inc[c][s][x] = b BY <1>4, <1>9, <2>2, <3>1 DEF Delivering
    <3> QED BY <1>6, <2>4, <3>2
  <2> QED BY <2>3, <2>4
<1>10. \A i \in DOMAIN run.batch : Concerns(c, s, x, run.batch[i]) => run.batch[i] \in marker'
  BY <1>1, <1>4 DEF Delivering
<1>11. Delivering(c, s, x, b)'
  BY <1>7, <1>8, <1>9, <1>10
  DEF Delivering, Concerns, Gets, Stream, Subscribes, Opens, Closing
<1> QED BY <1>7, <1>11 DEF ComesTo

LEMMA StreamInitially == Init => StreamInv
<1> SUFFICES ASSUME Init, NEW c \in Channel, NEW s \in Stack, NEW x \in {"drift", "check"}
             PROVE  Faithful(c, s, x)
  BY DEF StreamInv
<1>1. inc[c][s][x] = FALSE /\ Owed(c, s, x) = {} BY DEF Init, Owed
<1>2. ComesTo(c, s, x, FALSE) BY <1>1 DEF Init, Idle, ComesTo, Rest
<1>3. st[s] = NoState BY DEF Init
<1>4. Agrees(s, x, FALSE) BY <1>3 DEF Agrees, NoState, Alerted, Drifted
<1> QED BY <1>2, <1>4 DEF Faithful

LEMMA StreamStep ==
  ASSUME TypeInv, StreamInv, [Next]_vars
  PROVE  StreamInv'
<1> SUFFICES ASSUME NEW c \in Channel, NEW s \in Stack, NEW x \in {"drift", "check"},
                    Watches(c, x), <<s, x>> \notin excused'
             PROVE  Faithful(c, s, x)'
  BY DEF StreamInv, Watches
<1>1. Faithful(c, s, x) BY ExcusedGrows DEF StreamInv
<1>2. PICK b \in BOOLEAN : Agrees(s, x, b) /\ ComesTo(c, s, x, b) BY <1>1 DEF Faithful
<1>3. CASE Check(s) BY <1>1, <1>3, CheckComes
<1>4. ASSUME NEW boot, Start(boot) PROVE Faithful(c, s, x)'
  BY <1>2, <1>4, StartComes DEF Faithful
<1>5. ASSUME ~Check(s), UNCHANGED <<cfg, now>>, ComesTo(c, s, x, b)' PROVE Faithful(c, s, x)'
  <2>1. st'[s] = st[s] BY <1>5, RecordKept
  <2>2. Agrees(s, x, b)' BY <1>2, <1>5, <2>1, AgreesKept
  <2> QED BY <1>5, <2>2 DEF Faithful
<1>6. ASSUME NEW t \in Stack, ~Check(s),
             LoadFails(t) \/ Skip(t) \/ RequireManual(t) \/ Load(t) \/ Retry(t) \/ Check(t)
      PROVE  Faithful(c, s, x)'
  <2>1. CASE LoadFails(t) \/ RequireManual(t)
    <3>1. At(t, "todo") /\ Refuse(t) BY <2>1 DEF LoadFails, RequireManual
    <3>2. PICK ps \in Seq(Message) :
            /\ \A i \in DOMAIN ps : ps[i].stack = t /\ ps[i].event = "check_failed"
            /\ CheckStep(t, Done, ps)
      BY <3>1, RefuseStep
    <3>3. UNCHANGED <<cfg, now, marker, inc>> /\ <<t, "check">> \in excused' BY <3>1 DEF Refuse
    <3>4. \A i \in DOMAIN ps : ~Concerns(c, s, x, ps[i]) BY <3>2, <3>3 DEF Concerns, Stream
    <3>5. ComesTo(c, s, x, b)' BY <1>2, <3>2, <3>3, <3>4, OtherCheckComes
    <3> QED BY <1>5, <1>6, <3>3, <3>5
  <2>2. CASE Skip(t) \/ Load(t) \/ Retry(t)
    <3>1. UNCHANGED <<cfg, now, marker, inc>> BY <2>2, HushedStep
    <3>2. PICK w : CheckStep(t, w, << >>) BY <2>2, HushedStep
    <3> PICK ps : ps = << >> OBVIOUS
    <3>3. ps \in Seq(Message) /\ CheckStep(t, w, ps) /\ \A i \in DOMAIN ps : ~Concerns(c, s, x, ps[i])
      BY <3>2
    <3>4. ComesTo(c, s, x, b)' BY <1>2, <3>1, <3>3, OtherCheckComes
    <3> QED BY <1>5, <1>6, <3>1, <3>4
  <2>3. CASE Check(t)
    <3>1. PICK e, z, out, recovered :
            /\ e \in Endings(run.work[t])
            /\ Ends(t, e, z, out, recovered)
            /\ Sent(e, out) \in Event \cup {"none"}
            /\ CheckStep(t, Done, Payloads(t, recovered, Sent(e, out)))
      BY <2>3, CheckEnds
    <3> e \in Endings(run.work[t]) BY <3>1
    <3> PICK ps, ev : ps = Payloads(t, recovered, ev) /\ ev = Sent(e, out) OBVIOUS
    <3>2. ps \in Seq(Message) /\ \A i \in DOMAIN ps : ps[i].stack = t BY <3>1, PayloadsFacts
    <3>3. UNCHANGED <<cfg, now, marker, inc>> /\ CheckStep(t, Done, ps) BY <3>1 DEF Ends
    <3>4. t # s BY <1>6, <2>3
    <3>5. \A i \in DOMAIN ps : ~Concerns(c, s, x, ps[i]) BY <3>2, <3>4 DEF Concerns
    <3>6. ComesTo(c, s, x, b)' BY <1>2, <3>2, <3>3, <3>5, OtherCheckComes
    <3> QED BY <1>5, <1>6, <3>3, <3>6
  <2> QED BY <1>6, <2>1, <2>2, <2>3
<1>7. CASE EndBootstrap \/ PublishFails \/ End \/ Die
  <2>1. ComesTo(c, s, x, b)' BY <1>2, <1>7, StopComes
  <2>2. UNCHANGED <<cfg, now>> BY <1>7 DEF EndBootstrap, PublishFails, End, Die
  <2> QED BY <1>3, <1>5, <2>1, <2>2
<1>8. CASE Publish
  <2>1. ComesTo(c, s, x, b)' BY <1>2, <1>8, PublishComes
  <2>2. UNCHANGED <<cfg, now>> BY <1>8 DEF Publish
  <2> QED BY <1>3, <1>5, <2>1, <2>2
<1>9. CASE Mark \/ Dispatch \/ Settle \/ Clear
  <2>1. ComesTo(c, s, x, b)' BY <1>2, <1>9, MarkComes, DispatchComes, SettleComes, ClearComes
  <2>2. UNCHANGED <<cfg, now>> BY <1>9 DEF Mark, Dispatch, Settle, Clear
  <2> QED BY <1>3, <1>5, <2>1, <2>2
<1>10. ASSUME NEW d \in Channel, Deliver(d) \/ DeliverFails(d) PROVE Faithful(c, s, x)'
  <2>1. ComesTo(c, s, x, b)' BY <1>2, <1>10, DeliverComes
  <2>2. UNCHANGED <<cfg, now>> BY <1>10 DEF Deliver, DeliverFails
  <2> QED BY <1>3, <1>5, <2>1, <2>2
<1>11. CASE UNCHANGED <<cfg, now, st, marker, inc, run>>
  <2>1. Agrees(s, x, b)' BY <1>2, <1>11, AgreesKept
  <2>2. Owed(c, s, x)' = Owed(c, s, x) /\ Batched' = Batched
    BY <1>11 DEF Owed, Batched, Concerns, Gets, Stream, Subscribes
  <2>3. Rest(c, s, x, b)' <=> Rest(c, s, x, b) BY <1>11, <2>2 DEF Rest, Opens, Closing
  <2>4. EndsWith(c, s, x, b)' <=> EndsWith(c, s, x, b)
    BY <1>11, <2>2 DEF EndsWith, Concerns, Gets, Stream, Subscribes, Opens, Closing
  <2>5. Checking(c, s, x, b)' <=> Checking(c, s, x, b)
    BY <1>11, <2>3 DEF Checking, Concerns, Gets, Stream, Subscribes, Opens, Closing
  <2>6. Marking(c, s, x, b)' <=> Marking(c, s, x, b)
    BY <1>11, <2>4 DEF Marking, Concerns, Gets, Stream, Subscribes
  <2>7. Delivering(c, s, x, b)' <=> Delivering(c, s, x, b)
    BY <1>11, <2>4 DEF Delivering, Concerns, Gets, Stream, Subscribes, Opens, Closing
  <2>8. Clearing(c, s, x, b)' <=> Clearing(c, s, x, b)
    BY <1>11, <2>4 DEF Clearing, Concerns, Gets, Stream, Subscribes
  <2>9. ComesTo(c, s, x, b)' BY <1>2, <1>11, <2>3, <2>5, <2>6, <2>7, <2>8 DEF ComesTo
  <2> QED BY <2>1, <2>9 DEF Faithful
<1>12. CASE SuppressAdd \/ SuppressClear \/ UNCHANGED vars
  BY <1>11, <1>12 DEF SuppressAdd, SuppressClear, vars
<1> QED BY <1>3, <1>4, <1>6, <1>7, <1>8, <1>9, <1>10, <1>12 DEF Next, Step

(* Once nothing is under way and nothing is owed, the incidents of a channel *)
(* that hears of beginnings and ends tell the truth, unless their events     *)
(* fell through a gap named in an action.                                    *)
THEOREM IncidentsTellTheTruth == EnginesAdmitFailure => (Spec => []IncidentsSettle)
<1> SUFFICES ASSUME EnginesAdmitFailure PROVE Spec => []IncidentsSettle OBVIOUS
<1>1. Init => TypeInv /\ VerdictInv /\ StreamInv
  BY TypeInitially, VerdictInitially, StreamInitially
<1>2. TypeInv /\ VerdictInv /\ StreamInv /\ [Next]_vars => (TypeInv /\ VerdictInv /\ StreamInv)'
  BY TypeStep, VerdictStep, StreamStep
<1>3. VerdictInv /\ StreamInv => IncidentsSettle
  <2> SUFFICES ASSUME VerdictInv, StreamInv, Settled, NEW c \in Channel, NEW s \in Stack
               PROVE  /\ {"drift_detected", "drift_resolved"} \subseteq On[c] /\ <<s, "drift">> \notin excused =>
                           /\ inc[c][s].drift => seen[s].verdict # Clean
                           /\ seen[s].verdict # Clean => Drifted(st[s])
                           /\ Alerted(s) /\ cfg.until = 0 => inc[c][s].drift
                      /\ "check_failed" \in On[c] /\ <<s, "check">> \notin excused =>
                           (inc[c][s].check <=> st[s].failing)
    BY DEF IncidentsSettle
  <2>1. ASSUME NEW x \in {"drift", "check"}, Watches(c, x), <<s, x>> \notin excused
        PROVE  Agrees(s, x, inc[c][s][x])
    <3>1. PICK b \in BOOLEAN : Agrees(s, x, b) /\ ComesTo(c, s, x, b) BY <2>1 DEF StreamInv, Faithful
    <3>2. run.pc = "idle" /\ Owed(c, s, x) = {} BY DEF Settled, Idle, Owed
    <3>3. inc[c][s][x] = b BY <3>1, <3>2 DEF ComesTo, Rest
    <3> QED BY <3>1, <3>3
  <2>2. ASSUME {"drift_detected", "drift_resolved"} \subseteq On[c], <<s, "drift">> \notin excused
        PROVE  /\ inc[c][s].drift => seen[s].verdict # Clean
               /\ seen[s].verdict # Clean => Drifted(st[s])
               /\ Alerted(s) /\ cfg.until = 0 => inc[c][s].drift
    <3>1. Agrees(s, "drift", inc[c][s]["drift"]) BY <2>1, <2>2 DEF Watches
    <3>2. Recorded(s) BY <2>2 DEF VerdictInv
    <3> QED BY <3>1, <3>2 DEF Agrees, Recorded
  <2>3. ASSUME "check_failed" \in On[c], <<s, "check">> \notin excused
        PROVE  inc[c][s].check <=> st[s].failing
    <3>1. Agrees(s, "check", inc[c][s]["check"]) BY <2>1, <2>3 DEF Watches
    <3> QED BY <3>1 DEF Agrees
  <2> QED BY <2>2, <2>3
<1> QED BY <1>1, <1>2, <1>3, PTL DEF Spec

=============================================================================
