--------------------------- MODULE LockMachineProofs ---------------------------
(***************************************************************************)
(* Lemmas about the transitions of LockMachine: what removing a pull       *)
(* request from a queue leaves, and that every transition keeps a lock     *)
(* well formed (LockOK).  The parts of LockOK need each                    *)
(* other: that a promotion keeps the holder out of the queue rests on the  *)
(* waiters being distinct, and that a direct acquire of a free lock leaves *)
(* nobody behind rests on the queue being empty then.                      *)
(***************************************************************************)
EXTENDS LockMachine, TLAPS, FiniteSetTheorems, WellFoundedInduction

-----------------------------------------------------------------------------
(* The queue without one pull request. *)

(* Every nonempty set of naturals has a least element. *)
LEMMA LeastNatural ==
  ASSUME NEW S \in SUBSET Nat, S # {}
  PROVE  \E m \in S : \A x \in S : m <= x
<1> DEFINE R == OpToRel(<, Nat)
<1>1. IsWellFoundedOn(R, Nat)
  BY NatLessThanWellFounded
<1>2. PICK m \in S : \A y \in S : ~ (<<y, m>> \in R)
  <2> HIDE DEF R
  <2> QED BY <1>1, WFMin
<1>3. \A y \in S : ~(y < m)
  BY <1>2 DEF OpToRel
<1> QED BY <1>3

(* How many of the first i positions belong to a set. *)
UpTo(S, i) == Cardinality(S \cap 1..i)

LEMMA UpToFacts ==
  ASSUME NEW n \in Nat, NEW S \in SUBSET (1..n)
  PROVE  /\ IsFiniteSet(S) /\ Cardinality(S) \in Nat
         /\ \A i \in 0..n : UpTo(S, i) \in Nat
         /\ UpTo(S, 0) = 0
         /\ UpTo(S, n) = Cardinality(S)
         /\ \A i, j \in 0..n : i <= j => UpTo(S, i) <= UpTo(S, j)
         /\ \A i \in 1..n : UpTo(S, i) =
              IF i \in S THEN UpTo(S, i - 1) + 1 ELSE UpTo(S, i - 1)
<1>1. IsFiniteSet(S) /\ Cardinality(S) \in Nat
  <2>1. IsFiniteSet(1..n)
    BY FS_Interval
  <2>2. IsFiniteSet(S)
    BY <2>1, FS_Subset
  <2> QED BY <2>2, FS_CardinalityType
<1>2. \A i \in 0..n : IsFiniteSet(S \cap 1..i) /\ UpTo(S, i) \in Nat
  BY <1>1, FS_Subset, FS_CardinalityType DEF UpTo
<1>3. UpTo(S, 0) = 0
  <2>1. S \cap 1..0 = {}
    OBVIOUS
  <2> QED BY <2>1, FS_EmptySet DEF UpTo
<1>4. UpTo(S, n) = Cardinality(S)
  <2>1. S \cap 1..n = S
    OBVIOUS
  <2> QED BY <2>1 DEF UpTo
<1>5. ASSUME NEW i \in 0..n, NEW j \in 0..n, i <= j
      PROVE  UpTo(S, i) <= UpTo(S, j)
  <2>1. S \cap 1..i \in SUBSET (S \cap 1..j)
    BY <1>5
  <2> QED BY <2>1, <1>2, FS_Subset DEF UpTo
<1>6. ASSUME NEW i \in 1..n
      PROVE  UpTo(S, i) = IF i \in S THEN UpTo(S, i - 1) + 1 ELSE UpTo(S, i - 1)
  <2>1. i - 1 \in 0..n /\ IsFiniteSet(S \cap 1..(i - 1))
    BY <1>2
  <2>2. CASE i \in S
    <3>1. S \cap 1..i = (S \cap 1..(i - 1)) \cup {i} /\ i \notin S \cap 1..(i - 1)
      BY <2>2
    <3> QED BY <3>1, <2>1, <2>2, FS_AddElement DEF UpTo
  <2>3. CASE i \notin S
    <3>1. S \cap 1..i = S \cap 1..(i - 1)
      BY <2>3
    <3> QED BY <3>1, <2>3 DEF UpTo
  <2> QED BY <2>2, <2>3
<1> QED BY <1>1, <1>2, <1>3, <1>4, <1>5, <1>6

(* The k-th element of a finite set of positions exists. *)
LEMMA NthExists ==
  ASSUME NEW n \in Nat, NEW S \in SUBSET (1..n), NEW k \in 1..Cardinality(S)
  PROVE  \E i \in S : UpTo(S, i) = k
<1> DEFINE M == {m \in 1..n : UpTo(S, m) >= k}
<1>1. Cardinality(S) \in Nat /\ k \in Nat /\ k >= 1
  BY UpToFacts
<1>2. n \in M
  <2>1. n # 0
    BY <1>1, UpToFacts
  <2> QED BY <1>1, <2>1, UpToFacts
<1>3. PICK m \in M : \A x \in M : m <= x
  <2>1. M \in SUBSET Nat /\ M # {}
    BY <1>2
  <2> HIDE DEF M
  <2> QED BY <2>1, LeastNatural
<1>4. m \in 1..n /\ m - 1 \in 0..n /\ UpTo(S, m) >= k
  BY <1>3
<1>5. UpTo(S, m - 1) < k
  <2>1. CASE m = 1
    BY <2>1, <1>1, UpToFacts
  <2>2. CASE m # 1
    <3>1. m - 1 \notin M
      BY <1>3, <1>4
    <3>2. m - 1 \in 1..n /\ UpTo(S, m - 1) \in Nat
      BY <2>2, <1>4, UpToFacts
    <3> QED BY <3>1, <3>2, <1>1
  <2> QED BY <2>1, <2>2
<1> HIDE DEF M
<1>6. UpTo(S, m) = IF m \in S THEN UpTo(S, m - 1) + 1 ELSE UpTo(S, m - 1)
  <2>1. \A i \in 1..n : UpTo(S, i) = IF i \in S THEN UpTo(S, i - 1) + 1 ELSE UpTo(S, i - 1)
    BY UpToFacts
  <2> QED BY <1>4, <2>1
<1>7. UpTo(S, m - 1) \in Nat
  <2>1. \A i \in 0..n : UpTo(S, i) \in Nat
    BY UpToFacts
  <2> QED BY <1>4, <2>1
<1>8. m \in S /\ UpTo(S, m) = k
  BY <1>1, <1>4, <1>5, <1>6, <1>7
<1> QED BY <1>8

(* The positions RemovePR keeps, and what it makes of them. *)
Kept(q, pr) == {i \in 1..Len(q) : q[i].pr # pr}

Nth(S, k) == CHOOSE i \in S : UpTo(S, i) = k

LEMMA NthFacts ==
  ASSUME NEW n \in Nat, NEW S \in SUBSET (1..n)
  PROVE  /\ \A k \in 1..Cardinality(S) : Nth(S, k) \in S /\ UpTo(S, Nth(S, k)) = k
         /\ \A k, l \in 1..Cardinality(S) : k < l => Nth(S, k) < Nth(S, l)
         /\ \A i \in S : UpTo(S, i) \in 1..Cardinality(S) /\ Nth(S, UpTo(S, i)) = i
<1>1. /\ Cardinality(S) \in Nat
      /\ \A i \in 0..n : UpTo(S, i) \in Nat
      /\ UpTo(S, n) = Cardinality(S)
      /\ \A i, j \in 0..n : i <= j => UpTo(S, i) <= UpTo(S, j)
      /\ \A i \in S : UpTo(S, i) = UpTo(S, i - 1) + 1
  BY UpToFacts
<1>2. \A k \in 1..Cardinality(S) : Nth(S, k) \in S /\ UpTo(S, Nth(S, k)) = k
  BY NthExists DEF Nth
<1>3. ASSUME NEW i \in S, NEW j \in S, i < j
      PROVE  UpTo(S, i) < UpTo(S, j)
  <2>1. i \in 0..n /\ j - 1 \in 0..n /\ i <= j - 1
    BY <1>3
  <2>2. UpTo(S, i) <= UpTo(S, j - 1) /\ UpTo(S, j) = UpTo(S, j - 1) + 1
    BY <1>1, <2>1
  <2>3. UpTo(S, i) \in Nat /\ UpTo(S, j - 1) \in Nat
    BY <1>1, <2>1
  <2> QED BY <2>2, <2>3
<1>4. ASSUME NEW k \in 1..Cardinality(S), NEW l \in 1..Cardinality(S), k < l
      PROVE  Nth(S, k) < Nth(S, l)
  <2>1. /\ Nth(S, k) \in S /\ UpTo(S, Nth(S, k)) = k
        /\ Nth(S, l) \in S /\ UpTo(S, Nth(S, l)) = l
    BY <1>2
  <2>2. Nth(S, k) \in 0..n /\ Nth(S, l) \in 0..n
    <3>1. \A i \in S : i \in 0..n
      OBVIOUS
    <3> QED BY <2>1, <3>1
  <2>3. ~(Nth(S, l) <= Nth(S, k))
    <3>1. Nth(S, l) <= Nth(S, k) => l <= k
      BY <1>1, <2>1, <2>2
    <3> QED BY <3>1, <1>4, <1>1
  <2> QED BY <2>2, <2>3
<1>5. ASSUME NEW i \in S
      PROVE  UpTo(S, i) \in 1..Cardinality(S) /\ Nth(S, UpTo(S, i)) = i
  <2>1. i \in 1..n /\ i - 1 \in 0..n /\ i \in 0..n /\ n \in 0..n /\ i <= n
    OBVIOUS
  <2>2. UpTo(S, i) \in Nat /\ UpTo(S, i - 1) \in Nat /\ UpTo(S, i) <= UpTo(S, n)
    BY <1>1, <2>1
  <2>3. UpTo(S, i) \in 1..Cardinality(S)
    BY <1>1, <2>1, <2>2
  <2>4. Nth(S, UpTo(S, i)) \in S /\ UpTo(S, Nth(S, UpTo(S, i))) = UpTo(S, i)
    BY <1>2, <2>3
  <2>5. ~(Nth(S, UpTo(S, i)) < i) /\ ~(i < Nth(S, UpTo(S, i)))
    <3>1. \A a, b \in S : a < b => UpTo(S, a) < UpTo(S, b)
      BY <1>3
    <3>2. ~(UpTo(S, i) < UpTo(S, i))
      BY <2>2
    <3> QED BY <2>4, <3>1, <3>2
  <2>6. Nth(S, UpTo(S, i)) \in 1..n
    BY <2>4
  <2> QED BY <2>1, <2>3, <2>5, <2>6
<1> QED BY <1>2, <1>4, <1>5

(* removePR keeps exactly the entries of the other pull requests, in order.  *)
LEMMA RemovePRFacts ==
  ASSUME NEW q \in Seq(QueueItem), NEW pr,
         NEW out, out = RemovePR(q, pr)
  PROVE  /\ out \in Seq(QueueItem)
         /\ \E f \in [1..Len(out) -> Kept(q, pr)] :
              /\ \A k \in 1..Len(out) : out[k] = q[f[k]]
              /\ \A k, l \in 1..Len(out) : k < l => f[k] < f[l]
              /\ \A i \in Kept(q, pr) : \E k \in 1..Len(out) : f[k] = i
<1> DEFINE S == Kept(q, pr)
           c == Cardinality(S)
<1>1. Len(q) \in Nat /\ S \in SUBSET (1..Len(q))
  BY DEF Kept
<1>2. c \in Nat
  BY <1>1, UpToFacts
<1>3. out = [k \in 1..c |-> q[Nth(S, k)]]
  BY DEF RemovePR, Kept, Nth, UpTo
<1> HIDE DEF S
<1>4. /\ \A k \in 1..c : Nth(S, k) \in S
      /\ \A k, l \in 1..c : k < l => Nth(S, k) < Nth(S, l)
      /\ \A i \in S : UpTo(S, i) \in 1..c /\ Nth(S, UpTo(S, i)) = i
  BY <1>1, NthFacts
<1>5. \A k \in 1..c : q[Nth(S, k)] \in QueueItem
  <2>1. \A i \in S : i \in 1..Len(q)
    BY <1>1
  <2>2. \A i \in 1..Len(q) : q[i] \in QueueItem
    OBVIOUS
  <2> QED BY <1>4, <2>1, <2>2
<1> HIDE DEF c
<1>6. out \in Seq(QueueItem) /\ Len(out) = c
  BY <1>2, <1>3, <1>5
<1> DEFINE f == [k \in 1..c |-> Nth(S, k)]
<1>7. f \in [1..c -> S]
  BY <1>4
<1>8. \A k \in 1..c : out[k] = q[f[k]]
  BY <1>3
<1>9. \A k, l \in 1..c : k < l => f[k] < f[l]
  BY <1>4
<1>10. \A i \in S : \E k \in 1..c : f[k] = i
  BY <1>4
<1> HIDE DEF f
<1> QED BY <1>6, <1>7, <1>8, <1>9, <1>10 DEF S

-----------------------------------------------------------------------------
(* Single transitions keep a lock well formed. *)

Distinct(q) == \A i, j \in 1..Len(q) : q[i].pr = q[j].pr => i = j

Waits(q, pr) == \E i \in 1..Len(q) : q[i].pr = pr

LEMMA RemoveKeepsOrder ==
  ASSUME NEW q \in Seq(QueueItem), NEW pr, Distinct(q)
  PROVE  /\ RemovePR(q, pr) \in Seq(QueueItem)
         /\ Distinct(RemovePR(q, pr))
         /\ ~Waits(RemovePR(q, pr), pr)
         /\ \A p \in PR : Waits(RemovePR(q, pr), p) => Waits(q, p)
<1> DEFINE out == RemovePR(q, pr)
<1>1. out \in Seq(QueueItem)
  BY RemovePRFacts
<1>2. PICK f \in [1..Len(out) -> Kept(q, pr)] :
        /\ \A k \in 1..Len(out) : out[k] = q[f[k]]
        /\ \A k, l \in 1..Len(out) : k < l => f[k] < f[l]
  BY RemovePRFacts
<1> HIDE DEF out
<1>3. \A k \in 1..Len(out) : f[k] \in 1..Len(q) /\ q[f[k]].pr # pr
  BY <1>2 DEF Kept
<1>4. ASSUME NEW k \in 1..Len(out), NEW l \in 1..Len(out), out[k].pr = out[l].pr
      PROVE  k = l
  <2>1. f[k] = f[l]
    BY <1>2, <1>3, <1>4 DEF Distinct
  <2>2. ~(f[k] < f[l]) /\ ~(f[l] < f[k])
    BY <2>1, <1>3
  <2>3. ~(k < l) /\ ~(l < k)
    BY <1>2, <2>2
  <2>4. Len(out) \in Nat
    BY <1>1
  <2> QED BY <2>3, <2>4
<1>5. Distinct(out)
  BY <1>4 DEF Distinct
<1>6. ~Waits(out, pr)
  BY <1>2, <1>3 DEF Waits
<1>7. \A p \in PR : Waits(out, p) => Waits(q, p)
  BY <1>2, <1>3 DEF Waits
<1> QED BY <1>1, <1>5, <1>6, <1>7 DEF out

LEMMA StampType == ASSUME NEW t \in Nat PROVE Stamp(t) \in Nat
<1>1. t % Second \in Nat /\ t % Second <= t
  BY SecondAssumption
<1> QED BY <1>1 DEF Stamp

(* A later reading of a clock is not stored as an earlier time. *)
LEMMA StampMonotone ==
  ASSUME NEW a \in Nat, NEW b \in Nat, a <= b
  PROVE  Stamp(a) <= Stamp(b)
<1> DEFINE S == Second
           qa == a \div S
           qb == b \div S
           ra == a % S
           rb == b % S
<1>1. S \in Nat /\ S >= 1
  BY SecondAssumption
<1>2. /\ qa \in Int /\ qb \in Int /\ ra \in 0..(S - 1) /\ rb \in 0..(S - 1)
      /\ a = S * qa + ra /\ b = S * qb + rb
  BY <1>1
<1> HIDE DEF qa, qb, S
<1>3. ASSUME qa > qb PROVE FALSE
  <2>1. qa >= qb + 1
    BY <1>2, <1>3
  <2>2. S * qa >= S * (qb + 1)
    <3>1. \A x, y, z \in Int : x >= 0 /\ y >= z => x * y >= x * z
      OBVIOUS
    <3>2. qb + 1 \in Int /\ S \in Int /\ S >= 0
      BY <1>1, <1>2
    <3> QED BY <1>2, <2>1, <3>1, <3>2
  <2>3. S * (qb + 1) = S * qb + S
    <3>1. \A x, y \in Int : x * (y + 1) = x * y + x
      OBVIOUS
    <3> QED BY <1>1, <1>2, <3>1
  <2>4. S * qb \in Int /\ S * qa \in Int
    BY <1>1, <1>2
  <2> QED BY <1>1, <1>2, <2>2, <2>3, <2>4
<1>4. qa <= qb
  BY <1>2, <1>3
<1>5. S * qa <= S * qb
  <2>1. \A x, y, z \in Int : x >= 0 /\ y <= z => x * y <= x * z
    OBVIOUS
  <2> QED BY <1>1, <1>2, <1>4, <2>1
<1>6. Stamp(a) = S * qa /\ Stamp(b) = S * qb
  <2>1. S * qb \in Int /\ S * qa \in Int
    BY <1>1, <1>2
  <2>2. a - ra = S * qa /\ b - rb = S * qb
    BY <1>1, <1>2, <2>1
  <2> QED BY <2>2 DEF Stamp, S
<1> QED BY <1>5, <1>6

(* LockOK in terms of the queue alone. *)
LEMMA LockOKDef ==
  ASSUME NEW l
  PROVE  LockOK(l) <=> /\ l \in Lock
                       /\ Distinct(l.queue)
                       /\ Held(l) => ~Waits(l.queue, l.holder.pr)
                       /\ ~Held(l) => l.queue = << >>
BY DEF LockOK, QueueUnique, NoIdleQueue, Distinct, Waits, Queued

LEMMA PromoteNextOK ==
  ASSUME NEW l \in Lock, ~Held(l), Distinct(l.queue), NEW t \in Nat, NEW ttl \in Nat
  PROVE  LockOK(PromoteNext(l, t, ttl))
<1>1. CASE l.queue = << >>
  <2>1. PromoteNext(l, t, ttl) = l
    BY <1>1 DEF PromoteNext
  <2> QED BY <1>1, <2>1, LockOKDef
<1>2. CASE l.queue # << >>
  <2> DEFINE q == l.queue
             h == [pr |-> Head(q).pr, run |-> Head(q).run,
                   expires |-> Stamp(t + ttl), promoted |-> TRUE]
             n == [holder |-> h, queue |-> Tail(q)]
  <2>1. PromoteNext(l, t, ttl) = n
    BY <1>2 DEF PromoteNext
  <2>2. q \in Seq(QueueItem) /\ q # << >>
    BY <1>2 DEF Lock
  <2> HIDE DEF q
  <2>3. /\ Len(q) \in Nat /\ Len(q) >= 1
        /\ Head(q) = q[1] /\ q[1] \in QueueItem
        /\ Tail(q) \in Seq(QueueItem) /\ Len(Tail(q)) = Len(q) - 1
        /\ \A i \in 1..Len(Tail(q)) : Tail(q)[i] = q[i + 1] /\ i + 1 \in 1..Len(q)
    BY <2>2
  <2>4. h \in Holder
    <3>1. Stamp(t + ttl) \in Nat
      BY StampType
    <3> QED BY <2>3, <3>1 DEF Holder, QueueItem, ExpiresAt
  <2>5. Distinct(Tail(q)) /\ ~Waits(Tail(q), Head(q).pr)
    <3>1. \A i, j \in 1..Len(q) : q[i].pr = q[j].pr => i = j
      BY DEF Distinct, q
    <3>2. ASSUME NEW i \in 1..Len(Tail(q)), NEW j \in 1..Len(Tail(q)),
                 Tail(q)[i].pr = Tail(q)[j].pr
          PROVE  i = j
      <4>1. i + 1 = j + 1
        BY <2>3, <3>1, <3>2
      <4> QED BY <4>1, <2>3
    <3>3. ASSUME NEW i \in 1..Len(Tail(q)) PROVE Tail(q)[i].pr # q[1].pr
      <4>1. 1 \in 1..Len(q) /\ i + 1 \in 1..Len(q) /\ i + 1 # 1
        BY <2>3
      <4> QED BY <4>1, <2>3, <3>1
    <3> QED BY <2>3, <3>2, <3>3 DEF Distinct, Waits
  <2>6. n \in Lock /\ n.holder = h /\ n.queue = Tail(q) /\ h.pr = Head(q).pr
    BY <2>3, <2>4 DEF Lock
  <2>7. Held(n)
    BY <2>4, <2>6, HolderAssumption DEF Held
  <2> HIDE DEF n, h
  <2> QED BY <2>1, <2>5, <2>6, <2>7, LockOKDef
<1> QED BY <1>1, <1>2

LEMMA VacateOK ==
  ASSUME NEW l, LockOK(l), NEW t \in Nat
  PROVE  LockOK(Vacate(l, t, TTL))
<1> DEFINE free == [l EXCEPT !.holder = NoHolder]
<1>1. l \in Lock /\ Distinct(l.queue)
  BY LockOKDef
<1>2. free \in Lock /\ free.queue = l.queue /\ ~Held(free)
  BY <1>1 DEF Lock, Held
<1>3. PromoteTTL(TTL) \in Nat
  BY TTLAssumption DEF PromoteTTL
<1> HIDE DEF free
<1>4. LockOK(PromoteNext(free, t, PromoteTTL(TTL)))
  BY <1>1, <1>2, <1>3, PromoteNextOK
<1> QED BY <1>4 DEF Vacate, free

LEMMA EvictOK ==
  ASSUME NEW l, LockOK(l), NEW t \in Nat
  PROVE  LockOK(EvictIfExpired(l, t, TTL))
BY VacateOK DEF EvictIfExpired

(* The entries of pr leave the queue of a lock that pr may hold. *)
LEMMA DequeueOK ==
  ASSUME NEW l, LockOK(l), NEW pr
  PROVE  LockOK([l EXCEPT !.queue = RemovePR(@, pr)])
<1> DEFINE q == l.queue
           n == [l EXCEPT !.queue = RemovePR(@, pr)]
<1>1. /\ l \in Lock /\ Distinct(q)
      /\ Held(l) => ~Waits(q, l.holder.pr)
      /\ ~Held(l) => q = << >>
  BY LockOKDef
<1>2. q \in Seq(QueueItem)
  BY <1>1 DEF Lock
<1> HIDE DEF q
<1>3. /\ RemovePR(q, pr) \in Seq(QueueItem) /\ Distinct(RemovePR(q, pr))
      /\ \A p \in PR : Waits(RemovePR(q, pr), p) => Waits(q, p)
  BY <1>1, <1>2, RemoveKeepsOrder
<1>4. n.queue = RemovePR(q, pr) /\ n.holder = l.holder /\ n \in Lock
  BY <1>1, <1>3 DEF Lock, q
<1>5. Held(l) => l.holder.pr \in PR
  BY <1>1 DEF Lock, Holder, Held
<1>6. ~Held(n) => n.queue = << >>
  <2> SUFFICES ASSUME ~Held(n) PROVE n.queue = << >>
    OBVIOUS
  <2>1. q = << >>
    BY <1>1, <1>4 DEF Held
  <2>2. \A k \in 1..Len(RemovePR(q, pr)) : Waits(RemovePR(q, pr), RemovePR(q, pr)[k].pr)
                                         /\ RemovePR(q, pr)[k].pr \in PR
    <3>1. ASSUME NEW o \in Seq(QueueItem), NEW k \in 1..Len(o)
          PROVE  Waits(o, o[k].pr) /\ o[k].pr \in PR
      <4>1. o[k] \in QueueItem
        BY <3>1
      <4>2. o[k].pr \in PR
        BY <4>1 DEF QueueItem
      <4>3. Waits(o, o[k].pr)
        BY <3>1, Zenon DEF Waits
      <4> QED BY <4>2, <4>3
    <3> QED BY <1>3, <3>1
  <2>3. \A p : ~Waits(q, p)
    BY <2>1 DEF Waits
  <2>4. ~(1 \in 1..Len(RemovePR(q, pr)))
    BY <1>3, <2>2, <2>3
  <2> QED BY <1>3, <1>4, <2>4
<1> HIDE DEF n
<1>7. Held(n) <=> Held(l)
  BY <1>4 DEF Held
<1>8. LockOK(n)
  BY <1>1, <1>3, <1>4, <1>5, <1>6, <1>7, LockOKDef
<1> QED BY <1>8 DEF n

LEMMA InstallOK ==
  ASSUME NEW l, LockOK(l), NEW a, a.pr \in PR, a.run \in Run, NEW t \in Nat
  PROVE  LockOK(Install(l, a, TTL, t))
<1> DEFINE q == l.queue
           h == [pr |-> a.pr, run |-> a.run,
                 expires |-> Stamp(t + TTL), promoted |-> FALSE]
           n == [holder |-> h, queue |-> RemovePR(q, a.pr)]
<1>1. Distinct(q) /\ q \in Seq(QueueItem)
  BY LockOKDef DEF Lock
<1>2. h \in Holder
  <2>1. Stamp(t + TTL) \in Nat
    BY TTLAssumption, StampType
  <2> QED BY <2>1 DEF Holder, ExpiresAt
<1> HIDE DEF q
<1>3. /\ RemovePR(q, a.pr) \in Seq(QueueItem) /\ Distinct(RemovePR(q, a.pr))
      /\ ~Waits(RemovePR(q, a.pr), a.pr)
  BY <1>1, RemoveKeepsOrder
<1>4. /\ n \in Lock /\ n.holder = h /\ n.queue = RemovePR(q, a.pr)
      /\ h.pr = a.pr /\ Held(n)
  BY <1>2, <1>3, HolderAssumption DEF Lock, Held
<1>5. Install(l, a, TTL, t) = n
  BY DEF Install, q
<1> HIDE DEF n, h
<1> QED BY <1>3, <1>4, <1>5, LockOKDef

LEMMA EnqueueOK ==
  ASSUME NEW l, LockOK(l), NEW a, a.pr \in PR, a.run \in Run,
         Held(l), l.holder.pr # a.pr, ~Queued(l, a.pr)
  PROVE  LockOK(Enqueue(l, a))
<1> DEFINE q == l.queue
           e == [pr |-> a.pr, run |-> a.run]
           n == Enqueue(l, a)
<1>1. /\ l \in Lock /\ Distinct(q) /\ ~Waits(q, l.holder.pr) /\ ~Waits(q, a.pr)
  BY LockOKDef DEF Queued, Waits
<1>2. q \in Seq(QueueItem) /\ e \in QueueItem /\ e.pr = a.pr
  BY <1>1 DEF Lock, QueueItem
<1>3. n.queue = Append(q, e) /\ n.holder = l.holder /\ n \in Lock
  BY <1>1, <1>2 DEF Enqueue, Lock
<1> HIDE DEF q, e, n
<1>4. /\ Len(q) \in Nat /\ Len(Append(q, e)) = Len(q) + 1
      /\ \A i \in 1..Len(q) : Append(q, e)[i] = q[i]
      /\ Append(q, e)[Len(q) + 1] = e
  BY <1>2
<1>5. Distinct(Append(q, e)) /\ ~Waits(Append(q, e), l.holder.pr)
  BY <1>1, <1>2, <1>4 DEF Distinct, Waits
<1>6. Held(n)
  BY <1>3 DEF Held
<1>7. LockOK(n)
  BY <1>3, <1>5, <1>6, LockOKDef
<1> QED BY <1>7 DEF n

LEMMA TryAcquireOK ==
  ASSUME NEW lk, LockOK(lk), NEW a, a.pr \in PR, a.run \in Run, NEW t \in Nat
  PROVE  LockOK(TryAcquire(lk, a, TTL, t).lock)
<1> DEFINE l == EvictIfExpired(lk, t, TTL)
           r == [l EXCEPT !.holder.expires = Stamp(t + TTL), !.holder.promoted = FALSE]
<1>1. LockOK(l)
  BY EvictOK
<1> HIDE DEF l
<1>2. Held(l) => LockOK(r)
  <2> SUFFICES ASSUME Held(l) PROVE LockOK(r)
    OBVIOUS
  <2>1. l \in Lock /\ Distinct(l.queue) /\ ~Waits(l.queue, l.holder.pr)
    BY <1>1, LockOKDef
  <2>2. l.holder \in Holder /\ Stamp(t + TTL) \in Nat
    BY <2>1, TTLAssumption, StampType DEF Lock, Held
  <2>3. r.queue = l.queue /\ r.holder \in Holder /\ r.holder.pr = l.holder.pr
    BY <2>1, <2>2 DEF Lock, Holder, ExpiresAt
  <2>4. r \in Lock
    BY <2>1, <2>3 DEF Lock
  <2>5. Held(r)
    BY <2>3, HolderAssumption DEF Held
  <2> HIDE DEF r
  <2> QED BY <2>1, <2>3, <2>4, <2>5, LockOKDef
<1>3. LockOK(Install(l, a, TTL, t))
  BY <1>1, InstallOK
<1>4. Held(l) /\ l.holder.pr # a.pr /\ ~Queued(l, a.pr) => LockOK(Enqueue(l, a))
  BY <1>1, EnqueueOK
<1>5. Held(l) => l.holder.promoted \in BOOLEAN
  BY <1>1, LockOKDef DEF Lock, Holder, Held
<1> DEFINE out == TryAcquire(lk, a, TTL, t).lock
<1>6. \/ Held(l) /\ out = r
      \/ out = Install(l, a, TTL, t)
      \/ out = l
      \/ Held(l) /\ l.holder.pr # a.pr /\ ~Queued(l, a.pr) /\ out = Enqueue(l, a)
  BY <1>5, Zenon DEF TryAcquire, Result, l
<1> QED BY <1>1, <1>2, <1>3, <1>4, <1>6

LEMMA ReleaseOK ==
  ASSUME NEW lk, LockOK(lk), NEW pr, NEW run, NEW t \in Nat
  PROVE  LockOK(Release(lk, pr, run, TTL, t).lock)
<1> DEFINE l   == EvictIfExpired(lk, t, TTL)
           out == Release(lk, pr, run, TTL, t).lock
<1>1. LockOK(l)
  BY EvictOK
<1>2. \/ out = Vacate(l, t, TTL)
      \/ out = [l EXCEPT !.queue = RemovePR(@, pr)]
      \/ out = l
  BY Zenon DEF Release, Result
<1> HIDE DEF l
<1> QED BY <1>1, <1>2, VacateOK, DequeueOK

LEMMA UnlockPROK ==
  ASSUME NEW lk, LockOK(lk), NEW pr, NEW run, NEW t \in Nat
  PROVE  LockOK(UnlockPR(lk, pr, run, TTL, t))
<1>1. LockOK(Vacate(lk, t, TTL))
  BY VacateOK
<1> DEFINE out == UnlockPR(lk, pr, run, TTL, t)
<1>2. \/ out = [Vacate(lk, t, TTL) EXCEPT !.queue = RemovePR(@, pr)]
      \/ out = [lk EXCEPT !.queue = RemovePR(@, pr)]
  BY Zenon DEF UnlockPR
<1> HIDE DEF out
<1>3. LockOK(out)
  BY <1>1, <1>2, DequeueOK
<1> QED BY <1>3 DEF out

LEMMA ReapOK ==
  ASSUME NEW lk, LockOK(lk), NEW t \in Nat
  PROVE  LockOK(Reap(lk, TTL, t).lock)
BY VacateOK DEF Reap, Result

(* Every operation of the lock store keeps a lock well formed. *)
LEMMA TransitionOK ==
  ASSUME NEW lk, LockOK(lk), NEW req \in Request, NEW t \in Nat
  PROVE  LockOK(Transition(req, lk, t).lock)
<1>1. CASE req.kind = "acquire"
  <2>1. req.pr \in PR /\ req.run \in Run
    BY <1>1 DEF Request, AcquireReq, ReleaseReq, UnlockReq, ReapReq, ForceUnlockReq, Applicant
  <2>2. Transition(req, lk, t).lock = TryAcquire(lk, req, TTL, t).lock
    BY <1>1 DEF Transition, AcquireOp, Outcome
  <2> QED BY <2>1, <2>2, TryAcquireOK
<1>2. CASE req.kind = "release"
  <2>1. Transition(req, lk, t).lock = Release(lk, req.pr, req.run, TTL, t).lock
    BY <1>2 DEF Transition, ReleaseOp, Outcome
  <2> QED BY <2>1, ReleaseOK
<1>3. CASE req.kind = "unlock"
  <2>1. \/ Transition(req, lk, t).lock = lk
        \/ Transition(req, lk, t).lock = UnlockPR(lk, req.pr, req.run, TTL, t)
    BY <1>3 DEF Transition, UnlockOp, Outcome
  <2> QED BY <2>1, UnlockPROK
<1>4. CASE req.kind = "reap"
  <2>1. Transition(req, lk, t).lock = Reap(lk, TTL, t).lock
    BY <1>4 DEF Transition, ReapOp, Outcome
  <2> QED BY <2>1, ReapOK
<1>5. CASE req.kind = "force_unlock"
  <2>1. Transition(req, lk, t).lock = Vacate(lk, t, TTL)
    BY <1>5 DEF Transition, ForceUnlockOp, ForceUnlock, Outcome
  <2> QED BY <2>1, VacateOK
<1>6. req.kind \in {"acquire", "release", "unlock", "reap", "force_unlock"}
  BY DEF Request, AcquireReq, ReleaseReq, UnlockReq, ReapReq, ForceUnlockReq
<1> QED BY <1>1, <1>2, <1>3, <1>4, <1>5, <1>6

LEMMA NewLockOK == LockOK(NewLock)
<1>1. NewLock \in Lock /\ NewLock.queue = << >> /\ ~Held(NewLock)
  BY DEF NewLock, Lock, Held
<1>2. Distinct(NewLock.queue)
  BY <1>1 DEF Distinct
<1> QED BY <1>1, <1>2, LockOKDef

-----------------------------------------------------------------------------
(* Who holds a lock after a transition. *)

(* r holds l as a run that acquired it, not as one that was promoted. *)
Active(l, r) == Held(l) /\ l.holder.run = r /\ ~l.holder.promoted

LEMMA FreshKept ==
  ASSUME NEW l, NEW t, Held(l), ~Expired(l.holder, t)
  PROVE  EvictIfExpired(l, t, TTL) = l
BY DEF EvictIfExpired

(* The holder an acquire installs or refreshes. *)
AcquiredBy(n, a, t) ==
  Active(n, a.run) /\ n.holder.pr = a.pr /\ n.holder.expires = Stamp(t + TTL)

(* A lock that is vacated has no holder or a promoted one. *)
LEMMA VacatedHolder ==
  ASSUME NEW l \in Lock, NEW t
  PROVE  Held(Vacate(l, t, TTL)) => Vacate(l, t, TTL).holder.promoted
<1> DEFINE free == [l EXCEPT !.holder = NoHolder]
<1>1. ~Held(free)
  BY DEF Lock, Held
<1> HIDE DEF free
<1>2. \A ttl : Held(PromoteNext(free, t, ttl)) => PromoteNext(free, t, ttl).holder.promoted
  BY <1>1 DEF PromoteNext
<1> QED BY <1>2 DEF Vacate, free

LEMMA EvictedHolder ==
  ASSUME NEW l \in Lock, NEW t
  PROVE  LET n == EvictIfExpired(l, t, TTL)
         IN  Held(n) => n.holder.promoted \/ (Held(l) /\ n.holder = l.holder)
BY VacatedHolder DEF EvictIfExpired

(* TryAcquire tells its caller that it acquired the lock iff it installed or *)
(* refreshed that caller; otherwise the holder is the one that was there, or *)
(* was promoted when an expired one was evicted.                             *)
LEMMA AcquireHolder ==
  ASSUME NEW lk, LockOK(lk), NEW a, a.pr \in PR, a.run \in Run, NEW t \in Nat
  PROVE  LET out == TryAcquire(lk, a, TTL, t)
         IN  IF out.ok THEN AcquiredBy(out.lock, a, t)
             ELSE out.lock.holder = EvictIfExpired(lk, t, TTL).holder
<1> DEFINE l == EvictIfExpired(lk, t, TTL)
           r == [l EXCEPT !.holder.expires = Stamp(t + TTL), !.holder.promoted = FALSE]
           i == Install(l, a, TTL, t)
           out == TryAcquire(lk, a, TTL, t)
<1>1. LockOK(l)
  BY EvictOK
<1>2. Held(l) => l.holder.promoted \in BOOLEAN
  BY <1>1, LockOKDef DEF Lock, Holder, Held
<1>3. \/ Held(l) /\ l.holder.pr = a.pr /\ l.holder.run = a.run /\ out.lock = r /\ out.ok = TRUE
      \/ out.lock = i /\ out.ok = TRUE
      \/ out.lock = l /\ out.ok = FALSE
      \/ out.lock = Enqueue(l, a) /\ out.ok = FALSE
  BY <1>2, Zenon DEF TryAcquire, Result, l
<1> HIDE DEF l, out
<1>4. l \in Lock /\ Stamp(t + TTL) \in Nat
  BY <1>1, TTLAssumption, StampType DEF LockOK
<1>5. ASSUME Held(l), l.holder.pr = a.pr, l.holder.run = a.run PROVE AcquiredBy(r, a, t)
  <2>1. l.holder \in Holder
    BY <1>4, <1>5 DEF Lock, Held
  <2>2. /\ r.holder \in Holder /\ r.holder.pr = a.pr /\ r.holder.run = a.run
        /\ r.holder.expires = Stamp(t + TTL) /\ r.holder.promoted = FALSE
    BY <1>4, <1>5, <2>1 DEF Lock, Holder, ExpiresAt
  <2> QED BY <2>2, HolderAssumption DEF AcquiredBy, Active, Held
<1>6. AcquiredBy(i, a, t)
  <2>1. /\ i.holder \in Holder /\ i.holder.pr = a.pr /\ i.holder.run = a.run
        /\ i.holder.expires = Stamp(t + TTL) /\ i.holder.promoted = FALSE
    BY <1>4 DEF Install, Holder, ExpiresAt
  <2> QED BY <2>1, HolderAssumption DEF AcquiredBy, Active, Held
<1>7. Enqueue(l, a).holder = l.holder
  BY <1>4 DEF Enqueue, Lock
<1> HIDE DEF r, i
<1> QED BY <1>3, <1>5, <1>6, <1>7 DEF l, out

(* An acquired lock after a transition was acquired before it, or by it. *)
LEMMA ActiveComesFrom ==
  ASSUME NEW l, LockOK(l), NEW req \in Request, NEW t \in Nat, NEW r \in Run,
         NEW n, n = Transition(req, l, t).lock, Active(n, r)
  PROVE  \/ Held(l) /\ n.holder = l.holder
         \/ req.kind = "acquire" /\ req.run = r /\ n.holder.expires = Stamp(t + TTL)
<1> DEFINE e == EvictIfExpired(l, t, TTL)
<1>0. l \in Lock /\ LockOK(e) /\ e \in Lock
  BY EvictOK DEF LockOK
<1>1. Held(n) /\ n.holder.run = r /\ ~n.holder.promoted
  BY DEF Active
<1> HIDE DEF e
<1>2. n.holder = e.holder => Held(l) /\ n.holder = l.holder
  BY <1>0, <1>1, EvictedHolder DEF Held, e
<1>3. /\ \A x \in Lock : n.holder # Vacate(x, t, TTL).holder
      /\ \A x \in Lock : n.holder = x.holder => Held(x)
  BY <1>1, VacatedHolder DEF Held
<1>4. CASE req.kind = "acquire"
  <2>1. req.pr \in PR /\ req.run \in Run
    BY <1>4 DEF Request, AcquireReq, ReleaseReq, UnlockReq, ReapReq, ForceUnlockReq, Applicant
  <2>2. n = TryAcquire(l, req, TTL, t).lock
    BY <1>4 DEF Transition, AcquireOp, Outcome
  <2>3. AcquiredBy(n, req, t) \/ n.holder = e.holder
    BY <2>1, <2>2, AcquireHolder DEF e
  <2>4. AcquiredBy(n, req, t) => req.run = r /\ n.holder.expires = Stamp(t + TTL)
    BY <1>1 DEF AcquiredBy, Active
  <2> QED BY <1>2, <1>4, <2>3, <2>4
<1>5. CASE req.kind = "release"
  <2>1. n = Release(l, req.pr, req.run, TTL, t).lock
    BY <1>5 DEF Transition, ReleaseOp, Outcome
  <2>2. n = Vacate(e, t, TTL) \/ n = [e EXCEPT !.queue = RemovePR(@, req.pr)] \/ n = e
    BY <2>1, Zenon DEF Release, Result, e
  <2>3. [e EXCEPT !.queue = RemovePR(@, req.pr)].holder = e.holder
    BY <1>0 DEF Lock
  <2> QED BY <1>0, <1>2, <1>3, <2>2, <2>3
<1>6. CASE req.kind = "unlock"
  <2> DEFINE v == Vacate(l, t, TTL)
  <2>1. n = l \/ n = UnlockPR(l, req.pr, req.run, TTL, t)
    BY <1>6 DEF Transition, UnlockOp, Outcome
  <2>2. \/ n = [v EXCEPT !.queue = RemovePR(@, req.pr)]
        \/ n = [l EXCEPT !.queue = RemovePR(@, req.pr)]
        \/ n = l
    BY <2>1, Zenon DEF UnlockPR
  <2>3. v \in Lock
    BY VacateOK DEF LockOK
  <2> HIDE DEF v
  <2>4. \A x \in Lock : [x EXCEPT !.queue = RemovePR(@, req.pr)].holder = x.holder
    BY DEF Lock
  <2>5. n.holder = v.holder \/ n.holder = l.holder
    BY <1>0, <2>2, <2>3, <2>4
  <2> QED BY <1>0, <1>3, <2>5 DEF v
<1>7. CASE req.kind = "reap"
  <2>1. n = l \/ n = Vacate(l, t, TTL)
    BY <1>7 DEF Transition, ReapOp, Reap, Result, Outcome
  <2> QED BY <1>0, <1>3, <2>1
<1>8. CASE req.kind = "force_unlock"
  <2>1. n = Vacate(l, t, TTL)
    BY <1>8 DEF Transition, ForceUnlockOp, ForceUnlock, Outcome
  <2> QED BY <1>0, <1>3, <2>1
<1>9. req.kind \in {"acquire", "release", "unlock", "reap", "force_unlock"}
  BY DEF Request, AcquireReq, ReleaseReq, UnlockReq, ReapReq, ForceUnlockReq
<1> QED BY <1>4, <1>5, <1>6, <1>7, <1>8, <1>9

(* Nobody but the holder itself takes a lock whose lease still runs, if no   *)
(* administrator overrides: every other request leaves the holder in place.  *)
LEMMA FreshHolderStays ==
  ASSUME NEW l, LockOK(l), NEW req \in Request, NEW t \in Nat,
         NEW r \in Run, Active(l, r), ~Expired(l.holder, t),
         req.kind # "force_unlock",
         req.kind \in {"release", "unlock"} => req.run \notin {r, AnyRun},
         NEW n, n = Transition(req, l, t).lock
  PROVE  \/ n.holder = l.holder
         \/ req.kind = "acquire" /\ req.run = r /\ Transition(req, l, t).ok
<1> DEFINE d == [l EXCEPT !.queue = RemovePR(@, req.pr)]
<1>1. l \in Lock /\ Held(l) /\ l.holder.run = r /\ ~l.holder.promoted
  BY DEF LockOK, Active
<1>2. EvictIfExpired(l, t, TTL) = l
  BY <1>1, FreshKept
<1>3. d.holder = l.holder
  BY <1>1 DEF Lock
<1> HIDE DEF d
<1>4. CASE req.kind = "acquire"
  <2> DEFINE out == TryAcquire(l, req, TTL, t)
  <2>1. req.run \in Run /\ req.pr \in PR
    BY <1>4 DEF Request, AcquireReq, ReleaseReq, UnlockReq, ReapReq, ForceUnlockReq, Applicant
  <2>2. n = out.lock /\ Transition(req, l, t).ok = out.ok
    BY <1>4 DEF Transition, AcquireOp, Outcome
  <2>3. out.ok = FALSE \/ (out.ok = TRUE /\ req.run = r)
    BY <1>1, <1>2, Zenon DEF TryAcquire, Result
  <2>4. IF out.ok THEN AcquiredBy(out.lock, req, t) ELSE out.lock.holder = l.holder
    BY <1>2, <2>1, AcquireHolder
  <2> HIDE DEF out
  <2> QED BY <1>4, <2>2, <2>3, <2>4
<1>5. CASE req.kind = "release"
  <2>1. n = Release(l, req.pr, req.run, TTL, t).lock
    BY <1>5 DEF Transition, ReleaseOp, Outcome
  <2>2. n = d \/ n = l
    BY <1>1, <1>2, <1>5, <2>1, Zenon DEF Release, Result, d
  <2> QED BY <1>3, <2>2
<1>6. CASE req.kind = "unlock"
  <2>1. UnlockPR(l, req.pr, req.run, TTL, t) = d
    BY <1>1, <1>6, Zenon DEF UnlockPR, d
  <2>2. n = l \/ n = d
    BY <1>6, <2>1 DEF Transition, UnlockOp, Outcome
  <2> QED BY <1>3, <2>2
<1>7. CASE req.kind = "reap"
  BY <1>7 DEF Transition, ReapOp, Reap, Result, Outcome
<1>8. req.kind \in {"acquire", "release", "unlock", "reap", "force_unlock"}
  BY DEF Request, AcquireReq, ReleaseReq, UnlockReq, ReapReq, ForceUnlockReq
<1> QED BY <1>4, <1>5, <1>6, <1>7, <1>8

(* After a run released a lock under the name it took it with, the run is    *)
(* not its active holder.                                                    *)
LEMMA ReleasedHolder ==
  ASSUME NEW l, LockOK(l), NEW a \in Applicant, NEW t \in Nat,
         Active(l, a.run) => l.holder.pr = a.pr
  PROVE  ~Active(Transition(ReleaseReq(a), l, t).lock, a.run)
<1> DEFINE e == EvictIfExpired(l, t, TTL)
           n == Release(l, a.pr, a.run, TTL, t).lock
<1>1. l \in Lock /\ e \in Lock
  BY EvictOK DEF LockOK
<1>2. Transition(ReleaseReq(a), l, t).lock = n
  BY DEF Transition, ReleaseOp, ReleaseReq, Outcome
<1>3. \/ n = Vacate(e, t, TTL)
      \/ /\ ~(Held(e) /\ e.holder.pr = a.pr /\ e.holder.run = a.run)
         /\ n = [e EXCEPT !.queue = RemovePR(@, a.pr)] \/ n = e
  BY Zenon DEF Release, Result
<1>4. Active(e, a.run) => Active(l, a.run) /\ e.holder = l.holder
  BY <1>1, EvictedHolder DEF Active
<1>5. ~Active(Vacate(e, t, TTL), a.run)
  BY <1>1, VacatedHolder DEF Active
<1> HIDE DEF e, n
<1>6. [e EXCEPT !.queue = RemovePR(@, a.pr)].holder = e.holder
  BY <1>1 DEF Lock
<1>7. ASSUME n # Vacate(e, t, TTL), Active(n, a.run) PROVE FALSE
  <2>1. n.holder = e.holder
    BY <1>3, <1>6, <1>7
  <2>2. Active(e, a.run)
    BY <1>7, <2>1 DEF Active, Held
  <2>3. e.holder.pr = a.pr
    BY <1>4, <2>2
  <2> QED BY <1>3, <1>7, <2>2, <2>3 DEF Active
<1> QED BY <1>2, <1>5, <1>7

(* Who is told to have a lock is told so without an error. *)
LEMMA AcquiredIsNoError ==
  ASSUME NEW l, LockOK(l), NEW a \in Applicant, NEW t \in Nat,
         NEW out, out = Transition(AcquireReq(a), l, t)
  PROVE  /\ out.ok \in BOOLEAN
         /\ out.ok => out.err = "none" /\ AcquiredBy(out.lock, a, t)
         /\ ~out.ok => out.lock.holder = EvictIfExpired(l, t, TTL).holder
<1> DEFINE req == AcquireReq(a)
           res == TryAcquire(l, req, TTL, t)
           e   == EvictIfExpired(l, t, TTL)
<1>1. req.kind = "acquire" /\ req.pr = a.pr /\ req.run = a.run /\ a.pr \in PR /\ a.run \in Run
  BY DEF AcquireReq, Applicant
<1> HIDE DEF req
<1>2. /\ out.lock = res.lock /\ out.ok = res.ok
      /\ out.err = IF res.err = "ErrAlreadyHolder" THEN "none" ELSE res.err
  BY <1>1 DEF Transition, AcquireOp, Outcome, req
<1>3. LockOK(e)
  BY EvictOK
<1>4. Held(e) => e.holder.promoted \in BOOLEAN
  BY <1>3, LockOKDef DEF Lock, Holder, Held
<1>5. \/ res.ok = TRUE /\ res.err \in {"ErrAlreadyHolder", "none"}
      \/ res.ok = FALSE
  BY <1>4, Zenon DEF TryAcquire, Result
<1>6. IF res.ok THEN AcquiredBy(res.lock, req, t) ELSE res.lock.holder = e.holder
  BY <1>1, AcquireHolder
<1>7. AcquiredBy(res.lock, req, t) => AcquiredBy(res.lock, a, t)
  BY <1>1 DEF AcquiredBy
<1> HIDE DEF res, e
<1> QED BY <1>2, <1>5, <1>6, <1>7 DEF e

-----------------------------------------------------------------------------
(* Whom a lock names, as holder or waiter: run r, as one of pull request p. *)

WaitsAs(q, p, r) == \E i \in 1..Len(q) : q[i].pr = p /\ q[i].run = r

NamesAs(l, p, r) ==
  (Held(l) /\ l.holder.pr = p /\ l.holder.run = r) \/ WaitsAs(l.queue, p, r)

Names(l, r) ==
  (Held(l) /\ l.holder.run = r) \/ \E i \in 1..Len(l.queue) : l.queue[i].run = r

LEMMA NamesAsSome ==
  ASSUME NEW l, NEW r
  PROVE  Names(l, r) <=> \E p : NamesAs(l, p, r)
BY DEF Names, NamesAs, WaitsAs

LEMMA RemoveNames ==
  ASSUME NEW q \in Seq(QueueItem), NEW pr, NEW p, NEW r, WaitsAs(RemovePR(q, pr), p, r)
  PROVE  WaitsAs(q, p, r)
<1> DEFINE out == RemovePR(q, pr)
<1>1. PICK f \in [1..Len(out) -> Kept(q, pr)] : \A k \in 1..Len(out) : out[k] = q[f[k]]
  BY RemovePRFacts
<1> HIDE DEF out
<1>2. PICK k \in 1..Len(out) : out[k].pr = p /\ out[k].run = r
  BY DEF WaitsAs, out
<1>3. f[k] \in 1..Len(q) /\ q[f[k]].pr = p /\ q[f[k]].run = r
  BY <1>1, <1>2 DEF Kept
<1> QED BY <1>3 DEF WaitsAs

LEMMA DequeueNames ==
  ASSUME NEW l \in Lock, NEW pr, NEW p, NEW r, NamesAs([l EXCEPT !.queue = RemovePR(@, pr)], p, r)
  PROVE  NamesAs(l, p, r)
<1> DEFINE n == [l EXCEPT !.queue = RemovePR(@, pr)]
<1>1. n.holder = l.holder /\ n.queue = RemovePR(l.queue, pr) /\ l.queue \in Seq(QueueItem)
  BY DEF Lock
<1> HIDE DEF n
<1>2. NamesAs(n, p, r)
  BY DEF n
<1> QED BY <1>1, <1>2, RemoveNames DEF NamesAs, Held

LEMMA VacateNames ==
  ASSUME NEW l \in Lock, NEW t, NEW p, NEW r, NamesAs(Vacate(l, t, TTL), p, r)
  PROVE  NamesAs(l, p, r)
<1> DEFINE free == [l EXCEPT !.holder = NoHolder]
           q == l.queue
           n == Vacate(l, t, TTL)
<1>1. free.queue = q /\ free.holder = NoHolder /\ q \in Seq(QueueItem)
  BY DEF Lock
<1>2. \/ n = free /\ q = << >>
      \/ /\ q # << >> /\ n.queue = Tail(q)
         /\ n.holder.pr = Head(q).pr /\ n.holder.run = Head(q).run
  BY <1>1 DEF Vacate, PromoteNext, Held
<1> HIDE DEF free, n, q
<1>3. CASE n = free /\ q = << >>
  BY <1>1, <1>3 DEF NamesAs, WaitsAs, Held, n
<1>4. CASE /\ q # << >> /\ n.queue = Tail(q)
           /\ n.holder.pr = Head(q).pr /\ n.holder.run = Head(q).run
  <2>1. /\ Len(q) \in Nat /\ Len(q) >= 1 /\ Head(q) = q[1]
        /\ \A i \in 1..Len(Tail(q)) : Tail(q)[i] = q[i + 1] /\ i + 1 \in 1..Len(q)
    BY <1>1, <1>4
  <2>2. WaitsAs(q, p, r)
    BY <1>4, <2>1 DEF NamesAs, WaitsAs, n
  <2> QED BY <2>2 DEF NamesAs, q
<1> QED BY <1>2, <1>3, <1>4

(* A transition names nobody new but the run that asks for the lock. *)
LEMMA NamesComeFrom ==
  ASSUME NEW l, LockOK(l), NEW req \in Request, NEW t \in Nat, NEW p, NEW r,
         NEW n, n = Transition(req, l, t).lock, NamesAs(n, p, r)
  PROVE  NamesAs(l, p, r) \/ (req.kind = "acquire" /\ req.pr = p /\ req.run = r)
<1> DEFINE e == EvictIfExpired(l, t, TTL)
           v == Vacate(l, t, TTL)
<1>1. l \in Lock /\ LockOK(e) /\ e \in Lock /\ LockOK(v) /\ v \in Lock
  BY EvictOK, VacateOK DEF LockOK
<1>2. NamesAs(v, p, r) => NamesAs(l, p, r)
  BY <1>1, VacateNames
<1>3. NamesAs(e, p, r) => NamesAs(l, p, r)
  BY <1>1, <1>2 DEF EvictIfExpired
<1>4. ASSUME NEW k \in Lock, NEW pr, NamesAs([k EXCEPT !.queue = RemovePR(@, pr)], p, r)
      PROVE  NamesAs(k, p, r)
  BY <1>4, DequeueNames
<1> HIDE DEF e, v
<1>5. CASE req.kind = "acquire"
  <2> DEFINE f == [e EXCEPT !.holder.expires = Stamp(t + TTL), !.holder.promoted = FALSE]
             i == Install(e, req, TTL, t)
  <2>1. n = TryAcquire(l, req, TTL, t).lock
    BY <1>5 DEF Transition, AcquireOp, Outcome
  <2>2. Held(e) => e.holder.promoted \in BOOLEAN
    BY <1>1 DEF Lock, Holder, Held
  <2>3. (Held(e) /\ n = f) \/ n = i \/ n = e \/ n = Enqueue(e, req)
    BY <2>1, <2>2, Zenon DEF TryAcquire, Result, e
  <2>4. ASSUME Held(e), NamesAs(f, p, r) PROVE NamesAs(e, p, r)
    <3>1. e.holder \in Holder
      BY <1>1, <2>4 DEF Lock, Held
    <3>2. f.queue = e.queue /\ f.holder.pr = e.holder.pr /\ f.holder.run = e.holder.run
      BY <1>1, <3>1 DEF Lock, Holder
    <3> HIDE DEF f
    <3> QED BY <2>4, <3>2 DEF NamesAs
  <2>5. ASSUME NamesAs(i, p, r) PROVE NamesAs(e, p, r) \/ (req.pr = p /\ req.run = r)
    <3>1. /\ i.queue = RemovePR(e.queue, req.pr) /\ e.queue \in Seq(QueueItem)
          /\ i.holder.pr = req.pr /\ i.holder.run = req.run
      BY <1>1 DEF Install, Lock
    <3> HIDE DEF i
    <3> QED BY <2>5, <3>1, RemoveNames DEF NamesAs
  <2>6. ASSUME NamesAs(Enqueue(e, req), p, r) PROVE NamesAs(e, p, r) \/ (req.pr = p /\ req.run = r)
    <3> DEFINE q == e.queue
               x == [pr |-> req.pr, run |-> req.run]
               o == Enqueue(e, req)
    <3>1. /\ o.queue = Append(q, x) /\ o.holder = e.holder /\ q \in Seq(QueueItem)
          /\ x.pr = req.pr /\ x.run = req.run
      BY <1>1 DEF Enqueue, Lock
    <3> HIDE DEF q, x, o
    <3>2. /\ Len(q) \in Nat /\ Len(Append(q, x)) = Len(q) + 1
          /\ \A j \in 1..Len(q) : Append(q, x)[j] = q[j]
          /\ Append(q, x)[Len(q) + 1] = x
      BY <3>1
    <3>3. WaitsAs(Append(q, x), p, r) => WaitsAs(q, p, r) \/ (req.pr = p /\ req.run = r)
      BY <3>1, <3>2 DEF WaitsAs
    <3>4. NamesAs(o, p, r)
      BY <2>6 DEF o
    <3> QED BY <3>1, <3>3, <3>4 DEF NamesAs, Held, q
  <2> HIDE DEF f, i
  <2> QED BY <1>3, <1>5, <2>3, <2>4, <2>5, <2>6
<1>6. CASE req.kind = "release"
  <2>1. n = Release(l, req.pr, req.run, TTL, t).lock
    BY <1>6 DEF Transition, ReleaseOp, Outcome
  <2>2. n = Vacate(e, t, TTL) \/ n = [e EXCEPT !.queue = RemovePR(@, req.pr)] \/ n = e
    BY <2>1, Zenon DEF Release, Result, e
  <2>3. NamesAs(Vacate(e, t, TTL), p, r) => NamesAs(e, p, r)
    BY <1>1, VacateNames
  <2> QED BY <1>1, <1>3, <1>4, <2>2, <2>3
<1>7. CASE req.kind = "unlock"
  <2>1. n = l \/ n = UnlockPR(l, req.pr, req.run, TTL, t)
    BY <1>7 DEF Transition, UnlockOp, Outcome
  <2>2. \/ n = [v EXCEPT !.queue = RemovePR(@, req.pr)]
        \/ n = [l EXCEPT !.queue = RemovePR(@, req.pr)]
        \/ n = l
    BY <2>1, Zenon DEF UnlockPR, v
  <2> QED BY <1>1, <1>2, <1>4, <2>2
<1>8. CASE req.kind \in {"reap", "force_unlock"}
  <2>1. n = l \/ n = v
    BY <1>8 DEF Transition, ReapOp, Reap, ForceUnlockOp, ForceUnlock, Result, Outcome, v
  <2> QED BY <1>2, <2>1
<1>9. req.kind \in {"acquire", "release", "unlock", "reap", "force_unlock"}
  BY DEF Request, AcquireReq, ReleaseReq, UnlockReq, ReapReq, ForceUnlockReq
<1> QED BY <1>5, <1>6, <1>7, <1>8, <1>9

LEMMA NamesNobodyNew ==
  ASSUME NEW l, LockOK(l), NEW req \in Request, NEW t \in Nat, NEW r,
         NEW n, n = Transition(req, l, t).lock, Names(n, r)
  PROVE  Names(l, r) \/ (req.kind = "acquire" /\ req.run = r)
<1>1. PICK p : NamesAs(n, p, r)
  BY NamesAsSome
<1> QED BY <1>1, NamesComeFrom, NamesAsSome

(* The sweep of a run leaves it in no lock, if the lock names it as a run of *)
(* its own pull request.                                                     *)
LEMMA UnlockedIsGone ==
  ASSUME NEW l, LockOK(l), NEW p \in PR, NEW r \in Run, NEW t \in Nat,
         \A x : NamesAs(l, x, r) => x = p,
         NEW n, n = UnlockPR(l, p, r, TTL, t)
  PROVE  ~Names(n, r)
<1> SUFFICES ASSUME Names(n, r) PROVE FALSE
  OBVIOUS
<1> DEFINE v == Vacate(l, t, TTL)
           mine == Held(l) /\ l.holder.pr = p
                   /\ (r = AnyRun \/ l.holder.run = r \/ Expired(l.holder, t))
           b == IF mine THEN v ELSE l
<1>1. l \in Lock /\ LockOK(v) /\ LockOK(b) /\ b \in Lock
  BY VacateOK DEF LockOK
<1>2. n = [b EXCEPT !.queue = RemovePR(@, p)]
  BY DEF UnlockPR
<1>3. \A x : NamesAs(b, x, r) => NamesAs(l, x, r)
  BY <1>1, VacateNames
<1>4. n.holder = b.holder /\ n.queue = RemovePR(b.queue, p)
  BY <1>1, <1>2 DEF Lock
<1>5. Distinct(b.queue) /\ b.queue \in Seq(QueueItem)
  BY <1>1, LockOKDef DEF Lock
<1>6. ~mine => ~(Held(l) /\ l.holder.pr = p /\ l.holder.run = r)
  OBVIOUS
<1>7. mine => ~(Held(v) /\ v.holder.pr = p)
  <2> SUFFICES ASSUME mine, Held(v), v.holder.pr = p PROVE FALSE
    OBVIOUS
  <2>1. ~Waits(l.queue, p) /\ l.queue \in Seq(QueueItem)
    BY <1>1, LockOKDef DEF Lock
  <2>2. l.queue # << >> /\ v.holder.pr = Head(l.queue).pr
    BY <1>1 DEF Vacate, PromoteNext, Held, Lock
  <2>3. Len(l.queue) >= 1 /\ Len(l.queue) \in Nat /\ Head(l.queue) = l.queue[1]
    BY <2>1, <2>2
  <2> QED BY <2>1, <2>2, <2>3 DEF Waits
<1>8. ~(Held(b) /\ b.holder.pr = p /\ b.holder.run = r)
  BY <1>6, <1>7
<1> HIDE DEF v, mine, b
<1>9. PICK x : NamesAs(n, x, r)
  BY NamesAsSome
<1>10. NamesAs(b, x, r)
  BY <1>1, <1>2, <1>9, DequeueNames
<1>11. x = p
  BY <1>3, <1>10
<1>12. WaitsAs(RemovePR(b.queue, p), p, r)
  BY <1>4, <1>8, <1>9, <1>11 DEF NamesAs, Held
<1>13. ~Waits(RemovePR(b.queue, p), p)
  BY <1>5, RemoveKeepsOrder
<1> QED BY <1>12, <1>13 DEF WaitsAs, Waits

=============================================================================
