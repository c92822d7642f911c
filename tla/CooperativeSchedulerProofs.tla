--------------------- MODULE CooperativeSchedulerProofs ---------------------
(***************************************************************************)
(* Theorems about the cooperative scheduler, for every size of the id      *)
(* space, every budget and any sequence of calls.                          *)
(*                                                                         *)
(* The inductive invariant adds to the properties how the allocator and    *)
(* the sets of ids belong together, and what holds even when the allocator *)
(* is saturated and one id stands for several futures: an id that is       *)
(* queued without a value has completed or is parked.                      *)
(***************************************************************************)
EXTENDS CooperativeScheduler, FiniteSetTheorems, SequenceTheorems,
        WellFoundedInduction, TLAPS

\* The least element of a set of numbers.
LEMMA NatMin ==
  ASSUME NEW T \in SUBSET Nat, T /= {}
  PROVE  \E m \in T : \A k \in T : m <= k
<1>1. ASSUME NEW x \in Nat, NEW y \in Nat, y < x
      PROVE  <<y, x>> \in OpToRel(<, Nat)
  <2>1. <<y, x>> \in Nat \X Nat /\ <<y, x>>[1] < <<y, x>>[2]
    BY <1>1
  <2> QED BY <2>1, Zenon DEF OpToRel
<1> HIDE DEF OpToRel
<1>2. PICK x \in T : \A y \in T : ~(<<y, x>> \in OpToRel(<, Nat))
  BY NatLessThanWellFounded, WFMin
<1>3. \A y \in T : ~(y < x)
  BY <1>1, <1>2, Zenon
<1> QED BY <1>3

\* How many elements of S are at most m.
UpTo(S, m) == {j \in S : j <= m}
Count(S, m) == Cardinality(UpTo(S, m))

LEMMA InUpTo ==
  ASSUME NEW S
  PROVE  /\ \A m : \A x \in Int : x \in UpTo(S, m) <=> x \in S /\ x <= m
         /\ \A m : UpTo(S, m) \subseteq S
BY Zenon DEF UpTo

\* Counting upwards, each element of S adds one.
LEMMA CountSteps ==
  ASSUME NEW n \in Nat, NEW S, S \subseteq 1..n
  PROVE  /\ IsFiniteSet(S) /\ Cardinality(S) \in Nat
         /\ \A m \in Nat : IsFiniteSet(UpTo(S, m)) /\ Count(S, m) \in Nat
         /\ Count(S, 0) = 0 /\ Count(S, n) = Cardinality(S)
         /\ \A m \in 1..n : m \in S => Count(S, m) = Count(S, m - 1) + 1
         /\ \A m \in 1..n : m \notin S => Count(S, m) = Count(S, m - 1)
<1>0. \A j \in S : j \in Int /\ 1 <= j /\ j <= n
  OBVIOUS
<1>1. IsFiniteSet(S) /\ Cardinality(S) \in Nat
  <2>1. IsFiniteSet(1..n)
    BY FS_Interval
  <2> QED BY <2>1, FS_Subset, FS_CardinalityType
<1>2. ASSUME NEW m \in Nat PROVE IsFiniteSet(UpTo(S, m)) /\ Count(S, m) \in Nat
  <2>1. UpTo(S, m) \subseteq S
    BY DEF UpTo
  <2>2. IsFiniteSet(UpTo(S, m))
    BY <1>1, <2>1, FS_Subset
  <2> QED BY <2>2, FS_CardinalityType DEF Count
<1>3. UpTo(S, 0) = {} /\ UpTo(S, n) = S
  <2>1. UpTo(S, 0) = {}
    <3>1. \A x \in S : x \notin UpTo(S, 0)
      BY <1>0, InUpTo
    <3> QED BY <3>1, InUpTo
  <2>2. UpTo(S, n) = S
    <3>1. \A x \in S : x \in UpTo(S, n)
      BY <1>0, InUpTo
    <3> QED BY <3>1, InUpTo
  <2> QED BY <2>1, <2>2
<1>4. ASSUME NEW m \in 1..n, m \in S PROVE Count(S, m) = Count(S, m - 1) + 1
  <2>1. UpTo(S, m) = UpTo(S, m - 1) \cup {m} /\ m \notin UpTo(S, m - 1)
    <3>1. \A x \in S : x \in UpTo(S, m) <=> x \in UpTo(S, m - 1) \/ x = m
      BY <1>0, <1>4, InUpTo
    <3>2. m \notin UpTo(S, m - 1)
      BY InUpTo
    <3>3. UpTo(S, m) \subseteq S /\ UpTo(S, m - 1) \subseteq S
      BY InUpTo
    <3> QED BY <1>4, <3>1, <3>2, <3>3
  <2>2. m - 1 \in Nat
    OBVIOUS
  <2>3. IsFiniteSet(UpTo(S, m - 1)) /\ Count(S, m - 1) \in Nat
    BY <1>2, <2>2
  <2>4. Cardinality(UpTo(S, m - 1) \cup {m}) = Cardinality(UpTo(S, m - 1)) + 1
    BY <2>1, <2>3, FS_AddElement
  <2> QED BY <2>1, <2>4 DEF Count
<1>5. ASSUME NEW m \in 1..n, m \notin S PROVE Count(S, m) = Count(S, m - 1)
  <2>1. UpTo(S, m) = UpTo(S, m - 1)
    <3>1. \A x \in S : x \in UpTo(S, m) <=> x \in UpTo(S, m - 1)
      BY <1>0, <1>5, InUpTo
    <3> QED BY <3>1, InUpTo
  <2> QED BY <2>1 DEF Count
<1>6. Count(S, 0) = 0 /\ Count(S, n) = Cardinality(S)
  BY <1>3, FS_EmptySet DEF Count
<1> QED BY <1>1, <1>2, <1>4, <1>5, <1>6

\* Nth counts through a set of positions: there is one element of every rank.
LEMMA NthFacts ==
  ASSUME NEW n \in Nat, NEW S, S \subseteq 1..n
  PROVE  /\ \A k \in 1..Cardinality(S) : Nth(S, k) \in S /\ Count(S, Nth(S, k)) = k
         /\ \A i \in S : Count(S, i) \in 1..Cardinality(S) /\ Nth(S, Count(S, i)) = i
<1>0. /\ IsFiniteSet(S) /\ Cardinality(S) \in Nat
      /\ \A m \in Nat : IsFiniteSet(UpTo(S, m)) /\ Count(S, m) \in Nat
      /\ Count(S, 0) = 0 /\ Count(S, n) = Cardinality(S)
      /\ \A m \in 1..n : m \in S => Count(S, m) = Count(S, m - 1) + 1
      /\ \A m \in 1..n : m \notin S => Count(S, m) = Count(S, m - 1)
  BY CountSteps
<1>00. \A j \in S : j \in Nat /\ 1 <= j /\ j <= n
  OBVIOUS
<1>1. ASSUME NEW k \in 1..Cardinality(S)
      PROVE  Nth(S, k) \in S /\ Count(S, Nth(S, k)) = k
  <2> DEFINE T == {m \in 0..n : Count(S, m) >= k}
  <2>0. k \in Nat /\ k >= 1 /\ k <= Cardinality(S)
    BY <1>0
  <2>1. PICK m \in T : \A j \in T : m <= j
    <3>1. n \in T /\ T \in SUBSET Nat
      BY <1>0, <2>0
    <3> HIDE DEF T
    <3> QED BY <3>1, NatMin
  <2>2. m \in 0..n /\ Count(S, m) >= k
    BY <2>1
  <2>3. m \in 1..n /\ m - 1 \in 0..n
    BY <2>0, <2>2, <1>0
  <2>4. ~(Count(S, m - 1) >= k)
    BY <2>1, <2>3
  <2>5. Count(S, m) \in Nat /\ Count(S, m - 1) \in Nat
    <3>1. m \in Nat /\ m - 1 \in Nat
      BY <2>3
    <3> QED BY <3>1, <1>0
  <2>6. m \in S
    BY <1>0, <2>2, <2>3, <2>4
  <2>7. Count(S, m) = Count(S, m - 1) + 1
    BY <1>0, <2>3, <2>6
  <2>8. Count(S, m) = k
    BY <2>0, <2>2, <2>4, <2>5, <2>7
  <2>9. \E i \in S : Cardinality({j \in S : j <= i}) = k
    BY <2>6, <2>8 DEF Count, UpTo
  <2> QED BY <2>9, Zenon DEF Nth, Count, UpTo
<1>2. ASSUME NEW i \in S, NEW j \in S, i < j PROVE Count(S, i) < Count(S, j)
  <2>1. UpTo(S, i) \subseteq UpTo(S, j) /\ j \in UpTo(S, j) /\ j \notin UpTo(S, i)
    <3>1. \A x \in S : x \in UpTo(S, i) => x \in UpTo(S, j)
      BY <1>2, <1>00, InUpTo
    <3>2. j \in UpTo(S, j) /\ j \notin UpTo(S, i)
      BY <1>2, <1>00, InUpTo
    <3>3. UpTo(S, i) \subseteq S
      BY InUpTo
    <3> QED BY <3>1, <3>2, <3>3
  <2>2. IsFiniteSet(UpTo(S, j)) /\ Count(S, i) \in Nat /\ Count(S, j) \in Nat
    BY <1>0, <1>00
  <2>3. UpTo(S, i) /= UpTo(S, j)
    BY <2>1
  <2>4. Cardinality(UpTo(S, i)) < Cardinality(UpTo(S, j))
    <3>1. /\ Cardinality(UpTo(S, i)) <= Cardinality(UpTo(S, j))
          /\ Cardinality(UpTo(S, i)) = Cardinality(UpTo(S, j)) => UpTo(S, i) = UpTo(S, j)
      BY <2>1, <2>2, FS_Subset
    <3> QED BY <2>2, <2>3, <3>1 DEF Count
  <2> QED BY <2>4 DEF Count
<1>3. ASSUME NEW i \in S
      PROVE  Count(S, i) \in 1..Cardinality(S)
  <2>1. UpTo(S, i) \subseteq S /\ i \in UpTo(S, i)
    BY <1>00 DEF UpTo
  <2>2. IsFiniteSet(UpTo(S, i)) /\ Count(S, i) \in Nat
    BY <1>0, <1>00
  <2>3. Cardinality(UpTo(S, i)) <= Cardinality(S)
    BY <1>0, <2>1, FS_Subset
  <2>4. Cardinality(UpTo(S, i)) /= 0
    BY <2>1, <2>2, FS_EmptySet
  <2> QED BY <1>0, <2>2, <2>3, <2>4 DEF Count
<1>4. ASSUME NEW i \in S PROVE Nth(S, Count(S, i)) = i
  <2> DEFINE j == Nth(S, Count(S, i))
  <2>1. j \in S /\ Count(S, j) = Count(S, i)
    BY <1>1, <1>3
  <2> HIDE DEF j
  <2>2. Count(S, i) \in Nat /\ i \in Nat /\ j \in Nat
    BY <2>1, <1>00, <1>0
  <2>3. ~(i < j) /\ ~(j < i)
    BY <1>2, <2>1, <2>2
  <2>4. j = i
    BY <2>2, <2>3
  <2> QED BY <2>4 DEF j
<1> QED BY <1>1, <1>3, <1>4

----------------------------------------------------------------------------
(***************************************************************************)
(* What the operations do to the queue and to the map of values.           *)
(***************************************************************************)

\* A queue without an id keeps the others, each as often as before.
LEMMA UnqueueFacts ==
  ASSUME NEW id, queue \in Seq(Ids)
  PROVE  /\ unqueue(id) \in Seq(Ids) /\ Len(unqueue(id)) <= Len(queue)
         /\ ToSet(unqueue(id)) = Queued \ {id}
         /\ IsInjective(queue) => IsInjective(unqueue(id))
<1> DEFINE n == Len(queue)
           kept == {i \in DOMAIN queue : queue[i] /= id}
           u == unqueue(id)
<1>1. n \in Nat /\ DOMAIN queue = 1..n /\ \A i \in 1..n : queue[i] \in Ids
  OBVIOUS
<1>2. kept \subseteq 1..n /\ \A i \in 1..n : i \in kept <=> queue[i] /= id
  BY <1>1
<1>3. u = [k \in 1..Cardinality(kept) |-> queue[Nth(kept, k)]]
  BY DEF unqueue
<1> HIDE DEF n, kept, u
<1>4. /\ IsFiniteSet(kept) /\ Cardinality(kept) \in Nat
      /\ \A k \in 1..Cardinality(kept) : Nth(kept, k) \in kept /\ Count(kept, Nth(kept, k)) = k
      /\ \A i \in kept : Count(kept, i) \in 1..Cardinality(kept) /\ Nth(kept, Count(kept, i)) = i
  BY <1>1, <1>2, NthFacts, CountSteps
<1>5. Cardinality(kept) <= n
  <2>1. IsFiniteSet(1..n) /\ Cardinality(1..n) = n
    BY <1>1, FS_Interval
  <2> QED BY <1>2, <2>1, FS_Subset
<1>6. u \in Seq(Ids) /\ Len(u) = Cardinality(kept) /\ DOMAIN u = 1..Cardinality(kept)
  <2>1. \A k \in 1..Cardinality(kept) : queue[Nth(kept, k)] \in Ids
    BY <1>1, <1>2, <1>4
  <2>2. u \in [1..Cardinality(kept) -> Ids]
    BY <1>3, <2>1
  <2> QED BY <1>4, <2>2
<1>7. ToSet(u) = Queued \ {id}
  <2>1. ASSUME NEW x \in ToSet(u) PROVE x \in Queued \ {id}
    <3>1. PICK k \in 1..Cardinality(kept) : x = u[k]
      BY <1>6 DEF ToSet
    <3>2. x = queue[Nth(kept, k)] /\ Nth(kept, k) \in kept
      BY <1>3, <1>4, <3>1
    <3> QED BY <1>1, <1>2, <3>2 DEF Queued, ToSet
  <2>2. ASSUME NEW x \in Queued \ {id} PROVE x \in ToSet(u)
    <3>1. PICK i \in 1..n : x = queue[i]
      BY <1>1 DEF Queued, ToSet
    <3>2. i \in kept
      BY <1>2, <3>1
    <3>3. Count(kept, i) \in 1..Cardinality(kept) /\ u[Count(kept, i)] = x
      BY <1>3, <1>4, <3>1, <3>2
    <3> QED BY <1>6, <3>3 DEF ToSet
  <2> QED BY <2>1, <2>2
<1>8. ASSUME IsInjective(queue) PROVE IsInjective(u)
  <2>1. ASSUME NEW a \in 1..Cardinality(kept), NEW b \in 1..Cardinality(kept), u[a] = u[b]
        PROVE  a = b
    <3>1. queue[Nth(kept, a)] = queue[Nth(kept, b)]
      BY <1>3, <2>1
    <3>2. Nth(kept, a) = Nth(kept, b)
      BY <1>1, <1>2, <1>4, <1>8, <3>1 DEF IsInjective
    <3> QED BY <1>4, <3>2
  <2> QED BY <1>6, <2>1 DEF IsInjective
<1> QED BY <1>5, <1>6, <1>7, <1>8 DEF n, u

\* Appending an id that is not queued.
LEMMA AppendFacts ==
  ASSUME NEW q \in Seq(Ids), NEW id \in Ids
  PROVE  /\ Append(q, id) \in Seq(Ids) /\ Len(Append(q, id)) = Len(q) + 1
         /\ ToSet(Append(q, id)) = ToSet(q) \cup {id}
         /\ IsInjective(q) /\ id \notin ToSet(q) => IsInjective(Append(q, id))
<1> DEFINE n == Len(q)
           a == Append(q, id)
<1>1. /\ a \in Seq(Ids) /\ Len(a) = n + 1 /\ n \in Nat
      /\ DOMAIN q = 1..n /\ DOMAIN a = 1..(n + 1)
      /\ \A i \in 1..n : a[i] = q[i]
      /\ a[n + 1] = id
  OBVIOUS
<1> HIDE DEF n, a
<1>2. \A i \in 1..(n + 1) : i \in 1..n \/ i = n + 1
  BY <1>1
<1>3. 1..n \subseteq 1..(n + 1) /\ n + 1 \in 1..(n + 1)
  BY <1>1
<1>4. ToSet(a) = ToSet(q) \cup {id}
  BY <1>1, <1>2, <1>3 DEF ToSet
<1>5. ASSUME IsInjective(q), id \notin ToSet(q) PROVE IsInjective(a)
  <2>1. \A i \in 1..n : q[i] /= id
    BY <1>1, <1>5 DEF ToSet
  <2> QED BY <1>1, <1>2, <1>3, <1>5, <2>1 DEF IsInjective
<1> QED BY <1>1, <1>4, <1>5 DEF n, a

\* Taking the front id off the queue.
LEMMA TailFacts ==
  ASSUME NEW q \in Seq(Ids), q /= <<>>
  PROVE  /\ Head(q) \in Ids /\ Head(q) \in ToSet(q)
         /\ Tail(q) \in Seq(Ids) /\ Len(Tail(q)) <= Len(q)
         /\ ToSet(q) = ToSet(Tail(q)) \cup {Head(q)}
         /\ IsInjective(q) => IsInjective(Tail(q)) /\ Head(q) \notin ToSet(Tail(q))
<1> DEFINE n == Len(q)
           t == Tail(q)
<1>1. /\ t \in Seq(Ids) /\ n \in Nat \ {0} /\ Len(t) = n - 1
      /\ DOMAIN q = 1..n /\ DOMAIN t = 1..(n - 1)
      /\ Head(q) = q[1] /\ Head(q) \in Ids
      /\ \A i \in 1..(n - 1) : t[i] = q[i + 1]
  OBVIOUS
<1> HIDE DEF n, t
<1>2. /\ \A i \in 1..n : i = 1 \/ i - 1 \in 1..(n - 1)
      /\ 1 \in 1..n
      /\ \A i \in 1..(n - 1) : i + 1 \in 1..n /\ i + 1 /= 1
  BY <1>1
<1>3. \A i \in 1..n : i = 1 \/ q[i] = t[i - 1]
  BY <1>1, <1>2
<1>4. ToSet(q) = ToSet(t) \cup {Head(q)}
  <2>1. \A x \in ToSet(q) : x \in ToSet(t) \/ x = Head(q)
    <3> SUFFICES ASSUME NEW x \in ToSet(q), x /= Head(q) PROVE x \in ToSet(t)
      OBVIOUS
    <3>1. PICK i \in 1..n : x = q[i]
      BY <1>1 DEF ToSet
    <3>2. i - 1 \in 1..(n - 1) /\ x = t[i - 1]
      BY <1>1, <1>2, <1>3, <3>1
    <3> QED BY <1>1, <3>2 DEF ToSet
  <2>2. \A x \in ToSet(t) : x \in ToSet(q)
    BY <1>1, <1>2 DEF ToSet
  <2>3. Head(q) \in ToSet(q)
    BY <1>1, <1>2 DEF ToSet
  <2> QED BY <2>1, <2>2, <2>3
<1>5. ASSUME IsInjective(q) PROVE IsInjective(t) /\ Head(q) \notin ToSet(t)
  <2>1. \A a, b \in 1..n : q[a] = q[b] => a = b
    BY <1>1, <1>5 DEF IsInjective
  <2>2. ASSUME NEW a \in 1..(n - 1), NEW b \in 1..(n - 1), t[a] = t[b] PROVE a = b
    <3>1. q[a + 1] = q[b + 1]
      BY <1>1, <2>2
    <3>2. a + 1 = b + 1
      BY <1>2, <2>1, <3>1
    <3> QED BY <3>2
  <2>3. \A i \in 1..(n - 1) : t[i] /= q[1]
    BY <1>1, <1>2, <2>1
  <2> QED BY <1>1, <2>2, <2>3 DEF IsInjective, ToSet
<1> QED BY <1>1, <1>4, <1>5 DEF n, t
----------------------------------------------------------------------------
(***************************************************************************)
(* The inductive invariant.                                                *)
(***************************************************************************)

\* The state has its types, with the bounds the properties leave open.
Shape ==
  /\ queue \in Seq(Ids) /\ waiting \subseteq Ids
  /\ HasValue \subseteq Ids /\ \A id \in HasValue : resumed_values[id] \in Values
  /\ next_id \in Ids /\ spawned_ids \subseteq Ids /\ completed_ids \subseteq Ids
  /\ spawns \in 0..MaxSpawns /\ resumes \in 0..MaxResumes
  /\ Len(queue) <= spawns + resumes
  /\ max_queue_depth \in 0..(MaxSpawns + MaxResumes)
  /\ drain \in [max : StepBudgets \cup {-1}, steps : Nat, out : Seq(Values)]
  /\ history \in [given : Nat, discarded : Nat, delivered : Nat, rewound : SUBSET Ids]

\* Only spawned ids are anywhere, and all of them are somewhere: an id that is
\* queued without a value (two spawns share a saturated id) is so elsewhere too.
Whereabouts ==
  /\ Queued \cup waiting \cup completed_ids \cup HasValue \subseteq spawned_ids
  /\ spawned_ids \subseteq completed_ids \cup waiting \cup Queued
  /\ Queued \subseteq HasValue \cup completed_ids \cup waiting

\* While ids are fresh the next one has never been handed out.
Fresh ==
  /\ ~saturated => \A id \in spawned_ids : id < spawns
  /\ spawns <= MaxId => next_id = spawns

\* Every step of a run delivers a value as long as ids are fresh.
StepsDeliver == ~saturated => Len(drain.out) = drain.steps

CoopInv ==
  /\ Shape /\ Whereabouts /\ Fresh
  /\ ReadyIdsHaveValues /\ ValuesSurfaceOnce /\ TalliesAddUp
  /\ StepsDeliver /\ CutShortIsReported

LEMMA Budgets ==
  /\ MaxId \in Nat /\ MaxSpawns \in Nat /\ MaxResumes \in Nat
  /\ StepBudgets \subseteq Nat
BY CoopAssumption

LEMMA InitInv == Init => CoopInv
<1> SUFFICES ASSUME Init PROVE CoopInv
  OBVIOUS
<1> USE DEF Init
<1>1. Queued = {} /\ HasValue = {}
  BY DEF Queued, HasValue, ToSet
<1>2. queue \in Seq(Ids) /\ Len(queue) = 0
  OBVIOUS
<1>3. drain \in [max : StepBudgets \cup {-1}, steps : Nat, out : Seq(Values)]
  BY DEF NoDrain
<1>4. history \in [given : Nat, discarded : Nat, delivered : Nat, rewound : SUBSET Ids]
  BY DEF NoHistory
<1>5. Shape
  BY Budgets, <1>1, <1>2, <1>3, <1>4 DEF Shape, Ids
<1>6. Whereabouts
  BY <1>1 DEF Whereabouts
<1>7. Fresh
  BY DEF Fresh
<1>8. ReadyIdsHaveValues
  BY <1>1 DEF ReadyIdsHaveValues, IsInjective
<1>9. ValuesSurfaceOnce
  BY <1>1, FS_EmptySet DEF ValuesSurfaceOnce, NoHistory
<1>10. TalliesAddUp
  BY DEF TalliesAddUp
<1>11. StepsDeliver
  BY DEF StepsDeliver, NoDrain
<1>12. CutShortIsReported
  BY DEF CutShortIsReported
<1> QED BY <1>5, <1>6, <1>7, <1>8, <1>9, <1>10, <1>11, <1>12 DEF CoopInv

\* What an operation that makes an id ready changes.
LEMMA EnqueueFacts ==
  ASSUME Shape, NEW id \in Ids, NEW v \in Values, enqueue(id, v)
  PROVE  /\ queue' \in Seq(Ids) /\ Len(queue') = Len(queue) + 1
         /\ Queued' = Queued \cup {id} /\ HasValue' = HasValue \cup {id}
         /\ \A x \in HasValue' : resumed_values'[x] \in Values
         /\ IsInjective(queue) /\ id \notin Queued => IsInjective(queue')
         /\ max_queue_depth' = IF max_queue_depth < Len(queue) + 1
                                 THEN Len(queue) + 1 ELSE max_queue_depth
         /\ history' \in [given : Nat, discarded : Nat, delivered : Nat, rewound : SUBSET Ids]
         /\ history'.given = history.given + 1
         /\ history'.discarded = history.discarded
         /\ history'.delivered = history.delivered
         /\ history'.rewound = history.rewound
<1> USE DEF enqueue, Shape
<1>1. /\ queue' \in Seq(Ids) /\ Len(queue') = Len(queue) + 1
      /\ Queued' = Queued \cup {id}
      /\ IsInjective(queue) /\ id \notin Queued => IsInjective(queue')
  BY AppendFacts DEF Queued
<1>2. HasValue' = HasValue \cup {id} /\ \A x \in HasValue' : resumed_values'[x] \in Values
  BY DEF HasValue, With
<1>3. max_queue_depth' = IF max_queue_depth < Len(queue) + 1
                           THEN Len(queue) + 1 ELSE max_queue_depth
  BY <1>1 DEF Larger
<1>4. history' = [history EXCEPT !.given = @ + 1]
  OBVIOUS
<1>5. history \in [given : Nat, discarded : Nat, delivered : Nat, rewound : SUBSET Ids]
  OBVIOUS
<1> HIDE DEF enqueue, Shape
<1>6. /\ history' \in [given : Nat, discarded : Nat, delivered : Nat, rewound : SUBSET Ids]
      /\ history'.given = history.given + 1
      /\ history'.discarded = history.discarded
      /\ history'.delivered = history.delivered
      /\ history'.rewound = history.rewound
  BY <1>4, <1>5
<1> QED BY <1>1, <1>2, <1>3, <1>6

\* What a tick changes.
LEMMA PopFacts ==
  ASSUME Shape, pop_ready
  PROVE  LET id == Head(queue) IN
         /\ id \in Queued /\ id \in Ids
         /\ queue' \in Seq(Ids) /\ Len(queue') <= Len(queue)
         /\ Queued = Queued' \cup {id}
         /\ IsInjective(queue) => IsInjective(queue') /\ id \notin Queued'
         /\ id \in HasValue =>
              /\ HasValue' = HasValue \ {id}
              /\ \A x \in HasValue' : resumed_values'[x] \in Values
              /\ completed_ids' = completed_ids \cup {id} /\ waiting' = waiting
              /\ history' \in [given : Nat, discarded : Nat, delivered : Nat,
                               rewound : SUBSET Ids]
              /\ history'.given = history.given
              /\ history'.discarded = history.discarded
              /\ history'.delivered = history.delivered + 1
              /\ history'.rewound = history.rewound
         /\ id \notin HasValue =>
              /\ HasValue' = HasValue /\ resumed_values' = resumed_values
              /\ completed_ids' = completed_ids /\ waiting' = waiting \cup {id}
              /\ history' = history
         /\ UNCHANGED <<max_queue_depth, next_id, spawned_ids, bounds>>
<1> DEFINE id == Head(queue)
<1> USE DEF pop_ready, Shape
<1>1. /\ id \in Queued /\ id \in Ids
      /\ queue' \in Seq(Ids) /\ Len(queue') <= Len(queue)
      /\ Queued = Queued' \cup {id}
      /\ IsInjective(queue) => IsInjective(queue') /\ id \notin Queued'
  BY TailFacts DEF Queued
<1> HIDE DEF id
<1>2. ASSUME id \in HasValue
      PROVE  /\ HasValue' = HasValue \ {id}
             /\ \A x \in HasValue' : resumed_values'[x] \in Values
             /\ completed_ids' = completed_ids \cup {id} /\ waiting' = waiting
             /\ history' \in [given : Nat, discarded : Nat, delivered : Nat,
                              rewound : SUBSET Ids]
             /\ history'.given = history.given
             /\ history'.discarded = history.discarded
             /\ history'.delivered = history.delivered + 1
             /\ history'.rewound = history.rewound
  <2>1. /\ resumed_values' = Without(resumed_values, id)
        /\ completed_ids' = completed_ids \cup {id} /\ waiting' = waiting
        /\ history' = [history EXCEPT !.delivered = @ + 1]
    BY <1>2 DEF id
  <2>2. HasValue' = HasValue \ {id} /\ \A x \in HasValue' : resumed_values'[x] \in Values
    BY <2>1 DEF HasValue, Without
  <2>3. history \in [given : Nat, discarded : Nat, delivered : Nat, rewound : SUBSET Ids]
    OBVIOUS
  <2> HIDE DEF pop_ready, Shape
  <2>4. /\ history' \in [given : Nat, discarded : Nat, delivered : Nat, rewound : SUBSET Ids]
        /\ history'.given = history.given
        /\ history'.discarded = history.discarded
        /\ history'.delivered = history.delivered + 1
        /\ history'.rewound = history.rewound
    BY <2>1, <2>3
  <2> QED BY <2>1, <2>2, <2>4
<1>3. ASSUME id \notin HasValue
      PROVE  /\ HasValue' = HasValue /\ resumed_values' = resumed_values
             /\ completed_ids' = completed_ids /\ waiting' = waiting \cup {id}
             /\ history' = history
  BY <1>3 DEF HasValue, id
<1> QED BY <1>1, <1>2, <1>3 DEF id

\* Later spawns never make the allocator fresh again, and a kept report stays true.
LEMMA ReportKept ==
  ASSUME CutShortIsReported, report' = report, ~saturated' => ~saturated
  PROVE  CutShortIsReported'
BY DEF CutShortIsReported

\* Adding and removing one id changes the number of values by one.
LEMMA ValueCounts ==
  ASSUME HasValue \subseteq Ids
  PROVE  /\ IsFiniteSet(HasValue) /\ Cardinality(HasValue) \in Nat
         /\ \A id : id \notin HasValue =>
              Cardinality(HasValue \cup {id}) = Cardinality(HasValue) + 1
         /\ \A id \in HasValue : Cardinality(HasValue \ {id}) = Cardinality(HasValue) - 1
<1>1. IsFiniteSet(Ids)
  BY Budgets, FS_Interval DEF Ids
<1>2. IsFiniteSet(HasValue) /\ Cardinality(HasValue) \in Nat
  BY <1>1, FS_Subset, FS_CardinalityType
<1> QED BY <1>2, FS_AddElement, FS_RemoveElement

LEMMA SpawnStep ==
  ASSUME CoopInv, NEW v \in Values, spawn(v)
  PROVE  CoopInv'
<1>0. Shape /\ Whereabouts /\ Fresh /\ ReadyIdsHaveValues /\ ValuesSurfaceOnce /\ TalliesAddUp
      /\ StepsDeliver /\ CutShortIsReported
  BY DEF CoopInv
<1>1. /\ spawns < MaxSpawns /\ spawns' = spawns + 1
      /\ next_id' = saturating_succ(next_id)
      /\ spawned_ids' = spawned_ids \cup {next_id}
      /\ enqueue(next_id, v)
      /\ waiting' = waiting /\ completed_ids' = completed_ids /\ drain' = drain
      /\ report' = report /\ resumes' = resumes
  BY DEF spawn
<1>2. /\ queue' \in Seq(Ids) /\ Len(queue') = Len(queue) + 1
      /\ Queued' = Queued \cup {next_id} /\ HasValue' = HasValue \cup {next_id}
      /\ \A x \in HasValue' : resumed_values'[x] \in Values
      /\ IsInjective(queue) /\ next_id \notin Queued => IsInjective(queue')
      /\ max_queue_depth' = IF max_queue_depth < Len(queue) + 1
                              THEN Len(queue) + 1 ELSE max_queue_depth
      /\ history' \in [given : Nat, discarded : Nat, delivered : Nat, rewound : SUBSET Ids]
      /\ history'.given = history.given + 1
      /\ history'.discarded = history.discarded
      /\ history'.delivered = history.delivered
      /\ history'.rewound = history.rewound
  <2>1. next_id \in Ids
    BY <1>0 DEF Shape
  <2> QED BY <1>0, <1>1, <2>1, EnqueueFacts
<1>3. spawns \in Nat /\ next_id \in Ids /\ MaxId \in Nat
  BY <1>0, Budgets DEF Shape
<1>4. ASSUME ~saturated'
      PROVE  ~saturated /\ spawns <= MaxId /\ next_id = spawns /\ next_id \notin spawned_ids
  <2>1. spawns <= MaxId /\ ~saturated
    BY <1>1, <1>3, <1>4 DEF saturated
  <2>2. next_id = spawns
    BY <1>0, <2>1 DEF Fresh
  <2>3. next_id \notin spawned_ids
    BY <1>0, <1>3, <2>1, <2>2 DEF Fresh
  <2> QED BY <2>1, <2>2, <2>3
<1>5. Shape'
  <2>1. next_id' \in Ids
    BY <1>1, <1>3 DEF saturating_succ, Ids
  <2>2. /\ spawns' \in 0..MaxSpawns /\ resumes' \in 0..MaxResumes
        /\ Len(queue') <= spawns' + resumes'
        /\ max_queue_depth' \in 0..(MaxSpawns + MaxResumes)
    <3>1. /\ Len(queue) \in Nat /\ spawns \in 0..MaxSpawns /\ resumes \in 0..MaxResumes
          /\ Len(queue) <= spawns + resumes /\ max_queue_depth \in 0..(MaxSpawns + MaxResumes)
      BY <1>0 DEF Shape
    <3>2. spawns < MaxSpawns /\ spawns' = spawns + 1 /\ resumes' = resumes
      BY <1>1
    <3> QED BY <1>2, <3>1, <3>2, Budgets
  <2>3. HasValue' \subseteq Ids /\ waiting' \subseteq Ids /\ spawned_ids' \subseteq Ids
        /\ completed_ids' \subseteq Ids
    BY <1>0, <1>1, <1>2 DEF Shape
  <2>4. drain' \in [max : StepBudgets \cup {-1}, steps : Nat, out : Seq(Values)]
    BY <1>0, <1>1 DEF Shape
  <2> QED BY <1>2, <2>1, <2>2, <2>3, <2>4 DEF Shape
<1>6. Whereabouts'
  BY <1>0, <1>1, <1>2 DEF Whereabouts
<1>7. Fresh'
  <2>1. ASSUME ~saturated' PROVE \A id \in spawned_ids' : id < spawns'
    <3>1. \A id \in spawned_ids : id < spawns /\ id \in Ids
      BY <1>0, <1>4, <2>1 DEF Fresh, Shape
    <3> QED BY <1>1, <1>3, <1>4, <2>1, <3>1 DEF Ids
  <2>2. ASSUME spawns' <= MaxId PROVE next_id' = spawns'
    <3>1. ~saturated' /\ spawns < MaxId
      BY <1>1, <1>3, <2>2 DEF saturated
    <3> QED BY <1>1, <1>3, <1>4, <3>1 DEF saturating_succ
  <2> QED BY <2>1, <2>2 DEF Fresh
<1>8. ReadyIdsHaveValues'
  <2> SUFFICES ASSUME ~saturated'
               PROVE  IsInjective(queue') /\ Queued' = HasValue' /\ Queued' \cap waiting' = {}
    BY DEF ReadyIdsHaveValues
  <2>1. /\ IsInjective(queue) /\ Queued = HasValue /\ Queued \cap waiting = {}
        /\ next_id \notin Queued /\ next_id \notin waiting
    BY <1>0, <1>4 DEF ReadyIdsHaveValues, Whereabouts
  <2> QED BY <1>1, <1>2, <2>1
<1>9. ValuesSurfaceOnce'
  <2> SUFFICES ASSUME ~saturated'
               PROVE  history'.given = history'.delivered + history'.discarded
                                         + Cardinality(HasValue')
    BY DEF ValuesSurfaceOnce
  <2>1. /\ history.given = history.delivered + history.discarded + Cardinality(HasValue)
        /\ next_id \notin HasValue
    BY <1>0, <1>4 DEF ValuesSurfaceOnce, Whereabouts
  <2>2. Cardinality(HasValue') = Cardinality(HasValue) + 1 /\ Cardinality(HasValue) \in Nat
    BY <1>0, <1>2, <2>1, ValueCounts DEF Shape
  <2>3. history.given \in Nat /\ history.delivered \in Nat /\ history.discarded \in Nat
    BY <1>0 DEF Shape
  <2>4. /\ history'.given = history.given + 1 /\ history'.delivered = history.delivered
        /\ history'.discarded = history.discarded
    BY <1>2
  <2> QED BY <2>1, <2>2, <2>3, <2>4
<1>10. TalliesAddUp'
  <2> SUFFICES ASSUME ~saturated'
               PROVE  completed_ids' \cap (waiting' \cup Queued') \subseteq history'.rewound
    BY DEF TalliesAddUp
  <2>1. /\ completed_ids \cap (waiting \cup Queued) \subseteq history.rewound
        /\ next_id \notin completed_ids
    BY <1>0, <1>4 DEF TalliesAddUp, Whereabouts
  <2> QED BY <1>1, <1>2, <2>1
<1>11. StepsDeliver'
  BY <1>0, <1>1, <1>4 DEF StepsDeliver
<1>12. CutShortIsReported'
  BY <1>0, <1>1, <1>4, ReportKept
<1> QED BY <1>5, <1>6, <1>7, <1>8, <1>9, <1>10, <1>11, <1>12 DEF CoopInv

\* Nothing but spawn moves the allocator.
LEMMA AllocatorKept ==
  ASSUME Fresh, UNCHANGED <<spawns, next_id, spawned_ids>>
  PROVE  Fresh' /\ saturated' = saturated
BY DEF Fresh, saturated

LEMMA ResumeStep ==
  ASSUME CoopInv, NEW id \in Ids, NEW v \in Values, resume(id, v)
  PROVE  CoopInv'
<1>0. Shape /\ Whereabouts /\ Fresh /\ ReadyIdsHaveValues /\ ValuesSurfaceOnce /\ TalliesAddUp
      /\ StepsDeliver /\ CutShortIsReported
  BY DEF CoopInv
<1>1. /\ resumes < MaxResumes /\ resumes' = resumes + 1
      /\ id \in waiting /\ waiting' = waiting \ {id}
      /\ enqueue(id, v)
      /\ next_id' = next_id /\ spawned_ids' = spawned_ids /\ completed_ids' = completed_ids
      /\ drain' = drain /\ report' = report /\ spawns' = spawns
  BY DEF resume, Resumable, tallies
<1>2. /\ queue' \in Seq(Ids) /\ Len(queue') = Len(queue) + 1
      /\ Queued' = Queued \cup {id} /\ HasValue' = HasValue \cup {id}
      /\ \A x \in HasValue' : resumed_values'[x] \in Values
      /\ IsInjective(queue) /\ id \notin Queued => IsInjective(queue')
      /\ max_queue_depth' = IF max_queue_depth < Len(queue) + 1
                              THEN Len(queue) + 1 ELSE max_queue_depth
      /\ history' \in [given : Nat, discarded : Nat, delivered : Nat, rewound : SUBSET Ids]
      /\ history'.given = history.given + 1
      /\ history'.discarded = history.discarded
      /\ history'.delivered = history.delivered
      /\ history'.rewound = history.rewound
  BY <1>0, <1>1, EnqueueFacts
<1>3. Fresh' /\ saturated' = saturated
  BY <1>0, <1>1, AllocatorKept
<1>5. Shape'
  <2>1. /\ spawns' \in 0..MaxSpawns /\ resumes' \in 0..MaxResumes
        /\ Len(queue') <= spawns' + resumes'
        /\ max_queue_depth' \in 0..(MaxSpawns + MaxResumes)
    <3>1. /\ Len(queue) \in Nat /\ spawns \in 0..MaxSpawns /\ resumes \in 0..MaxResumes
          /\ Len(queue) <= spawns + resumes /\ max_queue_depth \in 0..(MaxSpawns + MaxResumes)
      BY <1>0 DEF Shape
    <3>2. resumes < MaxResumes /\ resumes' = resumes + 1 /\ spawns' = spawns
      BY <1>1
    <3> QED BY <1>2, <3>1, <3>2, Budgets
  <2>2. HasValue' \subseteq Ids /\ waiting' \subseteq Ids
    BY <1>0, <1>1, <1>2 DEF Shape
  <2> QED BY <1>0, <1>1, <1>2, <2>1, <2>2 DEF Shape
<1>6. Whereabouts'
  BY <1>0, <1>1, <1>2 DEF Whereabouts
<1>8. ReadyIdsHaveValues'
  BY <1>0, <1>1, <1>2, <1>3 DEF ReadyIdsHaveValues
<1>9. ValuesSurfaceOnce'
  <2> SUFFICES ASSUME ~saturated
               PROVE  history'.given = history'.delivered + history'.discarded
                                         + Cardinality(HasValue')
    BY <1>3 DEF ValuesSurfaceOnce
  <2>1. /\ history.given = history.delivered + history.discarded + Cardinality(HasValue)
        /\ id \notin HasValue
    BY <1>0, <1>1 DEF ValuesSurfaceOnce, ReadyIdsHaveValues
  <2>2. Cardinality(HasValue') = Cardinality(HasValue) + 1 /\ Cardinality(HasValue) \in Nat
    BY <1>0, <1>2, <2>1, ValueCounts DEF Shape
  <2>3. history.given \in Nat /\ history.delivered \in Nat /\ history.discarded \in Nat
    BY <1>0 DEF Shape
  <2>4. /\ history'.given = history.given + 1 /\ history'.delivered = history.delivered
        /\ history'.discarded = history.discarded
    BY <1>2
  <2> QED BY <2>1, <2>2, <2>3, <2>4
<1>10. TalliesAddUp'
  BY <1>0, <1>1, <1>2, <1>3 DEF TalliesAddUp
<1>11. StepsDeliver'
  BY <1>0, <1>1, <1>3 DEF StepsDeliver
<1>12. CutShortIsReported'
  BY <1>0, <1>1, <1>3, ReportKept
<1> QED BY <1>3, <1>5, <1>6, <1>8, <1>9, <1>10, <1>11, <1>12 DEF CoopInv

LEMMA ParkStep ==
  ASSUME CoopInv, NEW id \in Ids, park(id)
  PROVE  CoopInv'
<1>0. Shape /\ Whereabouts /\ Fresh /\ ReadyIdsHaveValues /\ ValuesSurfaceOnce /\ TalliesAddUp
      /\ StepsDeliver /\ CutShortIsReported
  BY DEF CoopInv
<1>1. /\ id \in spawned_ids
      /\ queue' = unqueue(id) /\ resumed_values' = Without(resumed_values, id)
      /\ waiting' = waiting \cup {id}
      /\ history' = [history EXCEPT
                   !.discarded = IF id \in HasValue THEN @ + 1 ELSE @,
                   !.rewound = IF id \in completed_ids THEN @ \cup {id} ELSE @]
      /\ max_queue_depth' = max_queue_depth
      /\ next_id' = next_id /\ spawned_ids' = spawned_ids /\ completed_ids' = completed_ids
      /\ drain' = drain /\ report' = report /\ spawns' = spawns /\ resumes' = resumes
  BY DEF park, parked, tallies, bounds
<1>2. /\ queue' \in Seq(Ids) /\ Len(queue') <= Len(queue) /\ Queued' = Queued \ {id}
      /\ IsInjective(queue) => IsInjective(queue')
  BY <1>0, <1>1, UnqueueFacts DEF Shape, Queued
<1>3. HasValue' = HasValue \ {id} /\ \A x \in HasValue' : resumed_values'[x] \in Values
  BY <1>0, <1>1 DEF HasValue, Without, Shape
<1>4. /\ history' \in [given : Nat, discarded : Nat, delivered : Nat, rewound : SUBSET Ids]
      /\ history'.given = history.given
      /\ history'.discarded = IF id \in HasValue THEN history.discarded + 1 ELSE history.discarded
      /\ history'.delivered = history.delivered
      /\ history'.rewound = IF id \in completed_ids THEN history.rewound \cup {id}
                                                     ELSE history.rewound
  <2>1. history \in [given : Nat, discarded : Nat, delivered : Nat, rewound : SUBSET Ids]
    BY <1>0 DEF Shape
  <2>2. history' = [history EXCEPT
                   !.discarded = IF id \in HasValue THEN @ + 1 ELSE @,
                   !.rewound = IF id \in completed_ids THEN @ \cup {id} ELSE @]
    BY <1>1
  <2> DEFINE d == IF id \in HasValue THEN history.discarded + 1 ELSE history.discarded
             w == IF id \in completed_ids THEN history.rewound \cup {id} ELSE history.rewound
  <2>3. history' = [history EXCEPT !.discarded = d, !.rewound = w]
    BY <2>2
  <2>4. d \in Nat
    BY <2>1
  <2>5. w \in SUBSET Ids
    BY <2>1
  <2> HIDE DEF d, w
  <2>6. /\ history' \in [given : Nat, discarded : Nat, delivered : Nat, rewound : SUBSET Ids]
        /\ history'.given = history.given /\ history'.delivered = history.delivered
        /\ history'.discarded = d /\ history'.rewound = w
    BY <2>1, <2>3, <2>4, <2>5
  <2> QED BY <2>6 DEF d, w
<1>5. Fresh' /\ saturated' = saturated
  BY <1>0, <1>1, AllocatorKept
<1>6. Shape'
  <2>1. Len(queue') <= spawns' + resumes'
    BY <1>0, <1>1, <1>2 DEF Shape
  <2>2. HasValue' \subseteq Ids /\ waiting' \subseteq Ids
    BY <1>0, <1>1, <1>3 DEF Shape
  <2> QED BY <1>0, <1>1, <1>2, <1>3, <1>4, <2>1, <2>2 DEF Shape
<1>7. Whereabouts'
  BY <1>0, <1>1, <1>2, <1>3 DEF Whereabouts
<1>8. ReadyIdsHaveValues'
  BY <1>0, <1>1, <1>2, <1>3, <1>5 DEF ReadyIdsHaveValues
<1>9. ValuesSurfaceOnce'
  <2> SUFFICES ASSUME ~saturated
               PROVE  history'.given = history'.delivered + history'.discarded
                                         + Cardinality(HasValue')
    BY <1>5 DEF ValuesSurfaceOnce
  <2>1. history.given = history.delivered + history.discarded + Cardinality(HasValue)
    BY <1>0 DEF ValuesSurfaceOnce
  <2>2. history.given \in Nat /\ history.delivered \in Nat /\ history.discarded \in Nat
        /\ Cardinality(HasValue) \in Nat
    BY <1>0, ValueCounts DEF Shape
  <2>3. CASE id \in HasValue
    <3>1. Cardinality(HasValue') = Cardinality(HasValue) - 1
      BY <1>0, <1>3, <2>3, ValueCounts DEF Shape
    <3> QED BY <1>4, <2>1, <2>2, <2>3, <3>1
  <2>4. CASE id \notin HasValue
    <3>1. HasValue' = HasValue
      BY <1>3, <2>4
    <3> QED BY <1>4, <2>1, <2>2, <2>4, <3>1
  <2> QED BY <2>3, <2>4
<1>10. TalliesAddUp'
  BY <1>0, <1>1, <1>2, <1>4, <1>5 DEF TalliesAddUp
<1>11. StepsDeliver'
  BY <1>0, <1>1, <1>5 DEF StepsDeliver
<1>12. CutShortIsReported'
  BY <1>0, <1>1, <1>5, ReportKept
<1> QED BY <1>5, <1>6, <1>7, <1>8, <1>9, <1>10, <1>11, <1>12 DEF CoopInv

\* A tick, whoever drives it.
LEMMA PopStep ==
  ASSUME CoopInv, pop_ready,
         drain' \in [max : StepBudgets \cup {-1}, steps : Nat, out : Seq(Values)]
  PROVE  /\ Shape' /\ Whereabouts' /\ Fresh' /\ ReadyIdsHaveValues' /\ ValuesSurfaceOnce'
         /\ TalliesAddUp' /\ saturated' = saturated
         /\ ~saturated => Head(queue) \in HasValue
<1> DEFINE id == Head(queue)
<1>0. Shape /\ Whereabouts /\ Fresh /\ ReadyIdsHaveValues /\ ValuesSurfaceOnce /\ TalliesAddUp
  BY DEF CoopInv
<1>1. /\ id \in Queued /\ id \in Ids
      /\ queue' \in Seq(Ids) /\ Len(queue') <= Len(queue)
      /\ Queued = Queued' \cup {id}
      /\ IsInjective(queue) => IsInjective(queue') /\ id \notin Queued'
      /\ id \in HasValue =>
           /\ HasValue' = HasValue \ {id}
           /\ \A x \in HasValue' : resumed_values'[x] \in Values
           /\ completed_ids' = completed_ids \cup {id} /\ waiting' = waiting
           /\ history' \in [given : Nat, discarded : Nat, delivered : Nat, rewound : SUBSET Ids]
           /\ history'.given = history.given
           /\ history'.discarded = history.discarded
           /\ history'.delivered = history.delivered + 1
           /\ history'.rewound = history.rewound
      /\ id \notin HasValue =>
           /\ HasValue' = HasValue /\ resumed_values' = resumed_values
           /\ completed_ids' = completed_ids /\ waiting' = waiting \cup {id}
           /\ history' = history
      /\ UNCHANGED <<max_queue_depth, next_id, spawned_ids, bounds>>
  BY <1>0, PopFacts
<1> HIDE DEF id
<1>2. spawns' = spawns /\ resumes' = resumes /\ next_id' = next_id
      /\ spawned_ids' = spawned_ids /\ max_queue_depth' = max_queue_depth
  BY <1>1 DEF bounds
<1>3. Fresh' /\ saturated' = saturated
  BY <1>0, <1>2, AllocatorKept
<1>4. ASSUME ~saturated PROVE id \in HasValue
  BY <1>0, <1>1, <1>4 DEF ReadyIdsHaveValues
<1>5. Shape'
  <2>1. Len(queue') <= spawns' + resumes'
    <3>1. Len(queue) \in Nat /\ Len(queue') \in Nat /\ Len(queue) <= spawns + resumes
          /\ spawns \in Nat /\ resumes \in Nat /\ Len(queue') <= Len(queue)
      BY <1>0, <1>1 DEF Shape
    <3> QED BY <1>2, <3>1
  <2>2. /\ HasValue' \subseteq Ids /\ waiting' \subseteq Ids /\ completed_ids' \subseteq Ids
        /\ \A x \in HasValue' : resumed_values'[x] \in Values
        /\ history' \in [given : Nat, discarded : Nat, delivered : Nat, rewound : SUBSET Ids]
    BY <1>0, <1>1 DEF Shape
  <2> QED BY <1>0, <1>1, <1>2, <2>1, <2>2 DEF Shape
<1>6. Whereabouts'
  <2>1. CASE id \in HasValue
    BY <1>0, <1>1, <1>2, <2>1 DEF Whereabouts
  <2>2. CASE id \notin HasValue
    BY <1>0, <1>1, <1>2, <2>2 DEF Whereabouts
  <2> QED BY <2>1, <2>2
<1>7. ReadyIdsHaveValues'
  <2> SUFFICES ASSUME ~saturated
               PROVE  IsInjective(queue') /\ Queued' = HasValue' /\ Queued' \cap waiting' = {}
    BY <1>3 DEF ReadyIdsHaveValues
  <2>1. IsInjective(queue) /\ Queued = HasValue /\ Queued \cap waiting = {}
    BY <1>0 DEF ReadyIdsHaveValues
  <2> QED BY <1>1, <1>4, <2>1, ZenonT(40)
<1>8. ValuesSurfaceOnce'
  <2> SUFFICES ASSUME ~saturated
               PROVE  history'.given = history'.delivered + history'.discarded
                                         + Cardinality(HasValue')
    BY <1>3 DEF ValuesSurfaceOnce
  <2>1. history.given = history.delivered + history.discarded + Cardinality(HasValue)
    BY <1>0 DEF ValuesSurfaceOnce
  <2>2. history.given \in Nat /\ history.delivered \in Nat /\ history.discarded \in Nat
        /\ Cardinality(HasValue) \in Nat
    BY <1>0, ValueCounts DEF Shape
  <2>3. Cardinality(HasValue') = Cardinality(HasValue) - 1
    BY <1>0, <1>1, <1>4, ValueCounts DEF Shape
  <2>4. /\ history'.given = history.given /\ history'.delivered = history.delivered + 1
        /\ history'.discarded = history.discarded
    BY <1>1, <1>4
  <2> QED BY <2>1, <2>2, <2>3, <2>4
<1>9. TalliesAddUp'
  <2> SUFFICES ASSUME ~saturated
               PROVE  completed_ids' \cap (waiting' \cup Queued') \subseteq history'.rewound
    BY <1>3 DEF TalliesAddUp
  <2>1. /\ completed_ids \cap (waiting \cup Queued) \subseteq history.rewound
        /\ IsInjective(queue) /\ Queued \cap waiting = {}
    BY <1>0 DEF TalliesAddUp, ReadyIdsHaveValues
  <2> QED BY <1>1, <1>4, <2>1
<1> QED BY <1>3, <1>4, <1>5, <1>6, <1>7, <1>8, <1>9 DEF id

LEMMA TickStep ==
  ASSUME CoopInv, step
  PROVE  CoopInv'
<1>1. pop_ready /\ drain' = drain /\ report' = report
  BY DEF step
<1>2. drain \in [max : StepBudgets \cup {-1}, steps : Nat, out : Seq(Values)]
      /\ StepsDeliver /\ CutShortIsReported
  BY DEF CoopInv, Shape
<1>3. /\ Shape' /\ Whereabouts' /\ Fresh' /\ ReadyIdsHaveValues' /\ ValuesSurfaceOnce'
      /\ TalliesAddUp' /\ saturated' = saturated
  BY <1>1, <1>2, PopStep
<1>4. StepsDeliver'
  BY <1>1, <1>2, <1>3 DEF StepsDeliver
<1>5. CutShortIsReported'
  BY <1>1, <1>2, <1>3, ReportKept
<1> QED BY <1>3, <1>4, <1>5 DEF CoopInv

LEMMA DrainTickStep ==
  ASSUME CoopInv, drain_step
  PROVE  CoopInv'
<1> DEFINE out == IF Head(queue) \in HasValue
                    THEN Append(drain.out, resumed_values[Head(queue)]) ELSE drain.out
<1>1. pop_ready /\ report' = report /\ drain' = [drain EXCEPT !.steps = @ + 1, !.out = out]
  BY DEF drain_step
<1>2. drain \in [max : StepBudgets \cup {-1}, steps : Nat, out : Seq(Values)]
      /\ StepsDeliver /\ CutShortIsReported /\ \A id \in HasValue : resumed_values[id] \in Values
  BY DEF CoopInv, Shape
<1>3. /\ out \in Seq(Values)
      /\ Head(queue) \in HasValue => Len(out) = Len(drain.out) + 1
  <2>1. drain.out \in Seq(Values)
    BY <1>2
  <2> QED BY <1>2, <2>1
<1> HIDE DEF out
<1>4. /\ drain' \in [max : StepBudgets \cup {-1}, steps : Nat, out : Seq(Values)]
      /\ drain'.out = out /\ drain'.steps = drain.steps + 1
  <2>1. drain' = [drain EXCEPT !.steps = @ + 1, !.out = out]
    BY <1>1
  <2>2. drain \in [max : StepBudgets \cup {-1}, steps : Nat, out : Seq(Values)]
    BY <1>2
  <2>3. out \in Seq(Values)
    BY <1>3
  <2> DEFINE k == drain.steps + 1
             Out == Seq(Values)
             Caps == StepBudgets \cup {-1}
  <2>4. k \in Nat
    BY <2>2
  <2>5. drain' = [drain EXCEPT !.steps = k, !.out = out]
    BY <2>1
  <2>6. drain \in [max : Caps, steps : Nat, out : Out] /\ out \in Out
    BY <2>2, <2>3
  <2> HIDE DEF k, Out, Caps
  <2>7. /\ drain' \in [max : Caps, steps : Nat, out : Out]
        /\ drain'.out = out /\ drain'.steps = k
    BY <2>4, <2>5, <2>6
  <2> QED BY <2>7 DEF k, Out, Caps
<1>5. /\ Shape' /\ Whereabouts' /\ Fresh' /\ ReadyIdsHaveValues' /\ ValuesSurfaceOnce'
      /\ TalliesAddUp' /\ saturated' = saturated
      /\ ~saturated => Head(queue) \in HasValue
  BY <1>1, <1>4, PopStep
<1>6. StepsDeliver'
  BY <1>2, <1>3, <1>4, <1>5 DEF StepsDeliver
<1>7. CutShortIsReported'
  BY <1>1, <1>2, <1>5, ReportKept
<1> QED BY <1>5, <1>6, <1>7 DEF CoopInv

\* An operation that only moves the run in progress.
LEMMA RestKept ==
  ASSUME CoopInv,
         UNCHANGED <<ready, waiting, next_id, tallies, bounds, history>>,
         drain' \in [max : StepBudgets \cup {-1}, steps : Nat, out : Seq(Values)]
  PROVE  /\ Shape' /\ Whereabouts' /\ Fresh' /\ ReadyIdsHaveValues' /\ ValuesSurfaceOnce'
         /\ TalliesAddUp' /\ saturated' = saturated
<1>1. Queued' = Queued /\ HasValue' = HasValue /\ saturated' = saturated
  BY DEF ready, bounds, Queued, HasValue, saturated
<1> QED BY <1>1 DEF CoopInv, ready, tallies, bounds, Shape, Whereabouts, Fresh,
                    ReadyIdsHaveValues, ValuesSurfaceOnce, TalliesAddUp

LEMMA DrainBegins ==
  ASSUME CoopInv, NEW m \in StepBudgets, run_to_completion(m)
  PROVE  CoopInv'
<1>1. /\ drain' = [max |-> m, steps |-> 0, out |-> <<>>] /\ report' = report
      /\ UNCHANGED <<ready, waiting, next_id, tallies, bounds, history>>
  BY DEF run_to_completion
<1>2. /\ drain' \in [max : StepBudgets \cup {-1}, steps : Nat, out : Seq(Values)]
      /\ Len(drain'.out) = drain'.steps
  BY <1>1
<1>3. /\ Shape' /\ Whereabouts' /\ Fresh' /\ ReadyIdsHaveValues' /\ ValuesSurfaceOnce'
      /\ TalliesAddUp' /\ saturated' = saturated
  BY <1>1, <1>2, RestKept
<1>4. StepsDeliver'
  BY <1>2 DEF StepsDeliver
<1>5. CutShortIsReported'
  BY <1>1, <1>3, ReportKept DEF CoopInv
<1> QED BY <1>3, <1>4, <1>5 DEF CoopInv

LEMMA DrainEnds ==
  ASSUME CoopInv, drain_ends
  PROVE  CoopInv'
<1>1. /\ drain /= NoDrain /\ (drain.steps = drain.max \/ queue = <<>>)
      /\ report' = from_scheduler(Len(drain.out), drain.max) /\ drain' = NoDrain
      /\ UNCHANGED <<ready, waiting, next_id, tallies, bounds, history>>
  BY DEF drain_ends
<1>2. /\ drain' \in [max : StepBudgets \cup {-1}, steps : Nat, out : Seq(Values)]
      /\ Len(drain'.out) = drain'.steps
  BY <1>1 DEF NoDrain
<1>3. /\ Shape' /\ Whereabouts' /\ Fresh' /\ ReadyIdsHaveValues' /\ ValuesSurfaceOnce'
      /\ TalliesAddUp' /\ saturated' = saturated
  BY <1>1, <1>2, RestKept
<1>4. StepsDeliver'
  BY <1>2 DEF StepsDeliver
<1>5. CutShortIsReported'
  <2>1. /\ report'.left = Len(queue) /\ report'.stalled = Cardinality(waiting)
        /\ report'.diagnostics = diagnostics_for(Len(drain.out), drain.max)
    BY <1>1 DEF from_scheduler
  <2>2. queue \in Seq(Ids) /\ drain.steps \in Nat
        /\ (~saturated => Len(drain.out) = drain.steps)
    BY DEF CoopInv, Shape, StepsDeliver
  <2> SUFFICES ASSUME ~saturated
               PROVE  /\ report'.left > 0 => "A0001" \in report'.diagnostics
                      /\ report'.left = 0 /\ report'.stalled > 0 => "A0002" \in report'.diagnostics
    BY <1>3 DEF CutShortIsReported
  <2>3. ASSUME report'.left > 0 PROVE "A0001" \in report'.diagnostics
    <3>1. queue /= <<>>
      BY <2>1, <2>2, <2>3
    <3>2. Len(drain.out) = drain.max /\ drain.max \in Nat
      BY <1>1, <2>2, <3>1
    <3>3. overflowed(Len(drain.out), drain.max)
      BY <3>1, <3>2 DEF overflowed
    <3> QED BY <2>1, <3>3 DEF diagnostics_for
  <2>4. ASSUME report'.left = 0, report'.stalled > 0 PROVE "A0002" \in report'.diagnostics
    <3>1. queue = <<>>
      <4>1. Len(queue) = 0
        BY <2>1, <2>4
      <4> QED BY <2>2, <4>1
    <3>2. waiting /= {}
      <4>1. Cardinality(waiting) > 0
        BY <2>1, <2>4
      <4>2. Cardinality({}) = 0
        BY FS_EmptySet
      <4> QED BY <4>1, <4>2
    <3> QED BY <2>1, <3>1, <3>2 DEF diagnostics_for
  <2> QED BY <2>3, <2>4
<1> QED BY <1>3, <1>4, <1>5 DEF CoopInv

LEMMA HandOverStep ==
  ASSUME CoopInv, NEW w \in WorkerCounts, NEW m \in StepBudgets,
         run_to_completion_parallel(w, m)
  PROVE  CoopInv'
<1>0. Shape /\ Whereabouts /\ Fresh /\ ReadyIdsHaveValues /\ ValuesSurfaceOnce /\ TalliesAddUp
      /\ StepsDeliver /\ CutShortIsReported
  BY DEF CoopInv
<1> DEFINE moved == Queued \cap HasValue
<1>1. /\ queue' = <<>>
      /\ resumed_values' = [id \in HasValue \ Queued |-> resumed_values[id]]
      /\ completed_ids' = completed_ids \cup moved
      /\ report' \in PoolReports(Cardinality(moved), w, m)
      /\ history' = [history EXCEPT !.discarded = @ + Cardinality(moved)]
      /\ waiting' = waiting /\ max_queue_depth' = max_queue_depth /\ next_id' = next_id
      /\ spawned_ids' = spawned_ids /\ drain' = drain /\ spawns' = spawns /\ resumes' = resumes
  BY DEF run_to_completion_parallel, bounds
<1>2. Queued' = {} /\ queue' \in Seq(Ids) /\ Len(queue') = 0 /\ IsInjective(queue')
  BY <1>1 DEF Queued, ToSet, IsInjective
<1>3. HasValue' = HasValue \ Queued /\ \A x \in HasValue' : resumed_values'[x] \in Values
  BY <1>0, <1>1 DEF HasValue, Shape
<1>4. Cardinality(moved) \in Nat
  <2>1. IsFiniteSet(HasValue) /\ moved \subseteq HasValue
    BY <1>0, ValueCounts DEF Shape
  <2> HIDE DEF moved
  <2>2. IsFiniteSet(moved)
    BY <2>1, FS_Subset
  <2> QED BY <2>2, FS_CardinalityType
<1>5. /\ history' \in [given : Nat, discarded : Nat, delivered : Nat, rewound : SUBSET Ids]
      /\ history'.given = history.given
      /\ history'.discarded = history.discarded + Cardinality(moved)
      /\ history'.delivered = history.delivered
      /\ history'.rewound = history.rewound
  <2>1. history \in [given : Nat, discarded : Nat, delivered : Nat, rewound : SUBSET Ids]
    BY <1>0 DEF Shape
  <2>2. history' = [history EXCEPT !.discarded = @ + Cardinality(moved)]
    BY <1>1
  <2> HIDE DEF moved
  <2> QED BY <1>4, <2>1, <2>2
<1>6. Fresh' /\ saturated' = saturated
  BY <1>0, <1>1, AllocatorKept
<1>7. Shape'
  <2>1. HasValue' \subseteq Ids /\ completed_ids' \subseteq Ids
    BY <1>0, <1>1, <1>3 DEF Shape
  <2>2. Len(queue') <= spawns' + resumes'
    BY <1>0, <1>1, <1>2 DEF Shape
  <2> QED BY <1>0, <1>1, <1>2, <1>3, <1>5, <2>1, <2>2 DEF Shape
<1>8. Whereabouts'
  BY <1>0, <1>1, <1>2, <1>3 DEF Whereabouts
<1>9. ReadyIdsHaveValues'
  BY <1>0, <1>1, <1>2, <1>3, <1>6 DEF ReadyIdsHaveValues
<1>10. ValuesSurfaceOnce'
  <2> SUFFICES ASSUME ~saturated
               PROVE  history'.given = history'.delivered + history'.discarded
                                         + Cardinality(HasValue')
    BY <1>6 DEF ValuesSurfaceOnce
  <2>1. history.given = history.delivered + history.discarded + Cardinality(HasValue)
        /\ HasValue = Queued
    BY <1>0 DEF ValuesSurfaceOnce, ReadyIdsHaveValues
  <2>2. moved = HasValue /\ HasValue' = {}
    BY <1>3, <2>1
  <2>3. history.given \in Nat /\ history.delivered \in Nat /\ history.discarded \in Nat
    BY <1>0 DEF Shape
  <2>4. /\ history'.given = history.given /\ history'.delivered = history.delivered
        /\ history'.discarded = history.discarded + Cardinality(HasValue)
        /\ Cardinality(HasValue) \in Nat
    BY <1>4, <1>5, <2>2
  <2>5. Cardinality(HasValue') = 0
    BY <2>2, FS_EmptySet
  <2> QED BY <2>1, <2>3, <2>4, <2>5
<1>11. TalliesAddUp'
  BY <1>0, <1>1, <1>2, <1>5, <1>6 DEF TalliesAddUp, ReadyIdsHaveValues
<1>12. StepsDeliver'
  BY <1>0, <1>1, <1>6 DEF StepsDeliver
<1>13. CutShortIsReported'
  <2>1. "left" \notin DOMAIN report'
    BY <1>1 DEF PoolReports
  <2> QED BY <2>1 DEF CutShortIsReported
<1> QED BY <1>6, <1>7, <1>8, <1>9, <1>10, <1>11, <1>12, <1>13 DEF CoopInv

LEMMA StutterStep ==
  ASSUME CoopInv, UNCHANGED vars
  PROVE  CoopInv'
<1>1. /\ UNCHANGED <<ready, waiting, next_id, tallies, bounds, history>>
      /\ drain' = drain /\ report' = report
  BY DEF vars
<1>2. drain \in [max : StepBudgets \cup {-1}, steps : Nat, out : Seq(Values)]
      /\ StepsDeliver /\ CutShortIsReported
  BY DEF CoopInv, Shape
<1>3. /\ Shape' /\ Whereabouts' /\ Fresh' /\ ReadyIdsHaveValues' /\ ValuesSurfaceOnce'
      /\ TalliesAddUp' /\ saturated' = saturated
  BY <1>1, <1>2, RestKept
<1>4. StepsDeliver'
  BY <1>1, <1>2, <1>3 DEF StepsDeliver
<1>5. CutShortIsReported'
  BY <1>1, <1>2, <1>3, ReportKept
<1> QED BY <1>3, <1>4, <1>5 DEF CoopInv

\* Every operation keeps the invariant, whatever was called before it.
LEMMA NextInv == CoopInv /\ [Next]_vars => CoopInv'
<1> SUFFICES ASSUME CoopInv, [Next]_vars PROVE CoopInv'
  OBVIOUS
<1>1. ASSUME NEW v \in Values, spawn(v) PROVE CoopInv'
  BY <1>1, SpawnStep
<1>2. ASSUME NEW id \in Ids, park(id) PROVE CoopInv'
  BY <1>2, ParkStep
<1>3. ASSUME NEW id \in Ids, NEW v \in Values, resume(id, v) PROVE CoopInv'
  BY <1>3, ResumeStep
<1>4. CASE step
  BY <1>4, TickStep
<1>5. ASSUME NEW m \in StepBudgets, run_to_completion(m) PROVE CoopInv'
  BY <1>5, DrainBegins
<1>6. CASE drain_step
  BY <1>6, DrainTickStep
<1>7. CASE drain_ends
  BY <1>7, DrainEnds
<1>8. ASSUME NEW w \in WorkerCounts, NEW m \in StepBudgets, run_to_completion_parallel(w, m)
      PROVE  CoopInv'
  BY <1>8, HandOverStep
<1>9. CASE UNCHANGED vars
  BY <1>9, StutterStep
<1> QED BY <1>1, <1>2, <1>3, <1>4, <1>5, <1>6, <1>7, <1>8, <1>9 DEF Next
----------------------------------------------------------------------------
(***************************************************************************)
(* The theorems.                                                           *)
(***************************************************************************)

\* The invariant holds in every state a sequence of calls can reach.
THEOREM Invariance == Spec => []CoopInv
BY InitInv, NextInv, PTL DEF Spec

\* Whatever the calls of spawn, park, resume, step, run_to_completion and
\* run_with_mode were, nothing leaks (A0003 never fires, a saturated allocator
\* included) and, while ids are fresh, the queue and the values agree, each
\* value surfaces once and the tallies of a report add up.
THEOREM EveryFutureIsAccounted == Spec => []FuturesAreAccounted
<1>1. CoopInv => FuturesAreAccounted
  <2> SUFFICES ASSUME CoopInv PROVE FuturesAreAccounted
    OBVIOUS
  <2>1. TypeOK
    <3>1. drain.max \in StepBudgets \cup {-1} /\ drain.out \in Seq(Values)
      BY DEF CoopInv, Shape
    <3> QED BY <3>1 DEF CoopInv, Shape, TypeOK
  <2>2. NothingLeaks
    BY DEF CoopInv, Whereabouts, NothingLeaks, leaked_ids
  <2> QED BY <2>1, <2>2 DEF CoopInv, FuturesAreAccounted
<1> QED BY <1>1, Invariance, PTL

\* run_to_completion never hides that it stopped early: a deterministic run that
\* leaves ready futures reports A0001, one that leaves only parked ones A0002.
THEOREM EarlyStopsAreReported == Spec => []CutShortIsReported
<1>1. CoopInv => CutShortIsReported
  BY DEF CoopInv
<1> QED BY <1>1, Invariance, PTL
============================================================================
