------------------------- MODULE UpdateSchedulerProofs -------------------------
(***************************************************************************)
(* Theorems about UpdateScheduler, for any sources, priorities, capacity,   *)
(* configuration and network, and that it implements UpdatePool.            *)
(***************************************************************************)
EXTENDS UpdateScheduler, SequenceTheorems, FiniteSetTheorems, FunctionTheorems,
        WellFoundedInduction, TLAPS

-----------------------------------------------------------------------------
(* Operators on the pending queue *)

LEMMA MinOfNat ==
    ASSUME NEW S \in SUBSET Nat, S # {}
    PROVE  Min(S) \in S /\ \A y \in S : Min(S) <= y
<1> DEFINE Less == { r \in Nat \X Nat : r[1] < r[2] }
<1>1. OpToRel(<, Nat) = Less
  BY Zenon DEF OpToRel
<1>2. IsWellFoundedOn(Less, Nat)
  BY <1>1, NatLessThanWellFounded, Zenon
<1>3. PICK x \in S : \A y \in S : ~ (<<y, x>> \in Less)
  BY <1>2, WFMin
<1>4. ASSUME NEW y \in S
      PROVE  x <= y
  <2>1. ~ (<<y, x>> \in Less)
    BY <1>3
  <2>2. x \in Nat /\ y \in Nat
    OBVIOUS
  <2>3. ~ (y < x)
    BY <2>1, <2>2
  <2> QED  BY <2>2, <2>3
<1> QED  BY <1>4 DEF Min

LEMMA InsertProperties ==
    ASSUME NEW q \in Seq(Task), NEW t \in Task, NEW k \in 1..(Len(q) + 1)
    PROVE  /\ InsertAt(q, k, t) \in Seq(Task)
           /\ Len(InsertAt(q, k, t)) = Len(q) + 1
           /\ \A i \in 1..(Len(q) + 1) : InsertAt(q, k, t)[i] =
                  IF i < k THEN q[i] ELSE IF i = k THEN t ELSE q[i - 1]
<1> DEFINE a == SubSeq(q, 1, k - 1)
           b == SubSeq(q, k, Len(q))
<1>1. Len(q) \in Nat /\ \A i \in 1..Len(q) : q[i] \in Task
  BY LenProperties, ElementOfSeq
<1>2. a \in Seq(Task) /\ Len(a) = k - 1 /\ \A i \in 1..(k - 1) : a[i] = q[i]
  <2>1. /\ a \in Seq(Task)
        /\ Len(a) = IF 1 <= k - 1 THEN k - 1 - 1 + 1 ELSE 0
        /\ \A i \in 1..(k - 1 - 1 + 1) : a[i] = q[1 + i - 1]
    <3>1. \A i \in 1..(k - 1) : q[i] \in Task
      BY <1>1
    <3>2. 1 \in Int /\ k - 1 \in Int
      BY <1>1
    <3> QED  BY <3>1, <3>2, SubSeqProperties
  <2> QED  BY <1>1, <2>1
<1>3. b \in Seq(Task) /\ Len(b) = Len(q) - k + 1 /\ \A i \in 1..(Len(q) - k + 1) : b[i] = q[k + i - 1]
  <2>1. /\ b \in Seq(Task)
        /\ Len(b) = IF k <= Len(q) THEN Len(q) - k + 1 ELSE 0
        /\ \A i \in 1..(Len(q) - k + 1) : b[i] = q[k + i - 1]
    <3>1. \A i \in k..Len(q) : q[i] \in Task
      BY <1>1
    <3>2. k \in Int /\ Len(q) \in Int
      BY <1>1
    <3> QED  BY <3>1, <3>2, SubSeqProperties
  <2> QED  BY <1>1, <2>1
<1>4. <<t>> \in Seq(Task) /\ Len(<<t>>) = 1 /\ <<t>>[1] = t
  OBVIOUS
<1> HIDE DEF a, b
<1> DEFINE at == a \o <<t>>
<1>5. /\ at \in Seq(Task) /\ Len(at) = k
      /\ \A i \in 1..k : at[i] = IF i <= k - 1 THEN a[i] ELSE <<t>>[i - (k - 1)]
  BY <1>1, <1>2, <1>4, ConcatProperties
<1> HIDE DEF at
<1>6. /\ at \o b \in Seq(Task) /\ Len(at \o b) = Len(q) + 1
      /\ \A i \in 1..(Len(q) + 1) : (at \o b)[i] = IF i <= k THEN at[i] ELSE b[i - k]
  <2>1. /\ at \o b \in Seq(Task) /\ Len(at \o b) = Len(at) + Len(b)
        /\ \A i \in 1..(Len(at) + Len(b)) : (at \o b)[i] = IF i <= Len(at) THEN at[i] ELSE b[i - Len(at)]
    BY <1>3, <1>5, ConcatProperties
  <2>2. Len(at) + Len(b) = Len(q) + 1
    BY <1>1, <1>3, <1>5
  <2> QED  BY <1>5, <2>1, <2>2
<1>7. ASSUME NEW i \in 1..(Len(q) + 1)
      PROVE  (at \o b)[i] = IF i < k THEN q[i] ELSE IF i = k THEN t ELSE q[i - 1]
  <2>1. CASE i < k
    BY <1>1, <1>2, <1>5, <1>6, <2>1
  <2>2. CASE i = k
    <3>1. at[k] = <<t>>[1]
      BY <1>1, <1>5
    <3> QED  BY <1>4, <1>6, <2>2, <3>1
  <2>3. CASE i > k
    <3>1. (at \o b)[i] = b[i - k] /\ i - k \in 1..(Len(q) - k + 1)
      BY <1>1, <1>6, <2>3
    <3>2. b[i - k] = q[k + (i - k) - 1]
      BY <1>3, <3>1
    <3>3. k + (i - k) - 1 = i - 1
      BY <1>1
    <3> QED  BY <2>3, <3>1, <3>2, <3>3
  <2>4. i < k \/ i = k \/ i > k
    BY <1>1
  <2>5. i > k => ~(i < k) /\ i # k
    BY <1>1
  <2> QED  BY <2>1, <2>2, <2>3, <2>4, <2>5
<1>8. InsertAt(q, k, t) = at \o b
  BY DEF InsertAt, at, a, b
<1> QED  BY <1>6, <1>7, <1>8

LEMMA EnqueuePosition ==
    ASSUME NEW q \in Seq(Task), NEW t \in Task
    PROVE  \E k \in 1..(Len(q) + 1) :
               /\ Enqueue(q, t) = InsertAt(q, k, t)
               /\ \A i \in 1..Len(q) : i < k => q[i].priority >= t.priority
               /\ k <= Len(q) => q[k].priority < t.priority
<1> DEFINE lower == { i \in 1..Len(q) : q[i].priority < t.priority } \cup {Len(q) + 1}
<1>1. Len(q) \in Nat /\ \A i \in 1..Len(q) : q[i] \in Task
  BY LenProperties, ElementOfSeq
<1>2. \A i \in 1..Len(q) : q[i].priority \in Nat
  BY <1>1, PriorityAssumption DEF Task
<1>3. t.priority \in Nat
  BY PriorityAssumption DEF Task
<1>4. lower \in SUBSET Nat /\ lower # {}
  BY <1>1
<1>5. Min(lower) \in lower /\ \A y \in lower : Min(lower) <= y
  <2> HIDE DEF lower
  <2> QED  BY <1>4, MinOfNat
<1>6. Min(lower) \in 1..(Len(q) + 1)
  BY <1>1, <1>5
<1>7. \A i \in 1..Len(q) : i < Min(lower) => q[i].priority >= t.priority
  BY <1>1, <1>2, <1>3, <1>5, <1>6
<1>8. Min(lower) <= Len(q) => q[Min(lower)].priority < t.priority
  BY <1>1, <1>5
<1>9. Enqueue(q, t) = InsertAt(q, Min(lower), t)
  BY DEF Enqueue
<1> QED  BY <1>6, <1>7, <1>8, <1>9

LEMMA SuffixProperties ==
    ASSUME NEW q \in Seq(Task), NEW n \in 0..Len(q)
    PROVE  /\ SubSeq(q, n + 1, Len(q)) \in Seq(Task)
           /\ Len(SubSeq(q, n + 1, Len(q))) = Len(q) - n
           /\ \A i \in 1..(Len(q) - n) : SubSeq(q, n + 1, Len(q))[i] = q[n + i]
<1>1. Len(q) \in Nat /\ \A i \in 1..Len(q) : q[i] \in Task
  BY LenProperties, ElementOfSeq
<1>2. n + 1 \in Int /\ Len(q) \in Int /\ \A i \in (n + 1)..Len(q) : q[i] \in Task
  BY <1>1
<1>3. /\ SubSeq(q, n + 1, Len(q)) \in Seq(Task)
      /\ Len(SubSeq(q, n + 1, Len(q))) = IF n + 1 <= Len(q) THEN Len(q) - (n + 1) + 1 ELSE 0
      /\ \A i \in 1..(Len(q) - (n + 1) + 1) : SubSeq(q, n + 1, Len(q))[i] = q[(n + 1) + i - 1]
  BY <1>2, SubSeqProperties
<1> DEFINE r == SubSeq(q, n + 1, Len(q))
<1> HIDE DEF r
<1>4. Len(q) - (n + 1) + 1 = Len(q) - n
  BY <1>1
<1>5. Len(r) = Len(q) - n
  BY <1>1, <1>3 DEF r
<1>6. ASSUME NEW i \in 1..(Len(q) - n)
      PROVE  r[i] = q[n + i]
  <2>1. r[i] = q[(n + 1) + i - 1]
    BY <1>3, <1>4 DEF r
  <2>2. (n + 1) + i - 1 = n + i
    OBVIOUS
  <2> QED  BY <2>1, <2>2
<1> QED  BY <1>3, <1>5, <1>6 DEF r

LEMMA RemoveAtProperties ==
    ASSUME NEW q \in Seq(Task), NEW k \in 1..Len(q)
    PROVE  /\ RemoveAt(q, k) \in Seq(Task)
           /\ Len(RemoveAt(q, k)) = Len(q) - 1
           /\ \A i \in 1..(Len(q) - 1) :
                  RemoveAt(q, k)[i] = IF i < k THEN q[i] ELSE q[i + 1]
<1> DEFINE a == SubSeq(q, 1, k - 1)
           b == SubSeq(q, k + 1, Len(q))
<1>1. Len(q) \in Nat /\ \A i \in 1..Len(q) : q[i] \in Task
  BY LenProperties, ElementOfSeq
<1>2. a \in Seq(Task) /\ Len(a) = k - 1 /\ \A i \in 1..(k - 1) : a[i] = q[i]
  <2>1. /\ a \in Seq(Task)
        /\ Len(a) = IF 1 <= k - 1 THEN k - 1 - 1 + 1 ELSE 0
        /\ \A i \in 1..(k - 1 - 1 + 1) : a[i] = q[1 + i - 1]
    <3>1. \A i \in 1..(k - 1) : q[i] \in Task
      BY <1>1
    <3>2. 1 \in Int /\ k - 1 \in Int
      BY <1>1
    <3> QED  BY <3>1, <3>2, SubSeqProperties
  <2> QED  BY <1>1, <2>1
<1>3. b \in Seq(Task) /\ Len(b) = Len(q) - k /\ \A i \in 1..(Len(q) - k) : b[i] = q[k + i]
  BY <1>1, SuffixProperties
<1> HIDE DEF a, b
<1>4. /\ a \o b \in Seq(Task) /\ Len(a \o b) = Len(a) + Len(b)
      /\ \A i \in 1..(Len(a) + Len(b)) : (a \o b)[i] = IF i <= Len(a) THEN a[i] ELSE b[i - Len(a)]
  BY <1>2, <1>3, ConcatProperties
<1>5. Len(a) + Len(b) = Len(q) - 1
  BY <1>1, <1>2, <1>3
<1>6. ASSUME NEW i \in 1..(Len(q) - 1)
      PROVE  (a \o b)[i] = IF i < k THEN q[i] ELSE q[i + 1]
  <2>1. CASE i < k
    BY <1>1, <1>2, <1>4, <1>5, <2>1
  <2>2. CASE ~(i < k)
    <3>1. (a \o b)[i] = b[i - (k - 1)]
      BY <1>1, <1>2, <1>4, <1>5, <2>2
    <3>2. i - (k - 1) \in 1..(Len(q) - k) /\ k + (i - (k - 1)) = i + 1
      BY <1>1, <2>2
    <3>3. b[i - (k - 1)] = q[k + (i - (k - 1))]
      BY <1>3, <3>2
    <3> QED  BY <2>2, <3>1, <3>2, <3>3
  <2> QED  BY <2>1, <2>2
<1>7. RemoveAt(q, k) = a \o b
  BY DEF RemoveAt, a, b
<1> QED  BY <1>4, <1>5, <1>6, <1>7

\* What PendingOnce and PendingOrdered say of a queue when the sources are S.
Fine(q, S) ==
    /\ \A i, j \in 1..Len(q) : q[i].source = q[j].source => i = j
    /\ \A i \in 1..Len(q) : q[i].source \in S
    /\ \A i, j \in 1..Len(q) : i < j => q[i].priority >= q[j].priority

LEMMA RemoveFine ==
    ASSUME NEW S, NEW q \in Seq(Task), Fine(q, S), NEW s
    PROVE  /\ RemoveSource(q, s) \in Seq(Task)
           /\ Fine(RemoveSource(q, s), S \ {s})
           /\ ~Waits(RemoveSource(q, s), s)
           /\ Len(RemoveSource(q, s)) \in Nat
           /\ Len(RemoveSource(q, s)) <= Len(q)
<1>1. Len(q) \in Nat /\ \A i \in 1..Len(q) : q[i] \in Task
  BY LenProperties, ElementOfSeq
<1>2. CASE ~Waits(q, s)
  BY <1>1, <1>2 DEF RemoveSource, Fine, Waits
<1>3. CASE Waits(q, s)
  <2> DEFINE k == Position(q, s)
             r == RemoveAt(q, k)
  <2>1. k \in 1..Len(q) /\ q[k].source = s
    BY <1>3 DEF Waits, Position
  <2> HIDE DEF k
  <2>2. /\ r \in Seq(Task) /\ Len(r) = Len(q) - 1
        /\ \A i \in 1..(Len(q) - 1) : r[i] = IF i < k THEN q[i] ELSE q[i + 1]
    BY <2>1, RemoveAtProperties
  <2> HIDE DEF r
  <2> DEFINE from(i) == IF i < k THEN i ELSE i + 1
  <2>3. \A i \in 1..Len(r) : from(i) \in 1..Len(q) /\ from(i) # k /\ r[i] = q[from(i)]
    BY <1>1, <2>1, <2>2
  <2>4. \A i, j \in 1..Len(r) : /\ i # j => from(i) # from(j)
                                /\ i < j => from(i) < from(j)
    BY <1>1, <2>1, <2>2
  <2> HIDE DEF from
  <2>5. \A i, j \in 1..Len(r) : r[i].source = r[j].source => i = j
    BY <2>3, <2>4 DEF Fine
  <2>6. \A i \in 1..Len(r) : r[i].source \in S \ {s}
    BY <2>1, <2>3 DEF Fine
  <2>7. \A i, j \in 1..Len(r) : i < j => r[i].priority >= r[j].priority
    BY <2>3, <2>4 DEF Fine
  <2>8. RemoveSource(q, s) = r
    BY <1>3 DEF RemoveSource, r, k
  <2>9. Len(r) \in Nat /\ Len(r) <= Len(q)
    BY <1>1, <2>1, <2>2
  <2>10. ~Waits(r, s)
    BY <2>6 DEF Waits
  <2> QED  BY <2>2, <2>5, <2>6, <2>7, <2>8, <2>9, <2>10 DEF Fine
<1> QED  BY <1>2, <1>3

LEMMA EnqueueFine ==
    ASSUME NEW S, NEW q \in Seq(Task), Fine(q, S), NEW t \in Task,
           t.source \in S, ~Waits(q, t.source)
    PROVE  Enqueue(q, t) \in Seq(Task) /\ Fine(Enqueue(q, t), S)
<1>1. Len(q) \in Nat /\ \A i \in 1..Len(q) : q[i] \in Task /\ q[i].priority \in Nat
  <2>1. Len(q) \in Nat /\ \A i \in 1..Len(q) : q[i] \in Task
    BY LenProperties, ElementOfSeq
  <2> QED  BY <2>1, PriorityAssumption DEF Task
<1>2. t.priority \in Nat
  BY PriorityAssumption DEF Task
<1>3. PICK k \in 1..(Len(q) + 1) :
          /\ Enqueue(q, t) = InsertAt(q, k, t)
          /\ \A i \in 1..Len(q) : i < k => q[i].priority >= t.priority
          /\ k <= Len(q) => q[k].priority < t.priority
  BY EnqueuePosition
<1> DEFINE r == InsertAt(q, k, t)
           from(i) == IF i < k THEN i ELSE i - 1
<1>4. /\ r \in Seq(Task) /\ Len(r) = Len(q) + 1
      /\ \A i \in 1..(Len(q) + 1) :
             r[i] = IF i < k THEN q[i] ELSE IF i = k THEN t ELSE q[i - 1]
  BY InsertProperties
<1> HIDE DEF r
<1>5. r[k] = t
  BY <1>1, <1>4
<1>6. \A i \in 1..Len(r) : i # k => from(i) \in 1..Len(q) /\ r[i] = q[from(i)]
  BY <1>1, <1>4
<1>7. \A i, j \in 1..Len(r) : i # k /\ j # k => /\ i # j => from(i) # from(j)
                                                /\ i < j => from(i) < from(j)
  BY <1>1, <1>4
<1>8. \A i \in 1..Len(q) : q[i].source # t.source
  BY DEF Waits
<1>9. \A i \in 1..Len(r) : i < k => from(i) < k
  BY <1>1, <1>4
<1>10. \A i \in 1..Len(r) : i > k => from(i) >= k
  BY <1>1, <1>4
<1>11. \A i \in 1..Len(q) : i >= k => q[i].priority < t.priority
  <2> SUFFICES ASSUME NEW i \in 1..Len(q), i >= k
               PROVE  q[i].priority < t.priority
    OBVIOUS
  <2>1. k \in 1..Len(q) /\ q[k].priority < t.priority
    BY <1>1, <1>3
  <2>2. i = k \/ k < i
    BY <1>1
  <2>3. k < i => q[k].priority >= q[i].priority
    BY <2>1 DEF Fine
  <2> QED  BY <1>1, <1>2, <2>1, <2>2, <2>3
<1> HIDE DEF from
<1>12. ASSUME NEW i \in 1..Len(r), NEW j \in 1..Len(r), r[i].source = r[j].source
       PROVE  i = j
  <2>1. CASE i # k /\ j # k
    BY <1>6, <1>7, <1>12, <2>1 DEF Fine
  <2>2. CASE i = k \/ j = k
    BY <1>5, <1>6, <1>8, <1>12, <2>2
  <2> QED  BY <2>1, <2>2
<1>13. \A i \in 1..Len(r) : r[i].source \in S
  BY <1>5, <1>6 DEF Fine
<1>14. ASSUME NEW i \in 1..Len(r), NEW j \in 1..Len(r), i < j
       PROVE  r[i].priority >= r[j].priority
  <2>1. CASE i # k /\ j # k
    BY <1>6, <1>7, <1>14, <2>1 DEF Fine
  <2>2. CASE i = k
    <3>1. j > k /\ j # k
      BY <1>14, <2>2
    <3>2. from(j) \in 1..Len(q) /\ from(j) >= k /\ r[j] = q[from(j)]
      BY <1>6, <1>10, <3>1
    <3>3. q[from(j)].priority < t.priority /\ q[from(j)].priority \in Nat
      BY <1>1, <1>11, <3>2
    <3> QED  BY <1>2, <1>5, <2>2, <3>2, <3>3
  <2>3. CASE j = k
    <3>1. i < k /\ i # k
      BY <1>14, <2>3
    <3>2. from(i) \in 1..Len(q) /\ from(i) < k /\ r[i] = q[from(i)]
      BY <1>6, <1>9, <3>1
    <3>3. q[from(i)].priority >= t.priority
      BY <1>3, <3>2
    <3> QED  BY <1>5, <2>3, <3>2, <3>3
  <2> QED  BY <2>1, <2>2, <2>3
<1>15. Enqueue(q, t) = r
  BY <1>3 DEF r
<1> QED  BY <1>4, <1>12, <1>13, <1>14, <1>15 DEF Fine

LEMMA SuffixFine ==
    ASSUME NEW S, NEW q \in Seq(Task), Fine(q, S), NEW n \in 0..Len(q)
    PROVE  Fine(SubSeq(q, n + 1, Len(q)), S)
<1> DEFINE r == SubSeq(q, n + 1, Len(q))
<1>1. Len(q) \in Nat
  BY LenProperties
<1>2. Len(r) = Len(q) - n /\ \A i \in 1..(Len(q) - n) : r[i] = q[n + i]
  BY SuffixProperties
<1> HIDE DEF r
<1>3. \A i \in 1..Len(r) : n + i \in 1..Len(q) /\ r[i] = q[n + i]
  BY <1>1, <1>2
<1>4. \A i, j \in 1..Len(r) : /\ n + i = n + j => i = j
                              /\ i < j => n + i < n + j
  BY <1>1, <1>2
<1>5. \A i, j \in 1..Len(r) : r[i].source = r[j].source => i = j
  BY <1>3, <1>4 DEF Fine
<1>6. \A i \in 1..Len(r) : r[i].source \in S
  BY <1>3 DEF Fine
<1>7. \A i, j \in 1..Len(r) : i < j => r[i].priority >= r[j].priority
  BY <1>3, <1>4 DEF Fine
<1> QED  BY <1>5, <1>6, <1>7 DEF Fine, r

-----------------------------------------------------------------------------
(* Parts of a step *)

LEMMA ProcessEffect ==
    ASSUME TypeOK, NEW S, NEW q \in Seq(Task), Fine(q, S),
           NEW st, NEW paused, Process(st, paused, q, activeTasks)
    PROVE  /\ pendingQueue' \in Seq(Task)
           /\ Fine(pendingQueue', S)
           /\ activeTasks' \in Seq(ActiveTask)
           /\ Len(activeTasks') <= MaxConcurrent
           /\ \/ ~(st = "running" /\ ~paused)
              \/ pendingQueue' = << >>
              \/ Len(activeTasks') >= MaxConcurrent
           /\ \/ st = "running" /\ ~paused
              \/ activeTasks' = activeTasks
<1> DEFINE free == MaxConcurrent - Len(activeTasks)
           n == Min({free, Len(q)})
           begun == [i \in 1..n |-> Begun(q[i])]
<1>1. Len(q) \in Nat /\ \A i \in 1..Len(q) : q[i] \in Task
  BY LenProperties, ElementOfSeq
<1>2. activeTasks \in Seq(ActiveTask) /\ Len(activeTasks) \in Nat /\ Len(activeTasks) <= MaxConcurrent
  BY LenProperties DEF TypeOK
<1>3. MaxConcurrent \in Nat
  BY ConcurrencyAssumption
<1>4. free \in Nat
  BY <1>2, <1>3
<1>5. CASE ~(st = "running" /\ ~paused)
  BY <1>2, <1>5 DEF Process
<1>6. CASE st = "running" /\ ~paused
  <2>1. /\ pendingQueue' = SubSeq(q, n + 1, Len(q))
        /\ activeTasks' = activeTasks \o begun
    BY <1>6 DEF Process, Hand
  <2>2. n \in {free, Len(q)} /\ n <= free /\ n <= Len(q)
    <3>1. {free, Len(q)} \in SUBSET Nat /\ {free, Len(q)} # {}
      BY <1>1, <1>4
    <3> HIDE DEF free
    <3> QED  BY <3>1, MinOfNat
  <2> HIDE DEF n
  <2>3. n \in 0..Len(q)
    BY <1>1, <1>4, <2>2
  <2>4. /\ pendingQueue' \in Seq(Task) /\ Len(pendingQueue') = Len(q) - n
        /\ Fine(pendingQueue', S)
    BY <2>1, <2>3, SuffixProperties, SuffixFine
  <2>5. begun \in Seq(ActiveTask) /\ Len(begun) = n
    <3>1. \A i \in 1..n : Begun(q[i]) \in ActiveTask
      BY <1>1, <2>3 DEF Begun, ActiveTask, Stage, Task
    <3> QED  BY <2>3, <3>1
  <2> HIDE DEF begun
  <2>6. /\ activeTasks' \in Seq(ActiveTask)
        /\ Len(activeTasks') = Len(activeTasks) + n
    BY <1>2, <2>1, <2>5, ConcatProperties
  <2>7. Len(activeTasks') <= MaxConcurrent
    BY <1>2, <1>3, <2>2, <2>3, <2>6
  <2>8. CASE n = free
    BY <1>2, <1>3, <1>6, <2>4, <2>6, <2>7, <2>8
  <2>9. CASE n = Len(q)
    <3>1. Len(pendingQueue') = 0
      BY <1>1, <2>4, <2>9
    <3>2. pendingQueue' = << >>
      BY <2>4, <3>1, EmptySeq
    <3> QED  BY <1>6, <2>4, <2>6, <2>7, <3>2
  <2> QED  BY <2>2, <2>8, <2>9
<1> QED  BY <1>5, <1>6

LEMMA BlockParts ==
    ASSUME NEW b \in Block
    PROVE  /\ b[1] \in {"add", "remove", "cancel"} => b[2] \in Source
           /\ b[1] = "update" => b[2] \in Source \X Priority
           /\ b[1] = "updateAll" => b[2] \in Priority
           /\ b[1] = "network" => b[2] \in Status
BY DEF Block

LEMMA ThenType ==
    ASSUME NEW rest \in Seq(Block), NEW blocks \in Seq(Block), Then(rest, blocks)
    PROVE  schedulerQueue' \in Seq(Block)
BY ConcatProperties DEF Then

LEMMA ThenNothing ==
    ASSUME NEW rest \in Seq(Block), Then(rest, << >>)
    PROVE  schedulerQueue' \in Seq(Block)
BY ThenType, EmptySeq

LEMMA CancelledType ==
    ASSUME TypeOK, NEW S
    PROVE  Cancelled(S) \in Seq(ActiveTask) /\ Len(Cancelled(S)) = Len(activeTasks)
<1>1. /\ activeTasks \in Seq(ActiveTask) /\ Len(activeTasks) \in Nat
      /\ \A i \in 1..Len(activeTasks) : activeTasks[i] \in ActiveTask
  BY LenProperties, ElementOfSeq DEF TypeOK
<1>2. \A i \in 1..Len(activeTasks) :
          [activeTasks[i] EXCEPT !.cancelled = @ \/ activeTasks[i].source \in S] \in ActiveTask
  BY <1>1 DEF ActiveTask
<1> QED  BY <1>1, <1>2 DEF Cancelled

\* The invariant: on top of the types, what the pending queue must keep so that its
\* operations do what they should, and that it is empty whenever there is capacity.
Inv == TypeOK /\ Fine(pendingQueue, sources) /\ WorkConserving

\* What a block that may have handed tasks over establishes.
Kept ==
    /\ state' \in {"stopped", "running", "paused"}
    /\ sources' \in SUBSET Source
    /\ pendingQueue' \in Seq(Task)
    /\ Fine(pendingQueue', sources')
    /\ activeTasks' \in Seq(ActiveTask)
    /\ Len(activeTasks') <= MaxConcurrent
    /\ networkPaused' \in BOOLEAN
    /\ schedulerQueue' \in Seq(Block)
    /\ WorkConserving'
    /\ \/ Len(activeTasks') = Len(activeTasks)
       \/ state' = "running" /\ ~networkPaused'

\* Looking at the pending tasks restores the invariant from any state they are in.
LEMMA ProcessKept ==
    ASSUME Inv, NEW q \in Seq(Task), Fine(q, sources'),
           state' \in {"stopped", "running", "paused"}, sources' \in SUBSET Source,
           networkPaused' \in BOOLEAN, schedulerQueue' \in Seq(Block),
           Process(state', networkPaused', q, activeTasks)
    PROVE  Kept
<1>1. TypeOK
  BY DEF Inv
<1>2. /\ pendingQueue' \in Seq(Task)
      /\ Fine(pendingQueue', sources')
      /\ activeTasks' \in Seq(ActiveTask)
      /\ Len(activeTasks') <= MaxConcurrent
      /\ \/ ~(state' = "running" /\ ~networkPaused')
         \/ pendingQueue' = << >>
         \/ Len(activeTasks') >= MaxConcurrent
      /\ \/ state' = "running" /\ ~networkPaused'
         \/ activeTasks' = activeTasks
  BY <1>1, ProcessEffect
<1>3. WorkConserving'
  BY <1>2 DEF WorkConserving
<1>4. Len(activeTasks') = Len(activeTasks) \/ (state' = "running" /\ ~networkPaused')
  BY <1>2
<1> QED  BY <1>2, <1>3, <1>4 DEF Kept

LEMMA UpdateKept ==
    ASSUME Inv, NEW rest \in Seq(Block), NEW s \in Source, NEW p \in Priority,
           UpdateSource(rest, s, p), UNCHANGED << state, sources, networkPaused >>
    PROVE  Kept
<1> DEFINE task == [source |-> s, priority |-> p]
<1>1. TypeOK /\ Fine(pendingQueue, sources) /\ WorkConserving
  BY DEF Inv
<1>2. schedulerQueue' \in Seq(Block)
  BY ThenNothing DEF UpdateSource
<1>3. pendingQueue \in Seq(Task) /\ task \in Task /\ task.source = s
  BY <1>1 DEF TypeOK, Task
<1>4. CASE s \notin sources /\ UNCHANGED taskVars
  BY <1>1, <1>2, <1>4 DEF Kept, TypeOK, taskVars, WorkConserving
<1>5. CASE /\ s \in sources /\ Waits(pendingQueue, s)
           /\ pendingQueue' = IF p > pendingQueue[Position(pendingQueue, s)].priority
                              THEN Enqueue(RemoveSource(pendingQueue, s), task)
                              ELSE pendingQueue
           /\ UNCHANGED activeTasks
  <2> DEFINE removed == RemoveSource(pendingQueue, s)
  <2>1. /\ removed \in Seq(Task) /\ Fine(removed, sources \ {s}) /\ ~Waits(removed, s)
    BY <1>1, <1>3, RemoveFine
  <2>2. Fine(removed, sources)
    BY <2>1 DEF Fine
  <2> HIDE DEF removed
  <2>3. Enqueue(removed, task) \in Seq(Task) /\ Fine(Enqueue(removed, task), sources)
    <3> HIDE DEF task
    <3>1. task.source \in sources /\ ~Waits(removed, task.source)
      BY <1>3, <1>5, <2>1
    <3> QED  BY <1>3, <2>1, <2>2, <3>1, EnqueueFine
  <2>4. pendingQueue' \in Seq(Task) /\ Fine(pendingQueue', sources)
    BY <1>1, <1>3, <1>5, <2>3 DEF removed
  <2>5. pendingQueue # << >>
    BY <1>5, EmptySeq DEF Waits
  <2>6. WorkConserving'
    BY <1>1, <1>5, <2>5 DEF WorkConserving
  <2> QED  BY <1>1, <1>2, <1>5, <2>4, <2>6 DEF Kept, TypeOK
<1>6. CASE /\ s \in sources /\ ~Waits(pendingQueue, s)
           /\ Process(state, networkPaused, Enqueue(pendingQueue, task), activeTasks)
  <2>1. Enqueue(pendingQueue, task) \in Seq(Task) /\ Fine(Enqueue(pendingQueue, task), sources)
    <3> HIDE DEF task
    <3>1. task.source \in sources /\ ~Waits(pendingQueue, task.source)
      BY <1>3, <1>6
    <3> QED  BY <1>1, <1>3, <3>1, EnqueueFine
  <2>2. state' = state /\ networkPaused' = networkPaused /\ sources' = sources
    OBVIOUS
  <2> HIDE DEF task
  <2>3. Process(state', networkPaused', Enqueue(pendingQueue, task), activeTasks)
    BY <1>6, <2>2 DEF task
  <2>4. /\ Fine(Enqueue(pendingQueue, task), sources')
        /\ state' \in {"stopped", "running", "paused"} /\ sources' \in SUBSET Source
        /\ networkPaused' \in BOOLEAN
    BY <1>1, <2>1, <2>2 DEF TypeOK
  <2> QED  BY <1>2, <2>1, <2>3, <2>4, ProcessKept
<1> QED  BY <1>4, <1>5, <1>6 DEF UpdateSource

LEMMA StepKept ==
    ASSUME Inv, SchedulerStep
    PROVE  Kept
<1> DEFINE rest == Tail(schedulerQueue)
           op   == Head(schedulerQueue)[1]
           arg  == Head(schedulerQueue)[2]
<1>1. TypeOK /\ Fine(pendingQueue, sources) /\ WorkConserving
  BY DEF Inv
<1>2. /\ pendingQueue \in Seq(Task) /\ Len(pendingQueue) \in Nat
      /\ activeTasks \in Seq(ActiveTask) /\ Len(activeTasks) \in Nat
      /\ schedulerQueue \in Seq(Block)
  BY <1>1, LenProperties DEF TypeOK
<1>3. rest \in Seq(Block) /\ Head(schedulerQueue) \in Block
  BY <1>2, HeadTailProperties DEF SchedulerStep
<1>4. /\ op \in {"add", "remove", "cancel"} => arg \in Source
      /\ op = "update" => arg \in Source \X Priority
      /\ op = "updateAll" => arg \in Priority
      /\ op = "network" => arg \in Status
  BY <1>3, BlockParts
<1> HIDE DEF rest, op, arg
<1>5. CASE op = "start" /\ Start(rest) /\ UNCHANGED << sources, networkPaused >>
  <2>1. CASE state = "running"
    BY <1>1, <1>3, <1>5, <2>1, ThenNothing DEF Start, Kept, TypeOK, WorkConserving, taskVars
  <2>2. CASE state # "running"
    <3>1. /\ state' = "running"
          /\ Then(rest, IF UpdateOnStart THEN << <<"updateAll", HighPriority>> >> ELSE << >>)
          /\ Process("running", networkPaused, pendingQueue, activeTasks)
      BY <1>5, <2>2 DEF Start
    <3>2. << <<"updateAll", HighPriority>> >> \in Seq(Block)
      <4>1. <<"updateAll", HighPriority>> \in Block
        BY PriorityAssumption DEF Block
      <4> QED  BY <4>1
    <3>3. schedulerQueue' \in Seq(Block)
      BY <1>3, <3>1, <3>2, ThenType, ThenNothing
    <3>4. sources' = sources /\ networkPaused' = networkPaused
      BY <1>5
    <3>5. /\ Process(state', networkPaused', pendingQueue, activeTasks)
          /\ Fine(pendingQueue, sources')
          /\ state' \in {"stopped", "running", "paused"} /\ sources' \in SUBSET Source
          /\ networkPaused' \in BOOLEAN
      BY <1>1, <3>1, <3>4 DEF TypeOK
    <3> QED  BY <1>2, <3>3, <3>5, ProcessKept
  <2> QED  BY <2>1, <2>2
<1>6. CASE op = "stop" /\ Stop(rest) /\ UNCHANGED << sources, taskVars, networkPaused >>
  <2>1. << <<"cancelAll", <<>>>> >> \in Seq(Block)
    <3>1. <<"cancelAll", <<>>>> \in Block
      BY DEF Block
    <3> QED  BY <3>1
  <2>2. schedulerQueue' \in Seq(Block) /\ state' = "stopped"
    BY <1>3, <1>6, <2>1, ThenType, ThenNothing DEF Stop
  <2> QED  BY <1>1, <1>6, <2>2 DEF Kept, TypeOK, WorkConserving, taskVars
<1>7. CASE op = "pause" /\ Pause(rest) /\ UNCHANGED << sources, taskVars, networkPaused >>
  <2>1. schedulerQueue' \in Seq(Block)
    BY <1>3, <1>7, ThenNothing DEF Pause
  <2>2. state' \in {"stopped", "paused"}
    BY <1>1, <1>7 DEF Pause, TypeOK
  <2> QED  BY <1>1, <1>7, <2>1, <2>2 DEF Kept, TypeOK, WorkConserving, taskVars
<1>8. CASE op = "resume" /\ Resume(rest) /\ UNCHANGED << sources, networkPaused >>
  <2>1. schedulerQueue' \in Seq(Block)
    BY <1>3, <1>8, ThenNothing DEF Resume
  <2>2. CASE state = "paused"
    <3>1. state' = "running" /\ Process("running", networkPaused, pendingQueue, activeTasks)
      BY <1>8, <2>2 DEF Resume
    <3>2. sources' = sources /\ networkPaused' = networkPaused
      BY <1>8
    <3>3. /\ Process(state', networkPaused', pendingQueue, activeTasks)
          /\ Fine(pendingQueue, sources')
          /\ state' \in {"stopped", "running", "paused"} /\ sources' \in SUBSET Source
          /\ networkPaused' \in BOOLEAN
      BY <1>1, <3>1, <3>2 DEF TypeOK
    <3> QED  BY <1>2, <2>1, <3>3, ProcessKept
  <2>3. CASE state # "paused"
    BY <1>1, <1>8, <2>1, <2>3 DEF Resume, Kept, TypeOK, WorkConserving, taskVars
  <2> QED  BY <2>2, <2>3
<1>9. CASE op = "add" /\ AddRuleSource(rest, arg) /\ UNCHANGED << state, taskVars, networkPaused >>
  <2>1. arg \in Source
    BY <1>4, <1>9
  <2>2. << <<"update", <<arg, NormalPriority>>>> >> \in Seq(Block)
    <3>1. <<"update", <<arg, NormalPriority>>>> \in Block
      BY <2>1, PriorityAssumption DEF Block
    <3> QED  BY <3>1
  <2>3. schedulerQueue' \in Seq(Block)
    BY <1>3, <1>9, <2>2, ThenType, ThenNothing DEF AddRuleSource
  <2>4. sources' = sources \cup {arg}
    BY <1>9 DEF AddRuleSource
  <2>5. Fine(pendingQueue, sources')
    BY <1>1, <2>4 DEF Fine
  <2> QED  BY <1>1, <1>9, <2>1, <2>3, <2>4, <2>5 DEF Kept, TypeOK, WorkConserving, taskVars
<1>10. CASE /\ op = "remove" /\ RemoveRuleSource(rest, arg)
            /\ UNCHANGED << state, activeTasks, networkPaused >>
  <2>1. schedulerQueue' \in Seq(Block)
    BY <1>3, <1>10, ThenNothing DEF RemoveRuleSource
  <2>2. sources' = sources \ {arg} /\ pendingQueue' = RemoveSource(pendingQueue, arg)
    BY <1>10 DEF RemoveRuleSource
  <2>3. /\ pendingQueue' \in Seq(Task) /\ Fine(pendingQueue', sources')
        /\ Len(pendingQueue') \in Nat /\ Len(pendingQueue') <= Len(pendingQueue)
    BY <1>1, <1>2, <2>2, RemoveFine
  <2>4. pendingQueue = << >> => pendingQueue' = << >>
    BY <1>2, <2>3, EmptySeq
  <2> QED  BY <1>1, <1>10, <2>1, <2>2, <2>3, <2>4 DEF Kept, TypeOK, WorkConserving
<1>11. CASE /\ op = "removeAll" /\ RemoveAllRuleSources(rest)
            /\ UNCHANGED << state, activeTasks, networkPaused >>
  <2>1. schedulerQueue' \in Seq(Block)
    BY <1>3, <1>11, ThenNothing DEF RemoveAllRuleSources
  <2>2. sources' = {} /\ pendingQueue' = << >>
    BY <1>11 DEF RemoveAllRuleSources
  <2> QED  BY <1>1, <1>11, <2>1, <2>2, EmptySeq DEF Kept, TypeOK, WorkConserving, Fine
<1>12. CASE /\ op = "update" /\ UpdateSource(rest, arg[1], arg[2])
            /\ UNCHANGED << state, sources, networkPaused >>
  <2>1. arg[1] \in Source /\ arg[2] \in Priority
    BY <1>4, <1>12
  <2> QED  BY <1>3, <1>12, <2>1, UpdateKept
<1>13. CASE /\ op = "updateAll" /\ UpdateAllSources(rest, arg)
            /\ UNCHANGED << state, sources, taskVars, networkPaused >>
  <2>1. PICK order \in SetToSeqs(sources) :
            Then(rest, [i \in 1..Len(order) |-> <<"update", <<order[i], arg>>>>])
    BY <1>13 DEF UpdateAllSources
  <2>2. Cardinality(sources) \in Nat /\ sources \subseteq Source
    BY <1>1, SourceAssumption, FS_Subset, FS_CardinalityType DEF TypeOK
  <2>3. order \in [1..Cardinality(sources) -> sources]
    BY DEF SetToSeqs
  <2>4. Len(order) = Cardinality(sources) /\ \A i \in 1..Len(order) : order[i] \in Source
    BY <2>2, <2>3
  <2>5. \A i \in 1..Len(order) : <<"update", <<order[i], arg>>>> \in Block
    BY <1>4, <1>13, <2>4 DEF Block
  <2>6. [i \in 1..Len(order) |-> <<"update", <<order[i], arg>>>>] \in Seq(Block)
    BY <2>2, <2>4, <2>5
  <2>7. schedulerQueue' \in Seq(Block)
    BY <1>3, <2>1, <2>6, ThenType
  <2> QED  BY <1>1, <1>13, <2>7 DEF Kept, TypeOK, WorkConserving, taskVars
<1>14. CASE /\ op = "cancel" /\ CancelUpdateForSource(rest, arg)
            /\ UNCHANGED << state, sources, networkPaused >>
  <2>1. schedulerQueue' \in Seq(Block)
    BY <1>3, <1>14, ThenNothing DEF CancelUpdateForSource
  <2>2. pendingQueue' = RemoveSource(pendingQueue, arg) /\ activeTasks' = Cancelled({arg})
    BY <1>14 DEF CancelUpdateForSource
  <2>3. /\ pendingQueue' \in Seq(Task) /\ Fine(pendingQueue', sources \ {arg})
        /\ Len(pendingQueue') \in Nat /\ Len(pendingQueue') <= Len(pendingQueue)
    BY <1>1, <1>2, <2>2, RemoveFine
  <2>4. pendingQueue = << >> => pendingQueue' = << >>
    BY <1>2, <2>3, EmptySeq
  <2>5. Fine(pendingQueue', sources)
    BY <2>3 DEF Fine
  <2>6. activeTasks' \in Seq(ActiveTask) /\ Len(activeTasks') = Len(activeTasks)
    BY <1>1, <2>2, CancelledType
  <2> QED  BY <1>1, <1>14, <2>1, <2>3, <2>4, <2>5, <2>6 DEF Kept, TypeOK, WorkConserving
<1>15. CASE /\ op = "cancelAll" /\ CancelAllUpdates(rest)
            /\ UNCHANGED << state, sources, networkPaused >>
  <2>1. schedulerQueue' \in Seq(Block)
    BY <1>3, <1>15, ThenNothing DEF CancelAllUpdates
  <2>2. pendingQueue' = << >> /\ activeTasks' = Cancelled(Source)
    BY <1>15 DEF CancelAllUpdates
  <2>3. activeTasks' \in Seq(ActiveTask) /\ Len(activeTasks') = Len(activeTasks)
    BY <1>1, <2>2, CancelledType
  <2> QED  BY <1>1, <1>15, <2>1, <2>2, <2>3, EmptySeq DEF Kept, TypeOK, WorkConserving, Fine
<1>16. CASE op = "network" /\ NetworkChanged(rest, arg) /\ UNCHANGED << state, sources >>
  <2>1. CASE path.expensive /\ networkPaused' = TRUE /\ Then(rest, << >>) /\ UNCHANGED taskVars
    BY <1>1, <1>3, <1>16, <2>1, ThenNothing DEF Kept, TypeOK, WorkConserving, taskVars
  <2>2. CASE /\ ~path.expensive /\ arg \in ReachableStatus
             /\ networkPaused' = FALSE
             /\ IF networkPaused THEN Process(state, FALSE, pendingQueue, activeTasks)
                                 ELSE UNCHANGED taskVars
             /\ Then(rest, IF UpdateOnNetworkChange
                           THEN << <<"updateAll", NormalPriority>> >> ELSE << >>)
    <3>1. << <<"updateAll", NormalPriority>> >> \in Seq(Block)
      <4>1. <<"updateAll", NormalPriority>> \in Block
        BY PriorityAssumption DEF Block
      <4> QED  BY <4>1
    <3>2. schedulerQueue' \in Seq(Block)
      BY <1>3, <2>2, <3>1, ThenType, ThenNothing
    <3>3. state' = state /\ sources' = sources
      BY <1>16
    <3>4. CASE networkPaused
      <4>1. Process(state', networkPaused', pendingQueue, activeTasks)
        BY <2>2, <3>3, <3>4
      <4>2. /\ Fine(pendingQueue, sources')
            /\ state' \in {"stopped", "running", "paused"} /\ sources' \in SUBSET Source
            /\ networkPaused' \in BOOLEAN
        BY <1>1, <2>2, <3>3 DEF TypeOK
      <4> QED  BY <1>2, <3>2, <4>1, <4>2, ProcessKept
    <3>5. CASE ~networkPaused
      BY <1>1, <2>2, <3>2, <3>3, <3>5 DEF Kept, TypeOK, WorkConserving, taskVars
    <3> QED  BY <3>4, <3>5
  <2>3. CASE Then(rest, << >>) /\ UNCHANGED << networkPaused, taskVars >>
    BY <1>1, <1>3, <1>16, <2>3, ThenNothing DEF Kept, TypeOK, WorkConserving, taskVars
  <2> QED  BY <1>16, <2>1, <2>2, <2>3 DEF NetworkChanged
<1> QED
  BY <1>5, <1>6, <1>7, <1>8, <1>9, <1>10, <1>11, <1>12, <1>13, <1>14, <1>15, <1>16
     DEF SchedulerStep, rest, op, arg

-----------------------------------------------------------------------------
(* The invariant, and the theorems *)

LEMMA StagedKept ==
    ASSUME Inv, NEW i \in 1..Len(activeTasks), NEW stage \in Stage, Staged(i, stage),
           UNCHANGED << state, sources, pendingQueue, networkPaused, schedulerQueue, networkVars >>
    PROVE  Inv' /\ Len(activeTasks') = Len(activeTasks)
<1>1. TypeOK /\ Fine(pendingQueue, sources) /\ WorkConserving
  BY DEF Inv
<1>2. activeTasks \in Seq(ActiveTask) /\ activeTasks[i] \in ActiveTask
  BY <1>1, ElementOfSeq DEF TypeOK
<1>3. [activeTasks[i] EXCEPT !.stage = stage] \in ActiveTask
  BY <1>2 DEF ActiveTask
<1>4. activeTasks' \in Seq(ActiveTask) /\ Len(activeTasks') = Len(activeTasks)
  <2>1. activeTasks' = [activeTasks EXCEPT ![i] = [activeTasks[i] EXCEPT !.stage = stage]]
    BY DEF Staged
  <2> QED  BY <1>2, <1>3, <2>1, ExceptSeq
<1> QED  BY <1>1, <1>4 DEF Inv, TypeOK, WorkConserving, networkVars

LEMMA InvInit == Init => Inv
<1> SUFFICES ASSUME Init PROVE Inv
  OBVIOUS
<1>1. TypeOK
  <2>1. /\ << >> \in Seq(Task) /\ << >> \in Seq(ActiveTask) /\ << >> \in Seq(Block)
        /\ Len(<< >>) = 0
    BY EmptySeq
  <2>3. Len(<< >>) <= MaxConcurrent /\ 0 \in Nat /\ {} \in SUBSET Source
    BY <2>1, ConcurrencyAssumption
  <2>2. path \in [status : Status, expensive : BOOLEAN]
    BY DEF Init, Status
  <2> QED  BY <2>1, <2>2, <2>3 DEF Init, TypeOK
<1>2. Fine(pendingQueue, sources)
  BY EmptySeq DEF Init, Fine
<1> QED  BY <1>1, <1>2 DEF Inv, WorkConserving, Init

\* Every step keeps the invariant, and begins a task only when nothing holds it up.
LEMMA InvNext ==
    ASSUME Inv, [Next]_vars
    PROVE  /\ Inv'
           /\ \/ Len(activeTasks') = Len(activeTasks)
              \/ state' = "running" /\ ~networkPaused'
<1>1. TypeOK /\ Fine(pendingQueue, sources) /\ WorkConserving
  BY DEF Inv
<1>2. ASSUME NEW block \in Calls, Call(block)
      PROVE  Inv' /\ Len(activeTasks') = Len(activeTasks)
  <2>1. block \in Block
    BY CallsAssumption
  <2>2. schedulerQueue' \in Seq(Block)
    BY <1>1, <1>2, <2>1, AppendProperties DEF Call, TypeOK
  <2> QED  BY <1>1, <1>2, <2>2 DEF Call, Inv, TypeOK, WorkConserving, taskVars, networkVars
<1>3. CASE SchedulerStep
  <2>1. Kept
    BY <1>3, StepKept
  <2>2. path' = path /\ notices' = notices
    BY <1>3 DEF SchedulerStep, networkVars
  <2> QED  BY <1>1, <2>1, <2>2 DEF Kept, Inv, TypeOK
<1>4. ASSUME NEW i \in 1..Len(activeTasks), BeginOperation(i) \/ CompleteUpdate(i)
      PROVE  Inv' /\ Len(activeTasks') = Len(activeTasks)
  <2>1. CASE BeginOperation(i)
    <3>1. (IF activeTasks[i].cancelled THEN "ended" ELSE "updating") \in Stage
      BY DEF Stage
    <3> QED  BY <2>1, <3>1, StagedKept DEF BeginOperation
  <2>2. CASE CompleteUpdate(i)
    <3>1. "ended" \in Stage
      BY DEF Stage
    <3> QED  BY <2>2, <3>1, StagedKept DEF CompleteUpdate
  <2> QED  BY <1>4, <2>1, <2>2
<1>5. ASSUME NEW n \in Network, PathUpdate(n)
      PROVE  Inv' /\ Len(activeTasks') = Len(activeTasks)
  <2>1. path' \in [status : Status, expensive : BOOLEAN]
    <3>1. n = [status |-> n.status, expensive |-> n.expensive] /\ n.expensive \in BOOLEAN
      BY NetworkAssumption
    <3>2. n.status \in Status
      BY DEF Status
    <3>3. path' = n
      BY <1>5 DEF PathUpdate
    <3> QED  BY <3>1, <3>2, <3>3
  <2>2. notices' \in Nat
    BY <1>1, <1>5 DEF PathUpdate, TypeOK
  <2> QED  BY <1>1, <1>5, <2>1, <2>2 DEF PathUpdate, Inv, TypeOK, WorkConserving, taskVars
<1>6. CASE Notify
  <2>1. <<"network", path.status>> \in Block
    BY <1>1 DEF Block, TypeOK
  <2>2. schedulerQueue' \in Seq(Block)
    BY <1>1, <1>6, <2>1, AppendProperties DEF Notify, TypeOK
  <2>3. notices' \in Nat
    BY <1>1, <1>6 DEF Notify, TypeOK
  <2> QED  BY <1>1, <1>6, <2>2, <2>3 DEF Notify, Inv, TypeOK, WorkConserving, taskVars
<1>7. CASE UNCHANGED vars
  BY <1>1, <1>7 DEF vars, taskVars, networkVars, Inv, TypeOK, WorkConserving
<1> QED  BY <1>2, <1>3, <1>4, <1>5, <1>6, <1>7 DEF Next

LEMMA Invariance == Spec => []Inv
<1>1. Inv /\ [Next]_vars => Inv'
  BY InvNext
<1> QED  BY <1>1, InvInit, PTL DEF Spec

\* The variables keep their types, and no more than MaxConcurrent tasks are active.
THEOREM TypeCorrect == Spec => []TypeOK
<1>1. Inv => TypeOK
  BY DEF Inv
<1> QED  BY <1>1, Invariance, PTL

\* A source never has two pending tasks, nor one after it was removed
\* (updateSource, removeRuleSource).
THEOREM PendingOncePerSource == Spec => []PendingOnce
<1>1. Inv => PendingOnce
  BY DEF Inv, Fine, PendingOnce
<1> QED  BY <1>1, Invariance, PTL

\* The pending tasks stay in the order of their priorities (enqueueTask).
THEOREM MostUrgentFirst == Spec => []PendingOrdered
<1>1. Inv => PendingOrdered
  BY DEF Inv, Fine, PendingOrdered
<1> QED  BY <1>1, Invariance, PTL

\* A running scheduler leaves no task pending while it has capacity
\* (processPendingTasks), whichever way it came to run.
THEOREM NoneWaitsInVain == Spec => []WorkConserving
<1>1. Inv => WorkConserving
  BY DEF Inv
<1> QED  BY <1>1, Invariance, PTL

\* No task begins while the scheduler is stopped, paused or held up by the network.
THEOREM HeldUpNothingBegins == Spec => BegunOnlyWhenRunning
<1>1. Inv /\ [Next]_vars
          => [Len(activeTasks') > Len(activeTasks) => state' = "running" /\ ~networkPaused']_vars
  <2> SUFFICES ASSUME Inv, [Next]_vars, Len(activeTasks') > Len(activeTasks)
               PROVE  state' = "running" /\ ~networkPaused'
    OBVIOUS
  <2>1. Len(activeTasks) \in Nat
    BY LenProperties DEF Inv, TypeOK
  <2>2. \/ Len(activeTasks') = Len(activeTasks)
        \/ state' = "running" /\ ~networkPaused'
    BY InvNext
  <2> QED  BY <2>1, <2>2
<1> QED  BY <1>1, Invariance, PTL DEF Spec, BegunOnlyWhenRunning

-----------------------------------------------------------------------------
(* The tasks of a queue as a set *)

LEMMA RangeOfQueue ==
    ASSUME NEW q \in Seq(Task)
    PROVE  /\ Range(q) = { q[i] : i \in 1..Len(q) }
           /\ Range(q) \in SUBSET Task
<1>1. DOMAIN q = 1..Len(q) /\ \A i \in 1..Len(q) : q[i] \in Task
  BY LenProperties, ElementOfSeq
<1> QED  BY <1>1 DEF Range

LEMMA RangeOfEnqueue ==
    ASSUME NEW q \in Seq(Task), NEW t \in Task
    PROVE  Range(Enqueue(q, t)) = Range(q) \cup {t}
<1>1. Len(q) \in Nat
  BY LenProperties
<1>2. PICK k \in 1..(Len(q) + 1) : Enqueue(q, t) = InsertAt(q, k, t)
  BY EnqueuePosition
<1> DEFINE r == InsertAt(q, k, t)
<1>3. /\ r \in Seq(Task) /\ Len(r) = Len(q) + 1
      /\ \A i \in 1..(Len(q) + 1) :
             r[i] = IF i < k THEN q[i] ELSE IF i = k THEN t ELSE q[i - 1]
  BY InsertProperties
<1> HIDE DEF r
<1>4. Range(r) = { r[i] : i \in 1..(Len(q) + 1) } /\ Range(q) = { q[i] : i \in 1..Len(q) }
  BY <1>3, RangeOfQueue
<1>5. \A i \in 1..(Len(q) + 1) : r[i] \in Range(q) \cup {t}
  <2> SUFFICES ASSUME NEW i \in 1..(Len(q) + 1)
               PROVE  r[i] \in Range(q) \cup {t}
    OBVIOUS
  <2>1. CASE i < k
    BY <1>1, <1>3, <1>4, <2>1
  <2>2. CASE i = k
    BY <1>3, <2>2
  <2>3. CASE i > k
    <3>1. i - 1 \in 1..Len(q) /\ r[i] = q[i - 1]
      BY <1>1, <1>3, <2>3
    <3> QED  BY <1>4, <3>1
  <2> QED  BY <1>1, <2>1, <2>2, <2>3
<1>6. \A i \in 1..Len(q) : q[i] \in Range(r)
  <2> SUFFICES ASSUME NEW i \in 1..Len(q)
               PROVE  q[i] \in Range(r)
    OBVIOUS
  <2>1. CASE i < k
    BY <1>1, <1>3, <1>4, <2>1
  <2>2. CASE ~(i < k)
    <3>1. i + 1 \in 1..(Len(q) + 1) /\ r[i + 1] = q[i]
      <4>1. i + 1 \in 1..(Len(q) + 1) /\ ~(i + 1 < k) /\ i + 1 # k /\ (i + 1) - 1 = i
        BY <1>1, <2>2
      <4> QED  BY <1>3, <4>1
    <3> QED  BY <1>4, <3>1
  <2> QED  BY <2>1, <2>2
<1>7. t \in Range(r)
  <2>1. r[k] = t
    BY <1>1, <1>3
  <2> QED  BY <1>4, <2>1
<1>8. Range(r) = Range(q) \cup {t}
  BY <1>4, <1>5, <1>6, <1>7
<1> QED  BY <1>2, <1>8 DEF r

LEMMA RangeOfRemove ==
    ASSUME NEW S, NEW q \in Seq(Task), Fine(q, S), NEW s
    PROVE  Range(RemoveSource(q, s)) = { r \in Range(q) : r.source # s }
<1>1. Len(q) \in Nat /\ Range(q) = { q[i] : i \in 1..Len(q) }
  BY LenProperties, RangeOfQueue
<1>2. CASE ~Waits(q, s)
  BY <1>1, <1>2 DEF RemoveSource, Waits
<1>3. CASE Waits(q, s)
  <2> DEFINE k == Position(q, s)
             r == RemoveAt(q, k)
  <2>1. k \in 1..Len(q) /\ q[k].source = s
    BY <1>3 DEF Waits, Position
  <2> HIDE DEF k
  <2>2. /\ r \in Seq(Task) /\ Len(r) = Len(q) - 1
        /\ \A i \in 1..(Len(q) - 1) : r[i] = IF i < k THEN q[i] ELSE q[i + 1]
    BY <2>1, RemoveAtProperties
  <2> HIDE DEF r
  <2>3. Range(r) = { r[i] : i \in 1..(Len(q) - 1) }
    BY <2>2, RangeOfQueue
  <2>4. \A i \in 1..(Len(q) - 1) : r[i] \in Range(q) /\ r[i].source # s
    <3> SUFFICES ASSUME NEW i \in 1..(Len(q) - 1)
                 PROVE  r[i] \in Range(q) /\ r[i].source # s
      OBVIOUS
    <3>1. PICK j \in 1..Len(q) : j # k /\ r[i] = q[j]
      <4>1. CASE i < k
        BY <1>1, <2>2, <4>1
      <4>2. CASE ~(i < k)
        <5>1. i + 1 \in 1..Len(q) /\ i + 1 # k /\ r[i] = q[i + 1]
          BY <1>1, <2>1, <2>2, <4>2
        <5> QED  BY <5>1
      <4> QED  BY <4>1, <4>2
    <3>2. q[j].source # q[k].source
      BY <2>1, <3>1 DEF Fine
    <3> QED  BY <1>1, <2>1, <3>1, <3>2
  <2>5. ASSUME NEW t \in Range(q), t.source # s
        PROVE  t \in Range(r)
    <3>1. PICK j \in 1..Len(q) : t = q[j]
      BY <1>1
    <3>2. j # k
      BY <2>1, <2>5, <3>1
    <3>3. CASE j < k
      BY <1>1, <2>1, <2>2, <2>3, <3>1, <3>3
    <3>4. CASE j > k
      <4>1. j - 1 \in 1..(Len(q) - 1) /\ ~(j - 1 < k) /\ (j - 1) + 1 = j
        BY <1>1, <2>1, <3>4
      <4>2. r[j - 1] = q[j]
        BY <2>2, <4>1
      <4> QED  BY <2>3, <3>1, <4>1, <4>2
    <3> QED  BY <1>1, <2>1, <3>2, <3>3, <3>4
  <2>6. Range(r) = { t \in Range(q) : t.source # s }
    BY <2>3, <2>4, <2>5
  <2> QED  BY <1>3, <2>6 DEF RemoveSource, r, k
<1> QED  BY <1>2, <1>3

\* The first n tasks of a queue are n requests, and what is left is the rest.
LEMMA FirstTasks ==
    ASSUME NEW S, NEW q \in Seq(Task), Fine(q, S), NEW n \in 0..Len(q)
    PROVE  LET first == { q[i] : i \in 1..n }
           IN  /\ first \in SUBSET Range(q)
               /\ Range(SubSeq(q, n + 1, Len(q))) = Range(q) \ first
               /\ Cardinality(first) = n
               /\ \A r \in first : \A left \in Range(q) \ first : r.priority >= left.priority
<1> DEFINE first == { q[i] : i \in 1..n }
           rest == SubSeq(q, n + 1, Len(q))
<1>1. /\ Len(q) \in Nat /\ Range(q) = { q[i] : i \in 1..Len(q) }
      /\ \A i \in 1..Len(q) : q[i] \in Task
  BY LenProperties, RangeOfQueue, ElementOfSeq
<1>2. rest \in Seq(Task) /\ Len(rest) = Len(q) - n /\ \A i \in 1..(Len(q) - n) : rest[i] = q[n + i]
  BY SuffixProperties
<1> HIDE DEF rest
<1>3. Range(rest) = { rest[i] : i \in 1..(Len(q) - n) }
  BY <1>2, RangeOfQueue
<1>4. \A i, j \in 1..Len(q) : q[i] = q[j] => i = j
  BY DEF Fine
<1>5. first \in SUBSET Range(q)
  BY <1>1
<1>6. Range(rest) = Range(q) \ first
  <2>1. ASSUME NEW i \in 1..(Len(q) - n)
        PROVE  rest[i] \in Range(q) \ first
    <3>1. n + i \in 1..Len(q) /\ rest[i] = q[n + i]
      BY <1>1, <1>2
    <3>2. \A j \in 1..n : j \in 1..Len(q) /\ j # n + i
      BY <1>1
    <3> QED  BY <1>1, <1>4, <3>1, <3>2
  <2>2. ASSUME NEW t \in Range(q) \ first
        PROVE  t \in Range(rest)
    <3>1. PICK j \in 1..Len(q) : t = q[j]
      BY <1>1
    <3>2. j > n
      BY <1>1, <3>1
    <3>3. j - n \in 1..(Len(q) - n) /\ n + (j - n) = j
      BY <1>1, <3>2
    <3>4. rest[j - n] = q[j]
      BY <1>2, <3>3
    <3> QED  BY <1>3, <3>1, <3>3, <3>4
  <2> QED  BY <1>3, <2>1, <2>2
<1>7. Cardinality(first) = n
  <2> DEFINE f == [i \in 1..n |-> q[i]]
  <2>1. /\ f \in [1..n -> first]
        /\ \A i, j \in 1..n : f[i] = f[j] => i = j
        /\ \A t \in first : \E i \in 1..n : f[i] = t
    BY <1>1, <1>4
  <2> HIDE DEF f, first
  <2>2. f \in Bijection(1..n, first)
    BY <2>1, Fun_IsBij
  <2>3. ExistsBijection(1..n, first)
    BY <2>2 DEF ExistsBijection
  <2>4. IsFiniteSet(1..n) /\ Cardinality(1..n) = n
    BY <1>1, FS_Interval
  <2> QED  BY <2>3, <2>4, FS_Bijection
<1>8. ASSUME NEW r \in first, NEW left \in Range(q) \ first
      PROVE  r.priority >= left.priority
  <2>1. PICK i \in 1..n : r = q[i]
    OBVIOUS
  <2>2. PICK j \in 1..Len(q) : left = q[j]
    BY <1>1
  <2>3. j > n /\ i \in 1..Len(q) /\ i < j
    BY <1>1, <2>1, <2>2
  <2> QED  BY <2>1, <2>2, <2>3 DEF Fine
<1> QED  BY <1>5, <1>6, <1>7, <1>8 DEF rest

-----------------------------------------------------------------------------
(* Steps of the scheduler as steps of the pool *)

Open == state = "running" /\ ~networkPaused

\* The pool counts as the library does.
LEMMA PoolCardinality ==
    ASSUME NEW S
    PROVE  Pool!Cardinality(S) = Cardinality(S)
BY DEF Pool!Cardinality, Cardinality, Pool!IsFiniteSet, IsFiniteSet

\* Looking at the pending tasks hands over what the pool would.
LEMMA ProcessHandsOver ==
    ASSUME Inv, NEW S, NEW q \in Seq(Task), Fine(q, S),
           Process(state', networkPaused', q, activeTasks)
    PROVE  Pool!HandOver(Range(q))
<1> DEFINE free == MaxConcurrent - Len(activeTasks)
           n == Min({free, Len(q)})
           begun == [i \in 1..n |-> Begun(q[i])]
           first == { q[i] : i \in 1..n }
<1>1. Len(q) \in Nat /\ \A i \in 1..Len(q) : q[i] \in Task
  BY LenProperties, ElementOfSeq
<1>2. activeTasks \in Seq(ActiveTask) /\ Len(activeTasks) \in Nat /\ Len(activeTasks) <= MaxConcurrent
  BY LenProperties DEF Inv, TypeOK
<1>3. MaxConcurrent \in Nat /\ free \in Nat
  BY <1>2, ConcurrencyAssumption
<1>4. CASE ~Open'
  <2>1. pendingQueue' = q /\ activeTasks' = activeTasks
    BY <1>4 DEF Process, Open
  <2>2. /\ Range(pendingQueue)' = Range(q) \ {}
        /\ Len(activeTasks)' = Len(activeTasks) + Cardinality({})
        /\ Len(activeTasks)' <= MaxConcurrent
    BY <1>2, <2>1, FS_EmptySet
  <2> QED  BY <1>4, <2>2, PoolCardinality DEF Pool!HandOver, Open
<1>5. CASE Open'
  <2>1. /\ pendingQueue' = SubSeq(q, n + 1, Len(q))
        /\ activeTasks' = activeTasks \o begun
    BY <1>5 DEF Process, Hand, Open
  <2>2. n \in {free, Len(q)} /\ n <= free /\ n <= Len(q)
    <3>1. {free, Len(q)} \in SUBSET Nat /\ {free, Len(q)} # {}
      BY <1>1, <1>3
    <3> HIDE DEF free
    <3> QED  BY <3>1, MinOfNat
  <2> HIDE DEF n
  <2>3. n \in 0..Len(q)
    BY <1>1, <1>3, <2>2
  <2>4. /\ first \in SUBSET Range(q)
        /\ Range(SubSeq(q, n + 1, Len(q))) = Range(q) \ first
        /\ Cardinality(first) = n
        /\ \A r \in first : \A left \in Range(q) \ first : r.priority >= left.priority
    BY <2>3, FirstTasks
  <2>5. begun \in Seq(ActiveTask) /\ Len(begun) = n
    <3>1. \A i \in 1..n : Begun(q[i]) \in ActiveTask
      BY <1>1, <2>3 DEF Begun, ActiveTask, Stage, Task
    <3> QED  BY <2>3, <3>1
  <2> HIDE DEF begun
  <2>6. Len(activeTasks') = Len(activeTasks) + n
    BY <1>2, <2>1, <2>5, ConcatProperties
  <2>7. Range(q) \ first = {} \/ Len(activeTasks') = MaxConcurrent
    <3>1. CASE n = free
      BY <1>2, <1>3, <2>6, <3>1
    <3>2. CASE n = Len(q)
      <4>1. Range(q) = first
        BY <3>2, RangeOfQueue
      <4> QED  BY <4>1
    <3> QED  BY <2>2, <3>1, <3>2
  <2>8. Len(activeTasks') <= MaxConcurrent
    BY <1>2, <1>3, <2>2, <2>3, <2>6
  <2> HIDE DEF first
  <2>9. /\ Range(pendingQueue)' = Range(q) \ first
        /\ Len(activeTasks)' = Len(activeTasks) + Cardinality(first)
        /\ Len(activeTasks)' <= MaxConcurrent
        /\ Range(pendingQueue)' = {} \/ Len(activeTasks)' = MaxConcurrent
    BY <2>1, <2>4, <2>6, <2>7, <2>8
  <2> QED  BY <1>5, <2>4, <2>9, PoolCardinality DEF Pool!HandOver, Open
<1> QED  BY <1>4, <1>5

\* A pool that stays closed, or that is full, hands nothing over.
LEMMA NothingToHand ==
    ASSUME Inv, NEW w, Range(pendingQueue') = w, Len(activeTasks') = Len(activeTasks),
           ~Open' \/ w = {} \/ Len(activeTasks) >= MaxConcurrent
    PROVE  Pool!HandOver(w)
<1>1. Len(activeTasks) \in Nat /\ Len(activeTasks) <= MaxConcurrent /\ MaxConcurrent \in Nat
  BY LenProperties, ConcurrencyAssumption DEF Inv, TypeOK
<1>2. /\ Range(pendingQueue)' = w \ {}
      /\ Len(activeTasks)' = Len(activeTasks) + Cardinality({})
      /\ Len(activeTasks)' <= MaxConcurrent
      /\ Open' => Range(pendingQueue)' = {} \/ Len(activeTasks)' = MaxConcurrent
  BY <1>1, FS_EmptySet
<1> QED  BY <1>2, PoolCardinality DEF Pool!HandOver, Open

\* What a step of the pool, or none, is.
PoolStep == [Pool!PoolNext]_Pool!pool

LEMMA Stutters ==
    ASSUME pendingQueue' = pendingQueue, Len(activeTasks') = Len(activeTasks), Open' <=> Open
    PROVE  PoolStep
BY DEF PoolStep, Open, Pool!pool

LEMMA Turns ==
    ASSUME Open' <=> ~Open, Pool!HandOver(Range(pendingQueue))
    PROVE  PoolStep
BY DEF PoolStep, Open, Pool!PoolNext, Pool!OpenOrClose

LEMMA Withdraws ==
    ASSUME NEW S \in SUBSET Source,
           Range(pendingQueue') = { r \in Range(pendingQueue) : r.source \notin S },
           Len(activeTasks') = Len(activeTasks), Open' <=> Open
    PROVE  PoolStep
BY DEF PoolStep, Open, Pool!PoolNext, Pool!Withdraw

LEMMA Requests ==
    ASSUME NEW s \in Source, NEW p \in Priority,
           Pool!HandOver(Pool!With(s, p)), Open' <=> Open
    PROVE  PoolStep
BY DEF PoolStep, Open, Pool!PoolNext, Pool!Request

\* Opening, when the pending tasks are looked at, and closing.
LEMMA OpensOrCloses ==
    ASSUME Inv,
           \/ Process(state', networkPaused', pendingQueue, activeTasks)
           \/ ~Open' /\ UNCHANGED taskVars
           \/ (Open' <=> Open) /\ UNCHANGED taskVars
    PROVE  PoolStep
<1>1. pendingQueue \in Seq(Task) /\ Fine(pendingQueue, sources)
  BY DEF Inv, TypeOK
<1>2. CASE (Open' <=> Open) /\ UNCHANGED taskVars
  BY <1>2, Stutters DEF taskVars
<1>3. CASE ~Open' /\ UNCHANGED taskVars
  <2>1. pendingQueue' = pendingQueue /\ activeTasks' = activeTasks
    BY <1>3 DEF taskVars
  <2>2. Pool!HandOver(Range(pendingQueue))
    BY <1>3, <2>1, NothingToHand
  <2>3. CASE Open
    BY <1>3, <2>2, <2>3, Turns
  <2>4. CASE ~Open
    BY <1>3, <2>1, <2>4, Stutters
  <2> QED  BY <2>3, <2>4
<1>4. CASE Process(state', networkPaused', pendingQueue, activeTasks)
  <2>1. Pool!HandOver(Range(pendingQueue))
    BY <1>1, <1>4, ProcessHandsOver
  <2>2. CASE Open' <=> ~Open
    BY <2>1, <2>2, Turns
  <2>3. CASE ~Open' /\ ~Open
    <3>1. pendingQueue' = pendingQueue /\ activeTasks' = activeTasks
      BY <1>4, <2>3 DEF Process, Open
    <3> QED  BY <2>3, <3>1, Stutters
  <2>4. CASE Open' /\ Open
    <3>1. Pool!Withdraw({}) \/ UNCHANGED Pool!pool
      <4>1. pendingQueue = << >> \/ Len(activeTasks) >= MaxConcurrent
        BY <2>4 DEF Inv, WorkConserving, Open
      <4>2. Min({MaxConcurrent - Len(activeTasks), Len(pendingQueue)}) = 0
        <5> DEFINE m == {MaxConcurrent - Len(activeTasks), Len(pendingQueue)}
        <5>1. /\ Len(activeTasks) \in Nat /\ Len(activeTasks) <= MaxConcurrent
              /\ MaxConcurrent \in Nat /\ Len(pendingQueue) \in Nat
          BY <1>1, LenProperties, ConcurrencyAssumption DEF Inv, TypeOK
        <5>2. m \in SUBSET Nat /\ 0 \in m
          BY <1>1, <4>1, <5>1, EmptySeq
        <5> HIDE DEF m
        <5>3. Min(m) \in m /\ Min(m) <= 0
          BY <5>2, MinOfNat
        <5> QED  BY <5>2, <5>3 DEF m
      <4>3. /\ pendingQueue' = SubSeq(pendingQueue, 0 + 1, Len(pendingQueue))
            /\ activeTasks' = activeTasks \o [i \in 1..0 |-> Begun(pendingQueue[i])]
        BY <1>4, <2>4, <4>2 DEF Process, Hand, Open
      <4>4. Range(pendingQueue') = Range(pendingQueue) \ { pendingQueue[i] : i \in 1..0 }
        <5>1. 0 \in 0..Len(pendingQueue)
          BY <1>1, LenProperties
        <5> QED  BY <1>1, <4>3, <5>1, FirstTasks
      <4>5. Len(activeTasks') = Len(activeTasks)
        <5>1. activeTasks \in Seq(ActiveTask)
          BY DEF Inv, TypeOK
        <5>2. [i \in 1..0 |-> Begun(pendingQueue[i])] = << >>
          BY SMT
        <5> QED  BY <4>3, <5>1, <5>2, ConcatEmptySeq
      <4> QED  BY <2>4, <4>4, <4>5 DEF Pool!pool, Open
    <3> QED  BY <3>1 DEF PoolStep, Pool!PoolNext
  <2> QED  BY <2>2, <2>3, <2>4
<1> QED  BY <1>2, <1>3, <1>4

\* A request that waits, is raised, or is handed over at once.
LEMMA UpdateIsRequest ==
    ASSUME Inv, NEW rest, NEW s \in Source, NEW p \in Priority,
           UpdateSource(rest, s, p), UNCHANGED << state, sources, networkPaused >>
    PROVE  PoolStep
<1> DEFINE task == [source |-> s, priority |-> p]
           q == pendingQueue
<1>1. q \in Seq(Task) /\ Fine(q, sources) /\ task \in Task /\ task.source = s
  BY DEF Inv, TypeOK, Task
<1>2. /\ Len(q) \in Nat /\ Range(q) = { q[i] : i \in 1..Len(q) }
      /\ \A i \in 1..Len(q) : q[i] \in Task /\ q[i].priority \in Nat
  <2>1. Len(q) \in Nat /\ \A i \in 1..Len(q) : q[i] \in Task
    BY <1>1, LenProperties, ElementOfSeq
  <2> QED  BY <1>1, <2>1, RangeOfQueue, PriorityAssumption DEF Task
<1>3. Open' <=> Open
  BY DEF Open
<1>4. CASE s \notin sources /\ UNCHANGED taskVars
  BY <1>3, <1>4, Stutters DEF taskVars
<1>5. CASE /\ s \in sources /\ Waits(q, s)
           /\ q' = IF p > q[Position(q, s)].priority
                   THEN Enqueue(RemoveSource(q, s), task)
                   ELSE q
           /\ UNCHANGED activeTasks
  <2> DEFINE k == Position(q, s)
  <2>1. k \in 1..Len(q) /\ q[k].source = s
    BY <1>5 DEF Waits, Position
  <2> HIDE DEF k
  <2>2. Len(activeTasks) >= MaxConcurrent \/ ~Open'
    <3>1. q # << >>
      BY <1>2, <2>1, EmptySeq
    <3> QED  BY <1>3, <3>1 DEF Inv, WorkConserving, Open
  <2>3. CASE p > q[k].priority
    <3>1. ~ \E r \in Range(q) : r.source = s /\ r.priority >= p
      <4> SUFFICES ASSUME NEW i \in 1..Len(q), q[i].source = s, q[i].priority >= p
                   PROVE  FALSE
        BY <1>2
      <4>1. i = k
        BY <1>1, <2>1 DEF Fine
      <4> QED  BY <1>2, <2>1, <2>3, <4>1, PriorityAssumption
    <3>2. Range(q') = { r \in Range(q) : r.source # s } \cup {task}
      <4>1. RemoveSource(q, s) \in Seq(Task)
        BY <1>1, RemoveFine
      <4>2. Range(RemoveSource(q, s)) = { r \in Range(q) : r.source # s }
        BY <1>1, RangeOfRemove
      <4>3. q' = Enqueue(RemoveSource(q, s), task)
        BY <1>5, <2>3 DEF k
      <4> HIDE DEF q, task
      <4> QED  BY <1>1, <4>1, <4>2, <4>3, RangeOfEnqueue
    <3>3. Range(q') = Pool!With(s, p)
      BY <3>1, <3>2 DEF Pool!With
    <3>4. Pool!HandOver(Pool!With(s, p))
      BY <1>5, <2>2, <3>3, NothingToHand
    <3> QED  BY <1>3, <3>4, Requests
  <2>4. CASE ~(p > q[k].priority)
    BY <1>3, <1>5, <2>4, Stutters DEF k
  <2> QED  BY <2>3, <2>4
<1>6. CASE /\ s \in sources /\ ~Waits(q, s)
           /\ Process(state, networkPaused, Enqueue(q, task), activeTasks)
  <2>1. Fine(Enqueue(q, task), sources) /\ Enqueue(q, task) \in Seq(Task)
    <3> HIDE DEF task, q
    <3>1. task.source \in sources /\ ~Waits(q, task.source)
      BY <1>1, <1>6
    <3> QED  BY <1>1, <3>1, EnqueueFine
  <2>2. Process(state', networkPaused', Enqueue(q, task), activeTasks)
    <3>1. state' = state /\ networkPaused' = networkPaused
      OBVIOUS
    <3> HIDE DEF task, q
    <3> QED  BY <1>6, <3>1
  <2>3. Pool!HandOver(Range(Enqueue(q, task)))
    <3> HIDE DEF task, q
    <3> QED  BY <2>1, <2>2, ProcessHandsOver
  <2>4. Range(Enqueue(q, task)) = Range(q) \cup {task}
    <3> HIDE DEF task, q
    <3> QED  BY <1>1, RangeOfEnqueue
  <2>5. \A r \in Range(q) : r.source # s
    BY <1>2, <1>6 DEF Waits
  <2>6. Pool!With(s, p) = Range(q) \cup {task}
    <3>1. { r \in Range(q) : r.source # s } = Range(q)
      BY <2>5
    <3> QED  BY <2>5, <3>1 DEF Pool!With
  <2>7. Pool!HandOver(Pool!With(s, p))
    BY <2>3, <2>4, <2>6
  <2> QED  BY <1>3, <2>7, Requests
<1> QED  BY <1>4, <1>5, <1>6 DEF UpdateSource

LEMMA BlockIsPoolStep ==
    ASSUME Inv, SchedulerStep
    PROVE  PoolStep
<1> DEFINE rest == Tail(schedulerQueue)
           op   == Head(schedulerQueue)[1]
           arg  == Head(schedulerQueue)[2]
<1>1. TypeOK /\ pendingQueue \in Seq(Task) /\ Fine(pendingQueue, sources)
  BY DEF Inv, TypeOK
<1>2. Head(schedulerQueue) \in Block
  BY <1>1, HeadTailProperties DEF TypeOK, SchedulerStep
<1>3. /\ op \in {"add", "remove", "cancel"} => arg \in Source
      /\ op = "update" => arg \in Source \X Priority
  BY <1>2, BlockParts
<1>4. Range(pendingQueue) \in SUBSET Task /\ \A r \in Range(pendingQueue) : r.source \in Source
  BY <1>1, RangeOfQueue DEF Task
<1>5. Range(<< >>) = {}
  BY DEF Range
<1> HIDE DEF rest, op, arg
<1>6. CASE op = "start" /\ Start(rest) /\ UNCHANGED << sources, networkPaused >>
  <2>1. \/ Process(state', networkPaused', pendingQueue, activeTasks)
        \/ (Open' <=> Open) /\ UNCHANGED taskVars
    <3>1. CASE state = "running"
      BY <1>6, <3>1 DEF Start, Open, taskVars
    <3>2. CASE state # "running"
      <4>1. /\ state' = "running" /\ networkPaused' = networkPaused
            /\ Process("running", networkPaused, pendingQueue, activeTasks)
        BY <1>6, <3>2 DEF Start
      <4> QED  BY <4>1
    <3> QED  BY <3>1, <3>2
  <2> QED  BY <2>1, OpensOrCloses
<1>7. CASE op = "stop" /\ Stop(rest) /\ UNCHANGED << sources, taskVars, networkPaused >>
  <2>1. state' = "stopped" /\ UNCHANGED taskVars
    BY <1>7 DEF Stop, taskVars
  <2> QED  BY <2>1, OpensOrCloses DEF Open
<1>8. CASE op = "pause" /\ Pause(rest) /\ UNCHANGED << sources, taskVars, networkPaused >>
  <2>1. state' # "running" /\ UNCHANGED taskVars
    BY <1>8 DEF Pause
  <2> QED  BY <2>1, OpensOrCloses DEF Open
<1>9. CASE op = "resume" /\ Resume(rest) /\ UNCHANGED << sources, networkPaused >>
  <2>1. \/ Process(state', networkPaused', pendingQueue, activeTasks)
        \/ (Open' <=> Open) /\ UNCHANGED taskVars
    <3>1. CASE state # "paused"
      BY <1>9, <3>1 DEF Resume, Open, taskVars
    <3>2. CASE state = "paused"
      <4>1. /\ state' = "running" /\ networkPaused' = networkPaused
            /\ Process("running", networkPaused, pendingQueue, activeTasks)
        BY <1>9, <3>2 DEF Resume
      <4> QED  BY <4>1
    <3> QED  BY <3>1, <3>2
  <2> QED  BY <2>1, OpensOrCloses
<1>10. CASE op = "add" /\ AddRuleSource(rest, arg) /\ UNCHANGED << state, taskVars, networkPaused >>
  BY <1>10, Stutters DEF Open, taskVars
<1>11. CASE /\ op = "remove" /\ RemoveRuleSource(rest, arg)
            /\ UNCHANGED << state, activeTasks, networkPaused >>
  <2>1. pendingQueue' = RemoveSource(pendingQueue, arg)
    BY <1>11 DEF RemoveRuleSource
  <2>2. Range(pendingQueue') = { r \in Range(pendingQueue) : r.source \notin {arg} }
    BY <1>1, <2>1, RangeOfRemove
  <2>3. {arg} \in SUBSET Source /\ Len(activeTasks') = Len(activeTasks) /\ (Open' <=> Open)
    BY <1>3, <1>11 DEF Open
  <2> QED  BY <2>2, <2>3, Withdraws
<1>12. CASE /\ op = "removeAll" /\ RemoveAllRuleSources(rest)
            /\ UNCHANGED << state, activeTasks, networkPaused >>
  <2>1. Range(pendingQueue') = { r \in Range(pendingQueue) : r.source \notin Source }
    BY <1>4, <1>5, <1>12 DEF RemoveAllRuleSources
  <2>2. Len(activeTasks') = Len(activeTasks) /\ (Open' <=> Open)
    BY <1>12 DEF Open
  <2> QED  BY <2>1, <2>2, Withdraws
<1>13. CASE /\ op = "update" /\ UpdateSource(rest, arg[1], arg[2])
            /\ UNCHANGED << state, sources, networkPaused >>
  <2>1. arg[1] \in Source /\ arg[2] \in Priority
    BY <1>3, <1>13
  <2> QED  BY <1>13, <2>1, UpdateIsRequest
<1>14. CASE /\ op = "updateAll" /\ UpdateAllSources(rest, arg)
            /\ UNCHANGED << state, sources, taskVars, networkPaused >>
  BY <1>14, Stutters DEF Open, taskVars
<1>15. CASE /\ op = "cancel" /\ CancelUpdateForSource(rest, arg)
            /\ UNCHANGED << state, sources, networkPaused >>
  <2>1. pendingQueue' = RemoveSource(pendingQueue, arg) /\ activeTasks' = Cancelled({arg})
    BY <1>15 DEF CancelUpdateForSource
  <2>2. Range(pendingQueue') = { r \in Range(pendingQueue) : r.source \notin {arg} }
    BY <1>1, <2>1, RangeOfRemove
  <2>3. {arg} \in SUBSET Source /\ Len(activeTasks') = Len(activeTasks) /\ (Open' <=> Open)
    BY <1>1, <1>3, <1>15, <2>1, CancelledType DEF Open
  <2> QED  BY <2>2, <2>3, Withdraws
<1>16. CASE /\ op = "cancelAll" /\ CancelAllUpdates(rest)
            /\ UNCHANGED << state, sources, networkPaused >>
  <2>1. pendingQueue' = << >> /\ activeTasks' = Cancelled(Source)
    BY <1>16 DEF CancelAllUpdates
  <2>2. Range(pendingQueue') = { r \in Range(pendingQueue) : r.source \notin Source }
    BY <1>4, <1>5, <2>1
  <2>3. Len(activeTasks') = Len(activeTasks) /\ (Open' <=> Open)
    BY <1>1, <1>16, <2>1, CancelledType DEF Open
  <2> QED  BY <2>2, <2>3, Withdraws
<1>17. CASE op = "network" /\ NetworkChanged(rest, arg) /\ UNCHANGED << state, sources >>
  <2>1. CASE networkPaused' = TRUE /\ UNCHANGED taskVars
    BY <2>1, OpensOrCloses DEF Open
  <2>2. CASE /\ networkPaused' = FALSE
             /\ IF networkPaused THEN Process(state, FALSE, pendingQueue, activeTasks)
                                 ELSE UNCHANGED taskVars
    <3>1. \/ Process(state', networkPaused', pendingQueue, activeTasks)
          \/ (Open' <=> Open) /\ UNCHANGED taskVars
      <4>1. CASE networkPaused
        <5>1. state' = state
          BY <1>17
        <5> QED  BY <2>2, <4>1, <5>1
      <4>2. CASE ~networkPaused
        BY <1>17, <2>2, <4>2 DEF Open
      <4> QED  BY <4>1, <4>2
    <3> QED  BY <3>1, OpensOrCloses
  <2>3. CASE UNCHANGED << networkPaused, taskVars >>
    BY <1>17, <2>3, OpensOrCloses DEF Open
  <2> QED  BY <1>17, <2>1, <2>2, <2>3 DEF NetworkChanged
<1> QED
  BY <1>6, <1>7, <1>8, <1>9, <1>10, <1>11, <1>12, <1>13, <1>14, <1>15, <1>16, <1>17
     DEF SchedulerStep, rest, op, arg

LEMMA StepIsPoolStep ==
    ASSUME Inv, [Next]_vars
    PROVE  PoolStep
<1>1. CASE SchedulerStep
  BY <1>1, BlockIsPoolStep
<1>2. ASSUME UNCHANGED << state, pendingQueue, activeTasks, networkPaused >>
      PROVE  PoolStep
  BY <1>2, Stutters DEF Open
<1>3. ASSUME NEW i \in 1..Len(activeTasks), BeginOperation(i) \/ CompleteUpdate(i)
      PROVE  PoolStep
  <2>1. /\ UNCHANGED << state, sources, pendingQueue, networkPaused, schedulerQueue, networkVars >>
        /\ \E stage \in Stage : Staged(i, stage)
    <3>1. (IF activeTasks[i].cancelled THEN "ended" ELSE "updating") \in Stage /\ "ended" \in Stage
      BY DEF Stage
    <3> QED  BY <1>3, <3>1 DEF BeginOperation, CompleteUpdate
  <2>2. Len(activeTasks') = Len(activeTasks)
    BY <2>1, StagedKept
  <2> QED  BY <2>1, <2>2, Stutters DEF Open
<1>4. ASSUME NEW block \in Calls, Call(block)
      PROVE  PoolStep
  BY <1>2, <1>4 DEF Call, taskVars
<1>5. ASSUME NEW n \in Network, PathUpdate(n)
      PROVE  PoolStep
  BY <1>2, <1>5 DEF PathUpdate, taskVars
<1>6. CASE Notify
  BY <1>2, <1>6 DEF Notify, taskVars
<1>7. CASE UNCHANGED vars
  BY <1>2, <1>7 DEF vars, taskVars
<1> QED  BY <1>1, <1>3, <1>4, <1>5, <1>6, <1>7 DEF Next

\* The scheduler is a pool: whatever its blocks' order, requests wait once and at
\* their greatest urgency, and the most urgent are handed over while there is
\* capacity (updateSource, processPendingTasks).
THEOREM SchedulerIsAPool == Spec => IsAPool
<1>1. Init => Pool!PoolInit
  <2>1. Len(<< >>) = 0 /\ Range(<< >>) = {}
    BY EmptySeq DEF Range
  <2> QED  BY <2>1 DEF Init, Pool!PoolInit
<1>2. Inv /\ [Next]_vars => [Pool!PoolNext]_Pool!pool
  BY StepIsPoolStep DEF PoolStep
<1> QED  BY <1>1, <1>2, Invariance, PTL DEF Spec, IsAPool, Pool!PoolSpec

=============================================================================
