----------------------------- MODULE SupplyProofs -----------------------------
(***************************************************************************)
(* Three of the components around the rules, for any values of their       *)
(* constants: who hears of the network last (NetworkReachability), what a  *)
(* manifest may not change (ConfigurationManager), and when a strategy     *)
(* asks for updates (UpdateStrategies); and the types of all three.  The   *)
(* sections before them are about induction, folds and selections.         *)
(***************************************************************************)
EXTENDS NetworkReachability, ConfigurationManager, UpdateStrategies, SequenceTheorems,
        FunctionTheorems, FiniteSetTheorems, WellFoundedInduction, TLAPS

-----------------------------------------------------------------------------
(* Induction and folds *)

LEMMA LeastOf ==
    ASSUME NEW S \in SUBSET Nat, S # {}
    PROVE  \E x \in S : \A y \in S : x <= y
<1> DEFINE Less == {r \in Nat \X Nat : r[1] < r[2]}
<1>1. IsWellFoundedOn(Less, Nat)
  <2>1. OpToRel(<, Nat) = Less
    BY Zenon DEF OpToRel
  <2> QED  BY <2>1, NatLessThanWellFounded, Zenon
<1>2. PICK x \in S : \A y \in S : ~ (<<y, x>> \in Less)
  BY <1>1, WFMin
<1>3. \A y \in S : x <= y
  <2> TAKE y \in S
  <2>1. x \in Nat /\ y \in Nat
    OBVIOUS
  <2>2. ~(y < x)
    BY <1>2, <2>1
  <2> QED  BY <2>1, <2>2
<1> QED  BY <1>3

\* Induction, over a set of numbers.
LEMMA UpTo ==
    ASSUME NEW n \in Nat, NEW P, 0 \in P, \A k \in 0 .. n - 1 : k \in P => k + 1 \in P
    PROVE  \A k \in 0 .. n : k \in P
<1> SUFFICES ASSUME NEW j \in 0 .. n, j \notin P
             PROVE  FALSE
  OBVIOUS
<1> DEFINE S == {k \in 0 .. n : k \notin P}
<1>1. S \in SUBSET Nat /\ S # {}
  OBVIOUS
<1>2. PICK x \in S : \A y \in S : x <= y
  BY <1>1, LeastOf
<1>3. x \in 1 .. n /\ x \notin P
  OBVIOUS
<1>4. x - 1 \in 0 .. n - 1 /\ ~(x <= x - 1)
  BY <1>3
<1>5. x - 1 \in P
  BY <1>2, <1>4
<1>6. (x - 1) + 1 \in P
  BY <1>4, <1>5
<1> QED  BY <1>3, <1>6

LEMMA GreatestOf ==
    ASSUME NEW n \in Nat, NEW s \in SUBSET (1 .. n), s # {}
    PROVE  Max(s) \in s /\ \A y \in s : y <= Max(s)
<1> DEFINE S == {k \in 0 .. n : \E y \in s : k = n - y}
<1>1. S \in SUBSET Nat /\ S # {}
  <2>1. PICK y : y \in s
    OBVIOUS
  <2>2. y \in 1 .. n /\ n - y \in 0 .. n
    BY <2>1
  <2>3. n - y \in S
    BY <2>1, <2>2
  <2> QED  BY <2>3
<1>2. PICK x \in S : \A y \in S : x <= y
  BY <1>1, LeastOf
<1>3. PICK m \in s : x = n - m
  OBVIOUS
<1>4. \A y \in s : m >= y
  <2> TAKE y \in s
  <2>1. n - y \in S
    OBVIOUS
  <2>2. n - m <= n - y
    BY <1>2, <1>3, <2>1
  <2> QED  BY <2>2
<1>5. Max(s) \in s /\ \A y \in s : Max(s) >= y
  BY <1>3, <1>4 DEF Max
<1> QED  BY <1>5

\* g folds the step function st over any of the positions 1 .. n, from base.
Folding(g, n, B, base, st) ==
    /\ g \in [SUBSET (1 .. n) -> B]
    /\ \A s \in SUBSET (1 .. n) :
          g[s] = IF s = {} THEN base ELSE st[<<Max(s), g[s \ {Max(s)}]>>]

LEMMA FoldingExists ==
    ASSUME NEW n \in Nat, NEW B, NEW base \in B, NEW st \in [(1 .. n) \X B -> B]
    PROVE  \E g : Folding(g, n, B, base, st)
<1> DEFINE Folds(g, k) == Folding(g, k, B, base, st)
           P == {k \in 0 .. n : \E g : Folds(g, k)}
<1>1. 0 \in P
  <2> DEFINE g == [s \in SUBSET (1 .. 0) |-> base]
  <2>1. \A s \in SUBSET (1 .. 0) : s = {}
    OBVIOUS
  <2>2. Folds(g, 0)
    BY <2>1 DEF Folding
  <2> HIDE DEF g, Folds
  <2>3. 0 \in 0 .. n
    OBVIOUS
  <2> QED  BY <2>2, <2>3
<1>2. ASSUME NEW k \in 0 .. n - 1, k \in P
      PROVE  k + 1 \in P
  <2>1. PICK g : Folds(g, k)
    BY <1>2
  <2>0. /\ g \in [SUBSET (1 .. k) -> B]
        /\ \A s \in SUBSET (1 .. k) :
              g[s] = IF s = {} THEN base ELSE st[<<Max(s), g[s \ {Max(s)}]>>]
    BY <2>1 DEF Folding
  <2> DEFINE h == [s \in SUBSET (1 .. k + 1) |->
                      IF k + 1 \in s THEN st[<<k + 1, g[s \ {k + 1}]>>] ELSE g[s]]
  <2>2. \A s \in SUBSET (1 .. k + 1) :
            /\ s \ {k + 1} \in SUBSET (1 .. k)
            /\ k + 1 \notin s => s \in SUBSET (1 .. k)
    OBVIOUS
  <2>3. h \in [SUBSET (1 .. k + 1) -> B]
    <3>1. k + 1 \in 1 .. n
      OBVIOUS
    <3> QED  BY <2>0, <2>2, <3>1
  <2>4. ASSUME NEW s \in SUBSET (1 .. k + 1)
        PROVE  h[s] = IF s = {} THEN base ELSE st[<<Max(s), h[s \ {Max(s)}]>>]
    <3>1. CASE k + 1 \in s
      <4>1. Max(s) = k + 1
        <5>1. k + 1 \in Nat
          OBVIOUS
        <5>2. Max(s) \in s /\ k + 1 <= Max(s)
          BY <3>1, <5>1, GreatestOf
        <5>3. Max(s) \in 1 .. k + 1
          BY <5>2
        <5> QED  BY <5>2, <5>3
      <4>2. s \ {k + 1} \in SUBSET (1 .. k + 1) /\ k + 1 \notin s \ {k + 1}
        OBVIOUS
      <4>3. h[s \ {k + 1}] = g[s \ {k + 1}]
        BY <4>2
      <4> QED  BY <3>1, <4>1, <4>3
    <3>2. CASE k + 1 \notin s
      <4>1. s \in SUBSET (1 .. k) /\ h[s] = g[s]
        BY <2>2, <3>2
      <4>2. CASE s = {}
        BY <2>0, <4>1, <4>2
      <4>3. CASE s # {}
        <5>1. s \ {Max(s)} \in SUBSET (1 .. k + 1) /\ k + 1 \notin s \ {Max(s)}
          BY <3>2
        <5>2. h[s \ {Max(s)}] = g[s \ {Max(s)}]
          BY <5>1
        <5>3. g[s] = st[<<Max(s), g[s \ {Max(s)}]>>]
          BY <2>0, <4>1, <4>3
        <5> QED  BY <4>1, <4>3, <5>2, <5>3
      <4> QED  BY <4>2, <4>3
    <3> QED  BY <3>1, <3>2
  <2>5. Folds(h, k + 1)
    BY <2>3, <2>4 DEF Folding
  <2>6. k + 1 \in 0 .. n
    OBVIOUS
  <2> QED  BY <2>5, <2>6
<1>3. n \in P
  <2> HIDE DEF P
  <2> QED  BY <1>1, <1>2, UpTo
<1> QED  BY <1>3

LEMMA FirstPositions ==
    ASSUME NEW n \in Nat, NEW k \in 1 .. n
    PROVE  /\ Max(1 .. k) = k /\ 1 .. k # {} /\ 1 .. k \in SUBSET (1 .. n)
           /\ (1 .. k) \ {k} = 1 .. k - 1
<1>1. 1 .. k \in SUBSET (1 .. n) /\ k \in 1 .. k /\ (1 .. k) \ {k} = 1 .. k - 1
  OBVIOUS
<1>2. Max(1 .. k) \in 1 .. k /\ k <= Max(1 .. k)
  BY <1>1, GreatestOf
<1> QED  BY <1>1, <1>2

\* r is what a loop with the step function st has got to after each position, and
\* ends where g does.
Run(r, g, n, B, base, st) ==
    /\ r[0] = base /\ r[n] = g[1 .. n]
    /\ \A k \in 0 .. n : r[k] \in B
    /\ \A k \in 1 .. n : r[k] = st[<<k, r[k - 1]>>]

\* g folds at least what B has.
FoldsIn(g, n, B, base, st) ==
    /\ g[{}] = base
    /\ \A s \in SUBSET (1 .. n) :
          s # {} /\ g[s \ {Max(s)}] \in B => g[s] = st[<<Max(s), g[s \ {Max(s)}]>>]

LEMMA FoldRuns ==
    ASSUME NEW n \in Nat, NEW B, NEW base \in B, NEW st \in [(1 .. n) \X B -> B],
           NEW g, FoldsIn(g, n, B, base, st)
    PROVE  \E r : Run(r, g, n, B, base, st)
<1> DEFINE r == [k \in 0 .. n |-> g[1 .. k]]
           P == {k \in 0 .. n : r[k] \in B}
<1>1. r[0] = base /\ r[n] = g[1 .. n]
  <2>1. 1 .. 0 = {} /\ 0 \in 0 .. n /\ n \in 0 .. n
    OBVIOUS
  <2> QED  BY <2>1 DEF FoldsIn
<1>2. ASSUME NEW k \in 1 .. n, r[k - 1] \in B
      PROVE  r[k] = st[<<k, r[k - 1]>>] /\ r[k] \in B
  <2>1. k \in 0 .. n /\ k - 1 \in 0 .. n
    OBVIOUS
  <2>2. r[k] = g[1 .. k] /\ r[k - 1] = g[1 .. k - 1]
    BY <2>1
  <2>3. Max(1 .. k) = k /\ 1 .. k # {} /\ 1 .. k \in SUBSET (1 .. n)
        /\ (1 .. k) \ {k} = 1 .. k - 1
    BY FirstPositions
  <2> HIDE DEF r
  <2> QED  BY <1>2, <2>2, <2>3 DEF FoldsIn
<1>3. \A k \in 0 .. n - 1 : k \in P => k + 1 \in P
  <2> TAKE k \in 0 .. n - 1
  <2>1. k + 1 \in 1 .. n /\ k + 1 \in 0 .. n /\ (k + 1) - 1 = k
    OBVIOUS
  <2> HIDE DEF r
  <2> QED  BY <1>2, <2>1
<1>4. 0 \in P
  BY <1>1
<1> HIDE DEF P, r
<1>5. \A k \in 0 .. n : k \in P
  BY <1>3, <1>4, UpTo
<1>6. \A k \in 0 .. n : r[k] \in B
  BY <1>5 DEF P
<1>7. \A k \in 1 .. n : r[k] = st[<<k, r[k - 1]>>]
  <2> TAKE k \in 1 .. n
  <2>1. k - 1 \in 0 .. n
    OBVIOUS
  <2> QED  BY <1>2, <1>6, <2>1
<1> QED  BY <1>1, <1>6, <1>7 DEF Run

-----------------------------------------------------------------------------
(* Selections *)

Selecting(found, x, wanted) == IF x \in wanted THEN Append(found, x) ELSE found

LEMMA SelectionTurns ==
    ASSUME NEW S, NEW list \in Seq(S), NEW wanted
    PROVE  \E r : /\ r[0] = <<>>
                  /\ \A k \in 1 .. Len(list) : r[k] = Selecting(r[k - 1], list[k], wanted)
                  /\ \A k \in 0 .. Len(list) : r[k] \in Seq(S)
                  /\ Those(list, wanted) = r[Len(list)]
<1>n. PICK n : n = Len(list)
  OBVIOUS
<1>1. /\ n \in Nat /\ DOMAIN list = 1 .. n /\ \A i \in 1 .. n : list[i] \in S
      /\ <<>> \in Seq(S)
  BY <1>n, LenProperties, ElementOfSeq, EmptySeq
<1> DEFINE Loop(f) ==
               f = [s \in SUBSET (DOMAIN list) |->
                       IF s = {} THEN <<>> ELSE Selecting(f[s \ {Max(s)}], list[Max(s)], wanted)]
           st == [x \in (1 .. n) \X Seq(S) |-> Selecting(x[2], list[x[1]], wanted)]
<1>2. Those(list, wanted) = (CHOOSE f : Loop(f))[DOMAIN list]
  BY DEF Those, FoldLeft, MapThenFoldSet, Selecting
<1>3. /\ st \in [(1 .. n) \X Seq(S) -> Seq(S)]
      /\ \A i \in 1 .. n, q \in Seq(S) : st[<<i, q>>] = Selecting(q, list[i], wanted)
  BY <1>1 DEF Selecting
<1> HIDE DEF st
<1>4. \E f : Loop(f)
  <2>1. PICK g : Folding(g, n, Seq(S), <<>>, st)
    BY <1>1, <1>3, FoldingExists
  <2>2. /\ g \in [SUBSET (1 .. n) -> Seq(S)] /\ g[{}] = <<>>
        /\ \A s \in SUBSET (1 .. n) : s # {} => g[s] = st[<<Max(s), g[s \ {Max(s)}]>>]
    BY <2>1 DEF Folding
  <2>3. \A s \in SUBSET (1 .. n) :
            s # {} => g[s] = Selecting(g[s \ {Max(s)}], list[Max(s)], wanted)
    BY <1>1, <1>3, <2>2, GreatestOf
  <2> QED  BY <1>1, <2>2, <2>3
<1>5. PICK g : Loop(g) /\ Those(list, wanted) = g[DOMAIN list]
  BY <1>2, <1>4
<1>6. FoldsIn(g, n, Seq(S), <<>>, st)
  <2>1. g[{}] = <<>> /\ \A s \in SUBSET (1 .. n) :
            s # {} => g[s] = Selecting(g[s \ {Max(s)}], list[Max(s)], wanted)
    BY <1>1, <1>5
  <2>2. \A s \in SUBSET (1 .. n) : s # {} => Max(s) \in 1 .. n
    BY <1>1, GreatestOf
  <2> QED  BY <1>3, <2>1, <2>2 DEF FoldsIn
<1>7. PICK r : Run(r, g, n, Seq(S), <<>>, st)
  BY <1>1, <1>3, <1>6, FoldRuns
<1>8. \A k \in 1 .. n : r[k] = Selecting(r[k - 1], list[k], wanted)
  <2> TAKE k \in 1 .. n
  <2>1. k - 1 \in 0 .. n
    BY <1>1
  <2> QED  BY <1>3, <1>7, <2>1 DEF Run
<1> QED  BY <1>n, <1>1, <1>5, <1>7, <1>8 DEF Run

LEMMA SelectionIsList ==
    ASSUME NEW S, NEW list \in Seq(S), NEW wanted
    PROVE  Those(list, wanted) \in Seq(S)
<1>1. PICK r : /\ \A k \in 0 .. Len(list) : r[k] \in Seq(S)
               /\ Those(list, wanted) = r[Len(list)]
  BY SelectionTurns
<1>2. Len(list) \in 0 .. Len(list)
  BY LenProperties
<1> QED  BY <1>1, <1>2

-----------------------------------------------------------------------------
(* Queues of any blocks *)

IsQueue(q) == \E S : q \in Seq(S)

LEMMA AppendedQueue ==
    ASSUME NEW q, IsQueue(q), NEW x
    PROVE  /\ IsQueue(Append(q, x))
           /\ Len(Append(q, x)) = Len(q) + 1 /\ Len(q) \in Nat
           /\ DOMAIN Append(q, x) = 1 .. Len(q) + 1 /\ DOMAIN q = 1 .. Len(q)
           /\ \A i \in 1 .. Len(q) : Append(q, x)[i] = q[i]
           /\ Append(q, x)[Len(q) + 1] = x
<1>1. PICK S : q \in Seq(S)
  BY DEF IsQueue
<1>2. q \in Seq(S \cup {x})
  BY <1>1, SeqMonotonic
<1>3. Append(q, x) \in Seq(S \cup {x})
  BY <1>2, AppendProperties
<1> QED  BY <1>2, <1>3, AppendProperties, LenProperties DEF IsQueue

LEMMA TailOfQueue ==
    ASSUME NEW q, IsQueue(q), q # <<>>
    PROVE  /\ IsQueue(Tail(q)) /\ Len(Tail(q)) = Len(q) - 1 /\ Len(q) \in Nat \ {0}
           /\ DOMAIN Tail(q) = 1 .. Len(q) - 1 /\ DOMAIN q = 1 .. Len(q)
           /\ \A i \in 1 .. Len(q) - 1 : Tail(q)[i] = q[i + 1]
           /\ Head(q) = q[1]
<1>1. PICK S : q \in Seq(S)
  BY DEF IsQueue
<1>2. Tail(q) \in Seq(S) /\ Len(Tail(q)) = Len(q) - 1 /\ Len(q) \in Nat
      /\ DOMAIN q = 1 .. Len(q) /\ Head(q) = q[1]
      /\ \A i \in 1 .. Len(q) - 1 : Tail(q)[i] = q[i + 1]
  BY <1>1, HeadTailProperties, LenProperties
<1>3. Len(q) # 0
  BY <1>1, EmptySeq, LenProperties
<1> QED  BY <1>2, <1>3, LenProperties DEF IsQueue

-----------------------------------------------------------------------------
(* NetworkReachability: the last notification *)

NoNotice(q) == \A i \in DOMAIN q : q[i].does # "status"

ToldInv ==
    /\ IsQueue(delegateBlocks)
    /\ NoNotice(delegateBlocks) /\ currentStatus # "Unknown" => posted.to = currentStatus

LEMMA AnswerIsNoNotice ==
    ASSUME NEW q, IsQueue(q), NEW ws, NEW c
    PROVE  /\ IsQueue(Append(q, Answering(ws, c)))
           /\ NoNotice(Append(q, Answering(ws, c))) <=> NoNotice(q)
<1>1. Answering(ws, c).does = "answer"
  BY DEF Answering
<1> QED  BY <1>1, AppendedQueue DEF NoNotice

\* The blocks that a new path leaves on delegateQueue.
LEMMA NewBlocks ==
    ASSUME NEW q, IsQueue(q), NEW changed \in BOOLEAN, NEW ws
    PROVE  LET r == q \o (IF changed THEN <<StatusNotice>> ELSE <<>>)
                      \o (IF ws # <<>> THEN <<Answering(ws, TRUE)>> ELSE <<>>)
           IN  IsQueue(r) /\ (NoNotice(r) => ~changed /\ NoNotice(q))
<1> DEFINE n == IF changed THEN Append(q, StatusNotice) ELSE q
           r == IF ws # <<>> THEN Append(n, Answering(ws, TRUE)) ELSE n
<1>1. StatusNotice.does = "status"
  BY DEF StatusNotice
<1>2. IsQueue(n) /\ (NoNotice(n) => ~changed /\ NoNotice(q))
  <2>1. CASE changed
    <3>1. IsQueue(n) /\ Len(q) + 1 \in DOMAIN n /\ n[Len(q) + 1] = StatusNotice
      BY <2>1, AppendedQueue
    <3> QED  BY <1>1, <3>1 DEF NoNotice
  <2> QED  BY <2>1
<1>3. IsQueue(r) /\ (NoNotice(r) => NoNotice(n))
  <2> HIDE DEF n
  <2> QED  BY <1>2, AnswerIsNoNotice
<1>4. q \o (IF changed THEN <<StatusNotice>> ELSE <<>>) = n
  <2>1. PICK S : q \in Seq(S)
    BY DEF IsQueue
  <2>2. q \in Seq(S \cup {StatusNotice})
    BY <2>1, SeqMonotonic
  <2>3. q \o <<StatusNotice>> = Append(q, StatusNotice)
    BY <2>2, AppendIsConcat
  <2>4. q \o <<>> = q
    BY <2>1, ConcatEmptySeq
  <2> QED  BY <2>3, <2>4
<1>5. n \o (IF ws # <<>> THEN <<Answering(ws, TRUE)>> ELSE <<>>) = r
  <2> HIDE DEF n
  <2>1. PICK S : n \in Seq(S)
    BY <1>2 DEF IsQueue
  <2>2. n \in Seq(S \cup {Answering(ws, TRUE)})
    BY <2>1, SeqMonotonic
  <2>3. n \o <<Answering(ws, TRUE)>> = Append(n, Answering(ws, TRUE))
    BY <2>2, AppendIsConcat
  <2>4. n \o <<>> = n
    BY <2>1, ConcatEmptySeq
  <2> QED  BY <2>3, <2>4
<1> HIDE DEF n, r
<1> QED  BY <1>2, <1>3, <1>4, <1>5

\* When delegateQueue has come to rest, the last notification said what the status is, through
\* every overtaking of paths, notices, waiters and restarts of the monitor
\* (NetworkReachability.m:106-142, 216-240).
THEOREM ToldTheLatestHolds == NetworkSpec => []ToldTheLatest
<1>1. NetworkInit => ToldInv
  <2>1. <<>> \in Seq({})
    BY EmptySeq
  <2> QED  BY <2>1 DEF NetworkInit, ToldInv, IsQueue
<1>2. ToldInv /\ [NetworkNext]_networkVars => ToldInv'
  <2> SUFFICES ASSUME ToldInv, [NetworkNext]_networkVars
               PROVE  ToldInv'
    OBVIOUS
  <2> USE DEF ToldInv
  <2>1. ASSUME NEW path \in Paths, HandlePathUpdate(path)
        PROVE  ToldInv'
    <3> DEFINE newStatus == StatusFromPath(path)
               released == IF NetworkStatusIsReachable(newStatus) THEN connectivityWaiters
                                                                  ELSE <<>>
    <3>1. /\ delegateBlocks' = delegateBlocks
                 \o (IF StatusChanged(newStatus) THEN <<StatusNotice>> ELSE <<>>)
                 \o (IF released # <<>> THEN <<Answering(released, TRUE)>> ELSE <<>>)
          /\ currentStatus' = newStatus /\ posted' = posted
      BY <2>1 DEF HandlePathUpdate
    <3>2. StatusChanged(newStatus) \in BOOLEAN
      BY DEF StatusChanged
    <3>3. /\ IsQueue(delegateBlocks')
          /\ NoNotice(delegateBlocks') => ~StatusChanged(newStatus) /\ NoNotice(delegateBlocks)
      <4> HIDE DEF newStatus, released
      <4> QED  BY <3>1, <3>2, NewBlocks
    <3> QED  BY <3>1, <3>3 DEF StatusChanged
  <2>2. CASE DelegateIsTold
    <3>1. IsQueue(delegateBlocks')
      BY <2>2, TailOfQueue DEF DelegateIsTold
    <3>2. CASE Head(delegateBlocks).does = "status"
      <4>1. posted'.to = currentStatus /\ currentStatus' = currentStatus
        BY <2>2, <3>2 DEF DelegateIsTold, pathState
      <4> QED  BY <3>1, <4>1
    <3>3. CASE Head(delegateBlocks).does # "status"
      <4>1. posted' = posted /\ currentStatus' = currentStatus
        BY <2>2, <3>3 DEF DelegateIsTold, pathState
      <4>2. NoNotice(delegateBlocks') => NoNotice(delegateBlocks)
        <5> SUFFICES ASSUME NoNotice(Tail(delegateBlocks)), NEW i \in DOMAIN delegateBlocks
                     PROVE  delegateBlocks[i].does # "status"
          BY <2>2 DEF DelegateIsTold, NoNotice
        <5>1. delegateBlocks # <<>>
          BY <2>2 DEF DelegateIsTold
        <5>2. CASE i = 1
          BY <3>3, <5>1, <5>2, TailOfQueue
        <5>3. CASE i # 1
          <6>1. /\ i - 1 \in DOMAIN Tail(delegateBlocks)
                /\ Tail(delegateBlocks)[i - 1] = delegateBlocks[i]
            BY <5>1, <5>3, TailOfQueue
          <6> QED  BY <6>1 DEF NoNotice
        <5> QED  BY <5>2, <5>3
      <4> QED  BY <3>1, <4>1, <4>2
    <3> QED  BY <3>2, <3>3
  <2>3. ASSUME NEW w \in Waiter, WaitForConnectivity(w) \/ WaitTimesOut(w)
        PROVE  ToldInv'
    <3>1. \/ delegateBlocks' = delegateBlocks
          \/ \E c \in BOOLEAN : delegateBlocks' = Append(delegateBlocks, Answering(<<w>>, c))
      BY <2>3 DEF WaitForConnectivity, WaitTimesOut
    <3>2. posted' = posted /\ currentStatus' = currentStatus
      BY <2>3 DEF WaitForConnectivity, WaitTimesOut, pathState
    <3> QED  BY <3>1, <3>2, AnswerIsNoNotice
  <2>4. CASE AddWaiter \/ InitProvider \/ CreateRuleManager \/ FinishStartup \/ SchedulerDealloc
    BY <2>4 DEF AddWaiter, InitProvider, CreateRuleManager, FinishStartup, SchedulerDealloc,
                pathState
  <2>5. CASE StartMonitoring
    BY <2>5 DEF StartMonitoring
  <2>6. CASE StopMonitoring
    BY <2>6 DEF StopMonitoring
  <2>7. CASE UNCHANGED networkVars
    BY <2>7 DEF networkVars, pathState
  <2> QED  BY <2>1, <2>2, <2>3, <2>4, <2>5, <2>6, <2>7 DEF NetworkNext
<1>3. ToldInv => ToldTheLatest
  BY DEF ToldInv, ToldTheLatest, NoNotice
<1> QED  BY <1>1, <1>2, <1>3, PTL DEF NetworkSpec

LEMMA StatusOfPath ==
    ASSUME NEW path \in Paths
    PROVE  StatusFromPath(path) \in NetworkStatus
<1> DEFINE has == {i \in DOMAIN Preference : Preference[i] \in path.interfaces}
           first == CHOOSE i \in has : \A j \in has : i <= j
<1>1. DOMAIN Preference = 1 .. 4 /\ \A i \in 1 .. 4 : Preference[i] \in NetworkStatus
  BY DEF Preference, NetworkStatus
<1>2. ASSUME has # {}
      PROVE  Preference[first] \in NetworkStatus
  <2>1. has \in SUBSET Nat /\ has \subseteq 1 .. 4
    BY <1>1
  <2>2. \E i \in has : \A j \in has : i <= j
    BY <1>2, <2>1, LeastOf
  <2>3. first \in has
    BY <2>2
  <2> QED  BY <1>1, <2>1, <2>3
<1> HIDE DEF first
<1>3. CASE ~path.satisfied
  BY <1>3 DEF StatusFromPath, NetworkStatus
<1>4. CASE path.satisfied /\ has = {}
  BY <1>4 DEF StatusFromPath, NetworkStatus
<1>5. CASE path.satisfied /\ has # {}
  BY <1>2, <1>5 DEF StatusFromPath, first
<1> QED  BY <1>3, <1>4, <1>5

LEMMA NetworkTypeStep == NetworkTypeOK /\ [NetworkNext]_networkVars => NetworkTypeOK'
<1> SUFFICES ASSUME NetworkTypeOK, [NetworkNext]_networkVars
             PROVE  NetworkTypeOK'
  OBVIOUS
<1>b. /\ \A ws \in Seq(Waiter), c \in BOOLEAN : Answering(ws, c) \in Notice \cup Answer
      /\ StatusNotice \in Notice \cup Answer
  BY DEF Answering, Answer, Notice, StatusNotice
<1>q. /\ \A q \in Seq(Notice \cup Answer), x \in Notice \cup Answer :
            Append(q, x) \in Seq(Notice \cup Answer) /\ q \o <<x>> \in Seq(Notice \cup Answer)
      /\ <<>> \in Seq(Notice \cup Answer) /\ \A q \in Seq(Notice \cup Answer) : q \o <<>> = q
  BY AppendProperties, EmptySeq, ConcatEmptySeq
<1>1. ASSUME NEW path \in Paths, HandlePathUpdate(path)
      PROVE  NetworkTypeOK'
  <2>1. PICK status \in NetworkStatus : status = StatusFromPath(path)
    BY StatusOfPath
  <2>2. PICK released : released = IF NetworkStatusIsReachable(status)
                                   THEN connectivityWaiters ELSE <<>>
    OBVIOUS
  <2>3. released \in Seq(Waiter)
    BY <2>2, EmptySeq DEF NetworkTypeOK
  <2>4. /\ currentStatus' = status /\ previousStatus' = currentStatus
        /\ availableConnectionTypes' = ConnectionTypesFromPath(path)
        /\ connectivityWaiters' \in {connectivityWaiters, <<>>}
        /\ delegateBlocks' = delegateBlocks
               \o (IF StatusChanged(status) THEN <<StatusNotice>> ELSE <<>>)
               \o (IF released # <<>> THEN <<Answering(released, TRUE)>> ELSE <<>>)
    BY <1>1, <2>1, <2>2 DEF HandlePathUpdate
  <2>5. connectivityWaiters' \in Seq(Waiter)
    BY <2>4, EmptySeq DEF NetworkTypeOK
  <2>6. delegateBlocks' \in Seq(Notice \cup Answer)
    <3>1. PICK q : q = delegateBlocks \o (IF StatusChanged(status) THEN <<StatusNotice>> ELSE <<>>)
      OBVIOUS
    <3>2. q \in Seq(Notice \cup Answer)
      BY <1>b, <1>q, <3>1 DEF NetworkTypeOK
    <3>3. Answering(released, TRUE) \in Notice \cup Answer
      BY <1>b, <2>3
    <3> QED  BY <1>q, <2>4, <3>1, <3>2, <3>3
  <2>7. availableConnectionTypes' \subseteq NetworkConnectionType
    BY <2>4, NetworkAssumption DEF ConnectionTypesFromPath
  <2>8. UNCHANGED <<isMonitoring, reachabilityDelegate, monitorBlocks, timeouts,
                    waiterAnswers, posted, providerState>>
    BY <1>1 DEF HandlePathUpdate
  <2> QED  BY <2>1, <2>4, <2>5, <2>6, <2>7, <2>8 DEF NetworkTypeOK, providerState
<1>2. ASSUME DelegateIsTold
      PROVE  NetworkTypeOK'
  <2>1. PICK next : next = Head(delegateBlocks) /\ next \in Notice \cup Answer
    BY <1>2 DEF NetworkTypeOK, DelegateIsTold
  <2>2. delegateBlocks' \in Seq(Notice \cup Answer)
    BY <1>2 DEF NetworkTypeOK, DelegateIsTold
  <2>3. UNCHANGED <<pathState, reachabilityDelegate, waiting, startup, releasing, starts>>
    BY <1>2 DEF DelegateIsTold
  <2>4. CASE next.does = "status"
    <3>1. /\ posted' = [from |-> previousStatus, to |-> currentStatus]
          /\ UNCHANGED waiterAnswers
          /\ updatesStarted' = (updatesStarted \/ NetworkStatusIsReachable(currentStatus))
             \/ UNCHANGED updatesStarted
      BY <1>2, <2>1, <2>4 DEF DelegateIsTold, ProviderHears
    <3>2. updatesStarted' \in BOOLEAN
      BY <3>1 DEF NetworkTypeOK, NetworkStatusIsReachable
    <3> QED  BY <2>2, <2>3, <3>1, <3>2 DEF NetworkTypeOK, pathState, waiting
  <2>5. CASE next.does = "answer"
    <3>1. next \in Answer
      BY <2>1, <2>5 DEF Notice
    <3>2. waiterAnswers' = Recorded(next.waiters, next.connected)
          /\ UNCHANGED <<posted, updatesStarted>>
      BY <1>2, <2>1, <2>5 DEF DelegateIsTold
    <3>3. next.connected \in BOOLEAN
      BY <3>1 DEF Answer
    <3>4. waiterAnswers' \in [Waiter -> Seq(BOOLEAN)]
      <4>0. PICK c : c = next.connected
        OBVIOUS
      <4>1. c \in BOOLEAN /\ waiterAnswers' = Recorded(next.waiters, c)
        BY <3>2, <3>3, <4>0
      <4>2. \A w \in Waiter : /\ waiterAnswers[w] \in Seq(BOOLEAN)
                              /\ Append(waiterAnswers[w], c) \in Seq(BOOLEAN)
        BY <4>1, AppendProperties DEF NetworkTypeOK
      <4> QED  BY <4>1, <4>2 DEF Recorded
    <3> QED  BY <2>2, <2>3, <3>2, <3>4 DEF NetworkTypeOK, pathState, waiting
  <2>6. next.does \in {"status", "answer"}
    BY <2>1 DEF Notice, Answer
  <2> QED  BY <2>4, <2>5, <2>6
<1>3. ASSUME NEW w \in Waiter, WaitForConnectivity(w)
      PROVE  NetworkTypeOK'
  <2>1. <<w>> \in Seq(Waiter)
    OBVIOUS
  <2>2. Answering(<<w>>, TRUE) \in Notice \cup Answer
    BY <1>b, <2>1
  <2>3. delegateBlocks' \in Seq(Notice \cup Answer)
    BY <1>3, <1>q, <2>2 DEF WaitForConnectivity, NetworkTypeOK
  <2>4. monitorBlocks' \in Seq(Waiter) /\ timeouts' \subseteq Waiter
    <3>1. \/ UNCHANGED <<monitorBlocks, timeouts>>
          \/ monitorBlocks' = Append(monitorBlocks, w) /\ timeouts' = timeouts \cup {w}
      BY <1>3 DEF WaitForConnectivity
    <3>2. monitorBlocks \in Seq(Waiter) /\ timeouts \subseteq Waiter
      BY DEF NetworkTypeOK
    <3> QED  BY <3>1, <3>2
  <2> QED  BY <1>3, <2>3, <2>4 DEF WaitForConnectivity, NetworkTypeOK, pathState, providerState
<1>4. ASSUME NEW w \in Waiter, WaitTimesOut(w)
      PROVE  NetworkTypeOK'
  <2>1. <<w>> \in Seq(Waiter)
    OBVIOUS
  <2>2. Answering(<<w>>, FALSE) \in Notice \cup Answer
    BY <1>b, <2>1
  <2>3. delegateBlocks' \in Seq(Notice \cup Answer) /\ timeouts' \subseteq Waiter
    BY <1>4, <1>q, <2>2 DEF WaitTimesOut, NetworkTypeOK
  <2>4. connectivityWaiters' \in Seq(Waiter)
    BY <1>4, SelectionIsList DEF WaitTimesOut, WithoutWaiter, NetworkTypeOK
  <2> QED  BY <1>4, <2>3, <2>4 DEF WaitTimesOut, NetworkTypeOK, pathState, providerState
<1>5. ASSUME AddWaiter
      PROVE  NetworkTypeOK'
  <2>1. connectivityWaiters' \in Seq(Waiter) /\ monitorBlocks' \in Seq(Waiter)
    BY <1>5 DEF AddWaiter, NetworkTypeOK
  <2> QED  BY <1>5, <2>1 DEF AddWaiter, NetworkTypeOK, pathState, providerState
<1>6. ASSUME \/ InitProvider \/ StartMonitoring \/ CreateRuleManager \/ FinishStartup
             \/ SchedulerDealloc \/ StopMonitoring
      PROVE  NetworkTypeOK'
  <2>1. /\ UNCHANGED <<previousStatus, availableConnectionTypes, waiting, delegateBlocks,
                       waiterAnswers, posted>>
        /\ currentStatus' \in {currentStatus, "Unknown"}
        /\ isMonitoring' \in {isMonitoring, TRUE, FALSE}
    BY <1>6 DEF InitProvider, StartMonitoring, CreateRuleManager, FinishStartup,
                SchedulerDealloc, StopMonitoring, pathState
  <2>2. /\ reachabilityDelegate' \in {reachabilityDelegate, "none", "provider", "scheduler"}
        /\ startup' \in {startup, "stopped", "created", "monitoring", "managed", "started"}
    BY <1>6 DEF InitProvider, StartMonitoring, CreateRuleManager, FinishStartup,
                SchedulerDealloc, StopMonitoring, pathState
  <2>3. releasing' \in Nat /\ starts' \in 0 .. MaxStarts
    BY <1>6, NetworkAssumption
       DEF InitProvider, StartMonitoring, CreateRuleManager, FinishStartup,
           SchedulerDealloc, StopMonitoring, NetworkTypeOK
  <2>u. \/ updatesStarted' \in {updatesStarted, FALSE}
        \/ updatesStarted' = (updatesStarted \/ NetworkStatusIsReachable(currentStatus))
    BY <1>6 DEF InitProvider, StartMonitoring, CreateRuleManager, FinishStartup,
                SchedulerDealloc, StopMonitoring
  <2>5. updatesStarted' \in BOOLEAN
    BY <2>u DEF NetworkTypeOK, NetworkStatusIsReachable
  <2>4. "Unknown" \in NetworkStatus
    BY DEF NetworkStatus
  <2> QED  BY <2>1, <2>2, <2>3, <2>4, <2>5 DEF NetworkTypeOK, waiting
<1>7. CASE UNCHANGED networkVars
  BY <1>7 DEF networkVars, pathState, waiting, providerState, NetworkTypeOK
<1> QED  BY <1>1, <1>2, <1>3, <1>4, <1>5, <1>6, <1>7 DEF NetworkNext

\* The monitor's state and its queues keep their types.
THEOREM NetworkTypeCorrect == NetworkSpec => []NetworkTypeOK
<1>1. NetworkInit => NetworkTypeOK
  <2> SUFFICES ASSUME NetworkInit PROVE NetworkTypeOK
    OBVIOUS
  <2>1. /\ <<>> \in Seq(Waiter) /\ <<>> \in Seq(Notice \cup Answer) /\ <<>> \in Seq(BOOLEAN)
        /\ 0 \in 0 .. MaxStarts /\ "Unknown" \in NetworkStatus
    BY EmptySeq, NetworkAssumption DEF NetworkStatus
  <2>2. waiterAnswers \in [Waiter -> Seq(BOOLEAN)]
    BY <2>1 DEF NetworkInit
  <2> QED  BY <2>1, <2>2 DEF NetworkInit, NetworkTypeOK
<1> QED  BY <1>1, NetworkTypeStep, PTL DEF NetworkSpec

-----------------------------------------------------------------------------
(* ConfigurationManager: the settings that stay in force *)

\* Preferences hold the sources of a list, under every kind of them that is read.
ListsOf(prefs) == DOMAIN prefs = Key /\ prefs["RuleSources"] \subseteq SUBSET Dictionaries

ConfigurationTypes ==
    /\ currentConfiguration \in DNSConfiguration
    /\ managerConfiguration \in DNSConfiguration
    /\ converted \in Seq(DNSConfiguration)
    /\ ListsOf(managedPreferences) /\ ListsOf(sharedDefaults) /\ ListsOf(legacyDomain)
    /\ managedMode \subseteq Settings

\* Whatever is on its way to be saved has the settings that are in force: what comes from a
\* manifest, and the rule manager's own copy while its transition is not over.
SameSettings ==
    /\ ~running => converted = <<>>
    /\ running => /\ \A i \in DOMAIN converted :
                        converted[i].settings = currentConfiguration.settings
                  /\ managerConfiguration.isTransitionState
                     => managerConfiguration.settings = currentConfiguration.settings

SettingsInv == ConfigurationTypes /\ SameSettings

LEMMA SourcesOfDictionaries ==
    ASSUME NEW list \in SUBSET Dictionaries
    PROVE  {SourceFromDictionary(d) : d \in list} \in SUBSET ConfiguredSource
<1>1. ASSUME NEW d \in list
      PROVE  SourceFromDictionary(d) \in ConfiguredSource
  <2>1. d \in SourceDictionary
    BY ConfigurationAssumption
  <2>2. /\ (d.type \in {"https", "file"} /\ d.located) \in BOOLEAN
        /\ (d.enabled = "true") \in BOOLEAN
    BY <2>1 DEF SourceDictionary
  <2>3. (CASE d.type = "https" -> "HTTPS" [] d.type = "file" -> "File" [] OTHER -> "Unknown")
          \in RuleSourceType
    BY <2>1 DEF SourceDictionary, RuleSourceType
  <2> QED  BY <2>2, <2>3 DEF SourceFromDictionary, ConfiguredSource
<1> QED  BY <1>1

LEMMA DefaultIsConfiguration ==
    /\ DefaultConfiguration \in DNSConfiguration
    /\ DefaultConfiguration.isTransitionState = FALSE
BY ConfigurationAssumption DEF DefaultConfiguration, DNSConfiguration

LEMMA LoadedIsConfiguration ==
    ASSUME ConfigurationTypes
    PROVE  LoadedConfiguration \in DNSConfiguration
<1>1. PreferenceValue("Configuration") = NotSet
  BY DEF PreferenceValue, PreferenceKeySet
<1>2. PreferenceValue("RuleSources") \subseteq SUBSET Dictionaries
  BY DEF PreferenceValue, PreferenceKeySet, DefaultValue, ConfigurationTypes, ListsOf
<1>3. ASSUME managedMode # NotSet
      PROVE  ManagedModeConfiguration(Content(managedMode)) \in DNSConfiguration
  <2>1. Content(managedMode) \in Settings
    BY <1>3 DEF Content, NotSet, ConfigurationTypes
  <2> QED  BY <2>1, DefaultIsConfiguration DEF ManagedModeConfiguration, DNSConfiguration
<1>4. ASSUME PreferenceValue("RuleSources") # NotSet
      PROVE  LegacyConfiguration(Content(PreferenceValue("RuleSources"))) \in DNSConfiguration
  <2> DEFINE list == Content(PreferenceValue("RuleSources"))
  <2>1. list \in SUBSET Dictionaries
    BY <1>2, <1>4 DEF Content, NotSet
  <2> HIDE DEF list
  <2>2. {SourceFromDictionary(d) : d \in list} \in SUBSET ConfiguredSource
    BY <2>1, SourcesOfDictionaries
  <2>3. LegacyConfiguration(list) \in DNSConfiguration
    BY <2>2, DefaultIsConfiguration DEF LegacyConfiguration, DNSConfiguration
  <2> QED  BY <2>3 DEF list
<1> QED  BY <1>1, <1>3, <1>4, DefaultIsConfiguration DEF LoadedConfiguration

LEMMA ManifestKeepsSettings ==
    ASSUME ConfigurationTypes, NEW list \in SourceLists
    PROVE  /\ FromResolvedManifest(list) \in DNSConfiguration
           /\ FromResolvedManifest(list).settings = currentConfiguration.settings
<1>1. {SourceFromDictionary(d) : d \in list} \in SUBSET ConfiguredSource
  BY ConfigurationAssumption, SourcesOfDictionaries
<1>2. currentConfiguration.settings \in Settings
  BY DEF ConfigurationTypes, DNSConfiguration
<1> QED
  BY <1>1, <1>2, DefaultIsConfiguration DEF FromResolvedManifest, Locked, DNSConfiguration

\* A configuration that is saved, or refused, changes no settings when it has those in force.
LEMMA SavingKeepsSettings ==
    ASSUME ConfigurationTypes, NEW config \in DNSConfiguration,
           config.settings = currentConfiguration.settings, SaveConfiguration(config),
           ~IsValid(config) => currentConfiguration' \in {currentConfiguration, config}
    PROVE  /\ currentConfiguration' \in DNSConfiguration
           /\ currentConfiguration'.settings = currentConfiguration.settings
           /\ ListsOf(legacyDomain')
<1>1. currentConfiguration' \in {currentConfiguration, config}
  BY DEF SaveConfiguration
<1>2. ListsOf(legacyDomain')
  <2>1. CASE legacyDomain' = legacyDomain
    BY <2>1 DEF ConfigurationTypes
  <2>2. CASE legacyDomain' = [legacyDomain EXCEPT !["Configuration"] = {config}]
    BY <2>2 DEF ConfigurationTypes, ListsOf, Key
  <2> QED  BY <2>1, <2>2 DEF SaveConfiguration
<1> QED  BY <1>1, <1>2 DEF ConfigurationTypes

\* One step of the configuration manager.
LEMMA ConfigurationStep ==
    ASSUME SettingsInv, [ConfigurationNext]_configurationVars
    PROVE  /\ SettingsInv'
           /\ running /\ running'
              => currentConfiguration'.settings = currentConfiguration.settings
<1> DEFINE Goal == /\ SettingsInv'
                   /\ running /\ running'
                      => currentConfiguration'.settings = currentConfiguration.settings
<1> USE DEF preferences, configurations, progress
<1>1. ConfigurationTypes /\ SameSettings
  BY DEF SettingsInv
<1>2. CASE StartExtension
  <2>1. LoadedConfiguration \in DNSConfiguration
    BY <1>1, LoadedIsConfiguration
  <2>2. ListsOf(sharedDefaults')
    <3>1. sharedDefaults' = SharedAfterReading("RuleSources")
      BY <1>2 DEF StartExtension
    <3> QED  BY <1>1, <3>1 DEF SharedAfterReading, ConfigurationTypes, ListsOf, Key
  <2>3. /\ currentConfiguration' = LoadedConfiguration
        /\ managerConfiguration' \in {DefaultConfiguration, LoadedConfiguration}
        /\ ~running /\ running' /\ converted = <<>>
        /\ UNCHANGED <<managedPreferences, managedMode, legacyDomain, converted>>
    BY <1>1, <1>2 DEF StartExtension, SameSettings
  <2>4. ConfigurationTypes'
    BY <1>1, <2>1, <2>2, <2>3, DefaultIsConfiguration DEF ConfigurationTypes
  <2>5. SameSettings'
    BY <2>3, DefaultIsConfiguration DEF SameSettings
  <2> QED  BY <2>3, <2>4, <2>5 DEF SettingsInv
<1>3. ASSUME NEW list \in SourceLists, ConvertManifest(list)
      PROVE  Goal
  <2> DEFINE config == FromResolvedManifest(list)
  <2>1. config \in DNSConfiguration /\ config.settings = currentConfiguration.settings
    BY <1>1, ManifestKeepsSettings
  <2> HIDE DEF config
  <2>2. /\ running /\ converted' = Append(converted, config)
        /\ UNCHANGED <<preferences, configurations, running>>
    BY <1>3 DEF ConvertManifest, config
  <2>3. /\ converted' \in Seq(DNSConfiguration) /\ DOMAIN converted' = 1 .. Len(converted) + 1
        /\ DOMAIN converted = 1 .. Len(converted) /\ Len(converted) \in Nat
        /\ \A i \in 1 .. Len(converted) : converted'[i] = converted[i]
        /\ converted'[Len(converted) + 1] = config
    BY <1>1, <2>1, <2>2, AppendProperties, LenProperties DEF ConfigurationTypes
  <2>4. ConfigurationTypes'
    BY <1>1, <2>2, <2>3 DEF ConfigurationTypes
  <2>5. \A i \in DOMAIN converted' : converted'[i].settings = currentConfiguration.settings
    BY <1>1, <2>1, <2>2, <2>3 DEF SameSettings
  <2>6. SameSettings'
    BY <1>1, <2>2, <2>5 DEF SameSettings
  <2> QED  BY <2>2, <2>4, <2>6 DEF SettingsInv
<1>4. CASE ApplyConfiguration
  <2> DEFINE next == Head(converted)
             config == [next EXCEPT !.isTransitionState = @ \/ next.ruleSources = {}]
  <2>1. /\ running /\ converted # <<>> /\ converted' = Tail(converted)
        /\ managerConfiguration' = config /\ SaveConfiguration(config)
        /\ ~IsValid(config) => currentConfiguration' = currentConfiguration
        /\ UNCHANGED <<managedPreferences, managedMode, sharedDefaults, running>>
    BY <1>4 DEF ApplyConfiguration
  <2>2. /\ next \in DNSConfiguration /\ next.settings = currentConfiguration.settings
        /\ Tail(converted) \in Seq(DNSConfiguration)
        /\ \A i \in DOMAIN Tail(converted) :
               Tail(converted)[i].settings = currentConfiguration.settings
    <3>1. converted \in Seq(DNSConfiguration) /\ IsQueue(converted)
      BY <1>1 DEF ConfigurationTypes, IsQueue
    <3>2. 1 \in DOMAIN converted /\ next = converted[1]
      BY <2>1, <3>1, TailOfQueue
    <3>3. \A i \in DOMAIN Tail(converted) : /\ i + 1 \in DOMAIN converted
                                            /\ Tail(converted)[i] = converted[i + 1]
      BY <2>1, <3>1, TailOfQueue
    <3>4. next \in DNSConfiguration /\ Tail(converted) \in Seq(DNSConfiguration)
      BY <2>1, <3>1, HeadTailProperties
    <3> QED  BY <1>1, <2>1, <3>2, <3>3, <3>4 DEF SameSettings
  <2> HIDE DEF next
  <2>3. config \in DNSConfiguration /\ config.settings = currentConfiguration.settings
    <3>1. (next.isTransitionState \/ next.ruleSources = {}) \in BOOLEAN
      OBVIOUS
    <3> QED  BY <2>2, <3>1 DEF DNSConfiguration
  <2> HIDE DEF config
  <2>4. /\ currentConfiguration' \in DNSConfiguration /\ ListsOf(legacyDomain')
        /\ currentConfiguration'.settings = currentConfiguration.settings
    BY <1>1, <2>1, <2>3, SavingKeepsSettings
  <2>5. ConfigurationTypes'
    BY <1>1, <2>1, <2>2, <2>3, <2>4 DEF ConfigurationTypes
  <2>6. SameSettings'
    BY <2>1, <2>2, <2>3, <2>4 DEF SameSettings
  <2> QED  BY <2>4, <2>5, <2>6 DEF SettingsInv
<1>5. CASE MergeEndsTransition
  <2>1. running /\ UNCHANGED <<managedPreferences, managedMode, sharedDefaults, converted, running>>
    BY <1>5 DEF MergeEndsTransition
  <2>2. CASE managerConfiguration.isTransitionState
    <3> DEFINE config == [managerConfiguration EXCEPT !.isTransitionState = FALSE]
    <3>1. config \in DNSConfiguration /\ config.settings = currentConfiguration.settings
      BY <1>1, <2>1, <2>2 DEF ConfigurationTypes, SameSettings, DNSConfiguration
    <3>2. /\ managerConfiguration' = config /\ SaveConfiguration(config)
          /\ ~IsValid(config) => currentConfiguration' \in {currentConfiguration, config}
      BY <1>5, <2>2 DEF MergeEndsTransition
    <3> HIDE DEF config
    <3>3. /\ currentConfiguration' \in DNSConfiguration /\ ListsOf(legacyDomain')
          /\ currentConfiguration'.settings = currentConfiguration.settings
      BY <1>1, <3>1, <3>2, SavingKeepsSettings
    <3>4. ConfigurationTypes'
      BY <1>1, <2>1, <3>1, <3>2, <3>3 DEF ConfigurationTypes
    <3>5. SameSettings'
      BY <1>1, <2>1, <3>1, <3>2, <3>3 DEF SameSettings
    <3> QED  BY <3>3, <3>4, <3>5 DEF SettingsInv
  <2>3. CASE ~managerConfiguration.isTransitionState
    <3>1. UNCHANGED <<configurations, legacyDomain>>
      BY <1>5, <2>3 DEF MergeEndsTransition
    <3> QED  BY <1>1, <2>1, <3>1 DEF SettingsInv, ConfigurationTypes, SameSettings
  <2> QED  BY <2>2, <2>3
<1>6. CASE StopExtension
  <2>1. ~running' /\ converted' = <<>> /\ UNCHANGED <<preferences, configurations>>
    BY <1>6 DEF StopExtension
  <2> QED  BY <1>1, <2>1 DEF SettingsInv, ConfigurationTypes, SameSettings
<1>7. CASE UNCHANGED configurationVars
  BY <1>1, <1>7 DEF configurationVars, SettingsInv, ConfigurationTypes, SameSettings
<1> QED  BY <1>2, <1>3, <1>4, <1>5, <1>6, <1>7 DEF ConfigurationNext

LEMMA ConfigurationBegins == ConfigurationInit => SettingsInv
<1> SUFFICES ASSUME ConfigurationInit PROVE SettingsInv
  OBVIOUS
<1>1. ListsOf(managedPreferences) /\ ListsOf(sharedDefaults) /\ ListsOf(legacyDomain)
  BY ConfigurationAssumption DEF ConfigurationInit, ListsOf, Key, NotSet, Maybe
<1>2. managedMode \subseteq Settings
  BY DEF ConfigurationInit, Maybe, NotSet
<1>3. converted \in Seq(DNSConfiguration) /\ converted = <<>> /\ ~running
  BY EmptySeq DEF ConfigurationInit
<1> QED  BY <1>1, <1>2, <1>3, DefaultIsConfiguration
              DEF ConfigurationInit, SettingsInv, ConfigurationTypes, SameSettings

\* Whatever manifests are loaded, refused or saved while the extension runs, and whichever
\* copy of the configuration is saved when, the settings it started with stay in force
\* (ConfigurationManager.m:883-940, RuleManager.m:425-450).
THEOREM SettingsAreKeptHolds == ConfigurationSpec => SettingsAreKept
<1>1. SettingsInv /\ [ConfigurationNext]_configurationVars
      => SettingsInv' /\ [running /\ running'
            => currentConfiguration'.settings = currentConfiguration.settings]_configurationVars
  BY ConfigurationStep
<1> QED  BY <1>1, ConfigurationBegins, PTL DEF ConfigurationSpec, SettingsAreKept

\* What is kept, beside the settings.
KeptTypes ==
    /\ \A config \in lastSaved \cup legacyDomain["Configuration"] : config \in DNSConfiguration
    /\ {sameObject, rulesLoaded, running} \subseteq BOOLEAN
    /\ loads \in 0 .. MaxLoads /\ restarts \in 0 .. MaxRestarts

LEMMA SavingKeepsTypes ==
    ASSUME ConfigurationTypes, KeptTypes, NEW config \in DNSConfiguration,
           SaveConfiguration(config)
    PROVE  /\ \A c \in lastSaved' \cup legacyDomain'["Configuration"] : c \in DNSConfiguration
           /\ IsValid(config) => sameObject' \in BOOLEAN
<1>1. CASE IsValid(config)
  <2>1. /\ legacyDomain' = [legacyDomain EXCEPT !["Configuration"] = {config}]
        /\ lastSaved' = {config} /\ sameObject' = TRUE
    BY <1>1 DEF SaveConfiguration
  <2>2. legacyDomain'["Configuration"] = {config}
    BY <2>1 DEF ConfigurationTypes, ListsOf, Key
  <2> QED  BY <2>1, <2>2
<1>2. CASE ~IsValid(config)
  BY <1>2 DEF SaveConfiguration, KeptTypes
<1> QED  BY <1>1, <1>2

LEMMA KeptTypesStep ==
    ASSUME SettingsInv, KeptTypes, [ConfigurationNext]_configurationVars
    PROVE  KeptTypes'
<1> USE DEF preferences, configurations, progress
<1>1. ConfigurationTypes
  BY DEF SettingsInv
<1>2. CASE StartExtension
  <2>1. /\ running' = TRUE /\ sameObject' \in BOOLEAN
        /\ UNCHANGED <<legacyDomain, lastSaved, rulesLoaded, loads, restarts>>
    BY <1>2 DEF StartExtension
  <2> QED  BY <2>1 DEF KeptTypes
<1>3. ASSUME NEW list \in SourceLists, ConvertManifest(list)
      PROVE  KeptTypes'
  BY <1>3, ConfigurationAssumption DEF ConvertManifest, KeptTypes
<1>4. CASE ApplyConfiguration
  <2> DEFINE next == Head(converted)
  <2>1. next \in DNSConfiguration
    BY <1>1, <1>4, HeadTailProperties DEF ApplyConfiguration, ConfigurationTypes
  <2>2. PICK config : config = [next EXCEPT !.isTransitionState = @ \/ next.ruleSources = {}]
    OBVIOUS
  <2>3. config \in DNSConfiguration
    <3>1. (next.isTransitionState \/ next.ruleSources = {}) \in BOOLEAN
      OBVIOUS
    <3> HIDE DEF next
    <3> QED  BY <2>1, <2>2, <3>1 DEF DNSConfiguration
  <2>4. /\ SaveConfiguration(config)
        /\ ~IsValid(config) => sameObject' = FALSE
        /\ UNCHANGED progress
    BY <1>4, <2>2 DEF ApplyConfiguration
  <2>5. /\ \A c \in lastSaved' \cup legacyDomain'["Configuration"] : c \in DNSConfiguration
        /\ IsValid(config) => sameObject' \in BOOLEAN
    BY <1>1, <2>3, <2>4, SavingKeepsTypes, Zenon
  <2>6. sameObject' \in BOOLEAN
    BY <2>4, <2>5, Zenon
  <2> QED  BY <2>4, <2>5, <2>6 DEF KeptTypes
<1>5. CASE MergeEndsTransition
  <2>1. rulesLoaded' = TRUE /\ UNCHANGED <<running, loads, restarts>>
    BY <1>5 DEF MergeEndsTransition
  <2>2. CASE managerConfiguration.isTransitionState
    <3>1. PICK config : config = [managerConfiguration EXCEPT !.isTransitionState = FALSE]
      OBVIOUS
    <3>2. config \in DNSConfiguration
      BY <1>1, <3>1 DEF ConfigurationTypes, DNSConfiguration
    <3>3. SaveConfiguration(config) /\ (~IsValid(config) => UNCHANGED sameObject)
      BY <1>5, <2>2, <3>1 DEF MergeEndsTransition
    <3>4. /\ \A c \in lastSaved' \cup legacyDomain'["Configuration"] : c \in DNSConfiguration
          /\ IsValid(config) => sameObject' \in BOOLEAN
      BY <1>1, <3>2, <3>3, SavingKeepsTypes, Zenon
    <3>5. sameObject' \in BOOLEAN
      <4>1. sameObject \in BOOLEAN
        BY DEF KeptTypes
      <4> QED  BY <3>3, <3>4, <4>1, Zenon
    <3> QED  BY <2>1, <3>4, <3>5 DEF KeptTypes
  <2>3. CASE ~managerConfiguration.isTransitionState
    BY <1>5, <2>1, <2>3 DEF MergeEndsTransition, KeptTypes
  <2> QED  BY <2>2, <2>3
<1>6. CASE StopExtension
  <2>1. /\ running' \in BOOLEAN /\ rulesLoaded' \in BOOLEAN
        /\ UNCHANGED <<sameObject, legacyDomain, lastSaved, loads>>
    BY <1>6 DEF StopExtension
  <2>2. restarts' \in 0 .. MaxRestarts
    BY <1>6, ConfigurationAssumption DEF StopExtension, KeptTypes
  <2> QED  BY <2>1, <2>2 DEF KeptTypes
<1>7. CASE UNCHANGED configurationVars
  BY <1>7 DEF configurationVars, KeptTypes
<1> QED  BY <1>2, <1>3, <1>4, <1>5, <1>6, <1>7 DEF ConfigurationNext

\* Every copy of the configuration, in force, on its way or saved, is one
\* (ConfigurationManager!ConfigurationTypeOK).
THEOREM ConfigurationTypeCorrect == ConfigurationSpec => []ConfigurationTypeOK
<1>1. ConfigurationInit => KeptTypes
  <2> SUFFICES ASSUME ConfigurationInit PROVE KeptTypes
    OBVIOUS
  <2>1. legacyDomain["Configuration"] = {} /\ lastSaved = {}
    BY DEF ConfigurationInit, Key, NotSet
  <2>2. {sameObject, rulesLoaded, running} \subseteq BOOLEAN
    BY DEF ConfigurationInit
  <2>3. loads \in 0 .. MaxLoads /\ restarts \in 0 .. MaxRestarts
    BY ConfigurationAssumption DEF ConfigurationInit
  <2> QED  BY <2>1, <2>2, <2>3 DEF KeptTypes
<1>2. SettingsInv /\ KeptTypes => ConfigurationTypeOK
  BY DEF SettingsInv, ConfigurationTypes, KeptTypes, ConfigurationTypeOK
<1>3. SettingsInv /\ KeptTypes /\ [ConfigurationNext]_configurationVars => KeptTypes'
  BY KeptTypesStep
<1>4. SettingsInv /\ [ConfigurationNext]_configurationVars => SettingsInv'
  BY ConfigurationStep
<1> QED  BY <1>1, <1>2, <1>3, <1>4, ConfigurationBegins, PTL DEF ConfigurationSpec

-----------------------------------------------------------------------------
(* UpdateStrategies: asking only while active *)

\* A block before the place n in a queue, and one that no stop comes after.
StartBefore(q, n) == \E j \in DOMAIN q : j < n /\ q[j] = "start"
Starts(q) == \E j \in DOMAIN q : q[j] = "start"
NoStop(q) == \A j \in DOMAIN q : q[j] # "stop"
EndsStarted(q) ==
    \E j \in DOMAIN q : q[j] = "start" /\ \A k \in DOMAIN q : k > j => q[k] # "stop"
OneHandler(q) == \A i, j \in HandlersIn(q) : i = j
HandlersStarted(q) == \A i \in HandlersIn(q) : StartBefore(q, i)

\* What only an adaptive strategy leaves.
AdaptiveBlock == {"success", "failure", "check"}
NoneAdaptive(q) == \A i \in DOMAIN q : q[i] \notin AdaptiveBlock

LEMMA RegisteredIsNotAdaptive == "adaptive" \notin RegisteredClass
<1>1. \A setting \in {"Interval", "Scheduled", "Manual", "Push"} :
         (IF setting = "Push" THEN "Dynamic"
          ELSE IF setting \in {"Scheduled", "Manual"} THEN setting ELSE "Interval")
         \in {"Interval", "Scheduled", "Manual", "Dynamic"}
  OBVIOUS
<1>2. /\ StrategyOfType["Interval"] = "interval"
      /\ StrategyOfType["Scheduled"] = "scheduled"
      /\ StrategyOfType["Manual"] = "manual"
      /\ StrategyOfType["Dynamic"] = "push"
  BY DEF StrategyOfType
<1> QED  BY <1>1, <1>2 DEF RegisteredClass, StrategyForConfiguration

-----------------------------------------------------------------------------
(* Taking a timer's handler off a queue *)

LEMMA RemoveAtQueue ==
    ASSUME NEW q, IsQueue(q), NEW k \in 1 .. Len(q)
    PROVE  /\ IsQueue(RemoveAt(q, k)) /\ Len(q) \in Nat
           /\ DOMAIN q = 1 .. Len(q) /\ DOMAIN RemoveAt(q, k) = 1 .. Len(q) - 1
           /\ \A i \in 1 .. Len(q) - 1 :
                 RemoveAt(q, k)[i] = IF i < k THEN q[i] ELSE q[i + 1]
<1> DEFINE a == SubSeq(q, 1, k - 1)
           b == SubSeq(q, k + 1, Len(q))
<1>0. PICK S : q \in Seq(S)
  BY DEF IsQueue
<1>1. Len(q) \in Nat /\ DOMAIN q = 1 .. Len(q) /\ \A i \in 1 .. Len(q) : q[i] \in S
  BY <1>0, LenProperties, ElementOfSeq
<1>2. a \in Seq(S) /\ Len(a) = k - 1 /\ \A i \in 1 .. k - 1 : a[i] = q[i]
  <2>1. /\ a \in Seq(S)
        /\ Len(a) = IF 1 <= k - 1 THEN k - 1 - 1 + 1 ELSE 0
        /\ \A i \in 1 .. k - 1 - 1 + 1 : a[i] = q[1 + i - 1]
    <3>1. (\A i \in 1 .. k - 1 : q[i] \in S) /\ 1 \in Int /\ k - 1 \in Int
      BY <1>1
    <3> QED  BY <1>0, <3>1, SubSeqProperties
  <2> QED  BY <1>1, <2>1
<1>3. b \in Seq(S) /\ Len(b) = Len(q) - k /\ \A i \in 1 .. Len(q) - k : b[i] = q[k + i]
  <2> DEFINE m == k + 1
             n == Len(q)
  <2>1. (\A i \in m .. n : q[i] \in S) /\ m \in Int /\ n \in Int
    BY <1>1
  <2> HIDE DEF m, n
  <2>2. /\ SubSeq(q, m, n) \in Seq(S)
        /\ Len(SubSeq(q, m, n)) = IF m <= n THEN n - m + 1 ELSE 0
        /\ \A i \in 1 .. n - m + 1 : SubSeq(q, m, n)[i] = q[m + i - 1]
    BY <1>0, <2>1, SubSeqProperties
  <2>3. (IF m <= n THEN n - m + 1 ELSE 0) = Len(q) - k /\ n - m + 1 = Len(q) - k
    <3>1. m = k + 1 /\ n = Len(q) /\ k \in 1 .. n /\ n \in Nat
      BY <1>1 DEF m, n
    <3>2. CASE m <= n
      BY <3>1, <3>2
    <3>3. CASE ~(m <= n)
      BY <3>1, <3>3
    <3> QED  BY <3>2, <3>3
  <2>4. \A i \in 1 .. Len(q) - k : m + i - 1 = k + i
    BY <1>1 DEF m
  <2>5. b = SubSeq(q, m, n)
    BY DEF m, n
  <2> QED  BY <2>2, <2>3, <2>4, <2>5
<1> HIDE DEF a, b
<1>4. /\ a \o b \in Seq(S) /\ Len(a \o b) = Len(a) + Len(b)
      /\ \A i \in 1 .. Len(a) + Len(b) :
            (a \o b)[i] = IF i <= Len(a) THEN a[i] ELSE b[i - Len(a)]
  BY <1>2, <1>3, ConcatProperties
<1>5. Len(a) + Len(b) = Len(q) - 1
  BY <1>1, <1>2, <1>3
<1>6. ASSUME NEW i \in 1 .. Len(q) - 1
      PROVE  (a \o b)[i] = IF i < k THEN q[i] ELSE q[i + 1]
  <2>1. CASE i < k
    BY <1>1, <1>2, <1>4, <1>5, <2>1
  <2>2. CASE ~(i < k)
    <3>1. (a \o b)[i] = b[i - (k - 1)]
      BY <1>1, <1>2, <1>4, <1>5, <2>2
    <3>2. i - (k - 1) \in 1 .. Len(q) - k /\ k + (i - (k - 1)) = i + 1
      BY <1>1, <2>2
    <3>3. b[i - (k - 1)] = q[k + (i - (k - 1))]
      BY <1>3, <3>2
    <3> QED  BY <2>2, <3>1, <3>2, <3>3
  <2> QED  BY <2>1, <2>2
<1>7. RemoveAt(q, k) = a \o b
  BY DEF RemoveAt, a, b
<1>8. DOMAIN (a \o b) = 1 .. Len(q) - 1
  BY <1>4, <1>5, LenProperties
<1> QED  BY <1>1, <1>4, <1>6, <1>7, <1>8 DEF IsQueue

LEMMA WithoutTimerProperties ==
    ASSUME NEW q, IsQueue(q), OneHandler(q)
    PROVE  LET r == WithoutTimer(q) IN
           /\ IsQueue(r) /\ HandlersIn(r) = {}
           /\ NoneAdaptive(q) => NoneAdaptive(r)
           /\ Starts(q) => Starts(r)
           /\ NoStop(q) => NoStop(r)
           /\ EndsStarted(q) => EndsStarted(r)
<1> DEFINE r == WithoutTimer(q)
<1>1. CASE HandlersIn(q) = {}
  BY <1>1 DEF WithoutTimer
<1>2. CASE HandlersIn(q) # {}
  <2>1. PICK k \in HandlersIn(q) : r = RemoveAt(q, k)
    BY <1>2 DEF WithoutTimer
  <2>2. q[k] = "timer" /\ k \in DOMAIN q /\ DOMAIN q = 1 .. Len(q)
    BY AppendedQueue DEF HandlersIn
  <2>3. /\ IsQueue(r) /\ Len(q) \in Nat /\ DOMAIN r = 1 .. Len(q) - 1
        /\ \A i \in 1 .. Len(q) - 1 : r[i] = IF i < k THEN q[i] ELSE q[i + 1]
    BY <2>1, <2>2, RemoveAtQueue
  <2> HIDE DEF r
  <2> DEFINE from(i) == IF i < k THEN i ELSE i + 1
             to(j) == IF j < k THEN j ELSE j - 1
  <2>4. \A i \in DOMAIN r : from(i) \in DOMAIN q /\ r[i] = q[from(i)] /\ from(i) # k
    BY <2>2, <2>3
  <2>5. \A j \in DOMAIN q : j # k => to(j) \in DOMAIN r /\ r[to(j)] = q[j] /\ from(to(j)) = j
    BY <2>2, <2>3
  <2>6. \A i, j \in DOMAIN r : i > j => from(i) > from(j)
    BY <2>2, <2>3
  <2>7. HandlersIn(r) = {}
    BY <2>1, <2>2, <2>4 DEF HandlersIn, OneHandler
  <2> HIDE DEF from, to
  <2>8. /\ NoneAdaptive(q) => NoneAdaptive(r)
        /\ NoStop(q) => NoStop(r)
    BY <2>4 DEF NoneAdaptive, NoStop
  <2>9. Starts(q) => Starts(r)
    BY <2>2, <2>5 DEF Starts
  <2>10. ASSUME EndsStarted(q)
         PROVE  EndsStarted(r)
    <3>1. PICK j \in DOMAIN q : q[j] = "start" /\ \A i \in DOMAIN q : i > j => q[i] # "stop"
      BY <2>10 DEF EndsStarted
    <3>2. to(j) \in DOMAIN r /\ r[to(j)] = "start" /\ from(to(j)) = j
      BY <2>2, <2>5, <3>1
    <3>3. ASSUME NEW i \in DOMAIN r, i > to(j)
          PROVE  r[i] # "stop"
      <4>1. from(i) > j
        BY <2>6, <3>2, <3>3
      <4> QED  BY <2>4, <3>1, <4>1
    <3> QED  BY <3>2, <3>3 DEF EndsStarted
  <2> QED  BY <2>3, <2>7, <2>8, <2>9, <2>10 DEF r
<1> QED  BY <1>1, <1>2

-----------------------------------------------------------------------------
(* The steps of a strategy *)

\* While a strategy is not active, a timer that is set or due is behind a start that is to
\* come; a push strategy that is about to set its timer on the caller's thread will be active
\* in the end.
QueueInv(q, active, timer, caller) ==
    /\ IsQueue(q) /\ active \in BOOLEAN
    /\ NoneAdaptive(q) /\ OneHandler(q)
    /\ ~active => (timer # NoTime => Starts(q)) /\ HandlersStarted(q)
    /\ caller = "fallback" => EndsStarted(q) \/ (active /\ NoStop(q))

AsksInv ==
    strategyClass \in RegisteredClass =>
        networkChecks = 0 /\ QueueInv(strategyQueue, isActive, updateTimer, callerAt)

LEMMA AppendedBlock ==
    ASSUME NEW q, NEW active, NEW timer, NEW caller, QueueInv(q, active, timer, caller),
           NEW block, block \notin AdaptiveBlock,
           block = "timer" => timer # NoTime /\ HandlersIn(q) = {},
           block = "stop" => caller = "idle"
    PROVE  QueueInv(Append(q, block), active, timer, caller)
<1> DEFINE r == Append(q, block)
           n == Len(q) + 1
<1>1. /\ IsQueue(r) /\ Len(q) \in Nat /\ DOMAIN q = 1 .. Len(q) /\ DOMAIN r = 1 .. n
      /\ \A i \in DOMAIN q : r[i] = q[i] /\ i < n
      /\ r[n] = block
  BY AppendedQueue DEF QueueInv
<1> HIDE DEF r
<1> USE DEF QueueInv
<1>2. DOMAIN r = DOMAIN q \cup {n} /\ n \in Nat
  BY <1>1
<1> HIDE DEF n
<1>3. NoneAdaptive(r)
  BY <1>1, <1>2 DEF NoneAdaptive
<1>4. OneHandler(r)
  BY <1>1, <1>2 DEF OneHandler, HandlersIn
<1>5. Starts(q) => Starts(r) /\ StartBefore(r, n)
  BY <1>1, <1>2 DEF Starts, StartBefore
<1>6. HandlersStarted(q) /\ (block = "timer" => StartBefore(r, n)) => HandlersStarted(r)
  BY <1>1, <1>2 DEF HandlersStarted, HandlersIn, StartBefore
<1>7. block # "stop" /\ NoStop(q) => NoStop(r)
  BY <1>1, <1>2 DEF NoStop
<1>8. ASSUME block # "stop", EndsStarted(q)
      PROVE  EndsStarted(r)
  <2>1. PICK j \in DOMAIN q : q[j] = "start" /\ \A k \in DOMAIN q : k > j => q[k] # "stop"
    BY <1>8 DEF EndsStarted
  <2>2. j \in DOMAIN r /\ r[j] = "start"
    BY <1>1, <1>2, <2>1
  <2>3. \A k \in DOMAIN r : k > j => r[k] # "stop"
    BY <1>1, <1>2, <1>8, <2>1
  <2> QED  BY <2>2, <2>3 DEF EndsStarted
<1> QED  BY <1>1, <1>3, <1>4, <1>5, <1>6, <1>7, <1>8 DEF r

\* A queue that ends with a start, or has no stop, still does when its first block has run.
LEMMA TailOfStrategyQueue ==
    ASSUME NEW q, IsQueue(q), q # <<>>
    PROVE  /\ IsQueue(Tail(q))
           /\ NoneAdaptive(q) => NoneAdaptive(Tail(q))
           /\ OneHandler(q) => OneHandler(Tail(q))
           /\ Head(q) # "start" =>
                 /\ Starts(q) => Starts(Tail(q))
                 /\ HandlersStarted(q) => HandlersStarted(Tail(q))
                 /\ EndsStarted(q) => EndsStarted(Tail(q))
           /\ Head(q) = "start" /\ EndsStarted(q) => EndsStarted(Tail(q)) \/ NoStop(Tail(q))
           /\ NoStop(q) => NoStop(Tail(q))
           /\ Head(q) = "timer" => ~HandlersStarted(q)
<1> DEFINE r == Tail(q)
<1>1. /\ IsQueue(r) /\ Len(q) \in Nat \ {0}
      /\ DOMAIN r = 1 .. Len(q) - 1 /\ DOMAIN q = 1 .. Len(q)
      /\ \A i \in 1 .. Len(q) - 1 : r[i] = q[i + 1]
      /\ Head(q) = q[1]
  BY TailOfQueue
<1> HIDE DEF r
<1>2. \A i \in DOMAIN r : i \in Nat /\ i + 1 \in DOMAIN q /\ r[i] = q[i + 1]
  BY <1>1
<1>3. \A j \in DOMAIN q : j \in Nat /\ (j # 1 => j - 1 \in DOMAIN r /\ r[j - 1] = q[j])
  <2> SUFFICES ASSUME NEW j \in DOMAIN q, j # 1
               PROVE  j - 1 \in DOMAIN r /\ r[j - 1] = q[j]
    BY <1>1
  <2>1. j - 1 \in 1 .. Len(q) - 1 /\ j - 1 + 1 = j
    BY <1>1
  <2> QED  BY <1>1, <2>1
<1>4. NoneAdaptive(q) => NoneAdaptive(r)
  BY <1>2 DEF NoneAdaptive
<1>5. OneHandler(q) => OneHandler(r)
  BY <1>2 DEF OneHandler, HandlersIn
<1>6. NoStop(q) => NoStop(r)
  BY <1>2 DEF NoStop
<1>7. Head(q) # "start" /\ Starts(q) => Starts(r)
  BY <1>1, <1>3 DEF Starts
<1>8. ASSUME Head(q) # "start", HandlersStarted(q)
      PROVE  HandlersStarted(r)
  <2> SUFFICES ASSUME NEW i \in HandlersIn(r)
               PROVE  StartBefore(r, i)
    BY DEF HandlersStarted
  <2>1. i \in DOMAIN r /\ i \in Nat /\ i + 1 \in HandlersIn(q)
    BY <1>2 DEF HandlersIn
  <2>2. PICK j \in DOMAIN q : j < i + 1 /\ q[j] = "start"
    BY <1>8, <2>1 DEF HandlersStarted, StartBefore
  <2>3. j # 1 /\ j \in Nat
    BY <1>1, <1>3, <1>8, <2>2
  <2>4. j - 1 \in DOMAIN r /\ r[j - 1] = "start" /\ j - 1 < i
    BY <1>3, <2>1, <2>2, <2>3
  <2> QED  BY <2>4 DEF StartBefore
<1>9. ASSUME EndsStarted(q)
      PROVE  EndsStarted(r) \/ (Head(q) = "start" /\ NoStop(r))
  <2>1. PICK j \in DOMAIN q : q[j] = "start" /\ \A k \in DOMAIN q : k > j => q[k] # "stop"
    BY <1>9 DEF EndsStarted
  <2>2. CASE j = 1
    <3>1. \A k \in DOMAIN r : k + 1 > j
      BY <1>2, <2>2
    <3> QED  BY <1>1, <1>2, <2>1, <2>2, <3>1 DEF NoStop
  <2>3. CASE j # 1
    <3>1. \A k \in DOMAIN r : k > j - 1 => k + 1 > j
      BY <1>2, <1>3
    <3>2. j - 1 \in DOMAIN r /\ r[j - 1] = "start"
      BY <1>3, <2>1, <2>3
    <3>3. \A k \in DOMAIN r : k > j - 1 => r[k] # "stop"
      BY <1>2, <2>1, <3>1
    <3>4. EndsStarted(r)
      BY <3>2, <3>3 DEF EndsStarted
    <3> QED  BY <3>4
  <2> QED  BY <2>2, <2>3
<1>10. Head(q) = "timer" => ~HandlersStarted(q)
  <2> SUFFICES ASSUME Head(q) = "timer", HandlersStarted(q)
               PROVE  FALSE
    OBVIOUS
  <2>1. 1 \in HandlersIn(q)
    BY <1>1 DEF HandlersIn
  <2>2. PICK j \in DOMAIN q : j < 1
    BY <2>1 DEF HandlersStarted, StartBefore
  <2> QED  BY <1>1, <2>2
<1> QED  BY <1>1, <1>4, <1>5, <1>6, <1>7, <1>8, <1>9, <1>10 DEF r

\* What is left of the queue when a timer is set or cancelled serves as well.
LEMMA RescheduledQueue ==
    ASSUME NEW q, NEW timer, NEW other, NEW caller, QueueInv(q, TRUE, timer, caller),
           NEW r, r \in {q, WithoutTimer(q)}
    PROVE  QueueInv(r, TRUE, other, caller)
<1>1. CASE r = q
  BY <1>1 DEF QueueInv
<1>2. CASE r = WithoutTimer(q)
  <2>1. IsQueue(q) /\ OneHandler(q)
    BY DEF QueueInv
  <2>2. /\ IsQueue(r) /\ HandlersIn(r) = {}
        /\ NoneAdaptive(q) => NoneAdaptive(r)
        /\ NoStop(q) => NoStop(r)
        /\ EndsStarted(q) => EndsStarted(r)
    BY <1>2, <2>1, WithoutTimerProperties
  <2>3. OneHandler(r)
    BY <2>2 DEF OneHandler
  <2> QED  BY <2>2, <2>3 DEF QueueInv
<1> QED  BY <1>1, <1>2

LEMMA TimersMoveBySchedule ==
    ASSUME NEW queue, strategyClass \in RegisteredClass
    PROVE  /\ CancelScheduledUpdate(queue) =>
                 updateTimer' = NoTime /\ strategyQueue' = WithoutTimer(queue)
           /\ ScheduleFallbackTimer(queue) => strategyQueue' = WithoutTimer(queue)
           /\ ScheduleNextUpdate(queue) =>
                 strategyQueue' \in {queue, WithoutTimer(queue)} /\ networkChecks' = networkChecks
<1>1. \A q : CancelScheduledUpdate(q) =>
              updateTimer' = NoTime /\ strategyQueue' = WithoutTimer(q)
  BY DEF CancelScheduledUpdate
<1>2. \A time, q : Arm(time, q) => strategyQueue' = WithoutTimer(q)
  BY DEF Arm
<1>3. ScheduleFallbackTimer(queue) => strategyQueue' = WithoutTimer(queue)
  BY <1>1, <1>2 DEF ScheduleFallbackTimer
<1>4. ScheduleInterval(queue) => strategyQueue' = WithoutTimer(queue)
  BY <1>1, <1>2 DEF ScheduleInterval
<1>5. ScheduleScheduled(queue) => strategyQueue' = WithoutTimer(queue)
  BY <1>1, <1>2 DEF ScheduleScheduled
<1> QED  BY <1>1, <1>3, <1>4, <1>5, RegisteredIsNotAdaptive DEF ScheduleNextUpdate

\* A step changes what it may and keeps the invariant.
LEMMA StrategyStep ==
    AsksInv /\ [StrategyNext]_strategyVars
    => /\ AsksInv'
       /\ [updateHistory' # updateHistory /\ strategyClass \in RegisteredClass
           => isActive]_strategyVars
<1> SUFFICES ASSUME AsksInv, [StrategyNext]_strategyVars
             PROVE  /\ AsksInv'
                    /\ updateHistory' # updateHistory /\ strategyClass \in RegisteredClass
                       => isActive
  OBVIOUS
<1>1. strategyClass' = strategyClass
  BY DEF StrategyNext, strategyVars, settings, Calls, Runs, StartWithConfiguration,
         PushStartsFallback, StopStrategy, TriggerImmediateUpdate, HandlePushNotification,
         RecordUpdateSuccess, StartBlock, StopBlock, TriggerBlock, TriggerBaseBlock, PushBlock,
         RecordBlock, CheckBlock, TimerBlock, Elapses, TimerDue, CheckDue, NetworkCostChanges
<1> SUFFICES ASSUME strategyClass \in RegisteredClass
             PROVE  /\ networkChecks' = 0
                    /\ QueueInv(strategyQueue', isActive', updateTimer', callerAt')
                    /\ updateHistory' # updateHistory => isActive
  BY <1>1 DEF AsksInv
<1>2. /\ networkChecks = 0 /\ strategyClass # "adaptive"
      /\ QueueInv(strategyQueue, isActive, updateTimer, callerAt)
      /\ IsQueue(strategyQueue) /\ isActive \in BOOLEAN
  BY RegisteredIsNotAdaptive DEF AsksInv, QueueInv
<1> DEFINE left == Tail(strategyQueue)
<1>3. ASSUME NEW block \in StrategyBlock, Runs(block)
      PROVE  /\ IsQueue(left) /\ NoneAdaptive(left) /\ OneHandler(left)
             /\ callerAt' = callerAt /\ block \notin AdaptiveBlock
             /\ block # "start" => QueueInv(left, isActive, updateTimer, callerAt)
             /\ block # "stop" => QueueInv(left, TRUE, updateTimer, callerAt)
             /\ block = "timer" => isActive
             /\ callerAt = "fallback" /\ block = "stop" => EndsStarted(left)
  <2>1. strategyQueue # <<>> /\ Head(strategyQueue) = block /\ callerAt' = callerAt
    BY <1>3 DEF Runs
  <2>2. /\ IsQueue(left)
        /\ NoneAdaptive(strategyQueue) => NoneAdaptive(left)
        /\ OneHandler(strategyQueue) => OneHandler(left)
        /\ block # "start" => /\ Starts(strategyQueue) => Starts(left)
                              /\ HandlersStarted(strategyQueue) => HandlersStarted(left)
                              /\ EndsStarted(strategyQueue) => EndsStarted(left)
        /\ block = "start" /\ EndsStarted(strategyQueue) => EndsStarted(left) \/ NoStop(left)
        /\ NoStop(strategyQueue) => NoStop(left)
        /\ block = "timer" => ~HandlersStarted(strategyQueue)
    BY <1>2, <2>1, TailOfStrategyQueue
  <2>3. 1 \in DOMAIN strategyQueue /\ strategyQueue[1] = block
    BY <1>2, <2>1, TailOfQueue
  <2>4. block \notin AdaptiveBlock /\ (block = "stop" => ~NoStop(strategyQueue))
    BY <1>2, <2>3 DEF QueueInv, NoneAdaptive, NoStop
  <2> HIDE DEF left
  <2> QED  BY <1>2, <2>1, <2>2, <2>4 DEF QueueInv
<1>4. ASSUME NEW q, QueueInv(q, TRUE, updateTimer, callerAt), callerAt' = callerAt,
             isActive' = TRUE, strategyQueue' \in {q, WithoutTimer(q)}
      PROVE  QueueInv(strategyQueue', isActive', updateTimer', callerAt')
  BY <1>4, RescheduledQueue
<1>5. ASSUME NEW block \in {"start", "stop", "trigger", "triggerBase", "push"},
             Calls(block), callerAt' \in {"idle", "fallback"},
             callerAt' = "fallback" => block = "start"
      PROVE  /\ networkChecks' = 0
             /\ QueueInv(strategyQueue', isActive', updateTimer', callerAt')
             /\ updateHistory' = updateHistory
  <2>2. /\ strategyQueue' = Append(strategyQueue, block) /\ callerAt = "idle"
        /\ UNCHANGED <<isActive, updateTimer, networkChecks, updateHistory>>
    BY <1>5 DEF Calls
  <2>3. QueueInv(strategyQueue', isActive', updateTimer', callerAt)
    <3>1. block \notin AdaptiveBlock /\ block # "timer"
      BY DEF AdaptiveBlock
    <3> QED  BY <1>2, <2>2, <3>1, AppendedBlock
  <2>4. block = "start" => EndsStarted(strategyQueue')
    <3> SUFFICES ASSUME block = "start" PROVE EndsStarted(strategyQueue')
      OBVIOUS
    <3>1. /\ Len(strategyQueue) \in Nat
          /\ DOMAIN strategyQueue' = 1 .. Len(strategyQueue) + 1
          /\ strategyQueue'[Len(strategyQueue) + 1] = "start"
      BY <1>2, <2>2, AppendedQueue
    <3>2. \A k \in DOMAIN strategyQueue' : ~(k > Len(strategyQueue) + 1)
      BY <3>1
    <3>3. Len(strategyQueue) + 1 \in DOMAIN strategyQueue'
      BY <3>1
    <3> QED  BY <3>1, <3>2, <3>3 DEF EndsStarted
  <2> QED  BY <1>2, <1>5, <2>2, <2>3, <2>4 DEF QueueInv
<1>6. CASE PushStartsFallback
  <2>1. /\ callerAt = "fallback" /\ callerAt' = "idle"
        /\ strategyQueue' = WithoutTimer(strategyQueue)
        /\ UNCHANGED <<isActive, networkChecks, updateHistory>>
    BY <1>6, TimersMoveBySchedule DEF PushStartsFallback
  <2>2. OneHandler(strategyQueue)
    BY <1>2 DEF QueueInv
  <2>3. /\ IsQueue(strategyQueue') /\ HandlersIn(strategyQueue') = {}
        /\ NoneAdaptive(strategyQueue) => NoneAdaptive(strategyQueue')
        /\ Starts(strategyQueue) => Starts(strategyQueue')
    BY <1>2, <2>1, <2>2, WithoutTimerProperties
  <2>4. OneHandler(strategyQueue') /\ HandlersStarted(strategyQueue')
    BY <2>3 DEF OneHandler, HandlersStarted
  <2>5. EndsStarted(strategyQueue) => Starts(strategyQueue)
    BY DEF EndsStarted, Starts
  <2> QED  BY <1>2, <2>1, <2>3, <2>4, <2>5 DEF QueueInv
<1>7. CASE StartBlock
  <2>1. /\ Runs("start") /\ isActive' = TRUE /\ UNCHANGED updateHistory
        /\ \/ strategyQueue' = left /\ networkChecks' = networkChecks
           \/ ScheduleNextUpdate(left)
    BY <1>7 DEF StartBlock
  <2>2. strategyQueue' \in {left, WithoutTimer(left)} /\ networkChecks' = networkChecks
    BY <2>1, TimersMoveBySchedule
  <2>3. QueueInv(left, TRUE, updateTimer, callerAt) /\ callerAt' = callerAt
    BY <1>3, <2>1 DEF StrategyBlock
  <2> HIDE DEF left
  <2> QED  BY <1>2, <1>4, <2>1, <2>2, <2>3
<1>8. CASE StopBlock
  <2>1. Runs("stop") /\ isActive' = FALSE /\ UNCHANGED <<networkChecks, updateHistory>>
    BY <1>8 DEF StopBlock
  <2>2. /\ IsQueue(left) /\ NoneAdaptive(left) /\ OneHandler(left)
        /\ callerAt' = callerAt
        /\ QueueInv(left, isActive, updateTimer, callerAt)
        /\ callerAt = "fallback" => EndsStarted(left)
    BY <1>3, <2>1 DEF StrategyBlock
  <2>3. CASE isActive
    <3>1. updateTimer' = NoTime /\ strategyQueue' = WithoutTimer(left)
      BY <1>8, <2>3, TimersMoveBySchedule DEF StopBlock
    <3> HIDE DEF left
    <3>2. /\ IsQueue(strategyQueue') /\ HandlersIn(strategyQueue') = {}
          /\ NoneAdaptive(strategyQueue')
          /\ EndsStarted(left) => EndsStarted(strategyQueue')
      BY <2>2, <3>1, WithoutTimerProperties
    <3>3. OneHandler(strategyQueue') /\ HandlersStarted(strategyQueue')
      BY <3>2 DEF OneHandler, HandlersStarted
    <3> QED  BY <1>2, <2>1, <2>2, <3>1, <3>2, <3>3 DEF QueueInv
  <2>4. CASE ~isActive
    <3>1. strategyQueue' = left /\ UNCHANGED updateTimer
      BY <1>8, <2>4 DEF StopBlock
    <3> QED  BY <1>2, <2>1, <2>2, <2>4, <3>1 DEF QueueInv
  <2> QED  BY <2>3, <2>4
<1>9. CASE TriggerBlock
  <2>1. /\ Runs("trigger") /\ UNCHANGED <<isActive, updateTimer, networkChecks, updateHistory>>
        /\ strategyQueue' \in {left, Append(left, "triggerBase")}
    BY <1>9 DEF TriggerBlock
  <2>2. QueueInv(left, isActive, updateTimer, callerAt) /\ callerAt' = callerAt
    BY <1>3, <2>1 DEF StrategyBlock
  <2> HIDE DEF left
  <2>3. QueueInv(Append(left, "triggerBase"), isActive, updateTimer, callerAt)
    <3>1. "triggerBase" \notin AdaptiveBlock
      BY DEF AdaptiveBlock
    <3> QED  BY <2>2, <3>1, AppendedBlock
  <2> QED  BY <1>2, <2>1, <2>2, <2>3
<1>10. CASE TriggerBaseBlock
  <2>1. /\ Runs("triggerBase") /\ UNCHANGED <<isActive, updateTimer, networkChecks>>
        /\ strategyQueue' = left /\ (~isActive => UNCHANGED updateHistory)
    BY <1>10 DEF TriggerBaseBlock
  <2>2. QueueInv(left, isActive, updateTimer, callerAt) /\ callerAt' = callerAt
    BY <1>3, <2>1 DEF StrategyBlock
  <2> QED  BY <1>2, <2>1, <2>2
<1>11. CASE PushBlock
  <2>1. Runs("push") /\ UNCHANGED <<isActive, networkChecks>>
    BY <1>11 DEF PushBlock
  <2>2. /\ QueueInv(left, isActive, updateTimer, callerAt)
        /\ QueueInv(left, TRUE, updateTimer, callerAt)
        /\ callerAt' = callerAt
    BY <1>3, <2>1 DEF StrategyBlock
  <2>3. CASE isActive
    <3>1. strategyQueue' = WithoutTimer(left)
      BY <1>11, <2>3, TimersMoveBySchedule DEF PushBlock
    <3> HIDE DEF left
    <3>2. isActive' = TRUE
      BY <1>2, <2>1, <2>3
    <3> QED  BY <1>2, <1>4, <2>1, <2>2, <2>3, <3>1, <3>2
  <2>4. CASE ~isActive
    <3>1. strategyQueue' = left /\ UNCHANGED <<updateTimer, updateHistory>>
      BY <1>11, <2>4 DEF PushBlock
    <3> QED  BY <1>2, <2>1, <2>2, <3>1
  <2> QED  BY <2>3, <2>4
<1>12. CASE TimerBlock
  <2>1. Runs("timer") /\ UNCHANGED isActive /\ ScheduleNextUpdate(left)
    BY <1>2, <1>12 DEF TimerBlock
  <2>2. strategyQueue' \in {left, WithoutTimer(left)} /\ networkChecks' = networkChecks
    BY <2>1, TimersMoveBySchedule
  <2>3. QueueInv(left, TRUE, updateTimer, callerAt) /\ callerAt' = callerAt /\ isActive
    BY <1>3, <2>1 DEF StrategyBlock
  <2>4. isActive' = TRUE
    BY <1>2, <2>1, <2>3
  <2> HIDE DEF left
  <2> QED  BY <1>2, <1>4, <2>2, <2>3, <2>4
<1>13. CASE RecordBlock \/ CheckBlock
  <2>1. PICK block \in AdaptiveBlock : Runs(block)
    BY <1>13 DEF RecordBlock, CheckBlock, AdaptiveBlock
  <2>2. block \in StrategyBlock
    BY DEF AdaptiveBlock, StrategyBlock
  <2> QED  BY <1>3, <2>1, <2>2
<1>14. CASE TimerDue
  <2>1. /\ updateTimer # NoTime /\ strategyQueue' = Append(strategyQueue, "timer")
        /\ UNCHANGED <<isActive, updateTimer, callerAt, networkChecks, updateHistory>>
    BY <1>14 DEF TimerDue
  <2>2. HandlersIn(strategyQueue) = {}
    BY <1>14 DEF TimerDue, HandlersIn
  <2>3. "timer" \notin AdaptiveBlock
    BY DEF AdaptiveBlock
  <2>4. QueueInv(Append(strategyQueue, "timer"), isActive, updateTimer, callerAt)
    BY <1>2, <2>1, <2>2, <2>3, AppendedBlock
  <2> QED  BY <1>2, <2>1, <2>4
<1>15. CASE CheckDue
  BY <1>2, <1>15 DEF CheckDue
<1>16. CASE Elapses \/ NetworkCostChanges \/ UNCHANGED strategyVars
  <2>1. UNCHANGED <<strategyQueue, isActive, updateTimer, callerAt, networkChecks, updateHistory>>
    BY <1>16 DEF Elapses, NetworkCostChanges, strategyVars
  <2> QED  BY <1>2, <2>1
<1>17. ASSUME \/ StartWithConfiguration \/ StopStrategy \/ TriggerImmediateUpdate
              \/ HandlePushNotification \/ RecordUpdateSuccess
       PROVE  \E block \in {"start", "stop", "trigger", "triggerBase", "push"} :
                 /\ Calls(block)
                 /\ callerAt' \in {"idle", "fallback"}
                 /\ callerAt' = "fallback" => block = "start"
  <2>1. ~RecordUpdateSuccess
    BY <1>2 DEF RecordUpdateSuccess
  <2>2. CASE StartWithConfiguration
    BY <2>2 DEF StartWithConfiguration
  <2>3. \A block : Calls(block) => callerAt = "idle"
    BY DEF Calls
  <2>4. CASE StopStrategy
    BY <2>3, <2>4 DEF StopStrategy
  <2>5. CASE TriggerImmediateUpdate
    BY <2>3, <2>5 DEF TriggerImmediateUpdate
  <2>6. CASE HandlePushNotification
    BY <2>3, <2>6 DEF HandlePushNotification
  <2> QED  BY <1>17, <2>1, <2>2, <2>4, <2>5, <2>6
<1> HIDE DEF left
<1> QED  BY <1>5, <1>6, <1>7, <1>8, <1>9, <1>10, <1>11, <1>12, <1>13, <1>14, <1>15, <1>16,
            <1>17 DEF StrategyNext

\* However calls, blocks and a push strategy's caller interleave, a strategy that can be
\* configured asks for an update only while it is active (UpdateStrategy.m:60-87, 481-530).
THEOREM AsksOnlyWhenActiveHolds == StrategySpec => AsksOnlyWhenActive
<1>1. StrategyInit => AsksInv
  <2> SUFFICES ASSUME StrategyInit PROVE QueueInv(<<>>, FALSE, NoTime, "idle")
    BY DEF StrategyInit, AsksInv
  <2>1. IsQueue(<<>>) /\ DOMAIN <<>> = {}
    BY EmptySeq DEF IsQueue
  <2> QED  BY <2>1 DEF QueueInv, NoneAdaptive, OneHandler, HandlersIn, HandlersStarted
<1> QED  BY <1>1, StrategyStep, PTL DEF StrategySpec, AsksOnlyWhenActive

-----------------------------------------------------------------------------
(* UpdateStrategies: times *)

LEMMA DayOfTime ==
    ASSUME NEW D \in Nat \ {0}, NEW q \in Nat, NEW m \in 0 .. D - 1
    PROVE  (D * q + m) \div D = q
<1>1. PICK e : e = (D * q + m) \div D
  OBVIOUS
<1>2. e \in Int /\ D * e <= D * q + m /\ D * q + m < D * e + D
  BY <1>1, SMTT(20)
<1>3. ~(e < q)
  <2> SUFFICES ASSUME e + 1 <= q PROVE FALSE
    BY <1>2
  <2>1. D * (e + 1) <= D * q
    BY <1>2, SMTT(20)
  <2> QED  BY <1>2, <2>1
<1>4. ~(e > q)
  <2> SUFFICES ASSUME q + 1 <= e PROVE FALSE
    BY <1>2
  <2>1. D * (q + 1) <= D * e
    BY <1>2, SMTT(20)
  <2> QED  BY <1>2, <2>1
<1> QED  BY <1>1, <1>2, <1>3, <1>4

LEMMA CandidatesAreTimes ==
    ASSUME NEW minute, NEW days, NEW time \in Nat
    PROVE  Candidates(minute, days, time) \in SUBSET Nat
<1> DEFINE q == time \div DayLength
           today == DayLength * q + minute
           later == {today + DayLength * k : k \in 1 .. 8}
           first == CHOOSE t \in later :
                       /\ OnAllowedDay(t, days)
                       /\ \A u \in later : OnAllowedDay(u, days) => t <= u
<1>1. CASE minute \notin Minutes \/ ~OnAllowedDay(today, days)
  BY <1>1 DEF Candidates
<1>2. CASE minute \in Minutes /\ OnAllowedDay(today, days)
  <2>1. DayLength \in Nat \ {0} /\ minute \in 0 .. DayLength - 1 /\ q \in Nat
    BY <1>2, StrategyAssumption DEF Minutes
  <2> HIDE DEF q
  <2>2. today \in Nat
    BY <2>1
  <2>3. \A k \in 1 .. 8 : DayLength * k \in Nat
    BY <2>1
  <2>4. later \in SUBSET Nat
    BY <2>2, <2>3
  <2>5. OnAllowedDay(today + DayLength * 7, days)
    <3>1. today \div DayLength = q
      BY <2>1, DayOfTime
    <3>2. today + DayLength * 7 = DayLength * (q + 7) + minute
      BY <2>1
    <3>3. (DayLength * (q + 7) + minute) \div DayLength = q + 7
      BY <2>1, DayOfTime
    <3>4. (q + 7) % 7 = q % 7
      BY <2>1
    <3> HIDE DEF today
    <3> QED  BY <1>2, <3>1, <3>2, <3>3, <3>4 DEF OnAllowedDay
  <2> DEFINE allowed == {t \in later : OnAllowedDay(t, days)}
  <2>6. allowed # {} /\ allowed \in SUBSET Nat
    BY <2>4, <2>5
  <2>7. \E t \in allowed : \A u \in allowed : t <= u
    BY <2>6, LeastOf
  <2>8. first \in later
    BY <2>7
  <2>9. Candidates(minute, days, time) \in {{today}, {first}}
    BY <1>2 DEF Candidates, q
  <2> HIDE DEF first, today, later
  <2> QED  BY <2>2, <2>4, <2>8, <2>9
<1> QED  BY <1>1, <1>2

LEMMA ScheduledTimeIsTime ==
    ASSUME NEW time \in Nat
    PROVE  CalculateNextScheduledTime(schedule, time) \in Int \cup {NoTime}
<1> DEFINE all == UNION {Candidates(m, schedule.days, time) : m \in schedule.times}
<1>1. all \in SUBSET Nat
  BY CandidatesAreTimes
<1>2. CASE all = {}
  BY <1>2 DEF CalculateNextScheduledTime
<1>3. CASE all # {}
  <2>1. CalculateNextScheduledTime(schedule, time) = Min(all)
    BY <1>3 DEF CalculateNextScheduledTime
  <2> HIDE DEF all
  <2>2. \E x \in all : \A y \in all : x <= y
    BY <1>1, <1>3, LeastOf
  <2>3. Min(all) \in all
    BY <2>2 DEF Min
  <2>4. Min(all) \in Int
    <3>1. \A x \in all : x \in Nat
      BY <1>1
    <3>2. Min(all) \in Nat
      BY <2>3, <3>1
    <3> QED  BY <3>2
  <2> QED  BY <2>1, <2>4
<1> QED  BY <1>2, <1>3

\* The greatest of any finite set of integers.
LEMMA GreatestOfFinite ==
    ASSUME NEW S \in SUBSET Int, IsFiniteSet(S), S # {}
    PROVE  Max(S) \in S /\ \A x \in S : x <= Max(S)
<1>n. PICK n \in Nat : ExistsSurjection(1 .. n, S)
  BY FS_NatSurjection
<1>1. PICK f \in [1 .. n -> S] : \A x \in S : \E i \in 1 .. n : f[i] = x
  BY <1>n DEF ExistsSurjection, Surjection
<1> DEFINE P == {k \in 0 .. n : k = 0 \/ \E i \in 1 .. k : \A j \in 1 .. k : f[j] <= f[i]}
<1>2. 0 \in P
  OBVIOUS
<1>3. ASSUME NEW k \in 0 .. n - 1, k \in P
      PROVE  k + 1 \in P
  <2>0. /\ k + 1 \in 1 .. n /\ k + 1 \in 0 .. n /\ k + 1 \in 1 .. k + 1 /\ k \in Nat
        /\ \A j \in 1 .. k + 1 : j \in 1 .. n /\ (j \in 1 .. k \/ j = k + 1)
    OBVIOUS
  <2>1. /\ k + 1 \in 1 .. n /\ k + 1 \in 0 .. n /\ k + 1 \in 1 .. k + 1 /\ k \in Nat
        /\ \A j \in 1 .. k + 1 : j \in 1 .. n /\ f[j] \in Int /\ (j \in 1 .. k \/ j = k + 1)
    BY <2>0
  <2>2. CASE k = 0
    <3>1. \A j \in 1 .. k + 1 : f[j] <= f[k + 1]
      BY <2>1, <2>2
    <3> QED  BY <2>1, <3>1
  <2>3. CASE k # 0
    <3>1. PICK i \in 1 .. k : \A j \in 1 .. k : f[j] <= f[i]
      BY <1>3, <2>3
    <3>2. i \in 1 .. k + 1 /\ f[i] \in Int /\ f[k + 1] \in Int
      BY <2>1
    <3>3. CASE f[k + 1] <= f[i]
      <4>1. \A j \in 1 .. k + 1 : f[j] <= f[i]
        BY <2>1, <3>1, <3>3
      <4> QED  BY <2>1, <3>2, <4>1
    <3>4. CASE ~(f[k + 1] <= f[i])
      <4>1. \A j \in 1 .. k + 1 : f[j] <= f[k + 1]
        BY <2>1, <3>1, <3>2, <3>4
      <4> QED  BY <2>1, <4>1
    <3> QED  BY <3>3, <3>4
  <2> QED  BY <2>2, <2>3
<1>4. n \in P
  <2>1. n \in 0 .. n
    OBVIOUS
  <2> HIDE DEF P
  <2> QED  BY <1>2, <1>3, <2>1, UpTo
<1>5. n # 0
  <2>1. PICK x \in S : TRUE
    OBVIOUS
  <2>2. PICK i \in 1 .. n : f[i] = x
    BY <1>1
  <2> QED  BY <2>2
<1>6. PICK i \in 1 .. n : \A j \in 1 .. n : f[j] <= f[i]
  BY <1>4, <1>5
<1>7. f[i] \in S /\ \A x \in S : x <= f[i]
  BY <1>1, <1>6
<1> QED  BY <1>7 DEF Max


-----------------------------------------------------------------------------
(* UpdateStrategies: types *)

\* The blocks that calls leave on the queue of each class.
BlocksOf(class) ==
    {block \in StrategyBlock :
        /\ block \in AdaptiveBlock => class = "adaptive"
        /\ block = "push" => class = "push"
        /\ block = "trigger" => class = "manual"}

ClassTypes ==
    \/ IntervalUpdateStrategy \/ ScheduledUpdateStrategy \/ ManualUpdateStrategy
    \/ PushUpdateStrategy \/ AdaptiveUpdateStrategy

StrategyInv ==
    StrategyTypeOK /\ strategyQueue \in Seq(BlocksOf(strategyClass)) /\ Intervals # {}

\* What a step may change of what a class has of its own.
LEMMA ClassKept ==
    ASSUME ClassTypes, UNCHANGED settings,
           \/ UNCHANGED updateInterval
           \/ strategyClass = "adaptive" /\ updateInterval' \in 1 .. Max(Intervals),
           \/ UNCHANGED lastManualTrigger
           \/ strategyClass = "manual" /\ lastManualTrigger' \in Int \cup {NoTime},
           UNCHANGED networkChecks \/ (strategyClass = "adaptive" /\ networkChecks' \in Nat),
           UNCHANGED isExpensive \/ (strategyClass = "adaptive" /\ isExpensive' \in BOOLEAN),
           strategyClass = "manual" => updateTimer' = NoTime
    PROVE  ClassTypes'
<1> USE DEF settings, WithoutSchedule, WithoutTriggers, WithoutChecks
<1>1. CASE IntervalUpdateStrategy
  BY <1>1 DEF IntervalUpdateStrategy, ClassTypes
<1>2. CASE ScheduledUpdateStrategy
  BY <1>2 DEF ScheduledUpdateStrategy, ClassTypes
<1>3. CASE ManualUpdateStrategy
  BY <1>3 DEF ManualUpdateStrategy, ClassTypes
<1>4. CASE PushUpdateStrategy
  BY <1>4 DEF PushUpdateStrategy, ClassTypes
<1>5. CASE AdaptiveUpdateStrategy
  BY <1>5 DEF AdaptiveUpdateStrategy, ClassTypes
<1> QED  BY <1>1, <1>2, <1>3, <1>4, <1>5 DEF ClassTypes

LEMMA ClassFacts ==
    ASSUME ClassTypes
    PROVE  /\ strategyClass \in {"interval", "push", "adaptive"} => updateInterval \in Int
           /\ strategyClass = "adaptive" =>
                 /\ updateInterval \in 1 .. Max(Intervals)
                 /\ networkChecks \in Nat /\ isExpensive \in BOOLEAN
           /\ strategyClass # "adaptive" => networkChecks = 0
           /\ strategyClass = "manual" => updateTimer = NoTime
<1> USE DEF WithoutSchedule, WithoutTriggers, WithoutChecks
<1>1. CASE IntervalUpdateStrategy
  BY <1>1, StrategyAssumption DEF IntervalUpdateStrategy
<1>2. CASE ScheduledUpdateStrategy
  BY <1>2 DEF ScheduledUpdateStrategy
<1>3. CASE ManualUpdateStrategy
  BY <1>3 DEF ManualUpdateStrategy
<1>4. CASE PushUpdateStrategy
  BY <1>4, StrategyAssumption DEF PushUpdateStrategy
<1>5. CASE AdaptiveUpdateStrategy
  BY <1>5 DEF AdaptiveUpdateStrategy
<1> QED  BY <1>1, <1>2, <1>3, <1>4, <1>5 DEF ClassTypes

LEMMA WithoutTimerIsQueue ==
    ASSUME NEW B, NEW q \in Seq(B)
    PROVE  WithoutTimer(q) \in Seq(B)
<1>1. CASE HandlersIn(q) = {}
  BY <1>1 DEF WithoutTimer
<1>2. CASE HandlersIn(q) # {}
  <2>1. PICK i \in DOMAIN q : WithoutTimer(q) = RemoveAt(q, i)
    BY <1>2 DEF WithoutTimer, HandlersIn
  <2>2. /\ Len(q) \in Nat /\ i \in 1 .. Len(q)
        /\ \A j \in 1 .. Len(q) : q[j] \in B
    BY LenProperties, ElementOfSeq
  <2>3. SubSeq(q, 1, i - 1) \in Seq(B) /\ SubSeq(q, i + 1, Len(q)) \in Seq(B)
    <3>1. /\ \A j \in 1 .. i - 1 : q[j] \in B
          /\ \A j \in i + 1 .. Len(q) : q[j] \in B
          /\ 1 \in Int /\ i - 1 \in Int /\ i + 1 \in Int /\ Len(q) \in Int
      BY <2>2
    <3>2. SubSeq(q, 1, i - 1) \in Seq(B)
      BY <3>1, SubSeqProperties
    <3>3. SubSeq(q, i + 1, Len(q)) \in Seq(B)
      BY <3>1, SubSeqProperties
    <3> QED  BY <3>2, <3>3
  <2> QED  BY <2>1, <2>3, ConcatProperties DEF RemoveAt
<1> QED  BY <1>1, <1>2

\* Timers are set to times.
LEMMA SettingTypes ==
    ASSUME NEW B, NEW queue \in Seq(B), NEW time \in Int
    PROVE  /\ CancelScheduledUpdate(queue) =>
                 updateTimer' \in Int \cup {NoTime} /\ strategyQueue' \in Seq(B)
                 /\ updateTimer' = NoTime
           /\ Arm(time, queue) =>
                 updateTimer' \in Int \cup {NoTime} /\ strategyQueue' \in Seq(B)
BY WithoutTimerIsQueue DEF CancelScheduledUpdate, Arm

LEMMA FallbackTypes ==
    ASSUME NEW B, NEW queue \in Seq(B), now \in Nat, updateInterval' \in Int,
           ScheduleFallbackTimer(queue)
    PROVE  updateTimer' \in Int \cup {NoTime} /\ strategyQueue' \in Seq(B)
<1>1. now + updateInterval' \in Int
  OBVIOUS
<1> QED  BY <1>1, SettingTypes DEF ScheduleFallbackTimer

LEMMA ScheduleTypes ==
    ASSUME NEW B, NEW queue \in Seq(B), now \in Nat, ClassTypes, ScheduleNextUpdate(queue),
           strategyClass \in {"interval", "push", "adaptive"} => updateInterval' \in Int,
           updateTimer \in Int \cup {NoTime}
    PROVE  /\ updateTimer' \in Int \cup {NoTime} /\ strategyQueue' \in Seq(B)
           /\ strategyClass = "manual" => updateTimer' = NoTime
           /\ UNCHANGED networkChecks \/ (strategyClass = "adaptive" /\ networkChecks' \in Nat)
<1>1. CASE strategyClass = "interval"
  <2>1. ScheduleInterval(queue) /\ UNCHANGED networkChecks /\ updateInterval' \in Int
    BY <1>1 DEF ScheduleNextUpdate
  <2>2. CASE updateInterval' <= 0
    BY <1>1, <2>1, <2>2, SettingTypes DEF ScheduleInterval
  <2>3. CASE ~(updateInterval' <= 0)
    <3>1. PICK j \in -Jitter .. Jitter :
              Arm(now + IF updateInterval' + j < 0 THEN 0 ELSE updateInterval' + j, queue)
      BY <2>1, <2>3 DEF ScheduleInterval
    <3>2. (now + IF updateInterval' + j < 0 THEN 0 ELSE updateInterval' + j) \in Int
      <4>1. j \in Int
        BY StrategyAssumption
      <4>2. PICK k : k = updateInterval' + j /\ k \in Int
        BY <2>1, <4>1
      <4>3. PICK m : m = now + IF k < 0 THEN 0 ELSE k
        OBVIOUS
      <4>4. m \in Int
        <5>1. CASE k < 0
          BY <4>3, <5>1
        <5>2. CASE ~(k < 0)
          BY <4>2, <4>3, <5>2
        <5> QED  BY <5>1, <5>2
      <4> QED  BY <4>2, <4>3, <4>4
    <3> QED  BY <1>1, <2>1, <3>1, <3>2, SettingTypes
  <2> QED  BY <2>2, <2>3
<1>2. CASE strategyClass = "scheduled"
  <2>1. ScheduleScheduled(queue) /\ UNCHANGED networkChecks
    BY <1>2 DEF ScheduleNextUpdate
  <2>2. PICK next : next = CalculateNextScheduledTime(schedule, now)
    OBVIOUS
  <2>3. next \in Int \cup {NoTime}
    BY <2>2, ScheduledTimeIsTime
  <2>4. CancelScheduledUpdate(queue) \/ (next # NoTime /\ Arm(next, queue))
    BY <2>1, <2>2 DEF ScheduleScheduled
  <2> QED  BY <1>2, <2>1, <2>3, <2>4, SettingTypes
<1>3. CASE strategyClass = "manual"
  BY <1>3, ClassFacts DEF ScheduleNextUpdate
<1>4. CASE strategyClass = "push"
  <2>1. ScheduleFallbackTimer(queue) /\ UNCHANGED networkChecks /\ updateInterval' \in Int
    BY <1>4 DEF ScheduleNextUpdate
  <2> QED  BY <1>4, <2>1, FallbackTypes
<1>5. CASE strategyClass = "adaptive"
  <2>1. ScheduleAdaptive(queue) /\ updateInterval' \in Int /\ networkChecks \in Nat
    BY <1>5, ClassFacts DEF ScheduleNextUpdate
  <2>2. now + updateInterval' \in Int /\ networkChecks + 1 \in Nat
    BY <2>1
  <2>3. CASE isExpensive
    BY <1>5, <2>1, <2>2, <2>3, SettingTypes DEF ScheduleAdaptive
  <2>4. CASE ~isExpensive
    BY <1>5, <2>1, <2>2, <2>4, SettingTypes DEF ScheduleAdaptive
  <2> QED  BY <2>3, <2>4
<1> QED  BY <1>1, <1>2, <1>3, <1>4, <1>5 DEF ScheduleNextUpdate

\* The history keeps to its limit.
LEMMA HistoryTypes ==
    ASSUME updateHistory \in Seq(Int), now \in Int, NotifyDelegateShouldUpdate
    PROVE  updateHistory' \in Seq(Int) /\ Len(updateHistory') <= HistoryLimit
<1>1. PICK all : all = Append(updateHistory, now)
  OBVIOUS
<1>2. PICK n : n = Len(all)
  OBVIOUS
<1>3. /\ all \in Seq(Int) /\ n \in Nat \ {0} /\ \A i \in 1 .. n : all[i] \in Int
      /\ HistoryLimit \in Nat \ {0}
  BY <1>1, <1>2, LenProperties, ElementOfSeq, StrategyAssumption
<1>4. PICK m : m = Max({1, n - HistoryLimit + 1})
  OBVIOUS
<1>5. m \in Int /\ 1 <= m /\ n - HistoryLimit + 1 <= m /\ m <= n
  <2>1. PICK x : x = n - HistoryLimit + 1 /\ x \in Int /\ x <= n
    BY <1>3
  <2>2. \E y \in {1, x} : \A z \in {1, x} : y >= z
    BY <2>1
  <2>3. m \in {1, x} /\ \A z \in {1, x} : m >= z
    BY <1>4, <2>1, <2>2 DEF Max
  <2> QED  BY <1>3, <2>1, <2>3
<1>6. updateHistory' = SubSeq(all, m, n)
  BY <1>1, <1>2, <1>4 DEF NotifyDelegateShouldUpdate
<1>7. \A i \in m .. n : all[i] \in Int
  BY <1>3, <1>5
<1>8. SubSeq(all, m, n) \in Seq(Int) /\ Len(SubSeq(all, m, n)) = IF m <= n THEN n - m + 1 ELSE 0
  BY <1>3, <1>5, <1>7, SubSeqProperties
<1> QED  BY <1>3, <1>5, <1>6, <1>8


LEMMA StrategyTypeStep == StrategyInv /\ [StrategyNext]_strategyVars => StrategyInv'
<1> SUFFICES ASSUME StrategyInv, [StrategyNext]_strategyVars
             PROVE  StrategyInv'
  OBVIOUS
<1> USE DEF settings, environment
<1> DEFINE B == BlocksOf(strategyClass)
           left == Tail(strategyQueue)
\* What is left to show of each step.
<1> DEFINE Timed == /\ updateTimer' \in Int \cup {NoTime} /\ strategyQueue' \in Seq(B)
                    /\ strategyClass = "manual" => updateTimer' = NoTime
           Checked == \/ UNCHANGED networkChecks
                      \/ strategyClass = "adaptive" /\ networkChecks' \in Nat
           Updated == updateHistory' \in Seq(Int) /\ Len(updateHistory') <= HistoryLimit
           Triggered == \/ UNCHANGED lastManualTrigger
                        \/ strategyClass = "manual" /\ lastManualTrigger' \in Int \cup {NoTime}
           Paced == \/ UNCHANGED updateInterval
                    \/ strategyClass = "adaptive" /\ updateInterval' \in 1 .. Max(Intervals)
           Charged == \/ UNCHANGED isExpensive
                      \/ strategyClass = "adaptive" /\ isExpensive' \in BOOLEAN
           Counted == now' \in 0 .. MaxTime /\ strategyCalls' \in 0 .. MaxCalls
           Falling == callerAt' = "fallback" => strategyClass = "push"
<1>1. /\ ClassTypes /\ strategyQueue \in Seq(B) /\ strategyQueue \in Seq(StrategyBlock)
      /\ updateTimer \in Int \cup {NoTime}
      /\ now \in 0 .. MaxTime /\ now \in Nat /\ now \in Int /\ strategyCalls \in 0 .. MaxCalls
      /\ updateHistory \in Seq(Int) /\ Len(updateHistory) <= HistoryLimit
      /\ isActive \in BOOLEAN
      /\ callerAt = "fallback" => strategyClass = "push"
  BY StrategyAssumption DEF StrategyInv, StrategyTypeOK, UpdateStrategyBase, ClassTypes
<1>2. /\ strategyClass \in {"interval", "push", "adaptive"} => updateInterval \in Int
      /\ strategyClass = "adaptive" =>
            /\ updateInterval \in 1 .. Max(Intervals)
            /\ networkChecks \in Nat /\ isExpensive \in BOOLEAN
      /\ strategyClass # "adaptive" => networkChecks = 0
      /\ strategyClass = "manual" => updateTimer = NoTime
  BY <1>1, ClassFacts
<1>3. B \subseteq StrategyBlock
  BY DEF BlocksOf
<1>4. ASSUME UNCHANGED <<strategyClass, schedule>>, Timed, Checked, Updated, Triggered, Paced,
             Charged, Counted, Falling, isActive' \in BOOLEAN
      PROVE  StrategyInv'
  <2>1. ClassTypes'
    BY <1>1, <1>4, ClassKept
  <2>2. strategyQueue' \in Seq(BlocksOf(strategyClass'))
    BY <1>4
  <2>3. strategyQueue' \in Seq(StrategyBlock) /\ Intervals # {}
    BY <1>3, <1>4, SeqMonotonic DEF StrategyInv
  <2> QED
    BY <1>4, <2>1, <2>2, <2>3 DEF StrategyInv, StrategyTypeOK, UpdateStrategyBase, ClassTypes
<1>5. ASSUME NEW block, Runs(block)
      PROVE  /\ block \in B /\ left \in Seq(B)
             /\ UNCHANGED <<strategyClass, schedule, isExpensive, now, strategyCalls, callerAt>>
             /\ Charged /\ Counted /\ Falling
  <2>1. /\ strategyQueue # <<>> /\ Head(strategyQueue) = block
        /\ UNCHANGED <<strategyClass, schedule, isExpensive, now, strategyCalls, callerAt>>
    BY <1>5 DEF Runs
  <2>2. Head(strategyQueue) \in B /\ left \in Seq(B)
    BY <1>1, <2>1, HeadTailProperties
  <2> QED  BY <1>1, <2>1, <2>2
<1>6. ASSUME NEW queue \in Seq(B), ScheduleNextUpdate(queue), Paced
      PROVE  Timed /\ Checked
  <2>1. strategyClass \in {"interval", "push", "adaptive"} => updateInterval' \in Int
    BY <1>2, <1>6
  <2> QED  BY <1>1, <1>6, <2>1, ScheduleTypes
<1>7. /\ strategyQueue' = left /\ UNCHANGED updateTimer /\ left \in Seq(B) => Timed
      /\ NotifyDelegateShouldUpdate => Updated
      /\ UNCHANGED updateHistory => Updated
      /\ UNCHANGED isActive => isActive' \in BOOLEAN
  BY <1>1, <1>2, HistoryTypes
<1>8. ASSUME NEW block \in B, Calls(block), UNCHANGED updateInterval, Falling
      PROVE  StrategyInv'
  <2>1. /\ strategyQueue' = Append(strategyQueue, block) /\ strategyCalls < MaxCalls
        /\ strategyCalls' = strategyCalls + 1
        /\ UNCHANGED <<strategyClass, schedule, isActive, updateTimer, lastManualTrigger,
                       networkChecks, isExpensive, now, updateHistory>>
    BY <1>8 DEF Calls
  <2>2. strategyQueue' \in Seq(B)
    BY <1>1, <2>1, AppendProperties
  <2>3. Timed /\ Checked /\ Updated /\ Triggered /\ Paced /\ Charged /\ Falling
    BY <1>1, <1>2, <1>8, <2>1, <2>2
  <2>4. Counted
    BY <1>1, <2>1, StrategyAssumption
  <2>5. isActive' \in BOOLEAN
    BY <1>7, <2>1
  <2> QED  BY <1>4, <2>1, <2>3, <2>4, <2>5
<1>9. CASE StartWithConfiguration
  <2>1. "start" \in B
    BY DEF BlocksOf, StrategyBlock, AdaptiveBlock
  <2>2. Falling
    BY <1>9 DEF StartWithConfiguration
  <2> QED  BY <1>8, <1>9, <2>1, <2>2 DEF StartWithConfiguration
<1>10. CASE StopStrategy
  <2>1. "stop" \in B
    BY DEF BlocksOf, StrategyBlock, AdaptiveBlock
  <2> QED  BY <1>1, <1>8, <1>10, <2>1 DEF StopStrategy
<1>11. CASE TriggerImmediateUpdate
  <2>1. (IF strategyClass = "manual" THEN "trigger" ELSE "triggerBase") \in B
    BY DEF BlocksOf, StrategyBlock, AdaptiveBlock
  <2> QED  BY <1>1, <1>8, <1>11, <2>1 DEF TriggerImmediateUpdate
<1>12. CASE HandlePushNotification
  <2>1. "push" \in B
    BY <1>12 DEF HandlePushNotification, BlocksOf, StrategyBlock, AdaptiveBlock
  <2> QED  BY <1>1, <1>8, <1>12, <2>1 DEF HandlePushNotification
<1>13. CASE RecordUpdateSuccess
  <2>1. "success" \in B /\ "failure" \in B
    BY <1>13 DEF RecordUpdateSuccess, BlocksOf, StrategyBlock, AdaptiveBlock
  <2> QED  BY <1>1, <1>8, <1>13, <2>1 DEF RecordUpdateSuccess
<1>14. CASE PushStartsFallback
  <2>1. /\ strategyClass = "push" /\ updateInterval' \in Int /\ callerAt' = "idle"
        /\ ScheduleFallbackTimer(strategyQueue)
        /\ UNCHANGED <<strategyClass, schedule, isExpensive, now, strategyCalls, isActive,
                       lastManualTrigger, networkChecks, updateHistory, updateInterval>>
    BY <1>1, <1>2, <1>14 DEF PushStartsFallback
  <2>2. Timed
    BY <1>1, <2>1, FallbackTypes
  <2>3. Checked /\ Updated /\ Triggered /\ Paced /\ Charged /\ Counted /\ Falling
    BY <1>1, <2>1
  <2> QED  BY <1>4, <1>7, <2>1, <2>2, <2>3
<1>15. CASE StartBlock
  <2>1. Runs("start") /\ isActive' \in BOOLEAN
        /\ UNCHANGED <<updateInterval, lastManualTrigger, updateHistory>>
    BY <1>15 DEF StartBlock
  <2>2. Timed /\ Checked
    <3>1. CASE isActive
      BY <1>5, <1>7, <1>15, <2>1, <3>1 DEF StartBlock
    <3>2. CASE ~isActive
      BY <1>5, <1>6, <1>15, <2>1, <3>2 DEF StartBlock
    <3> QED  BY <3>1, <3>2
  <2> QED  BY <1>4, <1>5, <1>7, <2>1, <2>2
<1>16. CASE StopBlock
  <2>1. Runs("stop") /\ isActive' \in BOOLEAN
        /\ UNCHANGED <<updateInterval, lastManualTrigger, networkChecks, updateHistory>>
    BY <1>16 DEF StopBlock
  <2>2. Timed
    <3>1. CASE isActive
      <4>1. CancelScheduledUpdate(left) /\ left \in Seq(B)
        BY <1>5, <1>16, <2>1, <3>1 DEF StopBlock
      <4>2. /\ updateTimer' \in Int \cup {NoTime} /\ strategyQueue' \in Seq(B)
            /\ updateTimer' = NoTime
        BY <4>1, WithoutTimerIsQueue DEF CancelScheduledUpdate
      <4> QED  BY <4>2
    <3>2. CASE ~isActive
      BY <1>5, <1>7, <1>16, <2>1, <3>2 DEF StopBlock
    <3> QED  BY <3>1, <3>2
  <2> QED  BY <1>4, <1>5, <1>7, <2>1, <2>2
<1>17. CASE TriggerBlock
  <2>1. Runs("trigger")
        /\ UNCHANGED <<updateInterval, isActive, updateTimer, networkChecks, updateHistory>>
    BY <1>17 DEF TriggerBlock
  <2>2. strategyClass = "manual" /\ left \in Seq(B)
    <3>1. "trigger" \in B /\ left \in Seq(B)
      BY <1>5, <2>1
    <3>2. "trigger" \in BlocksOf(strategyClass)
      BY <3>1
    <3>3. strategyClass = "manual"
      BY <3>2 DEF BlocksOf
    <3> QED  BY <3>1, <3>3
  <2>3. "triggerBase" \in B
    BY DEF BlocksOf, StrategyBlock, AdaptiveBlock
  <2>4. strategyQueue' \in {left, Append(left, "triggerBase")}
        /\ lastManualTrigger' \in {lastManualTrigger, now}
    BY <1>17 DEF TriggerBlock
  <2>5. strategyQueue' \in Seq(B)
    BY <2>2, <2>3, <2>4, AppendProperties
  <2>6. Timed /\ Triggered
    BY <1>1, <1>2, <2>1, <2>2, <2>4, <2>5
  <2> QED  BY <1>4, <1>5, <1>7, <2>1, <2>6
<1>18. CASE TriggerBaseBlock
  <2>1. Runs("triggerBase") /\ strategyQueue' = left
        /\ UNCHANGED <<updateInterval, isActive, updateTimer, lastManualTrigger, networkChecks>>
    BY <1>18 DEF TriggerBaseBlock
  <2>2. Timed
    BY <1>5, <1>7, <2>1
  <2>3. Updated
    BY <1>7, <1>18 DEF TriggerBaseBlock
  <2> QED  BY <1>4, <1>5, <1>7, <2>1, <2>2, <2>3
<1>19. CASE PushBlock
  <2>1. Runs("push") /\ UNCHANGED <<updateInterval, isActive, lastManualTrigger, networkChecks>>
    BY <1>19 DEF PushBlock
  <2>2. strategyClass = "push" /\ left \in Seq(B)
    <3>1. "push" \in B /\ left \in Seq(B)
      BY <1>5, <2>1
    <3>2. "push" \in BlocksOf(strategyClass)
      BY <3>1
    <3>3. strategyClass = "push"
      BY <3>2 DEF BlocksOf
    <3> QED  BY <3>1, <3>3
  <2>3. Timed /\ Updated
    <3>1. CASE isActive
      <4>1. ScheduleFallbackTimer(left) /\ NotifyDelegateShouldUpdate
        BY <1>19, <3>1 DEF PushBlock
      <4>2. updateInterval' \in Int
        BY <1>2, <2>1, <2>2
      <4> QED  BY <1>1, <1>7, <2>2, <4>1, <4>2, FallbackTypes
    <3>2. CASE ~isActive
      BY <1>5, <1>7, <1>19, <2>1, <3>2 DEF PushBlock
    <3> QED  BY <3>1, <3>2
  <2> QED  BY <1>4, <1>5, <1>7, <2>1, <2>3
<1>20. CASE RecordBlock
  <2>1. /\ ScheduleNextUpdate(left) /\ UNCHANGED <<isActive, lastManualTrigger, updateHistory>>
        /\ \/ Runs("success") /\ updateInterval' = Min({updateInterval + 1, Max(Intervals)})
           \/ Runs("failure") /\ updateInterval' = Max({updateInterval - 1, 1})
    BY <1>20 DEF RecordBlock
  <2>2. PICK block \in {"success", "failure"} : Runs(block)
    BY <2>1
  <2>3. strategyClass = "adaptive" /\ left \in Seq(B)
    BY <1>5, <2>2 DEF BlocksOf, AdaptiveBlock
  <2>4. updateInterval' \in 1 .. Max(Intervals)
    <3>1. PICK i : i = updateInterval
      OBVIOUS
    <3>2. PICK most : most = Max(Intervals)
      OBVIOUS
    <3>3. i \in 1 .. most /\ most \in Int
      <4>1. i \in 1 .. most
        BY <1>2, <2>3, <3>1, <3>2
      <4>2. Intervals # {}
        BY DEF StrategyInv
      <4>3. Max(Intervals) \in Intervals /\ Intervals \subseteq Int
        BY <4>2, StrategyAssumption, GreatestOfFinite
      <4> QED  BY <3>2, <4>1, <4>3
    <3>4. CASE updateInterval' = Min({i + 1, most})
      <4>1. \E x \in {i + 1, most} : \A y \in {i + 1, most} : x <= y
        BY <3>3
      <4>2. updateInterval' \in {i + 1, most} /\ \A y \in {i + 1, most} : updateInterval' <= y
        BY <3>4, <4>1 DEF Min
      <4> QED  BY <3>2, <3>3, <4>2
    <3>5. CASE updateInterval' = Max({i - 1, 1})
      <4>1. \E x \in {i - 1, 1} : \A y \in {i - 1, 1} : x >= y
        BY <3>3
      <4>2. updateInterval' \in {i - 1, 1} /\ \A y \in {i - 1, 1} : updateInterval' >= y
        BY <3>5, <4>1 DEF Max
      <4> QED  BY <3>2, <3>3, <4>2
    <3> QED  BY <2>1, <3>1, <3>2, <3>4, <3>5
  <2>5. Paced
    BY <2>3, <2>4
  <2>6. Timed /\ Checked
    BY <1>6, <2>1, <2>3, <2>5
  <2> QED  BY <1>4, <1>5, <1>7, <2>1, <2>2, <2>5, <2>6
<1>21. CASE CheckBlock
  <2>1. Runs("check") /\ UNCHANGED <<updateInterval, isActive, lastManualTrigger, updateHistory>>
    BY <1>21 DEF CheckBlock
  <2>2. Timed /\ Checked
    <3>1. CASE isActive
      BY <1>5, <1>6, <1>21, <2>1, <3>1 DEF CheckBlock
    <3>2. CASE ~isActive
      BY <1>5, <1>7, <1>21, <2>1, <3>2 DEF CheckBlock
    <3> QED  BY <3>1, <3>2
  <2> QED  BY <1>4, <1>5, <1>7, <2>1, <2>2
<1>22. CASE TimerBlock
  <2>1. /\ Runs("timer") /\ NotifyDelegateShouldUpdate
        /\ UNCHANGED <<updateInterval, isActive, lastManualTrigger>>
    BY <1>22 DEF TimerBlock
  <2>2. left \in Seq(B)
    BY <1>5, <2>1
  <2>3. Timed /\ Checked
    <3>1. CASE strategyClass = "adaptive"
      BY <1>22, <2>2, <3>1 DEF TimerBlock
    <3>2. CASE strategyClass # "adaptive"
      BY <1>6, <1>22, <2>1, <2>2, <3>2 DEF TimerBlock
    <3> QED  BY <3>1, <3>2
  <2> QED  BY <1>4, <1>5, <1>7, <2>1, <2>3
<1>23. CASE Elapses
  <2>1. /\ now < MaxTime /\ now' = now + 1
        /\ UNCHANGED <<strategyClass, schedule, updateInterval, isActive, updateTimer,
                       strategyQueue, callerAt, lastManualTrigger, networkChecks, isExpensive,
                       updateHistory, strategyCalls>>
    BY <1>23 DEF Elapses
  <2>2. Counted
    BY <1>1, <2>1, StrategyAssumption
  <2> QED  BY <1>1, <1>2, <1>4, <1>7, <2>1, <2>2
<1>24. CASE TimerDue
  <2>1. /\ strategyQueue' = Append(strategyQueue, "timer")
        /\ UNCHANGED <<strategyClass, schedule, updateInterval, isActive, updateTimer, callerAt,
                       lastManualTrigger, networkChecks, isExpensive, now, strategyCalls,
                       updateHistory>>
    BY <1>24 DEF TimerDue
  <2>2. "timer" \in B
    BY DEF BlocksOf, StrategyBlock, AdaptiveBlock
  <2>3. strategyQueue' \in Seq(B)
    BY <1>1, <2>1, <2>2, AppendProperties
  <2> QED  BY <1>1, <1>2, <1>4, <1>7, <2>1, <2>3
<1>25. CASE CheckDue
  <2>1. /\ networkChecks > 0 /\ networkChecks' = networkChecks - 1
        /\ strategyQueue' = Append(strategyQueue, "check")
        /\ UNCHANGED <<strategyClass, schedule, updateInterval, isActive, updateTimer, callerAt,
                       lastManualTrigger, isExpensive, now, strategyCalls, updateHistory>>
    BY <1>25 DEF CheckDue
  <2>2. strategyClass = "adaptive" /\ networkChecks \in Nat
    BY <1>2, <2>1
  <2>3. "check" \in B
    BY <2>2 DEF BlocksOf, StrategyBlock, AdaptiveBlock
  <2>4. strategyQueue' \in Seq(B) /\ Checked
    BY <1>1, <2>1, <2>2, <2>3, AppendProperties
  <2> QED  BY <1>1, <1>2, <1>4, <1>7, <2>1, <2>4
<1>26. CASE NetworkCostChanges
  <2>1. /\ strategyClass = "adaptive" /\ isExpensive' = ~isExpensive
        /\ UNCHANGED <<strategyClass, schedule, updateInterval, isActive, updateTimer,
                       strategyQueue, callerAt, lastManualTrigger, networkChecks, now,
                       updateHistory, strategyCalls>>
    BY <1>26 DEF NetworkCostChanges
  <2>2. Charged
    BY <2>1
  <2> QED  BY <1>1, <1>2, <1>4, <1>7, <2>1, <2>2
<1>27. CASE UNCHANGED strategyVars
  BY <1>1, <1>2, <1>4, <1>7, <1>27 DEF strategyVars
<1> QED  BY <1>9, <1>10, <1>11, <1>12, <1>13, <1>14, <1>15, <1>16, <1>17, <1>18, <1>19, <1>20,
            <1>21, <1>22, <1>23, <1>24, <1>25, <1>26, <1>27 DEF StrategyNext

\* Each class of strategy keeps to what is its own: what comes from other classes' calls
\* never gets into its queue, its timer or its settings
\* (UpdateStrategies!StrategyTypeOK).
THEOREM StrategyTypeCorrect == StrategySpec => []StrategyTypeOK
<1>1. StrategyInit => StrategyInv
  <2> SUFFICES ASSUME StrategyInit PROVE StrategyInv
    OBVIOUS
  <2>1. /\ <<>> \in Seq(StrategyBlock) /\ <<>> \in Seq(Int) /\ Len(<<>>) = 0
        /\ <<>> \in Seq(BlocksOf(strategyClass))
    BY EmptySeq
  <2>2. ClassTypes
    <3> USE DEF StrategyInit, ClassTypes, WithoutSchedule, WithoutTriggers, WithoutChecks
    <3>1. CASE strategyClass = "interval"
      BY <3>1 DEF IntervalUpdateStrategy
    <3>2. CASE strategyClass = "scheduled"
      BY <3>2 DEF ScheduledUpdateStrategy
    <3>3. CASE strategyClass = "manual"
      BY <3>3 DEF ManualUpdateStrategy
    <3>4. CASE strategyClass = "push"
      BY <3>4 DEF PushUpdateStrategy
    <3>5. CASE strategyClass = "adaptive"
      <4>1. updateInterval \in Intervals /\ updateInterval > 0 /\ Intervals # {}
        BY <3>5
      <4>2. Max(Intervals) \in Intervals /\ \A x \in Intervals : x <= Max(Intervals)
        BY <4>1, StrategyAssumption, GreatestOfFinite
      <4>3. updateInterval \in Int /\ Max(Intervals) \in Int /\ updateInterval <= Max(Intervals)
        BY <4>1, <4>2, StrategyAssumption
      <4>4. updateInterval \in 1 .. Max(Intervals)
        BY <4>1, <4>3
      <4> QED  BY <3>5, <4>4 DEF AdaptiveUpdateStrategy
    <3> QED  BY <3>1, <3>2, <3>3, <3>4, <3>5 DEF StrategyClass
  <2>3. isActive \in BOOLEAN
    BY DEF StrategyInit
  <2>4. UpdateStrategyBase
    BY <2>1, <2>3, StrategyAssumption DEF StrategyInit, UpdateStrategyBase
  <2>5. /\ updateTimer \in Int \cup {NoTime} /\ now \in 0 .. MaxTime
        /\ strategyCalls \in 0 .. MaxCalls /\ strategyQueue = <<>> /\ Intervals # {}
    BY StrategyAssumption DEF StrategyInit
  <2>6. callerAt = "fallback" => strategyClass = "push"
    BY DEF StrategyInit
  <2> QED  BY <2>1, <2>2, <2>4, <2>5, <2>6 DEF StrategyInv, StrategyTypeOK, ClassTypes
<1>2. StrategyInv => StrategyTypeOK
  BY DEF StrategyInv
<1> QED  BY <1>1, <1>2, StrategyTypeStep, PTL DEF StrategySpec

===============================================================================
