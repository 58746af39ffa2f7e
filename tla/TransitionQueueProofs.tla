------------------------- MODULE TransitionQueueProofs -------------------------
(***************************************************************************)
(* Theorems about TransitionQueue, for any queries and any limit.           *)
(***************************************************************************)
EXTENDS TransitionQueue, SequenceTheorems, TLAPS

-----------------------------------------------------------------------------
(* Type correctness, and the bound *)

LEMMA HoldType ==
    ASSUME TypeOK, NEW q \in UdpQuery, Hold(q)
    PROVE  /\ isInTransitionMode' \in BOOLEAN
           /\ queuedQueries' \in Seq(UdpQuery) /\ Len(queuedQueries') <= QueueLimit
           /\ held' \in Seq(UdpQuery) /\ released' \in Seq(UdpQuery)
           /\ dropped' \subseteq UdpQuery
           /\ dnsQueue' \in Seq(DnsBlock)
<1> DEFINE longer == Append(queuedQueries, q)
<1>1. /\ longer \in Seq(UdpQuery) /\ longer # << >>
      /\ Len(longer) = Len(queuedQueries) + 1
      /\ Len(queuedQueries) \in Nat
      /\ Len(queuedQueries) <= QueueLimit
  <2>1. queuedQueries \in Seq(UdpQuery) /\ Len(queuedQueries) <= QueueLimit
    BY DEF TypeOK
  <2> QED  BY <2>1, AppendProperties, LenProperties
<1>2. /\ Head(longer) \in UdpQuery
      /\ Tail(longer) \in Seq(UdpQuery)
      /\ Len(Tail(longer)) = Len(longer) - 1
  <2> HIDE DEF longer
  <2> QED  BY <1>1, HeadTailProperties
<1>3. held \in Seq(UdpQuery) => Append(held, q) \in Seq(UdpQuery)
  BY AppendProperties
<1>4. QueueLimit \in Nat
  BY LimitAssumption
<1>5. CASE ~isInTransitionMode
  BY <1>5 DEF TypeOK, Hold, modeVars
<1>6. CASE isInTransitionMode
  <2>1. held' \in Seq(UdpQuery) /\ UNCHANGED << isInTransitionMode, released, dnsQueue >>
    BY <1>3, <1>6 DEF TypeOK, Hold
  <2>2. \/ Len(longer) > QueueLimit /\ queuedQueries' = Tail(longer)
           /\ dropped' = dropped \cup {Head(longer)}
        \/ ~(Len(longer) > QueueLimit) /\ queuedQueries' = longer /\ dropped' = dropped
    BY <1>6 DEF Hold
  <2> HIDE DEF longer
  <2>3. queuedQueries' \in Seq(UdpQuery) /\ dropped' \subseteq UdpQuery
    BY <1>1, <1>2, <2>2 DEF TypeOK
  <2>4. Len(queuedQueries') <= QueueLimit
    BY <1>1, <1>2, <1>4, <2>2
  <2> QED  BY <2>1, <2>3, <2>4 DEF TypeOK
<1> QED  BY <1>5, <1>6

LEMMA ExitType ==
    ASSUME TypeOK, ExitTransitionMode
    PROVE  /\ isInTransitionMode' \in BOOLEAN
           /\ queuedQueries' \in Seq(UdpQuery) /\ Len(queuedQueries') <= QueueLimit
           /\ held' \in Seq(UdpQuery) /\ released' \in Seq(UdpQuery)
           /\ dropped' \subseteq UdpQuery
           /\ dnsQueue' \in Seq(DnsBlock)
<1>1. ProcessBlocks(queuedQueries) \in Seq(DnsBlock)
  BY DEF TypeOK, ProcessBlocks, DnsBlock
<1>2. Len(<< >>) = 0 /\ << >> \in Seq(UdpQuery)
  BY EmptySeq
<1>3. CASE ~isInTransitionMode
  BY <1>3 DEF TypeOK, ExitTransitionMode, modeVars
<1>4. CASE isInTransitionMode
  <2>1. /\ isInTransitionMode' = FALSE
        /\ queuedQueries' = << >>
        /\ released' = released \o queuedQueries
        /\ dnsQueue' = dnsQueue \o ProcessBlocks(queuedQueries)
        /\ UNCHANGED << held, dropped >>
    BY <1>4 DEF ExitTransitionMode
  <2>2. released' \in Seq(UdpQuery) /\ dnsQueue' \in Seq(DnsBlock)
    BY <2>1, <1>1, ConcatProperties DEF TypeOK
  <2>3. Len(queuedQueries') <= QueueLimit
    BY <2>1, <1>2, LimitAssumption
  <2> QED  BY <2>1, <2>2, <2>3, <1>2 DEF TypeOK
<1> QED  BY <1>3, <1>4

LEMMA ProcessType ==
    ASSUME TypeOK, NEW q \in Query, Process(q)
    PROVE  processed' \in [Query -> 0..2]
  BY DEF TypeOK, Process, Once

LEMMA NextType ==
    ASSUME TypeOK, [Next]_vars
    PROVE  TypeOK'
<1>1. CASE StartProxy
  <2>1. transitionQueue' \in Seq(TransitionBlock)
    BY <1>1, AppendProperties DEF StartProxy, TypeOK, TransitionBlock
  <2> QED  BY <1>1, <2>1 DEF StartProxy, TypeOK, modeVars, Phase
<1>2. CASE ContinueStartup
  BY <1>2 DEF ContinueStartup, TypeOK, modeVars, Phase
<1>3. CASE ExitTimer
  <2>1. transitionQueue' \in Seq(TransitionBlock)
    BY <1>3, AppendProperties DEF ExitTimer, TypeOK, TransitionBlock
  <2> QED  BY <1>3, <2>1 DEF ExitTimer, TypeOK, modeVars
<1>4. CASE StopProxy
  BY <1>4 DEF StopProxy, TypeOK, modeVars, Phase
<1>5. ASSUME NEW q \in Query, ReadDatagram(q) PROVE TypeOK'
  BY <1>5 DEF ReadDatagram, TypeOK, modeVars, startVars, DnsBlock
<1>6. ASSUME NEW q \in Query, ReadTcp(q) PROVE TypeOK'
  BY <1>6, ProcessType DEF ReadTcp, TypeOK, modeVars, startVars
<1>7. CASE DnsStep
  <2> DEFINE q == Head(dnsQueue)[2]
  <2>1. q \in UdpQuery /\ q \in Query /\ Tail(dnsQueue) \in Seq(DnsBlock)
    <3>1. Head(dnsQueue) \in DnsBlock /\ Tail(dnsQueue) \in Seq(DnsBlock)
      BY <1>7 DEF DnsStep, TypeOK
    <3> QED  BY <3>1 DEF DnsBlock, Query
  <2>2. processed' \in [Query -> 0..2]
    <3>1. Process(q) \/ UNCHANGED processed
      BY <1>7 DEF DnsStep, ProcessWithQueuing
    <3> QED  BY <3>1, <2>1, ProcessType DEF TypeOK
  <2>3. transitionQueue' \in Seq(TransitionBlock)
    <3>1. <<"hold", q>> \in TransitionBlock
      BY <2>1 DEF TransitionBlock
    <3>2. transitionQueue' \in {transitionQueue, Append(transitionQueue, <<"hold", q>>)}
      BY <1>7 DEF DnsStep, ProcessWithQueuing
    <3>3. transitionQueue \in Seq(TransitionBlock)
      BY DEF TypeOK
    <3>4. Append(transitionQueue, <<"hold", q>>) \in Seq(TransitionBlock)
      BY <3>1, <3>3, AppendProperties
    <3> QED  BY <3>2, <3>3, <3>4
  <2> QED  BY <1>7, <2>1, <2>2, <2>3 DEF DnsStep, TypeOK, modeVars, startVars
<1>8. CASE TransitionStep
  <2> DEFINE b == Head(transitionQueue)
  <2>1. b \in TransitionBlock /\ Tail(transitionQueue) \in Seq(TransitionBlock)
    BY <1>8 DEF TransitionStep, TypeOK
  <2>2. UNCHANGED << phase, exitTimer, arrived, processed >>
        /\ transitionQueue' \in Seq(TransitionBlock)
    BY <1>8, <2>1 DEF TransitionStep, startVars
  <2>3. CASE EnterTransitionMode
    BY <2>2, <2>3 DEF EnterTransitionMode, TypeOK
  <2>4. CASE ExitTransitionMode
    BY <2>2, <2>4, ExitType DEF TypeOK
  <2>5. CASE b[1] = "hold" /\ Hold(b[2])
    <3>1. b[2] \in UdpQuery
      BY <2>1, <2>5 DEF TransitionBlock
    <3> QED  BY <2>2, <2>5, <3>1, HoldType DEF TypeOK
  <2> QED  BY <1>8, <2>3, <2>4, <2>5 DEF TransitionStep
<1>9. CASE UNCHANGED vars
  BY <1>9 DEF vars, startVars, modeVars, TypeOK
<1> QED  BY <1>1, <1>2, <1>3, <1>4, <1>5, <1>6, <1>7, <1>8, <1>9 DEF Next

LEMMA InitType == Init => TypeOK
<1>1. /\ Len(<< >>) = 0 /\ << >> \in Seq(UdpQuery)
      /\ << >> \in Seq(DnsBlock) /\ << >> \in Seq(TransitionBlock)
  BY EmptySeq
<1>2. 0 <= QueueLimit
  BY LimitAssumption
<1>3. Init => processed \in [Query -> 0..2]
  BY DEF Init
<1>4. Init => Len(queuedQueries) <= QueueLimit
  BY <1>1, <1>2 DEF Init
<1> QED  BY <1>1, <1>3, <1>4 DEF Init, TypeOK, Phase

\* The variables keep their types, and no more than QueueLimit queries are ever
\* held, whatever arrives.
THEOREM TypeCorrect == Spec => []TypeOK
<1>1. Init => TypeOK
  BY InitType
<1>2. TypeOK /\ [Next]_vars => TypeOK'
  BY NextType
<1> QED  BY <1>1, <1>2, PTL DEF Spec

-----------------------------------------------------------------------------
(* The order of the blocks *)

\* The block that enters the mode is the first of its queue, and until it has run
\* nothing was held or released.
EntersFirst ==
    \A i \in 1..Len(transitionQueue) :
        transitionQueue[i] = <<"enter">> =>
            i = 1 /\ ~isInTransitionMode /\ held = << >> /\ released = << >>

\* Released queries only wait on dnsQueue once the mode was left for good.
ReleasedAfterExit ==
    \A i \in 1..Len(dnsQueue) :
        dnsQueue[i][1] = "process" =>
            /\ ~isInTransitionMode
            /\ \A j \in 1..Len(transitionQueue) : transitionQueue[j] # <<"enter">>

IdleIsEmpty ==
    phase = "idle" =>
        /\ transitionQueue = << >> /\ dnsQueue = << >>
        /\ held = << >> /\ released = << >> /\ ~isInTransitionMode /\ ~exitTimer

ReleasesOnce == isInTransitionMode => released = << >>

OrderInv ==
    /\ TypeOK /\ IdleIsEmpty /\ EntersFirst /\ ReleasedAfterExit /\ ReleasesOnce
    /\ HeldOnlyInTransition /\ NewestSurvive

\* What running the next block does to each queue.
LEMMA DnsTail ==
    ASSUME TypeOK, DnsStep
    PROVE  /\ Len(dnsQueue) \in Nat \ {0}
           /\ Len(dnsQueue') = Len(dnsQueue) - 1
           /\ \A i \in 1..Len(dnsQueue') : dnsQueue'[i] = dnsQueue[i + 1]
           /\ Head(dnsQueue) = dnsQueue[1]
<1>1. dnsQueue \in Seq(DnsBlock) /\ dnsQueue # << >> /\ dnsQueue' = Tail(dnsQueue)
  BY DEF TypeOK, DnsStep
<1> QED  BY <1>1, HeadTailProperties, EmptySeq

LEMMA TransitionTail ==
    ASSUME TypeOK, TransitionStep
    PROVE  /\ Len(transitionQueue) \in Nat \ {0}
           /\ Len(transitionQueue') = Len(transitionQueue) - 1
           /\ \A i \in 1..Len(transitionQueue') : transitionQueue'[i] = transitionQueue[i + 1]
           /\ Head(transitionQueue) = transitionQueue[1]
           /\ transitionQueue[1] \in TransitionBlock
<1>1. transitionQueue \in Seq(TransitionBlock) /\ transitionQueue # << >>
      /\ transitionQueue' = Tail(transitionQueue)
  BY DEF TypeOK, TransitionStep
<1>2. Head(transitionQueue) = transitionQueue[1]
  BY <1>1
<1> QED  BY <1>1, <1>2, HeadTailProperties, EmptySeq

\* A longer queue: its old blocks keep their places.
LEMMA Longer ==
    ASSUME NEW S, NEW s \in Seq(S), NEW e \in S, NEW t, t = Append(s, e)
    PROVE  /\ Len(s) \in Nat /\ Len(t) = Len(s) + 1
           /\ \A i \in 1..Len(s) : t[i] = s[i]
           /\ t[Len(s) + 1] = e
  BY AppendProperties, LenProperties

\* The invariant reads nothing but these.
LEMMA SameOrder ==
    ASSUME OrderInv, TypeOK', UNCHANGED << modeVars, transitionQueue, dnsQueue >>,
           phase' = "idle" => phase = "idle" /\ exitTimer' = exitTimer
    PROVE  OrderInv'
<1>1. IdleIsEmpty' /\ EntersFirst' /\ ReleasedAfterExit' /\ ReleasesOnce'
  BY DEF OrderInv, modeVars, IdleIsEmpty, EntersFirst, ReleasedAfterExit, ReleasesOnce
<1>2. HeldOnlyInTransition' /\ NewestSurvive'
  BY DEF OrderInv, modeVars, HeldOnlyInTransition, NewestSurvive
<1> QED  BY <1>1, <1>2 DEF OrderInv

LEMMA StepOfTransition ==
    ASSUME OrderInv, TransitionStep, TypeOK'
    PROVE  OrderInv'
<1>1. /\ TypeOK /\ phase' = phase /\ phase # "idle"
      /\ isInTransitionMode => released = << >>
  <2>1. transitionQueue # << >>
    BY DEF TransitionStep
  <2> QED  BY <2>1 DEF OrderInv, TransitionStep, startVars, IdleIsEmpty, ReleasesOnce
<1>2. IdleIsEmpty'
  BY <1>1 DEF IdleIsEmpty
<1>3. \A i \in 1..Len(transitionQueue') : transitionQueue'[i] # <<"enter">>
  <2> SUFFICES ASSUME NEW i \in 1..Len(transitionQueue'), transitionQueue'[i] = <<"enter">>
               PROVE  FALSE
    OBVIOUS
  <2>1. i + 1 \in 1..Len(transitionQueue) /\ transitionQueue[i + 1] = <<"enter">>
    BY <1>1, TransitionTail
  <2> QED  BY <2>1 DEF OrderInv, EntersFirst
<1>4. EntersFirst'
  BY <1>3 DEF EntersFirst
<1>5. CASE EnterTransitionMode /\ transitionQueue[1] = <<"enter">>
  <2>1. ~isInTransitionMode /\ held = << >> /\ released = << >> /\ queuedQueries = << >>
    BY <1>1, <1>5, TransitionTail DEF OrderInv, EntersFirst, HeldOnlyInTransition
  <2>2. ReleasedAfterExit'
    BY <1>1, <1>5, TransitionTail DEF OrderInv, ReleasedAfterExit, EnterTransitionMode
  <2>3. NewestSurvive'
    BY <1>5, <2>1, EmptySeq DEF NewestSurvive, EnterTransitionMode
  <2> QED  BY <1>2, <1>4, <1>5, <2>1, <2>2, <2>3
           DEF OrderInv, EnterTransitionMode, ReleasesOnce, HeldOnlyInTransition
<1>6. CASE UNCHANGED << modeVars, dnsQueue >>
  <2>1. ReleasedAfterExit'
    BY <1>3, <1>6 DEF OrderInv, ReleasedAfterExit, modeVars
  <2>2. NewestSurvive'
    BY <1>6 DEF OrderInv, NewestSurvive, modeVars
  <2> QED  BY <1>2, <1>4, <1>6, <2>1, <2>2
           DEF OrderInv, modeVars, ReleasesOnce, HeldOnlyInTransition
<1>7. CASE isInTransitionMode /\ ExitTransitionMode
  <2>1. /\ ~isInTransitionMode' /\ queuedQueries' = << >> /\ held' = held
        /\ released' = queuedQueries
    BY <1>1, <1>7, ConcatEmptySeq DEF ExitTransitionMode, TypeOK
  <2>2. ReleasedAfterExit'
    BY <1>3, <2>1 DEF ReleasedAfterExit
  <2>3. NewestSurvive'
    BY <1>7, <2>1 DEF OrderInv, NewestSurvive
  <2> QED  BY <1>2, <1>4, <2>1, <2>2, <2>3 DEF OrderInv, ReleasesOnce, HeldOnlyInTransition
<1>8. ASSUME isInTransitionMode, NEW q \in UdpQuery, Hold(q) PROVE OrderInv'
  <2> DEFINE longer == Append(queuedQueries, q)
  <2>1. /\ isInTransitionMode' = isInTransitionMode
        /\ released' = released /\ dnsQueue' = dnsQueue
        /\ held' = Append(held, q)
        /\ \/ queuedQueries' = Tail(longer)
           \/ queuedQueries' = longer
    BY <1>8 DEF Hold
  <2>2. ReleasedAfterExit'
    BY <1>3, <2>1 DEF OrderInv, ReleasedAfterExit
  <2>3. /\ Len(held) \in Nat /\ Len(queuedQueries) \in Nat
        /\ Len(queuedQueries) <= Len(held)
        /\ \A i \in 1..Len(queuedQueries) :
             queuedQueries[i] = held[Len(held) - Len(queuedQueries) + i]
    BY <1>1, <1>8, LenProperties DEF OrderInv, NewestSurvive, TypeOK
  <2>4. /\ Len(held') = Len(held) + 1 /\ held'[Len(held) + 1] = q
        /\ \A i \in 1..Len(held) : held'[i] = held[i]
    BY <1>1, <2>1, Longer DEF TypeOK
  <2>5. /\ longer \in Seq(UdpQuery) /\ longer # << >>
        /\ Len(longer) = Len(queuedQueries) + 1 /\ longer[Len(queuedQueries) + 1] = q
        /\ \A i \in 1..Len(queuedQueries) : longer[i] = queuedQueries[i]
    <3>1. queuedQueries \in Seq(UdpQuery)
      BY <1>1 DEF TypeOK
    <3> QED  BY <3>1, AppendProperties
  <2> HIDE DEF longer
  <2>6. \A i \in 1..Len(longer) : longer[i] = held'[Len(held') - Len(longer) + i]
    <3>1. Len(held') - Len(longer) = Len(held) - Len(queuedQueries)
      BY <2>3, <2>4, <2>5
    <3>2. ASSUME NEW i \in 1..Len(queuedQueries)
          PROVE  longer[i] = held'[Len(held) - Len(queuedQueries) + i]
      <4>1. Len(held) - Len(queuedQueries) + i \in 1..Len(held)
        BY <2>3
      <4> QED  BY <4>1, <2>3, <2>4, <2>5
    <3>3. longer[Len(longer)] = held'[Len(held) - Len(queuedQueries) + Len(longer)]
      BY <2>3, <2>4, <2>5
    <3>4. \A i \in 1..Len(longer) : i \in 1..Len(queuedQueries) \/ i = Len(longer)
      BY <2>3, <2>5
    <3> QED  BY <3>1, <3>2, <3>3, <3>4
  <2>7. /\ Len(queuedQueries') <= Len(held')
        /\ \A i \in 1..Len(queuedQueries') :
             queuedQueries'[i] = held'[Len(held') - Len(queuedQueries') + i]
    <3>1. CASE queuedQueries' = longer
      BY <3>1, <2>3, <2>4, <2>5, <2>6
    <3>2. CASE queuedQueries' = Tail(longer)
      <4>1. /\ Len(Tail(longer)) = Len(longer) - 1
            /\ \A i \in 1..Len(Tail(longer)) : Tail(longer)[i] = longer[i + 1]
        BY <2>5, HeadTailProperties
      <4>2. \A i \in 1..Len(Tail(longer)) :
              longer[i + 1] = held'[Len(held') - Len(longer) + (i + 1)]
        BY <4>1, <2>5, <2>3, <2>6
      <4>3. /\ Len(queuedQueries') = Len(queuedQueries)
            /\ Len(queuedQueries') <= Len(held')
            /\ Len(held') - Len(queuedQueries') = Len(held') - Len(longer) + 1
        <5>1. Len(queuedQueries') = Len(longer) - 1
          BY <3>2, <4>1
        <5>2. /\ Len(longer) = Len(queuedQueries) + 1 /\ Len(held') = Len(held) + 1
              /\ Len(queuedQueries) \in Nat /\ Len(held) \in Nat
              /\ Len(queuedQueries) <= Len(held)
          BY <2>3, <2>4, <2>5
        <5> QED  BY <5>1, <5>2
      <4>4. \A i \in 1..Len(queuedQueries') :
              Len(held') - Len(longer) + (i + 1) = Len(held') - Len(queuedQueries') + i
        BY <4>3, <2>3, <2>4, <2>5
      <4> QED  BY <3>2, <4>1, <4>2, <4>3, <4>4
    <3> QED  BY <2>1, <3>1, <3>2
  <2>8. NewestSurvive'
    BY <1>8, <2>1, <2>7 DEF NewestSurvive
  <2> QED  BY <1>2, <1>4, <1>8, <2>1, <2>2, <2>8
           DEF OrderInv, ReleasesOnce, HeldOnlyInTransition
<1> QED
  <2>1. transitionQueue[1] \in TransitionBlock /\ Head(transitionQueue) = transitionQueue[1]
    BY <1>1, TransitionTail
  <2>2. CASE Head(transitionQueue)[1] = "enter" /\ EnterTransitionMode
    BY <2>1, <2>2, <1>5 DEF TransitionBlock
  <2>3. CASE Head(transitionQueue)[1] = "exit" /\ ExitTransitionMode
    BY <2>3, <1>6, <1>7 DEF ExitTransitionMode
  <2>4. CASE Head(transitionQueue)[1] = "hold" /\ Hold(Head(transitionQueue)[2])
    <3>1. Head(transitionQueue)[2] \in UdpQuery
      BY <2>1, <2>4 DEF TransitionBlock
    <3> QED  BY <2>4, <3>1, <1>6, <1>8 DEF Hold
  <2> QED  BY <2>2, <2>3, <2>4 DEF TransitionStep

LEMMA NextOrder ==
    ASSUME OrderInv, [Next]_vars
    PROVE  OrderInv'
<1>0. TypeOK /\ TypeOK'
  BY NextType DEF OrderInv
<1>1. CASE StartProxy
  <2>1. /\ transitionQueue = << >> /\ dnsQueue = << >> /\ held = << >> /\ released = << >>
        /\ ~isInTransitionMode /\ <<"enter">> \in TransitionBlock
    BY <1>1 DEF OrderInv, StartProxy, IdleIsEmpty, TransitionBlock
  <2>2. Len(transitionQueue') = 1
    BY <2>1, <1>0, <1>1, Longer, EmptySeq DEF StartProxy, TypeOK
  <2>3. IdleIsEmpty' /\ EntersFirst' /\ ReleasesOnce' /\ HeldOnlyInTransition'
    BY <1>1, <2>1, <2>2 DEF OrderInv, StartProxy, modeVars, IdleIsEmpty, EntersFirst,
       ReleasesOnce, HeldOnlyInTransition
  <2>4. ReleasedAfterExit'
    BY <1>1, <2>1, EmptySeq DEF StartProxy, ReleasedAfterExit
  <2>5. NewestSurvive'
    BY <1>1 DEF OrderInv, StartProxy, modeVars, NewestSurvive
  <2> QED  BY <1>0, <2>3, <2>4, <2>5 DEF OrderInv
<1>2. CASE ContinueStartup
  BY <1>0, <1>2, SameOrder DEF ContinueStartup
<1>3. CASE StopProxy
  BY <1>0, <1>3, SameOrder DEF StopProxy
<1>4. CASE UNCHANGED vars
  BY <1>0, <1>4, SameOrder DEF vars, startVars
<1>5. CASE ExitTimer
  <2>1. /\ Len(transitionQueue) \in Nat /\ Len(transitionQueue') = Len(transitionQueue) + 1
        /\ \A i \in 1..Len(transitionQueue) : transitionQueue'[i] = transitionQueue[i]
        /\ transitionQueue'[Len(transitionQueue) + 1] = <<"exit">>
    <3>1. <<"exit">> \in TransitionBlock
      BY DEF TransitionBlock
    <3> QED  BY <3>1, <1>0, <1>5, Longer DEF ExitTimer, TypeOK
  <2>2. <<"exit">> # <<"enter">>
    OBVIOUS
  <2>3. \A i \in 1..Len(transitionQueue') :
           transitionQueue'[i] = <<"enter">> =>
             i \in 1..Len(transitionQueue) /\ transitionQueue[i] = <<"enter">>
    BY <2>1, <2>2
  <2>4. IdleIsEmpty' /\ ReleasesOnce' /\ HeldOnlyInTransition' /\ NewestSurvive'
    BY <1>5 DEF OrderInv, ExitTimer, modeVars, IdleIsEmpty, ReleasesOnce,
       HeldOnlyInTransition, NewestSurvive
  <2>5. EntersFirst' /\ ReleasedAfterExit'
    BY <1>5, <2>3 DEF OrderInv, ExitTimer, modeVars, EntersFirst, ReleasedAfterExit
  <2> QED  BY <1>0, <2>4, <2>5 DEF OrderInv
<1>6. ASSUME NEW q \in Query, ReadTcp(q) PROVE OrderInv'
  BY <1>0, <1>6, SameOrder DEF ReadTcp, startVars
<1>7. ASSUME NEW q \in Query, ReadDatagram(q) PROVE OrderInv'
  <2>1. /\ Len(dnsQueue) \in Nat /\ Len(dnsQueue') = Len(dnsQueue) + 1
        /\ \A i \in 1..Len(dnsQueue) : dnsQueue'[i] = dnsQueue[i]
        /\ dnsQueue'[Len(dnsQueue) + 1] = <<"receive", q>>
    <3>1. <<"receive", q>> \in DnsBlock
      BY <1>7 DEF ReadDatagram, DnsBlock
    <3> QED  BY <3>1, <1>0, <1>7, Longer DEF ReadDatagram, TypeOK
  <2>2. \A i \in 1..Len(dnsQueue') :
           dnsQueue'[i][1] = "process" =>
             i \in 1..Len(dnsQueue) /\ dnsQueue[i][1] = "process"
    BY <2>1
  <2>3. ReleasedAfterExit'
    BY <1>7, <2>2 DEF OrderInv, ReadDatagram, modeVars, ReleasedAfterExit
  <2>4. IdleIsEmpty' /\ EntersFirst' /\ ReleasesOnce' /\ HeldOnlyInTransition' /\ NewestSurvive'
    BY <1>7 DEF OrderInv, ReadDatagram, modeVars, startVars, IdleIsEmpty, EntersFirst,
       ReleasesOnce, HeldOnlyInTransition, NewestSurvive
  <2> QED  BY <1>0, <2>3, <2>4 DEF OrderInv
<1>8. CASE DnsStep
  <2>1. /\ UNCHANGED << phase, exitTimer, modeVars >> /\ phase # "idle"
    BY <1>8 DEF OrderInv, DnsStep, startVars, IdleIsEmpty
  <2>2. \A i \in 1..Len(transitionQueue') :
           transitionQueue'[i] = <<"enter">> =>
             i \in 1..Len(transitionQueue) /\ transitionQueue[i] = <<"enter">>
    <3>1. CASE transitionQueue' = transitionQueue
      BY <3>1
    <3>2. ASSUME NEW q \in UdpQuery, transitionQueue' = Append(transitionQueue, <<"hold", q>>)
          PROVE <2>2
      <4>1. <<"hold", q>> \in TransitionBlock /\ <<"hold", q>> # <<"enter">>
        BY DEF TransitionBlock
      <4> QED  BY <4>1, <3>2, <1>0, Longer DEF TypeOK
    <3>3. Head(dnsQueue) \in DnsBlock
      BY <1>0, <1>8, HeadTailProperties DEF DnsStep, TypeOK
    <3> QED  BY <1>8, <3>1, <3>2, <3>3 DEF DnsStep, DnsBlock, ProcessWithQueuing
  <2>3. \A i \in 1..Len(dnsQueue') :
           dnsQueue'[i][1] = "process" =>
             i + 1 \in 1..Len(dnsQueue) /\ dnsQueue[i + 1][1] = "process"
    BY <1>0, <1>8, DnsTail
  <2>4. EntersFirst' /\ ReleasedAfterExit'
    BY <2>1, <2>2, <2>3 DEF OrderInv, modeVars, EntersFirst, ReleasedAfterExit
  <2>5. IdleIsEmpty' /\ ReleasesOnce' /\ HeldOnlyInTransition' /\ NewestSurvive'
    BY <2>1 DEF OrderInv, modeVars, IdleIsEmpty, ReleasesOnce, HeldOnlyInTransition,
       NewestSurvive
  <2> QED  BY <1>0, <2>4, <2>5 DEF OrderInv
<1>9. CASE TransitionStep
  BY <1>0, <1>9, StepOfTransition
<1> QED  BY <1>1, <1>2, <1>3, <1>4, <1>5, <1>6, <1>7, <1>8, <1>9 DEF Next

LEMMA InitOrder == Init => OrderInv
<1>1. Init => TypeOK
  BY InitType
<1>2. Init => IdleIsEmpty /\ EntersFirst /\ ReleasedAfterExit
  BY EmptySeq DEF Init, IdleIsEmpty, EntersFirst, ReleasedAfterExit
<1>3. Init => HeldOnlyInTransition /\ NewestSurvive /\ ReleasesOnce
  BY EmptySeq DEF Init, HeldOnlyInTransition, NewestSurvive, ReleasesOnce
<1> QED  BY <1>1, <1>2, <1>3 DEF OrderInv

\* Whatever the interleaving of the two queues, no query is held when the mode is
\* off, so none is stranded there; and of the queries held the newest survive, in
\* the order they were held in.
THEOREM HeldSafely == Spec => [](HeldOnlyInTransition /\ NewestSurvive)
<1>2. OrderInv /\ [Next]_vars => OrderInv'
  BY NextOrder
<1>3. OrderInv => HeldOnlyInTransition /\ NewestSurvive
  BY DEF OrderInv
<1> QED  BY InitOrder, <1>2, <1>3, PTL DEF Spec

\* While the mode is on, no UDP query is processed on either queue.
THEOREM TransitionHolds == Spec => NoneProcessedInTransition
<1>1. ASSUME OrderInv, [Next]_vars, isInTransitionMode, NEW u \in UdpQuery
      PROVE  processed'[u] = processed[u]
  <2>1. TypeOK /\ u \in Query
    BY <1>1 DEF OrderInv, Query
  <2>2. CASE DnsStep
    <3>1. Head(dnsQueue)[1] # "process"
      BY <1>1, <2>1, <2>2, DnsTail DEF OrderInv, ReleasedAfterExit
    <3> QED  BY <1>1, <2>2, <3>1 DEF DnsStep, ProcessWithQueuing
  <2>3. ASSUME NEW q \in Query, ReadTcp(q) PROVE processed'[u] = processed[u]
    <3>1. u # q
      BY <2>3, QueryAssumption DEF ReadTcp
    <3> QED  BY <2>1, <2>3, <3>1 DEF ReadTcp, Process, TypeOK
  <2>4. CASE ~DnsStep /\ ~(\E q \in Query : ReadTcp(q))
    BY <1>1, <2>4 DEF Next, StartProxy, ContinueStartup, ExitTimer, StopProxy, ReadDatagram,
       TransitionStep, vars
  <2> QED  BY <2>2, <2>3, <2>4
<1>2. OrderInv /\ [Next]_vars => [isInTransitionMode =>
         \A q \in UdpQuery : processed'[q] = processed[q]]_vars
  BY <1>1
<1>3. OrderInv /\ [Next]_vars => OrderInv'
  BY NextOrder
<1> QED  BY <1>2, <1>3, InitOrder, PTL DEF Spec, NoneProcessedInTransition

-----------------------------------------------------------------------------
(* Nothing is handled twice *)

DnsApart == \A i, j \in 1..Len(dnsQueue) : dnsQueue[i][2] = dnsQueue[j][2] => i = j

TransitionApart ==
    \A i, j \in 1..Len(transitionQueue), q \in UdpQuery :
        transitionQueue[i] = <<"hold", q>> /\ transitionQueue[j] = <<"hold", q>> => i = j

HeldApart == \A i, j \in 1..Len(queuedQueries) : queuedQueries[i] = queuedQueries[j] => i = j

\* A query waits in one place at a time, and in none before it arrives or once it
\* was processed.
PlaceOk(q) ==
    /\ OnDns(q) \/ OnTransition(q) \/ IsHeld(q) => q \in arrived /\ processed[q] = 0
    /\ ~(OnDns(q) /\ OnTransition(q))
    /\ ~(OnDns(q) /\ IsHeld(q))
    /\ ~(OnTransition(q) /\ IsHeld(q))
    /\ q \notin arrived => processed[q] = 0

OnePlace == \A q \in Query : PlaceOk(q)

OnceInv ==
    /\ TypeOK /\ DnsApart /\ TransitionApart /\ HeldApart
    /\ OnePlace /\ ProcessedAtMostOnce

LEMMA SameOnce ==
    ASSUME OnceInv, TypeOK', UNCHANGED << queuedQueries, transitionQueue, dnsQueue,
                                          arrived, processed >>
    PROVE  OnceInv'
<1>1. \A q : /\ OnDns(q)' <=> OnDns(q)
             /\ OnTransition(q)' <=> OnTransition(q)
             /\ IsHeld(q)' <=> IsHeld(q)
  BY DEF OnDns, OnTransition, IsHeld
<1>2. DnsApart' /\ TransitionApart' /\ HeldApart'
  BY DEF OnceInv, DnsApart, TransitionApart, HeldApart
<1> QED  BY <1>1, <1>2 DEF OnceInv, OnePlace, PlaceOk, ProcessedAtMostOnce

\* dnsQueue: the query of the next block leaves the queue, the others stay.
LEMMA DnsHead ==
    ASSUME OnceInv, DnsStep
    PROVE  LET q == Head(dnsQueue)[2]
           IN  /\ q \in UdpQuery /\ q \in Query /\ OnDns(q)
               /\ \A p \in Query : OnDns(p)' => OnDns(p) /\ p # q
               /\ DnsApart'
<1> DEFINE q == Head(dnsQueue)[2]
<1>1. TypeOK /\ DnsApart
  BY DEF OnceInv
<1>2. Head(dnsQueue) \in DnsBlock
  BY <1>1, HeadTailProperties DEF DnsStep, TypeOK
<1>3. q \in UdpQuery /\ q \in Query
  BY <1>2 DEF DnsBlock, Query
<1>4. 1 \in 1..Len(dnsQueue) /\ dnsQueue[1][2] = q
  BY <1>1, DnsTail
<1>5. OnDns(q)
  BY <1>4 DEF OnDns
<1>6. ASSUME NEW p \in Query, OnDns(p)' PROVE OnDns(p) /\ p # q
  <2>1. PICK i \in 1..Len(dnsQueue') : dnsQueue'[i][2] = p
    BY <1>6 DEF OnDns
  <2>2. /\ i + 1 \in 1..Len(dnsQueue) /\ dnsQueue[i + 1][2] = p /\ i + 1 # 1
    BY <1>1, <2>1, DnsTail
  <2> QED  BY <1>1, <1>4, <2>2 DEF OnDns, DnsApart
<1>7. DnsApart'
  <2> SUFFICES ASSUME NEW i \in 1..Len(dnsQueue'), NEW j \in 1..Len(dnsQueue'),
                      dnsQueue'[i][2] = dnsQueue'[j][2]
               PROVE  i = j
    BY DEF DnsApart
  <2>1. /\ i + 1 \in 1..Len(dnsQueue) /\ j + 1 \in 1..Len(dnsQueue)
        /\ dnsQueue[i + 1][2] = dnsQueue[j + 1][2]
    BY <1>1, DnsTail
  <2> QED  BY <1>1, <2>1 DEF DnsApart
<1> QED  BY <1>3, <1>5, <1>6, <1>7

\* transitionQueue: likewise for the query of a hold block.
LEMMA TransitionHead ==
    ASSUME OnceInv, TransitionStep
    PROVE  /\ TransitionApart'
           /\ \A p \in Query : OnTransition(p)' => OnTransition(p)
           /\ \A q : Head(transitionQueue) = <<"hold", q>> =>
                q \in UdpQuery /\ OnTransition(q) /\ ~OnTransition(q)'
<1>1. TypeOK /\ TransitionApart
  BY DEF OnceInv
<1>2. ASSUME NEW p, OnTransition(p)'
      PROVE  \E i \in 1..Len(transitionQueue) : i # 1 /\ transitionQueue[i] = <<"hold", p>>
  <2>1. PICK i \in 1..Len(transitionQueue') : transitionQueue'[i] = <<"hold", p>>
    BY <1>2 DEF OnTransition
  <2>2. /\ i + 1 \in 1..Len(transitionQueue) /\ i + 1 # 1
        /\ transitionQueue[i + 1] = <<"hold", p>>
    BY <1>1, <2>1, TransitionTail
  <2> QED  BY <2>2
<1>3. TransitionApart'
  <2> SUFFICES ASSUME NEW i \in 1..Len(transitionQueue'), NEW j \in 1..Len(transitionQueue'),
                      NEW q \in UdpQuery,
                      transitionQueue'[i] = <<"hold", q>>, transitionQueue'[j] = <<"hold", q>>
               PROVE  i = j
    BY DEF TransitionApart
  <2>1. /\ i + 1 \in 1..Len(transitionQueue) /\ j + 1 \in 1..Len(transitionQueue)
        /\ transitionQueue[i + 1] = <<"hold", q>> /\ transitionQueue[j + 1] = <<"hold", q>>
    BY <1>1, TransitionTail
  <2> QED  BY <1>1, <2>1 DEF TransitionApart
<1>4. \A p \in Query : OnTransition(p)' => OnTransition(p)
  BY <1>2 DEF OnTransition
<1>5. ASSUME NEW q, Head(transitionQueue) = <<"hold", q>>
      PROVE  q \in UdpQuery /\ OnTransition(q) /\ ~OnTransition(q)'
  <2>1. 1 \in 1..Len(transitionQueue) /\ transitionQueue[1] = <<"hold", q>>
    BY <1>1, <1>5, TransitionTail
  <2>2. q \in UdpQuery
    <3>1. <<"hold", q>> \in TransitionBlock
      BY <1>1, <2>1, TransitionTail
    <3> QED  BY <3>1 DEF TransitionBlock
  <2> QED  BY <1>1, <1>2, <2>1, <2>2 DEF OnTransition, TransitionApart
<1> QED  BY <1>3, <1>4, <1>5

\* A block with a query appended to a queue that does not have it yet.
LEMMA HoldAppended ==
    ASSUME OnceInv, NEW q \in UdpQuery, ~OnTransition(q),
           transitionQueue' = Append(transitionQueue, <<"hold", q>>)
    PROVE  /\ TransitionApart'
           /\ \A p \in Query : OnTransition(p)' => OnTransition(p) \/ p = q
<1>1. <<"hold", q>> \in TransitionBlock /\ transitionQueue \in Seq(TransitionBlock)
  BY DEF TransitionBlock, OnceInv, TypeOK
<1>2. /\ Len(transitionQueue) \in Nat /\ Len(transitionQueue') = Len(transitionQueue) + 1
      /\ \A i \in 1..Len(transitionQueue) : transitionQueue'[i] = transitionQueue[i]
      /\ transitionQueue'[Len(transitionQueue) + 1] = <<"hold", q>>
  BY <1>1, Longer
<1>3. \A p, r : <<"hold", p>> = <<"hold", r>> => p = r
  OBVIOUS
<1>4. TransitionApart'
  BY <1>2, <1>3 DEF OnceInv, TransitionApart, OnTransition
<1>5. \A p \in Query : OnTransition(p)' => OnTransition(p) \/ p = q
  BY <1>2, <1>3 DEF OnTransition
<1> QED  BY <1>4, <1>5

\* Processing q, which then waits nowhere.
LEMMA ProcessOnce ==
    ASSUME TypeOK, ProcessedAtMostOnce, NEW q \in Query, processed[q] = 0, Process(q)
    PROVE  /\ ProcessedAtMostOnce'
           /\ \A p \in Query : p # q => processed'[p] = processed[p]
  BY DEF TypeOK, ProcessedAtMostOnce, Process, Once

LEMMA OnceDnsStep ==
    ASSUME OnceInv, DnsStep, TypeOK'
    PROVE  OnceInv'
<1> DEFINE q == Head(dnsQueue)[2]
<1>1. /\ q \in UdpQuery /\ q \in Query /\ OnDns(q) /\ DnsApart'
      /\ \A p \in Query : OnDns(p)' => OnDns(p) /\ p # q
  BY DnsHead
<1>2. /\ q \in arrived /\ processed[q] = 0 /\ ~OnTransition(q) /\ ~IsHeld(q)
  BY <1>1 DEF OnceInv, OnePlace, PlaceOk
<1>3. /\ UNCHANGED << queuedQueries, arrived >> /\ HeldApart'
      /\ \A p : IsHeld(p)' <=> IsHeld(p)
  BY DEF DnsStep, modeVars, OnceInv, HeldApart, IsHeld
<1>4. CASE Process(q) /\ UNCHANGED transitionQueue
  <2>1. TransitionApart' /\ \A p : OnTransition(p)' <=> OnTransition(p)
    BY <1>4 DEF OnceInv, TransitionApart, OnTransition
  <2>2. ProcessedAtMostOnce' /\ \A p \in Query : p # q => processed'[p] = processed[p]
    BY <1>1, <1>2, <1>4, ProcessOnce DEF OnceInv
  <2>3. OnePlace'
    BY <1>1, <1>2, <1>3, <2>1, <2>2 DEF OnceInv, OnePlace, PlaceOk
  <2> QED  BY <1>1, <1>3, <2>1, <2>2, <2>3 DEF OnceInv
<1>5. CASE transitionQueue' = Append(transitionQueue, <<"hold", q>>) /\ UNCHANGED processed
  <2>1. TransitionApart' /\ \A p \in Query : OnTransition(p)' => OnTransition(p) \/ p = q
    BY <1>1, <1>2, <1>5, HoldAppended
  <2>2. OnePlace'
    BY <1>1, <1>2, <1>3, <1>5, <2>1 DEF OnceInv, OnePlace, PlaceOk
  <2> QED  BY <1>1, <1>3, <1>5, <2>1, <2>2 DEF OnceInv, ProcessedAtMostOnce
<1> QED  BY <1>4, <1>5 DEF DnsStep, ProcessWithQueuing

LEMMA OnceExit ==
    ASSUME OnceInv, TransitionStep, ExitTransitionMode, isInTransitionMode, TypeOK'
    PROVE  OnceInv'
<1> DEFINE blocks == ProcessBlocks(queuedQueries)
<1>1. /\ queuedQueries' = << >> /\ dnsQueue' = dnsQueue \o blocks
      /\ UNCHANGED << arrived, processed >>
  BY DEF ExitTransitionMode, TransitionStep
<1>2. /\ Len(queuedQueries) \in Nat /\ Len(blocks) = Len(queuedQueries)
      /\ blocks \in Seq(DnsBlock)
      /\ \A i \in 1..Len(queuedQueries) : blocks[i][2] = queuedQueries[i]
  BY LenProperties DEF OnceInv, TypeOK, ProcessBlocks, DnsBlock
<1> HIDE DEF blocks
<1>3. dnsQueue \in Seq(DnsBlock) /\ Len(dnsQueue) \in Nat
  BY LenProperties DEF OnceInv, TypeOK
<1>4. /\ Len(dnsQueue') = Len(dnsQueue) + Len(queuedQueries)
      /\ \A i \in 1..Len(dnsQueue') :
           dnsQueue'[i] = IF i <= Len(dnsQueue) THEN dnsQueue[i] ELSE blocks[i - Len(dnsQueue)]
  <2>1. /\ Len(dnsQueue \o blocks) = Len(dnsQueue) + Len(blocks)
        /\ \A i \in 1..Len(dnsQueue) + Len(blocks) :
             (dnsQueue \o blocks)[i] =
                IF i <= Len(dnsQueue) THEN dnsQueue[i] ELSE blocks[i - Len(dnsQueue)]
    BY <1>2, <1>3, ConcatProperties
  <2> QED  BY <2>1, <1>1, <1>2
<1>5. ASSUME NEW i \in 1..Len(dnsQueue')
      PROVE  \/ i \in 1..Len(dnsQueue) /\ dnsQueue'[i][2] = dnsQueue[i][2]
             \/ /\ i - Len(dnsQueue) \in 1..Len(queuedQueries)
                /\ dnsQueue'[i][2] = queuedQueries[i - Len(dnsQueue)]
  <2>1. CASE i <= Len(dnsQueue)
    BY <2>1, <1>3, <1>4
  <2>2. CASE ~(i <= Len(dnsQueue))
    <3>1. i - Len(dnsQueue) \in 1..Len(queuedQueries) /\ dnsQueue'[i] = blocks[i - Len(dnsQueue)]
      BY <2>2, <1>2, <1>3, <1>4
    <3> QED  BY <3>1, <1>2
  <2> QED  BY <2>1, <2>2
<1>6. \A p \in Query : OnDns(p)' => OnDns(p) \/ IsHeld(p)
  BY <1>5 DEF OnDns, IsHeld
<1>7. DnsApart'
  <2> SUFFICES ASSUME NEW i \in 1..Len(dnsQueue'), NEW j \in 1..Len(dnsQueue'),
                      dnsQueue'[i][2] = dnsQueue'[j][2]
               PROVE  i = j
    BY DEF DnsApart
  <2>1. ASSUME NEW k \in 1..Len(dnsQueue), NEW l \in 1..Len(queuedQueries),
               dnsQueue[k][2] = queuedQueries[l]
        PROVE  FALSE
    <3>1. queuedQueries[l] \in Query
      BY ElementOfSeq DEF OnceInv, TypeOK, Query
    <3> QED  BY <2>1, <3>1 DEF OnceInv, OnePlace, PlaceOk, OnDns, IsHeld
  <2>2. CASE i \in 1..Len(dnsQueue) /\ j \in 1..Len(dnsQueue)
    BY <2>2, <1>2, <1>3, <1>4, <1>5 DEF OnceInv, DnsApart
  <2>3. CASE ~(i \in 1..Len(dnsQueue)) /\ ~(j \in 1..Len(dnsQueue))
    <3>1. /\ i - Len(dnsQueue) \in 1..Len(queuedQueries)
          /\ j - Len(dnsQueue) \in 1..Len(queuedQueries)
          /\ queuedQueries[i - Len(dnsQueue)] = queuedQueries[j - Len(dnsQueue)]
      BY <2>3, <1>5
    <3>2. i - Len(dnsQueue) = j - Len(dnsQueue)
      BY <3>1 DEF OnceInv, HeldApart
    <3> QED  BY <3>2, <1>3, <1>4, <1>2
  <2>4. CASE ~(i \in 1..Len(dnsQueue) <=> j \in 1..Len(dnsQueue))
    BY <2>1, <2>4, <1>5
  <2> QED  BY <2>2, <2>3, <2>4
<1>8. HeldApart' /\ \A p : ~IsHeld(p)'
  BY <1>1, EmptySeq DEF HeldApart, IsHeld
<1>9. OnePlace'
  BY <1>1, <1>6, <1>8, TransitionHead DEF OnceInv, OnePlace, PlaceOk
<1> QED  BY <1>1, <1>7, <1>8, <1>9, TransitionHead DEF OnceInv, ProcessedAtMostOnce

LEMMA OnceHold ==
    ASSUME OnceInv, TransitionStep, isInTransitionMode, TypeOK',
           NEW q, Head(transitionQueue) = <<"hold", q>>, Hold(q)
    PROVE  OnceInv'
<1>1. /\ q \in UdpQuery /\ q \in Query /\ OnTransition(q) /\ ~OnTransition(q)'
      /\ TransitionApart'
      /\ \A p \in Query : OnTransition(p)' => OnTransition(p)
  BY TransitionHead DEF Query
<1>2. q \in arrived /\ processed[q] = 0 /\ ~OnDns(q) /\ ~IsHeld(q)
  BY <1>1 DEF OnceInv, OnePlace, PlaceOk
<1> DEFINE longer == Append(queuedQueries, q)
<1>3. /\ longer \in Seq(UdpQuery) /\ longer # << >>
      /\ Len(longer) = Len(queuedQueries) + 1 /\ longer[Len(queuedQueries) + 1] = q
      /\ \A i \in 1..Len(queuedQueries) : longer[i] = queuedQueries[i]
      /\ Len(queuedQueries) \in Nat
  <2>1. queuedQueries \in Seq(UdpQuery)
    BY DEF OnceInv, TypeOK
  <2> QED  BY <1>1, <2>1, AppendProperties, LenProperties
<1>4. /\ queuedQueries' \in {longer, Tail(longer)}
      /\ UNCHANGED << dnsQueue, arrived, processed >>
  BY DEF Hold, TransitionStep
<1> HIDE DEF longer
<1>5. \E d \in {0, 1} :
         /\ Len(queuedQueries') = Len(longer) - d
         /\ \A i \in 1..Len(queuedQueries') : queuedQueries'[i] = longer[i + d]
  <2>1. /\ Len(Tail(longer)) = Len(longer) - 1
        /\ \A i \in 1..Len(Tail(longer)) : Tail(longer)[i] = longer[i + 1]
    BY <1>3, HeadTailProperties
  <2>2. CASE queuedQueries' = longer
    BY <2>2, <1>3
  <2>3. CASE queuedQueries' = Tail(longer)
    BY <2>3, <2>1
  <2> QED  BY <1>4, <2>2, <2>3
<1>6. PICK d \in {0, 1} :
         /\ Len(queuedQueries') = Len(longer) - d
         /\ \A i \in 1..Len(queuedQueries') : queuedQueries'[i] = longer[i + d]
  BY <1>5
<1>7. \A i, j \in 1..Len(longer) : longer[i] = longer[j] => i = j
  BY <1>2, <1>3 DEF OnceInv, HeldApart, IsHeld
<1>8. HeldApart'
  <2> SUFFICES ASSUME NEW i \in 1..Len(queuedQueries'), NEW j \in 1..Len(queuedQueries'),
                      queuedQueries'[i] = queuedQueries'[j]
               PROVE  i = j
    BY DEF HeldApart
  <2>1. i + d \in 1..Len(longer) /\ j + d \in 1..Len(longer) /\ longer[i + d] = longer[j + d]
    BY <1>3, <1>6
  <2>2. i + d = j + d
    BY <1>7, <2>1
  <2> QED  BY <2>2
<1>9. ASSUME NEW p \in Query, IsHeld(p)' PROVE IsHeld(p) \/ p = q
  <2>1. PICK i \in 1..Len(queuedQueries') : queuedQueries'[i] = p
    BY <1>9 DEF IsHeld
  <2>2. i + d \in 1..Len(longer) /\ longer[i + d] = p
    BY <1>3, <1>6, <2>1
  <2> QED  BY <1>3, <2>2 DEF IsHeld
<1>10. DnsApart' /\ \A p \in Query : OnDns(p)' <=> OnDns(p)
  BY <1>4 DEF OnceInv, DnsApart, OnDns
<1>11. OnePlace'
  BY <1>1, <1>2, <1>4, <1>9, <1>10 DEF OnceInv, OnePlace, PlaceOk
<1> QED  BY <1>1, <1>4, <1>8, <1>10, <1>11 DEF OnceInv, ProcessedAtMostOnce

\* A block without a query, appended to transitionQueue.
LEMMA OnceDispatched ==
    ASSUME OnceInv, TypeOK', NEW b \in {<<"enter">>, <<"exit">>},
           transitionQueue' = Append(transitionQueue, b),
           UNCHANGED << queuedQueries, dnsQueue, arrived, processed >>
    PROVE  OnceInv'
<1>1. b \in TransitionBlock /\ transitionQueue \in Seq(TransitionBlock)
      /\ \A q : b # <<"hold", q>>
  BY DEF OnceInv, TypeOK, TransitionBlock
<1>2. \A i \in 1..Len(transitionQueue') : \A q :
         transitionQueue'[i] = <<"hold", q>> =>
             i \in 1..Len(transitionQueue) /\ transitionQueue[i] = <<"hold", q>>
  BY <1>1, Longer
<1>3. TransitionApart' /\ \A q \in Query : OnTransition(q)' => OnTransition(q)
  BY <1>2 DEF OnceInv, TransitionApart, OnTransition
<1>4. /\ DnsApart' /\ HeldApart'
      /\ \A q \in Query : OnDns(q)' <=> OnDns(q)
      /\ \A q \in Query : IsHeld(q)' <=> IsHeld(q)
  BY DEF OnceInv, DnsApart, HeldApart, OnDns, IsHeld
<1>5. OnePlace'
  <2> SUFFICES ASSUME NEW q \in Query PROVE PlaceOk(q)'
    BY DEF OnePlace
  <2>1. PlaceOk(q)
    BY DEF OnceInv, OnePlace
  <2>2. arrived' = arrived /\ processed' = processed
    OBVIOUS
  <2> QED  BY <1>3, <1>4, <2>1, <2>2 DEF PlaceOk
<1> QED  BY <1>3, <1>4, <1>5 DEF OnceInv, ProcessedAtMostOnce

LEMMA OnceReadDatagram ==
    ASSUME OnceInv, TypeOK', NEW q \in Query, ReadDatagram(q)
    PROVE  OnceInv'
<1>1. /\ q \in UdpQuery /\ q \notin arrived /\ <<"receive", q>> \in DnsBlock
      /\ arrived' = arrived \cup {q} /\ UNCHANGED << queuedQueries, transitionQueue, processed >>
  BY DEF ReadDatagram, DnsBlock, modeVars
<1>2. processed[q] = 0 /\ ~OnDns(q) /\ ~OnTransition(q) /\ ~IsHeld(q)
  BY <1>1 DEF OnceInv, OnePlace, PlaceOk
<1>3. /\ Len(dnsQueue) \in Nat /\ Len(dnsQueue') = Len(dnsQueue) + 1
      /\ \A i \in 1..Len(dnsQueue) : dnsQueue'[i] = dnsQueue[i]
      /\ dnsQueue'[Len(dnsQueue) + 1] = <<"receive", q>>
  BY <1>1, Longer DEF OnceInv, TypeOK, ReadDatagram
<1>4. DnsApart' /\ \A p \in Query : OnDns(p)' => OnDns(p) \/ p = q
  BY <1>2, <1>3 DEF OnceInv, DnsApart, OnDns
<1>5. /\ TransitionApart' /\ HeldApart'
      /\ \A p \in Query : OnTransition(p)' <=> OnTransition(p)
      /\ \A p \in Query : IsHeld(p)' <=> IsHeld(p)
  BY <1>1 DEF OnceInv, TransitionApart, HeldApart, OnTransition, IsHeld
<1>6. OnePlace'
  <2> SUFFICES ASSUME NEW p \in Query PROVE PlaceOk(p)'
    BY DEF OnePlace
  <2>1. PlaceOk(p)
    BY DEF OnceInv, OnePlace
  <2> QED  BY <1>1, <1>2, <1>4, <1>5, <2>1 DEF PlaceOk
<1> QED  BY <1>1, <1>4, <1>5, <1>6 DEF OnceInv, ProcessedAtMostOnce

LEMMA OnceReadTcp ==
    ASSUME OnceInv, TypeOK', NEW q \in Query, ReadTcp(q)
    PROVE  OnceInv'
<1>1. /\ q \notin arrived /\ arrived' = arrived \cup {q} /\ Process(q)
      /\ UNCHANGED << queuedQueries, transitionQueue, dnsQueue >>
  BY DEF ReadTcp, modeVars
<1>2. processed[q] = 0 /\ ~OnDns(q) /\ ~OnTransition(q) /\ ~IsHeld(q)
  BY <1>1 DEF OnceInv, OnePlace, PlaceOk
<1>3. ProcessedAtMostOnce' /\ \A p \in Query : p # q => processed'[p] = processed[p]
  BY <1>1, <1>2, ProcessOnce DEF OnceInv
<1>4. DnsApart' /\ TransitionApart' /\ HeldApart'
  BY <1>1 DEF OnceInv, DnsApart, TransitionApart, HeldApart
<1>5. \A p \in Query : /\ OnDns(p)' <=> OnDns(p)
                       /\ OnTransition(p)' <=> OnTransition(p)
                       /\ IsHeld(p)' <=> IsHeld(p)
  BY <1>1 DEF OnDns, OnTransition, IsHeld
<1>6. OnePlace'
  BY <1>1, <1>2, <1>3, <1>5 DEF OnceInv, OnePlace, PlaceOk
<1> QED  BY <1>3, <1>4, <1>6 DEF OnceInv

LEMMA NextOnce ==
    ASSUME OnceInv, [Next]_vars
    PROVE  OnceInv'
<1>0. TypeOK /\ TypeOK'
  BY NextType DEF OnceInv
<1>1. CASE StartProxy \/ ExitTimer
  BY <1>0, <1>1, OnceDispatched DEF StartProxy, ExitTimer, modeVars
<1>2. CASE ContinueStartup \/ StopProxy \/ UNCHANGED vars
  BY <1>0, <1>2, SameOnce DEF ContinueStartup, StopProxy, vars, modeVars
<1>3. CASE TransitionStep
  <2> DEFINE b == Head(transitionQueue)
  <2>1. b \in TransitionBlock
    BY <1>0, <1>3, TransitionTail
  <2>2. CASE UNCHANGED << queuedQueries, dnsQueue >>
    <3>1. /\ UNCHANGED << arrived, processed >> /\ TransitionApart'
          /\ \A p \in Query : OnTransition(p)' => OnTransition(p)
      BY <1>3, TransitionHead DEF TransitionStep
    <3>2. /\ DnsApart' /\ HeldApart'
          /\ \A p \in Query : OnDns(p)' <=> OnDns(p)
          /\ \A p \in Query : IsHeld(p)' <=> IsHeld(p)
      BY <2>2 DEF OnceInv, DnsApart, HeldApart, OnDns, IsHeld
    <3>3. OnePlace'
      <4> SUFFICES ASSUME NEW p \in Query PROVE PlaceOk(p)'
        BY DEF OnePlace
      <4>1. PlaceOk(p)
        BY DEF OnceInv, OnePlace
      <4> QED  BY <3>1, <3>2, <4>1 DEF PlaceOk
    <3> QED  BY <1>0, <3>1, <3>2, <3>3 DEF OnceInv, ProcessedAtMostOnce
  <2>3. CASE b[1] = "exit" /\ ExitTransitionMode
    BY <1>0, <1>3, <2>2, <2>3, OnceExit DEF ExitTransitionMode, modeVars
  <2>4. CASE b[1] = "hold" /\ Hold(b[2])
    <3>1. b = <<"hold", b[2]>>
      BY <2>1, <2>4 DEF TransitionBlock
    <3> QED  BY <1>0, <1>3, <2>2, <2>4, <3>1, OnceHold DEF Hold, modeVars
  <2> QED  BY <1>3, <2>2, <2>3, <2>4 DEF TransitionStep, EnterTransitionMode
<1> QED  BY <1>0, <1>1, <1>2, <1>3, OnceDnsStep, OnceReadDatagram, OnceReadTcp DEF Next

\* A query is processed at most once, whenever the mode changes between the two
\* readings of it.
THEOREM NothingTwice == Spec => []ProcessedAtMostOnce
<1>1. Init => OnceInv
  <2>1. Init => DnsApart /\ TransitionApart /\ HeldApart
    BY EmptySeq DEF Init, DnsApart, TransitionApart, HeldApart
  <2>2. Init => OnePlace /\ ProcessedAtMostOnce
    BY EmptySeq DEF Init, OnePlace, PlaceOk, ProcessedAtMostOnce, OnDns, OnTransition, IsHeld
  <2> QED  BY <2>1, <2>2, InitType DEF OnceInv
<1>2. OnceInv /\ [Next]_vars => OnceInv'
  BY NextOnce
<1>3. OnceInv => ProcessedAtMostOnce
  BY DEF OnceInv
<1> QED  BY <1>1, <1>2, <1>3, PTL DEF Spec
=============================================================================
