------------------------------ MODULE UpdatePool ------------------------------
(***************************************************************************)
(* What UpdateScheduler promises whoever asks for updates: requests wait,    *)
(* one per source and at its greatest urgency, while the pool is closed or   *)
(* full, and the most urgent are handed over as soon as it is neither.       *)
(* Nothing is said of queues, blocks, or how the pool comes to open.         *)
(***************************************************************************)
EXTENDS Naturals, FiniteSets

CONSTANTS Source, Priority, MaxConcurrent

VARIABLES
    waiting,            \* requests, each [source, priority]
    working,            \* how many were handed over
    open                \* whether any may be

pool == << waiting, working, open >>

\* The requests when s is asked for with priority p: the more urgent of two stays.
With(s, p) ==
    IF \E r \in waiting : r.source = s /\ r.priority >= p
    THEN waiting
    ELSE { r \in waiting : r.source # s } \cup {[source |-> s, priority |-> p]}

\* An open pool hands over the most urgent of these requests, as many as it can.
HandOver(requests) ==
    \E chosen \in SUBSET requests :
        /\ chosen # {} => open'
        /\ \A r \in chosen : \A left \in requests \ chosen : r.priority >= left.priority
        /\ waiting' = requests \ chosen
        /\ working' = working + Cardinality(chosen)
        /\ working' <= MaxConcurrent
        /\ open' => waiting' = {} \/ working' = MaxConcurrent

Request(s, p) == HandOver(With(s, p)) /\ UNCHANGED open

Withdraw(sources) ==
    /\ waiting' = { r \in waiting : r.source \notin sources }
    /\ UNCHANGED << working, open >>

OpenOrClose == open' = ~open /\ HandOver(waiting)

PoolInit == waiting = {} /\ working = 0 /\ open = FALSE

PoolNext ==
    \/ \E s \in Source, p \in Priority : Request(s, p)
    \/ \E sources \in SUBSET Source : Withdraw(sources)
    \/ OpenOrClose

PoolSpec == PoolInit /\ [][PoolNext]_pool

=============================================================================
