---------------------------- MODULE TransitionQueue ----------------------------
(***************************************************************************)
(* The queue that holds DNS queries back while the extension starts        *)
(* (ProxyProvider/FlowManagement.m and Provider.m).                         *)
(*                                                                         *)
(* Two serial dispatch queues are at work.  The mode and the held queries   *)
(* are changed on transitionQueue, but a query is handled on dnsQueue,       *)
(* which reads the mode without synchronising; a TCP query is handled on     *)
(* the callback thread of its flow.  One block of a queue is one action.    *)
(***************************************************************************)
EXTENDS Naturals, Sequences

CONSTANTS
    UdpQuery, TcpQuery, \* the queries that may arrive, each at most once
    QueueLimit          \* most queries held: 1000 in the code

ASSUME QueryAssumption == UdpQuery \cap TcpQuery = {}
ASSUME LimitAssumption == QueueLimit \in Nat \ {0}

VARIABLES
    phase,              \* of the provider: see Phase
    exitTimer,          \* the 0.5 s dispatch_after of the start-up is pending
    isInTransitionMode,
    transitionQueue,    \* blocks dispatched to the queue of this name
    dnsQueue,           \* blocks dispatched to the queue of this name
    queuedQueries,      \* the queries held back, oldest first
    arrived,            \* queries read from their flows
    held,               \* every query ever held back, in that order
    released,           \* every query released by the exit, in that order
    dropped,            \* queries removed because too many were held
    processed           \* query -> times processDNSQuery ran for it (up to 2)

startVars == << phase, exitTimer >>
modeVars == << isInTransitionMode, queuedQueries, held, released, dropped >>
vars == << startVars, modeVars, transitionQueue, dnsQueue, arrived, processed >>

Query == UdpQuery \cup TcpQuery

Phase == {"idle", "starting", "failed", "running", "stopped"}

\* What a block does, and to which query where there is one.
TransitionBlock == {<<"enter">>, <<"exit">>} \cup ({"hold"} \X UdpQuery)
DnsBlock == {"receive", "process"} \X UdpQuery

-----------------------------------------------------------------------------
(* Starting and stopping *)

\* startProxyWithOptions: up to the start-up proper: enterTransitionMode only
\* dispatches the change of mode.
StartProxy ==
    /\ phase = "idle"
    /\ phase' = "starting"
    /\ transitionQueue' = Append(transitionQueue, <<"enter">>)
    /\ UNCHANGED << exitTimer, modeVars, dnsQueue, arrived, processed >>

\* Fault: the start-up ends without arranging to leave transition mode.
ContinueStartupNoExit ==
    /\ phase = "starting"
    /\ phase' = "running"
    /\ UNCHANGED << exitTimer, modeVars, transitionQueue, dnsQueue, arrived, processed >>

\* continueStartupWithOptions: the rule database may fail to open; otherwise the
\* exit is scheduled and the completion handler lets flows in.
ContinueStartup ==
    /\ phase = "starting"
    /\ \/ phase' = "failed" /\ UNCHANGED exitTimer
       \/ phase' = "running" /\ exitTimer' = TRUE
    /\ UNCHANGED << modeVars, transitionQueue, dnsQueue, arrived, processed >>

\* The block of the start-up's dispatch_after.  Stopping does not cancel it.
ExitTimer ==
    /\ exitTimer
    /\ exitTimer' = FALSE
    /\ transitionQueue' = Append(transitionQueue, <<"exit">>)
    /\ UNCHANGED << phase, modeVars, dnsQueue, arrived, processed >>

\* stopProxyWithReason: touches neither the mode nor the held queries.
StopProxy ==
    /\ phase = "running"
    /\ phase' = "stopped"
    /\ UNCHANGED << exitTimer, modeVars, transitionQueue, dnsQueue, arrived, processed >>

-----------------------------------------------------------------------------
(* Queries *)

Once(n) == IF n = 2 THEN 2 ELSE n + 1

Process(q) == processed' = [processed EXCEPT ![q] = Once(@)]

\* A datagram is read: its handling is dispatched to dnsQueue.
ReadDatagram(q) ==
    /\ phase = "running"
    /\ q \in UdpQuery \ arrived
    /\ arrived' = arrived \cup {q}
    /\ dnsQueue' = Append(dnsQueue, <<"receive", q>>)
    /\ UNCHANGED << startVars, modeVars, transitionQueue, processed >>

\* A query is read from a TCP flow: processed there and then, in any mode.
ReadTcp(q) ==
    /\ phase = "running"
    /\ q \in TcpQuery \ arrived
    /\ arrived' = arrived \cup {q}
    /\ Process(q)
    /\ UNCHANGED << startVars, modeVars, transitionQueue, dnsQueue >>

\* Fault: no return after dispatching the query to the transition queue.
ProcessWithQueuingNoReturn(q) ==
    /\ transitionQueue' = IF isInTransitionMode
                          THEN Append(transitionQueue, <<"hold", q>>)
                          ELSE transitionQueue
    /\ Process(q)

\* processDNSQueryWithQueuing: the mode is read on dnsQueue.
ProcessWithQueuing(q) ==
    IF isInTransitionMode
    THEN transitionQueue' = Append(transitionQueue, <<"hold", q>>) /\ UNCHANGED processed
    ELSE Process(q) /\ UNCHANGED transitionQueue

\* dnsQueue runs its next block.
DnsStep ==
    /\ dnsQueue # << >>
    /\ dnsQueue' = Tail(dnsQueue)
    /\ LET q == Head(dnsQueue)[2]
       IN  \/ /\ Head(dnsQueue)[1] = "receive"
              /\ ProcessWithQueuing(q)
           \/ /\ Head(dnsQueue)[1] = "process"
              /\ Process(q)
              /\ UNCHANGED transitionQueue
    /\ UNCHANGED << startVars, modeVars, arrived >>

-----------------------------------------------------------------------------
(* Blocks of transitionQueue *)

EnterTransitionMode ==
    /\ isInTransitionMode' = TRUE
    /\ UNCHANGED << queuedQueries, held, released, dropped, dnsQueue >>

ProcessBlocks(qs) == [ i \in 1..Len(qs) |-> <<"process", qs[i]>> ]

\* exitTransitionModeAndProcessQueue: leaves the mode and dispatches every held
\* query to dnsQueue, oldest first.
ExitTransitionMode ==
    IF isInTransitionMode
    THEN /\ isInTransitionMode' = FALSE
         /\ queuedQueries' = << >>
         /\ released' = released \o queuedQueries
         /\ dnsQueue' = dnsQueue \o ProcessBlocks(queuedQueries)
         /\ UNCHANGED << held, dropped >>
    ELSE UNCHANGED << modeVars, dnsQueue >>

\* Fault: the limit lets one query too many in.
HoldOneTooMany(q) ==
    IF ~isInTransitionMode
    THEN UNCHANGED << modeVars, dnsQueue >>
    ELSE LET longer == Append(queuedQueries, q)
         IN  /\ held' = Append(held, q)
             /\ IF Len(longer) > QueueLimit + 1
                THEN queuedQueries' = Tail(longer) /\ dropped' = dropped \cup {Head(longer)}
                ELSE queuedQueries' = longer /\ UNCHANGED dropped
             /\ UNCHANGED << isInTransitionMode, released, dnsQueue >>

\* Fault: the mode is not read again before the query is held.
HoldUnchecked(q) ==
    /\ held' = Append(held, q)
    /\ queuedQueries' = Append(queuedQueries, q)
    /\ UNCHANGED << isInTransitionMode, released, dropped, dnsQueue >>

\* Fault: a full queue drops the query that came last.
HoldDropsNewest(q) ==
    IF ~isInTransitionMode
    THEN UNCHANGED << modeVars, dnsQueue >>
    ELSE /\ held' = Append(held, q)
         /\ IF Len(queuedQueries) = QueueLimit
            THEN dropped' = dropped \cup {q} /\ UNCHANGED queuedQueries
            ELSE queuedQueries' = Append(queuedQueries, q) /\ UNCHANGED dropped
         /\ UNCHANGED << isInTransitionMode, released, dnsQueue >>

\* The block processDNSQueryWithQueuing dispatched: reads the mode again; when it
\* was left meanwhile, the block does nothing with the query.
Hold(q) ==
    IF ~isInTransitionMode
    THEN UNCHANGED << modeVars, dnsQueue >>
    ELSE LET longer == Append(queuedQueries, q)
         IN  /\ held' = Append(held, q)
             /\ IF Len(longer) > QueueLimit
                THEN queuedQueries' = Tail(longer) /\ dropped' = dropped \cup {Head(longer)}
                ELSE queuedQueries' = longer /\ UNCHANGED dropped
             /\ UNCHANGED << isInTransitionMode, released, dnsQueue >>

\* transitionQueue runs its next block.
TransitionStep ==
    /\ transitionQueue # << >>
    /\ transitionQueue' = Tail(transitionQueue)
    /\ LET b == Head(transitionQueue)
       IN  \/ b[1] = "enter" /\ EnterTransitionMode
           \/ b[1] = "exit"  /\ ExitTransitionMode
           \/ b[1] = "hold"  /\ Hold(b[2])
    /\ UNCHANGED << startVars, arrived, processed >>

-----------------------------------------------------------------------------

Init ==
    /\ phase = "idle"
    /\ exitTimer = FALSE
    /\ isInTransitionMode = FALSE
    /\ transitionQueue = << >>
    /\ dnsQueue = << >>
    /\ queuedQueries = << >>
    /\ arrived = {}
    /\ held = << >>
    /\ released = << >>
    /\ dropped = {}
    /\ processed = [q \in Query |-> 0]

Next ==
    \/ StartProxy \/ ContinueStartup \/ ExitTimer \/ StopProxy
    \/ \E q \in Query : ReadDatagram(q) \/ ReadTcp(q)
    \/ DnsStep \/ TransitionStep

Spec == Init /\ [][Next]_vars

\* A start-up that began ends, its timer fires and dispatched blocks run.
Fairness ==
    /\ WF_vars(ContinueStartup) /\ WF_vars(ExitTimer)
    /\ WF_vars(DnsStep) /\ WF_vars(TransitionStep)

FairSpec == Spec /\ Fairness

-----------------------------------------------------------------------------
(* Properties *)

\* The types, and the bound on the queries held.
TypeOK ==
    /\ phase \in Phase
    /\ exitTimer \in BOOLEAN
    /\ isInTransitionMode \in BOOLEAN
    /\ transitionQueue \in Seq(TransitionBlock)
    /\ dnsQueue \in Seq(DnsBlock)
    /\ queuedQueries \in Seq(UdpQuery) /\ Len(queuedQueries) <= QueueLimit
    /\ arrived \subseteq Query
    /\ held \in Seq(UdpQuery)
    /\ released \in Seq(UdpQuery)
    /\ dropped \subseteq UdpQuery
    /\ processed \in [Query -> 0..2]

\* Between reading the mode on dnsQueue and again on transitionQueue no query is
\* handled twice, whenever the mode changes.
ProcessedAtMostOnce == \A q \in Query : processed[q] <= 1

\* A query is held only while something is still to release it: were a query
\* held after the exit, no one would ever come for it.
HeldOnlyInTransition == queuedQueries # << >> => isInTransitionMode

\* The held queries are the newest ones, in their order;
\* the exit releases all of them, so what was dropped is older than what survives.
NewestSurvive ==
    LET kept == IF isInTransitionMode THEN queuedQueries ELSE released
    IN  /\ Len(kept) <= Len(held)
        /\ \A i \in 1..Len(kept) : kept[i] = held[Len(held) - Len(kept) + i]

\* While the mode is on no UDP query is processed, on whichever queue.
NoneProcessedInTransition ==
    [][isInTransitionMode => \A q \in UdpQuery : processed'[q] = processed[q]]_vars

\* Every start-up leaves transition mode for good, also when the proxy is stopped
\* within the half second, unless the database failed to open.
EventuallyLeaves ==
    (phase = "running") ~> [](~isInTransitionMode /\ queuedQueries = << >>)

\* Where a query waits: in a block of a queue, or held back.
OnDns(q) == \E i \in 1..Len(dnsQueue) : dnsQueue[i][2] = q
OnTransition(q) == \E i \in 1..Len(transitionQueue) : transitionQueue[i] = <<"hold", q>>
IsHeld(q) == \E i \in 1..Len(queuedQueries) : queuedQueries[i] = q

\* "Queue the query for later processing": a query that arrives is waiting,
\* processed, or dropped because of the limit (FlowManagement.m, lines 145-169).
NothingLost ==
    \A q \in arrived :
        OnDns(q) \/ OnTransition(q) \/ IsHeld(q) \/ q \in dropped \/ processed[q] > 0

=============================================================================
