------------------------ MODULE NetworkReachability ------------------------
(***************************************************************************)
(* The reachability monitor and the two parties that want to hear from it: *)
(* the proxy provider, which puts itself into the monitor's one delegate   *)
(* slot when it is created, and the update scheduler of every rule manager *)
(* the provider makes: one, with no sources, when it is created itself,    *)
(* and the one it works with during startup.  A scheduler that goes empties *)
(* the slot, whoever is in it.                                             *)
(*                                                                         *)
(* Paths are handled on monitorQueue, where the monitor's state changes;   *)
(* delegates and waiters are called on delegateQueue, and are told the     *)
(* status of that moment.                                                  *)
(***************************************************************************)
EXTENDS Integers, Sequences, Selection, FiniteSets

CONSTANTS
    Paths,        \* the paths that may be reported: [satisfied, interfaces]
    Waiter,       \* completion blocks of waitForConnectivityWithTimeout
    MaxNotices,   \* bound on the blocks of delegateQueue when a path is reported
    MaxStarts     \* bound on the times the proxy stops

NetworkStatus == {"Unknown", "NotReachable", "WiFi", "Cellular", "Wired", "Loopback",
                  "Other"}
NetworkConnectionType == {"WiFi", "Cellular", "Wired", "Loopback", "Other"}

ASSUME NetworkAssumption ==
    /\ Paths \subseteq [satisfied: BOOLEAN, interfaces: SUBSET NetworkConnectionType]
    /\ MaxNotices \in Nat /\ MaxStarts \in Nat

NetworkStatusIsReachable(status) == status \notin {"Unknown", "NotReachable"}

VARIABLES
    isMonitoring,
    currentStatus, previousStatus,
    availableConnectionTypes,
    reachabilityDelegate,   \* the one delegate
    connectivityWaiters,    \* in the order in which they came
    monitorBlocks,          \* blocks on monitorQueue that add a waiter
    delegateBlocks,         \* delegateQueue
    timeouts,               \* waiters whose timeout has not passed yet
    waiterAnswers,          \* what each waiter's block was called with
    posted,                 \* the statuses of the last notification
    startup,                \* how far the provider has come
    updatesStarted,         \* whether it has told its rule manager to start
    releasing,              \* schedulers nobody holds any more, not yet deallocated
    starts

pathState == <<isMonitoring, currentStatus, previousStatus, availableConnectionTypes>>
waiting == <<connectivityWaiters, monitorBlocks, timeouts>>
providerState == <<startup, updatesStarted, releasing, starts>>
networkVars == <<pathState, reachabilityDelegate, waiting, delegateBlocks, waiterAnswers,
                 posted, providerState>>

Notice == [does: {"status"}, waiters: {<<>>}, connected: {FALSE}]
Answer == [does: {"answer"}, waiters: Seq(Waiter), connected: BOOLEAN]
StatusNotice == [does |-> "status", waiters |-> <<>>, connected |-> FALSE]
Answering(ws, connected) == [does |-> "answer", waiters |-> ws, connected |-> connected]

-----------------------------------------------------------------------------
(* Paths *)

\* The first of these interfaces that the path has; all but WiFi are overridden by
\* one that comes earlier in this order, wherever the path lists it.
Preference == <<"WiFi", "Cellular", "Wired", "Loopback">>

StatusFromPath(path) ==
    LET has == {i \in DOMAIN Preference : Preference[i] \in path.interfaces}
    IN  CASE ~path.satisfied -> "NotReachable"
          [] path.satisfied /\ has = {} -> "Other"
          [] OTHER -> Preference[CHOOSE i \in has : \A j \in has : i <= j]

ConnectionTypesFromPath(path) == IF path.satisfied THEN path.interfaces ELSE {}

\* Fault: the status is compared with the one before the last.
StatusChangedLate(newStatus) == newStatus # previousStatus

StatusChanged(newStatus) == newStatus # currentStatus

\* handlePathUpdate: a path of the same status moves previousStatus, too.
HandlePathUpdate(path) ==
    LET newStatus == StatusFromPath(path)
        released == IF NetworkStatusIsReachable(newStatus) THEN connectivityWaiters ELSE <<>>
    IN  /\ isMonitoring /\ Len(delegateBlocks) <= MaxNotices
        /\ previousStatus' = currentStatus
        /\ currentStatus' = newStatus
        /\ availableConnectionTypes' = ConnectionTypesFromPath(path)
        /\ connectivityWaiters' = IF released = <<>> THEN connectivityWaiters ELSE <<>>
        /\ delegateBlocks' = delegateBlocks
               \o (IF StatusChanged(newStatus) THEN <<StatusNotice>> ELSE <<>>)
               \o (IF released # <<>> THEN <<Answering(released, TRUE)>> ELSE <<>>)
        /\ UNCHANGED <<isMonitoring, reachabilityDelegate, monitorBlocks, timeouts,
                       waiterAnswers, posted, providerState>>

\* networkReachabilityDidChange of the provider, which has a rule manager of one
\* kind or the other.  What the scheduler does is in UpdateScheduler.
ProviderHears(status) ==
    updatesStarted' = (updatesStarted \/ NetworkStatusIsReachable(status))

Recorded(ws, connected) ==
    [w \in Waiter |-> IF \E i \in DOMAIN ws : ws[i] = w
                      THEN Append(waiterAnswers[w], connected) ELSE waiterAnswers[w]]

\* delegateQueue's next block: notifyStatusChange's, or one that calls waiters.
DelegateIsTold ==
    /\ delegateBlocks # <<>>
    /\ LET next == Head(delegateBlocks) IN
       \/ /\ next.does = "status"
          /\ IF reachabilityDelegate = "provider" THEN ProviderHears(currentStatus)
                                                  ELSE UNCHANGED updatesStarted
          /\ posted' = [from |-> previousStatus, to |-> currentStatus]
          /\ UNCHANGED waiterAnswers
       \/ /\ next.does = "answer"
          /\ waiterAnswers' = Recorded(next.waiters, next.connected)
          /\ UNCHANGED <<posted, updatesStarted>>
    /\ delegateBlocks' = Tail(delegateBlocks)
    /\ UNCHANGED <<pathState, reachabilityDelegate, waiting, startup, releasing, starts>>

-----------------------------------------------------------------------------
(* Waiting for connectivity *)

\* waitForConnectivityWithTimeout: the status is read where the caller runs, the
\* waiter is added on monitorQueue.
WaitForConnectivity(w) ==
    /\ waiterAnswers[w] = <<>> /\ w \notin timeouts
    /\ \A i \in DOMAIN delegateBlocks : \A j \in DOMAIN delegateBlocks[i].waiters :
           delegateBlocks[i].waiters[j] # w
    /\ \/ /\ NetworkStatusIsReachable(currentStatus)
          /\ delegateBlocks' = Append(delegateBlocks, Answering(<<w>>, TRUE))
          /\ UNCHANGED <<monitorBlocks, timeouts>>
       \/ /\ ~NetworkStatusIsReachable(currentStatus)
          /\ monitorBlocks' = Append(monitorBlocks, w)
          /\ timeouts' = timeouts \cup {w}
          /\ UNCHANGED delegateBlocks
    /\ UNCHANGED <<pathState, reachabilityDelegate, connectivityWaiters, waiterAnswers,
                   posted, providerState>>

AddWaiter ==
    /\ monitorBlocks # <<>>
    /\ connectivityWaiters' = Append(connectivityWaiters, Head(monitorBlocks))
    /\ monitorBlocks' = Tail(monitorBlocks)
    /\ UNCHANGED <<pathState, reachabilityDelegate, timeouts, delegateBlocks, waiterAnswers,
                   posted, providerState>>

WithoutWaiter(w) == Those(connectivityWaiters, Waiter \ {w})

\* The block of dispatch_after, queued behind the one that adds the waiter: one
\* that is not in the list any more has been answered.
WaitTimesOut(w) ==
    /\ w \in timeouts
    /\ \A i \in DOMAIN monitorBlocks : monitorBlocks[i] # w
    /\ timeouts' = timeouts \ {w}
    /\ connectivityWaiters' = WithoutWaiter(w)
    /\ delegateBlocks' = IF \E i \in DOMAIN connectivityWaiters : connectivityWaiters[i] = w
                         THEN Append(delegateBlocks, Answering(<<w>>, FALSE))
                         ELSE delegateBlocks
    /\ UNCHANGED <<pathState, reachabilityDelegate, monitorBlocks, waiterAnswers, posted,
                   providerState>>

-----------------------------------------------------------------------------
(* The provider *)

\* init: the first rule manager's scheduler takes the slot, then the provider.
InitProvider ==
    /\ startup = "stopped"
    /\ startup' = "created"
    /\ reachabilityDelegate' = "provider"
    /\ updatesStarted' = FALSE
    /\ UNCHANGED <<pathState, waiting, delegateBlocks, waiterAnswers, posted, releasing,
                   starts>>

\* The end of startProxyWithOptions: monitoring starts, and startup goes on without
\* waiting for the first path.
StartMonitoring ==
    /\ startup = "created"
    /\ isMonitoring' = TRUE
    /\ startup' = "monitoring"
    /\ UNCHANGED <<currentStatus, previousStatus, availableConnectionTypes,
                   reachabilityDelegate, waiting, delegateBlocks, waiterAnswers, posted,
                   updatesStarted, releasing, starts>>

\* The second rule manager's scheduler takes the slot; the first manager goes.
CreateRuleManager ==
    /\ startup = "monitoring"
    /\ startup' = "managed"
    /\ reachabilityDelegate' = "scheduler"
    /\ updatesStarted' = FALSE
    /\ releasing' = releasing + 1
    /\ UNCHANGED <<pathState, waiting, delegateBlocks, waiterAnswers, posted, starts>>

\* Updates start at once only when the network is reachable.
FinishStartup ==
    /\ startup = "managed"
    /\ startup' = "started"
    /\ updatesStarted' = (updatesStarted \/ NetworkStatusIsReachable(currentStatus))
    /\ UNCHANGED <<pathState, reachabilityDelegate, waiting, delegateBlocks, waiterAnswers,
                   posted, releasing, starts>>

\* dealloc of a scheduler, at once or after the last block that holds its manager.
SchedulerDealloc ==
    /\ releasing > 0
    /\ releasing' = releasing - 1
    /\ reachabilityDelegate' = "none"
    /\ UNCHANGED <<pathState, waiting, delegateBlocks, waiterAnswers, posted, startup,
                   updatesStarted, starts>>

\* stopProxyWithReason; the provider goes, and its rule manager with it.
StopMonitoring ==
    /\ startup = "started" /\ starts < MaxStarts
    /\ starts' = starts + 1
    /\ isMonitoring' = FALSE
    /\ currentStatus' = "Unknown"
    /\ reachabilityDelegate' = "none"
    /\ startup' = "stopped"
    /\ updatesStarted' = FALSE
    /\ releasing' = releasing + 1
    /\ UNCHANGED <<previousStatus, availableConnectionTypes, waiting, delegateBlocks,
                   waiterAnswers, posted>>

-----------------------------------------------------------------------------
NetworkInit ==
    /\ isMonitoring = FALSE
    /\ currentStatus = "Unknown" /\ previousStatus = "Unknown"
    /\ availableConnectionTypes = {}
    /\ reachabilityDelegate = "none"
    /\ connectivityWaiters = <<>> /\ monitorBlocks = <<>> /\ delegateBlocks = <<>>
    /\ timeouts = {}
    /\ waiterAnswers = [w \in Waiter |-> <<>>]
    /\ posted = [from |-> "Unknown", to |-> "Unknown"]
    /\ startup = "stopped" /\ updatesStarted = FALSE /\ releasing = 0 /\ starts = 0

NetworkNext ==
    \/ \E path \in Paths : HandlePathUpdate(path)
    \/ DelegateIsTold
    \/ \E w \in Waiter : WaitForConnectivity(w) \/ WaitTimesOut(w)
    \/ AddWaiter
    \/ InitProvider
    \/ StartMonitoring
    \/ CreateRuleManager
    \/ FinishStartup
    \/ SchedulerDealloc
    \/ StopMonitoring

NetworkSpec == NetworkInit /\ [][NetworkNext]_networkVars

-----------------------------------------------------------------------------
(* Properties *)

\* The variables keep their types.
NetworkTypeOK ==
    /\ isMonitoring \in BOOLEAN /\ updatesStarted \in BOOLEAN
    /\ {currentStatus, previousStatus} \subseteq NetworkStatus
    /\ availableConnectionTypes \subseteq NetworkConnectionType
    /\ reachabilityDelegate \in {"none", "provider", "scheduler"}
    /\ connectivityWaiters \in Seq(Waiter) /\ monitorBlocks \in Seq(Waiter)
    /\ delegateBlocks \in Seq(Notice \cup Answer)
    /\ timeouts \subseteq Waiter
    /\ waiterAnswers \in [Waiter -> Seq(BOOLEAN)]
    /\ posted \in [from: NetworkStatus, to: NetworkStatus]
    /\ startup \in {"stopped", "created", "monitoring", "managed", "started"}
    /\ releasing \in Nat /\ starts \in 0 .. MaxStarts

\* When delegateQueue has come to rest, the last notification said what the status
\* is, although notifications are told the status of their own moment, several may
\* be on their way at once, and a monitor that is stopped forgets the status.
ToldTheLatest ==
    (\A i \in DOMAIN delegateBlocks : delegateBlocks[i].does # "status")
        /\ currentStatus # "Unknown"
    => posted.to = currentStatus

=============================================================================
