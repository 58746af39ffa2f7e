---------------------------- MODULE UpdateScheduler ----------------------------
(***************************************************************************)
(* The scheduler of rule updates (UpdateScheduler.m), with the delegate     *)
(* that carries its tasks out (RuleManager.m) and the reachability monitor  *)
(* that tells it of network changes (NetworkReachability.m).                *)
(*                                                                         *)
(* Every public operation only dispatches a block to the serial             *)
(* schedulerQueue, also when a block of the scheduler calls it: an          *)
(* operation called by a block runs after whatever was queued before.       *)
(***************************************************************************)
EXTENDS Naturals, FiniteSets, SequencesExt

CONSTANTS
    Source,             \* rule sources
    Priority,           \* of an update
    NormalPriority, HighPriority,
    UpdateOnStart, UpdateOnNetworkChange, \* from the configuration
    MaxConcurrent,      \* most active tasks: 3 in the code
    Network,            \* what the path monitor may report: [status, expensive]
    ReachableStatus,    \* the statuses that count as reachable
    Calls,              \* operations called from outside the scheduler
    MaxBlocks,          \* bound: whoever calls finds fewer blocks queued
    MaxNotices          \* bound: status changes not yet delivered

ASSUME PriorityAssumption ==
    /\ Priority \subseteq Nat
    /\ {NormalPriority, HighPriority} \subseteq Priority
    /\ NormalPriority < HighPriority
ASSUME ConfigurationAssumption == {UpdateOnStart, UpdateOnNetworkChange} \subseteq BOOLEAN
ASSUME ConcurrencyAssumption == MaxConcurrent \in Nat \ {0}
ASSUME NetworkAssumption ==
    \A n \in Network : /\ n = [status |-> n.status, expensive |-> n.expensive]
                       /\ n.expensive \in BOOLEAN
ASSUME SourceAssumption == IsFiniteSet(Source)

VARIABLES
    state,              \* of the scheduler
    sources,            \* sources added
    pendingQueue,       \* tasks waiting, most urgent first
    activeTasks,        \* tasks given to the delegate, in that order
    networkPaused,
    schedulerQueue,     \* blocks dispatched to the queue of this name
    path,               \* the latest path reported by the monitor
    notices             \* blocks of notifyStatusChange not yet run

networkVars == << path, notices >>
taskVars == << pendingQueue, activeTasks >>
vars == << state, sources, taskVars, networkPaused, schedulerQueue, networkVars >>

Status == {"unknown"} \cup { n.status : n \in Network }

Block ==
    ({"start", "stop", "pause", "resume", "removeAll", "cancelAll"} \X {<<>>})
        \cup ({"add", "remove", "cancel"} \X Source)
        \cup ({"update"} \X (Source \X Priority))
        \cup ({"updateAll"} \X Priority)
        \cup ({"network"} \X Status)

ASSUME CallsAssumption == Calls \subseteq Block
ASSUME BoundAssumption == {MaxBlocks, MaxNotices} \subseteq Nat

Task == [source : Source, priority : Priority]

\* What became of an active task.  The delegate runs it as an operation.
Stage == {"waiting", "updating", "ended"}
ActiveTask == [source : Source, cancelled : BOOLEAN, stage : Stage]

-----------------------------------------------------------------------------
(* UpdateSchedulerQueue *)

\* Fault: the priority is not looked at.
EnqueueLast(q, t) == Append(q, t)

\* enqueueTask: before the first task of lower priority; one of the same priority was
\* scheduled earlier, as time does not go back.
Enqueue(q, t) ==
    InsertAt(q, Min({ i \in 1..Len(q) : q[i].priority < t.priority } \cup {Len(q) + 1}), t)

Waits(q, s) == \E i \in 1..Len(q) : q[i].source = s

Position(q, s) == CHOOSE i \in 1..Len(q) : q[i].source = s

\* removeTasksForSource: a filter, which finds one task at most (PendingOnce).
RemoveSource(q, s) == IF Waits(q, s) THEN RemoveAt(q, Position(q, s)) ELSE q

-----------------------------------------------------------------------------
(* Handing tasks to the delegate *)

Begun(t) == [source |-> t.source, cancelled |-> FALSE, stage |-> "waiting"]

\* The first n pending tasks become active.
Hand(n, pending, active) ==
    /\ pendingQueue' = SubSeq(pending, n + 1, Len(pending))
    /\ activeTasks' = active \o [i \in 1..n |-> Begun(pending[i])]

\* Fault: the network is not looked at.
ProcessWhenPaused(st, paused, pending, active) ==
    IF st = "running"
    THEN Hand(Min({MaxConcurrent - Len(active), Len(pending)}), pending, active)
    ELSE pendingQueue' = pending /\ activeTasks' = active

\* Fault: one task more than there is capacity for.
ProcessOneMore(st, paused, pending, active) ==
    IF st = "running" /\ ~paused
    THEN Hand(Min({MaxConcurrent + 1 - Len(active), Len(pending)}), pending, active)
    ELSE pendingQueue' = pending /\ activeTasks' = active

\* processPendingTasks, when the scheduler is in state st with these tasks: pending
\* tasks are handed over while there is capacity.
Process(st, paused, pending, active) ==
    IF st = "running" /\ ~paused
    THEN Hand(Min({MaxConcurrent - Len(active), Len(pending)}), pending, active)
    ELSE pendingQueue' = pending /\ activeTasks' = active

-----------------------------------------------------------------------------
(* What a block does; "rest" is the queue behind it *)

Then(rest, blocks) == schedulerQueue' = rest \o blocks

Start(rest) ==
    IF state = "running"
    THEN Then(rest, << >>) /\ UNCHANGED << state, taskVars >>
    ELSE /\ state' = "running"
         /\ Then(rest, IF UpdateOnStart THEN << <<"updateAll", HighPriority>> >> ELSE << >>)
         /\ Process("running", networkPaused, pendingQueue, activeTasks)

\* The wait for active tasks that follows is not visible here: see README.
Stop(rest) ==
    IF state = "stopped"
    THEN Then(rest, << >>) /\ UNCHANGED state
    ELSE state' = "stopped" /\ Then(rest, << <<"cancelAll", <<>>>> >>)

Pause(rest) ==
    /\ state' = IF state = "running" THEN "paused" ELSE state
    /\ Then(rest, << >>)

\* Fault: the tasks that came in during the pause are not looked at.
ResumeIdle(rest) ==
    /\ Then(rest, << >>)
    /\ state' = IF state = "paused" THEN "running" ELSE state
    /\ UNCHANGED taskVars

Resume(rest) ==
    /\ Then(rest, << >>)
    /\ IF state = "paused"
       THEN state' = "running" /\ Process("running", networkPaused, pendingQueue, activeTasks)
       ELSE UNCHANGED << state, taskVars >>

AddRuleSource(rest, s) ==
    /\ sources' = sources \cup {s}
    /\ Then(rest, IF s \notin sources /\ state = "running" /\ UpdateOnStart
                  THEN << <<"update", <<s, NormalPriority>>>> >> ELSE << >>)

RemoveRuleSource(rest, s) ==
    /\ sources' = sources \ {s}
    /\ pendingQueue' = RemoveSource(pendingQueue, s)
    /\ Then(rest, << >>)

RemoveAllRuleSources(rest) ==
    /\ sources' = {}
    /\ pendingQueue' = << >>
    /\ Then(rest, << >>)

\* Fault: no look at what is pending already.
UpdateSourceAgain(rest, s, p) ==
    /\ Then(rest, << >>)
    /\ IF s \notin sources THEN UNCHANGED taskVars
       ELSE Process(state, networkPaused,
                    Enqueue(pendingQueue, [source |-> s, priority |-> p]), activeTasks)

\* Fault: the pending task is replaced whatever its priority.
UpdateSourceReplace(rest, s, p) ==
    /\ Then(rest, << >>)
    /\ LET task == [source |-> s, priority |-> p]
       IN  \/ s \notin sources /\ UNCHANGED taskVars
           \/ /\ s \in sources /\ Waits(pendingQueue, s)
              /\ pendingQueue' = Enqueue(RemoveSource(pendingQueue, s), task)
              /\ UNCHANGED activeTasks
           \/ /\ s \in sources /\ ~Waits(pendingQueue, s)
              /\ Process(state, networkPaused, Enqueue(pendingQueue, task), activeTasks)

\* updateSource:priority:.  A pending task is only raised, and then not looked at
\* for capacity; a task that is active already is not looked at.
UpdateSource(rest, s, p) ==
    /\ Then(rest, << >>)
    /\ LET task == [source |-> s, priority |-> p]
       IN  \/ s \notin sources /\ UNCHANGED taskVars
           \/ /\ s \in sources /\ Waits(pendingQueue, s)
              /\ pendingQueue' = IF p > pendingQueue[Position(pendingQueue, s)].priority
                                 THEN Enqueue(RemoveSource(pendingQueue, s), task)
                                 ELSE pendingQueue
              /\ UNCHANGED activeTasks
           \/ /\ s \in sources /\ ~Waits(pendingQueue, s)
              /\ Process(state, networkPaused, Enqueue(pendingQueue, task), activeTasks)

\* updateAllSourcesWithPriority: one update per source, in the dictionary's order.
UpdateAllSources(rest, p) ==
    \E order \in SetToSeqs(sources) :
        Then(rest, [i \in 1..Len(order) |-> <<"update", <<order[i], p>>>>])

Cancelled(s) == [ i \in 1..Len(activeTasks) |->
    [activeTasks[i] EXCEPT !.cancelled = @ \/ activeTasks[i].source \in s] ]

CancelUpdateForSource(rest, s) ==
    /\ pendingQueue' = RemoveSource(pendingQueue, s)
    /\ activeTasks' = Cancelled({s})
    /\ Then(rest, << >>)

CancelAllUpdates(rest) ==
    /\ pendingQueue' = << >>
    /\ activeTasks' = Cancelled(Source)
    /\ Then(rest, << >>)

\* The block of networkReachabilityDidChange: the status is the one handed over,
\* whether the network is expensive is read now.
NetworkChanged(rest, status) ==
    \/ /\ path.expensive
       /\ networkPaused' = TRUE
       /\ Then(rest, << >>)
       /\ UNCHANGED taskVars
    \/ /\ ~path.expensive /\ status \in ReachableStatus
       /\ networkPaused' = FALSE
       /\ IF networkPaused THEN Process(state, FALSE, pendingQueue, activeTasks)
                           ELSE UNCHANGED taskVars
       /\ Then(rest, IF UpdateOnNetworkChange
                     THEN << <<"updateAll", NormalPriority>> >> ELSE << >>)
    \/ /\ ~path.expensive /\ status \notin ReachableStatus
       /\ Then(rest, << >>)
       /\ UNCHANGED << networkPaused, taskVars >>

-----------------------------------------------------------------------------
(* Steps *)

\* Anyone calls a public operation: the rule manager, an update strategy's timer.
Call(block) ==
    /\ Len(schedulerQueue) < MaxBlocks
    /\ schedulerQueue' = Append(schedulerQueue, block)
    /\ UNCHANGED << state, sources, taskVars, networkPaused, networkVars >>

\* schedulerQueue runs its next block.
SchedulerStep ==
    /\ schedulerQueue # << >>
    /\ LET rest == Tail(schedulerQueue)
           op   == Head(schedulerQueue)[1]
           arg  == Head(schedulerQueue)[2]
       IN  \/ op = "start" /\ Start(rest) /\ UNCHANGED << sources, networkPaused >>
           \/ op = "stop" /\ Stop(rest) /\ UNCHANGED << sources, taskVars, networkPaused >>
           \/ op = "pause" /\ Pause(rest) /\ UNCHANGED << sources, taskVars, networkPaused >>
           \/ op = "resume" /\ Resume(rest) /\ UNCHANGED << sources, networkPaused >>
           \/ /\ op = "add" /\ AddRuleSource(rest, arg)
              /\ UNCHANGED << state, taskVars, networkPaused >>
           \/ /\ op = "remove" /\ RemoveRuleSource(rest, arg)
              /\ UNCHANGED << state, activeTasks, networkPaused >>
           \/ /\ op = "removeAll" /\ RemoveAllRuleSources(rest)
              /\ UNCHANGED << state, activeTasks, networkPaused >>
           \/ /\ op = "update" /\ UpdateSource(rest, arg[1], arg[2])
              /\ UNCHANGED << state, sources, networkPaused >>
           \/ /\ op = "updateAll" /\ UpdateAllSources(rest, arg)
              /\ UNCHANGED << state, sources, taskVars, networkPaused >>
           \/ /\ op = "cancel" /\ CancelUpdateForSource(rest, arg)
              /\ UNCHANGED << state, sources, networkPaused >>
           \/ /\ op = "cancelAll" /\ CancelAllUpdates(rest)
              /\ UNCHANGED << state, sources, networkPaused >>
           \/ op = "network" /\ NetworkChanged(rest, arg) /\ UNCHANGED << state, sources >>
    /\ UNCHANGED networkVars

Staged(i, stage) == activeTasks' = [activeTasks EXCEPT ![i].stage = stage]

\* The operation the delegate made of task i starts: it looks once whether the task
\* was cancelled.
BeginOperation(i) ==
    /\ activeTasks[i].stage = "waiting"
    /\ Staged(i, IF activeTasks[i].cancelled THEN "ended" ELSE "updating")
    /\ UNCHANGED << state, sources, pendingQueue, networkPaused, schedulerQueue, networkVars >>

\* completeUpdateWithResult: marks the task, which stays active.
CompleteUpdate(i) ==
    /\ activeTasks[i].stage = "updating"
    /\ Staged(i, "ended")
    /\ UNCHANGED << state, sources, pendingQueue, networkPaused, schedulerQueue, networkVars >>

\* handlePathUpdate: the delegate is told only when the status changed.
PathUpdate(n) ==
    /\ n # path
    /\ notices < MaxNotices
    /\ path' = n
    /\ notices' = IF n.status # path.status THEN notices + 1 ELSE notices
    /\ UNCHANGED << state, sources, taskVars, networkPaused, schedulerQueue >>

\* The block of notifyStatusChange, on the delegate queue: hands over the status
\* of that moment.
Notify ==
    /\ notices > 0
    /\ Len(schedulerQueue) < MaxBlocks
    /\ notices' = notices - 1
    /\ schedulerQueue' = Append(schedulerQueue, <<"network", path.status>>)
    /\ UNCHANGED << state, sources, taskVars, networkPaused, path >>

Init ==
    /\ state = "stopped"
    /\ sources = {}
    /\ pendingQueue = << >>
    /\ activeTasks = << >>
    /\ networkPaused = FALSE
    /\ schedulerQueue = << >>
    /\ path = [status |-> "unknown", expensive |-> FALSE]
    /\ notices = 0

Next ==
    \/ \E block \in Calls : Call(block)
    \/ SchedulerStep
    \/ \E i \in 1..Len(activeTasks) : BeginOperation(i) \/ CompleteUpdate(i)
    \/ \E n \in Network : PathUpdate(n)
    \/ Notify

Spec == Init /\ [][Next]_vars

-----------------------------------------------------------------------------
(* Properties *)

\* The variables keep their types, and no more tasks are active than
\* maxConcurrentUpdates allows (processPendingTasks).
TypeOK ==
    /\ state \in {"stopped", "running", "paused"}
    /\ sources \in SUBSET Source
    /\ pendingQueue \in Seq(Task)
    /\ activeTasks \in Seq(ActiveTask)
    /\ Len(activeTasks) <= MaxConcurrent
    /\ networkPaused \in BOOLEAN
    /\ schedulerQueue \in Seq(Block)
    /\ path \in [status : Status, expensive : BOOLEAN]
    /\ notices \in Nat

\* A source has one pending task at most, whatever mixture of requests, raises and
\* removals came before, and it is a source the scheduler still has.
PendingOnce ==
    /\ \A i, j \in 1..Len(pendingQueue) :
           pendingQueue[i].source = pendingQueue[j].source => i = j
    /\ \A i \in 1..Len(pendingQueue) : pendingQueue[i].source \in sources

\* The pending tasks are in the order of their priorities (enqueueTask), also after
\* one was raised from the middle of the queue.
PendingOrdered ==
    \A i, j \in 1..Len(pendingQueue) :
        i < j => pendingQueue[i].priority >= pendingQueue[j].priority

\* A running scheduler that the network does not hold up leaves no task waiting
\* while it has capacity, although only some of the ways into this state look at
\* the pending tasks.
WorkConserving ==
    state = "running" /\ ~networkPaused /\ pendingQueue # << >>
        => Len(activeTasks) >= MaxConcurrent

\* No task is handed to the delegate while the scheduler is stopped or paused or the
\* network is paused, not even by a step that changes one of these.
BegunOnlyWhenRunning ==
    [][Len(activeTasks') > Len(activeTasks) => state' = "running" /\ ~networkPaused']_vars

\* Seen from outside, the scheduler is a pool: whatever order its blocks run in, a
\* request waits once and at its greatest priority until it is withdrawn or handed
\* over, the most urgent go first and as many as there is capacity for, and a task
\* that was handed over keeps its place (updateSource, processPendingTasks).
Pool == INSTANCE UpdatePool WITH
    waiting <- Range(pendingQueue),
    working <- Len(activeTasks),
    open <- state = "running" /\ ~networkPaused

IsAPool == Pool!PoolSpec

\* Said by updateSource and completeUpdateWithResult: pending tasks are processed
\* "if we have capacity", and the scheduler learns that a task completed.  When
\* everything has ended and nothing is queued, no task of a running scheduler waits.
NoneStarved ==
    /\ state = "running" /\ ~networkPaused /\ schedulerQueue = << >>
    /\ \A i \in 1..Len(activeTasks) : activeTasks[i].stage = "ended"
    => pendingQueue = << >>

=============================================================================
