--------------------------- MODULE UpdateStrategies ---------------------------
(***************************************************************************)
(* One update strategy of a rule source (UpdateStrategy.m): the base class *)
(* with its serial strategyQueue, and the interval, scheduled, manual,     *)
(* push and adaptive strategies with their one-shot timer.                 *)
(*                                                                         *)
(* The caller is the scheduler on its own serial queue, so one call ends   *)
(* before the next begins, while the blocks the calls leave on             *)
(* strategyQueue run beside them.  The program starts and stops            *)
(* strategies; the other calls of the interface are here, too.  Delegate   *)
(* and source are set before the first call.  Time is counted in units     *)
(* that divide a day; a timer's handler runs after the time it was set to, *)
(* any time after.                                                         *)
(***************************************************************************)
EXTENDS Integers, Sequences, SequencesExt, FiniteSets, FiniteSetsExt

CONSTANTS
    DayLength,        \* units of time in a day
    Schedules,        \* [times, days] a scheduled strategy may have
    Intervals,        \* what updateInterval or fallbackInterval may be, <= 0 too
    Jitter,           \* how far jitter moves an interval
    MinimumInterval,  \* between manual updates
    HistoryLimit,     \* updates that are remembered
    NoTime,           \* a nil date, no timer
    MaxTime,          \* bound: how long a behaviour is
    MaxCalls          \* bound: calls made of the strategy

ASSUME StrategyAssumption ==
    /\ DayLength \in Nat \ {0} /\ NoTime \notin Int
    /\ Intervals \subseteq Int /\ IsFiniteSet(Intervals)
    /\ Jitter \in Nat /\ MinimumInterval \in Nat
    /\ HistoryLimit \in Nat \ {0} /\ MaxTime \in Nat /\ MaxCalls \in Nat

UpdateStrategyType == {"Interval", "Scheduled", "Manual", "Dynamic"}

StrategyClass == {"interval", "scheduled", "manual", "push", "adaptive"}

\* scheduledTimes and daysOfWeek, both empty.
NoSchedule == [times |-> {}, days |-> {}]

\* UpdateStrategyFactory: the classes that are registered, and by what setting.
StrategyOfType ==
    [Interval |-> "interval", Scheduled |-> "scheduled", Manual |-> "manual",
     Dynamic |-> "push"]
StrategyForConfiguration(setting) ==
    StrategyOfType[IF setting = "Push" THEN "Dynamic"
                   ELSE IF setting \in {"Scheduled", "Manual"} THEN setting ELSE "Interval"]
RegisteredClass == {StrategyForConfiguration(s) : s \in {"Interval", "Scheduled", "Manual", "Push"}}

-----------------------------------------------------------------------------
(* The time a scheduled strategy waits for *)

Minutes == 0 .. DayLength - 1

\* Weekdays are 0 .. 6; no days is every day.
OnAllowedDay(time, days) == days = {} \/ (time \div DayLength) % 7 \in days

\* For one time of the list: today, or the first allowed day after it.  A time is
\* passed over when today is not an allowed day, and when it is no time of a day.
Candidates(minute, days, time) ==
    LET today == DayLength * (time \div DayLength) + minute
        later == {today + DayLength * k : k \in 1 .. 8} IN
    IF minute \notin Minutes \/ ~OnAllowedDay(today, days) THEN {}
    ELSE IF today >= time THEN {today}
    ELSE {CHOOSE t \in later :
              /\ OnAllowedDay(t, days)
              /\ \A u \in later : OnAllowedDay(u, days) => t <= u}

CalculateNextScheduledTime(schedule, time) ==
    LET all == UNION {Candidates(m, schedule.days, time) : m \in schedule.times} IN
    IF all = {} THEN NoTime ELSE Min(all)

-----------------------------------------------------------------------------
VARIABLES
    strategyClass,
    schedule,           \* scheduledTimes and daysOfWeek
    updateInterval,     \* updateInterval, fallbackInterval or currentInterval
    isActive,
    updateTimer,        \* when it is due; scheduledTimer, fallbackTimer
    strategyQueue,
    callerAt,           \* "fallback": a push strategy's start has its last line to do
    lastManualTrigger,
    networkChecks,      \* checks an adaptive strategy has left for later
    isExpensive,        \* what the network is
    now,
    updateHistory,      \* when updates were asked for
    strategyCalls       \* calls made so far

strategyVars == <<strategyClass, schedule, updateInterval, isActive, updateTimer, strategyQueue,
                  callerAt, lastManualTrigger, networkChecks, isExpensive, now, updateHistory,
                  strategyCalls>>
settings == <<strategyClass, schedule>>
environment == <<isExpensive, now, strategyCalls>>

StrategyBlock == {"start", "stop", "trigger", "triggerBase", "push", "success", "failure",
                  "check", "timer"}

\* A timer that is cancelled or replaced does nothing any more, even when it is due
\* and its one handler waits on the queue.
HandlersIn(queue) == {i \in DOMAIN queue : queue[i] = "timer"}
WithoutTimer(queue) ==
    IF HandlersIn(queue) = {} THEN queue
    ELSE RemoveAt(queue, CHOOSE i \in HandlersIn(queue) : TRUE)

CancelScheduledUpdate(queue) ==
    updateTimer' = NoTime /\ strategyQueue' = WithoutTimer(queue)

Arm(time, queue) == updateTimer' = time /\ strategyQueue' = WithoutTimer(queue)

\* scheduleNextUpdate of each class; "queue" is what is left on strategyQueue.
ScheduleInterval(queue) ==
    IF updateInterval' <= 0 THEN CancelScheduledUpdate(queue)
    ELSE \E j \in -Jitter .. Jitter :
            Arm(now + IF updateInterval' + j < 0 THEN 0 ELSE updateInterval' + j, queue)

\* A time that is now is one in the past when it is looked at again.
ScheduleScheduled(queue) ==
    LET next == CalculateNextScheduledTime(schedule, now) IN
    IF next = NoTime THEN CancelScheduledUpdate(queue)
    ELSE \/ Arm(next, queue)
         \/ next = now /\ CancelScheduledUpdate(queue)

ScheduleFallbackTimer(queue) ==
    IF updateInterval' <= 0 THEN CancelScheduledUpdate(queue)
    ELSE Arm(now + updateInterval', queue)

\* isLowBattery is always NO.  The check that is left for later is no timer that
\* can be cancelled.
ScheduleAdaptive(queue) ==
    IF isExpensive THEN CancelScheduledUpdate(queue) /\ networkChecks' = networkChecks + 1
    ELSE Arm(now + updateInterval', queue) /\ UNCHANGED networkChecks

ScheduleNextUpdate(queue) ==
    /\ \/ strategyClass = "interval" /\ ScheduleInterval(queue)
       \/ strategyClass = "scheduled" /\ ScheduleScheduled(queue)
       \/ strategyClass = "manual" /\ strategyQueue' = queue /\ UNCHANGED updateTimer
       \/ strategyClass = "push" /\ ScheduleFallbackTimer(queue)
       \/ strategyClass = "adaptive" /\ ScheduleAdaptive(queue)
    /\ strategyClass # "adaptive" => UNCHANGED networkChecks

\* Fault: one update too many is kept.
NotifyAndKeepOneMore ==
    updateHistory' = LET all == Append(updateHistory, now)
                     IN SubSeq(all, Max({1, Len(all) - HistoryLimit}), Len(all))

\* notifyDelegateShouldUpdate, and recordUpdate, which keeps the last ones.
NotifyDelegateShouldUpdate ==
    updateHistory' = LET all == Append(updateHistory, now)
                     IN SubSeq(all, Max({1, Len(all) - HistoryLimit + 1}), Len(all))

-----------------------------------------------------------------------------
(* Calls, each of which leaves a block on strategyQueue *)

Calls(block) ==
    /\ callerAt = "idle" /\ strategyCalls < MaxCalls
    /\ strategyCalls' = strategyCalls + 1
    /\ strategyQueue' = Append(strategyQueue, block)
    /\ UNCHANGED <<settings, isActive, updateTimer, lastManualTrigger, networkChecks,
                   isExpensive, now, updateHistory>>

\* startWithConfiguration, with the one configuration the strategy was made for: a
\* push strategy sets its fallback timer on the caller's thread.
StartWithConfiguration ==
    /\ Calls("start")
    /\ UNCHANGED updateInterval
    /\ callerAt' = IF strategyClass = "push" THEN "fallback" ELSE "idle"

PushStartsFallback ==
    /\ callerAt = "fallback" /\ callerAt' = "idle"
    /\ UNCHANGED updateInterval
    /\ ScheduleFallbackTimer(strategyQueue)
    /\ UNCHANGED <<settings, environment, isActive, lastManualTrigger, networkChecks,
                   updateHistory>>

StopStrategy == Calls("stop") /\ UNCHANGED <<updateInterval, callerAt>>
TriggerImmediateUpdate ==
    /\ Calls(IF strategyClass = "manual" THEN "trigger" ELSE "triggerBase")
    /\ UNCHANGED <<updateInterval, callerAt>>
HandlePushNotification ==
    strategyClass = "push" /\ Calls("push") /\ UNCHANGED <<updateInterval, callerAt>>
RecordUpdateSuccess ==
    /\ strategyClass = "adaptive"
    /\ Calls("success") \/ Calls("failure")
    /\ UNCHANGED <<updateInterval, callerAt>>

-----------------------------------------------------------------------------
(* Blocks of strategyQueue *)

Runs(block) ==
    /\ strategyQueue # <<>> /\ Head(strategyQueue) = block
    /\ UNCHANGED <<settings, environment, callerAt>>

StartBlock ==
    /\ Runs("start")
    /\ isActive' = TRUE
    /\ UNCHANGED updateInterval
    /\ IF isActive
       THEN strategyQueue' = Tail(strategyQueue) /\ UNCHANGED <<updateTimer, networkChecks>>
       ELSE ScheduleNextUpdate(Tail(strategyQueue))
    /\ UNCHANGED <<lastManualTrigger, updateHistory>>

\* Fault: the timer is left running.
StopBlockOnly ==
    /\ Runs("stop")
    /\ isActive' = FALSE
    /\ strategyQueue' = Tail(strategyQueue)
    /\ UNCHANGED <<updateInterval, updateTimer, lastManualTrigger, networkChecks, updateHistory>>

StopBlock ==
    /\ Runs("stop")
    /\ isActive' = FALSE
    /\ IF isActive THEN CancelScheduledUpdate(Tail(strategyQueue))
       ELSE strategyQueue' = Tail(strategyQueue) /\ UNCHANGED updateTimer
    /\ UNCHANGED <<updateInterval, lastManualTrigger, networkChecks, updateHistory>>

\* canTriggerUpdate: a manual trigger is counted before it is known whether the
\* strategy is active, and passed on in a block of its own.
CanTriggerUpdate ==
    lastManualTrigger = NoTime \/ now - lastManualTrigger >= MinimumInterval

TriggerBlock ==
    /\ Runs("trigger")
    /\ IF CanTriggerUpdate
       THEN /\ lastManualTrigger' = now
            /\ strategyQueue' = Append(Tail(strategyQueue), "triggerBase")
       ELSE strategyQueue' = Tail(strategyQueue) /\ UNCHANGED lastManualTrigger
    /\ UNCHANGED <<updateInterval, isActive, updateTimer, networkChecks, updateHistory>>

TriggerBaseBlock ==
    /\ Runs("triggerBase")
    /\ strategyQueue' = Tail(strategyQueue)
    /\ IF isActive THEN NotifyDelegateShouldUpdate ELSE UNCHANGED updateHistory
    /\ UNCHANGED <<updateInterval, isActive, updateTimer, lastManualTrigger, networkChecks>>

PushBlock ==
    /\ Runs("push")
    /\ UNCHANGED updateInterval
    /\ IF isActive THEN ScheduleFallbackTimer(Tail(strategyQueue)) /\ NotifyDelegateShouldUpdate
       ELSE strategyQueue' = Tail(strategyQueue) /\ UNCHANGED <<updateTimer, updateHistory>>
    /\ UNCHANGED <<isActive, lastManualTrigger, networkChecks>>

\* recordUpdateSuccess: longer after success, shorter after failure, within the
\* limits; the next update is scheduled whether the strategy is active or not.
RecordBlock ==
    /\ \/ Runs("success") /\ updateInterval' = Min({updateInterval + 1, Max(Intervals)})
       \/ Runs("failure") /\ updateInterval' = Max({updateInterval - 1, 1})
    /\ ScheduleNextUpdate(Tail(strategyQueue))
    /\ UNCHANGED <<isActive, lastManualTrigger, updateHistory>>

\* scheduleNetworkCheck, five minutes later
CheckBlock ==
    /\ Runs("check")
    /\ UNCHANGED updateInterval
    /\ IF isActive THEN ScheduleNextUpdate(Tail(strategyQueue))
       ELSE strategyQueue' = Tail(strategyQueue) /\ UNCHANGED <<updateTimer, networkChecks>>
    /\ UNCHANGED <<isActive, lastManualTrigger, updateHistory>>

\* The handler of a timer: an adaptive strategy waits to be told the outcome.
TimerBlock ==
    /\ Runs("timer")
    /\ NotifyDelegateShouldUpdate
    /\ UNCHANGED updateInterval
    /\ IF strategyClass = "adaptive"
       THEN strategyQueue' = Tail(strategyQueue) /\ updateTimer' = NoTime /\ UNCHANGED networkChecks
       ELSE ScheduleNextUpdate(Tail(strategyQueue))
    /\ UNCHANGED <<isActive, lastManualTrigger>>

-----------------------------------------------------------------------------
(* Time and network *)

Elapses ==
    /\ now < MaxTime /\ now' = now + 1
    /\ UNCHANGED <<settings, updateInterval, isActive, updateTimer, strategyQueue, callerAt,
                   lastManualTrigger, networkChecks, isExpensive, updateHistory, strategyCalls>>

TimerDue ==
    /\ updateTimer # NoTime /\ updateTimer < now
    /\ ~ \E i \in DOMAIN strategyQueue : strategyQueue[i] = "timer"
    /\ strategyQueue' = Append(strategyQueue, "timer")
    /\ UNCHANGED <<settings, updateInterval, isActive, updateTimer, callerAt, lastManualTrigger,
                   networkChecks, environment, updateHistory>>

CheckDue ==
    /\ networkChecks > 0
    /\ networkChecks' = networkChecks - 1
    /\ strategyQueue' = Append(strategyQueue, "check")
    /\ UNCHANGED <<settings, updateInterval, isActive, updateTimer, callerAt, lastManualTrigger,
                   environment, updateHistory>>

NetworkCostChanges ==
    /\ strategyClass = "adaptive" /\ isExpensive' = ~isExpensive
    /\ UNCHANGED <<settings, updateInterval, isActive, updateTimer, strategyQueue, callerAt,
                   lastManualTrigger, networkChecks, now, updateHistory, strategyCalls>>

StrategyInit ==
    /\ strategyClass \in StrategyClass
    /\ schedule \in Schedules
    /\ strategyClass # "scheduled" => schedule = NoSchedule
    /\ updateInterval \in Intervals
    /\ strategyClass = "adaptive" => updateInterval > 0
    /\ isActive = FALSE
    /\ updateTimer = NoTime
    /\ strategyQueue = <<>>
    /\ callerAt = "idle"
    /\ lastManualTrigger = NoTime
    /\ networkChecks = 0
    /\ isExpensive = FALSE
    /\ now = 0
    /\ updateHistory = <<>>
    /\ strategyCalls = 0

StrategyNext ==
    \/ StartWithConfiguration \/ PushStartsFallback \/ StopStrategy
    \/ TriggerImmediateUpdate \/ HandlePushNotification \/ RecordUpdateSuccess
    \/ StartBlock \/ StopBlock \/ TriggerBlock \/ TriggerBaseBlock \/ PushBlock
    \/ RecordBlock \/ CheckBlock \/ TimerBlock
    \/ Elapses \/ TimerDue \/ CheckDue \/ NetworkCostChanges

StrategySpec == StrategyInit /\ [][StrategyNext]_strategyVars

-----------------------------------------------------------------------------
(* Properties *)

\* What each class has of its own; what it has not stays as it was made.
WithoutSchedule == schedule = NoSchedule
WithoutTriggers == lastManualTrigger = NoTime
WithoutChecks == networkChecks = 0 /\ ~isExpensive

IntervalUpdateStrategy ==
    /\ strategyClass = "interval" /\ updateInterval \in Intervals
    /\ WithoutSchedule /\ WithoutTriggers /\ WithoutChecks

ScheduledUpdateStrategy ==
    /\ strategyClass = "scheduled" /\ schedule \in Schedules
    /\ WithoutTriggers /\ WithoutChecks

ManualUpdateStrategy ==
    /\ strategyClass = "manual" /\ lastManualTrigger \in Int \cup {NoTime}
    /\ updateTimer = NoTime /\ WithoutSchedule /\ WithoutChecks

PushUpdateStrategy ==
    /\ strategyClass = "push" /\ updateInterval \in Intervals
    /\ WithoutSchedule /\ WithoutTriggers /\ WithoutChecks

AdaptiveUpdateStrategy ==
    /\ strategyClass = "adaptive" /\ updateInterval \in 1 .. Max(Intervals)
    /\ networkChecks \in Nat /\ isExpensive \in BOOLEAN
    /\ WithoutSchedule /\ WithoutTriggers

UpdateStrategyBase ==
    /\ isActive \in BOOLEAN
    /\ strategyQueue \in Seq(StrategyBlock)
    /\ updateHistory \in Seq(Int) /\ Len(updateHistory) <= HistoryLimit

StrategyTypeOK ==
    /\ UpdateStrategyBase
    /\ \/ IntervalUpdateStrategy \/ ScheduledUpdateStrategy \/ ManualUpdateStrategy
       \/ PushUpdateStrategy \/ AdaptiveUpdateStrategy
    /\ updateTimer \in Int \cup {NoTime}
    /\ callerAt = "fallback" => strategyClass = "push"
    /\ now \in 0 .. MaxTime /\ strategyCalls \in 0 .. MaxCalls

\* A strategy that can be configured asks for an update only while it is active: a
\* stop leaves neither its timer nor one that was due behind, though a push
\* strategy's start sets its timer on the caller's thread, beside the blocks
\* (UpdateStrategy.m:60-87, 481-530).
AsksOnlyWhenActive ==
    [][updateHistory' # updateHistory /\ strategyClass \in RegisteredClass => isActive]_strategyVars

=============================================================================
