---------------------------- MODULE RuleFetcher ----------------------------
(***************************************************************************)
(* One rule fetcher: RuleFetcherBase with its serial fetchQueue and        *)
(* delegateQueue, and below it either an HTTPRuleFetcher, whose session    *)
(* calls back on a queue of its own, or a FileRuleFetcher, which reads on  *)
(* its fileQueue.                                                          *)
(*                                                                         *)
(* A fetcher has one of two users.  The rule manager keeps one per source, *)
(* asks it again for every update of the source and never cancels.  The    *)
(* manifest resolver makes one per URL, asks once, without retries, and    *)
(* cancels when it has waited too long.                                    *)
(*                                                                         *)
(* The block to be called at the end is read from the property             *)
(* completionBlock when delegateQueue gets to it, not when it is queued,   *)
(* and HTTPRuleFetcher's callbacks call that property themselves: it       *)
(* declares it again, so its accessors are the ones the base class uses,   *)
(* too, and the block it is given by performFetchWithRetry is dropped.     *)
(***************************************************************************)
EXTENDS ErrorTypes, Sequences, FiniteSets

CONSTANTS
    Asker,          \* the calls of fetchRulesWithProgress: completion blocks
    NoBlock,        \* a nil completionBlock
    MaxRetryCount,  \* retries the manager's fetchers are configured with
    MaxRedirects,
    Statuses        \* statuses a server answers with

ASSUME FetcherAssumption ==
    /\ NoBlock \notin Asker
    /\ MaxRetryCount \in Nat
    /\ MaxRedirects \in Nat
    /\ Statuses \subseteq Status \ {NoStatus}

\* What a completion block is called with.
NoError == [domain |-> "none", code |-> "none", status |-> NoStatus]
Busy == MakeError("RuleFetcher", "Unknown")
FetchCancelled == MakeError("RuleFetcher", "Cancelled")
Accepted == 200 .. 206
FileError == {MakeError("RuleFetcher", "DataCorrupted"), MakeError("NSCocoa", "Other")}

\* A block of fetchQueue or delegateQueue; "asker" is NoBlock where the block
\* looks completionBlock up.
Block == [does: {"fetch", "cancel", "finish", "retry", "call", "clear"},
          asker: Asker \cup {NoBlock}, error: Error \cup {NoError}, attempts: Nat]

VARIABLES
    fetcherClass,        \* "http" or "file"
    fetcherUser,         \* "manager" or "resolver"
    isFetching,
    cancelled,
    completionBlock,
    fetchQueue,
    delegateQueue,
    currentTask,         \* how far the session's task or the file's read is
    remainingAttempts,   \* of the attempt that is running
    retryTimers,         \* retries that wait for their delay
    completionDelivered,
    redirectCount,
    asked,               \* askers that have called
    answers,             \* how often each asker's block was called
    nilBlockCalled       \* a nil block was called: the process has crashed

baseState == <<isFetching, cancelled, completionBlock, fetchQueue, delegateQueue>>
httpState == <<completionDelivered, redirectCount>>
attempt == <<currentTask, remainingAttempts, retryTimers>>
users == <<fetcherClass, fetcherUser, asked>>
calls == <<answers, nilBlockCalled>>
fetcherVars == <<baseState, httpState, attempt, users, calls>>

-----------------------------------------------------------------------------
Does(what, asker, error, attempts) ==
    [does |-> what, asker |-> asker, error |-> error, attempts |-> attempts]

\* self.completionBlock(...), called directly.
CallBlock(block) ==
    IF block = NoBlock
    THEN nilBlockCalled' = TRUE /\ UNCHANGED answers
    ELSE answers' = [answers EXCEPT ![block] = @ + 1] /\ UNCHANGED nilBlockCalled

\* performFetchWithCompletion: a session task is resumed, or a read queued.
PerformFetch(attempts) ==
    /\ currentTask' = "running"
    /\ remainingAttempts' = attempts
    /\ completionDelivered' = FALSE
    /\ redirectCount' = 0

\* performFetchWithRetry; a fetch found cancelled ends at once.
PerformFetchWithRetry(attempts, queue) ==
    IF cancelled'
    THEN /\ fetchQueue' = Append(queue, Does("finish", NoBlock, FetchCancelled, 0))
         /\ UNCHANGED <<currentTask, remainingAttempts, httpState>>
    ELSE PerformFetch(attempts) /\ fetchQueue' = queue

Retries == IF fetcherUser = "resolver" THEN 0 ELSE MaxRetryCount

\* fetchRulesWithProgress:completion:
FetchRules(a) ==
    /\ a \notin asked
    /\ fetcherUser = "resolver" => asked = {}
    /\ asked' = asked \cup {a}
    /\ fetchQueue' = Append(fetchQueue, Does("fetch", a, NoError, 0))
    /\ UNCHANGED <<fetcherClass, fetcherUser, isFetching, cancelled, completionBlock,
                   delegateQueue, httpState, attempt, calls>>

\* cancelFetch, by the resolver that has waited long enough
CancelFetch ==
    /\ fetcherUser = "resolver" /\ asked # {}
    /\ \A a \in asked : answers[a] = 0
    /\ ~cancelled
    /\ \A i \in DOMAIN fetchQueue : fetchQueue[i].does # "cancel"
    /\ fetchQueue' = Append(fetchQueue, Does("cancel", NoBlock, NoError, 0))
    /\ UNCHANGED <<users, isFetching, cancelled, completionBlock, delegateQueue,
                   httpState, attempt, calls>>

\* The block of fetchRulesWithProgress on fetchQueue
BeginFetch ==
    /\ fetchQueue # <<>> /\ Head(fetchQueue).does = "fetch"
    /\ IF isFetching
       THEN /\ delegateQueue' = Append(delegateQueue,
                                       Does("call", Head(fetchQueue).asker, Busy, 0))
            /\ fetchQueue' = Tail(fetchQueue)
            /\ UNCHANGED <<isFetching, cancelled, completionBlock, attempt, httpState>>
       ELSE /\ isFetching' = TRUE
            /\ cancelled' = FALSE
            /\ completionBlock' = Head(fetchQueue).asker
            /\ PerformFetchWithRetry(Retries, Tail(fetchQueue))
            /\ UNCHANGED <<delegateQueue, retryTimers>>
    /\ UNCHANGED <<users, calls>>

\* The block of cancelFetch: a session task is cancelled, a read goes on.
DoCancel ==
    /\ fetchQueue # <<>> /\ Head(fetchQueue).does = "cancel"
    /\ fetchQueue' = Tail(fetchQueue)
    /\ IF isFetching
       THEN /\ cancelled' = TRUE
            /\ isFetching' = FALSE
            /\ currentTask' = IF fetcherClass = "http" /\ currentTask # "none"
                              THEN "cancelled" ELSE currentTask
            /\ delegateQueue' =
                   IF completionBlock = NoBlock THEN delegateQueue
                   ELSE Append(delegateQueue, Does("call", NoBlock, FetchCancelled, 0))
       ELSE UNCHANGED <<cancelled, isFetching, currentTask, delegateQueue>>
    /\ UNCHANGED <<users, completionBlock, remainingAttempts, retryTimers, httpState, calls>>

\* handleFetchCompletion:error:
HandleFetchCompletion ==
    /\ fetchQueue # <<>> /\ Head(fetchQueue).does = "finish"
    /\ fetchQueue' = Tail(fetchQueue)
    /\ isFetching' = FALSE
    /\ delegateQueue' =
           IF ~isFetching \/ completionBlock = NoBlock THEN delegateQueue
           ELSE Append(delegateQueue, Does("call", NoBlock, Head(fetchQueue).error, 0))
    /\ UNCHANGED <<users, cancelled, completionBlock, attempt, httpState, calls>>

\* The delay of a retry is over, and its block gets to the front of fetchQueue.
RetryDue ==
    /\ retryTimers # {}
    /\ \E n \in retryTimers :
           /\ retryTimers' = retryTimers \ {n}
           /\ fetchQueue' = Append(fetchQueue, Does("retry", NoBlock, NoError, n))
    /\ UNCHANGED <<users, isFetching, cancelled, completionBlock, delegateQueue,
                   currentTask, remainingAttempts, httpState, calls>>

Retry ==
    /\ fetchQueue # <<>> /\ Head(fetchQueue).does = "retry"
    /\ UNCHANGED cancelled
    /\ PerformFetchWithRetry(Head(fetchQueue).attempts, Tail(fetchQueue))
    /\ UNCHANGED <<users, isFetching, completionBlock, delegateQueue, retryTimers, calls>>

\* The block performFetchWithRetry gives to performFetchWithCompletion
AttemptEnds(error) ==
    IF error # NoError /\ remainingAttempts > 0 /\ IsRetryableError(error) /\ ~cancelled
    THEN /\ retryTimers' = retryTimers \cup {remainingAttempts - 1}
         /\ UNCHANGED fetchQueue
    ELSE /\ fetchQueue' = Append(fetchQueue, Does("finish", NoBlock, error, 0))
         /\ UNCHANGED retryTimers

\* A block of delegateQueue: the ones of cancelFetch and handleFetchCompletion
\* call whatever completionBlock then holds, and clear it in a second step.
DelegateBlock ==
    /\ delegateQueue # <<>>
    /\ LET next == Head(delegateQueue) IN
       IF next.does = "clear"
       THEN /\ completionBlock' = NoBlock
            /\ delegateQueue' = Tail(delegateQueue)
            /\ UNCHANGED calls
       ELSE /\ CallBlock(IF next.asker # NoBlock THEN next.asker ELSE completionBlock)
            /\ delegateQueue' =
                   IF next.asker # NoBlock THEN Tail(delegateQueue)
                   ELSE <<[next EXCEPT !.does = "clear"]>> \o Tail(delegateQueue)
            /\ UNCHANGED completionBlock
    /\ UNCHANGED <<users, isFetching, cancelled, fetchQueue, attempt, httpState>>

-----------------------------------------------------------------------------
(* FileRuleFetcher: the read on fileQueue, with what it finds *)

ReadFile ==
    /\ fetcherClass = "file" /\ currentTask = "running"
    /\ currentTask' = "none"
    /\ \E e \in FileError \cup {NoError} : AttemptEnds(e)
    /\ UNCHANGED <<users, isFetching, cancelled, completionBlock, delegateQueue,
                   remainingAttempts, httpState, calls>>

-----------------------------------------------------------------------------
(* HTTPRuleFetcher: the callbacks of the session *)

\* Fault: what is delivered is not marked as delivered.
DeliverUnmarked ==
    /\ UNCHANGED completionDelivered
    /\ IF completionDelivered THEN UNCHANGED calls ELSE CallBlock(completionBlock)

\* Calls completionBlock unless the result was delivered already.
DeliverOnce ==
    /\ completionDelivered' = TRUE
    /\ IF completionDelivered THEN UNCHANGED calls ELSE CallBlock(completionBlock)

HttpUnchanged ==
    UNCHANGED <<users, isFetching, cancelled, completionBlock, fetchQueue, delegateQueue,
                remainingAttempts, retryTimers>>

\* didReceiveResponse with a status that is not accepted: the task is cancelled.
ReceiveRefusal ==
    /\ fetcherClass = "http"
    /\ \/ currentTask = "running" /\ Statuses \ Accepted # {}
       \/ currentTask = "redirected"
    /\ currentTask' = "refused"
    /\ DeliverOnce
    /\ UNCHANGED redirectCount
    /\ HttpUnchanged

\* didCompleteWithError without an error, after an accepted response
CompleteWithData ==
    /\ fetcherClass = "http" /\ currentTask = "running"
    /\ currentTask' = "none"
    /\ DeliverOnce
    /\ UNCHANGED redirectCount
    /\ HttpUnchanged

\* didCompleteWithError: the network failed, or the task was cancelled by a
\* refusal or by cancelFetch; cancelFetch may also come too late for a task.
CompleteWithError ==
    /\ fetcherClass = "http" /\ currentTask # "none"
    /\ currentTask' = "none"
    /\ DeliverOnce
    /\ UNCHANGED redirectCount
    /\ HttpUnchanged

\* willPerformHTTPRedirection: past the limit the redirect is not followed and
\* its own response is delivered, after completionBlock was called for it.
PerformRedirection ==
    /\ fetcherClass = "http" /\ currentTask = "running"
    /\ redirectCount <= MaxRedirects
    /\ redirectCount' = redirectCount + 1
    /\ IF redirectCount + 1 > MaxRedirects
       THEN currentTask' = "redirected" /\ CallBlock(completionBlock)
       ELSE UNCHANGED <<currentTask, calls>>
    /\ UNCHANGED completionDelivered
    /\ HttpUnchanged

-----------------------------------------------------------------------------
FetcherInit ==
    /\ fetcherClass \in {"http", "file"}
    /\ fetcherUser \in {"manager", "resolver"}
    /\ fetcherUser = "resolver" => fetcherClass = "http"
    /\ isFetching = FALSE
    /\ cancelled = FALSE
    /\ completionBlock = NoBlock
    /\ fetchQueue = <<>>
    /\ delegateQueue = <<>>
    /\ currentTask = "none"
    /\ remainingAttempts = 0
    /\ retryTimers = {}
    /\ completionDelivered = FALSE
    /\ redirectCount = 0
    /\ asked = {}
    /\ answers = [a \in Asker |-> 0]
    /\ nilBlockCalled = FALSE

FetchQueueStep == BeginFetch \/ DoCancel \/ HandleFetchCompletion \/ Retry
SessionStep == ReceiveRefusal \/ CompleteWithData \/ CompleteWithError \/ PerformRedirection

FetcherNext ==
    /\ ~nilBlockCalled
    /\ \/ \E a \in Asker : FetchRules(a)
       \/ CancelFetch
       \/ FetchQueueStep
       \/ RetryDue
       \/ DelegateBlock
       \/ ReadFile
       \/ SessionStep

FetcherSpec == FetcherInit /\ [][FetcherNext]_fetcherVars
-----------------------------------------------------------------------------
(* Properties *)

\* What the classes hold.  Only a session's task can be redirected, refused or
\* cancelled, and counts deliveries; a file is read at once or not at all, for the
\* manager alone.
RuleFetcherBase ==
    /\ isFetching \in BOOLEAN /\ cancelled \in BOOLEAN
    /\ completionBlock \in Asker \cup {NoBlock}
    /\ fetchQueue \in Seq(Block) /\ delegateQueue \in Seq(Block)
    /\ remainingAttempts \in 0 .. MaxRetryCount
    /\ retryTimers \subseteq 0 .. MaxRetryCount

HTTPRuleFetcher ==
    /\ fetcherClass = "http" /\ fetcherUser \in {"manager", "resolver"}
    /\ currentTask \in {"none", "running", "refused", "redirected", "cancelled"}
    /\ completionDelivered \in BOOLEAN
    /\ redirectCount \in 0 .. MaxRedirects + 1

FileRuleFetcher ==
    /\ fetcherClass = "file" /\ fetcherUser = "manager"
    /\ currentTask \in {"none", "running"}
    /\ ~completionDelivered /\ redirectCount = 0

FetcherTypeOK ==
    /\ RuleFetcherBase
    /\ HTTPRuleFetcher \/ FileRuleFetcher
    /\ asked \subseteq Asker
    /\ answers \in [Asker -> Nat]
    /\ nilBlockCalled \in BOOLEAN

\* Nobody is answered twice, but for a redirect past the limit, which is answered
\* without being marked as delivered, and for a fetch that is cancelled while
\* its task still runs (HTTPRuleFetcher.m:379-392, 426-462).
AnsweredOnce ==
    \A a \in Asker : answers[a] > 1 => redirectCount > MaxRedirects \/ cancelled

Quiet == fetchQueue = <<>> /\ delegateQueue = <<>> /\ currentTask = "none" /\ retryTimers = {}

\* When nothing of a fetch is left anywhere, any fetcher is free again.
FetcherRests == Quiet => ~isFetching

=============================================================================
