-------------------------- MODULE CommandProcessor --------------------------
(***************************************************************************)
(* DNSCommandProcessor: commands come as files.  Each goes through three   *)
(* serial queues: deduplicationQueue, which knows the commands seen        *)
(* lately; processingQueue, which reads and removes the file; and the main *)
(* queue, where the provider carries the command out.                      *)
(*                                                                         *)
(* A file is noticed when the directory is listed at the start, or by      *)
(* events of the file system, any number of them.  The app writes its      *)
(* files atomically; a file that is typed at a terminal is there before    *)
(* its contents.  The processor outlives the provider, which it holds      *)
(* weakly, and both end with the process.                                  *)
(***************************************************************************)
EXTENDS Integers, Sequences, FiniteSets

CONSTANTS
    Command,           \* the names of the commands' files, in their order as strings
    NoCommand,
    MaxProcessed,      \* names remembered at most (100) ...
    KeptProcessed,     \* ... and after there were more (50)
    MaxCommandStarts,  \* bound on the starts of the provider
    MaxFileEvents      \* bound on the events beyond one for each change

ASSUME CommandAssumption ==
    /\ Command \subseteq Nat /\ IsFiniteSet(Command) /\ NoCommand \notin Command
    /\ MaxProcessed \in Nat /\ KeptProcessed \in 0 .. MaxProcessed
    /\ MaxCommandStarts \in Nat /\ MaxFileEvents \in Nat

VARIABLES
    incoming,            \* each command's file: "none", "partial" or "whole"
    created,             \* the commands whose files were created, in that order
    unreported,          \* files with a change of which no event has come yet
    overlooked,          \* files that neither the list nor an event will name
    monitoring,          \* "off", "listing" until the stream starts, "on"
    hasDelegate,         \* whether there is a provider
    processingQueue,
    deduplicationQueue,
    commandsForMain,     \* commands on their way to the provider
    processedCommands,
    carriedOut,          \* how often the provider carried a command out
    commandStarts,
    fileEvents

commandFiles == <<incoming, created, unreported, overlooked>>
monitor == <<monitoring, hasDelegate, commandStarts, fileEvents>>
commandVars == <<commandFiles, monitor, processingQueue, deduplicationQueue, commandsForMain,
                 processedCommands, carriedOut>>

-----------------------------------------------------------------------------
(* Files and queues *)

Present == {c \in Command : incoming[c] # "none"}

CommandBlock ==
    [does: {"list"}, command: {NoCommand}] \cup [does: {"process"}, command: Command]
ToDo(what, c) == [does |-> what, command |-> c]

OnProcessingQueue(block) == \E i \in DOMAIN processingQueue : processingQueue[i] = block

\* The next block of processingQueue is one of this kind, and is taken.
TakeBlock(what) ==
    /\ processingQueue # <<>> /\ Head(processingQueue).does = what
    /\ processingQueue' = Tail(processingQueue)

\* What is left of too many names: the last in their order as strings, whenever
\* they were seen, so that even the new one may go.
Remembered(names) ==
    IF Cardinality(names) <= MaxProcessed THEN names
    ELSE {c \in names : Cardinality({d \in names : d > c}) < KeptProcessed}

-----------------------------------------------------------------------------
(* The writers of commands *)

\* The stream reports from its start on, the list what is there when it is made.
WillBeNoticed == monitoring = "on" \/ OnProcessingQueue(ToDo("list", NoCommand))
Reported(c) == IF monitoring = "on" THEN unreported \cup {c} ELSE unreported

\* writeCommand:error: of the app, or the start of a shell's redirection.
CreateFile(c) ==
    /\ \A i \in DOMAIN created : created[i] # c
    /\ created' = Append(created, c)
    /\ \E form \in {"partial", "whole"} : incoming' = [incoming EXCEPT ![c] = form]
    /\ unreported' = Reported(c)
    /\ overlooked' = IF WillBeNoticed THEN overlooked ELSE overlooked \cup {c}
    /\ UNCHANGED <<monitor, processingQueue, deduplicationQueue, commandsForMain,
                   processedCommands, carriedOut>>

\* Its end; what it writes to a removed file nobody sees.
CompleteFile(c) ==
    /\ incoming[c] = "partial"
    /\ incoming' = [incoming EXCEPT ![c] = "whole"]
    /\ unreported' = Reported(c)
    /\ UNCHANGED <<created, overlooked, monitor, processingQueue, deduplicationQueue,
                   commandsForMain, processedCommands, carriedOut>>

-----------------------------------------------------------------------------
(* Monitoring the directory *)

\* The provider becomes the delegate; startMonitoring does nothing if the stream of
\* an earlier provider runs, or queues the list ...
MonitorCommands ==
    /\ ~hasDelegate /\ monitoring # "listing" /\ commandStarts < MaxCommandStarts
    /\ commandStarts' = commandStarts + 1
    /\ hasDelegate' = TRUE
    /\ \/ /\ monitoring = "on"
          /\ UNCHANGED <<monitoring, overlooked, processingQueue>>
       \/ /\ monitoring = "off"
          /\ monitoring' = "listing"
          /\ processingQueue' = Append(processingQueue, ToDo("list", NoCommand))
          /\ overlooked' = {}
    /\ UNCHANGED <<incoming, created, unreported, fileEvents, deduplicationQueue,
                   commandsForMain, processedCommands, carriedOut>>

\* ... and starts the stream beside it, which may fail.
StartEventStream ==
    /\ monitoring = "listing"
    /\ monitoring' \in {"on", "off"}
    /\ UNCHANGED <<commandFiles, hasDelegate, commandStarts, fileEvents, processingQueue,
                   deduplicationQueue, commandsForMain, processedCommands, carriedOut>>

\* The provider goes and the processor stays, with its stream and no delegate.
ReleaseDelegate ==
    /\ hasDelegate /\ monitoring # "listing"
    /\ hasDelegate' = FALSE
    /\ UNCHANGED <<commandFiles, monitoring, commandStarts, fileEvents, processingQueue,
                   deduplicationQueue, commandsForMain, processedCommands, carriedOut>>

\* The process ends; the files stay.
CrashProcessor ==
    /\ commandStarts < MaxCommandStarts
    /\ monitoring' = "off" /\ hasDelegate' = FALSE
    /\ unreported' = {}
    /\ overlooked' = Present
    /\ processingQueue' = <<>> /\ deduplicationQueue' = <<>> /\ commandsForMain' = <<>>
    /\ processedCommands' = {}
    /\ UNCHANGED <<incoming, created, commandStarts, fileEvents, carriedOut>>

\* FSEventCallback, for one of its paths: the last event for the file's changes, or one
\* more, as flags add up.  It takes its turn on processingQueue, where nothing that
\* it does depends on the others.
FSEventCallback(c) ==
    /\ c \in unreported
    /\ \/ unreported' = unreported \ {c} /\ UNCHANGED fileEvents
       \/ fileEvents < MaxFileEvents /\ fileEvents' = fileEvents + 1 /\ UNCHANGED unreported
    /\ deduplicationQueue' = Append(deduplicationQueue, c)
    /\ UNCHANGED <<incoming, created, overlooked, monitoring, hasDelegate, commandStarts,
                   processingQueue, commandsForMain, processedCommands, carriedOut>>

-----------------------------------------------------------------------------
(* Processing *)

\* q holds the files that are there, sorted by their dates of creation.
ListOfFiles(q) ==
    /\ \A c \in Present : \E i \in DOMAIN q : q[i] = c
    /\ \A i, j \in DOMAIN q : i < j =>
          \E k, l \in DOMAIN created : k < l /\ created[k] = q[i] /\ created[l] = q[j]

\* processExistingCommands; without a directory there are no files to miss.
ProcessExistingCommands ==
    /\ TakeBlock("list")
    /\ \E q \in [1 .. Cardinality(Present) -> Present] :
          ListOfFiles(q) /\ deduplicationQueue' = deduplicationQueue \o q
    /\ UNCHANGED <<commandFiles, monitor, commandsForMain, processedCommands, carriedOut>>

\* processCommandFile's block on deduplicationQueue.
Deduplicate ==
    /\ deduplicationQueue # <<>>
    /\ deduplicationQueue' = Tail(deduplicationQueue)
    /\ LET c == Head(deduplicationQueue) IN
       \/ /\ c \in processedCommands
          /\ UNCHANGED <<processedCommands, processingQueue>>
       \/ /\ c \notin processedCommands
          /\ processedCommands' = Remembered(processedCommands \cup {c})
          /\ processingQueue' = Append(processingQueue, ToDo("process", c))
    /\ UNCHANGED <<commandFiles, monitor, commandsForMain, carriedOut>>

\* Fault: the file is removed only if it cannot be parsed.
FileReadKeeping(c) == [incoming EXCEPT ![c] = IF @ = "whole" THEN "whole" ELSE "none"]

\* A file is removed once it is read, whether it can be parsed or not.
FileRead(c) == [incoming EXCEPT ![c] = "none"]

\* Its block on processingQueue; a command without a delegate is dropped.
ProcessCommandFile ==
    /\ TakeBlock("process")
    /\ LET c == Head(processingQueue).command IN
          /\ incoming' = FileRead(c)
          /\ commandsForMain' = IF incoming[c] = "whole" /\ hasDelegate
                                THEN Append(commandsForMain, c) ELSE commandsForMain
    /\ UNCHANGED <<created, unreported, overlooked, monitor, deduplicationQueue,
                   processedCommands, carriedOut>>

\* The block on the main queue: processCommand: of the provider, or of nobody.
ProcessCommand ==
    /\ commandsForMain # <<>>
    /\ commandsForMain' = Tail(commandsForMain)
    /\ LET c == Head(commandsForMain) IN
          carriedOut' = IF hasDelegate THEN [carriedOut EXCEPT ![c] = @ + 1] ELSE carriedOut
    /\ UNCHANGED <<commandFiles, monitor, processingQueue, deduplicationQueue,
                   processedCommands>>

\* cleanupOldFiles, of either timer, on processingQueue: what is older than an hour goes.
CleanupOldFiles ==
    /\ commandStarts > 0
    /\ \E n \in 0 .. Len(created) :
          incoming' = [c \in Command |->
              IF \E i \in 1 .. n : created[i] = c THEN "none" ELSE incoming[c]]
    /\ UNCHANGED <<created, unreported, overlooked, monitor, processingQueue,
                   deduplicationQueue, commandsForMain, processedCommands, carriedOut>>

-----------------------------------------------------------------------------
CommandInit ==
    /\ incoming = [c \in Command |-> "none"]
    /\ created = <<>> /\ unreported = {} /\ overlooked = {}
    /\ monitoring = "off" /\ hasDelegate = FALSE
    /\ processingQueue = <<>> /\ deduplicationQueue = <<>> /\ commandsForMain = <<>>
    /\ processedCommands = {}
    /\ carriedOut = [c \in Command |-> 0]
    /\ commandStarts = 0 /\ fileEvents = 0

CommandNext ==
    \/ \E c \in Command : CreateFile(c) \/ CompleteFile(c) \/ FSEventCallback(c)
    \/ MonitorCommands
    \/ StartEventStream
    \/ ReleaseDelegate
    \/ CrashProcessor
    \/ ProcessExistingCommands
    \/ Deduplicate
    \/ ProcessCommandFile
    \/ ProcessCommand
    \/ CleanupOldFiles

CommandSpec == CommandInit /\ [][CommandNext]_commandVars

-----------------------------------------------------------------------------
(* Properties *)

\* The variables keep their types.
CommandTypeOK ==
    /\ incoming \in [Command -> {"none", "partial", "whole"}]
    /\ created \in Seq(Command)
    /\ {unreported, overlooked, processedCommands} \subseteq SUBSET Command
    /\ monitoring \in {"off", "listing", "on"} /\ hasDelegate \in BOOLEAN
    /\ processingQueue \in Seq(CommandBlock)
    /\ deduplicationQueue \in Seq(Command) /\ commandsForMain \in Seq(Command)
    /\ carriedOut \in [Command -> Nat]
    /\ commandStarts \in 0 .. MaxCommandStarts /\ fileEvents \in 0 .. MaxFileEvents

AtRest ==
    /\ monitoring = "on" /\ unreported = {}
    /\ processingQueue = <<>> /\ deduplicationQueue = <<>>

\* However often a file is reported, whatever names the pruned set forgets and
\* wherever the process ends, a command is carried out at most once; and a file is
\* never skipped for good: when the queues have come to rest, only files are left
\* that were created between the list and the start of the stream
\* (DNSCommandProcessor.m:222-244, 273-274).
CommandsOnce ==
    /\ \A c \in Command : carriedOut[c] <= 1
    /\ AtRest => Present \subseteq overlooked

=============================================================================
