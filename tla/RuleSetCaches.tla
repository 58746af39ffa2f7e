---------------------------- MODULE RuleSetCaches ----------------------------
(***************************************************************************)
(* The cache of fetched rule sets (RuleCache.m): a memory cache over an    *)
(* NSCache (MemoryCache.m) in front of a directory of files with its       *)
(* metadata (DiskCache.m).  Reads are sync blocks of the concurrent        *)
(* cacheQueue, everything else is a barrier block of it; what changes the  *)
(* memory cache is again a barrier block of its own accessQueue, for which *)
(* reads wait.  Files and the metadata file outlive a crash.               *)
(*                                                                         *)
(* The configuration persists the cache, as the default one does.  A read  *)
(* that has come before the blocks behind it is one that finds the queue   *)
(* empty, and it excludes only barriers, so it is one step.                *)
(***************************************************************************)
EXTENDS Integers, Sequences, SequencesExt, Selection, FiniteSets, FiniteSetsExt, Functions

CONSTANTS
    CacheKey,        \* source identifiers
    FileSizes,       \* how large an entry's file may be
    MaxCacheSize,
    SizeLimit,       \* sizes are unsigned integers below this
    NoEntry,
    MaxStores, MaxCacheCalls, MaxCrashes  \* bounds

\* CacheEntry: which store it comes from and what its file takes.
CacheEntry == [version : 1 .. MaxStores, dataSize : FileSizes]

ASSUME CacheAssumption ==
    /\ IsFiniteSet(CacheKey) /\ CacheKey # {} /\ NoEntry \notin CacheEntry
    /\ FileSizes \subseteq 1 .. SizeLimit - 1 /\ MaxCacheSize \in 0 .. SizeLimit - 1
    /\ SizeLimit \in Nat \ {0} /\ MaxStores \in Nat
    /\ MaxCacheCalls \in Nat /\ MaxCrashes \in Nat

CacheBlock ==
    [does : {"store", "invalidate", "cleanup", "clearMemory", "clearDisk"}, key : CacheKey,
     entry : CacheEntry \cup {NoEntry}]
MemoryBlock == [does : {"set", "remove", "clear"}, key : CacheKey,
                entry : CacheEntry \cup {NoEntry}]

VARIABLES
    memoryCache, files,  \* the entry of a key, or none
    fileDates,           \* keys in the order their files were last used
    totalSize,           \* metadata of the disk cache
    savedTotalSize,      \* its file
    memoryQueue, cacheQueue,
    storing,             \* a store has written its file, not yet the metadata
    clearing,            \* clearAllCaches is between its two calls
    expiredVersions,     \* entries whose time to live is over
    invalidated,         \* keys invalidated and not stored since
    stores, cacheCalls, crashes

cacheVars == <<memoryCache, files, fileDates, totalSize, savedTotalSize, memoryQueue, cacheQueue,
               storing, clearing, expiredVersions, invalidated, stores, cacheCalls, crashes>>
disk == <<files, fileDates, totalSize, savedTotalSize>>
counts == <<expiredVersions, stores, cacheCalls, crashes>>

NoKey == CHOOSE k \in CacheKey : TRUE
Queued(what, key, entry) == [does |-> what, key |-> key, entry |-> entry]

IsExpired(entry) == entry.version \in expiredVersions
Unsigned(n) == n % SizeLimit
SizeOf(keys) == FoldFunctionOnSet(LAMBDA e, n : e.dataSize + n, 0, files, keys)
Without(order, keys) == Those(order, CacheKey \ keys)

-----------------------------------------------------------------------------
(* The interface *)

Call(blocks) ==
    /\ cacheCalls < MaxCacheCalls /\ cacheCalls' = cacheCalls + 1
    /\ cacheQueue' = cacheQueue \o blocks
    /\ UNCHANGED <<memoryCache, disk, memoryQueue, storing, invalidated, expiredVersions, crashes>>

StoreRuleSet ==
    /\ stores < MaxStores /\ stores' = stores + 1
    /\ \E k \in CacheKey, size \in FileSizes :
          Call(<<Queued("store", k, [version |-> stores + 1, dataSize |-> size])>>)
    /\ UNCHANGED clearing

InvalidateCacheForSource ==
    /\ \E k \in CacheKey : Call(<<Queued("invalidate", k, NoEntry)>>)
    /\ UNCHANGED <<stores, clearing>>

\* The cleanup timer.
InvalidateExpiredEntries ==
    Call(<<Queued("cleanup", NoKey, NoEntry)>>) /\ UNCHANGED <<stores, clearing>>

\* clearAllCaches: one block for the memory cache, then one for the disk.
ClearMemoryCache ==
    /\ ~clearing /\ Call(<<Queued("clearMemory", NoKey, NoEntry)>>)
    /\ clearing' = TRUE /\ UNCHANGED stores

ClearDiskCache ==
    /\ clearing /\ clearing' = FALSE
    /\ cacheQueue' = Append(cacheQueue, Queued("clearDisk", NoKey, NoEntry))
    /\ UNCHANGED <<memoryCache, disk, memoryQueue, storing, invalidated, counts>>

-----------------------------------------------------------------------------
(* The disk cache *)

\* removeFileAtPath for each of the keys; the metadata file is left as it is.
RemoveFiles(keys) ==
    /\ files' = [k \in CacheKey |-> IF k \in keys THEN NoEntry ELSE files[k]]
    /\ fileDates' = Without(fileDates, keys)
    /\ totalSize' = Unsigned(totalSize - SizeOf(keys))

\* evictOldestEntriesForSize: the files removed are no longer in totalSize and are
\* taken off it once more when the loop asks whether it has freed enough.
OldestFiles(n) == {fileDates[i] : i \in 1 .. n}
FreedEnough(n, size) ==
    Unsigned(totalSize - SizeOf(OldestFiles(n)) + size - SizeOf(OldestFiles(n))) <= MaxCacheSize
EvictedFor(size) ==
    IF Unsigned(totalSize + size) <= MaxCacheSize THEN {}
    ELSE LET stops == {n \in 0 .. Len(fileDates) : FreedEnough(n, size)} IN
         OldestFiles(IF stops = {} THEN Len(fileDates) ELSE Min(stops))

\* storeEntry up to the write, which may fail when the old file is gone already.
StoreEntry(key, entry, written) ==
    LET removed == EvictedFor(entry.dataSize) \cup (IF files[key] = NoEntry THEN {} ELSE {key}) IN
    /\ files' = [k \in CacheKey |-> IF k = key /\ written THEN entry
                                    ELSE IF k \in removed THEN NoEntry ELSE files[k]]
    /\ fileDates' = Without(fileDates, removed) \o (IF written THEN <<key>> ELSE <<>>)
    /\ totalSize' = Unsigned(totalSize - SizeOf(removed) + IF written THEN entry.dataSize ELSE 0)

-----------------------------------------------------------------------------
(* Blocks of cacheQueue *)

\* Fault: a later block overtakes the ones that wait.
InMemoryAtOnce(blocks) == memoryQueue' = blocks \o memoryQueue

Begins(what) == cacheQueue # <<>> /\ ~storing /\ Head(cacheQueue).does = what
Ends == cacheQueue' = Tail(cacheQueue)
InMemory(blocks) == memoryQueue' = memoryQueue \o blocks

StoreBlock ==
    /\ Begins("store")
    /\ LET key == Head(cacheQueue).key
           entry == Head(cacheQueue).entry IN
       /\ InMemory(<<Queued("set", key, entry)>>)
       /\ \E written \in BOOLEAN :
             /\ StoreEntry(key, entry, written)
             /\ storing' = written
             /\ cacheQueue' = IF written THEN cacheQueue ELSE Tail(cacheQueue)
       /\ invalidated' = invalidated \ {key}
    /\ UNCHANGED <<memoryCache, savedTotalSize, clearing, counts>>

SaveMetadata ==
    /\ storing /\ storing' = FALSE
    /\ savedTotalSize' = totalSize
    /\ Ends
    /\ UNCHANGED <<memoryCache, files, fileDates, totalSize, memoryQueue, clearing, invalidated,
                   counts>>

InvalidateBlock ==
    /\ Begins("invalidate") /\ Ends
    /\ LET key == Head(cacheQueue).key IN
       /\ InMemory(<<Queued("remove", key, NoEntry)>>)
       /\ RemoveFiles({key} \ {k \in CacheKey : files[k] = NoEntry})
       /\ invalidated' = invalidated \cup {key}
    /\ UNCHANGED <<memoryCache, savedTotalSize, storing, clearing, counts>>

\* invalidateExpiredEntries: the memory cache is asked, after what is queued on it,
\* and then told; the disk cache counts its files anew when it has removed any.
CleanupBlock ==
    /\ Begins("cleanup") /\ memoryQueue = <<>> /\ Ends
    /\ LET stale(cache) == {k \in CacheKey : cache[k] # NoEntry /\ IsExpired(cache[k])} IN
       /\ InMemory(SetToSeq({Queued("remove", k, NoEntry) : k \in stale(memoryCache)}))
       /\ IF stale(files) = {} THEN UNCHANGED <<files, fileDates, totalSize>>
          ELSE /\ files' = [k \in CacheKey |-> IF k \in stale(files) THEN NoEntry ELSE files[k]]
               /\ fileDates' = Without(fileDates, stale(files))
               /\ totalSize' = Unsigned(SizeOf({k \in CacheKey : files[k] # NoEntry}
                                               \ stale(files)))
    /\ UNCHANGED <<memoryCache, savedTotalSize, storing, clearing, invalidated, counts>>

ClearMemoryBlock ==
    /\ Begins("clearMemory") /\ Ends
    /\ InMemory(<<Queued("clear", NoKey, NoEntry)>>)
    /\ UNCHANGED <<memoryCache, disk, storing, clearing, invalidated, counts>>

ClearDiskBlock ==
    /\ Begins("clearDisk") /\ Ends
    /\ files' = [k \in CacheKey |-> NoEntry] /\ fileDates' = <<>>
    /\ totalSize' = 0 /\ savedTotalSize' = 0
    /\ UNCHANGED <<memoryCache, memoryQueue, storing, clearing, invalidated, counts>>

\* ruleSetForSource: an entry that is expired is removed where it is found; one that
\* is older than the caller wants is passed over; one found on disk is put in memory.
RuleSetForSource ==
    /\ cacheQueue = <<>> /\ memoryQueue = <<>>
    /\ \E k \in CacheKey, youngEnough \in BOOLEAN :
          LET inMemory == memoryCache[k] # NoEntry /\ ~IsExpired(memoryCache[k])
              onDisk == files[k] # NoEntry /\ ~IsExpired(files[k]) IN
          /\ ~(inMemory /\ youngEnough)
          /\ memoryCache' = [memoryCache EXCEPT ![k] = IF inMemory THEN @ ELSE NoEntry]
          /\ IF onDisk
             THEN /\ fileDates' = Append(Without(fileDates, {k}), k)
                  /\ InMemory(IF youngEnough THEN <<Queued("set", k, files[k])>> ELSE <<>>)
                  /\ UNCHANGED <<files, totalSize>>
             ELSE /\ RemoveFiles({k} \ {j \in CacheKey : files[j] = NoEntry})
                  /\ UNCHANGED memoryQueue
    /\ UNCHANGED <<savedTotalSize, cacheQueue, storing, clearing, invalidated, counts>>

-----------------------------------------------------------------------------
(* The memory cache, time, and crashes *)

AccessBlock ==
    /\ memoryQueue # <<>> /\ memoryQueue' = Tail(memoryQueue)
    /\ LET block == Head(memoryQueue) IN
       memoryCache' = IF block.does = "clear" THEN [k \in CacheKey |-> NoEntry]
                      ELSE [memoryCache EXCEPT ![block.key] = block.entry]
    /\ UNCHANGED <<disk, cacheQueue, storing, clearing, invalidated, counts>>

\* NSCache makes room whenever it likes.
MemoryEvicts ==
    /\ \E k \in CacheKey : memoryCache[k] # NoEntry /\ memoryCache' = [memoryCache EXCEPT ![k] = NoEntry]
    /\ UNCHANGED <<disk, memoryQueue, cacheQueue, storing, clearing, invalidated, counts>>

EntryExpires ==
    /\ \E v \in 1 .. stores : v \notin expiredVersions /\ expiredVersions' = expiredVersions \cup {v}
    /\ UNCHANGED <<memoryCache, disk, memoryQueue, cacheQueue, storing, clearing, invalidated,
                   stores, cacheCalls, crashes>>

\* The process ends and a new one loads the metadata.
Crash ==
    /\ crashes < MaxCrashes /\ crashes' = crashes + 1
    /\ memoryCache' = [k \in CacheKey |-> NoEntry]
    /\ memoryQueue' = <<>> /\ cacheQueue' = <<>>
    /\ storing' = FALSE /\ clearing' = FALSE
    /\ totalSize' = savedTotalSize
    /\ UNCHANGED <<files, fileDates, savedTotalSize, invalidated, expiredVersions, stores, cacheCalls>>

CacheInit ==
    /\ memoryCache = [k \in CacheKey |-> NoEntry] /\ files = [k \in CacheKey |-> NoEntry]
    /\ fileDates = <<>> /\ totalSize = 0 /\ savedTotalSize = 0
    /\ memoryQueue = <<>> /\ cacheQueue = <<>>
    /\ storing = FALSE /\ clearing = FALSE
    /\ expiredVersions = {} /\ invalidated = {}
    /\ stores = 0 /\ cacheCalls = 0 /\ crashes = 0

CacheNext ==
    \/ StoreRuleSet \/ InvalidateCacheForSource \/ InvalidateExpiredEntries
    \/ ClearMemoryCache \/ ClearDiskCache
    \/ StoreBlock \/ SaveMetadata \/ InvalidateBlock \/ CleanupBlock
    \/ ClearMemoryBlock \/ ClearDiskBlock
    \/ RuleSetForSource \/ AccessBlock \/ MemoryEvicts \/ EntryExpires \/ Crash

CacheSpec == CacheInit /\ [][CacheNext]_cacheVars

-----------------------------------------------------------------------------
(* Properties *)

CacheTypeOK ==
    /\ memoryCache \in [CacheKey -> CacheEntry \cup {NoEntry}]
    /\ files \in [CacheKey -> CacheEntry \cup {NoEntry}]
    /\ fileDates \in Seq(CacheKey) /\ totalSize \in 0 .. SizeLimit - 1
    /\ savedTotalSize \in 0 .. SizeLimit - 1
    /\ memoryQueue \in Seq(MemoryBlock) /\ cacheQueue \in Seq(CacheBlock)
    /\ storing \in BOOLEAN /\ clearing \in BOOLEAN
    /\ expiredVersions \subseteq 1 .. MaxStores /\ invalidated \subseteq CacheKey

\* The two caches never disagree about a source once the memory cache has caught up:
\* a promotion of what was read from disk does not undo a later store or
\* invalidation (RuleCache.m:144-176, 184-234).
CachesAgree ==
    memoryQueue = <<>> =>
        \A k \in CacheKey :
           memoryCache[k] # NoEntry /\ files[k] # NoEntry => memoryCache[k] = files[k]

=============================================================================
