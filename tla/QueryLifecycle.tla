--------------------------- MODULE QueryLifecycle ---------------------------
(***************************************************************************)
(* The life of a DNS query inside the network extension: from the client's *)
(* flow, through the transaction-ID keyed tables of ProxyProvider, to an    *)
(* upstream resolver and back (ProxyProvider/FlowManagement.m, Provider.m   *)
(* and Delegates.m).                                                       *)
(*                                                                         *)
(* Three kinds of thread touch the tables: the serial dnsQueue (UDP         *)
(* queries, retries, the cleanup timer, flow resets), the callback thread   *)
(* of a TCP flow, and one queue per upstream connection, on which            *)
(* processUpstreamResponse runs.  A block on dnsQueue or a TCP callback is   *)
(* one action; processUpstreamResponse, which shares the tables with        *)
(* dnsQueue without a lock, is one action per table access.                 *)
(*                                                                         *)
(* A query is an element of Query and arrives at most once; a client that   *)
(* retransmits is a second query with the same flow, ID and name.           *)
(***************************************************************************)
EXTENDS Naturals, FiniteSets, Sequences

CONSTANTS
    Query,              \* the queries that may arrive
    UdpFlow, TcpFlow,   \* NEAppProxyUDPFlow and NEAppProxyTCPFlow objects
    Txid,               \* 16-bit transaction IDs
    Name,               \* question names (with their type)
    Server,             \* upstream resolvers
    FlowOf, TxidOf, NameOf,  \* what a query carries
    ResolverOf,         \* the resolver the client addressed it to
    Malformed,          \* the queries DNSPacket parseQuery: refuses
    Verdict,            \* what the rules say of a name
    NeverCache,         \* names excluded from the DNS cache
    CacheEnabled,       \* dnshield_isDNSCacheEnabled
    ChainPreservation,  \* EnableDNSChainPreservation
    DefaultServers,     \* the configured dnsServers, in order
    None

Flow == UdpFlow \cup TcpFlow

ASSUME FlowAssumption ==
    /\ UdpFlow \cap TcpFlow = {}
    /\ None \notin Flow \cup Txid \cup Query \cup Server

ASSUME QueryAssumption ==
    /\ FlowOf \in [Query -> Flow]
    /\ TxidOf \in [Query -> Txid]
    /\ NameOf \in [Query -> Name]
    /\ ResolverOf \in [Query -> Server]
    /\ Malformed \subseteq Query

ASSUME PolicyAssumption ==
    /\ Verdict \in [Name -> {"block", "allow", "unlisted"}]
    /\ NeverCache \subseteq Name
    /\ CacheEnabled \in BOOLEAN
    /\ ChainPreservation \in BOOLEAN
    /\ DefaultServers \in Seq(Server) /\ DefaultServers # << >>

VARIABLES
    queryToClientInfo,    \* Txid -> the query whose client info is stored
    queryTimestamps,      \* Txid -> age class of the stored timestamp
    tcpFlows,             \* Txid -> the TCP flow waiting for that ID
    activeFlows,          \* UDP flows that may be written
    closedFlows,          \* UDP flows known to be closed
    openTcp,              \* TCP flows read from and not yet closed
    upstreamConnections,  \* Server -> state of the registered connection
    dnsServers,           \* preferred order of the upstream servers
    dnsCache,             \* Name -> transaction ID inside the cached answer
    isReachable,          \* networkReachability isReachable
    clearQueued,          \* clearAllDNSFlows has a block on dnsQueue
    retries,              \* queries with a 0.5 s dispatch_after pending
    tcpPending,           \* TCP queries between registration and processing
    handlers,             \* processUpstreamResponse calls in progress
    wire,                 \* queries sent upstream and still unanswered
    arrived,              \* queries read from their flow
    udpState,             \* UDP flow -> "new", "reading" or "failed" to open
    forwarded,            \* Query -> times it was sent upstream (up to 2)
    sent                  \* the answers written to client flows

tables == << queryToClientInfo, queryTimestamps, tcpFlows >>
flows  == << activeFlows, closedFlows, udpState >>
net    == << upstreamConnections, dnsServers, wire, forwarded >>
vars   == << tables, flows, net, openTcp, dnsCache, isReachable, clearQueued,
             retries, tcpPending, handlers, arrived, sent >>

-----------------------------------------------------------------------------
(* Answers and where they go *)

IsTcp(q) == FlowOf[q] \in TcpFlow

Via == {"cache", "offline", "block", "formerr", "servfail", "upstream"}

Answer == [to : Flow, txid : Txid, name : Name, via : Via]

Reply(q, x, via) == [txid |-> x, name |-> NameOf[q], via |-> via]

\* Fault: sendResponse does not check that a TCP flow is still registered.
RecipientsUnchecked(q, x) ==
    IF IsTcp(q) THEN {tcpFlows[x]} ELSE {FlowOf[q]} \cap (activeFlows \ closedFlows)

\* Fault: sendResponse writes to every tracked flow, not to the query's.
RecipientsBroadcast(q, x) ==
    IF IsTcp(q) THEN {tcpFlows[x]} \ {None} ELSE activeFlows \ closedFlows

\* The flow sendResponse writes an answer for q to: an untracked UDP flow is
\* skipped, and a nil flow means the TCP flow registered for the answer's ID.
Recipients(q, x) ==
    IF IsTcp(q) THEN {tcpFlows[x]} \ {None}
    ELSE {FlowOf[q]} \cap (activeFlows \ closedFlows)

Deliveries(q, r) ==
    { [to |-> f, txid |-> r.txid, name |-> r.name, via |-> r.via] :
        f \in Recipients(q, r.txid) }

\* Fault: the answer is written but the TCP flow is left open.
SendResponseLeavesOpen(q, r) ==
    LET x   == r.txid
        tcp == IsTcp(q) /\ tcpFlows[x] # None
    IN  /\ sent' = sent \cup Deliveries(q, r)
        /\ tcpFlows' = IF tcp THEN [tcpFlows EXCEPT ![x] = None] ELSE tcpFlows
        /\ queryTimestamps' =
             IF tcp THEN [queryTimestamps EXCEPT ![x] = "none"] ELSE queryTimestamps
        /\ UNCHANGED openTcp

\* sendResponse: write the answer; a TCP flow is closed after it and leaves
\* tcpFlows and queryTimestamps.
SendResponse(q, r) ==
    LET x   == r.txid
        tcp == IsTcp(q) /\ tcpFlows[x] # None
    IN  /\ sent' = sent \cup Deliveries(q, r)
        /\ tcpFlows' = IF tcp THEN [tcpFlows EXCEPT ![x] = None] ELSE tcpFlows
        /\ openTcp' = IF tcp THEN openTcp \ {tcpFlows[x]} ELSE openTcp
        /\ queryTimestamps' =
             IF tcp THEN [queryTimestamps EXCEPT ![x] = "none"]
                    ELSE queryTimestamps

-----------------------------------------------------------------------------
(* Choosing the upstream connection: forwardDNSQuery *)

Range(s) == { s[i] : i \in DOMAIN s }

\* clientInfo carries original_resolver only on the whitelist path.
Captured(info) == Verdict[NameOf[info]] = "allow"

Enforced(info) == Captured(info) \/ ChainPreservation

ServersAfter(info) ==
    IF Captured(info) /\ ResolverOf[info] \notin Range(dnsServers)
    THEN << ResolverOf[info] >> \o dnsServers
    ELSE dnsServers

Requested(info) ==
    IF Enforced(info) THEN ResolverOf[info] ELSE Head(ServersAfter(info))

Ready(s) == upstreamConnections[s] = "ready"

\* Fault: failover also runs for a query bound to its resolver.
WalkedUnguarded(info) ==
    LET servers == ServersAfter(info)
        Other(i) == servers[i] # Requested(info)
    IN  { i \in DOMAIN servers :
            /\ ~Ready(Requested(info)) /\ Other(i)
            /\ \A j \in 1..(i - 1) : Other(j) => ~Ready(servers[j]) }

\* The positions failover walks over: every other server, in order, up to
\* and including the first that is connected.
Walked(info) ==
    LET servers == ServersAfter(info)
        Other(i) == servers[i] # Requested(info)
    IN  IF Enforced(info) \/ Ready(Requested(info)) THEN {}
        ELSE { i \in DOMAIN servers :
                 /\ Other(i)
                 /\ \A j \in 1..(i - 1) : Other(j) => ~Ready(servers[j]) }

\* getOrCreateUpstreamConnectionForServer creates what is not registered.
Touched(info) ==
    {Requested(info)} \cup { ServersAfter(info)[i] : i \in Walked(info) }

Targets(info) == { s \in Touched(info) : Ready(s) }

Connect(info) ==
    /\ dnsServers' = ServersAfter(info)
    /\ upstreamConnections' =
         [s \in Server |-> IF s \in Touched(info) /\ upstreamConnections[s] = "absent"
                           THEN "connecting" ELSE upstreamConnections[s]]

\* Fault: the retry stays scheduled after the query went out.
TransmitKeepsRetry(q, info) ==
    /\ Targets(info) # {}
    /\ Connect(info)
    /\ wire' = wire \cup { [server |-> s, query |-> q] : s \in Targets(info) }
    /\ forwarded' = [forwarded EXCEPT ![q] = IF @ = 2 THEN 2 ELSE @ + 1]
    /\ retries' = retries \cup {q}

\* sendQuery on the chosen connection.
Transmit(q, info) ==
    /\ Targets(info) # {}
    /\ Connect(info)
    /\ wire' = wire \cup { [server |-> s, query |-> q] : s \in Targets(info) }
    /\ forwarded' = [forwarded EXCEPT ![q] = IF @ = 2 THEN 2 ELSE @ + 1]
    /\ retries' = retries \ {q}

\* No connection is ready: come back in 0.5 s.
Postpone(q, info) ==
    /\ Targets(info) = {}
    /\ Connect(info)
    /\ retries' = retries \cup {q}
    /\ UNCHANGED << wire, forwarded >>

Forward(q, info) == Transmit(q, info) \/ Postpone(q, info)

-----------------------------------------------------------------------------
(* A query is processed: processDNSQuery *)

CacheHit(q) == CacheEnabled /\ dnsCache[NameOf[q]] # None

\* The online path rewrites the ID of a cached answer to the query's.
CachedTxid(q) == TxidOf[q]

\* The answer processDNSQuery gives without going upstream.  Offline, a
\* cached answer goes out with the ID it was stored with.
OfflineReply(q) ==
    LET stored == dnsCache[NameOf[q]]
    IN  IF q \notin Malformed /\ stored # None THEN Reply(q, stored, "offline")
        ELSE Reply(q, TxidOf[q], "servfail")

OnlineReply(q) ==
    IF q \in Malformed THEN Reply(q, TxidOf[q], "formerr")
    ELSE IF CacheHit(q) THEN Reply(q, CachedTxid(q), "cache")
    ELSE Reply(q, TxidOf[q], "block")

LocalReply(q) == IF isReachable THEN OnlineReply(q) ELSE OfflineReply(q)

AnsweredLocally(q) ==
    \/ ~isReachable
    \/ q \in Malformed
    \/ CacheHit(q)
    \/ Verdict[NameOf[q]] = "block"

\* The client info is stored under the transaction ID alone.
Remember(q) ==
    /\ queryToClientInfo' = [queryToClientInfo EXCEPT ![TxidOf[q]] = q]
    /\ queryTimestamps' = [queryTimestamps EXCEPT ![TxidOf[q]] = "fresh"]

ProcessQuery(q) ==
    \/ /\ AnsweredLocally(q)
       /\ SendResponse(q, LocalReply(q))
       /\ UNCHANGED << queryToClientInfo, net, retries >>
    \/ /\ ~AnsweredLocally(q)
       /\ Remember(q)
       /\ Forward(q, q)
       /\ UNCHANGED << tcpFlows, openTcp, sent >>

\* A datagram read from an opened UDP flow reaches dnsQueue.
ReceiveUdp(q) ==
    /\ q \notin arrived /\ ~IsTcp(q) /\ udpState[FlowOf[q]] = "reading"
    /\ arrived' = arrived \cup {q}
    /\ ProcessQuery(q)
    /\ UNCHANGED << flows, dnsCache, isReachable, clearQueued, tcpPending, handlers >>

\* Fault: a TCP flow is registered without a timestamp.
RegisterTcpUnstamped(q) ==
    /\ tcpFlows' = [tcpFlows EXCEPT ![TxidOf[q]] = FlowOf[q]]
    /\ UNCHANGED queryTimestamps

\* handleTCPDNSFlow, on the flow's own thread: the flow is registered under
\* the query's ID, with a timestamp for the cleanup timer ...
RegisterTcp(q) ==
    /\ tcpFlows' = [tcpFlows EXCEPT ![TxidOf[q]] = FlowOf[q]]
    /\ queryTimestamps' = [queryTimestamps EXCEPT ![TxidOf[q]] = "fresh"]

ReceiveTcp(q) ==
    /\ q \notin arrived /\ IsTcp(q)
    /\ \A p \in arrived : FlowOf[p] # FlowOf[q]    \* one read per TCP flow
    /\ arrived' = arrived \cup {q}
    /\ openTcp' = openTcp \cup {FlowOf[q]}
    /\ tcpPending' = tcpPending \cup {q}
    /\ RegisterTcp(q)
    /\ UNCHANGED << queryToClientInfo, flows, net, dnsCache, isReachable,
                    clearQueued, retries, handlers, sent >>

\* ... and processDNSQuery is called there, not on dnsQueue.
ProcessTcp(q) ==
    /\ q \in tcpPending
    /\ tcpPending' = tcpPending \ {q}
    /\ ProcessQuery(q)
    /\ UNCHANGED << flows, dnsCache, isReachable, clearQueued, handlers, arrived >>

-----------------------------------------------------------------------------
(* The 0.5 s retry block of forwardDNSQuery, on dnsQueue *)

\* Fault: the block reschedules itself for a query that is no longer tracked.
RetryAbandonedReschedules(q) ==
    /\ queryToClientInfo[TxidOf[q]] = None
    /\ UNCHANGED << retries, tables, openTcp, net, sent >>

\* The query is no longer tracked: the chain ends.
RetryAbandoned(q) ==
    /\ queryToClientInfo[TxidOf[q]] = None
    /\ retries' = retries \ {q}
    /\ UNCHANGED << tables, openTcp, net, sent >>

TooOld(x) == queryTimestamps[x] \in {"late", "stuck"}

\* Still nothing connected after 2 s: sendServerFailureForTransactionID.
RetryGivesUp(q) ==
    LET x    == TxidOf[q]
        info == queryToClientInfo[x]
    IN  /\ info # None /\ Targets(info) = {} /\ TooOld(x)
        /\ Connect(info)
        /\ queryToClientInfo' = [queryToClientInfo EXCEPT ![x] = None]
        /\ queryTimestamps' = [queryTimestamps EXCEPT ![x] = "none"]
        /\ sent' = sent \cup Deliveries(info, Reply(info, x, "servfail"))
        /\ tcpFlows' = IF IsTcp(info) THEN [tcpFlows EXCEPT ![x] = None] ELSE tcpFlows
        /\ openTcp' = IF IsTcp(info) THEN openTcp \ {tcpFlows[x]} ELSE openTcp
        /\ retries' = retries \ {q}
        /\ UNCHANGED << wire, forwarded >>

\* A tracked query goes out with whatever client info its ID now has.
RetryForwards(q) ==
    LET x    == TxidOf[q]
        info == queryToClientInfo[x]
    IN  /\ info # None
        /\ Targets(info) = {} => ~TooOld(x)
        /\ Forward(q, info)
        /\ UNCHANGED << tables, openTcp, sent >>

Retry(q) ==
    /\ q \in retries
    /\ RetryAbandoned(q) \/ RetryGivesUp(q) \/ RetryForwards(q)
    /\ UNCHANGED << flows, dnsCache, isReachable, clearQueued, tcpPending,
                    handlers, arrived >>

-----------------------------------------------------------------------------
(* An upstream answer: processUpstreamResponse, on the connection's queue *)

\* The resolver answers a query; a duplicate may follow.  A connection's
\* queue is serial: one answer at a time per registered connection.
ResponseArrives(w) ==
    /\ w \in wire /\ Ready(w.server)
    /\ \A h \in handlers : ~(h.live /\ h.server = w.server)
    /\ handlers' = handlers \cup { [server |-> w.server, query |-> w.query,
                                    step |-> "lookup", owner |-> None, live |-> TRUE] }
    /\ wire' \in {wire, wire \ {w}}
    /\ UNCHANGED << tables, flows, upstreamConnections, dnsServers, forwarded, openTcp,
                    dnsCache, isReachable, clearQueued, retries, tcpPending, arrived, sent >>

Advance(h, next) == handlers' = (handlers \ {h}) \cup {next}

untouchedByHandler == << flows, net, isReachable, clearQueued, retries, tcpPending, arrived >>

\* Fault: the client info is not removed once the answer is matched.
LookupKeepsInfo(h) ==
    LET info == queryToClientInfo[TxidOf[h.query]]
    IN  /\ h.step = "lookup"
        /\ IF info = None THEN handlers' = handlers \ {h}
           ELSE Advance(h, [h EXCEPT !.step = "unstamp", !.owner = info])
        /\ UNCHANGED << untouchedByHandler, tables, openTcp, dnsCache, sent >>

\* No client info under the answer's ID: the answer is ignored.
Lookup(h) ==
    LET info == queryToClientInfo[TxidOf[h.query]]
    IN  /\ h.step = "lookup"
        /\ IF info = None THEN handlers' = handlers \ {h}
           ELSE Advance(h, [h EXCEPT !.step = "unmap", !.owner = info])
        /\ UNCHANGED << untouchedByHandler, tables, openTcp, dnsCache, sent >>

Unmap(h) ==
    /\ h.step = "unmap"
    /\ queryToClientInfo' = [queryToClientInfo EXCEPT ![TxidOf[h.query]] = None]
    /\ Advance(h, [h EXCEPT !.step = "unstamp"])
    /\ UNCHANGED << untouchedByHandler, queryTimestamps, tcpFlows, openTcp, dnsCache, sent >>

Unstamp(h) ==
    /\ h.step = "unstamp"
    /\ queryTimestamps' = [queryTimestamps EXCEPT ![TxidOf[h.query]] = "none"]
    /\ Advance(h, [h EXCEPT !.step = "deliver"])
    /\ UNCHANGED << untouchedByHandler, queryToClientInfo, tcpFlows, openTcp, dnsCache, sent >>

Cacheable(n) == CacheEnabled /\ n \notin NeverCache

\* The answer is cached under its own question (unless it is an error) and
\* goes to the flow found by the lookup.
Deliver(h) ==
    LET q == h.query
        n == NameOf[q]
    IN  /\ h.step = "deliver"
        /\ \/ Cacheable(n) /\ dnsCache' = [dnsCache EXCEPT ![n] = TxidOf[q]]
           \/ UNCHANGED dnsCache
        /\ SendResponse(h.owner, Reply(q, TxidOf[q], "upstream"))
        /\ handlers' = handlers \ {h}
        /\ UNCHANGED << untouchedByHandler, queryToClientInfo >>

HandlerStep(h) == Lookup(h) \/ Unmap(h) \/ Unstamp(h) \/ Deliver(h)

-----------------------------------------------------------------------------
(* The 5 s timer: cleanupStuckQueries, on dnsQueue *)

Expired == { x \in Txid : queryTimestamps[x] = "stuck" }

CleanupStuckQueries ==
    /\ Expired # {} \/ closedFlows \ activeFlows # {}
    /\ closedFlows' = closedFlows \cap activeFlows
    /\ sent' = sent \cup
         UNION { Deliveries(queryToClientInfo[x],
                            Reply(queryToClientInfo[x], x, "servfail")) :
                 x \in { y \in Expired : queryToClientInfo[y] # None } }
    /\ queryToClientInfo' = [x \in Txid |-> IF x \in Expired THEN None ELSE queryToClientInfo[x]]
    /\ queryTimestamps' = [x \in Txid |-> IF x \in Expired THEN "none" ELSE queryTimestamps[x]]
    /\ openTcp' = openTcp \ { tcpFlows[x] : x \in Expired }
    /\ tcpFlows' = [x \in Txid |-> IF x \in Expired THEN None ELSE tcpFlows[x]]
    /\ UNCHANGED << activeFlows, udpState, net, dnsCache, isReachable, clearQueued,
                    retries, tcpPending, handlers, arrived >>

\* Time: a timestamp is fresh for 2 s, late until 5 s, then stuck.
Older(age) == IF age = "fresh" THEN "late" ELSE "stuck"

Age(x) ==
    /\ queryTimestamps[x] \in {"fresh", "late"}
    /\ queryTimestamps' = [queryTimestamps EXCEPT ![x] = Older(@)]
    /\ UNCHANGED << queryToClientInfo, tcpFlows, flows, net, openTcp, dnsCache, isReachable,
                    clearQueued, retries, tcpPending, handlers, arrived, sent >>

-----------------------------------------------------------------------------
(* Flow resets: clearAllDNSFlows and didDetectPathChange *)

Orphan(hs) == { [h EXCEPT !.live = FALSE] : h \in hs }

DropConnections ==
    /\ upstreamConnections' = [s \in Server |-> "absent"]
    /\ wire' = {}
    /\ handlers' = Orphan(handlers)

\* The caller's part: the DNS cache goes at once, the rest is queued.
RequestClear ==
    /\ dnsCache' = [n \in Name |-> None]
    /\ clearQueued' = TRUE

ClearAllDNSFlows ==
    /\ clearQueued
    /\ clearQueued' = FALSE
    /\ DropConnections
    /\ queryToClientInfo' = [x \in Txid |-> None]
    /\ queryTimestamps' = [x \in Txid |-> "none"]
    /\ openTcp' = openTcp \ { tcpFlows[x] : x \in Txid }
    /\ tcpFlows' = [x \in Txid |-> None]
    /\ activeFlows' = {} /\ closedFlows' = {}
    /\ UNCHANGED << udpState, dnsServers, forwarded, dnsCache, isReachable, retries,
                    tcpPending, arrived, sent >>

PathChange ==
    /\ DropConnections
    /\ UNCHANGED << tables, flows, dnsServers, forwarded, openTcp, dnsCache, isReachable,
                    clearQueued, retries, tcpPending, arrived, sent >>

untouchedByNetwork == << tables, flows, net, openTcp, retries, tcpPending, handlers, arrived, sent >>

VpnChange == RequestClear /\ UNCHANGED << untouchedByNetwork, isReachable >>

\* Becoming reachable again resets every flow; becoming unreachable does not.
NetworkLost ==
    /\ isReachable /\ isReachable' = FALSE
    /\ UNCHANGED << untouchedByNetwork, dnsCache, clearQueued >>

NetworkRestored ==
    /\ ~isReachable /\ isReachable' = TRUE
    /\ RequestClear
    /\ UNCHANGED untouchedByNetwork

-----------------------------------------------------------------------------
(* Flows, connections and the cache as the rest of the system sees them *)

OpenUdpFlow(f) ==
    /\ udpState[f] = "new"
    /\ \/ /\ udpState' = [udpState EXCEPT ![f] = "reading"]
          /\ activeFlows' = activeFlows \cup {f} /\ UNCHANGED closedFlows
       \/ /\ udpState' = [udpState EXCEPT ![f] = "failed"]
          /\ closedFlows' = closedFlows \cup {f} /\ UNCHANGED activeFlows
    /\ UNCHANGED << tables, net, openTcp, dnsCache, isReachable, clearQueued, retries,
                    tcpPending, handlers, arrived, sent >>

\* A read or a write failed: the flow is marked closed on dnsQueue.
CloseUdpFlow(f) ==
    /\ udpState[f] = "reading"
    /\ closedFlows' = closedFlows \cup {f}
    /\ activeFlows' = activeFlows \ {f}
    /\ UNCHANGED << tables, net, udpState, openTcp, dnsCache, isReachable, clearQueued,
                    retries, tcpPending, handlers, arrived, sent >>

\* A connection becomes ready, fails and restarts, or is given up and
\* unregistered (didFailWithError); what was on it is lost.
ConnectionEvent(s) ==
    /\ upstreamConnections[s] # "absent"
    /\ upstreamConnections' \in
         { [upstreamConnections EXCEPT ![s] = st] : st \in {"ready", "connecting", "absent"} }
    /\ wire' = IF upstreamConnections'[s] = "ready" THEN wire
               ELSE { w \in wire : w.server # s }
    /\ handlers' = IF upstreamConnections'[s] = "absent"
                   THEN { h \in handlers : h.server # s }
                        \cup Orphan({ h \in handlers : h.server = s })
                   ELSE handlers
    /\ UNCHANGED << tables, flows, dnsServers, forwarded, openTcp, dnsCache, isReachable,
                    clearQueued, retries, tcpPending, arrived, sent >>

LoseDatagram(w) ==
    /\ wire' = wire \ {w}
    /\ UNCHANGED << tables, flows, upstreamConnections, dnsServers, forwarded, openTcp, dnsCache,
                    isReachable, clearQueued, retries, tcpPending, handlers, arrived, sent >>

ExpireCached(n) ==
    /\ dnsCache[n] # None
    /\ dnsCache' = [dnsCache EXCEPT ![n] = None]
    /\ UNCHANGED << tables, flows, net, openTcp, isReachable, clearQueued, retries,
                    tcpPending, handlers, arrived, sent >>

-----------------------------------------------------------------------------

Init ==
    /\ queryToClientInfo = [x \in Txid |-> None]
    /\ queryTimestamps = [x \in Txid |-> "none"]
    /\ tcpFlows = [x \in Txid |-> None]
    /\ activeFlows = {} /\ closedFlows = {} /\ openTcp = {}
    /\ udpState = [f \in UdpFlow |-> "new"]
    /\ upstreamConnections = [s \in Server |-> IF s \in Range(DefaultServers)
                                               THEN "connecting" ELSE "absent"]
    /\ dnsServers = DefaultServers
    /\ dnsCache = [n \in Name |-> None]
    /\ isReachable \in BOOLEAN
    /\ clearQueued = FALSE
    /\ retries = {} /\ tcpPending = {} /\ handlers = {} /\ wire = {} /\ arrived = {}
    /\ forwarded = [q \in Query |-> 0]
    /\ sent = {}

Next ==
    \/ \E q \in Query : ReceiveUdp(q) \/ ReceiveTcp(q) \/ ProcessTcp(q) \/ Retry(q)
    \/ \E w \in wire : ResponseArrives(w) \/ LoseDatagram(w)
    \/ \E h \in handlers : HandlerStep(h)
    \/ \E x \in Txid : Age(x)
    \/ CleanupStuckQueries
    \/ ClearAllDNSFlows \/ PathChange \/ VpnChange \/ NetworkLost \/ NetworkRestored
    \/ \E f \in UdpFlow : OpenUdpFlow(f) \/ CloseUdpFlow(f)
    \/ \E s \in Server : ConnectionEvent(s)
    \/ \E n \in Name : ExpireCached(n)

Spec == Init /\ [][Next]_vars

\* Blocks already on a queue run, timers fire and time passes; the network,
\* the clients and the resolvers owe nothing.
Fairness ==
    /\ \A q \in Query : WF_vars(Retry(q)) /\ WF_vars(ProcessTcp(q))
    /\ WF_vars(\E h \in handlers : Unmap(h))
    /\ WF_vars(\E h \in handlers : Unstamp(h))
    /\ WF_vars(\E h \in handlers : Deliver(h))
    /\ \A x \in Txid : WF_vars(Age(x))
    /\ WF_vars(CleanupStuckQueries)
    /\ WF_vars(ClearAllDNSFlows)

FairSpec == Spec /\ Fairness
-----------------------------------------------------------------------------
(* Properties *)

Handler == [server : Server, query : Query, step : {"lookup", "unmap", "unstamp", "deliver"},
            owner : Query \cup {None}, live : BOOLEAN]

\* The tables hold what the code puts in them.
TypeOK ==
    /\ queryToClientInfo \in [Txid -> Query \cup {None}]
    /\ queryTimestamps \in [Txid -> {"none", "fresh", "late", "stuck"}]
    /\ tcpFlows \in [Txid -> TcpFlow \cup {None}]
    /\ activeFlows \subseteq UdpFlow /\ closedFlows \subseteq UdpFlow
    /\ udpState \in [UdpFlow -> {"new", "reading", "failed"}]
    /\ openTcp \subseteq TcpFlow
    /\ upstreamConnections \in [Server -> {"absent", "connecting", "ready"}]
    /\ dnsServers \in Seq(Server) /\ dnsServers # << >>
    /\ dnsCache \in [Name -> Txid \cup {None}]
    /\ isReachable \in BOOLEAN /\ clearQueued \in BOOLEAN
    /\ retries \subseteq Query /\ tcpPending \subseteq Query /\ arrived \subseteq Query
    /\ handlers \subseteq Handler
    /\ wire \subseteq [server : Server, query : Query]
    /\ forwarded \in [Query -> 0..2]
    /\ sent \subseteq Answer

Asked(f, x) == \E q \in arrived : FlowOf[q] = f /\ TxidOf[q] = x

\* An answer is written only to a flow that sent a query with the answer's
\* transaction ID, whatever IDs collide, connections fail or flows reset; an
\* answer from the cache while offline (processDNSQuery, no ID rewritten) at
\* least answers that flow's question.
AnswersOnlyAskers ==
    \A a \in sent :
        \/ Asked(a.to, a.txid)
        \/ a.via = "offline" /\ \E q \in arrived : FlowOf[q] = a.to /\ NameOf[q] = a.name

\* forwardDNSQuery either sends a query or schedules one retry, so a query is
\* sent upstream at most once.
ForwardedAtMostOnce ==
    \A q \in Query : /\ forwarded[q] <= 1
                     /\ q \in retries => forwarded[q] = 0

\* Chain preservation: a query bound to the resolver its client addressed
\* never goes to another one, retries and failover included.
ChainPreserved == \A w \in wire : Enforced(w.query) => w.server = ResolverOf[w.query]

\* The cleanup timer looks at timestamps only: client info or a TCP flow
\* without one would be out of its reach for good.  A TCP answer removes the
\* timestamp before the flow, so a handler about to deliver also covers it.
Delivering(x) == \E h \in handlers : TxidOf[h.query] = x /\ h.step = "deliver"

PendingIsStamped ==
    \A x \in Txid : queryToClientInfo[x] # None => queryTimestamps[x] # "none"

TcpIsStamped ==
    \A x \in Txid : tcpFlows[x] # None => queryTimestamps[x] # "none" \/ Delivering(x)

\* The tables wait for an upstream answer with this ID, or a retry block does.
Waits(x) == queryToClientInfo[x] # None \/ \E q \in retries : TxidOf[q] = x

\* Whatever waits comes to rest, answered, refused with SERVFAIL or swept by a reset, and
\* with it the retry chain of the query, even if no connection ever becomes ready (the 2 s
\* limit of forwardDNSQuery, cleanupStuckQueries).
QueriesComeToRest == \A x \in Txid : Waits(x) ~> ~Waits(x)

\* Every TCP flow that was read is closed in the end.
TcpFlowsClose == \A f \in TcpFlow : f \in openTcp ~> f \notin openTcp

=============================================================================
