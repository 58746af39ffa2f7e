------------------------ MODULE QueryLifecycleProofs ------------------------
(***************************************************************************)
(* Theorems about QueryLifecycle, for any number of queries, flows, IDs,    *)
(* names and servers.                                                      *)
(***************************************************************************)
EXTENDS QueryLifecycle, TLAPS

-----------------------------------------------------------------------------
(* What the helpers return *)

LEMMA ServersAfterType ==
    ASSUME TypeOK, NEW info \in Query
    PROVE  ServersAfter(info) \in Seq(Server) /\ ServersAfter(info) # << >>
  BY QueryAssumption DEF TypeOK, ServersAfter

LEMMA TouchedType ==
    ASSUME TypeOK, NEW info \in Query
    PROVE  Touched(info) \subseteq Server /\ Requested(info) \in Server
<1>1. Requested(info) \in Server
  BY ServersAfterType, QueryAssumption DEF Requested
<1>2. \A i \in Walked(info) : ServersAfter(info)[i] \in Server
  BY ServersAfterType DEF Walked
<1> QED  BY <1>1, <1>2 DEF Touched

LEMMA DeliveriesType ==
    ASSUME TypeOK, NEW q \in Query, NEW r, r.txid \in Txid, r.name \in Name, r.via \in Via
    PROVE  Deliveries(q, r) \subseteq Answer
<1>1. Recipients(q, r.txid) \subseteq Flow
  BY QueryAssumption DEF TypeOK, Recipients, Flow
<1> QED  BY <1>1 DEF Deliveries, Answer

\* The part of TypeOK that sendResponse can disturb.
SendTables ==
    /\ tcpFlows \in [Txid -> TcpFlow \cup {None}]
    /\ openTcp \subseteq TcpFlow
    /\ queryTimestamps \in [Txid -> {"none", "fresh", "late", "stuck"}]
    /\ sent \subseteq Answer

LEMMA SendResponseType ==
    ASSUME TypeOK, NEW q \in Query, NEW r, r.txid \in Txid, r.name \in Name, r.via \in Via,
           SendResponse(q, r)
    PROVE  SendTables'
<1>1. Deliveries(q, r) \subseteq Answer
  BY DeliveriesType
<1>2. sent' \subseteq Answer
  BY <1>1 DEF SendResponse, TypeOK
<1> QED  BY <1>2 DEF SendResponse, TypeOK, SendTables

LEMMA LocalReplyType ==
    ASSUME TypeOK, NEW q \in Query
    PROVE  LET r == LocalReply(q)
           IN  r.txid \in Txid /\ r.name = NameOf[q] /\ r.name \in Name /\ r.via \in Via
<1>1. TxidOf[q] \in Txid /\ NameOf[q] \in Name
  BY QueryAssumption
<1>2. ASSUME dnsCache[NameOf[q]] # None PROVE dnsCache[NameOf[q]] \in Txid
  BY <1>1, <1>2 DEF TypeOK
<1> QED  BY <1>1, <1>2 DEF LocalReply, OfflineReply, OnlineReply, Reply, Via, CachedTxid

LEMMA ConnectType ==
    ASSUME TypeOK, NEW info \in Query, Connect(info)
    PROVE  /\ dnsServers' \in Seq(Server) /\ dnsServers' # << >>
           /\ upstreamConnections' \in [Server -> {"absent", "connecting", "ready"}]
<1>1. dnsServers' \in Seq(Server) /\ dnsServers' # << >>
  BY ServersAfterType DEF Connect
<1> QED  BY <1>1 DEF Connect, TypeOK

\* The part of TypeOK that forwardDNSQuery can disturb.
ForwardState ==
    /\ dnsServers \in Seq(Server) /\ dnsServers # << >>
    /\ upstreamConnections \in [Server -> {"absent", "connecting", "ready"}]
    /\ retries \subseteq Query
    /\ wire \subseteq [server : Server, query : Query]
    /\ forwarded \in [Query -> 0..2]

LEMMA ForwardType ==
    ASSUME TypeOK, NEW q \in Query, NEW info \in Query, Forward(q, info)
    PROVE  ForwardState'
<1>1. Connect(info)
  BY DEF Forward, Transmit, Postpone
<1>2. CASE Transmit(q, info)
  <2>1. Targets(info) \subseteq Server
    BY TouchedType DEF Targets
  <2>2. wire' \subseteq [server : Server, query : Query]
    BY <1>2, <2>1 DEF Transmit, TypeOK
  <2>3. forwarded' \in [Query -> 0..2]
    BY <1>2 DEF Transmit, TypeOK
  <2> QED  BY <1>1, <1>2, <2>2, <2>3, ConnectType DEF Transmit, TypeOK, ForwardState
<1>3. CASE Postpone(q, info)
  BY <1>1, <1>3, ConnectType DEF Postpone, TypeOK, ForwardState
<1> QED  BY <1>2, <1>3 DEF Forward

LEMMA ProcessQueryType ==
    ASSUME TypeOK, NEW q \in Query, ProcessQuery(q)
    PROVE  SendTables' /\ ForwardState' /\ queryToClientInfo' \in [Txid -> Query \cup {None}]
<1>1. CASE SendResponse(q, LocalReply(q)) /\ UNCHANGED << queryToClientInfo, net, retries >>
  <2>1. SendTables'
    BY <1>1, LocalReplyType, SendResponseType
  <2> QED  BY <1>1, <2>1 DEF TypeOK, ForwardState, net
<1>2. CASE Remember(q) /\ Forward(q, q) /\ UNCHANGED << tcpFlows, openTcp, sent >>
  <2>1. ForwardState'
    BY <1>2, ForwardType
  <2>2. /\ queryToClientInfo' \in [Txid -> Query \cup {None}]
        /\ queryTimestamps' \in [Txid -> {"none", "fresh", "late", "stuck"}]
    BY <1>2 DEF Remember, TypeOK
  <2> QED  BY <1>2, <2>1, <2>2 DEF TypeOK, SendTables
<1> QED  BY <1>1, <1>2 DEF ProcessQuery

LEMMA RetryType ==
    ASSUME TypeOK, NEW q \in Query, Retry(q)
    PROVE  SendTables' /\ ForwardState' /\ queryToClientInfo' \in [Txid -> Query \cup {None}]
<1> DEFINE x == TxidOf[q]
           info == queryToClientInfo[x]
<1>1. x \in Txid /\ (info # None => info \in Query)
  BY QueryAssumption DEF TypeOK
<1>2. CASE RetryAbandoned(q)
  BY <1>2 DEF RetryAbandoned, TypeOK, SendTables, ForwardState, tables, net
<1>3. CASE RetryGivesUp(q)
  <2>1. info \in Query /\ Connect(info)
    BY <1>1, <1>3 DEF RetryGivesUp
  <2>2. ForwardState'
    BY <1>3, <2>1, ConnectType DEF RetryGivesUp, TypeOK, ForwardState
  <2>3. Deliveries(info, Reply(info, x, "servfail")) \subseteq Answer
    <3>1. NameOf[info] \in Name
      BY <2>1, QueryAssumption
    <3> QED  BY <1>1, <2>1, <3>1, DeliveriesType DEF Reply, Via
  <2>4. sent' \subseteq Answer
    BY <1>3, <2>3 DEF RetryGivesUp, TypeOK
  <2> QED  BY <1>3, <2>2, <2>4 DEF RetryGivesUp, TypeOK, SendTables
<1>4. CASE RetryForwards(q)
  <2>1. info \in Query /\ Forward(q, info)
    BY <1>1, <1>4 DEF RetryForwards
  <2>2. ForwardState'
    BY <2>1, ForwardType
  <2> QED  BY <1>4, <2>2 DEF RetryForwards, TypeOK, SendTables, tables
<1> QED  BY <1>2, <1>3, <1>4 DEF Retry

LEMMA CleanupType ==
    ASSUME TypeOK, CleanupStuckQueries
    PROVE  sent' \subseteq Answer
<1>1. ASSUME NEW y \in Expired, queryToClientInfo[y] # None
      PROVE  Deliveries(queryToClientInfo[y], Reply(queryToClientInfo[y], y, "servfail"))
               \subseteq Answer
  <2>1. y \in Txid /\ queryToClientInfo[y] \in Query
    BY <1>1 DEF TypeOK, Expired
  <2>2. NameOf[queryToClientInfo[y]] \in Name
    BY <2>1, QueryAssumption
  <2> QED  BY <2>1, <2>2, DeliveriesType DEF Reply, Via
<1> QED  BY <1>1 DEF CleanupStuckQueries, TypeOK

LEMMA DeliverType ==
    ASSUME TypeOK, NEW h \in handlers, h.owner \in Query, Deliver(h)
    PROVE  SendTables' /\ dnsCache' \in [Name -> Txid \cup {None}]
<1>1. h.query \in Query
  BY DEF TypeOK, Handler
<1>2. TxidOf[h.query] \in Txid /\ NameOf[h.query] \in Name
  BY <1>1, QueryAssumption
<1>3. SendTables'
  BY <1>1, <1>2, SendResponseType DEF Deliver, Reply, Via
<1> QED  BY <1>2, <1>3 DEF Deliver, TypeOK

-----------------------------------------------------------------------------
(* Who may be answered *)

\* Client info is stored under the ID of a query that arrived ...
Tracked ==
    \A x \in Txid : queryToClientInfo[x] # None =>
        queryToClientInfo[x] \in arrived /\ TxidOf[queryToClientInfo[x]] = x

\* ... a TCP flow under an ID it asked with ...
Registered == \A x \in Txid : tcpFlows[x] # None => Asked(tcpFlows[x], x)

\* ... and the client info a handler holds is for the ID of its answer.
Owners ==
    \A h \in handlers : h.step # "lookup" =>
        h.owner \in arrived /\ TxidOf[h.owner] = TxidOf[h.query]

TcpArrived == tcpPending \subseteq arrived

\* The inductive invariant behind AnswersOnlyAskers.
AskersInv ==
    TypeOK /\ Tracked /\ Registered /\ Owners /\ TcpArrived /\ AnswersOnlyAskers

\* AnswersOnlyAskers for one answer, once the queries in A have arrived.
WellAddressed(A, a) ==
    \/ \E p \in A : FlowOf[p] = a.to /\ TxidOf[p] = a.txid
    \/ a.via = "offline" /\ \E p \in A : FlowOf[p] = a.to /\ NameOf[p] = a.name

LEMMA AskersRestated == AnswersOnlyAskers <=> \A a \in sent : WellAddressed(arrived, a)
  BY DEF AnswersOnlyAskers, WellAddressed, Asked

LEMMA DeliveriesAsked ==
    ASSUME TypeOK, Registered, NEW A, arrived \subseteq A, NEW q \in A, A \subseteq Query,
           NEW r, r.txid \in Txid,
           r.txid = TxidOf[q] \/ (r.via = "offline" /\ r.name = NameOf[q])
    PROVE  \A a \in Deliveries(q, r) : WellAddressed(A, a)
<1> SUFFICES ASSUME NEW f \in Recipients(q, r.txid)
             PROVE  WellAddressed(A, [to |-> f, txid |-> r.txid, name |-> r.name,
                                      via |-> r.via])
  BY DEF Deliveries
<1>1. CASE IsTcp(q)
  <2>1. f = tcpFlows[r.txid] /\ f # None
    BY <1>1 DEF Recipients
  <2>2. Asked(f, r.txid)
    BY <2>1 DEF Registered
  <2> QED  BY <2>2 DEF Asked, WellAddressed
<1>2. CASE ~IsTcp(q)
  <2>1. f = FlowOf[q]
    BY <1>2 DEF Recipients
  <2> QED  BY <2>1 DEF WellAddressed
<1> QED  BY <1>1, <1>2

\* What sendResponse leaves behind.
LEMMA SendResponseAsked ==
    ASSUME AskersInv, NEW A, arrived \subseteq A, NEW q \in A, A \subseteq Query,
           NEW r, r.txid \in Txid, SendResponse(q, r),
           r.txid = TxidOf[q] \/ (r.via = "offline" /\ r.name = NameOf[q])
    PROVE  /\ \A a \in sent' : WellAddressed(A, a)
           /\ \A x \in Txid : tcpFlows'[x] # None => tcpFlows'[x] = tcpFlows[x]
<1>1. \A a \in Deliveries(q, r) : WellAddressed(A, a)
  BY DeliveriesAsked DEF AskersInv
<1>2. \A a \in sent : WellAddressed(A, a)
  BY AskersRestated DEF AskersInv, WellAddressed
<1>3. sent' = sent \cup Deliveries(q, r)
  BY DEF SendResponse
<1>4. \A x \in Txid : tcpFlows'[x] # None => tcpFlows'[x] = tcpFlows[x]
  BY DEF SendResponse, AskersInv, TypeOK
<1> QED  BY <1>1, <1>2, <1>3, <1>4

\* The four parts of AskersInv that a step must keep, TypeOK and the handlers
\* apart, in terms of the primed variables.
LEMMA KeepAskers ==
    ASSUME AskersInv, arrived \subseteq arrived',
           \A a \in sent' : WellAddressed(arrived', a),
           \A x \in Txid : tcpFlows'[x] # None =>
               \/ tcpFlows'[x] = tcpFlows[x]
               \/ \E p \in arrived' : FlowOf[p] = tcpFlows'[x] /\ TxidOf[p] = x,
           \A x \in Txid : queryToClientInfo'[x] # None =>
               \/ queryToClientInfo'[x] = queryToClientInfo[x]
               \/ queryToClientInfo'[x] \in arrived' /\ TxidOf[queryToClientInfo'[x]] = x,
           \A h \in handlers' : h.step # "lookup" =>
               h.owner \in arrived' /\ TxidOf[h.owner] = TxidOf[h.query],
           tcpPending' \subseteq arrived'
    PROVE  (Tracked /\ Registered /\ Owners /\ TcpArrived /\ AnswersOnlyAskers)'
<1>1. Tracked'
  BY DEF AskersInv, Tracked
<1>2. Registered'
  BY DEF AskersInv, Registered, Asked
<1>3. AnswersOnlyAskers'
  BY DEF AnswersOnlyAskers, WellAddressed, Asked
<1> QED  BY <1>1, <1>2, <1>3 DEF Owners, TcpArrived

LEMMA ProcessQueryAsked ==
    ASSUME AskersInv, NEW A, arrived \subseteq A, NEW q \in A, A \subseteq Query,
           ProcessQuery(q)
    PROVE  /\ \A a \in sent' : WellAddressed(A, a)
           /\ \A x \in Txid : tcpFlows'[x] # None => tcpFlows'[x] = tcpFlows[x]
           /\ \A x \in Txid : queryToClientInfo'[x] # None =>
                  \/ queryToClientInfo'[x] = queryToClientInfo[x]
                  \/ queryToClientInfo'[x] = q /\ TxidOf[q] = x
<1>1. CASE SendResponse(q, LocalReply(q)) /\ UNCHANGED queryToClientInfo
  <2>1. LET r == LocalReply(q)
        IN  r.txid = TxidOf[q] \/ (r.via = "offline" /\ r.name = NameOf[q])
    BY DEF LocalReply, OfflineReply, OnlineReply, CachedTxid, Reply
  <2>2. LocalReply(q).txid \in Txid
    BY LocalReplyType DEF AskersInv
  <2> QED  BY <1>1, <2>1, <2>2, SendResponseAsked
<1>2. CASE Remember(q) /\ UNCHANGED << tcpFlows, openTcp, sent >>
  <2>1. \A a \in sent : WellAddressed(A, a)
    BY AskersRestated DEF AskersInv, WellAddressed
  <2> QED  BY <1>2, <2>1 DEF Remember, AskersInv, TypeOK
<1> QED  BY <1>1, <1>2 DEF ProcessQuery

LEMMA ReceiveUdpStep == ASSUME AskersInv, NEW q \in Query, ReceiveUdp(q) PROVE AskersInv'
<1>1. ProcessQuery(q) /\ arrived' = arrived \cup {q} /\ arrived' \subseteq Query
  BY DEF ReceiveUdp, AskersInv, TypeOK
<1>2. TypeOK'
  BY <1>1, ProcessQueryType DEF ReceiveUdp, AskersInv, TypeOK, SendTables, ForwardState, flows
<1>3. /\ \A a \in sent' : WellAddressed(arrived', a)
      /\ \A x \in Txid : tcpFlows'[x] # None => tcpFlows'[x] = tcpFlows[x]
      /\ \A x \in Txid : queryToClientInfo'[x] # None =>
             \/ queryToClientInfo'[x] = queryToClientInfo[x]
             \/ queryToClientInfo'[x] = q /\ TxidOf[q] = x
  BY <1>1, ProcessQueryAsked
<1>4. handlers' = handlers /\ tcpPending' = tcpPending
  BY DEF ReceiveUdp
<1> QED  BY <1>1, <1>2, <1>3, <1>4, KeepAskers DEF AskersInv, Owners, TcpArrived

LEMMA ReceiveTcpStep == ASSUME AskersInv, NEW q \in Query, ReceiveTcp(q) PROVE AskersInv'
<1>1. /\ arrived' = arrived \cup {q} /\ tcpPending' = tcpPending \cup {q}
      /\ RegisterTcp(q) /\ handlers' = handlers /\ sent' = sent
      /\ queryToClientInfo' = queryToClientInfo
  BY DEF ReceiveTcp
<1>2. FlowOf[q] \in TcpFlow
  BY DEF ReceiveTcp, IsTcp
<1>3. TypeOK'
  BY <1>2, QueryAssumption
     DEF ReceiveTcp, RegisterTcp, AskersInv, TypeOK, flows, net
<1>4. \A a \in sent' : WellAddressed(arrived', a)
  BY <1>1, AskersRestated DEF AskersInv, WellAddressed
<1>5. \A x \in Txid : tcpFlows'[x] # None =>
          \/ tcpFlows'[x] = tcpFlows[x]
          \/ \E p \in arrived' : FlowOf[p] = tcpFlows'[x] /\ TxidOf[p] = x
  BY <1>1 DEF RegisterTcp, AskersInv, TypeOK
<1> QED  BY <1>1, <1>3, <1>4, <1>5, KeepAskers DEF AskersInv, Owners, TcpArrived

LEMMA ProcessTcpStep == ASSUME AskersInv, NEW q \in Query, ProcessTcp(q) PROVE AskersInv'
<1>1. /\ ProcessQuery(q) /\ arrived' = arrived /\ q \in arrived /\ arrived \subseteq Query
      /\ handlers' = handlers /\ tcpPending' \subseteq tcpPending
  BY DEF ProcessTcp, AskersInv, TypeOK, TcpArrived
<1>2. TypeOK'
  BY <1>1, ProcessQueryType DEF ProcessTcp, AskersInv, TypeOK, SendTables, ForwardState, flows
<1>3. /\ \A a \in sent' : WellAddressed(arrived', a)
      /\ \A x \in Txid : tcpFlows'[x] # None => tcpFlows'[x] = tcpFlows[x]
      /\ \A x \in Txid : queryToClientInfo'[x] # None =>
             \/ queryToClientInfo'[x] = queryToClientInfo[x]
             \/ queryToClientInfo'[x] = q /\ TxidOf[q] = x
  BY <1>1, ProcessQueryAsked
<1> QED  BY <1>1, <1>2, <1>3, KeepAskers DEF AskersInv, Owners, TcpArrived

LEMMA RetryStep == ASSUME AskersInv, NEW q \in Query, Retry(q) PROVE AskersInv'
<1> DEFINE x == TxidOf[q]
           info == queryToClientInfo[x]
<1>1. handlers' = handlers /\ tcpPending' = tcpPending /\ arrived' = arrived
  BY DEF Retry
<1>2. TypeOK'
  BY RetryType DEF Retry, AskersInv, TypeOK, SendTables, ForwardState, flows
<1>3. \A a \in sent : WellAddressed(arrived, a)
  BY AskersRestated DEF AskersInv
<1>4. CASE RetryGivesUp(q)
  <2>1. x \in Txid /\ info \in arrived /\ TxidOf[info] = x /\ arrived \subseteq Query
    BY <1>4, QueryAssumption DEF RetryGivesUp, AskersInv, Tracked, TypeOK
  <2>2. \A a \in Deliveries(info, Reply(info, x, "servfail")) : WellAddressed(arrived, a)
    BY <2>1, DeliveriesAsked DEF AskersInv, Reply
  <2>3. \A a \in sent' : WellAddressed(arrived', a)
    BY <1>1, <1>3, <1>4, <2>2 DEF RetryGivesUp
  <2>4. /\ \A y \in Txid : tcpFlows'[y] # None => tcpFlows'[y] = tcpFlows[y]
        /\ \A y \in Txid : queryToClientInfo'[y] # None =>
               queryToClientInfo'[y] = queryToClientInfo[y]
    BY <1>4 DEF RetryGivesUp, AskersInv, TypeOK
  <2> QED  BY <1>1, <1>2, <2>3, <2>4, KeepAskers DEF AskersInv, Owners, TcpArrived
<1>5. CASE RetryAbandoned(q) \/ RetryForwards(q)
  <2>1. sent' = sent /\ tcpFlows' = tcpFlows /\ queryToClientInfo' = queryToClientInfo
    BY <1>5 DEF RetryAbandoned, RetryForwards, tables
  <2> QED  BY <1>1, <1>2, <1>3, <2>1, KeepAskers DEF AskersInv, Owners, TcpArrived
<1> QED  BY <1>4, <1>5 DEF Retry

\* Steps that answer nobody and only clear table entries.
LEMMA QuietAsked ==
    ASSUME AskersInv, TypeOK', Owners', sent' = sent, arrived' = arrived,
           tcpPending' = tcpPending,
           \A x \in Txid : tcpFlows'[x] # None => tcpFlows'[x] = tcpFlows[x],
           \A x \in Txid : queryToClientInfo'[x] # None =>
               queryToClientInfo'[x] = queryToClientInfo[x]
    PROVE  AskersInv'
<1>1. \A a \in sent' : WellAddressed(arrived', a)
  BY AskersRestated DEF AskersInv
<1> QED  BY <1>1, KeepAskers DEF AskersInv, Owners, TcpArrived

LEMMA ResponseArrivesStep ==
    ASSUME AskersInv, NEW w \in wire, ResponseArrives(w) PROVE AskersInv'
<1>1. w.server \in Server /\ w.query \in Query
  BY DEF AskersInv, TypeOK
<1>2. TypeOK'
  <2> DEFINE h == [server |-> w.server, query |-> w.query, step |-> "lookup",
                   owner |-> None, live |-> TRUE]
  <2>1. h \in Handler
    BY <1>1 DEF Handler
  <2>2. handlers' = handlers \cup {h}
    BY DEF ResponseArrives
  <2>3. handlers' \subseteq Handler
    BY <2>1, <2>2 DEF AskersInv, TypeOK
  <2>4. wire' \subseteq wire
    BY DEF ResponseArrives
  <2> QED  BY <2>3, <2>4 DEF ResponseArrives, AskersInv, TypeOK, tables, flows
<1>3. Owners'
  BY DEF ResponseArrives, AskersInv, Owners
<1> QED  BY <1>2, <1>3, QuietAsked DEF ResponseArrives, tables

LEMMA HandlerStepStep ==
    ASSUME AskersInv, NEW h \in handlers, HandlerStep(h) PROVE AskersInv'
<1> DEFINE q == h.query
           x == TxidOf[q]
<1>1. /\ h \in Handler /\ q \in Query /\ x \in Txid /\ NameOf[q] \in Name
      /\ arrived \subseteq Query
  BY QueryAssumption DEF AskersInv, TypeOK, Handler
<1>2. CASE Lookup(h)
  <2> DEFINE info == queryToClientInfo[x]
             next == [h EXCEPT !.step = "unmap", !.owner = info]
  <2>1. CASE info = None
    <3>1. handlers' = handlers \ {h}
      BY <1>2, <2>1 DEF Lookup
    <3>2. TypeOK'
      BY <1>2, <3>1 DEF Lookup, AskersInv, TypeOK, tables, untouchedByHandler, flows, net
    <3>3. Owners'
      BY <1>2, <3>1 DEF Lookup, AskersInv, Owners, untouchedByHandler
    <3> QED  BY <1>2, <3>2, <3>3, QuietAsked DEF Lookup, tables, untouchedByHandler
  <2>2. CASE info # None
    <3>1. handlers' = (handlers \ {h}) \cup {next}
      BY <1>2, <2>2 DEF Lookup, Advance
    <3>2. info \in arrived /\ TxidOf[info] = x
      BY <1>1, <2>2 DEF AskersInv, Tracked
    <3>3. next \in Handler /\ next.owner = info /\ next.query = q
      BY <1>1, <3>2 DEF Handler
    <3>4. TypeOK'
      <4>1. handlers' \subseteq Handler
        BY <3>1, <3>3 DEF AskersInv, TypeOK
      <4> QED  BY <1>2, <4>1 DEF Lookup, AskersInv, TypeOK, tables, untouchedByHandler,
                                 flows, net
    <3>5. Owners'
      BY <1>2, <3>1, <3>2, <3>3 DEF Lookup, AskersInv, Owners, untouchedByHandler
    <3> QED  BY <1>2, <3>4, <3>5, QuietAsked DEF Lookup, tables, untouchedByHandler
  <2> QED  BY <2>1, <2>2
<1>3. CASE Unmap(h)
  <2> DEFINE next == [h EXCEPT !.step = "unstamp"]
  <2>1. handlers' = (handlers \ {h}) \cup {next}
    BY <1>3 DEF Unmap, Advance
  <2>2. next \in Handler /\ next.owner = h.owner /\ next.query = q
    BY <1>1 DEF Handler
  <2>3. TypeOK'
    <3>1. handlers' \subseteq Handler
      BY <2>1, <2>2 DEF AskersInv, TypeOK
    <3> QED  BY <1>1, <1>3, <3>1 DEF Unmap, AskersInv, TypeOK, untouchedByHandler, flows, net
  <2>4. Owners'
    BY <1>3, <2>1, <2>2 DEF Unmap, AskersInv, Owners, untouchedByHandler
  <2>5. \A y \in Txid : queryToClientInfo'[y] # None =>
            queryToClientInfo'[y] = queryToClientInfo[y]
    BY <1>3 DEF Unmap, AskersInv, TypeOK
  <2> QED  BY <1>3, <2>3, <2>4, <2>5, QuietAsked DEF Unmap, untouchedByHandler
<1>4. CASE Unstamp(h)
  <2> DEFINE next == [h EXCEPT !.step = "deliver"]
  <2>1. handlers' = (handlers \ {h}) \cup {next}
    BY <1>4 DEF Unstamp, Advance
  <2>2. next \in Handler /\ next.owner = h.owner /\ next.query = q
    BY <1>1 DEF Handler
  <2>3. TypeOK'
    <3>1. handlers' \subseteq Handler
      BY <2>1, <2>2 DEF AskersInv, TypeOK
    <3> QED  BY <1>1, <1>4, <3>1 DEF Unstamp, AskersInv, TypeOK, untouchedByHandler, flows, net
  <2>4. Owners'
    BY <1>4, <2>1, <2>2 DEF Unstamp, AskersInv, Owners, untouchedByHandler
  <2> QED  BY <1>4, <2>3, <2>4, QuietAsked DEF Unstamp, untouchedByHandler
<1>5. CASE Deliver(h)
  <2>1. h.owner \in arrived /\ TxidOf[h.owner] = x
    BY <1>5 DEF Deliver, AskersInv, Owners
  <2> DEFINE r == Reply(q, x, "upstream")
  <2>2. SendResponse(h.owner, r) /\ r.txid = TxidOf[h.owner] /\ r.txid \in Txid
    BY <1>1, <1>5, <2>1 DEF Deliver, Reply
  <2>3. /\ \A a \in sent' : WellAddressed(arrived, a)
        /\ \A y \in Txid : tcpFlows'[y] # None => tcpFlows'[y] = tcpFlows[y]
    BY <1>1, <2>1, <2>2, SendResponseAsked
  <2>4. /\ handlers' \subseteq handlers /\ arrived' = arrived /\ tcpPending' = tcpPending
        /\ queryToClientInfo' = queryToClientInfo
    BY <1>5 DEF Deliver, untouchedByHandler
  <2>5. TypeOK'
    BY <1>1, <1>5, <2>1, <2>4, DeliverType
       DEF Deliver, AskersInv, TypeOK, SendTables, untouchedByHandler, flows, net
  <2> QED  BY <2>3, <2>4, <2>5, KeepAskers DEF AskersInv, Owners, TcpArrived
<1> QED  BY <1>2, <1>3, <1>4, <1>5 DEF HandlerStep

LEMMA CleanupStep == ASSUME AskersInv, CleanupStuckQueries PROVE AskersInv'
<1>1. /\ handlers' = handlers /\ tcpPending' = tcpPending /\ arrived' = arrived
  BY DEF CleanupStuckQueries
<1>2. TypeOK'
  <2>1. /\ queryToClientInfo' \in [Txid -> Query \cup {None}]
        /\ queryTimestamps' \in [Txid -> {"none", "fresh", "late", "stuck"}]
        /\ tcpFlows' \in [Txid -> TcpFlow \cup {None}]
        /\ openTcp' \subseteq TcpFlow /\ closedFlows' \subseteq UdpFlow
    BY DEF CleanupStuckQueries, AskersInv, TypeOK
  <2> QED  BY <2>1, CleanupType DEF CleanupStuckQueries, AskersInv, TypeOK, net
<1>3. ASSUME NEW y \in Expired, queryToClientInfo[y] # None,
             NEW a \in Deliveries(queryToClientInfo[y],
                                  Reply(queryToClientInfo[y], y, "servfail"))
      PROVE  WellAddressed(arrived, a)
  <2>1. /\ y \in Txid /\ queryToClientInfo[y] \in arrived
        /\ TxidOf[queryToClientInfo[y]] = y /\ arrived \subseteq Query
    BY <1>3 DEF AskersInv, Tracked, Expired, TypeOK
  <2> QED  BY <1>3, <2>1, DeliveriesAsked DEF AskersInv, Reply
<1>4. \A a \in sent' : WellAddressed(arrived', a)
  BY <1>1, <1>3, AskersRestated DEF CleanupStuckQueries, AskersInv
<1>5. /\ \A y \in Txid : tcpFlows'[y] # None => tcpFlows'[y] = tcpFlows[y]
      /\ \A y \in Txid : queryToClientInfo'[y] # None =>
             queryToClientInfo'[y] = queryToClientInfo[y]
  BY DEF CleanupStuckQueries
<1> QED  BY <1>1, <1>2, <1>4, <1>5, KeepAskers DEF AskersInv, Owners, TcpArrived

LEMMA OrphanType ==
    ASSUME NEW hs, hs \subseteq Handler PROVE Orphan(hs) \subseteq Handler
  BY DEF Orphan, Handler

\* Orphaning keeps who a handler answers.
LEMMA OrphanOwners ==
    ASSUME NEW hs, hs \subseteq Handler, NEW g \in Orphan(hs), g.step # "lookup"
    PROVE  \E h \in hs : h.step # "lookup" /\ h.owner = g.owner /\ h.query = g.query
  BY DEF Orphan, Handler

LEMMA ResetStep ==
    ASSUME AskersInv, ClearAllDNSFlows \/ PathChange PROVE AskersInv'
<1>1. /\ upstreamConnections' = [s \in Server |-> "absent"] /\ wire' = {}
      /\ handlers' = Orphan(handlers) /\ handlers \subseteq Handler /\ arrived' = arrived
      /\ sent' = sent /\ tcpPending' = tcpPending
  BY DEF ClearAllDNSFlows, PathChange, DropConnections, AskersInv, TypeOK
<1>2. TypeOK'
  <2>1. handlers' \subseteq Handler
    BY <1>1, OrphanType
  <2>2. CASE ClearAllDNSFlows
    BY <1>1, <2>1, <2>2 DEF ClearAllDNSFlows, AskersInv, TypeOK
  <2>3. CASE PathChange
    BY <1>1, <2>1, <2>3 DEF PathChange, AskersInv, TypeOK, tables, flows
  <2> QED  BY <2>2, <2>3
<1>3. Owners'
  BY <1>1, OrphanOwners DEF AskersInv, Owners
<1>4. /\ \A y \in Txid : tcpFlows'[y] # None => tcpFlows'[y] = tcpFlows[y]
      /\ \A y \in Txid : queryToClientInfo'[y] # None =>
             queryToClientInfo'[y] = queryToClientInfo[y]
  BY DEF ClearAllDNSFlows, PathChange, tables
<1> QED  BY <1>1, <1>2, <1>3, <1>4, QuietAsked

LEMMA ConnectionEventStep ==
    ASSUME AskersInv, NEW s \in Server, ConnectionEvent(s) PROVE AskersInv'
<1> DEFINE mine == { h \in handlers : h.server = s }
           others == { h \in handlers : h.server # s }
<1>1. /\ handlers' = handlers \/ handlers' = others \cup Orphan(mine)
      /\ handlers \subseteq Handler /\ arrived' = arrived
  BY DEF ConnectionEvent, AskersInv, TypeOK
<1>2. TypeOK'
  <2>1. handlers' \subseteq Handler
    <3>1. Orphan(mine) \subseteq Handler
      BY <1>1, OrphanType
    <3> QED  BY <1>1, <3>1
  <2>2. wire' \subseteq wire
    BY DEF ConnectionEvent
  <2>3. upstreamConnections' \in [Server -> {"absent", "connecting", "ready"}]
    BY DEF ConnectionEvent, AskersInv, TypeOK
  <2> QED  BY <2>1, <2>2, <2>3 DEF ConnectionEvent, AskersInv, TypeOK, tables, flows
<1>3. Owners'
  <2>1. CASE handlers' = handlers
    BY <1>1, <2>1 DEF AskersInv, Owners
  <2>2. CASE handlers' = others \cup Orphan(mine)
    <3>1. mine \subseteq Handler /\ mine \subseteq handlers
      BY <1>1
    <3>2. \A g \in Orphan(mine) : g.step # "lookup" =>
              \E h \in handlers : h.step # "lookup" /\ h.owner = g.owner /\ h.query = g.query
      BY <3>1, OrphanOwners
    <3> QED  BY <1>1, <2>2, <3>2 DEF AskersInv, Owners
  <2> QED  BY <1>1, <2>1, <2>2
<1> QED  BY <1>1, <1>2, <1>3, QuietAsked DEF ConnectionEvent, tables

LEMMA OtherSteps ==
    ASSUME AskersInv,
           \/ \E x \in Txid : Age(x)
           \/ VpnChange \/ NetworkLost \/ NetworkRestored
           \/ \E w \in wire : LoseDatagram(w)
           \/ \E f \in UdpFlow : OpenUdpFlow(f) \/ CloseUdpFlow(f)
           \/ \E n \in Name : ExpireCached(n)
           \/ UNCHANGED vars
    PROVE  AskersInv'
<1>1. CASE \E x \in Txid : Age(x)
  <2>1. TypeOK'
    BY <1>1 DEF Age, Older, AskersInv, TypeOK, flows, net
  <2> QED  BY <1>1, <2>1, QuietAsked DEF Age, AskersInv, Owners
<1>2. CASE VpnChange \/ NetworkLost \/ NetworkRestored
  <2>1. TypeOK'
    BY <1>2 DEF VpnChange, NetworkLost, NetworkRestored, RequestClear, untouchedByNetwork,
                AskersInv, TypeOK, tables, flows, net
  <2>2. UNCHANGED untouchedByNetwork
    BY <1>2 DEF VpnChange, NetworkLost, NetworkRestored
  <2> QED  BY <2>1, <2>2, QuietAsked DEF untouchedByNetwork, tables, AskersInv, Owners
<1>3. CASE \E w \in wire : LoseDatagram(w)
  <2>1. TypeOK'
    BY <1>3 DEF LoseDatagram, AskersInv, TypeOK, tables, flows
  <2> QED  BY <1>3, <2>1, QuietAsked DEF LoseDatagram, tables, AskersInv, Owners
<1>4. CASE \E f \in UdpFlow : OpenUdpFlow(f) \/ CloseUdpFlow(f)
  <2>1. TypeOK'
    BY <1>4 DEF OpenUdpFlow, CloseUdpFlow, AskersInv, TypeOK, tables, net
  <2> QED  BY <1>4, <2>1, QuietAsked DEF OpenUdpFlow, CloseUdpFlow, tables, AskersInv, Owners
<1>5. CASE \E n \in Name : ExpireCached(n)
  <2>1. TypeOK'
    BY <1>5 DEF ExpireCached, AskersInv, TypeOK, tables, flows, net
  <2> QED  BY <1>5, <2>1, QuietAsked DEF ExpireCached, tables, AskersInv, Owners
<1>6. CASE UNCHANGED vars
  <2>1. TypeOK'
    BY <1>6 DEF vars, AskersInv, TypeOK, tables, flows, net
  <2> QED  BY <1>6, <2>1, QuietAsked DEF vars, tables, AskersInv, Owners
<1> QED  BY <1>1, <1>2, <1>3, <1>4, <1>5, <1>6

LEMMA AskersInit == Init => AskersInv
<1> SUFFICES ASSUME Init PROVE AskersInv
  OBVIOUS
<1>1. TypeOK
  <2>1. /\ queryToClientInfo \in [Txid -> Query \cup {None}]
        /\ queryTimestamps \in [Txid -> {"none", "fresh", "late", "stuck"}]
        /\ tcpFlows \in [Txid -> TcpFlow \cup {None}]
        /\ udpState \in [UdpFlow -> {"new", "reading", "failed"}]
        /\ upstreamConnections \in [Server -> {"absent", "connecting", "ready"}]
        /\ dnsCache \in [Name -> Txid \cup {None}]
    BY DEF Init
  <2>2. forwarded \in [Query -> 0..2]
    BY DEF Init
  <2>3. dnsServers \in Seq(Server) /\ dnsServers # << >>
    BY PolicyAssumption DEF Init
  <2> QED  BY <2>1, <2>2, <2>3 DEF Init, TypeOK
<1> QED  BY <1>1 DEF Init, AskersInv, Tracked, Registered, Owners, TcpArrived, AnswersOnlyAskers

LEMMA AskersNext == AskersInv /\ [Next]_vars => AskersInv'
<1> SUFFICES ASSUME AskersInv, [Next]_vars PROVE AskersInv'
  OBVIOUS
<1>1. CASE \E q \in Query : ReceiveUdp(q) \/ ReceiveTcp(q) \/ ProcessTcp(q) \/ Retry(q)
  BY <1>1, ReceiveUdpStep, ReceiveTcpStep, ProcessTcpStep, RetryStep
<1>2. CASE \E w \in wire : ResponseArrives(w)
  BY <1>2, ResponseArrivesStep
<1>3. CASE \E h \in handlers : HandlerStep(h)
  BY <1>3, HandlerStepStep
<1>4. CASE CleanupStuckQueries
  BY <1>4, CleanupStep
<1>5. CASE ClearAllDNSFlows \/ PathChange
  BY <1>5, ResetStep
<1>6. CASE \E s \in Server : ConnectionEvent(s)
  BY <1>6, ConnectionEventStep
<1> QED  BY <1>1, <1>2, <1>3, <1>4, <1>5, <1>6, OtherSteps DEF Next

\* The tables hold what the code puts in them: no step writes a query, flow,
\* ID or server of the wrong kind, and dnsServers never becomes empty, so
\* forwardDNSQuery always has a server to fall back on.
THEOREM TypeCorrect == Spec => []TypeOK
<1>1. AskersInv => TypeOK
  BY DEF AskersInv
<1> QED  BY <1>1, AskersInit, AskersNext, PTL DEF Spec

\* processDNSQuery, processUpstreamResponse, the retry block and the cleanup
\* timer write an answer only to a flow that asked with the answer's ID (or,
\* offline, for the answer's name): whatever the number of clients, IDs and
\* resolvers, and however their steps interleave with resets.
THEOREM AnswersReachAskers == Spec => []AnswersOnlyAskers
<1>1. AskersInv => AnswersOnlyAskers
  BY DEF AskersInv
<1> QED  BY <1>1, AskersInit, AskersNext, PTL DEF Spec

-----------------------------------------------------------------------------
(* One query goes upstream once *)

\* A query not yet handed to processDNSQuery was never sent nor postponed.
Unprocessed(q) == q \notin arrived \/ q \in tcpPending

OnceInv ==
    /\ TypeOK /\ TcpArrived /\ ForwardedAtMostOnce
    /\ \A q \in Query : Unprocessed(q) => q \notin retries /\ forwarded[q] = 0

\* forwardDNSQuery for q: sent once and no longer scheduled, or scheduled and
\* not sent.
LEMMA ForwardOnce ==
    ASSUME TypeOK, NEW q \in Query, NEW info, forwarded[q] = 0, Forward(q, info)
    PROVE  /\ forwarded'[q] <= 1 /\ (q \in retries' => forwarded'[q] = 0)
           /\ \A p \in Query \ {q} : /\ forwarded'[p] = forwarded[p]
                                     /\ p \in retries' <=> p \in retries
<1>1. CASE Transmit(q, info)
  BY <1>1 DEF Transmit, TypeOK
<1>2. CASE Postpone(q, info)
  BY <1>2 DEF Postpone, TypeOK
<1> QED  BY <1>1, <1>2 DEF Forward

LEMMA ProcessQueryOnce ==
    ASSUME OnceInv, NEW q \in Query, Unprocessed(q), ProcessQuery(q)
    PROVE  /\ forwarded'[q] <= 1 /\ (q \in retries' => forwarded'[q] = 0)
           /\ \A p \in Query \ {q} : /\ forwarded'[p] = forwarded[p]
                                     /\ p \in retries' <=> p \in retries
<1>1. CASE UNCHANGED << net, retries >>
  BY <1>1 DEF OnceInv, net
<1>2. CASE Forward(q, q)
  BY <1>2, ForwardOnce DEF OnceInv
<1> QED  BY <1>1, <1>2 DEF ProcessQuery

LEMMA OnceNext == OnceInv /\ TypeOK' /\ [Next]_vars => OnceInv'
<1> SUFFICES ASSUME OnceInv, TypeOK', [Next]_vars PROVE OnceInv'
  OBVIOUS
<1>1. CASE \E q \in Query : ReceiveUdp(q) \/ ProcessTcp(q)
  <2> PICK q \in Query : ReceiveUdp(q) \/ ProcessTcp(q)
    BY <1>1
  <2>1. Unprocessed(q) /\ ProcessQuery(q)
    BY DEF ReceiveUdp, ProcessTcp, Unprocessed
  <2>2. /\ forwarded'[q] <= 1 /\ (q \in retries' => forwarded'[q] = 0)
        /\ \A p \in Query \ {q} : /\ forwarded'[p] = forwarded[p]
                                  /\ p \in retries' <=> p \in retries
    BY <2>1, ProcessQueryOnce
  <2>3. /\ arrived' = arrived \cup {q} /\ tcpPending' = tcpPending \ {q}
    BY DEF ReceiveUdp, ProcessTcp, OnceInv, TcpArrived
  <2> QED  BY <2>2, <2>3 DEF OnceInv, TcpArrived, ForwardedAtMostOnce, Unprocessed
<1>2. CASE \E q \in Query : ReceiveTcp(q)
  BY <1>2 DEF ReceiveTcp, OnceInv, TcpArrived, ForwardedAtMostOnce, Unprocessed, net
<1>3. CASE \E q \in Query : Retry(q)
  <2> PICK q \in Query : Retry(q)
    BY <1>3
  <2>1. q \in retries /\ forwarded[q] = 0 /\ ~Unprocessed(q)
    BY DEF Retry, OnceInv, ForwardedAtMostOnce
  <2>2. /\ forwarded'[q] <= 1 /\ (q \in retries' => forwarded'[q] = 0)
        /\ \A p \in Query \ {q} : /\ forwarded'[p] = forwarded[p]
                                  /\ p \in retries' <=> p \in retries
    <3>1. CASE RetryAbandoned(q) \/ RetryGivesUp(q)
      BY <2>1, <3>1 DEF RetryAbandoned, RetryGivesUp, net
    <3>2. CASE RetryForwards(q)
      BY <2>1, <3>2, ForwardOnce DEF RetryForwards, OnceInv
    <3> QED  BY <3>1, <3>2 DEF Retry
  <2>3. arrived' = arrived /\ tcpPending' = tcpPending
    BY DEF Retry
  <2> QED  BY <2>1, <2>2, <2>3 DEF OnceInv, TcpArrived, ForwardedAtMostOnce, Unprocessed
<1>4. CASE UNCHANGED << forwarded, retries, arrived, tcpPending >>
  BY <1>4 DEF OnceInv, TcpArrived, ForwardedAtMostOnce, Unprocessed
<1>5. CASE \/ \E w \in wire : ResponseArrives(w) \/ LoseDatagram(w)
           \/ \E h \in handlers : HandlerStep(h)
  BY <1>4, <1>5 DEF ResponseArrives, LoseDatagram, HandlerStep, Lookup, Unmap, Unstamp, Deliver,
                    untouchedByHandler, net
<1>6. CASE \/ \E x \in Txid : Age(x)
           \/ CleanupStuckQueries \/ ClearAllDNSFlows \/ PathChange
           \/ VpnChange \/ NetworkLost \/ NetworkRestored
  BY <1>4, <1>6 DEF Age, CleanupStuckQueries, ClearAllDNSFlows, PathChange, VpnChange,
                    NetworkLost, NetworkRestored, untouchedByNetwork, net
<1>7. CASE \/ \E f \in UdpFlow : OpenUdpFlow(f) \/ CloseUdpFlow(f)
           \/ \E s \in Server : ConnectionEvent(s)
           \/ \E n \in Name : ExpireCached(n)
           \/ UNCHANGED vars
  BY <1>4, <1>7 DEF OpenUdpFlow, CloseUdpFlow, ConnectionEvent, ExpireCached, vars, net
<1> QED  BY <1>1, <1>2, <1>3, <1>5, <1>6, <1>7 DEF Next

\* forwardDNSQuery, its failover loop and its retry block never send the same
\* query to an upstream resolver twice.
THEOREM ForwardedOnce == Spec => []ForwardedAtMostOnce
<1>1. Init => OnceInv
  <2> SUFFICES ASSUME Init PROVE OnceInv
    OBVIOUS
  <2>1. TypeOK
    BY AskersInit DEF AskersInv
  <2> QED  BY <2>1 DEF Init, OnceInv, TcpArrived, ForwardedAtMostOnce
<1>2. OnceInv => ForwardedAtMostOnce
  BY DEF OnceInv
<1> QED  BY <1>1, <1>2, TypeCorrect, OnceNext, PTL DEF Spec

-----------------------------------------------------------------------------
(* What holds as long as no two queries share a transaction ID *)

DistinctTxids == \A p, q \in Query : TxidOf[p] = TxidOf[q] => p = q

\* forwardDNSQuery for a bound query reaches no server but the requested one.
LEMMA BoundTargets ==
    ASSUME NEW q \in Query, Enforced(q)
    PROVE  Targets(q) \subseteq {ResolverOf[q]}
  BY DEF Targets, Touched, Walked, Requested

LEMMA ForwardChain ==
    ASSUME ChainPreserved, NEW q \in Query, Forward(q, q)
    PROVE  ChainPreserved'
<1>1. CASE Transmit(q, q)
  BY <1>1, BoundTargets DEF Transmit, ChainPreserved, Enforced, Captured
<1>2. CASE Postpone(q, q)
  BY <1>2 DEF Postpone, ChainPreserved, Enforced, Captured
<1> QED  BY <1>1, <1>2 DEF Forward

\* Steps that send nothing.
LEMMA SmallerWire ==
    ASSUME ChainPreserved, wire' \subseteq wire PROVE ChainPreserved'
  BY DEF ChainPreserved, Enforced, Captured

\* The retry block finds the client info of its own query.
LEMMA RetryOwn ==
    ASSUME DistinctTxids, AskersInv, NEW q \in Query, queryToClientInfo[TxidOf[q]] # None
    PROVE  queryToClientInfo[TxidOf[q]] = q
<1>1. TxidOf[q] \in Txid
  BY QueryAssumption
<1> QED  BY <1>1 DEF AskersInv, Tracked, DistinctTxids, TypeOK

LEMMA ChainNext ==
    ASSUME DistinctTxids, AskersInv, ChainPreserved, [Next]_vars PROVE ChainPreserved'
<1>1. CASE \E q \in Query : ReceiveUdp(q) \/ ProcessTcp(q)
  <2> PICK q \in Query : ProcessQuery(q)
    BY <1>1 DEF ReceiveUdp, ProcessTcp
  <2> QED  BY ForwardChain, SmallerWire DEF ProcessQuery, net
<1>2. CASE \E q \in Query : Retry(q)
  <2> PICK q \in Query : Retry(q)
    BY <1>2
  <2>1. CASE RetryForwards(q)
    <3>1. Forward(q, q)
      BY <2>1, RetryOwn DEF RetryForwards
    <3> QED  BY <3>1, ForwardChain
  <2>2. CASE RetryAbandoned(q) \/ RetryGivesUp(q)
    BY <2>2, SmallerWire DEF RetryAbandoned, RetryGivesUp, net
  <2> QED  BY <2>1, <2>2 DEF Retry
<1>3. CASE wire' \subseteq wire
  BY <1>3, SmallerWire
<1>4. CASE \/ \E q \in Query : ReceiveTcp(q)
           \/ \E w \in wire : ResponseArrives(w) \/ LoseDatagram(w)
           \/ \E h \in handlers : HandlerStep(h)
  BY <1>3, <1>4 DEF ReceiveTcp, ResponseArrives, LoseDatagram, HandlerStep, Lookup, Unmap,
                    Unstamp, Deliver, untouchedByHandler, net
<1>5. CASE \/ \E x \in Txid : Age(x)
           \/ CleanupStuckQueries \/ ClearAllDNSFlows \/ PathChange
           \/ VpnChange \/ NetworkLost \/ NetworkRestored
  BY <1>3, <1>5 DEF Age, CleanupStuckQueries, ClearAllDNSFlows, PathChange, DropConnections,
                    VpnChange, NetworkLost, NetworkRestored, untouchedByNetwork, net
<1>6. CASE \/ \E f \in UdpFlow : OpenUdpFlow(f) \/ CloseUdpFlow(f)
           \/ \E s \in Server : ConnectionEvent(s)
           \/ \E n \in Name : ExpireCached(n)
           \/ UNCHANGED vars
  BY <1>3, <1>6 DEF OpenUdpFlow, CloseUdpFlow, ConnectionEvent, ExpireCached, vars, net
<1> QED  BY <1>1, <1>2, <1>4, <1>5, <1>6 DEF Next

\* As long as IDs are distinct, a query bound to the resolver its client chose
\* (chain preservation, or a whitelisted name) is sent to no other resolver by
\* forwardDNSQuery, its failover loop or its retry block.
THEOREM ChainKept ==
    ASSUME DistinctTxids PROVE Spec => []ChainPreserved
<1>1. Init => ChainPreserved
  BY DEF Init, ChainPreserved
<1>2. AskersInv /\ ChainPreserved /\ [Next]_vars => ChainPreserved'
  BY ChainNext
<1> QED  BY <1>1, <1>2, AskersInit, AskersNext, PTL DEF Spec

-----------------------------------------------------------------------------
(* Nothing waits out of the cleanup timer's reach, IDs being distinct *)

Processed(q) == q \in arrived /\ q \notin tcpPending

\* Only processed queries are tracked, on the wire or being answered ...
InFlight ==
    /\ \A x \in Txid : queryToClientInfo[x] # None => Processed(queryToClientInfo[x])
    /\ \A w \in wire : Processed(w.query)
    /\ \A h \in handlers : Processed(h.query)

\* ... a handler past Unmap has left no client info ...
Unmapped ==
    \A h \in handlers : h.step \in {"unstamp", "deliver"} =>
        queryToClientInfo[TxidOf[h.query]] = None

\* ... and the ID inside a cached answer waits for no TCP flow any more.
CachedSettled ==
    \A n \in Name : dnsCache[n] # None =>
        /\ tcpFlows[dnsCache[n]] = None
        /\ \E q \in Query : Processed(q) /\ TxidOf[q] = dnsCache[n]

StampInv ==
    AskersInv /\ InFlight /\ Unmapped /\ CachedSettled /\ PendingIsStamped /\ TcpIsStamped

\* A TCP flow is registered only under the ID of a TCP query.
LEMMA UdpNotRegistered ==
    ASSUME DistinctTxids, AskersInv, NEW q \in Query, ~IsTcp(q)
    PROVE  tcpFlows[TxidOf[q]] = None
<1>1. TxidOf[q] \in Txid
  BY QueryAssumption
<1>2. SUFFICES ASSUME tcpFlows[TxidOf[q]] # None PROVE FALSE
  OBVIOUS
<1>3. PICK p \in arrived : FlowOf[p] = tcpFlows[TxidOf[q]] /\ TxidOf[p] = TxidOf[q]
  BY <1>1, <1>2 DEF AskersInv, Registered, Asked
<1>4. p = q
  BY <1>3 DEF DistinctTxids, AskersInv, TypeOK
<1> QED  BY <1>1, <1>2, <1>3, <1>4 DEF AskersInv, TypeOK, IsTcp

\* sendResponse for q disturbs the two invariants at no ID, when nothing is
\* tracked under the answer's ID or no TCP flow is registered there.
LEMMA SendResponseStamps ==
    ASSUME TypeOK, NEW q \in Query, NEW r, r.txid \in Txid, SendResponse(q, r),
           queryToClientInfo[r.txid] = None \/ tcpFlows[r.txid] = None,
           PendingIsStamped, queryToClientInfo' = queryToClientInfo
    PROVE  /\ PendingIsStamped'
           /\ \A x \in Txid : tcpFlows'[x] # None =>
                  tcpFlows'[x] = tcpFlows[x] /\ queryTimestamps'[x] = queryTimestamps[x]
           /\ tcpFlows[r.txid] # None /\ IsTcp(q) => tcpFlows'[r.txid] = None
  BY DEF SendResponse, PendingIsStamped, TypeOK

\* processDNSQuery, for a query not processed before.
LEMMA ProcessQueryStamps ==
    ASSUME DistinctTxids, StampInv, NEW q \in Query, Unprocessed(q), ProcessQuery(q)
    PROVE  /\ PendingIsStamped'
           /\ \A x \in Txid : tcpFlows'[x] # None =>
                  /\ tcpFlows'[x] = tcpFlows[x]
                  /\ queryTimestamps'[x] \in {queryTimestamps[x], "fresh"}
           /\ \A x \in Txid : queryToClientInfo'[x] # queryToClientInfo[x] =>
                  x = TxidOf[q] /\ queryToClientInfo'[x] = q
           /\ \A w \in wire' : w \in wire \/ w.query = q
<1> DEFINE x == TxidOf[q]
           r == LocalReply(q)
<1>1. x \in Txid /\ queryToClientInfo[x] = None
  <2>1. x \in Txid
    BY QueryAssumption
  <2>2. ASSUME queryToClientInfo[x] # None PROVE FALSE
    BY <2>1, <2>2, RetryOwn DEF StampInv, InFlight, Processed, Unprocessed
  <2> QED  BY <2>1, <2>2
<1>2. CASE SendResponse(q, r) /\ UNCHANGED << queryToClientInfo, net, retries >>
  <2>1. r.txid = x \/ (r.txid = dnsCache[NameOf[q]] /\ dnsCache[NameOf[q]] # None)
    BY DEF LocalReply, OfflineReply, OnlineReply, CachedTxid, Reply
  <2>2. NameOf[q] \in Name /\ r.txid \in Txid
    BY LocalReplyType, QueryAssumption DEF StampInv, AskersInv
  <2>3. queryToClientInfo[r.txid] = None \/ tcpFlows[r.txid] = None
    BY <1>1, <2>1, <2>2 DEF StampInv, CachedSettled
  <2>4. TypeOK /\ PendingIsStamped
    BY DEF StampInv, AskersInv
  <2>5. /\ PendingIsStamped'
        /\ \A y \in Txid : tcpFlows'[y] # None =>
               tcpFlows'[y] = tcpFlows[y] /\ queryTimestamps'[y] = queryTimestamps[y]
    BY <1>2, <2>2, <2>3, <2>4, SendResponseStamps
  <2> QED  BY <1>2, <2>5 DEF net
<1>3. CASE Remember(q) /\ Forward(q, q) /\ UNCHANGED << tcpFlows, openTcp, sent >>
  <2>1. \A w \in wire' : w \in wire \/ w.query = q
    BY <1>3 DEF Forward, Transmit, Postpone
  <2>2. /\ queryToClientInfo' = [queryToClientInfo EXCEPT ![x] = q]
        /\ queryTimestamps' = [queryTimestamps EXCEPT ![x] = "fresh"]
    BY <1>3 DEF Remember
  <2>3. PendingIsStamped'
    BY <1>1, <2>2 DEF StampInv, AskersInv, TypeOK, PendingIsStamped
  <2>4. \A y \in Txid : queryTimestamps'[y] \in {queryTimestamps[y], "fresh"}
    BY <1>1, <2>2 DEF StampInv, AskersInv, TypeOK
  <2>5. \A y \in Txid : queryToClientInfo'[y] # queryToClientInfo[y] =>
            y = x /\ queryToClientInfo'[y] = q
    BY <1>1, <2>2 DEF StampInv, AskersInv, TypeOK
  <2> QED  BY <1>3, <2>1, <2>3, <2>4, <2>5
<1> QED  BY <1>2, <1>3 DEF ProcessQuery

LEMMA StampProcess ==
    ASSUME DistinctTxids, StampInv, AskersInv', NEW q \in Query, ReceiveUdp(q) \/ ProcessTcp(q)
    PROVE  StampInv'
<1>1. /\ Unprocessed(q) /\ ProcessQuery(q) /\ handlers' = handlers /\ dnsCache' = dnsCache
      /\ arrived' = arrived \cup {q} /\ tcpPending' = tcpPending \ {q}
  BY DEF ReceiveUdp, ProcessTcp, Unprocessed, StampInv, AskersInv, TcpArrived
<1>2. /\ PendingIsStamped'
      /\ \A x \in Txid : tcpFlows'[x] # None =>
             /\ tcpFlows'[x] = tcpFlows[x]
             /\ queryTimestamps'[x] \in {queryTimestamps[x], "fresh"}
      /\ \A x \in Txid : queryToClientInfo'[x] # queryToClientInfo[x] =>
             x = TxidOf[q] /\ queryToClientInfo'[x] = q
      /\ \A w \in wire' : w \in wire \/ w.query = q
  BY <1>1, ProcessQueryStamps
<1>3. \A p : Processed(p) \/ p = q => Processed(p)'
  BY <1>1 DEF Processed
<1>4. InFlight'
  BY <1>1, <1>2, <1>3 DEF StampInv, InFlight, Processed
<1>5. Unmapped'
  <2> SUFFICES ASSUME NEW h \in handlers, h.step \in {"unstamp", "deliver"}
               PROVE  queryToClientInfo'[TxidOf[h.query]] = None
    BY <1>1 DEF Unmapped
  <2>1. h.query \in Query /\ TxidOf[h.query] \in Txid /\ Processed(h.query)
    BY QueryAssumption DEF StampInv, AskersInv, TypeOK, Handler, InFlight
  <2>2. TxidOf[h.query] # TxidOf[q]
    BY <1>1, <2>1 DEF DistinctTxids, Processed, Unprocessed
  <2> QED  BY <1>2, <2>1, <2>2 DEF StampInv, Unmapped
<1>6. CachedSettled'
  <2> SUFFICES ASSUME NEW n \in Name, dnsCache[n] # None
               PROVE  /\ tcpFlows'[dnsCache[n]] = None
                      /\ \E p \in Query : Processed(p)' /\ TxidOf[p] = dnsCache[n]
    BY <1>1 DEF CachedSettled
  <2>1. dnsCache[n] \in Txid /\ tcpFlows[dnsCache[n]] = None
    BY DEF StampInv, AskersInv, TypeOK, CachedSettled
  <2> QED  BY <1>2, <1>3, <2>1 DEF StampInv, CachedSettled
<1>7. TcpIsStamped'
  <2> SUFFICES ASSUME NEW x \in Txid, tcpFlows'[x] # None
               PROVE  queryTimestamps'[x] # "none" \/ Delivering(x)'
    BY DEF TcpIsStamped
  <2>1. queryTimestamps[x] # "none" \/ Delivering(x)
    BY <1>2 DEF StampInv, TcpIsStamped
  <2> QED  BY <1>1, <1>2, <2>1 DEF Delivering
<1> QED  BY <1>2, <1>4, <1>5, <1>6, <1>7 DEF StampInv

LEMMA StampReceiveTcp ==
    ASSUME DistinctTxids, StampInv, AskersInv', NEW q \in Query, ReceiveTcp(q)
    PROVE  StampInv'
<1> DEFINE x == TxidOf[q]
<1>1. /\ q \notin arrived /\ x \in Txid /\ wire' = wire
      /\ handlers' = handlers /\ dnsCache' = dnsCache
      /\ queryToClientInfo' = queryToClientInfo
      /\ arrived' = arrived \cup {q} /\ tcpPending' = tcpPending \cup {q}
      /\ tcpFlows' = [tcpFlows EXCEPT ![x] = FlowOf[q]]
      /\ queryTimestamps' = [queryTimestamps EXCEPT ![x] = "fresh"]
  BY QueryAssumption DEF ReceiveTcp, RegisterTcp, net
<1>2. \A p : Processed(p) => Processed(p)' /\ p # q
  BY <1>1 DEF Processed
<1>3. InFlight' /\ Unmapped'
  BY <1>1, <1>2 DEF StampInv, InFlight, Unmapped
<1>4. CachedSettled'
  <2> SUFFICES ASSUME NEW n \in Name, dnsCache[n] # None
               PROVE  /\ tcpFlows'[dnsCache[n]] = None
                      /\ \E p \in Query : Processed(p)' /\ TxidOf[p] = dnsCache[n]
    BY <1>1 DEF CachedSettled
  <2>1. /\ dnsCache[n] \in Txid /\ tcpFlows[dnsCache[n]] = None
        /\ \E p \in Query : Processed(p) /\ TxidOf[p] = dnsCache[n]
    BY DEF StampInv, AskersInv, TypeOK, CachedSettled
  <2>2. dnsCache[n] # x
    BY <1>2, <2>1 DEF DistinctTxids
  <2> QED  BY <1>1, <1>2, <2>1, <2>2 DEF StampInv, AskersInv, TypeOK
<1>5. PendingIsStamped'
  BY <1>1 DEF StampInv, AskersInv, TypeOK, PendingIsStamped
<1>6. TcpIsStamped'
  BY <1>1 DEF StampInv, AskersInv, TypeOK, TcpIsStamped, Delivering
<1> QED  BY <1>3, <1>4, <1>5, <1>6 DEF StampInv

LEMMA StampRetry ==
    ASSUME DistinctTxids, StampInv, AskersInv', NEW q \in Query, Retry(q)
    PROVE  StampInv'
<1> DEFINE x == TxidOf[q]
<1>1. /\ x \in Txid /\ handlers' = handlers /\ dnsCache' = dnsCache
      /\ arrived' = arrived /\ tcpPending' = tcpPending
  BY QueryAssumption DEF Retry
<1>2. AskersInv
  BY DEF StampInv
<1>3. CASE RetryGivesUp(q)
  <2>1. queryToClientInfo[x] = q
    BY <1>2, <1>3, RetryOwn DEF RetryGivesUp
  <2>2. tcpFlows'[x] = None
    BY <1>1, <1>2, <1>3, <2>1, UdpNotRegistered DEF RetryGivesUp, AskersInv, TypeOK
  <2>3. /\ wire' = wire /\ queryToClientInfo' = [queryToClientInfo EXCEPT ![x] = None]
        /\ queryTimestamps' = [queryTimestamps EXCEPT ![x] = "none"]
        /\ \A y \in Txid \ {x} : tcpFlows'[y] = tcpFlows[y]
    BY <1>2, <1>3 DEF RetryGivesUp, AskersInv, TypeOK
  <2>4. InFlight' /\ Unmapped' /\ PendingIsStamped'
    BY <1>1, <1>2, <2>3
       DEF StampInv, AskersInv, TypeOK, InFlight, Processed, Unmapped, PendingIsStamped
  <2>5. TcpIsStamped'
    BY <1>1, <1>2, <2>2, <2>3 DEF StampInv, AskersInv, TypeOK, TcpIsStamped, Delivering
  <2>6. CachedSettled'
    BY <1>1, <1>2, <2>2, <2>3 DEF StampInv, AskersInv, TypeOK, CachedSettled, Processed
  <2> QED  BY <2>4, <2>5, <2>6 DEF StampInv
<1>4. CASE RetryAbandoned(q) \/ RetryForwards(q)
  <2>1. UNCHANGED tables
    BY <1>4 DEF RetryAbandoned, RetryForwards
  <2>2. \A w \in wire' : w \in wire \/ (w.query = q /\ Processed(q))
    <3>1. CASE RetryAbandoned(q)
      BY <3>1 DEF RetryAbandoned, net
    <3>2. CASE RetryForwards(q)
      <4>1. queryToClientInfo[x] = q
        BY <1>2, <3>2, RetryOwn DEF RetryForwards
      <4>2. Processed(q)
        BY <1>1, <3>2, <4>1 DEF RetryForwards, StampInv, InFlight
      <4> QED  BY <3>2, <4>2 DEF RetryForwards, Forward, Transmit, Postpone
    <3> QED  BY <1>4, <3>1, <3>2
  <2>3. InFlight'
    BY <1>1, <2>1, <2>2 DEF tables, StampInv, InFlight, Processed
  <2>4. Unmapped' /\ CachedSettled' /\ PendingIsStamped' /\ TcpIsStamped'
    BY <1>1, <2>1 DEF tables, StampInv, Unmapped, CachedSettled, Processed, PendingIsStamped,
                      TcpIsStamped, Delivering
  <2> QED  BY <2>3, <2>4 DEF StampInv
<1> QED  BY <1>3, <1>4 DEF Retry

\* Steps that track nothing new and register nothing, keep the handlers' work
\* and the cache's IDs, and clear a timestamp only with what it stood for.
LEMMA StampQuiet ==
    ASSUME StampInv, AskersInv', arrived' = arrived, tcpPending' = tcpPending, wire' \subseteq wire,
           \A x \in Txid : queryToClientInfo'[x] # None =>
               /\ queryToClientInfo'[x] = queryToClientInfo[x]
               /\ queryTimestamps[x] # "none" => queryTimestamps'[x] # "none",
           \A x \in Txid : tcpFlows'[x] # None =>
               /\ tcpFlows'[x] = tcpFlows[x]
               /\ queryTimestamps[x] # "none" => queryTimestamps'[x] # "none",
           \A n \in Name : dnsCache'[n] \in {dnsCache[n], None},
           \A h \in handlers' : \E g \in handlers : g.query = h.query /\ g.step = h.step,
           \A g \in handlers : g.step = "deliver" =>
               \E h \in handlers' : g.query = h.query /\ g.step = h.step
    PROVE  StampInv'
<1>1. InFlight'
  BY DEF StampInv, InFlight, Processed
<1>2. Unmapped'
  <2> SUFFICES ASSUME NEW h \in handlers', h.step \in {"unstamp", "deliver"},
                      queryToClientInfo'[TxidOf[h.query]] # None
               PROVE  FALSE
    BY DEF Unmapped
  <2>1. TxidOf[h.query] \in Txid
    BY QueryAssumption DEF AskersInv, TypeOK, Handler
  <2> QED  BY <2>1 DEF StampInv, Unmapped
<1>3. CachedSettled'
  <2> SUFFICES ASSUME NEW n \in Name, dnsCache'[n] # None
               PROVE  /\ tcpFlows'[dnsCache'[n]] = None
                      /\ \E p \in Query : Processed(p)' /\ TxidOf[p] = dnsCache'[n]
    BY DEF CachedSettled
  <2>1. dnsCache'[n] = dnsCache[n] /\ dnsCache[n] \in Txid
    BY DEF StampInv, AskersInv, TypeOK
  <2> QED  BY <2>1 DEF StampInv, CachedSettled, Processed
<1>4. PendingIsStamped'
  BY DEF StampInv, PendingIsStamped
<1>5. TcpIsStamped'
  BY DEF StampInv, TcpIsStamped, Delivering
<1> QED  BY <1>1, <1>2, <1>3, <1>4, <1>5 DEF StampInv

LEMMA StampHandler ==
    ASSUME DistinctTxids, StampInv, AskersInv', NEW h \in handlers, HandlerStep(h)
    PROVE  StampInv'
<1> DEFINE q == h.query
           x == TxidOf[q]
<1>1. /\ h \in Handler /\ q \in Query /\ x \in Txid /\ NameOf[q] \in Name /\ Processed(q)
      /\ AskersInv
  BY QueryAssumption DEF StampInv, AskersInv, TypeOK, Handler, InFlight
<1>2. UNCHANGED << wire, arrived, tcpPending >>
  BY DEF HandlerStep, Lookup, Unmap, Unstamp, Deliver, untouchedByHandler, net
<1>3. CASE Lookup(h)
  <2> DEFINE next == [h EXCEPT !.step = "unmap", !.owner = queryToClientInfo[x]]
  <2>1. next.query = q /\ next.step = "unmap" /\ h.step = "lookup"
    BY <1>1, <1>3 DEF Handler, Lookup
  <2>2. handlers \ {h} \subseteq handlers' /\ handlers' \subseteq (handlers \ {h}) \cup {next}
    BY <1>3 DEF Lookup, Advance
  <2>3. UNCHANGED tables /\ dnsCache' = dnsCache
    BY <1>3 DEF Lookup
  <2>4. InFlight' /\ Unmapped'
    BY <1>1, <1>2, <2>1, <2>2, <2>3 DEF tables, StampInv, InFlight, Processed, Unmapped
  <2>5. TcpIsStamped'
    BY <2>1, <2>2, <2>3 DEF tables, StampInv, TcpIsStamped, Delivering
  <2> QED  BY <1>2, <2>3, <2>4, <2>5
              DEF tables, StampInv, CachedSettled, Processed, PendingIsStamped
<1>4. CASE Unmap(h)
  <2> DEFINE next == [h EXCEPT !.step = "unstamp"]
  <2>1. next.query = q /\ next.step = "unstamp" /\ h.step = "unmap"
    BY <1>1, <1>4 DEF Handler, Unmap
  <2>2. /\ handlers' = (handlers \ {h}) \cup {next} /\ dnsCache' = dnsCache
        /\ queryToClientInfo' = [queryToClientInfo EXCEPT ![x] = None]
        /\ queryTimestamps' = queryTimestamps /\ tcpFlows' = tcpFlows
    BY <1>4 DEF Unmap, Advance
  <2>3. InFlight' /\ PendingIsStamped'
    BY <1>1, <1>2, <2>1, <2>2
       DEF StampInv, AskersInv, TypeOK, InFlight, Processed, PendingIsStamped
  <2>4. Unmapped'
    <3>1. \A g \in handlers : TxidOf[g.query] \in Txid
      BY QueryAssumption DEF StampInv, AskersInv, TypeOK, Handler
    <3>2. queryToClientInfo'[x] = None
      BY <1>1, <2>2 DEF AskersInv, TypeOK
    <3>3. \A y \in Txid \ {x} : queryToClientInfo'[y] = queryToClientInfo[y]
      BY <1>1, <2>2 DEF AskersInv, TypeOK
    <3> SUFFICES ASSUME NEW g \in handlers', g.step \in {"unstamp", "deliver"}
                 PROVE  queryToClientInfo'[TxidOf[g.query]] = None
      BY DEF Unmapped
    <3>4. CASE TxidOf[g.query] = x
      BY <3>2, <3>4
    <3>5. CASE TxidOf[g.query] # x
      <4>1. g \in handlers
        BY <2>1, <2>2, <3>5
      <4> QED  BY <3>1, <3>3, <3>5, <4>1 DEF StampInv, Unmapped
    <3> QED  BY <3>4, <3>5
  <2>5. TcpIsStamped'
    BY <2>1, <2>2 DEF StampInv, TcpIsStamped, Delivering
  <2> QED  BY <1>2, <2>2, <2>3, <2>4, <2>5 DEF StampInv, CachedSettled, Processed
<1>5. CASE Unstamp(h)
  <2> DEFINE next == [h EXCEPT !.step = "deliver"]
  <2>1. next.query = q /\ next.step = "deliver" /\ queryToClientInfo[x] = None
    BY <1>1, <1>5 DEF Handler, Unstamp, StampInv, Unmapped
  <2>2. /\ handlers' = (handlers \ {h}) \cup {next} /\ dnsCache' = dnsCache
        /\ queryTimestamps' = [queryTimestamps EXCEPT ![x] = "none"]
        /\ queryToClientInfo' = queryToClientInfo /\ tcpFlows' = tcpFlows
        /\ h.step = "unstamp"
    BY <1>5 DEF Unstamp, Advance
  <2>3. InFlight' /\ Unmapped'
    BY <1>1, <1>2, <2>1, <2>2 DEF StampInv, InFlight, Processed, Unmapped
  <2>4. PendingIsStamped'
    BY <1>1, <2>1, <2>2 DEF StampInv, AskersInv, TypeOK, PendingIsStamped
  <2>5. TcpIsStamped'
    <3> SUFFICES ASSUME NEW y \in Txid, tcpFlows[y] # None
                 PROVE  queryTimestamps'[y] # "none" \/ Delivering(y)'
      BY <2>2 DEF TcpIsStamped
    <3>1. CASE y = x
      BY <2>1, <2>2, <3>1 DEF Delivering
    <3>2. CASE y # x
      <4>1. queryTimestamps'[y] = queryTimestamps[y]
        BY <1>1, <2>2, <3>2 DEF AskersInv, TypeOK
      <4>2. Delivering(y) => Delivering(y)'
        BY <2>2 DEF Delivering
      <4> QED  BY <4>1, <4>2 DEF StampInv, TcpIsStamped
    <3> QED  BY <3>1, <3>2
  <2> QED  BY <1>2, <2>2, <2>3, <2>4, <2>5 DEF StampInv, CachedSettled, Processed
<1>6. CASE Deliver(h)
  <2>1. h.owner = q /\ h.step = "deliver" /\ queryToClientInfo[x] = None
    BY <1>1, <1>6 DEF Deliver, StampInv, AskersInv, Owners, TypeOK, DistinctTxids, Unmapped
  <2> DEFINE r == Reply(q, x, "upstream")
  <2>2. /\ SendResponse(q, r) /\ r.txid = x /\ queryToClientInfo' = queryToClientInfo
        /\ handlers' = handlers \ {h}
    BY <1>6, <2>1 DEF Deliver, Reply
  <2>3. TypeOK /\ PendingIsStamped
    BY DEF StampInv, AskersInv
  <2>4. /\ PendingIsStamped'
        /\ \A y \in Txid : tcpFlows'[y] # None =>
               tcpFlows'[y] = tcpFlows[y] /\ queryTimestamps'[y] = queryTimestamps[y]
        /\ tcpFlows[x] # None /\ IsTcp(q) => tcpFlows'[x] = None
    BY <1>1, <2>1, <2>2, <2>3, SendResponseStamps
  <2>5. tcpFlows'[x] = None
    BY <1>1, <2>4, UdpNotRegistered
  <2>6. InFlight' /\ Unmapped'
    BY <1>2, <2>2 DEF StampInv, InFlight, Processed, Unmapped
  <2>7. CachedSettled'
    <3> SUFFICES ASSUME NEW n \in Name, dnsCache'[n] # None
                 PROVE  /\ tcpFlows'[dnsCache'[n]] = None
                        /\ \E p \in Query : Processed(p)' /\ TxidOf[p] = dnsCache'[n]
      BY DEF CachedSettled
    <3>1. CASE dnsCache'[n] = x
      BY <1>1, <1>2, <2>5, <3>1 DEF Processed
    <3>2. CASE dnsCache'[n] = dnsCache[n]
      <4>1. dnsCache[n] \in Txid
        BY <3>2 DEF StampInv, AskersInv, TypeOK
      <4> QED  BY <1>2, <2>4, <3>2, <4>1 DEF StampInv, CachedSettled, Processed
    <3> QED  BY <1>1, <1>6, <3>1, <3>2 DEF Deliver, AskersInv, TypeOK
  <2>8. TcpIsStamped'
    <3> SUFFICES ASSUME NEW y \in Txid, tcpFlows'[y] # None
                 PROVE  queryTimestamps'[y] # "none" \/ Delivering(y)'
      BY DEF TcpIsStamped
    <3>1. y # x /\ (queryTimestamps[y] # "none" \/ Delivering(y))
      BY <2>4, <2>5 DEF StampInv, TcpIsStamped
    <3> QED  BY <2>2, <2>4, <3>1 DEF Delivering
  <2> QED  BY <2>4, <2>6, <2>7, <2>8 DEF StampInv
<1> QED  BY <1>3, <1>4, <1>5, <1>6 DEF HandlerStep

\* Orphaned handlers have the work of the handlers they were.
LEMMA OrphanWork ==
    ASSUME NEW hs, hs \subseteq Handler
    PROVE  /\ \A h \in Orphan(hs) : \E g \in hs : g.query = h.query /\ g.step = h.step
           /\ \A g \in hs : \E h \in Orphan(hs) : g.query = h.query /\ g.step = h.step
<1>1. \A g \in hs : LET h == [g EXCEPT !.live = FALSE]
                    IN  h \in Orphan(hs) /\ g.query = h.query /\ g.step = h.step
  BY DEF Orphan, Handler
<1>2. \A h \in Orphan(hs) : \E g \in hs : h = [g EXCEPT !.live = FALSE]
  BY DEF Orphan
<1>3. \A h \in Orphan(hs) : \E g \in hs : g.query = h.query /\ g.step = h.step
  <2> SUFFICES ASSUME NEW h \in Orphan(hs)
               PROVE  \E g \in hs : g.query = h.query /\ g.step = h.step
    OBVIOUS
  <2>1. PICK g \in hs : h = [g EXCEPT !.live = FALSE]
    BY <1>2
  <2>2. g.query = h.query /\ g.step = h.step
    BY <1>1, <2>1
  <2> QED  BY <2>2
<1>4. \A g \in hs : \E h \in Orphan(hs) : g.query = h.query /\ g.step = h.step
  BY <1>1
<1> QED  BY <1>3, <1>4

LEMMA StampNext ==
    ASSUME DistinctTxids, StampInv, AskersInv', [Next]_vars PROVE StampInv'
<1>0. TypeOK /\ handlers \subseteq Handler
  BY DEF StampInv, AskersInv, TypeOK
<1>1. CASE \E q \in Query : ReceiveUdp(q) \/ ReceiveTcp(q) \/ ProcessTcp(q) \/ Retry(q)
  BY <1>1, StampProcess, StampReceiveTcp, StampRetry
<1>2. CASE \E h \in handlers : HandlerStep(h)
  BY <1>2, StampHandler
<1>3. CASE \E w \in wire : ResponseArrives(w)
  <2> PICK w \in wire : ResponseArrives(w)
    BY <1>3
  <2> DEFINE h == [server |-> w.server, query |-> w.query, step |-> "lookup",
                   owner |-> None, live |-> TRUE]
  <2>1. /\ UNCHANGED << tables, dnsCache, arrived, tcpPending >> /\ wire' \subseteq wire
        /\ handlers' = handlers \cup {h}
    BY DEF ResponseArrives
  <2>2. InFlight' /\ Unmapped'
    BY <2>1 DEF tables, StampInv, InFlight, Processed, Unmapped
  <2>3. TcpIsStamped'
    BY <2>1 DEF tables, StampInv, TcpIsStamped, Delivering
  <2> QED  BY <2>1, <2>2, <2>3
              DEF tables, StampInv, CachedSettled, Processed, PendingIsStamped
<1>4. CASE ClearAllDNSFlows \/ PathChange
  <2>1. /\ handlers' = Orphan(handlers) /\ wire' = {}
        /\ UNCHANGED << dnsCache, arrived, tcpPending >>
    BY <1>4 DEF ClearAllDNSFlows, PathChange, DropConnections
  <2>2. /\ \A h \in handlers' : \E g \in handlers : g.query = h.query /\ g.step = h.step
        /\ \A g \in handlers : \E h \in handlers' : g.query = h.query /\ g.step = h.step
    BY <1>0, <2>1, OrphanWork
  <2> QED  BY <1>4, <2>1, <2>2, StampQuiet DEF ClearAllDNSFlows, PathChange, tables
<1>5. CASE \E s \in Server : ConnectionEvent(s)
  <2> PICK s \in Server : ConnectionEvent(s)
    BY <1>5
  <2>1. /\ UNCHANGED << tables, dnsCache, arrived, tcpPending >> /\ wire' \subseteq wire
    BY DEF ConnectionEvent
  <2>2. /\ \A h \in handlers' : \E g \in handlers : g.query = h.query /\ g.step = h.step
        /\ \A g \in handlers : \E h \in handlers' : g.query = h.query /\ g.step = h.step
    <3> DEFINE mine == { h \in handlers : h.server = s }
               others == { h \in handlers : h.server # s }
    <3>1. handlers' = handlers \/ handlers' = others \cup Orphan(mine)
      BY DEF ConnectionEvent
    <3>2. mine \subseteq Handler
      BY <1>0
    <3>3. /\ \A h \in Orphan(mine) : \E g \in mine : g.query = h.query /\ g.step = h.step
          /\ \A g \in mine : \E h \in Orphan(mine) : g.query = h.query /\ g.step = h.step
      BY <3>2, OrphanWork
    <3> HIDE DEF mine
    <3>4. \A g \in handlers : g \in mine \/ g \in others
      BY DEF mine
    <3>5. mine \subseteq handlers
      BY DEF mine
    <3> QED  BY <3>1, <3>3, <3>4, <3>5
  <2> QED  BY <2>1, <2>2, StampQuiet DEF tables
<1>6. CASE CleanupStuckQueries
  BY <1>6, StampQuiet DEF CleanupStuckQueries, net
<1>7. CASE \E x \in Txid : Age(x)
  BY <1>0, <1>7, StampQuiet DEF Age, Older, net, TypeOK
<1>8. CASE VpnChange \/ NetworkLost \/ NetworkRestored
  BY <1>8, StampQuiet DEF VpnChange, NetworkLost, NetworkRestored, RequestClear,
                          untouchedByNetwork, tables, net
<1>9. CASE \E w \in wire : LoseDatagram(w)
  BY <1>9, StampQuiet DEF LoseDatagram, tables
<1>10. CASE \E f \in UdpFlow : OpenUdpFlow(f) \/ CloseUdpFlow(f)
  BY <1>10, StampQuiet DEF OpenUdpFlow, CloseUdpFlow, tables, net
<1>11. CASE \E n \in Name : ExpireCached(n)
  BY <1>0, <1>11, StampQuiet DEF ExpireCached, tables, net, TypeOK
<1>12. CASE UNCHANGED vars
  BY <1>12, StampQuiet DEF vars, tables, net
<1> QED  BY <1>1, <1>2, <1>3, <1>4, <1>5, <1>6, <1>7, <1>8, <1>9, <1>10, <1>11, <1>12 DEF Next

\* As long as IDs are distinct, every tracked query and every registered TCP
\* flow has a timestamp or an answer on its way: cleanupStuckQueries can reach
\* all that waits, whatever the order of its runs, of retries and of answers.
THEOREM NothingOutOfReach ==
    ASSUME DistinctTxids PROVE Spec => [](PendingIsStamped /\ TcpIsStamped)
<1>1. Init => StampInv
  <2> SUFFICES ASSUME Init PROVE StampInv
    OBVIOUS
  <2>1. AskersInv
    BY AskersInit
  <2> QED  BY <2>1 DEF Init, StampInv, InFlight, Unmapped, CachedSettled, PendingIsStamped,
                       TcpIsStamped
<1>2. StampInv /\ AskersInv' /\ [Next]_vars => StampInv'
  BY StampNext
<1>3. StampInv => PendingIsStamped /\ TcpIsStamped
  BY DEF StampInv
<1> QED  BY <1>1, <1>2, <1>3, AskersInit, AskersNext, PTL DEF Spec

=============================================================================
