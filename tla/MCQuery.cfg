SPECIFICATION Spec
CONSTANTS
  q1 = q1
  q2 = q2
  q3 = q3
  u1 = u1
  u2 = u2
  t1 = t1
  x1 = x1
  x2 = x2
  x3 = x3
  nA = nA
  nB = nB
  s1 = s1
  s2 = s2
  None = None
  Query = {q1, q2, q3}
  UdpFlow = {u1}
  TcpFlow = {t1}
  Txid = {x1, x2, x3}
  Name = {nA}
  Server = {s1, s2}
  FlowOf <- SharedFlow
  TxidOf <- DistinctIds
  NameOf <- OneName
  ResolverOf <- OneResolver
  Malformed = {q2}
  Verdict <- AllowA
  NeverCache = {}
  CacheEnabled = TRUE
  ChainPreservation = FALSE
  DefaultServers <- Both
INVARIANTS
  
  
  TcpIsStamped
CHECK_DEADLOCK FALSE
