SPECIFICATION Spec
CONSTANTS
  q1 = q1
  q2 = q2
  q3 = q3
  u1 = u1
  u2 = u2
  t1 = t1
  x1 = x1
  x2 = x2
  x3 = x3
  nA = nA
  nB = nB
  s1 = s1
  s2 = s2
  None = None
  Query = {q1, q2, q3}
  UdpFlow = {u1, u2}
  TcpFlow = {t1}
  Txid = {x1}
  Name = {nA, nB}
  Server = {s1}
  FlowOf <- Flows
  TxidOf <- OneId
  NameOf <- Names
  ResolverOf <- OneResolver
  Malformed = {}
  Verdict <- BlockB
  NeverCache = {}
  CacheEnabled = FALSE
  ChainPreservation = TRUE
  DefaultServers <- JustS1
INVARIANTS
  TypeOK
  AnswersOnlyAskers
  ForwardedAtMostOnce
SYMMETRY ClientSwap
CHECK_DEADLOCK FALSE
