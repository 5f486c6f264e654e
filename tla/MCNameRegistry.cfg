CONSTANTS
  c1 = c1
  c2 = c2
  c3 = c3
  n1 = n1
  n2 = n2
  p1 = p1
  p2 = p2
  p3 = p3
  NoConn = NoConn
  NoPid = NoPid
  Conns = {c1, c2, c3}
  Names = {n1}
  Pids = {p1}
  ProcOf <- OneProcess
  MayOwn <- AllMayOwn
  AutoStarted = {n1}
  UniqueNames = {}
  MaxServices = 3
SPECIFICATION Spec
CHECK_DEADLOCK FALSE
SYMMETRY ConnSymmetry
VIEW AllButReply
INVARIANTS TypeOK QueueWellFormed ViewsAgree
PROPERTIES QueueOrderStable ReplyTruthful
