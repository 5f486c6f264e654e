CONSTANTS
  c1 = c1
  c2 = c2
  n1 = n1
  n2 = n2
  r1 = r1
  r2 = r2
  r3 = r3
  r4 = r4
  NoConn = NoConn
  Conns = {c1, c2}
  Names = {n1, n2}
  Reqs = {r1, r2, r3, r4}
  Automatic = {r1, r3}
  MaxPending = 3
  ExecOf <- SameCommand
  ConnOf <- Senders
  NameOf <- Targets
SPECIFICATION PartsSpec
CHECK_DEADLOCK FALSE
INVARIANTS ActivationsSound AnsweredOnce
PROPERTIES WaitEnds ChildEndTold
