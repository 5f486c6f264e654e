CONSTANTS
  c1 = c1
  c2 = c2
  c3 = c3
  NoConn = NoConn
  Driver = Driver
  Conns = {c1, c2}
  Serials = {1, 2}
  MaySend <- SystemRules
  MayReceive <- SystemReceive
  Slow = {c2}
  MaxReplies = 2
  MaxOwed = 2
SPECIFICATION Spec
CHECK_DEADLOCK FALSE
INVARIANTS PendingSound NoSpuriousAnswer
PROPERTIES NoAnswerLost PendingEnds
