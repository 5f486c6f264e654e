CONSTANTS
  c1 = c1
  c2 = c2
  c3 = c3
  Conns = {c1, c2, c3}
  Driver = Driver
  NoConn = NoConn
  Users = {"u"}
  UserOf <- OneUser
  Contents = {1, 2}
  Rules <- SmallRules
  Refused <- NotTo
  MaxIncomplete = 1
  MaxCompleted = 3
  MaxPerUser = 2
  MaxMatches = 2
  MaxLeaks = 1
  o1 = o1
  o2 = o2
  o3 = o3
  o4 = o4
  NoObj = NoObj
  Parts = {"connections", "transaction", "authentication", "keyring", "transport"}
  LateOom = FALSE
SPECIFICATION PartsSpec
CHECK_DEADLOCK FALSE
INVARIANTS CountsExact RulesExact RoutedExactly  Backpressure
PROPERTIES AuthEnds CancelSafely 
