CONSTANTS
  Parts = {"policy", "files"}
  c1 = c1
  c2 = c2
  Null = Null
  Conns = {c1, c2}
  Elements <- SmallElements
  Queries <- SmallQueries
  Uid <- SmallUid
  Groups <- SmallGroups
  Console <- SmallConsole
  MaxRules = 3
SPECIFICATION PartsSpec
CHECK_DEADLOCK FALSE
INVARIANTS OptimizeSound  
