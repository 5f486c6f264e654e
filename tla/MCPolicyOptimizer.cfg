CONSTANTS
  Parts = {"policy"}
  c1 = c1
  c2 = c2
  Null = Null
  Conns = {c1, c2}
  Elements <- SpecialElements
  Queries <- SmallQueries
  Uid <- SmallUid
  Groups <- SmallGroups
  Console <- SmallConsole
  MaxRules = 2
SPECIFICATION PartsSpec
CHECK_DEADLOCK FALSE
INVARIANT DenyOverrides
