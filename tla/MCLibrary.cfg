CONSTANTS
  Components = {"message", "sharing", "loop", "watches", "tree", "routines", "values"}
  t1 = t1
  t2 = t2
  c1 = c1
  c2 = c2
  watch1 = watch1
  watch2 = watch2
  l1 = l1
  l2 = l2
  h1 = h1
  h2 = h2
  Nil = Nil
  MaxName = 8
  MaxSignature = 12
  MaxDepth = 3
  Kinds <- SmallKinds
  FieldValues <- SmallFieldValues
  Arguments <- SmallArguments
  UniqueName <- ColonOneDotTwo
  LocalInterface <- SomeInterface
  LocalPath <- SomePath
  MaxEdits = 2
  MaxMessage = 200
SPECIFICATION PartsSpec
CHECK_DEADLOCK FALSE
INVARIANTS   MessagesExact LoopsAgree TreeExact RoutinesClean
PROPERTIES SharedSafely LoopSafely
