CONSTANTS
  w1 = w1
  w2 = w2
  m1 = m1
  m2 = m2
  Nobody = nobody
  Callers <- MCCallers
  Loops <- MCLoops
  Casts <- MCCasts
SPECIFICATION Spec
INVARIANTS NoLostWakeup QueueCounted
 
CHECK_DEADLOCK FALSE
