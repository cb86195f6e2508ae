SPECIFICATION FairSpec
CONSTANTS
  t1 = t1
  t2 = t2
  Messages = 3
  Consumer = {t1, t2}
  Orderly = TRUE
  BatchMax = 2
  MaxReconsume = 1
  ConsumerMax = 2
  MaxMoves = 1
INVARIANTS InOrder
PROPERTIES EveryMessageSettled
CHECK_DEADLOCK FALSE
