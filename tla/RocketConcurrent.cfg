SPECIFICATION FairSpec
CONSTANTS
  t1 = t1
  t2 = t2
  Messages = 2
  Consumer = {t1, t2}
  Orderly = FALSE
  BatchMax = 1
  MaxReconsume = 2
  ConsumerMax = 2
  MaxMoves = 2
INVARIANTS TypeOK RetryBudget
PROPERTIES AtLeastOnce EveryMessageSettled
CHECK_DEADLOCK FALSE
