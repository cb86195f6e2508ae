SPECIFICATION Spec
CONSTANTS
  t1 = t1
  t2 = t2
  Messages = 2
  Consumer = {t1}
  Orderly = FALSE
  BatchMax = 2
  MaxReconsume = 2
  ConsumerMax = 2
  MaxMoves = 0
PROPERTIES RepeatRejected
CHECK_DEADLOCK FALSE
