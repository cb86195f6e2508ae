SPECIFICATION FairSpec
CONSTANTS
  Messages = 3
  Routable <- MCRoutable
  Consumer = {k1, k2}
  MaxFaults = 2
INVARIANTS TypeOK MapIsOutstanding ConfirmedNotLost
PROPERTIES AtLeastOnce Drains
CHECK_DEADLOCK FALSE
