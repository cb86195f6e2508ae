SPECIFICATION FairSpec
CONSTANTS
  MaxConns = 2
  MaxLag = 1
  MaxFaults = 2
INVARIANTS TypeOK Kept RetryFindsKeyGone
CHECK_DEADLOCK FALSE
PROPERTIES OneRenewal Reconnects ComesOnline
