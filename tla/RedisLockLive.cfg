SPECIFICATION FairSpec
CONSTANTS
  c1 = c1
  c2 = c2
  c3 = c3
  j1 = j1
  j2 = j2
  NoClient = NoClient
  Client <- Clients
  Jvm <- Jvms
  HostOf <- TwoHosts
  TTL = 6
  MaxLag = 1
  Crashable <- Jvms
  MaxFaults = 1
  RenewalMayFail = TRUE
PROPERTIES EveryCallerServed OrphanExpires
CHECK_DEADLOCK FALSE
