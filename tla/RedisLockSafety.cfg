SPECIFICATION Spec
CONSTANTS
  c1 = c1
  c2 = c2
  c3 = c3
  j1 = j1
  j2 = j2
  NoClient = NoClient
  Client <- Clients
  Jvm <- Jvms
  HostOf <- TwoHosts
  TTL = 10
  MaxLag = 3
  Crashable <- Jvms
  MaxFaults = 2
  RenewalMayFail = FALSE
INVARIANT TypeOK
PROPERTIES DeleteOnlyOwn ImplementsMutex
CHECK_DEADLOCK FALSE
