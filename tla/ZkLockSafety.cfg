SPECIFICATION Spec
CONSTANTS
  c1 = c1
  c2 = c2
  c3 = c3
  NoNode = NoNode
  Client <- Clients
  NameOf <- OneName
  Methods = {"lock", "try"}
  RootExists = FALSE
  MayInterrupt = TRUE
  Mortal = {c3}
  MaxAsks = 3
  MaxFaults = 1
INVARIANT TypeOK
PROPERTIES Fifo ImplementsMutex ChainKept
CHECK_DEADLOCK FALSE
