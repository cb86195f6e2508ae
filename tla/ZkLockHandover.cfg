SPECIFICATION FairSpec
CONSTANTS
  c1 = c1
  c2 = c2
  c3 = c3
  NoNode = NoNode
  Client <- Clients
  NameOf <- TwoNames
  Methods = {"lock"}
  RootExists = TRUE
  MayInterrupt = FALSE
  Mortal = {c3}
  MaxAsks = 4
  MaxFaults = 0
PROPERTY OnlyRaceStrands
CHECK_DEADLOCK FALSE
