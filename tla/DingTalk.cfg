SPECIFICATION FairSpec
CONSTANTS
  Caller = {c1, c2}
  Nobody = Nobody
  u1 = u1
  u2 = u2
  u3 = u3
  User <- MCUser
  UserOf <- MCUserOf
  Lists <- MCLists
  Owners <- MCOwners
  Depts <- MCDepts
  NoticeSize = 2
  ChatSize = 1
  ChatMax = 2
  UserCache = 2
  TokenLife = 3
  CacheLife = 1
  MaxCall = 1
  MaxAsks = 2
  MaxFaults = 1
INVARIANTS TypeOK EverybodyReached OnlyEmptyBatchRefused TokenGood
PROPERTIES Broadcasts ChatFills WarmsUp
CHECK_DEADLOCK FALSE
