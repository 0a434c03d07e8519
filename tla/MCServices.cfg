\* An audit store with two faults, three processes that start, three updates,
\* three requests whose tokens are verified.
SPECIFICATION ServicesSpec
CONSTANTS
  Ids = {e1, e2, e3}
  Orders = {"insertion", "timestamp"}
  VerifyLimit = 3
  MaxTime = 1
  MaxQueue = 2
  MaxFaults = 2
  Starters = {p1, p2, p3}
  Migrations = 2
  Updates = {u1, u2, u3}
  Cards = {k1, k2}
  Bearers = {q1, q2, q3}
  CacheTime = 2
  FetchTime = 1
  Cooldown = 1
  MaxClock = 6
  MaxKey = 2
INVARIANTS ServiceTypes ChainVerifies StoredOnce MigratedOnceInOrder ReturnedIsServed
           WithdrawnKeysLapse
PROPERTIES RecoversAfterFault LockIsFreed UpdatesReturn
CHECK_DEADLOCK FALSE
