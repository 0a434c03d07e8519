\* Two concurrent calls of each component.
SPECIFICATION ProtocolsSpec
CONSTANTS
  StoreCalls = {c1, c2}
  Bodies = {1, 2}
  Succeeding = {1}
  Preparing = {1}
  RunnerCalls = {r1, r2}
  CancelPendingOnAbort = TRUE
  Commands = {p1, p2}
  Limit = 1
  Amounts = {0, 1, 2}
  MaxRules = 2
  Updates = {u1, u2, u3}
  Cards = {k1, k2}
INVARIANTS
  ProtocolTypes NoDeadlockWithoutPublication PreparedRunsOnce
  CalledOnce KnownIsTrue ResultIsRecorded
  LaunchersExclude NothingIsLeft ClientIsOwned
  EvaluationIsExplained UnchangedActionIsDecidedAlike
  DecidedCardsClose
PROPERTIES
  PostgresKeepsPromise SqliteKeepsPromise EndedStaysUnpublished KnownOutcomeIsWhole
SYMMETRY CallSymmetry
CHECK_DEADLOCK FALSE
