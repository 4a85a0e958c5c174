SPECIFICATION Spec
CONSTANTS
  s1 = s1
  s2 = s2
  Symbols = {s1, s2}
  NumPlans = 2
  PlanSymbol <- TwoPlans
  MaxOrders = 2
  EntryQty = 1
  MaxRetries = 1
  MaxPositions = 2
  MaxDailyNewTrades = 1
  MayLoseSight = FALSE
  AnswersLost = FALSE
  DealsSupported = FALSE
  PositionSyncFails = TRUE
  MatchOutcomes = {TRUE}
  ReconcileFails = TRUE
  ExitReasons = {}
  PriceZones = {"breakout", "below", "missing"}
  AccountReadFails = TRUE
  PlacementRefused = TRUE
  UnlockedGenerate = TRUE
  DayTurns = TRUE
  Pools = {{2}}
  BrokerActsAt = {"idle", "reconcile"}
  MayCrash = FALSE
  DeadByBroker = {}
INVARIANTS
  DailyEntriesBounded
  GateMatchesIssues
PROPERTIES
  EntriesFromCleanLedgers
  EntriesPassCapitalGate
