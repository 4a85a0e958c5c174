SPECIFICATION FairSpec
CONSTANTS
  s1 = s1
  s2 = s2
  Symbols = {s1}
  NumPlans = 1
  PlanSymbol <- OnePlan
  MaxOrders = 2
  EntryQty = 1
  MaxRetries = 1
  MaxPositions = 1
  MaxDailyNewTrades = 2
  MayLoseSight = TRUE
  AnswersLost = FALSE
  DealsSupported = FALSE
  PositionSyncFails = FALSE
  MatchOutcomes = {TRUE}
  ReconcileFails = FALSE
  ExitReasons = {}
  PriceZones = {"breakout"}
  AccountReadFails = FALSE
  PlacementRefused = FALSE
  UnlockedGenerate = FALSE
  DayTurns = FALSE
  Pools = {{1}}
  BrokerActsAt = {"idle", "orders", "positions", "reconcile", "manage", "portfolio"}
  MayCrash = FALSE
  DeadByBroker = {}
PROPERTIES
  ExistingPositionsAreManaged
