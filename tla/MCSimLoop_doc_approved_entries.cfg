SPECIFICATION Spec
CONSTANTS
  s1 = s1
  s2 = s2
  Symbols = {s1, s2}
  NumPlans = 2
  PlanSymbol <- TwoPlans
  MaxOrders = 2
  EntryQty = 2
  MaxRetries = 1
  MaxPositions = 2
  MaxDailyNewTrades = 2
  MayLoseSight = FALSE
  AnswersLost = FALSE
  DealsSupported = FALSE
  PositionSyncFails = FALSE
  MatchOutcomes = {TRUE}
  ReconcileFails = FALSE
  ExitReasons = {}
  PriceZones = {"breakout"}
  AccountReadFails = FALSE
  PlacementRefused = TRUE
  UnlockedGenerate = FALSE
  DayTurns = FALSE
  Pools = {{1, 2}}
  BrokerActsAt = {"idle", "orders"}
  MayCrash = FALSE
  DeadByBroker = {}
PROPERTIES
  EntriesAreApproved
