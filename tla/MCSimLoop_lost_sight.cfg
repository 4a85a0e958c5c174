SPECIFICATION Spec
CONSTANTS
  s1 = s1
  s2 = s2
  Symbols = {s1}
  NumPlans = 1
  PlanSymbol <- OnePlan
  MaxOrders = 3
  EntryQty = 1
  MaxRetries = 1
  MaxPositions = 1
  MaxDailyNewTrades = 1
  MayLoseSight = TRUE
  AnswersLost = TRUE
  DealsSupported = TRUE
  PositionSyncFails = FALSE
  MatchOutcomes = {TRUE}
  ReconcileFails = FALSE
  ExitReasons = {"FULL_EXIT"}
  PriceZones = {"breakout"}
  AccountReadFails = FALSE
  PlacementRefused = FALSE
  UnlockedGenerate = FALSE
  DayTurns = FALSE
  Pools = {{1}}
  BrokerActsAt = {"idle"}
  MayCrash = TRUE
  DeadByBroker = {}
INVARIANTS
  NeverOversold
  
