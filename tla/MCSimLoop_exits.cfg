SPECIFICATION FairSpec
CONSTANTS
  s1 = s1
  s2 = s2
  Symbols = {s1}
  NumPlans = 1
  PlanSymbol <- OnePlan
  MaxOrders = 3
  EntryQty = 2
  MaxRetries = 1
  MaxPositions = 1
  MaxDailyNewTrades = 2
  MayLoseSight = FALSE
  AnswersLost = FALSE
  DealsSupported = FALSE
  PositionSyncFails = FALSE
  MatchOutcomes = {TRUE, FALSE}
  ReconcileFails = FALSE
  ExitReasons = {"FULL_EXIT", "TARGET_1_PARTIAL"}
  PriceZones = {"breakout"}
  AccountReadFails = FALSE
  PlacementRefused = FALSE
  UnlockedGenerate = FALSE
  DayTurns = FALSE
  Pools = {{1}}
  BrokerActsAt = {"idle", "reconcile", "manage"}
  MayCrash = FALSE
  DeadByBroker = {"CANCELLED_ALL"}
INVARIANTS
  TypeOK
  DeadOrdersAreDead
  PositionsComeFromTheirPlan
  InferredEntriesAreFilled
PROPERTIES
  ImplementsAccount
  HoldingsAreAdopted
  GateReopens
