SPECIFICATION Spec
CONSTANTS
  Symbols = {1, 2, 3}
  Industry <- OneIndustry
  Duration <- Minutes
  Quarters <- QuarterBars
  Dailies <- DailyBars
  Hours <- HourBars
  MarketSymbols = 2
  Stop = 10
  Equity = 600
  MaxPositions = 1
  MaxExposure = 100
  CooldownDays = 1
  ExpiryBars = 1
  FailureBars = 2
  StructureLife = 4
  Atr <- TrailBy
  MaxClock = 8
  Sessions <- OneReplay
CHECK_DEADLOCK FALSE
PROPERTIES
  ValidEntriesAreApproved
