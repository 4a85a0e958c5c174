SPECIFICATION FairSpec
CONSTANTS
  Window = 3
  WarmUp = 0
  MinHistory = 2
  Symbols = {1}
  Shapes <- Histories
  Length = 4
  MaxBars <- Lengths
  Scores = {90}
  SCapacity = 1
  ACapacity = 1
  CarryDays = 0
  MaxDays = 1
  MaxRedrawn = 1
  Jobs <- TimersAndRoute
  MaxAborts = 1
  RankedItems = 4
  RankedScores = {90, 75, 60, 40}
  Items <- Structured
  Quotes <- EvenQuotes
  Budgets = {0, 50, 130, 1000}
INVARIANTS
  TypeOK
  LineageIsComplete
  StructuresRepeatOnlyPastWindow
  RankingIsFair
  PlansFollowPool
  
  
PROPERTIES
  FailedStructuresEndTheirPlans
