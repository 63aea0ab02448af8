SPECIFICATION SchedFairSpec
CONSTANTS
  Timer = TRUE
  Calls <- AllCalls
PROPERTY EveryCallReturns
