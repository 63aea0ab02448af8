SPECIFICATION FairSpec
CONSTANTS
  Timer = TRUE
  QueueSize = 2
  MaxJobs = 2
  MaxCopies = 0
  MaxChars = 1
  Chars <- PlainText
  Calls <- CommandCalls
  Commands <- NoCommands
INVARIANT BusyMeansInside
PROPERTY EveryCallReturns
PROPERTY EveryJobPrinted
