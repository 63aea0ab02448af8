SPECIFICATION Spec
CONSTANTS
  Timer = TRUE
  QueueSize = 2
  MaxJobs = 3
  MaxCopies = 1
  MaxChars = 2
  Chars <- LineEnds
  Calls <- CharacterCalls
  Commands <- AllCommands
INVARIANTS OneInside OwnBlock OwnStack QueueInOrder CopiesExact NoJobStranded PaperIsText
PROPERTY SchedSpec
