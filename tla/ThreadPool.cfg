CONSTANTS
  MaxThreads = 3
  MaxJobs = 3
  MaxRounds = 2
SPECIFICATION FairSpec
INVARIANTS
  TypeOK
  JobNotSharedWhileWritten
  RoundIsComplete
  NoJobTwice
PROPERTIES
  CallsReturn
CHECK_DEADLOCK FALSE
