SPECIFICATION Spec
CONSTANTS
  Kinds = {"bulk", "premium"}
  Left = {"plenty", "none"}
  Premium = {FALSE}
  MaxActive = 2
  Attempts = 2
  MaxRequests = 2
  MaxRedirects = 1
  MaxTasks = 1
  MaxLogins = 2
  MaxAccounts = 1
INVARIANTS TypeOK RequestsConserved LinksWaitOnlyForLogin QueueMoves
PROPERTIES ValidAccountServes LoginEnds
CHECK_DEADLOCK FALSE
