CONSTANTS
  Links = {b}
  Browsed = {b}
  Ids = {1, 2}
  Size = 2
  Retries = 1
  Copies = 0
  Answers = {}
  MaxNested = 2
  MaxFaults = 2
  MaxCrashes = 1
SPECIFICATION FairSpec

  
PROPERTIES
  CancelDeletesFile
