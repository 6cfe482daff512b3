CONSTANTS
  Links = {a}
  Browsed = {}
  Ids = {1, 2, 3}
  Size = 2
  Retries = 1
  Copies = 1
  Answers = {"yes"}
  MaxNested = 1
  MaxFaults = 0
  MaxCrashes = 0
SPECIFICATION FairSpec
PROPERTIES
  CancelDeletesFile
