CONSTANTS
  Links = {a, b}
  Browsed = {b}
  Ids = {1, 2}
  Size = 2
  Retries = 1
  Copies = 1
  Answers = {"yes", "no"}
  MaxNested = 1
  MaxFaults = 1
  MaxCrashes = 1
SPECIFICATION Spec
INVARIANTS
  TypeOK
  
  OneEntryPerFile
  
CHECK_DEADLOCK FALSE
