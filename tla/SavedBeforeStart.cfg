CONSTANTS
  Regular = {1, 3, 6, 7, 8, 10}
  Separators = {7, 8, 10}
  Foreign = {2, 9}
  Backups = {5}
  Overwrite = 4
  FirstMods = {4, 6}
  Arriving = {}
  MaxCommands = 5
  FirstLists <- MCFirstLists
  LayoutMods = {1, 2, 3, 5, 9}
  MovedMods = {1, 2, 3, 4, 5, 6}
  SectionMods = {1, 2, 4, 7, 8, 10}
  MaxLines = 3
SPECIFICATION Spec
PROPERTY SavedBeforeStart
CHECK_DEADLOCK FALSE
