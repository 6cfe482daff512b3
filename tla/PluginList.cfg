CONSTANTS
  Plugins = {1, 2, 3, 4, 5, 6}
  Forced = {1}
  Top = {1, 2, 5}
  FirstFiles <- MCFirstFiles
  FirstMods = {1, 2, 3}
  Switchable = {3, 4}
  MaxCommands = 3
  MaxSelected = 2
SPECIFICATION Spec
INVARIANTS
  TypeOK
  PluginsMoveAsAsked
  ChangesReachFiles
PROPERTIES
  OthersKeepState
  FilesKeepPlugins
CHECK_DEADLOCK FALSE
