CONSTANTS
  a = a
  b = b
  c = c
  f = f
  meta = meta
  Mods = {a, b, c}
  Data = Data
  Files = {f, meta}
  Noise = {meta}
  NoOrigin = NoOrigin
  NoEntry = NoEntry
  Unset = 99
  ArchiveOrder <- MCArchiveOrder
  Contents <- Either
  MaxChanges = 1
SPECIFICATION FairSpec
ACTION_CONSTRAINT TwiceIsOnlyRead
INVARIANTS
  TypeOK
  NamesMatchRegister
  NoDanglingFiles
  OrphansAreBeingAdded
  ActiveModsHaveOrigins
PROPERTIES
  KeepsPromise
  ChangesSettle
CHECK_DEADLOCK FALSE
