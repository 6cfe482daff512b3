CONSTANTS
  a = a
  b = b
  c = c
  f = f
  meta = meta
  Mods = {a, b, c}
  Data = Data
  Files = {f, meta}
  Noise = {meta}
  NoOrigin = NoOrigin
  NoEntry = NoEntry
  Unset = 99
  ArchiveOrder <- MCArchiveOrder
  Contents <- TwoWays
  MaxChanges = 1
SPECIFICATION Spec
PROPERTY DisabledModLeavesFiles
CHECK_DEADLOCK FALSE
