CONSTANTS
  a = a
  b = b
  c = c
  f = f
  meta = meta
  Mods = {a, b, c}
  Data = Data
  Files = {f, meta}
  Noise = {meta}
  NoOrigin = NoOrigin
  NoEntry = NoEntry
  Unset = 99
  ArchiveOrder <- MCArchiveOrder
  Contents <- TwoOrThree
  MaxChanges = 3
SPECIFICATION ConflictSpec
CONSTRAINT Bounds
INVARIANTS
  SettledProviders
  WinnersOnTop
  VerdictsAreTrue
  StaleOnlyAboutUnnoticed
CHECK_DEADLOCK FALSE
