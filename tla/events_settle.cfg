SPECIFICATION FairSpec
CONSTANTS
  Keys = {k}
  Filters = {f}
  PlainFilters = {p}
  Listeners = {a, b}
  Modes = {TRUE, FALSE}
  Serial = FALSE
  MayRelease = FALSE
  Prompt = FALSE
  MaxCalls = 3
  MaxDrops = 0
  MaxFails = 0
  MaxTimeouts = 1

INVARIANTS LiteFlagSound CountCovers
PROPERTY CallsSettle
CHECK_DEADLOCK FALSE
