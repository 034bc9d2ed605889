SPECIFICATION FairSpec
CONSTANTS
  Keys = {k}
  Filters = {f}
  PlainFilters = {}
  Listeners = {a}
  Modes = {FALSE}
  Serial = TRUE
  MayRelease = FALSE
  Prompt = TRUE
  MaxCalls = 2
  MaxDrops = 0
  MaxFails = 1
  MaxTimeouts = 0
PROPERTY CallsSettle
CHECK_DEADLOCK FALSE
