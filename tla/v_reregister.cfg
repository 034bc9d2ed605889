SPECIFICATION Spec
CONSTANTS
  Keys = {k}
  Filters = {f}
  PlainFilters = {}
  Listeners = {a, b}
  Modes = {TRUE, FALSE}
  Serial = TRUE
  MayRelease = FALSE
  Prompt = TRUE
  MaxCalls = 2
  MaxDrops = 0
  MaxFails = 0
  MaxTimeouts = 0
PROPERTY RegistrationsKept
CHECK_DEADLOCK FALSE
