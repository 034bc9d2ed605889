SPECIFICATION FairSpec
CONSTANTS
  Keys = {k}
  Filters = {f}
  PlainFilters = {}
  Listeners = {a, b}
  Modes = {FALSE}
  Serial = TRUE
  MayRelease = FALSE
  Prompt = FALSE
  MaxCalls = 2
  MaxDrops = 1
  MaxFails = 1
  MaxTimeouts = 0
INVARIANTS RegisteredHear CurrentStreamUsable
PROPERTIES ImplementsRegistry EventuallyHeard
CHECK_DEADLOCK FALSE
