SPECIFICATION Spec
CONSTANTS
  Keys = {k}
  Filters = {f}
  PlainFilters = {}
  Listeners = {a, b}
  Modes = {TRUE, FALSE}
  Serial = TRUE
  MayRelease = TRUE
  Prompt = TRUE
  MaxCalls = 4
  MaxDrops = 1
  MaxFails = 0
  MaxTimeouts = 0
SYMMETRY ListenerSymmetry
INVARIANTS TypeOK NoDuplicates ReleasedIsSilent ValuesDelivered
CHECK_DEADLOCK FALSE
