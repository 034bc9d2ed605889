SPECIFICATION Spec
CONSTANTS
  Valid = {"localhost:1408", "coherence:///localhost"}
  Scopes = {"", "scope"}
  Timeouts = {0, 100}
  Infinity = Infinity
  Files = {file}
  None = None
  Env <- MCEnv
PROPERTIES FixedOnceLocked
CHECK_DEADLOCK FALSE
