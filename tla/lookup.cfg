SPECIFICATION FairSpec
CONSTANTS
  Resolutions = {r1, r2}
  Targets <- MCTargets
  None = None
  DefaultPort = 7574
  ServiceAt <- MCServiceAt
  PortOf <- MCPortOf
  Proxies = {p1, none}
  NoProxy = none
  AtFirst <- MCAtFirst
  p1 = p1
  none = none
  Lengths <- MCLengths
  Numbers <- MCNumbers
  MaxChanges = 1
INVARIANTS TypeOK ToldOnce ToldTheTruth PackedIntsReadBack
PROPERTIES Answered
CHECK_DEADLOCK FALSE
