SPECIFICATION FairSpec
CONSTANTS
  c1 = c1
  c2 = c2
  v1 = v1
  v2 = v2
  Keys = {k1, k2}
  Values = {v1, v2}
  Falsy = {}
  Null = Null
  Absent = Absent
  Calls = {c1, c2}
  Contents <- MCContents
  First <- Ops
  Second = {"set", "clear"}
  MayCall <- MCMayCall
  MayFail <- MCButGet
INVARIANTS TypeOK
PROPERTIES ImplementsRemoteMap CallsSettle
CHECK_DEADLOCK FALSE
