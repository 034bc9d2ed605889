SPECIFICATION Spec
CONSTANTS
  c1 = c1
  c2 = c2
  v1 = v1
  v2 = v2
  Keys = {k1, k2}
  Values = {v1, v2}
  Falsy = {k2, v2}
  Null = Null
  Absent = Absent
  Calls = {c1, c2}
  Contents <- MCContents
  First = {"replaceMapping"}
  Second = {}
  MayCall <- MCMayCall
  MayFail <- MCButGet
PROPERTIES ImplementsRemoteMap
CHECK_DEADLOCK FALSE
