SPECIFICATION Spec
CONSTANTS
  c1 = c1
  c2 = c2
  x1 = x1
  m1 = m1
  m2 = m2
  Absent = Absent
  Refused = Refused
  Garbled = Garbled
  Connections = {c1, c2}
  Indices = {0, 1, 2}
  Ciphertexts = {x1}
  Manifests = {m1, m2}
  DiskMayFail = TRUE
  Requests <- MCRequests
  Uploaded <- MCUploaded
  HeaderLen = 2
  MaxBody = 3
  MaxCalls = 2
CHECK_DEADLOCK FALSE
INVARIANTS
  TypeOK
  FailsForAReason
PROPERTIES
  ImplementsStore
  CallsEnd
