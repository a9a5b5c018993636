SPECIFICATION UploadsSpec
CONSTANTS
  k1 = k1
  k2 = k2
  u1 = u1
  u2 = u2
  Absent = Absent
  Garbled = Garbled
  Byte = {0, 1}
  Zero = 0
  Inputs <- MCInputs
  Deks = {k1, k2}
  ChunkSize = 1
  Clients = {u1, u2}
  Uploader = u1
  Uploader2 = u2
  MaxStray = 0
  BrokerPowerMayFail = TRUE
  ReuseSession = TRUE
SYMMETRY Symmetric
INVARIANTS
  UploadsTypeOK
  PublishedIsComplete
PROPERTIES
  StoredChunksStay
