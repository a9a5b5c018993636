SPECIFICATION Spec
CONSTANTS
  up = up
  down = down
  k1 = k1
  k2 = k2
  Absent = Absent
  Garbled = Garbled
  Byte = {0, 1}
  Zero = 0
  Inputs <- MCInputs
  Deks = {k1}
  ChunkSize = 1
  Uploader = up
  Downloader = down
  Clients = {up, down}
  MaxStray = 0
  BrokerPowerMayFail = TRUE
  ReuseSession = FALSE
  Overwrite = FALSE
  FsyncMayFail = FALSE
  UnlinkMayFail = FALSE
  PowerMayFail = TRUE
INVARIANTS
  TypeOK
  HashCoversPartial
PROPERTIES
  OutputNeverReplaced
  ImplementsDelivery
