SPECIFICATION Spec
CONSTANTS
  up = up
  down = down
  k1 = k1
  k2 = k2
  Absent = Absent
  Garbled = Garbled
  Byte = {0, 1}
  Zero = 0
  Inputs <- MCOneInput
  Deks = {k1}
  ChunkSize = 2
  Uploader = up
  Downloader = down
  Clients = {up, down}
  MaxStray = 1
  BrokerPowerMayFail = FALSE
  ReuseSession = FALSE
  Overwrite = FALSE
  FsyncMayFail = FALSE
  UnlinkMayFail = FALSE
  PowerMayFail = FALSE
PROPERTIES
  LostConnectionIsResumable
