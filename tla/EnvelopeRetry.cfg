SPECIFICATION RetrySpec
CONSTANTS
  up = up
  down = down
  k1 = k1
  k2 = k2
  Absent = Absent
  Garbled = Garbled
  Byte = {0, 1}
  Zero = 0
  Inputs <- MCOneInput
  Deks = {k1, k2}
  ChunkSize = 2
  Uploader = up
  Downloader = down
  Clients = {up, down}
  MaxStray = 2
  BrokerPowerMayFail = FALSE
  ReuseSession = FALSE
  Overwrite = FALSE
  FsyncMayFail = FALSE
  UnlinkMayFail = FALSE
  PowerMayFail = FALSE
INVARIANTS
  PublishedIsComplete
  HonestUploadAccepted
  CountedIsThere
PROPERTIES
  DownloadSucceeds
