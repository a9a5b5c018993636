SPECIFICATION DownloadsSpec
CONSTANTS
  k1 = k1
  d1 = d1
  d2 = d2
  Absent = Absent
  Garbled = Garbled
  Byte = {0, 1}
  Zero = 0
  Inputs <- MCTwoChunks
  Deks = {k1}
  ChunkSize = 2
  Clients = {d1, d2}
  Downloader = d1
  Downloader2 = d2
  FreshAlone = TRUE
  MaxStray = 1
  BrokerPowerMayFail = FALSE
  Overwrite = FALSE
  FsyncMayFail = FALSE
  UnlinkMayFail = TRUE
  PowerMayFail = TRUE
VIEW EitherWay
INVARIANTS
  DownloadsTypeOK
  OutputIsWhole
