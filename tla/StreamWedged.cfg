SPECIFICATION RetrySpec
CONSTANTS
  s1 = s1
  Sessions = {s1}
  Byte = {0, 1}
  Zero = 0
  ChunkSizes = {1}
  MaxInFlight = 1
  Absent = Absent
  Overwrite = TRUE
  FsyncMayFail = FALSE
  PowerMayFail = TRUE
  Inputs <- MCSameLength
PROPERTIES
  RerunSucceeds
