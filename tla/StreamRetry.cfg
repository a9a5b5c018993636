SPECIFICATION CaringUserSpec
CONSTANTS
  s1 = s1
  Sessions = {s1}
  Byte = {0, 1}
  Zero = 0
  ChunkSizes = {2}
  MaxInFlight = 1
  Absent = Absent
  Overwrite = TRUE
  FsyncMayFail = FALSE
  PowerMayFail = TRUE
  Inputs <- MCLongInputs
INVARIANTS
  DestinationWasOffered
  HonestStreamAccepted
PROPERTIES
  RunsEnd
  RerunSucceeds
