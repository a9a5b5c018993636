SPECIFICATION Spec
CONSTANTS
  s1 = s1
  s2 = s2
  Sessions = {s1, s2}
  Byte = {0, 1}
  Zero = 0
  ChunkSizes = {1, 2}
  MaxInFlight = 2
  Absent = Absent
  Overwrite = TRUE
  FsyncMayFail = TRUE
  PowerMayFail = FALSE
  Inputs <- MCOneInput
SYMMETRY Symmetric
INVARIANTS
  NothingRejected
PROPERTIES
  ProgressIsKept
