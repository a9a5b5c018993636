SPECIFICATION Spec
CONSTANTS
  s1 = s1
  s2 = s2
  Sessions = {s1, s2}
  Byte = {0, 1}
  Zero = 0
  ChunkSizes = {1}
  MaxInFlight = 1
  Absent = Absent
  Overwrite = FALSE
  FsyncMayFail = FALSE
  PowerMayFail = FALSE
  Inputs <- MCInputs
SYMMETRY Symmetric
INVARIANTS
  TypeOK
  SuccessMeansDelivered
PROPERTIES
  NeverReplaced
  ImplementsDelivery
