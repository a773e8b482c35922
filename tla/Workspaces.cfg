SPECIFICATION Spec
CONSTANTS
  Handles = {h1, h2}
  AsyncHandles = {h1, h2}
  Fields = {gpu, disk}
  Segments = {1, 2}
  MaxCalls = 2
  MaxSessions = 2
  MaxRevisions = 3
  MaxLost = 1
SYMMETRY Symmetry
CHECK_DEADLOCK FALSE
INVARIANT StopEndsSession
INVARIANT OneSessionPerIntent
INVARIANT FinalizedWhole
PROPERTY NoFilesOverwritten
PROPERTY NoChangeUndone
