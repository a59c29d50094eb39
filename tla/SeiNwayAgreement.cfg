\* The debug build at level 3: all executions agree at the commit.
CONSTANTS
  SEI_DMR_REDUNDANCY = 3
  ABUF_MAX_CONFLICTS = 8
  MAX_MSGS = 2
  Global = {1, 2}
  Heap = {}
  Msg = {}
  Byte = {0, 1}
  Accesses <- Bytes
  Levels = {3}
  Calls = {}
  Pieces = {}
  Kinds = {"write"}
  NDEBUG = FALSE
  MaxOps = 2
  Faults = 1
  MaxTx = 2
SPECIFICATION Spec
PROPERTIES Agreement
CHECK_DEADLOCK FALSE
