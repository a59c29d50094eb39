\* The release build with one fault: two transactions of levels 2 and 3 that
\* write, allocate and free.  The process may exit, so behaviours may end.
CONSTANTS
  SEI_DMR_REDUNDANCY = 3
  ABUF_MAX_CONFLICTS = 8
  MAX_MSGS = 2
  Global = {1, 2}
  Heap = {4}
  Msg = {}
  Byte = {0, 1}
  Accesses <- Bytes
  Levels = {2, 3}
  Calls = {}
  Pieces = {}
  Kinds = {"write", "malloc", "free"}
  NDEBUG = TRUE
  MaxOps = 2
  Faults = 1
  MaxTx = 2
SPECIFICATION Spec
INVARIANTS TypeOK UndoLog NoFalseAlarm
PROPERTIES VerifiedWrites
CHECK_DEADLOCK FALSE
