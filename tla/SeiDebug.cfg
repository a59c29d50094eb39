\* The debug build at level 2 with one fault: messages that arrive in cell 1,
\* writes, allocation, frees, system calls and output through a ring of one
\* entry.  The process may exit, so behaviours may end.
CONSTANTS
  SEI_DMR_REDUNDANCY = 2
  ABUF_MAX_CONFLICTS = 8
  MAX_MSGS = 1
  Global = {1}
  Heap = {4}
  Msg = {1}
  Byte = {0, 1}
  Accesses <- OneCell
  Levels = {2}
  Calls = {"c"}
  Pieces = {"a"}
  Kinds = {"write", "malloc", "free", "send", "output"}
  NDEBUG = FALSE
  MaxOps = 2
  Faults = 1
  MaxTx = 2
SPECIFICATION Spec
INVARIANTS OutputsAgree
PROPERTIES Agreement AtomicOnce
CHECK_DEADLOCK FALSE
