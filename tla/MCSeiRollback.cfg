\* Core migration on five cores with two faults: every core that can be left
\* out is left out, up to the last one.  Two transactions of one operation, so
\* that the second may free the object of the first.
CONSTANTS
  SEI_DMR_REDUNDANCY = 2
  ABUF_MAX_CONFLICTS = 8
  MAX_MSGS = 2
  Global = {1}
  Heap = {4}
  Msg = {}
  Byte = {0}
  Accesses <- OneByte
  Levels = {2}
  Calls = {"c"}
  Pieces = {}
  Kinds = {"write", "malloc", "free", "send"}
  NDEBUG = TRUE
  MaxOps = 1
  Faults = 2
  MaxTx = 2
  num_cores = 5
  PtrSize = 1
  CoreMigration = TRUE
SPECIFICATION RSpec
INVARIANTS HealthyCores HeapAtStart
CHECK_DEADLOCK FALSE
