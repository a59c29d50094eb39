\* A rollback restores memory.
CONSTANTS
  SEI_DMR_REDUNDANCY = 2
  ABUF_MAX_CONFLICTS = 8
  MAX_MSGS = 2
  Global = {1, 2}
  Heap = {}
  Msg = {}
  Byte = {0, 1}
  Accesses <- Bytes
  Levels = {2}
  Calls = {}
  Pieces = {}
  Kinds = {"write"}
  NDEBUG = TRUE
  MaxOps = 2
  Faults = 1
  MaxTx = 2
  num_cores = 2
  PtrSize = 1
  CoreMigration = FALSE
SPECIFICATION RSpec
PROPERTIES RollbackRestores
CHECK_DEADLOCK FALSE
