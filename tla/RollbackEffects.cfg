\* Three cores, core migration or not, one fault, a message in cell 1 and a
\* transaction of two operations: writes of that cell, an allocation, a free,
\* a call and output.  The process may exit, so behaviours may end.
CONSTANTS
  SEI_DMR_REDUNDANCY = 2
  ABUF_MAX_CONFLICTS = 8
  MAX_MSGS = 1
  Global = {1}
  Heap = {4}
  Msg = {1}
  Byte = {0, 1}
  Accesses <- OneByte
  Levels = {2}
  Calls = {"c"}
  Pieces = {"a"}
  Kinds = {"write", "malloc", "free", "send", "output"}
  NDEBUG = TRUE
  MaxOps = 2
  Faults = 1
  MaxTx = 1
  num_cores = 3
  PtrSize = 1
  CoreMigration = TRUE
SPECIFICATION FairRSpec
INVARIANTS ExitReasons
PROPERTIES EffectsOnce PhaseZeroRollback DistinctAgreement InputVerified Termination
CHECK_DEADLOCK FALSE
