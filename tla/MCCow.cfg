\* Both builds, with and without COW_WT.  The process may exit, and all
\* transactions of the bound may have run.
CONSTANTS
  Words = 3
  COW_MAX = 2
  COW_SIZE = 1
  Builds = {TRUE, FALSE}
  Levels = {2}
  Byte = {9}
  Accesses <- SomeAccesses
  Sets <- SomeSets
  Copies <- SomeCopies
  MaxOps = 2
  Faults = 1
  MaxTx = 2
SPECIFICATION Spec
INVARIANTS ReadsOwnWrites RoomForEntries NoFalseRefusal
PROPERTIES TablesAgree
CHECK_DEADLOCK FALSE
