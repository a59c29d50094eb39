\* Three phases, retries and a fault: locks are held, their results replayed and
\* all of them released, and handlers that wait in order end.  Handlers that do
\* not, and retries, may wait for a lock of their own, so that threads may stop.
CONSTANTS
  t1 = t1
  t2 = t2
  Thread = {t1, t2}
  Lock = {1, 2}
  Level = 3
  ROLLBACK = TRUE
  Kinds <- KindsBound
  MaxOps <- OpsBound
  MaxLog = 4
  MaxFaults = 1
  MaxTx = 1
SPECIFICATION FairSpec
INVARIANTS HeldUntilCommit ReplaysPhaseZero
PROPERTIES AllReleased OrderedEnd
CHECK_DEADLOCK FALSE
