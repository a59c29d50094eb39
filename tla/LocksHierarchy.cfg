\* Handlers that respect the lock hierarchy, without retries and faults: they may
\* wait for a lock that they, or each other, have unlocked.
CONSTANTS
  t1 = t1
  t2 = t2
  Thread = {t1, t2}
  Lock = {1, 2}
  Level = 2
  ROLLBACK = FALSE
  Kinds <- KindsBound
  MaxOps <- OpsBound
  MaxLog = 4
  MaxFaults = 0
  MaxTx = 1
SPECIFICATION FairSpec
PROPERTIES TransactionsEnd
CHECK_DEADLOCK FALSE
