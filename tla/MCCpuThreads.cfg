\* Two threads on three cores, two of which are faulty; one thread also verifies
\* messages, and the scheduler moves a thread once.
CONSTANTS
  num_cores = 3
  Thread = {t1, t2}
  Receiver = {t1}
  Allowed = {0, 1, 2}
  FaultyCores = {{0, 1}}
  MaxTx = 1
  MaxMoves = 1
SPECIFICATION CpuSpec
INVARIANTS ExitOnlyWhenSpent InvolvedCores RetriesBounded
PROPERTIES RoundRobin HandlersEnd
