\* Two replicas that run and stop, a task, a request in flight, a lost session.
SPECIFICATION FairSpec
CONSTANTS
  Replica = {r1, r2}
  Task = {"scan"}
  None = None
  MaxRequests = 1
  MaxLost = 1
INVARIANTS OneRound LockOnlyInRound PoolOutlivesTasks
PROPERTIES ShutdownEnds
CHECK_DEADLOCK FALSE
