SPECIFICATION Spec
CONSTANTS
  db_top = 3
  Players = {0, 2}
  GOD = 2
  Attrs = {"SEMAPHORE"}
  NULL = NULL
  MAX_PID = 3
  QUEUE_COST = 1
  QUEUE_LOSS = 2
  QUEUE_QUOTA = 1
  QUEUE_PER_OWNER = FALSE
  MAX_PENNIES = 3
  EVENT_HANDLER = 1
  STARTUP = {0, 1}
  MISTRUST = {}
  InitOwner <- OneOwner
  InitPowers <- NoPowers
  InitPennies <- Two
  Active = {0, 1}
  NewOwners = {}
  MaxTime = 2
  Delays = {2}
  Counts = {1, 2}
  SemBound = 2
  StoredBound = 2
  MaxNest = 1
  CountBound = 1
  Commands = {"wait", "event", "allhalt", "restart", "set", "haltpid", "destroy", "shutdown"}
INVARIANTS
  QueuePartition
  MoneyConserved
  LiveExecutors
CHECK_DEADLOCK FALSE
