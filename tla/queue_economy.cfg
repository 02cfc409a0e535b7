SPECIFICATION FairSpec
CONSTANTS
  db_top = 4
  Players = {0, 1, 3}
  GOD = 3
  Attrs = {"SEMAPHORE"}
  NULL = NULL
  MAX_PID = 2
  QUEUE_COST = 1
  QUEUE_LOSS = 0
  QUEUE_QUOTA = 1
  QUEUE_PER_OWNER = TRUE
  MAX_PENNIES = 3
  EVENT_HANDLER <- Neg1
  STARTUP = {}
  MISTRUST = {}
  InitOwner <- OneOwner
  InitPowers <- NoPowers
  InitPennies <- TwoAndNone
  Active = {0, 1, 2}
  NewOwners = {0, 1}
  MaxTime = 1
  Delays = {}
  Counts = {1}
  SemBound = 1
  StoredBound = 1
  MaxNest = 2
  CountBound = 1
  Commands = {"queue", "semwait", "haltpid", "halt", "chown", "destroy", "drain"}
INVARIANTS
  CountCovered
  MoneyConserved
  LiveExecutors
PROPERTIES
  QueueDrains
CHECK_DEADLOCK FALSE
