SPECIFICATION Spec
CONSTANTS
  db_top = 1
  Players = {0}
  GOD = 0
  Attrs = {"SEMAPHORE"}
  NULL = NULL
  MAX_PID = 3
  QUEUE_COST = 0
  QUEUE_LOSS = 0
  QUEUE_QUOTA = 3
  QUEUE_PER_OWNER = FALSE
  MAX_PENNIES = 3
  EVENT_HANDLER <- Neg1
  STARTUP = {}
  MISTRUST = {}
  InitOwner <- OneOwner
  InitPowers <- NoPowers
  InitPennies <- Three
  Active = {0}
  NewOwners = {}
  MaxTime = 2
  Delays = {0, 1}
  Counts = {1, 2}
  SemBound = 2
  StoredBound = 2
  MaxNest = 1
  CountBound = 1
  Commands = {"queue", "wait", "waitpid", "halt"}
INVARIANTS
  TypeOK
  QueuePartition
  WaitSorted
PROPERTIES
  CommandFIFO
  NotEarly
CHECK_DEADLOCK FALSE
