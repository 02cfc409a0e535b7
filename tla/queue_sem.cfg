SPECIFICATION Spec
CONSTANTS
  db_top = 1
  Players = {0}
  GOD = 0
  Attrs = {SEMAPHORE, LOCKED}
  NULL = NULL
  MAX_PID = 2
  QUEUE_COST = 0
  QUEUE_LOSS = 0
  QUEUE_QUOTA = 2
  QUEUE_PER_OWNER = FALSE
  MAX_PENNIES = 3
  EVENT_HANDLER <- Neg1
  STARTUP = {}
  MISTRUST = {}
  InitOwner <- OneOwner
  InitPowers <- NoPowers
  InitPennies <- Three
  Active = {0}
  NewOwners = {}
  MaxTime = 2
  Delays = {1}
  Counts = {1}
  SemBound = 2
  StoredBound = 1
  MaxNest = 1
  CountBound = 2
  Commands = {"semwait", "notify", "drain", "haltpid"}
INVARIANTS
  SemCovered
PROPERTIES
  SemFIFO
CHECK_DEADLOCK FALSE
SYMMETRY Symmetry
