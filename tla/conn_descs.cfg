SPECIFICATION Spec
CONSTANTS
  Fds = {1, 2}
  Clients = {"a"}
  NULL = NULL
  avail_descriptors = 3
  RETRY = 0
  WINDOW = 0
  MAX_ATTEMPTS = 1
  SOCKBUF = 1
  MaxAsked = 1
  MAX_LOGINS = 1
  MaxDeaths = 0
  LoginBound = 3
  Requests = {"logout", "connect", "boot", "http"}
INVARIANTS
  TypeOK
  TimersOwned
  
  LoginLimit
CHECK_DEADLOCK FALSE
