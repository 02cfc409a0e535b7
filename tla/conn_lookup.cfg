SPECIFICATION FairSpec
CONSTANTS
  Fds = {1, 3}
  Clients = {"a"}
  NULL = NULL
  avail_descriptors = 2
  RETRY = 0
  WINDOW = 0
  MAX_ATTEMPTS = 1
  SOCKBUF = 1
  MaxAsked = 1
  MAX_LOGINS = 1
  MaxDeaths = 2
  LoginBound = 0
  Requests = {"line", "quit", "slave"}
INVARIANTS
  SocketOwned
  GivenUp
PROPERTIES
  Settled
CHECK_DEADLOCK FALSE
