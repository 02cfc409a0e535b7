SPECIFICATION FairSpec
CONSTANTS
  MS_PER_SEC = 2
  UINT = 64
  LONG_WAIT = 8
  NO_EVENT_WAIT = 1
  queue_chunk = 1
  Descs = {}
  NOQUOTA = {}
  QUOTA_MAX = 4
  COMMANDS_PER_SECOND = 1
  HTTP_SECOND_LIMIT = 0
  Loops = {"idle"}
  Optional = {}
  dbsave = "dbsave"
  Warnings = {}
  Lead <- OneAndTwo
  InitInterval <- DumpThree
  MaxNow = 6
  MaxWork = 1
  Delays = {}
  MaxQueue = 1
  MaxInput = 0
  MaxHttp = 0
  MaxSignals = 1
  Windows = {}
  Kinds = {"CHLD", "INT", "HUP", "USR1", "USR2"}
  Intervals = {}
INVARIANTS
  OncePerSignal

  
CHECK_DEADLOCK FALSE
