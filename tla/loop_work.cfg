SPECIFICATION Spec
CONSTANTS
  MS_PER_SEC = 2
  UINT = 64
  LONG_WAIT = 8
  NO_EVENT_WAIT = 1
  queue_chunk = 1
  Descs = {"d", "e"}
  NOQUOTA = {"e"}
  QUOTA_MAX = 4
  COMMANDS_PER_SECOND = 1
  HTTP_SECOND_LIMIT = 1
  Loops = {"idle"}
  Optional = {"dbsave"}
  dbsave = "dbsave"
  Warnings = {"1min"}
  Lead <- OneAndTwo
  InitInterval <- DumpThree
  MaxNow = 7
  MaxWork = 1
  Delays = {0, 1}
  MaxQueue = 1
  MaxInput = 2
  MaxHttp = 1
  MaxSignals = 0
  Windows = {4}
  Kinds = {}
  Intervals = {0, 2}
INVARIANTS
  TypeOK
  SystemQueue
  NotOverslept
  RateLimited
  HttpLimited
