SPECIFICATION Spec
CONSTANTS
  Players = {"god"}
  Things = {"t"}
  God = "god"
  ObjName <- MCObjName
  Chans = {"c"}
  ChanNames = {1}
  Types <- MCTypes
  Lens = {1, 2}
  BufferLines = {0, 1, 2, 3}
  MAX_CHANNELS = 1
  MAX_PLAYER_CHANS = 1
  CHANNEL_COST = 0
  InitPennies = 0
  Mogrifiers = {"t"}
  Watched = "c"
  MaxDepth = 2
  BUFFER_LEN = 3
  OVERHEAD = 1
  PAD = PAD
  NOTHING = NOTHING
INVARIANTS
  BuffersExact

  
