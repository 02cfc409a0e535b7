SPECIFICATION Spec
CONSTANTS
  Players = {"god", "p"}
  Things = {"t"}
  God = "god"
  ObjName <- MCObjName
  Chans = {"c", "d"}
  ChanNames = {1, 2, 3}
  Types <- MCTypes
  Lens = {1}
  BufferLines = {0}
  MAX_CHANNELS = 2
  MAX_PLAYER_CHANS = 1
  CHANNEL_COST = 1
  InitPennies = 1
  Mogrifiers = {}
  Watched = "c"
  MaxDepth = 1
  BUFFER_LEN = 3
  OVERHEAD = 1
  PAD = PAD
  NOTHING = NOTHING
INVARIANTS
  TypeOK
  MembersAgree
  ChannelsListed
  DepositsHeld
