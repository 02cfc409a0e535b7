SPECIFICATION Spec
CONSTANTS
  DbTop = 6
  GOD = 1
  DEFAULT_HOME = 0
  Start <- Small
  Safe = {2}
  Sticky = {2, 4}
  Settled = {1}
  Acting = {1, 3}
  Links <- SmallLinks
  Gifts <- SmallGifts
  Tels <- SmallTels
  Makes <- SameTypes
  DESTROY_POSSESSIONS = TRUE
  REALLY_SAFE = TRUE
INVARIANTS
  TypeOK
  FieldsValid
  
  FreeListExact
  ExitsDoomed
PROPERTIES
  PurgedLate
