\* Two slots, one component with a quantized and a plain field; four ticks, so
\* that the rings of two baselines and of three recorded worlds wrap.
SPECIFICATION Spec
CONSTANTS
  GenMod = 16
  Components = {body}
  body = body
  Fields = {pos, hp}
  pos = pos
  hp = hp
  Quantized = {pos}
  Values = {0, 1, 2, 3}
  Step = 2
  NONE = NONE
  MaxRewind = 1
  Acknowledged = TRUE
  Baselines = 2
  NewValues = {1, 3}
  MaxTick = 4
  MaxSlots = 2
  MaxOps <- FourTicks
INVARIANTS
  ReceiverHoldsSent
  DeadSlotsAreClean
  UnchangedIsSilent
  RewindShowsThePast
PROPERTY HandlesAreUnique
CHECK_DEADLOCK FALSE
