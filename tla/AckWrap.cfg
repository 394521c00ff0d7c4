\* Ten packets through a sequence space of eight: the wrap happens.
SPECIFICATION Spec
CONSTANTS
  SeqCount = 8
  WideMod = 64
  Capacity = 2
  AckBits = 1
  MaxPackets = 10
  MaxLost = 1
  MaxSlotLost = 2
  MaxHeaders = 1
  Lifetime = 2
  SpeaksFirst = FALSE
INVARIANTS
  AckedPacketsArrived
  HeaderIsComplete
PROPERTY ReportedOnce
