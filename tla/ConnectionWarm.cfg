\* As the code is, but the application queues nothing before the first packet.
SPECIFICATION Spec
CONSTANTS
  PacketSeqs <- MCPacketSeqs
  SeqCount = 8
  WideMod = 64
  Capacity = 4
  AckBits = 2
  IdMod = 8
  MaxBuffered = 2
  MaxSend <- OrderedAndUnordered
  MaxPackets = 3
  MaxHeaders = 1
  MaxCopies = 2
  SpeaksFirst = TRUE
  Warmup = 1
INVARIANTS
  AckedArrived
  RecordsReclaimed
PROPERTY AcksAreTruthful
