\* As the code is: the very first packet carries a reliable message.
SPECIFICATION Spec
CONSTANTS
  PacketSeqs <- MCPacketSeqs
  SeqCount = 8
  WideMod = 64
  Capacity = 4
  AckBits = 2
  IdMod = 8
  MaxBuffered = 2
  MaxSend <- OneOrdered
  MaxPackets = 2
  MaxHeaders = 1
  MaxCopies = 2
  SpeaksFirst = TRUE
  Warmup = 0
INVARIANT NothingForgotten
