\* Eventual delivery and retirement, with two ordered messages.
SPECIFICATION FairSpec
CONSTANTS
  PacketSeqs <- MCPacketSeqs
  SeqCount = 2
  IdMod = 8
  MaxBuffered = 2
  Workloads <- EachAlone
  MaxSend <- TwoOrdered
  MaxCopies = 1
PROPERTY EventuallyRetired
