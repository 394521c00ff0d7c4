\* Three ordered, three unordered, or three sequenced messages, or one on each
\* channel; the buffers have room for exactly the two that can wait.
SPECIFICATION MCSpec
CONSTANTS
  PacketSeqs <- MCPacketSeqs
  SeqCount = 2
  IdMod = 8
  MaxBuffered = 2
  MaxSend <- UpToThree
  Workloads <- AloneAndMixed
  MaxCopies = 2
INVARIANTS
  NothingForgotten
  BuffersBeyondGap
PROPERTY Delivers
