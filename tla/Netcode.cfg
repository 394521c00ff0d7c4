\* Up to ten packets a session through a sequence space of eight, a window of three;
\* a client connects with up to two of the tokens it is issued.
SPECIFICATION SessionSpec
CONSTANTS
  SeqCount = 8
  WideMod = 64
  Width = 3
  Blackout = 3
  MaxPackets = 10
  Capacity = 1
  Protocols = {game, other}
  ExpectedProtocol = game
  game = game
  other = other
  Clients = {c}
  c = c
  Expiry = 2
  MaxTime = 3
  MaxTokens = 2
INVARIANTS
  AcceptedOnce
  FreshIsAccepted
  OwnPacketsOnly
  AdmittedWhileValid
CHECK_DEADLOCK FALSE
