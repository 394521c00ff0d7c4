\* Messages of one, three and (too many) four fragments; room for two messages
\* and five bytes; an id may be used again after three ticks.
SPECIFICATION Spec
CONSTANTS
  CountMod = 16
  MaxFragmentBytes = 2
  MaxFragments = 3
  MaxMessages = 2
  MaxTotalBytes = 5
  Timeout = 2
  Ids = {a, b, c}
  a = a
  b = b
  c = c
  Lengths = {2, 5, 7}
  Lifetime = 2
  MaxSent = 3
  MaxTime = 4
INVARIANTS
  WholeMessagesOnly
  BytesAreAccounted
PROPERTY TakenIsKept
SYMMETRY Symmetry
CHECK_DEADLOCK FALSE
