SPECIFICATION WireSpec
CONSTANTS
  WordBits = 16
  FracBits = 8
  SinTable <- MCSin
  SinFracBits = 4
  AtanTable <- MCAtan
  AtanFracBits = 5
  Exp2Table <- MCExp2
  Log2Table <- MCLog2
  ExpFracBits = 5
  Pi = 804
  HalfPi = 402
  InvTau = 41
  Log2E = 369
  Ln2 = 177
  InvSqrt2 = 181
  ByteBits = 4
  GroupBits = 3
  MaxBits = 16
  MaxComponentBits = 7
  IsUtf8 <- MCIsUtf8
  Tolerance = 12
  Pools <- MCPools
  MaxComponents = 2
  Samples <- MCSamples
  Operands <- MCOperands
INVARIANTS
  HeldAsForetold
  TruncatedIsRefused
  AgreementIsExact
  NumbersAreExact
  ApproximationsAreNear
CHECK_DEADLOCK FALSE
