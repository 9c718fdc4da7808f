SPECIFICATION EngineSpec
CONSTANTS
  a = a
  b = b
  c = c
  sp = sp
  Space = sp
  Chars <- MCChars
  Names <- MCNames
  Normal <- MCNormal
  Orders <- MCOrders
  Payments <- MCPayments
  Window = 5
INVARIANT BestScoreDecides
CHECK_DEADLOCK FALSE
