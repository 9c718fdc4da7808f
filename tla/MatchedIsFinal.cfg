SPECIFICATION Spec
CONSTANTS
  t1 = t1
  t2 = t2
  a = a
  b = b
  sp = sp
  Chars = {a, b, sp}
  Space = sp
  Names <- MCNames
  Normal <- MCNormal
  Orders <- MCOrders
  Payments <- MCPayments
  Window = 5
  None = None
  Requests = {1, 2}
  Txs = {t1}
  Fits <- AllFit
  RunWorkers = {rw}
  TxWorkers = {tw}
  MaxTries = 2
  MaxFaults = 0
  NotifyExpired = FALSE
PROPERTY MatchedIsFinal
