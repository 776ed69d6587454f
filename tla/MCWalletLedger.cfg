SPECIFICATION Spec
CONSTANTS
  w1 = w1
  w2 = w2
  d1 = d1
  Withdrawals = {w1, w2}
  Deposits = {d1}
  Start = 4
  Gross = 2
  Fee = 1
  Amount = 1
  Short = {w1}
  Blocked = TRUE
  MaxLost = 1
CHECK_DEADLOCK FALSE
INVARIANT OpenIsReserved
PROPERTIES
  WithdrawalEnds
  BalanceSettles
