SPECIFICATION Spec
CONSTANTS
  MaxFlight = 2
  MaxCalls = 3
  MaxLost = 1
  MaxOpens = 2
  MaxPrice = 2
  MaxCharts = 2
  Balance = 4
  Shares = 3
  Fee = 1
  TotpOn = TRUE
  OrderEntryEnabled = TRUE
  Amounts <- MCAmounts
  OrderAmounts <- MCOrderAmounts
  OrderMax = 3
  Visits <- MCVisits
CHECK_DEADLOCK FALSE
INVARIANTS
  TypeOK
  TokenIsShown
  ReserveIsAccounted
PROPERTIES
  CancelledNeverWithdrawn
  BarsInOrder
  PanelOwnRows
  SummaryCatchesUp
