SPECIFICATION FairSpec
CONSTANTS
  o1 = o1
  MaxRequests = 4
  OrderId = {o1}
  Items <- MCItems
  Permits = 2
  MaxCents = 1
  HalfRange = 16
  MaxParts = 5
  Currencies = {"BRL", "JPY"}
INVARIANTS TruthfulAnswer ConfirmedTotal MoneyExact
PROPERTIES EveryoneAnswered
CHECK_DEADLOCK FALSE
