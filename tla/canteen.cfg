SPECIFICATION CanteenSpec
CONSTANTS
  a = a
  b = b
  r1 = r1
  r2 = r2
  r3 = r3
  Requests = {r1, r2, r3}
  Suppliers = {a}
  Persons = {b}
  Amounts = {1, 2}
  Scenes <- AllTrades
  Shelves <- AllShelves
  Products = {a, b}
  Tills = {r1, r2, r3}
  Keep = Keep
  NoCall = NoCall
  NoCart = NoCart
INVARIANTS TypeOK BalancesAgree RowsSound StockAccountedFor
PROPERTIES ListedIsSettled RequestEnds
CHECK_DEADLOCK FALSE
