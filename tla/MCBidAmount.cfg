CONSTANTS
  Prices <- MCPrices
  Increments <- MCIncrements
  Amounts <- MCAmounts
  ToExpPos = 4
  ToExpNeg = 3
  Finest = 3
SPECIFICATION Spec
INVARIANTS
  TypeOK
  MinimumIsExact
PROPERTIES
  RaisesAreExact
