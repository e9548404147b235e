SPECIFICATION Spec
CONSTANTS
  None = None
  N = 3
  Prices = {1, 2}
  MayFail = {"save"}
  MaxRow = 4
INVARIANTS
  TypeOK
  RowIsInstrument
  TableHoldsFrame
  HistoryEndsWithTable
  BrowsersToldTable
PROPERTIES
  ImplementsPriceTable
