SPECIFICATION ReportSpec
CONSTANTS
  o1 = o1
  o2 = o2
  OrderIds = {o1, o2}
  Totals <- MCTotals
  Instants <- MCInstants
  Windows <- MCWindows
INVARIANTS ChartMatchesTotal OnePointPerSlot
PROPERTY OrdersReported
