SPECIFICATION MCSpec
CONSTANTS
  Items = {i1, i2}
  Refunds = {f1, f2}
  Jobs = {j1}
  Requests = {r1, r2}
  None = None
  Parts = 5
  Prices = {12}
  Taxes = {0, 2}
  Discounts = {0, 3}
  Shippings = {0, 4}
  RefundAmounts = {7, 12}
  MaxQuantity = 1
  Patches <- SmallPatches
SYMMETRY Ids
INVARIANTS TypeOK AmountsAddUp JobsOfConfirmedOrders
PROPERTIES TotalsFollowItems PaymentFollowsRefunds CancelledUntilPatched
CHECK_DEADLOCK FALSE
