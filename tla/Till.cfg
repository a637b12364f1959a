\* Deliveries and redeliveries beside one another and beside the one screen that posts.
SPECIFICATION Spec
CONSTANTS
  Sales = {1, 2, 3}
  Skus = {"gin", "mini"}
  SkuOf <- MCSkuOf
  Quantity <- MCQuantity
  LateSales = {3}
  Products = {"gin"}
  Lots = {1, 2}
  ProductOf <- MCProductOf
  Filled <- MCFilled
  Clerks = {c1, c2}
  Careful = TRUE
  NoProduct = NoProduct
  NoLot = NoLot
  NoBatch = NoBatch
  MaxRemovals = 3
  MaxFaults = 1
INVARIANTS
  SoldOnce
  TakingsExplained
  StockAgrees
PROPERTIES
  EventuallyDecided
