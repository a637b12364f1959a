\* What the tests expect of a rejected sale.
SPECIFICATION Spec
CONSTANTS
  Sales = {1, 2}
  Skus = {"gin", "mini"}
  SkuOf <- MCTwoSkus
  Quantity <- MCOneEach
  LateSales = {}
  Products = {"gin"}
  Lots = {1, 2}
  ProductOf <- MCProductOf
  Filled <- MCFilled
  Clerks = {c1}
  Careful = TRUE
  NoProduct = NoProduct
  NoLot = NoLot
  NoBatch = NoBatch
  MaxRemovals = 3
  MaxFaults = 0
PROPERTIES
  RejectedIsPosted
