\* The rules on stamps and duty, a roll of three or four that may be received again.
SPECIFICATION PackagingSpec
CONSTANTS
  Lots = {l1, l2}
  Orders = {1}
  StampsFor <- MCStampsFor
  RollSizes = {3, 4}
  Starts <- MCStarts
  Tanks = {t1}
  Callers = {c1}
  Idle = Idle
  Batches = {2}
  Losses = {2}
  Quantities = {1}
  Careful = {"one bottler", "newest first", "same serials", "apart", "settled"}
  MaxRuns = 2
  MaxDocs = 3
SYMMETRY MCSymmetry
INVARIANTS
  LotsAgree
  
  SerialsDistinct
  DutiedOnce
