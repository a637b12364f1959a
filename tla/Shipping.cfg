\* Two shipments being picked, shipped and cancelled side by side, by the rules.
SPECIFICATION Spec
CONSTANTS
  Orders = {"order"}
  OrderLines = {k1, k2}
  OrderOf <- MCOrderOf
  Ordered <- MCOrdered
  Shipments = {h1, h2}
  Picks = {1, 2}
  Lots = {"lot"}
  Matches <- MCMatches
  Filled <- MCFilled
  Quantities = {1}
  Clerks = {c1, c2}
  Careful = {"unattended", "none open", "names line", "leave picked", "leave promised", "lines first"}
  NoOrder = NoOrder
  NoLine = NoLine
  NoPick = NoPick
  NoTask = NoTask
  MaxRemovals = 3
SYMMETRY MCSymmetry
INVARIANTS
  ShippedIsRemoved
  NotPromisedTwice
  OrderCountsAgree
  ShippedOwesNothing
  CancelledHasNotShipped
