\* Disciplined operators, two requests at a time.
SPECIFICATION Spec
CONSTANTS
  LastMonth = 2
  Ranges <- MCRanges
  Kinds = {"production_gauge", "transfer_to_packaging", "opening_inventory"}
  Amounts = {2}
  Opening = 3
  Callers = {c1, c2}
  Idle = Idle
  Careful = TRUE
  MaxEntries = 3
INVARIANTS
  NoSharedDays
  FiledLinesStand
  BooksContinuous
PROPERTY
  ClosedBalancesStand
