\* Three sheets, up to all of them open at once, two clerks, removals and losses.
\* When nothing is left in stock and the sheets are done with nothing happens.
SPECIFICATION Spec
CONSTANTS
  Lots = {1, 2}
  Filled <- MCFilled
  Clerks = {c1, c2}
  Idle = Idle
  Careful = {"one sheet", "hands off"}
  NoLine = NoLine
  MaxSheets = 3
  MaxLosses = 2
INVARIANTS
  BookExplained
PROPERTIES
  CountSettles
SYMMETRY MCClerks
CHECK_DEADLOCK FALSE
