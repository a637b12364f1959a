\* Disciplined operators, every operation.
SPECIFICATION BooksSpec
CONSTANTS
  Containers = {1, 2, 3}
  Barrels = {1}
  NoVessel = 0
  Capacity <- MCCapacity
  Opening <- MCOpening
  Pure = 50
  Tolerance = 1
  Requests <- EveryRequest
  Careful = TRUE
  MaxLitres = 3
  MaxLaa = 96
  MaxEvents = 2
INVARIANTS
  JournalAgrees
  StrengthAgrees
PROPERTY
  AwayStandsStill
CHECK_DEADLOCK FALSE
