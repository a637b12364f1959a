\* Two transactions fill, draw on and hand over three vessels, and void what they
\* filled; every call is answered, deadlocks included.
SPECIFICATION LedgerSpec
CONSTANTS
  Containers = {1, 2, 3}
  Barrels = {2}
  NoVessel = 0
  Capacity <- MCCapacity
  Opening <- MCOpening
  Pure = 50
  Tolerance = 1
  Requests <- AllRequests
  Careful = FALSE
  MaxLitres = 4
  MaxLaa = 124
  MaxEvents = 2
  Tx = {t1, t2}
  NoRequest = NoRequest
INVARIANTS
  LockedReadIsCurrent
  SortedLocksQueue
PROPERTIES
  Books
  EveryCallEnds
