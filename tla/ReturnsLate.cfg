\* The same licensees.
SPECIFICATION ReportingSpec
CONSTANTS
  Licensees <- MCLicensees
  Asked <- MCAsked
  FirstDay <- MCFirst
  MaxUnfiled = 2
INVARIANTS
  LateReturnsShown
CHECK_DEADLOCK FALSE
