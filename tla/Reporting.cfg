\* The returns of a year, and a province's reports.
\* The year ends.
SPECIFICATION ReportingSpec
CONSTANTS
  Licensees <- MCLicensees
  Asked <- MCAsked
  FirstDay <- MCFirst
  MaxUnfiled = 2
INVARIANTS
  ExcisePeriods
  ProvincialPeriodsTile
  ReturnsAnnounced
PROPERTIES
  PastReportsStand
CHECK_DEADLOCK FALSE
