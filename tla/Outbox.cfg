\* One worker, as installed, with crashes and lost results.
\* Once every endpoint is deleted nothing is left to do.
SPECIFICATION OutboxSpec
CONSTANTS
  Endpoints = {1, 2}
  Subscriptions <- MCBoth
  Unsealable = {2}
  Workers = {w1}
  MaxAttempts = 3
  Batch = 2
  NoPost = NoPost
  MaxFailures = 2
INVARIANTS
  BudgetKept
  NoFalseDelivery
  NothingGivenUpEarly
PROPERTIES
  WaitsGrow
  EventuallySettled
CHECK_DEADLOCK FALSE
