\* The runner's sweep and an operator's, over each other.
SPECIFICATION Spec
CONSTANTS
  Rules = 2
  Mailed = {1}
  Runner = runner
  Sweepers = {runner, operator}
  NoMail = NoMail
  MaxFaults = 1
INVARIANTS
  NotifiedWasMailed
  MailedOnce
PROPERTIES
  ShowsWhatItSaw
  EventuallyAgrees
  EventuallyMailed
