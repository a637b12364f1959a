--------------------------- MODULE MCAlertSweep ---------------------------
(* The runner and one operator pressing "evaluate now". *)
EXTENDS AlertSweep

=============================================================================
