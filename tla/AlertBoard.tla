----------------------------- MODULE AlertBoard -----------------------------
(***************************************************************************)
(* What the alert sweep promises (backend/internal/alerting/runner.go,     *)
(* RunTenant): an alert is a condition, not a message.  What is shown is   *)
(* what a sweep saw between its beginning and its end.  A sweep that had   *)
(* the board to itself shows exactly that; one that crossed another may    *)
(* leave standing what the other has put up, and takes nothing off it that *)
(* it saw itself.                                                          *)
(***************************************************************************)
CONSTANTS Subjects, Sweepers

VARIABLES
  truth,    \* the subjects whose condition holds
  shown,    \* those with an open alert
  running,  \* the sweeps in progress
  crossed,  \* those of them during which another put up what it saw
  looked,   \* what each has looked at
  saw       \* and found to hold

vars == <<truth, shown, running, crossed, looked, saw>>

Turn == /\ truth' \in SUBSET Subjects
        /\ UNCHANGED <<shown, running, crossed, looked, saw>>

Start(p) ==
  /\ p \notin running
  /\ running' = running \cup {p}
  /\ UNCHANGED <<truth, shown, crossed, looked, saw>>

Look(p, s) ==
  /\ p \in running
  /\ s \notin looked[p]
  /\ looked' = [looked EXCEPT ![p] = @ \cup {s}]
  /\ saw' = [saw EXCEPT ![p] = @ \cup (truth \cap {s})]
  /\ UNCHANGED <<truth, shown, running, crossed>>

Leave(p) ==
  /\ running' = running \ {p}
  /\ looked' = [looked EXCEPT ![p] = {}]
  /\ saw' = [saw EXCEPT ![p] = {}]
  /\ UNCHANGED truth

GiveUp(p) ==
  /\ p \in running
  /\ Leave(p)
  /\ crossed' = crossed \ {p}
  /\ UNCHANGED shown

Show(p) ==
  /\ p \in running
  /\ looked[p] = Subjects
  /\ saw[p] \subseteq shown'
  /\ shown' \subseteq shown \cup saw[p]
  /\ p \notin crossed => shown' = saw[p]
  /\ Leave(p)
  /\ crossed' = running'

Init ==
  /\ truth = {} /\ shown = {} /\ running = {} /\ crossed = {}
  /\ looked = [p \in Sweepers |-> {}]
  /\ saw = [p \in Sweepers |-> {}]

Next ==
  \/ Turn
  \/ \E p \in Sweepers : \/ Start(p) \/ GiveUp(p) \/ Show(p)
                         \/ \E s \in Subjects : Look(p, s)

Spec == Init /\ [][Next]_vars

=============================================================================
