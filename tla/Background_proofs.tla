-------------------------- MODULE Background_proofs --------------------------
(***************************************************************************)
(* Theorems about the two loops that run beside the requests: AlertSweep,  *)
(* for any number of rules, sweepers and faults, and WebhookOutbox, for    *)
(* any endpoints, subscriptions and attempts.                              *)
(*                                                                         *)
(* The outbox with any number of workers: nothing is shown as delivered    *)
(* that was not, and nothing is given up before its attempts were begun.   *)
(* Neither rests on the claim's lock: a row's count only grows, so a claim *)
(* carries a count its row has reached (ClaimsCounted), and a result that  *)
(* says "ok" was seen (AcknowledgedIsReceived).                            *)
(*                                                                         *)
(* With one worker, also: what is settled stays settled, attempts stay     *)
(* within MaxAttempts and the results lost, and each wait is longer than   *)
(* the earlier ones together.  A claim in hand is then the only one of its *)
(* delivery and its row is still pending at the count it carries           *)
(* (OneInHand), and less than a third of the next wait was waited before   *)
(* (WaitedLittle).                                                         *)
(***************************************************************************)
EXTENDS AlertSweep, WebhookOutbox, Sums, TLAPS

-----------------------------------------------------------------------------
(* The alerts: their invariant. *)

\* A sweep that is not evaluating has found nothing, and one that nobody crossed
\* knows every open alert as one it has not seen.
SweepsApart ==
  /\ \A p \in Sweepers : stage[p] # "evaluate" => read[p] = 0 /\ found[p] = {}
  /\ \A p \in Evaluating : p \notin crossed => Open \subseteq stale[p]

\* What a sweep has still to mail, or has just mailed, is of the open row unless it
\* is told that it is not.
ListedStands ==
  /\ \A p \in Sweepers : \A l \in pending[p] : l.current => l.subject \in Open
  /\ \A p \in Sweepers :
       mailing[p] # NoMail /\ mailing[p].current => mailing[p].subject \in Open

\* An alert is marked by somebody who has mailed it.
MarkedByMailer ==
  \A p \in Sweepers :
    mailing[p] # NoMail /\ mailing[p].current => alert[mailing[p].subject].rounds > 0

Kept == AlertsTypeOK /\ SweepsApart /\ ListedStands

-----------------------------------------------------------------------------
(* The steps, by what they touch. *)

LEMMA NoAlertFields ==
  /\ NoAlert \in Alert
  /\ NoAlert.open = FALSE /\ NoAlert.notified = FALSE /\ NoAlert.rounds = 0
  BY DEF NoAlert, Alert

LEMMA AlertFields ==
  ASSUME NEW a \in Alert
  PROVE  /\ a.open \in BOOLEAN /\ a.acknowledged \in BOOLEAN /\ a.notified \in BOOLEAN
         /\ a.rounds \in Nat /\ a.lost \in Nat
  BY DEF Alert

LEMMA ListedFields ==
  ASSUME NEW l \in Listed
  PROVE  l.subject \in Subjects /\ l.current \in BOOLEAN /\ l # NoMail
  BY NoMailAssumption DEF Listed

\* A listed alert whose row may have been resolved.
LEMMA ListedCut ==
  ASSUME NEW l \in Listed, NEW b \in BOOLEAN, NEW m,
         m = [l EXCEPT !.current = @ /\ b]
  PROVE  m \in Listed /\ m.subject = l.subject /\ (m.current => l.current /\ b)
<1>1. m = [subject |-> l.subject, current |-> l.current /\ b]
  BY DEF Listed
<1> QED BY <1>1 DEF Listed

\* An update of one alert that leaves it open leaves the board as it is.
LEMMA SameBoard ==
  ASSUME AlertsTypeOK, NEW s \in Open, NEW a \in Alert, a.open,
         alert' = [alert EXCEPT ![s] = a]
  PROVE  /\ alert' \in [Subjects -> Alert]
         /\ Open' = Open
         /\ \A t \in Subjects \ Open' : alert'[t] = NoAlert
  BY DEF AlertsTypeOK, Open

LEMMA KeptInit == Init => Kept /\ MarkedByMailer /\ NotifiedWasMailed
<1> SUFFICES ASSUME Init PROVE Kept /\ MarkedByMailer /\ NotifiedWasMailed
  OBVIOUS
<1>1. Open = {} /\ Evaluating = {}
  BY NoAlertFields DEF Init, Open, Evaluating
<1>2. AlertsTypeOK
  BY <1>1, NoAlertFields, SweepAssumption DEF Init, AlertsTypeOK
<1>3. SweepsApart /\ ListedStands /\ MarkedByMailer
  BY <1>1 DEF Init, SweepsApart, ListedStands, MarkedByMailer
<1>4. NotifiedWasMailed
  BY NoAlertFields DEF Init, NotifiedWasMailed
<1> QED BY <1>2, <1>3, <1>4 DEF Kept

LEMMA KeptByOthers ==
  ASSUME Kept, NEW s \in Subjects, Turn(s) \/ AcknowledgeAlert(s)
  PROVE  Kept' /\ Open' = Open
<1> USE DEF Kept, SweepsApart, ListedStands, sweep, mails
<1>1. CASE Turn(s)
  BY <1>1 DEF Turn, AlertsTypeOK, Open, Evaluating
<1>2. CASE AcknowledgeAlert(s)
  <2> DEFINE a == [alert[s] EXCEPT !.acknowledged = TRUE]
  <2>1. s \in Open /\ alert' = [alert EXCEPT ![s] = a]
    BY <1>2 DEF AcknowledgeAlert
  <2>2. alert[s] \in Alert /\ alert[s].open
    BY <2>1 DEF AlertsTypeOK, Open
  <2>3. a \in Alert /\ a.open
    BY <2>2 DEF Alert
  <2> HIDE DEF a
  <2>4. /\ alert' \in [Subjects -> Alert] /\ Open' = Open
        /\ \A t \in Subjects \ Open' : alert'[t] = NoAlert
    BY <2>1, <2>3, SameBoard
  <2> QED BY <1>2, <2>4 DEF AcknowledgeAlert, AlertsTypeOK, Evaluating
<1> QED BY <1>1, <1>2

LEMMA KeptByBegin ==
  ASSUME Kept, NEW p \in Sweepers, Begin(p)
  PROVE  Kept'
<1>1. Open' = Open /\ Evaluating' = Evaluating \cup {p} /\ p \notin Evaluating
  BY DEF Kept, AlertsTypeOK, Begin, Open, Evaluating
<1>2. p \notin crossed
  BY <1>1 DEF Kept, AlertsTypeOK
<1>3. later' \in [Sweepers -> SUBSET Sweepers]
  BY DEF Kept, AlertsTypeOK, Begin
<1>4. AlertsTypeOK'
  <2>1. stage' \in [Sweepers -> {"idle", "evaluate", "notify", "mail"}]
    BY DEF Kept, AlertsTypeOK, Begin
  <2>2. /\ stale' \in [Sweepers -> SUBSET Subjects]
        /\ \A q \in Sweepers : stale'[q] \subseteq Open'
    BY <1>1 DEF Kept, AlertsTypeOK, Begin, Open
  <2> QED BY <1>1, <1>3, <2>1, <2>2 DEF Kept, AlertsTypeOK, Begin, mails
<1>5. SweepsApart'
  BY <1>1, <1>2 DEF Kept, AlertsTypeOK, SweepsApart, Begin
<1>6. ListedStands'
  BY <1>1 DEF Kept, ListedStands, Begin, mails
<1> QED BY <1>4, <1>5, <1>6 DEF Kept

LEMMA KeptByEvaluateRule ==
  ASSUME Kept, NEW p \in Sweepers, EvaluateRule(p)
  PROVE  Kept'
<1>1. Open' = Open /\ Evaluating' = Evaluating
  BY DEF EvaluateRule, Open, Evaluating
<1>2. read[p] + 1 \in 0..Rules
  BY SweepAssumption DEF Kept, AlertsTypeOK, EvaluateRule
<1>3. read' \in [Sweepers -> 0..Rules] /\ found' \in [Sweepers -> SUBSET Subjects]
  BY <1>2 DEF Kept, AlertsTypeOK, EvaluateRule
<1>4. AlertsTypeOK'
  BY <1>1, <1>3 DEF Kept, AlertsTypeOK, EvaluateRule, mails
<1>5. SweepsApart'
  BY <1>1 DEF Kept, AlertsTypeOK, SweepsApart, EvaluateRule
<1>6. ListedStands'
  BY <1>1 DEF Kept, ListedStands, EvaluateRule, mails
<1> QED BY <1>4, <1>5, <1>6 DEF Kept
LEMMA KeptByReconcile ==
  ASSUME Kept, NEW p \in Sweepers, Reconcile(p)
  PROVE  /\ Kept'
         /\ found[p] \subseteq Open'
         /\ Open' \subseteq Open \cup found[p]
         /\ p \notin crossed => Open' = found[p]
         /\ Evaluating' = Evaluating \ {p}
         /\ \A s \in Subjects : alert'[s].notified =>
              alert[s].notified /\ alert'[s].rounds = alert[s].rounds
<1> USE DEF Kept
<1>1. /\ found[p] \subseteq Subjects /\ stale[p] \subseteq Open /\ Open \subseteq Subjects
      /\ p \in Evaluating
  BY DEF AlertsTypeOK, Reconcile, Open, Evaluating
<1>2. Evaluating' = Evaluating \ {p}
  BY DEF AlertsTypeOK, Reconcile, Evaluating
<1>3. ASSUME NEW s \in Subjects
      PROVE  /\ alert'[s] \in Alert
             /\ alert'[s].open <=> s \in found[p] \/ (s \in Open /\ s \notin Untouched(p))
             /\ ~alert'[s].open => alert'[s] = NoAlert
             /\ alert'[s].notified =>
                  alert[s].notified /\ alert'[s].rounds = alert[s].rounds
  <2>0. alert[s] \in Alert
    BY DEF AlertsTypeOK
  <2>1. CASE s \in Untouched(p)
    BY <2>1, NoAlertFields DEF Reconcile, Untouched
  <2>2. CASE s \notin Untouched(p) /\ s \in found[p]
    <3>1. alert'[s] = [alert[s] EXCEPT !.open = TRUE]
      BY <2>2 DEF Reconcile, Upserted
    <3> QED BY <2>0, <2>2, <3>1 DEF Alert
  <2>3. CASE s \notin Untouched(p) /\ s \notin found[p]
    <3>1. alert'[s] = alert[s]
      BY <2>3 DEF Reconcile
    <3> QED BY <2>3, <3>1 DEF AlertsTypeOK, Open
  <2> QED BY <2>1, <2>2, <2>3
<1>4. /\ alert' \in [Subjects -> Alert]
      /\ Open' = (Open \cup found[p]) \ Untouched(p)
      /\ \A s \in Subjects \ Open' : alert'[s] = NoAlert
  <2>1. alert' \in [Subjects -> Alert]
    BY <1>3 DEF Reconcile
  <2>2. Open' = {s \in Subjects : alert'[s].open}
    BY DEF Open
  <2>3. found[p] \cap Untouched(p) = {}
    BY DEF Untouched
  <2> QED BY <1>1, <1>3, <2>1, <2>2, <2>3
<1>5. /\ stale' \in [Sweepers -> SUBSET Subjects]
      /\ \A q \in Sweepers : stale'[q] \subseteq Open'
  <2>1. ASSUME NEW q \in Sweepers
        PROVE  stale'[q] \subseteq Open' /\ stale'[q] \subseteq Subjects
    <3>1. stale[q] \subseteq Open
      BY DEF AlertsTypeOK
    <3>2. CASE q \in Evaluating \ {p}
      BY <1>1, <1>4, <3>1, <3>2 DEF Reconcile, StaleAfter
    <3>3. CASE q \notin Evaluating \ {p}
      BY <3>3 DEF Reconcile
    <3> QED BY <3>2, <3>3
  <2> QED BY <2>1 DEF Reconcile
<1>6. /\ pending' \in [Sweepers -> SUBSET Listed]
      /\ \A q \in Sweepers : \A l \in pending'[q] : l.current => l.subject \in Open'
  <2>1. ASSUME NEW q \in Sweepers, NEW m \in pending'[q]
        PROVE  m \in Listed /\ (m.current => m.subject \in Open')
    <3>1. PICK l \in pending[q] :
            m = [l EXCEPT !.current = @ /\ l.subject \notin Untouched(p)]
      BY <2>1 DEF Reconcile
    <3>2. l \in Listed
      BY DEF AlertsTypeOK
    <3>3. m \in Listed /\ m.subject = l.subject
          /\ (m.current => l.current /\ l.subject \notin Untouched(p))
      BY <3>1, <3>2, ListedCut
    <3> QED BY <1>4, <3>3 DEF ListedStands
  <2> QED BY <2>1 DEF Reconcile
<1>7. /\ mailing' \in [Sweepers -> Listed \cup {NoMail}]
      /\ \A q \in Sweepers : mailing'[q] # NoMail /\ mailing'[q].current =>
           mailing'[q].subject \in Open'
  <2>1. ASSUME NEW q \in Sweepers, mailing[q] # NoMail
        PROVE  /\ mailing'[q] \in Listed
               /\ mailing'[q].current => mailing'[q].subject \in Open'
    <3>1. PICK l \in Listed : l = mailing[q]
      BY <2>1 DEF AlertsTypeOK
    <3>2. PICK m : m = [l EXCEPT !.current = @ /\ l.subject \notin Untouched(p)]
      OBVIOUS
    <3>3. mailing'[q] = m
      BY <2>1, <3>1, <3>2 DEF Reconcile
    <3>4. l \in Listed
      BY <3>1
    <3>5. m \in Listed /\ m.subject = l.subject
          /\ (m.current => l.current /\ l.subject \notin Untouched(p))
      BY <3>2, <3>4, ListedCut
    <3> QED BY <1>4, <2>1, <3>1, <3>3, <3>5 DEF ListedStands
  <2> QED BY <2>1 DEF Reconcile
<1>8. /\ stage' \in [Sweepers -> {"idle", "evaluate", "notify", "mail"}]
      /\ read' \in [Sweepers -> 0..Rules]
      /\ found' \in [Sweepers -> SUBSET Subjects]
      /\ later' \in [Sweepers -> SUBSET Sweepers]
  BY SweepAssumption DEF AlertsTypeOK, Reconcile, Done
<1>9. AlertsTypeOK'
  <2>1. crossed' \subseteq Evaluating'
    BY <1>2 DEF Reconcile
  <2>2. truth' = truth /\ listening' = listening /\ faults' = faults
    BY DEF Reconcile
  <2> QED BY <1>4, <1>5, <1>6, <1>7, <1>8, <2>1, <2>2 DEF AlertsTypeOK
<1>10. SweepsApart'
  <2>1. \A q \in Sweepers : stage'[q] # "evaluate" => read'[q] = 0 /\ found'[q] = {}
    BY DEF AlertsTypeOK, SweepsApart, Reconcile, Done
  <2>2. crossed' = Evaluating'
    BY <1>2 DEF Reconcile
  <2> QED BY <2>1, <2>2 DEF SweepsApart
<1>11. ListedStands'
  BY <1>6, <1>7 DEF ListedStands
<1>12. p \notin crossed => Untouched(p) = Open \ found[p]
  BY <1>1 DEF SweepsApart, Untouched
<1>13. /\ found[p] \subseteq Open'
       /\ Open' \subseteq Open \cup found[p]
       /\ p \notin crossed => Open' = found[p]
  BY <1>4, <1>12 DEF Untouched
<1> QED BY <1>2, <1>3, <1>9, <1>10, <1>11, <1>13
LEMMA KeptByFail ==
  ASSUME Kept, NEW p \in Sweepers, Fail(p)
  PROVE  /\ Kept' /\ Open' = Open /\ Evaluating' = Evaluating \ {p}
         /\ \A s \in Subjects :
              /\ alert'[s].notified = alert[s].notified
              /\ alert'[s].rounds = alert[s].rounds
<1> USE DEF Kept
<1>1. Evaluating' = Evaluating \ {p}
  BY DEF AlertsTypeOK, Fail, Evaluating
<1>2. /\ alert' \in [Subjects -> Alert] /\ Open' = Open
      /\ \A t \in Subjects \ Open' : alert'[t] = NoAlert
      /\ \A s \in Subjects : /\ alert'[s].notified = alert[s].notified
                             /\ alert'[s].rounds = alert[s].rounds
  <2>1. CASE mailing[p] # NoMail /\ mailing[p].current
    <3>1. PICK s \in Open : s = mailing[p].subject
      BY <2>1 DEF ListedStands
    <3>2. PICK a : a = [alert[s] EXCEPT !.lost = @ + 1]
      OBVIOUS
    <3>3. alert' = [alert EXCEPT ![s] = a]
      BY <2>1, <3>1, <3>2 DEF Fail
    <3>4. alert[s] \in Alert /\ alert[s].open
      BY DEF AlertsTypeOK, Open
    <3>5. /\ a \in Alert /\ a.open
          /\ a.notified = alert[s].notified /\ a.rounds = alert[s].rounds
      BY <3>2, <3>4 DEF Alert
    <3>6. /\ alert' \in [Subjects -> Alert] /\ Open' = Open
          /\ \A t \in Subjects \ Open' : alert'[t] = NoAlert
      BY <3>3, <3>5, SameBoard
    <3> QED BY <3>3, <3>5, <3>6 DEF AlertsTypeOK
  <2>2. CASE ~(mailing[p] # NoMail /\ mailing[p].current)
    <3>1. alert' = alert
      BY <2>2 DEF Fail
    <3> QED BY <3>1 DEF AlertsTypeOK, Open
  <2> QED BY <2>1, <2>2
<1>3. /\ stage' \in [Sweepers -> {"idle", "evaluate", "notify", "mail"}]
      /\ read' \in [Sweepers -> 0..Rules]
      /\ found' \in [Sweepers -> SUBSET Subjects]
      /\ later' \in [Sweepers -> SUBSET Sweepers]
  BY SweepAssumption DEF AlertsTypeOK, Fail, Done
<1>4. /\ stale' \in [Sweepers -> SUBSET Subjects]
      /\ \A q \in Sweepers : stale'[q] \subseteq Open'
  BY <1>2 DEF AlertsTypeOK, Fail
<1>5. /\ pending' \in [Sweepers -> SUBSET Listed]
      /\ mailing' \in [Sweepers -> Listed \cup {NoMail}]
  BY DEF AlertsTypeOK, Fail
<1>6. crossed' \subseteq Evaluating' /\ faults' \in 0..MaxFaults
  BY <1>1, SweepAssumption DEF AlertsTypeOK, Fail
<1>7. AlertsTypeOK'
  BY <1>2, <1>3, <1>4, <1>5, <1>6 DEF AlertsTypeOK, Fail
<1>8. SweepsApart'
  BY <1>1, <1>2 DEF AlertsTypeOK, SweepsApart, Fail, Done
<1>9. ListedStands'
  BY <1>2 DEF AlertsTypeOK, ListedStands, Fail
<1> QED BY <1>1, <1>2, <1>7, <1>8, <1>9

\* The steps of notify leave the board as it is and mark nothing unmailed.
LEMMA KeptByNotify ==
  ASSUME Kept, NEW p \in Sweepers, ListPending(p) \/ End(p)
  PROVE  Kept' /\ Open' = Open /\ Evaluating' = Evaluating /\ mailing' = mailing
         /\ alert' = alert
<1> USE DEF Kept
<1>1. /\ Open' = Open /\ Evaluating' = Evaluating /\ mailing' = mailing /\ alert' = alert
      /\ stage[p] # "evaluate"
  <2>1. CASE ListPending(p)
    BY <2>1 DEF AlertsTypeOK, ListPending, Open, Evaluating
  <2>2. CASE End(p)
    BY <2>2 DEF AlertsTypeOK, End, Open, Evaluating, mails
  <2> QED BY <2>1, <2>2
<1>2. /\ pending' \in [Sweepers -> SUBSET Listed]
      /\ \A q \in Sweepers : \A l \in pending'[q] : l.current => l.subject \in Open
  <2>1. CASE pending' = pending
    BY <2>1 DEF AlertsTypeOK, ListedStands
  <2>2. CASE pending' = [pending EXCEPT ![p] = [subject : Pending, current : {TRUE}]]
    <3>1. Pending \subseteq Open /\ Pending \subseteq Subjects
      BY DEF Pending, Open
    <3>2. [subject : Pending, current : {TRUE}] \subseteq Listed
      BY <3>1 DEF Listed
    <3>3. ASSUME NEW q \in Sweepers, NEW l \in pending'[q]
          PROVE  l \in Listed /\ (l.current => l.subject \in Open)
      BY <2>2, <3>1, <3>2 DEF AlertsTypeOK, ListedStands
    <3> QED BY <2>2, <3>3 DEF AlertsTypeOK
  <2> QED BY <2>1, <2>2 DEF ListPending, End, mails
<1>3. stage' \in [Sweepers -> {"idle", "evaluate", "notify", "mail"}]
  BY DEF AlertsTypeOK, ListPending, End
<1>4. UNCHANGED <<truth, listening, read, found, stale, later, crossed, faults>>
  BY DEF ListPending, End
<1>5. AlertsTypeOK'
  BY <1>1, <1>2, <1>3, <1>4 DEF AlertsTypeOK
<1>6. SweepsApart'
  BY <1>1, <1>4 DEF SweepsApart, AlertsTypeOK, ListPending, End
<1>7. ListedStands'
  BY <1>1, <1>2 DEF ListedStands
<1> QED BY <1>1, <1>5, <1>6, <1>7

\* One alert is written, or none, and stays open.
LEMMA KeptByPost ==
  ASSUME Kept, NEW p \in Sweepers,
         UNCHANGED <<truth, listening, sweep>>,
         faults' \in 0..MaxFaults,
         Open' = Open,
         alert' \in [Subjects -> Alert],
         \A t \in Subjects \ Open' : alert'[t] = NoAlert,
         \A q \in Sweepers : pending'[q] \subseteq pending[q],
         pending' \in [Sweepers -> SUBSET Listed],
         mailing' \in [Sweepers -> Listed \cup {NoMail}],
         \A q \in Sweepers : \/ mailing'[q] \in {mailing[q], NoMail}
                             \/ mailing'[q] \in pending[q]
  PROVE  Kept'
<1> USE DEF Kept
<1>1. Evaluating' = Evaluating
  BY DEF Evaluating, sweep
<1>2. AlertsTypeOK'
  BY <1>1 DEF AlertsTypeOK, sweep
<1>3. SweepsApart'
  BY <1>1 DEF SweepsApart, sweep
<1>4. ListedStands'
  BY DEF ListedStands
<1> QED BY <1>2, <1>3, <1>4

LEMMA MailStep ==
  ASSUME Kept, MarkedByMailer, NotifiedWasMailed,
         NEW p \in Sweepers, NEW l \in Listed, NEW through \in BOOLEAN, Mail(p, l, through)
  PROVE  Kept' /\ Open' = Open /\ MarkedByMailer' /\ NotifiedWasMailed'
<1> USE DEF Kept
<1>1. l \in pending[p] /\ (l.current => l.subject \in Open)
  BY DEF Mail, ListedStands
<1>2. /\ pending' \in [Sweepers -> SUBSET Listed]
      /\ \A q \in Sweepers : pending'[q] \subseteq pending[q]
  BY DEF AlertsTypeOK, Mail
<1>3. /\ mailing' \in [Sweepers -> Listed \cup {NoMail}]
      /\ \A q \in Sweepers : \/ mailing'[q] = mailing[q]
                             \/ q = p /\ mailing'[q] = l /\ through
  BY DEF AlertsTypeOK, Mail, Sent
<1>4. /\ alert' \in [Subjects -> Alert] /\ Open' = Open
      /\ \A t \in Subjects \ Open' : alert'[t] = NoAlert
      /\ \A s \in Subjects : /\ alert'[s].notified = alert[s].notified
                             /\ alert'[s].rounds >= alert[s].rounds
      /\ l.current /\ through => alert'[l.subject].rounds > 0
  <2>1. CASE l.current /\ through
    <3>1. PICK s \in Open : s = l.subject
      BY <1>1, <2>1
    <3>2. PICK a : a = [alert[s] EXCEPT !.rounds = @ + 1]
      OBVIOUS
    <3>3. alert' = [alert EXCEPT ![s] = a]
      BY <2>1, <3>1, <3>2 DEF Mail
    <3>4. alert[s] \in Alert /\ alert[s].open
      BY DEF AlertsTypeOK, Open
    <3>5. /\ a \in Alert /\ a.open /\ a.notified = alert[s].notified
          /\ a.rounds = alert[s].rounds + 1 /\ alert[s].rounds \in Nat
      BY <3>2, <3>4 DEF Alert
    <3>6. /\ alert' \in [Subjects -> Alert] /\ Open' = Open
          /\ \A t \in Subjects \ Open' : alert'[t] = NoAlert
      BY <3>3, <3>5, SameBoard
    <3>7. \A t \in Subjects : alert[t].rounds \in Nat
      BY AlertFields DEF AlertsTypeOK
    <3>8. alert'[s] = a /\ \A t \in Subjects : t # s => alert'[t] = alert[t]
      BY <3>3 DEF AlertsTypeOK, Open
    <3> QED BY <3>1, <3>5, <3>6, <3>7, <3>8
  <2>2. CASE ~(l.current /\ through)
    <3>1. alert' = alert
      BY <2>2 DEF Mail
    <3>2. \A t \in Subjects : alert[t].rounds \in Nat
      BY AlertFields DEF AlertsTypeOK
    <3> QED BY <2>2, <3>1, <3>2 DEF AlertsTypeOK, Open
  <2> QED BY <2>1, <2>2
<1>5. Kept'
  <2>1. UNCHANGED <<truth, listening, sweep>> /\ faults' \in 0..MaxFaults
    BY DEF Mail, AlertsTypeOK
  <2> QED BY <1>1, <1>2, <1>3, <1>4, <2>1, KeptByPost
<1>6. \A t \in Subjects : alert[t].rounds \in Nat /\ alert'[t].rounds \in Nat
  BY <1>4, AlertFields DEF AlertsTypeOK
<1>7. MarkedByMailer'
  <2>1. ASSUME NEW q \in Sweepers, mailing'[q] # NoMail, mailing'[q].current
        PROVE  alert'[mailing'[q].subject].rounds > 0
    <3>1. CASE mailing'[q] = l /\ through
      BY <1>4, <2>1, <3>1
    <3>2. CASE mailing'[q] = mailing[q]
      <4>1. mailing[q] \in Listed
        BY <2>1, <3>2 DEF AlertsTypeOK
      <4>2. alert[mailing[q].subject].rounds > 0
        BY <2>1, <3>2 DEF MarkedByMailer
      <4> QED BY <1>4, <1>6, <3>2, <4>1, <4>2, ListedFields
    <3> QED BY <1>3, <3>1, <3>2
  <2> QED BY <2>1 DEF MarkedByMailer
<1>8. NotifiedWasMailed'
  BY <1>4, <1>6 DEF NotifiedWasMailed
<1> QED BY <1>4, <1>5, <1>7, <1>8

LEMMA MarkStep ==
  ASSUME Kept, MarkedByMailer, NotifiedWasMailed,
         NEW p \in Sweepers, Mark(p) \/ LoseMark(p)
  PROVE  Kept' /\ Open' = Open /\ MarkedByMailer' /\ NotifiedWasMailed'
<1> USE DEF Kept
<1>1. /\ UNCHANGED <<truth, listening, sweep, pending>> /\ faults' \in 0..MaxFaults
      /\ mailing[p] # NoMail /\ mailing' = [mailing EXCEPT ![p] = NoMail]
  BY SweepAssumption DEF Mark, LoseMark, AlertsTypeOK
<1>2. /\ alert' \in [Subjects -> Alert] /\ Open' = Open
      /\ \A t \in Subjects \ Open' : alert'[t] = NoAlert
      /\ \A s \in Subjects : /\ alert'[s].rounds = alert[s].rounds
                             /\ alert'[s].notified => alert[s].rounds > 0
  <2>1. CASE mailing[p].current
    <3>1. PICK s \in Open : s = mailing[p].subject /\ alert[s].rounds > 0
      BY <1>1, <2>1 DEF ListedStands, MarkedByMailer
    <3>2. alert[s] \in Alert /\ alert[s].open
      BY DEF AlertsTypeOK, Open
    <3>3. PICK a : /\ alert' = [alert EXCEPT ![s] = a]
                   /\ \/ a = [alert[s] EXCEPT !.notified = TRUE]
                      \/ a = [alert[s] EXCEPT !.lost = @ + 1]
      <4>1. CASE Mark(p)
        <5>1. alert' = [alert EXCEPT ![s] = [alert[s] EXCEPT !.notified = TRUE]]
          BY <2>1, <3>1, <4>1 DEF Mark
        <5> QED BY <5>1
      <4>2. CASE LoseMark(p)
        <5>1. alert' = [alert EXCEPT ![s] = [alert[s] EXCEPT !.lost = @ + 1]]
          BY <2>1, <3>1, <4>2 DEF LoseMark
        <5> QED BY <5>1
      <4> QED BY <4>1, <4>2
    <3>4. a \in Alert /\ a.open /\ a.rounds = alert[s].rounds
      <4>1. CASE a = [alert[s] EXCEPT !.notified = TRUE]
        BY <3>2, <4>1 DEF Alert
      <4>2. CASE a = [alert[s] EXCEPT !.lost = @ + 1]
        BY <3>2, <4>2 DEF Alert
      <4> QED BY <3>3, <4>1, <4>2
    <3>5. /\ alert' \in [Subjects -> Alert] /\ Open' = Open
          /\ \A t \in Subjects \ Open' : alert'[t] = NoAlert
      BY <3>3, <3>4, SameBoard
    <3>6. alert'[s] = a /\ \A t \in Subjects : t # s => alert'[t] = alert[t]
      BY <3>3 DEF AlertsTypeOK, Open
    <3> QED BY <3>1, <3>4, <3>5, <3>6 DEF NotifiedWasMailed
  <2>2. CASE ~mailing[p].current
    <3>1. alert' = alert
      BY <2>2 DEF Mark, LoseMark
    <3> QED BY <3>1 DEF AlertsTypeOK, Open, NotifiedWasMailed
  <2> QED BY <2>1, <2>2
<1>3. /\ mailing' \in [Sweepers -> Listed \cup {NoMail}]
      /\ \A q \in Sweepers : mailing'[q] \in {mailing[q], NoMail}
  BY <1>1 DEF AlertsTypeOK
<1>4. Kept'
  BY <1>1, <1>2, <1>3, KeptByPost DEF AlertsTypeOK
<1>5. MarkedByMailer'
  <2>1. ASSUME NEW q \in Sweepers, mailing'[q] # NoMail, mailing'[q].current
        PROVE  alert'[mailing'[q].subject].rounds > 0
    <3>1. mailing'[q] = mailing[q] /\ mailing[q] \in Listed
      BY <1>3, <2>1 DEF AlertsTypeOK
    <3>2. alert[mailing[q].subject].rounds > 0
      BY <2>1, <3>1 DEF MarkedByMailer
    <3> QED BY <1>2, <3>1, <3>2, ListedFields
  <2> QED BY <2>1 DEF MarkedByMailer
<1>6. NotifiedWasMailed'
  BY <1>2 DEF NotifiedWasMailed
<1> QED BY <1>2, <1>4, <1>5, <1>6
-----------------------------------------------------------------------------
(* The board *)

LEMMA OneValueChanged ==
  ASSUME NEW S, NEW f, f = [x \in S |-> f[x]], NEW g, g = [x \in S |-> g[x]],
         NEW p \in S, NEW v, g[p] = v, \A x \in S : x # p => g[x] = f[x]
  PROVE  g = [f EXCEPT ![p] = v]
  OBVIOUS

\* What the sweeps have looked at when one of them has read on, or begins again.
LEMMA LookedAt ==
  ASSUME AlertsTypeOK, NEW p \in Sweepers, NEW n \in Nat, read' = [read EXCEPT ![p] = n],
         NEW v, 1..n = v
  PROVE  [q \in Sweepers |-> 1..read'[q]] = [[q \in Sweepers |-> 1..read[q]] EXCEPT ![p] = v]
<1>1. PICK f : f = [q \in Sweepers |-> 1..read[q]]
  OBVIOUS
<1>2. PICK g : g = [q \in Sweepers |-> 1..read'[q]]
  OBVIOUS
<1>3. /\ f = [x \in Sweepers |-> f[x]] /\ g = [x \in Sweepers |-> g[x]]
      /\ g[p] = v /\ \A x \in Sweepers : x # p => g[x] = f[x]
  BY <1>1, <1>2 DEF AlertsTypeOK
<1>4. g = [f EXCEPT ![p] = v]
  BY <1>3, OneValueChanged
<1> QED BY <1>1, <1>2, <1>4

\* Every step of a sweep is one of the board's, or leaves it as it is.
LEMMA BoardStep ==
  ASSUME Kept, MarkedByMailer, NotifiedWasMailed, [Next]_vars
  PROVE  Kept' /\ [Board!Next]_(Board!vars)
<1> DEFINE lk == [p \in Sweepers |-> 1..read[p]]
<1> USE DEF Kept
<1>1. ASSUME NEW s \in Subjects, Turn(s) \/ AcknowledgeAlert(s)
      PROVE  Kept' /\ [Board!Next]_(Board!vars)
  <2>1. Kept' /\ Open' = Open
    BY <1>1, KeptByOthers
  <2>2. UNCHANGED <<Evaluating, crossed, read, found>>
    BY <1>1 DEF Turn, AcknowledgeAlert, sweep, Evaluating
  <2>3. truth' \in SUBSET Subjects
    BY <2>1 DEF AlertsTypeOK
  <2>4. Board!Turn
    BY <2>1, <2>2, <2>3 DEF Board!Turn
  <2> QED BY <2>1, <2>4 DEF Board!Next
<1>2. ASSUME NEW p \in Sweepers, Begin(p)
      PROVE  Kept' /\ [Board!Next]_(Board!vars)
  <2>1. Open' = Open /\ Evaluating' = Evaluating \cup {p} /\ p \notin Evaluating
    BY <1>2 DEF AlertsTypeOK, Begin, Open, Evaluating
  <2>2. UNCHANGED <<truth, crossed, read, found>>
    BY <1>2 DEF Begin
  <2>3. Board!Start(p)
    BY <2>1, <2>2 DEF Board!Start
  <2> QED BY <1>2, <2>3, KeptByBegin DEF Board!Next
<1>3. ASSUME NEW p \in Sweepers, EvaluateRule(p)
      PROVE  Kept' /\ [Board!Next]_(Board!vars)
  <2>1. Open' = Open /\ Evaluating' = Evaluating /\ p \in Evaluating
    BY <1>3 DEF EvaluateRule, Open, Evaluating
  <2>2. read[p] \in Nat /\ read[p] < Rules /\ read[p] + 1 \in Subjects
        /\ read' = [read EXCEPT ![p] = @ + 1]
    BY <1>3, SweepAssumption DEF AlertsTypeOK, EvaluateRule, Subjects
  <2>3. [q \in Sweepers |-> 1..read'[q]] = [lk EXCEPT ![p] = @ \cup {read[p] + 1}]
    <3>1. 1..(read[p] + 1) = lk[p] \cup {read[p] + 1} /\ read[p] + 1 \in Nat
      BY <2>2
    <3>2. read' = [read EXCEPT ![p] = read[p] + 1]
      BY <2>2
    <3> QED BY <3>1, <3>2, LookedAt, Zenon
  <2>4. read[p] + 1 \notin lk[p]
    BY <2>2
  <2>5. /\ found' = [found EXCEPT ![p] = @ \cup (truth \cap {read[p] + 1})]
        /\ truth' = truth /\ crossed' = crossed
    BY <1>3 DEF EvaluateRule
  <2>6. PICK s \in Subjects : s = read[p] + 1
    BY <2>2
  <2>7. Board!Look(p, s)
    BY <2>1, <2>3, <2>4, <2>5, <2>6 DEF Board!Look
  <2> QED BY <1>3, <2>7, KeptByEvaluateRule DEF Board!Next
<1>4. ASSUME NEW p \in Sweepers, Reconcile(p)
      PROVE  Kept' /\ [Board!Next]_(Board!vars)
  <2>1. /\ Kept' /\ found[p] \subseteq Open' /\ Open' \subseteq Open \cup found[p]
        /\ p \notin crossed => Open' = found[p]
        /\ Evaluating' = Evaluating \ {p}
    BY <1>4, KeptByReconcile
  <2>2. p \in Evaluating /\ lk[p] = Subjects
    BY <1>4 DEF Reconcile, Evaluating, Subjects
  <2>3. [q \in Sweepers |-> 1..read'[q]] = [lk EXCEPT ![p] = {}]
    <3>1. read' = [read EXCEPT ![p] = 0] /\ 1..0 = {}
      BY <1>4 DEF Reconcile, Done
    <3> QED BY <3>1, LookedAt, Zenon
  <2>4. /\ found' = [found EXCEPT ![p] = {}]
        /\ crossed' = Evaluating'
        /\ truth' = truth
    BY <1>4, <2>1 DEF Reconcile, Done
  <2>5. Board!Leave(p)
    BY <2>1, <2>3, <2>4 DEF Board!Leave
  <2>6. Board!Show(p)
    BY <2>1, <2>2, <2>4, <2>5 DEF Board!Show
  <2> QED BY <2>1, <2>6 DEF Board!Next
<1>5. ASSUME NEW p \in Sweepers, Fail(p)
      PROVE  Kept' /\ [Board!Next]_(Board!vars)
  <2>1. Kept' /\ Open' = Open /\ Evaluating' = Evaluating \ {p}
    BY <1>5, KeptByFail
  <2>2. [q \in Sweepers |-> 1..read'[q]] = [lk EXCEPT ![p] = {}]
    <3>1. read' = [read EXCEPT ![p] = 0] /\ 1..0 = {}
      BY <1>5 DEF Fail, Done
    <3> QED BY <3>1, LookedAt, Zenon
  <2>3. /\ found' = [found EXCEPT ![p] = {}]
        /\ crossed' = crossed \ {p}
        /\ truth' = truth
    BY <1>5 DEF Fail, Done
  <2>4. CASE p \in Evaluating
    <3>1. Board!Leave(p)
      BY <2>1, <2>2, <2>3 DEF Board!Leave
    <3>2. Board!GiveUp(p)
      BY <2>1, <2>3, <2>4, <3>1 DEF Board!GiveUp
    <3> QED BY <2>1, <3>2 DEF Board!Next
  <2>5. CASE p \notin Evaluating
    <3>1. read[p] = 0 /\ found[p] = {}
      BY <2>5 DEF SweepsApart, Evaluating
    <3>2. lk[p] = {}
      BY <3>1
    <3>3. found' = found /\ [q \in Sweepers |-> 1..read'[q]] = lk
      BY <2>2, <2>3, <3>1, <3>2 DEF AlertsTypeOK
    <3>4. crossed' = crossed /\ Evaluating' = Evaluating
      BY <2>1, <2>3, <2>5 DEF AlertsTypeOK
    <3> QED BY <2>1, <2>3, <3>3, <3>4 DEF Board!vars
  <2> QED BY <2>4, <2>5
<1>6. ASSUME NEW p \in Sweepers, ListPending(p) \/ End(p)
      PROVE  Kept' /\ [Board!Next]_(Board!vars)
  <2>1. Kept' /\ Open' = Open /\ Evaluating' = Evaluating
    BY <1>6, KeptByNotify
  <2>2. UNCHANGED <<truth, crossed, read, found>>
    BY <1>6 DEF ListPending, End
  <2> QED BY <2>1, <2>2 DEF Board!vars
<1>7. ASSUME NEW p \in Sweepers, NEW l \in Listed, NEW through \in BOOLEAN,
             Mail(p, l, through)
      PROVE  Kept' /\ [Board!Next]_(Board!vars)
  <2>1. Kept' /\ Open' = Open
    BY <1>7, MailStep
  <2>2. UNCHANGED <<truth, crossed, read, found, Evaluating>>
    BY <1>7 DEF Mail, sweep, Evaluating
  <2> QED BY <2>1, <2>2 DEF Board!vars
<1>8. ASSUME NEW p \in Sweepers, Mark(p) \/ LoseMark(p)
      PROVE  Kept' /\ [Board!Next]_(Board!vars)
  <2>1. Kept' /\ Open' = Open
    BY <1>8, MarkStep
  <2>2. UNCHANGED <<truth, crossed, read, found, Evaluating>>
    BY <1>8 DEF Mark, LoseMark, sweep, Evaluating
  <2> QED BY <2>1, <2>2 DEF Board!vars
<1>9. CASE UNCHANGED vars
  BY <1>9 DEF vars, sweep, mails, Board!vars, AlertsTypeOK, SweepsApart, ListedStands, Open,
              Evaluating
<1>10. CASE SetAlertEmail
  <2>1. Open' = Open /\ Kept'
    BY <1>10 DEF SetAlertEmail, AlertsTypeOK, SweepsApart, ListedStands, Open, Evaluating,
                 sweep, mails
  <2>2. UNCHANGED <<truth, crossed, read, found, Evaluating>>
    BY <1>10 DEF SetAlertEmail, sweep, Evaluating
  <2> QED BY <2>1, <2>2 DEF Board!vars
<1> QED BY <1>1, <1>2, <1>3, <1>4, <1>5, <1>6, <1>7, <1>8, <1>9, <1>10 DEF Next, Step

\* Whatever is not mailing keeps what is said of marks.
LEMMA MarkedStep ==
  ASSUME Kept, MarkedByMailer, NotifiedWasMailed, [Next]_vars
  PROVE  MarkedByMailer' /\ NotifiedWasMailed'
<1> USE DEF Kept
<1>1. ASSUME mailing' = mailing,
             \A s \in Subjects : /\ alert'[s].notified = alert[s].notified
                                 /\ alert'[s].rounds = alert[s].rounds
      PROVE  MarkedByMailer' /\ NotifiedWasMailed'
  <2>1. MarkedByMailer'
    <3>1. ASSUME NEW p \in Sweepers, mailing[p] # NoMail, mailing[p].current
          PROVE  alert'[mailing[p].subject].rounds > 0
      <4>1. mailing[p].subject \in Subjects
        BY <3>1, ListedFields DEF AlertsTypeOK
      <4> QED BY <1>1, <3>1, <4>1 DEF MarkedByMailer
    <3> QED BY <1>1, <3>1 DEF MarkedByMailer
  <2>2. NotifiedWasMailed'
    BY <1>1 DEF NotifiedWasMailed
  <2> QED BY <2>1, <2>2
<1>2. ASSUME NEW s \in Subjects, AcknowledgeAlert(s)
      PROVE  MarkedByMailer' /\ NotifiedWasMailed'
  <2>1. PICK a : a = [alert[s] EXCEPT !.acknowledged = TRUE]
    OBVIOUS
  <2>2. alert' = [alert EXCEPT ![s] = a] /\ mailing' = mailing
    BY <1>2, <2>1 DEF AcknowledgeAlert, mails
  <2>3. alert[s] \in Alert
    BY DEF AlertsTypeOK
  <2>4. a.notified = alert[s].notified /\ a.rounds = alert[s].rounds
    BY <2>1, <2>3 DEF Alert
  <2> QED BY <1>1, <2>2, <2>4 DEF AlertsTypeOK
<1>3. ASSUME NEW p \in Sweepers, Reconcile(p)
      PROVE  MarkedByMailer' /\ NotifiedWasMailed'
  <2>1. \A s \in Subjects : alert'[s].notified =>
          alert[s].notified /\ alert'[s].rounds = alert[s].rounds
    BY <1>3, KeptByReconcile
  <2>2. NotifiedWasMailed'
    BY <2>1 DEF NotifiedWasMailed
  <2>3. ASSUME NEW q \in Sweepers, mailing'[q] # NoMail, mailing'[q].current
        PROVE  alert'[mailing'[q].subject].rounds > 0
    <3>1. mailing[q] # NoMail
      BY <1>3, <2>3 DEF Reconcile
    <3>2. PICK l \in Listed : l = mailing[q]
      BY <3>1 DEF AlertsTypeOK
    <3>3. PICK m : m = [l EXCEPT !.current = @ /\ l.subject \notin Untouched(p)]
      OBVIOUS
    <3>4. mailing'[q] = m
      BY <1>3, <3>1, <3>2, <3>3 DEF Reconcile
    <3>5. l \in Listed
      BY <3>2
    <3>6. m \in Listed /\ m.subject = l.subject
          /\ (m.current => l.current /\ l.subject \notin Untouched(p))
      BY <3>3, <3>5, ListedCut
    <3>7. l.current /\ l.subject \notin Untouched(p) /\ l.subject \in Subjects
      BY <2>3, <3>4, <3>5, <3>6, ListedFields
    <3>8. PICK s \in Subjects : s = l.subject
      BY <3>7
    <3>9. alert[s].rounds > 0
      BY <3>1, <3>2, <3>7, <3>8 DEF MarkedByMailer
    <3>10. alert'[s].rounds = alert[s].rounds
      <4>1. CASE s \in found[p]
        <5>1. alert'[s] = [alert[s] EXCEPT !.open = TRUE] /\ alert[s] \in Alert
          BY <1>3, <3>7, <3>8, <4>1 DEF Reconcile, Upserted, AlertsTypeOK
        <5> QED BY <5>1 DEF Alert
      <4>2. CASE s \notin found[p]
        BY <1>3, <3>7, <3>8, <4>2 DEF Reconcile
      <4> QED BY <4>1, <4>2
    <3> QED BY <3>4, <3>6, <3>8, <3>9, <3>10
  <2> QED BY <2>2, <2>3 DEF MarkedByMailer
<1>4. ASSUME NEW p \in Sweepers, Fail(p)
      PROVE  MarkedByMailer' /\ NotifiedWasMailed'
  <2>1. /\ mailing' = [mailing EXCEPT ![p] = NoMail]
        /\ \A s \in Subjects : /\ alert'[s].notified = alert[s].notified
                               /\ alert'[s].rounds = alert[s].rounds
    BY <1>4, KeptByFail DEF Fail
  <2>2. ASSUME NEW q \in Sweepers, mailing'[q] # NoMail, mailing'[q].current
        PROVE  alert'[mailing'[q].subject].rounds > 0
    <3>1. mailing'[q] = mailing[q]
      BY <2>1, <2>2 DEF AlertsTypeOK
    <3>2. mailing[q].subject \in Subjects
      BY <2>2, <3>1, ListedFields DEF AlertsTypeOK
    <3> QED BY <2>1, <2>2, <3>1, <3>2 DEF MarkedByMailer
  <2> QED BY <2>1, <2>2 DEF MarkedByMailer, NotifiedWasMailed
<1>5. ASSUME NEW p \in Sweepers, ListPending(p) \/ End(p)
      PROVE  MarkedByMailer' /\ NotifiedWasMailed'
  BY <1>1, <1>5, KeptByNotify
<1>6. ASSUME NEW p \in Sweepers, NEW l \in Listed, NEW through \in BOOLEAN,
             Mail(p, l, through)
      PROVE  MarkedByMailer' /\ NotifiedWasMailed'
  BY <1>6, MailStep
<1>7. ASSUME NEW p \in Sweepers, Mark(p) \/ LoseMark(p)
      PROVE  MarkedByMailer' /\ NotifiedWasMailed'
  BY <1>7, MarkStep
<1>8. ASSUME NEW p \in Sweepers, Begin(p) \/ EvaluateRule(p)
      PROVE  MarkedByMailer' /\ NotifiedWasMailed'
  BY <1>1, <1>8 DEF Begin, EvaluateRule, mails
<1>9. ASSUME NEW s \in Subjects, Turn(s)
      PROVE  MarkedByMailer' /\ NotifiedWasMailed'
  BY <1>1, <1>9 DEF Turn, mails
<1>10. CASE SetAlertEmail \/ UNCHANGED vars
  BY <1>1, <1>10 DEF SetAlertEmail, vars, mails
<1> QED BY <1>2, <1>3, <1>4, <1>5, <1>6, <1>7, <1>8, <1>9, <1>10 DEF Next, Step

LEMMA Sweeps == Safety => [](Kept /\ MarkedByMailer /\ NotifiedWasMailed)
<1>1. Init => Kept /\ MarkedByMailer /\ NotifiedWasMailed
  BY KeptInit
<1>2. Kept /\ MarkedByMailer /\ NotifiedWasMailed /\ [Next]_vars
        => (Kept /\ MarkedByMailer /\ NotifiedWasMailed)'
  BY BoardStep, MarkedStep
<1> QED BY <1>1, <1>2, PTL DEF Safety

\* A mark on an alert says that somebody was told of it, with any number of sweeps
\* over each other and any of them failing anywhere.
THEOREM MarkedWasMailed == Safety => []NotifiedWasMailed
  BY Sweeps, PTL

\* The sweep keeps the promise of the board: what is shown is what a sweep saw
\* while it ran, and sweeps over each other take nothing off it that one of them saw.
THEOREM SweepShowsWhatItSaw == Safety => ShowsWhatItSaw
<1>1. Init => Board!Init
  <2>1. ASSUME Init PROVE Open = {} /\ Evaluating = {}
    BY <2>1, NoAlertFields DEF Init, Open, Evaluating
  <2>2. ASSUME Init PROVE [p \in Sweepers |-> 1..read[p]] = [p \in Sweepers |-> {}]
    BY <2>2 DEF Init
  <2> QED BY <2>1, <2>2 DEF Init, Board!Init
<1>2. Kept /\ MarkedByMailer /\ NotifiedWasMailed /\ [Next]_vars => [Board!Next]_(Board!vars)
  BY BoardStep
<1> QED BY <1>1, <1>2, Sweeps, PTL DEF Safety, ShowsWhatItSaw, Board!Spec

-----------------------------------------------------------------------------
(* How often an alert is mailed. *)

\* An open alert, as a sweep lists it.
Current(s) == [subject |-> s, current |-> TRUE]

\* The sweeps that have it still to mail, and those that have mailed it and not yet
\* marked it.
YetToMail(s) == {p \in Sweepers : Current(s) \in pending[p]}
JustMailed(s) == {p \in Sweepers : mailing[p] = Current(s)}

\* A round of mail that no mark was lost of is one of a sweep that marks it yet.  Once
\* it is marked nobody lists it again, and only those that have listed it mail it.
Within(a, P, M) ==
  IF a.notified THEN a.rounds + Cardinality(P) <= Cardinality(Sweepers) + a.lost
  ELSE a.rounds <= a.lost + Cardinality(M)

MailsCounted ==
  /\ \A p \in Sweepers : stage[p] # "mail" => mailing[p] = NoMail
  /\ \A s \in Subjects : YetToMail(s) \cap JustMailed(s) = {}
  /\ \A s \in Subjects : Within(alert[s], YetToMail(s), JustMailed(s))

\* What of an alert the count of its mails is about.
SameMails(a, b) == a.notified = b.notified /\ a.rounds = b.rounds /\ a.lost = b.lost

\* An alert before and after a step, the sweeps that have it to mail and those that
\* have mailed it: the alert is left alone, mailed, marked, a mark is lost, or it is
\* a new one.
CountMoves(a, P, M, b, Q, N) ==
  \/ SameMails(a, b) /\ N = M /\ (Q \subseteq P \/ ~a.notified)
  \/ \E p \in P \ M : /\ Q = P \ {p} /\ N = M \cup {p}
                      /\ b.notified = a.notified /\ b.lost = a.lost
                      /\ b.rounds = a.rounds + 1
  \/ \E p \in M : /\ Q = P /\ N = M \ {p}
                  /\ b.notified /\ b.rounds = a.rounds /\ b.lost = a.lost
  \/ \E p \in M : /\ Q \subseteq P /\ N = M \ {p}
                  /\ b.notified = a.notified /\ b.rounds = a.rounds /\ b.lost = a.lost + 1
  \/ ~b.notified /\ b.rounds = 0

LEMMA WithinMoves ==
  ASSUME NEW P \in SUBSET Sweepers, NEW M \in SUBSET Sweepers,
         NEW Q \in SUBSET Sweepers, NEW N \in SUBSET Sweepers,
         NEW a \in Alert, NEW b \in Alert,
         P \cap M = {}, Within(a, P, M), CountMoves(a, P, M, b, Q, N)
  PROVE  Within(b, Q, N)
<1>1. /\ a.rounds \in Nat /\ a.lost \in Nat /\ b.rounds \in Nat /\ b.lost \in Nat
      /\ a.notified \in BOOLEAN /\ b.notified \in BOOLEAN
  BY AlertFields
<1>2. /\ IsFiniteSet(P) /\ IsFiniteSet(M) /\ IsFiniteSet(Q) /\ IsFiniteSet(N)
      /\ Cardinality(Sweepers) \in Nat
  BY SweepAssumption, FS_Subset, FS_CardinalityType
<1>3. /\ Cardinality(P) \in Nat /\ Cardinality(M) \in Nat
      /\ Cardinality(Q) \in Nat /\ Cardinality(N) \in Nat
  BY <1>2, FS_CardinalityType
<1>4. Q \subseteq P => Cardinality(Q) <= Cardinality(P)
  BY <1>2, FS_Subset
<1>5. CASE SameMails(a, b) /\ N = M /\ (Q \subseteq P \/ ~a.notified)
  BY <1>1, <1>2, <1>3, <1>4, <1>5 DEF SameMails, Within
<1>6. ASSUME NEW p \in P \ M, Q = P \ {p}, N = M \cup {p},
             b.notified = a.notified, b.lost = a.lost, b.rounds = a.rounds + 1
      PROVE  Within(b, Q, N)
  <2>1. Cardinality(Q) = Cardinality(P) - 1 /\ Cardinality(N) = Cardinality(M) + 1
    BY <1>2, <1>6, FS_RemoveElement, FS_AddElement
  <2> QED BY <1>1, <1>2, <1>3, <1>6, <2>1 DEF Within
<1>7. ASSUME NEW p \in M, N = M \ {p}
      PROVE  Cardinality(N) = Cardinality(M) - 1
  BY <1>2, <1>7, FS_RemoveElement
<1>8. Cardinality(P) + Cardinality(M) <= Cardinality(Sweepers)
  <2>1. /\ IsFiniteSet(P \cup M)
        /\ Cardinality(P \cup M) = Cardinality(P) + Cardinality(M) - Cardinality({})
    BY <1>2, FS_Union
  <2>2. Cardinality(P \cup M) <= Cardinality(Sweepers)
    BY SweepAssumption, FS_Subset
  <2> QED BY <1>3, <2>1, <2>2, FS_EmptySet
<1>9. ASSUME NEW p \in M, Q = P, N = M \ {p},
             b.notified, b.rounds = a.rounds, b.lost = a.lost
      PROVE  Within(b, Q, N)
  BY <1>1, <1>2, <1>3, <1>8, <1>9 DEF Within
<1>10. ASSUME NEW p \in M, Q \subseteq P, N = M \ {p},
              b.notified = a.notified, b.rounds = a.rounds, b.lost = a.lost + 1
       PROVE  Within(b, Q, N)
  <2>1. Cardinality(N) = Cardinality(M) - 1
    BY <1>7, <1>10
  <2> QED BY <1>1, <1>2, <1>3, <1>4, <1>10, <2>1 DEF Within
<1>11. CASE ~b.notified /\ b.rounds = 0
  BY <1>1, <1>3, <1>11 DEF Within
<1> QED BY <1>5, <1>6, <1>9, <1>10, <1>11 DEF CountMoves

\* The sets the counts are of.
LEMMA SweepersOf ==
  ASSUME NEW s
  PROVE  /\ YetToMail(s) \in SUBSET Sweepers /\ JustMailed(s) \in SUBSET Sweepers
         /\ YetToMail(s)' \in SUBSET Sweepers /\ JustMailed(s)' \in SUBSET Sweepers
  BY DEF YetToMail, JustMailed

\* It is enough to know how each alert's count moves.
LEMMA CountedStep ==
  ASSUME MailsCounted, alert \in [Subjects -> Alert], alert' \in [Subjects -> Alert],
         \A p \in Sweepers : stage'[p] # "mail" => mailing'[p] = NoMail,
         \A s \in Subjects : YetToMail(s)' \cap JustMailed(s)' = {},
         \A s \in Subjects : CountMoves(alert[s], YetToMail(s), JustMailed(s),
                                        alert'[s], YetToMail(s)', JustMailed(s)')
  PROVE  MailsCounted'
<1>1. ASSUME NEW s \in Subjects
      PROVE  Within(alert'[s], YetToMail(s)', JustMailed(s)')
  BY SweepersOf, WithinMoves DEF MailsCounted
<1>2. \A s \in Subjects : Within(alert[s], YetToMail(s), JustMailed(s))'
  BY <1>1 DEF Within
<1> QED BY <1>2 DEF MailsCounted

\* Nothing is mailed or marked.
LEMMA CountedAside ==
  ASSUME Kept, Kept', MailsCounted, pending' = pending, mailing' = mailing,
         \A p \in Sweepers : stage'[p] = "mail" <=> stage[p] = "mail",
         \A s \in Subjects : SameMails(alert[s], alert'[s])
  PROVE  MailsCounted'
<1>1. \A s \in Subjects : YetToMail(s)' = YetToMail(s) /\ JustMailed(s)' = JustMailed(s)
  BY DEF YetToMail, JustMailed
<1>2. \A s \in Subjects : CountMoves(alert[s], YetToMail(s), JustMailed(s),
                                     alert'[s], YetToMail(s)', JustMailed(s)')
  BY <1>1 DEF CountMoves
<1>3. \A s \in Subjects : YetToMail(s)' \cap JustMailed(s)' = {}
  BY <1>1 DEF MailsCounted
<1>4. \A p \in Sweepers : stage'[p] # "mail" => mailing'[p] = NoMail
  BY DEF MailsCounted
<1> QED BY <1>2, <1>3, <1>4, CountedStep DEF Kept, AlertsTypeOK

LEMMA CurrentFields ==
  /\ \A s \in Subjects : /\ Current(s).subject = s /\ Current(s).current
                         /\ Current(s) # NoMail
  /\ \A l \in Listed : \A s \in Subjects : l = Current(s) <=> l.current /\ l.subject = s
<1>1. ASSUME NEW s \in Subjects
      PROVE  Current(s) \in Listed /\ Current(s).subject = s /\ Current(s).current
  BY DEF Current, Listed
<1>2. ASSUME NEW l \in Listed, NEW s \in Subjects
      PROVE  l = Current(s) <=> l.current /\ l.subject = s
  <2>1. l = [subject |-> l.subject, current |-> l.current] /\ l.current \in BOOLEAN
    BY DEF Listed
  <2> QED BY <2>1 DEF Current
<1> QED BY <1>1, <1>2, ListedFields

LEMMA CountedByMail ==
  ASSUME Kept, Kept', MailsCounted,
         NEW p \in Sweepers, NEW l \in Listed, NEW through \in BOOLEAN, Mail(p, l, through)
  PROVE  MailsCounted'
<1>1. /\ l \in pending[p] /\ mailing[p] = NoMail /\ stage[p] = "mail" /\ stage' = stage
      /\ pending' = [pending EXCEPT ![p] = @ \ {l}]
      /\ mailing' = IF through THEN [mailing EXCEPT ![p] = l] ELSE mailing
  BY DEF Mail, Sent, sweep
<1>2. \A s \in Subjects : YetToMail(s)' =
        IF l = Current(s) THEN YetToMail(s) \ {p} ELSE YetToMail(s)
  BY <1>1 DEF YetToMail, Kept, AlertsTypeOK
<1>3. \A s \in Subjects : JustMailed(s)' =
        IF l = Current(s) /\ through THEN JustMailed(s) \cup {p} ELSE JustMailed(s)
  BY <1>1, CurrentFields DEF JustMailed, Kept, AlertsTypeOK
<1>4. \A s \in Subjects : l = Current(s) => p \in YetToMail(s) \ JustMailed(s)
  BY <1>1, CurrentFields DEF JustMailed, YetToMail
<1>5. ASSUME NEW s \in Subjects
      PROVE  CountMoves(alert[s], YetToMail(s), JustMailed(s),
                        alert'[s], YetToMail(s)', JustMailed(s)')
  <2>1. CASE l = Current(s) /\ through
    <3>1. alert' = [alert EXCEPT ![s] = [alert[s] EXCEPT !.rounds = @ + 1]]
      BY <2>1, CurrentFields DEF Mail
    <3>2. alert'[s] = [alert[s] EXCEPT !.rounds = @ + 1] /\ alert[s] \in Alert
      BY <3>1 DEF Kept, AlertsTypeOK
    <3>3. /\ alert'[s].notified = alert[s].notified /\ alert'[s].lost = alert[s].lost
          /\ alert'[s].rounds = alert[s].rounds + 1
      BY <3>2 DEF Alert
    <3> QED BY <1>2, <1>3, <1>4, <2>1, <3>3 DEF CountMoves
  <2>2. CASE ~(l = Current(s) /\ through)
    <3>1. alert'[s] = alert[s]
      <4>1. CASE ~(l.current /\ through)
        BY <4>1 DEF Mail
      <4>2. CASE l.current /\ through
        <5>1. l.subject # s
          BY <2>2, <4>2, CurrentFields
        <5> QED BY <4>2, <5>1 DEF Mail, Kept, AlertsTypeOK
      <4> QED BY <4>1, <4>2
    <3>2. YetToMail(s)' \subseteq YetToMail(s) /\ JustMailed(s)' = JustMailed(s)
      BY <1>2, <1>3, <2>2
    <3> QED BY <3>1, <3>2 DEF CountMoves, SameMails
  <2> QED BY <2>1, <2>2
<1>6. \A s \in Subjects : YetToMail(s)' \cap JustMailed(s)' = {}
  BY <1>2, <1>3 DEF MailsCounted
<1>7. \A q \in Sweepers : stage'[q] # "mail" => mailing'[q] = NoMail
  BY <1>1 DEF MailsCounted, Kept, AlertsTypeOK
<1> QED BY <1>5, <1>6, <1>7, CountedStep DEF Kept, AlertsTypeOK

\* A mark, or the loss of one, whether it was its call or the sweep that failed.
LEMMA CountedByMark ==
  ASSUME Kept, Kept', MailsCounted, NEW p \in Sweepers, Mark(p) \/ LoseMark(p) \/ Fail(p)
  PROVE  MailsCounted'
<1>1. /\ mailing' = [mailing EXCEPT ![p] = NoMail]
      /\ \A q \in Sweepers : pending'[q] \subseteq pending[q]
      /\ ~Fail(p) => pending' = pending
      /\ \A q \in Sweepers : q # p => stage'[q] = stage[q]
  BY DEF Mark, LoseMark, Fail, sweep, Kept, AlertsTypeOK
<1>2. \A s \in Subjects : /\ YetToMail(s)' \subseteq YetToMail(s)
                          /\ ~Fail(p) => YetToMail(s)' = YetToMail(s)
  BY <1>1 DEF YetToMail
<1>3. \A s \in Subjects : JustMailed(s)' = JustMailed(s) \ {p}
  BY <1>1, CurrentFields DEF JustMailed, Kept, AlertsTypeOK
<1>4. ASSUME NEW s \in Subjects
      PROVE  CountMoves(alert[s], YetToMail(s), JustMailed(s),
                        alert'[s], YetToMail(s)', JustMailed(s)')
  <2>0. alert[s] \in Alert
    BY DEF Kept, AlertsTypeOK
  <2>1. CASE mailing[p] = Current(s)
    <3>1. p \in JustMailed(s) /\ mailing[p] # NoMail /\ mailing[p].current
          /\ mailing[p].subject = s
      BY <2>1, CurrentFields DEF JustMailed
    <3>2. CASE Mark(p)
      <4>1. alert'[s] = [alert[s] EXCEPT !.notified = TRUE]
        BY <3>1, <3>2 DEF Mark, Kept, AlertsTypeOK
      <4>2. alert'[s].notified /\ alert'[s].rounds = alert[s].rounds
            /\ alert'[s].lost = alert[s].lost
        BY <2>0, <4>1 DEF Alert
      <4>3. YetToMail(s)' = YetToMail(s)
        BY <1>1, <3>2 DEF Mark, YetToMail
      <4> QED BY <1>3, <3>1, <4>2, <4>3 DEF CountMoves
    <3>3. CASE LoseMark(p) \/ Fail(p)
      <4>1. alert'[s] = [alert[s] EXCEPT !.lost = @ + 1]
        BY <3>1, <3>3 DEF LoseMark, Fail, Kept, AlertsTypeOK
      <4>2. alert'[s].notified = alert[s].notified /\ alert'[s].rounds = alert[s].rounds
            /\ alert'[s].lost = alert[s].lost + 1
        BY <2>0, <4>1 DEF Alert
      <4> QED BY <1>2, <1>3, <3>1, <4>2 DEF CountMoves
    <3> QED BY <3>2, <3>3
  <2>2. CASE mailing[p] # Current(s)
    <3>1. alert'[s] = alert[s]
      <4>1. CASE mailing[p] # NoMail /\ mailing[p].current
        <5>1. mailing[p] \in Listed
          BY <4>1 DEF Kept, AlertsTypeOK
        <5>2. mailing[p].subject # s
          BY <2>2, <4>1, <5>1, CurrentFields
        <5> QED BY <4>1, <5>2 DEF Mark, LoseMark, Fail, Kept, AlertsTypeOK
      <4>2. CASE ~(mailing[p] # NoMail /\ mailing[p].current)
        BY <4>2 DEF Mark, LoseMark, Fail
      <4> QED BY <4>1, <4>2
    <3>2. p \notin JustMailed(s)
      BY <2>2 DEF JustMailed
    <3> QED BY <1>2, <1>3, <3>1, <3>2 DEF CountMoves, SameMails
  <2> QED BY <2>1, <2>2
<1>5. \A s \in Subjects : YetToMail(s)' \cap JustMailed(s)' = {}
  BY <1>2, <1>3 DEF MailsCounted
<1>6. \A q \in Sweepers : stage'[q] # "mail" => mailing'[q] = NoMail
  BY <1>1 DEF MailsCounted, Kept, AlertsTypeOK
<1> QED BY <1>4, <1>5, <1>6, CountedStep DEF Kept, AlertsTypeOK

\* Only what is not marked is listed.
LEMMA CountedByList ==
  ASSUME Kept, Kept', MailsCounted, NEW p \in Sweepers, ListPending(p) \/ End(p)
  PROVE  MailsCounted'
<1>1. alert' = alert /\ mailing' = mailing /\ mailing[p] = NoMail
  <2>1. mailing[p] = NoMail
    BY DEF ListPending, End, MailsCounted
  <2> QED BY <2>1 DEF ListPending, End, mails
<1>2. \A s \in Subjects : JustMailed(s)' = JustMailed(s) /\ p \notin JustMailed(s)
  BY <1>1, CurrentFields DEF JustMailed
<1>3. ASSUME NEW q \in Sweepers, NEW s \in Subjects, Current(s) \in pending'[q]
      PROVE  Current(s) \in pending[q] \/ (q = p /\ ~alert[s].notified)
  <2>1. CASE pending' = pending
    BY <1>3, <2>1
  <2>2. CASE pending' = [pending EXCEPT ![p] = [subject : Pending, current : {TRUE}]]
    <3>1. CASE q = p
      <4>1. Current(s) \in [subject : Pending, current : {TRUE}]
        BY <1>3, <2>2, <3>1 DEF Kept, AlertsTypeOK
      <4>2. Current(s).subject \in Pending
        BY <4>1
      <4> QED BY <3>1, <4>2, CurrentFields DEF Pending
    <3>2. CASE q # p
      BY <1>3, <2>2, <3>2 DEF Kept, AlertsTypeOK
    <3> QED BY <3>1, <3>2
  <2> QED BY <2>1, <2>2 DEF ListPending, End, mails
<1>4. \A s \in Subjects : /\ YetToMail(s)' \subseteq YetToMail(s) \cup {p}
                          /\ YetToMail(s)' \subseteq YetToMail(s) \/ ~alert[s].notified
  BY <1>3 DEF YetToMail
<1>5. \A s \in Subjects : CountMoves(alert[s], YetToMail(s), JustMailed(s),
                                     alert'[s], YetToMail(s)', JustMailed(s)')
  BY <1>1, <1>2, <1>4 DEF CountMoves, SameMails
<1>6. \A s \in Subjects : YetToMail(s)' \cap JustMailed(s)' = {}
  BY <1>2, <1>4 DEF MailsCounted
<1>7. \A q \in Sweepers : stage'[q] # "mail" => mailing'[q] = NoMail
  BY <1>1 DEF MailsCounted, ListPending, End, Kept, AlertsTypeOK
<1> QED BY <1>5, <1>6, <1>7, CountedStep DEF Kept, AlertsTypeOK

\* What is resolved is nobody's to mail; what opens again has not been mailed.
LEMMA CountedByReconcile ==
  ASSUME Kept, Kept', MailsCounted, NEW p \in Sweepers, Reconcile(p)
  PROVE  MailsCounted'
<1>1. ASSUME NEW l \in Listed, NEW m, NEW s \in Subjects,
             m = [l EXCEPT !.current = @ /\ l.subject \notin Untouched(p)]
      PROVE  m = Current(s) <=> l = Current(s) /\ s \notin Untouched(p)
  <2>1. /\ m \in Listed /\ m.subject = l.subject
        /\ m.current <=> l.current /\ l.subject \notin Untouched(p)
    <3>1. m = [subject |-> l.subject, current |-> l.current /\ l.subject \notin Untouched(p)]
      BY <1>1 DEF Listed
    <3> QED BY <3>1 DEF Listed
  <2> QED BY <2>1, CurrentFields
<1>2. \A q \in Sweepers : \A s \in Subjects :
        Current(s) \in pending'[q] <=> Current(s) \in pending[q] /\ s \notin Untouched(p)
  <2>1. ASSUME NEW q \in Sweepers, NEW s \in Subjects, Current(s) \in pending'[q]
        PROVE  Current(s) \in pending[q] /\ s \notin Untouched(p)
    <3>1. PICK l \in pending[q] :
            Current(s) = [l EXCEPT !.current = @ /\ l.subject \notin Untouched(p)]
      BY <2>1 DEF Reconcile
    <3>2. l \in Listed
      BY DEF Kept, AlertsTypeOK
    <3> QED BY <1>1, <3>1, <3>2
  <2>2. ASSUME NEW q \in Sweepers, NEW s \in Subjects, Current(s) \in pending[q],
               s \notin Untouched(p)
        PROVE  Current(s) \in pending'[q]
    <3>1. Current(s) \in Listed
      BY <2>2 DEF Kept, AlertsTypeOK
    <3>2. PICK l \in pending[q] : l = Current(s) /\ l \in Listed
      BY <2>2, <3>1
    <3>3. PICK m : m = [l EXCEPT !.current = @ /\ l.subject \notin Untouched(p)]
      OBVIOUS
    <3>4. m \in pending'[q]
      BY <3>3 DEF Reconcile
    <3> QED BY <1>1, <2>2, <3>2, <3>3, <3>4
  <2> QED BY <2>1, <2>2
<1>3. \A q \in Sweepers : \A s \in Subjects :
        mailing'[q] = Current(s) <=> mailing[q] = Current(s) /\ s \notin Untouched(p)
  <2>1. ASSUME NEW q \in Sweepers, NEW s \in Subjects, mailing[q] # NoMail
        PROVE  mailing'[q] = Current(s) <=> mailing[q] = Current(s) /\ s \notin Untouched(p)
    <3>1. PICK l \in Listed : l = mailing[q]
      BY <2>1 DEF Kept, AlertsTypeOK
    <3>2. PICK m : m = [l EXCEPT !.current = @ /\ l.subject \notin Untouched(p)]
      OBVIOUS
    <3>3. mailing'[q] = m
      BY <2>1, <3>1, <3>2 DEF Reconcile
    <3> QED BY <1>1, <3>1, <3>2, <3>3
  <2>2. ASSUME NEW q \in Sweepers, mailing[q] = NoMail
        PROVE  mailing'[q] = NoMail
    BY <2>2 DEF Reconcile
  <2> QED BY <2>1, <2>2, CurrentFields
<1>4. \A s \in Subjects : s \notin Untouched(p) =>
        YetToMail(s)' = YetToMail(s) /\ JustMailed(s)' = JustMailed(s)
  BY <1>2, <1>3 DEF YetToMail, JustMailed
<1>5. \A s \in Subjects : YetToMail(s)' \subseteq YetToMail(s)
                          /\ JustMailed(s)' \subseteq JustMailed(s)
  BY <1>2, <1>3 DEF YetToMail, JustMailed
<1>6. ASSUME NEW s \in Subjects
      PROVE  CountMoves(alert[s], YetToMail(s), JustMailed(s),
                        alert'[s], YetToMail(s)', JustMailed(s)')
  <2>1. CASE s \in Untouched(p)
    BY <2>1, NoAlertFields DEF Reconcile, CountMoves
  <2>2. CASE s \notin Untouched(p) /\ s \in found[p]
    <3>1. alert'[s] = [alert[s] EXCEPT !.open = TRUE] /\ alert[s] \in Alert
      BY <2>2 DEF Reconcile, Upserted, Kept, AlertsTypeOK
    <3>2. SameMails(alert[s], alert'[s])
      BY <3>1 DEF Alert, SameMails
    <3> QED BY <1>4, <2>2, <3>2 DEF CountMoves
  <2>3. CASE s \notin Untouched(p) /\ s \notin found[p]
    BY <1>4, <2>3 DEF Reconcile, CountMoves, SameMails
  <2> QED BY <2>1, <2>2, <2>3
<1>7. \A s \in Subjects : YetToMail(s)' \cap JustMailed(s)' = {}
  BY <1>5 DEF MailsCounted
<1>8. \A q \in Sweepers : stage'[q] # "mail" => mailing'[q] = NoMail
  <2>1. stage[p] # "mail" /\ stage' = [stage EXCEPT ![p] = "notify"]
    BY DEF Reconcile
  <2>2. \A q \in Sweepers : mailing[q] = NoMail => mailing'[q] = NoMail
    BY DEF Reconcile
  <2> QED BY <2>1, <2>2 DEF MailsCounted, Kept, AlertsTypeOK
<1> QED BY <1>6, <1>7, <1>8, CountedStep DEF Kept, AlertsTypeOK

LEMMA CountedNext ==
  ASSUME Kept, Kept', MailsCounted, [Next]_vars
  PROVE  MailsCounted'
<1>1. ASSUME NEW s \in Subjects, AcknowledgeAlert(s)
      PROVE  MailsCounted'
  <2>1. \A t \in Subjects : SameMails(alert[t], alert'[t])
    <3>1. ASSUME NEW t \in Subjects PROVE SameMails(alert[t], alert'[t])
      <4>1. alert[t] \in Alert
        BY DEF Kept, AlertsTypeOK
      <4>2. alert'[t] \in {alert[t], [alert[t] EXCEPT !.acknowledged = TRUE]}
        BY <1>1 DEF AcknowledgeAlert, Kept, AlertsTypeOK
      <4> QED BY <4>1, <4>2 DEF Alert, SameMails
    <3> QED BY <3>1
  <2>2. UNCHANGED <<pending, mailing, stage>>
    BY <1>1 DEF AcknowledgeAlert, sweep, mails
  <2> QED BY <2>1, <2>2, CountedAside
<1>2. ASSUME NEW p \in Sweepers, Begin(p) \/ EvaluateRule(p)
      PROVE  MailsCounted'
  <2>1. UNCHANGED <<pending, mailing, alert>>
    BY <1>2 DEF Begin, EvaluateRule, mails
  <2>2. \A q \in Sweepers : stage'[q] = "mail" <=> stage[q] = "mail"
    BY <1>2 DEF Begin, EvaluateRule, Kept, AlertsTypeOK
  <2> QED BY <2>1, <2>2, CountedAside DEF SameMails
<1>3. ASSUME NEW s \in Subjects, Turn(s)
      PROVE  MailsCounted'
  BY <1>3, CountedAside DEF Turn, sweep, mails, SameMails
<1>4. CASE SetAlertEmail \/ UNCHANGED vars
  BY <1>4, CountedAside DEF SetAlertEmail, vars, sweep, mails, SameMails
<1> QED BY <1>1, <1>2, <1>3, <1>4, CountedByMail, CountedByMark, CountedByList,
           CountedByReconcile DEF Next, Step

\* A sweeper mails an alert once, and once more for every mark that was lost: with any
\* number of sweeps over each other, and any of them failing anywhere.
THEOREM AlertsMailedOnce == Safety => []MailedOnce
<1>1. Init => MailsCounted
  <2> SUFFICES ASSUME Init PROVE MailsCounted
    OBVIOUS
  <2>1. \A s \in Subjects : YetToMail(s) = {} /\ JustMailed(s) = {}
    BY CurrentFields DEF Init, YetToMail, JustMailed
  <2>2. \A s \in Subjects : Within(alert[s], {}, {})
    BY NoAlertFields, FS_EmptySet DEF Init, Within, NoAlert
  <2>3. \A s \in Subjects : Within(alert[s], YetToMail(s), JustMailed(s))
    BY <2>1, <2>2
  <2> QED BY <2>1, <2>3 DEF Init, MailsCounted
<1>2. MailsCounted /\ [Next]_vars /\ Kept /\ Kept' => MailsCounted'
  BY CountedNext
<1>3. Kept /\ MailsCounted => MailedOnce
  <2> SUFFICES ASSUME Kept, MailsCounted, NEW s \in Subjects
               PROVE  alert[s].rounds <= Cardinality(Sweepers) + alert[s].lost
    BY DEF MailedOnce
  <2>1. alert[s].rounds \in Nat /\ alert[s].lost \in Nat /\ alert[s].notified \in BOOLEAN
    BY AlertFields DEF Kept, AlertsTypeOK
  <2>2. YetToMail(s) \in SUBSET Sweepers /\ JustMailed(s) \in SUBSET Sweepers
    BY SweepersOf
  <2>3. /\ Cardinality(Sweepers) \in Nat /\ Cardinality(YetToMail(s)) \in Nat
        /\ Cardinality(JustMailed(s)) \in Nat
        /\ Cardinality(JustMailed(s)) <= Cardinality(Sweepers)
    BY <2>2, SweepAssumption, FS_CardinalityType, FS_Subset
  <2>4. Within(alert[s], YetToMail(s), JustMailed(s))
    BY DEF MailsCounted
  <2> QED BY <2>1, <2>3, <2>4 DEF Within
<1> QED BY <1>1, <1>2, <1>3, Sweeps, PTL DEF Safety

-----------------------------------------------------------------------------
(* The outbox: what every number of workers keeps. *)

\* The claims a worker has taken and not yet recorded.
Carried(w) == {c \in Claims : c \in batch[w] \/ (post[w] # NoPost /\ post[w].claim = c)}

\* A 2xx was answered by an endpoint that took the delivery in.
AcknowledgedIsReceived ==
  \A w \in Workers : post[w] # NoPost /\ post[w].answer = "ok" =>
    post[w].claim.delivery \in received

UnsealableIsRefused ==
  \A w \in Workers : post[w] # NoPost /\ post[w].answer = "unsealable" =>
    post[w].claim.delivery[2] \in Unsealable

\* The count a claim carries was reached by its row.
ClaimsCounted ==
  \A w \in Workers : \A c \in Carried(w) :
    1 <= c.attempts /\ c.attempts <= row[c.delivery].attempts

\* A row not yet written has no attempts behind it.
FreshRows ==
  \A d \in Subscriptions :
    row[d].status = "none" /\ endpoint[d[2]] # "deleted" => row[d].attempts = 0

OutboxInv ==
  /\ OutboxTypeOK
  /\ NoFalseDelivery
  /\ NothingGivenUpEarly
  /\ AcknowledgedIsReceived
  /\ UnsealableIsRefused
  /\ ClaimsCounted
  /\ FreshRows

-----------------------------------------------------------------------------
(* The waits. *)

\* The waits up to the m-th.
WaitsTo(g, m) == g = [i \in 0..m |-> IF i <= 1 THEN 30 ELSE 4 * g[i - 1]]

\* They are the same however far they are taken.
LEMMA WaitsToAgree ==
  ASSUME NEW m \in Nat, NEW k \in Nat, NEW g, NEW h, WaitsTo(g, m), WaitsTo(h, k)
  PROVE  \A n \in Nat : n <= m /\ n <= k => g[n] = h[n]
<1> DEFINE Q == {n \in Nat : n <= m /\ n <= k => g[n] = h[n]}
<1>1. ASSUME NEW n \in Nat, n <= m, n <= k
      PROVE  /\ g[n] = IF n <= 1 THEN 30 ELSE 4 * g[n - 1]
             /\ h[n] = IF n <= 1 THEN 30 ELSE 4 * h[n - 1]
  BY <1>1 DEF WaitsTo
<1>2. 0 \in Q
  BY <1>1
<1>3. ASSUME NEW n \in Nat, n \in Q PROVE n + 1 \in Q
  <2>1. SUFFICES ASSUME n + 1 <= m, n + 1 <= k PROVE g[n + 1] = h[n + 1]
    OBVIOUS
  <2>2. g[n] = h[n] /\ (n + 1) - 1 = n
    BY <1>3, <2>1
  <2> QED BY <1>1, <2>1, <2>2
<1> HIDE DEF Q
<1>4. \A n \in Nat : n \in Q
  BY <1>2, <1>3, CountingUp
<1> QED BY <1>4 DEF Q

LEMMA WaitsToExist ==
  \A m \in Nat : \E g : WaitsTo(g, m)
<1> DEFINE Q == {m \in Nat : \E g : WaitsTo(g, m)}
<1>1. 0 \in Q
  <2> DEFINE g == [i \in 0..0 |-> 30]
  <2>1. WaitsTo(g, 0)
    BY DEF WaitsTo
  <2> HIDE DEF g
  <2> QED BY <2>1
<1>2. ASSUME NEW m \in Nat, m \in Q PROVE m + 1 \in Q
  <2>1. PICK g : WaitsTo(g, m)
    BY <1>2
  <2>2. \A i \in 0..m : g[i] = IF i <= 1 THEN 30 ELSE 4 * g[i - 1]
    BY <2>1 DEF WaitsTo
  <2>3. PICK h : h = [i \in 0..(m + 1) |-> IF i <= 1 THEN 30 ELSE 4 * g[i - 1]]
    OBVIOUS
  <2>4. \A i \in 0..m : h[i] = g[i]
    BY <2>2, <2>3
  <2>5. \A i \in 0..(m + 1) : ~(i <= 1) => h[i - 1] = g[i - 1]
    <3>1. \A i \in 0..(m + 1) : ~(i <= 1) => i - 1 \in 0..m
      OBVIOUS
    <3> QED BY <2>4, <3>1
  <2>6. WaitsTo(h, m + 1)
    BY <2>3, <2>5 DEF WaitsTo
  <2> QED BY <2>6
<1> HIDE DEF Q
<1>3. \A m \in Nat : m \in Q
  BY <1>1, <1>2, CountingUp
<1> QED BY <1>3 DEF Q

\* Every wait is four of the one before.
LEMMA WaitStep ==
  \A n \in Nat : Wait[n] = IF n <= 1 THEN 30 ELSE 4 * Wait[n - 1]
<1> DEFINE G(n) == CHOOSE g : WaitsTo(g, n)
           w == [n \in Nat |-> G(n)[n]]
<1>1. \A n \in Nat : WaitsTo(G(n), n)
  BY WaitsToExist
<1> HIDE DEF G
<1>2. ASSUME NEW n \in Nat
      PROVE  w[n] = IF n <= 1 THEN 30 ELSE 4 * w[n - 1]
  <2>1. G(n)[n] = IF n <= 1 THEN 30 ELSE 4 * G(n)[n - 1]
    BY <1>1 DEF WaitsTo
  <2>2. ASSUME ~(n <= 1) PROVE G(n)[n - 1] = G(n - 1)[n - 1] /\ n - 1 \in Nat
    <3>1. n - 1 \in Nat /\ n - 1 <= n /\ n - 1 <= n - 1
      BY <2>2
    <3> QED BY <1>1, <3>1, WaitsToAgree
  <2> QED BY <2>1, <2>2
<1> HIDE DEF w
<1>3. w = [n \in Nat |-> IF n <= 1 THEN 30 ELSE 4 * w[n - 1]]
  <2>1. w = [n \in Nat |-> w[n]]
    BY DEF w
  <2>2. [n \in Nat |-> w[n]] = [n \in Nat |-> IF n <= 1 THEN 30 ELSE 4 * w[n - 1]]
    BY <1>2
  <2> QED BY <2>1, <2>2
<1>4. Wait = [n \in Nat |-> IF n <= 1 THEN 30 ELSE 4 * Wait[n - 1]]
  BY <1>3 DEF Wait
<1> QED BY <1>4

LEMMA DelayGrows ==
  \A n \in Nat : /\ Delay(n) \in Nat /\ Delay(n) >= 30
                 /\ n >= 1 => Delay(n + 1) = 4 * Delay(n)
                 /\ Delay(n) <= Delay(n + 1)
<1> DEFINE Q == {n \in Nat : Wait[n] \in Nat /\ Wait[n] >= 30}
<1>1. \A n \in Nat : n + 1 \in Nat /\ (n >= 1 => ~(n + 1 <= 1)) /\ (n + 1) - 1 = n
  OBVIOUS
<1>2. \A n \in Nat : n >= 1 => Wait[n + 1] = 4 * Wait[n]
  BY <1>1, WaitStep
<1>3. Wait[0] = 30 /\ Wait[1] = 30
  BY WaitStep
<1>4. 0 \in Q
  BY <1>3
<1>5. ASSUME NEW n \in Nat, n \in Q PROVE n + 1 \in Q
  BY <1>2, <1>3, <1>5
<1> HIDE DEF Q
<1>6. \A n \in Nat : n \in Q
  BY <1>4, <1>5, CountingUp
<1>7. \A n \in Nat : Wait[n] \in Nat /\ Wait[n] >= 30
  BY <1>6 DEF Q
<1>8. \A n \in Nat : Wait[n] <= Wait[n + 1]
  BY <1>2, <1>3, <1>7
<1> QED BY <1>2, <1>7, <1>8 DEF Delay

-----------------------------------------------------------------------------
(* The steps of the outbox. *)

LEMMA OutboxInvInit == OutboxInit => OutboxInv
<1> SUFFICES ASSUME OutboxInit PROVE OutboxInv
  OBVIOUS
<1>1. OutboxTypeOK
  BY OutboxAssumption DEF OutboxInit, OutboxTypeOK, Row
<1>2. NoFalseDelivery /\ NothingGivenUpEarly /\ FreshRows
  BY DEF OutboxInit, NoFalseDelivery, NothingGivenUpEarly, FreshRows
<1>3. AcknowledgedIsReceived /\ UnsealableIsRefused /\ ClaimsCounted
  BY DEF OutboxInit, AcknowledgedIsReceived, UnsealableIsRefused, ClaimsCounted, Carried
<1>4. QED
  BY <1>1, <1>2, <1>3 DEF OutboxInv

\* A row that is written or claimed keeps its promises: what the steps that
\* leave the workers' hands alone have to show.
LEMMA HandsUntouched ==
  ASSUME OutboxInv, OutboxTypeOK', UNCHANGED <<batch, post, received>>,
         \A d \in Subscriptions : row'[d].attempts >= row[d].attempts
  PROVE  AcknowledgedIsReceived' /\ UnsealableIsRefused' /\ ClaimsCounted'
<1>1. AcknowledgedIsReceived' /\ UnsealableIsRefused'
  BY DEF OutboxInv, AcknowledgedIsReceived, UnsealableIsRefused
<1>2. ASSUME NEW w \in Workers, NEW c \in Carried(w)'
      PROVE  1 <= c.attempts /\ c.attempts <= row'[c.delivery].attempts
  <2>1. c \in Carried(w) /\ c.delivery \in Subscriptions /\ c.attempts \in Nat
    BY <1>2 DEF Carried, Claims
  <2>2. row[c.delivery].attempts \in Nat /\ row'[c.delivery].attempts \in Nat
    BY <2>1 DEF OutboxInv, OutboxTypeOK, Row
  <2>3. QED
    BY <1>2, <2>1, <2>2 DEF OutboxInv, ClaimsCounted
<1>3. QED
  BY <1>1, <1>2 DEF ClaimsCounted

LEMMA EnqueueKeeps ==
  ASSUME OutboxInv, NEW event, EnqueueWebhookDelivery(event)
  PROVE  OutboxInv'
<1> USE DEF EnqueueWebhookDelivery
<1>1. OutboxTypeOK'
  BY DEF OutboxInv, OutboxTypeOK, Row
<1>2. ASSUME NEW d \in Subscriptions
      PROVE  \/ row'[d] = row[d]
             \/ /\ row'[d].status = "pending" /\ row'[d].attempts = 0
                /\ row[d].attempts = 0
  BY <1>2 DEF OutboxInv, FreshRows, Enabled
<1>3. NoFalseDelivery' /\ NothingGivenUpEarly' /\ FreshRows'
  BY <1>2 DEF OutboxInv, NoFalseDelivery, NothingGivenUpEarly, FreshRows
<1>4. \A d \in Subscriptions : row'[d].attempts >= row[d].attempts
  BY <1>2 DEF OutboxInv, OutboxTypeOK, Row
<1>5. QED
  BY <1>1, <1>3, <1>4, HandsUntouched DEF OutboxInv

LEMMA EndpointStepsKeep ==
  ASSUME OutboxInv, NEW e \in Endpoints,
         SetWebhookEndpointEnabled(e) \/ DeleteWebhookEndpoint(e)
  PROVE  OutboxInv'
<1> USE DEF SetWebhookEndpointEnabled, DeleteWebhookEndpoint
<1>1. OutboxTypeOK'
  <2>1. CASE SetWebhookEndpointEnabled(e)
    BY <2>1 DEF OutboxInv, OutboxTypeOK
  <2>2. CASE DeleteWebhookEndpoint(e)
    BY <2>2 DEF OutboxInv, OutboxTypeOK, Row
  <2>3. QED
    BY <2>1, <2>2
<1>2. \A d \in Subscriptions :
        /\ row'[d].attempts = row[d].attempts
        /\ row'[d].status \in {row[d].status, "none"}
        /\ endpoint'[d[2]] # "deleted" =>
             endpoint[d[2]] # "deleted" /\ row'[d].status = row[d].status
  <2>1. CASE SetWebhookEndpointEnabled(e)
    BY <2>1, OutboxAssumption DEF OutboxInv, OutboxTypeOK
  <2>2. CASE DeleteWebhookEndpoint(e)
    BY <2>2, OutboxAssumption DEF OutboxInv, OutboxTypeOK, Row
  <2>3. QED
    BY <2>1, <2>2
<1>3. NoFalseDelivery' /\ NothingGivenUpEarly' /\ FreshRows'
  BY <1>2 DEF OutboxInv, NoFalseDelivery, NothingGivenUpEarly, FreshRows
<1>4. \A d \in Subscriptions : row'[d].attempts >= row[d].attempts
  BY <1>2 DEF OutboxInv, OutboxTypeOK, Row
<1>5. QED
  BY <1>1, <1>3, <1>4, HandsUntouched DEF OutboxInv

LEMMA ElapseKeeps ==
  ASSUME OutboxInv, NEW d \in Subscriptions, Elapse(d)
  PROVE  OutboxInv'
<1> USE DEF Elapse
<1>1. OutboxTypeOK'
  BY DEF OutboxInv, OutboxTypeOK, Row
<1>2. \A x \in Subscriptions : /\ row'[x].status = row[x].status
                               /\ row'[x].attempts = row[x].attempts
  BY DEF OutboxInv, OutboxTypeOK, Row
<1>3. NoFalseDelivery' /\ NothingGivenUpEarly' /\ FreshRows'
  BY <1>2 DEF OutboxInv, NoFalseDelivery, NothingGivenUpEarly, FreshRows
<1>4. \A x \in Subscriptions : row'[x].attempts >= row[x].attempts
  BY <1>2 DEF OutboxInv, OutboxTypeOK, Row
<1>5. QED
  BY <1>1, <1>3, <1>4, HandsUntouched DEF OutboxInv

LEMMA ClaimKeeps ==
  ASSUME OutboxInv, NEW w \in Workers, Claim(w)
  PROVE  OutboxInv'
<1>1. PICK S \in SUBSET Due :
        /\ row' = [d \in Subscriptions |->
                     IF d \in S THEN [row[d] EXCEPT !.attempts = Counted(@)] ELSE row[d]]
        /\ batch' = [batch EXCEPT ![w] =
                       {[delivery |-> d, attempts |-> Counted(row[d].attempts)] : d \in S}]
  BY DEF Claim
<1>2. UNCHANGED <<endpoint, post, received, waited, lost, failures>> /\ Idle(w)
  BY DEF Claim
<1>3. S \subseteq Subscriptions /\ \A d \in S : row[d].status = "pending"
  BY <1>1 DEF Due
<1>4. ASSUME NEW d \in Subscriptions
      PROVE  /\ row'[d] \in Row
             /\ row'[d].status = row[d].status
             /\ row'[d].attempts = IF d \in S THEN row[d].attempts + 1 ELSE row[d].attempts
  <2>1. row[d] \in Row
    BY DEF OutboxInv, OutboxTypeOK
  <2>2. row'[d] = IF d \in S THEN [row[d] EXCEPT !.attempts = row[d].attempts + 1]
                  ELSE row[d]
    BY <1>1 DEF Counted
  <2>3. QED
    BY <2>1, <2>2 DEF Row
<1>5. \A d \in Subscriptions : /\ row[d].attempts \in Nat
                               /\ row'[d].attempts >= row[d].attempts
  <2>1. \A d \in Subscriptions : row[d].attempts \in Nat
    BY DEF OutboxInv, OutboxTypeOK, Row
  <2>2. QED
    BY <1>4, <2>1
<1>6. batch'[w] = {[delivery |-> d, attempts |-> row[d].attempts + 1] : d \in S}
  BY <1>1 DEF OutboxInv, OutboxTypeOK, Counted
<1>7. ASSUME NEW c \in batch'[w]
      PROVE  c \in Claims /\ c.attempts = row'[c.delivery].attempts /\ c.attempts >= 1
  <2>1. PICK d \in S : c = [delivery |-> d, attempts |-> row[d].attempts + 1]
    BY <1>6, <1>7
  <2>2. d \in Subscriptions /\ row[d].attempts \in Nat
    BY <1>3, <1>5
  <2>3. c.delivery = d /\ c.attempts = row[d].attempts + 1
    BY <2>1
  <2>4. c \in Claims
    BY <2>1, <2>2 DEF Claims
  <2>5. QED
    BY <1>4, <2>2, <2>3, <2>4
<1>8. OutboxTypeOK'
  <2>1. row' \in [Subscriptions -> Row]
    BY <1>1, <1>4
  <2>2. batch' \in [Workers -> SUBSET Claims]
    BY <1>1, <1>7 DEF OutboxInv, OutboxTypeOK
  <2>3. QED
    BY <1>2, <2>1, <2>2 DEF OutboxInv, OutboxTypeOK
<1>9. NoFalseDelivery' /\ NothingGivenUpEarly' /\ FreshRows'
  BY <1>2, <1>3, <1>4, <1>5, OutboxAssumption
     DEF OutboxInv, NoFalseDelivery, NothingGivenUpEarly, FreshRows
<1>10. AcknowledgedIsReceived' /\ UnsealableIsRefused'
  BY <1>2 DEF OutboxInv, AcknowledgedIsReceived, UnsealableIsRefused
<1>11. ASSUME NEW v \in Workers, NEW c \in Carried(v)'
       PROVE  1 <= c.attempts /\ c.attempts <= row'[c.delivery].attempts
  <2>1. c \in Claims /\ c.delivery \in Subscriptions /\ c.attempts \in Nat
    BY <1>11 DEF Carried, Claims
  <2>2. CASE c \in batch'[w]
    BY <2>1, <2>2, <1>5, <1>7, <1>4
  <2>3. CASE c \notin batch'[w]
    <3>1. c \in Carried(v)
      <4>1. CASE v = w
        BY <1>2, <1>11, <2>3, <4>1 DEF Carried
      <4>2. CASE v # w
        BY <1>1, <1>2, <1>11, <4>2 DEF Carried, OutboxInv, OutboxTypeOK
      <4>3. QED
        BY <4>1, <4>2
    <3>2. 1 <= c.attempts /\ c.attempts <= row[c.delivery].attempts
      BY <3>1 DEF OutboxInv, ClaimsCounted
    <3>3. QED
      BY <2>1, <3>2, <1>4, <1>5
  <2>4. QED
    BY <2>2, <2>3
<1>12. QED
  BY <1>8, <1>9, <1>10, <1>11 DEF OutboxInv, ClaimsCounted

\* Taking a claim in hand leaves the worker carrying what it carried.
LEMMA AttemptKeeps ==
  ASSUME OutboxInv, NEW w \in Workers, Attempt(w)
  PROVE  OutboxInv'
<1>1. PICK c \in batch[w] :
        /\ batch' = [batch EXCEPT ![w] = @ \ {c}]
        /\ post' = [post EXCEPT ![w] =
                      [claim |-> c,
                       answer |-> IF c.delivery[2] \in Unsealable
                                  THEN "unsealable" ELSE "awaited"]]
  BY DEF Attempt
<1>2. post[w] = NoPost /\ UNCHANGED <<endpoint, row, received, waited, lost, failures>>
  BY DEF Attempt
<1>3. c \in Claims
  BY <1>1 DEF OutboxInv, OutboxTypeOK
<1>4. post'[w] = [claim |-> c, answer |-> IF c.delivery[2] \in Unsealable
                                          THEN "unsealable" ELSE "awaited"]
  BY <1>1 DEF OutboxInv, OutboxTypeOK
<1>5. /\ post'[w] \in Posts
      /\ post'[w].claim = c
      /\ post'[w].answer # "ok"
      /\ post'[w].answer = "unsealable" => c.delivery[2] \in Unsealable
  BY <1>3, <1>4 DEF Posts
<1>6. \A v \in Workers : v # w => post'[v] = post[v] /\ batch'[v] = batch[v]
  BY <1>1 DEF OutboxInv, OutboxTypeOK
<1>7. OutboxTypeOK'
  <2>1. post' \in [Workers -> Posts \cup {NoPost}]
    BY <1>1, <1>4, <1>5 DEF OutboxInv, OutboxTypeOK
  <2>2. batch' \in [Workers -> SUBSET Claims]
    BY <1>1 DEF OutboxInv, OutboxTypeOK
  <2>3. QED
    BY <1>2, <2>1, <2>2 DEF OutboxInv, OutboxTypeOK
<1>8. NoFalseDelivery' /\ NothingGivenUpEarly' /\ FreshRows'
  BY <1>2 DEF OutboxInv, NoFalseDelivery, NothingGivenUpEarly, FreshRows
<1>9. AcknowledgedIsReceived' /\ UnsealableIsRefused'
  BY <1>2, <1>5, <1>6 DEF OutboxInv, AcknowledgedIsReceived, UnsealableIsRefused
<1>10. ASSUME NEW v \in Workers, NEW x \in Carried(v)'
       PROVE  x \in Carried(v)
  <2>1. CASE v = w
    BY <1>1, <1>3, <1>5, <1>10, <2>1 DEF Carried, OutboxInv, OutboxTypeOK
  <2>2. CASE v # w
    BY <1>6, <1>10, <2>2 DEF Carried
  <2>3. QED
    BY <2>1, <2>2
<1>11. ClaimsCounted'
  BY <1>2, <1>10 DEF OutboxInv, ClaimsCounted
<1>12. QED
  BY <1>7, <1>8, <1>9, <1>11 DEF OutboxInv

LEMMA AnswerKeeps ==
  ASSUME OutboxInv, NEW w \in Workers, Answer(w)
  PROVE  OutboxInv'
<1> DEFINE d == post[w].claim.delivery
<1>1. /\ post[w] # NoPost
      /\ UNCHANGED <<endpoint, row, batch, waited, lost, failures>>
      /\ post[w] \in Posts
      /\ d \in Subscriptions
  <2>1. post[w] # NoPost /\ UNCHANGED <<endpoint, row, batch, waited, lost, failures>>
    BY DEF Answer
  <2>2. post[w] \in Posts
    BY <2>1 DEF OutboxInv, OutboxTypeOK
  <2>3. QED
    BY <2>1, <2>2 DEF Posts, Claims
<1>2. PICK a \in {"ok", "error"} :
        /\ post' = [post EXCEPT ![w].answer = a]
        /\ received \subseteq received' /\ received' \subseteq received \cup {d}
        /\ a = "ok" => d \in received'
  BY DEF Answer
<1>3. /\ post'[w] \in Posts
      /\ post'[w].claim = post[w].claim
      /\ post'[w].answer = a
  <2>1. post'[w] = [post[w] EXCEPT !.answer = a]
    BY <1>2 DEF OutboxInv, OutboxTypeOK
  <2>2. QED
    BY <2>1, <1>1 DEF Posts
<1>4. \A v \in Workers : v # w => post'[v] = post[v]
  BY <1>2 DEF OutboxInv, OutboxTypeOK
<1>5. OutboxTypeOK'
  <2>1. post' \in [Workers -> Posts \cup {NoPost}]
    BY <1>2, <1>3, <1>4 DEF OutboxInv, OutboxTypeOK
  <2>2. QED
    BY <1>1, <1>2, <2>1 DEF OutboxInv, OutboxTypeOK
<1>6. NoFalseDelivery' /\ NothingGivenUpEarly' /\ FreshRows'
  BY <1>1, <1>2 DEF OutboxInv, NoFalseDelivery, NothingGivenUpEarly, FreshRows
<1>7. AcknowledgedIsReceived' /\ UnsealableIsRefused'
  BY <1>2, <1>3, <1>4 DEF OutboxInv, AcknowledgedIsReceived, UnsealableIsRefused
<1>8. ASSUME NEW v \in Workers, NEW x \in Carried(v)'
      PROVE  x \in Carried(v)
  <2>1. post[w] # NoPost /\ post'[w].claim = post[w].claim /\ batch' = batch
    BY <1>1, <1>3
  <2>2. QED
    BY <1>4, <1>8, <2>1 DEF Carried
<1>9. ClaimsCounted'
  BY <1>1, <1>8 DEF OutboxInv, ClaimsCounted
<1>10. QED
  BY <1>5, <1>6, <1>7, <1>9 DEF OutboxInv

\* A worker that puts its claims down keeps nothing new in hand.
LEMMA HandsEmptied ==
  ASSUME OutboxInv, OutboxTypeOK', NEW w \in Workers,
         post' = [post EXCEPT ![w] = NoPost],
         batch' = batch \/ batch' = [batch EXCEPT ![w] = {}],
         received \subseteq received',
         \A d \in Subscriptions : row'[d].attempts = row[d].attempts
  PROVE  AcknowledgedIsReceived' /\ UnsealableIsRefused' /\ ClaimsCounted'
<1>1. \A v \in Workers : /\ post'[v] # NoPost => post'[v] = post[v]
                         /\ batch'[v] \subseteq batch[v]
  BY DEF OutboxInv, OutboxTypeOK
<1>2. AcknowledgedIsReceived' /\ UnsealableIsRefused'
  BY <1>1 DEF OutboxInv, AcknowledgedIsReceived, UnsealableIsRefused
<1>3. ASSUME NEW v \in Workers, NEW c \in Carried(v)'
      PROVE  1 <= c.attempts /\ c.attempts <= row'[c.delivery].attempts
  <2>1. c \in Carried(v) /\ c.delivery \in Subscriptions
    BY <1>1, <1>3 DEF Carried, Claims
  <2>2. QED
    BY <2>1 DEF OutboxInv, ClaimsCounted
<1>4. QED
  BY <1>2, <1>3 DEF ClaimsCounted

\* The row a result is written to: what was answered and how far the claim was.
LEMMA RecordKeeps ==
  ASSUME OutboxInv, NEW w \in Workers, Record(w)
  PROVE  OutboxInv'
<1> DEFINE c == post[w].claim
           d == c.delivery
           s == Outcome(post[w].answer, Retries(c.attempts))
<1>1. /\ post[w] # NoPost /\ post[w].answer # "awaited"
      /\ row' = IF row[d].status = "none" THEN row
                ELSE [row EXCEPT ![d].status = s, ![d].due = @ /\ s # "pending"]
      /\ waited' = IF s # "pending" THEN waited
                   ELSE [waited EXCEPT ![d] = @ + Delay(c.attempts)]
      /\ post' = [post EXCEPT ![w] = NoPost]
      /\ UNCHANGED <<endpoint, batch, received, lost, failures>>
  BY DEF Record
<1>2. post[w] \in Posts
  BY <1>1 DEF OutboxInv, OutboxTypeOK
<1>3. c \in Claims /\ d \in Subscriptions /\ c.attempts \in Nat /\ c \in Carried(w)
  BY <1>1, <1>2 DEF Posts, Claims, Carried
<1>4. 1 <= c.attempts /\ c.attempts <= row[d].attempts
  BY <1>3 DEF OutboxInv, ClaimsCounted
<1>5. /\ s \in {"delivered", "pending", "failed"}
      /\ s = "delivered" => d \in received
      /\ s = "failed" => c.attempts >= MaxAttempts \/ d[2] \in Unsealable
  <2>1. post[w].answer \in {"ok", "error", "unsealable"}
    BY <1>1, <1>2 DEF Posts
  <2>2. post[w].answer = "ok" => d \in received
    BY <1>1 DEF OutboxInv, AcknowledgedIsReceived
  <2>3. post[w].answer = "unsealable" => d[2] \in Unsealable
    BY <1>1 DEF OutboxInv, UnsealableIsRefused
  <2>4. QED
    BY <2>1, <2>2, <2>3, <1>3, OutboxAssumption DEF Outcome, Retries
<1>6. row[d] \in Row /\ \A x \in Subscriptions : row[x] \in Row
  BY <1>3 DEF OutboxInv, OutboxTypeOK
<1>7. /\ row' \in [Subscriptions -> Row]
      /\ row[d].status # "none" =>
           row'[d].status = s /\ row'[d].attempts = row[d].attempts
      /\ row[d].status = "none" => row'[d] = row[d]
      /\ \A x \in Subscriptions : x # d => row'[x] = row[x]
  <2>1. CASE row[d].status = "none"
    BY <1>1, <2>1 DEF OutboxInv, OutboxTypeOK
  <2>2. CASE row[d].status # "none"
    <3>1. row' = [row EXCEPT ![d] = [row[d] EXCEPT !.status = s,
                                         !.due = row[d].due /\ s # "pending"]]
      BY <1>1, <2>2
    <3>2. [row[d] EXCEPT !.status = s, !.due = row[d].due /\ s # "pending"] \in Row
      BY <1>5, <1>6 DEF Row
    <3>3. row'[d] = [row[d] EXCEPT !.status = s, !.due = row[d].due /\ s # "pending"]
      BY <1>3, <3>1 DEF OutboxInv, OutboxTypeOK
    <3>4. row'[d].status = s /\ row'[d].attempts = row[d].attempts
      BY <1>6, <3>3 DEF Row
    <3>5. QED
      BY <1>3, <2>2, <3>1, <3>2, <3>4 DEF OutboxInv, OutboxTypeOK
  <2>3. QED
    BY <2>1, <2>2
<1>8. OutboxTypeOK'
  <2>1. Delay(c.attempts) \in Int
    BY <1>3, <1>4, DelayGrows
  <2>2. waited' \in [Subscriptions -> Int]
    BY <1>1, <1>3, <2>1 DEF OutboxInv, OutboxTypeOK
  <2>3. post' \in [Workers -> Posts \cup {NoPost}]
    BY <1>1 DEF OutboxInv, OutboxTypeOK
  <2>4. QED
    BY <1>1, <1>7, <2>2, <2>3 DEF OutboxInv, OutboxTypeOK
<1>9. NoFalseDelivery'
  BY <1>1, <1>5, <1>7 DEF OutboxInv, NoFalseDelivery
<1>10. NothingGivenUpEarly'
  <2>1. ASSUME NEW x \in Subscriptions, row'[x].status = "failed"
        PROVE  row'[x].attempts >= MaxAttempts \/ x[2] \in Unsealable
    <3>1. CASE x = d /\ row[d].status # "none"
      BY <1>3, <1>4, <1>5, <1>6, <1>7, <2>1, <3>1, OutboxAssumption DEF Row
    <3>2. CASE x # d \/ row[d].status = "none"
      BY <1>7, <2>1, <3>2 DEF OutboxInv, NothingGivenUpEarly
    <3>3. QED
      BY <3>1, <3>2
  <2>2. QED
    BY <2>1 DEF NothingGivenUpEarly
<1>11. FreshRows'
  BY <1>1, <1>5, <1>7 DEF OutboxInv, FreshRows
<1>12. AcknowledgedIsReceived' /\ UnsealableIsRefused' /\ ClaimsCounted'
  BY <1>1, <1>7, <1>8, HandsEmptied
<1>13. QED
  BY <1>8, <1>9, <1>10, <1>11, <1>12 DEF OutboxInv

LEMMA LoseRecordKeeps ==
  ASSUME OutboxInv, NEW w \in Workers, LoseRecord(w)
  PROVE  OutboxInv'
<1> USE DEF LoseRecord
<1>1. OutboxTypeOK'
  <2>1. post[w].claim.delivery \in Subscriptions
    BY DEF OutboxInv, OutboxTypeOK, Posts, Claims
  <2>2. lost' \in [Subscriptions -> Nat] /\ failures' \in 0..MaxFailures
    BY <2>1, OutboxAssumption DEF OutboxInv, OutboxTypeOK
  <2>3. QED
    BY <2>2 DEF OutboxInv, OutboxTypeOK
<1>2. NoFalseDelivery' /\ NothingGivenUpEarly' /\ FreshRows'
  BY DEF OutboxInv, NoFalseDelivery, NothingGivenUpEarly, FreshRows
<1>3. QED
  BY <1>1, <1>2, HandsEmptied DEF OutboxInv

LEMMA CrashKeeps ==
  ASSUME OutboxInv, NEW w \in Workers, Crash(w)
  PROVE  OutboxInv'
<1> USE DEF Crash
<1>1. received \subseteq received' /\ received' \subseteq Subscriptions
  BY DEF OutboxInv, OutboxTypeOK, Posts, Claims
<1>2. OutboxTypeOK'
  <2>1. lost' \in [Subscriptions -> Nat] /\ failures' \in 0..MaxFailures
    BY OutboxAssumption DEF OutboxInv, OutboxTypeOK
  <2>2. QED
    BY <1>1, <2>1 DEF OutboxInv, OutboxTypeOK
<1>3. NoFalseDelivery' /\ NothingGivenUpEarly' /\ FreshRows'
  BY <1>1 DEF OutboxInv, NoFalseDelivery, NothingGivenUpEarly, FreshRows
<1>4. QED
  BY <1>1, <1>2, <1>3, HandsEmptied DEF OutboxInv

LEMMA OutboxStep == OutboxInv /\ [OutboxNext]_outboxVars => OutboxInv'
<1> SUFFICES ASSUME OutboxInv, [OutboxNext]_outboxVars PROVE OutboxInv'
  OBVIOUS
<1>1. ASSUME NEW d \in Subscriptions, EnqueueWebhookDelivery(d[1]) \/ Elapse(d)
      PROVE  OutboxInv'
  BY <1>1, EnqueueKeeps, ElapseKeeps
<1>2. ASSUME NEW e \in Endpoints, SetWebhookEndpointEnabled(e) \/ DeleteWebhookEndpoint(e)
      PROVE  OutboxInv'
  BY <1>2, EndpointStepsKeep
<1>3. ASSUME NEW w \in Workers,
             Claim(w) \/ Attempt(w) \/ Answer(w) \/ Record(w) \/ LoseRecord(w) \/ Crash(w)
      PROVE  OutboxInv'
  BY <1>3, ClaimKeeps, AttemptKeeps, AnswerKeeps, RecordKeeps, LoseRecordKeeps, CrashKeeps
<1>4. CASE UNCHANGED outboxVars
  BY <1>4 DEF outboxVars, OutboxInv, OutboxTypeOK, NoFalseDelivery, NothingGivenUpEarly,
              AcknowledgedIsReceived, UnsealableIsRefused, ClaimsCounted, Carried, FreshRows
<1>5. QED
  BY <1>1, <1>2, <1>3, <1>4 DEF OutboxNext

THEOREM OutboxInvariant == OutboxSafety => []OutboxInv
<1>1. QED
  BY OutboxInvInit, OutboxStep, PTL DEF OutboxSafety

\* The outbox keeps its types (webhook_deliveries, the worker's batch and POST).
THEOREM OutboxTyped == OutboxSafety => []OutboxTypeOK
<1>1. OutboxInv => OutboxTypeOK
  BY DEF OutboxInv
<1>2. QED
  BY <1>1, OutboxInvariant, PTL

\* For any workers, crashes and late results, a delivery shown as delivered
\* (webhook_record_result) reached its endpoint.
THEOREM DeliveredWasReceived == OutboxSafety => []NoFalseDelivery
<1>1. OutboxInv => NoFalseDelivery
  BY DEF OutboxInv
<1>2. QED
  BY <1>1, OutboxInvariant, PTL

\* For any workers, a delivery is given up (Backoff) only after MaxAttempts
\* attempts or because its secret does not open.
THEOREM GivenUpLate == OutboxSafety => []NothingGivenUpEarly
<1>1. OutboxInv => NothingGivenUpEarly
  BY DEF OutboxInv
<1>2. QED
  BY <1>1, OutboxInvariant, PTL

-----------------------------------------------------------------------------
(* One worker. *)

OneWorker == \A v, w \in Workers : v = w

\* A claim in hand is the only one of its delivery, and nothing has touched its
\* row but a deletion.
OneInHand ==
  \A w \in Workers :
    /\ \A c \in Carried(w) : /\ row[c.delivery].status \in {"pending", "none"}
                             /\ row[c.delivery].attempts = c.attempts
    /\ \A c \in batch[w] : post[w] # NoPost => c.delivery # post[w].claim.delivery

\* A pending row nobody has in hand has an attempt left.
AttemptLeft ==
  \A d \in Subscriptions :
    row[d].status = "pending" /\ (\A w \in Workers : d \notin InHand(w)) =>
      row[d].attempts < MaxAttempts + lost[d]

LoneInv == OutboxInv /\ OneInHand /\ BudgetKept /\ AttemptLeft

\* A delivery is in a worker's hands when a claim of it is.
LEMMA HandHolds ==
  ASSUME OutboxTypeOK, NEW w \in Workers
  PROVE  /\ \A d \in InHand(w) : d \in Subscriptions /\ \E c \in Carried(w) : c.delivery = d
         /\ \A c \in Carried(w) : c.delivery \in InHand(w)
         /\ \A c \in batch[w] : c \in Carried(w)
         /\ post[w] # NoPost => post[w].claim \in Carried(w)
<1>1. batch[w] \subseteq Claims /\ (post[w] # NoPost => post[w].claim \in Claims)
  BY DEF OutboxTypeOK, Posts
<1>2. \A c \in Claims : c.delivery \in Subscriptions
  BY DEF Claims
<1>3. QED
  BY <1>1, <1>2 DEF InHand, Carried

LEMMA LoneInit == OutboxInit => LoneInv
<1> SUFFICES ASSUME OutboxInit PROVE LoneInv
  OBVIOUS
<1>1. OneInHand
  BY DEF OutboxInit, OneInHand, Carried
<1>2. BudgetKept /\ AttemptLeft
  BY OutboxAssumption DEF OutboxInit, BudgetKept, AttemptLeft
<1>3. QED
  BY <1>1, <1>2, OutboxInvInit DEF LoneInv

\* Steps that leave the worker's hands alone: rows in hand keep their count and
\* are at most deleted, and a row newly pending has no attempt behind it.
LEMMA LoneHandsUntouched ==
  ASSUME LoneInv, OutboxInv', UNCHANGED <<batch, post, lost>>,
         \A d \in Subscriptions :
           \/ /\ row'[d].attempts = row[d].attempts
              /\ row'[d].status \in {row[d].status, "none"}
           \/ /\ row'[d].attempts = 0 /\ row[d].attempts = 0
              /\ row'[d].status = "pending"
  PROVE  LoneInv'
<1>1. \A w \in Workers : /\ Carried(w)' = Carried(w)
                         /\ InHand(w)' = InHand(w)
  BY DEF Carried, InHand
<1>2. ASSUME NEW w \in Workers, NEW c \in Carried(w)
      PROVE  /\ row'[c.delivery].status \in {"pending", "none"}
             /\ row'[c.delivery].attempts = c.attempts
  <2>1. c \in Claims /\ c.delivery \in Subscriptions
    BY <1>2 DEF Carried, Claims
  <2>2. QED
    BY <1>2, <2>1 DEF LoneInv, OneInHand
<1>3. OneInHand'
  BY <1>1, <1>2 DEF LoneInv, OneInHand
<1>4. ASSUME NEW d \in Subscriptions
      PROVE  /\ row'[d].attempts <= MaxAttempts + lost'[d]
             /\ row'[d].status = "pending" /\ (\A w \in Workers : d \notin InHand(w)') =>
                  row'[d].attempts < MaxAttempts + lost'[d]
  <2>1. lost'[d] = lost[d] /\ lost[d] \in Nat /\ row[d].attempts \in Nat
    BY DEF LoneInv, OutboxInv, OutboxTypeOK, Row
  <2>2. CASE row'[d].attempts = 0
    BY <2>1, <2>2, OutboxAssumption
  <2>3. CASE row'[d].attempts = row[d].attempts /\ row'[d].status \in {row[d].status, "none"}
    BY <1>1, <2>1, <2>3 DEF LoneInv, BudgetKept, AttemptLeft
  <2>4. QED
    BY <2>2, <2>3
<1>5. QED
  BY <1>3, <1>4 DEF LoneInv, BudgetKept, AttemptLeft

LEMMA LoneOthersKeep ==
  ASSUME LoneInv,
         \/ \E d \in Subscriptions : EnqueueWebhookDelivery(d[1]) \/ Elapse(d)
         \/ \E e \in Endpoints : SetWebhookEndpointEnabled(e) \/ DeleteWebhookEndpoint(e)
  PROVE  LoneInv'
<1>1. OutboxInv'
  BY EnqueueKeeps, ElapseKeeps, EndpointStepsKeep DEF LoneInv
<1>2. \A d \in Subscriptions : row[d] \in Row
  BY DEF LoneInv, OutboxInv, OutboxTypeOK
<1>3. ASSUME NEW event, EnqueueWebhookDelivery(event) PROVE LoneInv'
  <2>1. \A d \in Subscriptions :
          \/ row'[d] = row[d]
          \/ /\ row'[d].attempts = 0 /\ row[d].attempts = 0
             /\ row'[d].status = "pending"
    BY <1>3 DEF EnqueueWebhookDelivery, LoneInv, OutboxInv, FreshRows, Enabled
  <2>2. UNCHANGED <<batch, post, lost>>
    BY <1>3 DEF EnqueueWebhookDelivery
  <2>3. QED
    BY <1>1, <2>1, <2>2, LoneHandsUntouched
<1>4. ASSUME NEW x \in Subscriptions, Elapse(x) PROVE LoneInv'
  <2>1. \A d \in Subscriptions : /\ row'[d].attempts = row[d].attempts
                                 /\ row'[d].status = row[d].status
    BY <1>2, <1>4 DEF Elapse, LoneInv, OutboxInv, OutboxTypeOK, Row
  <2>2. UNCHANGED <<batch, post, lost>>
    BY <1>4 DEF Elapse
  <2>3. QED
    BY <1>1, <2>1, <2>2, LoneHandsUntouched
<1>5. ASSUME NEW e \in Endpoints, SetWebhookEndpointEnabled(e) PROVE LoneInv'
  BY <1>1, <1>5, LoneHandsUntouched DEF SetWebhookEndpointEnabled
<1>6. ASSUME NEW e \in Endpoints, DeleteWebhookEndpoint(e) PROVE LoneInv'
  <2>1. \A d \in Subscriptions : /\ row'[d].attempts = row[d].attempts
                                 /\ row'[d].status \in {row[d].status, "none"}
    BY <1>2, <1>6 DEF DeleteWebhookEndpoint, Row
  <2>2. UNCHANGED <<batch, post, lost>>
    BY <1>6 DEF DeleteWebhookEndpoint
  <2>3. QED
    BY <1>1, <2>1, <2>2, LoneHandsUntouched
<1>7. QED
  BY <1>3, <1>4, <1>5, <1>6

LEMMA LoneClaimKeeps ==
  ASSUME OneWorker, LoneInv, NEW w \in Workers, Claim(w)
  PROVE  /\ LoneInv'
         /\ \A v \in Workers : \A c \in Carried(v)' :
              c.delivery \in Subscriptions /\ c.attempts = row[c.delivery].attempts + 1
         /\ \A d \in Subscriptions :
              row'[d].attempts \in {row[d].attempts, row[d].attempts + 1}
<1>1. OutboxInv'
  BY ClaimKeeps DEF LoneInv
<1>2. PICK S \in SUBSET Due :
        /\ row' = [d \in Subscriptions |->
                     IF d \in S THEN [row[d] EXCEPT !.attempts = Counted(@)] ELSE row[d]]
        /\ batch' = [batch EXCEPT ![w] =
                       {[delivery |-> d, attempts |-> Counted(row[d].attempts)] : d \in S}]
  BY DEF Claim
<1>3. /\ S \subseteq Subscriptions
      /\ \A d \in S : row[d].status = "pending"
      /\ batch[w] = {} /\ post[w] = NoPost /\ post' = post /\ lost' = lost
      /\ \A v \in Workers : v = w
  BY <1>2 DEF Claim, Due, Idle, OneWorker
<1>4. \A d \in Subscriptions : d \notin InHand(w)
  BY <1>3 DEF InHand
<1>5. ASSUME NEW d \in Subscriptions
      PROVE  /\ row[d].attempts \in Nat /\ lost[d] \in Nat
             /\ row'[d].status = row[d].status
             /\ row'[d].attempts = IF d \in S THEN row[d].attempts + 1 ELSE row[d].attempts
  <2>1. row[d] \in Row /\ lost[d] \in Nat
    BY DEF LoneInv, OutboxInv, OutboxTypeOK
  <2>2. row'[d] = IF d \in S THEN [row[d] EXCEPT !.attempts = row[d].attempts + 1]
                  ELSE row[d]
    BY <1>2 DEF Counted
  <2>3. QED
    BY <2>1, <2>2 DEF Row
<1>6. batch'[w] = {[delivery |-> d, attempts |-> row[d].attempts + 1] : d \in S}
  BY <1>2 DEF LoneInv, OutboxInv, OutboxTypeOK, Counted
<1>7. /\ OneInHand'
      /\ \A c \in Carried(w)' : /\ c.delivery \in Subscriptions
                                /\ c.attempts = row[c.delivery].attempts + 1
  <2>1. ASSUME NEW c \in Carried(w)'
        PROVE  /\ c.delivery \in Subscriptions /\ c.attempts = row[c.delivery].attempts + 1
               /\ row'[c.delivery].status \in {"pending", "none"}
               /\ row'[c.delivery].attempts = c.attempts
    <3>1. c \in batch'[w]
      BY <1>3, <2>1 DEF Carried
    <3>2. PICK d \in S : c = [delivery |-> d, attempts |-> row[d].attempts + 1]
      BY <1>6, <3>1
    <3>3. c.delivery = d /\ c.attempts = row[d].attempts + 1 /\ d \in Subscriptions
      BY <1>3, <3>2
    <3>4. QED
      BY <1>3, <1>5, <3>3
  <2>2. QED
    BY <1>3, <2>1 DEF OneInHand
<1>8. \A d \in S : d \in InHand(w)'
  <2>1. ASSUME NEW d \in S PROVE d \in InHand(w)'
    <3>1. [delivery |-> d, attempts |-> row[d].attempts + 1] \in batch'[w]
      BY <1>6
    <3>2. QED
      BY <3>1 DEF InHand
  <2>2. QED
    BY <2>1
<1>9. ASSUME NEW d \in Subscriptions
      PROVE  /\ row'[d].attempts <= MaxAttempts + lost'[d]
             /\ row'[d].status = "pending" /\ (\A v \in Workers : d \notin InHand(v)') =>
                  row'[d].attempts < MaxAttempts + lost'[d]
  <2>1. row[d].status = "pending" => row[d].attempts < MaxAttempts + lost[d]
    BY <1>3, <1>4 DEF LoneInv, AttemptLeft
  <2>2. row[d].attempts <= MaxAttempts + lost[d]
    BY DEF LoneInv, BudgetKept
  <2>3. QED
    BY <1>3, <1>5, <1>8, <2>1, <2>2, OutboxAssumption
<1>10. LoneInv'
  BY <1>1, <1>7, <1>9 DEF LoneInv, BudgetKept, AttemptLeft
<1>11. QED
  BY <1>3, <1>5, <1>7, <1>10

LEMMA LoneAttemptKeeps ==
  ASSUME LoneInv, NEW w \in Workers, Attempt(w) \/ Answer(w)
  PROVE  LoneInv' /\ \A v \in Workers : Carried(v)' \subseteq Carried(v)
<1>1. OutboxInv'
  BY AttemptKeeps, AnswerKeeps DEF LoneInv
<1>2. UNCHANGED <<row, lost>>
  BY DEF Attempt, Answer
<1>3. \A v \in Workers : /\ Carried(v)' \subseteq Carried(v)
                         /\ InHand(v)' = InHand(v)
                         /\ \A c \in batch'[v] : post'[v] # NoPost =>
                              c.delivery # post'[v].claim.delivery
  <2>1. CASE Attempt(w)
    <3>1. PICK c \in batch[w] :
            /\ batch' = [batch EXCEPT ![w] = @ \ {c}]
            /\ post' = [post EXCEPT ![w] =
                          [claim |-> c,
                           answer |-> IF c.delivery[2] \in Unsealable
                                      THEN "unsealable" ELSE "awaited"]]
      BY <2>1 DEF Attempt
    <3>2. post[w] = NoPost /\ c \in Claims
      BY <2>1, <3>1 DEF Attempt, LoneInv, OutboxInv, OutboxTypeOK
    <3>3. /\ post'[w].claim = c /\ post'[w] # NoPost
          /\ batch'[w] = batch[w] \ {c}
          /\ \A v \in Workers : v # w => post'[v] = post[v] /\ batch'[v] = batch[v]
      <4>1. /\ batch'[w] = batch[w] \ {c}
            /\ \A v \in Workers : v # w => post'[v] = post[v] /\ batch'[v] = batch[v]
            /\ post'[w] = [claim |-> c,
                           answer |-> IF c.delivery[2] \in Unsealable
                                      THEN "unsealable" ELSE "awaited"]
        BY <3>1 DEF LoneInv, OutboxInv, OutboxTypeOK
      <4>2. post'[w] \in Posts
        BY <3>2, <4>1 DEF Posts
      <4>3. QED
        BY <4>1, <4>2, NoPostAssumption
    <3>4. ASSUME NEW x \in batch'[w] PROVE x.delivery # c.delivery
      <4>1. x \in Carried(w) /\ c \in Carried(w) /\ x # c /\ x \in Claims
        BY <3>1, <3>2, <3>3, <3>4 DEF Carried, LoneInv, OutboxInv, OutboxTypeOK
      <4>2. x.attempts = row[x.delivery].attempts /\ c.attempts = row[c.delivery].attempts
        BY <4>1 DEF LoneInv, OneInHand
      <4>3. QED
        BY <3>2, <4>1, <4>2 DEF Claims
    <3>5. Carried(w)' \subseteq Carried(w) /\ InHand(w)' = InHand(w)
      BY <3>1, <3>2, <3>3 DEF Carried, InHand
    <3>6. \A v \in Workers : v # w => Carried(v)' = Carried(v) /\ InHand(v)' = InHand(v)
      BY <3>3 DEF Carried, InHand
    <3>7. QED
      BY <3>3, <3>4, <3>5, <3>6 DEF LoneInv, OneInHand
  <2>2. CASE Answer(w)
    <3>1. PICK a \in {"ok", "error"} : post' = [post EXCEPT ![w].answer = a]
      BY <2>2 DEF Answer
    <3>2. batch' = batch /\ post[w] # NoPost /\ post[w] \in Posts
      BY <2>2 DEF Answer, LoneInv, OutboxInv, OutboxTypeOK
    <3>3. /\ post'[w].claim = post[w].claim /\ post'[w] # NoPost
          /\ \A v \in Workers : v # w => post'[v] = post[v]
      <4>1. post'[w] = [post[w] EXCEPT !.answer = a]
        BY <3>1 DEF LoneInv, OutboxInv, OutboxTypeOK
      <4>2. post'[w] \in Posts /\ post'[w].claim = post[w].claim
        BY <3>2, <4>1 DEF Posts
      <4>3. QED
        BY <3>1, <4>2, NoPostAssumption DEF LoneInv, OutboxInv, OutboxTypeOK
    <3>4. \A v \in Workers : Carried(v)' = Carried(v) /\ InHand(v)' = InHand(v)
      BY <3>2, <3>3 DEF Carried, InHand
    <3>5. QED
      BY <3>2, <3>3, <3>4 DEF LoneInv, OneInHand
  <2>3. QED
    BY <2>1, <2>2
<1>4. QED
  BY <1>1, <1>2, <1>3 DEF LoneInv, OneInHand, BudgetKept, AttemptLeft

LEMMA LoneRecordKeeps ==
  ASSUME OneWorker, LoneInv, NEW w \in Workers, Record(w)
  PROVE  /\ LoneInv'
         /\ \A d \in Subscriptions : row[d].status \in {"delivered", "failed"} =>
              row'[d] = row[d]
         /\ \A d \in Subscriptions : row'[d].attempts = row[d].attempts
         /\ post[w].claim \in Carried(w) /\ post[w].claim \in Claims
         /\ post[w].claim.attempts = row[post[w].claim.delivery].attempts
         /\ \A v \in Workers : \A c \in Carried(v)' :
              c \in Carried(v) /\ c.delivery # post[w].claim.delivery
<1> DEFINE c == post[w].claim
           d == c.delivery
           s == Outcome(post[w].answer, Retries(c.attempts))
<1>1. OutboxInv'
  BY RecordKeeps DEF LoneInv
<1>2. /\ post[w] # NoPost /\ post[w].answer # "awaited"
      /\ row' = IF row[d].status = "none" THEN row
                ELSE [row EXCEPT ![d].status = s, ![d].due = @ /\ s # "pending"]
      /\ post' = [post EXCEPT ![w] = NoPost]
      /\ UNCHANGED <<batch, lost>>
      /\ \A v \in Workers : v = w
  BY DEF Record, OneWorker
<1>3. c \in Carried(w) /\ c \in Claims /\ d \in Subscriptions /\ c.attempts \in Nat
  BY <1>2, HandHolds DEF LoneInv, OutboxInv, Carried, Claims
<1>4. row[d].status \in {"pending", "none"} /\ row[d].attempts = c.attempts
  BY <1>3 DEF LoneInv, OneInHand
<1>5. s = "pending" => c.attempts < MaxAttempts
  BY DEF Outcome, Retries
<1>6. /\ \A x \in Subscriptions : x # d => row'[x] = row[x]
      /\ row'[d].attempts = row[d].attempts
      /\ row[d].status = "none" => row'[d] = row[d]
      /\ row[d].status # "none" => row'[d].status = s
  <2>1. row[d] \in Row
    BY <1>3 DEF LoneInv, OutboxInv, OutboxTypeOK
  <2>2. CASE row[d].status = "none"
    BY <1>2, <2>2
  <2>3. CASE row[d].status # "none"
    <3>1. row' = [row EXCEPT ![d] = [row[d] EXCEPT !.status = s,
                                         !.due = row[d].due /\ s # "pending"]]
      BY <1>2, <2>3
    <3>2. /\ row'[d] = [row[d] EXCEPT !.status = s, !.due = row[d].due /\ s # "pending"]
          /\ \A x \in Subscriptions : x # d => row'[x] = row[x]
      BY <1>3, <3>1 DEF LoneInv, OutboxInv, OutboxTypeOK
    <3>3. QED
      BY <2>1, <2>3, <3>2 DEF Row
  <2>4. QED
    BY <2>2, <2>3
<1>7. \A x \in Carried(w)' : x \in batch[w] /\ x \in Carried(w) /\ x.delivery # d
                             /\ x.delivery \in Subscriptions
  <2>1. \A x \in Carried(w)' : x \in batch[w] /\ x \in Claims
    BY <1>2 DEF Carried, LoneInv, OutboxInv, OutboxTypeOK
  <2>2. QED
    BY <1>2, <2>1 DEF LoneInv, OneInHand, Carried, Claims
<1>8. OneInHand'
  <2>1. ASSUME NEW x \in Carried(w)'
        PROVE  /\ row'[x.delivery].status \in {"pending", "none"}
               /\ row'[x.delivery].attempts = x.attempts
    BY <1>6, <1>7, <2>1 DEF LoneInv, OneInHand
  <2>2. post'[w] = NoPost
    BY <1>2 DEF LoneInv, OutboxInv, OutboxTypeOK
  <2>3. QED
    BY <1>2, <2>1, <2>2 DEF OneInHand
<1>9. \A x \in InHand(w) : x = d \/ x \in InHand(w)'
  BY <1>2 DEF InHand
<1>10. ASSUME NEW x \in Subscriptions
       PROVE  /\ row'[x].attempts <= MaxAttempts + lost'[x]
              /\ row'[x].status = "pending" /\ (\A v \in Workers : x \notin InHand(v)') =>
                   row'[x].attempts < MaxAttempts + lost'[x]
  <2>1. row[x].attempts <= MaxAttempts + lost[x] /\ lost[x] \in Nat /\ row[x].attempts \in Nat
    BY DEF LoneInv, BudgetKept, OutboxInv, OutboxTypeOK, Row
  <2>2. CASE x = d
    <3>1. lost'[x] = lost[x] /\ row'[x].attempts = row[x].attempts
      BY <1>2, <1>6, <2>2
    <3>2. row'[x].status = "pending" => row[x].attempts < MaxAttempts
      BY <1>4, <1>5, <1>6, <2>2
    <3>3. QED
      BY <2>1, <3>1, <3>2, OutboxAssumption
  <2>3. CASE x # d
    BY <1>2, <1>6, <1>9, <2>1, <2>3 DEF LoneInv, AttemptLeft
  <2>4. QED
    BY <2>2, <2>3
<1>11. \A x \in Subscriptions : row[x].status \in {"delivered", "failed"} => row'[x] = row[x]
  BY <1>4, <1>6
<1>12. LoneInv'
  BY <1>1, <1>8, <1>10 DEF LoneInv, BudgetKept, AttemptLeft
<1>13. QED
  BY <1>2, <1>3, <1>4, <1>6, <1>7, <1>11, <1>12

LEMMA LoneFaultKeeps ==
  ASSUME OneWorker, LoneInv, NEW w \in Workers, LoseRecord(w) \/ Crash(w)
  PROVE  LoneInv' /\ \A v \in Workers : Carried(v)' \subseteq Carried(v)
<1>1. OutboxInv'
  BY LoseRecordKeeps, CrashKeeps DEF LoneInv
<1>2. /\ row' = row /\ post' = [post EXCEPT ![w] = NoPost]
      /\ batch' = batch \/ batch' = [batch EXCEPT ![w] = {}]
      /\ \A v \in Workers : v = w
  BY DEF LoseRecord, Crash, OneWorker
<1>3. post'[w] = NoPost /\ batch'[w] \subseteq batch[w]
  BY <1>2 DEF LoneInv, OutboxInv, OutboxTypeOK
<1>4. Carried(w)' \subseteq Carried(w)
  BY <1>3 DEF Carried
<1>5. OneInHand'
  BY <1>2, <1>3, <1>4 DEF LoneInv, OneInHand
<1>6. ASSUME NEW d \in Subscriptions
      PROVE  /\ lost[d] \in Nat /\ lost'[d] \in Nat /\ lost'[d] >= lost[d]
             /\ d \in InHand(w) /\ d \notin InHand(w)' => lost'[d] = lost[d] + 1
  <2>1. lost[d] \in Nat
    BY DEF LoneInv, OutboxInv, OutboxTypeOK
  <2>2. CASE LoseRecord(w)
    <3>1. lost' = [lost EXCEPT ![post[w].claim.delivery] = @ + 1] /\ batch' = batch
      BY <2>2 DEF LoseRecord
    <3>2. d \in InHand(w) /\ d \notin InHand(w)' => d = post[w].claim.delivery
      BY <3>1 DEF InHand
    <3>3. QED
      BY <2>1, <3>1, <3>2 DEF LoneInv, OutboxInv, OutboxTypeOK
  <2>3. CASE Crash(w)
    BY <2>1, <2>3 DEF Crash
  <2>4. QED
    BY <2>2, <2>3
<1>7. ASSUME NEW d \in Subscriptions
      PROVE  /\ row'[d].attempts <= MaxAttempts + lost'[d]
             /\ row'[d].status = "pending" /\ (\A v \in Workers : d \notin InHand(v)') =>
                  row'[d].attempts < MaxAttempts + lost'[d]
  <2>1. row[d].attempts <= MaxAttempts + lost[d] /\ row[d].attempts \in Nat
    BY DEF LoneInv, BudgetKept, OutboxInv, OutboxTypeOK, Row
  <2>2. CASE d \in InHand(w)
    BY <1>2, <1>6, <2>1, <2>2, OutboxAssumption
  <2>3. CASE d \notin InHand(w)
    BY <1>2, <1>6, <2>1, <2>3, OutboxAssumption DEF LoneInv, AttemptLeft
  <2>4. QED
    BY <2>2, <2>3
<1>8. LoneInv'
  BY <1>1, <1>5, <1>7 DEF LoneInv, BudgetKept, AttemptLeft
<1>9. QED
  BY <1>2, <1>4, <1>8

LEMMA LoneStep == OneWorker /\ LoneInv /\ [OutboxNext]_outboxVars => LoneInv'
<1> SUFFICES ASSUME OneWorker, LoneInv, [OutboxNext]_outboxVars PROVE LoneInv'
  OBVIOUS
<1>1. ASSUME NEW w \in Workers,
             Claim(w) \/ Attempt(w) \/ Answer(w) \/ Record(w) \/ LoseRecord(w) \/ Crash(w)
      PROVE  LoneInv'
  BY <1>1, LoneClaimKeeps, LoneAttemptKeeps, LoneRecordKeeps, LoneFaultKeeps
<1>2. CASE UNCHANGED outboxVars
  BY <1>2 DEF outboxVars, LoneInv, OutboxInv, OutboxTypeOK, NoFalseDelivery, NothingGivenUpEarly,
              AcknowledgedIsReceived, UnsealableIsRefused, ClaimsCounted, Carried, FreshRows,
              OneInHand, BudgetKept, AttemptLeft, InHand
<1>3. QED
  BY <1>1, <1>2, LoneOthersKeep DEF OutboxNext

\* With one worker a delivery is attempted at most MaxAttempts times (Backoff)
\* and once more for every result that was lost.
THEOREM LoneWorkerKeepsBudget ==
  ASSUME OneWorker
  PROVE  OutboxSafety => []BudgetKept
<1>1. LoneInv => BudgetKept
  BY DEF LoneInv
<1>2. LoneInv /\ [OutboxNext]_outboxVars => LoneInv'
  BY LoneStep
<1>3. QED
  BY <1>1, <1>2, LoneInit, PTL DEF OutboxSafety

\* With one worker a delivery that was delivered or given up is never opened or
\* given another end (webhook_record_result has no guard of its own).
THEOREM LoneWorkerSettles ==
  ASSUME OneWorker
  PROVE  OutboxSafety => SettledStays
<1>1. ASSUME LoneInv, [OutboxNext]_outboxVars, NEW d \in Subscriptions,
             row[d].status \in {"delivered", "failed"}
      PROVE  row'[d].status \in {row[d].status, "none"}
  <2>1. \A x \in Subscriptions : row[x] \in Row
    BY <1>1 DEF LoneInv, OutboxInv, OutboxTypeOK
  <2>2. ASSUME NEW w \in Workers, Record(w) PROVE row'[d] = row[d]
    BY <1>1, <2>2, LoneRecordKeeps
  <2>3. ASSUME NEW w \in Workers, Claim(w) PROVE row'[d].status = row[d].status
    BY <1>1, <2>1, <2>3 DEF Claim, Row
  <2>4. ASSUME NEW event, EnqueueWebhookDelivery(event) PROVE row'[d] = row[d]
    BY <1>1, <2>4 DEF EnqueueWebhookDelivery
  <2>5. ASSUME NEW e \in Endpoints, DeleteWebhookEndpoint(e)
        PROVE  row'[d].status \in {row[d].status, "none"}
    BY <1>1, <2>1, <2>5 DEF DeleteWebhookEndpoint, Row
  <2>6. ASSUME NEW x \in Subscriptions, Elapse(x) PROVE row'[d] = row[d]
    BY <1>1, <2>6 DEF Elapse, LoneInv, OutboxInv, OutboxTypeOK
  <2>7. ASSUME \/ \E w \in Workers : Attempt(w) \/ Answer(w) \/ LoseRecord(w) \/ Crash(w)
               \/ \E e \in Endpoints : SetWebhookEndpointEnabled(e)
               \/ UNCHANGED outboxVars
        PROVE  row' = row
    BY <2>7 DEF Attempt, Answer, LoseRecord, Crash, SetWebhookEndpointEnabled, outboxVars
  <2>8. QED
    BY <1>1, <2>2, <2>3, <2>4, <2>5, <2>6, <2>7 DEF OutboxNext
<1>2. LoneInv /\ [OutboxNext]_outboxVars =>
        [\A d \in Subscriptions :
           row[d].status \in {"delivered", "failed"} =>
             row'[d].status \in {row[d].status, "none"}]_outboxVars
  BY <1>1
<1>3. LoneInv /\ [OutboxNext]_outboxVars => LoneInv'
  BY LoneStep
<1>4. QED
  BY <1>2, <1>3, LoneInit, PTL DEF OutboxSafety, SettledStays

-----------------------------------------------------------------------------
(* How long is waited, with one worker. *)

\* What was waited for a delivery so far is less than a third of its next wait.
WaitedLittle ==
  /\ \A d \in Subscriptions : 3 * waited[d] < Delay(row[d].attempts + 1)
  /\ \A w \in Workers : \A c \in Carried(w) : 3 * waited[c.delivery] < Delay(c.attempts)

\* Another attempt, whether or not it is waited for, makes the next wait no shorter.
LEMMA LittleStill ==
  ASSUME OutboxTypeOK, WaitedLittle, waited' = waited,
         \A d \in Subscriptions :
           row'[d].attempts \in {row[d].attempts, row[d].attempts + 1}
  PROVE  \A d \in Subscriptions : 3 * waited'[d] < Delay(row'[d].attempts + 1)
<1> SUFFICES ASSUME NEW d \in Subscriptions
             PROVE  3 * waited'[d] < Delay(row'[d].attempts + 1)
  OBVIOUS
<1>1. PICK a \in Nat : a = row[d].attempts
  BY DEF OutboxTypeOK, Row
<1>2. PICK n \in Int : n = waited[d]
  BY DEF OutboxTypeOK
<1>3. a + 1 \in Nat /\ 3 * n < Delay(a + 1)
  BY <1>1, <1>2 DEF WaitedLittle
<1>4. /\ Delay(a + 1) \in Nat /\ Delay((a + 1) + 1) \in Nat
      /\ Delay(a + 1) <= Delay((a + 1) + 1)
  BY <1>3, DelayGrows
<1>5. 3 * n < Delay((a + 1) + 1)
  BY <1>3, <1>4
<1> QED BY <1>1, <1>2, <1>3, <1>5

LEMMA LittleAside ==
  ASSUME OutboxTypeOK, WaitedLittle, waited' = waited,
         \A w \in Workers : Carried(w)' \subseteq Carried(w),
         \A d \in Subscriptions :
           row'[d].attempts \in {row[d].attempts, row[d].attempts + 1}
  PROVE  WaitedLittle'
<1>1. \A d \in Subscriptions : 3 * waited'[d] < Delay(row'[d].attempts + 1)
  BY LittleStill
<1>2. \A w \in Workers : \A c \in Carried(w)' : 3 * waited'[c.delivery] < Delay(c.attempts)
  BY DEF WaitedLittle
<1> QED BY <1>1, <1>2 DEF WaitedLittle

LEMMA LittleByClaim ==
  ASSUME OneWorker, LoneInv, WaitedLittle, NEW w \in Workers, Claim(w)
  PROVE  WaitedLittle'
<1>1. OutboxTypeOK /\ waited' = waited
  BY DEF LoneInv, OutboxInv, Claim
<1>2. \A d \in Subscriptions : 3 * waited'[d] < Delay(row'[d].attempts + 1)
  BY <1>1, LoneClaimKeeps, LittleStill
<1>3. ASSUME NEW v \in Workers, NEW c \in Carried(v)'
      PROVE  3 * waited'[c.delivery] < Delay(c.attempts)
  <2>1. c.delivery \in Subscriptions /\ c.attempts = row[c.delivery].attempts + 1
    BY <1>3, LoneClaimKeeps
  <2> QED BY <1>1, <2>1 DEF WaitedLittle
<1> QED BY <1>2, <1>3 DEF WaitedLittle

LEMMA LittleByRecord ==
  ASSUME OneWorker, LoneInv, WaitedLittle, NEW w \in Workers, Record(w)
  PROVE  /\ WaitedLittle'
         /\ \A d \in Subscriptions :
              waited'[d] # waited[d] => waited'[d] > 2 * waited[d]
<1>1. PICK c \in Carried(w) :
        /\ c = post[w].claim /\ c \in Claims
        /\ c.attempts = row[c.delivery].attempts
  BY LoneRecordKeeps
<1>2. /\ \A d \in Subscriptions : row'[d].attempts = row[d].attempts
      /\ \A v \in Workers : \A x \in Carried(v)' : x \in Carried(v) /\ x.delivery # c.delivery
  BY <1>1, LoneRecordKeeps
<1>3. /\ waited \in [Subscriptions -> Int] /\ c.delivery \in Subscriptions
      /\ c.attempts \in Nat /\ 1 <= c.attempts /\ OutboxTypeOK
  BY <1>1 DEF LoneInv, OutboxInv, OutboxTypeOK, ClaimsCounted, Claims
<1>4. waited' = waited \/ waited' = [waited EXCEPT ![c.delivery] = @ + Delay(c.attempts)]
  BY <1>1 DEF Record
<1>5. \A v \in Workers : Carried(v)' \subseteq Carried(v)
  BY <1>2
<1>6. CASE waited' = waited
  BY <1>2, <1>3, <1>5, <1>6, LittleAside
<1>7. CASE waited' = [waited EXCEPT ![c.delivery] = @ + Delay(c.attempts)]
  <2>1. PICK n \in Int : n = waited[c.delivery]
    BY <1>3
  <2>2. PICK m \in Nat : m = Delay(c.attempts)
    BY <1>3, DelayGrows
  <2>3. 3 * n < m /\ m >= 30 /\ Delay(c.attempts + 1) = 4 * m
    BY <1>1, <1>3, <2>1, <2>2, DelayGrows DEF WaitedLittle
  <2>4. /\ waited'[c.delivery] = n + m
        /\ \A d \in Subscriptions : d # c.delivery => waited'[d] = waited[d]
    BY <1>3, <1>7, <2>1, <2>2
  <2>5. 3 * (n + m) < 4 * m /\ n + m > 2 * n
    BY <2>3
  <2>6. ASSUME NEW d \in Subscriptions
        PROVE  3 * waited'[d] < Delay(row'[d].attempts + 1)
    <3>1. CASE d = c.delivery
      BY <1>1, <1>2, <2>3, <2>4, <2>5, <3>1
    <3>2. CASE d # c.delivery
      BY <1>2, <2>4, <3>2 DEF WaitedLittle
    <3> QED BY <3>1, <3>2
  <2>7. ASSUME NEW v \in Workers, NEW x \in Carried(v)'
        PROVE  3 * waited'[x.delivery] < Delay(x.attempts)
    <3>1. x \in Carried(v) /\ x.delivery # c.delivery /\ x.delivery \in Subscriptions
      BY <1>2, <2>7 DEF Carried, Claims
    <3> QED BY <2>4, <3>1 DEF WaitedLittle
  <2>8. \A d \in Subscriptions : waited'[d] # waited[d] => waited'[d] > 2 * waited[d]
    BY <2>1, <2>4, <2>5
  <2> QED BY <2>6, <2>7, <2>8 DEF WaitedLittle
<1> QED BY <1>4, <1>6, <1>7

LEMMA LittleNext ==
  ASSUME OneWorker, LoneInv, WaitedLittle, [OutboxNext]_outboxVars
  PROVE  /\ WaitedLittle'
         /\ \A d \in Subscriptions :
              waited'[d] # waited[d] => waited'[d] > 2 * waited[d]
<1>1. OutboxTypeOK /\ \A d \in Subscriptions : row[d] \in Row
  BY DEF LoneInv, OutboxInv, OutboxTypeOK
<1>2. CASE \E w \in Workers : Record(w)
  BY <1>2, LittleByRecord
<1>3. CASE \E w \in Workers : Claim(w)
  BY <1>3, LittleByClaim DEF Claim
<1>4. CASE \E w \in Workers : Attempt(w) \/ Answer(w) \/ LoseRecord(w) \/ Crash(w)
  <2>1. waited' = waited /\ row' = row
    BY <1>4 DEF Attempt, Answer, LoseRecord, Crash
  <2>2. \A v \in Workers : Carried(v)' \subseteq Carried(v)
    BY <1>4, LoneAttemptKeeps, LoneFaultKeeps
  <2> QED BY <1>1, <2>1, <2>2, LittleAside
<1>5. CASE \/ \E d \in Subscriptions : EnqueueWebhookDelivery(d[1]) \/ Elapse(d)
           \/ \E e \in Endpoints : SetWebhookEndpointEnabled(e) \/ DeleteWebhookEndpoint(e)
           \/ UNCHANGED outboxVars
  <2>1. UNCHANGED <<waited, batch, post>>
    BY <1>5 DEF EnqueueWebhookDelivery, Elapse, SetWebhookEndpointEnabled,
                DeleteWebhookEndpoint, outboxVars
  <2>2. \A d \in Subscriptions : row'[d].attempts = row[d].attempts
    <3>1. ASSUME NEW event, EnqueueWebhookDelivery(event)
          PROVE  \A d \in Subscriptions : row'[d].attempts = row[d].attempts
      BY <3>1 DEF EnqueueWebhookDelivery, LoneInv, OutboxInv, FreshRows, Enabled
    <3>2. ASSUME NEW x \in Subscriptions, Elapse(x)
          PROVE  \A d \in Subscriptions : row'[d].attempts = row[d].attempts
      BY <1>1, <3>2 DEF Elapse, OutboxTypeOK, Row
    <3>3. ASSUME NEW e \in Endpoints, DeleteWebhookEndpoint(e)
          PROVE  \A d \in Subscriptions : row'[d].attempts = row[d].attempts
      BY <1>1, <3>3 DEF DeleteWebhookEndpoint, Row
    <3>4. CASE row' = row
      BY <3>4
    <3> QED BY <1>5, <3>1, <3>2, <3>3, <3>4 DEF SetWebhookEndpointEnabled, outboxVars
  <2>3. \A v \in Workers : Carried(v)' \subseteq Carried(v)
    BY <2>1 DEF Carried
  <2> QED BY <1>1, <2>1, <2>2, <2>3, LittleAside
<1> QED BY <1>2, <1>3, <1>4, <1>5 DEF OutboxNext

\* With one worker each wait is longer than all before it together (Backoff), whatever
\* results are lost in between.
THEOREM LoneWorkerBacksOff ==
  ASSUME OneWorker
  PROVE  OutboxSafety => WaitsGrow
<1>1. OutboxInit => WaitedLittle
  <2> SUFFICES ASSUME OutboxInit PROVE WaitedLittle
    OBVIOUS
  <2>1. \A w \in Workers : Carried(w) = {}
    BY DEF OutboxInit, Carried
  <2>2. Delay(1) \in Nat /\ Delay(1) >= 30
    BY DelayGrows
  <2> QED BY <2>1, <2>2 DEF OutboxInit, WaitedLittle
<1>2. LoneInv /\ WaitedLittle /\ [OutboxNext]_outboxVars => LoneInv' /\ WaitedLittle'
  BY LoneStep, LittleNext
<1>3. LoneInv /\ WaitedLittle /\ [OutboxNext]_outboxVars =>
        [\A d \in Subscriptions :
           waited'[d] # waited[d] => waited'[d] > 2 * waited[d]]_outboxVars
  BY LittleNext
<1> QED BY <1>1, <1>2, <1>3, LoneInit, PTL DEF OutboxSafety, WaitsGrow

=============================================================================
