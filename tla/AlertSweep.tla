----------------------------- MODULE AlertSweep -----------------------------
(***************************************************************************)
(* The alert sweep (backend/internal/alerting): every rule of a tenant is  *)
(* evaluated, what holds is upserted, what was not touched is resolved,    *)
(* and what was not yet mailed is mailed.  The runner sweeps on a timer;   *)
(* an operator's EvaluateAlerts runs the same sweep beside it.             *)
(*                                                                         *)
(* A sweep's transaction is two steps and more: BEGIN fixes NOW(), each    *)
(* rule reads the books of its own moment, and upserts and resolutions     *)
(* take effect together at COMMIT.  Sweeps wait for the rows they share,   *)
(* so their reconciliations come one after another; two that wait for each *)
(* other end in a deadlock, and so in a Fail of one.                       *)
(*                                                                         *)
(* An open row is touched before or after a sweep began: of last_seen_at   *)
(* and NOW() only that order is kept.                                      *)
(***************************************************************************)
EXTENDS Integers, FiniteSets

CONSTANTS
  Rules,      \* how many rules there are; each has one subject here
  Mailed,     \* the rules whose severity is worth a mail: not "info"
  Sweepers,   \* the runner and the operators' calls
  Runner,     \* the one on the timer
  NoMail,     \* a sweep that is not mailing an alert
  MaxFaults   \* bound of the model: failed sweeps and lost marks

Subjects == 1..Rules

ASSUME SweepAssumption ==
  /\ Rules \in Nat
  /\ IsFiniteSet(Sweepers)
  /\ Mailed \subseteq Subjects
  /\ Runner \in Sweepers
  /\ MaxFaults \in Nat

\* The row of a subject's open alert, or the absence of one.
\* It counts the rounds of mail it was sent in, and those nothing recorded.
Alert == [open : BOOLEAN, acknowledged : BOOLEAN, notified : BOOLEAN,
          rounds : Nat, lost : Nat]

\* An alert in a sweep's list of those to mail: its subject, and whether the
\* row is still the open one.
Listed == [subject : Subjects, current : BOOLEAN]

ASSUME NoMailAssumption == NoMail \notin Listed

VARIABLES
  truth,       \* the subjects whose condition holds now
  alert,       \* the open alert of each subject
  listening,   \* somebody who is not a viewer has alert_email set
  stage,       \* "idle", "evaluate", "notify" or "mail" of each sweep
  read,        \* the rules it has evaluated: 1..read
  found,       \* and the subjects they found
  stale,       \* open alerts with last_seen_at before its NOW()
  later,       \* sweeps in progress that began after it
  crossed,     \* whether another committed during it
  pending,     \* the alerts it has still to mail
  mailing,     \* the one it has mailed and not yet marked
  faults

sweep == <<stage, read, found, stale, later, crossed>>
mails == <<pending, mailing>>
vars  == <<truth, alert, listening, sweep, mails, faults>>

NoAlert == [open |-> FALSE, acknowledged |-> FALSE, notified |-> FALSE,
            rounds |-> 0, lost |-> 0]

Open == {s \in Subjects : alert[s].open}

Evaluating == {p \in Sweepers : stage[p] = "evaluate"}

-----------------------------------------------------------------------------
(* The books, and the other RPCs on alerts. *)

\* A deadline passes, a gauge is taken, a return is filed.
Turn(s) ==
  /\ truth' = IF s \in truth THEN truth \ {s} ELSE truth \cup {s}
  /\ UNCHANGED <<alert, listening, sweep, mails, faults>>

AcknowledgeAlert(s) ==
  /\ s \in Open
  /\ alert' = [alert EXCEPT ![s].acknowledged = TRUE]
  /\ UNCHANGED <<truth, listening, sweep, mails, faults>>

SetAlertEmail ==
  /\ listening' \in BOOLEAN
  /\ UNCHANGED <<truth, alert, sweep, mails, faults>>

-----------------------------------------------------------------------------
(* RunTenant *)

\* BEGIN: every open alert was last seen before this NOW().
Begin(p) ==
  /\ stage[p] = "idle"
  /\ stage' = [stage EXCEPT ![p] = "evaluate"]
  /\ stale' = [stale EXCEPT ![p] = Open]
  /\ later' = [q \in Sweepers |->
                 IF q = p THEN {}
                 ELSE IF q \in Evaluating THEN later[q] \cup {p} ELSE later[q]]
  /\ UNCHANGED <<truth, alert, listening, read, found, crossed, mails, faults>>

\* Evaluate, one rule.
EvaluateRule(p) ==
  /\ stage[p] = "evaluate"
  /\ read[p] < Rules
  /\ read' = [read EXCEPT ![p] = @ + 1]
  /\ found' = [found EXCEPT ![p] = @ \cup (truth \cap {read[p] + 1})]
  /\ UNCHANGED <<truth, alert, listening, stage, stale, later, crossed, mails, faults>>

\* Upserted as an insert would leave it, and as the code does: an open row stays
\* as it is.
UpsertedAnew(s) == [NoAlert EXCEPT !.open = TRUE]
Upserted(s) == [alert[s] EXCEPT !.open = TRUE]

\* Resolved with <= for the comparison, with a kind forgotten, and as the query
\* has it.
UntouchedOrNot(p) == Open
UntouchedOfKinds(p) == ((Open \cap stale[p]) \ found[p]) \ {Rules}
Untouched(p) == (Open \cap stale[p]) \ found[p]

\* last_seen_at of what p found is its NOW(): later than that of the sweeps that
\* began before it, earlier than that of those that began after.
StaleAfter(p, q) ==
  IF q \in later[p] THEN (stale[q] \cup found[p]) \ Untouched(p)
  ELSE stale[q] \ (found[p] \cup Untouched(p))

Done(p) ==
  /\ read' = [read EXCEPT ![p] = 0]
  /\ found' = [found EXCEPT ![p] = {}]
  /\ later' = [q \in Sweepers |-> IF q = p THEN {} ELSE later[q] \ {p}]

\* The upserts, ResolveStaleAlerts and COMMIT.
Reconcile(p) ==
  /\ stage[p] = "evaluate"
  /\ read[p] = Rules
  /\ alert' = [s \in Subjects |->
                 IF s \in Untouched(p) THEN NoAlert
                 ELSE IF s \in found[p] THEN Upserted(s) ELSE alert[s]]
  /\ stale' = [q \in Sweepers |->
                 IF q \in Evaluating \ {p} THEN StaleAfter(p, q) ELSE {}]
  /\ crossed' = Evaluating \ {p}
  /\ Done(p)
  /\ pending' = [q \in Sweepers |->
                   {[l EXCEPT !.current = @ /\ l.subject \notin Untouched(p)] :
                      l \in pending[q]}]
  /\ mailing' = [q \in Sweepers |->
                   IF mailing[q] = NoMail THEN NoMail
                   ELSE [mailing[q] EXCEPT
                           !.current = @ /\ mailing[q].subject \notin Untouched(p)]]
  /\ stage' = [stage EXCEPT ![p] = "notify"]
  /\ UNCHANGED <<truth, listening, faults>>

\* A rule's error, a deadlock, or the end of the process or of the call: the
\* transaction is rolled back, and mail that has gone out stays out.
Fail(p) ==
  /\ faults < MaxFaults
  /\ stage[p] # "idle"
  /\ faults' = faults + 1
  /\ stage' = [stage EXCEPT ![p] = "idle"]
  /\ stale' = [stale EXCEPT ![p] = {}]
  /\ crossed' = crossed \ {p}
  /\ Done(p)
  /\ pending' = [pending EXCEPT ![p] = {}]
  /\ mailing' = [mailing EXCEPT ![p] = NoMail]
  /\ alert' = IF mailing[p] # NoMail /\ mailing[p].current
              THEN [alert EXCEPT ![mailing[p].subject].lost = @ + 1] ELSE alert
  /\ UNCHANGED <<truth, listening>>

-----------------------------------------------------------------------------
(* notify *)

\* Pending, the mark forgotten, and as it is.
PendingAgain == Open \cap Mailed
Pending == {s \in Open \cap Mailed : ~alert[s].notified}

ListPending(p) ==
  /\ stage[p] = "notify"
  /\ IF Pending = {} \/ ~listening
     THEN /\ stage' = [stage EXCEPT ![p] = "idle"]
          /\ UNCHANGED pending
     ELSE /\ stage' = [stage EXCEPT ![p] = "mail"]
          /\ pending' = [pending EXCEPT
                           ![p] = [subject : Pending, current : {TRUE}]]
  /\ UNCHANGED <<truth, alert, listening, read, found, stale, later, crossed,
                 mailing, faults>>

\* Sent, whether the mail got through or not, and as the code has it.
SentAnyway(through) == TRUE
Sent(through) == through

\* One alert to every recipient; one whose mail fails is passed over, and it is
\* enough that one of them was reached.
Mail(p, l, through) ==
  /\ stage[p] = "mail"
  /\ mailing[p] = NoMail
  /\ l \in pending[p]
  /\ pending' = [pending EXCEPT ![p] = @ \ {l}]
  /\ mailing' = IF Sent(through) THEN [mailing EXCEPT ![p] = l] ELSE mailing
  /\ alert' = IF l.current /\ through
              THEN [alert EXCEPT ![l.subject].rounds = @ + 1] ELSE alert
  /\ UNCHANGED <<truth, listening, sweep, faults>>

\* MarkAlertNotified, in a transaction of its own.  It marks the row that was
\* mailed, which may have been resolved since, and the subject opened again.
Mark(p) ==
  /\ mailing[p] # NoMail
  /\ alert' = IF mailing[p].current
              THEN [alert EXCEPT ![mailing[p].subject].notified = TRUE] ELSE alert
  /\ mailing' = [mailing EXCEPT ![p] = NoMail]
  /\ UNCHANGED <<truth, listening, sweep, pending, faults>>

\* Its error is logged.
LoseMark(p) ==
  /\ faults < MaxFaults
  /\ mailing[p] # NoMail
  /\ faults' = faults + 1
  /\ alert' = IF mailing[p].current
              THEN [alert EXCEPT ![mailing[p].subject].lost = @ + 1] ELSE alert
  /\ mailing' = [mailing EXCEPT ![p] = NoMail]
  /\ UNCHANGED <<truth, listening, sweep, pending>>

End(p) ==
  /\ stage[p] = "mail"
  /\ pending[p] = {}
  /\ mailing[p] = NoMail
  /\ stage' = [stage EXCEPT ![p] = "idle"]
  /\ UNCHANGED <<truth, alert, listening, read, found, stale, later, crossed,
                 mails, faults>>

-----------------------------------------------------------------------------
Init ==
  /\ truth = {}
  /\ alert = [s \in Subjects |-> NoAlert]
  /\ listening = TRUE
  /\ stage = [p \in Sweepers |-> "idle"]
  /\ read = [p \in Sweepers |-> 0]
  /\ found = [p \in Sweepers |-> {}]
  /\ stale = [p \in Sweepers |-> {}]
  /\ later = [p \in Sweepers |-> {}]
  /\ crossed = {}
  /\ pending = [p \in Sweepers |-> {}]
  /\ mailing = [p \in Sweepers |-> NoMail]
  /\ faults = 0

Step(p) == \/ Begin(p) \/ EvaluateRule(p) \/ Reconcile(p)
           \/ ListPending(p) \/ Mark(p) \/ End(p)
           \/ \E l \in Listed, through \in BOOLEAN : Mail(p, l, through)

Next ==
  \/ \E s \in Subjects : Turn(s) \/ AcknowledgeAlert(s)
  \/ SetAlertEmail
  \/ \E p \in Sweepers : Step(p) \/ Fail(p) \/ LoseMark(p)

Safety == Init /\ [][Next]_vars

\* The ticker fires for as long as the process runs, and a sweep goes on by
\* itself; mail that is tried for ever gets through some time.  Nothing is
\* assumed of operators' calls, of the books and of who listens.
Fairness ==
  /\ WF_vars(Step(Runner))
  /\ \A s \in Subjects :
       SF_vars(Mail(Runner, [subject |-> s, current |-> TRUE], TRUE))

Spec == Safety /\ Fairness

-----------------------------------------------------------------------------
(* Properties *)

AlertsTypeOK ==
  /\ truth \subseteq Subjects
  /\ alert \in [Subjects -> Alert]
  /\ \A s \in Subjects \ Open : alert[s] = NoAlert
  /\ listening \in BOOLEAN
  /\ stage \in [Sweepers -> {"idle", "evaluate", "notify", "mail"}]
  /\ read \in [Sweepers -> 0..Rules]
  /\ found \in [Sweepers -> SUBSET Subjects]
  /\ stale \in [Sweepers -> SUBSET Subjects]
  /\ \A p \in Sweepers : stale[p] \subseteq Open
  /\ later \in [Sweepers -> SUBSET Sweepers]
  /\ crossed \subseteq Evaluating
  /\ pending \in [Sweepers -> SUBSET Listed]
  /\ mailing \in [Sweepers -> Listed \cup {NoMail}]
  /\ faults \in 0..MaxFaults

\* "An alert is a condition": what is shown is what a sweep saw while it ran.
Board == INSTANCE AlertBoard WITH
  shown   <- Open,
  running <- Evaluating,
  looked  <- [p \in Sweepers |-> 1..read[p]],
  saw     <- found

ShowsWhatItSaw == Board!Spec

\* An alert marked as notified did reach somebody, whichever sweep marked it and
\* whatever became of its row in between.
NotifiedWasMailed ==
  \A s \in Subjects : alert[s].notified => alert[s].rounds > 0

\* "Mailed once rather than every fifteen minutes" (runner.go, notify): each
\* sweeper mails an alert once, and once more for every mark that was lost.
MailedOnce ==
  \A s \in Subjects : alert[s].rounds <= Cardinality(Sweepers) + alert[s].lost

\* A condition that holds for good is shown for good, however sweeps overlap, and
\* one that has gone is cleared: nobody has to remember to close it.
EventuallyAgrees ==
  \A s \in Subjects :
    /\ <>[](s \in truth) => <>[](s \in Open)
    /\ <>[](s \notin truth) => <>[](s \notin Open)

\* A warning that holds is mailed in the end, as long as somebody listens.
EventuallyMailed ==
  \A s \in Mailed :
    (<>[](s \in truth) /\ <>[]listening) => <>[](alert[s].rounds > 0)

=============================================================================
