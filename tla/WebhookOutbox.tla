--------------------------- MODULE WebhookOutbox ---------------------------
(***************************************************************************)
(* The webhook outbox (backend/internal/webhook): an event's transaction   *)
(* writes one webhook_deliveries row per subscribed endpoint, and a worker *)
(* polls for due rows, POSTs them and records what came of it, retrying    *)
(* with backoff.  A worker is one process' loop; two of them run while a   *)
(* process is being replaced by its successor.                             *)
(*                                                                         *)
(* webhook_claim_due is one statement, committed at once: it counts the    *)
(* attempt, but the row stays pending and due while the POST is out.       *)
(***************************************************************************)
EXTENDS Integers, FiniteSets

CONSTANTS
  Endpoints,      \* ids of webhook_endpoints
  Subscriptions,  \* the deliveries there can be: <<event, endpoint>>
  Unsealable,     \* endpoints whose secret the present key does not open
  Workers,
  MaxAttempts,    \* deliver.go: 5
  Batch,          \* rows claimed at a time: 20
  NoPost,         \* a worker that is not sending
  MaxFailures     \* bound of the model: crashes and failed record calls

ASSUME OutboxAssumption ==
  /\ Unsealable \subseteq Endpoints
  /\ \A d \in Subscriptions : d[2] \in Endpoints
  /\ MaxAttempts \in Nat \ {0}
  /\ Batch \in Nat \ {0}
  /\ MaxFailures \in Nat

Row    == [status : {"none", "pending", "delivered", "failed"},
           attempts : Nat, due : BOOLEAN]
Claims == [delivery : Subscriptions, attempts : Nat]
Posts  == [claim : Claims, answer : {"awaited", "ok", "error", "unsealable"}]

ASSUME NoPostAssumption == NoPost \notin Posts

VARIABLES
  endpoint,   \* "enabled", "disabled" or "deleted"
  row,        \* the row of each delivery; due is next_attempt_at <= NOW()
  batch,      \* the claims a worker has still to attempt
  post,       \* the attempt it is making
  received,   \* deliveries their endpoint has taken in at least once
  waited,     \* seconds of backoff scheduled for each delivery so far
  lost,       \* claims of each delivery whose result was never recorded
  failures

outboxVars == <<endpoint, row, batch, post, received, waited, lost, failures>>

Enabled(e) == endpoint[e] = "enabled"

\* The next, reading every zero delay as success.
OutcomeByDelay(answer, retry) == IF retry THEN "pending" ELSE "delivered"

\* The status a result leaves.  A zero delay means do not retry.
Outcome(answer, retry) ==
  CASE answer = "ok" -> "delivered"
    [] answer = "error" /\ retry -> "pending"
    [] OTHER -> "failed"

\* Backoff: whether a further attempt is allowed after n, and how long to wait.
RetriesOneLess(n) == n < MaxAttempts - 1   \* Retries, off by one
RetriesForever(n) == TRUE                  \* Retries, the count not passed
Retries(n) == n < MaxAttempts
ConstantDelay(n) == 30                     \* Delay, as an earlier draft had it
Wait[n \in Nat] == IF n <= 1 THEN 30 ELSE 4 * Wait[n - 1]
Delay(n) == Wait[n]

\* Due, with the budget in the statement, and without the status.
DueInBudget == {d \in Subscriptions : /\ row[d].status = "pending"
                                      /\ row[d].due
                                      /\ Enabled(d[2])
                                      /\ row[d].attempts < MaxAttempts}

Due == {d \in Subscriptions : /\ row[d].status = "pending"
                              /\ row[d].due
                              /\ Enabled(d[2])}

Counted(n) == n + 1

Idle(w) == batch[w] = {} /\ post[w] = NoPost

-----------------------------------------------------------------------------
(* The transaction of an event, and the endpoint RPCs. *)

EnqueueWebhookDelivery(event) ==
  LET to == {d \in Subscriptions : d[1] = event /\ Enabled(d[2])}
  IN  /\ to # {}
      /\ \A d \in Subscriptions : d[1] = event => row[d].status = "none"
      /\ row' = [d \in Subscriptions |->
                   IF d \in to
                   THEN [status |-> "pending", attempts |-> 0, due |-> TRUE]
                   ELSE row[d]]
      /\ UNCHANGED <<endpoint, batch, post, received, waited, lost, failures>>

SetWebhookEndpointEnabled(e) ==
  /\ endpoint[e] # "deleted"
  /\ \E s \in {"enabled", "disabled"} : endpoint' = [endpoint EXCEPT ![e] = s]
  /\ UNCHANGED <<row, batch, post, received, waited, lost, failures>>

\* Its deliveries go with it (ON DELETE CASCADE).
DeleteWebhookEndpoint(e) ==
  /\ endpoint[e] # "deleted"
  /\ endpoint' = [endpoint EXCEPT ![e] = "deleted"]
  /\ row' = [d \in Subscriptions |->
               IF d[2] = e THEN [row[d] EXCEPT !.status = "none"] ELSE row[d]]
  /\ UNCHANGED <<batch, post, received, waited, lost, failures>>

-----------------------------------------------------------------------------
(* The worker. *)

\* SKIP LOCKED passes over no row here: no claim is in progress between steps.
Claim(w) ==
  /\ Idle(w)
  /\ \E S \in SUBSET Due :
       /\ S # {}
       /\ Cardinality(S) <= Batch
       /\ S = Due \/ Cardinality(S) = Batch
       /\ row' = [d \in Subscriptions |->
                    IF d \in S THEN [row[d] EXCEPT !.attempts = Counted(@)] ELSE row[d]]
       /\ batch' = [batch EXCEPT ![w] =
                      {[delivery |-> d, attempts |-> Counted(row[d].attempts)] : d \in S}]
  /\ UNCHANGED <<endpoint, post, received, waited, lost, failures>>

\* The rows of a batch come in no particular order.
Attempt(w) ==
  /\ post[w] = NoPost
  /\ \E c \in batch[w] :
       /\ batch' = [batch EXCEPT ![w] = @ \ {c}]
       /\ post' = [post EXCEPT ![w] =
                     [claim |-> c,
                      answer |-> IF c.delivery[2] \in Unsealable
                                 THEN "unsealable" ELSE "awaited"]]
  /\ UNCHANGED <<endpoint, row, received, waited, lost, failures>>

\* Any 2xx is success; an error or a timeout says nothing of whether the
\* request was taken in.
Answer(w) ==
  /\ post[w] # NoPost
  /\ post[w].answer = "awaited"
  /\ LET d == post[w].claim.delivery
     IN  \/ /\ post' = [post EXCEPT ![w].answer = "ok"]
            /\ received' = received \cup {d}
         \/ /\ post' = [post EXCEPT ![w].answer = "error"]
            /\ received' \in {received, received \cup {d}}
  /\ UNCHANGED <<endpoint, row, batch, waited, lost, failures>>

\* webhook_record_result, whatever the row has become meanwhile.
Record(w) ==
  /\ post[w] # NoPost
  /\ post[w].answer # "awaited"
  /\ LET c == post[w].claim
         d == c.delivery
         s == Outcome(post[w].answer, Retries(c.attempts))
     IN  /\ row' = IF row[d].status = "none" THEN row
                   ELSE [row EXCEPT ![d].status = s,
                                    ![d].due = @ /\ s # "pending"]
         /\ waited' = IF s # "pending" THEN waited
                      ELSE [waited EXCEPT ![d] = @ + Delay(c.attempts)]
  /\ post' = [post EXCEPT ![w] = NoPost]
  /\ UNCHANGED <<endpoint, batch, received, lost, failures>>

\* An error of the record call is logged and swallowed.
LoseRecord(w) ==
  /\ failures < MaxFailures
  /\ post[w] # NoPost
  /\ post[w].answer # "awaited"
  /\ lost' = [lost EXCEPT ![post[w].claim.delivery] = @ + 1]
  /\ post' = [post EXCEPT ![w] = NoPost]
  /\ failures' = failures + 1
  /\ UNCHANGED <<endpoint, row, batch, received, waited>>

InHand(w) ==
  {c.delivery : c \in batch[w]}
  \cup (IF post[w] = NoPost THEN {} ELSE {post[w].claim.delivery})

\* The process dies or is shut down, its context cancelled; a request on the
\* wire may still arrive.
Crash(w) ==
  /\ failures < MaxFailures
  /\ ~Idle(w)
  /\ lost' = [d \in Subscriptions |-> IF d \in InHand(w) THEN lost[d] + 1 ELSE lost[d]]
  /\ \/ UNCHANGED received
     \/ /\ post[w] # NoPost
        /\ post[w].answer = "awaited"
        /\ received' = received \cup {post[w].claim.delivery}
  /\ batch' = [batch EXCEPT ![w] = {}]
  /\ post' = [post EXCEPT ![w] = NoPost]
  /\ failures' = failures + 1
  /\ UNCHANGED <<endpoint, row, waited>>

\* next_attempt_at passes.
Elapse(d) ==
  /\ row[d].status = "pending"
  /\ ~row[d].due
  /\ row' = [row EXCEPT ![d].due = TRUE]
  /\ UNCHANGED <<endpoint, batch, post, received, waited, lost, failures>>

-----------------------------------------------------------------------------
OutboxInit ==
  /\ endpoint = [e \in Endpoints |-> "enabled"]
  /\ row = [d \in Subscriptions |-> [status |-> "none", attempts |-> 0, due |-> FALSE]]
  /\ batch = [w \in Workers |-> {}]
  /\ post = [w \in Workers |-> NoPost]
  /\ received = {}
  /\ waited = [d \in Subscriptions |-> 0]
  /\ lost = [d \in Subscriptions |-> 0]
  /\ failures = 0

OutboxNext ==
  \/ \E d \in Subscriptions : EnqueueWebhookDelivery(d[1]) \/ Elapse(d)
  \/ \E e \in Endpoints : SetWebhookEndpointEnabled(e) \/ DeleteWebhookEndpoint(e)
  \/ \E w \in Workers : \/ Claim(w) \/ Attempt(w) \/ Answer(w)
                        \/ Record(w) \/ LoseRecord(w) \/ Crash(w)

OutboxSafety == OutboxInit /\ [][OutboxNext]_outboxVars

\* The loop runs as long as the process does; the HTTP client gives up by itself
\* (15 s), so every POST is answered; the clock runs; and a due row is not passed
\* over for ever, because rows are claimed in the order they fell due.  Nothing
\* is assumed of events, operators and crashes.
OutboxFairness ==
  /\ \A w \in Workers : WF_outboxVars(Attempt(w)) /\ WF_outboxVars(Answer(w))
                        /\ WF_outboxVars(Record(w) \/ LoseRecord(w))
  /\ \A d \in Subscriptions :
       /\ WF_outboxVars(Elapse(d))
       /\ SF_outboxVars(\E w \in Workers : Claim(w) /\ row'[d].attempts > row[d].attempts)

OutboxSpec == OutboxSafety /\ OutboxFairness

-----------------------------------------------------------------------------
(* Properties *)

OutboxTypeOK ==
  /\ endpoint \in [Endpoints -> {"enabled", "disabled", "deleted"}]
  /\ row \in [Subscriptions -> Row]
  /\ batch \in [Workers -> SUBSET Claims]
  /\ post \in [Workers -> Posts \cup {NoPost}]
  /\ received \subseteq Subscriptions
  /\ waited \in [Subscriptions -> Int]
  /\ lost \in [Subscriptions -> Nat]
  /\ failures \in 0..MaxFailures

\* What the operator is shown as delivered did reach its endpoint, however many
\* workers, crashes and late results there were.
NoFalseDelivery ==
  \A d \in Subscriptions : row[d].status = "delivered" => d \in received

\* A delivery is given up only after MaxAttempts attempts of it were begun, or
\* because its secret cannot be opened.
NothingGivenUpEarly ==
  \A d \in Subscriptions :
    row[d].status = "failed" => row[d].attempts >= MaxAttempts \/ d[2] \in Unsealable

\* "MaxAttempts is where retrying stops" (deliver.go); a lost result costs one
\* attempt more.
BudgetKept ==
  \A d \in Subscriptions : row[d].attempts <= MaxAttempts + lost[d]

\* A delivery that was settled is not opened again, and one shown as delivered
\* never turns into one that failed.
SettledStays ==
  [][\A d \in Subscriptions :
       row[d].status \in {"delivered", "failed"} =>
         row'[d].status \in {row[d].status, "none"}]_outboxVars

\* Every wait is longer than all the earlier ones together ("a retry storm
\* wearing a backoff's name", worker.go).
WaitsGrow ==
  [][\A d \in Subscriptions :
       waited'[d] # waited[d] => waited'[d] > 2 * waited[d]]_outboxVars

\* A delivery to an endpoint that stays enabled is settled in the end.
EventuallySettled ==
  \A d \in Subscriptions :
    row[d].status = "pending" ~> (row[d].status # "pending" \/ ~Enabled(d[2]))

=============================================================================
