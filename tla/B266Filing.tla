----------------------------- MODULE B266Filing -----------------------------
(***************************************************************************)
(* The excise return (B266) over the bulk journal: entries dated in past   *)
(* or present months, periods drafted, filed and reopened, the report that *)
(* a filing freezes, and the period lock that is to keep the journal       *)
(* agreeing with it (backend/internal/rpc: b266.go, b266_projection.go,    *)
(* period_lock.go, and db/queries/b266.sql).                               *)
(*                                                                         *)
(* Each RPC is a READ COMMITTED transaction of several statements.  What a *)
(* handler has read so far is kept in call[c]; nothing it read is locked,  *)
(* so other callers commit between its statements.  Days are whole months, *)
(* all bulk spirits stand in one tank, and its balance is what the journal *)
(* moved into it (BulkBooks: JournalAgrees).                               *)
(***************************************************************************)
EXTENDS Integers, Sequences, FiniteSets, Functions

CONSTANTS
  LastMonth,   \* the months are 1..LastMonth
  Ranges,      \* the periods operators draft returns for
  Kinds,       \* the kinds of entries operators record
  Amounts,     \* the LAA of an entry
  Opening,     \* LAA on hand before the first month
  Callers,     \* requests in flight
  Idle,        \* a caller without one
  Careful,     \* TRUE: operators keep to the discipline below
  MaxEntries   \* bound of the model

Month == 1..LastMonth
Spans == [from : Month, to : Month]

\* Where projectB266 puts an entry: added to the opening balance, taken from it,
\* or on no line of the walk.  The last three reverse a voided record; their
\* reason is regauge_correction and their name here is their reference_type.
Receipts    == {"production_gauge", "transfer_in_bond"}
Withdrawals == {"transfer_to_packaging", "transfer_out_in_bond"}
Adoptions   == {"opening_inventory"}
Corrections == {"distillation_run_void", "bottling_run_void", "barrel_event_void"}
Outgoing    == Withdrawals \cup {"distillation_run_void", "barrel_event_void"}

\* run is the run_date of a gauge's distillation run.
Entry == [kind : Receipts \cup Withdrawals \cup Adoptions \cup Corrections,
          date : Month, run : Month, laa : Nat, voided : BOOLEAN]

ASSUME FilingAssumption ==
  /\ LastMonth \in Nat \ {0}
  /\ Ranges \subseteq Spans
  /\ \A p \in Ranges : p.from <= p.to
  /\ Kinds \subseteq Receipts \cup Withdrawals \cup Adoptions
  /\ Amounts \subseteq Nat
  /\ Opening \in Nat
  /\ IsFiniteSet(Callers)
  /\ Careful \in BOOLEAN
  /\ MaxEntries \in Nat

VARIABLES
  entries,   \* bulk_movements, in the order they were committed
  status,    \* of each period: "none", "draft" or "submitted"
  filed,     \* the snapshot on each period's row, not looked at before it is filed
  call,      \* what each caller is doing
  thisMonth

vars == <<entries, status, filed, call, thisMonth>>

-----------------------------------------------------------------------------
(* The report. *)

Months(p) == p.from..p.to

BarelyDisjoint(p, q) == p.to <= q.from \/ q.to <= p.from   \* the next, by one day less
Disjoint(p, q) == p.to < q.from \/ q.to < p.from

Effect(e) == IF e.kind \in Outgoing THEN -e.laa ELSE e.laa

Numbers == DOMAIN entries

OnHand == Opening + SumFunction([i \in Numbers |-> Effect(entries[i])])

\* SumBulkMovementsByReason: a gauge whose run is voided is not counted, and
\* nothing else is left out for being voided.
Counted(e) == ~(e.kind = "production_gauge" /\ e.voided)

Line(p, kinds) ==
  {i \in Numbers : /\ entries[i].kind \in kinds
                   /\ entries[i].date \in Months(p)
                   /\ Counted(entries[i])}

LineSum(p, kinds) == SumFunction([i \in Line(p, kinds) |-> entries[i].laa])

Lines(p) == [receipts |-> LineSum(p, Receipts), withdrawals |-> LineSum(p, Withdrawals)]

\* SumBulkOnHandAsOf, walked back from the running total over what moved after
\* the period; and as it was (no date at all), and a day off.
NothingAfter(p)      == {}
AfterLastMonth(p)    == {i \in Numbers : entries[i].date >= p.to}
After(p)             == {i \in Numbers : entries[i].date > p.to}
ClosingAsOf(p) == OnHand - SumFunction([i \in After(p) |-> Effect(entries[i])])

Report(p) == [lines |-> Lines(p), closing |-> ClosingAsOf(p)]

\* The opening balance, walked back from the closing one.
OpeningOf(r) == r.closing - r.lines.receipts + r.lines.withdrawals

-----------------------------------------------------------------------------
(* The period lock, and the discipline. *)

UnlockedLastMonth(m) ==   \* Locked, forgetting a period's last day
  \E p \in Ranges : status[p] = "submitted" /\ p.from <= m /\ m < p.to

\* B266PeriodCoveringDate.
Locked(m) == \E p \in Ranges : status[p] = "submitted" /\ m \in Months(p)

InCall(c, ops) == call[c] # Idle /\ call[c].op \in ops
Periodic == {"generate", "gather", "submit"}

\* Operators who keep to it draft and file while nobody else is at work, gauge a
\* run in the month it was run, and void something only in its own month, while
\* that month is open; they void no bottling run.
Alone(c)   == Careful => \A d \in Callers \ {c} : call[d] = Idle
NoFiling   == Careful => \A d \in Callers : ~InCall(d, Periodic)
MayVoid(e) == Careful => /\ e.date = thisMonth
                         /\ ~Locked(thisMonth)
                         /\ e.kind # "transfer_to_packaging"

-----------------------------------------------------------------------------
(* Entries.  The handlers check the period first and write last. *)

\* Any of the handlers that record a movement on a given date.
RecordEntry(c) ==
  /\ call[c] = Idle
  /\ NoFiling
  /\ \E k \in Kinds, d \in Month, r \in Month, a \in Amounts :
       /\ ~Locked(d)
       /\ (Careful \/ k # "production_gauge") => r = d
       /\ call' = [call EXCEPT ![c] =
            [op |-> "record",
             entry |-> [kind |-> k, date |-> d, run |-> r, laa |-> a, voided |-> FALSE]]]
  /\ UNCHANGED <<entries, status, filed, thisMonth>>

CommitEntry(c) ==
  /\ InCall(c, {"record"})
  /\ LET e == call[c].entry
     IN  /\ e.kind \in Withdrawals => e.laa <= OnHand
         /\ Len(entries) < MaxEntries
         /\ entries' = Append(entries, e)
  /\ call' = [call EXCEPT ![c] = Idle]
  /\ UNCHANGED <<status, filed, thisMonth>>

\* VoidDistillationRun checks the run's date, VoidBottlingRun the bottling date,
\* VoidBarrelEvent (an adopted barrel's fill) no date.
BeginVoid(c) ==
  /\ call[c] = Idle
  /\ NoFiling
  /\ \E i \in Numbers :
       /\ entries[i].kind \in {"production_gauge", "transfer_to_packaging", "opening_inventory"}
       /\ ~entries[i].voided
       /\ entries[i].kind = "production_gauge" => ~Locked(entries[i].run)
       /\ entries[i].kind = "transfer_to_packaging" => ~Locked(entries[i].date)
       /\ MayVoid(entries[i])
       /\ call' = [call EXCEPT ![c] = [op |-> "void", of |-> i]]
  /\ UNCHANGED <<entries, status, filed, thisMonth>>

Undoing(k) == CASE k = "production_gauge"      -> "distillation_run_void"
                [] k = "transfer_to_packaging" -> "bottling_run_void"
                [] OTHER                       -> "barrel_event_void"

\* The offsetting movement, dated now.
Correction(e) ==
  [kind |-> Undoing(e.kind), date |-> thisMonth, run |-> thisMonth, laa |-> e.laa, voided |-> FALSE]

\* The update that marks the record is guarded by voided_at IS NULL.
CommitVoid(c) ==
  /\ InCall(c, {"void"})
  /\ LET i == call[c].of
         e == entries[i]
     IN  /\ ~e.voided
         /\ e.kind # "transfer_to_packaging" => e.laa <= OnHand
         /\ Len(entries) < MaxEntries
         /\ entries' = Append([entries EXCEPT ![i].voided = TRUE], Correction(e))
  /\ call' = [call EXCEPT ![c] = Idle]
  /\ UNCHANGED <<status, filed, thisMonth>>

-----------------------------------------------------------------------------
(* Periods. *)

\* The overlap check reads, and the insert comes later.
GenerateB266(c) ==
  /\ call[c] = Idle
  /\ Alone(c)
  /\ \E p \in Ranges :
       /\ \A q \in Ranges \ {p} : status[q] # "none" => Disjoint(p, q)
       /\ call' = [call EXCEPT ![c] = [op |-> "generate", period |-> p]]
  /\ UNCHANGED <<entries, status, filed, thisMonth>>

\* An existing row keeps its status.
UpsertB266PeriodDraft(c) ==
  /\ InCall(c, {"generate"})
  /\ LET p == call[c].period
     IN  status' = [status EXCEPT ![p] = IF @ = "none" THEN "draft" ELSE @]
  /\ call' = [call EXCEPT ![c] = Idle]
  /\ UNCHANGED <<entries, filed, thisMonth>>

\* SubmitB266 reads the period and the movements by reason, ...
SubmitB266(c) ==
  /\ call[c] = Idle
  /\ Alone(c)
  /\ \E p \in Ranges :
       /\ status[p] = "draft"
       /\ call' = [call EXCEPT ![c] = [op |-> "gather", period |-> p, lines |-> Lines(p)]]
  /\ UNCHANGED <<entries, status, filed, thisMonth>>

\* ... then, in a statement of its own, the closing balance, ...
GatherClosing(c) ==
  /\ InCall(c, {"gather"})
  /\ LET p == call[c].period
         r == [lines |-> call[c].lines, closing |-> ClosingAsOf(p)]
     IN  call' = [call EXCEPT ![c] = [op |-> "submit", period |-> p, report |-> r]]
  /\ UNCHANGED <<entries, status, filed, thisMonth>>

\* ... and freezes both on the row, if it still is a draft.
SubmitB266Period(c) ==
  /\ InCall(c, {"submit"})
  /\ LET p == call[c].period
     IN  /\ status[p] = "draft"
         /\ status' = [status EXCEPT ![p] = "submitted"]
         /\ filed' = [filed EXCEPT ![p] = call[c].report]
  /\ call' = [call EXCEPT ![c] = Idle]
  /\ UNCHANGED <<entries, thisMonth>>

\* One guarded update; the snapshot stays.
ReopenB266Period(p) ==
  /\ status[p] = "submitted"
  /\ status' = [status EXCEPT ![p] = "draft"]
  /\ UNCHANGED <<entries, filed, call, thisMonth>>

\* A refusal, an error, or a client that went away.
Rollback(c) ==
  /\ call[c] # Idle
  /\ call' = [call EXCEPT ![c] = Idle]
  /\ UNCHANGED <<entries, status, filed, thisMonth>>

\* The disciplined are not at work when the month turns.
NextMonth ==
  /\ thisMonth < LastMonth
  /\ Careful => \A c \in Callers : call[c] = Idle
  /\ thisMonth' = thisMonth + 1
  /\ UNCHANGED <<entries, status, filed, call>>

-----------------------------------------------------------------------------
Init ==
  /\ entries = <<>>
  /\ status = [p \in Ranges |-> "none"]
  /\ filed = [p \in Ranges |-> Report(p)]
  /\ call = [c \in Callers |-> Idle]
  /\ thisMonth = 1

Next ==
  \/ \E c \in Callers :
       \/ RecordEntry(c) \/ CommitEntry(c) \/ BeginVoid(c) \/ CommitVoid(c)
       \/ GenerateB266(c) \/ UpsertB266PeriodDraft(c)
       \/ SubmitB266(c) \/ GatherClosing(c) \/ SubmitB266Period(c)
       \/ Rollback(c)
  \/ \E p \in Ranges : ReopenB266Period(p)
  \/ NextMonth

Spec == Init /\ [][Next]_vars

-----------------------------------------------------------------------------
(* Properties *)

\* "Two returns covering the same day would report the same alcohol twice"
\* (b266.go): no month lies in two of the periods on file.
NoSharedDays ==
  \A p, q \in Ranges :
    p # q /\ status[p] # "none" /\ status[q] # "none" => Months(p) \cap Months(q) = {}

\* What the overlap check does give, though it and the insert are statements of
\* their own and nothing is locked between them: returns share a month only when
\* they were drafted at the same moment, so that over the years no more of them
\* pile up on one month than there are requests at a time.
SharedOnlyInARace ==
  \A m \in Month :
    Cardinality({p \in Ranges : status[p] # "none" /\ m \in Months(p)}) <= Cardinality(Callers)

\* "Mutations that would change a filed month's totals must be blocked - the
\* snapshot is what was filed with CRA and the live tables need to keep agreeing
\* with it" (period_lock.go): the lines of a filed return are those the journal
\* gives now, torn reads and late commits included.
FiledLinesStand ==
  \A p \in Ranges : status[p] = "submitted" => filed[p].lines = Lines(p)

\* Every month up to the period's end is under lock.
Closed(p) == \A m \in 1..p.to : Locked(m)

\* The same of balances: once every month up to a period's end is filed, nothing
\* recorded later moves the report's opening and closing balances.  (The lock
\* of the period alone would not do: an entry in an open month before it moves
\* both.)
ClosedBalancesStand ==
  [][\A p \in Ranges : Closed(p) /\ Closed(p)' =>
       /\ ClosingAsOf(p)' = ClosingAsOf(p)
       /\ OpeningOf(Report(p))' = OpeningOf(Report(p))]_vars

AdoptedIn(p) ==
  SumFunction([i \in {j \in Numbers : /\ entries[j].date \in Months(p)
                                      /\ entries[j].kind \in Adoptions \cup {"barrel_event_void"}}
               |-> Effect(entries[i])])

\* Continuity (b266_projection.go): each period opens with the balance the one
\* before it closed with, or with what stood in the tank before the first, and
\* with what was adopted since, which the walk counts as already there.
BooksContinuous ==
  \A q \in Ranges :
    LET before == OpeningOf(Report(q)) - AdoptedIn(q)
    IN  /\ q.from = 1 => before = Opening
        /\ \A p \in Ranges : q.from = p.to + 1 => before = ClosingAsOf(p)

=============================================================================
