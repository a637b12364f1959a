----------------------------- MODULE Reporting -----------------------------
(***************************************************************************)
(* A licensee's returns through the year: the excise return of every       *)
(* period of the elected calendar, the report a province is owed on a      *)
(* calendar of its own, and the rules that say what is due                 *)
(* (backend/internal/alerting, backend/internal/rpc/provincial.go).        *)
(*                                                                         *)
(* The rules are evaluated in the course of a day, after its midnight.     *)
(***************************************************************************)
EXTENDS ReportingCalendar, FiniteSets

CONSTANTS
  Licensees,  \* the calendar each has elected, the ways each may define the
              \* province's report, and the last day modelled, a bound
  Asked,      \* the ranges <<from, to>> periods are generated for
  FirstDay,
  MaxUnfiled  \* bound of the model: excise returns outstanding

Definition == [cadence : {1, 3, 6, 12}, excise : BOOLEAN, dueDays : -1..400]

ASSUME ReportingAssumption ==
  /\ \A l \in Licensees :
       l.clock \in 0..28 /\ l.months \in {1, 6} /\ l.definitions \subseteq Definition
  /\ \A r \in Asked : IsDate(r[1]) /\ IsDate(r[2])
  /\ IsDate(FirstDay)

NoDate == <<0, 0>>

VARIABLES
  licensee,    \* with filing_frequency and fiscal_month_end_day of tenants
  today,
  unfiled,     \* ended excise periods with no submitted return
  definition,  \* the provincial report as it is now defined
  periods      \* provincial_report_periods; by is the calendar they are of

reportingVars == <<licensee, today, unfiled, definition, periods>>

Running == PeriodContaining(licensee.clock, licensee.months, today)

\* The period to file: the month that has ended, and as it is.
EndedMonth == LastEnded(licensee.clock, 1, today)
Ended == LastEnded(licensee.clock, licensee.months, today)

Due(p) == DueDate(licensee.clock, licensee.months, p.end)

\* The clock of a definition: the licensee's own, or the calendar month.
Clock(d) == IF d.excise THEN licensee.clock ELSE CalendarMonth

-----------------------------------------------------------------------------
(* The rules. *)

\* evaluateFiling, for the last period that has ended.
FilingAlerts ==
  {[kind |-> IF UpTo(Due(Ended), today) THEN "filing_overdue" ELSE "filing_due",
    end |-> Ended.end] :
     p \in {q \in unfiled : q = Ended /\ UpTo(Due(q), Plus(today, 14))}}

\* evaluateProvincialFilings, for every period whose deadline somebody recorded.
ProvincialPeriodsDue ==
  {p \in periods : ~p.filed /\ p.due # NoDate /\ UpTo(p.due, Plus(today, 14))}

ProvincialAlerts ==
  {[kind |-> IF Before(p.due, today) THEN "overdue" ELSE "due", end |-> p.end] :
     p \in ProvincialPeriodsDue}

-----------------------------------------------------------------------------
(* The days, and what the licensee does. *)

\* A period that ends today is outstanding tomorrow.
NextDay ==
  /\ Before(today, licensee.last)
  /\ today' = Tomorrow(today)
  /\ unfiled' = IF today = Running.end THEN unfiled \cup {Running} ELSE unfiled
  /\ Cardinality(unfiled') <= MaxUnfiled
  /\ UNCHANGED <<licensee, definition, periods>>

SubmitB266Return(p) ==
  /\ p \in unfiled
  /\ unfiled' = unfiled \ {p}
  /\ UNCHANGED <<licensee, today, definition, periods>>

SaveProvincialReportDefinition ==
  /\ definition' \in licensee.definitions
  /\ UNCHANGED <<licensee, today, unfiled, periods>>

\* The unique key.
SamePeriod(p, q) == p.start = q.start /\ p.end = q.end

\* The row of a period there was before: the new one, and as the upsert has it,
\* the old one with a due date if it had none.
UpsertedAfresh(old, new) == new
Upserted(old, new) == IF old.due = NoDate THEN [old EXCEPT !.due = new.due] ELSE old

GenerateProvincialPeriods(from, to) ==
  LET c   == Clock(definition)
      n   == definition.cadence
      row == [p \in {PeriodEnding(c, n, e) : e \in PeriodEnds(c, n, from, to)} |->
                [start |-> p.start, end |-> p.end, filed |-> FALSE,
                 by |-> <<c, n>>,
                 due |-> IF definition.dueDays < 0 THEN NoDate
                         ELSE Plus(p.end, definition.dueDays)]]
      new == {row[p] : p \in DOMAIN row}
  IN  /\ periods' =
           {p \in periods : \A q \in new : ~SamePeriod(p, q)}
           \cup {q \in new : \A p \in periods : ~SamePeriod(p, q)}
           \cup {Upserted(pq[1], pq[2]) :
                   pq \in {xy \in periods \X new : SamePeriod(xy[1], xy[2])}}
      /\ UNCHANGED <<licensee, today, unfiled, definition>>

MarkProvincialReportFiled(p) ==
  /\ ~p.filed
  /\ periods' = (periods \ {p}) \cup {[p EXCEPT !.filed = TRUE]}
  /\ UNCHANGED <<licensee, today, unfiled, definition>>

-----------------------------------------------------------------------------
ReportingInit ==
  /\ licensee \in Licensees
  /\ today = FirstDay
  /\ unfiled = {}
  /\ definition \in licensee.definitions
  /\ periods = {}

ReportingNext ==
  \/ NextDay
  \/ \E p \in unfiled : SubmitB266Return(p)
  \/ SaveProvincialReportDefinition
  \/ \E r \in Asked : GenerateProvincialPeriods(r[1], r[2])
  \/ \E p \in periods : MarkProvincialReportFiled(p)

ReportingSpec == ReportingInit /\ [][ReportingNext]_reportingVars

-----------------------------------------------------------------------------
(* What the calendars should be, counted day by day. *)

IsMonthEnd(c, t) == IF c = CalendarMonth THEN Tomorrow(t)[2] = 1 ELSE t[2] = c

IsPeriodEnd(c, n, t) == IsMonthEnd(c, t) /\ (t[1] % 12) \in {k \in 0..11 : (k + 1) % n = 0}

\* The first day from t on, and the last one up to t, of which P holds.
FirstMonthEndFrom(c, t) ==
  LET day[k \in Nat] == IF k = 0 THEN t ELSE Tomorrow(day[k - 1])
  IN  day[CHOOSE k \in 0..31 : /\ IsMonthEnd(c, day[k])
                               /\ \A j \in 0..k - 1 : ~IsMonthEnd(c, day[j])]

\* p is a period: it ends where one ends, starts the day after another has, and
\* no period ends in between (there are n month ends in it).
IsPeriod(c, n, p) ==
  /\ IsPeriodEnd(c, n, p.end)
  /\ IsPeriodEnd(c, n, Yesterday(p.start))
  /\ Yesterday(p.start)[1] = p.end[1] - n

-----------------------------------------------------------------------------
(* Properties *)

\* "When a fiscal month ends, which period comes next, and when its return is
\* due" (filing.go): every day lies in a period as the calendar has them, and
\* its return is due at the first month end after it.
ExcisePeriods ==
  /\ IsPeriod(licensee.clock, licensee.months, Running)
  /\ UpTo(Running.start, today) /\ UpTo(today, Running.end)
  /\ Tomorrow(Ended.end) = Running.start
  /\ Due(Running) = FirstMonthEndFrom(licensee.clock, Tomorrow(Running.end))

\* However often periods are generated, and for whatever ranges: those of one
\* calendar are its periods, and none overlaps another.
ProvincialPeriodsTile ==
  \A p \in periods :
    /\ IsPeriod(p.by[1], p.by[2], p)
    /\ \A q \in periods \ {p} : p.by = q.by => Before(p.end, q.start) \/ Before(q.end, p.start)

\* Generating again does not restate when a past report was due, nor unfile it.
PastReportsStand ==
  [][\A p \in periods : \E q \in periods' :
       /\ q.start = p.start /\ q.end = p.end
       /\ p.filed => q.filed
       /\ p.due # NoDate => q.due = p.due]_reportingVars

\* The excise return that is next due is announced in the fortnight before, and
\* a province's late report is shown as overdue until it is filed.
ReturnsAnnounced ==
  /\ \A p \in unfiled :
       Before(today, Due(p)) /\ UpTo(Due(p), Plus(today, 14))
         => [kind |-> "filing_due", end |-> p.end] \in FilingAlerts
  /\ \A p \in periods :
       ~p.filed /\ p.due # NoDate /\ Before(p.due, today)
         => [kind |-> "overdue", end |-> p.end] \in ProvincialAlerts

\* "It opens when the condition becomes true, stays open while it remains true"
\* (000039_alerts.up.sql), of an excise return that is late.
LateReturnsShown ==
  \A p \in unfiled :
    Before(Due(p), today) => [kind |-> "filing_overdue", end |-> p.end] \in FilingAlerts

=============================================================================
