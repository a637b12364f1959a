------------------------- MODULE ReportingCalendar -------------------------
(***************************************************************************)
(* The reporting calendars: the excise months and periods a licensee has   *)
(* elected (backend/internal/filing) and the periods of the provincial     *)
(* reports (backend/internal/provincial).                                  *)
(*                                                                         *)
(* A date is <<month, day>>, months counted from January of year 0.  A     *)
(* clock is the day its months end on, 1 to 28, or CalendarMonth; a        *)
(* reporting period is so many of its months, aligned to the year.         *)
(***************************************************************************)
EXTENDS Integers

CalendarMonth == 0

Leap(y) == y % 4 = 0 /\ (y % 100 # 0 \/ y % 400 = 0)

DaysIn(m) ==
  CASE m % 12 = 1 -> IF Leap(m \div 12) THEN 29 ELSE 28
    [] m % 12 \in {3, 5, 8, 10} -> 30
    [] OTHER -> 31

IsDate(t) == t \in Int \X Int /\ t[2] \in 1..DaysIn(t[1])

Before(a, b) == a[1] < b[1] \/ (a[1] = b[1] /\ a[2] < b[2])
UpTo(a, b)   == a = b \/ Before(a, b)

Tomorrow(t)  == IF t[2] < DaysIn(t[1]) THEN <<t[1], t[2] + 1>> ELSE <<t[1] + 1, 1>>
Yesterday(t) == IF t[2] > 1 THEN <<t[1], t[2] - 1>> ELSE <<t[1] - 1, DaysIn(t[1] - 1)>>

\* AddDate(0, 0, n).
Plus(t, n) ==
  LET after[k \in Nat] == IF k = 0 THEN t ELSE Tomorrow(after[k - 1])
  IN  after[n]

-----------------------------------------------------------------------------
(* Months *)

\* With the day a month ends on already in the next one, and as it is.
MonthEndOnOrAfterStrictly(c, t) ==
  IF c = CalendarMonth THEN <<t[1], DaysIn(t[1])>>
  ELSE IF t[2] < c THEN <<t[1], c>> ELSE <<t[1] + 1, c>>
MonthEndOnOrAfter(c, t) ==
  IF c = CalendarMonth THEN <<t[1], DaysIn(t[1])>>
  ELSE IF t[2] <= c THEN <<t[1], c>> ELSE <<t[1] + 1, c>>

\* With the last day of the month before, and as it is.
MonthStartOnEnd(c, end) ==
  IF c = CalendarMonth THEN <<end[1], 1>> ELSE <<end[1] - 1, c>>
MonthStartFor(c, end) ==
  IF c = CalendarMonth THEN <<end[1], 1>> ELSE Tomorrow(<<end[1] - 1, c>>)

NextMonthEnd(c, end) == MonthEndOnOrAfter(c, Tomorrow(end))

-----------------------------------------------------------------------------
(* Periods of n months: 1, 3, 6 or 12 *)

\* A period ends in every n-th month of the year; counted from the first one
\* that is looked at, and from January as the code has it.
AlignedAnyhow(n, end) == TRUE
Aligned(n, end) == (end[1] % 12) % n = n - 1

PeriodEndOnOrAfter(c, n, t) ==
  LET first == MonthEndOnOrAfter(c, t)
      end[k \in Nat] == IF k = 0 THEN first ELSE NextMonthEnd(c, end[k - 1])
  IN  end[CHOOSE k \in 0..n - 1 : /\ Aligned(n, end[k])
                                  /\ \A j \in 0..k - 1 : ~Aligned(n, end[j])]

PeriodStartFor(c, n, end) ==
  LET start[k \in Nat] ==
        IF k <= 1 THEN MonthStartFor(c, end)
        ELSE MonthStartFor(c, Yesterday(start[k - 1]))
  IN  start[n]

PeriodEnding(c, n, end) == [start |-> PeriodStartFor(c, n, end), end |-> end]

PeriodContaining(c, n, t) == PeriodEnding(c, n, PeriodEndOnOrAfter(c, n, t))

\* Due one period later, and as it is: one month, however long the period.
DueDatePeriod(c, n, end) == PeriodEndOnOrAfter(c, n, Tomorrow(end))
DueDate(c, n, end) == NextMonthEnd(c, MonthEndOnOrAfter(c, end))

MatchesElection(c, n, p) == p = PeriodContaining(c, n, p.end)

\* The period there is something to file for: the last that has ended.
LastEnded(c, n, today) ==
  PeriodContaining(c, n, Yesterday(PeriodContaining(c, n, today).start))

NextPeriodEnd(c, n, end) ==
  LET next[k \in Nat] == IF k = 0 THEN end ELSE NextMonthEnd(c, next[k - 1])
  IN  next[n]

\* The period ends within [from, to]: the first one left out, and as it is.
PeriodEndsAfter(c, n, from, to) ==
  LET end[k \in Nat] ==
        IF k = 0 THEN NextPeriodEnd(c, n, PeriodEndOnOrAfter(c, n, from))
        ELSE NextPeriodEnd(c, n, end[k - 1])
  IN  {end[k] : k \in {j \in 0..to[1] - from[1] + 1 : UpTo(end[j], to)}}
PeriodEnds(c, n, from, to) ==
  LET end[k \in Nat] ==
        IF k = 0 THEN PeriodEndOnOrAfter(c, n, from)
        ELSE NextPeriodEnd(c, n, end[k - 1])
  IN  {end[k] : k \in {j \in 0..to[1] - from[1] + 1 : UpTo(end[j], to)}}

=============================================================================
