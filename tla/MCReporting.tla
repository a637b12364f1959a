---------------------------- MODULE MCReporting ----------------------------
(* The year 2028, a leap year.  Most licensees owe a province nothing that   *)
(* is due within it; one changes its mind about a report it does owe.        *)
EXTENDS Reporting

Jan == 2028 * 12

Yearly      == [cadence |-> 12, excise |-> FALSE, dueDays |-> -1]
MonthlyOwn  == [cadence |-> 1, excise |-> TRUE, dueDays |-> 15]
Quarterly   == [cadence |-> 3, excise |-> FALSE, dueDays |-> 30]
NoDeadline  == [cadence |-> 3, excise |-> TRUE, dueDays |-> -1]

MCLicensees ==
  {[clock |-> c, months |-> n, definitions |-> {Yearly}, last |-> <<Jan + 7, 31>>] :
     c \in {CalendarMonth, 25}, n \in {1, 6}}
  \cup
  {[clock |-> 28, months |-> 1, definitions |-> {MonthlyOwn, Quarterly}, last |-> <<Jan + 4, 10>>],
   [clock |-> CalendarMonth, months |-> 6, definitions |-> {NoDeadline, Quarterly},
    last |-> <<Jan + 4, 10>>]}

MCAsked == { << <<Jan, 1>>, <<Jan + 1, 29>> >>, << <<Jan + 1, 28>>, <<Jan + 2, 31>> >> }

MCFirst == <<Jan, 1>>

=============================================================================
