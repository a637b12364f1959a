--------------------------- MODULE Returns_proofs ---------------------------
(***************************************************************************)
(* Theorems about the returns: B266Filing, for any months, periods,        *)
(* amounts and number of callers, and Reporting, for any calendars,        *)
(* definitions and ranges of dates.                                        *)
(*                                                                         *)
(* B266Filing.  Whoever asks, no more returns lie over a month than there  *)
(* are callers: what is on file and what is about to be, counted together  *)
(* (FewShare).  The lines of a filed return stand, among callers who keep  *)
(* to the discipline (Standing), with whom returns share nothing at all    *)
(* (Tiled): what is about to be written lies in an open month and what     *)
(* was gathered is what the journal still gives.  The balances rest on the *)
(* same invariant and on sums over the journal: a month's closing balance  *)
(* is the opening one plus what moved up to it, whatever is voided in the  *)
(* month it is dated in (Ordinary, VoidedInMonth, NothingStrays).          *)
(*                                                                         *)
(* Reporting.  A clock has one month end in every month (MonthEnd), and    *)
(* every n-th is the end of a period (Ends): the functions of the          *)
(* calendar step along these, wherever they start, and a day lies in one   *)
(* period (PeriodOfADay).  The invariant (Scheduled) is that outstanding   *)
(* returns and provincial rows are of such periods, the returns' over and  *)
(* the rows one of each (Rows).                                            *)
(***************************************************************************)
EXTENDS B266Filing, Reporting, Sums, TLAPS

-----------------------------------------------------------------------------
(* The invariant. *)

\* What each kind of call carries.
Shape ==
  /\ entries \in Seq(Entry)
  /\ status \in [Ranges -> {"none", "draft", "submitted"}]
  /\ filed = [p \in Ranges |-> filed[p]]
  /\ call = [c \in Callers |-> call[c]]
  /\ thisMonth \in Month
  /\ \A c \in Callers :
       /\ InCall(c, {"record"}) => call[c].entry \in Entry
       /\ InCall(c, {"void"}) => call[c].of \in DOMAIN entries
       /\ InCall(c, Periodic) => call[c].period \in Ranges

\* A caller at a period has the books to itself.
Apart ==
  \A c, d \in Callers : c # d /\ InCall(c, Periodic) => call[d] = Idle

\* A drafted period was found disjoint from all others, and still is.
Found ==
  \A c \in Callers : InCall(c, {"generate"}) =>
    \A q \in Ranges \ {call[c].period} : status[q] # "none" => Disjoint(call[c].period, q)

\* What is about to be written lies in an open month.
Unlocked ==
  \A c \in Callers :
    /\ InCall(c, {"record"}) => ~Locked(call[c].entry.date)
    /\ InCall(c, {"void"}) => ~Locked(entries[call[c].of].date)

\* What was gathered for a return is what the journal still gives.
Fresh ==
  \A c \in Callers :
    /\ InCall(c, {"gather"}) => call[c].lines = Lines(call[c].period)
    /\ InCall(c, {"submit"}) => call[c].report.lines = Lines(call[c].period)

\* Requests come one at a time, or operators keep the periods to themselves.
Serial == Careful \/ \A c, d \in Callers : c = d

\* The periods on file lie one after the other.
Tiling ==
  \A p, q \in Ranges :
    p # q /\ status[p] # "none" /\ status[q] # "none" => Disjoint(p, q)

Tiled == Shape /\ Apart /\ Found /\ Tiling
Standing == Tiled /\ Unlocked /\ Fresh /\ FiledLinesStand

-----------------------------------------------------------------------------
(* Lines of the report. *)

\* A movement dated outside a period is on none of its lines.
LEMMA AppendElsewhere ==
  ASSUME entries \in Seq(Entry), NEW e \in Entry, entries' = Append(entries, e),
         NEW p \in Ranges, e.date \notin Months(p)
  PROVE  Lines(p)' = Lines(p)
<1>1. /\ Numbers' = Numbers \cup {Len(entries) + 1}
      /\ Len(entries) + 1 \notin Numbers
      /\ \A i \in Numbers : entries'[i] = entries[i]
      /\ entries'[Len(entries) + 1] = e
  BY DEF Numbers
<1>2. \A kinds : Line(p, kinds)' = Line(p, kinds)
  BY <1>1 DEF Line, Counted, Months
<1>3. Line(p, Receipts)' = Line(p, Receipts) /\ Line(p, Withdrawals)' = Line(p, Withdrawals)
  BY <1>2 DEF Receipts, Withdrawals
<1>4. \A kinds : Line(p, kinds) \subseteq Numbers
  BY DEF Line
<1>5. LineSum(p, Receipts)' = LineSum(p, Receipts)
  <2>1. [i \in Line(p, Receipts)' |-> entries'[i].laa] = [i \in Line(p, Receipts) |-> entries[i].laa]
    BY <1>1, <1>3, <1>4
  <2> QED BY <2>1 DEF LineSum
<1>6. LineSum(p, Withdrawals)' = LineSum(p, Withdrawals)
  <2>1. [i \in Line(p, Withdrawals)' |-> entries'[i].laa] = [i \in Line(p, Withdrawals) |-> entries[i].laa]
    BY <1>1, <1>3, <1>4
  <2> QED BY <2>1 DEF LineSum
<1> QED BY <1>5, <1>6 DEF Lines

\* A void moves no line of a period its record lies outside of.
LEMMA VoidElsewhere ==
  ASSUME entries \in Seq(Entry), thisMonth \in Month,
         NEW n \in DOMAIN entries,
         entries' = Append([entries EXCEPT ![n].voided = TRUE], Correction(entries[n])),
         NEW p \in Ranges, entries[n].date \notin Months(p)
  PROVE  Lines(p)' = Lines(p)
<1> DEFINE e == Correction(entries[n])
<1>1. /\ Numbers' = Numbers \cup {Len(entries) + 1}
      /\ Len(entries) + 1 \notin Numbers
      /\ \A i \in Numbers \ {n} : entries'[i] = entries[i]
      /\ entries'[n] = [entries[n] EXCEPT !.voided = TRUE]
      /\ entries'[Len(entries) + 1] = e
  BY DEF Numbers
<1>2. e.kind \notin Receipts \cup Withdrawals
  BY DEF Correction, Undoing, Receipts, Withdrawals
<1>3. entries[n] \in Entry
  OBVIOUS
<1>4. /\ entries'[n].kind = entries[n].kind
      /\ entries'[n].date = entries[n].date
      /\ entries'[n].laa = entries[n].laa
  BY <1>1, <1>3 DEF Entry
<1> HIDE DEF e
<1>5. ASSUME NEW kinds, kinds \subseteq Receipts \cup Withdrawals
      PROVE  Line(p, kinds)' = Line(p, kinds)
  <2>1. n \notin Line(p, kinds) /\ n \notin Line(p, kinds)'
    BY <1>4 DEF Line, Months
  <2>2. Len(entries) + 1 \notin Line(p, kinds) /\ Len(entries) + 1 \notin Line(p, kinds)'
    BY <1>1, <1>2, <1>5 DEF Line
  <2>3. \A i \in Numbers \ {n} : i \in Line(p, kinds)' <=> i \in Line(p, kinds)
    BY <1>1 DEF Line, Counted, Months
  <2>4. Line(p, kinds) \subseteq Numbers /\ Line(p, kinds)' \subseteq Numbers \cup {Len(entries) + 1}
    BY <1>1 DEF Line
  <2>5. \A i : i \in Line(p, kinds)' <=> i \in Line(p, kinds)
    BY <2>1, <2>2, <2>3, <2>4
  <2> QED
    BY <2>5
<1>6. Line(p, Receipts)' = Line(p, Receipts) /\ Line(p, Withdrawals)' = Line(p, Withdrawals)
  BY <1>5 DEF Receipts, Withdrawals
<1>7. \A kinds : \A i \in Line(p, kinds) : i \in Numbers /\ i # n
  BY DEF Line
<1>8. LineSum(p, Receipts)' = LineSum(p, Receipts)
  <2>1. [i \in Line(p, Receipts)' |-> entries'[i].laa] = [i \in Line(p, Receipts) |-> entries[i].laa]
    BY <1>1, <1>6, <1>7
  <2> QED
    BY <2>1 DEF LineSum
<1>9. LineSum(p, Withdrawals)' = LineSum(p, Withdrawals)
  <2>1. [i \in Line(p, Withdrawals)' |-> entries'[i].laa] = [i \in Line(p, Withdrawals) |-> entries[i].laa]
    BY <1>1, <1>6, <1>7
  <2> QED
    BY <2>1 DEF LineSum
<1> QED
  BY <1>8, <1>9 DEF Lines

\* Where no entry moves, no line does.
LEMMA SameEntries ==
  ASSUME UNCHANGED entries, NEW p
  PROVE  Lines(p)' = Lines(p)
BY DEF Lines, LineSum, Line, Counted, Numbers, Months

-----------------------------------------------------------------------------
(* Periods share no days. *)

LEMMA FirstTiled ==
  ASSUME Init PROVE Tiled
BY FilingAssumption DEF Init, Tiled, Shape, Apart, Found, Tiling, InCall, Month

LEMMA TiledNext ==
  ASSUME Tiled, Serial, [Next]_vars PROVE Tiled'
<1> USE DEF Tiled, InCall, Periodic
<1>1. ASSUME NEW c \in Callers, RecordEntry(c) PROVE Tiled'
  <2>1. PICK k \in Kinds, d \in Month, r \in Month, a \in Amounts :
          call' = [call EXCEPT ![c] =
            [op |-> "record",
             entry |-> [kind |-> k, date |-> d, run |-> r, laa |-> a, voided |-> FALSE]]]
    BY <1>1 DEF RecordEntry
  <2>2. [kind |-> k, date |-> d, run |-> r, laa |-> a, voided |-> FALSE] \in Entry
    BY FilingAssumption DEF Entry
  <2>3. Shape'
    BY <1>1, <2>1, <2>2 DEF RecordEntry, Shape
  <2>4. Apart'
    BY <1>1, <2>1 DEF RecordEntry, Shape, Apart, NoFiling, Serial
  <2>5. Found' /\ Tiling'
    BY <1>1, <2>1 DEF RecordEntry, Shape, Found, Tiling, Disjoint
  <2> QED
    BY <2>3, <2>4, <2>5
<1>2. ASSUME NEW c \in Callers, CommitEntry(c) PROVE Tiled'
  <2>1. call[c].entry \in Entry /\ entries' = Append(entries, call[c].entry)
    BY <1>2 DEF CommitEntry, Shape
  <2>2. entries' \in Seq(Entry) /\ DOMAIN entries \subseteq DOMAIN entries'
    BY <2>1 DEF Shape
  <2>3. Shape'
    BY <1>2, <2>2 DEF CommitEntry, Shape
  <2>4. Apart' /\ Found' /\ Tiling'
    BY <1>2 DEF CommitEntry, Shape, Apart, Found, Tiling, Disjoint
  <2> QED
    BY <2>3, <2>4
<1>3. ASSUME NEW c \in Callers, BeginVoid(c) PROVE Tiled'
  <2>1. Shape'
    BY <1>3 DEF BeginVoid, Shape, Numbers
  <2>2. Apart'
    BY <1>3 DEF BeginVoid, Shape, Apart, NoFiling, Serial
  <2>3. Found' /\ Tiling'
    BY <1>3 DEF BeginVoid, Shape, Found, Tiling, Disjoint
  <2> QED
    BY <2>1, <2>2, <2>3
<1>4. ASSUME NEW c \in Callers, CommitVoid(c) PROVE Tiled'
  <2> DEFINE n == call[c].of
  <2>1. n \in DOMAIN entries /\ entries[n] \in Entry
    BY <1>4 DEF CommitVoid, Shape
  <2>2. Correction(entries[n]) \in Entry
    BY <2>1 DEF Correction, Undoing, Entry, Corrections, Shape
  <2> DEFINE e == [entries[n] EXCEPT !.voided = TRUE]
  <2>3. e \in Entry
    BY <2>1 DEF Entry
  <2> HIDE DEF e
  <2>4. [entries EXCEPT ![n] = e] \in Seq(Entry)
    BY <2>1, <2>3 DEF Shape
  <2>5. entries' = Append([entries EXCEPT ![n] = e], Correction(entries[n]))
    BY <1>4 DEF CommitVoid, e
  <2>6. entries' \in Seq(Entry) /\ DOMAIN entries \subseteq DOMAIN entries'
    BY <2>2, <2>4, <2>5 DEF Shape
  <2>7. Shape'
    BY <1>4, <2>6 DEF CommitVoid, Shape
  <2>8. Apart' /\ Found' /\ Tiling'
    BY <1>4 DEF CommitVoid, Shape, Apart, Found, Tiling, Disjoint
  <2> QED
    BY <2>7, <2>8
<1>5. ASSUME NEW c \in Callers, GenerateB266(c) PROVE Tiled'
  <2>1. Shape'
    BY <1>5 DEF GenerateB266, Shape
  <2>2. Apart'
    BY <1>5 DEF GenerateB266, Shape, Apart, Alone, Serial
  <2>3. Found' /\ Tiling'
    BY <1>5 DEF GenerateB266, Shape, Found, Tiling, Disjoint
  <2> QED
    BY <2>1, <2>2, <2>3
<1>6. ASSUME NEW c \in Callers, UpsertB266PeriodDraft(c) PROVE Tiled'
  <2> DEFINE p == call[c].period
  <2>1. /\ p \in Ranges
        /\ \A q \in Ranges \ {p} : status'[q] = status[q]
    BY <1>6 DEF UpsertB266PeriodDraft, Shape
  <2>2. Shape'
    BY <1>6, <2>1 DEF UpsertB266PeriodDraft, Shape
  <2>3. \A d \in Callers : ~InCall(d, Periodic)'
    BY <1>6 DEF UpsertB266PeriodDraft, Shape, Apart
  <2>4. Apart' /\ Found'
    BY <2>3 DEF Apart, Found
  <2>5. \A q \in Ranges \ {p} : status[q] # "none" => Disjoint(p, q) /\ Disjoint(q, p)
    BY <1>6 DEF UpsertB266PeriodDraft, Found, Disjoint
  <2>6. Tiling'
    BY <2>1, <2>5 DEF Tiling, Disjoint
  <2> QED
    BY <2>2, <2>4, <2>6
<1>7. ASSUME NEW c \in Callers, SubmitB266(c) PROVE Tiled'
  <2>1. Shape'
    BY <1>7 DEF SubmitB266, Shape
  <2>2. Apart'
    BY <1>7 DEF SubmitB266, Shape, Apart, Alone, Serial
  <2>3. Found' /\ Tiling'
    BY <1>7 DEF SubmitB266, Shape, Found, Tiling, Disjoint
  <2> QED
    BY <2>1, <2>2, <2>3
<1>8. ASSUME NEW c \in Callers, GatherClosing(c) PROVE Tiled'
  <2>1. Shape'
    BY <1>8 DEF GatherClosing, Shape
  <2>2. Apart'
    BY <1>8 DEF GatherClosing, Shape, Apart
  <2>3. Found' /\ Tiling'
    BY <1>8 DEF GatherClosing, Shape, Found, Tiling, Disjoint
  <2> QED
    BY <2>1, <2>2, <2>3
<1>9. ASSUME NEW c \in Callers, SubmitB266Period(c) PROVE Tiled'
  <2> DEFINE p == call[c].period
  <2>1. /\ p \in Ranges
        /\ \A q \in Ranges : status'[q] # "none" => status[q] # "none"
    BY <1>9 DEF SubmitB266Period, Shape
  <2>2. Shape'
    BY <1>9, <2>1 DEF SubmitB266Period, Shape
  <2>3. Apart' /\ Found' /\ Tiling'
    BY <1>9, <2>1 DEF SubmitB266Period, Shape, Apart, Found, Tiling, Disjoint
  <2> QED
    BY <2>2, <2>3
<1>10. ASSUME NEW p \in Ranges, ReopenB266Period(p) PROVE Tiled'
  <2>1. \A q \in Ranges : status'[q] # "none" => status[q] # "none"
    BY <1>10 DEF ReopenB266Period, Shape
  <2>2. Shape'
    BY <1>10 DEF ReopenB266Period, Shape
  <2>3. Apart' /\ Found' /\ Tiling'
    BY <1>10, <2>1 DEF ReopenB266Period, Apart, Found, Tiling, Disjoint
  <2> QED
    BY <2>2, <2>3
<1>11. ASSUME NEW c \in Callers, Rollback(c) PROVE Tiled'
  <2>1. Shape'
    BY <1>11 DEF Rollback, Shape
  <2>2. Apart' /\ Found' /\ Tiling'
    BY <1>11 DEF Rollback, Shape, Apart, Found, Tiling, Disjoint
  <2> QED
    BY <2>1, <2>2
<1>12. CASE NextMonth
  BY <1>12, FilingAssumption DEF NextMonth, Shape, Apart, Found, Tiling, Disjoint, Month
<1>13. CASE UNCHANGED vars
  BY <1>13 DEF vars, Shape, Apart, Found, Tiling, Disjoint
<1> QED
  BY <1>1, <1>2, <1>3, <1>4, <1>5, <1>6, <1>7, <1>8, <1>9, <1>10, <1>11, <1>12, <1>13 DEF Next

-----------------------------------------------------------------------------
(* Returns that were drafted at one moment. *)

\* The callers about to insert a return, and the months that are spoken for.
Inserting == {c \in Callers : InCall(c, {"generate"})}
Spoken(m) ==
  {p \in Ranges : /\ m \in Months(p)
                  /\ status[p] # "none" \/ \E c \in Inserting : call[c].period = p}

\* What is on file or about to be is no more than there are callers, of any month.
FewShare ==
  /\ DOMAIN call = Callers /\ DOMAIN status = Ranges
  /\ \A c \in Callers : InCall(c, Periodic) => call[c].period \in Ranges
  /\ \A m \in Month : IsFiniteSet(Spoken(m)) /\ Cardinality(Spoken(m)) <= Cardinality(Callers)

\* A month no more spoken for than before is fine.
LEMMA FewerSpoken ==
  ASSUME FewShare, NEW m \in Month, Spoken(m)' \subseteq Spoken(m)
  PROVE  IsFiniteSet(Spoken(m)') /\ Cardinality(Spoken(m)') <= Cardinality(Callers)
<1> DEFINE S == Spoken(m)
           T == Spoken(m)'
<1>1. IsFiniteSet(S) /\ Cardinality(S) <= Cardinality(Callers) /\ T \in SUBSET S
  BY DEF FewShare
<1> SUFFICES IsFiniteSet(T) /\ Cardinality(T) <= Cardinality(Callers)
  OBVIOUS
<1> HIDE DEF S, T
<1>2. IsFiniteSet(T) /\ Cardinality(T) <= Cardinality(S)
      /\ Cardinality(S) \in Nat /\ Cardinality(T) \in Nat /\ Cardinality(Callers) \in Nat
  BY <1>1, FilingAssumption, FS_Subset, FS_CardinalityType
<1> QED BY <1>1, <1>2

\* A caller whose draft passed the check found nothing on file for its months: what
\* is spoken for then is its own period and those in the other callers' hands.
LEMMA DraftSpeaks ==
  ASSUME FewShare, NEW c \in Callers, NEW p \in Ranges, NEW m \in Months(p), m \in Month,
         \A q \in Ranges \ {p} : status[q] # "none" => Disjoint(p, q),
         call[c] = Idle, UNCHANGED status,
         call' = [call EXCEPT ![c] = [op |-> "generate", period |-> p]]
  PROVE  IsFiniteSet(Spoken(m)') /\ Cardinality(Spoken(m)') <= Cardinality(Callers)
<1> DEFINE Others == Inserting \ {c}
           Theirs == {q \in Ranges : \E d \in Others : call[d].period = q}
<1>2. /\ c \notin Inserting /\ status' = status
      /\ Inserting' \subseteq Inserting \cup {c}
      /\ \A d \in Others : call'[d] = call[d]
      /\ call'[c].period = p
  BY FilingAssumption DEF FewShare, Inserting, InCall
<1>3. IsFiniteSet(Others) /\ Cardinality(Others) + 1 <= Cardinality(Callers)
      /\ Cardinality(Others) \in Nat /\ Cardinality(Callers) \in Nat
  <2>1. /\ IsFiniteSet(Callers \ {c}) /\ Cardinality(Callers \ {c}) = Cardinality(Callers) - 1
        /\ Cardinality(Callers) \in Nat
    BY FilingAssumption, FS_RemoveElement, FS_CardinalityType
  <2>2. IsFiniteSet(Others) /\ Cardinality(Others) <= Cardinality(Callers \ {c})
    <3> Others \in SUBSET (Callers \ {c})
      BY DEF Inserting
    <3> HIDE DEF Others
    <3> QED BY <2>1, FS_Subset
  <2> HIDE DEF Others
  <2> QED BY <2>1, <2>2, FS_CardinalityType
<1>4. IsFiniteSet(Theirs) /\ Cardinality(Theirs) <= Cardinality(Others)
  <2> DEFINE of == [d \in Others |-> call[d].period]
  <2>1. \A d \in Others : call[d].period \in Ranges
    BY DEF FewShare, Inserting, InCall, Periodic
  <2>2. of \in Surjection(Others, Theirs)
    BY <2>1 DEF Surjection
  <2> HIDE DEF of, Theirs, Others
  <2> QED BY <1>3, <2>2, FS_Surjection
<1>5. /\ IsFiniteSet(Theirs \cup {p})
      /\ Cardinality(Theirs \cup {p}) <= Cardinality(Theirs) + 1
      /\ Cardinality(Theirs) \in Nat /\ Cardinality(Theirs \cup {p}) \in Nat
  <2> HIDE DEF Theirs, Others
  <2>1. /\ IsFiniteSet(Theirs \cup {p}) /\ Cardinality(Theirs) \in Nat
        /\ Cardinality(Theirs \cup {p}) = IF p \in Theirs THEN Cardinality(Theirs)
                                                        ELSE Cardinality(Theirs) + 1
    BY <1>4, FS_AddElement, FS_CardinalityType
  <2> QED BY <2>1
<1>6. IsFiniteSet(Spoken(m)') /\ Cardinality(Spoken(m)') <= Cardinality(Theirs \cup {p})
      /\ Cardinality(Spoken(m)') \in Nat
  <2> DEFINE S == Spoken(m)'
  <2>1. S \in SUBSET (Theirs \cup {p})
    <3> SUFFICES ASSUME NEW q \in S, q # p PROVE q \in Theirs
      BY DEF Spoken
    <3>1. q \in Ranges /\ m \in Months(q)
      BY DEF Spoken
    <3>2. status[q] # "none" \/ \E d \in Others : call[d].period = q
      BY <1>2 DEF Spoken
    <3>3. status[q] = "none"
      BY <3>1, FilingAssumption DEF Disjoint, Months, Spans, Month
    <3> QED BY <3>1, <3>2, <3>3
  <2> HIDE DEF S, Theirs, Others
  <2>2. IsFiniteSet(S) /\ Cardinality(S) <= Cardinality(Theirs \cup {p}) /\ Cardinality(S) \in Nat
    BY <1>5, <2>1, FS_Subset, FS_CardinalityType
  <2> QED BY <2>2 DEF S
<1> HIDE DEF Theirs, Others
<1> QED BY <1>3, <1>4, <1>5, <1>6

\* The callers' hands and the rows: what a step leaves of FewShare.
LEMMA FewShareNext ==
  ASSUME FewShare, [Next]_vars PROVE FewShare'
<1> DEFINE Hands == /\ (DOMAIN call = Callers /\ DOMAIN status = Ranges)'
                    /\ \A c \in Callers : InCall(c, Periodic)' => call'[c].period \in Ranges
           NoMore == \A m \in Month : Spoken(m)' \subseteq Spoken(m)
<1> USE DEF FewShare, InCall, Periodic, Spoken, Inserting
<1> SUFFICES Hands /\ (NoMore \/ \E c \in Callers, p \in Ranges :
                /\ \A q \in Ranges \ {p} : status[q] # "none" => Disjoint(p, q)
                /\ call[c] = Idle /\ UNCHANGED status
                /\ call' = [call EXCEPT ![c] = [op |-> "generate", period |-> p]])
  <2> HIDE DEF InCall, Periodic
  <2>1. ASSUME NoMore PROVE \A m \in Month : /\ IsFiniteSet(Spoken(m)')
                                            /\ Cardinality(Spoken(m)') <= Cardinality(Callers)
    <3> HIDE DEF FewShare, Spoken
    <3> QED BY <2>1, FewerSpoken
  <2>2. ASSUME NEW c \in Callers, NEW p \in Ranges,
               \A q \in Ranges \ {p} : status[q] # "none" => Disjoint(p, q),
               call[c] = Idle, UNCHANGED status,
               call' = [call EXCEPT ![c] = [op |-> "generate", period |-> p]]
        PROVE  \A m \in Month : /\ IsFiniteSet(Spoken(m)')
                                 /\ Cardinality(Spoken(m)') <= Cardinality(Callers)
    <3> TAKE m \in Month
    <3>1. CASE m \in Months(p)
      <4> HIDE DEF FewShare, Spoken
      <4> QED BY <2>2, <3>1, DraftSpeaks
    <3>2. CASE m \notin Months(p)
      <4>1. Spoken(m)' \subseteq Spoken(m)
        BY <2>2, <3>2 DEF InCall
      <4> HIDE DEF FewShare, Spoken
      <4> QED BY <4>1, FewerSpoken
    <3> QED BY <3>1, <3>2
  <2> HIDE DEF Spoken
  <2> QED BY <2>1, <2>2
<1>1. ASSUME NEW c \in Callers, RecordEntry(c) PROVE Hands /\ NoMore
  BY <1>1 DEF RecordEntry
<1>2. ASSUME NEW c \in Callers, CommitEntry(c) PROVE Hands /\ NoMore
  BY <1>2, FilingAssumption DEF CommitEntry
<1>3. ASSUME NEW c \in Callers, BeginVoid(c) PROVE Hands /\ NoMore
  BY <1>3 DEF BeginVoid
<1>4. ASSUME NEW c \in Callers, CommitVoid(c) PROVE Hands /\ NoMore
  BY <1>4 DEF CommitVoid
<1>5. ASSUME NEW c \in Callers, GenerateB266(c)
      PROVE  Hands /\ \E p \in Ranges :
                /\ \A q \in Ranges \ {p} : status[q] # "none" => Disjoint(p, q)
                /\ call[c] = Idle /\ UNCHANGED status
                /\ call' = [call EXCEPT ![c] = [op |-> "generate", period |-> p]]
  <2>1. PICK p \in Ranges :
          /\ \A q \in Ranges \ {p} : status[q] # "none" => Disjoint(p, q)
          /\ call' = [call EXCEPT ![c] = [op |-> "generate", period |-> p]]
    BY <1>5 DEF GenerateB266
  <2>2. call[c] = Idle /\ status' = status
    BY <1>5 DEF GenerateB266
  <2>3. Hands
    BY <2>1, <2>2
  <2> QED BY <2>1, <2>2, <2>3
<1>6. ASSUME NEW c \in Callers, UpsertB266PeriodDraft(c) PROVE Hands /\ NoMore
  BY <1>6 DEF UpsertB266PeriodDraft
<1>7. ASSUME NEW c \in Callers, SubmitB266(c) PROVE Hands /\ NoMore
  BY <1>7 DEF SubmitB266
<1>8. ASSUME NEW c \in Callers, GatherClosing(c) PROVE Hands /\ NoMore
  BY <1>8 DEF GatherClosing
<1>9. ASSUME NEW c \in Callers, SubmitB266Period(c) PROVE Hands /\ NoMore
  BY <1>9 DEF SubmitB266Period
<1>10. ASSUME NEW p \in Ranges, ReopenB266Period(p) PROVE Hands /\ NoMore
  BY <1>10 DEF ReopenB266Period
<1>11. ASSUME NEW c \in Callers, Rollback(c) PROVE Hands /\ NoMore
  BY <1>11 DEF Rollback
<1>12. ASSUME NextMonth \/ UNCHANGED vars PROVE Hands /\ NoMore
  BY <1>12 DEF NextMonth, vars
<1> QED
  BY <1>1, <1>2, <1>3, <1>4, <1>5, <1>6, <1>7, <1>8, <1>9, <1>10, <1>11, <1>12 DEF Next

\* However many drafts are asked for side by side, no month lies in more of the
\* returns on file than there are callers: two requests that come one after the
\* other never share a day, whatever else is recorded, filed and reopened.
THEOREM SharingIsBounded == Spec => []SharedOnlyInARace
<1>1. Init => FewShare
  <2> SUFFICES ASSUME Init PROVE FewShare
    OBVIOUS
  <2>1. \A m : Spoken(m) = {}
    BY FilingAssumption DEF Init, Spoken, Inserting, InCall
  <2>2. IsFiniteSet({}) /\ Cardinality({}) = 0 /\ Cardinality(Callers) \in Nat
    BY FS_EmptySet, FS_CardinalityType, FilingAssumption
  <2>3. /\ DOMAIN call = Callers /\ DOMAIN status = Ranges
        /\ \A c \in Callers : ~InCall(c, Periodic)
    BY DEF Init, InCall
  <2> QED BY <2>1, <2>2, <2>3 DEF FewShare
<1>2. FewShare /\ [Next]_vars => FewShare'
  BY FewShareNext
<1>3. FewShare => SharedOnlyInARace
  <2> SUFFICES ASSUME FewShare, NEW m \in Month
               PROVE  Cardinality({p \in Ranges : status[p] # "none" /\ m \in Months(p)})
                        <= Cardinality(Callers)
    BY DEF SharedOnlyInARace
  <2> DEFINE S == Spoken(m)
             T == {p \in Ranges : status[p] # "none" /\ m \in Months(p)}
  <2>1. T \in SUBSET S
    BY DEF Spoken
  <2>2. IsFiniteSet(S) /\ Cardinality(S) <= Cardinality(Callers)
    BY DEF FewShare
  <2> HIDE DEF S, T
  <2>3. /\ Cardinality(T) <= Cardinality(S) /\ IsFiniteSet(T)
    BY <2>1, <2>2, FS_Subset
  <2>4. Cardinality(T) \in Nat /\ Cardinality(S) \in Nat /\ Cardinality(Callers) \in Nat
    BY <2>2, <2>3, FilingAssumption, FS_CardinalityType
  <2>5. Cardinality(T) <= Cardinality(Callers)
    BY <2>2, <2>3, <2>4
  <2> QED BY <2>5 DEF T
<1> QED
  BY <1>1, <1>2, <1>3, PTL DEF Spec

-----------------------------------------------------------------------------
(* The lines of a filed return stand. *)

\* Steps that commit no entry and file nothing keep every month as open as it
\* was, and every line.
LEMMA NothingCommitted ==
  ASSUME Standing, Shape', UNCHANGED <<entries, filed>>,
         \A p \in Ranges : status'[p] = "submitted" => status[p] = "submitted"
  PROVE  /\ FiledLinesStand'
         /\ \A m : Locked(m)' => Locked(m)
         /\ \A p : Lines(p)' = Lines(p)
<1>1. \A p : Lines(p)' = Lines(p)
  BY SameEntries
<1>2. FiledLinesStand'
  BY <1>1 DEF Standing, FiledLinesStand
<1>3. \A m : Locked(m)' => Locked(m)
  BY DEF Locked, Months
<1> QED
  BY <1>1, <1>2, <1>3

LEMMA FirstStanding ==
  ASSUME Init PROVE Standing
BY FirstTiled DEF Init, Standing, Unlocked, Fresh, FiledLinesStand, InCall

LEMMA StandingNext ==
  ASSUME Standing, Careful, [Next]_vars PROVE Standing'
<1>0. Tiled'
  BY TiledNext DEF Standing, Serial
<1> USE <1>0 DEF InCall, Periodic
<1>s. Shape /\ Apart /\ Shape'
  BY DEF Standing, Tiled
<1>1. ASSUME NEW c \in Callers, RecordEntry(c) PROVE Standing'
  <2>1. PICK e : /\ ~Locked(e.date)
                 /\ call' = [call EXCEPT ![c] = [op |-> "record", entry |-> e]]
    BY <1>1 DEF RecordEntry
  <2>2. UNCHANGED <<entries, status, filed>>
    BY <1>1 DEF RecordEntry
  <2>3. /\ FiledLinesStand'
        /\ \A m : Locked(m)' => Locked(m)
        /\ \A p : Lines(p)' = Lines(p)
    BY <2>2, <1>s, NothingCommitted
  <2>4. Unlocked'
    BY <2>1, <2>2, <2>3, <1>s DEF Standing, Unlocked, Shape
  <2>5. Fresh'
    BY <2>1, <2>3, <1>s DEF Standing, Fresh, Shape
  <2> QED
    BY <2>3, <2>4, <2>5 DEF Standing
<1>2. ASSUME NEW c \in Callers, CommitEntry(c) PROVE Standing'
  <2> DEFINE e == call[c].entry
  <2>1. /\ e \in Entry
        /\ entries' = Append(entries, e)
        /\ ~Locked(e.date)
        /\ UNCHANGED <<status, filed>>
        /\ call' = [call EXCEPT ![c] = Idle]
    BY <1>2, <1>s DEF CommitEntry, Shape, Standing, Unlocked
  <2>2. \A p \in Ranges : status[p] = "submitted" => Lines(p)' = Lines(p)
    BY <2>1, <1>s, AppendElsewhere DEF Locked, Shape
  <2>3. FiledLinesStand'
    BY <2>1, <2>2 DEF Standing, FiledLinesStand
  <2>4. \A d \in Callers : ~InCall(d, Periodic)'
    BY <1>2, <2>1, <1>s DEF CommitEntry, Shape, Apart
  <2>5. Fresh'
    BY <2>4 DEF Fresh
  <2>6. \A i \in DOMAIN entries : entries'[i] = entries[i]
    BY <2>1, <1>s DEF Shape
  <2>7. Unlocked'
    BY <2>1, <2>6, <1>s DEF Standing, Unlocked, Shape, Locked, Months
  <2> QED
    BY <2>3, <2>5, <2>7 DEF Standing
<1>3. ASSUME NEW c \in Callers, BeginVoid(c) PROVE Standing'
  <2>1. PICK n \in DOMAIN entries :
          /\ ~Locked(entries[n].date)
          /\ call' = [call EXCEPT ![c] = [op |-> "void", of |-> n]]
    BY <1>3 DEF BeginVoid, MayVoid, Numbers
  <2>2. UNCHANGED <<entries, status, filed>>
    BY <1>3 DEF BeginVoid
  <2>3. /\ FiledLinesStand'
        /\ \A m : Locked(m)' => Locked(m)
        /\ \A p : Lines(p)' = Lines(p)
    BY <2>2, <1>s, NothingCommitted
  <2>4. Unlocked'
    BY <2>1, <2>2, <2>3, <1>s DEF Standing, Unlocked, Shape
  <2>5. Fresh'
    BY <2>1, <2>3, <1>s DEF Standing, Fresh, Shape
  <2> QED
    BY <2>3, <2>4, <2>5 DEF Standing
<1>4. ASSUME NEW c \in Callers, CommitVoid(c) PROVE Standing'
  <2> DEFINE n == call[c].of
  <2>1. /\ n \in DOMAIN entries
        /\ entries' = Append([entries EXCEPT ![n].voided = TRUE], Correction(entries[n]))
        /\ ~Locked(entries[n].date)
        /\ UNCHANGED <<status, filed>>
        /\ call' = [call EXCEPT ![c] = Idle]
    BY <1>4, <1>s DEF CommitVoid, Shape, Standing, Unlocked
  <2>2. \A p \in Ranges : status[p] = "submitted" => Lines(p)' = Lines(p)
    BY <2>1, <1>s, VoidElsewhere DEF Locked, Shape
  <2>3. FiledLinesStand'
    BY <2>1, <2>2 DEF Standing, FiledLinesStand
  <2>4. \A d \in Callers : ~InCall(d, Periodic)'
    BY <1>4, <2>1, <1>s DEF CommitVoid, Shape, Apart
  <2>5. Fresh'
    BY <2>4 DEF Fresh
  <2>6. \A i \in DOMAIN entries : entries'[i].date = entries[i].date
    <3>1. ASSUME NEW i \in DOMAIN entries PROVE entries'[i].date = entries[i].date
      <4>1. entries'[i] = [entries EXCEPT ![n].voided = TRUE][i]
        BY <2>1, <1>s DEF Shape
      <4>2. entries[i] \in Entry
        BY <1>s DEF Shape
      <4> QED
        BY <4>1, <4>2 DEF Entry
    <3> QED
      BY <3>1
  <2>7. Unlocked'
    BY <2>1, <2>6, <1>s DEF Standing, Unlocked, Shape, Locked, Months
  <2> QED
    BY <2>3, <2>5, <2>7 DEF Standing
<1>5. ASSUME NEW c \in Callers,
             \/ GenerateB266(c)
             \/ UpsertB266PeriodDraft(c)
             \/ Rollback(c)
      PROVE  Standing'
  <2>1. /\ UNCHANGED <<entries, filed>>
        /\ \A p \in Ranges : status'[p] = "submitted" => status[p] = "submitted"
        /\ \A d \in Callers \ {c} : call'[d] = call[d]
        /\ call'[c] = Idle \/ call'[c].op = "generate"
    BY <1>5, <1>s DEF GenerateB266, UpsertB266PeriodDraft, Rollback, Shape
  <2>2. /\ FiledLinesStand'
        /\ \A m : Locked(m)' => Locked(m)
        /\ \A p : Lines(p)' = Lines(p)
    BY <2>1, <1>s, NothingCommitted
  <2>3. Unlocked'
    BY <2>1, <2>2 DEF Standing, Unlocked
  <2>4. Fresh'
    BY <2>1, <2>2 DEF Standing, Fresh
  <2> QED
    BY <2>2, <2>3, <2>4 DEF Standing
<1>6. ASSUME NEW c \in Callers, SubmitB266(c) PROVE Standing'
  <2>1. PICK p \in Ranges :
          call' = [call EXCEPT ![c] = [op |-> "gather", period |-> p, lines |-> Lines(p)]]
    BY <1>6 DEF SubmitB266
  <2>2. UNCHANGED <<entries, status, filed>>
    BY <1>6 DEF SubmitB266
  <2>3. /\ FiledLinesStand'
        /\ \A m : Locked(m)' => Locked(m)
        /\ \A q : Lines(q)' = Lines(q)
    BY <2>2, <1>s, NothingCommitted
  <2>4. Unlocked'
    BY <2>1, <2>2, <2>3, <1>s DEF Standing, Unlocked, Shape
  <2>5. Fresh'
    BY <2>1, <2>3, <1>s DEF Standing, Fresh, Shape
  <2> QED
    BY <2>3, <2>4, <2>5 DEF Standing
<1>7. ASSUME NEW c \in Callers, GatherClosing(c) PROVE Standing'
  <2> DEFINE p == call[c].period
             r == [lines |-> call[c].lines, closing |-> ClosingAsOf(p)]
  <2>1. /\ call' = [call EXCEPT ![c] = [op |-> "submit", period |-> p, report |-> r]]
        /\ r.lines = Lines(p)
    BY <1>7 DEF GatherClosing, Standing, Fresh
  <2>2. UNCHANGED <<entries, status, filed>>
    BY <1>7 DEF GatherClosing
  <2>3. /\ FiledLinesStand'
        /\ \A m : Locked(m)' => Locked(m)
        /\ \A q : Lines(q)' = Lines(q)
    BY <2>2, <1>s, NothingCommitted
  <2> HIDE DEF r
  <2>4. Unlocked'
    BY <2>1, <2>2, <2>3, <1>s DEF Standing, Unlocked, Shape
  <2>5. Fresh'
    BY <2>1, <2>3, <1>s DEF Standing, Fresh, Shape
  <2> QED
    BY <2>3, <2>4, <2>5 DEF Standing
<1>8. ASSUME NEW c \in Callers, SubmitB266Period(c) PROVE Standing'
  <2> DEFINE p == call[c].period
  <2>1. /\ p \in Ranges
        /\ call[c].report.lines = Lines(p)
        /\ filed' = [filed EXCEPT ![p] = call[c].report]
        /\ status' = [status EXCEPT ![p] = "submitted"]
        /\ UNCHANGED entries
    BY <1>8, <1>s DEF SubmitB266Period, Shape, Standing, Fresh
  <2>2. \A q : Lines(q)' = Lines(q)
    BY <2>1, SameEntries
  <2>3. FiledLinesStand'
    BY <2>1, <2>2, <1>s DEF Standing, FiledLinesStand, Shape
  <2>4. \A d \in Callers : call'[d] = Idle
    BY <1>8, <1>s DEF SubmitB266Period, Shape, Apart
  <2>5. Unlocked' /\ Fresh'
    BY <2>4 DEF Unlocked, Fresh
  <2> QED
    BY <2>3, <2>5 DEF Standing
<1>9. ASSUME \/ \E p \in Ranges : ReopenB266Period(p)
             \/ NextMonth
             \/ UNCHANGED vars
      PROVE  Standing'
  <2>1. /\ UNCHANGED <<entries, filed, call>>
        /\ \A p \in Ranges : status'[p] = "submitted" => status[p] = "submitted"
    BY <1>9, <1>s DEF ReopenB266Period, NextMonth, vars, Shape
  <2>2. /\ FiledLinesStand'
        /\ \A m : Locked(m)' => Locked(m)
        /\ \A p : Lines(p)' = Lines(p)
    BY <2>1, <1>s, NothingCommitted
  <2>3. Unlocked' /\ Fresh'
    BY <2>1, <2>2 DEF Standing, Unlocked, Fresh
  <2> QED
    BY <2>2, <2>3 DEF Standing
<1> QED
  BY <1>1, <1>2, <1>3, <1>4, <1>5, <1>6, <1>7, <1>8, <1>9 DEF Next

\* The lines of a filed return are those its journal gives, until it is reopened:
\* for operators who keep to the discipline, whatever else runs concurrently.
THEOREM FiledReturnsStand ==
  ASSUME Careful PROVE Spec => []FiledLinesStand
<1>1. Init => Standing
  BY FirstStanding
<1>2. Standing /\ [Next]_vars => Standing'
  BY StandingNext
<1>3. Standing => FiledLinesStand
  BY DEF Standing
<1> QED
  BY <1>1, <1>2, <1>3, PTL DEF Spec

-----------------------------------------------------------------------------
(* The balances continue. *)

\* What an entry moves and no line of the report shows: a gauge that is voided, which
\* the lines leave out, and the corrections, which are on none.
Strayed(e) ==
  IF e.kind = "production_gauge" /\ e.voided THEN e.laa
  ELSE IF e.kind = "distillation_run_void" THEN -e.laa
  ELSE IF e.kind = "bottling_run_void" THEN e.laa ELSE 0

StrayIn(p) ==
  [i \in Numbers |-> IF entries[i].date \in Months(p) THEN Strayed(entries[i]) ELSE 0]

\* A voided gauge is undone within its month, so nothing strays out of a period.
NothingStrays == \A p \in Ranges : SumFunctionOnSet(StrayIn(p), Numbers) = 0

VoidedInMonth ==
  \A c \in Callers : InCall(c, {"void"}) =>
    /\ entries[call[c].of].date = thisMonth
    /\ entries[call[c].of].kind \in {"production_gauge", "opening_inventory"}

LEMMA EntryFields ==
  ASSUME NEW e \in Entry
  PROVE  /\ e.laa \in Nat /\ e.laa \in Int /\ -e.laa \in Int
         /\ e.date \in Int /\ e.voided \in BOOLEAN
         /\ Effect(e) \in Int /\ Strayed(e) \in Int
<1>1. e.laa \in Nat /\ e.date \in Int /\ e.voided \in BOOLEAN
  BY DEF Entry, Month
<1> QED BY <1>1 DEF Effect, Strayed

LEMMA NumbersFinite ==
  ASSUME entries \in Seq(Entry)
  PROVE  IsFiniteSet(Numbers) /\ \A i \in Numbers : entries[i] \in Entry
<1>1. Numbers = 1..Len(entries) /\ Len(entries) \in Nat
  BY DEF Numbers
<1> QED BY <1>1, FS_Interval

LEMMA FirstStays == Init => VoidedInMonth /\ NothingStrays
<1> SUFFICES ASSUME Init PROVE VoidedInMonth /\ NothingStrays
  OBVIOUS
<1>1. Numbers = {}
  BY DEF Init, Numbers
<1>2. NothingStrays
  BY <1>1, SumEmpty DEF NothingStrays
<1> QED BY <1>2 DEF Init, VoidedInMonth, InCall

\* Steps that commit no entry.
LEMMA StaysAside ==
  ASSUME VoidedInMonth, NothingStrays, UNCHANGED entries
  PROVE  NothingStrays'
<1>1. Numbers' = Numbers
  BY DEF Numbers
<1>2. \A p \in Ranges : StrayIn(p)' = StrayIn(p)
  BY <1>1 DEF StrayIn, Months, Strayed
<1> QED BY <1>1, <1>2 DEF NothingStrays

LEMMA StaysByCommit ==
  ASSUME Shape, Shape', NothingStrays, NEW e \in Entry,
         entries' = Append(entries, e), Strayed(e) = 0
  PROVE  NothingStrays'
<1>1. /\ Numbers' = Numbers \cup {Len(entries) + 1}
      /\ Len(entries) + 1 \notin Numbers
      /\ \A i \in Numbers : entries'[i] = entries[i]
      /\ entries'[Len(entries) + 1] = e
  BY DEF Shape, Numbers
<1>2. IsFiniteSet(Numbers) /\ \A i \in Numbers : entries[i] \in Entry
  BY NumbersFinite DEF Shape
<1>3. ASSUME NEW p \in Ranges
      PROVE  SumFunctionOnSet(StrayIn(p)', Numbers') = 0
  <2>1. PICK f : f = StrayIn(p)
    OBVIOUS
  <2>2. PICK g : g = StrayIn(p)'
    OBVIOUS
  <2>3. \A i \in Numbers : f[i] \in Int /\ g[i] = f[i]
    BY <1>1, <1>2, <2>1, <2>2, EntryFields DEF StrayIn, Months, Strayed
  <2>4. PICK y : y = Len(entries) + 1
    OBVIOUS
  <2>5. g[y] = 0 /\ g[y] \in Int /\ y \notin Numbers
    BY <1>1, <2>2, <2>4 DEF StrayIn, Strayed
  <2>6. SumFunctionOnSet(g, Numbers \cup {y}) = SumFunctionOnSet(f, Numbers) + g[y]
    BY <1>2, <2>3, <2>5, SumGrown
  <2>7. SumFunctionOnSet(f, Numbers) = 0
    BY <2>1 DEF NothingStrays
  <2>8. SumFunctionOnSet(g, Numbers') = SumFunctionOnSet(g, Numbers \cup {y})
    BY <1>1, <2>4, Zenon
  <2>9. SumFunctionOnSet(g, Numbers') = 0
    BY <2>5, <2>6, <2>7, <2>8
  <2> QED BY <2>2, <2>9
<1> QED BY <1>3 DEF NothingStrays

\* A gauge and its correction, of one month.
LEMMA StaysByVoid ==
  ASSUME Shape, Shape', VoidedInMonth, NothingStrays, NEW c \in Callers, CommitVoid(c)
  PROVE  NothingStrays'
<1>1. PICK n \in DOMAIN entries :
        /\ n = call[c].of /\ ~entries[n].voided
        /\ entries' = Append([entries EXCEPT ![n].voided = TRUE], Correction(entries[n]))
        /\ entries[n].date = thisMonth
        /\ entries[n].kind \in {"production_gauge", "opening_inventory"}
  BY DEF CommitVoid, VoidedInMonth, Shape, InCall
<1>2. PICK e : e = Correction(entries[n])
  OBVIOUS
<1>3. PICK v : v = [entries[n] EXCEPT !.voided = TRUE]
  OBVIOUS
<1>4. entries[n] \in Entry
  BY DEF Shape
<1>5. /\ e.date = entries[n].date /\ e.laa = entries[n].laa /\ ~e.voided
      /\ e.kind = Undoing(entries[n].kind)
  BY <1>1, <1>2 DEF Correction
<1>6. v.date = entries[n].date /\ v.laa = entries[n].laa /\ v.voided
      /\ v.kind = entries[n].kind
  BY <1>3, <1>4 DEF Entry
<1>7. /\ Strayed(entries[n]) = 0
      /\ Strayed(v) \in Int /\ Strayed(e) = -Strayed(v)
  <2>1. entries[n].laa \in Nat
    BY <1>4 DEF Entry
  <2> QED BY <1>1, <1>5, <1>6, <2>1 DEF Strayed, Undoing
<1>8. /\ Numbers' = Numbers \cup {Len(entries) + 1}
      /\ Len(entries) + 1 \notin Numbers
      /\ n \in Numbers
      /\ \A i \in Numbers : i # n => entries'[i] = entries[i]
      /\ entries'[n] = v
      /\ entries'[Len(entries) + 1] = e
  <2>1. entries' = Append([entries EXCEPT ![n] = v], e)
    BY <1>1, <1>2, <1>3
  <2> QED BY <2>1 DEF Shape, Numbers
<1>9. IsFiniteSet(Numbers) /\ \A i \in Numbers : entries[i] \in Entry
  BY NumbersFinite DEF Shape
<1>10. ASSUME NEW p \in Ranges
       PROVE  SumFunctionOnSet(StrayIn(p)', Numbers') = 0
  <2>1. PICK f : f = StrayIn(p)
    OBVIOUS
  <2>2. PICK g : g = StrayIn(p)'
    OBVIOUS
  <2>3. PICK y : y = Len(entries) + 1
    OBVIOUS
  <2>4. \A i \in Numbers : i # n => g[i] = f[i]
    BY <1>8, <2>1, <2>2 DEF StrayIn, Months, Strayed
  <2>5. f[n] = 0 /\ g[n] \in Int /\ g[y] \in Int /\ g[n] + g[y] = 0
    <3>1. f[n] = 0
      BY <1>7, <1>8, <2>1 DEF StrayIn
    <3>2. g[n] = IF v.date \in Months(p) THEN Strayed(v) ELSE 0
      BY <1>8, <2>2 DEF StrayIn, Months, Strayed
    <3>3. g[y] = IF e.date \in Months(p) THEN Strayed(e) ELSE 0
      BY <1>8, <2>2, <2>3 DEF StrayIn, Months, Strayed
    <3> QED BY <1>5, <1>6, <1>7, <3>1, <3>2, <3>3
  <2>6. \A i \in Numbers : f[i] \in Int
    BY <1>9, <2>1, EntryFields DEF StrayIn
  <2>7. \A i \in Numbers : g[i] \in Int
    BY <2>4, <2>5, <2>6
  <2>8. SumFunctionOnSet(g, Numbers) = SumFunctionOnSet(f, Numbers) - f[n] + g[n]
    BY <1>8, <1>9, <2>4, <2>6, <2>7, SumChange
  <2>9. SumFunctionOnSet(g, Numbers \cup {y}) = SumFunctionOnSet(g, Numbers) + g[y]
    BY <1>8, <1>9, <2>3, <2>5, <2>7, SumAdd
  <2>10. SumFunctionOnSet(f, Numbers) = 0
    BY <2>1 DEF NothingStrays
  <2>11. SumFunctionOnSet(g, Numbers') = SumFunctionOnSet(g, Numbers \cup {y})
    BY <1>8, <2>3, Zenon
  <2>12. SumFunctionOnSet(g, Numbers') = 0
    BY <2>5, <2>8, <2>9, <2>10, <2>11
  <2> QED BY <2>2, <2>12
<1> QED BY <1>10 DEF NothingStrays

LEMMA StaysNext ==
  ASSUME Shape, Shape', Careful, VoidedInMonth, NothingStrays, [Next]_vars,
         \A c \in Callers : InCall(c, {"record"}) =>
           call[c].entry.kind \in Kinds /\ ~call[c].entry.voided
  PROVE  VoidedInMonth' /\ NothingStrays'
<1> USE DEF InCall
<1>1. ASSUME NEW c \in Callers, CommitEntry(c) PROVE VoidedInMonth' /\ NothingStrays'
  <2>1. PICK e \in Entry : e = call[c].entry /\ e.kind \in Kinds /\ ~e.voided
                           /\ entries' = Append(entries, e)
    BY <1>1 DEF CommitEntry, Shape
  <2>2. Strayed(e) = 0
    BY <2>1, FilingAssumption DEF Strayed, Receipts, Withdrawals, Adoptions
  <2>3. NothingStrays'
    BY <2>1, <2>2, StaysByCommit
  <2>4. VoidedInMonth'
    BY <1>1, <2>1 DEF CommitEntry, VoidedInMonth, Shape
  <2> QED BY <2>3, <2>4
<1>2. ASSUME NEW c \in Callers, CommitVoid(c) PROVE VoidedInMonth' /\ NothingStrays'
  <2>1. PICK n \in DOMAIN entries :
          entries' = Append([entries EXCEPT ![n].voided = TRUE], Correction(entries[n]))
    BY <1>2 DEF CommitVoid, Shape
  <2>2. \A i \in DOMAIN entries : entries'[i].date = entries[i].date
                                  /\ entries'[i].kind = entries[i].kind
    <3>1. PICK v : v = [entries[n] EXCEPT !.voided = TRUE]
      OBVIOUS
    <3>2. entries' = Append([entries EXCEPT ![n] = v], Correction(entries[n]))
      BY <2>1, <3>1
    <3>3. entries[n] \in Entry
      BY DEF Shape
    <3>4. v.date = entries[n].date /\ v.kind = entries[n].kind
      BY <3>1, <3>3 DEF Entry
    <3>5. \A i \in DOMAIN entries : entries'[i] = IF i = n THEN v ELSE entries[i]
      BY <3>2 DEF Shape
    <3> QED BY <3>4, <3>5
  <2>3. \A d \in Callers : call'[d] # Idle => call'[d] = call[d]
    BY <1>2 DEF CommitVoid, Shape
  <2>4. VoidedInMonth'
    BY <1>2, <2>2, <2>3 DEF CommitVoid, VoidedInMonth, Shape
  <2> QED BY <1>2, <2>4, StaysByVoid
<1>3. ASSUME NEW c \in Callers, BeginVoid(c) PROVE VoidedInMonth' /\ NothingStrays'
  <2>1. UNCHANGED entries
    BY <1>3 DEF BeginVoid
  <2>2. VoidedInMonth'
    BY <1>3 DEF BeginVoid, MayVoid, VoidedInMonth, Shape
  <2> QED BY <2>1, <2>2, StaysAside
<1>4. CASE NextMonth
  <2>1. UNCHANGED entries /\ VoidedInMonth'
    BY <1>4 DEF NextMonth, VoidedInMonth
  <2> QED BY <2>1, StaysAside
<1>5. ASSUME UNCHANGED <<entries, thisMonth>>,
             \A d \in Callers : InCall(d, {"void"})' => call'[d] = call[d]
      PROVE  VoidedInMonth' /\ NothingStrays'
  <2>1. VoidedInMonth'
    BY <1>5 DEF VoidedInMonth
  <2> QED BY <1>5, <2>1, StaysAside
<1>6. ASSUME NEW c \in Callers,
             \/ RecordEntry(c) \/ GenerateB266(c) \/ UpsertB266PeriodDraft(c) \/ SubmitB266(c)
             \/ GatherClosing(c) \/ SubmitB266Period(c) \/ Rollback(c)
      PROVE  VoidedInMonth' /\ NothingStrays'
  <2>1. UNCHANGED <<entries, thisMonth>>
    BY <1>6 DEF RecordEntry, GenerateB266, UpsertB266PeriodDraft, SubmitB266, GatherClosing,
                SubmitB266Period, Rollback
  <2>2. \A d \in Callers : InCall(d, {"void"})' => call'[d] = call[d]
    BY <1>6 DEF RecordEntry, GenerateB266, UpsertB266PeriodDraft, SubmitB266, GatherClosing,
                SubmitB266Period, Rollback, Shape
  <2> QED BY <1>5, <2>1, <2>2
<1>7. ASSUME NEW p \in Ranges, ReopenB266Period(p)
      PROVE  VoidedInMonth' /\ NothingStrays'
  BY <1>5, <1>7 DEF ReopenB266Period
<1>8. CASE UNCHANGED vars
  BY <1>5, <1>8 DEF vars
<1> QED BY <1>1, <1>2, <1>3, <1>4, <1>6, <1>7, <1>8 DEF Next

\* The entries dated up to, and before, a month.
MovedUpTo(m) == [i \in Numbers |-> IF entries[i].date <= m THEN Effect(entries[i]) ELSE 0]
MovedBefore(m) == [i \in Numbers |-> IF entries[i].date < m THEN Effect(entries[i]) ELSE 0]

\* A sum over the entries of some numbers, as one over all.
LEMMA SumOverNumbers ==
  ASSUME entries \in Seq(Entry), NEW R \in SUBSET Numbers, NEW f, f = [i \in R |-> f[i]],
         \A i \in R : f[i] \in Int, NEW g, \A i \in Numbers : g[i] = IF i \in R THEN f[i] ELSE 0
  PROVE  SumFunction(f) = SumFunctionOnSet(g, Numbers) /\ SumFunction(f) \in Int
<1>1. IsFiniteSet(Numbers) /\ IsFiniteSet(R)
  BY NumbersFinite, FS_Subset
<1>2. SumFunctionOnSet(g, Numbers) = SumFunctionOnSet(f, R)
  BY <1>1, SumWithin
<1>3. SumFunctionOnSet(f, R) \in Int
  BY <1>1, SumInt
<1>4. DOMAIN f = R
  OBVIOUS
<1> QED BY <1>2, <1>3, <1>4 DEF SumFunction

\* The closing balance is what the entries up to the period's end have moved.
LEMMA ClosesWith ==
  ASSUME entries \in Seq(Entry), NEW p \in Ranges
  PROVE  /\ ClosingAsOf(p) = Opening + SumFunctionOnSet(MovedUpTo(p.to), Numbers)
         /\ SumFunctionOnSet(MovedUpTo(p.to), Numbers) \in Int
<1>1. IsFiniteSet(Numbers) /\ \A i \in Numbers : entries[i] \in Entry
  BY NumbersFinite
<1>2. p.to \in Int /\ Opening \in Int
  BY FilingAssumption DEF Spans, Month
<1>3. PICK e : e = [i \in Numbers |-> Effect(entries[i])]
  OBVIOUS
<1>4. PICK u : u = MovedUpTo(p.to)
  OBVIOUS
<1>5. PICK f : f = [i \in After(p) |-> Effect(entries[i])]
  OBVIOUS
<1>6. PICK a : a = [i \in Numbers |-> IF i \in After(p) THEN f[i] ELSE 0]
  OBVIOUS
<1>7. After(p) \in SUBSET Numbers
  BY DEF After
<1>8. \A i \in Numbers : e[i] \in Int /\ (i \in After(p) => f[i] = e[i])
  BY <1>1, <1>3, <1>5, EntryFields
<1>9. SumFunction(f) = SumFunctionOnSet(a, Numbers) /\ SumFunction(f) \in Int
  <2>1. f = [i \in After(p) |-> f[i]] /\ \A i \in After(p) : f[i] \in Int
    BY <1>5, <1>7, <1>8
  <2>2. \A i \in Numbers : a[i] = IF i \in After(p) THEN f[i] ELSE 0
    BY <1>6
  <2> QED BY <1>7, <2>1, <2>2, SumOverNumbers
<1>10. \A i \in Numbers : u[i] \in Int /\ a[i] \in Int /\ e[i] = u[i] + a[i]
  <2>1. ASSUME NEW i \in Numbers PROVE u[i] \in Int /\ a[i] \in Int /\ e[i] = u[i] + a[i]
    <3>1. entries[i].date \in Int
      BY <1>1, EntryFields
    <3>2. i \in After(p) <=> ~(entries[i].date <= p.to)
      BY <1>2, <3>1 DEF After
    <3>3. u[i] = IF entries[i].date <= p.to THEN e[i] ELSE 0
      BY <1>3, <1>4 DEF MovedUpTo
    <3>4. a[i] = IF i \in After(p) THEN e[i] ELSE 0
      BY <1>6, <1>8
    <3>5. e[i] \in Int
      BY <1>8
    <3> QED BY <3>2, <3>3, <3>4, <3>5
  <2> QED BY <2>1
<1>11. SumFunctionOnSet(e, Numbers) = SumFunctionOnSet(u, Numbers) + SumFunctionOnSet(a, Numbers)
  BY <1>1, <1>10, SumPlus
<1>12. SumFunctionOnSet(u, Numbers) \in Int
  BY <1>1, <1>10, SumInt
<1>13. OnHand = Opening + SumFunctionOnSet(e, Numbers)
  BY <1>3 DEF OnHand, SumFunction
<1>14. ClosingAsOf(p) = OnHand - SumFunction(f)
  BY <1>5 DEF ClosingAsOf
<1>15. ClosingAsOf(p) = Opening + SumFunctionOnSet(u, Numbers)
  BY <1>2, <1>9, <1>11, <1>12, <1>13, <1>14
<1> QED BY <1>4, <1>12, <1>15

\* Walked back over its lines, and over what was adopted, a period opens with what the
\* entries before it have moved.
LEMMA OpensWith ==
  ASSUME entries \in Seq(Entry), NothingStrays, NEW q \in Ranges
  PROVE  OpeningOf(Report(q)) - AdoptedIn(q) =
           Opening + SumFunctionOnSet(MovedBefore(q.from), Numbers)
<1>1. IsFiniteSet(Numbers) /\ \A i \in Numbers : entries[i] \in Entry
  BY NumbersFinite
<1>2. q.to \in Int /\ q.from \in Int /\ q.from <= q.to /\ Opening \in Int
  BY FilingAssumption DEF Spans, Month
<1>3. PICK u : u = MovedUpTo(q.to)
  OBVIOUS
<1>4. PICK b : b = MovedBefore(q.from)
  OBVIOUS
<1>5. PICK s : s = StrayIn(q)
  OBVIOUS
<1>6. PICK A : A = {j \in Numbers : /\ entries[j].date \in Months(q)
                                    /\ entries[j].kind \in Adoptions \cup {"barrel_event_void"}}
  OBVIOUS
<1>7. PICK R : R = Line(q, Receipts)
  OBVIOUS
<1>8. PICK W : W = Line(q, Withdrawals)
  OBVIOUS
<1>9. A \in SUBSET Numbers /\ R \in SUBSET Numbers /\ W \in SUBSET Numbers
  BY <1>6, <1>7, <1>8 DEF Line
<1>10. PICK fa : fa = [i \in A |-> Effect(entries[i])]
  OBVIOUS
<1>11. PICK fr : fr = [i \in R |-> entries[i].laa]
  OBVIOUS
<1>12. PICK fw : fw = [i \in W |-> entries[i].laa]
  OBVIOUS
<1>13. PICK a : a = [i \in Numbers |-> IF i \in A THEN fa[i] ELSE 0]
  OBVIOUS
<1>14. PICK r : r = [i \in Numbers |-> IF i \in R THEN fr[i] ELSE 0]
  OBVIOUS
<1>15. PICK w : w = [i \in Numbers |-> IF i \in W THEN fw[i] ELSE 0]
  OBVIOUS
<1>16. SumFunction(fa) = SumFunctionOnSet(a, Numbers) /\ SumFunction(fa) \in Int
  <2>1. fa = [i \in A |-> fa[i]] /\ \A i \in A : fa[i] \in Int
    BY <1>1, <1>9, <1>10, EntryFields
  <2>2. \A i \in Numbers : a[i] = IF i \in A THEN fa[i] ELSE 0
    BY <1>13
  <2> QED BY <1>9, <2>1, <2>2, SumOverNumbers
<1>17. SumFunction(fr) = SumFunctionOnSet(r, Numbers) /\ SumFunction(fr) \in Int
  <2>1. fr = [i \in R |-> fr[i]] /\ \A i \in R : fr[i] \in Int
    BY <1>1, <1>9, <1>11, EntryFields
  <2>2. \A i \in Numbers : r[i] = IF i \in R THEN fr[i] ELSE 0
    BY <1>14
  <2> QED BY <1>9, <2>1, <2>2, SumOverNumbers
<1>18. SumFunction(fw) = SumFunctionOnSet(w, Numbers) /\ SumFunction(fw) \in Int
  <2>1. fw = [i \in W |-> fw[i]] /\ \A i \in W : fw[i] \in Int
    BY <1>1, <1>9, <1>12, EntryFields
  <2>2. \A i \in Numbers : w[i] = IF i \in W THEN fw[i] ELSE 0
    BY <1>15
  <2> QED BY <1>9, <2>1, <2>2, SumOverNumbers
\* What each entry is to the walk.
<1>19. ASSUME NEW i \in Numbers
       PROVE  /\ u[i] \in Int /\ b[i] \in Int /\ s[i] \in Int
              /\ a[i] \in Int /\ r[i] \in Int /\ w[i] \in Int
              /\ u[i] + w[i] = b[i] + s[i] + a[i] + r[i]
  <2>1. PICK e \in Entry : e = entries[i]
    BY <1>1
  <2>2. /\ e.laa \in Nat /\ e.date \in Int /\ e.voided \in BOOLEAN
        /\ Effect(e) \in Int /\ Strayed(e) \in Int
    BY EntryFields
  <2>3. /\ u[i] = IF e.date <= q.to THEN Effect(e) ELSE 0
        /\ b[i] = IF e.date < q.from THEN Effect(e) ELSE 0
    BY <1>3, <1>4, <2>1 DEF MovedUpTo, MovedBefore
  <2>4. s[i] = IF e.date \in Months(q) THEN Strayed(e) ELSE 0
    BY <1>5, <2>1 DEF StrayIn
  <2>5. /\ a[i] = IF e.date \in Months(q) /\ e.kind \in Adoptions \cup {"barrel_event_void"}
                  THEN Effect(e) ELSE 0
        /\ r[i] = IF e.date \in Months(q) /\ e.kind \in Receipts /\ Counted(e)
                  THEN e.laa ELSE 0
        /\ w[i] = IF e.date \in Months(q) /\ e.kind \in Withdrawals /\ Counted(e)
                  THEN e.laa ELSE 0
    BY <1>6, <1>7, <1>8, <1>10, <1>11, <1>12, <1>13, <1>14, <1>15, <2>1 DEF Line
  <2>6. e.date \in Months(q) <=> q.from <= e.date /\ e.date <= q.to
    BY <1>2, <2>2 DEF Months
  <2>7. CASE e.date \notin Months(q)
    BY <1>2, <2>2, <2>3, <2>4, <2>5, <2>6, <2>7
  <2>8. CASE e.date \in Months(q)
    <3>1. u[i] = Effect(e) /\ b[i] = 0 /\ s[i] = Strayed(e)
      BY <1>2, <2>2, <2>3, <2>4, <2>6, <2>8
    <3>2. e.kind \in Receipts \cup Withdrawals \cup Adoptions \cup Corrections
      BY DEF Entry
    <3>3. CASE e.kind = "production_gauge"
      <4>1. Effect(e) = e.laa /\ a[i] = 0 /\ w[i] = 0
            /\ r[i] = (IF e.voided THEN 0 ELSE e.laa)
            /\ s[i] = (IF e.voided THEN e.laa ELSE 0)
        BY <2>5, <2>8, <3>1, <3>3 DEF Effect, Strayed, Counted, Outgoing, Receipts,
                                      Withdrawals, Adoptions
      <4> QED BY <2>2, <3>1, <4>1
    <3>4. CASE e.kind = "transfer_in_bond"
      <4>1. Effect(e) = e.laa /\ a[i] = 0 /\ w[i] = 0 /\ r[i] = e.laa /\ s[i] = 0
        BY <2>5, <2>8, <3>1, <3>4 DEF Effect, Strayed, Counted, Outgoing, Receipts,
                                      Withdrawals, Adoptions
      <4> QED BY <2>2, <3>1, <4>1
    <3>5. CASE e.kind \in Withdrawals
      <4>1. Effect(e) = -e.laa /\ a[i] = 0 /\ w[i] = e.laa /\ r[i] = 0 /\ s[i] = 0
        BY <2>5, <2>8, <3>1, <3>5 DEF Effect, Strayed, Counted, Outgoing, Receipts,
                                      Withdrawals, Adoptions
      <4> QED BY <2>2, <3>1, <4>1
    <3>6. CASE e.kind \in Adoptions \cup {"barrel_event_void"}
      <4>1. a[i] = Effect(e) /\ w[i] = 0 /\ r[i] = 0 /\ s[i] = 0
        BY <2>5, <2>8, <3>1, <3>6 DEF Strayed, Counted, Outgoing, Receipts,
                                      Withdrawals, Adoptions
      <4> QED BY <2>2, <3>1, <4>1
    <3>7. CASE e.kind = "distillation_run_void"
      <4>1. Effect(e) = -e.laa /\ a[i] = 0 /\ w[i] = 0 /\ r[i] = 0 /\ s[i] = -e.laa
        BY <2>5, <2>8, <3>1, <3>7 DEF Effect, Strayed, Counted, Outgoing, Receipts,
                                      Withdrawals, Adoptions
      <4> QED BY <2>2, <3>1, <4>1
    <3>8. CASE e.kind = "bottling_run_void"
      <4>1. Effect(e) = e.laa /\ a[i] = 0 /\ w[i] = 0 /\ r[i] = 0 /\ s[i] = e.laa
        BY <2>5, <2>8, <3>1, <3>8 DEF Effect, Strayed, Counted, Outgoing, Receipts,
                                      Withdrawals, Adoptions
      <4> QED BY <2>2, <3>1, <4>1
    <3> QED BY <3>2, <3>3, <3>4, <3>5, <3>6, <3>7, <3>8 DEF Receipts, Corrections
  <2> QED BY <2>7, <2>8
<1>20. PICK x : x = [i \in Numbers |-> u[i] + w[i]]
  OBVIOUS
<1>21. PICK y : y = [i \in Numbers |-> b[i] + s[i]]
  OBVIOUS
<1>22. PICK z : z = [i \in Numbers |-> y[i] + a[i]]
  OBVIOUS
<1>23. /\ SumFunctionOnSet(x, Numbers) = SumFunctionOnSet(u, Numbers) + SumFunctionOnSet(w, Numbers)
       /\ SumFunctionOnSet(y, Numbers) = SumFunctionOnSet(b, Numbers) + SumFunctionOnSet(s, Numbers)
  <2>1. \A i \in Numbers : u[i] \in Int /\ w[i] \in Int /\ x[i] = u[i] + w[i]
    BY <1>19, <1>20
  <2>2. \A i \in Numbers : b[i] \in Int /\ s[i] \in Int /\ y[i] = b[i] + s[i]
    BY <1>19, <1>21
  <2> QED BY <1>1, <2>1, <2>2, SumPlus
<1>24. /\ SumFunctionOnSet(z, Numbers) = SumFunctionOnSet(y, Numbers) + SumFunctionOnSet(a, Numbers)
       /\ SumFunctionOnSet(x, Numbers) = SumFunctionOnSet(z, Numbers) + SumFunctionOnSet(r, Numbers)
  <2>1. \A i \in Numbers : y[i] \in Int /\ a[i] \in Int /\ z[i] = y[i] + a[i]
    BY <1>19, <1>21, <1>22
  <2>2. \A i \in Numbers : z[i] \in Int /\ r[i] \in Int /\ x[i] = z[i] + r[i]
    BY <1>19, <1>20, <1>21, <1>22
  <2> QED BY <1>1, <2>1, <2>2, SumPlus
<1>25. /\ SumFunctionOnSet(u, Numbers) \in Int /\ SumFunctionOnSet(b, Numbers) \in Int
       /\ SumFunctionOnSet(s, Numbers) = 0
  BY <1>1, <1>5, <1>19, SumInt DEF NothingStrays
<1>26. /\ LineSum(q, Receipts) = SumFunction(fr) /\ LineSum(q, Withdrawals) = SumFunction(fw)
       /\ AdoptedIn(q) = SumFunction(fa)
  BY <1>6, <1>7, <1>8, <1>10, <1>11, <1>12 DEF LineSum, AdoptedIn
<1>27. OpeningOf(Report(q)) = ClosingAsOf(q) - LineSum(q, Receipts) + LineSum(q, Withdrawals)
  BY DEF OpeningOf, Report, Lines
<1>28. ClosingAsOf(q) = Opening + SumFunctionOnSet(u, Numbers)
  BY <1>3, ClosesWith
<1>29. PICK U \in Int, B \in Int, a0 \in Int, r0 \in Int, w0 \in Int :
         /\ U = SumFunctionOnSet(u, Numbers) /\ B = SumFunctionOnSet(b, Numbers)
         /\ a0 = SumFunction(fa) /\ r0 = SumFunction(fr) /\ w0 = SumFunction(fw)
  BY <1>16, <1>17, <1>18, <1>25
<1>30. U + w0 = B + a0 + r0
  <2>1. /\ a0 = SumFunctionOnSet(a, Numbers) /\ r0 = SumFunctionOnSet(r, Numbers)
        /\ w0 = SumFunctionOnSet(w, Numbers)
    BY <1>16, <1>17, <1>18, <1>29
  <2>2. SumFunctionOnSet(y, Numbers) = B
    BY <1>23, <1>25, <1>29
  <2>3. SumFunctionOnSet(z, Numbers) = B + a0
    BY <1>24, <2>1, <2>2
  <2>4. SumFunctionOnSet(x, Numbers) = B + a0 + r0
    BY <1>24, <2>1, <2>3
  <2> QED BY <1>23, <1>29, <2>1, <2>4
<1>31. PICK o : o = OpeningOf(Report(q))
  OBVIOUS
<1>32. o = Opening + U - r0 + w0
  <2>1. ClosingAsOf(q) = Opening + U
    BY <1>28, <1>29
  <2>2. LineSum(q, Receipts) = r0 /\ LineSum(q, Withdrawals) = w0
    BY <1>26, <1>29
  <2>3. Opening + U \in Int
    BY <1>2
  <2> QED BY <1>2, <1>27, <1>31, <2>1, <2>2, <2>3
<1>33. o - a0 = Opening + B
  BY <1>2, <1>30, <1>32
<1>34. AdoptedIn(q) = a0
  BY <1>26, <1>29
<1>35. OpeningOf(Report(q)) - AdoptedIn(q) = Opening + B
  BY <1>31, <1>33, <1>34
<1> QED BY <1>4, <1>29, <1>35

\* Periods that lie one after the other.
LEMMA OneAfterTheOther ==
  ASSUME entries \in Seq(Entry), NothingStrays
  PROVE  BooksContinuous
<1>1. IsFiniteSet(Numbers) /\ \A i \in Numbers : entries[i] \in Entry
  BY NumbersFinite
<1> SUFFICES ASSUME NEW q \in Ranges
             PROVE  LET before == OpeningOf(Report(q)) - AdoptedIn(q)
                    IN  /\ q.from = 1 => before = Opening
                        /\ \A p \in Ranges : q.from = p.to + 1 => before = ClosingAsOf(p)
  BY DEF BooksContinuous
<1>2. PICK before : before = OpeningOf(Report(q)) - AdoptedIn(q)
  OBVIOUS
<1>3. before = Opening + SumFunctionOnSet(MovedBefore(q.from), Numbers)
  BY <1>2, OpensWith
<1>4. q.from = 1 => before = Opening
  <2> SUFFICES ASSUME q.from = 1 PROVE before = Opening
    OBVIOUS
  <2>1. \A i \in Numbers : entries[i].date \in 1..LastMonth
    BY <1>1 DEF Entry, Month
  <2>2. PICK b : b = MovedBefore(q.from)
    OBVIOUS
  <2>3. \A i \in Numbers : b[i] = 0
    BY <2>1, <2>2, FilingAssumption DEF MovedBefore
  <2>4. SumFunctionOnSet(b, Numbers) = 0
    BY <1>1, <2>3, SumZero
  <2> QED BY <1>3, <2>2, <2>4, FilingAssumption
<1>5. ASSUME NEW p \in Ranges, q.from = p.to + 1
      PROVE  before = ClosingAsOf(p)
  <2>1. q.from \in Int /\ p.to \in Int
    BY FilingAssumption DEF Spans, Month
  <2>2. PICK b : b = MovedBefore(q.from)
    OBVIOUS
  <2>3. PICK u : u = MovedUpTo(p.to)
    OBVIOUS
  <2>4. \A i \in Numbers : entries[i].date \in Int
    BY <1>1, EntryFields
  <2>5. \A i \in Numbers : entries[i].date < q.from <=> entries[i].date <= p.to
    BY <1>5, <2>1, <2>4
  <2>6. \A i \in Numbers : b[i] = u[i]
    BY <2>2, <2>3, <2>5 DEF MovedBefore, MovedUpTo
  <2>7. SumFunctionOnSet(b, Numbers) = SumFunctionOnSet(u, Numbers)
    BY <1>1, <2>6, SumSame
  <2> QED BY <1>3, <2>2, <2>3, <2>7, ClosesWith
<1> QED BY <1>2, <1>4, <1>5

\* What operators record is of their kinds, and not voided.
Ordinary ==
  \A c \in Callers : InCall(c, {"record"}) =>
    call[c].entry.kind \in Kinds /\ ~call[c].entry.voided

LEMMA OrdinaryNext ==
  ASSUME Shape, Ordinary, [Next]_vars PROVE Ordinary'
<1>1. ASSUME NEW c \in Callers, RecordEntry(c) PROVE Ordinary'
  BY <1>1 DEF RecordEntry, Ordinary, InCall, Shape
<1>2. ASSUME \A d \in Callers : InCall(d, {"record"})' => call'[d] = call[d]
      PROVE  Ordinary'
  BY <1>2 DEF Ordinary, InCall
<1>3. ASSUME NEW c \in Callers,
             \/ CommitEntry(c) \/ BeginVoid(c) \/ CommitVoid(c)
             \/ GenerateB266(c) \/ UpsertB266PeriodDraft(c) \/ SubmitB266(c)
             \/ GatherClosing(c) \/ SubmitB266Period(c) \/ Rollback(c)
      PROVE  Ordinary'
  <2>1. \A d \in Callers : InCall(d, {"record"})' => call'[d] = call[d]
    BY <1>3 DEF CommitEntry, BeginVoid, CommitVoid, GenerateB266, UpsertB266PeriodDraft,
                SubmitB266, GatherClosing, SubmitB266Period, Rollback, Shape, InCall
  <2> QED BY <1>2, <2>1
<1>4. CASE NextMonth \/ UNCHANGED vars \/ \E p \in Ranges : ReopenB266Period(p)
  BY <1>2, <1>4 DEF NextMonth, ReopenB266Period, vars
<1> QED BY <1>1, <1>3, <1>4 DEF Next

\* Each return opens with what the one before it closed with, and with what was adopted
\* since: for operators who void a gauge in its own month, and no bottling run.
THEOREM BooksContinue ==
  ASSUME Careful PROVE Spec => []BooksContinuous
<1>1. Init => Tiled /\ Ordinary /\ VoidedInMonth /\ NothingStrays
  BY FirstTiled, FirstStays DEF Init, Ordinary, InCall
<1>2. Tiled /\ Ordinary /\ VoidedInMonth /\ NothingStrays /\ [Next]_vars
        => (Tiled /\ Ordinary /\ VoidedInMonth /\ NothingStrays)'
  <2> SUFFICES ASSUME Tiled, Ordinary, VoidedInMonth, NothingStrays, [Next]_vars
               PROVE  (Tiled /\ Ordinary /\ VoidedInMonth /\ NothingStrays)'
    OBVIOUS
  <2>1. Tiled'
    BY TiledNext DEF Serial
  <2>2. Ordinary'
    BY OrdinaryNext DEF Tiled
  <2>3. VoidedInMonth' /\ NothingStrays'
    BY <2>1, StaysNext DEF Tiled, Ordinary
  <2> QED BY <2>1, <2>2, <2>3
<1>3. Tiled /\ NothingStrays => BooksContinuous
  BY OneAfterTheOther DEF Tiled, Shape
<1> QED BY <1>1, <1>2, <1>3, PTL DEF Spec

-----------------------------------------------------------------------------
(* Closed balances stand. *)

LEMMA ClosesAlways ==
  entries \in Seq(Entry) =>
    \A r \in Ranges : ClosingAsOf(r) = Opening + SumFunctionOnSet(MovedUpTo(r.to), Numbers)
  BY ClosesWith

\* An entry dated after a period does not move its closing balance.
LEMMA ClosingStands ==
  ASSUME Shape, Shape', NEW e \in Entry, NEW p \in Ranges, e.date > p.to,
         Numbers' = Numbers \cup {Len(entries) + 1},
         Len(entries) + 1 \notin Numbers,
         entries'[Len(entries) + 1] = e,
         \A i \in Numbers : /\ entries'[i].date = entries[i].date
                            /\ Effect(entries'[i]) = Effect(entries[i])
  PROVE  ClosingAsOf(p)' = ClosingAsOf(p)
<1>1. IsFiniteSet(Numbers) /\ \A i \in Numbers : entries[i] \in Entry
  BY NumbersFinite DEF Shape
<1>2. PICK u : u = MovedUpTo(p.to)
  OBVIOUS
<1>3. PICK v : v = MovedUpTo(p.to)'
  OBVIOUS
<1>4. PICK y : y = Len(entries) + 1
  OBVIOUS
<1>5. \A i \in Numbers : u[i] \in Int /\ v[i] = u[i]
  BY <1>1, <1>2, <1>3, EntryFields DEF MovedUpTo, Effect
<1>6. v[y] = 0 /\ y \notin Numbers
  <2>1. e.date \in Int /\ p.to \in Int
    BY EntryFields, FilingAssumption DEF Spans, Month
  <2>2. v[y] = IF e.date <= p.to THEN Effect(e) ELSE 0
    BY <1>3, <1>4 DEF MovedUpTo, Effect
  <2> QED BY <1>4, <2>1, <2>2
<1>7. /\ SumFunctionOnSet(v, Numbers \cup {y}) = SumFunctionOnSet(u, Numbers) + v[y]
      /\ SumFunctionOnSet(u, Numbers) \in Int
  <2>1. v[y] \in Int /\ y \notin Numbers /\ IsFiniteSet(Numbers)
    BY <1>1, <1>6
  <2>2. SumFunctionOnSet(v, Numbers \cup {y}) = SumFunctionOnSet(u, Numbers) + v[y]
    BY <1>5, <2>1, SumGrown
  <2>3. \A i \in Numbers : u[i] \in Int
    BY <1>5
  <2>4. SumFunctionOnSet(u, Numbers) \in Int
    BY <2>1, <2>3, SumInt
  <2> QED BY <2>2, <2>4
<1>8. ClosingAsOf(p) = Opening + SumFunctionOnSet(u, Numbers)
  BY <1>2, ClosesWith DEF Shape
<1>9. ClosingAsOf(p)' = Opening + SumFunctionOnSet(v, Numbers')
  <2>1. entries' \in Seq(Entry)
    BY DEF Shape
  <2>2. (entries \in Seq(Entry) =>
           \A r \in Ranges :
             ClosingAsOf(r) = Opening + SumFunctionOnSet(MovedUpTo(r.to), Numbers))'
    BY ClosesAlways, PTL
  <2> QED BY <1>3, <2>1, <2>2
<1>10. SumFunctionOnSet(v, Numbers') = SumFunctionOnSet(v, Numbers \cup {y})
  BY <1>4, Zenon
<1> QED BY <1>6, <1>7, <1>8, <1>9, <1>10

\* A period's balances: those of its report.
Balanced(p) ==
  /\ ClosingAsOf(p)' = ClosingAsOf(p)
  /\ OpeningOf(Report(p))' = OpeningOf(Report(p))

LEMMA BalancesFollow ==
  ASSUME NEW p, ClosingAsOf(p)' = ClosingAsOf(p), Lines(p)' = Lines(p)
  PROVE  Balanced(p)
  BY DEF Balanced, OpeningOf, Report

LEMMA SameBalances ==
  ASSUME UNCHANGED entries, NEW p \in Ranges
  PROVE  Balanced(p)
<1>1. Numbers' = Numbers /\ After(p)' = After(p)
  BY DEF Numbers, After
<1>2. ClosingAsOf(p)' = ClosingAsOf(p)
  BY <1>1 DEF ClosingAsOf, OnHand, Effect
<1>3. Lines(p)' = Lines(p)
  BY SameEntries
<1> QED BY <1>2, <1>3, BalancesFollow

\* What lies in an open month lies after the periods that are closed.
LEMMA OpenIsLater ==
  ASSUME NEW p \in Ranges, Closed(p), NEW m \in Month, ~Locked(m)
  PROVE  m > p.to /\ m \notin Months(p)
<1>1. p.to \in Int /\ p.from \in Int /\ m \in Int /\ 1 <= m
  BY FilingAssumption DEF Spans, Month
<1>2. m \notin 1..p.to
  BY DEF Closed
<1> QED BY <1>1, <1>2 DEF Months

LEMMA ClosedByCommit ==
  ASSUME Standing, Shape', NEW c \in Callers, CommitEntry(c), NEW p \in Ranges, Closed(p)
  PROVE  Balanced(p)
<1>1. Shape /\ Unlocked
  BY DEF Standing, Tiled
<1>2. PICK e \in Entry : e = call[c].entry /\ entries' = Append(entries, e) /\ ~Locked(e.date)
  BY <1>1 DEF CommitEntry, Shape, Unlocked
<1>3. e.date \in Month
  BY DEF Entry
<1>4. e.date > p.to /\ e.date \notin Months(p)
  BY <1>2, <1>3, OpenIsLater
<1>5. /\ Numbers' = Numbers \cup {Len(entries) + 1}
      /\ Len(entries) + 1 \notin Numbers
      /\ \A i \in Numbers : entries'[i] = entries[i]
      /\ entries'[Len(entries) + 1] = e
  BY <1>1, <1>2 DEF Shape, Numbers
<1>6. \A i \in Numbers : /\ entries'[i].date = entries[i].date
                         /\ Effect(entries'[i]) = Effect(entries[i])
  BY <1>5
<1>7. ClosingAsOf(p)' = ClosingAsOf(p)
  BY <1>1, <1>4, <1>5, <1>6, ClosingStands
<1>8. Lines(p)' = Lines(p)
  BY <1>1, <1>2, <1>4, AppendElsewhere DEF Shape
<1> QED BY <1>7, <1>8, BalancesFollow

LEMMA ClosedByVoid ==
  ASSUME Standing, Shape', VoidedInMonth, NEW c \in Callers, CommitVoid(c),
         NEW p \in Ranges, Closed(p)
  PROVE  Balanced(p)
<1>1. Shape /\ Unlocked
  BY DEF Standing, Tiled
<1>2. PICK n \in DOMAIN entries :
        /\ n = call[c].of /\ entries[n].date = thisMonth /\ ~Locked(entries[n].date)
        /\ entries' = Append([entries EXCEPT ![n].voided = TRUE], Correction(entries[n]))
  BY <1>1 DEF CommitVoid, VoidedInMonth, Shape, InCall, Unlocked
<1>3. entries[n] \in Entry /\ thisMonth \in Month
  BY <1>1 DEF Shape
<1>4. PICK e \in Entry : e = Correction(entries[n]) /\ e.date = thisMonth
  <2>1. entries[n].laa \in Nat
    BY <1>3 DEF Entry
  <2>2. Undoing(entries[n].kind) \in Corrections
    BY DEF Undoing, Corrections
  <2>3. Correction(entries[n]) \in Entry
    BY <1>3, <2>1, <2>2 DEF Correction, Entry
  <2>4. Correction(entries[n]).date = thisMonth
    BY DEF Correction
  <2> QED BY <2>3, <2>4
<1>5. PICK v : v = [entries[n] EXCEPT !.voided = TRUE]
  OBVIOUS
<1>6. v.date = entries[n].date /\ v.laa = entries[n].laa /\ v.kind = entries[n].kind
  BY <1>3, <1>5 DEF Entry
<1>7. /\ Numbers' = Numbers \cup {Len(entries) + 1}
      /\ Len(entries) + 1 \notin Numbers
      /\ \A i \in Numbers : i # n => entries'[i] = entries[i]
      /\ entries'[n] = v
      /\ entries'[Len(entries) + 1] = e
  <2>1. entries' = Append([entries EXCEPT ![n] = v], e)
    BY <1>2, <1>4, <1>5
  <2> QED BY <1>1, <2>1 DEF Shape, Numbers
<1>8. \A i \in Numbers : /\ entries'[i].date = entries[i].date
                         /\ Effect(entries'[i]) = Effect(entries[i])
  BY <1>6, <1>7 DEF Effect
<1>9. e.date > p.to /\ entries[n].date \notin Months(p)
  BY <1>2, <1>3, <1>4, OpenIsLater
<1>10. ClosingAsOf(p)' = ClosingAsOf(p)
  BY <1>1, <1>7, <1>8, <1>9, ClosingStands
<1>11. Lines(p)' = Lines(p)
  BY <1>1, <1>2, <1>3, <1>9, VoidElsewhere DEF Shape
<1> QED BY <1>10, <1>11, BalancesFollow

\* Once every month up to a period's end is filed, its balances stay what they are: for
\* operators who keep to the discipline.
THEOREM ClosedBalancesKept ==
  ASSUME Careful PROVE Spec => ClosedBalancesStand
<1>1. Init => Standing /\ Ordinary /\ VoidedInMonth /\ NothingStrays
  BY FirstStanding, FirstStays DEF Init, Ordinary, InCall
<1>2. Standing /\ Ordinary /\ VoidedInMonth /\ NothingStrays /\ [Next]_vars
        => (Standing /\ Ordinary /\ VoidedInMonth /\ NothingStrays)'
  <2> SUFFICES ASSUME Standing, Ordinary, VoidedInMonth, NothingStrays, [Next]_vars
               PROVE  (Standing /\ Ordinary /\ VoidedInMonth /\ NothingStrays)'
    OBVIOUS
  <2>1. Standing'
    BY StandingNext
  <2>2. Ordinary'
    BY OrdinaryNext DEF Standing, Tiled
  <2>3. VoidedInMonth' /\ NothingStrays'
    BY <2>1, StaysNext DEF Standing, Tiled, Ordinary
  <2> QED BY <2>1, <2>2, <2>3
<1>3. Standing /\ Standing' /\ VoidedInMonth /\ [Next]_vars =>
        [\A p \in Ranges : Closed(p) /\ Closed(p)' =>
           /\ ClosingAsOf(p)' = ClosingAsOf(p)
           /\ OpeningOf(Report(p))' = OpeningOf(Report(p))]_vars
  <2> SUFFICES ASSUME Standing, Standing', VoidedInMonth, [Next]_vars,
                      NEW p \in Ranges, Closed(p)
               PROVE  Balanced(p)
    BY DEF Balanced
  <2>1. CASE UNCHANGED entries
    BY <2>1, SameBalances
  <2>2. CASE ~UNCHANGED entries
    <3>1. PICK c \in Callers : CommitEntry(c) \/ CommitVoid(c)
      BY <2>2 DEF Next, RecordEntry, BeginVoid, GenerateB266, UpsertB266PeriodDraft,
                  SubmitB266, GatherClosing, SubmitB266Period, Rollback, ReopenB266Period,
                  NextMonth, vars
    <3> QED BY <3>1, ClosedByCommit, ClosedByVoid DEF Standing, Tiled
  <2> QED BY <2>1, <2>2
<1> QED BY <1>1, <1>2, <1>3, PTL DEF Spec, ClosedBalancesStand

-----------------------------------------------------------------------------
(* Reporting: the days. *)

Clocks   == 0..28
Cadences == {1, 3, 6, 12}

LEMMA DaysBound ==
  ASSUME NEW m \in Int
  PROVE  DaysIn(m) \in 28..31
BY DEF DaysIn

\* The days are in one order, in which tomorrow is what follows today.
LEMMA DaysInOrder ==
  ASSUME NEW a, NEW b, IsDate(a), IsDate(b)
  PROVE  /\ Before(a, b) \/ a = b \/ Before(b, a)
         /\ ~(Before(a, b) /\ Before(b, a)) /\ ~Before(a, a)
<1>1. a = <<a[1], a[2]>> /\ b = <<b[1], b[2]>> /\ a[1] \in Int /\ a[2] \in Int
      /\ b[1] \in Int /\ b[2] \in Int
  BY DEF IsDate
<1> QED BY <1>1 DEF Before

LEMMA DaysAfter ==
  ASSUME NEW a, NEW b, NEW d, IsDate(a), IsDate(b), IsDate(d)
  PROVE  /\ UpTo(a, b) /\ UpTo(b, d) => UpTo(a, d)
         /\ Before(a, b) /\ UpTo(b, d) => Before(a, d)
         /\ UpTo(a, b) /\ Before(b, d) => Before(a, d)
BY DEF IsDate, Before, UpTo

LEMMA TomorrowFollows ==
  ASSUME NEW t, IsDate(t)
  PROVE  /\ IsDate(Tomorrow(t))
         /\ Before(t, Tomorrow(t))
         /\ Yesterday(Tomorrow(t)) = t
         /\ \A u : IsDate(u) /\ Before(t, u) => UpTo(Tomorrow(t), u)
<1>1. PICK m, d : m \in Int /\ d \in 1..DaysIn(m) /\ t = <<m, d>>
  BY DEF IsDate
<1>2. DaysIn(m) \in 28..31 /\ DaysIn(m + 1) \in 28..31
  BY <1>1, DaysBound
<1>3. Tomorrow(t) = IF d < DaysIn(m) THEN <<m, d + 1>> ELSE <<m + 1, 1>>
  BY <1>1 DEF Tomorrow
<1>4. IsDate(Tomorrow(t))
  BY <1>1, <1>2, <1>3 DEF IsDate
<1>5. Before(t, Tomorrow(t))
  BY <1>1, <1>3 DEF Before
<1>6. Yesterday(Tomorrow(t)) = t
  <2>1. (m + 1) - 1 = m /\ (d + 1) - 1 = d
    BY <1>1, <1>2
  <2>2. CASE d < DaysIn(m)
    BY <1>1, <1>2, <1>3, <2>1, <2>2 DEF Yesterday
  <2>3. CASE ~(d < DaysIn(m))
    <3>1. d = DaysIn(m)
      BY <1>1, <1>2, <2>3
    <3> QED BY <1>1, <1>3, <2>1, <2>3, <3>1 DEF Yesterday
  <2> QED BY <2>2, <2>3
<1>7. ASSUME NEW u, IsDate(u), Before(t, u) PROVE UpTo(Tomorrow(t), u)
  <2>1. PICK k, e : k \in Int /\ e \in 1..DaysIn(k) /\ u = <<k, e>>
    BY <1>7 DEF IsDate
  <2>2. m < k \/ (m = k /\ d < e)
    BY <1>1, <1>7, <2>1 DEF Before
  <2>3. DaysIn(k) \in 28..31
    BY <2>1, DaysBound
  <2> QED BY <1>1, <1>2, <1>3, <2>1, <2>2, <2>3 DEF UpTo, Before
<1> QED BY <1>4, <1>5, <1>6, <1>7

Dates == {t \in Int \X Int : IsDate(t)}

\* The days counted from t on, as Plus and FirstMonthEndFrom count them.
DaysFrom(t) ==
  LET day[k \in Nat] == IF k = 0 THEN t ELSE Tomorrow(day[k - 1])
  IN  day

\* Going on day by day is well defined, and stays in the calendar.
LEMMA DayAfterDay ==
  ASSUME NEW t, IsDate(t)
  PROVE  /\ DaysFrom(t)[0] = t
         /\ \A k \in Nat : DaysFrom(t)[k + 1] = Tomorrow(DaysFrom(t)[k])
<1> DEFINE day[k \in Nat] == IF k = 0 THEN t ELSE Tomorrow(day[k - 1])
<1>1. \A d \in Dates : Tomorrow(d) \in Dates
  BY TomorrowFollows DEF Dates, IsDate
<1>2. PICK g : g = [d \in Dates |-> Tomorrow(d)]
  OBVIOUS
<1>3. t \in Dates /\ \A d \in Dates : g[d] \in Dates /\ g[d] = Tomorrow(d)
  BY <1>1, <1>2 DEF Dates, IsDate
<1>4. PICK f : Stepping(f, t, g) /\ \A k \in Nat : f[k] \in Dates
  <2> HIDE DEF day
  <2> QED BY <1>3, Stepwise
<1>5. f = [k \in Nat |-> IF k = 0 THEN t ELSE Tomorrow(f[k - 1])]
  <2>1. \A k \in Nat : k # 0 => k - 1 \in Nat
    OBVIOUS
  <2>2. \A k \in Nat : k # 0 => g[f[k - 1]] = Tomorrow(f[k - 1])
    BY <1>3, <1>4, <2>1
  <2> QED BY <1>4, <2>2 DEF Stepping
<1>6. day = [k \in Nat |-> IF k = 0 THEN t ELSE Tomorrow(day[k - 1])]
  BY <1>5
<1>7. day = DaysFrom(t)
  BY DEF DaysFrom
<1> HIDE DEF day
<1>8. day[0] = t
  BY <1>6
<1>9. \A k \in Nat : day[k + 1] = Tomorrow(day[k])
  <2> TAKE k \in Nat
  <2>1. k + 1 \in Nat /\ k + 1 # 0 /\ (k + 1) - 1 = k
    OBVIOUS
  <2> QED BY <1>6, <2>1
<1> QED BY <1>7, <1>8, <1>9

\* AddDate stays in the calendar, and moves on.
LEMMA PlusLater ==
  ASSUME NEW t, IsDate(t), NEW n \in Nat
  PROVE  IsDate(Plus(t, n)) /\ UpTo(t, Plus(t, n))
<1>1. PICK after : after = DaysFrom(t) /\ after[0] = t
                   /\ \A k \in Nat : after[k + 1] = Tomorrow(after[k])
  BY DayAfterDay
<1>2. Plus(t, n) = after[n]
  <2>1. Plus(t, n) = DaysFrom(t)[n]
    BY DEF Plus, DaysFrom
  <2> QED BY <1>1, <2>1
<1> DEFINE Q == {k \in Nat : IsDate(after[k]) /\ UpTo(t, after[k])}
<1>3. 0 \in Q
  BY <1>1 DEF UpTo
<1>4. ASSUME NEW k \in Nat, k \in Q PROVE k + 1 \in Q
  <2>1. IsDate(after[k + 1]) /\ Before(after[k], after[k + 1])
    BY <1>1, <1>4, TomorrowFollows
  <2>2. UpTo(t, after[k + 1])
    BY <1>4, <2>1, DaysAfter DEF UpTo
  <2> QED BY <2>1, <2>2
<1> HIDE DEF Q
<1>5. \A k \in Nat : k \in Q
  BY <1>3, <1>4, CountingUp
<1> QED BY <1>2, <1>5 DEF Q

\* Where it is after k days, up to the 28th of the next month.
LEMMA DaysOn ==
  ASSUME NEW t, IsDate(t), NEW a \in Int, NEW d \in 1..DaysIn(a), t = <<a, d>>
  PROVE  \A k \in Nat : d + k <= DaysIn(a) + 28 =>
           DaysFrom(t)[k] = IF d + k <= DaysIn(a) THEN <<a, d + k>>
                            ELSE <<a + 1, d + k - DaysIn(a)>>
<1> DEFINE At(k) == IF d + k <= DaysIn(a) THEN <<a, d + k>>
                    ELSE <<a + 1, d + k - DaysIn(a)>>
           Q == {k \in Nat : d + k <= DaysIn(a) + 28 => DaysFrom(t)[k] = At(k)}
<1>1. DaysFrom(t)[0] = t /\ \A k \in Nat : DaysFrom(t)[k + 1] = Tomorrow(DaysFrom(t)[k])
  BY DayAfterDay
<1>2. DaysIn(a) \in 28..31 /\ DaysIn(a + 1) \in 28..31
  BY DaysBound
<1>3. 0 \in Q
  BY <1>1, <1>2
<1>4. ASSUME NEW k \in Nat, k \in Q PROVE k + 1 \in Q
  <2>1. SUFFICES ASSUME d + (k + 1) <= DaysIn(a) + 28
                 PROVE  DaysFrom(t)[k + 1] = At(k + 1)
    OBVIOUS
  <2>2. DaysFrom(t)[k + 1] = Tomorrow(At(k))
    BY <1>1, <1>2, <1>4, <2>1
  <2>3. Tomorrow(At(k)) = At(k + 1)
    BY <1>2, <2>1 DEF Tomorrow
  <2> QED BY <2>2, <2>3
<1> HIDE DEF Q
<1>5. \A k \in Nat : k \in Q
  BY <1>3, <1>4, CountingUp
<1> QED BY <1>5 DEF Q

-----------------------------------------------------------------------------
(* Reporting: the months.  A clock has one month end in every month. *)

MonthEnd(c, m) == <<m, IF c = CalendarMonth THEN DaysIn(m) ELSE c>>

LEMMA MonthEndIsDate ==
  ASSUME NEW c \in Clocks, NEW m \in Int
  PROVE  IsDate(MonthEnd(c, m))
BY DaysBound DEF MonthEnd, IsDate, Clocks, CalendarMonth

LEMMA MonthEndsInOrder ==
  ASSUME NEW c \in Clocks, NEW m \in Int, NEW k \in Int
  PROVE  /\ m < k => Before(MonthEnd(c, m), MonthEnd(c, k))
         /\ m <= k => UpTo(MonthEnd(c, m), MonthEnd(c, k))
BY DEF MonthEnd, Before, UpTo

LEMMA AfterMonthEnd ==
  ASSUME NEW c \in Clocks, NEW m \in Int
  PROVE  Tomorrow(MonthEnd(c, m)) =
           IF c # CalendarMonth /\ c < DaysIn(m) THEN <<m, c + 1>> ELSE <<m + 1, 1>>
BY DaysBound DEF MonthEnd, Tomorrow, Clocks, CalendarMonth

\* The month end that MonthEndOnOrAfter finds is the first from the day on.
LEMMA MonthEndFound ==
  ASSUME NEW c \in Clocks, NEW t, IsDate(t)
  PROVE  \E m \in Int : /\ MonthEndOnOrAfter(c, t) = MonthEnd(c, m)
                        /\ UpTo(t, MonthEnd(c, m)) /\ Before(MonthEnd(c, m - 1), t)
<1>1. PICK k, d : k \in Int /\ d \in 1..DaysIn(k) /\ t = <<k, d>>
  BY DEF IsDate
<1>2. DaysIn(k) \in 28..31 /\ DaysIn(k - 1) \in 28..31
  BY <1>1, DaysBound
<1>3. CASE c = CalendarMonth \/ d <= c
  <2>1. MonthEndOnOrAfter(c, t) = MonthEnd(c, k)
    BY <1>1, <1>3 DEF MonthEndOnOrAfter, MonthEnd
  <2>2. UpTo(t, MonthEnd(c, k)) /\ Before(MonthEnd(c, k - 1), t)
    BY <1>1, <1>2, <1>3 DEF MonthEnd, UpTo, Before, Clocks, CalendarMonth
  <2> QED BY <1>1, <2>1, <2>2
<1>4. CASE c # CalendarMonth /\ c < d
  <2>1. MonthEndOnOrAfter(c, t) = MonthEnd(c, k + 1) /\ (k + 1) - 1 = k
    BY <1>1, <1>2, <1>4 DEF MonthEndOnOrAfter, MonthEnd, Clocks
  <2>2. UpTo(t, MonthEnd(c, k + 1)) /\ Before(MonthEnd(c, k), t)
    BY <1>1, <1>2, <1>4 DEF MonthEnd, UpTo, Before, Clocks, CalendarMonth
  <2> QED BY <1>1, <2>1, <2>2
<1> QED BY <1>1, <1>2, <1>3, <1>4 DEF Clocks

LEMMA OnMonthEnd ==
  ASSUME NEW c \in Clocks, NEW m \in Int
  PROVE  MonthEndOnOrAfter(c, MonthEnd(c, m)) = MonthEnd(c, m)
BY DEF MonthEndOnOrAfter, MonthEnd, Clocks

LEMMA MonthAfter ==
  ASSUME NEW c \in Clocks, NEW m \in Int
  PROVE  NextMonthEnd(c, MonthEnd(c, m)) = MonthEnd(c, m + 1)
<1>1. PICK t : t = Tomorrow(MonthEnd(c, m))
  OBVIOUS
<1>2. t = IF c # CalendarMonth /\ c < DaysIn(m) THEN <<m, c + 1>> ELSE <<m + 1, 1>>
  BY <1>1, AfterMonthEnd
<1>3. DaysIn(m) \in 28..31
  BY DaysBound
<1>4. c # CalendarMonth => c \in 1..28
  BY DEF Clocks, CalendarMonth
<1>5. MonthEndOnOrAfter(c, t) = MonthEnd(c, m + 1)
  BY <1>2, <1>3, <1>4 DEF MonthEndOnOrAfter, MonthEnd
<1> QED BY <1>1, <1>5 DEF NextMonthEnd

\* A month starts the day after another has ended.
LEMMA MonthStart ==
  ASSUME NEW c \in Clocks, NEW m \in Int
  PROVE  MonthStartFor(c, MonthEnd(c, m)) = Tomorrow(MonthEnd(c, m - 1))
<1>1. DaysIn(m - 1) \in 28..31 /\ (m - 1) + 1 = m
  BY DaysBound
<1> QED BY <1>1 DEF MonthStartFor, MonthEnd, Tomorrow, Clocks, CalendarMonth

LEMMA MonthBefore ==
  ASSUME NEW c \in Clocks, NEW m \in Int
  PROVE  Yesterday(Tomorrow(MonthEnd(c, m))) = MonthEnd(c, m)
BY MonthEndIsDate, TomorrowFollows

-----------------------------------------------------------------------------
(* Reporting: the periods.  Every n-th month end is the end of one. *)

Ends(n, m) == (m % 12) % n = n - 1

LEMMA EndsOften ==
  ASSUME NEW n \in Cadences, NEW m \in Int
  PROVE  \E k \in 0..n - 1 : Ends(n, m + k)
<1>1. \E k \in 0..0 : Ends(1, m + k)
  BY DEF Ends
<1>2. \E k \in 0..2 : Ends(3, m + k)
  BY DEF Ends
<1>3. \E k \in 0..5 : Ends(6, m + k)
  BY DEF Ends
<1>4. \E k \in 0..11 : Ends(12, m + k)
  BY DEF Ends
<1> QED BY <1>1, <1>2, <1>3, <1>4 DEF Cadences

LEMMA EndsApart ==
  ASSUME NEW n \in Cadences, NEW m \in Int, NEW k \in Int, Ends(n, m), Ends(n, k), m < k
  PROVE  m + n <= k
<1>1. n = 1 => m + 1 <= k
  OBVIOUS
<1>2. Ends(3, m) /\ Ends(3, k) => m + 3 <= k
  BY DEF Ends
<1>3. Ends(6, m) /\ Ends(6, k) => m + 6 <= k
  BY DEF Ends
<1>4. Ends(12, m) /\ Ends(12, k) => m + 12 <= k
  BY DEF Ends
<1> QED BY <1>1, <1>2, <1>3, <1>4 DEF Cadences

LEMMA EndsAgain ==
  ASSUME NEW n \in Cadences, NEW m \in Int, Ends(n, m)
  PROVE  Ends(n, m + n) /\ Ends(n, m - n)
<1>1. Ends(1, m + 1) /\ Ends(1, m - 1)
  BY DEF Ends
<1>2. Ends(3, m) => Ends(3, m + 3) /\ Ends(3, m - 3)
  BY DEF Ends
<1>3. Ends(6, m) => Ends(6, m + 6) /\ Ends(6, m - 6)
  BY DEF Ends
<1>4. Ends(12, m) => Ends(12, m + 12) /\ Ends(12, m - 12)
  BY DEF Ends
<1> QED BY <1>1, <1>2, <1>3, <1>4 DEF Cadences

\* The month of one that ends is as IsPeriodEnd counts it.
LEMMA EndsInYear ==
  ASSUME NEW n \in Cadences, NEW m \in Int, Ends(n, m)
  PROVE  (m % 12) \in {k \in 0..11 : (k + 1) % n = 0}
<1>1. m % 12 \in 0..11 /\ (m % 12) % n = n - 1
  BY DEF Ends
<1>2. \A k \in 0..11 : k % 1 = 0 => (k + 1) % 1 = 0
  OBVIOUS
<1>3. \A k \in 0..11 : k % 3 = 2 => (k + 1) % 3 = 0
  OBVIOUS
<1>4. \A k \in 0..11 : k % 6 = 5 => (k + 1) % 6 = 0
  OBVIOUS
<1>5. \A k \in 0..11 : k % 12 = 11 => (k + 1) % 12 = 0
  OBVIOUS
<1> QED BY <1>1, <1>2, <1>3, <1>4, <1>5 DEF Cadences
Period(c, n, m) == [start |-> Tomorrow(MonthEnd(c, m - n)), end |-> MonthEnd(c, m)]

\* The month ends from e on, as the functions of the calendar step along them.
MonthEndsFrom(c, e) ==
  LET end[k \in Nat] == IF k = 0 THEN e ELSE NextMonthEnd(c, end[k - 1])
  IN  end

\* From the m-th on they are at the (m + k)-th after k steps.
LEMMA MonthAfterMonth ==
  ASSUME NEW c \in Clocks, NEW m \in Int
  PROVE  \A k \in Nat : MonthEndsFrom(c, MonthEnd(c, m))[k] = MonthEnd(c, m + k)
<1> DEFINE end[k \in Nat] == IF k = 0 THEN MonthEnd(c, m) ELSE NextMonthEnd(c, end[k - 1])
           f == [k \in Nat |-> MonthEnd(c, m + k)]
<1>1. f = [k \in Nat |-> IF k = 0 THEN MonthEnd(c, m) ELSE NextMonthEnd(c, f[k - 1])]
  <2>1. ASSUME NEW k \in Nat
        PROVE  MonthEnd(c, m + k)
                 = IF k = 0 THEN MonthEnd(c, m) ELSE NextMonthEnd(c, f[k - 1])
    <3>1. CASE k = 0
      <4>1. m + k = m
        BY <3>1
      <4> QED BY <3>1, <4>1
    <3>2. CASE k # 0
      <4>1. k - 1 \in Nat /\ m + (k - 1) \in Int /\ (m + (k - 1)) + 1 = m + k
        BY <3>2
      <4>2. f[k - 1] = MonthEnd(c, m + (k - 1))
        BY <4>1
      <4> QED BY <3>2, <4>1, <4>2, MonthAfter
    <3> QED BY <3>1, <3>2
  <2> QED BY <2>1
<1>2. end = [k \in Nat |-> IF k = 0 THEN MonthEnd(c, m) ELSE NextMonthEnd(c, end[k - 1])]
  <2> HIDE DEF f
  <2> QED BY <1>1
<1> DEFINE Q == {k \in Nat : end[k] = MonthEnd(c, m + k)}
<1>3. \A k \in Nat : k \in Q
  <2> HIDE DEF end, f
  <2>1. 0 \in Q
    <3>1. m + 0 = m
      OBVIOUS
    <3> QED BY <1>2, <3>1
  <2>2. ASSUME NEW k \in Nat, k \in Q PROVE k + 1 \in Q
    <3>1. k + 1 \in Nat /\ k + 1 # 0 /\ (k + 1) - 1 = k /\ (m + k) + 1 = m + (k + 1)
          /\ m + k \in Int
      OBVIOUS
    <3>2. end[k + 1] = NextMonthEnd(c, end[k])
      BY <1>2, <3>1
    <3> QED BY <2>2, <3>1, <3>2, MonthAfter
  <2> HIDE DEF Q
  <2> QED BY <2>1, <2>2, CountingUp
<1>4. end = MonthEndsFrom(c, MonthEnd(c, m))
  BY DEF MonthEndsFrom
<1> HIDE DEF end
<1> QED BY <1>3, <1>4

\* The period a day lies in is found: it ends at the first month end from the day
\* on that periods end at, so it ends on the day or later and the one before it
\* has ended earlier.
LEMMA PeriodEndFound ==
  ASSUME NEW c \in Clocks, NEW n \in Cadences, NEW t, IsDate(t)
  PROVE  \E m \in Int : /\ Ends(n, m)
                        /\ PeriodEndOnOrAfter(c, n, t) = MonthEnd(c, m)
                        /\ UpTo(t, MonthEnd(c, m)) /\ Before(MonthEnd(c, m - n), t)
<1>1. PICK m \in Int : /\ MonthEndOnOrAfter(c, t) = MonthEnd(c, m)
                       /\ UpTo(t, MonthEnd(c, m)) /\ Before(MonthEnd(c, m - 1), t)
  BY MonthEndFound
<1> DEFINE end == MonthEndsFrom(c, MonthEndOnOrAfter(c, t))
           First(k) == Aligned(n, end[k]) /\ \A j \in 0..k - 1 : ~Aligned(n, end[j])
<1>2. \A k \in Nat : end[k] = MonthEnd(c, m + k)
  BY <1>1, MonthAfterMonth
<1>3. PeriodEndOnOrAfter(c, n, t) = end[CHOOSE k \in 0..n - 1 : First(k)]
  BY DEF PeriodEndOnOrAfter, MonthEndsFrom
<1> HIDE DEF end
<1>4. \A k \in Nat : Aligned(n, end[k]) <=> Ends(n, m + k)
  BY <1>2 DEF Aligned, Ends, MonthEnd
<1>5. n \in 1..12
  BY DEF Cadences
<1>6. \E k \in 0..n - 1 : First(k)
  <2> DEFINE R == {k \in 0..n - 1 : Ends(n, m + k)}
  <2>1. R # {} /\ R \subseteq Nat
    <3>1. PICK k \in 0..n - 1 : Ends(n, m + k)
      BY EndsOften
    <3>2. 0..n - 1 \subseteq Nat
      BY <1>5
    <3> QED BY <3>1, <3>2
  <2>2. PICK k \in R : \A y \in R : ~(<<y, k>> \in OpToRel(<, Nat))
    BY <2>1, NatLessThanWellFounded, WFMin
  <2>3. \A y \in R : ~(y < k)
    BY <2>1, <2>2 DEF OpToRel
  <2>4. \A j \in 0..k - 1 : j \in Nat /\ j \in 0..n - 1 /\ j < k
    BY <1>5
  <2>5. \A j \in 0..k - 1 : ~Ends(n, m + j)
    BY <2>3, <2>4
  <2> QED BY <1>4, <1>5, <2>4, <2>5
<1>7. PICK k \in 0..n - 1 : First(k) /\ PeriodEndOnOrAfter(c, n, t) = end[k]
  BY <1>3, <1>6
<1>8. k \in Nat /\ m + k \in Int /\ (m + k) - n \in Int /\ (m + k) - n <= m - 1 /\ m <= m + k
      /\ m - 1 \in Int
  BY <1>5
<1>9. Ends(n, m + k) /\ PeriodEndOnOrAfter(c, n, t) = MonthEnd(c, m + k)
  BY <1>2, <1>4, <1>7, <1>8
<1>10. UpTo(t, MonthEnd(c, m + k))
  BY <1>1, <1>8, MonthEndIsDate, MonthEndsInOrder, DaysAfter
<1>11. Before(MonthEnd(c, (m + k) - n), t)
  <2>1. UpTo(MonthEnd(c, (m + k) - n), MonthEnd(c, m - 1))
    BY <1>8, MonthEndsInOrder
  <2>2. IsDate(MonthEnd(c, (m + k) - n)) /\ IsDate(MonthEnd(c, m - 1))
    BY <1>8, MonthEndIsDate
  <2> QED BY <1>1, <2>1, <2>2, DaysAfter
<1> QED BY <1>8, <1>9, <1>10, <1>11

\* The start is n month ends back.
LEMMA PeriodStart ==
  ASSUME NEW c \in Clocks, NEW n \in Cadences, NEW m \in Int
  PROVE  PeriodStartFor(c, n, MonthEnd(c, m)) = Tomorrow(MonthEnd(c, m - n))
<1> DEFINE e == MonthEnd(c, m)
           start[k \in Nat] == IF k <= 1 THEN MonthStartFor(c, e)
                               ELSE MonthStartFor(c, Yesterday(start[k - 1]))
           f == [k \in Nat |-> IF k <= 1 THEN MonthStartFor(c, e)
                               ELSE Tomorrow(MonthEnd(c, m - k))]
<1>1. MonthStartFor(c, e) = Tomorrow(MonthEnd(c, m - 1))
  BY MonthStart
<1>2. ASSUME NEW k \in Nat, k # 0, k # 1
      PROVE  MonthStartFor(c, Yesterday(Tomorrow(MonthEnd(c, m - (k - 1)))))
               = Tomorrow(MonthEnd(c, m - k))
  <2>1. m - (k - 1) \in Int /\ (m - (k - 1)) - 1 = m - k
    OBVIOUS
  <2> QED BY <2>1, MonthBefore, MonthStart
<1>3. f = [k \in Nat |-> IF k <= 1 THEN MonthStartFor(c, e)
                         ELSE MonthStartFor(c, Yesterday(f[k - 1]))]
  <2>1. ASSUME NEW k \in Nat, ~(k <= 1)
        PROVE  Tomorrow(MonthEnd(c, m - k)) = MonthStartFor(c, Yesterday(f[k - 1]))
    <3>1. k - 1 \in Nat /\ k # 0 /\ k # 1 /\ (k - 1 <= 1 => k - 1 = 1)
      BY <2>1
    <3>2. f[k - 1] = Tomorrow(MonthEnd(c, m - (k - 1)))
      <4>1. CASE k - 1 = 1
        <5>1. f[k - 1] = MonthStartFor(c, e)
          BY <3>1, <4>1
        <5> QED BY <1>1, <4>1, <5>1
      <4>2. CASE k - 1 # 1
        BY <3>1, <4>2
      <4> QED BY <4>1, <4>2
    <3> QED BY <1>2, <3>1, <3>2
  <2> QED BY <2>1
<1>4. start = [k \in Nat |-> IF k <= 1 THEN MonthStartFor(c, e)
                             ELSE MonthStartFor(c, Yesterday(start[k - 1]))]
  <2> HIDE DEF f, e
  <2> QED BY <1>3
<1>5. PeriodStartFor(c, n, e) = start[n]
  BY DEF PeriodStartFor
<1> DEFINE Q == {k \in Nat : k # 0 => start[k] = Tomorrow(MonthEnd(c, m - k))}
<1>6. \A k \in Nat : k \in Q
  <2> HIDE DEF start, f
  <2>1. 0 \in Q
    OBVIOUS
  <2>2. ASSUME NEW k \in Nat, k \in Q PROVE k + 1 \in Q
    <3>1. k + 1 \in Nat /\ (k + 1) - 1 = k
      OBVIOUS
    <3>2. CASE k = 0
      <4>1. k + 1 = 1 /\ k + 1 <= 1
        BY <3>2
      <4>2. start[k + 1] = MonthStartFor(c, e)
        <5> HIDE DEF e
        <5> QED BY <1>4, <3>1, <4>1
      <4> QED BY <1>1, <3>1, <4>1, <4>2
    <3>3. CASE k # 0
      <4>1. ~(k + 1 <= 1) /\ k + 1 # 0 /\ k + 1 # 1
        BY <3>3
      <4>2. start[k + 1] = MonthStartFor(c, Yesterday(start[k]))
        <5> HIDE DEF e
        <5> QED BY <1>4, <3>1, <4>1
      <4>3. start[k] = Tomorrow(MonthEnd(c, m - ((k + 1) - 1)))
        BY <2>2, <3>1, <3>3
      <4> QED BY <1>2, <3>1, <4>1, <4>2, <4>3
    <3> QED BY <3>2, <3>3
  <2> HIDE DEF Q
  <2> QED BY <2>1, <2>2, CountingUp
<1>7. n \in Nat /\ n # 0
  BY DEF Cadences
<1> QED BY <1>5, <1>6, <1>7
LEMMA PeriodIs ==
  ASSUME NEW c \in Clocks, NEW n \in Cadences, NEW m \in Int
  PROVE  PeriodEnding(c, n, MonthEnd(c, m)) = Period(c, n, m)
BY PeriodStart DEF PeriodEnding, Period

\* Months m and k at which periods end, one's last day the first from t on, are one.
LEMMA OnePeriodOfADay ==
  ASSUME NEW c \in Clocks, NEW n \in Cadences, NEW t, IsDate(t),
         NEW m \in Int, Ends(n, m), UpTo(t, MonthEnd(c, m)),
         NEW k \in Int, Ends(n, k), Before(MonthEnd(c, k - n), t)
  PROVE  k <= m
<1>1. SUFFICES ASSUME m < k PROVE FALSE
  OBVIOUS
<1>2. n \in Int
  BY DEF Cadences
<1>3. m <= k - n /\ k - n \in Int
  BY <1>1, <1>2, EndsApart
<1>4. UpTo(MonthEnd(c, m), MonthEnd(c, k - n))
  BY <1>3, MonthEndsInOrder
<1>5. IsDate(MonthEnd(c, m)) /\ IsDate(MonthEnd(c, k - n))
  BY <1>3, MonthEndIsDate
<1>6. Before(MonthEnd(c, m), t)
  BY <1>4, <1>5, DaysAfter
<1>7. ~Before(MonthEnd(c, m), t)
  BY <1>5, DaysInOrder DEF UpTo
<1> QED BY <1>6, <1>7

\* Every day lies in one period, and that is the one that is found for it.
LEMMA PeriodOfADay ==
  ASSUME NEW c \in Clocks, NEW n \in Cadences, NEW t, IsDate(t)
  PROVE  /\ \E m \in Int : /\ Ends(n, m) /\ PeriodContaining(c, n, t) = Period(c, n, m)
                           /\ UpTo(t, MonthEnd(c, m)) /\ Before(MonthEnd(c, m - n), t)
         /\ \A m \in Int : Ends(n, m) /\ UpTo(t, MonthEnd(c, m))
                             /\ Before(MonthEnd(c, m - n), t)
                           => PeriodContaining(c, n, t) = Period(c, n, m)
<1>1. PICK m \in Int : /\ Ends(n, m) /\ PeriodEndOnOrAfter(c, n, t) = MonthEnd(c, m)
                       /\ UpTo(t, MonthEnd(c, m)) /\ Before(MonthEnd(c, m - n), t)
  BY PeriodEndFound
<1>2. PeriodContaining(c, n, t) = Period(c, n, m)
  BY <1>1, PeriodIs DEF PeriodContaining
<1>3. ASSUME NEW k \in Int, Ends(n, k), UpTo(t, MonthEnd(c, k)), Before(MonthEnd(c, k - n), t)
      PROVE  k = m
  <2>1. k <= m
    BY <1>1, <1>3, OnePeriodOfADay
  <2>2. m <= k
    BY <1>1, <1>3, OnePeriodOfADay
  <2> QED BY <2>1, <2>2
<1> QED BY <1>1, <1>2, <1>3

\* A period starts before it ends, and it is one as IsPeriod counts them.
LEMMA PeriodsAreSound ==
  ASSUME NEW c \in Clocks, NEW n \in Cadences, NEW m \in Int, Ends(n, m),
         NEW p, p.start = Tomorrow(MonthEnd(c, m - n)), p.end = MonthEnd(c, m)
  PROVE  IsPeriod(c, n, p)
<1>1. m - n \in Int /\ Ends(n, m - n)
  BY EndsAgain DEF Cadences
<1>2. \A k \in Int : IsMonthEnd(c, MonthEnd(c, k))
  <2> TAKE k \in Int
  <2>1. CASE c = CalendarMonth
    BY <2>1, AfterMonthEnd DEF IsMonthEnd
  <2>2. CASE c # CalendarMonth
    BY <2>2 DEF IsMonthEnd, MonthEnd
  <2> QED BY <2>1, <2>2
<1>3. \A k \in Int : MonthEnd(c, k)[1] = k
  BY DEF MonthEnd
<1>4. IsPeriodEnd(c, n, MonthEnd(c, m))
  BY <1>2, <1>3, EndsInYear DEF IsPeriodEnd
<1>5. IsPeriodEnd(c, n, MonthEnd(c, m - n))
  BY <1>1, <1>2, <1>3, EndsInYear DEF IsPeriodEnd
<1>6. Yesterday(p.start) = MonthEnd(c, m - n)
  BY <1>1, MonthBefore
<1> QED BY <1>1, <1>3, <1>4, <1>5, <1>6 DEF IsPeriod

\* The last that has ended is the one before the one that runs.
LEMMA LastEndedIs ==
  ASSUME NEW c \in Clocks, NEW n \in Cadences, NEW t, IsDate(t),
         NEW m \in Int, Ends(n, m), UpTo(t, MonthEnd(c, m)), Before(MonthEnd(c, m - n), t)
  PROVE  LastEnded(c, n, t) = Period(c, n, m - n)
<1>1. m - n \in Int /\ Ends(n, m - n) /\ (m - n) - n \in Int /\ (m - n) - n < m - n
  BY EndsAgain DEF Cadences
<1>2. PeriodContaining(c, n, t) = Period(c, n, m)
  BY PeriodOfADay
<1>3. Yesterday(PeriodContaining(c, n, t).start) = MonthEnd(c, m - n)
  BY <1>1, <1>2, MonthBefore DEF Period
<1>4. IsDate(MonthEnd(c, m - n)) /\ UpTo(MonthEnd(c, m - n), MonthEnd(c, m - n))
  BY <1>1, MonthEndIsDate DEF UpTo
<1>5. Before(MonthEnd(c, (m - n) - n), MonthEnd(c, m - n))
  BY <1>1, MonthEndsInOrder
<1> QED BY <1>1, <1>3, <1>4, <1>5, PeriodOfADay DEF LastEnded

\* A return is due a month after its period has ended.
LEMMA DueIs ==
  ASSUME NEW c \in Clocks, NEW n, NEW m \in Int
  PROVE  DueDate(c, n, MonthEnd(c, m)) = MonthEnd(c, m + 1)
BY OnMonthEnd, MonthAfter DEF DueDate

\* The month end counted day by day is the one the code computes.
LEMMA CountedDayByDay ==
  ASSUME NEW c \in Clocks, NEW m \in Int
  PROVE  FirstMonthEndFrom(c, Tomorrow(MonthEnd(c, m))) = MonthEnd(c, m + 1)
<1> DEFINE t == Tomorrow(MonthEnd(c, m))
           day == DaysFrom(t)
           First(k) == IsMonthEnd(c, day[k]) /\ \A j \in 0..k - 1 : ~IsMonthEnd(c, day[j])
<1>1. FirstMonthEndFrom(c, t) = day[CHOOSE k \in 0..31 : First(k)]
  BY DEF FirstMonthEndFrom, DaysFrom
<1>2. IsDate(t)
  BY MonthEndIsDate, TomorrowFollows
<1>3. \A a \in Int : \A d \in 1..DaysIn(a) : t = <<a, d>> =>
        \A k \in Nat : d + k <= DaysIn(a) + 28 =>
          day[k] = IF d + k <= DaysIn(a) THEN <<a, d + k>> ELSE <<a + 1, d + k - DaysIn(a)>>
  <2> HIDE DEF t
  <2> QED BY <1>2, DaysOn
<1> HIDE DEF t, day
<1>4. DaysIn(m) \in 28..31 /\ DaysIn(m + 1) \in 28..31 /\ m + 1 \in Int
  BY DaysBound
<1>5. t = IF c # CalendarMonth /\ c < DaysIn(m) THEN <<m, c + 1>> ELSE <<m + 1, 1>>
  BY AfterMonthEnd DEF t
<1>6. c = 0 \/ c \in 1..28
  BY DEF Clocks
<1>7. PICK K \in 0..31 : /\ IsMonthEnd(c, day[K]) /\ day[K] = MonthEnd(c, m + 1)
                         /\ \A j \in 0..K - 1 : ~IsMonthEnd(c, day[j])
  <2>1. CASE c = CalendarMonth \/ c >= DaysIn(m)
    <3> DEFINE K == (IF c = CalendarMonth THEN DaysIn(m + 1) ELSE c) - 1
    <3>1. K \in 0..30 /\ K < DaysIn(m + 1)
      BY <1>4, <1>6, <2>1 DEF CalendarMonth
    <3>2. t = <<m + 1, 1>> /\ 1 \in 1..DaysIn(m + 1)
      BY <1>4, <1>5, <2>1, <1>6 DEF CalendarMonth
    <3>3. \A k \in 0..K : day[k] = <<m + 1, k + 1>>
      <4> HIDE DEF K
      <4> TAKE k \in 0..K
      <4>1. k \in Nat /\ 1 + k <= DaysIn(m + 1) /\ 1 + k <= DaysIn(m + 1) + 28
            /\ 1 + k = k + 1
        BY <1>4, <3>1
      <4>2. day[k] = IF 1 + k <= DaysIn(m + 1) THEN <<m + 1, 1 + k>>
                     ELSE <<(m + 1) + 1, 1 + k - DaysIn(m + 1)>>
        BY <1>3, <1>4, <3>2, <4>1
      <4> QED BY <4>1, <4>2
    <3>4. \A k \in 0..K : IsMonthEnd(c, day[k]) <=> k = K
      <4> TAKE k \in 0..K
      <4>1. day[k] = <<m + 1, k + 1>> /\ k \in Int /\ k >= 0 /\ k <= K
        BY <3>1, <3>3
      <4>2. CASE c = CalendarMonth
        <5>1. K = DaysIn(m + 1) - 1
          BY <4>2
        <5>2. Tomorrow(<<m + 1, k + 1>>)[2] = 1 <=> k = K
          BY <1>4, <4>1, <5>1 DEF Tomorrow
        <5> QED BY <4>1, <4>2, <5>2 DEF IsMonthEnd
      <4>3. CASE c # CalendarMonth
        BY <1>6, <4>1, <4>3 DEF IsMonthEnd
      <4> QED BY <4>2, <4>3
    <3>5. day[K] = MonthEnd(c, m + 1)
      BY <1>4, <1>6, <3>1, <3>3 DEF MonthEnd
    <3> HIDE DEF K
    <3>6. \A j \in 0..K - 1 : j \in 0..K /\ j # K
      BY <3>1
    <3>7. K \in 0..31 /\ K \in 0..K
      BY <3>1
    <3> QED BY <3>4, <3>5, <3>6, <3>7
  <2>2. CASE c # CalendarMonth /\ c < DaysIn(m)
    <3>1. PICK D, K : D = DaysIn(m) /\ K = D - 1
      OBVIOUS
    <3>2. /\ D \in 28..31 /\ K \in 0..30 /\ c \in 1..28 /\ c < D
          /\ c + 1 \in 1..D /\ t = <<m, c + 1>>
      BY <1>4, <1>5, <1>6, <2>2, <3>1 DEF CalendarMonth
    <3>3. ASSUME NEW k \in 0..K
          PROVE  day[k] = IF c + 1 + k <= D THEN <<m, c + 1 + k>> ELSE <<m + 1, c + 1 + k - D>>
      <4>1. k \in Nat /\ c + 1 + k <= DaysIn(m) + 28
        BY <3>1, <3>2
      <4> QED BY <1>3, <3>1, <3>2, <4>1
    <3>4. ASSUME NEW k \in 0..K PROVE IsMonthEnd(c, day[k]) <=> k = K
      <4>1. day[k][2] = IF c + 1 + k <= D THEN c + 1 + k ELSE c + 1 + k - D
        <5>1. \A x, y : <<x, y>>[2] = y
          OBVIOUS
        <5>2. CASE c + 1 + k <= D
          <6>1. day[k] = <<m, c + 1 + k>>
            BY <3>3, <5>2
          <6> QED BY <5>1, <5>2, <6>1
        <5>3. CASE ~(c + 1 + k <= D)
          <6>1. day[k] = <<m + 1, c + 1 + k - D>>
            BY <3>3, <5>3
          <6> QED BY <5>1, <5>3, <6>1
        <5> QED BY <5>2, <5>3
      <4>2. day[k][2] = c <=> k = K
        BY <3>1, <3>2, <4>1
      <4> QED BY <2>2, <4>2 DEF IsMonthEnd
    <3>5. K \in 0..31 /\ K \in 0..K /\ \A j \in 0..K - 1 : j \in 0..K /\ j # K
      BY <3>2
    <3>6. day[K] = MonthEnd(c, m + 1)
      <4>1. ~(c + 1 + K <= D) /\ c + 1 + K - D = c
        BY <3>1, <3>2
      <4>2. day[K] = <<m + 1, c>>
        BY <3>3, <3>5, <4>1
      <4> QED BY <2>2, <4>2 DEF MonthEnd
    <3> QED BY <3>4, <3>5, <3>6
  <2> QED BY <1>4, <1>6, <2>1, <2>2
<1>8. First(K)
  BY <1>7
<1>9. ASSUME NEW k \in 0..31, First(k) PROVE k = K
  <2>1. ~(k < K)
    <3>1. k < K => k \in 0..K - 1
      OBVIOUS
    <3> QED BY <1>7, <1>9, <3>1
  <2>2. ~(K < k)
    <3>1. K < k => K \in 0..k - 1
      OBVIOUS
    <3> QED BY <1>7, <1>9, <3>1
  <2> QED BY <2>1, <2>2
<1> HIDE DEF First
<1>10. (CHOOSE k \in 0..31 : First(k)) = K
  BY <1>8, <1>9
<1>11. FirstMonthEndFrom(c, t) = MonthEnd(c, m + 1)
  BY <1>1, <1>7, <1>10
<1> QED BY <1>11 DEF t

-----------------------------------------------------------------------------
(* Reporting: the periods generated for a range. *)

\* The ends of the periods of a calendar.
EndsOf(c, n) == {MonthEnd(c, m) : m \in {k \in Int : Ends(n, k)}}

LEMMA NextPeriod ==
  ASSUME NEW c \in Clocks, NEW n \in Cadences, NEW e \in EndsOf(c, n)
  PROVE  NextPeriodEnd(c, n, e) \in EndsOf(c, n)
<1>1. PICK m \in Int : Ends(n, m) /\ e = MonthEnd(c, m)
  BY DEF EndsOf
<1>2. \A k \in Nat : MonthEndsFrom(c, MonthEnd(c, m))[k] = MonthEnd(c, m + k)
  BY MonthAfterMonth
<1>3. NextPeriodEnd(c, n, MonthEnd(c, m)) = MonthEndsFrom(c, MonthEnd(c, m))[n]
  BY DEF NextPeriodEnd, MonthEndsFrom
<1>4. n \in Nat /\ m + n \in Int /\ Ends(n, m + n)
  BY <1>1, EndsAgain DEF Cadences
<1> QED BY <1>1, <1>2, <1>3, <1>4 DEF EndsOf

LEMMA PeriodEndsEnd ==
  ASSUME NEW c \in Clocks, NEW n \in Cadences, NEW from, IsDate(from), NEW to
  PROVE  PeriodEnds(c, n, from, to) \subseteq EndsOf(c, n)
<1> DEFINE first == PeriodEndOnOrAfter(c, n, from)
           end[k \in Nat] == IF k = 0 THEN PeriodEndOnOrAfter(c, n, from)
                             ELSE NextPeriodEnd(c, n, end[k - 1])
<1>1. first \in EndsOf(c, n)
  BY PeriodEndFound DEF EndsOf
<1>2. PICK g : g = [e \in EndsOf(c, n) |-> NextPeriodEnd(c, n, e)]
  OBVIOUS
<1>3. \A e \in EndsOf(c, n) : g[e] \in EndsOf(c, n) /\ g[e] = NextPeriodEnd(c, n, e)
  BY <1>2, NextPeriod
<1>4. PICK f : Stepping(f, first, g) /\ \A k \in Nat : f[k] \in EndsOf(c, n)
  <2> HIDE DEF end, first
  <2> QED BY <1>1, <1>3, Stepwise
<1>5. f = [k \in Nat |-> IF k = 0 THEN first ELSE NextPeriodEnd(c, n, f[k - 1])]
  <2> HIDE DEF first
  <2>1. \A k \in Nat : k # 0 => k - 1 \in Nat
    OBVIOUS
  <2>2. \A k \in Nat : k # 0 => g[f[k - 1]] = NextPeriodEnd(c, n, f[k - 1])
    BY <1>3, <1>4, <2>1
  <2> QED BY <1>4, <2>2 DEF Stepping
<1>6. end = [k \in Nat |-> IF k = 0 THEN first ELSE NextPeriodEnd(c, n, end[k - 1])]
  BY <1>5
<1>7. PeriodEnds(c, n, from, to) = {end[k] : k \in {j \in 0..to[1] - from[1] + 1 : UpTo(end[j], to)}}
  BY DEF PeriodEnds
<1> HIDE DEF end, first
<1> DEFINE Q == {k \in Nat : end[k] \in EndsOf(c, n)}
<1>8. 0 \in Q
  BY <1>1, <1>6
<1>9. ASSUME NEW k \in Nat, k \in Q PROVE k + 1 \in Q
  <2>1. k + 1 \in Nat /\ k + 1 # 0 /\ (k + 1) - 1 = k
    OBVIOUS
  <2>2. end[k + 1] = NextPeriodEnd(c, n, end[k])
    BY <1>6, <2>1
  <2> QED BY <1>9, <2>1, <2>2, NextPeriod
<1> HIDE DEF Q
<1>10. \A k \in Nat : k \in Q
  BY <1>8, <1>9, CountingUp
<1>11. \A a : \A k \in 0..a : k \in Nat
  OBVIOUS
<1> QED BY <1>7, <1>10, <1>11 DEF Q

-----------------------------------------------------------------------------
(* Reporting: what becomes of a past report. *)

\* A row of provincial_report_periods.
IsRow(p) ==
  p = [start |-> p.start, end |-> p.end, filed |-> p.filed, by |-> p.by, due |-> p.due]

\* Every row is one, and there is one of each period: the unique key.
Rows ==
  /\ \A p \in periods : IsRow(p)
  /\ \A p, q \in periods : SamePeriod(p, q) => p = q

\* What may have become of row p: its date stands if it had one, and it is not unfiled.
Stands(p, q) ==
  /\ q.start = p.start /\ q.end = p.end
  /\ p.filed => q.filed
  /\ p.due # NoDate => q.due = p.due

LEMMA UpsertKeeps ==
  ASSUME NEW p, IsRow(p), NEW n
  PROVE  /\ IsRow(Upserted(p, n)) /\ Stands(p, Upserted(p, n))
         /\ SamePeriod(p, Upserted(p, n))
<1>1. PICK u : u = [p EXCEPT !.due = n.due]
  OBVIOUS
<1>2. u = [start |-> p.start, end |-> p.end, filed |-> p.filed, by |-> p.by, due |-> n.due]
  BY <1>1 DEF IsRow
<1>3. CASE p.due = NoDate
  <2>1. Upserted(p, n) = u
    BY <1>1, <1>3 DEF Upserted
  <2> QED BY <1>2, <1>3, <2>1 DEF IsRow, Stands, SamePeriod
<1>4. CASE p.due # NoDate
  BY <1>4 DEF Upserted, IsRow, Stands, SamePeriod
<1> QED BY <1>3, <1>4

LEMMA MarkKeeps ==
  ASSUME NEW p, IsRow(p), NEW u, u = [p EXCEPT !.filed = TRUE]
  PROVE  IsRow(u) /\ Stands(p, u) /\ SamePeriod(p, u)
<1>1. u = [start |-> p.start, end |-> p.end, filed |-> TRUE, by |-> p.by, due |-> p.due]
  BY DEF IsRow
<1> QED BY <1>1 DEF IsRow, Stands, SamePeriod

\* Rows and what was asked for meet on the key: each row that was there is there
\* still, with a new one's date at most.
LEMMA UpsertAll ==
  ASSUME Rows, NEW new, \A n \in new : IsRow(n),
         \A m, n \in new : SamePeriod(m, n) => m = n,
         periods' = {p \in periods : \A q \in new : ~SamePeriod(p, q)}
                    \cup {q \in new : \A p \in periods : ~SamePeriod(p, q)}
                    \cup {Upserted(pq[1], pq[2]) :
                            pq \in {xy \in periods \X new : SamePeriod(xy[1], xy[2])}}
  PROVE  Rows' /\ \A p \in periods : \E q \in periods' : Stands(p, q)
<1> DEFINE old == {p \in periods : \A q \in new : ~SamePeriod(p, q)}
           fresh == {q \in new : \A p \in periods : ~SamePeriod(p, q)}
           both == {xy \in periods \X new : SamePeriod(xy[1], xy[2])}
<1>1. \A p \in periods, n \in new : SamePeriod(p, n) => Upserted(p, n) \in periods'
  <2> SUFFICES ASSUME NEW p \in periods, NEW n \in new, SamePeriod(p, n)
               PROVE  Upserted(p, n) \in periods'
    OBVIOUS
  <2>1. <<p, n>> \in both
    OBVIOUS
  <2> QED BY <2>1
<1>2. ASSUME NEW p \in periods PROVE \E q \in periods' : Stands(p, q)
  <2>1. CASE p \in old
    BY <2>1 DEF Stands
  <2>2. CASE p \notin old
    <3>1. PICK n \in new : SamePeriod(p, n)
      BY <2>2
    <3>2. Upserted(p, n) \in periods'
      BY <1>1, <3>1
    <3>3. Stands(p, Upserted(p, n))
      BY UpsertKeeps DEF Rows
    <3> QED BY <3>2, <3>3
  <2> QED BY <2>1, <2>2
\* Every row comes from an old one or a new one of its period, and by itself.
<1>3. ASSUME NEW r \in periods'
      PROVE  /\ IsRow(r)
             /\ \/ r \in old
                \/ r \in fresh
                \/ \E p \in periods, n \in new :
                     SamePeriod(p, n) /\ SamePeriod(p, r) /\ r = Upserted(p, n)
  <2>1. CASE r \in old \cup fresh
    BY <2>1 DEF Rows
  <2>2. CASE r \notin old \cup fresh
    <3>1. PICK pq \in both : r = Upserted(pq[1], pq[2])
      BY <2>2
    <3>2. PICK p \in periods, n \in new : p = pq[1] /\ n = pq[2] /\ SamePeriod(p, n)
      OBVIOUS
    <3>3. r = Upserted(p, n)
      BY <3>1, <3>2
    <3>4. IsRow(r) /\ SamePeriod(p, r)
      BY <3>3, UpsertKeeps DEF Rows
    <3> QED BY <3>2, <3>3, <3>4
  <2> QED BY <2>1, <2>2
<1>4. ASSUME NEW r \in periods', NEW s \in periods', SamePeriod(r, s) PROVE r = s
  <2>1. CASE r \in old
    <3>1. s \notin fresh
      BY <1>4, <2>1 DEF SamePeriod
    <3>2. CASE s \in old
      BY <1>4, <2>1, <3>2 DEF Rows
    <3>3. CASE s \notin old
      <4>1. PICK p \in periods, n \in new : SamePeriod(p, n) /\ SamePeriod(p, s)
        BY <1>3, <3>1, <3>3
      <4>2. SamePeriod(r, n)
        BY <1>4, <4>1 DEF SamePeriod
      <4> QED BY <2>1, <4>2
    <3> QED BY <3>2, <3>3
  <2>2. CASE r \in fresh
    <3>1. s \notin old
      BY <1>4, <2>2 DEF SamePeriod
    <3>2. CASE s \in fresh
      BY <1>4, <2>2, <3>2
    <3>3. CASE s \notin fresh
      <4>1. PICK p \in periods, n \in new : SamePeriod(p, n) /\ SamePeriod(p, s)
        BY <1>3, <3>1, <3>3
      <4>2. SamePeriod(p, r)
        BY <1>4, <4>1 DEF SamePeriod
      <4> QED BY <2>2, <4>2
    <3> QED BY <3>2, <3>3
  <2>3. CASE r \notin old \cup fresh
    <3>1. PICK p \in periods, n \in new :
            SamePeriod(p, n) /\ SamePeriod(p, r) /\ r = Upserted(p, n)
      BY <1>3, <2>3
    <3>2. s \notin old
      <4>1. SUFFICES ASSUME s \in old PROVE FALSE
        OBVIOUS
      <4>2. SamePeriod(s, n)
        BY <1>4, <3>1 DEF SamePeriod
      <4> QED BY <4>1, <4>2
    <3>3. s \notin fresh
      <4>1. SUFFICES ASSUME s \in fresh PROVE FALSE
        OBVIOUS
      <4>2. SamePeriod(p, s)
        BY <1>4, <3>1 DEF SamePeriod
      <4> QED BY <4>1, <4>2
    <3>4. PICK q \in periods, m \in new :
            SamePeriod(q, m) /\ SamePeriod(q, s) /\ s = Upserted(q, m)
      BY <1>3, <3>2, <3>3
    <3>5. SamePeriod(p, q) /\ SamePeriod(m, n)
      BY <1>4, <3>1, <3>4 DEF SamePeriod
    <3>6. p = q /\ m = n
      BY <3>5 DEF Rows
    <3> QED BY <3>1, <3>4, <3>6
  <2> QED BY <2>1, <2>2, <2>3
<1>5. Rows'
  BY <1>3, <1>4 DEF Rows, SamePeriod
<1> QED BY <1>2, <1>5

LEMMA Generates ==
  ASSUME Rows, NEW from, NEW to, GenerateProvincialPeriods(from, to)
  PROVE  Rows' /\ \A p \in periods : \E q \in periods' : Stands(p, q)
<1>1. PICK c, n, d, f : /\ c = Clock(definition) /\ n = definition.cadence
                        /\ d = {PeriodEnding(c, n, e) : e \in PeriodEnds(c, n, from, to)}
                        /\ f = [p \in d |-> [start |-> p.start, end |-> p.end,
                                  filed |-> FALSE, by |-> <<c, n>>,
                                  due |-> IF definition.dueDays < 0 THEN NoDate
                                          ELSE Plus(p.end, definition.dueDays)]]
  OBVIOUS
<1>2. PICK new : new = {f[p] : p \in d}
  OBVIOUS
<1>3. periods' = {p \in periods : \A q \in new : ~SamePeriod(p, q)}
                 \cup {q \in new : \A p \in periods : ~SamePeriod(p, q)}
                 \cup {Upserted(pq[1], pq[2]) :
                         pq \in {xy \in periods \X new : SamePeriod(xy[1], xy[2])}}
  BY <1>1, <1>2 DEF GenerateProvincialPeriods
<1>4. \A p \in d : p = [start |-> p.start, end |-> p.end]
  BY <1>1 DEF PeriodEnding
<1>5. \A p \in d : IsRow(f[p]) /\ f[p].start = p.start /\ f[p].end = p.end
  BY <1>1 DEF IsRow
<1>6. \A q \in new : IsRow(q)
  BY <1>2, <1>5
<1>7. ASSUME NEW q \in new, NEW r \in new, SamePeriod(q, r) PROVE q = r
  <2>1. PICK p \in d : q = f[p]
    BY <1>2
  <2>2. PICK s \in d : r = f[s]
    BY <1>2
  <2>3. p.start = s.start /\ p.end = s.end
    BY <1>5, <1>7, <2>1, <2>2 DEF SamePeriod
  <2>4. p = s
    BY <1>4, <2>3
  <2> QED BY <2>1, <2>2, <2>4
<1> QED BY <1>3, <1>6, <1>7, UpsertAll

LEMMA RowsStep ==
  ASSUME Rows, [ReportingNext]_reportingVars
  PROVE  Rows' /\ \A p \in periods : \E q \in periods' : Stands(p, q)
<1>1. ASSUME periods' = periods
      PROVE  Rows' /\ \A p \in periods : \E q \in periods' : Stands(p, q)
  BY <1>1 DEF Rows, Stands
<1>2. CASE NextDay \/ SaveProvincialReportDefinition \/ UNCHANGED reportingVars
  BY <1>1, <1>2 DEF NextDay, SaveProvincialReportDefinition, reportingVars
<1>3. ASSUME NEW p \in unfiled, SubmitB266Return(p)
      PROVE  Rows' /\ \A r \in periods : \E q \in periods' : Stands(r, q)
  BY <1>1, <1>3 DEF SubmitB266Return
<1>4. ASSUME NEW p \in periods, MarkProvincialReportFiled(p)
      PROVE  Rows' /\ \A r \in periods : \E q \in periods' : Stands(r, q)
  <2>1. PICK u : u = [p EXCEPT !.filed = TRUE]
    OBVIOUS
  <2>2. periods' = (periods \ {p}) \cup {u}
    BY <1>4, <2>1 DEF MarkProvincialReportFiled
  <2>3. IsRow(u) /\ Stands(p, u) /\ SamePeriod(p, u)
    BY <2>1, MarkKeeps DEF Rows
  <2>4. \A r \in periods : Stands(r, r)
    BY DEF Stands
  <2>5. \A r \in periods : SamePeriod(r, u) \/ SamePeriod(u, r) => r = p
    BY <2>3 DEF Rows, SamePeriod
  <2>6. Rows'
    BY <2>2, <2>3, <2>5 DEF Rows, SamePeriod
  <2> QED BY <2>2, <2>3, <2>4, <2>6
<1>5. ASSUME NEW r \in Asked, GenerateProvincialPeriods(r[1], r[2])
      PROVE  Rows' /\ \A p \in periods : \E q \in periods' : Stands(p, q)
  BY <1>5, Generates
<1> QED BY <1>2, <1>3, <1>4, <1>5 DEF ReportingNext

\* A past report's deadline is not restated, nor a filed one reopened, whatever is
\* generated, redefined and marked in which order.
THEOREM PastStands == ReportingSpec => PastReportsStand
<1>1. ReportingInit => Rows
  BY DEF ReportingInit, Rows
<1>2. Rows /\ [ReportingNext]_reportingVars => Rows'
  BY RowsStep
<1>3. Rows /\ [ReportingNext]_reportingVars =>
        [\A p \in periods : \E q \in periods' :
           /\ q.start = p.start /\ q.end = p.end
           /\ p.filed => q.filed
           /\ p.due # NoDate => q.due = p.due]_reportingVars
  BY RowsStep DEF Stands
<1> QED BY <1>1, <1>2, <1>3, PTL DEF ReportingSpec, PastReportsStand

\* There is one row of a period, however often and from whichever definition it is
\* generated.
THEOREM OneRowOfAPeriod ==
  ReportingSpec => [](\A p, q \in periods : SamePeriod(p, q) => p = q)
<1>1. ReportingInit => Rows
  BY DEF ReportingInit, Rows
<1>2. Rows /\ [ReportingNext]_reportingVars => Rows'
  BY RowsStep
<1>3. Rows => \A p, q \in periods : SamePeriod(p, q) => p = q
  BY DEF Rows
<1> QED BY <1>1, <1>2, <1>3, PTL DEF ReportingSpec

-----------------------------------------------------------------------------
(* Reporting: the returns and the reports are of periods of the calendars. *)

Outstanding(p) ==
  \E m \in Int : /\ Ends(licensee.months, m)
                 /\ p = Period(licensee.clock, licensee.months, m)
                 /\ Before(p.end, today)

\* The row is of a period of the calendar it says.
Reported(p) ==
  /\ \E c \in Clocks, n \in Cadences, m \in Int :
       /\ p.by = <<c, n>> /\ Ends(n, m)
       /\ p.start = Tomorrow(MonthEnd(c, m - n)) /\ p.end = MonthEnd(c, m)
  /\ p.due # NoDate => IsDate(p.due)

Elected ==
  /\ licensee \in Licensees
  /\ IsDate(today)
  /\ definition \in licensee.definitions

Scheduled ==
  /\ Elected
  /\ \A p \in unfiled : Outstanding(p)
  /\ Rows
  /\ \A p \in periods : Reported(p)

LEMMA CalendarsElected ==
  ASSUME Elected
  PROVE  /\ licensee.clock \in Clocks /\ licensee.months \in Cadences
         /\ Clock(definition) \in Clocks /\ definition.cadence \in Cadences
         /\ definition.dueDays \in Int
<1>1. licensee.clock \in 0..28 /\ licensee.months \in {1, 6} /\ definition \in Definition
  BY ReportingAssumption DEF Elected
<1> QED BY <1>1 DEF Definition, Clocks, Cadences, Clock, CalendarMonth

\* The period that runs.
LEMMA RunningIs ==
  ASSUME Elected
  PROVE  \E m \in Int : /\ Ends(licensee.months, m)
                        /\ Running = Period(licensee.clock, licensee.months, m)
                        /\ UpTo(today, MonthEnd(licensee.clock, m))
                        /\ Before(MonthEnd(licensee.clock, m - licensee.months), today)
BY CalendarsElected, PeriodOfADay DEF Running, Elected

\* The upsert and the mark change no period.
LEMMA ReportedStill ==
  ASSUME NEW p, IsRow(p), Reported(p), NEW n, Reported(n)
  PROVE  Reported(Upserted(p, n)) /\ Reported([p EXCEPT !.filed = TRUE])
<1>1. PICK u : u = [p EXCEPT !.filed = TRUE]
  OBVIOUS
<1>2. u = [start |-> p.start, end |-> p.end, filed |-> TRUE, by |-> p.by, due |-> p.due]
  BY <1>1 DEF IsRow
<1>3. Reported(u)
  BY <1>2 DEF Reported
<1>4. PICK v : v = [p EXCEPT !.due = n.due]
  OBVIOUS
<1>5. v = [start |-> p.start, end |-> p.end, filed |-> p.filed, by |-> p.by, due |-> n.due]
  BY <1>4 DEF IsRow
<1>6. Reported(v)
  BY <1>5 DEF Reported
<1>7. Upserted(p, n) = p \/ Upserted(p, n) = v
  BY <1>4 DEF Upserted
<1>8. Reported(Upserted(p, n))
  BY <1>6, <1>7
<1> QED BY <1>1, <1>3, <1>8

LEMMA FirstScheduled ==
  ASSUME ReportingInit
  PROVE  Scheduled
BY ReportingAssumption DEF ReportingInit, Scheduled, Elected, Rows

\* What is generated are rows of periods.
LEMMA GeneratesReports ==
  ASSUME Scheduled, NEW from, IsDate(from), NEW to, GenerateProvincialPeriods(from, to)
  PROVE  \A p \in periods' : Reported(p)
<1>1. PICK c, n, d, f : /\ c = Clock(definition) /\ n = definition.cadence
                        /\ d = {PeriodEnding(c, n, e) : e \in PeriodEnds(c, n, from, to)}
                        /\ f = [p \in d |-> [start |-> p.start, end |-> p.end,
                                  filed |-> FALSE, by |-> <<c, n>>,
                                  due |-> IF definition.dueDays < 0 THEN NoDate
                                          ELSE Plus(p.end, definition.dueDays)]]
  OBVIOUS
<1>2. PICK new : new = {f[p] : p \in d}
  OBVIOUS
<1>3. periods' = {p \in periods : \A q \in new : ~SamePeriod(p, q)}
                 \cup {q \in new : \A p \in periods : ~SamePeriod(p, q)}
                 \cup {Upserted(pq[1], pq[2]) :
                         pq \in {xy \in periods \X new : SamePeriod(xy[1], xy[2])}}
  BY <1>1, <1>2 DEF GenerateProvincialPeriods
<1>4. c \in Clocks /\ n \in Cadences /\ definition.dueDays \in Int
  BY <1>1, CalendarsElected DEF Scheduled
<1>5. ASSUME NEW p \in d PROVE Reported(f[p])
  <2>1. PICK e \in EndsOf(c, n) : p = PeriodEnding(c, n, e)
    BY <1>1, <1>4, PeriodEndsEnd
  <2>2. PICK m \in Int : Ends(n, m) /\ e = MonthEnd(c, m)
    BY <2>1 DEF EndsOf
  <2>3. p.start = Tomorrow(MonthEnd(c, m - n)) /\ p.end = MonthEnd(c, m)
    BY <1>4, <2>1, <2>2, PeriodIs DEF Period
  <2>4. PICK due : due = IF definition.dueDays < 0 THEN NoDate
                         ELSE Plus(p.end, definition.dueDays)
    OBVIOUS
  <2>5. f[p] = [start |-> p.start, end |-> p.end, filed |-> FALSE, by |-> <<c, n>>, due |-> due]
    BY <1>1, <2>4
  <2>6. due # NoDate => IsDate(due)
    <3>1. IsDate(p.end)
      BY <1>4, <2>3, MonthEndIsDate
    <3>2. definition.dueDays < 0 \/ definition.dueDays \in Nat
      BY <1>4
    <3> QED BY <2>4, <3>1, <3>2, PlusLater
  <2> QED BY <1>4, <2>2, <2>3, <2>5, <2>6 DEF Reported
<1>6. \A q \in new : Reported(q)
  BY <1>2, <1>5
<1>7. \A p \in periods : IsRow(p) /\ Reported(p)
  BY DEF Scheduled, Rows
<1>8. \A p \in periods, q \in new : Reported(Upserted(p, q))
  BY <1>6, <1>7, ReportedStill
<1> QED BY <1>3, <1>6, <1>7, <1>8

LEMMA ScheduledNext ==
  ASSUME Scheduled, [ReportingNext]_reportingVars
  PROVE  Scheduled'
<1>1. Rows'
  BY RowsStep DEF Scheduled
<1>2. ASSUME UNCHANGED <<licensee, today, periods>>, definition' \in licensee.definitions,
             unfiled' \subseteq unfiled
      PROVE  Scheduled'
  BY <1>1, <1>2 DEF Scheduled, Elected, Outstanding, Reported
<1>3. CASE UNCHANGED reportingVars
  BY <1>2, <1>3 DEF reportingVars, Scheduled, Elected
<1>4. CASE SaveProvincialReportDefinition
  BY <1>2, <1>4 DEF SaveProvincialReportDefinition
<1>5. ASSUME NEW p \in unfiled, SubmitB266Return(p)
      PROVE  Scheduled'
  BY <1>2, <1>5 DEF SubmitB266Return, Scheduled, Elected
<1>6. CASE NextDay
  <2>1. UNCHANGED <<licensee, definition, periods>> /\ today' = Tomorrow(today)
    BY <1>6 DEF NextDay
  <2>2. IsDate(today') /\ Before(today, today') /\ IsDate(today)
    BY <2>1, TomorrowFollows DEF Scheduled, Elected
  <2>3. Elected'
    BY <2>1, <2>2 DEF Scheduled, Elected
  <2>4. \A p \in periods' : Reported(p)'
    BY <2>1 DEF Scheduled, Reported
  <2>5. licensee.clock \in Clocks /\ licensee.months \in Cadences
    BY CalendarsElected DEF Scheduled
  <2>6. ASSUME NEW p, Outstanding(p) PROVE Outstanding(p)'
    <3>1. PICK m \in Int : /\ Ends(licensee.months, m) /\ Before(p.end, today)
                           /\ p = Period(licensee.clock, licensee.months, m)
      BY <2>6 DEF Outstanding
    <3>2. IsDate(p.end)
      BY <2>5, <3>1, MonthEndIsDate DEF Period
    <3>3. Before(p.end, today')
      BY <2>2, <3>1, <3>2, DaysAfter DEF UpTo
    <3> QED BY <2>1, <3>1, <3>3 DEF Outstanding
  <2>7. ASSUME NEW r, r = Running, today = r.end PROVE Outstanding(r)'
    <3>1. PICK m \in Int : /\ Ends(licensee.months, m)
                           /\ r = Period(licensee.clock, licensee.months, m)
      BY <2>7, RunningIs DEF Scheduled
    <3> QED BY <2>1, <2>2, <2>7, <3>1 DEF Outstanding
  <2>8. \A p \in unfiled' : Outstanding(p)'
    <3>1. \A p \in unfiled' : p \in unfiled \/ (p = Running /\ today = p.end)
      BY <1>6 DEF NextDay
    <3>2. \A p \in unfiled : Outstanding(p)
      BY DEF Scheduled
    <3> QED BY <2>6, <2>7, <3>1, <3>2
  <2> QED BY <1>1, <2>3, <2>4, <2>8 DEF Scheduled
<1>7. ASSUME UNCHANGED <<licensee, today, unfiled, definition>>, \A p \in periods' : Reported(p)
      PROVE  Scheduled'
  BY <1>1, <1>7 DEF Scheduled, Elected, Outstanding, Reported
<1>8. ASSUME NEW r \in Asked, GenerateProvincialPeriods(r[1], r[2])
      PROVE  Scheduled'
  <2>1. UNCHANGED <<licensee, today, unfiled, definition>>
    BY <1>8 DEF GenerateProvincialPeriods
  <2>2. IsDate(r[1])
    BY ReportingAssumption
  <2> QED BY <1>7, <1>8, <2>1, <2>2, GeneratesReports
<1>9. ASSUME NEW p \in periods, MarkProvincialReportFiled(p)
      PROVE  Scheduled'
  <2>1. PICK u : u = [p EXCEPT !.filed = TRUE]
    OBVIOUS
  <2>2. periods' = (periods \ {p}) \cup {u} /\ UNCHANGED <<licensee, today, unfiled, definition>>
    BY <1>9, <2>1 DEF MarkProvincialReportFiled
  <2>3. Reported(u)
    BY <2>1, ReportedStill DEF Scheduled, Rows
  <2>4. \A q \in periods : Reported(q)
    BY DEF Scheduled
  <2> QED BY <1>7, <2>2, <2>3, <2>4
<1> QED BY <1>3, <1>4, <1>5, <1>6, <1>8, <1>9 DEF ReportingNext

\* What is found for today, and when it is due.
LEMMA PeriodsFollow ==
  ASSUME Elected
  PROVE  ExcisePeriods
<1>1. PICK c, n : c = licensee.clock /\ n = licensee.months
  OBVIOUS
<1>2. c \in Clocks /\ n \in Cadences
  BY <1>1, CalendarsElected
<1>3. PICK m \in Int : /\ Ends(n, m) /\ Running = Period(c, n, m)
                       /\ UpTo(today, MonthEnd(c, m)) /\ Before(MonthEnd(c, m - n), today)
  BY <1>1, RunningIs
<1>4. Running.start = Tomorrow(MonthEnd(c, m - n)) /\ Running.end = MonthEnd(c, m)
  BY <1>3 DEF Period
<1>5. m - n \in Int /\ IsDate(MonthEnd(c, m - n)) /\ IsDate(today)
  BY <1>2, MonthEndIsDate DEF Elected, Cadences
<1>6. IsPeriod(c, n, Running)
  BY <1>2, <1>3, <1>4, PeriodsAreSound
<1>7. UpTo(Running.start, today) /\ UpTo(today, Running.end)
  BY <1>3, <1>4, <1>5, TomorrowFollows
<1>8. Ended = Period(c, n, m - n)
  BY <1>1, <1>2, <1>3, <1>5, LastEndedIs DEF Ended
<1>9. Tomorrow(Ended.end) = Running.start
  BY <1>4, <1>8 DEF Period
<1>10. Due(Running) = FirstMonthEndFrom(c, Tomorrow(Running.end))
  BY <1>1, <1>2, <1>4, DueIs, CountedDayByDay DEF Due
<1> QED BY <1>1, <1>6, <1>7, <1>9, <1>10 DEF ExcisePeriods

\* Every day lies in a period of the elected calendar, the next after the one that
\* has ended, and its return is due at the first month end after it.
THEOREM PeriodsAsElected == ReportingSpec => []ExcisePeriods
<1>1. ReportingInit => Scheduled
  BY FirstScheduled
<1>2. Scheduled /\ [ReportingNext]_reportingVars => Scheduled'
  BY ScheduledNext
<1>3. Scheduled => ExcisePeriods
  BY PeriodsFollow DEF Scheduled
<1> QED BY <1>1, <1>2, <1>3, PTL DEF ReportingSpec

\* Rows of one calendar that are not one row are of periods apart.
LEMMA ReportsTile ==
  ASSUME Scheduled
  PROVE  ProvincialPeriodsTile
<1>1. ASSUME NEW p \in periods PROVE IsPeriod(p.by[1], p.by[2], p)
  <2>1. PICK c \in Clocks, n \in Cadences, m \in Int :
          /\ p.by = <<c, n>> /\ Ends(n, m)
          /\ p.start = Tomorrow(MonthEnd(c, m - n)) /\ p.end = MonthEnd(c, m)
    BY DEF Scheduled, Reported
  <2> QED BY <2>1, PeriodsAreSound
<1>2. ASSUME NEW c \in Clocks, NEW n \in Cadences, NEW m \in Int, NEW k \in Int,
             Ends(n, m), Ends(n, k), m < k
      PROVE  Before(MonthEnd(c, m), Tomorrow(MonthEnd(c, k - n)))
  <2>1. k - n \in Int /\ m <= k - n
    BY <1>2, EndsApart DEF Cadences
  <2>2. UpTo(MonthEnd(c, m), MonthEnd(c, k - n))
    BY <2>1, MonthEndsInOrder
  <2>3. /\ IsDate(MonthEnd(c, m)) /\ IsDate(MonthEnd(c, k - n))
        /\ IsDate(Tomorrow(MonthEnd(c, k - n)))
        /\ Before(MonthEnd(c, k - n), Tomorrow(MonthEnd(c, k - n)))
    BY <2>1, MonthEndIsDate, TomorrowFollows
  <2> QED BY <2>2, <2>3, DaysAfter
<1>3. ASSUME NEW p \in periods, NEW q \in periods \ {p}, p.by = q.by
      PROVE  Before(p.end, q.start) \/ Before(q.end, p.start)
  <2>1. PICK c \in Clocks, n \in Cadences, m \in Int :
          /\ p.by = <<c, n>> /\ Ends(n, m)
          /\ p.start = Tomorrow(MonthEnd(c, m - n)) /\ p.end = MonthEnd(c, m)
    BY DEF Scheduled, Reported
  <2>2. PICK k \in Int : /\ Ends(n, k) /\ q.end = MonthEnd(c, k)
                         /\ q.start = Tomorrow(MonthEnd(c, k - n))
    <3>1. PICK b \in Clocks, a \in Cadences, k \in Int :
            /\ q.by = <<b, a>> /\ Ends(a, k)
            /\ q.start = Tomorrow(MonthEnd(b, k - a)) /\ q.end = MonthEnd(b, k)
      BY DEF Scheduled, Reported
    <3>2. b = c /\ a = n
      <4>1. \A w, x, y, z : <<w, x>> = <<y, z>> => w = y /\ x = z
        OBVIOUS
      <4> QED BY <1>3, <2>1, <3>1, <4>1
    <3> QED BY <3>1, <3>2
  <2>3. m # k
    <3>1. SUFFICES ASSUME m = k PROVE FALSE
      OBVIOUS
    <3>2. SamePeriod(p, q)
      BY <2>1, <2>2, <3>1 DEF SamePeriod
    <3> QED BY <3>2 DEF Scheduled, Rows
  <2> QED BY <1>2, <2>1, <2>2, <2>3
<1> QED BY <1>1, <1>3 DEF ProvincialPeriodsTile

\* However often periods are generated, for whatever ranges and definitions, the
\* rows of one calendar are its periods, none overlapping another.
THEOREM ReportsAreOfPeriods == ReportingSpec => []ProvincialPeriodsTile
<1>1. ReportingInit => Scheduled
  BY FirstScheduled
<1>2. Scheduled /\ [ReportingNext]_reportingVars => Scheduled'
  BY ScheduledNext
<1>3. Scheduled => ProvincialPeriodsTile
  BY ReportsTile
<1> QED BY <1>1, <1>2, <1>3, PTL DEF ReportingSpec

\* An outstanding return that is not yet due is the one of the last period that
\* has ended.
LEMMA NotYetDueIsLast ==
  ASSUME Scheduled, NEW p \in unfiled, Before(today, Due(p))
  PROVE  p = Ended
<1>1. PICK c, n : c = licensee.clock /\ n = licensee.months
  OBVIOUS
<1>2. c \in Clocks /\ n \in Cadences /\ IsDate(today) /\ n \in 1..12
  BY <1>1, CalendarsElected DEF Scheduled, Elected, Cadences
<1>3. PICK m \in Int : Ends(n, m) /\ p = Period(c, n, m) /\ Before(p.end, today)
  BY <1>1 DEF Scheduled, Outstanding
<1>4. p.end = MonthEnd(c, m) /\ Due(p) = MonthEnd(c, m + 1)
  BY <1>1, <1>2, <1>3, DueIs DEF Due, Period
<1>5. m + 1 \in Int /\ m + n \in Int /\ m + 1 <= m + n /\ (m + n) - n = m /\ Ends(n, m + n)
  BY <1>2, <1>3, EndsAgain
<1>6. UpTo(MonthEnd(c, m + 1), MonthEnd(c, m + n))
  BY <1>2, <1>5, MonthEndsInOrder
<1>7. IsDate(MonthEnd(c, m + 1)) /\ IsDate(MonthEnd(c, m + n))
  BY <1>2, <1>5, MonthEndIsDate
<1>8. UpTo(today, MonthEnd(c, m + n))
  BY <1>2, <1>4, <1>6, <1>7, DaysAfter DEF UpTo
<1>9. LastEnded(c, n, today) = Period(c, n, (m + n) - n)
  BY <1>2, <1>3, <1>4, <1>5, <1>8, LastEndedIs
<1> QED BY <1>1, <1>3, <1>5, <1>9 DEF Ended

LEMMA Announced ==
  ASSUME Scheduled
  PROVE  ReturnsAnnounced
<1>1. IsDate(today)
  BY DEF Scheduled, Elected
<1>2. ASSUME NEW p \in unfiled, Before(today, Due(p)), UpTo(Due(p), Plus(today, 14))
      PROVE  [kind |-> "filing_due", end |-> p.end] \in FilingAlerts
  <2>1. p = Ended
    BY <1>2, NotYetDueIsLast
  <2>2. ~UpTo(Due(p), today)
    <3>1. PICK m \in Int : p = Period(licensee.clock, licensee.months, m)
      BY DEF Scheduled, Outstanding
    <3>2. IsDate(Due(p))
      BY <3>1, CalendarsElected, DueIs, MonthEndIsDate DEF Scheduled, Due, Period
    <3> QED BY <1>1, <1>2, <3>2, DaysInOrder DEF UpTo
  <2> QED BY <1>2, <2>1, <2>2 DEF FilingAlerts
<1>3. ASSUME NEW p \in periods, ~p.filed, p.due # NoDate, Before(p.due, today)
      PROVE  [kind |-> "overdue", end |-> p.end] \in ProvincialAlerts
  <2>1. IsDate(p.due)
    BY <1>3 DEF Scheduled, Reported
  <2>2. IsDate(Plus(today, 14)) /\ UpTo(today, Plus(today, 14))
    BY <1>1, PlusLater
  <2>3. UpTo(p.due, Plus(today, 14))
    BY <1>1, <1>3, <2>1, <2>2, DaysAfter DEF UpTo
  <2>4. p \in ProvincialPeriodsDue
    BY <1>3, <2>3 DEF ProvincialPeriodsDue
  <2> QED BY <1>3, <2>4 DEF ProvincialAlerts
<1> QED BY <1>2, <1>3 DEF ReturnsAnnounced

\* The excise return that is due within a fortnight is announced, and a province's
\* late report is shown as overdue until it is filed.
THEOREM DeadlinesAreAnnounced == ReportingSpec => []ReturnsAnnounced
<1>1. ReportingInit => Scheduled
  BY FirstScheduled
<1>2. Scheduled /\ [ReportingNext]_reportingVars => Scheduled'
  BY ScheduledNext
<1>3. Scheduled => ReturnsAnnounced
  BY Announced
<1> QED BY <1>1, <1>2, <1>3, PTL DEF ReportingSpec

=============================================================================
