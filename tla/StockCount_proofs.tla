-------------------------- MODULE StockCount_proofs --------------------------
(***************************************************************************)
(* Theorems about StockCount, for any lots, clerks, sheets and losses.     *)
(***************************************************************************)
EXTENDS StockCount, Sums

\* What a clerk has in hand is of a sheet: a count of one of its lines, a posting of
\* an open one, and of the lots it is about.
HandOf(c) ==
  /\ Doing(c, "count") => /\ task[c].sheet \in DOMAIN sheets
                          /\ OnSheet(task[c].sheet, task[c].lot)
  /\ Doing(c, "post") => /\ task[c].sheet \in DOMAIN sheets
                         /\ sheets[task[c].sheet].status = "open"
                         /\ \A l \in Lots : task[c].lines[l] # NoLine
                                              <=> OnSheet(task[c].sheet, l)

\* No two post one sheet.
PostedByOne ==
  \A c, d \in Clerks : Doing(c, "post") /\ Doing(d, "post") /\ c # d =>
    task[c].sheet # task[d].sheet

Held == StockCountTypeOK /\ (\A c \in Clerks : HandOf(c)) /\ PostedByOne

\* While a sheet is open, what it has counted is what stands there and what has
\* left since.
CountsStand ==
  \A k \in DOMAIN sheets : sheets[k].status = "open" =>
    \A l \in Lots : Counted(k, l) =>
      sheets[k].lines[l].counted = shelf[l] + sheets[k].lines[l].gone

\* The shelf is never fuller than the book, nor the book than what a sheet took
\* down of it.
BookAhead ==
  \A l \in Lots : /\ shelf[l] <= book[l]
                  /\ \A k \in DOMAIN sheets :
                       OnSheet(k, l) => book[l] <= sheets[k].lines[l].book

\* Nor will it be after an open sheet is posted.
CountsBelowBooks ==
  \A j, k \in DOMAIN sheets : sheets[j].status = "open" =>
    \A l \in Lots : Counted(j, l) /\ OnSheet(k, l) =>
      sheets[j].lines[l].counted <= sheets[k].lines[l].book

\* So it is with a count that is on its way.
CountsInHand ==
  \A c \in Clerks : Doing(c, "count") =>
    /\ task[c].counted = shelf[task[c].lot] + task[c].gone
    /\ \A k \in DOMAIN sheets : OnSheet(k, task[c].lot) =>
         task[c].counted <= sheets[k].lines[task[c].lot].book

\* What is posted is not being counted, and is as it was read.
HandsApart ==
  \A c, d \in Clerks : Doing(c, "count") /\ Doing(d, "post") =>
    task[c].sheet # task[d].sheet

ReadAsItIs ==
  \A c \in Clerks : Doing(c, "post") =>
    \A l \in Lots : OnSheet(task[c].sheet, l) =>
      /\ task[c].lines[l].book = sheets[task[c].sheet].lines[l].book
      /\ task[c].lines[l].counted = sheets[task[c].sheet].lines[l].counted
      /\ task[c].lines[l].posted = sheets[task[c].sheet].lines[l].posted

Settling ==
  /\ Held
  /\ CountsStand /\ BookAhead /\ CountsBelowBooks
  /\ CountsInHand /\ HandsApart /\ ReadAsItIs

-----------------------------------------------------------------------------
LEMMA LineFields ==
  ASSUME NEW f \in Line
  PROVE  /\ f # NoLine
         /\ f.book \in Nat /\ f.posted \in BOOLEAN /\ f.gone \in Nat
         /\ f.counted # NotCounted => f.counted \in Nat
  BY StockCountAssumption DEF Line

LEMMA SheetFields ==
  ASSUME StockCountTypeOK, NEW k \in DOMAIN sheets
  PROVE  /\ sheets[k] \in Sheet
         /\ sheets[k].status \in {"open", "posted", "cancelled"}
         /\ sheets[k].lines \in Lines
<1>1. PICK s \in Sheet : s = sheets[k]
  BY DEF StockCountTypeOK
<1> QED BY <1>1 DEF Sheet

LEMMA OfLine ==
  ASSUME StockCountTypeOK, NEW k \in DOMAIN sheets, NEW l \in Lots, OnSheet(k, l)
  PROVE  /\ sheets[k].lines[l] \in Line
         /\ sheets[k].lines[l].book \in Nat /\ sheets[k].lines[l].gone \in Nat
         /\ Counted(k, l) => sheets[k].lines[l].counted \in Nat
  BY SheetFields, LineFields DEF OnSheet, Counted, Lines

LEMMA TaskFields ==
  ASSUME StockCountTypeOK, NEW c \in Clerks
  PROVE  /\ Doing(c, "count") =>
              /\ task[c] \in Counting
              /\ task[c].sheet \in Nat /\ task[c].lot \in Lots
              /\ task[c].counted \in Nat /\ task[c].gone \in Nat
         /\ Doing(c, "post") =>
              /\ task[c] \in Posting
              /\ task[c].sheet \in Nat /\ task[c].lines \in Lines
         /\ ~(Doing(c, "count") /\ Doing(c, "post"))
         /\ task[c] # Idle => Doing(c, "count") \/ Doing(c, "post")
<1>1. PICK t \in Counting \cup Posting \cup {Idle} : t = task[c]
  BY DEF StockCountTypeOK
<1>2. CASE t \in Counting
  BY <1>1, <1>2, StockCountAssumption DEF Counting, Doing
<1>3. CASE t \in Posting
  BY <1>1, <1>3, StockCountAssumption DEF Posting, Doing
<1>4. CASE t = Idle
  BY <1>1, <1>4 DEF Doing
<1> QED BY <1>2, <1>3, <1>4

\* A line marked, and a line that a bottle left.
LEMMA LineMarked ==
  ASSUME NEW f \in Line, NEW g, g = [f EXCEPT !.posted = TRUE]
  PROVE  g \in Line /\ g.book = f.book
  BY DEF Line

LEMMA LineLeft ==
  ASSUME NEW f \in Line
  PROVE  \E g \in Line : /\ g = [f EXCEPT !.gone = @ + 1]
                         /\ g.book = f.book /\ g.posted = f.posted
                         /\ g.counted = f.counted /\ g.gone = f.gone + 1
<1>1. PICK g : g = [f EXCEPT !.gone = @ + 1]
  OBVIOUS
<1>2. /\ g \in Line /\ g.book = f.book /\ g.posted = f.posted
      /\ g.counted = f.counted /\ g.gone = f.gone + 1
  BY <1>1 DEF Line
<1> QED BY <1>1, <1>2

\* A new line of a sheet, uncounted.
LEMMA LineNew ==
  ASSUME NEW n \in Nat
  PROVE  [book |-> n, counted |-> NotCounted, posted |-> FALSE, gone |-> 0] \in Line
  BY DEF Line

\* One line of a sheet is written.
LEMMA LineWritten ==
  ASSUME StockCountTypeOK, NEW k \in DOMAIN sheets, NEW l \in Lots, NEW f \in Line
  PROVE  \E a \in Sheet :
           /\ a = [sheets[k] EXCEPT !.lines = [@ EXCEPT ![l] = f]]
           /\ a.status = sheets[k].status
           /\ a.lines[l] = f
           /\ \A m \in Lots : m # l => a.lines[m] = sheets[k].lines[m]
<1>1. PICK s \in Sheet : s = sheets[k]
  BY SheetFields
<1>2. PICK g : g = [s.lines EXCEPT ![l] = f]
  OBVIOUS
<1>3. /\ g \in Lines /\ g[l] = f
      /\ \A m \in Lots : m # l => g[m] = s.lines[m]
  BY <1>2 DEF Sheet, Lines
<1>4. PICK a : a = [s EXCEPT !.lines = g]
  OBVIOUS
<1>5. a \in Sheet /\ a.status = s.status /\ a.lines = g
  BY <1>3, <1>4 DEF Sheet
<1>6. a = [sheets[k] EXCEPT !.lines = [@ EXCEPT ![l] = f]]
  BY <1>1, <1>2, <1>4
<1> QED BY <1>1, <1>3, <1>5, <1>6

-----------------------------------------------------------------------------
(* What each step does to the sheets and to the requests in hand. *)

LEMMA Opened ==
  ASSUME StockCountTypeOK, OpenStockCount
  PROVE  /\ StockCountTypeOK' /\ task' = task
         /\ DOMAIN sheets' = DOMAIN sheets \cup {Len(sheets) + 1}
         /\ Len(sheets) + 1 \notin DOMAIN sheets
         /\ \A k \in DOMAIN sheets : sheets'[k] = sheets[k]
         /\ \A l \in Lots :
              LET f == sheets'[Len(sheets) + 1].lines[l]
              IN  f # NoLine => f.book = book[l] /\ f.counted = NotCounted
<1> DEFINE line(l) == [book |-> book[l], counted |-> NotCounted, posted |-> FALSE, gone |-> 0]
           new == [status |-> "open",
                   lines |-> [l \in Lots |-> IF book[l] > 0 THEN line(l) ELSE NoLine]]
<1>1. \A l \in Lots : line(l) \in Line
  BY LineNew DEF StockCountTypeOK
<1>2. \A l \in Lots : line(l).book = book[l] /\ line(l).counted = NotCounted
  OBVIOUS
<1>3. sheets' = Append(sheets, new)
  BY DEF OpenStockCount
<1> HIDE DEF line
<1>4. new \in Sheet /\ \A l \in Lots : new.lines[l] \in {line(l), NoLine}
  BY <1>1 DEF Sheet, Lines
<1> HIDE DEF new
<1>5. sheets \in Seq(Sheet)
  BY DEF StockCountTypeOK
<1>6. /\ sheets' \in Seq(Sheet)
      /\ DOMAIN sheets' = DOMAIN sheets \cup {Len(sheets) + 1}
      /\ Len(sheets) + 1 \notin DOMAIN sheets
      /\ sheets'[Len(sheets) + 1] = new
      /\ \A k \in DOMAIN sheets : sheets'[k] = sheets[k]
  BY <1>3, <1>4, <1>5
<1>7. StockCountTypeOK' /\ task' = task
  BY <1>6 DEF StockCountTypeOK, OpenStockCount
<1> QED BY <1>2, <1>4, <1>6, <1>7

LEMMA Asked ==
  ASSUME StockCountTypeOK, NEW c \in Clerks, NEW k \in DOMAIN sheets, NEW l \in Lots,
         AskToCount(c, k, l)
  PROVE  /\ StockCountTypeOK' /\ Doing(c, "count")' /\ ~Doing(c, "post")'
         /\ task'[c].sheet = k /\ task'[c].lot = l
         /\ task'[c].counted = shelf[l] /\ task'[c].gone = 0
         /\ \A d \in Clerks : d # c => task'[d] = task[d]
<1>1. PICK t : t = [op |-> "count", sheet |-> k, lot |-> l, counted |-> shelf[l], gone |-> 0]
  OBVIOUS
<1>2. k \in Nat /\ shelf[l] \in Nat
  BY DEF StockCountTypeOK
<1>3. /\ t \in Counting /\ t.op = "count" /\ t.sheet = k /\ t.lot = l
      /\ t.counted = shelf[l] /\ t.gone = 0
  BY <1>1, <1>2 DEF Counting
<1>4. t # Idle
  BY <1>3, StockCountAssumption
<1>5. /\ task' = [task EXCEPT ![c] = t]
      /\ task \in [Clerks -> Counting \cup Posting \cup {Idle}]
  BY <1>1 DEF AskToCount, StockCountTypeOK
<1>6. /\ task' \in [Clerks -> Counting \cup Posting \cup {Idle}]
      /\ task'[c] = t /\ \A d \in Clerks : d # c => task'[d] = task[d]
  BY <1>3, <1>5
<1>7. StockCountTypeOK'
  BY <1>6 DEF AskToCount, StockCountTypeOK
<1> QED BY <1>3, <1>4, <1>6, <1>7 DEF Doing

LEMMA Began ==
  ASSUME StockCountTypeOK, NEW c \in Clerks, NEW k \in DOMAIN sheets, BeginPosting(c, k)
  PROVE  /\ StockCountTypeOK' /\ Doing(c, "post")' /\ ~Doing(c, "count")'
         /\ task'[c].sheet = k /\ task'[c].lines = sheets[k].lines
         /\ \A d \in Clerks : d # c => task'[d] = task[d]
<1>1. PICK t : t = [op |-> "post", sheet |-> k, lines |-> sheets[k].lines]
  OBVIOUS
<1>2. k \in Nat /\ sheets[k].lines \in Lines
  BY SheetFields DEF StockCountTypeOK
<1>3. t \in Posting /\ t.op = "post" /\ t.sheet = k /\ t.lines = sheets[k].lines
  BY <1>1, <1>2 DEF Posting
<1>4. t # Idle
  BY <1>3, StockCountAssumption
<1>5. /\ task' = [task EXCEPT ![c] = t]
      /\ task \in [Clerks -> Counting \cup Posting \cup {Idle}]
  BY <1>1 DEF BeginPosting, StockCountTypeOK
<1>6. /\ task' \in [Clerks -> Counting \cup Posting \cup {Idle}]
      /\ task'[c] = t /\ \A d \in Clerks : d # c => task'[d] = task[d]
  BY <1>3, <1>5
<1>7. StockCountTypeOK'
  BY <1>6 DEF BeginPosting, StockCountTypeOK
<1> QED BY <1>3, <1>4, <1>6, <1>7 DEF Doing

LEMMA Freed ==
  ASSUME StockCountTypeOK, NEW c \in Clerks, task' = [task EXCEPT ![c] = Idle]
  PROVE  /\ task' \in [Clerks -> Counting \cup Posting \cup {Idle}]
         /\ task'[c] = Idle /\ \A d \in Clerks : d # c => task'[d] = task[d]
  BY DEF StockCountTypeOK

LEMMA RolledBack ==
  ASSUME StockCountTypeOK, NEW c \in Clerks, Rollback(c)
  PROVE  /\ StockCountTypeOK' /\ task'[c] = Idle
         /\ \A d \in Clerks : d # c => task'[d] = task[d]
<1>1. /\ task' \in [Clerks -> Counting \cup Posting \cup {Idle}]
      /\ task'[c] = Idle /\ \A d \in Clerks : d # c => task'[d] = task[d]
  BY Freed DEF Rollback
<1> QED BY <1>1 DEF Rollback, StockCountTypeOK

LEMMA Posted ==
  ASSUME Held, NEW c \in Clerks, PostStockCount(c), NEW k, k = task[c].sheet,
         NEW L, L = task[c].lines
  PROVE  /\ StockCountTypeOK' /\ k \in DOMAIN sheets /\ L \in Lines
         /\ sheets[k].status = "open"
         /\ DOMAIN sheets' = DOMAIN sheets
         /\ sheets'[k].status = "posted"
         /\ \A l \in Lots : /\ OnSheet(k, l)' <=> OnSheet(k, l)
                            /\ L[l] # NoLine <=> OnSheet(k, l)
                            /\ OnSheet(k, l) =>
                                 sheets'[k].lines[l].book = sheets[k].lines[l].book
                            /\ sheets'[k].lines[l].posted /\ ~sheets[k].lines[l].posted =>
                                 l \in ToSettle(L)
         /\ \A j \in DOMAIN sheets : j # k => sheets'[j] = sheets[j]
         /\ task'[c] = Idle /\ \A d \in Clerks : d # c => task'[d] = task[d]
<1>0. StockCountTypeOK /\ k \in DOMAIN sheets /\ L \in Lines /\ sheets[k].status = "open"
      /\ \A l \in Lots : L[l] # NoLine <=> OnSheet(k, l)
  BY TaskFields DEF Held, HandOf, PostStockCount
<1> DEFINE line(l) == IF l \in ToSettle(L) THEN [sheets[k].lines[l] EXCEPT !.posted = TRUE]
                      ELSE sheets[k].lines[l]
           after == [status |-> "posted", lines |-> [l \in Lots |-> line(l)]]
<1>1. ASSUME NEW l \in Lots
      PROVE  /\ line(l) \in Line \cup {NoLine}
             /\ line(l) = NoLine <=> ~OnSheet(k, l)
             /\ OnSheet(k, l) => line(l).book = sheets[k].lines[l].book
             /\ line(l) = sheets[k].lines[l] \/ l \in ToSettle(L)
  <2>1. CASE OnSheet(k, l)
    <3>1. PICK f \in Line : f = sheets[k].lines[l]
      BY <1>0, <2>1, OfLine
    <3>2. PICK g : g = [f EXCEPT !.posted = TRUE]
      OBVIOUS
    <3>3. g \in Line /\ g.book = f.book
      BY <3>2, LineMarked
    <3>4. line(l) \in {f, g}
      BY <3>1, <3>2
    <3> QED BY <2>1, <3>1, <3>3, <3>4, LineFields
  <2>2. CASE ~OnSheet(k, l)
    BY <1>0, <2>2 DEF OnSheet, ToSettle
  <2> QED BY <2>1, <2>2
<1>2. sheets' = [sheets EXCEPT ![k] = after]
  BY DEF PostStockCount
<1> HIDE DEF line
<1>3. after \in Sheet /\ after.status = "posted" /\ \A l \in Lots : after.lines[l] = line(l)
  BY <1>1 DEF Sheet, Lines
<1> HIDE DEF after
<1>4. sheets \in Seq(Sheet)
  BY <1>0 DEF StockCountTypeOK
<1>5. /\ sheets' \in Seq(Sheet) /\ DOMAIN sheets' = DOMAIN sheets
      /\ sheets'[k] = after
      /\ \A j \in DOMAIN sheets : j # k => sheets'[j] = sheets[j]
  BY <1>0, <1>2, <1>3, <1>4
<1>s. \A l \in ToSettle(L) : L[l].counted \in Nat /\ l \in Lots
  BY <1>0, LineFields DEF ToSettle, Lines
<1>6. book' \in [Lots -> Nat]
  <2>1. \A l \in Differing(L) : Balance(L, l) \in Nat
    BY <1>s DEF Differing, Balance
  <2> QED BY <1>0, <2>1 DEF PostStockCount, StockCountTypeOK
<1>7. adjustments' \subseteq Adjustment
  <2>1. \A l \in Differing(L) : Delta(L, l) \in Int /\ l \in Lots /\ L[l].counted \in Nat
    BY <1>0, <1>s DEF Differing, Delta, StockCountTypeOK
  <2>2. k \in Nat
    BY <1>0, <1>4
  <2> QED BY <1>0, <2>1, <2>2 DEF PostStockCount, StockCountTypeOK, Adjustment
<1>8. /\ task' \in [Clerks -> Counting \cup Posting \cup {Idle}]
      /\ task'[c] = Idle /\ \A d \in Clerks : d # c => task'[d] = task[d]
  BY <1>0, Freed DEF PostStockCount
<1>9. StockCountTypeOK'
  BY <1>0, <1>5, <1>6, <1>7, <1>8 DEF PostStockCount, StockCountTypeOK
<1>10. \A l \in Lots : /\ OnSheet(k, l)' <=> OnSheet(k, l)
                       /\ OnSheet(k, l) => sheets'[k].lines[l].book = sheets[k].lines[l].book
                       /\ sheets'[k].lines[l].posted /\ ~sheets[k].lines[l].posted =>
                            l \in ToSettle(L)
  BY <1>1, <1>3, <1>5 DEF OnSheet
<1> QED BY <1>0, <1>3, <1>5, <1>8, <1>9, <1>10

LEMMA Cancelled ==
  ASSUME StockCountTypeOK, NEW k \in DOMAIN sheets, CancelStockCount(k)
  PROVE  /\ StockCountTypeOK' /\ task' = task
         /\ DOMAIN sheets' = DOMAIN sheets
         /\ sheets'[k].status = "cancelled" /\ sheets'[k].lines = sheets[k].lines
         /\ \A j \in DOMAIN sheets : j # k => sheets'[j] = sheets[j]
<1>1. PICK s \in Sheet : s = sheets[k]
  BY SheetFields
<1>2. PICK a : a = [s EXCEPT !.status = "cancelled"]
  OBVIOUS
<1>3. a \in Sheet /\ a.status = "cancelled" /\ a.lines = s.lines
  BY <1>2 DEF Sheet
<1>4. sheets' = [sheets EXCEPT ![k] = a]
  BY <1>1, <1>2 DEF CancelStockCount
<1>5. sheets \in Seq(Sheet)
  BY DEF StockCountTypeOK
<1>6. /\ sheets' \in Seq(Sheet) /\ DOMAIN sheets' = DOMAIN sheets
      /\ sheets'[k] = a
      /\ \A j \in DOMAIN sheets : j # k => sheets'[j] = sheets[j]
  BY <1>3, <1>4, <1>5
<1> QED BY <1>1, <1>3, <1>6 DEF CancelStockCount, StockCountTypeOK

LEMMA Recorded ==
  ASSUME Held, NEW c \in Clerks, RecordCount(c), NEW k, k = task[c].sheet,
         NEW l, l = task[c].lot
  PROVE  /\ StockCountTypeOK' /\ k \in DOMAIN sheets /\ l \in Lots
         /\ DOMAIN sheets' = DOMAIN sheets
         /\ sheets'[k].status = sheets[k].status
         /\ OnSheet(k, l) /\ OnSheet(k, l)'
         /\ sheets'[k].lines[l].book = sheets[k].lines[l].book
         /\ sheets'[k].lines[l].posted = sheets[k].lines[l].posted
         /\ sheets'[k].lines[l].counted = task[c].counted
         /\ sheets'[k].lines[l].gone = task[c].gone
         /\ \A m \in Lots : m # l => sheets'[k].lines[m] = sheets[k].lines[m]
         /\ \A j \in DOMAIN sheets : j # k => sheets'[j] = sheets[j]
         /\ task'[c] = Idle /\ \A d \in Clerks : d # c => task'[d] = task[d]
<1>0. StockCountTypeOK /\ k \in DOMAIN sheets /\ l \in Lots /\ OnSheet(k, l)
  BY TaskFields DEF Held, HandOf, RecordCount
<1>1. PICK f \in Line : f = sheets[k].lines[l]
  BY <1>0, OfLine
<1>2. PICK n \in Nat, e \in Nat : n = task[c].counted /\ e = task[c].gone
  BY <1>0, TaskFields DEF RecordCount
<1>3. PICK g : g = [f EXCEPT !.counted = n, !.gone = e]
  OBVIOUS
<1>4. /\ g \in Line /\ g.book = f.book /\ g.posted = f.posted
      /\ g.counted = n /\ g.gone = e
  BY <1>3 DEF Line
<1>6. PICK s \in Sheet : /\ s = [sheets[k] EXCEPT !.lines = [@ EXCEPT ![l] = g]]
                         /\ s.status = sheets[k].status /\ s.lines[l] = g
                         /\ \A i \in Lots : i # l => s.lines[i] = sheets[k].lines[i]
  BY <1>0, <1>4, LineWritten
<1>7. sheets' = [sheets EXCEPT ![k] = s]
  BY <1>1, <1>2, <1>3, <1>6 DEF RecordCount
<1>8. sheets \in Seq(Sheet)
  BY <1>0 DEF StockCountTypeOK
<1>9. /\ sheets' \in Seq(Sheet) /\ DOMAIN sheets' = DOMAIN sheets
      /\ sheets'[k] = s
      /\ \A j \in DOMAIN sheets : j # k => sheets'[j] = sheets[j]
  BY <1>0, <1>6, <1>7, <1>8
<1>10. OnSheet(k, l)'
  BY <1>4, <1>6, <1>9, LineFields DEF OnSheet
<1>11. /\ task' \in [Clerks -> Counting \cup Posting \cup {Idle}]
       /\ task'[c] = Idle /\ \A d \in Clerks : d # c => task'[d] = task[d]
  BY <1>0, Freed DEF RecordCount
<1>12. StockCountTypeOK'
  BY <1>0, <1>9, <1>11 DEF RecordCount, StockCountTypeOK
<1>13. /\ sheets'[k].lines[l] = g /\ sheets[k].lines[l] = f
       /\ sheets'[k].status = sheets[k].status
       /\ \A m \in Lots : m # l => sheets'[k].lines[m] = sheets[k].lines[m]
  BY <1>1, <1>6, <1>9
<1> QED BY <1>0, <1>2, <1>4, <1>9, <1>10, <1>11, <1>12, <1>13

\* A bottle leaves: the counts taken of its lot say so, the others are as they were.
LEMMA SheetsLeft ==
  ASSUME StockCountTypeOK, NEW l \in Lots, Leave(l)
  PROVE  /\ sheets' \in Seq(Sheet) /\ DOMAIN sheets' = DOMAIN sheets
         /\ \A k \in DOMAIN sheets :
              /\ sheets'[k].status = sheets[k].status
              /\ \A m \in Lots : m # l => sheets'[k].lines[m] = sheets[k].lines[m]
              /\ ~Counted(k, l) => sheets'[k] = sheets[k]
              /\ Counted(k, l) =>
                   /\ sheets'[k].lines[l] # NoLine
                   /\ sheets'[k].lines[l].book = sheets[k].lines[l].book
                   /\ sheets'[k].lines[l].posted = sheets[k].lines[l].posted
                   /\ sheets'[k].lines[l].counted = sheets[k].lines[l].counted
                   /\ sheets'[k].lines[l].gone = sheets[k].lines[l].gone + 1
<1>1. ASSUME NEW k \in DOMAIN sheets
      PROVE  /\ sheets'[k] \in Sheet
             /\ sheets'[k].status = sheets[k].status
             /\ \A m \in Lots : m # l => sheets'[k].lines[m] = sheets[k].lines[m]
             /\ ~Counted(k, l) => sheets'[k] = sheets[k]
             /\ Counted(k, l) =>
                  /\ sheets'[k].lines[l] # NoLine
                  /\ sheets'[k].lines[l].book = sheets[k].lines[l].book
                  /\ sheets'[k].lines[l].posted = sheets[k].lines[l].posted
                  /\ sheets'[k].lines[l].counted = sheets[k].lines[l].counted
                  /\ sheets'[k].lines[l].gone = sheets[k].lines[l].gone + 1
  <2>1. CASE Counted(k, l)
    <3>1. PICK f \in Line : f = sheets[k].lines[l]
      BY <2>1, OfLine DEF Counted
    <3>2. PICK g \in Line : /\ g = [f EXCEPT !.gone = @ + 1]
                            /\ g.book = f.book /\ g.posted = f.posted
                            /\ g.counted = f.counted /\ g.gone = f.gone + 1
      BY LineLeft
    <3>3. g # NoLine
      BY LineFields
    <3>6. PICK s \in Sheet : /\ s = [sheets[k] EXCEPT !.lines = [@ EXCEPT ![l] = g]]
                             /\ s.status = sheets[k].status /\ s.lines[l] = g
                             /\ \A m \in Lots : m # l => s.lines[m] = sheets[k].lines[m]
      BY LineWritten
    <3>7. sheets'[k] = s
      BY <2>1, <3>1, <3>2, <3>6 DEF Leave
    <3> QED BY <2>1, <3>1, <3>2, <3>3, <3>6, <3>7
  <2>2. CASE ~Counted(k, l)
    BY <2>2, SheetFields DEF Leave
  <2> QED BY <2>1, <2>2
<1>2. sheets \in Seq(Sheet) /\ sheets' = [k \in DOMAIN sheets |-> sheets'[k]]
      /\ DOMAIN sheets' = DOMAIN sheets
  BY DEF Leave, StockCountTypeOK
<1>3. sheets' \in Seq(Sheet)
  <2>1. Len(sheets) \in Nat /\ DOMAIN sheets = 1..Len(sheets)
    BY <1>2
  <2>2. sheets' \in [1..Len(sheets) -> Sheet]
    BY <1>1, <1>2, <2>1
  <2> QED BY <2>1, <2>2
<1> QED BY <1>1, <1>2, <1>3

LEMMA TasksLeft ==
  ASSUME StockCountTypeOK, NEW l \in Lots, Leave(l)
  PROVE  /\ task' \in [Clerks -> Counting \cup Posting \cup {Idle}]
         /\ \A c \in Clerks :
              /\ ~(Doing(c, "count") /\ task[c].lot = l) => task'[c] = task[c]
              /\ Doing(c, "count") /\ task[c].lot = l =>
                   /\ Doing(c, "count")' /\ ~Doing(c, "post")'
                   /\ task'[c].sheet = task[c].sheet /\ task'[c].lot = l
                   /\ task'[c].counted = task[c].counted
                   /\ task'[c].gone = task[c].gone + 1
<1>1. ASSUME NEW c \in Clerks
      PROVE  /\ task'[c] \in Counting \cup Posting \cup {Idle}
             /\ ~(Doing(c, "count") /\ task[c].lot = l) => task'[c] = task[c]
             /\ Doing(c, "count") /\ task[c].lot = l =>
                  /\ Doing(c, "count")' /\ ~Doing(c, "post")'
                  /\ task'[c].sheet = task[c].sheet /\ task'[c].lot = l
                  /\ task'[c].counted = task[c].counted
                  /\ task'[c].gone = task[c].gone + 1
  <2>1. CASE Doing(c, "count") /\ task[c].lot = l
    <3>1. PICK t \in Counting : t = task[c]
      BY <2>1, TaskFields
    <3>2. PICK u : u = [t EXCEPT !.gone = @ + 1]
      OBVIOUS
    <3>3. /\ u \in Counting /\ u.op = "count" /\ u.sheet = t.sheet /\ u.lot = t.lot
          /\ u.counted = t.counted /\ u.gone = t.gone + 1
      BY <3>2 DEF Counting
    <3>4. u # Idle
      BY <3>3, StockCountAssumption
    <3>5. task'[c] = u
      BY <2>1, <3>1, <3>2 DEF Leave
    <3> QED BY <2>1, <3>1, <3>3, <3>4, <3>5 DEF Doing
  <2>2. CASE ~(Doing(c, "count") /\ task[c].lot = l)
    BY <2>2 DEF Leave, StockCountTypeOK
  <2> QED BY <2>1, <2>2
<1>2. task' = [c \in Clerks |-> task'[c]]
  BY DEF Leave
<1> QED BY <1>1, <1>2

\* It was removed, or it is lost.
LEMMA Left ==
  ASSUME StockCountTypeOK, NEW l \in Lots, RecordRemoval(l) \/ Lose(l)
  PROVE  /\ StockCountTypeOK' /\ Leave(l) /\ adjustments' = adjustments
         /\ \A m \in Lots : /\ book[m] \in Nat /\ shelf[m] \in Nat
                            /\ m # l => book'[m] = book[m] /\ shelf'[m] = shelf[m]
                            /\ m = l => shelf'[m] = shelf[m] - 1 /\ shelf[m] > 0
                            /\ book'[m] \in Nat
         /\ book'[l] = book[l] \/ (book'[l] = book[l] - 1 /\ book[l] > 0)
<1>1. Leave(l) /\ shelf' = [shelf EXCEPT ![l] = @ - 1] /\ shelf[l] > 0
      /\ adjustments' = adjustments
  BY DEF RecordRemoval, Lose, Leave
<1>2. /\ book \in [Lots -> Nat] /\ shelf \in [Lots -> Nat] /\ shelf' \in [Lots -> Nat]
      /\ removed \in [Lots -> Nat] /\ losses \in 0..MaxLosses
      /\ \A m \in Lots : /\ m # l => shelf'[m] = shelf[m]
                         /\ m = l => shelf'[m] = shelf[m] - 1
  BY <1>1 DEF StockCountTypeOK
<1>3. CASE RecordRemoval(l)
  <2>1. /\ book' \in [Lots -> Nat] /\ removed' \in [Lots -> Nat] /\ losses' = losses
        /\ book'[l] = book[l] - 1 /\ book[l] > 0
        /\ \A m \in Lots : m # l => book'[m] = book[m]
    BY <1>2, <1>3 DEF RecordRemoval
  <2>2. StockCountTypeOK'
    BY <1>1, <1>2, <2>1, SheetsLeft, TasksLeft DEF StockCountTypeOK
  <2> QED BY <1>1, <1>2, <2>1, <2>2
<1>4. CASE Lose(l)
  <2>1. book' = book /\ removed' = removed /\ losses' \in 0..MaxLosses
    BY <1>2, <1>4, StockCountAssumption DEF Lose
  <2>2. StockCountTypeOK'
    BY <1>1, <1>2, <2>1, SheetsLeft, TasksLeft DEF StockCountTypeOK
  <2> QED BY <1>1, <1>2, <2>1, <2>2
<1> QED BY <1>3, <1>4

-----------------------------------------------------------------------------
(* What is in hand, whatever operators do. *)

\* A clerk goes on with a request, or is done with it.
SameTask(c) ==
  task'[c] # Idle =>
    /\ task[c] # Idle /\ task'[c].op = task[c].op /\ task'[c].sheet = task[c].sheet
    /\ Doing(c, "count") => task'[c].lot = task[c].lot
    /\ Doing(c, "post") => task'[c].lines = task[c].lines

LEMMA HandKept ==
  ASSUME NEW c \in Clerks, HandOf(c), SameTask(c), DOMAIN sheets \subseteq DOMAIN sheets',
         \A k \in DOMAIN sheets : \A l \in Lots : OnSheet(k, l)' <=> OnSheet(k, l),
         StockCountTypeOK,
         Doing(c, "post") /\ task'[c] # Idle => sheets'[task[c].sheet].status = "open"
  PROVE  HandOf(c)'
<1>1. CASE Doing(c, "count")'
  <2>1. /\ Doing(c, "count") /\ task'[c].sheet = task[c].sheet
        /\ task'[c].lot = task[c].lot
    BY <1>1 DEF SameTask, Doing
  <2>2. task[c].sheet \in DOMAIN sheets /\ OnSheet(task[c].sheet, task[c].lot)
        /\ task[c].lot \in Lots
    BY <2>1, TaskFields DEF HandOf
  <2>3. OnSheet(task[c].sheet, task[c].lot)' /\ ~Doing(c, "post")'
    BY <1>1, <2>1, <2>2 DEF OnSheet, Doing
  <2> QED BY <2>1, <2>2, <2>3 DEF HandOf
<1>2. CASE Doing(c, "post")'
  <2>1. /\ Doing(c, "post") /\ task'[c].sheet = task[c].sheet
        /\ task'[c].lines = task[c].lines /\ task'[c] # Idle
    BY <1>2 DEF SameTask, Doing
  <2>2. /\ task[c].sheet \in DOMAIN sheets
        /\ \A l \in Lots : task[c].lines[l] # NoLine <=> OnSheet(task[c].sheet, l)
    BY <2>1 DEF HandOf
  <2>3. \A l \in Lots : task'[c].lines[l] # NoLine <=> OnSheet(task[c].sheet, l)'
    BY <2>1, <2>2 DEF OnSheet
  <2>4. ~Doing(c, "count")'
    BY <1>2 DEF Doing
  <2>5. sheets'[task'[c].sheet].status = "open"
    BY <2>1
  <2> QED BY <2>1, <2>2, <2>3, <2>4, <2>5 DEF HandOf, OnSheet
<1> QED BY <1>1, <1>2 DEF HandOf

LEMMA SameOthers ==
  ASSUME NEW c \in Clerks, \A d \in Clerks : d # c => task'[d] = task[d]
  PROVE  /\ \A d \in Clerks : d # c => SameTask(d)
         /\ task'[c] = Idle => \A d \in Clerks : SameTask(d)
  BY DEF SameTask

LEMMA SameAll == ASSUME task' = task PROVE \A d \in Clerks : SameTask(d)
  BY DEF SameTask

LEMMA HeldFree ==
  ASSUME Held, \A c \in Clerks : SameTask(c)
  PROVE  PostedByOne'
  BY DEF Held, PostedByOne, SameTask, Doing

LEMMA HeldInit == Init => Held
  BY StockCountAssumption
  DEF Init, StockCountTypeOK, Held, HandOf, PostedByOne, Doing

LEMMA HeldOpened == ASSUME Held, OpenStockCount PROVE Held'
<1>1. /\ StockCountTypeOK /\ StockCountTypeOK' /\ task' = task
      /\ DOMAIN sheets \subseteq DOMAIN sheets'
      /\ \A k \in DOMAIN sheets : sheets'[k] = sheets[k]
  BY Opened DEF Held
<1>2. \A k \in DOMAIN sheets : \A l \in Lots : OnSheet(k, l)' <=> OnSheet(k, l)
  BY <1>1 DEF OnSheet
<1>3. \A c \in Clerks : SameTask(c)
  BY <1>1, SameAll
<1>4. ASSUME NEW c \in Clerks PROVE HandOf(c)'
  BY <1>1, <1>2, <1>3, HandKept DEF Held, HandOf
<1> QED BY <1>1, <1>3, <1>4, HeldFree DEF Held

LEMMA HeldCancelled ==
  ASSUME Held, NEW k \in DOMAIN sheets, CancelStockCount(k) PROVE Held'
<1>1. /\ StockCountTypeOK /\ StockCountTypeOK' /\ task' = task
      /\ DOMAIN sheets' = DOMAIN sheets /\ sheets'[k].lines = sheets[k].lines
      /\ \A j \in DOMAIN sheets : j # k => sheets'[j] = sheets[j]
  BY Cancelled DEF Held
<1>2. \A j \in DOMAIN sheets : \A l \in Lots : OnSheet(j, l)' <=> OnSheet(j, l)
  BY <1>1 DEF OnSheet
<1>3. \A c \in Clerks : SameTask(c)
  BY <1>1, SameAll
<1>4. ASSUME NEW c \in Clerks PROVE HandOf(c)'
  <2>1. Doing(c, "post") => task[c].sheet # k
    BY DEF CancelStockCount, Locked
  <2> QED BY <1>1, <1>2, <1>3, <2>1, HandKept DEF Held, HandOf
<1> QED BY <1>1, <1>3, <1>4, HeldFree DEF Held

LEMMA HeldAsked ==
  ASSUME Held, NEW c \in Clerks, NEW k \in DOMAIN sheets, NEW l \in Lots,
         AskToCount(c, k, l)
  PROVE  Held'
<1>1. /\ StockCountTypeOK /\ StockCountTypeOK' /\ Doing(c, "count")' /\ ~Doing(c, "post")'
      /\ task'[c].sheet = k /\ task'[c].lot = l
      /\ \A d \in Clerks : d # c => task'[d] = task[d]
      /\ sheets' = sheets
  BY Asked DEF Held, AskToCount
<1>2. \A j \in DOMAIN sheets : \A m \in Lots : OnSheet(j, m)' <=> OnSheet(j, m)
  BY <1>1 DEF OnSheet
<1>3. \A d \in Clerks : d # c => HandOf(d)'
  BY <1>1, <1>2, SameOthers, HandKept DEF Held, HandOf
<1>4. HandOf(c)'
  BY <1>1 DEF HandOf, AskToCount, OnSheet
<1>5. PostedByOne'
  BY <1>1 DEF Held, PostedByOne, Doing
<1> QED BY <1>1, <1>3, <1>4, <1>5 DEF Held

LEMMA HeldBegan ==
  ASSUME Held, NEW c \in Clerks, NEW k \in DOMAIN sheets, BeginPosting(c, k)
  PROVE  Held'
<1>1. /\ StockCountTypeOK /\ StockCountTypeOK' /\ Doing(c, "post")' /\ ~Doing(c, "count")'
      /\ task'[c].sheet = k /\ task'[c].lines = sheets[k].lines
      /\ \A d \in Clerks : d # c => task'[d] = task[d]
      /\ sheets' = sheets
  BY Began DEF Held, BeginPosting
<1>2. \A j \in DOMAIN sheets : \A m \in Lots : OnSheet(j, m)' <=> OnSheet(j, m)
  BY <1>1 DEF OnSheet
<1>3. \A d \in Clerks : d # c => HandOf(d)'
  BY <1>1, <1>2, SameOthers, HandKept DEF Held, HandOf
<1>4. HandOf(c)'
  BY <1>1 DEF HandOf, BeginPosting, OnSheet
<1>5. PostedByOne'
  <2>1. \A d \in Clerks : Doing(d, "post") => task[d].sheet # k
    BY DEF BeginPosting, Locked
  <2>2. \A d \in Clerks : d # c => (Doing(d, "post")' <=> Doing(d, "post"))
    BY <1>1 DEF Doing
  <2> QED BY <1>1, <2>1, <2>2 DEF Held, PostedByOne
<1> QED BY <1>1, <1>3, <1>4, <1>5 DEF Held

LEMMA HeldRecorded ==
  ASSUME Held, NEW c \in Clerks, RecordCount(c) PROVE Held'
<1>k. PICK k, l : k = task[c].sheet /\ l = task[c].lot
  OBVIOUS
<1>1. /\ StockCountTypeOK /\ StockCountTypeOK' /\ k \in DOMAIN sheets
      /\ DOMAIN sheets' = DOMAIN sheets
      /\ sheets'[k].status = sheets[k].status
      /\ OnSheet(k, l) /\ OnSheet(k, l)'
      /\ \A m \in Lots : m # l => sheets'[k].lines[m] = sheets[k].lines[m]
      /\ \A j \in DOMAIN sheets : j # k => sheets'[j] = sheets[j]
      /\ task'[c] = Idle /\ \A d \in Clerks : d # c => task'[d] = task[d]
  BY <1>k, Recorded DEF Held
<1>2. \A j \in DOMAIN sheets : \A m \in Lots : OnSheet(j, m)' <=> OnSheet(j, m)
  BY <1>1 DEF OnSheet
<1>3. \A d \in Clerks : SameTask(d)
  BY <1>1, SameOthers
<1>4. ASSUME NEW d \in Clerks PROVE HandOf(d)'
  BY <1>1, <1>2, <1>3, HandKept DEF Held, HandOf
<1> QED BY <1>1, <1>3, <1>4, HeldFree DEF Held

LEMMA HeldPosted ==
  ASSUME Held, NEW c \in Clerks, PostStockCount(c) PROVE Held'
<1>k. PICK k, L : k = task[c].sheet /\ L = task[c].lines
  OBVIOUS
<1>1. /\ StockCountTypeOK /\ StockCountTypeOK' /\ k \in DOMAIN sheets
      /\ DOMAIN sheets' = DOMAIN sheets
      /\ \A l \in Lots : OnSheet(k, l)' <=> OnSheet(k, l)
      /\ \A j \in DOMAIN sheets : j # k => sheets'[j] = sheets[j]
      /\ task'[c] = Idle /\ \A d \in Clerks : d # c => task'[d] = task[d]
  BY <1>k, Posted DEF Held
<1>2. \A j \in DOMAIN sheets : \A m \in Lots : OnSheet(j, m)' <=> OnSheet(j, m)
  BY <1>1 DEF OnSheet
<1>3. \A d \in Clerks : SameTask(d)
  BY <1>1, SameOthers
<1>4. ASSUME NEW d \in Clerks PROVE HandOf(d)'
  <2>1. Doing(d, "post") /\ task'[d] # Idle => task[d].sheet # k
    BY <1>k, <1>1 DEF Held, PostedByOne, PostStockCount
  <2> QED BY <1>1, <1>2, <1>3, <2>1, HandKept DEF Held, HandOf
<1> QED BY <1>1, <1>3, <1>4, HeldFree DEF Held

LEMMA HeldRolledBack ==
  ASSUME Held, NEW c \in Clerks, Rollback(c) PROVE Held'
<1>1. /\ StockCountTypeOK /\ StockCountTypeOK' /\ sheets' = sheets
      /\ task'[c] = Idle /\ \A d \in Clerks : d # c => task'[d] = task[d]
  BY RolledBack DEF Held, Rollback
<1>2. \A j \in DOMAIN sheets : \A m \in Lots : OnSheet(j, m)' <=> OnSheet(j, m)
  BY <1>1 DEF OnSheet
<1>3. \A d \in Clerks : SameTask(d)
  BY <1>1, SameOthers
<1>4. ASSUME NEW d \in Clerks PROVE HandOf(d)'
  BY <1>1, <1>2, <1>3, HandKept DEF Held, HandOf
<1> QED BY <1>1, <1>3, <1>4, HeldFree DEF Held

LEMMA HeldLeft ==
  ASSUME Held, NEW l \in Lots, RecordRemoval(l) \/ Lose(l) PROVE Held'
<1>1. StockCountTypeOK /\ StockCountTypeOK' /\ Leave(l)
  BY Left DEF Held
<1>2. /\ DOMAIN sheets' = DOMAIN sheets
      /\ \A k \in DOMAIN sheets : sheets'[k].status = sheets[k].status
      /\ \A k \in DOMAIN sheets : \A m \in Lots : OnSheet(k, m)' <=> OnSheet(k, m)
  BY <1>1, SheetsLeft DEF OnSheet, Counted
<1>3. ASSUME NEW c \in Clerks PROVE SameTask(c)
  BY <1>1, TasksLeft, TaskFields DEF SameTask, Doing
<1>4. ASSUME NEW c \in Clerks PROVE HandOf(c)'
  BY <1>1, <1>2, <1>3, HandKept DEF Held, HandOf
<1> QED BY <1>1, <1>3, <1>4, HeldFree DEF Held

LEMMA HeldStep == ASSUME Held, [Next]_vars PROVE Held'
<1>1. CASE UNCHANGED vars
  BY <1>1 DEF vars, Held, StockCountTypeOK, HandOf, PostedByOne, Doing, OnSheet
<1> QED BY <1>1, HeldOpened, HeldCancelled, HeldAsked, HeldBegan, HeldRecorded, HeldPosted,
           HeldRolledBack, HeldLeft DEF Next

\* The variables keep their types, whatever operators do: no balance and no shelf
\* goes below nothing, and what is counted is a number of bottles.
THEOREM StockCountTyped == Spec => []StockCountTypeOK
<1>1. Held => StockCountTypeOK
  BY DEF Held
<1> QED BY <1>1, HeldInit, HeldStep, PTL DEF Spec

-----------------------------------------------------------------------------
(* Settling: one sheet is counted at a time, and none while it is posted.  *)

OneSheet == "one sheet" \in Careful
OffWhilePosted == "hands off" \in Careful

\* A request goes on as it is, or is done with.
AsItWas(c) == task'[c] = task[c] \/ task'[c] = Idle

LEMMA ApartKept ==
  ASSUME HandsApart, \A c \in Clerks : SameTask(c) PROVE HandsApart'
  BY DEF HandsApart, SameTask, Doing

LEMMA InHandKept ==
  ASSUME CountsInHand, StockCountTypeOK, \A c \in Clerks : AsItWas(c),
         shelf' = shelf, DOMAIN sheets' = DOMAIN sheets,
         \A k \in DOMAIN sheets : \A l \in Lots :
           /\ OnSheet(k, l)' => OnSheet(k, l)
           /\ OnSheet(k, l) => sheets'[k].lines[l].book = sheets[k].lines[l].book
  PROVE  CountsInHand'
<1> SUFFICES ASSUME NEW c \in Clerks, Doing(c, "count")'
             PROVE  /\ task'[c].counted = shelf'[task'[c].lot] + task'[c].gone
                    /\ \A k \in DOMAIN sheets : OnSheet(k, task[c].lot)' =>
                         task'[c].counted <= sheets'[k].lines[task'[c].lot].book
  BY DEF CountsInHand
<1>1. task'[c] = task[c] /\ Doing(c, "count") /\ task[c].lot \in Lots
  BY TaskFields DEF AsItWas, Doing
<1>2. /\ task[c].counted = shelf[task[c].lot] + task[c].gone
      /\ \A k \in DOMAIN sheets : OnSheet(k, task[c].lot) =>
           task[c].counted <= sheets[k].lines[task[c].lot].book
  BY <1>1 DEF CountsInHand
<1>3. PICK l \in Lots : l = task[c].lot
  BY <1>1
<1>4. ASSUME NEW k \in DOMAIN sheets, sheets'[k].lines[l] # NoLine
      PROVE  task[c].counted <= sheets'[k].lines[l].book
  <2>1. OnSheet(k, l)
    BY <1>4 DEF OnSheet
  <2> QED BY <1>2, <1>3, <2>1
<1> QED BY <1>1, <1>2, <1>3, <1>4 DEF OnSheet

LEMMA ReadKept ==
  ASSUME ReadAsItIs, \A c \in Clerks : SameTask(c),
         \A c \in Clerks : Doing(c, "post") /\ task'[c] # Idle =>
           \A l \in Lots : sheets'[task[c].sheet].lines[l] # NoLine =>
             LET f == sheets[task[c].sheet].lines[l]
                 g == sheets'[task[c].sheet].lines[l]
             IN  f # NoLine /\ g.book = f.book /\ g.counted = f.counted /\ g.posted = f.posted
  PROVE  ReadAsItIs'
<1> SUFFICES ASSUME NEW c \in Clerks, Doing(c, "post")', NEW l \in Lots,
                    sheets'[task'[c].sheet].lines[l] # NoLine
             PROVE  LET f == task'[c].lines[l]
                        g == sheets'[task'[c].sheet].lines[l]
                    IN  f.book = g.book /\ f.counted = g.counted /\ f.posted = g.posted
  BY DEF ReadAsItIs, OnSheet
<1>1. /\ Doing(c, "post") /\ task'[c].sheet = task[c].sheet
      /\ task'[c].lines = task[c].lines /\ task'[c] # Idle
  BY DEF SameTask, Doing
<1> QED BY <1>1 DEF ReadAsItIs, OnSheet

\* Settled: what posting a sheet says of the lots it settles.
Settles(k, l) ==
  sheets'[k].lines[l].posted => book'[l] - shelf'[l] \in 0..sheets[k].lines[l].gone

NothingUnsettled == \A k \in DOMAIN sheets : \A l \in Unsettled(k) : Settles(k, l)

\* A step that marks no line settles none.
LEMMA NoneMarked ==
  ASSUME \A k \in DOMAIN sheets : \A l \in Lots : OnSheet(k, l) =>
           sheets'[k].lines[l].posted = sheets[k].lines[l].posted
  PROVE  NothingUnsettled
  BY DEF NothingUnsettled, Settles, Unsettled, ToSettle, OnSheet

LEMMA SettlingInit == Init => Settling
<1> SUFFICES ASSUME Init PROVE Settling
  OBVIOUS
<1>1. Held /\ DOMAIN sheets = {} /\ \A c \in Clerks : task[c] = Idle
  BY HeldInit DEF Init
<1>2. \A l \in Lots : shelf[l] <= book[l]
  BY StockCountAssumption DEF Init
<1> QED BY <1>1, <1>2
  DEF Settling, CountsStand, BookAhead, CountsBelowBooks, CountsInHand, HandsApart,
      ReadAsItIs, Doing

LEMMA SettlingOpened ==
  ASSUME OneSheet, Settling, OpenStockCount
  PROVE  Settling' /\ NothingUnsettled
<1>0. StockCountTypeOK /\ Held'
  BY HeldOpened DEF Settling, Held
<1>n. PICK n : n = Len(sheets) + 1
  OBVIOUS
<1>1. /\ DOMAIN sheets' = DOMAIN sheets \cup {n} /\ n \notin DOMAIN sheets /\ task' = task
      /\ \A k \in DOMAIN sheets : sheets'[k] = sheets[k]
      /\ \A l \in Lots : LET f == sheets'[n].lines[l]
                         IN  f # NoLine => f.book = book[l] /\ f.counted = NotCounted
  BY <1>0, <1>n, Opened
<1>2. /\ book' = book /\ shelf' = shelf
      /\ \A l \in Lots : \A k \in DOMAIN sheets : sheets[k].status = "open" => ~Counted(k, l)
      /\ \A l \in Lots : \A c \in Clerks : Doing(c, "count") => task[c].lot # l
  BY DEF OpenStockCount, Standing, OneSheet
<1>3. \A k \in DOMAIN sheets : \A l \in Lots :
        (OnSheet(k, l)' <=> OnSheet(k, l)) /\ (Counted(k, l)' <=> Counted(k, l))
  BY <1>1 DEF OnSheet, Counted
<1>4. \A l \in Lots : ~Counted(n, l)' /\ (OnSheet(n, l)' => sheets'[n].lines[l].book = book[l])
  BY <1>1 DEF OnSheet, Counted
<1>5. CountsStand'
  BY <1>1, <1>2, <1>3, <1>4 DEF Settling, CountsStand
<1>6. BookAhead'
  <2>1. \A l \in Lots : book[l] \in Nat
    BY <1>0 DEF StockCountTypeOK
  <2>2. ASSUME NEW l \in Lots, NEW k \in DOMAIN sheets', OnSheet(k, l)'
        PROVE  book[l] <= sheets'[k].lines[l].book
    <3>1. CASE k = n
      BY <1>4, <2>1, <2>2, <3>1 DEF OnSheet
    <3>2. CASE k # n
      BY <1>1, <1>3, <2>2, <3>2 DEF Settling, BookAhead
    <3> QED BY <3>1, <3>2
  <2> QED BY <1>2, <2>2 DEF Settling, BookAhead
<1>7. CountsBelowBooks'
  BY <1>1, <1>2, <1>3, <1>4 DEF Settling, CountsBelowBooks
<1>8. CountsInHand'
  <2>1. \A c \in Clerks : ~Doing(c, "count")
    BY <1>0, <1>2, TaskFields
  <2> QED BY <1>1, <2>1 DEF CountsInHand, Doing
<1>9. \A c \in Clerks : SameTask(c)
  BY <1>1, SameAll
<1>10. HandsApart'
  BY <1>9, ApartKept DEF Settling
<1>11. ReadAsItIs'
  <2>1. \A c \in Clerks : Doing(c, "post") => sheets'[task[c].sheet] = sheets[task[c].sheet]
    BY <1>1 DEF Settling, Held, HandOf
  <2> QED BY <1>9, <2>1, ReadKept DEF Settling
<1>12. NothingUnsettled
  BY <1>1, NoneMarked
<1> QED BY <1>0, <1>5, <1>6, <1>7, <1>8, <1>10, <1>11, <1>12 DEF Settling

\* Steps that leave the book, the shelf and the sheets as they are.
LEMMA StillSettling ==
  ASSUME Settling, book' = book, shelf' = shelf, sheets' = sheets
  PROVE  CountsStand' /\ BookAhead' /\ CountsBelowBooks' /\ NothingUnsettled
<1>1. CountsStand' /\ BookAhead' /\ CountsBelowBooks'
  BY DEF Settling, CountsStand, BookAhead, CountsBelowBooks, OnSheet, Counted
<1> QED BY <1>1, NoneMarked

LEMMA SettlingAsked ==
  ASSUME OffWhilePosted, Settling, NEW c \in Clerks, NEW k \in DOMAIN sheets,
         NEW l \in Lots, AskToCount(c, k, l)
  PROVE  Settling' /\ NothingUnsettled
<1>0. StockCountTypeOK /\ Held'
  BY HeldAsked DEF Settling, Held
<1>1. /\ Doing(c, "count")' /\ ~Doing(c, "post")'
      /\ task'[c].sheet = k /\ task'[c].lot = l
      /\ task'[c].counted = shelf[l] /\ task'[c].gone = 0
      /\ \A d \in Clerks : d # c => task'[d] = task[d]
      /\ book' = book /\ shelf' = shelf /\ sheets' = sheets /\ ~Locked(k)
  BY <1>0, Asked DEF AskToCount, OffWhilePosted
<1>2. CountsStand' /\ BookAhead' /\ CountsBelowBooks' /\ NothingUnsettled
  BY <1>1, StillSettling
<1>3. CountsInHand'
  <2>1. shelf[l] \in Nat /\ book[l] \in Nat
    BY <1>0 DEF StockCountTypeOK
  <2>2. ASSUME NEW j \in DOMAIN sheets, OnSheet(j, l)
        PROVE  shelf[l] <= sheets[j].lines[l].book
    <3>1. shelf[l] <= book[l] /\ book[l] <= sheets[j].lines[l].book
          /\ sheets[j].lines[l].book \in Nat
      BY <1>0, <2>2, OfLine DEF Settling, BookAhead
    <3> QED BY <2>1, <3>1
  <2> SUFFICES ASSUME NEW d \in Clerks, Doing(d, "count")'
               PROVE  /\ task'[d].counted = shelf[task'[d].lot] + task'[d].gone
                      /\ \A j \in DOMAIN sheets : OnSheet(j, task'[d].lot) =>
                           task'[d].counted <= sheets[j].lines[task'[d].lot].book
    BY <1>1 DEF CountsInHand, OnSheet
  <2>3. CASE d = c
    <3>1. task'[d].lot = l /\ task'[d].counted = shelf[l] /\ task'[d].gone = 0
      BY <1>1, <2>3
    <3> QED BY <2>1, <2>2, <3>1 DEF OnSheet
  <2>4. CASE d # c
    <3>1. task'[d] = task[d] /\ Doing(d, "count")
      BY <1>1, <2>4 DEF Doing
    <3> QED BY <3>1 DEF Settling, CountsInHand
  <2> QED BY <2>3, <2>4
<1>4. HandsApart'
  <2>1. \A d \in Clerks : Doing(d, "post") => task[d].sheet # k
    BY <1>1 DEF Locked
  <2> QED BY <1>1, <2>1 DEF Settling, HandsApart, Doing
<1>5. ReadAsItIs'
  <2> SUFFICES ASSUME NEW d \in Clerks, Doing(d, "post")', NEW m \in Lots,
                      OnSheet(task'[d].sheet, m)
               PROVE  LET f == task'[d].lines[m]
                          g == sheets[task'[d].sheet].lines[m]
                      IN  f.book = g.book /\ f.counted = g.counted /\ f.posted = g.posted
    BY <1>1 DEF ReadAsItIs, OnSheet
  <2>1. task'[d] = task[d] /\ Doing(d, "post")
    BY <1>1 DEF Doing
  <2> QED BY <2>1 DEF Settling, ReadAsItIs
<1> QED BY <1>0, <1>2, <1>3, <1>4, <1>5 DEF Settling

LEMMA SettlingBegan ==
  ASSUME OffWhilePosted, Settling, NEW c \in Clerks, NEW k \in DOMAIN sheets,
         BeginPosting(c, k)
  PROVE  Settling' /\ NothingUnsettled
<1>0. StockCountTypeOK /\ Held'
  BY HeldBegan DEF Settling, Held
<1>1. /\ Doing(c, "post")' /\ ~Doing(c, "count")'
      /\ task'[c].sheet = k /\ task'[c].lines = sheets[k].lines
      /\ \A d \in Clerks : d # c => task'[d] = task[d]
      /\ book' = book /\ shelf' = shelf /\ sheets' = sheets /\ HandsOff(k)
  BY <1>0, Began DEF BeginPosting, OffWhilePosted
<1>2. CountsStand' /\ BookAhead' /\ CountsBelowBooks' /\ NothingUnsettled
  BY <1>1, StillSettling
<1>3. CountsInHand'
  BY <1>1 DEF Settling, CountsInHand, Doing, OnSheet
<1>4. HandsApart'
  <2>1. \A d \in Clerks : Doing(d, "count") => task[d].sheet # k
    BY <1>1 DEF HandsOff
  <2> QED BY <1>1, <2>1 DEF Settling, HandsApart, Doing
<1>5. ReadAsItIs'
  <2> SUFFICES ASSUME NEW d \in Clerks, Doing(d, "post")', NEW m \in Lots,
                      OnSheet(task'[d].sheet, m)
               PROVE  LET f == task'[d].lines[m]
                          g == sheets[task'[d].sheet].lines[m]
                      IN  f.book = g.book /\ f.counted = g.counted /\ f.posted = g.posted
    BY <1>1 DEF ReadAsItIs, OnSheet
  <2>1. CASE d = c
    BY <1>1, <2>1
  <2>2. CASE d # c
    <3>1. task'[d] = task[d] /\ Doing(d, "post")
      BY <1>1, <2>2 DEF Doing
    <3> QED BY <3>1 DEF Settling, ReadAsItIs
  <2> QED BY <2>1, <2>2
<1> QED BY <1>0, <1>2, <1>3, <1>4, <1>5 DEF Settling

LEMMA SettlingRolledBack ==
  ASSUME Settling, NEW c \in Clerks, Rollback(c)
  PROVE  Settling' /\ NothingUnsettled
<1>0. StockCountTypeOK /\ Held'
  BY HeldRolledBack DEF Settling, Held
<1>1. /\ task'[c] = Idle /\ \A d \in Clerks : d # c => task'[d] = task[d]
      /\ book' = book /\ shelf' = shelf /\ sheets' = sheets
  BY <1>0, RolledBack DEF Rollback
<1>2. CountsStand' /\ BookAhead' /\ CountsBelowBooks' /\ NothingUnsettled
  BY <1>1, StillSettling
<1>3. CountsInHand' /\ HandsApart' /\ ReadAsItIs'
  BY <1>1 DEF Settling, CountsInHand, HandsApart, ReadAsItIs, Doing, OnSheet
<1> QED BY <1>0, <1>2, <1>3 DEF Settling

LEMMA SettlingPosted ==
  ASSUME Settling, NEW c \in Clerks, PostStockCount(c)
  PROVE  Settling' /\ NothingUnsettled
<1>0. StockCountTypeOK /\ Held /\ Held'
  BY HeldPosted DEF Settling, Held
<1>k. PICK k, L : k = task[c].sheet /\ L = task[c].lines
  OBVIOUS
<1>1. /\ k \in DOMAIN sheets /\ L \in Lines /\ sheets[k].status = "open"
      /\ DOMAIN sheets' = DOMAIN sheets
      /\ sheets'[k].status = "posted"
      /\ \A l \in Lots : /\ OnSheet(k, l)' <=> OnSheet(k, l)
                         /\ L[l] # NoLine <=> OnSheet(k, l)
                         /\ OnSheet(k, l) =>
                              sheets'[k].lines[l].book = sheets[k].lines[l].book
                         /\ sheets'[k].lines[l].posted /\ ~sheets[k].lines[l].posted =>
                              l \in ToSettle(L)
      /\ \A j \in DOMAIN sheets : j # k => sheets'[j] = sheets[j]
      /\ task'[c] = Idle /\ \A d \in Clerks : d # c => task'[d] = task[d]
  BY <1>0, <1>k, Posted
<1>2. /\ shelf' = shelf /\ Doing(c, "post")
      /\ book' = [l \in Lots |-> IF l \in Differing(L) THEN Balance(L, l) ELSE book[l]]
  BY <1>k DEF PostStockCount
\* What it settles is what was counted, and that is what stands there.
<1>3. ASSUME NEW l \in ToSettle(L)
      PROVE  /\ l \in Lots /\ Counted(k, l) /\ OnSheet(k, l)
             /\ L[l].counted = sheets[k].lines[l].counted
             /\ L[l].book = sheets[k].lines[l].book
             /\ L[l].counted \in Nat /\ sheets[k].lines[l].gone \in Nat
             /\ L[l].counted = shelf[l] + sheets[k].lines[l].gone
  <2>1. l \in Lots /\ OnSheet(k, l) /\ L[l].counted # NotCounted
    BY <1>1 DEF ToSettle
  <2>2. L[l].counted = sheets[k].lines[l].counted /\ L[l].book = sheets[k].lines[l].book
    BY <1>k, <1>2, <2>1 DEF Settling, ReadAsItIs
  <2>3. Counted(k, l)
    BY <2>1, <2>2 DEF Counted
  <2>4. sheets[k].lines[l].counted \in Nat /\ sheets[k].lines[l].gone \in Nat
    BY <1>0, <1>1, <2>1, <2>3, OfLine
  <2>5. sheets[k].lines[l].counted = shelf[l] + sheets[k].lines[l].gone
    BY <1>1, <2>1, <2>3 DEF Settling, CountsStand
  <2> QED BY <2>1, <2>2, <2>3, <2>4, <2>5
<1>4. ASSUME NEW l \in Lots
      PROVE  /\ book[l] \in Nat /\ shelf[l] \in Nat
             /\ l \notin Differing(L) => book'[l] = book[l]
             /\ l \in Differing(L) =>
                  /\ l \in ToSettle(L) /\ book'[l] = L[l].counted
  BY <1>0, <1>2 DEF StockCountTypeOK, Differing, Balance
<1>5. \A j \in DOMAIN sheets : \A l \in Lots :
        /\ OnSheet(j, l)' <=> OnSheet(j, l)
        /\ OnSheet(j, l) => sheets'[j].lines[l].book = sheets[j].lines[l].book
  BY <1>1 DEF OnSheet
<1>6. ASSUME NEW j \in DOMAIN sheets, sheets'[j].status = "open"
      PROVE  /\ j # k /\ sheets[j].status = "open" /\ sheets'[j] = sheets[j]
             /\ \A l \in Lots : Counted(j, l)' <=> Counted(j, l)
  BY <1>1, <1>6 DEF Counted, OnSheet
<1>7. CountsStand'
  <2> SUFFICES ASSUME NEW j \in DOMAIN sheets, sheets'[j].status = "open",
                      NEW l \in Lots, Counted(j, l)'
               PROVE  sheets'[j].lines[l].counted = shelf[l] + sheets'[j].lines[l].gone
    BY <1>1, <1>2 DEF CountsStand
  <2> QED BY <1>6 DEF Settling, CountsStand
<1>8. BookAhead'
  <2>1. ASSUME NEW l \in Lots PROVE shelf[l] <= book'[l]
    <3>1. CASE l \in Differing(L)
      BY <1>3, <1>4, <3>1
    <3>2. CASE l \notin Differing(L)
      BY <1>4, <3>2 DEF Settling, BookAhead
    <3> QED BY <3>1, <3>2
  <2>2. ASSUME NEW l \in Lots, NEW j \in DOMAIN sheets, OnSheet(j, l)
        PROVE  book'[l] <= sheets[j].lines[l].book
    <3>1. CASE l \in Differing(L)
      BY <1>1, <1>3, <1>4, <2>2, <3>1 DEF Settling, CountsBelowBooks
    <3>2. CASE l \notin Differing(L)
      BY <1>4, <2>2, <3>2 DEF Settling, BookAhead
    <3> QED BY <3>1, <3>2
  <2> QED BY <1>1, <1>2, <1>5, <2>1, <2>2 DEF BookAhead
<1>9. CountsBelowBooks'
  <2> SUFFICES ASSUME NEW i \in DOMAIN sheets, NEW j \in DOMAIN sheets,
                      sheets'[i].status = "open",
                      NEW l \in Lots, Counted(i, l)', OnSheet(j, l)'
               PROVE  sheets'[i].lines[l].counted <= sheets'[j].lines[l].book
    BY <1>1 DEF CountsBelowBooks
  <2>1. sheets[i].status = "open" /\ Counted(i, l) /\ sheets'[i] = sheets[i]
    BY <1>6
  <2>2. OnSheet(j, l) /\ sheets'[j].lines[l].book = sheets[j].lines[l].book
    BY <1>5
  <2> QED BY <2>1, <2>2 DEF Settling, CountsBelowBooks
<1>10. CountsInHand'
  BY <1>0, <1>1, <1>2, <1>5, InHandKept DEF Settling, AsItWas
<1>11. \A d \in Clerks : SameTask(d)
  BY <1>1, SameOthers
<1>12. HandsApart'
  BY <1>11, ApartKept DEF Settling
<1>13. ReadAsItIs'
  <2>1. ASSUME NEW d \in Clerks, Doing(d, "post"), task'[d] # Idle
        PROVE  sheets'[task[d].sheet] = sheets[task[d].sheet]
    <3>1. d # c /\ task[d].sheet # k /\ task[d].sheet \in DOMAIN sheets
      BY <1>k, <1>1, <1>2, <2>1 DEF Settling, Held, PostedByOne, HandOf
    <3> QED BY <1>1, <3>1
  <2> QED BY <1>11, <2>1, ReadKept DEF Settling
<1>14. ASSUME NEW j \in DOMAIN sheets, NEW l \in Unsettled(j) PROVE Settles(j, l)
  <2>1. l \in Lots /\ OnSheet(j, l) /\ ~sheets[j].lines[l].posted
    BY DEF Unsettled, ToSettle, OnSheet
  <2>2. CASE j # k \/ l \notin ToSettle(L)
    BY <1>1, <2>1, <2>2 DEF Settles
  <2>3. CASE j = k /\ l \in Differing(L)
    BY <1>2, <1>3, <1>4, <2>1, <2>3 DEF Settles
  <2>4. CASE j = k /\ l \in ToSettle(L) /\ l \notin Differing(L)
    <3>1. L[l].counted = L[l].book
      BY <2>4 DEF Differing
    <3>2. /\ shelf[l] <= book[l] /\ book[l] <= sheets[k].lines[l].book
          /\ book'[l] = book[l] /\ shelf'[l] = shelf[l] /\ book[l] \in Nat /\ shelf[l] \in Nat
      BY <1>1, <1>2, <1>4, <2>1, <2>4 DEF Settling, BookAhead
    <3>3. /\ L[l].book = sheets[k].lines[l].book /\ sheets[k].lines[l].gone \in Nat
          /\ L[l].counted = shelf[l] + sheets[k].lines[l].gone
      BY <1>3, <2>4
    <3>4. book'[l] - shelf'[l] \in 0..sheets[k].lines[l].gone
      BY <3>1, <3>2, <3>3
    <3> QED BY <2>4, <3>4 DEF Settles
  <2> QED BY <2>2, <2>3, <2>4
<1> QED BY <1>0, <1>7, <1>8, <1>9, <1>10, <1>12, <1>13, <1>14 DEF Settling, NothingUnsettled

\* Sheets that only change their status leave nothing to settle.
LEMMA SettlingCancelled ==
  ASSUME Settling, NEW k \in DOMAIN sheets, CancelStockCount(k)
  PROVE  Settling' /\ NothingUnsettled
<1>0. StockCountTypeOK /\ Held'
  BY HeldCancelled DEF Settling, Held
<1>1. /\ DOMAIN sheets' = DOMAIN sheets /\ task' = task
      /\ sheets'[k].status = "cancelled" /\ sheets'[k].lines = sheets[k].lines
      /\ \A j \in DOMAIN sheets : j # k => sheets'[j] = sheets[j]
  BY <1>0, Cancelled
<1>2. book' = book /\ shelf' = shelf
  BY DEF CancelStockCount
<1>3. \A j \in DOMAIN sheets :
        /\ sheets'[j].lines = sheets[j].lines
        /\ sheets'[j].status = "open" => sheets[j].status = "open"
        /\ \A l \in Lots : /\ OnSheet(j, l)' <=> OnSheet(j, l)
                           /\ Counted(j, l)' <=> Counted(j, l)
  BY <1>1 DEF OnSheet, Counted
<1>4. CountsStand' /\ BookAhead' /\ CountsBelowBooks'
  BY <1>1, <1>2, <1>3 DEF Settling, CountsStand, BookAhead, CountsBelowBooks
<1>5. \A c \in Clerks : SameTask(c) /\ AsItWas(c)
  BY <1>1, SameAll DEF AsItWas
<1>6. CountsInHand' /\ HandsApart'
  BY <1>0, <1>1, <1>2, <1>3, <1>5, InHandKept, ApartKept DEF Settling
<1>7. ReadAsItIs'
  <2>1. \A c \in Clerks : Doing(c, "post") =>
          sheets'[task[c].sheet].lines = sheets[task[c].sheet].lines
    BY <1>3 DEF Settling, Held, HandOf
  <2> QED BY <1>5, <2>1, ReadKept DEF Settling
<1>8. NothingUnsettled
  BY <1>3, NoneMarked
<1> QED BY <1>0, <1>4, <1>6, <1>7, <1>8 DEF Settling

LEMMA SettlingRecorded ==
  ASSUME Settling, NEW c \in Clerks, RecordCount(c)
  PROVE  Settling' /\ NothingUnsettled
<1>0. StockCountTypeOK /\ Held /\ Held'
  BY HeldRecorded DEF Settling, Held
<1>k. PICK k, l : k = task[c].sheet /\ l = task[c].lot
  OBVIOUS
<1>1. /\ k \in DOMAIN sheets /\ l \in Lots
      /\ DOMAIN sheets' = DOMAIN sheets
      /\ sheets'[k].status = sheets[k].status
      /\ OnSheet(k, l) /\ OnSheet(k, l)'
      /\ sheets'[k].lines[l].book = sheets[k].lines[l].book
      /\ sheets'[k].lines[l].posted = sheets[k].lines[l].posted
      /\ sheets'[k].lines[l].counted = task[c].counted
      /\ sheets'[k].lines[l].gone = task[c].gone
      /\ \A m \in Lots : m # l => sheets'[k].lines[m] = sheets[k].lines[m]
      /\ \A j \in DOMAIN sheets : j # k => sheets'[j] = sheets[j]
      /\ task'[c] = Idle /\ \A d \in Clerks : d # c => task'[d] = task[d]
  BY <1>0, <1>k, Recorded
<1>2. /\ book' = book /\ shelf' = shelf /\ shelf[l] \in Nat /\ book[l] \in Nat
      /\ Doing(c, "count")
  BY <1>0, <1>1 DEF RecordCount, StockCountTypeOK
<1>s. /\ task[c].counted = shelf[l] + task[c].gone
      /\ \A j \in DOMAIN sheets : OnSheet(j, l) => task[c].counted <= sheets[j].lines[l].book
  BY <1>k, <1>2 DEF Settling, CountsInHand
<1>3. \A j \in DOMAIN sheets : \A m \in Lots :
        /\ sheets'[j].status = sheets[j].status
        /\ OnSheet(j, m)' <=> OnSheet(j, m)
        /\ OnSheet(j, m) => sheets'[j].lines[m].book = sheets[j].lines[m].book
        /\ sheets'[j].lines[m].posted = sheets[j].lines[m].posted
        /\ sheets'[j].lines[m] = sheets[j].lines[m] \/ (j = k /\ m = l)
  BY <1>1 DEF OnSheet
<1>4. \A j \in DOMAIN sheets : \A m \in Lots :
        ~(j = k /\ m = l) => (Counted(j, m)' <=> Counted(j, m))
  BY <1>3 DEF Counted
<1>5. CountsStand'
  <2> SUFFICES ASSUME NEW j \in DOMAIN sheets, sheets'[j].status = "open",
                      NEW m \in Lots, Counted(j, m)'
               PROVE  sheets'[j].lines[m].counted = shelf[m] + sheets'[j].lines[m].gone
    BY <1>1, <1>2 DEF CountsStand
  <2>1. CASE j = k /\ m = l
    BY <1>1, <1>s, <2>1
  <2>2. CASE ~(j = k /\ m = l)
    BY <1>3, <1>4, <2>2 DEF Settling, CountsStand
  <2> QED BY <2>1, <2>2
<1>6. BookAhead'
  BY <1>1, <1>2, <1>3 DEF Settling, BookAhead
<1>7. CountsBelowBooks'
  <2> SUFFICES ASSUME NEW i \in DOMAIN sheets, NEW j \in DOMAIN sheets,
                      sheets'[i].status = "open",
                      NEW m \in Lots, Counted(i, m)', OnSheet(j, m)'
               PROVE  sheets'[i].lines[m].counted <= sheets'[j].lines[m].book
    BY <1>1 DEF CountsBelowBooks
  <2>1. OnSheet(j, m) /\ sheets'[j].lines[m].book = sheets[j].lines[m].book
    BY <1>3
  <2>2. CASE i = k /\ m = l
    BY <1>1, <1>s, <2>1, <2>2
  <2>3. CASE ~(i = k /\ m = l)
    BY <1>3, <1>4, <2>1, <2>3 DEF Settling, CountsBelowBooks
  <2> QED BY <2>2, <2>3
<1>8. CountsInHand'
  BY <1>0, <1>1, <1>2, <1>3, InHandKept DEF Settling, AsItWas
<1>9. \A d \in Clerks : SameTask(d)
  BY <1>1, SameOthers
<1>10. HandsApart'
  BY <1>9, ApartKept DEF Settling
<1>11. ReadAsItIs'
  <2>1. ASSUME NEW d \in Clerks, Doing(d, "post")
        PROVE  sheets'[task[d].sheet] = sheets[task[d].sheet]
    <3>1. task[d].sheet # k /\ task[d].sheet \in DOMAIN sheets
      BY <1>k, <1>2, <2>1 DEF Settling, Held, HandsApart, HandOf
    <3> QED BY <1>1, <3>1
  <2> QED BY <1>9, <2>1, ReadKept DEF Settling
<1>12. NothingUnsettled
  BY <1>3, NoneMarked
<1> QED BY <1>0, <1>5, <1>6, <1>7, <1>8, <1>10, <1>11, <1>12 DEF Settling

LEMMA SettlingLeft ==
  ASSUME Settling, NEW l \in Lots, RecordRemoval(l) \/ Lose(l)
  PROVE  Settling' /\ NothingUnsettled
<1>0. StockCountTypeOK /\ Held /\ Held'
  BY HeldLeft DEF Settling, Held
<1>1. Leave(l) /\ DOMAIN sheets' = DOMAIN sheets
  BY <1>0, Left, SheetsLeft
<1>2. /\ \A m \in Lots : /\ book[m] \in Nat /\ shelf[m] \in Nat
                         /\ m # l => book'[m] = book[m] /\ shelf'[m] = shelf[m]
                         /\ m = l => shelf'[m] = shelf[m] - 1 /\ shelf[m] > 0
                         /\ book'[m] \in Nat
      /\ book'[l] = book[l] \/ (book'[l] = book[l] - 1 /\ book[l] > 0)
  BY <1>0, Left
<1>3. ASSUME NEW j \in DOMAIN sheets, NEW m \in Lots
      PROVE  /\ sheets'[j].status = sheets[j].status
             /\ OnSheet(j, m)' <=> OnSheet(j, m)
             /\ Counted(j, m)' <=> Counted(j, m)
             /\ OnSheet(j, m) => /\ sheets'[j].lines[m].book = sheets[j].lines[m].book
                                 /\ sheets'[j].lines[m].counted = sheets[j].lines[m].counted
                                 /\ sheets'[j].lines[m].posted = sheets[j].lines[m].posted
                                 /\ sheets[j].lines[m].book \in Nat
                                 /\ sheets[j].lines[m].gone \in Nat
             /\ Counted(j, m) =>
                  /\ sheets[j].lines[m].counted \in Nat
                  /\ m # l => sheets'[j].lines[m].gone = sheets[j].lines[m].gone
                  /\ m = l => sheets'[j].lines[m].gone = sheets[j].lines[m].gone + 1
  <2>1. /\ sheets'[j].status = sheets[j].status
        /\ m # l => sheets'[j].lines[m] = sheets[j].lines[m]
        /\ ~Counted(j, l) => sheets'[j] = sheets[j]
        /\ Counted(j, l) =>
             /\ sheets'[j].lines[l] # NoLine
             /\ sheets'[j].lines[l].book = sheets[j].lines[l].book
             /\ sheets'[j].lines[l].posted = sheets[j].lines[l].posted
             /\ sheets'[j].lines[l].counted = sheets[j].lines[l].counted
             /\ sheets'[j].lines[l].gone = sheets[j].lines[l].gone + 1
    BY <1>0, <1>1, SheetsLeft
  <2>2. OnSheet(j, m) => /\ sheets[j].lines[m].book \in Nat
                         /\ sheets[j].lines[m].gone \in Nat
                         /\ Counted(j, m) => sheets[j].lines[m].counted \in Nat
    BY <1>0, OfLine
  <2> QED BY <2>1, <2>2 DEF OnSheet, Counted
<1>4. CountsStand'
  <2> SUFFICES ASSUME NEW j \in DOMAIN sheets, sheets'[j].status = "open",
                      NEW m \in Lots, Counted(j, m)'
               PROVE  sheets'[j].lines[m].counted = shelf'[m] + sheets'[j].lines[m].gone
    BY <1>1 DEF CountsStand
  <2>1. sheets[j].status = "open" /\ Counted(j, m) /\ OnSheet(j, m)
    BY <1>3 DEF Counted
  <2>2. sheets[j].lines[m].counted = shelf[m] + sheets[j].lines[m].gone
    BY <2>1 DEF Settling, CountsStand
  <2>3. sheets'[j].lines[m].counted = sheets[j].lines[m].counted
        /\ sheets[j].lines[m].gone \in Nat /\ shelf[m] \in Nat
    BY <1>2, <1>3, <2>1
  <2>4. CASE m = l
    BY <1>2, <1>3, <2>1, <2>2, <2>3, <2>4
  <2>5. CASE m # l
    BY <1>2, <1>3, <2>1, <2>2, <2>3, <2>5
  <2> QED BY <2>4, <2>5
<1>5. BookAhead'
  <2>1. ASSUME NEW m \in Lots PROVE shelf'[m] <= book'[m]
    BY <1>2 DEF Settling, BookAhead
  <2>2. ASSUME NEW m \in Lots, NEW j \in DOMAIN sheets, OnSheet(j, m)
        PROVE  book'[m] <= sheets[j].lines[m].book
    BY <1>2, <1>3, <2>2 DEF Settling, BookAhead
  <2> QED BY <1>1, <1>3, <2>1, <2>2 DEF BookAhead
<1>6. CountsBelowBooks'
  <2> SUFFICES ASSUME NEW i \in DOMAIN sheets, NEW j \in DOMAIN sheets,
                      sheets'[i].status = "open",
                      NEW m \in Lots, Counted(i, m)', OnSheet(j, m)'
               PROVE  sheets'[i].lines[m].counted <= sheets'[j].lines[m].book
    BY <1>1 DEF CountsBelowBooks
  <2>1. sheets[i].status = "open" /\ Counted(i, m) /\ OnSheet(i, m)
    BY <1>3 DEF Counted
  <2>2. sheets'[i].lines[m].counted = sheets[i].lines[m].counted
    BY <1>3, <2>1
  <2>3. OnSheet(j, m) /\ sheets'[j].lines[m].book = sheets[j].lines[m].book
    BY <1>3
  <2> QED BY <2>1, <2>2, <2>3 DEF Settling, CountsBelowBooks
<1>7. \A c \in Clerks :
        /\ ~(Doing(c, "count") /\ task[c].lot = l) => task'[c] = task[c]
        /\ Doing(c, "count") /\ task[c].lot = l =>
             /\ Doing(c, "count")' /\ ~Doing(c, "post")'
             /\ task'[c].sheet = task[c].sheet /\ task'[c].lot = l
             /\ task'[c].counted = task[c].counted
             /\ task'[c].gone = task[c].gone + 1
  BY <1>0, <1>1, TasksLeft
<1>8. \A c \in Clerks : SameTask(c)
  BY <1>0, <1>7, TaskFields DEF SameTask, Doing
<1>9. CountsInHand'
  <2> SUFFICES ASSUME NEW c \in Clerks, Doing(c, "count")', NEW m, m = task'[c].lot
               PROVE  /\ task'[c].counted = shelf'[m] + task'[c].gone
                      /\ \A j \in DOMAIN sheets : sheets'[j].lines[m] # NoLine =>
                           task'[c].counted <= sheets'[j].lines[m].book
    BY <1>1 DEF CountsInHand, OnSheet
  <2>1. Doing(c, "count") /\ task[c].lot = m /\ task'[c].counted = task[c].counted
    BY <1>7 DEF Doing
  <2>2. m \in Lots /\ task[c].counted \in Nat /\ task[c].gone \in Nat
    BY <1>0, <2>1, TaskFields
  <2>3. /\ task[c].counted = shelf[m] + task[c].gone
        /\ \A j \in DOMAIN sheets : OnSheet(j, m) =>
             task[c].counted <= sheets[j].lines[m].book
    BY <2>1 DEF Settling, CountsInHand
  <2>4. task'[c].counted = shelf'[m] + task'[c].gone
    <3>1. CASE m = l
      BY <1>2, <1>7, <2>1, <2>2, <2>3, <3>1
    <3>2. CASE m # l
      BY <1>2, <1>7, <2>1, <2>2, <2>3, <3>2
    <3> QED BY <3>1, <3>2
  <2>5. ASSUME NEW j \in DOMAIN sheets, sheets'[j].lines[m] # NoLine
        PROVE  task'[c].counted <= sheets'[j].lines[m].book
    <3>1. OnSheet(j, m)
      BY <1>3, <2>2, <2>5 DEF OnSheet
    <3> QED BY <1>3, <2>1, <2>2, <2>3, <3>1
  <2> QED BY <2>4, <2>5
<1>10. HandsApart'
  BY <1>8, ApartKept DEF Settling
<1>11. ReadAsItIs'
  <2>1. ASSUME NEW c \in Clerks, Doing(c, "post"), NEW m \in Lots,
               sheets'[task[c].sheet].lines[m] # NoLine
        PROVE  LET f == sheets[task[c].sheet].lines[m]
                   g == sheets'[task[c].sheet].lines[m]
               IN  f # NoLine /\ g.book = f.book /\ g.counted = f.counted /\ g.posted = f.posted
    <3>1. task[c].sheet \in DOMAIN sheets
      BY <2>1 DEF Settling, Held, HandOf
    <3> QED BY <1>3, <2>1, <3>1 DEF OnSheet
  <2> QED BY <1>8, <2>1, ReadKept DEF Settling
<1>12. NothingUnsettled
  BY <1>3, NoneMarked
<1> QED BY <1>0, <1>4, <1>5, <1>6, <1>9, <1>10, <1>11, <1>12 DEF Settling

LEMMA SettlingStep ==
  ASSUME {"one sheet", "hands off"} \subseteq Careful, Settling, [Next]_vars
  PROVE  Settling' /\ NothingUnsettled
<1>0. OneSheet /\ OffWhilePosted
  BY DEF OneSheet, OffWhilePosted
<1>1. CASE UNCHANGED vars
  <2>1. Held'
    BY HeldStep DEF Settling
  <2>2. CountsStand' /\ BookAhead' /\ CountsBelowBooks' /\ NothingUnsettled
    BY <1>1, StillSettling DEF vars
  <2>3. CountsInHand' /\ HandsApart' /\ ReadAsItIs'
    BY <1>1 DEF vars, Settling, CountsInHand, HandsApart, ReadAsItIs, Doing, OnSheet
  <2> QED BY <2>1, <2>2, <2>3 DEF Settling
<1> QED BY <1>0, <1>1, SettlingOpened, SettlingAsked, SettlingBegan, SettlingRolledBack,
           SettlingPosted, SettlingCancelled, SettlingRecorded, SettlingLeft DEF Next

\* Posting brings the book to the shelf as it was counted, when no sheet is opened
\* while a count waits to be posted and nobody counts on a sheet while it is posted:
\* whatever is removed and lost in the meantime, however many sheets are open, and
\* with any counts and postings of several clerks under way between their two steps.
THEOREM PostingSettles ==
  ASSUME {"one sheet", "hands off"} \subseteq Careful PROVE Spec => CountSettles
<1>1. Init => Settling
  BY SettlingInit
<1>2. Settling /\ [Next]_vars => Settling'
  BY SettlingStep
<1>3. Settling /\ [Next]_vars =>
        [\A k \in DOMAIN sheets : \A l \in Unsettled(k) :
           sheets'[k].lines[l].posted =>
             book'[l] - shelf'[l] \in 0..sheets[k].lines[l].gone]_vars
  BY SettlingStep DEF NothingUnsettled, Settles
<1> QED BY <1>1, <1>2, <1>3, PTL DEF Spec, CountSettles

-----------------------------------------------------------------------------
(* The book and the documents, for any operators. *)

\* What the ledger says of lot l.
AdjustedOf(l) == {a \in adjustments : a.lot = l}

\* Only posted sheets have adjustments, so that one that is posted adds new ones.
OfPostedSheets ==
  \A a \in adjustments : a.sheet \in DOMAIN sheets /\ sheets[a.sheet].status = "posted"

Explaining ==
  /\ Held
  /\ OfPostedSheets
  /\ \A l \in Lots : IsFiniteSet(AdjustedOf(l))
  /\ BookExplained

LEMMA ExplainingInit == Init => Explaining
<1> SUFFICES ASSUME Init PROVE Explaining
  OBVIOUS
<1>1. Held /\ OfPostedSheets
  BY HeldInit DEF Init, OfPostedSheets
<1>2. ASSUME NEW l \in Lots
      PROVE  /\ AdjustedOf(l) = {} /\ IsFiniteSet(AdjustedOf(l))
             /\ book[l] = Filled[l] - removed[l]
                          + SumFunctionOnSet([a \in adjustments |-> a.delta], AdjustedOf(l))
  <2>1. AdjustedOf(l) = {}
    BY DEF Init, AdjustedOf
  <2>2. SumFunctionOnSet([a \in adjustments |-> a.delta], AdjustedOf(l)) = 0
    BY <2>1, SumEmpty
  <2>3. book[l] = Filled[l] /\ removed[l] = 0 /\ Filled[l] \in Nat
    BY StockCountAssumption DEF Init
  <2> QED BY <2>1, <2>2, <2>3, FS_EmptySet
<1> QED BY <1>1, <1>2 DEF Explaining, BookExplained, AdjustedOf

\* Sheets that are posted stay so, whatever else is done with them.
LEMMA StillPosted ==
  ASSUME Held, [Next]_vars
  PROVE  \A k \in DOMAIN sheets : sheets[k].status = "posted" =>
           k \in DOMAIN sheets' /\ sheets'[k].status = "posted"
<1>1. StockCountTypeOK
  BY DEF Held
<1>2. CASE UNCHANGED sheets
  BY <1>2
<1>3. CASE OpenStockCount
  BY <1>1, <1>3, Opened
<1>4. ASSUME NEW c \in Clerks, PostStockCount(c)
      PROVE  \A j \in DOMAIN sheets : sheets[j].status = "posted" =>
               j \in DOMAIN sheets' /\ sheets'[j].status = "posted"
  <2>1. PICK k, L : k = task[c].sheet /\ L = task[c].lines
    OBVIOUS
  <2> QED BY <1>4, <2>1, Posted
<1>5. ASSUME NEW k \in DOMAIN sheets, CancelStockCount(k)
      PROVE  \A j \in DOMAIN sheets : sheets[j].status = "posted" =>
               j \in DOMAIN sheets' /\ sheets'[j].status = "posted"
  BY <1>1, <1>5, Cancelled DEF CancelStockCount
<1>6. ASSUME NEW c \in Clerks, RecordCount(c)
      PROVE  \A j \in DOMAIN sheets : sheets[j].status = "posted" =>
               j \in DOMAIN sheets' /\ sheets'[j].status = "posted"
  <2>1. PICK k, l : k = task[c].sheet /\ l = task[c].lot
    OBVIOUS
  <2> QED BY <1>6, <2>1, Recorded
<1>7. ASSUME NEW l \in Lots, RecordRemoval(l) \/ Lose(l)
      PROVE  \A j \in DOMAIN sheets : sheets[j].status = "posted" =>
               j \in DOMAIN sheets' /\ sheets'[j].status = "posted"
  BY <1>1, <1>7, Left, SheetsLeft
<1> QED BY <1>2, <1>3, <1>4, <1>5, <1>6, <1>7
        DEF Next, vars, AskToCount, BeginPosting, Rollback

\* A step that adjusts nothing and takes from the book what it removes.
LEMMA ExplainingKept ==
  ASSUME Explaining, [Next]_vars, adjustments' = adjustments,
         \A l \in Lots : book'[l] + removed'[l] = book[l] + removed[l]
  PROVE  Explaining'
<1>1. StockCountTypeOK /\ StockCountTypeOK' /\ Held'
  BY HeldStep DEF Explaining, Held
<1>2. OfPostedSheets'
  BY StillPosted DEF Explaining, OfPostedSheets
<1>3. ASSUME NEW l \in Lots
      PROVE  /\ IsFiniteSet(AdjustedOf(l))'
             /\ (book[l] = Filled[l] - removed[l]
                           + SumFunctionOnSet([a \in adjustments |-> a.delta],
                                              {a \in adjustments : a.lot = l}))'
  <2>1. AdjustedOf(l)' = AdjustedOf(l) /\ IsFiniteSet(AdjustedOf(l))
    BY DEF AdjustedOf, Explaining
  <2>2. PICK n : n = SumFunctionOnSet([a \in adjustments |-> a.delta],
                                      {a \in adjustments : a.lot = l})
    OBVIOUS
  <2>3. n \in Int
    <3>1. \A a \in AdjustedOf(l) : [b \in adjustments |-> b.delta][a] \in Int
      BY <1>1 DEF AdjustedOf, StockCountTypeOK, Adjustment
    <3> QED BY <2>1, <2>2, <3>1, SumInt DEF AdjustedOf
  <2>4. book[l] = Filled[l] - removed[l] + n
    BY <2>2 DEF Explaining, BookExplained
  <2>5. n = SumFunctionOnSet([a \in adjustments' |-> a.delta],
                             {a \in adjustments' : a.lot = l})
    BY <2>2
  <2>6. /\ book[l] \in Nat /\ removed[l] \in Nat /\ book'[l] \in Nat /\ removed'[l] \in Nat
        /\ Filled[l] \in Nat /\ book'[l] + removed'[l] = book[l] + removed[l]
    BY <1>1, StockCountAssumption DEF StockCountTypeOK
  <2>7. book'[l] = Filled[l] - removed'[l] + n
    <3> DEFINE a == book[l]
               b == book'[l]
               c == removed[l]
               d == removed'[l]
               e == Filled[l]
    <3>1. /\ a \in Nat /\ b \in Nat /\ c \in Nat /\ d \in Nat /\ e \in Nat
          /\ b + d = a + c /\ a = e - c + n
      BY <2>4, <2>6
    <3> HIDE DEF a, b, c, d, e
    <3>2. b = e - d + n
      BY <2>3, <3>1
    <3> QED BY <3>2 DEF b, d, e
  <2> QED BY <2>1, <2>5, <2>7
<1> QED BY <1>1, <1>2, <1>3 DEF Explaining, BookExplained

\* Posting: one adjustment more for a lot whose book it moves, of as much.
LEMMA ExplainingPosted ==
  ASSUME Explaining, NEW c \in Clerks, PostStockCount(c)
  PROVE  Explaining'
<1>k. PICK k, L : k = task[c].sheet /\ L = task[c].lines
  OBVIOUS
<1>1. /\ StockCountTypeOK /\ Held' /\ StockCountTypeOK' /\ k \in DOMAIN sheets
      /\ L \in Lines /\ sheets[k].status = "open"
      /\ k \in DOMAIN sheets' /\ sheets'[k].status = "posted"
  BY <1>k, Posted, HeldPosted DEF Explaining, Held
<1> DEFINE New(l) == [sheet |-> k, lot |-> l, counted |-> L[l].counted, delta |-> Delta(L, l)]
           moved == {m \in Differing(L) : Delta(L, m) # 0}
<1>b. book' = [l \in Lots |-> IF l \in Differing(L) THEN Balance(L, l) ELSE book[l]]
  BY <1>k DEF PostStockCount
<1>c. \A l \in Differing(L) : L[l].counted \in Nat
  BY <1>1, LineFields DEF Differing, ToSettle, Lines
<1>2. adjustments' = adjustments \cup {New(l) : l \in moved}
  BY <1>k DEF PostStockCount
<1>3. [Next]_vars
  BY DEF Next
<1>4. OfPostedSheets'
  <2>1. \A a \in adjustments : a.sheet \in DOMAIN sheets' /\ sheets'[a.sheet].status = "posted"
    BY <1>3, StillPosted DEF Explaining, OfPostedSheets
  <2>2. \A l : New(l).sheet = k
    OBVIOUS
  <2> QED BY <1>1, <1>2, <2>1, <2>2 DEF OfPostedSheets
<1>5. \A a \in adjustments : a.sheet # k
  BY <1>1 DEF Explaining, OfPostedSheets
<1>6. ASSUME NEW l \in Lots
      PROVE  /\ IsFiniteSet(AdjustedOf(l))'
             /\ (book[l] = Filled[l] - removed[l]
                           + SumFunctionOnSet([a \in adjustments |-> a.delta],
                                              {a \in adjustments : a.lot = l}))'
  <2> DEFINE f == [a \in adjustments |-> a.delta]
             g == [a \in adjustments' |-> a.delta]
             A == AdjustedOf(l)
             B == {a \in adjustments' : a.lot = l}
  <2>1. IsFiniteSet(A) /\ book[l] = Filled[l] - removed[l] + SumFunctionOnSet(f, A)
    BY DEF Explaining, BookExplained, AdjustedOf
  <2>2. /\ \A a \in A : f[a] \in Int /\ g[a] = f[a]
        /\ \A a \in A : g[a] \in Int
    BY <1>1, <1>2 DEF AdjustedOf, StockCountTypeOK, Adjustment
  <2>3. /\ book[l] \in Nat /\ removed[l] \in Nat /\ Filled[l] \in Nat /\ removed' = removed
    BY <1>1, StockCountAssumption DEF StockCountTypeOK, PostStockCount
  <2>4. SumFunctionOnSet(f, A) \in Int
    <3> HIDE DEF f, A
    <3> QED BY <2>1, <2>2, SumInt
  <2>5. SumFunctionOnSet(g, A) = SumFunctionOnSet(f, A)
    <3>1. \A a \in A : g[a] = f[a]
      BY <2>2
    <3> HIDE DEF f, g, A
    <3> QED BY <2>1, <3>1, SumSame
  <2>6. CASE l \notin moved
    <3>1. B = A
      BY <1>2, <2>6 DEF AdjustedOf
    <3>2. book'[l] = book[l]
      <4>1. CASE l \notin Differing(L)
        BY <1>b, <4>1
      <4>2. CASE l \in Differing(L)
        <5>1. Delta(L, l) = 0 /\ L[l].counted \in Nat
          BY <1>c, <2>6, <4>2
        <5>2. L[l].counted = book[l]
          BY <2>3, <5>1 DEF Delta
        <5> QED BY <1>b, <4>2, <5>2 DEF Balance
      <4> QED BY <4>1, <4>2
    <3> HIDE DEF f, g, A, B
    <3>3. IsFiniteSet(B) /\ book'[l] = Filled[l] - removed'[l] + SumFunctionOnSet(g, B)
      BY <2>1, <2>3, <2>4, <2>5, <3>1, <3>2
    <3> QED BY <3>3 DEF g, B, AdjustedOf
  <2>7. CASE l \in moved
    <3>1. New(l) \in adjustments' /\ g[New(l)] = Delta(L, l) /\ New(l) \notin A
      BY <1>2, <1>5, <2>7 DEF AdjustedOf
    <3>2. B = A \cup {New(l)}
      BY <1>2, <2>7 DEF AdjustedOf
    <3>3. l \in Differing(L) /\ L[l].counted \in Nat
      BY <1>c, <2>7
    <3>5. book'[l] = book[l] + Delta(L, l) /\ Delta(L, l) \in Int
      BY <1>b, <2>3, <3>3 DEF Balance, Delta
    <3>6. PICK a : a = New(l)
      OBVIOUS
    <3>7. a \notin A /\ g[a] = Delta(L, l) /\ B = A \cup {a}
      BY <3>1, <3>2, <3>6
    <3>8. \A x \in A : g[x] \in Int
      BY <2>2
    <3> HIDE DEF f, g, A, B
    <3>9. SumFunctionOnSet(g, B) = SumFunctionOnSet(g, A) + Delta(L, l)
      <4>1. SumFunctionOnSet(g, A \cup {a}) = SumFunctionOnSet(g, A) + g[a]
        BY <2>1, <3>5, <3>7, <3>8, SumAdd
      <4> QED BY <3>7, <4>1
    <3>10. IsFiniteSet(B)
      BY <2>1, <3>7, FS_AddElement
    <3>11. book'[l] = Filled[l] - removed'[l] + SumFunctionOnSet(g, B)
      BY <2>1, <2>3, <2>4, <2>5, <3>5, <3>9
    <3> QED BY <3>10, <3>11 DEF g, B, AdjustedOf
  <2> QED BY <2>6, <2>7
<1> QED BY <1>1, <1>4, <1>6 DEF Explaining, BookExplained

LEMMA ExplainingStep ==
  ASSUME Explaining, [Next]_vars
  PROVE  Explaining'
<1>1. StockCountTypeOK
  BY DEF Explaining, Held
<1>2. \A l \in Lots : book[l] \in Nat /\ removed[l] \in Nat
  BY <1>1 DEF StockCountTypeOK
<1>3. CASE \E c \in Clerks : PostStockCount(c)
  BY <1>3, ExplainingPosted
<1>4. CASE \E l \in Lots : RecordRemoval(l)
  <2>1. PICK l \in Lots : RecordRemoval(l)
    BY <1>4
  <2>2. \A m \in Lots : book'[m] + removed'[m] = book[m] + removed[m]
    BY <1>1, <1>2, <2>1 DEF RecordRemoval, StockCountTypeOK
  <2> QED BY <2>1, <2>2, ExplainingKept DEF RecordRemoval
<1>5. CASE book' = book /\ removed' = removed /\ adjustments' = adjustments
  BY <1>5, ExplainingKept
<1> QED BY <1>3, <1>4, <1>5
        DEF Next, vars, OpenStockCount, CancelStockCount, AskToCount, BeginPosting,
            RecordCount, Rollback, Lose

\* Whatever operators do, every balance is what was filled, less the removals, and
\* the adjustments: no sheet writes a balance without the document for it.
THEOREM BooksAreExplained == Spec => []BookExplained
<1>1. Init => Explaining
  BY ExplainingInit
<1>2. Explaining /\ [Next]_vars => Explaining'
  BY ExplainingStep
<1>3. Explaining => BookExplained
  BY DEF Explaining
<1> QED BY <1>1, <1>2, <1>3, PTL DEF Spec

=============================================================================
