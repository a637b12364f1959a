----------------------------- MODULE StockCount -----------------------------
(***************************************************************************)
(* Counting the warehouse (backend/internal/rpc/stockcount.go): a sheet    *)
(* takes down what the book says when it is opened, the shelves are        *)
(* counted line by line, and posting the sheet writes the differences      *)
(* into the ledger.  Here the lines for packaged lots: those for vessels   *)
(* are not posted from the sheet, and those for materials are on no        *)
(* return.                                                                 *)
(*                                                                         *)
(* Each RPC is a READ COMMITTED transaction.  Counting a line reads it and *)
(* its sheet without a lock and writes the line afterwards; posting locks  *)
(* the sheet, reads its lines and settles them one by one: two steps each, *)
(* and others commit in between.                                           *)
(*                                                                         *)
(* The shelf is not in the program.  It is here because the book is right  *)
(* when it says what stands there.                                         *)
(***************************************************************************)
EXTENDS Integers, Sequences, FiniteSetsExt

CONSTANTS
  Lots,
  Filled,      \* the bottles of each lot
  Clerks,
  Idle,        \* a clerk with no request in flight
  Careful,     \* the rules operators keep
  NoLine,      \* a lot that is not on the sheet
  MaxSheets,   \* bounds of the model
  MaxLosses

NotCounted == -1

\* Of what no handler refuses: to open a sheet while a count waits to be posted, and
\* to count on a sheet while it is being posted.
Rules == {"one sheet", "hands off"}

\* A line of a sheet; gone is what has left its shelf since it was counted.
Line == [book : Nat, counted : Nat \cup {NotCounted}, posted : BOOLEAN, gone : Nat]

Lines == [Lots -> Line \cup {NoLine}]

Sheet == [status : {"open", "posted", "cancelled"}, lines : Lines]

\* A packaged adjustment.
Adjustment == [sheet : Nat, lot : Lots, counted : Nat, delta : Int]

\* A count on its way to its line, and a posting with the lines it has read.
Counting == [op : {"count"}, sheet : Nat, lot : Lots, counted : Nat, gone : Nat]
Posting  == [op : {"post"}, sheet : Nat, lines : Lines]

ASSUME StockCountAssumption ==
  /\ Filled \in [Lots -> Nat]
  /\ Careful \subseteq Rules
  /\ NoLine \notin Line
  /\ Idle \notin Counting \cup Posting
  /\ MaxSheets \in Nat /\ MaxLosses \in Nat

VARIABLES
  book,         \* packaged_inventory.bottles_on_hand
  shelf,        \* the bottles that stand there
  sheets,       \* stock_counts and stock_count_lines
  adjustments,  \* packaged_adjustments
  removed,      \* bottles of the packaging_removals
  losses,       \* bottles gone without a document
  task          \* the request each clerk has in flight

vars == <<book, shelf, sheets, adjustments, removed, losses, task>>

-----------------------------------------------------------------------------
OnSheet(k, l) == sheets[k].lines[l] # NoLine

Counted(k, l) == OnSheet(k, l) /\ sheets[k].lines[l].counted # NotCounted

\* Of some lines of a sheet, those that are still to be settled.
ToSettle(L) == {l \in Lots : L[l] # NoLine /\ L[l].counted # NotCounted /\ ~L[l].posted}

Unsettled(k) == ToSettle(sheets[k].lines)

\* Counted, and not as the sheet took it down: these are written into the ledger.
Differing(L) == {l \in ToSettle(L) : L[l].counted # L[l].book}

\* Delta, the variance of the sheet.
Variance(L, l) == L[l].counted - L[l].book

\* RecordPackagedAdjustment: against the book as it is under the lock.
Delta(L, l) == L[l].counted - book[l]

\* Balance, as the sheet's variance would have it.
BalanceByVariance(L, l) == book[l] + Variance(L, l)

\* SetPackagedBottles.
Balance(L, l) == L[l].counted

Doing(c, op) == task[c] # Idle /\ task[c].op = op

\* GetStockCountForUpdate: a posting holds its sheet's row.
Locked(k) == \E c \in Clerks : Doing(c, "post") /\ task[c].sheet = k

\* No count of the lot waits to be posted.
Standing(l) ==
  /\ \A k \in DOMAIN sheets : sheets[k].status = "open" => ~Counted(k, l)
  /\ \A c \in Clerks : Doing(c, "count") => task[c].lot # l

\* Nobody counts on the sheet.
HandsOff(k) == \A c \in Clerks : Doing(c, "count") => task[c].sheet # k

-----------------------------------------------------------------------------
\* StockCountPackagedSubjects: the lots with stock, at what the book says now.
OpenStockCount ==
  /\ Len(sheets) < MaxSheets
  /\ "one sheet" \in Careful => \A l \in Lots : Standing(l)
  /\ sheets' = Append(sheets,
       [status |-> "open",
        lines |-> [l \in Lots |->
          IF book[l] > 0
          THEN [book |-> book[l], counted |-> NotCounted, posted |-> FALSE, gone |-> 0]
          ELSE NoLine]])
  /\ UNCHANGED <<book, shelf, adjustments, removed, losses, task>>

\* RecordCount up to its reads.  A line may be counted again.  A difference is
\* refused without a reason, so that every line that differs has one.
AskToCount(c, k, l) ==
  /\ task[c] = Idle
  /\ sheets[k].status = "open"
  /\ OnSheet(k, l)
  /\ ~sheets[k].lines[l].posted
  /\ "hands off" \in Careful => ~Locked(k)
  /\ task' = [task EXCEPT ![c] =
       [op |-> "count", sheet |-> k, lot |-> l, counted |-> shelf[l], gone |-> 0]]
  /\ UNCHANGED <<book, shelf, sheets, adjustments, removed, losses>>

\* SetStockCountLineCount: it asks again whether the line is posted, and not whether
\* the sheet still is open.
RecordCount(c) ==
  /\ Doing(c, "count")
  /\ LET k == task[c].sheet
         l == task[c].lot
     IN  /\ ~sheets[k].lines[l].posted
         /\ sheets' = [sheets EXCEPT ![k].lines[l] =
              [@ EXCEPT !.counted = task[c].counted, !.gone = task[c].gone]]
  /\ task' = [task EXCEPT ![c] = Idle]
  /\ UNCHANGED <<book, shelf, adjustments, removed, losses>>

\* PostStockCount up to ListStockCountLines.
BeginPosting(c, k) ==
  /\ task[c] = Idle
  /\ sheets[k].status = "open"
  /\ ~Locked(k)
  /\ "hands off" \in Careful => HandsOff(k)
  /\ task' = [task EXCEPT ![c] = [op |-> "post", sheet |-> k, lines |-> sheets[k].lines]]
  /\ UNCHANGED <<book, shelf, sheets, adjustments, removed, losses>>

\* The rest of it, with its lots locked: the counted lines it has read are settled
\* and the others skipped; the sheet is done with.
PostStockCount(c) ==
  /\ Doing(c, "post")
  /\ LET k == task[c].sheet
         L == task[c].lines
     IN  /\ book' = [l \in Lots |-> IF l \in Differing(L) THEN Balance(L, l) ELSE book[l]]
         /\ adjustments' = adjustments \cup
              {[sheet |-> k, lot |-> l, counted |-> L[l].counted, delta |-> Delta(L, l)] :
                 l \in {m \in Differing(L) : Delta(L, m) # 0}}
         /\ sheets' = [sheets EXCEPT ![k] =
              [status |-> "posted",
               lines |-> [l \in Lots |-> IF l \in ToSettle(L)
                                         THEN [sheets[k].lines[l] EXCEPT !.posted = TRUE]
                                         ELSE sheets[k].lines[l]]]]
  /\ task' = [task EXCEPT ![c] = Idle]
  /\ UNCHANGED <<shelf, removed, losses>>

\* A refusal, an error, or a client that went away.
Rollback(c) ==
  /\ task[c] # Idle
  /\ task' = [task EXCEPT ![c] = Idle]
  /\ UNCHANGED <<book, shelf, sheets, adjustments, removed, losses>>

CancelStockCount(k) ==
  /\ sheets[k].status # "posted"
  /\ ~Locked(k)
  /\ sheets' = [sheets EXCEPT ![k].status = "cancelled"]
  /\ UNCHANGED <<book, shelf, adjustments, removed, losses, task>>

\* A bottle leaves the shelf, after the counts that have been taken of it.
Leave(l) ==
  /\ shelf[l] > 0
  /\ shelf' = [shelf EXCEPT ![l] = @ - 1]
  /\ sheets' = [k \in DOMAIN sheets |->
                  IF Counted(k, l) THEN [sheets[k] EXCEPT !.lines[l].gone = @ + 1]
                  ELSE sheets[k]]
  /\ task' = [c \in Clerks |-> IF Doing(c, "count") /\ task[c].lot = l
                               THEN [task[c] EXCEPT !.gone = @ + 1]
                               ELSE task[c]]

\* recordRemoval, by hand, for a shipment or for the till.
RecordRemoval(l) ==
  /\ book[l] > 0
  /\ Leave(l)
  /\ book' = [book EXCEPT ![l] = @ - 1]
  /\ removed' = [removed EXCEPT ![l] = @ + 1]
  /\ UNCHANGED <<adjustments, losses>>

\* It is broken, or taken.
Lose(l) ==
  /\ losses < MaxLosses
  /\ Leave(l)
  /\ losses' = losses + 1
  /\ UNCHANGED <<book, adjustments, removed>>

-----------------------------------------------------------------------------
Init ==
  /\ book = Filled
  /\ shelf = Filled
  /\ sheets = << >>
  /\ adjustments = {}
  /\ removed = [l \in Lots |-> 0]
  /\ losses = 0
  /\ task = [c \in Clerks |-> Idle]

Next ==
  \/ OpenStockCount
  \/ \E k \in DOMAIN sheets : CancelStockCount(k)
  \/ \E c \in Clerks :
       \/ \E k \in DOMAIN sheets : \/ BeginPosting(c, k)
                                   \/ \E l \in Lots : AskToCount(c, k, l)
       \/ RecordCount(c) \/ PostStockCount(c) \/ Rollback(c)
  \/ \E l \in Lots : RecordRemoval(l) \/ Lose(l)

Spec == Init /\ [][Next]_vars

-----------------------------------------------------------------------------
(* Properties *)

StockCountTypeOK ==
  /\ book \in [Lots -> Nat] /\ shelf \in [Lots -> Nat]
  /\ sheets \in Seq(Sheet)
  /\ adjustments \subseteq Adjustment
  /\ removed \in [Lots -> Nat]
  /\ losses \in 0..MaxLosses
  /\ task \in [Clerks -> Counting \cup Posting \cup {Idle}]

\* Posting brings the book to the shelf as it was counted: it shows no bottle fewer
\* than stand there, and more only by what has left since the line was counted.  That
\* is also when bottles leave while the sheet is counted and posted, and two sheets
\* are open on the lot at once.  (Bottles shipped after the count are among those the
\* book then shows too many, NoneBookedBack.)
CountSettles ==
  [][\A k \in DOMAIN sheets : \A l \in Unsettled(k) :
       sheets'[k].lines[l].posted =>
         book'[l] - shelf'[l] \in 0..sheets[k].lines[l].gone]_vars

\* "A count that takes a morning while somebody else is shipping would otherwise
\* measure the shipping rather than the discrepancy" (stockcount.go): what has been
\* shipped is never booked back in.
NoneBookedBack == \A l \in Lots : book[l] <= Filled[l] - removed[l]

\* A line is posted "when this line's variance has been written into the ledger"
\* (000058_stock_counts): what the adjustment was made of is what the line says.
PostedAsCounted ==
  \A a \in adjustments : sheets[a.sheet].lines[a.lot].counted = a.counted

\* Nothing changes a balance without a document the return can be walked back
\* over ("a balance that changed with nothing in the ledger to undo would silently
\* restate a period already filed", 000058_stock_counts): what was filled, less the
\* removals, and the adjustments make the book.
BookExplained ==
  \A l \in Lots :
    book[l] = Filled[l] - removed[l]
              + SumFunctionOnSet([a \in adjustments |-> a.delta],
                                 {a \in adjustments : a.lot = l})

=============================================================================
