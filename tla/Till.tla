-------------------------------- MODULE Till --------------------------------
(***************************************************************************)
(* Sales at the till (backend/internal/rpc/pos.go): a point-of-sale system *)
(* delivers its lines at least once, and the pending ones are turned into  *)
(* removals, at once or when an operator posts them.                       *)
(*                                                                         *)
(* A batch is one READ COMMITTED transaction that takes its sales one by   *)
(* one.  It reads the pending sales and the oldest lot without a lock and  *)
(* then locks the lot, so that other transactions commit between its       *)
(* steps; what it has done itself is seen by nobody before it commits.     *)
(***************************************************************************)
EXTENDS Integers, Sequences, FiniteSetsExt, Functions

CONSTANTS
  Sales,       \* lines of the till, an earlier one a smaller number
  Skus,
  SkuOf,       \* of each line
  Quantity,    \* of each line
  LateSales,   \* lines sold in a period that is filed by now
  Products,
  Lots,        \* packaged lots, an older one a smaller number
  ProductOf,   \* of each lot
  Filled,      \* the bottles each lot was filled with
  Clerks,      \* transactions there can be at a time
  Careful,     \* TRUE: operators keep to the discipline below
  NoProduct,
  NoLot,
  NoBatch,
  MaxRemovals, \* bounds of the model
  MaxFaults

\* A row of packaging_removals that came from the till.
Removal == [sale : Sales, lot : Lots, bottles : Nat, voided : BOOLEAN]

\* Sales still to be posted; those the batch itself inserted; the lot chosen for
\* the first of them; the removals and the rejections it has recorded.
Batch == [todo : SUBSET Sales, fresh : SUBSET Sales, lot : Lots \cup {NoLot},
          rows : Seq(Removal), rejected : SUBSET Sales]

ASSUME TillAssumption ==
  /\ Sales \subseteq Nat /\ Lots \subseteq Nat
  /\ SkuOf \in [Sales -> Skus]
  /\ Quantity \in [Sales -> Nat \ {0}]
  /\ LateSales \subseteq Sales
  /\ ProductOf \in [Lots -> Products]
  /\ Filled \in [Lots -> Nat]
  /\ Careful \in BOOLEAN
  /\ NoProduct \notin Products
  /\ NoLot \notin Lots
  /\ NoBatch \notin Batch
  /\ MaxRemovals \in Nat /\ MaxFaults \in Nat

VARIABLES
  sales,     \* pos_sales, by status; "unseen" is no row
  map,       \* pos_product_map
  lots,      \* packaged_inventory
  removals,  \* packaging_removals that came from the till
  batch,     \* the transaction each clerk has in hand
  faults     \* transactions lost so far

vars == <<sales, map, lots, removals, batch, faults>>

-----------------------------------------------------------------------------
\* The bottles of some of the removals in a sequence.
Bottles(rows, S) == SumFunctionOnSet([i \in DOMAIN rows |-> rows[i].bottles], S)

\* The removals a batch has recorded of a lot, and all the sales they are of.
Sold(c, l) == {i \in DOMAIN batch[c].rows : batch[c].rows[i].lot = l}
Posted(c) == {batch[c].rows[i].sale : i \in DOMAIN batch[c].rows}

\* What a clerk's own transaction sees of a lot.
OnHand(c, l) == lots[l].onHand - Bottles(batch[c].rows, Sold(c, l))

InHand == {c \in Clerks : batch[c] # NoBatch}

\* recordRemoval holds the lot's row, and the sequence of removal numbers, until
\* its transaction ends.
Locked(l) == \E c \in InHand : Sold(c, l) # {}

Numbering(c) == batch[c].rows # << >>

\* The row of a sale a batch has inserted or updated.
Touched(c, s) == s \in batch[c].fresh \cup batch[c].rejected \cup Posted(c)

\* OldestPackagedLotForProduct.  A lot on hold is not passed over.
Candidates(c, p) == {l \in Lots : ProductOf[l] = p /\ OnHand(c, l) > 0}

\* The one to post next: they are taken oldest first.
Foremost(c) == Min(batch[c].todo)

Starting(S, fresh) ==
  [todo |-> S, fresh |-> fresh, lot |-> NoLot, rows |-> << >>, rejected |-> {}]

\* Insert, without the unique constraint.
InsertAgain(S) == [s \in Sales |-> IF s \in S THEN "pending" ELSE sales[s]]

\* InsertPOSSale: a line that was seen before is left alone.
Insert(S) == [s \in Sales |-> IF s \in S /\ sales[s] = "unseen" THEN "pending"
                              ELSE sales[s]]

\* ListPendingPOSSales.
Pending == {s \in Sales : sales[s] = "pending"}

\* Careful: the sales are posted from one screen at a time.
NobodyPosts == \A c \in InHand : batch[c].fresh # {}

\* Careful: the screen offers to ignore only what is not posted, and nobody is
\* posting it meanwhile.
NotBeingPosted(s) ==
  /\ sales[s] \in {"pending", "rejected"}
  /\ NobodyPosts

-----------------------------------------------------------------------------
(* Deliveries *)

\* An insert waits for an uncommitted row of the same line.
IngestPOSSales(c, S) ==
  /\ batch[c] = NoBatch
  /\ S # {}
  /\ \A d \in InHand : S \cap batch[d].fresh = {}
  /\ \/ /\ sales' = Insert(S)
        /\ UNCHANGED batch
     \/ LET fresh == {s \in S : sales[s] = "unseen"}
        IN  /\ fresh # {}
            /\ batch' = [batch EXCEPT ![c] = Starting(fresh, fresh)]
            /\ UNCHANGED sales
  /\ UNCHANGED <<map, lots, removals, faults>>

\* Of all the pending sales, or of those the operator names.
PostPOSSales(c, wanted) ==
  /\ batch[c] = NoBatch
  /\ Careful => NobodyPosts
  /\ Pending \cap wanted # {}
  /\ batch' = [batch EXCEPT ![c] = Starting(Pending \cap wanted, {})]
  /\ UNCHANGED <<sales, map, lots, removals, faults>>

Rejecting(c, s) ==
  [batch[c] EXCEPT !.todo = @ \ {s}, !.lot = NoLot, !.rejected = @ \cup {s}]

Posting(c, s, l) ==
  [batch[c] EXCEPT !.todo = @ \ {s}, !.lot = NoLot,
     !.rows = Append(@, [sale |-> s, lot |-> l, bottles |-> Quantity[s], voided |-> FALSE])]

\* An update of a sale waits for a batch that touched it.
MayTouch(c, s) == \A d \in InHand \ {c} : ~Touched(d, s)

\* LookupPOSProduct and OldestPackagedLotForProduct.
Choose(c) ==
  /\ batch[c] # NoBatch
  /\ batch[c].todo # {}
  /\ batch[c].lot = NoLot
  /\ LET s == Foremost(c)
         p == map[SkuOf[s]]
     IN  IF Candidates(c, p) # {}
         THEN batch' = [batch EXCEPT ![c].lot = Min(Candidates(c, p))]
         ELSE /\ MayTouch(c, s)
              /\ batch' = [batch EXCEPT ![c] = Rejecting(c, s)]
  /\ UNCHANGED <<sales, map, lots, removals, faults>>

\* Enough, taking the choice of the lot for the check.
EnoughWhenChosen(c, l, n) == TRUE

\* BottlesOnHand, as it is under the lock.
Enough(c, l, n) == OnHand(c, l) >= n

\* The locks of the row and of the numbers can be had.
LocksFree(c, l) == \A d \in InHand \ {c} : Sold(d, l) = {} /\ ~Numbering(d)

\* recordRemoval and MarkPOSSalePosted.
RecordRemoval(c) ==
  /\ batch[c] # NoBatch
  /\ batch[c].lot # NoLot
  /\ LET s == Foremost(c)
         l == batch[c].lot
     IN  /\ MayTouch(c, s)
         /\ s \notin LateSales => LocksFree(c, l)
         /\ batch' = [batch EXCEPT ![c] =
              IF s \notin LateSales /\ Enough(c, l, Quantity[s]) /\ ~lots[l].held
              THEN Posting(c, s, l) ELSE Rejecting(c, s)]
  /\ UNCHANGED <<sales, map, lots, removals, faults>>

\* Marked, one of its two updates left out.
NotMarkedPosted(c, s)   == IF s \in batch[c].rejected THEN "rejected" ELSE "pending"
NotMarkedRejected(c, s) == IF s \in batch[c].rejected THEN "pending" ELSE "posted"

\* MarkPOSSalePosted and MarkPOSSaleRejected.
Marked(c, s) == IF s \in batch[c].rejected THEN "rejected" ELSE "posted"

Commit(c) ==
  /\ batch[c] # NoBatch
  /\ batch[c].todo = {}
  /\ Len(removals) + Len(batch[c].rows) <= MaxRemovals
  /\ sales' = [s \in Sales |-> IF s \in batch[c].rejected \cup Posted(c)
                               THEN Marked(c, s) ELSE sales[s]]
  /\ lots' = [l \in Lots |-> [lots[l] EXCEPT !.onHand = OnHand(c, l)]]
  /\ removals' = removals \o batch[c].rows
  /\ batch' = [batch EXCEPT ![c] = NoBatch]
  /\ UNCHANGED <<map, faults>>

\* A failed query, a deadlock, a lost connection or a crash.
RollBack(c) ==
  /\ batch[c] # NoBatch
  /\ faults < MaxFaults
  /\ batch' = [batch EXCEPT ![c] = NoBatch]
  /\ faults' = faults + 1
  /\ UNCHANGED <<sales, map, lots, removals>>

-----------------------------------------------------------------------------
(* Operators *)

IgnorePOSSale(s) ==
  /\ sales[s] # "unseen"
  /\ \A c \in InHand : ~Touched(c, s)
  /\ Careful => NotBeingPosted(s)
  /\ sales' = [sales EXCEPT ![s] = "ignored"]
  /\ UNCHANGED <<map, lots, removals, batch, faults>>

SavePOSProductMapping(k, p) ==
  /\ map' = [map EXCEPT ![k] = p]
  /\ UNCHANGED <<sales, lots, removals, batch, faults>>

DeletePOSProductMapping(k) ==
  /\ map[k] # NoProduct
  /\ map' = [map EXCEPT ![k] = NoProduct]
  /\ UNCHANGED <<sales, lots, removals, batch, faults>>

\* HoldPackagedLot and its release.
SetHold(l) ==
  /\ ~Locked(l)
  /\ lots' = [lots EXCEPT ![l].held = ~@]
  /\ UNCHANGED <<sales, map, removals, batch, faults>>

\* The bottles go back to their lot; the sale stays as it is.
VoidRemoval(r) ==
  /\ ~removals[r].voided
  /\ ~Locked(removals[r].lot)
  /\ removals' = [removals EXCEPT ![r].voided = TRUE]
  /\ lots' = [lots EXCEPT ![removals[r].lot].onHand = @ + removals[r].bottles]
  /\ UNCHANGED <<sales, map, batch, faults>>

-----------------------------------------------------------------------------
Init ==
  /\ sales = [s \in Sales |-> "unseen"]
  /\ map \in [Skus -> Products \cup {NoProduct}]
  /\ lots = [l \in Lots |-> [onHand |-> Filled[l], held |-> FALSE]]
  /\ removals = << >>
  /\ batch = [c \in Clerks |-> NoBatch]
  /\ faults = 0

Next ==
  \/ \E c \in Clerks :
       \/ \E S \in SUBSET Sales : IngestPOSSales(c, S) \/ PostPOSSales(c, S)
       \/ Choose(c) \/ RecordRemoval(c) \/ Commit(c) \/ RollBack(c)
  \/ \E s \in Sales : IgnorePOSSale(s)
  \/ \E k \in Skus : \/ \E p \in Products : SavePOSProductMapping(k, p)
                     \/ DeletePOSProductMapping(k)
  \/ \E l \in Lots : SetHold(l)
  \/ \E r \in DOMAIN removals : VoidRemoval(r)

Safety == Init /\ [][Next]_vars

\* A transaction goes on by itself, and an operator posts what is pending.
Fairness ==
  \A c \in Clerks : /\ WF_vars(Choose(c) \/ RecordRemoval(c) \/ Commit(c))
                    /\ SF_vars(PostPOSSales(c, Sales))

Spec == Safety /\ Fairness

-----------------------------------------------------------------------------
(* Properties *)

Removals(s) == {r \in DOMAIN removals : removals[r].sale = s}

\* "A retry that created a second removal would report duty twice and take stock
\* off the shelf that is still on it" (pos.go): however often a line is delivered,
\* and a lost batch begun again, one sale is removed once, though deliveries that
\* post what they bring run beside the one screen that posts.  (Two screens at a
\* time remove a sale twice.)
SoldOnce == \A s \in Sales : Cardinality(Removals(s)) <= 1

\* The gap between what the till took and what reached the return is always
\* explained: a sale was removed exactly when it is shown as posted.
TakingsExplained == \A s \in Sales : sales[s] = "posted" <=> Removals(s) # {}

\* No bottle is sold that was not there, and none leaves but by a removal that
\* stands, though each batch chose its lot from stock it had not locked.
StockAgrees ==
  \A l \in Lots :
    /\ lots[l].onHand >= 0
    /\ lots[l].onHand =
         Filled[l] - Bottles(removals, {r \in DOMAIN removals :
                                          removals[r].lot = l /\ ~removals[r].voided})

\* No sale is left pending for ever: one that cannot be posted is rejected.
EventuallyDecided == \A s \in Sales : sales[s] = "pending" ~> sales[s] # "pending"

\* "Mapping the SKU and posting again must work" (pos_test.go): a rejected sale
\* whose product has come to be known, in stock and free to go, is posted.
RejectedIsPosted ==
  \A s \in Sales :
    LET Sellable == \E l \in Lots : /\ ProductOf[l] = map[SkuOf[s]]
                                    /\ lots[l].onHand >= Quantity[s]
                                    /\ ~lots[l].held
    IN  (sales[s] = "rejected" /\ []Sellable) ~> sales[s] # "rejected"

=============================================================================
