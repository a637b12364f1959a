-------------------------- MODULE Packaging_proofs --------------------------
(***************************************************************************)
(* Theorems of Packaging, for any lots, orders, tanks, callers and         *)
(* quantities: its types; that its counters are what the runs and the      *)
(* documents that stand add up to; and, where operators keep the rules     *)
(* named, that no serial is on the bottles of two runs that stand and no   *)
(* bottle is dutied twice or never.                                        *)
(***************************************************************************)
EXTENDS Packaging, Sums

Order == [received : Nat, applied : Nat, voided : Nat, start : Nat \cup {Unnumbered}]
Lot   == [run : Int, onHand : Nat, packaged : Nat, removed : Nat, held : BOOLEAN]

OrdersOK == orders \in [Orders -> Order] /\ \A o \in Orders : Available(o) >= 0
RunsOK   == runs \in Seq(Run)
LotsOK   == /\ lots \in [Lots -> Lot]
            /\ \A l \in Lots : lots[l].run \in {NotStored, NoRun} \cup DOMAIN runs
DocsOK   == docs \in Seq(Doc)
HandOK   == /\ dutyPoint \in {"at_packaging", "at_removal"}
            /\ bottling \in [Callers -> Plan \cup {Idle}]

LEMMA TypeParts == PackagingTypeOK <=> OrdersOK /\ RunsOK /\ LotsOK /\ DocsOK /\ HandOK
BY DEF PackagingTypeOK, OrdersOK, RunsOK, LotsOK, DocsOK, HandOK, Order, Lot

LEMMA TypePartsNext ==
  ASSUME OrdersOK', RunsOK', LotsOK', DocsOK', HandOK'
  PROVE  PackagingTypeOK'
BY DEF PackagingTypeOK, OrdersOK, RunsOK, LotsOK, DocsOK, HandOK, Order, Lot, Available

-----------------------------------------------------------------------------
(* What the building blocks of the actions preserve. *)

LEMMA Amounts ==
  \A n \in Quantities \cup Batches \cup Losses \cup RollSizes : n \in Nat /\ n > 0
<1> TAKE n \in Quantities \cup Batches \cup Losses \cup RollSizes
<1>1. n \in Nat \ {0}
  BY PackagingAssumption, Zenon DEF PackagingAssumption
<1> QED BY <1>1

LEMMA FileTyped ==
  ASSUME DocsOK, NEW kind \in Kinds, NEW l \in Lots, NEW n \in Int,
         NEW dutied \in BOOLEAN, File(kind, l, n, dutied)
  PROVE  DocsOK'
<1> DEFINE d == [kind |-> kind, lot |-> l, bottles |-> n, dutied |-> dutied, voided |-> FALSE]
<1>1. d \in Doc
  BY DEF Doc
<1>2. docs' = Append(docs, d)
  BY DEF File
<1> HIDE DEF d
<1> QED BY <1>1, <1>2 DEF DocsOK

LEMMA StrikeTyped ==
  ASSUME DocsOK, NEW d \in DOMAIN docs, Strike(d)
  PROVE  DocsOK'
<1> DEFINE e == [docs[d] EXCEPT !.voided = TRUE]
<1>1. docs[d] \in Doc
  BY DEF DocsOK
<1>2. e \in Doc
  BY <1>1 DEF Doc
<1>3. docs' = [docs EXCEPT ![d] = e]
  BY DEF Strike
<1> HIDE DEF e
<1> QED BY <1>2, <1>3 DEF DocsOK

\* The row of one lot changes, and keeps its run or takes one that is there.
LEMMA LotTyped ==
  ASSUME LotsOK, NEW l \in Lots, NEW row \in Lot, lots' = [lots EXCEPT ![l] = row],
         DOMAIN runs \subseteq (DOMAIN runs)',
         row.run \in {NotStored, NoRun} \cup (DOMAIN runs)'
  PROVE  LotsOK'
BY DEF LotsOK

\* Counters put into a row.
LEMMA RowCounts ==
  ASSUME NEW row \in Lot, NEW a \in Nat, NEW b \in Nat
  PROVE  /\ [row EXCEPT !.onHand = a, !.removed = b] \in Lot
         /\ [row EXCEPT !.onHand = a, !.removed = b].run = row.run
         /\ [row EXCEPT !.onHand = a, !.packaged = b] \in Lot
         /\ [row EXCEPT !.onHand = a, !.packaged = b].run = row.run
BY DEF Lot

LEMMA RowOf ==
  ASSUME LotsOK, NEW l \in Lots
  PROVE  /\ lots[l] \in Lot
         /\ lots[l].run \in Int /\ lots[l].onHand \in Nat
         /\ lots[l].packaged \in Nat /\ lots[l].removed \in Nat
         /\ lots[l].run \in {NotStored, NoRun} \cup DOMAIN runs
         /\ lots \in [Lots -> Lot]
BY DEF LotsOK, Lot

LEMMA TakeOutTyped ==
  ASSUME LotsOK, NEW l \in Lots, NEW n \in Int, TakeOut(l, n), UNCHANGED runs
  PROVE  LotsOK'
<1> DEFINE a == lots[l].onHand - n
           b == lots[l].removed + n
           row == [lots[l] EXCEPT !.onHand = a, !.removed = b]
<1>1. a \in Nat /\ b \in Nat
  BY RowOf DEF TakeOut
<1>2. lots' = [lots EXCEPT ![l] = row]
  BY RowOf DEF TakeOut
<1> HIDE DEF a, b
<1>3. lots[l] \in Lot /\ lots[l].run \in {NotStored, NoRun} \cup DOMAIN runs
  BY RowOf
<1>4. row \in Lot /\ row.run = lots[l].run
  BY <1>1, <1>3, RowCounts, Zenon
<1> HIDE DEF row
<1> QED BY <1>2, <1>3, <1>4, LotTyped

LEMMA RestockTyped ==
  ASSUME LotsOK, NEW l \in Lots, NEW n \in Int, Restock(l, n), UNCHANGED runs
  PROVE  LotsOK'
<1> DEFINE a == lots[l].onHand + n
           b == IF lots[l].removed > n THEN lots[l].removed - n ELSE 0
           row == [lots[l] EXCEPT !.onHand = a, !.removed = b]
<1>1. a \in Nat /\ b \in Nat
  BY RowOf DEF Restock
<1>2. lots' = [lots EXCEPT ![l] = row]
  BY RowOf DEF Restock
<1> HIDE DEF a, b
<1>3. lots[l] \in Lot /\ lots[l].run \in {NotStored, NoRun} \cup DOMAIN runs
  BY RowOf
<1>4. row \in Lot /\ row.run = lots[l].run
  BY <1>1, <1>3, RowCounts, Zenon
<1> HIDE DEF row
<1> QED BY <1>2, <1>3, <1>4, LotTyped

-----------------------------------------------------------------------------
(* The type invariant, one lemma for each action that does more than the     *)
(* building blocks.                                                          *)

LEMMA ReceiveTyped ==
  ASSUME PackagingTypeOK, NEW o \in Orders, NEW n \in RollSizes, NEW start \in Starts,
         ReceiveStampOrder(o, n, start)
  PROVE  PackagingTypeOK'
<1>1. n \in Nat
  BY Amounts
<1>2. start \in Nat \cup {Unnumbered}
  BY PackagingAssumption, Zenon DEF PackagingAssumption
<1>3. /\ orders[o].applied + orders[o].voided <= n
      /\ orders' = [orders EXCEPT ![o].received = n, ![o].start = start]
  BY DEF ReceiveStampOrder
<1>4. OrdersOK'
  <2> DEFINE row == [orders[o] EXCEPT !.received = n, !.start = start]
  <2>1. orders \in [Orders -> Order] /\ \A p \in Orders : Available(p) >= 0
    BY TypeParts DEF OrdersOK
  <2>2. /\ row \in Order /\ row.received = n
        /\ row.applied = orders[o].applied /\ row.voided = orders[o].voided
    BY <1>1, <1>2, <2>1 DEF Order
  <2>3. orders' = [orders EXCEPT ![o] = row]
    BY <1>3, <2>1
  <2> HIDE DEF row
  <2>4. orders' \in [Orders -> Order]
    BY <2>1, <2>2, <2>3
  <2>5. \A p \in Orders : p # o => orders'[p] = orders[p]
    BY <2>1, <2>3
  <2>6. orders'[o] = row
    BY <2>1, <2>3
  <2>7. row.received - row.applied - row.voided >= 0
    BY <1>1, <1>3, <2>1, <2>2 DEF Order
  <2> QED BY <2>1, <2>4, <2>5, <2>6, <2>7 DEF OrdersOK, Available
<1>5. (RunsOK /\ LotsOK /\ DocsOK /\ HandOK)'
  BY TypeParts DEF ReceiveStampOrder, RunsOK, LotsOK, DocsOK, HandOK
<1> QED BY <1>4, <1>5, TypePartsNext

LEMMA DispositionTyped ==
  ASSUME PackagingTypeOK, NEW o \in Orders, NEW n \in Losses, RecordStampDisposition(o, n)
  PROVE  PackagingTypeOK'
<1>1. n \in Nat
  BY Amounts
<1>2. OrdersOK'
  BY <1>1, TypeParts DEF RecordStampDisposition, OrdersOK, Order, Available
<1>3. (RunsOK /\ LotsOK /\ DocsOK /\ HandOK)'
  BY TypeParts DEF RecordStampDisposition, RunsOK, LotsOK, DocsOK, HandOK
<1> QED BY <1>2, <1>3, TypePartsNext

\* What a bottling run in hand carries.
LEMMA PlanTyped ==
  ASSUME PackagingTypeOK, NEW c \in Callers, NEW l \in Lots, NEW n \in Batches,
         NEW t \in Tanks, PlanBottlingRun(c, l, n, t)
  PROVE  PackagingTypeOK'
<1>1. n \in Nat
  BY Amounts
<1>2. PICK take \in [Orders -> 0..n] :
        bottling' = [bottling EXCEPT ![c] =
          [lot |-> l, bottles |-> n, tank |-> t,
           use |-> [o \in Orders |-> [first |-> FirstSerial(o), count |-> take[o]]]]]
  BY DEF PlanBottlingRun
<1> DEFINE use == [o \in Orders |-> [first |-> FirstSerial(o), count |-> take[o]]]
<1>3. use \in [Orders -> Serials]
  <2> SUFFICES ASSUME NEW o \in Orders
               PROVE  [first |-> FirstSerial(o), count |-> take[o]] \in Serials
    OBVIOUS
  <2>1. FirstSerial(o) \in Nat \cup {Unnumbered}
    BY TypeParts DEF FirstSerial, OrdersOK, Order, Unnumbered
  <2>2. take[o] \in Nat
    BY <1>1
  <2> QED BY <2>1, <2>2 DEF Serials
<1> DEFINE p == [lot |-> l, bottles |-> n, tank |-> t, use |-> use]
<1>4. p \in Plan
  BY <1>1, <1>3 DEF Plan
<1>5. bottling' = [bottling EXCEPT ![c] = p]
  BY <1>2
<1> HIDE DEF p
<1>6. HandOK'
  BY <1>4, <1>5, TypeParts DEF HandOK, PlanBottlingRun
<1>7. (OrdersOK /\ RunsOK /\ LotsOK /\ DocsOK)'
  BY TypeParts DEF PlanBottlingRun, OrdersOK, RunsOK, LotsOK, DocsOK, Available
<1> QED BY <1>6, <1>7, TypePartsNext

\* A bottling run in hand is a plan.
LEMMA InHand ==
  ASSUME PackagingTypeOK, NEW c \in Callers, bottling[c] # Idle
  PROVE  bottling[c] \in Plan
BY TypeParts DEF HandOK

\* The run a commit writes.
LEMMA CommitRun ==
  ASSUME PackagingTypeOK, NEW c \in Callers, CommitBottlingRun(c)
  PROVE  \E run \in Run :
           /\ runs' = Append(runs, run)
           /\ run.lot = bottling[c].lot /\ run.use = bottling[c].use
           /\ run.bottles = bottling[c].bottles /\ ~run.voided
           /\ "apart" \in Careful => ApartFromAdopted(bottling[c].lot, run.dutied)
<1>1. bottling[c] \in Plan
  BY InHand DEF CommitBottlingRun
<1>2. PICK dutied \in BOOLEAN :
        /\ "apart" \in Careful => ApartFromAdopted(bottling[c].lot, dutied)
        /\ runs' = Append(runs, [lot |-> bottling[c].lot, bottles |-> bottling[c].bottles,
                                 tank |-> bottling[c].tank, use |-> bottling[c].use,
                                 dutied |-> dutied, voided |-> FALSE])
  BY DEF CommitBottlingRun
<1> DEFINE run == [lot |-> bottling[c].lot, bottles |-> bottling[c].bottles,
                   tank |-> bottling[c].tank, use |-> bottling[c].use,
                   dutied |-> dutied, voided |-> FALSE]
<1>3. run \in Run
  BY <1>1 DEF Plan, Run
<1> QED BY <1>2, <1>3

LEMMA CommitTyped ==
  ASSUME PackagingTypeOK, NEW c \in Callers, CommitBottlingRun(c)
  PROVE  PackagingTypeOK'
<1>1. bottling[c] \in Plan
  BY InHand DEF CommitBottlingRun
<1>2. PICK run \in Run : runs' = Append(runs, run)
  BY CommitRun
<1>3. RunsOK' /\ DOMAIN runs' = DOMAIN runs \cup {Len(runs) + 1} /\ Len(runs) \in Nat
  BY <1>2, TypeParts DEF RunsOK
<1>4. \A o \in Orders : bottling[c].use[o].count \in Nat
  BY <1>1 DEF Plan, Serials
<1>5. OrdersOK'
  <2>1. /\ \A o \in Orders : bottling[c].use[o].count <= Available(o)
        /\ orders' = [o \in Orders |->
                        [orders[o] EXCEPT !.applied = @ + bottling[c].use[o].count]]
    BY DEF CommitBottlingRun, ApplyStamps
  <2> QED BY <1>4, <2>1, TypeParts DEF OrdersOK, Order, Available
<1>6. LotsOK'
  <2> DEFINE l == bottling[c].lot
             n == bottling[c].bottles
             k == IF lots[l].run = NotStored THEN Len(runs) + 1 ELSE lots[l].run
             a == lots[l].onHand + n
             b == lots[l].packaged + n
             row == [lots[l] EXCEPT !.run = k, !.onHand = a, !.packaged = b]
  <2>1. l \in Lots /\ n \in Nat
    BY <1>1 DEF Plan
  <2>2. LotsOK
    BY TypeParts
  <2>3. lots' = [lots EXCEPT ![l] = row]
    BY <2>1, <2>2, RowOf DEF CommitBottlingRun, FillLot
  <2>4. /\ lots[l] \in Lot /\ lots[l].run \in Int
        /\ lots[l].run \in {NotStored, NoRun} \cup DOMAIN runs
        /\ a \in Nat /\ b \in Nat
    BY <2>1, <2>2, RowOf
  <2>5. k \in Int /\ k \in {NotStored, NoRun} \cup DOMAIN runs'
    BY <1>3, <2>4
  <2>6. lots[l] \in Lot /\ k \in Int /\ a \in Nat /\ b \in Nat
    BY <2>4, <2>5
  <2> HIDE DEF a, b, k, n, l
  <2>7. row \in Lot /\ row.run = k
    BY <2>6 DEF Lot
  <2> HIDE DEF row
  <2> QED BY <1>3, <2>1, <2>2, <2>3, <2>5, <2>7, LotTyped
<1>7. (DocsOK /\ HandOK)'
  BY TypeParts DEF CommitBottlingRun, DocsOK, HandOK
<1> QED BY <1>3, <1>5, <1>6, <1>7, TypePartsNext

\* A void changes one run, and that only in its flag.
LEMMA VoidedRun ==
  ASSUME PackagingTypeOK, NEW r \in DOMAIN runs, VoidBottlingRun(r)
  PROVE  /\ runs[r] \in Run
         /\ runs' \in Seq(Run) /\ Len(runs') = Len(runs)
         /\ \A q \in DOMAIN runs :
              /\ runs'[q].lot = runs[q].lot /\ runs'[q].use = runs[q].use
              /\ runs'[q].dutied = runs[q].dutied /\ runs'[q].bottles = runs[q].bottles
              /\ runs'[q].voided = (q = r \/ runs[q].voided)
<1> DEFINE e == [runs[r] EXCEPT !.voided = TRUE]
<1>1. runs \in Seq(Run) /\ runs[r] \in Run
  BY TypeParts DEF RunsOK
<1>2. /\ e \in Run
      /\ e.lot = runs[r].lot /\ e.use = runs[r].use /\ e.dutied = runs[r].dutied
      /\ e.bottles = runs[r].bottles
      /\ e.voided = TRUE
  BY <1>1 DEF Run
<1>3. runs' = [runs EXCEPT ![r] = e]
  BY DEF VoidBottlingRun
<1> HIDE DEF e
<1>4. \A q \in DOMAIN runs : runs[q] \in Run
  BY <1>1
<1> QED BY <1>1, <1>2, <1>3, <1>4 DEF Run

LEMMA VoidTyped ==
  ASSUME PackagingTypeOK, NEW r \in DOMAIN runs, VoidBottlingRun(r)
  PROVE  PackagingTypeOK'
<1>1. /\ runs[r] \in Run /\ runs' \in Seq(Run) /\ Len(runs') = Len(runs)
  BY VoidedRun
<1>2. DOMAIN runs' = DOMAIN runs
  BY <1>1, TypeParts DEF RunsOK
<1>3. \A o \in Orders : runs[r].use[o].count \in Nat
  BY <1>1 DEF Run, Serials
<1>4. OrdersOK'
  <2>1. /\ \A o \in Orders : runs[r].use[o].count <= orders[o].applied
        /\ orders' = [o \in Orders |->
                        [orders[o] EXCEPT !.applied = @ - runs[r].use[o].count]]
    BY DEF VoidBottlingRun
  <2> QED BY <1>3, <2>1, TypeParts DEF OrdersOK, Order, Available
<1>5. LotsOK'
  <2> DEFINE l == runs[r].lot
             n == runs[r].bottles
             a == lots[l].onHand - n
             b == lots[l].packaged - n
             row == [lots[l] EXCEPT !.onHand = a, !.packaged = b]
  <2>1. l \in Lots /\ n \in Nat
    BY <1>1 DEF Run
  <2>2. LotsOK
    BY TypeParts
  <2>3. lots' = [lots EXCEPT ![l] = row]
    BY <2>1, <2>2, RowOf DEF VoidBottlingRun
  <2>4. n <= lots[l].onHand /\ n <= lots[l].packaged
    BY DEF VoidBottlingRun
  <2>5. a \in Nat /\ b \in Nat
    BY <2>1, <2>2, <2>4, RowOf
  <2>6. lots[l] \in Lot /\ lots[l].run \in {NotStored, NoRun} \cup DOMAIN runs
    BY <2>1, <2>2, RowOf
  <2> HIDE DEF a, b, n
  <2>7. row \in Lot /\ row.run = lots[l].run
    BY <2>5, <2>6, RowCounts, Zenon
  <2> HIDE DEF row, l
  <2> QED BY <1>2, <2>1, <2>2, <2>3, <2>6, <2>7, LotTyped
<1>6. (DocsOK /\ HandOK)'
  BY TypeParts DEF VoidBottlingRun, DocsOK, HandOK
<1>7. RunsOK'
  BY <1>1 DEF RunsOK
<1> QED BY <1>4, <1>5, <1>6, <1>7, TypePartsNext

\* The steps about bottles leave the orders, the runs and the hands alone.
Aside == UNCHANGED <<orders, runs, dutyPoint, bottling>>

LEMMA BottlesTyped ==
  ASSUME PackagingTypeOK, Aside, LotsOK', DocsOK'
  PROVE  PackagingTypeOK'
<1>1. (OrdersOK /\ RunsOK /\ HandOK)'
  BY TypeParts DEF Aside, OrdersOK, RunsOK, HandOK, Available
<1> QED BY <1>1, TypePartsNext

LEMMA DutyFlag == \A l \in Lots : PackagingTypeOK => DutiedAtPackaging(l) \in BOOLEAN
<1> SUFFICES ASSUME NEW l \in Lots, PackagingTypeOK PROVE DutiedAtPackaging(l) \in BOOLEAN
  OBVIOUS
<1>1. CASE lots[l].run > 0
  <2>1. lots[l].run \in DOMAIN runs
    BY <1>1, TypeParts, RowOf DEF NotStored, NoRun
  <2>2. runs[lots[l].run] \in Run
    BY <2>1, TypeParts DEF RunsOK
  <2> QED BY <2>2 DEF DutiedAtPackaging, Run
<1>2. CASE ~(lots[l].run > 0)
  BY <1>2 DEF DutiedAtPackaging
<1> QED BY <1>1, <1>2

LEMMA OutwardTyped ==
  ASSUME PackagingTypeOK, NEW l \in Lots, NEW n \in Quantities,
         CreateRemoval(l, n) \/ UnpackageToBulk(l, n)
  PROVE  PackagingTypeOK'
<1>1. n \in Int
  BY Amounts
<1>2. TakeOut(l, n) /\ Aside
  BY DEF CreateRemoval, UnpackageToBulk, Aside
<1>3. LotsOK'
  BY <1>1, <1>2, TypeParts, TakeOutTyped DEF Aside
<1>4. PICK kind \in Kinds, dutied \in BOOLEAN : File(kind, l, n, dutied)
  <2>1. "removal" \in Kinds /\ "unpackaged" \in Kinds /\ (~DutiedAtPackaging(l)) \in BOOLEAN
    BY DutyFlag DEF Kinds, Outward
  <2> QED BY <2>1 DEF CreateRemoval, UnpackageToBulk
<1>5. DocsOK'
  BY <1>1, <1>4, TypeParts, FileTyped
<1> QED BY <1>2, <1>3, <1>5, BottlesTyped

LEMMA DocOf ==
  ASSUME PackagingTypeOK, NEW d \in DOMAIN docs
  PROVE  docs[d].lot \in Lots /\ docs[d].bottles \in Int /\ docs[d].dutied \in BOOLEAN
<1>1. docs[d] \in Doc
  BY TypeParts DEF DocsOK
<1> QED BY <1>1 DEF Doc

LEMMA VoidRemovalTyped ==
  ASSUME PackagingTypeOK, NEW d \in DOMAIN docs, VoidRemoval(d)
  PROVE  PackagingTypeOK'
<1>1. DocsOK'
  BY TypeParts, StrikeTyped DEF VoidRemoval
<1>2. TakeOut(docs[d].lot, -docs[d].bottles) /\ Aside
  BY DEF VoidRemoval, Aside
<1>3. docs[d].lot \in Lots /\ -docs[d].bottles \in Int
  BY DocOf
<1>4. LotsOK'
  BY <1>2, <1>3, TypeParts, TakeOutTyped DEF Aside
<1> QED BY <1>1, <1>2, <1>4, BottlesTyped

LEMMA LotsUntouched ==
  ASSUME PackagingTypeOK, Aside, UNCHANGED lots
  PROVE  LotsOK'
BY TypeParts DEF Aside, LotsOK

LEMMA ReturnTyped ==
  ASSUME PackagingTypeOK, NEW l \in Lots, NEW n \in Quantities, NEW condition \in Returns,
         RecordPackagedReturn(l, n, condition)
  PROVE  PackagingTypeOK'
<1>1. n \in Int
  BY Amounts
<1>2. Aside
  BY DEF RecordPackagedReturn, Aside
<1>3. DocsOK'
  BY <1>1, TypeParts, FileTyped DEF RecordPackagedReturn, Kinds
<1>4. LotsOK'
  <2>1. Restock(l, n) \/ UNCHANGED lots
    BY DEF RecordPackagedReturn
  <2>2. CASE Restock(l, n)
    BY <1>1, <1>2, <2>2, TypeParts, RestockTyped DEF Aside
  <2>3. CASE UNCHANGED lots
    BY <1>2, <2>3, LotsUntouched
  <2> QED BY <2>1, <2>2, <2>3
<1> QED BY <1>2, <1>3, <1>4, BottlesTyped

LEMMA VoidReturnTyped ==
  ASSUME PackagingTypeOK, NEW d \in DOMAIN docs, VoidPackagedReturn(d)
  PROVE  PackagingTypeOK'
<1>1. Aside
  BY DEF VoidPackagedReturn, Aside
<1>2. DocsOK'
  BY TypeParts, StrikeTyped DEF VoidPackagedReturn
<1>3. docs[d].lot \in Lots /\ -docs[d].bottles \in Int
  BY DocOf
<1>4. LotsOK'
  <2>1. Restock(docs[d].lot, -docs[d].bottles) \/ UNCHANGED lots
    BY DEF VoidPackagedReturn
  <2>2. CASE Restock(docs[d].lot, -docs[d].bottles)
    BY <1>1, <1>3, <2>2, TypeParts, RestockTyped DEF Aside
  <2>3. CASE UNCHANGED lots
    BY <1>1, <2>3, LotsUntouched
  <2> QED BY <2>1, <2>2, <2>3
<1> QED BY <1>1, <1>2, <1>4, BottlesTyped

LEMMA CountTyped ==
  ASSUME PackagingTypeOK, NEW l \in Lots, NEW n \in Quantities \cup {0}, PostStockCount(l, n)
  PROVE  PackagingTypeOK'
<1>1. n \in Nat
  BY Amounts
<1>2. /\ lots[l] \in Lot /\ lots[l].onHand \in Nat
      /\ lots[l].run \in {NotStored, NoRun} \cup DOMAIN runs
  BY TypeParts, RowOf
<1>3. DocsOK'
  <2>1. "count" \in Kinds /\ n - lots[l].onHand \in Int
    BY <1>1, <1>2 DEF Kinds
  <2>2. File("count", l, n - lots[l].onHand, FALSE)
    BY DEF PostStockCount
  <2> QED BY <2>1, <2>2, TypeParts, FileTyped
<1>4. LotsOK'
  <2> DEFINE row == [lots[l] EXCEPT !.onHand = n]
  <2>1. row \in Lot /\ row.run = lots[l].run
    BY <1>1, <1>2 DEF Lot
  <2>2. lots' = [lots EXCEPT ![l] = row]
    BY TypeParts, RowOf DEF PostStockCount
  <2> HIDE DEF row
  <2> QED BY <1>2, <2>1, <2>2, TypeParts, LotTyped DEF PostStockCount
<1>5. Aside
  BY DEF PostStockCount, Aside
<1> QED BY <1>3, <1>4, <1>5, BottlesTyped

LEMMA AdoptTyped ==
  ASSUME PackagingTypeOK, NEW l \in Lots, NEW n \in Quantities \cup {0}, AdoptPackaged(l, n)
  PROVE  PackagingTypeOK'
<1>1. n \in Nat
  BY Amounts
<1>2. lots[l] \in Lot
  BY TypeParts, RowOf
<1>3. DocsOK'
  <2>1. "adopted" \in Kinds /\ n \in Int
    BY <1>1 DEF Kinds
  <2>2. File("adopted", l, n, FALSE)
    BY DEF AdoptPackaged
  <2> QED BY <2>1, <2>2, TypeParts, FileTyped
<1>4. LotsOK'
  <2> DEFINE row == [lots[l] EXCEPT !.run = NoRun, !.onHand = n, !.packaged = n]
  <2>1. row \in Lot /\ row.run = NoRun
    <3>1. NoRun \in Int
      BY DEF NoRun
    <3> QED BY <1>1, <1>2, <3>1 DEF Lot
  <2>2. lots' = [lots EXCEPT ![l] = row]
    BY TypeParts, RowOf DEF AdoptPackaged
  <2> HIDE DEF row
  <2> QED BY <2>1, <2>2, TypeParts, LotTyped DEF AdoptPackaged
<1>5. Aside
  BY DEF AdoptPackaged, Aside
<1> QED BY <1>3, <1>4, <1>5, BottlesTyped

LEMMA HoldTyped ==
  ASSUME PackagingTypeOK, NEW l \in Lots, NEW held \in BOOLEAN, SetHold(l, held)
  PROVE  PackagingTypeOK'
<1>1. lots[l] \in Lot /\ lots[l].run \in {NotStored, NoRun} \cup DOMAIN runs
  BY TypeParts, RowOf
<1>2. LotsOK'
  <2> DEFINE row == [lots[l] EXCEPT !.held = held]
  <2>1. row \in Lot /\ row.run = lots[l].run
    BY <1>1 DEF Lot
  <2>2. lots' = [lots EXCEPT ![l] = row]
    BY TypeParts, RowOf DEF SetHold
  <2> HIDE DEF row
  <2> QED BY <1>1, <2>1, <2>2, TypeParts, LotTyped DEF SetHold
<1>3. DocsOK' /\ Aside
  BY TypeParts DEF SetHold, Aside, DocsOK
<1> QED BY <1>2, <1>3, BottlesTyped

LEMMA InitTyped == PackagingInit => PackagingTypeOK
<1> SUFFICES ASSUME PackagingInit PROVE PackagingTypeOK
  OBVIOUS
<1>1. OrdersOK
  BY DEF PackagingInit, OrdersOK, Order, Available
<1>2. RunsOK /\ DocsOK
  BY DEF PackagingInit, RunsOK, DocsOK
<1>3. LotsOK
  BY DEF PackagingInit, LotsOK, Lot, NotStored
<1>4. HandOK
  BY DEF PackagingInit, HandOK
<1> QED BY <1>1, <1>2, <1>3, <1>4, TypeParts

LEMMA StepTyped ==
  ASSUME PackagingTypeOK, [PackagingNext]_packagingVars
  PROVE  PackagingTypeOK'
<1>1. CASE \E o \in Orders, n \in RollSizes, start \in Starts : ReceiveStampOrder(o, n, start)
  BY <1>1, ReceiveTyped
<1>2. CASE \E o \in Orders, n \in Losses : RecordStampDisposition(o, n)
  BY <1>2, DispositionTyped
<1>3. CASE \E c \in Callers, l \in Lots, n \in Batches, t \in Tanks : PlanBottlingRun(c, l, n, t)
  BY <1>3, PlanTyped
<1>4. CASE \E c \in Callers : CommitBottlingRun(c)
  BY <1>4, CommitTyped
<1>5. CASE \E c \in Callers : AbandonBottlingRun(c)
  <2>1. HandOK'
    BY <1>5, TypeParts DEF AbandonBottlingRun, HandOK
  <2>2. (OrdersOK /\ RunsOK /\ LotsOK /\ DocsOK)'
    BY <1>5, TypeParts DEF AbandonBottlingRun, OrdersOK, RunsOK, LotsOK, DocsOK, Available
  <2> QED BY <2>1, <2>2, TypePartsNext
<1>6. CASE \E r \in DOMAIN runs : VoidBottlingRun(r)
  BY <1>6, VoidTyped
<1>7. CASE ChangeLicence
  <2>1. HandOK'
    BY <1>7, TypeParts DEF ChangeLicence, HandOK
  <2>2. (OrdersOK /\ RunsOK /\ LotsOK /\ DocsOK)'
    BY <1>7, TypeParts DEF ChangeLicence, OrdersOK, RunsOK, LotsOK, DocsOK, Available
  <2> QED BY <2>1, <2>2, TypePartsNext
<1>8. CASE \E l \in Lots, n \in Quantities : CreateRemoval(l, n) \/ UnpackageToBulk(l, n)
  BY <1>8, OutwardTyped
<1>9. CASE \E l \in Lots, n \in Quantities, condition \in Returns : RecordPackagedReturn(l, n, condition)
  BY <1>9, ReturnTyped
<1>10. CASE \E d \in DOMAIN docs : VoidRemoval(d) \/ VoidPackagedReturn(d)
  BY <1>10, VoidRemovalTyped, VoidReturnTyped
<1>11. CASE \E l \in Lots, n \in Quantities \cup {0} : PostStockCount(l, n) \/ AdoptPackaged(l, n)
  BY <1>11, CountTyped, AdoptTyped
<1>12. CASE \E l \in Lots, held \in BOOLEAN : SetHold(l, held)
  BY <1>12, HoldTyped
<1>13. CASE UNCHANGED packagingVars
  BY <1>13 DEF packagingVars, PackagingTypeOK, Available
<1> QED BY <1>1, <1>2, <1>3, <1>4, <1>5, <1>6, <1>7, <1>8, <1>9, <1>10, <1>11, <1>12, <1>13
        DEF PackagingNext

\* Every row keeps its columns' types, the counters stay natural numbers and no order
\* has more stamps applied or lost than were received, whoever does what.
THEOREM PackagingTyped == PackagingSpec => []PackagingTypeOK
<1>1. PackagingInit => PackagingTypeOK
  BY InitTyped
<1>2. PackagingTypeOK /\ [PackagingNext]_packagingVars => PackagingTypeOK'
  BY StepTyped
<1> QED BY <1>1, <1>2, PTL DEF PackagingSpec

-----------------------------------------------------------------------------
(* Serials.  What the runs that stand print lies within the stamps applied   *)
(* of their roll; what is planned starts above it, and one caller at most    *)
(* plans on a roll.                                                          *)

\* The rules, kept opaque.
OneBottler  == "one bottler" \in Careful
NewestFirst == "newest first" \in Careful
SameSerials == "same serials" \in Careful

Takes(r, o)  == runs[r].use[o].count > 0
Prints(r, o) == Numbered(runs[r].use[o])
End(r, o)    == runs[r].use[o].first + runs[r].use[o].count
Uses(c, o)   == bottling[c] # Idle /\ bottling[c].use[o].count > 0

Below == \A r \in Live, o \in Orders : Takes(r, o) =>
  /\ orders[o].received > 0
  /\ runs[r].use[o].first = Unnumbered <=> orders[o].start = Unnumbered
  /\ Prints(r, o) => /\ orders[o].start <= runs[r].use[o].first
                     /\ End(r, o) <= orders[o].start + orders[o].applied
Apart == \A r \in Live, q \in Live, o \in Orders : q # r => ~Overlap(q, r, o)
Fresh == \A c \in Callers, o \in Orders : Uses(c, o) =>
           orders[o].received > 0 /\ bottling[c].use[o].first = FirstSerial(o)
Alone == \A c \in Callers, d \in Callers, o \in Orders :
           Uses(c, o) /\ Uses(d, o) => c = d

Printed == PackagingTypeOK /\ Below /\ Apart /\ Fresh /\ Alone

LEMMA SerialOf ==
  ASSUME PackagingTypeOK
  PROVE  /\ \A r \in DOMAIN runs, o \in Orders :
              runs[r].use[o].first \in Nat \cup {Unnumbered} /\ runs[r].use[o].count \in Nat
         /\ \A c \in Callers, o \in Orders : bottling[c] # Idle =>
              /\ bottling[c].use[o].first \in Nat \cup {Unnumbered}
              /\ bottling[c].use[o].count \in Nat
         /\ \A o \in Orders : /\ orders[o].applied \in Nat /\ orders[o].received \in Nat
                               /\ orders[o].start \in Nat \cup {Unnumbered}
                               /\ orders[o].applied <= orders[o].received
<1>1. \A r \in DOMAIN runs : runs[r] \in Run
  BY TypeParts DEF RunsOK
<1>2. \A c \in Callers : bottling[c] # Idle => bottling[c] \in Plan
  BY InHand
<1>3. \A o \in Orders : /\ orders[o].applied \in Nat /\ orders[o].received \in Nat
                         /\ orders[o].start \in Nat \cup {Unnumbered}
                         /\ orders[o].applied <= orders[o].received
  BY TypeParts DEF OrdersOK, Order, Available
<1> QED BY <1>1, <1>2, <1>3 DEF Run, Plan, Serials

\* Steps that print nothing and plan nothing: a roll that was received keeps its
\* first serial.
LEMMA NothingPrinted ==
  ASSUME Printed, PackagingTypeOK', UNCHANGED <<runs, bottling>>,
         \A o \in Orders :
           /\ orders'[o].applied = orders[o].applied
           /\ orders[o].received > 0 => /\ orders'[o].received > 0
                                        /\ orders'[o].start = orders[o].start
  PROVE  Printed'
<1>1. Below'
  BY DEF Printed, Below, Live, Takes, Prints, End, Numbered
<1>2. Fresh'
  BY DEF Printed, Fresh, Uses, FirstSerial
<1>3. Apart' /\ Alone'
  BY DEF Printed, Apart, Alone, Live, Uses, Overlap
<1> QED BY <1>1, <1>2, <1>3 DEF Printed

LEMMA ReceivePrinted ==
  ASSUME SameSerials, Printed, PackagingTypeOK', NEW o \in Orders, NEW n \in RollSizes,
         NEW start \in Starts, ReceiveStampOrder(o, n, start)
  PROVE  Printed'
<1>1. n \in Nat /\ n > 0
  BY Amounts
<1>2. orders[o].received = 0 \/ start = orders[o].start
  BY DEF ReceiveStampOrder, SameSerials
<1>3. orders' = [orders EXCEPT ![o].received = n, ![o].start = start]
  BY DEF ReceiveStampOrder
<1>4. \A p \in Orders : orders[p] \in Order
  BY TypeParts DEF Printed, OrdersOK
<1>5. orders \in [Orders -> Order]
  BY TypeParts DEF Printed, OrdersOK
<1>6. \A p \in Orders :
        /\ orders'[p].applied = orders[p].applied
        /\ orders[p].received > 0 => /\ orders'[p].received > 0
                                     /\ orders'[p].start = orders[p].start
  BY <1>1, <1>2, <1>3, <1>4, <1>5 DEF Order
<1> QED BY <1>6, NothingPrinted DEF ReceiveStampOrder

LEMMA PlanPrinted ==
  ASSUME OneBottler, Printed, PackagingTypeOK', NEW c \in Callers, NEW l \in Lots,
         NEW n \in Batches, NEW t \in Tanks, PlanBottlingRun(c, l, n, t)
  PROVE  Printed'
<1>1. PICK take \in [Orders -> 0..n] :
        LET use == [o \in Orders |-> [first |-> FirstSerial(o), count |-> take[o]]] IN
        /\ Fifo(l, n, take)
        /\ OneBottlerPerRoll(use)
        /\ bottling' = [bottling EXCEPT ![c] = [lot |-> l, bottles |-> n, tank |-> t,
                                                use |-> use]]
  BY DEF PlanBottlingRun, OneBottler
<1> DEFINE use == [o \in Orders |-> [first |-> FirstSerial(o), count |-> take[o]]]
           p == [lot |-> l, bottles |-> n, tank |-> t, use |-> use]
<1>2. bottling \in [Callers -> Plan \cup {Idle}]
  BY TypeParts DEF Printed, HandOK
<1>3. bottling' = [bottling EXCEPT ![c] = p]
  BY <1>1
<1>4. \A o \in Orders : p.use[o].first = FirstSerial(o) /\ p.use[o].count = take[o]
  OBVIOUS
<1>5. \A o \in Orders, d \in Callers : take[o] > 0 => ~Uses(d, o)
  BY <1>1 DEF OneBottlerPerRoll, Reserved, Uses
<1>6. \A o \in Orders : take[o] > 0 => orders[o].received > 0
  <2> SUFFICES ASSUME NEW o \in Orders, take[o] > 0 PROVE orders[o].received > 0
    OBVIOUS
  <2>1. take[o] <= Available(o) /\ take[o] \in Int
    BY <1>1, Amounts DEF Fifo
  <2>2. /\ orders[o].received \in Nat /\ orders[o].applied \in Nat /\ orders[o].voided \in Nat
    BY TypeParts DEF Printed, OrdersOK, Order
  <2> QED BY <2>1, <2>2 DEF Available
<1> HIDE DEF p, use
<1>7. \A d \in Callers, o \in Orders :
        IF d = c THEN /\ Uses(d, o)' => take[o] > 0
                      /\ Uses(d, o)' => bottling'[d].use[o].first = FirstSerial(o)
        ELSE (Uses(d, o)' <=> Uses(d, o)) /\ bottling'[d] = bottling[d]
  BY <1>2, <1>3, <1>4 DEF Uses
<1>8. orders' = orders /\ runs' = runs
  BY DEF PlanBottlingRun
<1>9. \A o \in Orders : FirstSerial(o)' = FirstSerial(o)
  BY <1>8 DEF FirstSerial
<1>10. Fresh'
  BY <1>6, <1>7, <1>8, <1>9 DEF Printed, Fresh
<1>11. Alone'
  BY <1>5, <1>7 DEF Printed, Alone
<1>12. Below' /\ Apart'
  BY <1>8 DEF Printed, Below, Apart, Live, Takes, Prints, End, Overlap
<1> QED BY <1>10, <1>11, <1>12 DEF Printed

LEMMA CommitPrinted ==
  ASSUME Printed, PackagingTypeOK', NEW c \in Callers, CommitBottlingRun(c)
  PROVE  Printed'
<1> DEFINE m == Len(runs) + 1
<1> USE DEF Printed
<1>1. PICK run \in Run : /\ runs' = Append(runs, run)
                         /\ run.use = bottling[c].use /\ ~run.voided
  BY CommitRun
<1>2. runs \in Seq(Run) /\ bottling[c] # Idle
  BY TypeParts DEF RunsOK, CommitBottlingRun
<1>3. /\ DOMAIN runs' = DOMAIN runs \cup {m} /\ m \notin DOMAIN runs
      /\ \A r \in DOMAIN runs : runs'[r] = runs[r]
      /\ runs'[m] = run
  BY <1>1, <1>2
<1>4. \A o \in Orders : /\ orders'[o].applied = orders[o].applied + bottling[c].use[o].count
                        /\ orders'[o].start = orders[o].start
                        /\ orders'[o].received = orders[o].received
  BY TypeParts DEF CommitBottlingRun, ApplyStamps, OrdersOK, Order
<1>5. \A o \in Orders : /\ bottling[c].use[o].count \in Nat /\ orders[o].applied \in Nat
                         /\ bottling[c].use[o].first \in Nat \cup {Unnumbered}
                         /\ orders[o].start \in Nat \cup {Unnumbered}
  BY <1>2, SerialOf
<1>6. \A o \in Orders : bottling[c].use[o].count > 0 =>
        orders[o].received > 0 /\ bottling[c].use[o].first = FirstSerial(o)
  BY <1>2 DEF Fresh, Uses
<1>7. Live' = Live \cup {m}
  BY <1>1, <1>3 DEF Live
<1>8. \A r \in Live, o \in Orders :
        /\ r \in DOMAIN runs /\ runs'[r] = runs[r]
        /\ runs[r].use[o].first \in Nat \cup {Unnumbered} /\ runs[r].use[o].count \in Nat
  BY <1>3, SerialOf DEF Live
<1>9. Below'
  <2> SUFFICES ASSUME NEW r \in Live', NEW o \in Orders, Takes(r, o)'
               PROVE  (/\ orders[o].received > 0
                       /\ runs[r].use[o].first = Unnumbered <=> orders[o].start = Unnumbered
                       /\ Prints(r, o) =>
                            /\ orders[o].start <= runs[r].use[o].first
                            /\ End(r, o) <= orders[o].start + orders[o].applied)'
    BY DEF Below
  <2>1. CASE r = m
    <3> DEFINE new == bottling[c].use[o]
    <3>1. runs'[r].use[o] = new
      BY <1>1, <1>3, <2>1
    <3>2. new.count > 0
      BY <3>1 DEF Takes
    <3>3. /\ new.count \in Nat /\ orders[o].applied \in Nat
          /\ new.first \in Nat \cup {Unnumbered} /\ orders[o].start \in Nat \cup {Unnumbered}
      BY <1>5
    <3>4. /\ orders[o].received > 0
          /\ new.first = IF orders[o].start = Unnumbered THEN Unnumbered
                         ELSE orders[o].start + orders[o].applied
      BY <1>6, <3>2 DEF FirstSerial
    <3> HIDE DEF new
    <3>5. /\ new.first = Unnumbered <=> orders[o].start = Unnumbered
          /\ new.first # Unnumbered =>
               /\ orders[o].start <= new.first
               /\ new.first + new.count <= orders[o].start + (orders[o].applied + new.count)
      BY <3>3, <3>4 DEF Unnumbered
    <3>6. orders'[o].applied = orders[o].applied + new.count
      BY <1>4 DEF new
    <3> QED BY <1>4, <3>1, <3>4, <3>5, <3>6 DEF Prints, Numbered, End
  <2>2. CASE r \in Live
    <3>1. Takes(r, o)
      BY <1>8, <2>2 DEF Takes
    <3>2. /\ orders[o].received > 0
          /\ runs[r].use[o].first = Unnumbered <=> orders[o].start = Unnumbered
          /\ Prints(r, o) => /\ orders[o].start <= runs[r].use[o].first
                             /\ End(r, o) <= orders[o].start + orders[o].applied
      BY <2>2, <3>1 DEF Below
    <3> QED BY <1>4, <1>5, <1>8, <2>2, <3>2 DEF Prints, Numbered, End, Unnumbered
  <2> QED BY <1>7, <2>1, <2>2
<1>10. Apart'
  <2> SUFFICES ASSUME NEW r \in Live', NEW q \in Live', NEW o \in Orders, q # r
               PROVE  ~Overlap(q, r, o)'
    BY DEF Apart
  <2> DEFINE a == orders[o].start + orders[o].applied
             new == bottling[c].use[o]
  <2>1. /\ runs'[m].use[o] = new /\ new.first \in Int /\ new.count \in Nat /\ a \in Int
        /\ Numbered(new) => new.first = a
    BY <1>1, <1>3, <1>5, <1>6 DEF Numbered, FirstSerial, Unnumbered
  <2>2. \A k \in Live : /\ runs'[k].use[o] = runs[k].use[o]
                        /\ runs[k].use[o].first \in Int /\ runs[k].use[o].count \in Nat
                        /\ Numbered(runs[k].use[o]) =>
                             runs[k].use[o].first + runs[k].use[o].count <= a
    BY <1>8 DEF Below, Takes, Prints, Numbered, End, Unnumbered
  <2> HIDE DEF a, new, m
  <2>3. CASE r = m /\ q \in Live
    <3> DEFINE old == runs[q].use[o]
    <3>1. runs'[r].use[o] = new /\ runs'[q].use[o] = old
      BY <2>1, <2>2, <2>3
    <3>2. old.first \in Int /\ old.count \in Nat /\ (Numbered(old) => old.first + old.count <= a)
      BY <2>2, <2>3
    <3> HIDE DEF old
    <3> QED BY <2>1, <3>1, <3>2 DEF Overlap, Numbered
  <2>4. CASE q = m /\ r \in Live
    <3> DEFINE old == runs[r].use[o]
    <3>1. runs'[q].use[o] = new /\ runs'[r].use[o] = old
      BY <2>1, <2>2, <2>4
    <3>2. old.first \in Int /\ old.count \in Nat /\ (Numbered(old) => old.first + old.count <= a)
      BY <2>2, <2>4
    <3> HIDE DEF old
    <3> QED BY <2>1, <3>1, <3>2 DEF Overlap, Numbered
  <2>5. CASE r \in Live /\ q \in Live
    BY <1>8, <2>5 DEF Apart, Overlap
  <2> QED BY <1>7, <2>3, <2>4, <2>5
<1>11. \A d \in Callers, o \in Orders : Uses(d, o)' =>
         Uses(d, o) /\ d # c /\ bottling'[d] = bottling[d]
  BY TypeParts DEF HandOK, Uses, CommitBottlingRun
<1>12. Fresh'
  <2> SUFFICES ASSUME NEW d \in Callers, NEW o \in Orders, Uses(d, o)'
               PROVE  orders'[o].received > 0 /\ bottling'[d].use[o].first = FirstSerial(o)'
    BY DEF Fresh
  <2>1. ~Uses(c, o)
    BY <1>11 DEF Alone
  <2>2. bottling[c].use[o].count = 0
    BY <1>2, <1>5, <2>1 DEF Uses
  <2>3. orders'[o].applied = orders[o].applied /\ orders'[o].start = orders[o].start
    BY <1>4, <1>5, <2>2
  <2>4. FirstSerial(o)' = FirstSerial(o)
    BY <2>3 DEF FirstSerial
  <2> QED BY <1>4, <1>11, <2>4 DEF Fresh
<1>13. Alone'
  BY <1>11 DEF Alone
<1> QED BY <1>9, <1>10, <1>12, <1>13

LEMMA AbandonPrinted ==
  ASSUME Printed, PackagingTypeOK', NEW c \in Callers, AbandonBottlingRun(c)
  PROVE  Printed'
<1>1. \A d \in Callers, o \in Orders : Uses(d, o)' => Uses(d, o) /\ bottling'[d] = bottling[d]
  BY TypeParts DEF Printed, HandOK, Uses, AbandonBottlingRun
<1>2. orders' = orders /\ runs' = runs
  BY DEF AbandonBottlingRun
<1>3. \A o \in Orders : FirstSerial(o)' = FirstSerial(o)
  BY <1>2 DEF FirstSerial
<1>4. Fresh' /\ Alone'
  BY <1>1, <1>2, <1>3 DEF Printed, Fresh, Alone
<1>5. Below' /\ Apart'
  BY <1>2 DEF Printed, Below, Apart, Live, Takes, Prints, End, Overlap
<1> QED BY <1>4, <1>5 DEF Printed

\* Only the top of a roll is given back.
LEMMA VoidPrinted ==
  ASSUME NewestFirst, Printed, PackagingTypeOK', NEW r \in DOMAIN runs, VoidBottlingRun(r)
  PROVE  Printed'
<1> USE DEF Printed
<1>1. /\ Len(runs') = Len(runs) /\ runs' \in Seq(Run) /\ runs \in Seq(Run)
      /\ \A q \in DOMAIN runs : /\ runs'[q].use = runs[q].use
                                 /\ runs'[q].voided = (q = r \/ runs[q].voided)
  BY VoidedRun, TypeParts DEF RunsOK
<1>2. DOMAIN runs' = DOMAIN runs
  BY <1>1
<1>3. Live' = Live \ {r} /\ r \in Live
  BY <1>1, <1>2 DEF Live, VoidBottlingRun
<1>4. \A o \in Orders : /\ orders'[o].applied = orders[o].applied - runs[r].use[o].count
                        /\ orders'[o].start = orders[o].start
                        /\ orders'[o].received = orders[o].received
  BY TypeParts DEF VoidBottlingRun, OrdersOK, Order
<1>5. \A o \in Orders : Prints(r, o) =>
        (\A c \in Callers : ~Uses(c, o)) /\ End(r, o) = FirstSerial(o)
  BY DEF VoidBottlingRun, NewestFirst, NewestOfItsRolls, Reserved, Prints, Uses, End
<1>6. \A q \in Live, o \in Orders :
        /\ runs'[q].use = runs[q].use
        /\ runs[q].use[o].first \in Nat \cup {Unnumbered} /\ runs[q].use[o].count \in Nat
        /\ orders[o].applied \in Nat /\ orders[o].start \in Nat \cup {Unnumbered}
  BY <1>1, SerialOf DEF Live
<1>7. Below'
  <2> SUFFICES ASSUME NEW q \in Live, q # r, NEW o \in Orders, Takes(q, o)
               PROVE  /\ orders[o].received > 0
                      /\ runs[q].use[o].first = Unnumbered <=> orders[o].start = Unnumbered
                      /\ Prints(q, o) =>
                           /\ orders[o].start <= runs[q].use[o].first
                           /\ End(q, o) <= orders[o].start + orders'[o].applied
    BY <1>3, <1>4, <1>6 DEF Below, Takes, Prints, End
  <2>1. /\ orders[o].received > 0
        /\ runs[q].use[o].first = Unnumbered <=> orders[o].start = Unnumbered
        /\ Prints(q, o) => /\ orders[o].start <= runs[q].use[o].first
                           /\ End(q, o) <= orders[o].start + orders[o].applied
    BY DEF Below
  <2>2. ~Overlap(q, r, o)
    BY <1>3 DEF Apart
  <2>3. CASE ~Takes(r, o)
    BY <1>3, <1>4, <1>6, <2>1, <2>3 DEF Takes
  <2>4. CASE Takes(r, o)
    <3>1. runs[r].use[o].first = Unnumbered <=> orders[o].start = Unnumbered
      BY <1>3, <2>4 DEF Below
    <3>2. SUFFICES ASSUME Prints(q, o)
                   PROVE  End(q, o) <= orders[o].start + orders'[o].applied
      BY <2>1
    <3>3. Prints(r, o) /\ orders[o].start # Unnumbered
      BY <2>1, <2>4, <3>1, <3>2 DEF Prints, Takes, Numbered
    <3>4. End(r, o) = orders[o].start + orders[o].applied
      BY <1>5, <3>3 DEF FirstSerial
    <3> QED BY <1>3, <1>4, <1>6, <2>1, <2>2, <3>2, <3>3, <3>4
            DEF Prints, Numbered, End, Overlap, Unnumbered
  <2> QED BY <2>1, <2>3, <2>4
<1>8. Apart'
  BY <1>3, <1>6 DEF Apart, Overlap
<1>9. Fresh'
  <2> SUFFICES ASSUME NEW c \in Callers, NEW o \in Orders, Uses(c, o)
               PROVE  /\ orders'[o].received > 0
                      /\ bottling[c].use[o].first = FirstSerial(o)'
    BY DEF Fresh, Uses, VoidBottlingRun
  <2>1. /\ orders[o].received > 0 /\ bottling[c].use[o].first = FirstSerial(o)
        /\ ~Prints(r, o)
    BY <1>5 DEF Fresh
  <2>2. runs[r].use[o].count = 0 \/ orders[o].start = Unnumbered
    BY <1>3, <1>6, <2>1 DEF Below, Takes, Prints, Numbered
  <2>3. FirstSerial(o)' = FirstSerial(o)
    BY <1>3, <1>4, <1>6, <2>2 DEF FirstSerial
  <2> QED BY <1>4, <2>1, <2>3
<1>10. Alone'
  BY DEF Alone, Uses, VoidBottlingRun
<1> QED BY <1>7, <1>8, <1>9, <1>10

LEMMA InitPrinted == PackagingInit => Printed
BY InitTyped DEF PackagingInit, Printed, Below, Apart, Fresh, Alone, Live, Uses

LEMMA StepPrinted ==
  ASSUME OneBottler, NewestFirst, SameSerials, Printed, [PackagingNext]_packagingVars
  PROVE  Printed'
<1>1. PackagingTypeOK'
  BY StepTyped DEF Printed
<1>2. CASE Aside \/ ChangeLicence \/ UNCHANGED packagingVars
           \/ \E l \in Lots, held \in BOOLEAN : SetHold(l, held)
  BY <1>1, <1>2, NothingPrinted DEF Aside, ChangeLicence, packagingVars, SetHold
<1>3. CASE \E o \in Orders, n \in RollSizes, start \in Starts : ReceiveStampOrder(o, n, start)
  BY <1>1, <1>3, ReceivePrinted
<1>4. CASE \E o \in Orders, n \in Losses : RecordStampDisposition(o, n)
  <2>1. \A o \in Orders : /\ orders'[o].applied = orders[o].applied
                          /\ orders'[o].received = orders[o].received
                          /\ orders'[o].start = orders[o].start
    BY <1>4, TypeParts DEF Printed, RecordStampDisposition, OrdersOK, Order
  <2> QED BY <1>1, <1>4, <2>1, NothingPrinted DEF RecordStampDisposition
<1>5. CASE \E c \in Callers, l \in Lots, n \in Batches, t \in Tanks : PlanBottlingRun(c, l, n, t)
  BY <1>1, <1>5, PlanPrinted
<1>6. CASE \E c \in Callers : CommitBottlingRun(c)
  BY <1>1, <1>6, CommitPrinted
<1>7. CASE \E c \in Callers : AbandonBottlingRun(c)
  BY <1>1, <1>7, AbandonPrinted
<1>8. CASE \E r \in DOMAIN runs : VoidBottlingRun(r)
  BY <1>1, <1>8, VoidPrinted
<1> QED BY <1>2, <1>3, <1>4, <1>5, <1>6, <1>7, <1>8
        DEF PackagingNext, Aside, CreateRemoval, UnpackageToBulk, RecordPackagedReturn,
            VoidRemoval, VoidPackagedReturn, PostStockCount, AdoptPackaged

LEMMA PrintedDistinct ==
  ASSUME Printed
  PROVE  SerialsDistinct
<1> SUFFICES ASSUME NEW r \in Live, NEW o \in Orders
             PROVE  /\ Prints(r, o) =>
                         /\ orders[o].start <= runs[r].use[o].first
                         /\ End(r, o) <= orders[o].start + orders[o].received
                    /\ \A q \in Live \ {r} : ~Overlap(q, r, o)
  BY DEF SerialsDistinct, Prints, End
<1>1. ASSUME Prints(r, o)
      PROVE  /\ orders[o].start <= runs[r].use[o].first
             /\ End(r, o) <= orders[o].start + orders[o].received
  <2>1. r \in DOMAIN runs /\ PackagingTypeOK
    BY DEF Live, Printed
  <2>2. /\ orders[o].start <= runs[r].use[o].first
        /\ End(r, o) <= orders[o].start + orders[o].applied
    BY <1>1 DEF Printed, Below, Prints, Takes, Numbered
  <2> QED BY <2>1, <2>2, SerialOf DEF End, Unnumbered
<1> QED BY <1>1 DEF Printed, Apart

\* Where one run at a time is in hand on a roll, runs are voided newest first and a
\* second receipt names the serials of the first, no serial is printed by two runs
\* that stand, and none is outside its roll: for any rolls, with or without serials,
\* lots, tanks, runs and callers.  None of the three can be spared: TwoBottlers.cfg and
\* VoidOlder.cfg leave out one of the first two, and without the third a second receipt
\* with another first serial leaves a run that stands outside its roll.
THEOREM SerialsPrintedOnce ==
  ASSUME {"one bottler", "newest first", "same serials"} \subseteq Careful
  PROVE  PackagingSpec => []SerialsDistinct
<1>0. OneBottler /\ NewestFirst /\ SameSerials
  BY DEF OneBottler, NewestFirst, SameSerials
<1>1. PackagingInit => Printed
  BY InitPrinted
<1>2. Printed /\ [PackagingNext]_packagingVars => Printed'
  BY <1>0, StepPrinted
<1>3. Printed => SerialsDistinct
  BY PrintedDistinct
<1> QED BY <1>1, <1>2, <1>3, PTL DEF PackagingSpec

-----------------------------------------------------------------------------
(* Duty.  A lot's run, the only one its code ever has, decides once for all  *)
(* its bottles: every removal says the opposite, whatever is voided.         *)

Opened == \A l \in Lots : lots[l].run > 0 => runs[lots[l].run].lot = l

RunsAgree == \A r \in DOMAIN runs :
  Stored(runs[r].lot) /\ runs[r].dutied = DutiedAtPackaging(runs[r].lot)

RemovalsAgree == \A d \in DOMAIN docs : docs[d].kind = "removal" =>
  Stored(docs[d].lot) /\ docs[d].dutied = ~DutiedAtPackaging(docs[d].lot)

OneBasis == PackagingTypeOK /\ Opened /\ RunsAgree /\ RemovalsAgree

\* What no step changes: the run of a lot that has one, and a run's lot and duty.
LotsKept == \A l \in Lots : Stored(l) => lots'[l].run = lots[l].run
\* What no step but a commit changes: at most a lot is adopted.
LotsSame == \A l \in Lots :
  \/ lots'[l].run = lots[l].run
  \/ ~Stored(l) /\ lots'[l].run = NoRun
RunsKept == \A r \in DOMAIN runs :
  r \in DOMAIN runs' /\ runs'[r].lot = runs[r].lot /\ runs'[r].dutied = runs[r].dutied

LEMMA FlagKept ==
  ASSUME PackagingTypeOK, LotsKept, RunsKept, NEW l \in Lots, Stored(l)
  PROVE  Stored(l)' /\ DutiedAtPackaging(l)' = DutiedAtPackaging(l)
<1>1. lots'[l].run = lots[l].run
  BY DEF LotsKept
<1>2. lots[l].run > 0 => lots[l].run \in DOMAIN runs
  BY TypeParts, RowOf DEF NotStored, NoRun
<1> QED BY <1>1, <1>2 DEF Stored, DutiedAtPackaging, RunsKept

LEMMA RunLots ==
  ASSUME PackagingTypeOK, NEW r \in DOMAIN runs
  PROVE  runs[r].lot \in Lots
<1>1. runs[r] \in Run
  BY TypeParts DEF RunsOK
<1> QED BY <1>1 DEF Run

\* Where no lot gets a run, those that have one keep it.
LEMMA SameKept ==
  ASSUME OneBasis, LotsSame, RunsKept
  PROVE  LotsKept /\ Opened'
<1>1. LotsKept
  BY DEF LotsSame, LotsKept
<1>2. \A l \in Lots : lots'[l].run > 0 =>
        lots'[l].run = lots[l].run /\ lots[l].run \in DOMAIN runs
  BY TypeParts, RowOf DEF OneBasis, LotsSame, NotStored, NoRun
<1>3. Opened'
  BY <1>2 DEF OneBasis, Opened, RunsKept
<1> QED BY <1>1, <1>3

LEMMA TakeOutKeeps ==
  ASSUME PackagingTypeOK, NEW l \in Lots, NEW n, TakeOut(l, n) PROVE LotsSame
BY TypeParts, RowOf DEF TakeOut, LotsSame, LotsOK, Lot

LEMMA RestockKeeps ==
  ASSUME PackagingTypeOK, NEW l \in Lots, NEW n, Restock(l, n) PROVE LotsSame
BY TypeParts, RowOf DEF Restock, LotsSame, LotsOK, Lot

\* Runs and documents as they were.
LEMMA AgreeStill ==
  ASSUME OneBasis, PackagingTypeOK', LotsSame, UNCHANGED <<runs, docs>>
  PROVE  OneBasis'
<1>1. RunsKept /\ LotsKept /\ Opened'
  BY SameKept DEF RunsKept
<1>2. RunsAgree'
  BY <1>1, FlagKept, RunLots DEF OneBasis, RunsAgree
<1>3. RemovalsAgree'
  BY <1>1, FlagKept, DocOf DEF OneBasis, RemovalsAgree
<1> QED BY <1>1, <1>2, <1>3 DEF OneBasis

\* A document more.
LEMMA AgreeFiled ==
  ASSUME OneBasis, PackagingTypeOK', LotsSame, UNCHANGED runs,
         NEW kind, NEW l \in Lots, NEW n, NEW dutied, File(kind, l, n, dutied),
         kind = "removal" => Stored(l) /\ dutied = ~DutiedAtPackaging(l)
  PROVE  OneBasis'
<1>1. RunsKept /\ LotsKept /\ Opened'
  BY SameKept DEF RunsKept
<1>2. RunsAgree'
  BY <1>1, FlagKept, RunLots DEF OneBasis, RunsAgree
<1> DEFINE new == [kind |-> kind, lot |-> l, bottles |-> n, dutied |-> dutied, voided |-> FALSE]
<1>3. docs \in Seq(Doc) /\ docs' = Append(docs, new)
  BY TypeParts DEF OneBasis, DocsOK, File
<1>4. new.kind = kind /\ new.lot = l /\ new.dutied = dutied
  OBVIOUS
<1> HIDE DEF new
<1>5. \A d \in DOMAIN docs' : \/ d \in DOMAIN docs /\ docs'[d] = docs[d]
                              \/ docs'[d] = new
  BY <1>3
<1>6. RemovalsAgree'
  <2> SUFFICES ASSUME NEW d \in DOMAIN docs', docs'[d].kind = "removal"
               PROVE  /\ Stored(docs[d].lot)'
                      /\ docs'[d].dutied = ~DutiedAtPackaging(docs[d].lot)'
    BY DEF RemovalsAgree
  <2>1. CASE d \in DOMAIN docs /\ docs'[d] = docs[d]
    <3>1. docs[d].lot \in Lots /\ Stored(docs[d].lot)
          /\ docs[d].dutied = ~DutiedAtPackaging(docs[d].lot)
      BY <2>1, DocOf DEF OneBasis, RemovalsAgree
    <3>2. Stored(docs[d].lot)' /\ DutiedAtPackaging(docs[d].lot)' = DutiedAtPackaging(docs[d].lot)
      BY <1>1, <2>1, <3>1, FlagKept DEF OneBasis, Stored, DutiedAtPackaging
    <3> QED BY <2>1, <3>1, <3>2
  <2>2. CASE docs'[d] = new
    <3>1. Stored(l)' /\ DutiedAtPackaging(l)' = DutiedAtPackaging(l)
      BY <1>1, <1>4, <2>2, FlagKept DEF OneBasis
    <3> QED BY <1>4, <2>2, <3>1 DEF Stored, DutiedAtPackaging
  <2> QED BY <1>5, <2>1, <2>2
<1> QED BY <1>1, <1>2, <1>6 DEF OneBasis

\* A document voided.
LEMMA AgreeStruck ==
  ASSUME OneBasis, PackagingTypeOK', LotsSame, UNCHANGED runs, NEW d \in DOMAIN docs, Strike(d)
  PROVE  OneBasis'
<1>1. RunsKept /\ LotsKept /\ Opened'
  BY SameKept DEF RunsKept
<1>2. RunsAgree'
  BY <1>1, FlagKept, RunLots DEF OneBasis, RunsAgree
<1>3. docs \in Seq(Doc)
  BY TypeParts DEF OneBasis, DocsOK
<1>4. DOMAIN docs' = DOMAIN docs
  BY <1>3 DEF Strike
<1>5. \A e \in DOMAIN docs : /\ docs'[e].kind = docs[e].kind /\ docs'[e].lot = docs[e].lot
                             /\ docs'[e].dutied = docs[e].dutied
  BY <1>3 DEF Strike, Doc
<1>6. RemovalsAgree'
  <2> SUFFICES ASSUME NEW e \in DOMAIN docs, docs[e].kind = "removal"
               PROVE  /\ Stored(docs[e].lot)'
                      /\ docs'[e].dutied = ~DutiedAtPackaging(docs[e].lot)'
    BY <1>4, <1>5 DEF RemovalsAgree
  <2>1. docs[e].lot \in Lots /\ Stored(docs[e].lot)
        /\ docs[e].dutied = ~DutiedAtPackaging(docs[e].lot)
    BY DocOf DEF OneBasis, RemovalsAgree
  <2>2. \A l \in Lots : Stored(l) => Stored(l)' /\ DutiedAtPackaging(l)' = DutiedAtPackaging(l)
    BY <1>1, FlagKept DEF OneBasis
  <2> QED BY <1>5, <2>1, <2>2 DEF Stored, DutiedAtPackaging
<1> QED BY <1>1, <1>2, <1>6 DEF OneBasis

\* The rule, kept opaque.
NoneAdopted == "apart" \in Careful

LEMMA CommitAgree ==
  ASSUME NoneAdopted, OneBasis, PackagingTypeOK', NEW c \in Callers, CommitBottlingRun(c)
  PROVE  OneBasis'
<1> USE DEF OneBasis
<1> DEFINE m == Len(runs) + 1
<1>1. PICK run \in Run : /\ runs' = Append(runs, run)
                         /\ run.lot = bottling[c].lot
                         /\ ApartFromAdopted(bottling[c].lot, run.dutied)
  BY CommitRun DEF NoneAdopted
<1>2. runs \in Seq(Run) /\ bottling[c] \in Plan
  BY TypeParts, InHand DEF RunsOK, CommitBottlingRun
<1>3. /\ DOMAIN runs' = DOMAIN runs \cup {m} /\ m \in Nat /\ m > 0
      /\ \A r \in DOMAIN runs : runs'[r] = runs[r]
      /\ runs'[m] = run
  BY <1>1, <1>2
<1>4. PICK l \in Lots : l = bottling[c].lot
  BY <1>2 DEF Plan
<1>5. /\ lots'[l].run = IF Stored(l) THEN lots[l].run ELSE m
      /\ \A k \in Lots \ {l} : lots'[k].run = lots[k].run
  BY <1>4, TypeParts, RowOf DEF CommitBottlingRun, FillLot, Stored, LotsOK, Lot
<1> HIDE DEF m
<1>6. LotsKept /\ RunsKept
  BY <1>3, <1>4, <1>5 DEF LotsKept, RunsKept
<1>7. \A k \in Lots : Stored(k) => Stored(k)' /\ DutiedAtPackaging(k)' = DutiedAtPackaging(k)
  BY <1>6, FlagKept
<1>8. Stored(l)' /\ DutiedAtPackaging(l)' = run.dutied
  <2>1. CASE Stored(l)
    <3>1. ~(lots[l].run > 0)
      <4>1. lots[l].run > 0 => lots[l].run \in DOMAIN runs /\ runs[lots[l].run].lot = l
        BY TypeParts, RowOf DEF Opened, NotStored, NoRun
      <4> QED BY <1>4, <4>1 DEF CommitBottlingRun, Unbottled
    <3>2. lots[l].run = NoRun
      BY <2>1, <3>1, TypeParts, RowOf, <1>2 DEF Stored, NotStored, NoRun
    <3>3. ~run.dutied /\ run.dutied \in BOOLEAN
      BY <1>1, <1>4, <3>2 DEF ApartFromAdopted, Run
    <3>4. DutiedAtPackaging(l) = FALSE
      BY <3>1 DEF DutiedAtPackaging
    <3>5. run.dutied = FALSE
      BY <3>3
    <3> QED BY <1>7, <2>1, <3>4, <3>5
  <2>2. CASE ~Stored(l)
    <3>1. lots'[l].run = m /\ m # NotStored /\ runs'[m].dutied = run.dutied /\ m > 0
      BY <1>3, <1>5, <2>2 DEF NotStored
    <3>2. run.dutied \in BOOLEAN
      BY DEF Run
    <3> QED BY <3>1, <3>2 DEF Stored, DutiedAtPackaging
  <2> QED BY <2>1, <2>2
<1>9. RunsAgree'
  <2> SUFFICES ASSUME NEW r \in DOMAIN runs'
               PROVE  /\ Stored(runs[r].lot)'
                      /\ runs'[r].dutied = DutiedAtPackaging(runs[r].lot)'
    BY DEF RunsAgree
  <2>1. CASE r = m
    <3>1. runs'[r] = run /\ runs'[r].lot = l
      BY <1>1, <1>3, <1>4, <2>1
    <3> QED BY <1>8, <3>1 DEF Stored, DutiedAtPackaging
  <2>2. CASE r \in DOMAIN runs
    <3>1. /\ runs'[r] = runs[r] /\ runs[r].lot \in Lots /\ Stored(runs[r].lot)
          /\ runs[r].dutied = DutiedAtPackaging(runs[r].lot)
      BY <1>3, <2>2, RunLots DEF RunsAgree
    <3> QED BY <1>7, <3>1 DEF Stored, DutiedAtPackaging
  <2> QED BY <1>3, <2>1, <2>2
<1>10. RemovalsAgree'
  BY <1>7, DocOf DEF RemovalsAgree, CommitBottlingRun
<1>11. Opened'
  <2> SUFFICES ASSUME NEW k \in Lots, lots'[k].run > 0
               PROVE  runs'[lots'[k].run].lot = k
    BY DEF Opened
  <2>1. CASE k = l /\ ~Stored(l)
    BY <1>1, <1>3, <1>4, <1>5, <2>1
  <2>2. CASE k # l \/ Stored(l)
    <3>1. lots'[k].run = lots[k].run
      BY <1>5, <2>2
    <3>2. lots[k].run \in DOMAIN runs /\ runs[lots[k].run].lot = k
      BY <3>1, TypeParts, RowOf DEF Opened, NotStored, NoRun
    <3> QED BY <1>3, <3>1, <3>2
  <2> QED BY <2>1, <2>2
<1> QED BY <1>9, <1>10, <1>11

LEMMA VoidAgree ==
  ASSUME OneBasis, PackagingTypeOK', NEW r \in DOMAIN runs, VoidBottlingRun(r)
  PROVE  OneBasis'
<1> USE DEF OneBasis
<1>1. /\ Len(runs') = Len(runs) /\ runs' \in Seq(Run) /\ runs \in Seq(Run)
      /\ \A q \in DOMAIN runs : runs'[q].lot = runs[q].lot /\ runs'[q].dutied = runs[q].dutied
  BY VoidedRun, TypeParts DEF RunsOK
<1>2. DOMAIN runs' = DOMAIN runs
  BY <1>1
<1>3. \A l \in Lots : lots'[l].run = lots[l].run
  BY TypeParts, RunLots DEF VoidBottlingRun, LotsOK, Lot
<1>4. LotsKept /\ RunsKept /\ Opened'
  <2>1. RunsKept /\ LotsSame
    BY <1>1, <1>2, <1>3 DEF LotsSame, RunsKept
  <2> QED BY <2>1, SameKept
<1>5. \A l \in Lots : Stored(l) => Stored(l)' /\ DutiedAtPackaging(l)' = DutiedAtPackaging(l)
  BY <1>4, FlagKept
<1>6. RunsAgree'
  <2> SUFFICES ASSUME NEW q \in DOMAIN runs
               PROVE  /\ Stored(runs[q].lot)'
                      /\ runs'[q].dutied = DutiedAtPackaging(runs[q].lot)'
    BY <1>2 DEF RunsAgree
  <2>1. /\ runs'[q].lot = runs[q].lot /\ runs'[q].dutied = runs[q].dutied
        /\ runs[q].lot \in Lots /\ Stored(runs[q].lot)
        /\ runs[q].dutied = DutiedAtPackaging(runs[q].lot)
    BY <1>1, RunLots DEF RunsAgree
  <2> QED BY <1>5, <2>1 DEF Stored, DutiedAtPackaging
<1>7. RemovalsAgree'
  BY <1>5, DocOf DEF RemovalsAgree, VoidBottlingRun
<1> QED BY <1>4, <1>6, <1>7

LEMMA InitAgree == PackagingInit => OneBasis
BY InitTyped DEF PackagingInit, OneBasis, Opened, RunsAgree, RemovalsAgree, NotStored

LEMMA StepAgree ==
  ASSUME NoneAdopted, OneBasis, [PackagingNext]_packagingVars
  PROVE  OneBasis'
<1> USE DEF OneBasis
<1>1. PackagingTypeOK'
  BY StepTyped
<1>2. CASE UNCHANGED <<lots, runs, docs>>
  BY <1>1, <1>2, AgreeStill DEF LotsSame
<1>3. CASE \E c \in Callers : CommitBottlingRun(c)
  BY <1>1, <1>3, CommitAgree
<1>4. CASE \E r \in DOMAIN runs : VoidBottlingRun(r)
  BY <1>1, <1>4, VoidAgree
<1>5. CASE \E l \in Lots, n \in Quantities : CreateRemoval(l, n) \/ UnpackageToBulk(l, n)
  <2>1. PICK l \in Lots, n \in Quantities : CreateRemoval(l, n) \/ UnpackageToBulk(l, n)
    BY <1>5
  <2>2. LotsSame /\ UNCHANGED runs
    BY <2>1, TakeOutKeeps DEF CreateRemoval, UnpackageToBulk
  <2>3. CASE CreateRemoval(l, n)
    <3>1. Stored(l) /\ File("removal", l, n, ~DutiedAtPackaging(l))
      BY <2>3 DEF CreateRemoval
    <3> QED BY <1>1, <2>2, <3>1, AgreeFiled
  <2>4. CASE UnpackageToBulk(l, n)
    <3>1. File("unpackaged", l, n, FALSE)
      BY <2>4 DEF UnpackageToBulk
    <3> QED BY <1>1, <2>2, <3>1, AgreeFiled
  <2> QED BY <2>1, <2>3, <2>4
<1>6. CASE \E l \in Lots, n \in Quantities, condition \in Returns : RecordPackagedReturn(l, n, condition)
  <2>1. PICK l \in Lots, n \in Quantities, condition \in Returns :
          RecordPackagedReturn(l, n, condition)
    BY <1>6
  <2>2. LotsSame
    <3>1. Restock(l, n) \/ UNCHANGED lots
      BY <2>1 DEF RecordPackagedReturn
    <3> QED BY <3>1, RestockKeeps DEF LotsSame
  <2>3. /\ File(condition, l, n, FALSE) /\ UNCHANGED runs /\ condition # "removal"
    BY <2>1 DEF RecordPackagedReturn, Returns
  <2> QED BY <1>1, <2>2, <2>3, AgreeFiled
<1>7. CASE \E d \in DOMAIN docs : VoidRemoval(d) \/ VoidPackagedReturn(d)
  <2>1. PICK d \in DOMAIN docs : VoidRemoval(d) \/ VoidPackagedReturn(d)
    BY <1>7
  <2>2. Strike(d) /\ UNCHANGED runs /\ docs[d].lot \in Lots
    BY <2>1, DocOf DEF VoidRemoval, VoidPackagedReturn
  <2>3. LotsSame
    <3>1. \/ TakeOut(docs[d].lot, -docs[d].bottles)
          \/ Restock(docs[d].lot, -docs[d].bottles)
          \/ UNCHANGED lots
      BY <2>1 DEF VoidRemoval, VoidPackagedReturn
    <3> QED BY <2>2, <3>1, TakeOutKeeps, RestockKeeps DEF LotsSame
  <2> QED BY <1>1, <2>2, <2>3, AgreeStruck
<1>8. CASE \E l \in Lots, n \in Quantities \cup {0} : PostStockCount(l, n) \/ AdoptPackaged(l, n)
  <2>1. PICK l \in Lots, n \in Quantities \cup {0} : PostStockCount(l, n) \/ AdoptPackaged(l, n)
    BY <1>8
  <2>2. LotsSame /\ UNCHANGED runs
    <3>1. lots \in [Lots -> Lot]
      BY TypeParts DEF LotsOK
    <3>2. CASE PostStockCount(l, n)
      BY <3>1, <3>2 DEF PostStockCount, LotsSame, Lot
    <3>3. CASE AdoptPackaged(l, n)
      <4>1. \A k \in Lots \ {l} : lots'[k] = lots[k]
        BY <3>1, <3>3 DEF AdoptPackaged
      <4>2. lots[l] \in Lot
        BY <3>1
      <4>3. ~Stored(l) /\ lots'[l].run = NoRun
        BY <3>1, <3>3, <4>2 DEF AdoptPackaged, Lot
      <4>4. UNCHANGED runs
        BY <3>3 DEF AdoptPackaged
      <4> QED BY <4>1, <4>3, <4>4 DEF LotsSame
    <3> QED BY <2>1, <3>2, <3>3
  <2>3. CASE PostStockCount(l, n)
    <3>1. File("count", l, n - lots[l].onHand, FALSE)
      BY <2>3 DEF PostStockCount
    <3> QED BY <1>1, <2>2, <3>1, AgreeFiled
  <2>4. CASE AdoptPackaged(l, n)
    <3>1. File("adopted", l, n, FALSE)
      BY <2>4 DEF AdoptPackaged
    <3> QED BY <1>1, <2>2, <3>1, AgreeFiled
  <2> QED BY <2>1, <2>3, <2>4
<1>9. CASE \E l \in Lots, held \in BOOLEAN : SetHold(l, held)
  <2>1. LotsSame /\ UNCHANGED <<runs, docs>>
    BY <1>9, TypeParts DEF SetHold, LotsSame, LotsOK, Lot
  <2> QED BY <1>1, <2>1, AgreeStill
<1> QED BY <1>2, <1>3, <1>4, <1>5, <1>6, <1>7, <1>8, <1>9
        DEF PackagingNext, packagingVars, ReceiveStampOrder, RecordStampDisposition,
            PlanBottlingRun, AbandonBottlingRun, ChangeLicence

-----------------------------------------------------------------------------
(* The duty a removal leaves to its lot's run is not taken back.             *)

Settles == "settled" \in Careful

Standing == { d \in DOMAIN docs : docs[d].kind = "removal" /\ ~docs[d].voided }

Backed == \A d \in Standing, r \in DOMAIN runs :
  runs[r].lot = docs[d].lot /\ runs[r].dutied => ~runs[r].voided

\* Steps that record no removal and void no run.
LEMMA BackedStill ==
  ASSUME Backed, UNCHANGED runs, Standing' \subseteq Standing,
         \A d \in Standing : docs'[d].lot = docs[d].lot
  PROVE  Backed'
BY DEF Backed

LEMMA BackedFiled ==
  ASSUME PackagingTypeOK, Backed, UNCHANGED runs, NEW kind, NEW l, NEW n, NEW dutied,
         File(kind, l, n, dutied), kind = "removal" => DutyStands(l)
  PROVE  Backed'
<1> DEFINE new == [kind |-> kind, lot |-> l, bottles |-> n, dutied |-> dutied, voided |-> FALSE]
<1>1. docs \in Seq(Doc) /\ docs' = Append(docs, new)
  BY TypeParts DEF DocsOK, File
<1>2. new.kind = kind /\ new.lot = l
  OBVIOUS
<1> HIDE DEF new
<1>3. \A d \in DOMAIN docs' : \/ d \in DOMAIN docs /\ docs'[d] = docs[d]
                              \/ docs'[d] = new
  BY <1>1
<1> SUFFICES ASSUME NEW d \in Standing', NEW r \in DOMAIN runs,
                    runs[r].lot = docs'[d].lot, runs[r].dutied
             PROVE  ~runs[r].voided
  BY DEF Backed
<1>4. CASE d \in DOMAIN docs /\ docs'[d] = docs[d]
  BY <1>4 DEF Standing, Backed
<1>5. CASE docs'[d] = new
  BY <1>2, <1>5 DEF Standing, DutyStands
<1> QED BY <1>3, <1>4, <1>5 DEF Standing

LEMMA BackedStruck ==
  ASSUME PackagingTypeOK, Backed, UNCHANGED runs, NEW d \in DOMAIN docs, Strike(d)
  PROVE  Backed'
<1>1. docs \in Seq(Doc)
  BY TypeParts DEF DocsOK
<1>2. DOMAIN docs' = DOMAIN docs
  BY <1>1 DEF Strike
<1>3. \A e \in DOMAIN docs : /\ docs'[e].kind = docs[e].kind /\ docs'[e].lot = docs[e].lot
                             /\ docs[e].voided => docs'[e].voided
  BY <1>1 DEF Strike, Doc
<1>4. Standing' \subseteq Standing
  BY <1>2, <1>3 DEF Standing
<1> QED BY <1>3, <1>4, BackedStill DEF Standing

LEMMA BackedCommitted ==
  ASSUME PackagingTypeOK, Backed, NEW c \in Callers, CommitBottlingRun(c)
  PROVE  Backed'
<1>1. PICK run \in Run : runs' = Append(runs, run) /\ ~run.voided
  BY CommitRun
<1>2. runs \in Seq(Run)
  BY TypeParts DEF RunsOK
<1>3. \A r \in DOMAIN runs' : \/ r \in DOMAIN runs /\ runs'[r] = runs[r]
                              \/ runs'[r] = run
  BY <1>1, <1>2
<1>4. docs' = docs
  BY DEF CommitBottlingRun
<1> QED BY <1>1, <1>3, <1>4 DEF Backed, Standing

LEMMA BackedVoided ==
  ASSUME Settles, PackagingTypeOK, Backed, NEW r \in DOMAIN runs, VoidBottlingRun(r)
  PROVE  Backed'
<1>1. /\ Len(runs') = Len(runs) /\ runs' \in Seq(Run) /\ runs \in Seq(Run)
      /\ \A q \in DOMAIN runs :
           /\ runs'[q].lot = runs[q].lot /\ runs'[q].dutied = runs[q].dutied
           /\ runs'[q].voided = (q = r \/ runs[q].voided)
  BY VoidedRun, TypeParts DEF RunsOK
<1>2. DOMAIN runs' = DOMAIN runs
  BY <1>1
<1>3. docs' = docs /\ NoneRemoved(r)
  BY DEF VoidBottlingRun, Settles
<1> SUFFICES ASSUME NEW d \in Standing, NEW q \in DOMAIN runs,
                    runs[q].lot = docs[d].lot, runs[q].dutied
             PROVE  ~runs'[q].voided
  BY <1>1, <1>2, <1>3 DEF Backed, Standing
<1>4. q # r
  BY <1>3 DEF NoneRemoved, Standing
<1> QED BY <1>1, <1>4 DEF Backed

LEMMA StepBacked ==
  ASSUME Settles, PackagingTypeOK, Backed, [PackagingNext]_packagingVars
  PROVE  Backed'
<1>1. CASE UNCHANGED <<runs, docs>>
  BY <1>1, BackedStill DEF Standing
<1>2. CASE \E c \in Callers : CommitBottlingRun(c)
  BY <1>2, BackedCommitted
<1>3. CASE \E r \in DOMAIN runs : VoidBottlingRun(r)
  BY <1>3, BackedVoided
<1>4. CASE \E l \in Lots, n \in Quantities : CreateRemoval(l, n)
  <2>1. PICK l \in Lots, n \in Quantities : CreateRemoval(l, n)
    BY <1>4
  <2>2. /\ File("removal", l, n, ~DutiedAtPackaging(l)) /\ DutyStands(l) /\ UNCHANGED runs
    BY <2>1 DEF CreateRemoval, Settles
  <2> QED BY <2>2, BackedFiled
<1>5. CASE \E l \in Lots, n \in Quantities : UnpackageToBulk(l, n)
  <2>1. PICK l \in Lots, n \in Quantities : UnpackageToBulk(l, n)
    BY <1>5
  <2>2. File("unpackaged", l, n, FALSE) /\ UNCHANGED runs
    BY <2>1 DEF UnpackageToBulk
  <2> QED BY <2>2, BackedFiled
<1>6. CASE \E l \in Lots, n \in Quantities, condition \in Returns : RecordPackagedReturn(l, n, condition)
  <2>1. PICK l \in Lots, n \in Quantities, condition \in Returns :
          RecordPackagedReturn(l, n, condition)
    BY <1>6
  <2>2. /\ File(condition, l, n, FALSE) /\ UNCHANGED runs /\ condition # "removal"
    BY <2>1 DEF RecordPackagedReturn, Returns
  <2> QED BY <2>2, BackedFiled
<1>7. CASE \E d \in DOMAIN docs : VoidRemoval(d) \/ VoidPackagedReturn(d)
  BY <1>7, BackedStruck DEF VoidRemoval, VoidPackagedReturn
<1>8. CASE \E l \in Lots, n \in Quantities \cup {0} : PostStockCount(l, n)
  <2>1. PICK l \in Lots, n \in Quantities \cup {0} : PostStockCount(l, n)
    BY <1>8
  <2>2. File("count", l, n - lots[l].onHand, FALSE) /\ UNCHANGED runs
    BY <2>1 DEF PostStockCount
  <2> QED BY <2>2, BackedFiled
<1>9. CASE \E l \in Lots, n \in Quantities \cup {0} : AdoptPackaged(l, n)
  <2>1. PICK l \in Lots, n \in Quantities \cup {0} : AdoptPackaged(l, n)
    BY <1>9
  <2>2. File("adopted", l, n, FALSE) /\ UNCHANGED runs
    BY <2>1 DEF AdoptPackaged
  <2> QED BY <2>2, BackedFiled
<1> QED BY <1>1, <1>2, <1>3, <1>4, <1>5, <1>6, <1>7, <1>8, <1>9
        DEF PackagingNext, packagingVars, ReceiveStampOrder, RecordStampDisposition,
            PlanBottlingRun, AbandonBottlingRun, ChangeLicence, SetHold

\* A removal that leaves its duty to a run has one that stands.
LEMMA OnceEach ==
  ASSUME OneBasis, Backed
  PROVE  DutiedOnce
<1> SUFFICES ASSUME NEW d \in DOMAIN docs, docs[d].kind = "removal", ~docs[d].voided
             PROVE  docs[d].dutied
                      # (\E r \in Live : runs[r].lot = docs[d].lot /\ runs[r].dutied)
  BY DEF DutiedOnce
<1>1. PICK l \in Lots : l = docs[d].lot
  BY DocOf DEF OneBasis
<1>2. /\ docs[d].dutied = ~DutiedAtPackaging(l) /\ docs[d].dutied \in BOOLEAN
      /\ DutiedAtPackaging(l) \in BOOLEAN
  BY <1>1, DocOf, DutyFlag DEF OneBasis, RemovalsAgree
<1>3. CASE DutiedAtPackaging(l)
  <2>1. PICK r : r = lots[l].run
    OBVIOUS
  <2>2. r > 0 /\ runs[r].dutied
    BY <1>3, <2>1 DEF DutiedAtPackaging
  <2>3. r \in DOMAIN runs /\ runs[r].lot = l
    BY <2>1, <2>2, TypeParts, RowOf DEF OneBasis, Opened, NotStored, NoRun
  <2>4. ~runs[r].voided
    BY <1>1, <2>2, <2>3 DEF Backed, Standing
  <2> QED BY <1>1, <1>2, <1>3, <2>2, <2>3, <2>4 DEF Live
<1>4. CASE ~DutiedAtPackaging(l)
  <2>1. \A r \in Live : runs[r].lot = l => ~runs[r].dutied
    BY <1>4 DEF OneBasis, RunsAgree, Live
  <2> QED BY <1>1, <1>2, <1>4, <2>1
<1> QED BY <1>2, <1>3, <1>4

\* Where no dutied run goes into an adopted lot, and a dutied run is voided before any
\* of its bottles is removed and none is removed afterwards, every bottle that leaves
\* is dutied by its removal or by a run that stands, and never by both: however often
\* the licence changes and whatever else is voided, counted and returned.  Neither rule
\* can be spared: DutiedTwice.cfg leaves out the first and DutiedNever.cfg the second.
THEOREM EveryBottleDutiedOnce ==
  ASSUME {"apart", "settled"} \subseteq Careful
  PROVE  PackagingSpec => []DutiedOnce
<1>0. NoneAdopted /\ Settles
  BY DEF NoneAdopted, Settles
<1>1. PackagingInit => OneBasis /\ Backed
  BY InitAgree DEF PackagingInit, Backed, Standing
<1>2. OneBasis /\ Backed /\ [PackagingNext]_packagingVars => (OneBasis /\ Backed)'
  <2>1. OneBasis => PackagingTypeOK
    BY DEF OneBasis
  <2> QED BY <1>0, <2>1, StepAgree, StepBacked
<1>3. OneBasis /\ Backed => DutiedOnce
  BY OnceEach
<1> QED BY <1>1, <1>2, <1>3, PTL DEF PackagingSpec

-----------------------------------------------------------------------------
(* The counters add up. *)

\* Of one run more, and of one run voided.
LEMMA RunsFinite ==
  ASSUME RunsOK
  PROVE  IsFiniteSet(DOMAIN runs) /\ \A r \in DOMAIN runs : runs[r] \in Run
<1>1. /\ Len(runs) \in Nat /\ DOMAIN runs = 1..Len(runs)
      /\ \A r \in DOMAIN runs : runs[r] \in Run
  BY DEF RunsOK
<1> QED BY <1>1, FS_Interval

LEMMA StampsInit == PackagingInit => StampsAgree
<1> SUFFICES ASSUME PackagingInit, NEW o \in Orders
             PROVE  orders[o].applied =
                      SumFunctionOnSet([r \in DOMAIN runs |-> runs[r].use[o].count], Live)
  BY DEF StampsAgree
<1>1. Live = {} /\ orders[o].applied = 0
  BY DEF PackagingInit, Live
<1> QED BY <1>1, SumEmpty

LEMMA StampsCommitted ==
  ASSUME PackagingTypeOK, StampsAgree, NEW c \in Callers, CommitBottlingRun(c)
  PROVE  StampsAgree'
<1>1. PICK run \in Run : /\ runs' = Append(runs, run)
                         /\ run.use = bottling[c].use /\ ~run.voided
  BY CommitRun
<1>2. PICK m : m = Len(runs) + 1
  OBVIOUS
<1>3. /\ RunsOK /\ m \notin DOMAIN runs /\ DOMAIN runs' = DOMAIN runs \cup {m}
      /\ runs'[m] = run /\ \A r \in DOMAIN runs : runs'[r] = runs[r]
  BY <1>1, <1>2, TypeParts DEF RunsOK
<1>4. /\ Live \subseteq DOMAIN runs /\ IsFiniteSet(Live) /\ m \notin Live
      /\ Live' = Live \cup {m}
      /\ \A r \in DOMAIN runs : runs[r] \in Run
  BY <1>1, <1>3, RunsFinite, FS_Subset DEF Live
<1> SUFFICES ASSUME NEW o \in Orders
             PROVE  orders'[o].applied =
                      SumFunctionOnSet([r \in DOMAIN runs' |-> runs'[r].use[o].count], Live')
  BY DEF StampsAgree
<1> DEFINE f == [r \in DOMAIN runs |-> runs[r].use[o].count]
           g == [r \in DOMAIN runs' |-> runs'[r].use[o].count]
<1>5. /\ \A r \in Live : f[r] \in Int /\ g[r] = f[r]
      /\ g[m] \in Int /\ g[m] = run.use[o].count
  BY <1>3, <1>4 DEF Run, Serials
<1>6. orders[o].applied = SumFunctionOnSet(f, Live)
  BY DEF StampsAgree
<1>7. orders'[o].applied = orders[o].applied + run.use[o].count
  <2>1. orders' = [p \in Orders |-> [orders[p] EXCEPT !.applied = @ + bottling[c].use[p].count]]
    BY DEF CommitBottlingRun, ApplyStamps
  <2>2. orders[o] \in Order
    BY TypeParts DEF OrdersOK
  <2> QED BY <1>1, <2>1, <2>2 DEF Order
<1> HIDE DEF f, g
<1>8. /\ SumFunctionOnSet(f, Live) \in Int
      /\ SumFunctionOnSet(g, Live \cup {m}) = SumFunctionOnSet(f, Live) + g[m]
  BY <1>4, <1>5, SumGrown
<1>9. orders'[o].applied = SumFunctionOnSet(g, Live')
  BY <1>4, <1>5, <1>6, <1>7, <1>8
<1> QED BY <1>9 DEF g

LEMMA StampsVoided ==
  ASSUME PackagingTypeOK, StampsAgree, NEW s \in DOMAIN runs, VoidBottlingRun(s)
  PROVE  StampsAgree'
<1>1. /\ runs \in Seq(Run) /\ runs' \in Seq(Run) /\ Len(runs') = Len(runs)
      /\ \A q \in DOMAIN runs : /\ runs'[q].use = runs[q].use
                                /\ runs'[q].voided = (q = s \/ runs[q].voided)
  BY VoidedRun, TypeParts DEF RunsOK
<1>2. DOMAIN runs' = DOMAIN runs
  BY <1>1
<1>3. /\ Live \subseteq DOMAIN runs /\ IsFiniteSet(Live)
      /\ \A r \in DOMAIN runs : runs[r] \in Run
  BY TypeParts, RunsFinite, FS_Subset DEF Live
<1>4. Live' = Live \ {s} /\ s \in Live
  BY <1>1, <1>2 DEF Live, VoidBottlingRun
<1> SUFFICES ASSUME NEW o \in Orders
             PROVE  orders'[o].applied =
                      SumFunctionOnSet([r \in DOMAIN runs' |-> runs'[r].use[o].count], Live')
  BY DEF StampsAgree
<1> DEFINE f == [r \in DOMAIN runs |-> runs[r].use[o].count]
           g == [r \in DOMAIN runs' |-> runs'[r].use[o].count]
<1>5. ASSUME NEW r \in Live
      PROVE  f[r] \in Int /\ f[r] = runs[r].use[o].count /\ g[r] = f[r]
  <2>1. runs[r] \in Run /\ r \in DOMAIN runs /\ runs'[r].use = runs[r].use
    BY <1>1, <1>3
  <2>2. f[r] = runs[r].use[o].count /\ g[r] = runs'[r].use[o].count
    BY <1>2, <2>1
  <2>3. runs[r].use[o].count \in Int
    BY <2>1 DEF Run, Serials
  <2> QED BY <2>1, <2>2, <2>3
<1>6. orders[o].applied = SumFunctionOnSet(f, Live)
  BY DEF StampsAgree
<1>7. orders'[o].applied = orders[o].applied - f[s]
  <2>1. orders' = [p \in Orders |-> [orders[p] EXCEPT !.applied = @ - runs[s].use[p].count]]
    BY DEF VoidBottlingRun
  <2>2. orders[o] \in Order
    BY TypeParts DEF OrdersOK
  <2> QED BY <1>4, <1>5, <2>1, <2>2 DEF Order
<1> HIDE DEF f, g
<1>8. SumFunctionOnSet(g, Live \ {s}) = SumFunctionOnSet(f, Live) - f[s]
  <2>0. PICK n \in Int : f[s] = n
    BY <1>4, <1>5
  <2>1. \A r \in Live : f[r] \in Int
    BY <1>5
  <2>2. \A r \in Live : r # s => g[r] = f[r]
    BY <1>5
  <2> QED BY <1>3, <1>4, <2>0, <2>1, <2>2, SumShrunk
<1>9. orders'[o].applied = SumFunctionOnSet(g, Live')
  <2>1. SumFunctionOnSet(g, Live') = SumFunctionOnSet(g, Live \ {s})
    BY <1>4, Zenon
  <2> QED BY <1>6, <1>7, <1>8, <2>1
<1> QED BY <1>9 DEF g

LEMMA StampsStep ==
  ASSUME PackagingTypeOK, StampsAgree, [PackagingNext]_packagingVars
  PROVE  StampsAgree'
<1>1. CASE \E c \in Callers : CommitBottlingRun(c)
  BY <1>1, StampsCommitted
<1>2. CASE \E r \in DOMAIN runs : VoidBottlingRun(r)
  BY <1>2, StampsVoided
<1>3. CASE UNCHANGED runs /\ \A o \in Orders : orders'[o].applied = orders[o].applied
  BY <1>3 DEF StampsAgree, Live
<1>4. CASE \E o \in Orders, n \in RollSizes, start \in Starts : ReceiveStampOrder(o, n, start)
  <2>1. PICK o \in Orders, n \in RollSizes, start \in Starts : ReceiveStampOrder(o, n, start)
    BY <1>4
  <2>2. \A p \in Orders : orders'[p].applied = orders[p].applied
    BY <2>1, TypeParts DEF ReceiveStampOrder, OrdersOK, Order
  <2> QED BY <1>3, <2>1, <2>2 DEF ReceiveStampOrder
<1>5. CASE \E o \in Orders, n \in Losses : RecordStampDisposition(o, n)
  <2>1. PICK o \in Orders, n \in Losses : RecordStampDisposition(o, n)
    BY <1>5
  <2>2. \A p \in Orders : orders'[p].applied = orders[p].applied
    BY <2>1, TypeParts DEF RecordStampDisposition, OrdersOK, Order
  <2> QED BY <1>3, <2>1, <2>2 DEF RecordStampDisposition
<1> QED BY <1>1, <1>2, <1>3, <1>4, <1>5
        DEF PackagingNext, packagingVars, PlanBottlingRun, AbandonBottlingRun, ChangeLicence,
            CreateRemoval, UnpackageToBulk, RecordPackagedReturn, VoidRemoval,
            VoidPackagedReturn, PostStockCount, AdoptPackaged, SetHold

\* Whatever operators do, an order's counter of applied stamps is the stamps of its
\* runs that stand.
THEOREM StampsAddUp == PackagingSpec => []StampsAgree
<1>1. PackagingInit => PackagingTypeOK /\ StampsAgree
  BY InitTyped, StampsInit
<1>2. PackagingTypeOK /\ StampsAgree /\ [PackagingNext]_packagingVars
        => (PackagingTypeOK /\ StampsAgree)'
  BY StepTyped, StampsStep
<1> QED BY <1>1, <1>2, PTL DEF PackagingSpec
-----------------------------------------------------------------------------
\* What the books say of a lot after one document more, one struck, one run more
\* and one voided.
LEMMA DocsFinite ==
  ASSUME DocsOK
  PROVE  IsFiniteSet(DOMAIN docs) /\ \A d \in DOMAIN docs : docs[d] \in Doc
<1>1. /\ Len(docs) \in Nat /\ DOMAIN docs = 1..Len(docs)
      /\ \A d \in DOMAIN docs : docs[d] \in Doc
  BY DEF DocsOK
<1> QED BY <1>1, FS_Interval

LEMMA FiledNumber ==
  ASSUME DocsOK, NEW l, NEW K
  PROVE  Filed(l, K) \in Int
<1> DEFINE f == [d \in DOMAIN docs |-> docs[d].bottles]
           S == {d \in DOMAIN docs : docs[d].lot = l /\ docs[d].kind \in K /\ ~docs[d].voided}
<1>1. IsFiniteSet(S) /\ \A d \in S : f[d] \in Int
  BY DocsFinite, FS_Subset DEF Doc
<1> HIDE DEF f, S
<1>2. SumFunctionOnSet(f, S) \in Int
  BY <1>1, SumInt
<1> QED BY <1>2 DEF f, S, Filed

LEMMA FiledMore ==
  ASSUME DocsOK, NEW kind \in Kinds, NEW m \in Lots, NEW n \in Int, NEW dutied \in BOOLEAN,
         File(kind, m, n, dutied), NEW l, NEW K
  PROVE  Filed(l, K)' = Filed(l, K) + IF l = m /\ kind \in K THEN n ELSE 0
<1> DEFINE new == [kind |-> kind, lot |-> m, bottles |-> n, dutied |-> dutied, voided |-> FALSE]
           f == [d \in DOMAIN docs |-> docs[d].bottles]
           g == [d \in DOMAIN docs' |-> docs'[d].bottles]
           S == {d \in DOMAIN docs : docs[d].lot = l /\ docs[d].kind \in K /\ ~docs[d].voided}
           T == {d \in DOMAIN docs' :
                   docs'[d].lot = l /\ docs'[d].kind \in K /\ ~docs'[d].voided}
<1>1. docs' = Append(docs, new) /\ docs \in Seq(Doc)
  BY DEF File, DocsOK
<1>2. /\ new.kind = kind /\ new.lot = m /\ new.bottles = n /\ ~new.voided
  OBVIOUS
<1> HIDE DEF new
<1>3. PICK k : k = Len(docs) + 1
  OBVIOUS
<1>4. /\ k \notin DOMAIN docs /\ DOMAIN docs' = DOMAIN docs \cup {k}
      /\ docs'[k] = new /\ \A d \in DOMAIN docs : docs'[d] = docs[d]
  BY <1>1, <1>3
<1>5. /\ S \subseteq DOMAIN docs /\ IsFiniteSet(S) /\ k \notin S
      /\ \A d \in DOMAIN docs : docs[d] \in Doc
  BY <1>4, DocsFinite, FS_Subset
<1>6. \A d \in S : f[d] \in Int /\ g[d] = f[d]
  BY <1>4, <1>5 DEF Doc
<1>7. Filed(l, K) = SumFunctionOnSet(f, S) /\ Filed(l, K)' = SumFunctionOnSet(g, T)
  BY DEF Filed
<1>8. CASE l = m /\ kind \in K
  <2>1. T = S \cup {k}
    BY <1>2, <1>4, <1>8
  <2>2. g[k] = n /\ g[k] \in Int
    BY <1>2, <1>4
  <2> HIDE DEF f, g, S, T
  <2>3. SumFunctionOnSet(g, S \cup {k}) = SumFunctionOnSet(f, S) + g[k]
    BY <1>5, <1>6, <2>2, SumGrown
  <2>4. SumFunctionOnSet(g, T) = SumFunctionOnSet(g, S \cup {k})
    BY <2>1, Zenon
  <2> QED BY <1>7, <1>8, <2>2, <2>3, <2>4
<1>9. CASE ~(l = m /\ kind \in K)
  <2>1. T = S
    BY <1>2, <1>4, <1>9
  <2> HIDE DEF f, g, S, T
  <2>2. SumFunctionOnSet(f, S) = SumFunctionOnSet(g, S)
    BY <1>5, <1>6, SumSame
  <2>3. SumFunctionOnSet(g, T) = SumFunctionOnSet(g, S)
    BY <2>1, Zenon
  <2>4. SumFunctionOnSet(f, S) \in Int
    BY <1>5, <1>6, SumInt
  <2> QED BY <1>7, <1>9, <2>2, <2>3, <2>4
<1> QED BY <1>8, <1>9

\* A document that is struck.
LEMMA Struck ==
  ASSUME DocsOK, NEW e \in DOMAIN docs, Strike(e)
  PROVE  /\ DOMAIN docs' = DOMAIN docs
         /\ \A d \in DOMAIN docs :
              /\ docs'[d].lot = docs[d].lot /\ docs'[d].kind = docs[d].kind
              /\ docs'[d].bottles = docs[d].bottles
              /\ docs'[d].voided = (d = e \/ docs[d].voided)
<1> DEFINE struck == [docs[e] EXCEPT !.voided = TRUE]
<1>1. docs \in Seq(Doc) /\ docs[e] \in Doc /\ docs' = [docs EXCEPT ![e] = struck]
  BY DEF DocsOK, Strike
<1>2. /\ struck.lot = docs[e].lot /\ struck.kind = docs[e].kind
      /\ struck.bottles = docs[e].bottles /\ struck.voided = TRUE
  BY <1>1 DEF Doc
<1> HIDE DEF struck
<1>3. \A d \in DOMAIN docs : docs[d] \in Doc
  BY <1>1
<1> QED BY <1>1, <1>2, <1>3 DEF Doc

LEMMA FiledLess ==
  ASSUME DocsOK, NEW e \in DOMAIN docs, ~docs[e].voided, Strike(e), NEW l, NEW K
  PROVE  Filed(l, K)'
           = Filed(l, K) - IF l = docs[e].lot /\ docs[e].kind \in K THEN docs[e].bottles ELSE 0
<1> DEFINE f == [d \in DOMAIN docs |-> docs[d].bottles]
           g == [d \in DOMAIN docs' |-> docs'[d].bottles]
           S == {d \in DOMAIN docs : docs[d].lot = l /\ docs[d].kind \in K /\ ~docs[d].voided}
           T == {d \in DOMAIN docs' :
                   docs'[d].lot = l /\ docs'[d].kind \in K /\ ~docs'[d].voided}
<1>1. /\ DOMAIN docs' = DOMAIN docs
      /\ \A d \in DOMAIN docs :
           /\ docs'[d].lot = docs[d].lot /\ docs'[d].kind = docs[d].kind
           /\ docs'[d].bottles = docs[d].bottles
           /\ docs'[d].voided = (d = e \/ docs[d].voided)
  BY Struck
<1>2. /\ S \subseteq DOMAIN docs /\ IsFiniteSet(S)
      /\ \A d \in DOMAIN docs : docs[d] \in Doc
  BY DocsFinite, FS_Subset
<1>3. \A d \in S : f[d] \in Int /\ g[d] = f[d]
  BY <1>1, <1>2 DEF Doc
<1>4. Filed(l, K) = SumFunctionOnSet(f, S) /\ Filed(l, K)' = SumFunctionOnSet(g, T)
  BY DEF Filed
<1>5. CASE l = docs[e].lot /\ docs[e].kind \in K
  <2>1. T = S \ {e} /\ e \in S /\ f[e] = docs[e].bottles
    BY <1>1, <1>5
  <2> HIDE DEF f, g, S, T
  <2>2. SumFunctionOnSet(g, S \ {e}) = SumFunctionOnSet(f, S) - f[e]
    <3>1. SumFunctionOnSet(f, S) = f[e] + SumFunctionOnSet(f, S \ {e})
      <4>1. IsFiniteSet(S) /\ e \in S /\ \A d \in S : f[d] \in Int
        BY <1>2, <1>3, <2>1
      <4> QED BY <4>1, SumTake
    <3>2. /\ IsFiniteSet(S \ {e}) /\ f[e] \in Int
          /\ \A d \in S \ {e} : f[d] \in Int /\ f[d] = g[d]
      BY <1>2, <1>3, <2>1, FS_RemoveElement
    <3>3. /\ SumFunctionOnSet(f, S \ {e}) = SumFunctionOnSet(g, S \ {e})
          /\ SumFunctionOnSet(f, S \ {e}) \in Int
      BY <3>2, SumSame, SumInt
    <3> QED BY <3>1, <3>2, <3>3
  <2>3. SumFunctionOnSet(g, T) = SumFunctionOnSet(g, S \ {e})
    BY <2>1, Zenon
  <2> QED BY <1>4, <1>5, <2>1, <2>2, <2>3
<1>6. CASE ~(l = docs[e].lot /\ docs[e].kind \in K)
  <2>1. T = S
    BY <1>1, <1>6
  <2> HIDE DEF f, g, S, T
  <2>2. SumFunctionOnSet(f, S) = SumFunctionOnSet(g, S)
    BY <1>2, <1>3, SumSame
  <2>3. SumFunctionOnSet(g, T) = SumFunctionOnSet(g, S)
    BY <2>1, Zenon
  <2>4. SumFunctionOnSet(f, S) \in Int
    BY <1>2, <1>3, SumInt
  <2> QED BY <1>4, <1>6, <2>2, <2>3, <2>4
<1> QED BY <1>5, <1>6

LEMMA BottledNumber ==
  ASSUME RunsOK, NEW l
  PROVE  Bottled(l) \in Int
<1> DEFINE f == [r \in DOMAIN runs |-> runs[r].bottles]
           S == {r \in DOMAIN runs : runs[r].lot = l /\ ~runs[r].voided}
<1>1. IsFiniteSet(S) /\ \A r \in S : f[r] \in Int
  BY RunsFinite, FS_Subset DEF Run
<1> HIDE DEF f, S
<1>2. SumFunctionOnSet(f, S) \in Int
  BY <1>1, SumInt
<1> QED BY <1>2 DEF f, S, Bottled

LEMMA BottledMore ==
  ASSUME RunsOK, NEW run \in Run, runs' = Append(runs, run), ~run.voided, NEW l
  PROVE  Bottled(l)' = Bottled(l) + IF l = run.lot THEN run.bottles ELSE 0
<1> DEFINE f == [r \in DOMAIN runs |-> runs[r].bottles]
           g == [r \in DOMAIN runs' |-> runs'[r].bottles]
           S == {r \in DOMAIN runs : runs[r].lot = l /\ ~runs[r].voided}
           T == {r \in DOMAIN runs' : runs'[r].lot = l /\ ~runs'[r].voided}
<1>1. PICK k : k = Len(runs) + 1
  OBVIOUS
<1>2. /\ k \notin DOMAIN runs /\ DOMAIN runs' = DOMAIN runs \cup {k}
      /\ runs'[k] = run /\ \A r \in DOMAIN runs : runs'[r] = runs[r]
  BY <1>1 DEF RunsOK
<1>3. /\ S \subseteq DOMAIN runs /\ IsFiniteSet(S) /\ k \notin S
      /\ \A r \in DOMAIN runs : runs[r] \in Run
  BY <1>2, RunsFinite, FS_Subset
<1>4. \A r \in S : f[r] \in Int /\ g[r] = f[r]
  BY <1>2, <1>3 DEF Run
<1>5. Bottled(l) = SumFunctionOnSet(f, S) /\ Bottled(l)' = SumFunctionOnSet(g, T)
  BY DEF Bottled
<1>6. CASE l = run.lot
  <2>1. T = S \cup {k}
    BY <1>2, <1>6
  <2>2. g[k] = run.bottles /\ g[k] \in Int
    BY <1>2 DEF Run
  <2> HIDE DEF f, g, S, T
  <2>3. SumFunctionOnSet(g, S \cup {k}) = SumFunctionOnSet(f, S) + g[k]
    BY <1>3, <1>4, <2>2, SumGrown
  <2>4. SumFunctionOnSet(g, T) = SumFunctionOnSet(g, S \cup {k})
    BY <2>1, Zenon
  <2> QED BY <1>5, <1>6, <2>2, <2>3, <2>4
<1>7. CASE l # run.lot
  <2>1. T = S
    BY <1>2, <1>7
  <2> HIDE DEF f, g, S, T
  <2>2. SumFunctionOnSet(f, S) = SumFunctionOnSet(g, S)
    BY <1>3, <1>4, SumSame
  <2>3. SumFunctionOnSet(g, T) = SumFunctionOnSet(g, S)
    BY <2>1, Zenon
  <2>4. SumFunctionOnSet(f, S) \in Int
    BY <1>3, <1>4, SumInt
  <2> QED BY <1>5, <1>7, <2>2, <2>3, <2>4
<1> QED BY <1>6, <1>7

LEMMA BottledLess ==
  ASSUME PackagingTypeOK, NEW s \in DOMAIN runs, VoidBottlingRun(s), NEW l
  PROVE  Bottled(l)' = Bottled(l) - IF l = runs[s].lot THEN runs[s].bottles ELSE 0
<1> DEFINE f == [r \in DOMAIN runs |-> runs[r].bottles]
           g == [r \in DOMAIN runs' |-> runs'[r].bottles]
           S == {r \in DOMAIN runs : runs[r].lot = l /\ ~runs[r].voided}
           T == {r \in DOMAIN runs' : runs'[r].lot = l /\ ~runs'[r].voided}
<1>1. /\ runs \in Seq(Run) /\ runs' \in Seq(Run) /\ Len(runs') = Len(runs)
      /\ \A r \in DOMAIN runs :
           /\ runs'[r].lot = runs[r].lot /\ runs'[r].bottles = runs[r].bottles
           /\ runs'[r].voided = (r = s \/ runs[r].voided)
  BY VoidedRun, TypeParts DEF RunsOK
<1>2. DOMAIN runs' = DOMAIN runs /\ ~runs[s].voided
  BY <1>1 DEF VoidBottlingRun
<1>3. /\ S \subseteq DOMAIN runs /\ IsFiniteSet(S)
      /\ \A r \in DOMAIN runs : runs[r] \in Run
  BY TypeParts, RunsFinite, FS_Subset
<1>4. \A r \in S : f[r] \in Int /\ g[r] = f[r]
  BY <1>1, <1>2, <1>3 DEF Run
<1>5. Bottled(l) = SumFunctionOnSet(f, S) /\ Bottled(l)' = SumFunctionOnSet(g, T)
  BY DEF Bottled
<1>6. CASE l = runs[s].lot
  <2>1. T = S \ {s} /\ s \in S /\ f[s] = runs[s].bottles
    BY <1>1, <1>2, <1>6
  <2> HIDE DEF f, g, S, T
  <2>2. SumFunctionOnSet(g, S \ {s}) = SumFunctionOnSet(f, S) - f[s]
    <3>1. SumFunctionOnSet(f, S) = f[s] + SumFunctionOnSet(f, S \ {s})
      <4>1. IsFiniteSet(S) /\ s \in S /\ \A r \in S : f[r] \in Int
        BY <1>3, <1>4, <2>1
      <4> QED BY <4>1, SumTake
    <3>2. /\ IsFiniteSet(S \ {s}) /\ f[s] \in Int
          /\ \A r \in S \ {s} : f[r] \in Int /\ f[r] = g[r]
      BY <1>3, <1>4, <2>1, FS_RemoveElement
    <3>3. /\ SumFunctionOnSet(f, S \ {s}) = SumFunctionOnSet(g, S \ {s})
          /\ SumFunctionOnSet(f, S \ {s}) \in Int
      BY <3>2, SumSame, SumInt
    <3> QED BY <3>1, <3>2, <3>3
  <2>3. SumFunctionOnSet(g, T) = SumFunctionOnSet(g, S \ {s})
    BY <2>1, Zenon
  <2> QED BY <1>5, <1>6, <2>1, <2>2, <2>3
<1>7. CASE l # runs[s].lot
  <2>1. T = S
    BY <1>1, <1>2, <1>7
  <2> HIDE DEF f, g, S, T
  <2>2. SumFunctionOnSet(f, S) = SumFunctionOnSet(g, S)
    BY <1>3, <1>4, SumSame
  <2>3. SumFunctionOnSet(g, T) = SumFunctionOnSet(g, S)
    BY <2>1, Zenon
  <2>4. SumFunctionOnSet(f, S) \in Int
    BY <1>3, <1>4, SumInt
  <2> QED BY <1>5, <1>7, <2>2, <2>3, <2>4
<1> QED BY <1>6, <1>7

-----------------------------------------------------------------------------
\* The three counters of a lot and what the books say of it.
Balanced(l) ==
  /\ lots[l].packaged = Bottled(l) + Filed(l, {"adopted"})
  /\ lots[l].onHand = lots[l].packaged + Filed(l, {"count", "saleable"}) - Filed(l, Outward)
  /\ lots[l].removed = Filed(l, Outward) - Filed(l, {"saleable"})

\* Runs and documents are about lots with a row, and what comes back is a number of
\* bottles.
LotsKnown ==
  /\ \A r \in DOMAIN runs : Stored(runs[r].lot)
  /\ \A d \in DOMAIN docs : /\ Stored(docs[d].lot)
                            /\ docs[d].kind = "saleable" => docs[d].bottles \in Nat

Accounted == PackagingTypeOK /\ LotsAgree /\ LotsKnown

LEMMA AgreeIsBalanced == LotsAgree <=> \A l \in Lots : Balanced(l)
BY DEF LotsAgree, Balanced

\* The counters move with the books.
LEMMA BalancedMoved ==
  ASSUME PackagingTypeOK, NEW l \in Lots, Balanced(l),
         NEW b \in Int, NEW a \in Int, NEW c \in Int, NEW o \in Int, NEW s \in Int,
         Bottled(l)' = Bottled(l) + b,
         Filed(l, {"adopted"})' = Filed(l, {"adopted"}) + a,
         Filed(l, {"count", "saleable"})' = Filed(l, {"count", "saleable"}) + c,
         Filed(l, Outward)' = Filed(l, Outward) + o,
         Filed(l, {"saleable"})' = Filed(l, {"saleable"}) + s,
         lots'[l].packaged = lots[l].packaged + b + a,
         lots'[l].onHand = lots[l].onHand + b + a + c - o,
         lots'[l].removed = lots[l].removed + o - s
  PROVE  Balanced(l)'
<1>1. /\ Bottled(l) \in Int /\ Filed(l, {"adopted"}) \in Int
      /\ Filed(l, {"count", "saleable"}) \in Int /\ Filed(l, Outward) \in Int
      /\ Filed(l, {"saleable"}) \in Int
  BY TypeParts, FiledNumber, BottledNumber
<1>2. lots[l].packaged \in Int /\ lots[l].onHand \in Int /\ lots[l].removed \in Int
  BY TypeParts, RowOf
<1>3. lots'[l].packaged = Bottled(l)' + Filed(l, {"adopted"})'
  BY <1>1, <1>2 DEF Balanced
<1>4. lots'[l].onHand
        = lots'[l].packaged + Filed(l, {"count", "saleable"})' - Filed(l, Outward)'
  BY <1>1, <1>2 DEF Balanced
<1>5. lots'[l].removed = Filed(l, Outward)' - Filed(l, {"saleable"})'
  BY <1>1, <1>2 DEF Balanced
<1> QED BY <1>3, <1>4, <1>5 DEF Balanced

\* The counters of a lot without a row.
LEMMA EmptyRow ==
  ASSUME Accounted, NEW l \in Lots, ~Stored(l)
  PROVE  lots[l].packaged = 0 /\ lots[l].onHand = 0
<1>1. {r \in DOMAIN runs : runs[r].lot = l /\ ~runs[r].voided} = {}
  BY DEF Accounted, LotsKnown
<1>2. \A K : {d \in DOMAIN docs :
                docs[d].lot = l /\ docs[d].kind \in K /\ ~docs[d].voided} = {}
  BY DEF Accounted, LotsKnown
<1>3. Bottled(l) = 0
  BY <1>1, SumEmpty DEF Bottled
<1>4. \A K : Filed(l, K) = 0
  BY <1>2, SumEmpty DEF Filed
<1> QED BY <1>3, <1>4, AgreeIsBalanced DEF Accounted, Balanced

\* Rows that keep a lot's counters leave it balanced while the books are not touched.
LEMMA BooksAsTheyWere ==
  ASSUME Accounted, UNCHANGED <<runs, docs>>,
         \A l \in Lots : /\ lots'[l].run = lots[l].run
                         /\ lots'[l].packaged = lots[l].packaged
                         /\ lots'[l].onHand = lots[l].onHand
                         /\ lots'[l].removed = lots[l].removed
  PROVE  LotsAgree' /\ LotsKnown'
<1>1. ASSUME NEW l \in Lots PROVE Balanced(l)'
  <2>1. Bottled(l)' = Bottled(l)
    BY DEF Bottled
  <2>2. \A K : Filed(l, K)' = Filed(l, K)
    BY DEF Filed
  <2>3. Balanced(l)
    BY AgreeIsBalanced DEF Accounted
  <2> QED BY <2>1, <2>2, <2>3 DEF Balanced
<1>2. LotsAgree'
  BY <1>1 DEF LotsAgree, Balanced
<1>3. /\ \A r \in DOMAIN runs : runs[r].lot \in Lots
      /\ \A d \in DOMAIN docs : docs[d].lot \in Lots
  BY TypeParts, RunsFinite, DocsFinite DEF Accounted, Run, Doc
<1>4. LotsKnown'
  BY <1>3 DEF Accounted, LotsKnown, Stored
<1> QED BY <1>2, <1>4

\* One more document about lot m, the rows of the others left alone.
LEMMA DocFiled ==
  ASSUME Accounted, UNCHANGED runs, NEW m \in Lots, NEW kind \in Kinds, NEW n \in Int,
         NEW dutied \in BOOLEAN, File(kind, m, n, dutied),
         kind = "saleable" => n \in Nat,
         \A l \in Lots : l # m => lots'[l] = lots[l],
         lots'[m].run # NotStored,
         lots'[m].packaged = lots[m].packaged + IF kind = "adopted" THEN n ELSE 0,
         lots'[m].onHand = lots[m].onHand
                           + IF kind \in {"adopted", "count", "saleable"} THEN n
                             ELSE IF kind \in Outward THEN -n ELSE 0,
         lots'[m].removed = lots[m].removed
                            + IF kind \in Outward THEN n
                              ELSE IF kind = "saleable" THEN -n ELSE 0
  PROVE  LotsAgree' /\ LotsKnown'
<1>0. PackagingTypeOK /\ DocsOK /\ RunsOK /\ \A l \in Lots : Balanced(l)
  BY TypeParts, AgreeIsBalanced DEF Accounted
<1>1. \A l : Bottled(l)' = Bottled(l) + 0
  <2>1. \A l : Bottled(l)' = Bottled(l) /\ Bottled(l) \in Int
    BY <1>0, BottledNumber DEF Bottled
  <2> QED BY <2>1
<1>2. \A l, K : Filed(l, K)' = Filed(l, K) + IF l = m /\ kind \in K THEN n ELSE 0
  BY <1>0, FiledMore
<1>3. ASSUME NEW l \in Lots PROVE Balanced(l)'
  <2> DEFINE in(K) == IF l = m /\ kind \in K THEN n ELSE 0
  <2>1. /\ in({"adopted"}) \in Int /\ in({"count", "saleable"}) \in Int
        /\ in(Outward) \in Int /\ in({"saleable"}) \in Int
    OBVIOUS
  <2>2. /\ Filed(l, {"adopted"})' = Filed(l, {"adopted"}) + in({"adopted"})
        /\ Filed(l, {"count", "saleable"})'
             = Filed(l, {"count", "saleable"}) + in({"count", "saleable"})
        /\ Filed(l, Outward)' = Filed(l, Outward) + in(Outward)
        /\ Filed(l, {"saleable"})' = Filed(l, {"saleable"}) + in({"saleable"})
    BY <1>2
  <2>3. /\ lots[l].packaged \in Int /\ lots[l].onHand \in Int /\ lots[l].removed \in Int
    BY <1>0, TypeParts, RowOf
  <2>4. /\ lots'[l].packaged = lots[l].packaged + 0 + in({"adopted"})
        /\ lots'[l].onHand = lots[l].onHand + 0 + in({"adopted"}) + in({"count", "saleable"})
                             - in(Outward)
        /\ lots'[l].removed = lots[l].removed + in(Outward) - in({"saleable"})
    <3>1. CASE l = m
      BY <2>3, <3>1 DEF Outward, Kinds, Returns
    <3>2. CASE l # m
      BY <2>3, <3>2
    <3> QED BY <3>1, <3>2
  <2> HIDE DEF in
  <2> QED BY <1>0, <1>1, <2>1, <2>2, <2>4, BalancedMoved
<1>4. LotsAgree'
  BY <1>3 DEF LotsAgree, Balanced
<1>5. LotsKnown'
  <2> DEFINE new == [kind |-> kind, lot |-> m, bottles |-> n, dutied |-> dutied, voided |-> FALSE]
  <2>1. docs \in Seq(Doc) /\ docs' = Append(docs, new)
    BY <1>0 DEF DocsOK, File
  <2>2. new.lot = m /\ new.kind = kind /\ new.bottles = n
    OBVIOUS
  <2> HIDE DEF new
  <2>3. \A d \in DOMAIN docs' : \/ d \in DOMAIN docs /\ docs'[d] = docs[d]
                                \/ docs'[d] = new
    BY <2>1
  <2>4. \A l \in Lots : Stored(l) => lots'[l].run # NotStored
    BY DEF Stored
  <2>5. \A d \in DOMAIN docs : docs[d].lot \in Lots
    BY <1>0, DocsFinite DEF Doc
  <2>6. \A r \in DOMAIN runs : runs[r].lot \in Lots
    BY <1>0, RunsFinite DEF Run
  <2>7. \A d \in DOMAIN docs' : /\ lots'[docs'[d].lot].run # NotStored
                                /\ docs'[d].kind = "saleable" => docs'[d].bottles \in Nat
    BY <2>2, <2>3, <2>4, <2>5 DEF Accounted, LotsKnown
  <2>8. \A r \in DOMAIN runs' : lots'[runs'[r].lot].run # NotStored
    BY <2>4, <2>6 DEF Accounted, LotsKnown
  <2> QED BY <2>7, <2>8 DEF LotsKnown, Stored
<1> QED BY <1>4, <1>5

\* Document e, about lot m, struck.
LEMMA DocStruck ==
  ASSUME Accounted, UNCHANGED runs, NEW e \in DOMAIN docs, ~docs[e].voided, Strike(e),
         NEW m \in Lots, m = docs[e].lot, NEW n \in Int, n = docs[e].bottles,
         NEW kind \in Kinds, kind = docs[e].kind, kind # "adopted", kind # "count",
         \A l \in Lots : l # m => lots'[l] = lots[l],
         lots'[m].run = lots[m].run,
         lots'[m].packaged = lots[m].packaged,
         lots'[m].onHand = lots[m].onHand
                           + IF kind = "saleable" THEN -n
                             ELSE IF kind \in Outward THEN n ELSE 0,
         lots'[m].removed = lots[m].removed
                            + IF kind \in Outward THEN -n
                              ELSE IF kind = "saleable" THEN n ELSE 0
  PROVE  LotsAgree' /\ LotsKnown'
<1>0. PackagingTypeOK /\ DocsOK /\ RunsOK /\ \A l \in Lots : Balanced(l)
  BY TypeParts, AgreeIsBalanced DEF Accounted
<1>1. \A l : Bottled(l)' = Bottled(l) + 0
  <2>1. \A l : Bottled(l)' = Bottled(l) /\ Bottled(l) \in Int
    BY <1>0, BottledNumber DEF Bottled
  <2> QED BY <2>1
<1>2. \A l, K : Filed(l, K)' = Filed(l, K) - IF l = m /\ kind \in K THEN n ELSE 0
  BY <1>0, FiledLess
<1>3. ASSUME NEW l \in Lots PROVE Balanced(l)'
  <2> DEFINE in(K) == IF l = m /\ kind \in K THEN -n ELSE 0
  <2>1. /\ in({"adopted"}) \in Int /\ in({"count", "saleable"}) \in Int
        /\ in(Outward) \in Int /\ in({"saleable"}) \in Int
    OBVIOUS
  <2>2. \A K : Filed(l, K)' = Filed(l, K) + in(K)
    <3>1. \A K : Filed(l, K) \in Int
      BY <1>0, FiledNumber
    <3> QED BY <1>2, <3>1
  <2>3. /\ Filed(l, {"adopted"})' = Filed(l, {"adopted"}) + in({"adopted"})
        /\ Filed(l, {"count", "saleable"})'
             = Filed(l, {"count", "saleable"}) + in({"count", "saleable"})
        /\ Filed(l, Outward)' = Filed(l, Outward) + in(Outward)
        /\ Filed(l, {"saleable"})' = Filed(l, {"saleable"}) + in({"saleable"})
    BY <2>2
  <2>4. /\ lots[l].packaged \in Int /\ lots[l].onHand \in Int /\ lots[l].removed \in Int
    BY <1>0, TypeParts, RowOf
  <2>5. /\ lots'[l].packaged = lots[l].packaged + 0 + in({"adopted"})
        /\ lots'[l].onHand = lots[l].onHand + 0 + in({"adopted"}) + in({"count", "saleable"})
                             - in(Outward)
        /\ lots'[l].removed = lots[l].removed + in(Outward) - in({"saleable"})
    <3>1. CASE l = m
      BY <2>4, <3>1 DEF Outward, Kinds, Returns
    <3>2. CASE l # m
      BY <2>4, <3>2
    <3> QED BY <3>1, <3>2
  <2> HIDE DEF in
  <2>6. Bottled(l)' = Bottled(l) + 0 /\ PackagingTypeOK /\ Balanced(l)
    BY <1>0, <1>1
  <2>7. PICK a \in Int, c \in Int, o \in Int, s \in Int :
          /\ a = in({"adopted"}) /\ c = in({"count", "saleable"})
          /\ o = in(Outward) /\ s = in({"saleable"})
    BY <2>1
  <2>8. /\ Bottled(l)' = Bottled(l) + 0
        /\ Filed(l, {"adopted"})' = Filed(l, {"adopted"}) + a
        /\ Filed(l, {"count", "saleable"})' = Filed(l, {"count", "saleable"}) + c
        /\ Filed(l, Outward)' = Filed(l, Outward) + o
        /\ Filed(l, {"saleable"})' = Filed(l, {"saleable"}) + s
        /\ lots'[l].packaged = lots[l].packaged + 0 + a
        /\ lots'[l].onHand = lots[l].onHand + 0 + a + c - o
        /\ lots'[l].removed = lots[l].removed + o - s
    BY <2>3, <2>5, <2>6, <2>7
  <2>9. 0 \in Int
    OBVIOUS
  <2> QED BY <2>6, <2>8, <2>9, BalancedMoved
<1>4. LotsAgree'
  BY <1>3 DEF LotsAgree, Balanced
<1>5. LotsKnown'
  <2>1. \A l \in Lots : lots'[l].run = lots[l].run
    OBVIOUS
  <2>2. \A d \in DOMAIN docs : docs[d].lot \in Lots
    BY <1>0, DocsFinite DEF Doc
  <2>3. \A r \in DOMAIN runs : runs[r].lot \in Lots
    BY <1>0, RunsFinite DEF Run
  <2>4. /\ DOMAIN docs' = DOMAIN docs
        /\ \A d \in DOMAIN docs :
             /\ docs'[d].lot = docs[d].lot /\ docs'[d].kind = docs[d].kind
             /\ docs'[d].bottles = docs[d].bottles
    BY <1>0, Struck
  <2> QED BY <2>1, <2>2, <2>3, <2>4 DEF Accounted, LotsKnown, Stored
<1> QED BY <1>4, <1>5

\* What taking bottles out of a row, and putting them back, does to its counters.
LEMMA TakenOut ==
  ASSUME LotsOK, NEW m \in Lots, NEW n \in Int, TakeOut(m, n)
  PROVE  /\ \A l \in Lots : l # m => lots'[l] = lots[l]
         /\ lots'[m].run = lots[m].run
         /\ lots'[m].packaged = lots[m].packaged
         /\ lots'[m].onHand = lots[m].onHand - n
         /\ lots'[m].removed = lots[m].removed + n
<1> DEFINE a == lots[m].onHand - n
           b == lots[m].removed + n
           row == [lots[m] EXCEPT !.onHand = a, !.removed = b]
<1>1. lots' = [lots EXCEPT ![m] = row]
  BY RowOf DEF TakeOut
<1>2. /\ row.run = lots[m].run /\ row.packaged = lots[m].packaged
      /\ row.onHand = a /\ row.removed = b
  BY RowOf DEF Lot
<1> HIDE DEF row
<1>3. lots'[m] = row /\ \A l \in Lots : l # m => lots'[l] = lots[l]
  BY <1>1, RowOf
<1> QED BY <1>2, <1>3

LEMMA Restocked ==
  ASSUME LotsOK, NEW m \in Lots, NEW n \in Int, n <= lots[m].removed, Restock(m, n)
  PROVE  /\ \A l \in Lots : l # m => lots'[l] = lots[l]
         /\ lots'[m].run = lots[m].run
         /\ lots'[m].packaged = lots[m].packaged
         /\ lots'[m].onHand = lots[m].onHand + n
         /\ lots'[m].removed = lots[m].removed - n
<1> DEFINE a == lots[m].onHand + n
           b == IF lots[m].removed > n THEN lots[m].removed - n ELSE 0
           row == [lots[m] EXCEPT !.onHand = a, !.removed = b]
<1>1. lots' = [lots EXCEPT ![m] = row]
  BY RowOf DEF Restock
<1>2. b = lots[m].removed - n
  BY RowOf
<1> HIDE DEF b
<1>3. /\ row.run = lots[m].run /\ row.packaged = lots[m].packaged
      /\ row.onHand = a /\ row.removed = b
  BY RowOf DEF Lot
<1> HIDE DEF row
<1>4. lots'[m] = row /\ \A l \in Lots : l # m => lots'[l] = lots[l]
  BY <1>1, RowOf
<1> QED BY <1>2, <1>3, <1>4

LEMMA RemovalAccounted ==
  ASSUME Accounted, NEW l \in Lots, NEW n \in Quantities,
         CreateRemoval(l, n) \/ UnpackageToBulk(l, n)
  PROVE  LotsAgree' /\ LotsKnown'
<1>1. PICK kind \in Outward, dutied \in BOOLEAN : File(kind, l, n, dutied)
  <2>1. DutiedAtPackaging(l) \in BOOLEAN
    BY DutyFlag DEF Accounted
  <2>2. CASE CreateRemoval(l, n)
    <3>1. File("removal", l, n, ~DutiedAtPackaging(l))
      BY <2>2 DEF CreateRemoval
    <3>2. "removal" \in Outward /\ (~DutiedAtPackaging(l)) \in BOOLEAN
      BY <2>1 DEF Outward
    <3> QED BY <3>1, <3>2
  <2>3. CASE UnpackageToBulk(l, n)
    <3>1. File("unpackaged", l, n, FALSE) /\ "unpackaged" \in Outward
      BY <2>3 DEF UnpackageToBulk, Outward
    <3> QED BY <3>1
  <2> QED BY <2>2, <2>3
<1>2. LotsOK /\ n \in Int /\ UNCHANGED runs /\ Stored(l) /\ TakeOut(l, n)
  <2>1. LotsOK /\ n \in Int
    BY Amounts, TypeParts DEF Accounted
  <2> QED BY <2>1 DEF CreateRemoval, UnpackageToBulk
<1>3. /\ kind \in Kinds /\ kind # "saleable" /\ kind # "adopted" /\ kind # "count"
  BY DEF Kinds, Outward
<1>4. /\ \A k \in Lots : k # l => lots'[k] = lots[k]
      /\ lots'[l].run = lots[l].run
      /\ lots'[l].packaged = lots[l].packaged
      /\ lots'[l].onHand = lots[l].onHand - n
      /\ lots'[l].removed = lots[l].removed + n
  BY <1>2, TakenOut
<1>5. /\ lots'[l].run # NotStored
      /\ lots'[l].packaged = lots[l].packaged + IF kind = "adopted" THEN n ELSE 0
      /\ lots'[l].onHand = lots[l].onHand
                           + IF kind \in {"adopted", "count", "saleable"} THEN n
                             ELSE IF kind \in Outward THEN -n ELSE 0
      /\ lots'[l].removed = lots[l].removed
                            + IF kind \in Outward THEN n
                              ELSE IF kind = "saleable" THEN -n ELSE 0
  BY <1>2, <1>3, <1>4, RowOf DEF Stored
<1> QED BY <1>1, <1>2, <1>3, <1>4, <1>5, DocFiled

LEMMA ReturnAccounted ==
  ASSUME Accounted, NEW l \in Lots, NEW n \in Quantities, NEW condition \in Returns,
         RecordPackagedReturn(l, n, condition)
  PROVE  LotsAgree' /\ LotsKnown'
<1>1. /\ LotsOK /\ n \in Nat /\ n \in Int /\ UNCHANGED runs /\ Stored(l)
      /\ n <= lots[l].removed /\ File(condition, l, n, FALSE)
      /\ condition \in Kinds
  <2>1. LotsOK /\ n \in Nat /\ n \in Int /\ condition \in Kinds
    BY Amounts, TypeParts DEF Accounted, Kinds
  <2> QED BY <2>1 DEF RecordPackagedReturn
<1>2. CASE condition = "saleable"
  <2>1. /\ \A k \in Lots : k # l => lots'[k] = lots[k]
        /\ lots'[l].run = lots[l].run
        /\ lots'[l].packaged = lots[l].packaged
        /\ lots'[l].onHand = lots[l].onHand + n
        /\ lots'[l].removed = lots[l].removed - n
    BY <1>1, <1>2, Restocked DEF RecordPackagedReturn
  <2>2. /\ lots'[l].run # NotStored
        /\ lots'[l].packaged = lots[l].packaged + IF condition = "adopted" THEN n ELSE 0
        /\ lots'[l].onHand = lots[l].onHand
                             + IF condition \in {"adopted", "count", "saleable"} THEN n
                               ELSE IF condition \in Outward THEN -n ELSE 0
        /\ lots'[l].removed = lots[l].removed
                              + IF condition \in Outward THEN n
                                ELSE IF condition = "saleable" THEN -n ELSE 0
    BY <1>1, <1>2, <2>1, RowOf DEF Stored, Outward
  <2> QED BY <1>1, <2>1, <2>2, DocFiled
<1>3. CASE condition = "unsaleable"
  <2>1. UNCHANGED lots
    BY <1>3 DEF RecordPackagedReturn
  <2>2. /\ \A k \in Lots : k # l => lots'[k] = lots[k]
        /\ lots'[l].run # NotStored
        /\ lots'[l].packaged = lots[l].packaged + IF condition = "adopted" THEN n ELSE 0
        /\ lots'[l].onHand = lots[l].onHand
                             + IF condition \in {"adopted", "count", "saleable"} THEN n
                               ELSE IF condition \in Outward THEN -n ELSE 0
        /\ lots'[l].removed = lots[l].removed
                              + IF condition \in Outward THEN n
                                ELSE IF condition = "saleable" THEN -n ELSE 0
    BY <1>1, <1>3, <2>1, RowOf DEF Stored, Outward
  <2> QED BY <1>1, <1>3, <2>2, DocFiled
<1> QED BY <1>2, <1>3 DEF Returns

LEMMA CountAccounted ==
  ASSUME Accounted, NEW l \in Lots, NEW n \in Quantities \cup {0}, PostStockCount(l, n)
  PROVE  LotsAgree' /\ LotsKnown'
<1>1. /\ LotsOK /\ n \in Int /\ UNCHANGED runs /\ Stored(l) /\ "count" \in Kinds
      /\ lots[l].onHand \in Int
  BY Amounts, TypeParts, RowOf DEF Accounted, PostStockCount, Kinds
<1>2. PICK m \in Int : m = n - lots[l].onHand
  BY <1>1
<1>3. File("count", l, m, FALSE)
  BY <1>2 DEF PostStockCount
<1>4. /\ \A k \in Lots : k # l => lots'[k] = lots[k]
      /\ lots'[l].run = lots[l].run
      /\ lots'[l].packaged = lots[l].packaged
      /\ lots'[l].onHand = n
      /\ lots'[l].removed = lots[l].removed
  <2> DEFINE row == [lots[l] EXCEPT !.onHand = n]
  <2>1. lots' = [lots EXCEPT ![l] = row]
    BY <1>1, RowOf DEF PostStockCount
  <2>2. /\ row.run = lots[l].run /\ row.packaged = lots[l].packaged
        /\ row.onHand = n /\ row.removed = lots[l].removed
    BY <1>1, RowOf DEF Lot
  <2> HIDE DEF row
  <2> QED BY <1>1, <2>1, <2>2, RowOf
<1>5. /\ lots'[l].run # NotStored
      /\ lots'[l].packaged = lots[l].packaged + IF "count" = "adopted" THEN m ELSE 0
      /\ lots'[l].onHand = lots[l].onHand
                           + IF "count" \in {"adopted", "count", "saleable"} THEN m
                             ELSE IF "count" \in Outward THEN -m ELSE 0
      /\ lots'[l].removed = lots[l].removed
                            + IF "count" \in Outward THEN m
                              ELSE IF "count" = "saleable" THEN -m ELSE 0
  BY <1>1, <1>2, <1>4, RowOf DEF Stored, Outward
<1> QED BY <1>1, <1>3, <1>4, <1>5, DocFiled

LEMMA AdoptAccounted ==
  ASSUME Accounted, NEW l \in Lots, NEW n \in Quantities \cup {0}, AdoptPackaged(l, n)
  PROVE  LotsAgree' /\ LotsKnown'
<1>1. /\ LotsOK /\ n \in Int /\ UNCHANGED runs /\ ~Stored(l) /\ "adopted" \in Kinds
      /\ File("adopted", l, n, FALSE)
  <2>1. LotsOK /\ n \in Int /\ "adopted" \in Kinds
    BY Amounts, TypeParts DEF Accounted, Kinds
  <2> QED BY <2>1 DEF AdoptPackaged
<1>2. lots[l].packaged = 0 /\ lots[l].onHand = 0
  BY <1>1, EmptyRow
<1>3. /\ \A k \in Lots : k # l => lots'[k] = lots[k]
      /\ lots'[l].run = NoRun
      /\ lots'[l].packaged = n
      /\ lots'[l].onHand = n
      /\ lots'[l].removed = lots[l].removed
  <2> DEFINE row == [lots[l] EXCEPT !.run = NoRun, !.onHand = n, !.packaged = n]
  <2>1. lots' = [lots EXCEPT ![l] = row]
    BY <1>1, RowOf DEF AdoptPackaged
  <2>2. /\ row.run = NoRun /\ row.packaged = n
        /\ row.onHand = n /\ row.removed = lots[l].removed
    BY <1>1, RowOf DEF Lot
  <2> HIDE DEF row
  <2> QED BY <1>1, <2>1, <2>2, RowOf
<1>4. /\ lots'[l].run # NotStored
      /\ lots'[l].packaged = lots[l].packaged + IF "adopted" = "adopted" THEN n ELSE 0
      /\ lots'[l].onHand = lots[l].onHand
                           + IF "adopted" \in {"adopted", "count", "saleable"} THEN n
                             ELSE IF "adopted" \in Outward THEN -n ELSE 0
      /\ lots'[l].removed = lots[l].removed
                            + IF "adopted" \in Outward THEN n
                              ELSE IF "adopted" = "saleable" THEN -n ELSE 0
  BY <1>1, <1>2, <1>3, RowOf DEF NotStored, NoRun, Outward
<1> QED BY <1>1, <1>3, <1>4, DocFiled

LEMMA StrikeAccounted ==
  ASSUME Accounted, NEW d \in DOMAIN docs, VoidRemoval(d) \/ VoidPackagedReturn(d)
  PROVE  LotsAgree' /\ LotsKnown'
<1>1. PICK m \in Lots, n \in Int, kind \in Kinds :
        m = docs[d].lot /\ n = docs[d].bottles /\ kind = docs[d].kind
  BY TypeParts, DocsFinite DEF Accounted, Doc
<1>2. /\ LotsOK /\ UNCHANGED runs /\ Strike(d) /\ ~docs[d].voided /\ -n \in Int
  BY TypeParts DEF Accounted, VoidRemoval, VoidPackagedReturn
<1>3. CASE VoidRemoval(d)
  <2>1. TakeOut(m, -n) /\ kind = "removal"
    BY <1>1, <1>3 DEF VoidRemoval
  <2>2. /\ \A l \in Lots : l # m => lots'[l] = lots[l]
        /\ lots'[m].run = lots[m].run
        /\ lots'[m].packaged = lots[m].packaged
        /\ lots'[m].onHand = lots[m].onHand - (-n)
        /\ lots'[m].removed = lots[m].removed + (-n)
    BY <1>2, <2>1, TakenOut
  <2>3. /\ lots'[m].onHand = lots[m].onHand
                             + IF kind = "saleable" THEN -n
                               ELSE IF kind \in Outward THEN n ELSE 0
        /\ lots'[m].removed = lots[m].removed
                              + IF kind \in Outward THEN -n
                                ELSE IF kind = "saleable" THEN n ELSE 0
        /\ kind # "adopted" /\ kind # "count"
    BY <1>2, <2>1, <2>2, RowOf DEF Outward
  <2> QED BY <1>1, <1>2, <2>2, <2>3, DocStruck
<1>4. CASE VoidPackagedReturn(d) /\ kind = "saleable"
  <2>1. Restock(m, -n) /\ n \in Nat
    BY <1>1, <1>4 DEF VoidPackagedReturn, Accounted, LotsKnown
  <2>2. -n <= lots[m].removed
    BY <1>2, <2>1, RowOf
  <2>3. /\ \A l \in Lots : l # m => lots'[l] = lots[l]
        /\ lots'[m].run = lots[m].run
        /\ lots'[m].packaged = lots[m].packaged
        /\ lots'[m].onHand = lots[m].onHand + (-n)
        /\ lots'[m].removed = lots[m].removed - (-n)
    BY <1>2, <2>1, <2>2, Restocked
  <2>4. /\ lots'[m].onHand = lots[m].onHand
                             + IF kind = "saleable" THEN -n
                               ELSE IF kind \in Outward THEN n ELSE 0
        /\ lots'[m].removed = lots[m].removed
                              + IF kind \in Outward THEN -n
                                ELSE IF kind = "saleable" THEN n ELSE 0
        /\ kind # "adopted" /\ kind # "count"
    BY <1>2, <1>4, <2>3, RowOf DEF Outward
  <2> QED BY <1>1, <1>2, <2>3, <2>4, DocStruck
<1>5. CASE VoidPackagedReturn(d) /\ kind # "saleable"
  <2>1. UNCHANGED lots /\ kind = "unsaleable"
    BY <1>1, <1>5 DEF VoidPackagedReturn, Returns
  <2>2. /\ \A l \in Lots : l # m => lots'[l] = lots[l]
        /\ lots'[m].run = lots[m].run /\ lots'[m].packaged = lots[m].packaged
        /\ lots'[m].onHand = lots[m].onHand
                             + IF kind = "saleable" THEN -n
                               ELSE IF kind \in Outward THEN n ELSE 0
        /\ lots'[m].removed = lots[m].removed
                              + IF kind \in Outward THEN -n
                                ELSE IF kind = "saleable" THEN n ELSE 0
        /\ kind # "adopted" /\ kind # "count"
    BY <1>2, <2>1, RowOf DEF Outward
  <2> QED BY <1>1, <1>2, <2>2, DocStruck
<1> QED BY <1>3, <1>4, <1>5

\* The runs.
LEMMA CommitAccounted ==
  ASSUME Accounted, NEW c \in Callers, CommitBottlingRun(c)
  PROVE  LotsAgree' /\ LotsKnown'
<1>0. /\ PackagingTypeOK /\ LotsOK /\ DocsOK /\ RunsOK /\ UNCHANGED docs
      /\ \A l \in Lots : Balanced(l)
  BY TypeParts, AgreeIsBalanced DEF Accounted, CommitBottlingRun
<1>1. PICK run \in Run : /\ runs' = Append(runs, run) /\ ~run.voided
                         /\ run.lot = bottling[c].lot /\ run.bottles = bottling[c].bottles
  BY <1>0, CommitRun
<1>2. PICK m \in Lots, n \in Nat : m = run.lot /\ n = run.bottles
  BY DEF Run
<1>3. /\ \A l \in Lots : l # m => lots'[l] = lots[l]
      /\ lots'[m].run = IF Stored(m) THEN lots[m].run ELSE Len(runs) + 1
      /\ lots'[m].packaged = lots[m].packaged + n
      /\ lots'[m].onHand = lots[m].onHand + n
      /\ lots'[m].removed = lots[m].removed
  <2> DEFINE k == IF lots[m].run = NotStored THEN Len(runs) + 1 ELSE lots[m].run
             a == lots[m].onHand + n
             b == lots[m].packaged + n
             row == [lots[m] EXCEPT !.run = k, !.onHand = a, !.packaged = b]
  <2>1. lots' = [lots EXCEPT ![m] = row]
    BY <1>0, <1>1, <1>2, RowOf DEF CommitBottlingRun, FillLot
  <2>2. k = IF Stored(m) THEN lots[m].run ELSE Len(runs) + 1
    BY DEF Stored
  <2> HIDE DEF k
  <2>3. /\ row.run = k /\ row.packaged = b /\ row.onHand = a
        /\ row.removed = lots[m].removed
    BY <1>0, RowOf DEF Lot
  <2> HIDE DEF row
  <2>4. lots'[m] = row /\ \A l \in Lots : l # m => lots'[l] = lots[l]
    BY <1>0, <2>1, RowOf
  <2> QED BY <2>2, <2>3, <2>4
<1>4. lots'[m].run # NotStored
  <2>1. Len(runs) \in Nat
    BY <1>0 DEF RunsOK
  <2> QED BY <1>3, <2>1 DEF Stored, NotStored
<1>5. ASSUME NEW l \in Lots PROVE Balanced(l)'
  <2>1. PICK b \in Int : b = IF l = m THEN n ELSE 0
    OBVIOUS
  <2>2. Bottled(l)' = Bottled(l) + b
    BY <1>0, <1>1, <1>2, <2>1, BottledMore
  <2>3. \A K : Filed(l, K)' = Filed(l, K) + 0
    <3>1. \A K : Filed(l, K)' = Filed(l, K) /\ Filed(l, K) \in Int
      BY <1>0, FiledNumber DEF Filed
    <3> QED BY <3>1
  <2>4. /\ Filed(l, {"adopted"})' = Filed(l, {"adopted"}) + 0
        /\ Filed(l, {"count", "saleable"})' = Filed(l, {"count", "saleable"}) + 0
        /\ Filed(l, Outward)' = Filed(l, Outward) + 0
        /\ Filed(l, {"saleable"})' = Filed(l, {"saleable"}) + 0
    BY <2>3
  <2>5. /\ lots'[l].packaged = lots[l].packaged + b + 0
        /\ lots'[l].onHand = lots[l].onHand + b + 0 + 0 - 0
        /\ lots'[l].removed = lots[l].removed + 0 - 0
    BY <1>0, <1>3, <2>1, RowOf
  <2>6. 0 \in Int /\ PackagingTypeOK /\ Balanced(l)
    BY <1>0
  <2> QED BY <2>2, <2>4, <2>5, <2>6, BalancedMoved
<1>6. LotsAgree'
  BY <1>5 DEF LotsAgree, Balanced
<1>7. LotsKnown'
  <2>1. \A l \in Lots : Stored(l) => lots'[l].run # NotStored
    BY <1>3, <1>4 DEF Stored
  <2>2. \A d \in DOMAIN docs : docs[d].lot \in Lots
    BY <1>0, DocsFinite DEF Doc
  <2>3. \A r \in DOMAIN runs : runs[r].lot \in Lots
    BY <1>0, RunsFinite DEF Run
  <2>4. \A r \in DOMAIN runs' : \/ r \in DOMAIN runs /\ runs'[r] = runs[r]
                                \/ runs'[r] = run
    BY <1>0, <1>1 DEF RunsOK
  <2>5. \A r \in DOMAIN runs' : lots'[runs'[r].lot].run # NotStored
    BY <1>2, <1>4, <2>1, <2>3, <2>4 DEF Accounted, LotsKnown
  <2>6. \A d \in DOMAIN docs' : /\ lots'[docs'[d].lot].run # NotStored
                                /\ docs'[d].kind = "saleable" => docs'[d].bottles \in Nat
    BY <1>0, <2>1, <2>2 DEF Accounted, LotsKnown
  <2> QED BY <2>5, <2>6 DEF LotsKnown, Stored
<1> QED BY <1>6, <1>7

LEMMA VoidAccounted ==
  ASSUME Accounted, NEW s \in DOMAIN runs, VoidBottlingRun(s)
  PROVE  LotsAgree' /\ LotsKnown'
<1>0. /\ PackagingTypeOK /\ LotsOK /\ DocsOK /\ RunsOK /\ UNCHANGED docs
      /\ \A l \in Lots : Balanced(l)
  BY TypeParts, AgreeIsBalanced DEF Accounted, VoidBottlingRun
<1>1. PICK m \in Lots, n \in Nat : m = runs[s].lot /\ n = runs[s].bottles
  BY <1>0, RunsFinite DEF Run
<1>2. /\ \A l \in Lots : l # m => lots'[l] = lots[l]
      /\ lots'[m].run = lots[m].run
      /\ lots'[m].packaged = lots[m].packaged - n
      /\ lots'[m].onHand = lots[m].onHand - n
      /\ lots'[m].removed = lots[m].removed
  <2> DEFINE a == lots[m].onHand - n
             b == lots[m].packaged - n
             row == [lots[m] EXCEPT !.onHand = a, !.packaged = b]
  <2>1. lots' = [lots EXCEPT ![m] = row]
    BY <1>0, <1>1, RowOf DEF VoidBottlingRun
  <2>2. /\ row.run = lots[m].run /\ row.packaged = b /\ row.onHand = a
        /\ row.removed = lots[m].removed
    BY <1>0, RowOf DEF Lot
  <2> HIDE DEF row
  <2>3. lots'[m] = row /\ \A l \in Lots : l # m => lots'[l] = lots[l]
    BY <1>0, <2>1, RowOf
  <2> QED BY <2>2, <2>3
<1>3. ASSUME NEW l \in Lots PROVE Balanced(l)'
  <2>1. PICK b \in Int : b = IF l = m THEN -n ELSE 0
    OBVIOUS
  <2>2. Bottled(l)' = Bottled(l) + b
    <3>1. Bottled(l)' = Bottled(l) - IF l = m THEN n ELSE 0
      BY <1>0, <1>1, BottledLess
    <3>2. Bottled(l) \in Int
      BY <1>0, BottledNumber
    <3> QED BY <2>1, <3>1, <3>2
  <2>3. \A K : Filed(l, K)' = Filed(l, K) + 0
    <3>1. \A K : Filed(l, K)' = Filed(l, K) /\ Filed(l, K) \in Int
      BY <1>0, FiledNumber DEF Filed
    <3> QED BY <3>1
  <2>4. /\ Filed(l, {"adopted"})' = Filed(l, {"adopted"}) + 0
        /\ Filed(l, {"count", "saleable"})' = Filed(l, {"count", "saleable"}) + 0
        /\ Filed(l, Outward)' = Filed(l, Outward) + 0
        /\ Filed(l, {"saleable"})' = Filed(l, {"saleable"}) + 0
    BY <2>3
  <2>5. /\ lots'[l].packaged = lots[l].packaged + b + 0
        /\ lots'[l].onHand = lots[l].onHand + b + 0 + 0 - 0
        /\ lots'[l].removed = lots[l].removed + 0 - 0
    BY <1>0, <1>2, <2>1, RowOf
  <2>6. 0 \in Int /\ PackagingTypeOK /\ Balanced(l)
    BY <1>0
  <2> QED BY <2>2, <2>4, <2>5, <2>6, BalancedMoved
<1>4. LotsAgree'
  BY <1>3 DEF LotsAgree, Balanced
<1>5. LotsKnown'
  <2>1. \A l \in Lots : lots'[l].run = lots[l].run
    BY <1>2
  <2>2. \A d \in DOMAIN docs : docs[d].lot \in Lots
    BY <1>0, DocsFinite DEF Doc
  <2>3. \A r \in DOMAIN runs : runs[r].lot \in Lots
    BY <1>0, RunsFinite DEF Run
  <2>4. /\ DOMAIN runs' = DOMAIN runs
        /\ \A r \in DOMAIN runs : runs'[r].lot = runs[r].lot
    <3>1. /\ Len(runs') = Len(runs) /\ runs' \in Seq(Run)
          /\ \A r \in DOMAIN runs : runs'[r].lot = runs[r].lot
      BY <1>0, VoidedRun
    <3> QED BY <1>0, <3>1 DEF RunsOK
  <2> QED BY <1>0, <2>1, <2>2, <2>3, <2>4 DEF Accounted, LotsKnown, Stored
<1> QED BY <1>4, <1>5

LEMMA InitAccounted == PackagingInit => Accounted
<1> SUFFICES ASSUME PackagingInit PROVE Accounted
  OBVIOUS
<1>1. PackagingTypeOK /\ LotsKnown
  BY InitTyped DEF PackagingInit, LotsKnown
<1>2. ASSUME NEW l \in Lots PROVE Balanced(l)
  <2>1. \A K : {d \in DOMAIN docs :
                  docs[d].lot = l /\ docs[d].kind \in K /\ ~docs[d].voided} = {}
    BY DEF PackagingInit
  <2>2. {r \in DOMAIN runs : runs[r].lot = l /\ ~runs[r].voided} = {}
    BY DEF PackagingInit
  <2>3. Bottled(l) = 0 /\ \A K : Filed(l, K) = 0
    BY <2>1, <2>2, SumEmpty DEF Bottled, Filed
  <2> QED BY <2>3 DEF PackagingInit, Balanced
<1> QED BY <1>1, <1>2, AgreeIsBalanced DEF Accounted

LEMMA StepAccounted ==
  ASSUME Accounted, [PackagingNext]_packagingVars
  PROVE  Accounted'
<1>1. PackagingTypeOK'
  BY StepTyped DEF Accounted
<1> SUFFICES LotsAgree' /\ LotsKnown'
  BY <1>1 DEF Accounted
<1>2. CASE UNCHANGED <<lots, runs, docs>>
  BY <1>2, BooksAsTheyWere
<1>3. CASE \E c \in Callers : CommitBottlingRun(c)
  BY <1>3, CommitAccounted
<1>4. CASE \E r \in DOMAIN runs : VoidBottlingRun(r)
  BY <1>4, VoidAccounted
<1>5. CASE \E l \in Lots, n \in Quantities : CreateRemoval(l, n) \/ UnpackageToBulk(l, n)
  BY <1>5, RemovalAccounted
<1>6. CASE \E l \in Lots, n \in Quantities, condition \in Returns : RecordPackagedReturn(l, n, condition)
  BY <1>6, ReturnAccounted
<1>7. CASE \E d \in DOMAIN docs : VoidRemoval(d) \/ VoidPackagedReturn(d)
  BY <1>7, StrikeAccounted
<1>8. CASE \E l \in Lots, n \in Quantities \cup {0} : PostStockCount(l, n) \/ AdoptPackaged(l, n)
  BY <1>8, CountAccounted, AdoptAccounted
<1>9. CASE \E l \in Lots, held \in BOOLEAN : SetHold(l, held)
  <2>1. PICK m \in Lots, held \in BOOLEAN : SetHold(m, held)
    BY <1>9
  <2>2. LotsOK
    BY TypeParts DEF Accounted
  <2>3. ASSUME NEW l \in Lots
        PROVE  /\ lots'[l].run = lots[l].run /\ lots'[l].packaged = lots[l].packaged
               /\ lots'[l].onHand = lots[l].onHand /\ lots'[l].removed = lots[l].removed
    BY <2>1, <2>2, RowOf DEF SetHold, Lot
  <2> QED BY <2>1, <2>3, BooksAsTheyWere DEF SetHold
<1> QED BY <1>2, <1>3, <1>4, <1>5, <1>6, <1>7, <1>8, <1>9
        DEF PackagingNext, packagingVars, ReceiveStampOrder, RecordStampDisposition,
            PlanBottlingRun, AbandonBottlingRun, ChangeLicence

\* Whatever operators do, a lot's three counters are what its runs and documents that
\* stand add up to: none of the handlers that move them by so much misses a case.
THEOREM CountersAddUp == PackagingSpec => []LotsAgree
<1>1. PackagingInit => Accounted
  BY InitAccounted
<1>2. Accounted /\ [PackagingNext]_packagingVars => Accounted'
  BY StepAccounted
<1>3. Accounted => LotsAgree
  BY DEF Accounted
<1> QED BY <1>1, <1>2, <1>3, PTL DEF PackagingSpec


=============================================================================
