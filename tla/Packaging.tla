----------------------------- MODULE Packaging -----------------------------
(***************************************************************************)
(* Packaged spirits: rolls of excise stamps, the bottling runs that use    *)
(* them up, the lots of bottles the runs fill, and everything that takes   *)
(* bottles out of a lot or puts them back (backend/internal/rpc:           *)
(* bottling.go, removal_core.go, removal.go, packaged_return.go,           *)
(* bulk_external.go, stockcount.go, excise_stamp.go, stamp_disposition.go, *)
(* lab.go, dutypoint.go).                                                  *)
(*                                                                         *)
(* Each RPC is a READ COMMITTED transaction.  Those that work on a lot     *)
(* lock its row or update it in place, and are one step here.  A bottling  *)
(* run locks only the tank it draws from: it reads the stamps that are     *)
(* left, without a lock, and uses them up later, so it is two steps.  How  *)
(* much a tank holds is BulkBooks', and which days are filed B266Filing's. *)
(***************************************************************************)
EXTENDS Integers, Sequences, FiniteSetsExt

CONSTANTS
  Lots,        \* (product, lot code, jurisdiction), each of its own code
  Orders,      \* stamp orders, an older one a smaller number
  StampsFor,   \* the orders of a lot's jurisdiction
  RollSizes,   \* the stamps a delivery may hold
  Starts,      \* the first serials it may begin with
  Tanks,
  Callers,     \* bottling runs in hand
  Idle,        \* a caller without one
  Batches,     \* the bottles of a bottling run
  Losses,      \* the stamps of a disposition
  Quantities,  \* the bottles of any other document
  Careful,     \* the rules operators keep
  MaxRuns,     \* bounds of the model
  MaxDocs

NotStored == -1   \* a lot that has no row yet
NoRun     == 0    \* the run of a lot that was adopted

\* The first serial of a delivery, or of a run, that has none on record.
Unnumbered == -1

\* Of what no handler refuses: two bottling runs in hand on one roll, to void a run
\* before those that took later stamps, a second receipt with other serials, a dutied
\* run into a lot that was adopted, and to void a dutied run some of whose bottles
\* are removed, or to remove some afterwards.
Rules == {"one bottler", "newest first", "same serials", "apart", "settled"}

\* A run's stamps of a roll: it prints count of them, from serial first onwards.
Serials == [first : Nat \cup {Unnumbered}, count : Nat]

Plan == [lot : Lots, bottles : Nat, tank : Tanks, use : [Orders -> Serials]]

Run == [lot : Lots, bottles : Nat, tank : Tanks, use : [Orders -> Serials],
        dutied : BOOLEAN, voided : BOOLEAN]

Outward == {"removal", "unpackaged"}
Returns == {"saleable", "unsaleable"}
Kinds   == Outward \cup Returns \cup {"count", "adopted"}

\* A removal, a return, an unpackaging, a count's adjustment or an adoption.
Doc == [kind : Kinds, lot : Lots, bottles : Int, dutied : BOOLEAN, voided : BOOLEAN]

ASSUME PackagingAssumption ==
  /\ Orders \subseteq Nat
  /\ StampsFor \in [Lots -> SUBSET Orders]
  /\ RollSizes \subseteq Nat \ {0}
  /\ Starts \subseteq Nat \cup {Unnumbered}
  /\ Batches \cup Losses \cup Quantities \subseteq Nat \ {0}
  /\ Careful \subseteq Rules
  /\ MaxRuns \in Nat /\ MaxDocs \in Nat
  /\ Idle \notin Plan

VARIABLES
  orders,     \* excise_stamp_orders
  runs,       \* bottling_runs and bottling_run_stamp_usage
  lots,       \* packaged_inventory
  docs,       \* packaging_removals, packaged_returns, adjustments, unpackagings
  dutyPoint,  \* tenants.duty_point, at packaging or at removal
  bottling    \* what a bottling run in hand has read

packagingVars == <<orders, runs, lots, docs, dutyPoint, bottling>>

-----------------------------------------------------------------------------
Stored(l) == lots[l].run # NotStored

\* DutiedAtPackaging by the basis of the day.
BasisOfTheDay(l) == dutyPoint = "at_packaging"

\* The bottling run's own duty amount says who pays.
DutiedAtPackaging(l) == lots[l].run > 0 /\ runs[lots[l].run].dutied

Available(o) == orders[o].received - orders[o].applied - orders[o].voided

\* FirstSerial, from the start of the roll.
StartOfRoll(o) == orders[o].start

\* computeStampRange counts from the stamps applied so far; without a first serial
\* on record there is no range.
FirstSerial(o) ==
  IF orders[o].start = Unnumbered THEN Unnumbered ELSE orders[o].start + orders[o].applied

\* The stamps of n bottles of l, the oldest order first.
Fifo(l, n, take) ==
  /\ MapThenSumSet(LAMBDA o : take[o], Orders) = n
  /\ \A o \in Orders : take[o] > 0 =>
       /\ o \in StampsFor[l]
       /\ take[o] <= Available(o)
       /\ \A p \in StampsFor[l] :
            p < o /\ Available(p) > 0 => take[p] = Available(p)

\* A bottling run holds its tank's row.
Free(t) == \A c \in Callers : bottling[c] # Idle => bottling[c].tank # t

\* Stamps a run in hand has read.
Reserved(o) == \E c \in Callers : bottling[c] # Idle /\ bottling[c].use[o].count > 0

\* One bottling run at a time to a roll.
OneBottlerPerRoll(use) ==
  \A o \in Orders : use[o].count > 0 => ~Reserved(o)

\* bottling_runs is UNIQUE on the lot code, voided runs included.
Unbottled(l) == \A r \in DOMAIN runs : runs[r].lot # l

\* No dutied run goes into a lot that was adopted.
ApartFromAdopted(l, dutied) == lots[l].run = NoRun => ~dutied

\* It prints serials.
Numbered(serials) == serials.count > 0 /\ serials.first # Unnumbered

\* Runs are voided in the reverse order of their stamps.
NewestOfItsRolls(r) ==
  \A o \in Orders : Numbered(runs[r].use[o]) =>
    /\ ~Reserved(o)
    /\ runs[r].use[o].first + runs[r].use[o].count = FirstSerial(o)

\* A dutied run is voided before bottles of its lot are removed, or not at all.
NoneRemoved(r) ==
  runs[r].dutied =>
    \A d \in DOMAIN docs :
      docs[d].kind = "removal" /\ docs[d].lot = runs[r].lot => docs[d].voided

\* No dutied run of it has been taken back.
DutyStands(l) ==
  \A r \in DOMAIN runs : runs[r].lot = l /\ runs[r].dutied => ~runs[r].voided

\* The INSERT of a document about a lot.
File(kind, l, n, dutied) ==
  /\ Len(docs) < MaxDocs
  /\ docs' = Append(docs, [kind |-> kind, lot |-> l, bottles |-> n,
                           dutied |-> dutied, voided |-> FALSE])

Strike(d) == docs' = [docs EXCEPT ![d].voided = TRUE]

\* DecrementPackagedOnHand, of n bottles, and with -n IncrementPackagedOnHand;
\* the CHECKs keep both counters from going negative.
TakeOut(l, n) ==
  /\ n <= lots[l].onHand
  /\ 0 <= lots[l].removed + n
  /\ lots' = [lots EXCEPT ![l].onHand = @ - n, ![l].removed = @ + n]

\* Restock, leaving bottles_removed alone.
RestockOnly(l, n) ==
  /\ 0 <= lots[l].onHand + n
  /\ lots' = [lots EXCEPT ![l].onHand = @ + n]

\* RestockFromReturn.
Restock(l, n) ==
  /\ 0 <= lots[l].onHand + n
  /\ lots' = [lots EXCEPT ![l].onHand = @ + n,
                          ![l].removed = IF @ > n THEN @ - n ELSE 0]

-----------------------------------------------------------------------------
(* Stamps *)

\* A receipt that starts the order afresh.
ReceiveAfresh(o, n, start) ==
  /\ orders[o].applied + orders[o].voided <= n
  /\ "same serials" \in Careful =>
       orders[o].received = 0 \/ start = orders[o].start
  /\ orders' = [orders EXCEPT ![o] = [received |-> n, applied |-> 0, voided |-> 0,
                                      start |-> start]]
  /\ UNCHANGED <<runs, lots, docs, dutyPoint, bottling>>

\* Nothing stops a second receipt of the same order: it overwrites the first, serials
\* included, and leaves what was applied and lost.
ReceiveStampOrder(o, n, start) ==
  /\ orders[o].applied + orders[o].voided <= n
  /\ "same serials" \in Careful =>
       orders[o].received = 0 \/ start = orders[o].start
  /\ orders' = [orders EXCEPT ![o].received = n, ![o].start = start]
  /\ UNCHANGED <<runs, lots, docs, dutyPoint, bottling>>

RecordStampDisposition(o, n) ==
  /\ n <= Available(o)
  /\ orders' = [orders EXCEPT ![o].voided = @ + n]
  /\ UNCHANGED <<runs, lots, docs, dutyPoint, bottling>>

-----------------------------------------------------------------------------
(* Bottling *)

\* CreateBottlingRun up to its reads: the tank's row is locked, the stamps are
\* chosen from the orders as they stand.
PlanBottlingRun(c, l, n, t) ==
  /\ bottling[c] = Idle
  /\ Free(t)
  /\ \E take \in [Orders -> 0..n] :
       LET use == [o \in Orders |-> [first |-> FirstSerial(o), count |-> take[o]]] IN
       /\ Fifo(l, n, take)
       /\ "one bottler" \in Careful => OneBottlerPerRoll(use)
       /\ bottling' = [bottling EXCEPT ![c] = [lot |-> l, bottles |-> n, tank |-> t,
                                               use |-> use]]
  /\ UNCHANGED <<orders, runs, lots, docs, dutyPoint>>

\* IncrementStampOrderApplied, with the orders' CHECK.
ApplyStamps(use) ==
  /\ \A o \in Orders : use[o].count <= Available(o)
  /\ orders' = [o \in Orders |-> [orders[o] EXCEPT !.applied = @ + use[o].count]]

\* UpsertPackagedInventory: a lot that was adopted stays without a run.
FillLot(l, run, n) ==
  lots' = [lots EXCEPT ![l].run = IF @ = NotStored THEN run ELSE @,
                       ![l].onHand = @ + n, ![l].packaged = @ + n]

\* The rest of CreateBottlingRun.  Under the packaging basis a run is a duty
\* event unless it is dated before the cutover.
CommitBottlingRun(c) ==
  /\ bottling[c] # Idle
  /\ Len(runs) < MaxRuns
  /\ Unbottled(bottling[c].lot)
  /\ \E dutied \in BOOLEAN :
       /\ dutied => dutyPoint = "at_packaging"
       /\ "apart" \in Careful => ApartFromAdopted(bottling[c].lot, dutied)
       /\ runs' = Append(runs, [lot |-> bottling[c].lot, bottles |-> bottling[c].bottles,
                                tank |-> bottling[c].tank, use |-> bottling[c].use,
                                dutied |-> dutied, voided |-> FALSE])
  /\ ApplyStamps(bottling[c].use)
  /\ FillLot(bottling[c].lot, Len(runs) + 1, bottling[c].bottles)
  /\ bottling' = [bottling EXCEPT ![c] = Idle]
  /\ UNCHANGED <<docs, dutyPoint>>

\* An error, or a client that went away.
AbandonBottlingRun(c) ==
  /\ bottling[c] # Idle
  /\ bottling' = [bottling EXCEPT ![c] = Idle]
  /\ UNCHANGED <<orders, runs, lots, docs, dutyPoint>>

VoidBottlingRun(r) ==
  /\ ~runs[r].voided
  /\ Free(runs[r].tank)
  /\ "newest first" \in Careful => NewestOfItsRolls(r)
  /\ "settled" \in Careful => NoneRemoved(r)
  /\ \A o \in Orders : runs[r].use[o].count <= orders[o].applied
  /\ runs[r].bottles <= lots[runs[r].lot].onHand
  /\ runs[r].bottles <= lots[runs[r].lot].packaged
  /\ runs' = [runs EXCEPT ![r].voided = TRUE]
  /\ orders' = [o \in Orders |-> [orders[o] EXCEPT !.applied = @ - runs[r].use[o].count]]
  /\ lots' = [lots EXCEPT ![runs[r].lot].onHand = @ - runs[r].bottles,
                          ![runs[r].lot].packaged = @ - runs[r].bottles]
  /\ UNCHANGED <<docs, dutyPoint, bottling>>

\* The duty point follows from the warehouse licence.
ChangeLicence ==
  /\ dutyPoint' = IF dutyPoint = "at_packaging" THEN "at_removal" ELSE "at_packaging"
  /\ UNCHANGED <<orders, runs, lots, docs, bottling>>

-----------------------------------------------------------------------------
(* Bottles *)

\* recordRemoval.
CreateRemoval(l, n) ==
  /\ Stored(l)
  /\ ~lots[l].held
  /\ "settled" \in Careful => DutyStands(l)
  /\ TakeOut(l, n)
  /\ File("removal", l, n, ~DutiedAtPackaging(l))
  /\ UNCHANGED <<orders, runs, dutyPoint, bottling>>

VoidRemoval(d) ==
  /\ docs[d].kind = "removal" /\ ~docs[d].voided
  /\ Strike(d)
  /\ TakeOut(docs[d].lot, -docs[d].bottles)
  /\ UNCHANGED <<orders, runs, dutyPoint, bottling>>

\* unpackageToBulk asks neither whether the lot is held nor for its duty back.
UnpackageToBulk(l, n) ==
  /\ Stored(l)
  /\ TakeOut(l, n)
  /\ File("unpackaged", l, n, FALSE)
  /\ UNCHANGED <<orders, runs, dutyPoint, bottling>>

RecordPackagedReturn(l, n, condition) ==
  /\ Stored(l)
  /\ n <= lots[l].removed
  /\ File(condition, l, n, FALSE)
  /\ IF condition = "saleable" THEN Restock(l, n) ELSE UNCHANGED lots
  /\ UNCHANGED <<orders, runs, dutyPoint, bottling>>

VoidPackagedReturn(d) ==
  /\ docs[d].kind \in Returns /\ ~docs[d].voided
  /\ Strike(d)
  /\ IF docs[d].kind = "saleable"
     THEN Restock(docs[d].lot, -docs[d].bottles)
     ELSE UNCHANGED lots
  /\ UNCHANGED <<orders, runs, dutyPoint, bottling>>

\* PostStockCount, a line about a lot whose count is not the book's.
PostStockCount(l, counted) ==
  /\ Stored(l)
  /\ counted # lots[l].onHand
  /\ File("count", l, counted - lots[l].onHand, FALSE)
  /\ lots' = [lots EXCEPT ![l].onHand = counted]
  /\ UNCHANGED <<orders, runs, dutyPoint, bottling>>

\* The importer's loadPackaged; the lot's key is unique.
AdoptPackaged(l, n) ==
  /\ ~Stored(l)
  /\ File("adopted", l, n, FALSE)
  /\ lots' = [lots EXCEPT ![l].run = NoRun, ![l].onHand = n, ![l].packaged = n]
  /\ UNCHANGED <<orders, runs, dutyPoint, bottling>>

\* HoldLot and ReleaseLot.
SetHold(l, held) ==
  /\ Stored(l)
  /\ lots' = [lots EXCEPT ![l].held = held]
  /\ UNCHANGED <<orders, runs, docs, dutyPoint, bottling>>

-----------------------------------------------------------------------------
PackagingInit ==
  /\ orders = [o \in Orders |-> [received |-> 0, applied |-> 0, voided |-> 0,
                                 start |-> Unnumbered]]
  /\ runs = << >>
  /\ lots = [l \in Lots |-> [run |-> NotStored, onHand |-> 0, packaged |-> 0,
                             removed |-> 0, held |-> FALSE]]
  /\ docs = << >>
  /\ dutyPoint \in {"at_packaging", "at_removal"}
  /\ bottling = [c \in Callers |-> Idle]

PackagingNext ==
  \/ \E o \in Orders, n \in RollSizes, start \in Starts : ReceiveStampOrder(o, n, start)
  \/ \E o \in Orders, n \in Losses : RecordStampDisposition(o, n)
  \/ \E c \in Callers, l \in Lots, n \in Batches, t \in Tanks : PlanBottlingRun(c, l, n, t)
  \/ \E c \in Callers : CommitBottlingRun(c) \/ AbandonBottlingRun(c)
  \/ \E r \in DOMAIN runs : VoidBottlingRun(r)
  \/ ChangeLicence
  \/ \E l \in Lots, n \in Quantities : CreateRemoval(l, n) \/ UnpackageToBulk(l, n)
  \/ \E l \in Lots, n \in Quantities, condition \in Returns : RecordPackagedReturn(l, n, condition)
  \/ \E d \in DOMAIN docs : VoidRemoval(d) \/ VoidPackagedReturn(d)
  \/ \E l \in Lots, n \in Quantities \cup {0} : PostStockCount(l, n) \/ AdoptPackaged(l, n)
  \/ \E l \in Lots, held \in BOOLEAN : SetHold(l, held)

PackagingSpec == PackagingInit /\ [][PackagingNext]_packagingVars

-----------------------------------------------------------------------------
(* Properties *)

\* Every row has its columns' types and no counter is negative, with the CHECK of
\* the orders: no more stamps applied or lost than were received.
PackagingTypeOK ==
  /\ orders \in [Orders -> [received : Nat, applied : Nat, voided : Nat,
                            start : Nat \cup {Unnumbered}]]
  /\ \A o \in Orders : Available(o) >= 0
  /\ runs \in Seq(Run)
  /\ lots \in [Lots -> [run : Int, onHand : Nat, packaged : Nat, removed : Nat,
                        held : BOOLEAN]]
  /\ \A l \in Lots : lots[l].run \in {NotStored, NoRun} \cup DOMAIN runs
  /\ docs \in Seq(Doc)
  /\ dutyPoint \in {"at_packaging", "at_removal"}
  /\ bottling \in [Callers -> Plan \cup {Idle}]

Bottled(l) ==
  SumFunctionOnSet([r \in DOMAIN runs |-> runs[r].bottles],
                   { r \in DOMAIN runs : runs[r].lot = l /\ ~runs[r].voided })

Filed(l, kinds) ==
  SumFunctionOnSet([d \in DOMAIN docs |-> docs[d].bottles],
                   { d \in DOMAIN docs :
                       docs[d].lot = l /\ docs[d].kind \in kinds /\ ~docs[d].voided })

\* A lot's three counters, each moved by relative updates from eight handlers, stay
\* what the runs and documents that are not voided say they are.
LotsAgree ==
  \A l \in Lots :
    /\ lots[l].packaged = Bottled(l) + Filed(l, {"adopted"})
    /\ lots[l].onHand = lots[l].packaged + Filed(l, {"count", "saleable"}) - Filed(l, Outward)
    /\ lots[l].removed = Filed(l, Outward) - Filed(l, {"saleable"})

Live == { r \in DOMAIN runs : ~runs[r].voided }

\* An order's counter of applied stamps is what the runs that stand have used, whatever
\* is voided, lost and received again: VoidBottlingRun reverses each stamp allocation
\* (DecrementStampOrderApplied).  What the repository says of stamps elsewhere is
\* StampsStayApplied, which that step breaks.
StampsAgree ==
  \A o \in Orders :
    orders[o].applied =
      SumFunctionOnSet([r \in DOMAIN runs |-> runs[r].use[o].count], Live)

\* "The stamps were applied to bottles, and voiding the run does not un-apply them"
\* (stamp_dispositions.sql): the counter is what all the runs have used.
StampsStayApplied ==
  \A o \in Orders :
    orders[o].applied =
      SumFunctionOnSet([r \in DOMAIN runs |-> runs[r].use[o].count], DOMAIN runs)

\* Two runs print one serial.
Overlap(q, r, o) ==
  /\ Numbered(runs[q].use[o]) /\ Numbered(runs[r].use[o])
  /\ runs[q].use[o].first < runs[r].use[o].first + runs[r].use[o].count
  /\ runs[r].use[o].first < runs[q].use[o].first + runs[q].use[o].count

\* No serial is on the bottles of two runs that stand, and none is outside its roll,
\* across voids, losses and second receipts.
SerialsDistinct ==
  \A r \in Live, o \in Orders :
    /\ Numbered(runs[r].use[o]) =>
         /\ orders[o].start <= runs[r].use[o].first
         /\ runs[r].use[o].first + runs[r].use[o].count <= orders[o].start + orders[o].received
    /\ \A q \in Live \ {r} : ~Overlap(q, r, o)

\* No two runs claim one serial (ReconcileStampOrder), voided runs among them: their
\* stamps stay on their bottles.
SerialsClaimedOnce ==
  \A q, r \in DOMAIN runs : q # r => \A o \in Orders : ~Overlap(q, r, o)

\* "No litre is dutied twice or dutied never" (removal_core.go): a bottle that leaves
\* carries duty, or the run that filled its lot does and still stands, and never both
\* or neither, whatever happened to the licence, the run or the lot in between.
DutiedOnce ==
  \A d \in DOMAIN docs :
    docs[d].kind = "removal" /\ ~docs[d].voided =>
      docs[d].dutied # (\E r \in Live : runs[r].lot = docs[d].lot /\ runs[r].dutied)

=============================================================================
