----------------------------- MODULE BulkBooks -----------------------------
(***************************************************************************)
(* The bulk alcohol ledger, one operation at a time: the stored balance of *)
(* every container, the journal (bulk_movements) that explains it, and the *)
(* operator events that can later be voided.  Each action is the whole     *)
(* effect of one RPC of backend/internal/rpc that writes a balance; module *)
(* BulkLedger runs the same actions as concurrent PostgreSQL transactions. *)
(*                                                                         *)
(* Every action takes the balances b it computes from.  Here b is bal; in  *)
(* BulkLedger it is the copy a transaction read under its row locks, which *)
(* is what makes a stale read visible.                                     *)
(*                                                                         *)
(* Amounts are whole units.  A balance carries, beside its litres and its  *)
(* litres of absolute alcohol (LAA), the LAA its recorded strength implies *)
(* (volume times current_abv_pct): the code stores all three columns and   *)
(* different handlers trust different ones.                                *)
(***************************************************************************)
EXTENDS Integers, Sequences

CONSTANTS
  Containers,   \* ids of bulk_containers, numbers so that they sort
  Barrels,      \* the containers of kind barrel
  NoVessel,     \* a NULL source or destination
  Capacity,     \* capacity_l of each container
  Opening,      \* the balance each container starts with
  Pure,         \* units of LAA in one litre at 100 %
  Tolerance,    \* fillStrengthToleranceABV, in units of LAA per litre
  Requests,     \* the requests operators send
  Careful,      \* TRUE: operators keep to Disciplined, FALSE: they need not
  MaxLitres, MaxLaa, MaxEvents   \* bounds of the model

Balance == [vol : Nat, laa : Nat, imp : Nat]
Vessel  == Containers \cup {NoVessel}

RequestOps ==
  { "AdoptOpeningInventory", "RecordProductionGauge", "FillBarrel",
    "DumpBarrel", "RegaugeBarrel", "CreateBlend", "RecordInventoryAdjustment",
    "ReceiveExternal", "ShipExternal", "StartRedistillation", "HandOver",
    "TakeBack", "CreateBottlingRun", "MarkContainer", "UnmarkContainer",
    "VoidBarrelEvent", "VoidDistillationRun", "VoidBottlingRun" }

\* also and more are the second source of a blend; event is what is voided.
Request == [op : RequestOps, src : Vessel, also : Vessel, dst : Vessel,
            vol : Nat, more : Nat, laa : Nat, event : Nat]

EventKinds == {"fill", "dump", "adopt", "gauge", "bottle", "mark"}
Event == [kind : EventKinds, src : Vessel, dst : Vessel,
          vol : Nat, laa : Nat, voided : BOOLEAN]

ASSUME ContainersAssumption ==
  /\ Containers \subseteq Nat
  /\ Barrels \subseteq Containers
  /\ NoVessel \notin Containers
  /\ Capacity \in [Containers -> Nat]

\* Books start where adoption leaves them: each strength agrees with its LAA.
ASSUME OpeningAssumption ==
  /\ Opening \in [Containers -> Balance]
  /\ \A c \in Containers : /\ Opening[c].imp = Opening[c].laa
                           /\ Opening[c].vol = 0 => Opening[c].laa = 0

\* The vessels each kind of request names.
DrawingOps == { "ShipExternal", "StartRedistillation", "CreateBottlingRun",
                "MarkContainer" }
MovingOps  == { "FillBarrel", "DumpBarrel", "CreateBlend" }
PuttingOps == { "AdoptOpeningInventory", "RecordProductionGauge",
                "ReceiveExternal", "RegaugeBarrel",
                "RecordInventoryAdjustment", "HandOver", "TakeBack" }

\* What the handlers validate before they open a transaction: the vessels are
\* given, and no measurement is stronger than pure alcohol.
WellFormed(r) ==
  /\ r.op \in DrawingOps \cup MovingOps \cup PuttingOps
  /\ r.src \in Containers <=> r.op \in DrawingOps \cup MovingOps
  /\ r.dst \in Containers <=> r.op \in MovingOps \cup PuttingOps
  /\ r.also \in Containers <=> r.op = "CreateBlend"
  /\ r.laa <= Pure * r.vol

ASSUME RequestsAssumption ==
  /\ Requests \subseteq Request
  /\ \A r \in Requests : WellFormed(r)
  /\ Pure \in Nat /\ Tolerance \in Nat
  /\ Careful \in BOOLEAN
  /\ MaxLitres \in Nat /\ MaxLaa \in Nat /\ MaxEvents \in Nat

VARIABLES
  bal,      \* current_volume_l, current_laa and the LAA current_abv_pct implies
  held,     \* possession = 'held'
  net,      \* LAA the journal has moved into each container less what it moved out
  events    \* what may be voided: barrel events, gauges, bottling runs, fills of
            \* marked containers, in the order they were recorded

booksVars == <<bal, held, net, events>>

Vessels(r) == {r.src, r.also, r.dst} \ {NoVessel}

-----------------------------------------------------------------------------
(* The arithmetic of bulk.go. *)

Empty == [vol |-> 0, laa |-> 0, imp |-> 0]

\* v litres measured to hold a LAA: the strength is derived from the two.
Gauged(v, a) == [vol |-> v, laa |-> a, imp |-> a]

\* Wrong forms of the operators below, for the checks to catch: a deposit that
\* leaves the strength as it was, and a withdrawal that carries the strength over
\* (a bug this code once had).
DepositKeepingStrength(b, v, a) ==
  [vol |-> b.vol + v, laa |-> b.laa + a,
   imp |-> IF b.vol = 0 THEN a ELSE (b.imp * (b.vol + v)) \div b.vol]

WithdrawKeepingStrength(b, v, a) ==
  IF b.vol <= v THEN Empty
  ELSE Gauged(b.vol - v, (b.imp * (b.vol - v)) \div b.vol)

\* applyDeposit weights by the recorded strength and never reads current_laa.
Deposit(b, v, a) == Gauged(b.vol + v, b.imp + a)

\* applyWithdrawal derives the strength of what is left; a vessel drawn to the
\* bottom is zeroed whatever LAA its row still had.
Withdraw(b, v, a) ==
  IF b.vol <= v THEN Empty
  ELSE Gauged(b.vol - v, IF a <= b.laa THEN b.laa - a ELSE 0)

\* v litres holding a LAA leave, and the recorded strength is carried over
\* unchanged, so the implied LAA falls by s, its share of those litres.
DrawKeepingStrength(b, v, a, s) ==
  [vol |-> b.vol - v, laa |-> IF a <= b.laa THEN b.laa - a ELSE 0, imp |-> b.imp - s]

\* The LAA of v litres at the recorded strength, when it is a whole number of
\* units: at most one value.
AtStrength(b, v) == {s \in 0..b.imp : s * b.vol = v * b.imp}

\* assertFillStrengthMatchesSource: the gauge may differ from the record by the
\* tolerance.
WithinTolerance(b, v, a) ==
  LET gap == a * b.vol - b.imp * v
  IN  /\ gap <= Tolerance * v * b.vol
      /\ -gap <= Tolerance * v * b.vol

\* A movement of a LAA from one vessel to another, summed into the journal.
Entry(n, from, to, a) ==
  [c \in Containers |-> n[c] + (IF c = to THEN a ELSE 0) - (IF c = from THEN a ELSE 0)]

Recorded(kind, from, to, v, a) ==
  events' = Append(events, [kind |-> kind, src |-> from, dst |-> to,
                            vol |-> v, laa |-> a, voided |-> FALSE])

Voided(e) == events' = [events EXCEPT ![e].voided = TRUE]

-----------------------------------------------------------------------------
(* Receipts and draws. *)

AdoptOpeningInventory(r, b) ==
  /\ r.op = "AdoptOpeningInventory"
  /\ r.vol <= Capacity[r.dst]
  /\ b[r.dst].vol = 0
  /\ bal' = [bal EXCEPT ![r.dst] = Gauged(r.vol, r.laa)]
  /\ net' = Entry(net, NoVessel, r.dst, r.laa)
  /\ \/ UNCHANGED events            \* no fill date given
     \/ /\ r.dst \in Barrels
        /\ Recorded("adopt", NoVessel, r.dst, r.vol, r.laa)
  /\ UNCHANGED held

RecordProductionGauge(r, b) ==
  /\ r.op = "RecordProductionGauge"
  /\ bal' = [bal EXCEPT ![r.dst] = Deposit(b[r.dst], r.vol, r.laa)]
  /\ net' = Entry(net, NoVessel, r.dst, r.laa)
  /\ Recorded("gauge", NoVessel, r.dst, r.vol, r.laa)
  /\ UNCHANGED held

ReceiveExternal(r, b) ==
  /\ r.op = "ReceiveExternal"
  /\ b[r.dst].vol + r.vol <= Capacity[r.dst]
  /\ bal' = [bal EXCEPT ![r.dst] = Gauged(b[r.dst].vol + r.vol, b[r.dst].laa + r.laa)]
  /\ net' = Entry(net, NoVessel, r.dst, r.laa)
  /\ UNCHANGED <<held, events>>

ShipExternal(r, b) ==
  /\ r.op = "ShipExternal"
  /\ r.laa <= b[r.src].laa
  /\ r.vol <= b[r.src].vol
  /\ bal' = [bal EXCEPT ![r.src] = Withdraw(b[r.src], r.vol, r.laa)]
  /\ net' = Entry(net, r.src, NoVessel, r.laa)
  /\ UNCHANGED <<held, events>>

\* Only the LAA is checked against the vessel, not the litres.
StartRedistillation(r, b) ==
  /\ r.op = "StartRedistillation"
  /\ r.laa > 0
  /\ r.laa <= b[r.src].laa
  /\ bal' = [bal EXCEPT ![r.src] = Withdraw(b[r.src], r.vol, r.laa)]
  /\ net' = Entry(net, r.src, NoVessel, r.laa)
  /\ UNCHANGED <<held, events>>

\* Step 4 and 5 of a bottling run: the draw is in LAA, the litres follow from
\* the recorded strength, and what is left is recomputed from that strength.
CreateBottlingRun(r, b) ==
  /\ r.op = "CreateBottlingRun"
  /\ b[r.src].imp > 0
  /\ r.laa <= b[r.src].laa
  /\ r.vol <= b[r.src].vol
  /\ r.laa \in AtStrength(b[r.src], r.vol)
  /\ bal' = [bal EXCEPT ![r.src] = Gauged(b[r.src].vol - r.vol, b[r.src].imp - r.laa)]
  /\ net' = Entry(net, r.src, NoVessel, r.laa)
  /\ Recorded("bottle", r.src, NoVessel, r.vol, r.laa)
  /\ UNCHANGED held

MarkContainer(r, b) ==
  /\ r.op = "MarkContainer"
  /\ b[r.src].imp > 0
  /\ r.laa > 0
  /\ r.laa <= b[r.src].laa
  /\ r.vol <= b[r.src].vol
  /\ \E s \in AtStrength(b[r.src], r.vol) :
       bal' = [bal EXCEPT ![r.src] = DrawKeepingStrength(b[r.src], r.vol, r.laa, s)]
  /\ net' = Entry(net, r.src, NoVessel, r.laa)
  /\ Recorded("mark", r.src, NoVessel, r.vol, r.laa)
  /\ UNCHANGED held

-----------------------------------------------------------------------------
(* Movements between containers.  The right-hand sides read b, the rows as   *)
(* they were locked, so a vessel named twice is written from the same copy   *)
(* twice and the later write stands.                                         *)

FillBarrel(r, b) ==
  /\ r.op = "FillBarrel"
  /\ r.dst \in Barrels
  /\ b[r.dst].vol + r.vol <= Capacity[r.dst]
  /\ r.vol <= b[r.src].vol
  /\ WithinTolerance(b[r.src], r.vol, r.laa)
  /\ r.laa <= b[r.src].laa
  /\ bal' = [bal EXCEPT ![r.src] = Withdraw(b[r.src], r.vol, r.laa),
                        ![r.dst] = Deposit(b[r.dst], r.vol, r.laa)]
  /\ net' = Entry(net, r.src, r.dst, r.laa)
  /\ Recorded("fill", r.src, r.dst, r.vol, r.laa)
  /\ UNCHANGED held

\* What the gauge leaves in the wood is booked as evaporation, on the litres
\* that stayed behind; a residue with no litres, or stronger than pure alcohol,
\* fails a CHECK of bulk_movements and rolls the dump back.
DumpBarrel(r, b) ==
  LET leftVol == b[r.src].vol - r.vol
      leftLaa == b[r.src].laa - r.laa
  IN  /\ r.op = "DumpBarrel"
      /\ r.src \in Barrels
      /\ b[r.src].vol > 0
      /\ r.laa <= b[r.src].laa
      /\ leftLaa > 0 => leftVol > 0 /\ leftLaa <= Pure * leftVol
      /\ bal' = [bal EXCEPT ![r.src] = Empty,
                            ![r.dst] = Deposit(b[r.dst], r.vol, r.laa)]
      /\ net' = Entry(Entry(net, r.src, r.dst, r.laa), r.src, NoVessel, leftLaa)
      /\ Recorded("dump", r.src, r.dst, r.vol, r.laa)
      /\ UNCHANGED held

\* Two sources; a wider blend repeats the loop body.
CreateBlend(r, b) ==
  /\ r.op = "CreateBlend"
  /\ r.dst \notin {r.src, r.also}
  /\ r.vol <= b[r.src].vol
  /\ r.more <= b[r.also].vol
  /\ \E x \in AtStrength(b[r.src], r.vol), y \in AtStrength(b[r.also], r.more) :
       /\ bal' = [bal EXCEPT
                    ![r.src]  = DrawKeepingStrength(b[r.src], r.vol, x, x),
                    ![r.also] = DrawKeepingStrength(b[r.also], r.more, y, y),
                    ![r.dst]  = Deposit(Deposit(b[r.dst], r.vol, x), r.more, y)]
       /\ net' = Entry(Entry(net, r.src, r.dst, x), r.also, r.dst, y)
  /\ UNCHANGED <<held, events>>

-----------------------------------------------------------------------------
(* Measurements, and spirits changing hands. *)

RegaugeBarrel(r, b) ==
  /\ r.op = "RegaugeBarrel"
  /\ r.dst \in Barrels
  /\ r.laa <= b[r.dst].laa
  /\ r.vol = 0 => b[r.dst].vol = 0
  /\ bal' = [bal EXCEPT ![r.dst] = Gauged(r.vol, r.laa)]
  /\ net' = IF r.vol < b[r.dst].vol /\ r.laa < b[r.dst].laa
            THEN Entry(net, r.dst, NoVessel, b[r.dst].laa - r.laa)
            ELSE net
  /\ UNCHANGED <<held, events>>

\* Counted below the book on either column is booked as a decrease, of the
\* absolute difference in LAA; a movement of no litres fails its CHECK.
RecordInventoryAdjustment(r, b) ==
  LET delta == r.laa - b[r.dst].laa
  IN  /\ r.op = "RecordInventoryAdjustment"
      /\ r.vol <= Capacity[r.dst]
      /\ delta # 0 => r.vol > 0 \/ b[r.dst].vol > 0
      /\ bal' = [bal EXCEPT ![r.dst] = Gauged(r.vol, r.laa)]
      /\ net' = IF delta < 0 \/ r.vol < b[r.dst].vol
                THEN Entry(net, r.dst, NoVessel, IF delta < 0 THEN -delta ELSE delta)
                ELSE Entry(net, NoVessel, r.dst, delta)
      /\ UNCHANGED <<held, events>>

\* SetBulkContainerPossession to held_elsewhere: the journal moves the whole
\* balance out in bond and the container keeps it.
HandOver(r, b) ==
  /\ r.op = "HandOver"
  /\ held[r.dst]
  /\ b[r.dst].laa > 0 => b[r.dst].vol > 0
  /\ held' = [held EXCEPT ![r.dst] = FALSE]
  /\ net' = Entry(net, r.dst, NoVessel, b[r.dst].laa)
  /\ UNCHANGED <<bal, events>>

TakeBack(r, b) ==
  /\ r.op = "TakeBack"
  /\ ~held[r.dst]
  /\ b[r.dst].laa > 0 => b[r.dst].vol > 0
  /\ held' = [held EXCEPT ![r.dst] = TRUE]
  /\ net' = Entry(net, NoVessel, r.dst, b[r.dst].laa)
  /\ UNCHANGED <<bal, events>>

-----------------------------------------------------------------------------
(* Voids.  The request carries the movement as the handler read it before    *)
(* taking any lock; a movement is never updated.  The row being voided is    *)
(* guarded by voided_at IS NULL in the statement that marks it.              *)

VoidRequest(op, e) ==
  [op |-> op, src |-> events[e].src, also |-> NoVessel, dst |-> events[e].dst,
   vol |-> events[e].vol, more |-> 0, laa |-> events[e].laa, event |-> e]

UnmarkRequest(e, to) ==
  [VoidRequest("UnmarkContainer", e) EXCEPT !.src = NoVessel, !.dst = to]

Unvoided(r) == r.event \in DOMAIN events /\ ~events[r.event].voided

\* The destination gives the movement back at its own recorded strength.
TakenBack(r, b, s) == DrawKeepingStrength(b[r.dst], r.vol, r.laa, s)

VoidBarrelEvent(r, b) ==
  /\ r.op = "VoidBarrelEvent"
  /\ Unvoided(r)
  /\ r.vol <= b[r.dst].vol
  /\ \E s \in AtStrength(b[r.dst], r.vol) :
       LET mid == [b EXCEPT ![r.dst] = TakenBack(r, b, s)]
       IN  bal' = IF r.src = NoVessel
                  THEN [bal EXCEPT ![r.dst] = mid[r.dst]]
                  ELSE [bal EXCEPT ![r.dst] = mid[r.dst],
                                   ![r.src] = Deposit(mid[r.src], r.vol, r.laa)]
  /\ net' = Entry(net, r.dst, r.src, r.laa)
  /\ Voided(r.event)
  /\ UNCHANGED held

VoidDistillationRun(r, b) ==
  /\ r.op = "VoidDistillationRun"
  /\ Unvoided(r)
  /\ r.vol <= b[r.dst].vol
  /\ \E s \in AtStrength(b[r.dst], r.vol) :
       bal' = [bal EXCEPT ![r.dst] = TakenBack(r, b, s)]
  /\ net' = Entry(net, r.dst, NoVessel, r.laa)
  /\ Voided(r.event)
  /\ UNCHANGED held

VoidBottlingRun(r, b) ==
  /\ r.op = "VoidBottlingRun"
  /\ Unvoided(r)
  /\ bal' = [bal EXCEPT ![r.src] = Deposit(b[r.src], r.vol, r.laa)]
  /\ net' = Entry(net, NoVessel, r.src, r.laa)
  /\ Voided(r.event)
  /\ UNCHANGED held

UnmarkContainer(r, b) ==
  /\ r.op = "UnmarkContainer"
  /\ Unvoided(r)
  /\ bal' = [bal EXCEPT ![r.dst] = Gauged(b[r.dst].vol + r.vol, b[r.dst].laa + r.laa)]
  /\ net' = Entry(net, NoVessel, r.dst, r.laa)
  /\ Voided(r.event)
  /\ UNCHANGED held

-----------------------------------------------------------------------------
(* The discipline under which the books are claimed to balance: what an      *)
(* operator has to avoid, because no handler refuses it.                     *)

Disciplined(r, b) ==
  CASE r.op \in {"FillBarrel", "ShipExternal", "StartRedistillation"} ->
         \* a draw to the bottom is gauged at exactly the LAA on record
         /\ r.src # r.dst
         /\ b[r.src].vol <= r.vol => r.laa = b[r.src].laa
    [] r.op = "DumpBarrel" -> r.src # r.dst
    [] r.op = "CreateBlend" -> r.src # r.also
    [] r.op = "RegaugeBarrel" ->
         \* alcohol is lost only together with litres
         r.laa < b[r.dst].laa => r.vol < b[r.dst].vol
    [] r.op = "RecordInventoryAdjustment" ->
         \* no count of more alcohol in fewer litres
         r.vol < b[r.dst].vol => r.laa <= b[r.dst].laa
    [] r.op = "MarkContainer" -> r.laa \in AtStrength(b[r.src], r.vol)
    [] r.op \in {"VoidBarrelEvent", "VoidDistillationRun"} ->
         \* the vessel still has the strength of what went in
         /\ r.src # r.dst
         /\ r.laa \in AtStrength(b[r.dst], r.vol)
    [] OTHER -> TRUE

AnyHolder(r) == TRUE   \* AllHeld, unchecked

\* assertHeld on every vessel a request names, possession changes excepted.
AllHeld(r) == r.op \in {"HandOver", "TakeBack"} \/ \A c \in Vessels(r) : held[c]

Apply(r, b) ==
  /\ Careful => Disciplined(r, b)
  /\ \/ AdoptOpeningInventory(r, b) \/ RecordProductionGauge(r, b)
     \/ ReceiveExternal(r, b) \/ ShipExternal(r, b)
     \/ StartRedistillation(r, b) \/ CreateBottlingRun(r, b)
     \/ MarkContainer(r, b) \/ FillBarrel(r, b) \/ DumpBarrel(r, b)
     \/ CreateBlend(r, b) \/ RegaugeBarrel(r, b)
     \/ RecordInventoryAdjustment(r, b) \/ HandOver(r, b) \/ TakeBack(r, b)
     \/ VoidBarrelEvent(r, b) \/ VoidDistillationRun(r, b)
     \/ VoidBottlingRun(r, b) \/ UnmarkContainer(r, b)

\* The bounds of the model: litres, LAA and recorded events.
InBounds ==
  /\ \A c \in Containers : /\ bal[c].vol <= MaxLitres
                           /\ bal[c].laa <= MaxLaa /\ bal[c].imp <= MaxLaa
                           /\ net[c] \in -MaxLaa..MaxLaa
  /\ Len(events) <= MaxEvents

\* What an operator may ask for next: a fresh request, or to void something.
OfKind(kinds) == {e \in DOMAIN events : events[e].kind \in kinds}

Voids ==
  {VoidRequest("VoidBarrelEvent", e) : e \in OfKind({"fill", "dump", "adopt"})}
  \cup {VoidRequest("VoidDistillationRun", e) : e \in OfKind({"gauge"})}
  \cup {VoidRequest("VoidBottlingRun", e) : e \in OfKind({"bottle"})}
  \cup {UnmarkRequest(e, c) : e \in OfKind({"mark"}), c \in Containers}

Asked == Requests \cup Voids

-----------------------------------------------------------------------------
BooksInit ==
  /\ bal = Opening
  /\ held = [c \in Containers |-> TRUE]
  /\ net = [c \in Containers |-> Opening[c].laa]
  /\ events = <<>>

BooksNext == \E r \in Asked : AllHeld(r) /\ Apply(r, bal) /\ InBounds'

BooksSpec == BooksInit /\ [][BooksNext]_booksVars

-----------------------------------------------------------------------------
(* Properties *)

\* Every balance, journal figure and recorded event is of its kind; no balance
\* goes negative.
BooksTypeOK ==
  /\ bal \in [Containers -> Balance]
  /\ held \in [Containers -> BOOLEAN]
  /\ net \in [Containers -> Int]
  /\ events \in Seq(Event)

\* "Alcohol is neither created nor destroyed by moving it": the LAA on a
\* container's row is what the journal says was moved into it, and a container
\* handed over to somebody else's warehouse has left the journal entirely.
JournalAgrees ==
  \A c \in Containers : net[c] = IF held[c] THEN bal[c].laa ELSE 0

\* The strength column never contradicts the LAA column: the next deposit
\* (applyDeposit weights by strength) starts from the alcohol really there.
StrengthAgrees == \A c \in Containers : bal[c].imp = bal[c].laa

\* No vessel holds alcohol in no litres: such a row can never be drawn, gauged
\* or handed over again, because every movement must carry a positive volume.
NoAlcoholWithoutLitres ==
  \A c \in Containers : bal[c].vol = 0 => bal[c].laa = 0

\* Spirits in somebody else's warehouse are not measured, moved or written off:
\* while a container is away its balance and its journal stand still.
AwayStandsStill ==
  [][\A c \in Containers : ~held[c] /\ ~held'[c] =>
       bal'[c] = bal[c] /\ net'[c] = net[c]]_booksVars

=============================================================================
