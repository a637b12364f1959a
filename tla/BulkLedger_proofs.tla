------------------------- MODULE BulkLedger_proofs -------------------------
(***************************************************************************)
(* Theorems about BulkBooks and BulkLedger: any containers, capacities,    *)
(* requests, transactions and bounds.                                      *)
(*                                                                         *)
(* First, disciplined operators keep the books: under Careful, every       *)
(* stored balance agrees with the journal.  JournalAgrees is not inductive *)
(* alone.  A deposit starts from the recorded strength, so the strength    *)
(* must agree with the LAA; a draw at recorded strength determines its LAA *)
(* only from a vessel that has litres when it has alcohol; and a void      *)
(* repeats the event it was asked about.                                   *)
(*                                                                         *)
(* Then, what the row locks buy: the rows a transaction works from are     *)
(* still current when it commits, the possession it checked still stands,  *)
(* and the concurrent ledger is the one-operation-at-a-time ledger of      *)
(* BulkBooks.  The inductive invariant LedgerInv says that locks are       *)
(* exclusive, that a transaction locks only vessels its request names, and *)
(* that what it read under a lock is what the row holds.  A commit writes  *)
(* only the vessels its request names (ApplyWrites), all of them locked by *)
(* it, so nobody else's copy goes stale; and it reads only those           *)
(* (ApplyReads), so computing from the copy is computing from the rows.    *)
(***************************************************************************)
EXTENDS BulkLedger, WellFoundedInduction, TLAPS

-----------------------------------------------------------------------------
(* The books. *)

SoundBalance(b) == /\ b \in Balance
                   /\ b.imp = b.laa
                   /\ b.vol = 0 => b.laa = 0

\* What the voids rely on: an event names the vessels its kind moves between.
SoundEvent(e) ==
  /\ e \in Event
  /\ e.kind \in {"fill", "dump", "adopt", "gauge"} => e.dst \in Containers
  /\ e.kind \in {"fill", "dump", "bottle", "mark"} => e.src \in Containers
  /\ e.vol = 0 => e.laa = 0

BalancesSound ==
  /\ bal \in [Containers -> Balance]
  /\ held \in [Containers -> BOOLEAN]
  /\ net \in [Containers -> Int]
  /\ \A c \in Containers : /\ SoundBalance(bal[c])
                           /\ net[c] = IF held[c] THEN bal[c].laa ELSE 0

EventsSound ==
  /\ events \in Seq(Event)
  /\ \A i \in DOMAIN events : SoundEvent(events[i])

BooksInv == BalancesSound /\ EventsSound

-----------------------------------------------------------------------------
(* The arithmetic *)

LEMMA Cancel ==
  ASSUME NEW n \in Nat, n # 0, NEW x \in Nat, NEW y \in Nat, x * n = y * n
  PROVE  x = y
BY SMT

LEMMA OneStrength ==
  ASSUME NEW b, SoundBalance(b), NEW v \in Nat,
         NEW x \in AtStrength(b, v), NEW y \in AtStrength(b, v)
  PROVE  x = y
<1>1. b.vol \in Nat /\ b.imp \in Nat /\ x \in 0..b.imp /\ y \in 0..b.imp
  BY DEF SoundBalance, Balance, AtStrength
<1>2. CASE b.vol = 0
  BY <1>1, <1>2 DEF SoundBalance
<1>3. CASE b.vol # 0
  <2>1. x * b.vol = y * b.vol
    BY DEF AtStrength
  <2>2. QED
    BY <1>1, <1>3, <2>1, Cancel
<1>4. QED
  BY <1>2, <1>3

LEMMA WholeStrength ==
  ASSUME NEW b, SoundBalance(b)
  PROVE  b.imp \in AtStrength(b, b.vol)
BY DEF SoundBalance, Balance, AtStrength

LEMMA DepositSound ==
  ASSUME NEW b, SoundBalance(b), NEW v \in Nat, NEW a \in Nat, v = 0 => a = 0
  PROVE  SoundBalance(Deposit(b, v, a)) /\ Deposit(b, v, a).laa = b.laa + a
BY DEF SoundBalance, Balance, Deposit, Gauged

LEMMA WithdrawSound ==
  ASSUME NEW b, SoundBalance(b), NEW v \in Nat, NEW a \in Nat, a <= b.laa,
         b.vol <= v => a = b.laa
  PROVE  SoundBalance(Withdraw(b, v, a)) /\ Withdraw(b, v, a).laa = b.laa - a
BY DEF SoundBalance, Balance, Withdraw, Gauged, Empty

LEMMA DrawSound ==
  ASSUME NEW b, SoundBalance(b), NEW v \in Nat, v <= b.vol,
         NEW s \in AtStrength(b, v)
  PROVE  /\ SoundBalance(DrawKeepingStrength(b, v, s, s))
         /\ DrawKeepingStrength(b, v, s, s).laa = b.laa - s
         /\ s \in Nat /\ s <= b.laa
<1>1. s \in Nat /\ s <= b.imp /\ b.imp \in Nat /\ b.vol \in Nat /\ b.laa = b.imp
  BY DEF SoundBalance, Balance, AtStrength
<1>2. ASSUME v = b.vol PROVE s = b.imp
  BY <1>2, OneStrength, WholeStrength
<1>3. QED
  BY <1>1, <1>2 DEF SoundBalance, Balance, DrawKeepingStrength

LEMMA GaugedSound ==
  ASSUME NEW v \in Nat, NEW a \in Nat, v = 0 => a = 0
  PROVE  SoundBalance(Gauged(v, a)) /\ Gauged(v, a).laa = a
BY DEF SoundBalance, Balance, Gauged

-----------------------------------------------------------------------------
(* What a step does to the books as a whole *)

\* One vessel gets a new balance and the journal moves by the difference.
LEMMA OneVessel ==
  ASSUME BalancesSound, NEW d \in Containers, held[d], NEW x, SoundBalance(x),
         bal' = [bal EXCEPT ![d] = x], held' = held,
         NEW a \in Int, x.laa = bal[d].laa + a,
         net' \in [Containers -> Int], net'[d] = net[d] + a,
         \A c \in Containers \ {d} : net'[c] = net[c]
  PROVE  BalancesSound'
<1>1. x.laa \in Nat /\ bal[d].laa \in Nat /\ net[d] = bal[d].laa
  BY DEF BalancesSound, SoundBalance, Balance
<1>2. net'[d] = x.laa
  BY <1>1
<1>3. ASSUME NEW c \in Containers
      PROVE  /\ SoundBalance(bal'[c])
             /\ net'[c] = IF held'[c] THEN bal'[c].laa ELSE 0
  BY <1>2, <1>3 DEF BalancesSound
<1>4. bal' \in [Containers -> Balance]
  BY DEF BalancesSound, SoundBalance
<1>5. QED
  BY <1>3, <1>4 DEF BalancesSound, SoundBalance

\* Two vessels: d ends at x, a more than it had, and f at y, k more.
TwoChange(d, x, a, f, y, k) ==
  /\ d \in Containers /\ held[d] /\ SoundBalance(x)
  /\ f \in Containers /\ held[f] /\ SoundBalance(y)
  /\ d # f
  /\ bal' = [bal EXCEPT ![d] = x, ![f] = y]
  /\ held' = held
  /\ a \in Int /\ x.laa = bal[d].laa + a
  /\ k \in Int /\ y.laa = bal[f].laa + k
  /\ net' \in [Containers -> Int]
  /\ net'[d] = net[d] + a /\ net'[f] = net[f] + k
  /\ \A c \in Containers \ {d, f} : net'[c] = net[c]

LEMMA TwoVessels ==
  ASSUME BalancesSound, NEW d, NEW x, NEW a, NEW f, NEW y, NEW k,
         TwoChange(d, x, a, f, y, k)
  PROVE  BalancesSound'
<1> USE DEF TwoChange
<1>1. /\ x.laa \in Nat /\ bal[d].laa \in Nat /\ net[d] = bal[d].laa
      /\ y.laa \in Nat /\ bal[f].laa \in Nat /\ net[f] = bal[f].laa
  BY DEF BalancesSound, SoundBalance, Balance
<1>2. net'[d] = x.laa /\ net'[f] = y.laa
  BY <1>1
<1>3. ASSUME NEW c \in Containers
      PROVE  /\ SoundBalance(bal'[c])
             /\ net'[c] = IF held'[c] THEN bal'[c].laa ELSE 0
  BY <1>2, <1>3 DEF BalancesSound
<1>4. bal' \in [Containers -> Balance]
  BY DEF BalancesSound, SoundBalance
<1>5. QED
  BY <1>3, <1>4 DEF BalancesSound, SoundBalance

LEMMA EntryMoves ==
  ASSUME NEW n \in [Containers -> Int], NEW from, NEW to, NEW a \in Int
  PROVE  /\ Entry(n, from, to, a) \in [Containers -> Int]
         /\ \A c \in Containers :
              Entry(n, from, to, a)[c] =
                n[c] + (IF c = to THEN a ELSE 0) - (IF c = from THEN a ELSE 0)
BY DEF Entry

\* What comes in from outside, and what leaves for it.
LEMMA EntryIn ==
  ASSUME BalancesSound, NEW d \in Containers, NEW a \in Int,
         net' = Entry(net, NoVessel, d, a)
  PROVE  /\ net' \in [Containers -> Int]
         /\ net'[d] = net[d] + a
         /\ \A c \in Containers \ {d} : net'[c] = net[c]
BY ContainersAssumption, EntryMoves DEF BalancesSound

LEMMA EntryOut ==
  ASSUME BalancesSound, NEW f \in Containers, NEW a \in Int,
         net' = Entry(net, f, NoVessel, a)
  PROVE  /\ net' \in [Containers -> Int]
         /\ net'[f] = net[f] - a
         /\ \A c \in Containers \ {f} : net'[c] = net[c]
BY ContainersAssumption, EntryMoves DEF BalancesSound

LEMMA EntryAcross ==
  ASSUME BalancesSound, NEW f \in Containers, NEW d \in Containers, f # d,
         NEW a \in Int, net' = Entry(net, f, d, a)
  PROVE  /\ net' \in [Containers -> Int]
         /\ net'[f] = net[f] - a /\ net'[d] = net[d] + a
         /\ \A c \in Containers \ {d, f} : net'[c] = net[c]
<1>1. /\ net \in [Containers -> Int] /\ net[f] \in Int /\ net[d] \in Int
      /\ \A c \in Containers : net[c] \in Int
  BY DEF BalancesSound
<1>2. net' \in [Containers -> Int]
  BY <1>1, EntryMoves
<1>3. \A c \in Containers :
        net'[c] = net[c] + (IF c = d THEN a ELSE 0) - (IF c = f THEN a ELSE 0)
  BY <1>1, EntryMoves
<1>4. net'[f] = net[f] - a /\ net'[d] = net[d] + a
  BY <1>1, <1>3
<1>5. \A c \in Containers \ {d, f} : net'[c] = net[c]
  BY <1>1, <1>3
<1>6. QED
  BY <1>2, <1>4, <1>5

\* A new event is sound when it is built from a sound movement.
LEMMA RecordedSound ==
  ASSUME EventsSound, NEW e, SoundEvent(e), events' = Append(events, e)
  PROVE  EventsSound'
<1>1. e \in Event
  BY DEF SoundEvent
<1>2. events' \in Seq(Event)
  BY <1>1 DEF EventsSound
<1>3. ASSUME NEW i \in DOMAIN events' PROVE SoundEvent(events'[i])
  <2>1. CASE i \in DOMAIN events
    BY <2>1, <1>1 DEF EventsSound
  <2>2. CASE i \notin DOMAIN events
    <3>1. i = Len(events) + 1
      BY <1>3, <2>2, <1>1 DEF EventsSound
    <3>2. QED
      BY <3>1, <1>1 DEF EventsSound
  <2>3. QED
    BY <2>1, <2>2
<1>4. QED
  BY <1>2, <1>3 DEF EventsSound

LEMMA VoidedSound ==
  ASSUME EventsSound, NEW i \in DOMAIN events, Voided(i)
  PROVE  EventsSound'
<1> DEFINE v == [events[i] EXCEPT !.voided = TRUE]
<1>1. /\ events[i] \in Event
      /\ DOMAIN events' = DOMAIN events
      /\ \A j \in DOMAIN events :
           events'[j] = IF j = i THEN v ELSE events[j]
  BY DEF EventsSound, Voided, SoundEvent
<1>2. /\ v \in Event
      /\ v.kind = events[i].kind /\ v.src = events[i].src
      /\ v.dst = events[i].dst /\ v.vol = events[i].vol /\ v.laa = events[i].laa
  BY <1>1 DEF Event
<1> HIDE DEF v
<1>3. events' \in Seq(Event)
  BY <1>1, <1>2 DEF EventsSound, Voided, v
<1>4. ASSUME NEW j \in DOMAIN events PROVE SoundEvent(events'[j])
  <2>1. SoundEvent(events[j])
    BY DEF EventsSound
  <2>2. QED
    BY <1>1, <1>2, <2>1 DEF SoundEvent, Event
<1>5. QED
  BY <1>1, <1>3, <1>4 DEF EventsSound

-----------------------------------------------------------------------------
(* Requests *)

\* What every action may assume of the request it serves.
Shaped(r) ==
  /\ r \in Request
  /\ r.op \in DrawingOps \cup MovingOps \cup {"VoidBottlingRun"}
       => r.src \in Containers
  /\ r.op \in MovingOps \cup PuttingOps \cup
             {"VoidBarrelEvent", "VoidDistillationRun", "UnmarkContainer"}
       => r.dst \in Containers
  /\ r.op = "CreateBlend" => r.also \in Containers
  /\ r.vol = 0 => r.laa = 0

LEMMA FreshShaped ==
  ASSUME NEW r \in Requests
  PROVE  Shaped(r)
<1>1. r \in Request /\ WellFormed(r)
  BY RequestsAssumption
<1>2. r.vol = 0 => r.laa = 0
  <2>1. r.laa \in Nat /\ r.laa <= Pure * r.vol
    BY <1>1 DEF WellFormed, Request
  <2>2. ASSUME r.vol = 0 PROVE r.laa = 0
    <3>1. Pure * r.vol = 0
      BY <2>2, RequestsAssumption
    <3>2. QED
      BY <2>1, <3>1
  <2>3. QED
    BY <2>2
<1>3. QED
  BY <1>1, <1>2 DEF Shaped, WellFormed, DrawingOps, MovingOps, PuttingOps

LEMMA VoidShaped ==
  ASSUME EventsSound, NEW r \in Voids
  PROVE  Shaped(r)
<1>1. ASSUME NEW e \in DOMAIN events, NEW op \in RequestOps
      PROVE  /\ VoidRequest(op, e) \in Request
             /\ SoundEvent(events[e])
             /\ VoidRequest(op, e).op = op
             /\ VoidRequest(op, e).src = events[e].src
             /\ VoidRequest(op, e).dst = events[e].dst
             /\ VoidRequest(op, e).vol = events[e].vol
             /\ VoidRequest(op, e).laa = events[e].laa
  <2>1. SoundEvent(events[e]) /\ e \in Nat
    BY <1>1 DEF EventsSound
  <2>2. QED
    BY <1>1, <2>1 DEF SoundEvent, Event, VoidRequest, Request, Vessel
<1>2. CASE \E e \in OfKind({"fill", "dump", "adopt"}) : r = VoidRequest("VoidBarrelEvent", e)
  BY <1>1, <1>2 DEF Shaped, OfKind, SoundEvent, RequestOps, DrawingOps, MovingOps, PuttingOps
<1>3. CASE \E e \in OfKind({"gauge"}) : r = VoidRequest("VoidDistillationRun", e)
  BY <1>1, <1>3 DEF Shaped, OfKind, SoundEvent, RequestOps, DrawingOps, MovingOps, PuttingOps
<1>4. CASE \E e \in OfKind({"bottle"}) : r = VoidRequest("VoidBottlingRun", e)
  BY <1>1, <1>4 DEF Shaped, OfKind, SoundEvent, RequestOps, DrawingOps, MovingOps, PuttingOps
<1>5. CASE \E e \in OfKind({"mark"}), c \in Containers : r = UnmarkRequest(e, c)
  <2>1. PICK e \in OfKind({"mark"}), c \in Containers : r = UnmarkRequest(e, c)
    BY <1>5
  <2>2. /\ r \in Request /\ r.op = "UnmarkContainer" /\ r.dst = c
        /\ r.vol = events[e].vol /\ r.laa = events[e].laa
    <3>1. e \in DOMAIN events /\ "UnmarkContainer" \in RequestOps
      BY DEF OfKind, RequestOps
    <3>2. QED
      BY <1>1, <2>1, <3>1 DEF UnmarkRequest, VoidRequest, Request, Vessel, SoundEvent, Event
  <2>3. QED
    BY <1>1, <2>2 DEF Shaped, OfKind, SoundEvent, RequestOps, DrawingOps, MovingOps, PuttingOps
<1>6. QED
  BY <1>2, <1>3, <1>4, <1>5 DEF Voids

LEMMA HeldVessel ==
  ASSUME NEW r, AllHeld(r), r.op \notin {"HandOver", "TakeBack"},
         NEW c \in Containers, c \in {r.src, r.also, r.dst}
  PROVE  held[c]
BY ContainersAssumption DEF AllHeld, Vessels

-----------------------------------------------------------------------------
(* One lemma per operation *)

Served(r) == BooksInv /\ Shaped(r) /\ AllHeld(r) /\ Disciplined(r, bal)

LEMMA ServedFacts ==
  ASSUME NEW r, Served(r)
  PROVE  /\ BalancesSound /\ EventsSound
         /\ r \in Request /\ r.vol \in Nat /\ r.laa \in Nat /\ r.more \in Nat
         /\ r.vol = 0 => r.laa = 0
BY DEF Served, BooksInv, Shaped, Request

\* A vessel the request names, other than in a change of possession.
LEMMA VesselFacts ==
  ASSUME NEW r, Served(r), r.op \notin {"HandOver", "TakeBack"},
         NEW c \in Containers, c \in {r.src, r.also, r.dst}
  PROVE  /\ held[c] /\ SoundBalance(bal[c]) /\ bal[c].imp = bal[c].laa
         /\ bal[c].vol \in Nat /\ bal[c].laa \in Nat /\ bal[c].imp \in Nat
         /\ bal[c].vol = 0 => bal[c].laa = 0
<1>1. held[c]
  BY HeldVessel DEF Served
<1>2. SoundBalance(bal[c])
  BY DEF Served, BooksInv, BalancesSound
<1>3. QED
  BY <1>1, <1>2 DEF SoundBalance, Balance

LEMMA AdoptKeeps ==
  ASSUME NEW r, Served(r), AdoptOpeningInventory(r, bal)
  PROVE  BooksInv'
<1>1. r.op = "AdoptOpeningInventory" /\ r.dst \in Containers
  BY DEF Served, Shaped, AdoptOpeningInventory, PuttingOps
<1>2. /\ held[r.dst] /\ SoundBalance(bal[r.dst]) /\ bal[r.dst].imp = bal[r.dst].laa
      /\ bal[r.dst].vol \in Nat /\ bal[r.dst].laa \in Nat /\ bal[r.dst].imp \in Nat
      /\ bal[r.dst].vol = 0 => bal[r.dst].laa = 0
  BY <1>1, VesselFacts
<1>3. /\ BalancesSound /\ EventsSound
      /\ r \in Request /\ r.vol \in Nat /\ r.laa \in Nat
      /\ r.vol = 0 => r.laa = 0
  BY ServedFacts
<1> DEFINE x == Gauged(r.vol, r.laa)
<1>4. SoundBalance(x) /\ x.laa = bal[r.dst].laa + r.laa
  BY <1>1, <1>2, <1>3, GaugedSound DEF AdoptOpeningInventory
<1>5. /\ net' \in [Containers -> Int]
      /\ net'[r.dst] = net[r.dst] + r.laa
      /\ \A c \in Containers \ {r.dst} : net'[c] = net[c]
  BY <1>1, <1>3, EntryIn DEF AdoptOpeningInventory
<1>6. bal' = [bal EXCEPT ![r.dst] = x] /\ held' = held
  BY DEF AdoptOpeningInventory
<1>7. BalancesSound'
  <2> HIDE DEF x
  <2>1. /\ r.laa \in Int /\ x.laa = bal[r.dst].laa + (r.laa)
        /\ net[r.dst] \in Int /\ net'[r.dst] = net[r.dst] + (r.laa)
    BY <1>1, <1>2, <1>3, <1>4, <1>5 DEF BalancesSound
  <2>2. QED
    BY <1>1, <1>2, <1>3, <1>4, <1>5, <1>6, <2>1, OneVessel
<1>8. EventsSound'
  <2>1. CASE UNCHANGED events
    BY <1>3, <2>1 DEF EventsSound
  <2>2. CASE Recorded("adopt", NoVessel, r.dst, r.vol, r.laa)
    BY <1>1, <1>3, <2>2, RecordedSound
    DEF Recorded, SoundEvent, Event, EventKinds, Vessel
  <2>3. QED
    BY <2>1, <2>2 DEF AdoptOpeningInventory
<1>9. QED
  BY <1>7, <1>8 DEF BooksInv

LEMMA GaugeKeeps ==
  ASSUME NEW r, Served(r), RecordProductionGauge(r, bal)
  PROVE  BooksInv'
<1>1. r.op = "RecordProductionGauge" /\ r.dst \in Containers
  BY DEF Served, Shaped, RecordProductionGauge, PuttingOps
<1>2. /\ held[r.dst] /\ SoundBalance(bal[r.dst]) /\ bal[r.dst].imp = bal[r.dst].laa
      /\ bal[r.dst].vol \in Nat /\ bal[r.dst].laa \in Nat /\ bal[r.dst].imp \in Nat
      /\ bal[r.dst].vol = 0 => bal[r.dst].laa = 0
  BY <1>1, VesselFacts
<1>3. /\ BalancesSound /\ EventsSound
      /\ r \in Request /\ r.vol \in Nat /\ r.laa \in Nat
      /\ r.vol = 0 => r.laa = 0
  BY ServedFacts
<1> DEFINE x == Deposit(bal[r.dst], r.vol, r.laa)
<1>4. SoundBalance(x) /\ x.laa = bal[r.dst].laa + r.laa
  BY <1>1, <1>2, <1>3, DepositSound
<1>5. /\ net' \in [Containers -> Int]
      /\ net'[r.dst] = net[r.dst] + r.laa
      /\ \A c \in Containers \ {r.dst} : net'[c] = net[c]
  BY <1>1, <1>3, EntryIn DEF RecordProductionGauge
<1>6. bal' = [bal EXCEPT ![r.dst] = x] /\ held' = held
  BY DEF RecordProductionGauge
<1>7. BalancesSound'
  <2> HIDE DEF x
  <2>1. /\ r.laa \in Int /\ x.laa = bal[r.dst].laa + (r.laa)
        /\ net[r.dst] \in Int /\ net'[r.dst] = net[r.dst] + (r.laa)
    BY <1>1, <1>2, <1>3, <1>4, <1>5 DEF BalancesSound
  <2>2. QED
    BY <1>1, <1>2, <1>3, <1>4, <1>5, <1>6, <2>1, OneVessel
<1>8. EventsSound'
  BY <1>1, <1>3, RecordedSound
  DEF RecordProductionGauge, Recorded, SoundEvent, Event, EventKinds, Request, Vessel
<1>9. QED
  BY <1>7, <1>8 DEF BooksInv

LEMMA ReceiveKeeps ==
  ASSUME NEW r, Served(r), ReceiveExternal(r, bal)
  PROVE  BooksInv'
<1>1. r.op = "ReceiveExternal" /\ r.dst \in Containers
  BY DEF Served, Shaped, ReceiveExternal, PuttingOps
<1>2. /\ held[r.dst] /\ SoundBalance(bal[r.dst]) /\ bal[r.dst].imp = bal[r.dst].laa
      /\ bal[r.dst].vol \in Nat /\ bal[r.dst].laa \in Nat /\ bal[r.dst].imp \in Nat
      /\ bal[r.dst].vol = 0 => bal[r.dst].laa = 0
  BY <1>1, VesselFacts
<1>3. /\ BalancesSound /\ EventsSound
      /\ r \in Request /\ r.vol \in Nat /\ r.laa \in Nat
      /\ r.vol = 0 => r.laa = 0
  BY ServedFacts
<1> DEFINE x == Gauged(bal[r.dst].vol + r.vol, bal[r.dst].laa + r.laa)
<1>4. SoundBalance(x) /\ x.laa = bal[r.dst].laa + r.laa
  <2>1. bal[r.dst].vol + r.vol = 0 => bal[r.dst].laa + r.laa = 0
    BY <1>2, <1>3
  <2>2. QED
    BY <1>2, <1>3, <2>1, GaugedSound
<1>5. /\ net' \in [Containers -> Int]
      /\ net'[r.dst] = net[r.dst] + r.laa
      /\ \A c \in Containers \ {r.dst} : net'[c] = net[c]
  BY <1>1, <1>3, EntryIn DEF ReceiveExternal
<1>6. bal' = [bal EXCEPT ![r.dst] = x] /\ held' = held
  BY DEF ReceiveExternal
<1>7. BalancesSound'
  <2> HIDE DEF x
  <2>1. /\ r.laa \in Int /\ x.laa = bal[r.dst].laa + (r.laa)
        /\ net[r.dst] \in Int /\ net'[r.dst] = net[r.dst] + (r.laa)
    BY <1>1, <1>2, <1>3, <1>4, <1>5 DEF BalancesSound
  <2>2. QED
    BY <1>1, <1>2, <1>3, <1>4, <1>5, <1>6, <2>1, OneVessel
<1>8. EventsSound'
  BY <1>3 DEF ReceiveExternal, EventsSound
<1>9. QED
  BY <1>7, <1>8 DEF BooksInv

LEMMA ShipKeeps ==
  ASSUME NEW r, Served(r), ShipExternal(r, bal)
  PROVE  BooksInv'
<1>1. r.op = "ShipExternal" /\ r.src \in Containers
  BY DEF Served, Shaped, ShipExternal, DrawingOps
<1>2. /\ held[r.src] /\ SoundBalance(bal[r.src]) /\ bal[r.src].imp = bal[r.src].laa
      /\ bal[r.src].vol \in Nat /\ bal[r.src].laa \in Nat /\ bal[r.src].imp \in Nat
      /\ bal[r.src].vol = 0 => bal[r.src].laa = 0
  BY <1>1, VesselFacts
<1>3. /\ BalancesSound /\ EventsSound
      /\ r \in Request /\ r.vol \in Nat /\ r.laa \in Nat
      /\ r.vol = 0 => r.laa = 0
  BY ServedFacts
<1> DEFINE x == Withdraw(bal[r.src], r.vol, r.laa)
<1>4. SoundBalance(x) /\ x.laa = bal[r.src].laa - r.laa
  <2>1. bal[r.src].vol <= r.vol => r.laa = bal[r.src].laa
    BY <1>1 DEF Served, Disciplined
  <2>2. QED
    BY <1>2, <1>3, <2>1, WithdrawSound DEF ShipExternal
<1>5. /\ net' \in [Containers -> Int]
      /\ net'[r.src] = net[r.src] - r.laa
      /\ \A c \in Containers \ {r.src} : net'[c] = net[c]
  BY <1>1, <1>3, EntryOut DEF ShipExternal
<1>6. bal' = [bal EXCEPT ![r.src] = x] /\ held' = held
  BY DEF ShipExternal
<1>7. BalancesSound'
  <2> HIDE DEF x
  <2>1. /\ -r.laa \in Int /\ x.laa = bal[r.src].laa + (-r.laa)
        /\ net[r.src] \in Int /\ net'[r.src] = net[r.src] + (-r.laa)
    BY <1>1, <1>2, <1>3, <1>4, <1>5 DEF BalancesSound
  <2>2. QED
    BY <1>1, <1>2, <1>3, <1>4, <1>5, <1>6, <2>1, OneVessel
<1>8. EventsSound'
  BY <1>3 DEF ShipExternal, EventsSound
<1>9. QED
  BY <1>7, <1>8 DEF BooksInv

LEMMA RedistilKeeps ==
  ASSUME NEW r, Served(r), StartRedistillation(r, bal)
  PROVE  BooksInv'
<1>1. r.op = "StartRedistillation" /\ r.src \in Containers
  BY DEF Served, Shaped, StartRedistillation, DrawingOps
<1>2. /\ held[r.src] /\ SoundBalance(bal[r.src]) /\ bal[r.src].imp = bal[r.src].laa
      /\ bal[r.src].vol \in Nat /\ bal[r.src].laa \in Nat /\ bal[r.src].imp \in Nat
      /\ bal[r.src].vol = 0 => bal[r.src].laa = 0
  BY <1>1, VesselFacts
<1>3. /\ BalancesSound /\ EventsSound
      /\ r \in Request /\ r.vol \in Nat /\ r.laa \in Nat
      /\ r.vol = 0 => r.laa = 0
  BY ServedFacts
<1> DEFINE x == Withdraw(bal[r.src], r.vol, r.laa)
<1>4. SoundBalance(x) /\ x.laa = bal[r.src].laa - r.laa
  <2>1. bal[r.src].vol <= r.vol => r.laa = bal[r.src].laa
    BY <1>1 DEF Served, Disciplined
  <2>2. QED
    BY <1>2, <1>3, <2>1, WithdrawSound DEF StartRedistillation
<1>5. /\ net' \in [Containers -> Int]
      /\ net'[r.src] = net[r.src] - r.laa
      /\ \A c \in Containers \ {r.src} : net'[c] = net[c]
  BY <1>1, <1>3, EntryOut DEF StartRedistillation
<1>6. bal' = [bal EXCEPT ![r.src] = x] /\ held' = held
  BY DEF StartRedistillation
<1>7. BalancesSound'
  <2> HIDE DEF x
  <2>1. /\ -r.laa \in Int /\ x.laa = bal[r.src].laa + (-r.laa)
        /\ net[r.src] \in Int /\ net'[r.src] = net[r.src] + (-r.laa)
    BY <1>1, <1>2, <1>3, <1>4, <1>5 DEF BalancesSound
  <2>2. QED
    BY <1>1, <1>2, <1>3, <1>4, <1>5, <1>6, <2>1, OneVessel
<1>8. EventsSound'
  BY <1>3 DEF StartRedistillation, EventsSound
<1>9. QED
  BY <1>7, <1>8 DEF BooksInv

LEMMA BottleKeeps ==
  ASSUME NEW r, Served(r), CreateBottlingRun(r, bal)
  PROVE  BooksInv'
<1>1. r.op = "CreateBottlingRun" /\ r.src \in Containers
  BY DEF Served, Shaped, CreateBottlingRun, DrawingOps
<1>2. /\ held[r.src] /\ SoundBalance(bal[r.src]) /\ bal[r.src].imp = bal[r.src].laa
      /\ bal[r.src].vol \in Nat /\ bal[r.src].laa \in Nat /\ bal[r.src].imp \in Nat
      /\ bal[r.src].vol = 0 => bal[r.src].laa = 0
  BY <1>1, VesselFacts
<1>3. /\ BalancesSound /\ EventsSound
      /\ r \in Request /\ r.vol \in Nat /\ r.laa \in Nat
      /\ r.vol = 0 => r.laa = 0
  BY ServedFacts
<1> DEFINE x == Gauged(bal[r.src].vol - r.vol, bal[r.src].imp - r.laa)
<1>4. SoundBalance(x) /\ x.laa = bal[r.src].laa - r.laa
  <2>1. ASSUME r.vol = bal[r.src].vol PROVE r.laa = bal[r.src].imp
    BY <1>2, <1>3, <2>1, OneStrength, WholeStrength DEF CreateBottlingRun
  <2>2. r.vol <= bal[r.src].vol /\ r.laa <= bal[r.src].laa
    BY DEF CreateBottlingRun
  <2>3. /\ bal[r.src].vol - r.vol \in Nat /\ bal[r.src].imp - r.laa \in Nat
        /\ bal[r.src].vol - r.vol = 0 => bal[r.src].imp - r.laa = 0
    BY <1>2, <1>3, <2>1, <2>2
  <2>4. QED
    BY <1>2, <2>3, GaugedSound
<1>5. /\ net' \in [Containers -> Int]
      /\ net'[r.src] = net[r.src] - r.laa
      /\ \A c \in Containers \ {r.src} : net'[c] = net[c]
  BY <1>1, <1>3, EntryOut DEF CreateBottlingRun
<1>6. bal' = [bal EXCEPT ![r.src] = x] /\ held' = held
  BY DEF CreateBottlingRun
<1>7. BalancesSound'
  <2> HIDE DEF x
  <2>1. /\ -r.laa \in Int /\ x.laa = bal[r.src].laa + (-r.laa)
        /\ net[r.src] \in Int /\ net'[r.src] = net[r.src] + (-r.laa)
    BY <1>1, <1>2, <1>3, <1>4, <1>5 DEF BalancesSound
  <2>2. QED
    BY <1>1, <1>2, <1>3, <1>4, <1>5, <1>6, <2>1, OneVessel
<1>8. EventsSound'
  BY <1>1, <1>3, RecordedSound
  DEF CreateBottlingRun, Recorded, SoundEvent, Event, EventKinds, Request, Vessel
<1>9. QED
  BY <1>7, <1>8 DEF BooksInv

LEMMA MarkKeeps ==
  ASSUME NEW r, Served(r), MarkContainer(r, bal)
  PROVE  BooksInv'
<1>1. r.op = "MarkContainer" /\ r.src \in Containers
  BY DEF Served, Shaped, MarkContainer, DrawingOps
<1>2. /\ held[r.src] /\ SoundBalance(bal[r.src]) /\ bal[r.src].imp = bal[r.src].laa
      /\ bal[r.src].vol \in Nat /\ bal[r.src].laa \in Nat /\ bal[r.src].imp \in Nat
      /\ bal[r.src].vol = 0 => bal[r.src].laa = 0
  BY <1>1, VesselFacts
<1>3. /\ BalancesSound /\ EventsSound
      /\ r \in Request /\ r.vol \in Nat /\ r.laa \in Nat
      /\ r.vol = 0 => r.laa = 0
  BY ServedFacts
<1> DEFINE x == DrawKeepingStrength(bal[r.src], r.vol, r.laa, r.laa)
<1>4. SoundBalance(x) /\ x.laa = bal[r.src].laa - r.laa
  <2>1. r.laa \in AtStrength(bal[r.src], r.vol)
    BY <1>1 DEF Served, Disciplined
  <2>2. QED
    BY <1>2, <1>3, <2>1, DrawSound DEF MarkContainer
<1>5. /\ net' \in [Containers -> Int]
      /\ net'[r.src] = net[r.src] - r.laa
      /\ \A c \in Containers \ {r.src} : net'[c] = net[c]
  BY <1>1, <1>3, EntryOut DEF MarkContainer
<1>6. bal' = [bal EXCEPT ![r.src] = x] /\ held' = held
  <2>1. r.laa \in AtStrength(bal[r.src], r.vol)
    BY <1>1 DEF Served, Disciplined
  <2>2. QED
    BY <1>2, <1>3, <2>1, OneStrength DEF MarkContainer
<1>7. BalancesSound'
  <2> HIDE DEF x
  <2>1. /\ -r.laa \in Int /\ x.laa = bal[r.src].laa + (-r.laa)
        /\ net[r.src] \in Int /\ net'[r.src] = net[r.src] + (-r.laa)
    BY <1>1, <1>2, <1>3, <1>4, <1>5 DEF BalancesSound
  <2>2. QED
    BY <1>1, <1>2, <1>3, <1>4, <1>5, <1>6, <2>1, OneVessel
<1>8. EventsSound'
  BY <1>1, <1>3, RecordedSound
  DEF MarkContainer, Recorded, SoundEvent, Event, EventKinds, Request, Vessel
<1>9. QED
  BY <1>7, <1>8 DEF BooksInv

LEMMA UngaugeKeeps ==
  ASSUME NEW r, Served(r), VoidDistillationRun(r, bal)
  PROVE  BooksInv'
<1>1. r.op = "VoidDistillationRun" /\ r.dst \in Containers
  BY DEF Served, Shaped, VoidDistillationRun, PuttingOps
<1>2. /\ held[r.dst] /\ SoundBalance(bal[r.dst]) /\ bal[r.dst].imp = bal[r.dst].laa
      /\ bal[r.dst].vol \in Nat /\ bal[r.dst].laa \in Nat /\ bal[r.dst].imp \in Nat
      /\ bal[r.dst].vol = 0 => bal[r.dst].laa = 0
  BY <1>1, VesselFacts
<1>3. /\ BalancesSound /\ EventsSound
      /\ r \in Request /\ r.vol \in Nat /\ r.laa \in Nat
      /\ r.vol = 0 => r.laa = 0
  BY ServedFacts
<1> DEFINE x == DrawKeepingStrength(bal[r.dst], r.vol, r.laa, r.laa)
<1>4. SoundBalance(x) /\ x.laa = bal[r.dst].laa - r.laa
  <2>1. r.laa \in AtStrength(bal[r.dst], r.vol)
    BY <1>1 DEF Served, Disciplined
  <2>2. QED
    BY <1>2, <1>3, <2>1, DrawSound DEF VoidDistillationRun
<1>5. /\ net' \in [Containers -> Int]
      /\ net'[r.dst] = net[r.dst] - r.laa
      /\ \A c \in Containers \ {r.dst} : net'[c] = net[c]
  BY <1>1, <1>3, EntryOut DEF VoidDistillationRun
<1>6. bal' = [bal EXCEPT ![r.dst] = x] /\ held' = held
  <2>1. r.laa \in AtStrength(bal[r.dst], r.vol)
    BY <1>1 DEF Served, Disciplined
  <2>2. QED
    BY <1>2, <1>3, <2>1, OneStrength DEF VoidDistillationRun, TakenBack
<1>7. BalancesSound'
  <2> HIDE DEF x
  <2>1. /\ -r.laa \in Int /\ x.laa = bal[r.dst].laa + (-r.laa)
        /\ net[r.dst] \in Int /\ net'[r.dst] = net[r.dst] + (-r.laa)
    BY <1>1, <1>2, <1>3, <1>4, <1>5 DEF BalancesSound
  <2>2. QED
    BY <1>1, <1>2, <1>3, <1>4, <1>5, <1>6, <2>1, OneVessel
<1>8. EventsSound'
  <2>1. r.event \in DOMAIN events /\ Voided(r.event)
    BY DEF VoidDistillationRun, Unvoided
  <2>2. QED
    BY <1>3, <2>1, VoidedSound
<1>9. QED
  BY <1>7, <1>8 DEF BooksInv

LEMMA UnbottleKeeps ==
  ASSUME NEW r, Served(r), VoidBottlingRun(r, bal)
  PROVE  BooksInv'
<1>1. r.op = "VoidBottlingRun" /\ r.src \in Containers
  BY DEF Served, Shaped, VoidBottlingRun, DrawingOps
<1>2. /\ held[r.src] /\ SoundBalance(bal[r.src]) /\ bal[r.src].imp = bal[r.src].laa
      /\ bal[r.src].vol \in Nat /\ bal[r.src].laa \in Nat /\ bal[r.src].imp \in Nat
      /\ bal[r.src].vol = 0 => bal[r.src].laa = 0
  BY <1>1, VesselFacts
<1>3. /\ BalancesSound /\ EventsSound
      /\ r \in Request /\ r.vol \in Nat /\ r.laa \in Nat
      /\ r.vol = 0 => r.laa = 0
  BY ServedFacts
<1> DEFINE x == Deposit(bal[r.src], r.vol, r.laa)
<1>4. SoundBalance(x) /\ x.laa = bal[r.src].laa + r.laa
  BY <1>1, <1>2, <1>3, DepositSound
<1>5. /\ net' \in [Containers -> Int]
      /\ net'[r.src] = net[r.src] + r.laa
      /\ \A c \in Containers \ {r.src} : net'[c] = net[c]
  BY <1>1, <1>3, EntryIn DEF VoidBottlingRun
<1>6. bal' = [bal EXCEPT ![r.src] = x] /\ held' = held
  BY DEF VoidBottlingRun
<1>7. BalancesSound'
  <2> HIDE DEF x
  <2>1. /\ r.laa \in Int /\ x.laa = bal[r.src].laa + (r.laa)
        /\ net[r.src] \in Int /\ net'[r.src] = net[r.src] + (r.laa)
    BY <1>1, <1>2, <1>3, <1>4, <1>5 DEF BalancesSound
  <2>2. QED
    BY <1>1, <1>2, <1>3, <1>4, <1>5, <1>6, <2>1, OneVessel
<1>8. EventsSound'
  <2>1. r.event \in DOMAIN events /\ Voided(r.event)
    BY DEF VoidBottlingRun, Unvoided
  <2>2. QED
    BY <1>3, <2>1, VoidedSound
<1>9. QED
  BY <1>7, <1>8 DEF BooksInv

LEMMA UnmarkKeeps ==
  ASSUME NEW r, Served(r), UnmarkContainer(r, bal)
  PROVE  BooksInv'
<1>1. r.op = "UnmarkContainer" /\ r.dst \in Containers
  BY DEF Served, Shaped, UnmarkContainer, PuttingOps
<1>2. /\ held[r.dst] /\ SoundBalance(bal[r.dst]) /\ bal[r.dst].imp = bal[r.dst].laa
      /\ bal[r.dst].vol \in Nat /\ bal[r.dst].laa \in Nat /\ bal[r.dst].imp \in Nat
      /\ bal[r.dst].vol = 0 => bal[r.dst].laa = 0
  BY <1>1, VesselFacts
<1>3. /\ BalancesSound /\ EventsSound
      /\ r \in Request /\ r.vol \in Nat /\ r.laa \in Nat
      /\ r.vol = 0 => r.laa = 0
  BY ServedFacts
<1> DEFINE x == Gauged(bal[r.dst].vol + r.vol, bal[r.dst].laa + r.laa)
<1>4. SoundBalance(x) /\ x.laa = bal[r.dst].laa + r.laa
  <2>1. bal[r.dst].vol + r.vol = 0 => bal[r.dst].laa + r.laa = 0
    BY <1>2, <1>3
  <2>2. QED
    BY <1>2, <1>3, <2>1, GaugedSound
<1>5. /\ net' \in [Containers -> Int]
      /\ net'[r.dst] = net[r.dst] + r.laa
      /\ \A c \in Containers \ {r.dst} : net'[c] = net[c]
  BY <1>1, <1>3, EntryIn DEF UnmarkContainer
<1>6. bal' = [bal EXCEPT ![r.dst] = x] /\ held' = held
  BY DEF UnmarkContainer
<1>7. BalancesSound'
  <2> HIDE DEF x
  <2>1. /\ r.laa \in Int /\ x.laa = bal[r.dst].laa + (r.laa)
        /\ net[r.dst] \in Int /\ net'[r.dst] = net[r.dst] + (r.laa)
    BY <1>1, <1>2, <1>3, <1>4, <1>5 DEF BalancesSound
  <2>2. QED
    BY <1>1, <1>2, <1>3, <1>4, <1>5, <1>6, <2>1, OneVessel
<1>8. EventsSound'
  <2>1. r.event \in DOMAIN events /\ Voided(r.event)
    BY DEF UnmarkContainer, Unvoided
  <2>2. QED
    BY <1>3, <2>1, VoidedSound
<1>9. QED
  BY <1>7, <1>8 DEF BooksInv

LEMMA RegaugeKeeps ==
  ASSUME NEW r, Served(r), RegaugeBarrel(r, bal)
  PROVE  BooksInv'
<1>1. r.op = "RegaugeBarrel" /\ r.dst \in Containers
  BY DEF Served, Shaped, RegaugeBarrel, PuttingOps
<1>2. /\ held[r.dst] /\ SoundBalance(bal[r.dst]) /\ bal[r.dst].imp = bal[r.dst].laa
      /\ bal[r.dst].vol \in Nat /\ bal[r.dst].laa \in Nat /\ bal[r.dst].imp \in Nat
      /\ bal[r.dst].vol = 0 => bal[r.dst].laa = 0
  BY <1>1, VesselFacts
<1>3. /\ BalancesSound /\ EventsSound
      /\ r \in Request /\ r.vol \in Nat /\ r.laa \in Nat
      /\ r.vol = 0 => r.laa = 0
  BY ServedFacts
<1> DEFINE x == Gauged(r.vol, r.laa)
           a == r.laa - bal[r.dst].laa
<1>4. SoundBalance(x) /\ x.laa = bal[r.dst].laa + a
  BY <1>2, <1>3, GaugedSound
<1>5. r.laa < bal[r.dst].laa => r.vol < bal[r.dst].vol
  BY <1>1 DEF Served, Disciplined
<1>6. /\ a \in Int
      /\ net' \in [Containers -> Int]
      /\ net'[r.dst] = net[r.dst] + a
      /\ \A c \in Containers \ {r.dst} : net'[c] = net[c]
  <2>1. r.laa <= bal[r.dst].laa /\ net \in [Containers -> Int]
    BY <1>3 DEF RegaugeBarrel, BalancesSound
  <2>2. CASE r.laa < bal[r.dst].laa
    <3>1. net' = Entry(net, r.dst, NoVessel, bal[r.dst].laa - r.laa)
      BY <1>5, <2>2 DEF RegaugeBarrel
    <3>2. bal[r.dst].laa - r.laa \in Int /\ net[r.dst] \in Int
      BY <1>1, <1>2, <1>3, <2>1
    <3>3. QED
      BY <1>1, <1>2, <1>3, <3>1, <3>2, EntryOut
  <2>3. CASE r.laa = bal[r.dst].laa
    <3>1. net' = net
      BY <1>2, <1>3, <2>3 DEF RegaugeBarrel
    <3>2. QED
      BY <1>1, <1>2, <1>3, <2>1, <2>3, <3>1
  <2>4. QED
    BY <1>2, <1>3, <2>1, <2>2, <2>3
<1>7. bal' = [bal EXCEPT ![r.dst] = x] /\ held' = held
  BY DEF RegaugeBarrel
<1>8. BalancesSound'
  <2> HIDE DEF x, a
  <2>1. QED
    BY <1>1, <1>2, <1>3, <1>4, <1>6, <1>7, OneVessel
<1>9. EventsSound'
  BY <1>3 DEF RegaugeBarrel, EventsSound
<1>10. QED
  BY <1>8, <1>9 DEF BooksInv

LEMMA AdjustKeeps ==
  ASSUME NEW r, Served(r), RecordInventoryAdjustment(r, bal)
  PROVE  BooksInv'
<1>1. r.op = "RecordInventoryAdjustment" /\ r.dst \in Containers
  BY DEF Served, Shaped, RecordInventoryAdjustment, PuttingOps
<1>2. /\ held[r.dst] /\ SoundBalance(bal[r.dst]) /\ bal[r.dst].imp = bal[r.dst].laa
      /\ bal[r.dst].vol \in Nat /\ bal[r.dst].laa \in Nat /\ bal[r.dst].imp \in Nat
      /\ bal[r.dst].vol = 0 => bal[r.dst].laa = 0
  BY <1>1, VesselFacts
<1>3. /\ BalancesSound /\ EventsSound
      /\ r \in Request /\ r.vol \in Nat /\ r.laa \in Nat
      /\ r.vol = 0 => r.laa = 0
  BY ServedFacts
<1> DEFINE x == Gauged(r.vol, r.laa)
           a == r.laa - bal[r.dst].laa
<1>4. SoundBalance(x) /\ x.laa = bal[r.dst].laa + a
  BY <1>2, <1>3, GaugedSound
<1>5. r.vol < bal[r.dst].vol => r.laa <= bal[r.dst].laa
  BY <1>1 DEF Served, Disciplined
<1>6. /\ a \in Int
      /\ net' \in [Containers -> Int]
      /\ net'[r.dst] = net[r.dst] + a
      /\ \A c \in Containers \ {r.dst} : net'[c] = net[c]
  <2>1. a \in Int /\ net[r.dst] \in Int
    BY <1>1, <1>2, <1>3 DEF BalancesSound
  <2>2. CASE a < 0 \/ r.vol < bal[r.dst].vol
    <3>1. a <= 0
      BY <1>2, <1>3, <1>5, <2>1, <2>2
    <3>2. net' = Entry(net, r.dst, NoVessel, -a)
      BY <2>1, <2>2, <3>1 DEF RecordInventoryAdjustment
    <3>3. QED
      BY <1>1, <1>3, <2>1, <3>2, EntryOut
  <2>3. CASE ~(a < 0 \/ r.vol < bal[r.dst].vol)
    <3>1. net' = Entry(net, NoVessel, r.dst, a)
      BY <2>3 DEF RecordInventoryAdjustment
    <3>2. QED
      BY <1>1, <1>3, <2>1, <3>1, EntryIn
  <2>4. QED
    BY <2>2, <2>3
<1>7. bal' = [bal EXCEPT ![r.dst] = x] /\ held' = held
  BY DEF RecordInventoryAdjustment
<1>8. BalancesSound'
  <2> HIDE DEF x, a
  <2>1. QED
    BY <1>1, <1>2, <1>3, <1>4, <1>6, <1>7, OneVessel
<1>9. EventsSound'
  BY <1>3 DEF RecordInventoryAdjustment, EventsSound
<1>10. QED
  BY <1>8, <1>9 DEF BooksInv

LEMMA HandOverKeeps ==
  ASSUME NEW r, Served(r), HandOver(r, bal)
  PROVE  BooksInv'
<1>1. r.dst \in Containers
  BY DEF Served, Shaped, HandOver, PuttingOps
<1>2. BalancesSound /\ EventsSound
  BY ServedFacts
<1>3. /\ bal[r.dst].laa \in Int
      /\ net[r.dst] = bal[r.dst].laa
  BY <1>1, <1>2 DEF BalancesSound, SoundBalance, Balance, HandOver
<1>4. /\ net' \in [Containers -> Int]
      /\ net'[r.dst] = 0
      /\ \A c \in Containers \ {r.dst} : net'[c] = net[c]
  BY <1>1, <1>2, <1>3, EntryOut DEF HandOver
<1>5. bal' = bal /\ held' = [held EXCEPT ![r.dst] = FALSE] /\ events' = events
  BY DEF HandOver
<1>6. BalancesSound'
  BY <1>1, <1>2, <1>4, <1>5 DEF BalancesSound
<1>7. QED
  BY <1>2, <1>5, <1>6 DEF BooksInv, EventsSound

LEMMA TakeBackKeeps ==
  ASSUME NEW r, Served(r), TakeBack(r, bal)
  PROVE  BooksInv'
<1>1. r.dst \in Containers
  BY DEF Served, Shaped, TakeBack, PuttingOps
<1>2. BalancesSound /\ EventsSound
  BY ServedFacts
<1>3. /\ bal[r.dst].laa \in Int
      /\ net[r.dst] = 0
  BY <1>1, <1>2 DEF BalancesSound, SoundBalance, Balance, TakeBack
<1>4. /\ net' \in [Containers -> Int]
      /\ net'[r.dst] = bal[r.dst].laa
      /\ \A c \in Containers \ {r.dst} : net'[c] = net[c]
  BY <1>1, <1>2, <1>3, EntryIn DEF TakeBack
<1>5. bal' = bal /\ held' = [held EXCEPT ![r.dst] = TRUE] /\ events' = events
  BY DEF TakeBack
<1>6. BalancesSound'
  BY <1>1, <1>2, <1>4, <1>5 DEF BalancesSound
<1>7. QED
  BY <1>2, <1>5, <1>6 DEF BooksInv, EventsSound

LEMMA FillKeeps ==
  ASSUME NEW r, Served(r), FillBarrel(r, bal)
  PROVE  BooksInv'
<1>1. r.op = "FillBarrel" /\ r.src \in Containers /\ r.dst \in Containers
  BY DEF Served, Shaped, FillBarrel, MovingOps
<1>2. /\ held[r.src] /\ SoundBalance(bal[r.src]) /\ bal[r.src].imp = bal[r.src].laa
      /\ bal[r.src].vol \in Nat /\ bal[r.src].laa \in Nat /\ bal[r.src].imp \in Nat
      /\ bal[r.src].vol = 0 => bal[r.src].laa = 0
  BY <1>1, VesselFacts
<1>3. /\ held[r.dst] /\ SoundBalance(bal[r.dst]) /\ bal[r.dst].imp = bal[r.dst].laa
      /\ bal[r.dst].vol \in Nat /\ bal[r.dst].laa \in Nat /\ bal[r.dst].imp \in Nat
      /\ bal[r.dst].vol = 0 => bal[r.dst].laa = 0
  BY <1>1, VesselFacts
<1>4. /\ BalancesSound /\ EventsSound
      /\ r \in Request /\ r.vol \in Nat /\ r.laa \in Nat
      /\ r.vol = 0 => r.laa = 0
  BY ServedFacts
<1>5. /\ r.src # r.dst
      /\ bal[r.src].vol <= r.vol => r.laa = bal[r.src].laa
  BY <1>1 DEF Served, Disciplined
<1> DEFINE x == Withdraw(bal[r.src], r.vol, r.laa)
           y == Deposit(bal[r.dst], r.vol, r.laa)
<1>6. SoundBalance(x) /\ x.laa = bal[r.src].laa - r.laa
  BY <1>2, <1>4, <1>5, WithdrawSound DEF FillBarrel
<1>7. SoundBalance(y) /\ y.laa = bal[r.dst].laa + r.laa
  BY <1>3, <1>4, DepositSound
<1>8. /\ net' \in [Containers -> Int]
      /\ net'[r.src] = net[r.src] - r.laa /\ net'[r.dst] = net[r.dst] + r.laa
      /\ \A c \in Containers \ {r.src, r.dst} : net'[c] = net[c]
  BY <1>1, <1>4, <1>5, EntryAcross DEF FillBarrel
<1>9. bal' = [bal EXCEPT ![r.src] = x, ![r.dst] = y] /\ held' = held
  BY DEF FillBarrel
<1>10. BalancesSound'
  <2> HIDE DEF x, y
  <2>1. /\ -r.laa \in Int /\ x.laa = bal[r.src].laa + (-r.laa)
        /\ net'[r.src] = net[r.src] + (-r.laa)
    BY <1>1, <1>2, <1>4, <1>6, <1>8 DEF BalancesSound
  <2>2. QED
    <3>1. TwoChange(r.src, x, -r.laa, r.dst, y, r.laa)
      BY <1>1, <1>2, <1>3, <1>4, <1>5, <1>6, <1>7, <1>8, <1>9, <2>1 DEF TwoChange
    <3>2. QED
      BY <1>4, <3>1, TwoVessels
<1>11. EventsSound'
  BY <1>1, <1>4, RecordedSound
  DEF FillBarrel, Recorded, SoundEvent, Event, EventKinds, Request, Vessel
<1>12. QED
  BY <1>10, <1>11 DEF BooksInv

LEMMA DumpKeeps ==
  ASSUME NEW r, Served(r), DumpBarrel(r, bal)
  PROVE  BooksInv'
<1>1. r.op = "DumpBarrel" /\ r.src \in Containers /\ r.dst \in Containers
  BY DEF Served, Shaped, DumpBarrel, MovingOps
<1>2. /\ held[r.src] /\ SoundBalance(bal[r.src]) /\ bal[r.src].imp = bal[r.src].laa
      /\ bal[r.src].vol \in Nat /\ bal[r.src].laa \in Nat /\ bal[r.src].imp \in Nat
      /\ bal[r.src].vol = 0 => bal[r.src].laa = 0
  BY <1>1, VesselFacts
<1>3. /\ held[r.dst] /\ SoundBalance(bal[r.dst]) /\ bal[r.dst].imp = bal[r.dst].laa
      /\ bal[r.dst].vol \in Nat /\ bal[r.dst].laa \in Nat /\ bal[r.dst].imp \in Nat
      /\ bal[r.dst].vol = 0 => bal[r.dst].laa = 0
  BY <1>1, VesselFacts
<1>4. /\ BalancesSound /\ EventsSound
      /\ r \in Request /\ r.vol \in Nat /\ r.laa \in Nat
      /\ r.vol = 0 => r.laa = 0
  BY ServedFacts
<1>5. r.src # r.dst
  BY <1>1 DEF Served, Disciplined
<1> DEFINE y == Deposit(bal[r.dst], r.vol, r.laa)
           left == bal[r.src].laa - r.laa
           moved == Entry(net, r.src, r.dst, r.laa)
<1>6. SoundBalance(Empty) /\ Empty.laa = 0
  BY DEF Empty, SoundBalance, Balance
<1>7. SoundBalance(y) /\ y.laa = bal[r.dst].laa + r.laa
  BY <1>3, <1>4, DepositSound
<1>8. net \in [Containers -> Int] /\ net[r.src] \in Int /\ net[r.dst] \in Int
  BY <1>1, <1>4 DEF BalancesSound
<1>9. /\ moved \in [Containers -> Int]
      /\ \A c \in Containers :
           moved[c] = net[c] + (IF c = r.dst THEN r.laa ELSE 0)
                             - (IF c = r.src THEN r.laa ELSE 0)
  BY <1>4, <1>8, EntryMoves
<1>10. /\ net' \in [Containers -> Int]
       /\ \A c \in Containers :
            net'[c] = moved[c] + (IF c = NoVessel THEN left ELSE 0)
                               - (IF c = r.src THEN left ELSE 0)
  <2>1. left \in Int /\ net' = Entry(moved, r.src, NoVessel, left)
    BY <1>2, <1>4 DEF DumpBarrel
  <2> HIDE DEF moved, left
  <2>2. QED
    BY <1>9, <2>1, EntryMoves
<1>11. /\ net'[r.src] = net[r.src] + (-bal[r.src].laa)
       /\ net'[r.dst] = net[r.dst] + r.laa
       /\ \A c \in Containers \ {r.src, r.dst} : net'[c] = net[c]
  <2>1. NoVessel \notin Containers
    BY ContainersAssumption
  <2>2. \A c \in Containers : net[c] \in Int
    BY <1>8
  <2> HIDE DEF moved
  <2>3. QED
    BY <1>1, <1>2, <1>4, <1>5, <1>8, <1>9, <1>10, <2>1, <2>2
<1>12. bal' = [bal EXCEPT ![r.src] = Empty, ![r.dst] = y] /\ held' = held
  BY DEF DumpBarrel
<1>13. BalancesSound'
  <2> HIDE DEF y, moved, left
  <2>1. -bal[r.src].laa \in Int /\ Empty.laa = bal[r.src].laa + (-bal[r.src].laa)
    BY <1>2, <1>6
  <2>2. QED
    <3>1. TwoChange(r.src, Empty, -bal[r.src].laa, r.dst, y, r.laa)
      BY <1>1, <1>2, <1>3, <1>4, <1>5, <1>6, <1>7, <1>10, <1>11, <1>12, <2>1 DEF TwoChange
    <3>2. QED
      BY <1>4, <3>1, TwoVessels
<1>14. EventsSound'
  BY <1>1, <1>4, RecordedSound
  DEF DumpBarrel, Recorded, SoundEvent, Event, EventKinds, Request, Vessel
<1>15. QED
  BY <1>13, <1>14 DEF BooksInv

LEMMA UnmoveKeeps ==
  ASSUME NEW r, Served(r), VoidBarrelEvent(r, bal)
  PROVE  BooksInv'
<1>1. r.op = "VoidBarrelEvent" /\ r.dst \in Containers /\ r.src \in Vessel
  BY DEF Served, Shaped, VoidBarrelEvent, Request
<1>2. /\ held[r.dst] /\ SoundBalance(bal[r.dst]) /\ bal[r.dst].imp = bal[r.dst].laa
      /\ bal[r.dst].vol \in Nat /\ bal[r.dst].laa \in Nat /\ bal[r.dst].imp \in Nat
  BY <1>1, VesselFacts
<1>3. /\ BalancesSound /\ EventsSound
      /\ r \in Request /\ r.vol \in Nat /\ r.laa \in Nat
      /\ r.vol = 0 => r.laa = 0
  BY ServedFacts
<1>4. r.src # r.dst /\ r.laa \in AtStrength(bal[r.dst], r.vol) /\ r.vol <= bal[r.dst].vol
  BY <1>1 DEF Served, Disciplined, VoidBarrelEvent
<1> DEFINE x == DrawKeepingStrength(bal[r.dst], r.vol, r.laa, r.laa)
           mid(s) == [bal EXCEPT ![r.dst] = TakenBack(r, bal, s)]
<1>5. SoundBalance(x) /\ x.laa = bal[r.dst].laa - r.laa
  BY <1>2, <1>3, <1>4, DrawSound
<1>6. PICK s \in AtStrength(bal[r.dst], r.vol) :
        bal' = IF r.src = NoVessel
               THEN [bal EXCEPT ![r.dst] = mid(s)[r.dst]]
               ELSE [bal EXCEPT ![r.dst] = mid(s)[r.dst],
                                ![r.src] = Deposit(mid(s)[r.src], r.vol, r.laa)]
  BY DEF VoidBarrelEvent
<1>7. s = r.laa
  BY <1>2, <1>3, <1>4, OneStrength
<1>8. bal \in [Containers -> Balance] /\ held' = held
  BY <1>3 DEF BalancesSound, VoidBarrelEvent
<1>9. mid(s)[r.dst] = x /\ (r.src \in Containers => mid(s)[r.src] = bal[r.src])
  BY <1>1, <1>4, <1>7, <1>8 DEF TakenBack
<1>10. -r.laa \in Int /\ x.laa = bal[r.dst].laa + (-r.laa) /\ net[r.dst] \in Int
  BY <1>1, <1>2, <1>3, <1>5 DEF BalancesSound
<1> HIDE DEF x, mid
<1>11. BalancesSound'
  <2>1. CASE r.src = NoVessel
    <3>1. bal' = [bal EXCEPT ![r.dst] = x]
      BY <1>6, <1>9, <2>1
    <3>2. /\ net' \in [Containers -> Int]
          /\ net'[r.dst] = net[r.dst] - r.laa
          /\ \A c \in Containers \ {r.dst} : net'[c] = net[c]
      BY <1>1, <1>3, <2>1, EntryOut DEF VoidBarrelEvent
    <3>3. net'[r.dst] = net[r.dst] + (-r.laa)
      BY <1>3, <1>10, <3>2
    <3>4. QED
      BY <1>1, <1>2, <1>3, <1>5, <1>8, <1>10, <3>1, <3>2, <3>3, OneVessel
  <2>2. CASE r.src # NoVessel
    <3>1. r.src \in Containers
      BY <1>1, <2>2 DEF Vessel
    <3>2. /\ held[r.src] /\ SoundBalance(bal[r.src]) /\ bal[r.src].imp = bal[r.src].laa
          /\ bal[r.src].laa \in Nat
      BY <1>1, <3>1, VesselFacts
    <3> DEFINE y == Deposit(bal[r.src], r.vol, r.laa)
    <3>3. SoundBalance(y) /\ y.laa = bal[r.src].laa + r.laa
      BY <1>3, <3>2, DepositSound
    <3> HIDE DEF y
    <3>4. bal' = [bal EXCEPT ![r.dst] = x, ![r.src] = y]
      BY <1>6, <1>9, <2>2, <3>1 DEF y
    <3>5. /\ net' \in [Containers -> Int]
          /\ net'[r.dst] = net[r.dst] - r.laa /\ net'[r.src] = net[r.src] + r.laa
          /\ \A c \in Containers \ {r.src, r.dst} : net'[c] = net[c]
      BY <1>1, <1>3, <1>4, <3>1, EntryAcross DEF VoidBarrelEvent
    <3>6. net'[r.dst] = net[r.dst] + (-r.laa)
      BY <1>3, <1>10, <3>5
    <3>7. QED
      <4>1. \A c \in Containers \ {r.dst, r.src} : net'[c] = net[c]
        BY <3>5
      <4>2. r.laa \in Int /\ SoundBalance(x) /\ r.dst # r.src
        BY <1>3, <1>4, <1>5
      <4>3. TwoChange(r.dst, x, -r.laa, r.src, y, r.laa)
        BY <1>1, <1>2, <1>8, <1>10, <3>1, <3>2, <3>3, <3>4, <3>5, <3>6, <4>1, <4>2
        DEF TwoChange
      <4>4. QED
        BY <1>3, <4>3, TwoVessels
  <2>3. QED
    BY <2>1, <2>2
<1>12. EventsSound'
  <2>1. r.event \in DOMAIN events /\ Voided(r.event)
    BY DEF VoidBarrelEvent, Unvoided
  <2>2. QED
    BY <1>3, <2>1, VoidedSound
<1>13. QED
  BY <1>11, <1>12 DEF BooksInv

LEMMA BlendKeeps ==
  ASSUME NEW r, Served(r), CreateBlend(r, bal)
  PROVE  BooksInv'
<1>1. /\ r.op = "CreateBlend"
      /\ r.src \in Containers /\ r.also \in Containers /\ r.dst \in Containers
      /\ r.dst # r.src /\ r.dst # r.also /\ r.src # r.also
  BY DEF Served, Shaped, CreateBlend, MovingOps, Disciplined
<1>2. \A c \in {r.src, r.also, r.dst} :
        /\ held[c] /\ SoundBalance(bal[c])
        /\ bal[c].laa \in Nat /\ bal[c].imp = bal[c].laa
  BY <1>1, VesselFacts
<1>3. /\ BalancesSound /\ EventsSound
      /\ r \in Request /\ r.vol \in Nat /\ r.more \in Nat
  BY ServedFacts DEF Request
<1> DEFINE drawn(c, v, s) == DrawKeepingStrength(bal[c], v, s, s)
           blended(x, y) == Deposit(Deposit(bal[r.dst], r.vol, x), r.more, y)
<1>4. PICK x \in AtStrength(bal[r.src], r.vol), y \in AtStrength(bal[r.also], r.more) :
        /\ bal' = [bal EXCEPT ![r.src]  = drawn(r.src, r.vol, x),
                              ![r.also] = drawn(r.also, r.more, y),
                              ![r.dst]  = blended(x, y)]
        /\ net' = Entry(Entry(net, r.src, r.dst, x), r.also, r.dst, y)
  BY DEF CreateBlend
<1>5. /\ SoundBalance(drawn(r.src, r.vol, x))
      /\ drawn(r.src, r.vol, x).laa = bal[r.src].laa - x /\ x \in Nat
  BY <1>2, <1>3, DrawSound DEF CreateBlend
<1>6. /\ SoundBalance(drawn(r.also, r.more, y))
      /\ drawn(r.also, r.more, y).laa = bal[r.also].laa - y /\ y \in Nat
  BY <1>2, <1>3, DrawSound DEF CreateBlend
<1>7. /\ SoundBalance(blended(x, y))
      /\ blended(x, y).laa = bal[r.dst].laa + x + y
  <2>1. r.vol = 0 => x = 0
    <3>1. x * bal[r.src].vol = r.vol * bal[r.src].imp /\ x <= bal[r.src].imp
      BY DEF AtStrength
    <3>2. bal[r.src].vol \in Nat /\ bal[r.src].imp \in Nat
          /\ (bal[r.src].vol = 0 => bal[r.src].imp = 0)
      BY <1>2 DEF SoundBalance, Balance
    <3>3. QED
      BY <1>5, <3>1, <3>2, Cancel
  <2>2. r.more = 0 => y = 0
    <3>1. y * bal[r.also].vol = r.more * bal[r.also].imp /\ y <= bal[r.also].imp
      BY DEF AtStrength
    <3>2. bal[r.also].vol \in Nat /\ bal[r.also].imp \in Nat
          /\ (bal[r.also].vol = 0 => bal[r.also].imp = 0)
      BY <1>2 DEF SoundBalance, Balance
    <3>3. QED
      BY <1>6, <3>1, <3>2, Cancel
  <2> DEFINE first == Deposit(bal[r.dst], r.vol, x)
  <2>3. SoundBalance(first) /\ first.laa = bal[r.dst].laa + x
    BY <1>2, <1>3, <1>5, <2>1, DepositSound
  <2> HIDE DEF first
  <2>4. SoundBalance(Deposit(first, r.more, y)) /\ Deposit(first, r.more, y).laa = first.laa + y
    BY <1>3, <1>6, <2>2, <2>3, DepositSound
  <2>5. QED
    BY <2>3, <2>4 DEF first
<1> HIDE DEF drawn, blended
<1>8. /\ net' \in [Containers -> Int]
      /\ \A c \in Containers :
           net'[c] = net[c] + (IF c = r.dst THEN x ELSE 0) - (IF c = r.src THEN x ELSE 0)
                            + (IF c = r.dst THEN y ELSE 0) - (IF c = r.also THEN y ELSE 0)
  <2>1. net \in [Containers -> Int]
    BY <1>3 DEF BalancesSound
  <2> DEFINE one == Entry(net, r.src, r.dst, x)
  <2>2. /\ one \in [Containers -> Int]
        /\ \A c \in Containers :
             one[c] = net[c] + (IF c = r.dst THEN x ELSE 0) - (IF c = r.src THEN x ELSE 0)
    BY <1>5, <2>1, EntryMoves
  <2> HIDE DEF one
  <2>3. net' = Entry(one, r.also, r.dst, y)
    BY <1>4 DEF one
  <2>4. /\ net' \in [Containers -> Int]
        /\ \A c \in Containers :
             net'[c] = one[c] + (IF c = r.dst THEN y ELSE 0) - (IF c = r.also THEN y ELSE 0)
    BY <1>6, <2>2, <2>3, EntryMoves
  <2>5. QED
    BY <2>2, <2>4
<1>9. ASSUME NEW c \in Containers
      PROVE  /\ SoundBalance(bal'[c])
             /\ net'[c] = IF held[c] THEN bal'[c].laa ELSE 0
  <2>1. /\ bal \in [Containers -> Balance] /\ net[c] \in Int /\ SoundBalance(bal[c])
        /\ net[c] = IF held[c] THEN bal[c].laa ELSE 0
    BY <1>3, <1>9 DEF BalancesSound
  <2>2. CASE c = r.src
    <3>1. bal'[c] = drawn(r.src, r.vol, x)
      BY <1>1, <1>4, <2>1, <2>2
    <3>2. QED
      BY <1>1, <1>2, <1>5, <1>6, <1>8, <2>1, <2>2, <3>1
  <2>3. CASE c = r.also
    <3>1. bal'[c] = drawn(r.also, r.more, y)
      BY <1>1, <1>4, <2>1, <2>3
    <3>2. QED
      BY <1>1, <1>2, <1>5, <1>6, <1>8, <2>1, <2>3, <3>1
  <2>4. CASE c = r.dst
    <3>1. bal'[c] = blended(x, y)
      BY <1>1, <1>4, <2>1, <2>4
    <3>2. QED
      BY <1>1, <1>2, <1>5, <1>6, <1>7, <1>8, <2>1, <2>4, <3>1
  <2>5. CASE c \notin {r.src, r.also, r.dst}
    <3>1. bal'[c] = bal[c]
      BY <1>4, <2>1, <2>5
    <3>2. QED
      BY <1>5, <1>6, <1>8, <2>1, <2>5, <3>1
  <2>6. QED
    BY <2>2, <2>3, <2>4, <2>5
<1>10. bal' \in [Containers -> Balance]
  BY <1>3, <1>4, <1>5, <1>6, <1>7 DEF BalancesSound, SoundBalance
<1>11. QED
  BY <1>3, <1>8, <1>9, <1>10 DEF BooksInv, BalancesSound, EventsSound, CreateBlend

-----------------------------------------------------------------------------
(* What every operation does, disciplined or not, and from whatever copy b of *)
(* the balances it computes.                                                 *)

\* What may be voided only grows, and an event changes only by being voided.
EventsGrow ==
  /\ EventsSound'
  /\ \A e \in DOMAIN events :
       /\ e \in DOMAIN events'
       /\ events'[e].kind = events[e].kind
       /\ events'[e].src = events[e].src /\ events'[e].dst = events[e].dst
       /\ events'[e].vol = events[e].vol /\ events'[e].laa = events[e].laa

LEMMA RecordedGrows ==
  ASSUME EventsSound, NEW kind, NEW from, NEW to, NEW v, NEW a,
         SoundEvent([kind |-> kind, src |-> from, dst |-> to,
                     vol |-> v, laa |-> a, voided |-> FALSE]),
         Recorded(kind, from, to, v, a)
  PROVE  EventsGrow
<1> DEFINE e == [kind |-> kind, src |-> from, dst |-> to,
                 vol |-> v, laa |-> a, voided |-> FALSE]
<1>1. events' = Append(events, e) /\ e \in Event /\ events \in Seq(Event)
  BY DEF Recorded, SoundEvent, EventsSound
<1>2. EventsSound'
  BY <1>1, RecordedSound
<1> HIDE DEF e
<1>3. ASSUME NEW i \in DOMAIN events PROVE i \in DOMAIN events' /\ events'[i] = events[i]
  BY <1>1
<1>4. QED
  BY <1>2, <1>3 DEF EventsGrow

LEMMA VoidedGrows ==
  ASSUME EventsSound, NEW i \in DOMAIN events, Voided(i)
  PROVE  EventsGrow
<1> DEFINE v == [events[i] EXCEPT !.voided = TRUE]
<1>1. /\ events[i] \in Event
      /\ DOMAIN events' = DOMAIN events
      /\ \A j \in DOMAIN events :
           events'[j] = IF j = i THEN v ELSE events[j]
  BY DEF EventsSound, Voided, SoundEvent
<1>2. /\ v.kind = events[i].kind /\ v.src = events[i].src
      /\ v.dst = events[i].dst /\ v.vol = events[i].vol /\ v.laa = events[i].laa
  BY <1>1 DEF Event
<1> HIDE DEF v
<1>3. QED
  BY <1>1, <1>2, VoidedSound DEF EventsGrow

LEMMA SameGrows ==
  ASSUME EventsSound, events' = events
  PROVE  EventsGrow
BY DEF EventsGrow, EventsSound

LEMMA ShapedVessels ==
  ASSUME NEW r, Shaped(r)
  PROVE  /\ r.vol \in Nat /\ r.laa \in Nat /\ r.more \in Nat
         /\ r.src \in Vessel /\ r.dst \in Vessel /\ r.also \in Vessel
         /\ r.vol = 0 => r.laa = 0
         /\ NoVessel \in Vessel /\ NoVessel \notin Containers
BY ContainersAssumption DEF Shaped, Request, Vessel

LEMMA ApplyEvents ==
  ASSUME EventsSound, NEW r, Shaped(r), NEW b, Apply(r, b)
  PROVE  EventsGrow
<1>1. /\ r.vol \in Nat /\ r.laa \in Nat
      /\ r.src \in Vessel /\ r.dst \in Vessel
      /\ r.vol = 0 => r.laa = 0
      /\ NoVessel \in Vessel
  BY ShapedVessels
<1>2. CASE AdoptOpeningInventory(r, b)
  <2>1. r.dst \in Containers
    BY <1>2 DEF AdoptOpeningInventory, Shaped, PuttingOps
  <2>2. CASE UNCHANGED events
    BY <2>2, SameGrows
  <2>3. CASE Recorded("adopt", NoVessel, r.dst, r.vol, r.laa)
    BY <1>1, <2>1, <2>3, RecordedGrows DEF SoundEvent, Event, EventKinds
  <2>4. QED
    BY <1>2, <2>2, <2>3 DEF AdoptOpeningInventory
<1>3. CASE RecordProductionGauge(r, b)
  <2>1. r.dst \in Containers
    BY <1>3 DEF RecordProductionGauge, Shaped, DrawingOps, MovingOps, PuttingOps
  <2>2. Recorded("gauge", NoVessel, r.dst, r.vol, r.laa)
    BY <1>3 DEF RecordProductionGauge
  <2>3. SoundEvent([kind |-> "gauge", src |-> NoVessel, dst |-> r.dst,
                    vol |-> r.vol, laa |-> r.laa, voided |-> FALSE])
    BY <1>1, <2>1 DEF SoundEvent, Event, EventKinds
  <2>4. QED
    BY <2>2, <2>3, RecordedGrows
<1>4. CASE ReceiveExternal(r, b)
  BY <1>4, SameGrows DEF ReceiveExternal
<1>5. CASE ShipExternal(r, b)
  BY <1>5, SameGrows DEF ShipExternal
<1>6. CASE StartRedistillation(r, b)
  BY <1>6, SameGrows DEF StartRedistillation
<1>7. CASE CreateBottlingRun(r, b)
  <2>1. r.src \in Containers
    BY <1>7 DEF CreateBottlingRun, Shaped, DrawingOps, MovingOps, PuttingOps
  <2>2. Recorded("bottle", r.src, NoVessel, r.vol, r.laa)
    BY <1>7 DEF CreateBottlingRun
  <2>3. SoundEvent([kind |-> "bottle", src |-> r.src, dst |-> NoVessel,
                    vol |-> r.vol, laa |-> r.laa, voided |-> FALSE])
    BY <1>1, <2>1 DEF SoundEvent, Event, EventKinds
  <2>4. QED
    BY <2>2, <2>3, RecordedGrows
<1>8. CASE MarkContainer(r, b)
  <2>1. r.src \in Containers
    BY <1>8 DEF MarkContainer, Shaped, DrawingOps, MovingOps, PuttingOps
  <2>2. Recorded("mark", r.src, NoVessel, r.vol, r.laa)
    BY <1>8 DEF MarkContainer
  <2>3. SoundEvent([kind |-> "mark", src |-> r.src, dst |-> NoVessel,
                    vol |-> r.vol, laa |-> r.laa, voided |-> FALSE])
    BY <1>1, <2>1 DEF SoundEvent, Event, EventKinds
  <2>4. QED
    BY <2>2, <2>3, RecordedGrows
<1>9. CASE FillBarrel(r, b)
  <2>1. r.src \in Containers /\ r.dst \in Containers
    BY <1>9 DEF FillBarrel, Shaped, DrawingOps, MovingOps, PuttingOps
  <2>2. Recorded("fill", r.src, r.dst, r.vol, r.laa)
    BY <1>9 DEF FillBarrel
  <2>3. SoundEvent([kind |-> "fill", src |-> r.src, dst |-> r.dst,
                    vol |-> r.vol, laa |-> r.laa, voided |-> FALSE])
    BY <1>1, <2>1 DEF SoundEvent, Event, EventKinds
  <2>4. QED
    BY <2>2, <2>3, RecordedGrows
<1>10. CASE DumpBarrel(r, b)
  <2>1. r.src \in Containers /\ r.dst \in Containers
    BY <1>10 DEF DumpBarrel, Shaped, DrawingOps, MovingOps, PuttingOps
  <2>2. Recorded("dump", r.src, r.dst, r.vol, r.laa)
    BY <1>10 DEF DumpBarrel
  <2>3. SoundEvent([kind |-> "dump", src |-> r.src, dst |-> r.dst,
                    vol |-> r.vol, laa |-> r.laa, voided |-> FALSE])
    BY <1>1, <2>1 DEF SoundEvent, Event, EventKinds
  <2>4. QED
    BY <2>2, <2>3, RecordedGrows
<1>11. CASE CreateBlend(r, b)
  BY <1>11, SameGrows DEF CreateBlend
<1>12. CASE RegaugeBarrel(r, b)
  BY <1>12, SameGrows DEF RegaugeBarrel
<1>13. CASE RecordInventoryAdjustment(r, b)
  BY <1>13, SameGrows DEF RecordInventoryAdjustment
<1>14. CASE HandOver(r, b)
  BY <1>14, SameGrows DEF HandOver
<1>15. CASE TakeBack(r, b)
  BY <1>15, SameGrows DEF TakeBack
<1>16. CASE VoidBarrelEvent(r, b)
  <2>1. r.event \in DOMAIN events /\ Voided(r.event)
    BY <1>16 DEF VoidBarrelEvent, Unvoided
  <2>2. QED
    BY <2>1, VoidedGrows
<1>17. CASE VoidDistillationRun(r, b)
  <2>1. r.event \in DOMAIN events /\ Voided(r.event)
    BY <1>17 DEF VoidDistillationRun, Unvoided
  <2>2. QED
    BY <2>1, VoidedGrows
<1>18. CASE VoidBottlingRun(r, b)
  <2>1. r.event \in DOMAIN events /\ Voided(r.event)
    BY <1>18 DEF VoidBottlingRun, Unvoided
  <2>2. QED
    BY <2>1, VoidedGrows
<1>19. CASE UnmarkContainer(r, b)
  <2>1. r.event \in DOMAIN events /\ Voided(r.event)
    BY <1>19 DEF UnmarkContainer, Unvoided
  <2>2. QED
    BY <2>1, VoidedGrows
<1>20. QED
  BY <1>2, <1>3, <1>4, <1>5, <1>6, <1>7, <1>8, <1>9, <1>10, <1>11, <1>12, <1>13, <1>14, <1>15, <1>16, <1>17, <1>18, <1>19 DEF Apply

LEMMA AskedKept ==
  ASSUME EventsGrow
  PROVE  Asked \subseteq Asked'
<1>1. ASSUME NEW e \in DOMAIN events
      PROVE  /\ e \in DOMAIN events' /\ events'[e].kind = events[e].kind
             /\ \A op : VoidRequest(op, e)' = VoidRequest(op, e)
             /\ \A c : UnmarkRequest(e, c)' = UnmarkRequest(e, c)
  BY <1>1 DEF EventsGrow, VoidRequest, UnmarkRequest
<1>2. \A kinds : OfKind(kinds) \subseteq OfKind(kinds)'
  BY <1>1 DEF OfKind
<1>3. Voids \subseteq Voids'
  BY <1>1, <1>2 DEF Voids, OfKind
<1>4. QED
  BY <1>3 DEF Asked

\* The vessels each operation works on are containers.
LEMMA NamedVessels ==
  ASSUME NEW r, Shaped(r), NEW b, Apply(r, b)
  PROVE  /\ r.op \in RequestOps
         /\ r.op \in PuttingOps \cup MovingOps \cup
                     {"VoidBarrelEvent", "VoidDistillationRun", "UnmarkContainer"}
              => r.dst \in Containers
         /\ r.op \in DrawingOps \cup MovingOps \cup {"VoidBottlingRun"}
              => r.src \in Containers
         /\ r.op = "CreateBlend" => r.also \in Containers
         /\ r.op = "VoidBarrelEvent" => r.src \in Containers \/ r.src = NoVessel
BY DEF Shaped, Request, Vessel

LEMMA DepositTyped ==
  ASSUME NEW b \in Balance, NEW v \in Nat, NEW a \in Nat
  PROVE  Deposit(b, v, a) \in Balance
BY DEF Balance, Deposit, Gauged

LEMMA WithdrawTyped ==
  ASSUME NEW b \in Balance, NEW v \in Nat, NEW a \in Nat
  PROVE  Withdraw(b, v, a) \in Balance
BY DEF Balance, Withdraw, Gauged, Empty

LEMMA DrawTyped ==
  ASSUME NEW b \in Balance, NEW v \in Nat, v <= b.vol, NEW a \in Nat,
         NEW s \in AtStrength(b, v)
  PROVE  DrawKeepingStrength(b, v, a, s) \in Balance /\ s \in Nat
BY DEF Balance, DrawKeepingStrength, AtStrength

LEMMA GaugedTyped ==
  ASSUME NEW v \in Nat, NEW a \in Nat
  PROVE  Gauged(v, a) \in Balance
BY DEF Balance, Gauged

Typed == /\ bal \in [Containers -> Balance]
         /\ held \in [Containers -> BOOLEAN]
         /\ net \in [Containers -> Int]

LEMMA ApplyTyped ==
  ASSUME Typed, NEW r, Shaped(r), NEW b \in [Containers -> Balance], Apply(r, b)
  PROVE  Typed'
<1>1. /\ r.vol \in Nat /\ r.laa \in Nat /\ r.more \in Nat
      /\ bal \in [Containers -> Balance] /\ net \in [Containers -> Int]
      /\ held \in [Containers -> BOOLEAN]
  BY ShapedVessels DEF Typed
<1>2. \A c \in Containers : /\ b[c] \in Balance
                            /\ b[c].vol \in Nat /\ b[c].laa \in Nat /\ b[c].imp \in Nat
  BY DEF Balance
<1>3. \A d \in Containers, x \in Balance : [bal EXCEPT ![d] = x] \in [Containers -> Balance]
  BY <1>1
<1>4. ASSUME NEW n \in [Containers -> Int], NEW f, NEW d, NEW a \in Int
      PROVE  Entry(n, f, d, a) \in [Containers -> Int]
  BY EntryMoves
<1>5. CASE AdoptOpeningInventory(r, b)
  <2>1. r.dst \in Containers
    BY <1>5, NamedVessels DEF AdoptOpeningInventory, DrawingOps, MovingOps, PuttingOps
  <2>2. Gauged(r.vol, r.laa) \in Balance
    BY <1>1, <1>2, <2>1, GaugedTyped
  <2>3. bal' = [bal EXCEPT ![r.dst] = Gauged(r.vol, r.laa)] /\ held' = held
    BY <1>5 DEF AdoptOpeningInventory
  <2>4. bal' \in [Containers -> Balance]
    BY <1>3, <2>1, <2>2, <2>3
  <2>5. net' \in [Containers -> Int]
    BY <1>1, <1>2, <1>4, <1>5, <2>1 DEF AdoptOpeningInventory
  <2>6. QED
    BY <1>1, <2>3, <2>4, <2>5 DEF Typed
<1>6. CASE RecordProductionGauge(r, b)
  <2>1. r.dst \in Containers
    BY <1>6, NamedVessels DEF RecordProductionGauge, DrawingOps, MovingOps, PuttingOps
  <2>2. Deposit(b[r.dst], r.vol, r.laa) \in Balance
    BY <1>1, <1>2, <2>1, DepositTyped
  <2>3. bal' = [bal EXCEPT ![r.dst] = Deposit(b[r.dst], r.vol, r.laa)] /\ held' = held
    BY <1>6 DEF RecordProductionGauge
  <2>4. bal' \in [Containers -> Balance]
    BY <1>3, <2>1, <2>2, <2>3
  <2>5. net' \in [Containers -> Int]
    BY <1>1, <1>2, <1>4, <1>6, <2>1 DEF RecordProductionGauge
  <2>6. QED
    BY <1>1, <2>3, <2>4, <2>5 DEF Typed
<1>7. CASE ReceiveExternal(r, b)
  <2>1. r.dst \in Containers
    BY <1>7, NamedVessels DEF ReceiveExternal, DrawingOps, MovingOps, PuttingOps
  <2>2. Gauged(b[r.dst].vol + r.vol, b[r.dst].laa + r.laa) \in Balance
    BY <1>1, <1>2, <2>1, GaugedTyped
  <2>3. bal' = [bal EXCEPT ![r.dst] = Gauged(b[r.dst].vol + r.vol, b[r.dst].laa + r.laa)] /\ held' = held
    BY <1>7 DEF ReceiveExternal
  <2>4. bal' \in [Containers -> Balance]
    BY <1>3, <2>1, <2>2, <2>3
  <2>5. net' \in [Containers -> Int]
    BY <1>1, <1>2, <1>4, <1>7, <2>1 DEF ReceiveExternal
  <2>6. QED
    BY <1>1, <2>3, <2>4, <2>5 DEF Typed
<1>8. CASE ShipExternal(r, b)
  <2>1. r.src \in Containers
    BY <1>8, NamedVessels DEF ShipExternal, DrawingOps, MovingOps, PuttingOps
  <2>2. Withdraw(b[r.src], r.vol, r.laa) \in Balance
    BY <1>1, <1>2, <2>1, WithdrawTyped
  <2>3. bal' = [bal EXCEPT ![r.src] = Withdraw(b[r.src], r.vol, r.laa)] /\ held' = held
    BY <1>8 DEF ShipExternal
  <2>4. bal' \in [Containers -> Balance]
    BY <1>3, <2>1, <2>2, <2>3
  <2>5. net' \in [Containers -> Int]
    BY <1>1, <1>2, <1>4, <1>8, <2>1 DEF ShipExternal
  <2>6. QED
    BY <1>1, <2>3, <2>4, <2>5 DEF Typed
<1>9. CASE StartRedistillation(r, b)
  <2>1. r.src \in Containers
    BY <1>9, NamedVessels DEF StartRedistillation, DrawingOps, MovingOps, PuttingOps
  <2>2. Withdraw(b[r.src], r.vol, r.laa) \in Balance
    BY <1>1, <1>2, <2>1, WithdrawTyped
  <2>3. bal' = [bal EXCEPT ![r.src] = Withdraw(b[r.src], r.vol, r.laa)] /\ held' = held
    BY <1>9 DEF StartRedistillation
  <2>4. bal' \in [Containers -> Balance]
    BY <1>3, <2>1, <2>2, <2>3
  <2>5. net' \in [Containers -> Int]
    BY <1>1, <1>2, <1>4, <1>9, <2>1 DEF StartRedistillation
  <2>6. QED
    BY <1>1, <2>3, <2>4, <2>5 DEF Typed
<1>10. CASE CreateBottlingRun(r, b)
  <2>1. r.src \in Containers
    BY <1>10, NamedVessels DEF CreateBottlingRun, DrawingOps, MovingOps, PuttingOps
  <2>2. b[r.src].vol - r.vol \in Nat /\ b[r.src].imp - r.laa \in Nat
    BY <1>1, <1>2, <1>10, <2>1 DEF CreateBottlingRun, AtStrength
  <2>3. Gauged(b[r.src].vol - r.vol, b[r.src].imp - r.laa) \in Balance
    BY <1>1, <1>2, <2>1, <2>2, GaugedTyped
  <2>4. bal' = [bal EXCEPT ![r.src] = Gauged(b[r.src].vol - r.vol, b[r.src].imp - r.laa)] /\ held' = held
    BY <1>10 DEF CreateBottlingRun
  <2>5. bal' \in [Containers -> Balance]
    BY <1>3, <2>1, <2>3, <2>4
  <2>6. net' \in [Containers -> Int]
    BY <1>1, <1>2, <1>4, <1>10, <2>1 DEF CreateBottlingRun
  <2>7. QED
    BY <1>1, <2>4, <2>5, <2>6 DEF Typed
<1>11. CASE MarkContainer(r, b)
  <2>1. r.src \in Containers
    BY <1>11, NamedVessels DEF MarkContainer, DrawingOps, MovingOps, PuttingOps
  <2>2. PICK s \in AtStrength(b[r.src], r.vol) :
          bal' = [bal EXCEPT ![r.src] = DrawKeepingStrength(b[r.src], r.vol, r.laa, s)]
    BY <1>11 DEF MarkContainer, TakenBack
  <2>3. DrawKeepingStrength(b[r.src], r.vol, r.laa, s) \in Balance
    BY <1>1, <1>2, <1>11, <2>1, DrawTyped DEF MarkContainer
  <2>4. bal' \in [Containers -> Balance]
    BY <1>3, <2>1, <2>2, <2>3
  <2>5. net' \in [Containers -> Int] /\ held' = held
    BY <1>1, <1>4, <1>11 DEF MarkContainer
  <2>6. QED
    BY <1>1, <2>4, <2>5 DEF Typed
<1>12. CASE FillBarrel(r, b)
  <2>1. r.src \in Containers /\ r.dst \in Containers
    BY <1>12, NamedVessels DEF FillBarrel, DrawingOps, MovingOps, PuttingOps
  <2>2. /\ Withdraw(b[r.src], r.vol, r.laa) \in Balance
        /\ Deposit(b[r.dst], r.vol, r.laa) \in Balance
    BY <1>1, <1>2, <2>1, WithdrawTyped, DepositTyped
  <2>3. bal' \in [Containers -> Balance]
    BY <1>1, <1>12, <2>2 DEF FillBarrel
  <2>4. net' \in [Containers -> Int] /\ held' = held
    BY <1>1, <1>4, <1>12 DEF FillBarrel
  <2>5. QED
    BY <1>1, <2>3, <2>4 DEF Typed
<1>13. CASE DumpBarrel(r, b)
  <2>1. r.src \in Containers /\ r.dst \in Containers
    BY <1>13, NamedVessels DEF DumpBarrel, DrawingOps, MovingOps, PuttingOps
  <2>2. Empty \in Balance /\ Deposit(b[r.dst], r.vol, r.laa) \in Balance
    BY <1>1, <1>2, <2>1, DepositTyped DEF Empty, Balance
  <2>3. bal' \in [Containers -> Balance]
    BY <1>1, <1>13, <2>2 DEF DumpBarrel
  <2>4. net' \in [Containers -> Int] /\ held' = held
    <3>1. b[r.src].laa - r.laa \in Int
      BY <1>1, <1>2, <2>1
    <3>2. Entry(net, r.src, r.dst, r.laa) \in [Containers -> Int]
      BY <1>1, <1>4
    <3>3. net' = Entry(Entry(net, r.src, r.dst, r.laa), r.src, NoVessel, b[r.src].laa - r.laa)
      BY <1>13 DEF DumpBarrel
    <3>4. QED
      BY <1>4, <1>13, <3>1, <3>2, <3>3 DEF DumpBarrel
  <2>5. QED
    BY <1>1, <2>3, <2>4 DEF Typed
<1>14. CASE CreateBlend(r, b)
  <2>1. r.src \in Containers /\ r.dst \in Containers /\ r.also \in Containers
    BY <1>14, NamedVessels DEF CreateBlend, DrawingOps, MovingOps, PuttingOps
  <2>2. PICK x \in AtStrength(b[r.src], r.vol), y \in AtStrength(b[r.also], r.more) :
          /\ bal' = [bal EXCEPT
                ![r.src]  = DrawKeepingStrength(b[r.src], r.vol, x, x),
                ![r.also] = DrawKeepingStrength(b[r.also], r.more, y, y),
                ![r.dst]  = Deposit(Deposit(b[r.dst], r.vol, x), r.more, y)]
          /\ net' = Entry(Entry(net, r.src, r.dst, x), r.also, r.dst, y)
    BY <1>14 DEF CreateBlend
  <2>3. x \in Nat /\ y \in Nat
    BY DEF AtStrength
  <2>4. /\ DrawKeepingStrength(b[r.src], r.vol, x, x) \in Balance
        /\ DrawKeepingStrength(b[r.also], r.more, y, y) \in Balance
    BY <1>1, <1>2, <1>14, <2>1, <2>3, DrawTyped DEF CreateBlend
  <2>5. Deposit(Deposit(b[r.dst], r.vol, x), r.more, y) \in Balance
    BY <1>1, <1>2, <2>1, <2>3, DepositTyped
  <2>6. bal' \in [Containers -> Balance]
    BY <1>1, <2>2, <2>4, <2>5
  <2>7. net' \in [Containers -> Int] /\ held' = held
    <3>1. Entry(net, r.src, r.dst, x) \in [Containers -> Int]
      BY <1>1, <1>4, <2>3
    <3>2. QED
      BY <1>4, <1>14, <2>2, <2>3, <3>1 DEF CreateBlend
  <2>8. QED
    BY <1>1, <2>6, <2>7 DEF Typed
<1>15. CASE RegaugeBarrel(r, b)
  <2>1. r.dst \in Containers
    BY <1>15, NamedVessels DEF RegaugeBarrel, DrawingOps, MovingOps, PuttingOps
  <2>2. Gauged(r.vol, r.laa) \in Balance
    BY <1>1, <1>2, <2>1, GaugedTyped
  <2>3. bal' = [bal EXCEPT ![r.dst] = Gauged(r.vol, r.laa)] /\ held' = held
    BY <1>15 DEF RegaugeBarrel
  <2>4. bal' \in [Containers -> Balance]
    BY <1>3, <2>1, <2>2, <2>3
  <2>5. net' \in [Containers -> Int]
    BY <1>1, <1>2, <1>4, <1>15, <2>1 DEF RegaugeBarrel
  <2>6. QED
    BY <1>1, <2>3, <2>4, <2>5 DEF Typed
<1>16. CASE RecordInventoryAdjustment(r, b)
  <2>1. r.dst \in Containers
    BY <1>16, NamedVessels DEF RecordInventoryAdjustment, DrawingOps, MovingOps, PuttingOps
  <2>2. Gauged(r.vol, r.laa) \in Balance
    BY <1>1, <1>2, <2>1, GaugedTyped
  <2>3. bal' = [bal EXCEPT ![r.dst] = Gauged(r.vol, r.laa)] /\ held' = held
    BY <1>16 DEF RecordInventoryAdjustment
  <2>4. bal' \in [Containers -> Balance]
    BY <1>3, <2>1, <2>2, <2>3
  <2>5. net' \in [Containers -> Int]
    BY <1>1, <1>2, <1>4, <1>16, <2>1 DEF RecordInventoryAdjustment
  <2>6. QED
    BY <1>1, <2>3, <2>4, <2>5 DEF Typed
<1>17. CASE HandOver(r, b)
  <2>1. r.dst \in Containers
    BY <1>17, NamedVessels DEF HandOver, DrawingOps, MovingOps, PuttingOps
  <2>2. net' \in [Containers -> Int]
    BY <1>1, <1>2, <1>4, <1>17, <2>1 DEF HandOver
  <2>3. QED
    BY <1>1, <1>17, <2>2 DEF HandOver, Typed
<1>18. CASE TakeBack(r, b)
  <2>1. r.dst \in Containers
    BY <1>18, NamedVessels DEF TakeBack, DrawingOps, MovingOps, PuttingOps
  <2>2. net' \in [Containers -> Int]
    BY <1>1, <1>2, <1>4, <1>18, <2>1 DEF TakeBack
  <2>3. QED
    BY <1>1, <1>18, <2>2 DEF TakeBack, Typed
<1>19. CASE VoidBarrelEvent(r, b)
  <2>1. r.dst \in Containers /\ (r.src \in Containers \/ r.src = NoVessel)
    BY <1>19, NamedVessels DEF VoidBarrelEvent, DrawingOps, MovingOps, PuttingOps
  <2> DEFINE mid(s) == [b EXCEPT ![r.dst] = TakenBack(r, b, s)]
  <2>2. PICK s \in AtStrength(b[r.dst], r.vol) :
          bal' = IF r.src = NoVessel
                 THEN [bal EXCEPT ![r.dst] = mid(s)[r.dst]]
                 ELSE [bal EXCEPT ![r.dst] = mid(s)[r.dst],
                                  ![r.src] = Deposit(mid(s)[r.src], r.vol, r.laa)]
    BY <1>19 DEF VoidBarrelEvent
  <2>3. TakenBack(r, b, s) \in Balance
    BY <1>1, <1>2, <1>19, <2>1, DrawTyped DEF VoidBarrelEvent, TakenBack
  <2>4. mid(s) \in [Containers -> Balance]
    BY <2>3
  <2> HIDE DEF mid
  <2>5. mid(s)[r.dst] \in Balance
    BY <2>1, <2>4
  <2>6. r.src \in Containers => Deposit(mid(s)[r.src], r.vol, r.laa) \in Balance
    BY <1>1, <2>4, DepositTyped
  <2>7. bal' \in [Containers -> Balance]
    BY <1>1, <2>1, <2>2, <2>5, <2>6
  <2>8. net' \in [Containers -> Int] /\ held' = held
    BY <1>1, <1>4, <1>19 DEF VoidBarrelEvent
  <2>9. QED
    BY <1>1, <2>7, <2>8 DEF Typed
<1>20. CASE VoidDistillationRun(r, b)
  <2>1. r.dst \in Containers
    BY <1>20, NamedVessels DEF VoidDistillationRun, DrawingOps, MovingOps, PuttingOps
  <2>2. PICK s \in AtStrength(b[r.dst], r.vol) :
          bal' = [bal EXCEPT ![r.dst] = DrawKeepingStrength(b[r.dst], r.vol, r.laa, s)]
    BY <1>20 DEF VoidDistillationRun, TakenBack
  <2>3. DrawKeepingStrength(b[r.dst], r.vol, r.laa, s) \in Balance
    BY <1>1, <1>2, <1>20, <2>1, DrawTyped DEF VoidDistillationRun
  <2>4. bal' \in [Containers -> Balance]
    BY <1>3, <2>1, <2>2, <2>3
  <2>5. net' \in [Containers -> Int] /\ held' = held
    BY <1>1, <1>4, <1>20 DEF VoidDistillationRun
  <2>6. QED
    BY <1>1, <2>4, <2>5 DEF Typed
<1>21. CASE VoidBottlingRun(r, b)
  <2>1. r.src \in Containers
    BY <1>21, NamedVessels DEF VoidBottlingRun, DrawingOps, MovingOps, PuttingOps
  <2>2. Deposit(b[r.src], r.vol, r.laa) \in Balance
    BY <1>1, <1>2, <2>1, DepositTyped
  <2>3. bal' = [bal EXCEPT ![r.src] = Deposit(b[r.src], r.vol, r.laa)] /\ held' = held
    BY <1>21 DEF VoidBottlingRun
  <2>4. bal' \in [Containers -> Balance]
    BY <1>3, <2>1, <2>2, <2>3
  <2>5. net' \in [Containers -> Int]
    BY <1>1, <1>2, <1>4, <1>21, <2>1 DEF VoidBottlingRun
  <2>6. QED
    BY <1>1, <2>3, <2>4, <2>5 DEF Typed
<1>22. CASE UnmarkContainer(r, b)
  <2>1. r.dst \in Containers
    BY <1>22, NamedVessels DEF UnmarkContainer, DrawingOps, MovingOps, PuttingOps
  <2>2. Gauged(b[r.dst].vol + r.vol, b[r.dst].laa + r.laa) \in Balance
    BY <1>1, <1>2, <2>1, GaugedTyped
  <2>3. bal' = [bal EXCEPT ![r.dst] = Gauged(b[r.dst].vol + r.vol, b[r.dst].laa + r.laa)] /\ held' = held
    BY <1>22 DEF UnmarkContainer
  <2>4. bal' \in [Containers -> Balance]
    BY <1>3, <2>1, <2>2, <2>3
  <2>5. net' \in [Containers -> Int]
    BY <1>1, <1>2, <1>4, <1>22, <2>1 DEF UnmarkContainer
  <2>6. QED
    BY <1>1, <2>3, <2>4, <2>5 DEF Typed
<1>23. QED
  BY <1>5, <1>6, <1>7, <1>8, <1>9, <1>10, <1>11, <1>12, <1>13, <1>14, <1>15, <1>16, <1>17, <1>18, <1>19, <1>20, <1>21, <1>22 DEF Apply

-----------------------------------------------------------------------------
(* The theorems *)

LEMMA AskedServed ==
  ASSUME BooksInv, Careful, NEW r \in Asked, AllHeld(r), Apply(r, bal)
  PROVE  Served(r)
<1>1. Shaped(r)
  BY FreshShaped, VoidShaped DEF Asked, BooksInv
<1>2. QED
  BY <1>1 DEF Served, Apply

LEMMA BooksInit_Inv ==
  ASSUME BooksInit
  PROVE  BooksInv
<1>1. \A c \in Containers : Opening[c] \in Balance
  BY OpeningAssumption
<1>2. BalancesSound
  BY <1>1, OpeningAssumption DEF BooksInit, BalancesSound, SoundBalance, Balance
<1>3. EventsSound
  BY DEF BooksInit, EventsSound
<1>4. QED
  BY <1>2, <1>3 DEF BooksInv

LEMMA BooksNext_Inv ==
  ASSUME BooksInv, Careful, [BooksNext]_booksVars
  PROVE  BooksInv'
<1>1. CASE UNCHANGED booksVars
  BY <1>1 DEF booksVars, BooksInv, BalancesSound, EventsSound
<1>2. CASE BooksNext
  <2>1. PICK r \in Asked : AllHeld(r) /\ Apply(r, bal)
    BY <1>2 DEF BooksNext
  <2>2. Served(r)
    BY <2>1, AskedServed
  <2>3. CASE AdoptOpeningInventory(r, bal)     BY <2>2, <2>3, AdoptKeeps
  <2>4. CASE RecordProductionGauge(r, bal)     BY <2>2, <2>4, GaugeKeeps
  <2>5. CASE ReceiveExternal(r, bal)           BY <2>2, <2>5, ReceiveKeeps
  <2>6. CASE ShipExternal(r, bal)              BY <2>2, <2>6, ShipKeeps
  <2>7. CASE StartRedistillation(r, bal)       BY <2>2, <2>7, RedistilKeeps
  <2>8. CASE CreateBottlingRun(r, bal)         BY <2>2, <2>8, BottleKeeps
  <2>9. CASE MarkContainer(r, bal)             BY <2>2, <2>9, MarkKeeps
  <2>10. CASE FillBarrel(r, bal)               BY <2>2, <2>10, FillKeeps
  <2>11. CASE DumpBarrel(r, bal)               BY <2>2, <2>11, DumpKeeps
  <2>12. CASE CreateBlend(r, bal)              BY <2>2, <2>12, BlendKeeps
  <2>13. CASE RegaugeBarrel(r, bal)            BY <2>2, <2>13, RegaugeKeeps
  <2>14. CASE RecordInventoryAdjustment(r, bal) BY <2>2, <2>14, AdjustKeeps
  <2>15. CASE HandOver(r, bal)                 BY <2>2, <2>15, HandOverKeeps
  <2>16. CASE TakeBack(r, bal)                 BY <2>2, <2>16, TakeBackKeeps
  <2>17. CASE VoidBarrelEvent(r, bal)          BY <2>2, <2>17, UnmoveKeeps
  <2>18. CASE VoidDistillationRun(r, bal)      BY <2>2, <2>18, UngaugeKeeps
  <2>19. CASE VoidBottlingRun(r, bal)          BY <2>2, <2>19, UnbottleKeeps
  <2>20. CASE UnmarkContainer(r, bal)          BY <2>2, <2>20, UnmarkKeeps
  <2>21. QED
    BY <2>1, <2>3, <2>4, <2>5, <2>6, <2>7, <2>8, <2>9, <2>10, <2>11, <2>12, <2>13,
       <2>14, <2>15, <2>16, <2>17, <2>18, <2>19, <2>20 DEF Apply
<1>3. QED
  BY <1>1, <1>2

LEMMA BooksInv_Consequences ==
  ASSUME BooksInv
  PROVE  /\ BooksTypeOK /\ JournalAgrees /\ StrengthAgrees
         /\ NoAlcoholWithoutLitres
BY DEF BooksInv, BalancesSound, EventsSound, SoundBalance,
       BooksTypeOK, JournalAgrees, StrengthAgrees, NoAlcoholWithoutLitres

LEMMA AskedShaped ==
  ASSUME EventsSound, NEW r \in Asked
  PROVE  Shaped(r)
BY FreshShaped, VoidShaped DEF Asked

LEMMA Opened ==
  ASSUME BooksInit
  PROVE  Typed /\ EventsSound
<1>1. /\ bal \in [Containers -> Balance] /\ held \in [Containers -> BOOLEAN]
      /\ EventsSound
  BY OpeningAssumption DEF BooksInit, EventsSound
<1>2. \A c \in Containers : Opening[c].laa \in Int
  <2>1. \A c \in Containers : Opening[c] \in Balance
    BY OpeningAssumption
  <2>2. \A x \in Balance : x.laa \in Int
    BY DEF Balance
  <2>3. QED
    BY <2>1, <2>2
<1>3. net \in [Containers -> Int]
  BY <1>2 DEF BooksInit
<1>4. QED
  BY <1>1, <1>3 DEF Typed

LEMMA TypedStep ==
  ASSUME Typed, EventsSound, [BooksNext]_booksVars
  PROVE  (Typed /\ EventsSound)'
<1>1. CASE UNCHANGED booksVars
  BY <1>1 DEF booksVars, Typed, EventsSound
<1>2. CASE BooksNext
  <2>1. PICK r \in Asked : Apply(r, bal)
    BY <1>2 DEF BooksNext
  <2>2. Shaped(r)
    BY <2>1, AskedShaped
  <2>3. Typed'
    <3>1. bal \in [Containers -> Balance]
      BY DEF Typed
    <3>2. QED
      BY <2>1, <2>2, <3>1, ApplyTyped
  <2>4. EventsGrow
    BY <2>1, <2>2, ApplyEvents
  <2>5. QED
    BY <2>3, <2>4 DEF EventsGrow
<1>3. QED
  BY <1>1, <1>2

\* Whatever operators ask, and in whatever order, no row goes out of range: every
\* balance stays a natural number of litres and LAA, none goes negative (applied
\* by every handler through applyWithdrawal's clamps and the volume checks).
THEOREM BooksTyped == BooksSpec => []BooksTypeOK
<1>1. BooksInit => Typed /\ EventsSound
  BY Opened
<1>2. Typed /\ EventsSound /\ [BooksNext]_booksVars => (Typed /\ EventsSound)'
  BY TypedStep
<1>3. Typed /\ EventsSound => BooksTypeOK
  BY DEF Typed, EventsSound, BooksTypeOK
<1>4. QED
  BY <1>1, <1>2, <1>3, PTL DEF BooksSpec

\* Alcohol is neither created nor destroyed by moving it: whatever the vessels and
\* the requests, the LAA on every row is what the journal moved into it.
THEOREM BooksBalance == Careful => (BooksSpec => []JournalAgrees)
<1> SUFFICES ASSUME Careful PROVE BooksSpec => []JournalAgrees
  OBVIOUS
<1>1. BooksInit => BooksInv
  BY BooksInit_Inv
<1>2. BooksInv /\ [BooksNext]_booksVars => BooksInv'
  BY BooksNext_Inv
<1>3. BooksInv => JournalAgrees
  BY BooksInv_Consequences
<1>4. QED
  BY <1>1, <1>2, <1>3, PTL DEF BooksSpec

\* The strength on a row never contradicts its alcohol, and no row has alcohol in
\* no litres, so the next deposit or draw computes from what is there.
THEOREM StrengthsHold ==
  Careful => (BooksSpec => [](StrengthAgrees /\ NoAlcoholWithoutLitres))
<1> SUFFICES ASSUME Careful PROVE BooksSpec => [](StrengthAgrees /\ NoAlcoholWithoutLitres)
  OBVIOUS
<1>1. BooksInit => BooksInv
  BY BooksInit_Inv
<1>2. BooksInv /\ [BooksNext]_booksVars => BooksInv'
  BY BooksNext_Inv
<1>3. BooksInv => StrengthAgrees /\ NoAlcoholWithoutLitres
  BY BooksInv_Consequences
<1>4. QED
  BY <1>1, <1>2, <1>3, PTL DEF BooksSpec

-----------------------------------------------------------------------------
(* Containers that are away *)

\* A movement between others leaves a container's journal alone.
LEMMA EntryElsewhere ==
  ASSUME NEW c \in Containers, NEW n, n[c] \in Int,
         NEW from, NEW to, NEW a, c # from, c # to
  PROVE  Entry(n, from, to, a)[c] = n[c]
BY DEF Entry

\* Nor does a write to another row change its balance.
LEMMA WrittenElsewhere ==
  ASSUME NEW c \in Containers, NEW f \in [Containers -> Balance],
         NEW d, NEW e, NEW g, c # d, c # e, c # g, NEW x, NEW y, NEW z
  PROVE  /\ [f EXCEPT ![d] = x][c] = f[c]
         /\ [f EXCEPT ![d] = x, ![e] = y][c] = f[c]
         /\ [f EXCEPT ![d] = x, ![e] = y, ![g] = z][c] = f[c]
OBVIOUS

\* A request works on the vessels it names, and on no other.
LEMMA OthersUntouched ==
  ASSUME Typed, NEW r, NEW b, Apply(r, b),
         NEW c \in Containers, c # r.src, c # r.also, c # r.dst
  PROVE  bal'[c] = bal[c] /\ net'[c] = net[c]
<1>1. c # NoVessel
  BY ContainersAssumption
<1>2. bal \in [Containers -> Balance] /\ net[c] \in Int
  BY DEF Typed
<1>3. CASE AdoptOpeningInventory(r, b)
  BY <1>1, <1>2, <1>3, EntryElsewhere, WrittenElsewhere DEF AdoptOpeningInventory
<1>4. CASE RecordProductionGauge(r, b)
  BY <1>1, <1>2, <1>4, EntryElsewhere, WrittenElsewhere DEF RecordProductionGauge
<1>5. CASE ReceiveExternal(r, b)
  BY <1>1, <1>2, <1>5, EntryElsewhere, WrittenElsewhere DEF ReceiveExternal
<1>6. CASE ShipExternal(r, b)
  BY <1>1, <1>2, <1>6, EntryElsewhere, WrittenElsewhere DEF ShipExternal
<1>7. CASE StartRedistillation(r, b)
  BY <1>1, <1>2, <1>7, EntryElsewhere, WrittenElsewhere DEF StartRedistillation
<1>8. CASE CreateBottlingRun(r, b)
  BY <1>1, <1>2, <1>8, EntryElsewhere, WrittenElsewhere DEF CreateBottlingRun
<1>9. CASE MarkContainer(r, b)
  BY <1>1, <1>2, <1>9, EntryElsewhere, WrittenElsewhere DEF MarkContainer
<1>10. CASE FillBarrel(r, b)
  BY <1>1, <1>2, <1>10, EntryElsewhere, WrittenElsewhere DEF FillBarrel
<1>11. CASE DumpBarrel(r, b)
  BY <1>1, <1>2, <1>11, EntryElsewhere, WrittenElsewhere DEF DumpBarrel
<1>12. CASE CreateBlend(r, b)
  BY <1>1, <1>2, <1>12, EntryElsewhere, WrittenElsewhere DEF CreateBlend
<1>13. CASE RegaugeBarrel(r, b)
  BY <1>1, <1>2, <1>13, EntryElsewhere, WrittenElsewhere DEF RegaugeBarrel
<1>14. CASE RecordInventoryAdjustment(r, b)
  BY <1>1, <1>2, <1>14, EntryElsewhere, WrittenElsewhere DEF RecordInventoryAdjustment
<1>15. CASE VoidBarrelEvent(r, b)
  BY <1>1, <1>2, <1>15, EntryElsewhere, WrittenElsewhere DEF VoidBarrelEvent
<1>16. CASE VoidDistillationRun(r, b)
  BY <1>1, <1>2, <1>16, EntryElsewhere, WrittenElsewhere DEF VoidDistillationRun
<1>17. CASE VoidBottlingRun(r, b)
  BY <1>1, <1>2, <1>17, EntryElsewhere, WrittenElsewhere DEF VoidBottlingRun
<1>18. CASE UnmarkContainer(r, b)
  BY <1>1, <1>2, <1>18, EntryElsewhere, WrittenElsewhere DEF UnmarkContainer
<1>19. CASE HandOver(r, b)
  BY <1>1, <1>2, <1>19, EntryElsewhere DEF HandOver
<1>20. CASE TakeBack(r, b)
  BY <1>1, <1>2, <1>20, EntryElsewhere DEF TakeBack
<1>21. QED
  BY <1>3, <1>4, <1>5, <1>6, <1>7, <1>8, <1>9, <1>10, <1>11, <1>12, <1>13, <1>14, <1>15, <1>16, <1>17, <1>18, <1>19, <1>20 DEF Apply

\* What is handed over or taken back changes hands: it is away before or after,
\* and not both.
LEMMA PossessionChanges ==
  ASSUME Typed, NEW r, NEW b, NEW c \in Containers, ~held[c], ~held'[c],
         HandOver(r, b) \/ TakeBack(r, b)
  PROVE  bal'[c] = bal[c] /\ net'[c] = net[c]
<1>1. c # NoVessel /\ held \in [Containers -> BOOLEAN] /\ net[c] \in Int
  BY ContainersAssumption DEF Typed
<1>2. c # r.dst
  BY <1>1 DEF HandOver, TakeBack
<1>3. QED
  BY <1>1, <1>2, EntryElsewhere DEF HandOver, TakeBack

\* Whatever operators ask, nothing about a container changes while it is away:
\* every handler but those of possession refuses it (assertHeld).
THEOREM AwayUntouched == BooksSpec => AwayStandsStill
<1>1. BooksInit => Typed /\ EventsSound
  BY Opened
<1>2. Typed /\ EventsSound /\ [BooksNext]_booksVars => (Typed /\ EventsSound)'
  BY TypedStep
<1>3. Typed /\ EventsSound /\ [BooksNext]_booksVars =>
        [\A c \in Containers : ~held[c] /\ ~held'[c] =>
           bal'[c] = bal[c] /\ net'[c] = net[c]]_booksVars
  <2> SUFFICES ASSUME Typed, BooksNext, NEW c \in Containers, ~held[c], ~held'[c]
               PROVE  bal'[c] = bal[c] /\ net'[c] = net[c]
    OBVIOUS
  <2>1. PICK r \in Asked : AllHeld(r) /\ Apply(r, bal)
    BY DEF BooksNext
  <2>2. CASE HandOver(r, bal) \/ TakeBack(r, bal)
    BY <2>2, PossessionChanges
  <2>3. CASE r.op \notin {"HandOver", "TakeBack"}
    <3>1. c # r.src /\ c # r.also /\ c # r.dst
      BY <2>1, <2>3, HeldVessel
    <3>2. QED
      BY <2>1, <3>1, OthersUntouched
  <2>4. r.op \in {"HandOver", "TakeBack"} => HandOver(r, bal) \/ TakeBack(r, bal)
    BY <2>1 DEF Apply, AdoptOpeningInventory, RecordProductionGauge, ReceiveExternal,
       ShipExternal, StartRedistillation, CreateBottlingRun, MarkContainer, FillBarrel,
       DumpBarrel, CreateBlend, RegaugeBarrel, RecordInventoryAdjustment, VoidBarrelEvent,
       VoidDistillationRun, VoidBottlingRun, UnmarkContainer
  <2>5. QED
    BY <2>2, <2>3, <2>4
<1>4. QED
  BY <1>1, <1>2, <1>3, PTL DEF BooksSpec, AwayStandsStill

-----------------------------------------------------------------------------
(* What an operation reads and writes. *)

\* An operation writes no row but those its request names, and only a change of
\* possession writes held.
LEMMA ApplyWrites ==
  ASSUME Typed, NEW r, Shaped(r), NEW b, Apply(r, b),
         NEW c \in Containers, c \notin Vessels(r)
  PROVE  bal'[c] = bal[c] /\ held'[c] = held[c]
<1>1. /\ bal \in [Containers -> Balance] /\ held \in [Containers -> BOOLEAN]
      /\ c # r.src /\ c # r.also /\ c # r.dst
  BY ContainersAssumption DEF Typed, Vessels
<1>2. CASE AdoptOpeningInventory(r, b)
  BY <1>1, <1>2 DEF AdoptOpeningInventory
<1>3. CASE RecordProductionGauge(r, b)
  BY <1>1, <1>3 DEF RecordProductionGauge
<1>4. CASE ReceiveExternal(r, b)
  BY <1>1, <1>4 DEF ReceiveExternal
<1>5. CASE ShipExternal(r, b)
  BY <1>1, <1>5 DEF ShipExternal
<1>6. CASE StartRedistillation(r, b)
  BY <1>1, <1>6 DEF StartRedistillation
<1>7. CASE CreateBottlingRun(r, b)
  BY <1>1, <1>7 DEF CreateBottlingRun
<1>8. CASE MarkContainer(r, b)
  BY <1>1, <1>8 DEF MarkContainer
<1>9. CASE FillBarrel(r, b)
  BY <1>1, <1>9 DEF FillBarrel
<1>10. CASE DumpBarrel(r, b)
  BY <1>1, <1>10 DEF DumpBarrel
<1>11. CASE CreateBlend(r, b)
  BY <1>1, <1>11 DEF CreateBlend
<1>12. CASE RegaugeBarrel(r, b)
  BY <1>1, <1>12 DEF RegaugeBarrel
<1>13. CASE RecordInventoryAdjustment(r, b)
  BY <1>1, <1>13 DEF RecordInventoryAdjustment
<1>14. CASE HandOver(r, b)
  BY <1>1, <1>14 DEF HandOver
<1>15. CASE TakeBack(r, b)
  BY <1>1, <1>15 DEF TakeBack
<1>16. CASE VoidBarrelEvent(r, b)
  BY <1>1, <1>16 DEF VoidBarrelEvent
<1>17. CASE VoidDistillationRun(r, b)
  BY <1>1, <1>17 DEF VoidDistillationRun
<1>18. CASE VoidBottlingRun(r, b)
  BY <1>1, <1>18 DEF VoidBottlingRun
<1>19. CASE UnmarkContainer(r, b)
  BY <1>1, <1>19 DEF UnmarkContainer
<1>20. QED
  BY <1>2, <1>3, <1>4, <1>5, <1>6, <1>7, <1>8, <1>9, <1>10, <1>11, <1>12, <1>13, <1>14, <1>15, <1>16, <1>17, <1>18, <1>19 DEF Apply

LEMMA OnlyPossession ==
  ASSUME Typed, NEW r, NEW b, Apply(r, b), r.op \notin {"HandOver", "TakeBack"}
  PROVE  held' = held
<1>1. CASE AdoptOpeningInventory(r, b)
  BY <1>1 DEF AdoptOpeningInventory
<1>2. CASE RecordProductionGauge(r, b)
  BY <1>2 DEF RecordProductionGauge
<1>3. CASE ReceiveExternal(r, b)
  BY <1>3 DEF ReceiveExternal
<1>4. CASE ShipExternal(r, b)
  BY <1>4 DEF ShipExternal
<1>5. CASE StartRedistillation(r, b)
  BY <1>5 DEF StartRedistillation
<1>6. CASE CreateBottlingRun(r, b)
  BY <1>6 DEF CreateBottlingRun
<1>7. CASE MarkContainer(r, b)
  BY <1>7 DEF MarkContainer
<1>8. CASE FillBarrel(r, b)
  BY <1>8 DEF FillBarrel
<1>9. CASE DumpBarrel(r, b)
  BY <1>9 DEF DumpBarrel
<1>10. CASE CreateBlend(r, b)
  BY <1>10 DEF CreateBlend
<1>11. CASE RegaugeBarrel(r, b)
  BY <1>11 DEF RegaugeBarrel
<1>12. CASE RecordInventoryAdjustment(r, b)
  BY <1>12 DEF RecordInventoryAdjustment
<1>13. CASE HandOver(r, b)
  BY <1>13 DEF HandOver
<1>14. CASE TakeBack(r, b)
  BY <1>14 DEF TakeBack
<1>15. CASE VoidBarrelEvent(r, b)
  BY <1>15 DEF VoidBarrelEvent
<1>16. CASE VoidDistillationRun(r, b)
  BY <1>16 DEF VoidDistillationRun
<1>17. CASE VoidBottlingRun(r, b)
  BY <1>17 DEF VoidBottlingRun
<1>18. CASE UnmarkContainer(r, b)
  BY <1>18 DEF UnmarkContainer
<1>19. QED
  BY <1>1, <1>2, <1>3, <1>4, <1>5, <1>6, <1>7, <1>8, <1>9, <1>10, <1>11, <1>12, <1>13, <1>14, <1>15, <1>16, <1>17, <1>18 DEF Apply

\* An operation reads no row but those its request names.
LEMMA ApplyReads ==
  ASSUME NEW r, Shaped(r),
         NEW b \in [Containers -> Balance], NEW d \in [Containers -> Balance],
         \A c \in Vessels(r) : b[c] = d[c],
         Apply(r, b)
  PROVE  Apply(r, d)
<1>1. /\ r.src \in Containers => b[r.src] = d[r.src]
      /\ r.also \in Containers => b[r.also] = d[r.also]
      /\ r.dst \in Containers => b[r.dst] = d[r.dst]
  BY ContainersAssumption DEF Vessels
<1>2. Careful => Disciplined(r, b)
  BY DEF Apply
<1>3. CASE AdoptOpeningInventory(r, b)
  <2>1. r.op = "AdoptOpeningInventory"
    BY <1>3 DEF AdoptOpeningInventory
  <2>2. b[r.dst] = d[r.dst]
    BY <1>1, <2>1, NamedVessels DEF DrawingOps, MovingOps, PuttingOps
  <2>3. AdoptOpeningInventory(r, d)
    BY <1>3, <2>2 DEF AdoptOpeningInventory
  <2>4. Disciplined(r, b) => Disciplined(r, d)
    BY <2>1, <2>2 DEF Disciplined
  <2>5. QED
    BY <1>2, <2>3, <2>4 DEF Apply
<1>4. CASE RecordProductionGauge(r, b)
  <2>1. r.op = "RecordProductionGauge"
    BY <1>4 DEF RecordProductionGauge
  <2>2. b[r.dst] = d[r.dst]
    BY <1>1, <2>1, NamedVessels DEF DrawingOps, MovingOps, PuttingOps
  <2>3. RecordProductionGauge(r, d)
    BY <1>4, <2>2 DEF RecordProductionGauge
  <2>4. Disciplined(r, b) => Disciplined(r, d)
    BY <2>1, <2>2 DEF Disciplined
  <2>5. QED
    BY <1>2, <2>3, <2>4 DEF Apply
<1>5. CASE ReceiveExternal(r, b)
  <2>1. r.op = "ReceiveExternal"
    BY <1>5 DEF ReceiveExternal
  <2>2. b[r.dst] = d[r.dst]
    BY <1>1, <2>1, NamedVessels DEF DrawingOps, MovingOps, PuttingOps
  <2>3. ReceiveExternal(r, d)
    BY <1>5, <2>2 DEF ReceiveExternal
  <2>4. Disciplined(r, b) => Disciplined(r, d)
    BY <2>1, <2>2 DEF Disciplined
  <2>5. QED
    BY <1>2, <2>3, <2>4 DEF Apply
<1>6. CASE ShipExternal(r, b)
  <2>1. r.op = "ShipExternal"
    BY <1>6 DEF ShipExternal
  <2>2. b[r.src] = d[r.src]
    BY <1>1, <2>1, NamedVessels DEF DrawingOps, MovingOps, PuttingOps
  <2>3. ShipExternal(r, d)
    BY <1>6, <2>2 DEF ShipExternal
  <2>4. Disciplined(r, b) => Disciplined(r, d)
    BY <2>1, <2>2 DEF Disciplined
  <2>5. QED
    BY <1>2, <2>3, <2>4 DEF Apply
<1>7. CASE StartRedistillation(r, b)
  <2>1. r.op = "StartRedistillation"
    BY <1>7 DEF StartRedistillation
  <2>2. b[r.src] = d[r.src]
    BY <1>1, <2>1, NamedVessels DEF DrawingOps, MovingOps, PuttingOps
  <2>3. StartRedistillation(r, d)
    BY <1>7, <2>2 DEF StartRedistillation
  <2>4. Disciplined(r, b) => Disciplined(r, d)
    BY <2>1, <2>2 DEF Disciplined
  <2>5. QED
    BY <1>2, <2>3, <2>4 DEF Apply
<1>8. CASE CreateBottlingRun(r, b)
  <2>1. r.op = "CreateBottlingRun"
    BY <1>8 DEF CreateBottlingRun
  <2>2. b[r.src] = d[r.src]
    BY <1>1, <2>1, NamedVessels DEF DrawingOps, MovingOps, PuttingOps
  <2>3. CreateBottlingRun(r, d)
    BY <1>8, <2>2 DEF CreateBottlingRun
  <2>4. Disciplined(r, b) => Disciplined(r, d)
    BY <2>1, <2>2 DEF Disciplined
  <2>5. QED
    BY <1>2, <2>3, <2>4 DEF Apply
<1>9. CASE MarkContainer(r, b)
  <2>1. r.op = "MarkContainer"
    BY <1>9 DEF MarkContainer
  <2>2. b[r.src] = d[r.src]
    BY <1>1, <2>1, NamedVessels DEF DrawingOps, MovingOps, PuttingOps
  <2>3. MarkContainer(r, d)
    BY <1>9, <2>2 DEF MarkContainer
  <2>4. Disciplined(r, b) => Disciplined(r, d)
    BY <2>1, <2>2 DEF Disciplined
  <2>5. QED
    BY <1>2, <2>3, <2>4 DEF Apply
<1>10. CASE FillBarrel(r, b)
  <2>1. r.op = "FillBarrel"
    BY <1>10 DEF FillBarrel
  <2>2. b[r.src] = d[r.src] /\ b[r.dst] = d[r.dst]
    BY <1>1, <2>1, NamedVessels DEF DrawingOps, MovingOps, PuttingOps
  <2>3. FillBarrel(r, d)
    BY <1>10, <2>2 DEF FillBarrel
  <2>4. Disciplined(r, b) => Disciplined(r, d)
    BY <2>1, <2>2 DEF Disciplined
  <2>5. QED
    BY <1>2, <2>3, <2>4 DEF Apply
<1>11. CASE DumpBarrel(r, b)
  <2>1. r.op = "DumpBarrel"
    BY <1>11 DEF DumpBarrel
  <2>2. b[r.src] = d[r.src] /\ b[r.dst] = d[r.dst]
    BY <1>1, <2>1, NamedVessels DEF DrawingOps, MovingOps, PuttingOps
  <2>3. DumpBarrel(r, d)
    BY <1>11, <2>2 DEF DumpBarrel
  <2>4. Disciplined(r, b) => Disciplined(r, d)
    BY <2>1, <2>2 DEF Disciplined
  <2>5. QED
    BY <1>2, <2>3, <2>4 DEF Apply
<1>12. CASE CreateBlend(r, b)
  <2>1. r.op = "CreateBlend"
    BY <1>12 DEF CreateBlend
  <2>2. b[r.src] = d[r.src] /\ b[r.also] = d[r.also] /\ b[r.dst] = d[r.dst]
    BY <1>1, <2>1, NamedVessels DEF DrawingOps, MovingOps, PuttingOps
  <2>3. PICK x \in AtStrength(b[r.src], r.vol), y \in AtStrength(b[r.also], r.more) :
          /\ bal' = [bal EXCEPT
                ![r.src]  = DrawKeepingStrength(b[r.src], r.vol, x, x),
                ![r.also] = DrawKeepingStrength(b[r.also], r.more, y, y),
                ![r.dst]  = Deposit(Deposit(b[r.dst], r.vol, x), r.more, y)]
          /\ net' = Entry(Entry(net, r.src, r.dst, x), r.also, r.dst, y)
    BY <1>12 DEF CreateBlend
  <2>4. x \in AtStrength(d[r.src], r.vol) /\ y \in AtStrength(d[r.also], r.more)
    BY <2>2, <2>3
  <2>5. bal' = [bal EXCEPT
                ![r.src]  = DrawKeepingStrength(d[r.src], r.vol, x, x),
                ![r.also] = DrawKeepingStrength(d[r.also], r.more, y, y),
                ![r.dst]  = Deposit(Deposit(d[r.dst], r.vol, x), r.more, y)]
    BY <2>2, <2>3
  <2>6. /\ r.dst \notin {r.src, r.also} /\ UNCHANGED <<held, events>>
        /\ r.vol <= d[r.src].vol /\ r.more <= d[r.also].vol
    BY <1>12, <2>2 DEF CreateBlend
  <2>7. CreateBlend(r, d)
    BY <2>1, <2>3, <2>4, <2>5, <2>6 DEF CreateBlend
  <2>8. Disciplined(r, b) => Disciplined(r, d)
    BY <2>1, <2>2 DEF Disciplined
  <2>9. QED
    BY <1>2, <2>7, <2>8 DEF Apply
<1>13. CASE RegaugeBarrel(r, b)
  <2>1. r.op = "RegaugeBarrel"
    BY <1>13 DEF RegaugeBarrel
  <2>2. b[r.dst] = d[r.dst]
    BY <1>1, <2>1, NamedVessels DEF DrawingOps, MovingOps, PuttingOps
  <2>3. RegaugeBarrel(r, d)
    BY <1>13, <2>2 DEF RegaugeBarrel
  <2>4. Disciplined(r, b) => Disciplined(r, d)
    BY <2>1, <2>2 DEF Disciplined
  <2>5. QED
    BY <1>2, <2>3, <2>4 DEF Apply
<1>14. CASE RecordInventoryAdjustment(r, b)
  <2>1. r.op = "RecordInventoryAdjustment"
    BY <1>14 DEF RecordInventoryAdjustment
  <2>2. b[r.dst] = d[r.dst]
    BY <1>1, <2>1, NamedVessels DEF DrawingOps, MovingOps, PuttingOps
  <2>3. RecordInventoryAdjustment(r, d)
    BY <1>14, <2>2 DEF RecordInventoryAdjustment
  <2>4. Disciplined(r, b) => Disciplined(r, d)
    BY <2>1, <2>2 DEF Disciplined
  <2>5. QED
    BY <1>2, <2>3, <2>4 DEF Apply
<1>15. CASE HandOver(r, b)
  <2>1. r.op = "HandOver"
    BY <1>15 DEF HandOver
  <2>2. b[r.dst] = d[r.dst]
    BY <1>1, <2>1, NamedVessels DEF DrawingOps, MovingOps, PuttingOps
  <2>3. HandOver(r, d)
    BY <1>15, <2>2 DEF HandOver
  <2>4. Disciplined(r, b) => Disciplined(r, d)
    BY <2>1, <2>2 DEF Disciplined
  <2>5. QED
    BY <1>2, <2>3, <2>4 DEF Apply
<1>16. CASE TakeBack(r, b)
  <2>1. r.op = "TakeBack"
    BY <1>16 DEF TakeBack
  <2>2. b[r.dst] = d[r.dst]
    BY <1>1, <2>1, NamedVessels DEF DrawingOps, MovingOps, PuttingOps
  <2>3. TakeBack(r, d)
    BY <1>16, <2>2 DEF TakeBack
  <2>4. Disciplined(r, b) => Disciplined(r, d)
    BY <2>1, <2>2 DEF Disciplined
  <2>5. QED
    BY <1>2, <2>3, <2>4 DEF Apply
<1>17. CASE VoidBarrelEvent(r, b)
  <2>1. r.op = "VoidBarrelEvent"
    BY <1>17 DEF VoidBarrelEvent
  <2>2. b[r.dst] = d[r.dst] /\ (r.src = NoVessel \/ r.src \in Containers)
    BY <1>1, <2>1, NamedVessels DEF DrawingOps, MovingOps, PuttingOps
  <2> DEFINE mb(s) == [b EXCEPT ![r.dst] = TakenBack(r, b, s)]
             md(s) == [d EXCEPT ![r.dst] = TakenBack(r, d, s)]
             After(x, y) == bal' = IF r.src = NoVessel
                                   THEN [bal EXCEPT ![r.dst] = x]
                                   ELSE [bal EXCEPT ![r.dst] = x,
                                                    ![r.src] = Deposit(y, r.vol, r.laa)]
  <2>3. PICK s \in AtStrength(b[r.dst], r.vol) : After(mb(s)[r.dst], mb(s)[r.src])
    BY <1>17 DEF VoidBarrelEvent
  <2>4. TakenBack(r, b, s) = TakenBack(r, d, s) /\ r.dst \in Containers
    BY <2>1, <2>2, NamedVessels DEF TakenBack
  <2>5. /\ mb(s)[r.dst] = md(s)[r.dst]
        /\ r.src \in Containers => mb(s)[r.src] = md(s)[r.src]
    BY <1>1, <2>4
  <2>6. /\ r.vol <= d[r.dst].vol /\ Unvoided(r) /\ Voided(r.event)
        /\ UNCHANGED held /\ net' = Entry(net, r.dst, r.src, r.laa)
        /\ s \in AtStrength(d[r.dst], r.vol)
    BY <1>17, <2>2, <2>3 DEF VoidBarrelEvent
  <2>7. VoidBarrelEvent(r, d)
    <3>1. After(md(s)[r.dst], md(s)[r.src])
      <4> HIDE DEF mb, md
      <4>1. QED
        BY <2>2, <2>3, <2>5
    <3>2. QED
      BY <2>1, <2>6, <3>1 DEF VoidBarrelEvent
  <2>8. Disciplined(r, b) => Disciplined(r, d)
    BY <2>1, <2>2 DEF Disciplined
  <2>9. QED
    BY <1>2, <2>7, <2>8 DEF Apply
<1>18. CASE VoidDistillationRun(r, b)
  <2>1. r.op = "VoidDistillationRun"
    BY <1>18 DEF VoidDistillationRun
  <2>2. b[r.dst] = d[r.dst]
    BY <1>1, <2>1, NamedVessels DEF DrawingOps, MovingOps, PuttingOps
  <2>3. VoidDistillationRun(r, d)
    BY <1>18, <2>2 DEF VoidDistillationRun, TakenBack
  <2>4. Disciplined(r, b) => Disciplined(r, d)
    BY <2>1, <2>2 DEF Disciplined
  <2>5. QED
    BY <1>2, <2>3, <2>4 DEF Apply
<1>19. CASE VoidBottlingRun(r, b)
  <2>1. r.op = "VoidBottlingRun"
    BY <1>19 DEF VoidBottlingRun
  <2>2. b[r.src] = d[r.src]
    BY <1>1, <2>1, NamedVessels DEF DrawingOps, MovingOps, PuttingOps
  <2>3. VoidBottlingRun(r, d)
    BY <1>19, <2>2 DEF VoidBottlingRun
  <2>4. Disciplined(r, b) => Disciplined(r, d)
    BY <2>1, <2>2 DEF Disciplined
  <2>5. QED
    BY <1>2, <2>3, <2>4 DEF Apply
<1>20. CASE UnmarkContainer(r, b)
  <2>1. r.op = "UnmarkContainer"
    BY <1>20 DEF UnmarkContainer
  <2>2. b[r.dst] = d[r.dst]
    BY <1>1, <2>1, NamedVessels DEF DrawingOps, MovingOps, PuttingOps
  <2>3. UnmarkContainer(r, d)
    BY <1>20, <2>2 DEF UnmarkContainer
  <2>4. Disciplined(r, b) => Disciplined(r, d)
    BY <2>1, <2>2 DEF Disciplined
  <2>5. QED
    BY <1>2, <2>3, <2>4 DEF Apply
<1>21. QED
  BY <1>3, <1>4, <1>5, <1>6, <1>7, <1>8, <1>9, <1>10, <1>11, <1>12, <1>13, <1>14, <1>15, <1>16, <1>17, <1>18, <1>19, <1>20 DEF Apply

-----------------------------------------------------------------------------
(* The invariant *)

Exclusive == \A t, u \in Tx : t # u => locked[t] \cap locked[u] = {}

TxSound(t) ==
  /\ Running(t) => req[t] \in Asked
  /\ ~Running(t) => locked[t] = {}
  /\ Running(t) => locked[t] \subseteq Vessels(req[t])
  /\ \A c \in locked[t] : copy[t][c] = bal[c] /\ MayChange(t, c)

LedgerInv ==
  /\ Typed /\ EventsSound
  /\ req \in [Tx -> Request \cup {NoRequest}]
  /\ locked \in [Tx -> SUBSET Containers]
  /\ copy \in [Tx -> [Containers -> Balance]]
  /\ Exclusive
  /\ \A t \in Tx : TxSound(t)

LEMMA EmptyTyped == Empty \in Balance
BY DEF Empty, Balance

LEMMA SameAsked ==
  ASSUME events' = events
  PROVE  Asked' = Asked
BY DEF Asked, Voids, OfKind, VoidRequest, UnmarkRequest

LEMMA LedgerInit_Inv ==
  ASSUME LedgerInit
  PROVE  LedgerInv
<1>1. Typed /\ EventsSound
  BY Opened DEF LedgerInit
<1>2. copy \in [Tx -> [Containers -> Balance]]
  BY EmptyTyped DEF LedgerInit
<1>3. QED
  BY <1>1, <1>2 DEF LedgerInit, LedgerInv, Exclusive, TxSound, Running

\* Giving up its rows, a transaction leaves everybody else's alone.
LEMMA ReleaseFrees ==
  ASSUME LedgerInv, NEW t \in Tx, Release(t)
  PROVE  /\ req' \in [Tx -> Request \cup {NoRequest}]
         /\ locked' \in [Tx -> SUBSET Containers]
         /\ copy' \in [Tx -> [Containers -> Balance]]
         /\ Exclusive'
         /\ req'[t] = NoRequest /\ locked'[t] = {}
         /\ \A u \in Tx \ {t} : /\ req'[u] = req[u] /\ locked'[u] = locked[u]
                                /\ copy'[u] = copy[u]
<1>1. [c \in Containers |-> Empty] \in [Containers -> Balance]
  BY EmptyTyped
<1>2. QED
  BY <1>1 DEF LedgerInv, Release, Exclusive

-----------------------------------------------------------------------------
(* A commit is one operation of the books *)

LEMMA CommitApplies ==
  ASSUME LedgerInv, NEW t \in Tx, Commit(t)
  PROVE  /\ req[t] \in Asked /\ Shaped(req[t]) /\ locked[t] = Vessels(req[t])
         /\ AllHeld(req[t]) /\ Apply(req[t], bal)
<1>1. /\ req[t] \in Asked /\ TxSound(t) /\ Running(t)
      /\ Vessels(req[t]) \subseteq locked[t] /\ locked[t] \subseteq Vessels(req[t])
  BY DEF Commit, Ready, Wanted, LedgerInv, TxSound
<1>2. Shaped(req[t])
  BY <1>1, AskedShaped DEF LedgerInv
<1>3. AllHeld(req[t])
  BY <1>1 DEF AllHeld, TxSound, MayChange
<1>4. Apply(req[t], bal)
  <2>1. /\ copy[t] \in [Containers -> Balance] /\ bal \in [Containers -> Balance]
        /\ \A c \in Vessels(req[t]) : copy[t][c] = bal[c]
    BY <1>1 DEF LedgerInv, Typed, TxSound
  <2>2. Apply(req[t], copy[t])
    BY DEF Commit
  <2>3. QED
    BY <1>2, <2>1, <2>2, ApplyReads
<1>5. QED
  BY <1>1, <1>2, <1>3, <1>4

LEMMA CommitKeeps ==
  ASSUME LedgerInv, NEW t \in Tx, Commit(t)
  PROVE  LedgerInv'
<1> DEFINE r == req[t]
<1>1. /\ r \in Asked /\ Shaped(r) /\ locked[t] = Vessels(r) /\ Apply(r, bal)
  BY CommitApplies
<1>2. /\ Typed /\ EventsSound /\ bal \in [Containers -> Balance] /\ Release(t)
  BY DEF LedgerInv, Typed, Commit
<1> HIDE DEF r
<1>3. Typed'
  BY <1>1, <1>2, ApplyTyped
<1>4. EventsGrow
  BY <1>1, <1>2, ApplyEvents
<1>5. Asked \subseteq Asked'
  BY <1>4, AskedKept
<1>6. ASSUME NEW u \in Tx \ {t} PROVE TxSound(u)'
  <2>1. /\ req'[u] = req[u] /\ locked'[u] = locked[u] /\ copy'[u] = copy[u]
        /\ TxSound(u)
    BY <1>2, ReleaseFrees DEF LedgerInv
  <2>2. ASSUME NEW c \in locked[u] PROVE bal'[c] = bal[c] /\ held'[c] = held[c]
    <3>1. c \in Containers /\ c \notin Vessels(r)
      BY <1>1 DEF LedgerInv, Exclusive
    <3>2. QED
      BY <1>1, <1>2, <3>1, ApplyWrites
  <2>3. QED
    BY <1>5, <2>1, <2>2 DEF TxSound, Running, MayChange
<1>7. TxSound(t)'
  BY <1>2, ReleaseFrees DEF TxSound, Running
<1>8. QED
  BY <1>2, <1>3, <1>4, <1>6, <1>7, ReleaseFrees DEF LedgerInv, EventsGrow

-----------------------------------------------------------------------------
(* The other steps *)

LEMMA BeginKeeps ==
  ASSUME LedgerInv, NEW t \in Tx, Begin(t)
  PROVE  LedgerInv'
<1>1. PICK r \in Asked : req' = [req EXCEPT ![t] = r]
  BY DEF Begin
<1>2. /\ ~Running(t) /\ UNCHANGED <<booksVars, locked, copy>> /\ locked[t] = {}
  BY DEF Begin, LedgerInv, TxSound
<1>3. r \in Request
  BY <1>1, AskedShaped DEF LedgerInv, Shaped
<1>4. Asked' = Asked
  BY <1>2, SameAsked DEF booksVars, LedgerInv
<1>5. Typed' /\ EventsSound'
  BY <1>2 DEF LedgerInv, Typed, EventsSound, booksVars
<1>6. ASSUME NEW u \in Tx PROVE TxSound(u)'
  <2>1. CASE u = t
    BY <1>1, <1>2, <1>4, <2>1 DEF TxSound, LedgerInv, Running, MayChange
  <2>2. CASE u # t
    BY <1>1, <1>2, <1>4, <2>2 DEF TxSound, LedgerInv, Running, MayChange, booksVars
  <2>3. QED
    BY <2>1, <2>2
<1>7. QED
  BY <1>1, <1>2, <1>3, <1>5, <1>6 DEF LedgerInv, Exclusive

LEMMA LockRowKeeps ==
  ASSUME LedgerInv, NEW t \in Tx, NEW c \in Containers, LockRow(t, c)
  PROVE  LedgerInv'
<1>1. /\ Running(t) /\ c \in Vessels(req[t]) /\ MayChange(t, c)
      /\ \A u \in Tx : c \notin locked[u]
      /\ locked' = [locked EXCEPT ![t] = @ \cup {c}]
      /\ copy' = [copy EXCEPT ![t][c] = bal[c]]
      /\ UNCHANGED <<booksVars, req>>
  BY DEF LockRow, NextRow, Wanted
<1>2. /\ bal \in [Containers -> Balance]
      /\ locked \in [Tx -> SUBSET Containers]
      /\ copy \in [Tx -> [Containers -> Balance]]
  BY DEF LedgerInv, Typed
<1>3. Asked' = Asked
  BY <1>1, SameAsked DEF booksVars, LedgerInv
<1>4. Typed' /\ EventsSound' /\ req' \in [Tx -> Request \cup {NoRequest}]
  BY <1>1 DEF LedgerInv, Typed, EventsSound, booksVars
<1>5. /\ locked' \in [Tx -> SUBSET Containers]
      /\ copy' \in [Tx -> [Containers -> Balance]]
  BY <1>1, <1>2
<1>6. ASSUME NEW u \in Tx PROVE TxSound(u)'
  <2>1. TxSound(u)
    BY DEF LedgerInv
  <2>2. CASE u = t
    <3>1. /\ locked'[u] = locked[u] \cup {c} /\ copy'[u][c] = bal[c]
          /\ \A d \in Containers \ {c} : copy'[u][d] = copy[u][d]
      BY <1>1, <1>2, <2>2
    <3>2. locked[u] \subseteq Containers
      BY <1>2
    <3>3. ASSUME NEW d \in locked'[u] PROVE copy'[u][d] = bal'[d] /\ MayChange(u, d)'
      BY <1>1, <2>1, <2>2, <3>1, <3>2, <3>3 DEF TxSound, MayChange, booksVars
    <3>4. QED
      BY <1>1, <1>3, <2>1, <2>2, <3>1, <3>3 DEF TxSound, Running
  <2>3. CASE u # t
    BY <1>1, <1>2, <1>3, <2>1, <2>3 DEF TxSound, Running, MayChange, booksVars
  <2>4. QED
    BY <2>2, <2>3
<1>7. Exclusive'
  BY <1>1, <1>2 DEF LedgerInv, Exclusive
<1>8. QED
  BY <1>4, <1>5, <1>6, <1>7 DEF LedgerInv

\* A refusal or a rollback changes nothing but the transaction that ends.
LEMMA EndingKeeps ==
  ASSUME LedgerInv, NEW t \in Tx, Release(t), UNCHANGED booksVars
  PROVE  LedgerInv'
<1>1. Asked' = Asked
  BY SameAsked DEF booksVars, LedgerInv
<1>2. Typed' /\ EventsSound'
  BY DEF LedgerInv, Typed, EventsSound, booksVars
<1>3. ASSUME NEW u \in Tx PROVE TxSound(u)'
  <2>1. CASE u = t
    BY <2>1, ReleaseFrees DEF TxSound, Running
  <2>2. CASE u # t
    BY <1>1, <2>2, ReleaseFrees DEF LedgerInv, TxSound, Running, MayChange, booksVars
  <2>3. QED
    BY <2>1, <2>2
<1>4. QED
  BY <1>2, <1>3, ReleaseFrees DEF LedgerInv

LEMMA LedgerNext_Inv ==
  ASSUME LedgerInv, [LedgerNext]_ledgerVars
  PROVE  LedgerInv'
<1>1. CASE UNCHANGED ledgerVars
  <2>1. Asked' = Asked
    BY <1>1, SameAsked DEF ledgerVars, booksVars, LedgerInv
  <2>2. QED
    BY <1>1, <2>1 DEF ledgerVars, txVars, booksVars, LedgerInv, Typed, EventsSound, Exclusive,
                      TxSound, Running, MayChange
<1>2. ASSUME NEW t \in Tx, Begin(t) PROVE LedgerInv'
  BY <1>2, BeginKeeps
<1>3. ASSUME NEW t \in Tx, NEW c \in Containers, LockRow(t, c) PROVE LedgerInv'
  BY <1>3, LockRowKeeps
<1>4. ASSUME NEW t \in Tx, NEW c \in Containers, RefuseAway(t, c) PROVE LedgerInv'
  BY <1>4, EndingKeeps DEF RefuseAway
<1>5. ASSUME NEW t \in Tx, Commit(t) PROVE LedgerInv'
  BY <1>5, CommitKeeps
<1>6. ASSUME NEW t \in Tx, Rollback(t) PROVE LedgerInv'
  BY <1>6, EndingKeeps DEF Rollback
<1>7. QED
  BY <1>1, <1>2, <1>3, <1>4, <1>5, <1>6 DEF LedgerNext

LEMMA LedgerNext_Books ==
  ASSUME LedgerInv, [LedgerNext]_ledgerVars
  PROVE  [BooksNext]_booksVars
<1>1. CASE UNCHANGED ledgerVars
  BY <1>1 DEF ledgerVars
<1>2. ASSUME NEW t \in Tx, Commit(t) PROVE BooksNext
  BY <1>2, CommitApplies DEF BooksNext, Commit
<1>3. ASSUME NEW t \in Tx, \/ Begin(t) \/ Rollback(t)
                           \/ \E c \in Containers : LockRow(t, c) \/ RefuseAway(t, c)
      PROVE  UNCHANGED booksVars
  BY <1>3 DEF Begin, Rollback, LockRow, RefuseAway
<1>4. QED
  BY <1>1, <1>2, <1>3 DEF LedgerNext

-----------------------------------------------------------------------------
(* The theorems *)

THEOREM LedgerInvariant == LedgerSafety => []LedgerInv
<1>1. LedgerInit => LedgerInv
  BY LedgerInit_Inv
<1>2. LedgerInv /\ [LedgerNext]_ledgerVars => LedgerInv'
  BY LedgerNext_Inv
<1>3. QED
  BY <1>1, <1>2, PTL DEF LedgerSafety

\* Every balance, journal figure, lock and copy is of its kind, however many
\* transactions run (container_lock.go, tenantdb.go).
THEOREM LedgerTyped == LedgerSafety => []LedgerTypeOK
<1>1. LedgerInv => LedgerTypeOK
  BY DEF LedgerInv, Typed, EventsSound, LedgerTypeOK, BooksTypeOK
<1>2. QED
  BY <1>1, LedgerInvariant, PTL

\* No update is lost: what any handler read under FOR UPDATE is what the row
\* still holds for as long as it has the lock.
THEOREM NoLostUpdate == LedgerSafety => []LockedReadIsCurrent
<1>1. LedgerInv => LockedReadIsCurrent
  BY DEF LedgerInv, TxSound, LockedReadIsCurrent
<1>2. QED
  BY <1>1, LedgerInvariant, PTL

\* assertHeld's answer stands until the handler that asked has finished.
THEOREM PossessionStands == LedgerSafety => []HeldWhileLocked
<1>1. LedgerInv => HeldWhileLocked
  BY DEF LedgerInv, TxSound, MayChange, HeldWhileLocked
<1>2. QED
  BY <1>1, LedgerInvariant, PTL

\* Row locking makes concurrent handlers serial: every behaviour of the
\* transactions is one of the books, one operation at a time.
THEOREM LedgerImplementsBooks == LedgerSafety => Books
<1>1. LedgerInit => BooksInit
  BY DEF LedgerInit
<1>2. LedgerInv /\ [LedgerNext]_ledgerVars => [BooksNext]_booksVars
  BY LedgerNext_Books
<1>3. QED
  BY <1>1, <1>2, LedgerInvariant, PTL DEF LedgerSafety, Books, BooksSpec

\* So the concurrent ledger balances whenever operators keep to the discipline:
\* no interleaving adds a way to create or destroy alcohol.
THEOREM LedgerBalances == Careful => (LedgerSafety => []JournalAgrees)
<1> SUFFICES ASSUME Careful PROVE LedgerSafety => []JournalAgrees
  OBVIOUS
<1>1. LedgerSafety => BooksSpec
  BY LedgerImplementsBooks DEF Books
<1>2. BooksSpec => []JournalAgrees
  BY BooksBalance
<1>3. QED
  BY <1>1, <1>2

-----------------------------------------------------------------------------
(* Sorted acquisition *)

\* Bounded ids have a largest: there is no infinite ascent among them.
LEMMA LargestId ==
  ASSUME NEW N \in Nat, NEW T, T \subseteq 0..N, T # {}
  PROVE  \E c \in T : \A d \in T : d <= c
<1> DEFINE U == {n \in Nat : N - n \in T}
<1>1. U \subseteq Nat /\ U # {}
  <2>1. PICK c \in T : c \in 0..N
    OBVIOUS
  <2>2. N - c \in Nat /\ N - (N - c) = c
    BY <2>1
  <2>3. QED
    BY <2>1, <2>2
<1>2. PICK x \in U : \A y \in U : ~(<<y, x>> \in OpToRel(<, Nat))
  BY <1>1, NatLessThanWellFounded, WFMin
<1>3. x \in Nat /\ N - x \in T /\ \A y \in U : ~(y < x)
  BY <1>2 DEF OpToRel
<1>4. ASSUME NEW d \in T PROVE d <= N - x
  <2>1. d \in 0..N /\ N - d \in Nat /\ N - (N - d) = d
    OBVIOUS
  <2>2. N - d \in U
    BY <2>1
  <2>3. ~(N - d < x)
    BY <1>3, <2>2
  <2>4. QED
    BY <1>3, <2>1, <2>3
<1>5. QED
  BY <1>3, <1>4

\* A handler that sorts holds nothing it could still have to wait behind.
Ascending ==
  \A t \in Tx : Running(t) /\ req[t].op # "VoidBarrelEvent" =>
    \A c \in locked[t], d \in Wanted(t) : c < d

LEMMA AscendingKept ==
  ASSUME LedgerInv, Ascending, [LedgerNext]_ledgerVars
  PROVE  Ascending'
<1>1. CASE UNCHANGED ledgerVars
  BY <1>1 DEF ledgerVars, txVars, Ascending, Running, Wanted, Vessels
<1>2. ASSUME NEW t \in Tx, Release(t) PROVE Ascending'
  <2>1. ASSUME NEW u \in Tx \ {t} PROVE req'[u] = req[u] /\ locked'[u] = locked[u]
    BY <1>2, ReleaseFrees
  <2>2. req'[t] = NoRequest
    BY <1>2, ReleaseFrees
  <2>3. QED
    BY <2>1, <2>2 DEF Ascending, Running, Wanted, Vessels
<1>3. ASSUME NEW t \in Tx, Begin(t) PROVE Ascending'
  <2>1. PICK r \in Asked : req' = [req EXCEPT ![t] = r]
    BY <1>3 DEF Begin
  <2>2. locked' = locked /\ locked[t] = {} /\ req \in [Tx -> Request \cup {NoRequest}]
    BY <1>3 DEF Begin, LedgerInv, TxSound
  <2>3. QED
    BY <2>1, <2>2 DEF Ascending, Running, Wanted, Vessels
<1>4. ASSUME NEW t \in Tx, NEW e \in Containers, LockRow(t, e) PROVE Ascending'
  <2>1. /\ NextRow(t, e) /\ req' = req /\ locked \in [Tx -> SUBSET Containers]
        /\ locked' = [locked EXCEPT ![t] = @ \cup {e}]
    BY <1>4 DEF LockRow, LedgerInv
  <2>2. SUFFICES ASSUME NEW u \in Tx, Running(u), req[u].op # "VoidBarrelEvent",
                        NEW c \in locked'[u], NEW d \in Vessels(req[u]) \ locked'[u]
                 PROVE  c < d
    BY <2>1 DEF Ascending, Running, Wanted, Vessels
  <2>3. CASE u # t
    BY <2>1, <2>2, <2>3 DEF Ascending, Wanted
  <2>4. CASE u = t
    <3>1. d \in Wanted(u) /\ d # e
      BY <2>1, <2>2, <2>4 DEF Wanted
    <3>2. d \in Nat /\ e \in Nat
      <4>1. Vessels(req[u]) \subseteq Containers
        BY <2>2 DEF LedgerInv, Running, Request, Vessel, Vessels
      <4>2. QED
        BY <4>1, ContainersAssumption
    <3>3. e < d
      BY <2>1, <2>2, <2>4, <3>1, <3>2 DEF NextRow
    <3>4. CASE c = e
      BY <3>3, <3>4
    <3>5. CASE c # e
      BY <2>1, <2>2, <2>4, <3>1, <3>5 DEF Ascending
    <3>6. QED
      BY <3>4, <3>5
  <2>5. QED
    BY <2>3, <2>4
<1>5. QED
  BY <1>1, <1>2, <1>3, <1>4
     DEF LedgerNext, RefuseAway, Commit, Rollback

\* In a deadlock of sorting handlers the rows waited for would ascend for ever.
LEMMA AscendingQueues ==
  ASSUME LedgerInv, Ascending, NEW N \in Nat, Containers \subseteq 0..N
  PROVE  SortedLocksQueue
<1> SUFFICES ASSUME NEW S \in SUBSET Tx, Deadlocked(S),
                    \A t \in S : req[t].op # "VoidBarrelEvent"
             PROVE  FALSE
  BY DEF SortedLocksQueue
<1> DEFINE T == {c \in Containers : \E t, u \in S : c \in locked[u] /\ NextRow(t, c)}
<1>1. \A t \in S : \E u \in S : \E c \in Containers : c \in locked[u] /\ NextRow(t, c)
  BY DEF Deadlocked, WaitsFor, LedgerInv
<1>2. T # {} /\ T \subseteq 0..N
  BY <1>1 DEF Deadlocked
<1>3. PICK c \in T : \A d \in T : d <= c
  BY <1>2, LargestId
<1>4. PICK u \in S : c \in locked[u]
  BY <1>3
<1>5. PICK d \in T : NextRow(u, d)
  BY <1>1
<1>6. c < d
  BY <1>4, <1>5 DEF Ascending, NextRow
<1>7. c \in Nat /\ d \in Nat
  BY ContainersAssumption
<1>8. QED
  BY <1>3, <1>6, <1>7

\* Handlers that lock in id order never deadlock among themselves, however many
\* run and however their vessels overlap (lockContainers).
THEOREM SortedHandlersQueue ==
  ASSUME NEW N \in Nat, Containers \subseteq 0..N
  PROVE  LedgerSafety => []SortedLocksQueue
<1>1. LedgerInit => Ascending
  BY DEF LedgerInit, Ascending, Running
<1>2. LedgerInv /\ Ascending /\ [LedgerNext]_ledgerVars => Ascending'
  BY AscendingKept
<1>3. LedgerInv /\ Ascending => SortedLocksQueue
  BY AscendingQueues
<1>4. QED
  BY <1>1, <1>2, <1>3, LedgerInvariant, PTL DEF LedgerSafety

=============================================================================
