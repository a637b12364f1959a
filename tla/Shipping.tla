------------------------------ MODULE Shipping ------------------------------
(***************************************************************************)
(* From an order to a return (backend/internal/rpc: sales.go,              *)
(* sales_hydrate.go, removal_core.go): sales orders, the shipments that    *)
(* are picked for them, and the removals a shipment becomes when it goes.  *)
(*                                                                         *)
(* Each RPC is a READ COMMITTED transaction.  ShipShipment locks its       *)
(* shipment and, for the numbers of its removals, every other shipment     *)
(* out.  The others read the order or the shipment they depend on without  *)
(* a lock and write later: two steps each.                                 *)
(***************************************************************************)
EXTENDS Integers, Sequences, FiniteSetsExt

CONSTANTS
  Orders,
  OrderLines,  \* lines there can be of them
  OrderOf,     \* of each line
  Ordered,     \* bottles, of each line
  Shipments,
  Picks,       \* ids of shipment lines, an earlier one a smaller number
  Lots,
  Matches,     \* the lots of an order line's product
  Filled,      \* the bottles of each lot
  Quantities,  \* the bottles of a pick or of a removal
  Clerks,
  Careful,     \* the rules operators keep
  NoOrder,
  NoLine,
  NoPick,
  NoTask,
  MaxRemovals  \* bound of the model

Pick == [shipment : Shipments, line : OrderLines \cup {NoLine}, lot : Lots,
         bottles : Nat, removal : Nat]

\* What a clerk has read and is about to write on.
Task == [op : {"pick"}, on : Shipments] \cup [op : {"unpick"}, on : Picks]
        \cup [op : {"add", "confirmed", "cancelled"}, on : Orders]
        \cup [op : {"open"}, on : Orders \cup {NoOrder}]
        \cup [op : {"remove"}, on : OrderLines]

Rules == {"unattended", "none open", "names line", "leave picked", "leave promised",
          "lines first"}

ASSUME ShippingAssumption ==
  /\ OrderOf \in [OrderLines -> Orders]
  /\ Ordered \in [OrderLines -> Nat \ {0}]
  /\ Matches \in [OrderLines -> SUBSET Lots]
  /\ Filled \in [Lots -> Nat]
  /\ Picks \subseteq Nat
  /\ Quantities \subseteq Nat \ {0}
  /\ Careful \subseteq Rules
  /\ NoOrder \notin Orders
  /\ NoLine \notin OrderLines
  /\ NoPick \notin Pick /\ NoPick \notin Shipments
  /\ NoTask \notin Task
  /\ MaxRemovals \in Nat

VARIABLES
  orders,     \* sales_orders, by status
  lines,      \* sales_order_lines: the bottles shipped
  shipments,  \* shipments: status and order
  picks,      \* shipment_lines
  lots,       \* packaged_inventory
  removals,   \* packaging_removals, each with the shipment it came from
  task        \* what each clerk has in hand

vars == <<orders, lines, shipments, picks, lots, removals, task>>

-----------------------------------------------------------------------------
There(k) == lines[k] >= 0
NotThere == -1

LinesOf(o) == {k \in OrderLines : OrderOf[k] = o /\ There(k)}

Made == {p \in Picks : picks[p] # NoPick}

PicksOf(h) == {p \in Made : picks[p].shipment = h}

Bottles(S) == SumFunctionOnSet([p \in S |-> picks[p].bottles], S)

PicksFrom(l, S) == {p \in S : picks[p].lot = l}

\* On one shipment.
PickedOnShipment(h, l) == Bottles(PicksFrom(l, PicksOf(h)))

\* On all that are being picked: promised, and not gone yet.
Promised(l) ==
  Bottles({p \in Made : /\ picks[p].lot = l
                        /\ shipments[picks[p].shipment].status = "picking"})

\* BottlesPickedFromLot, as somebody finds it who picks on h.
PickedFromLot(h, l) == Promised(l)

\* assertOrderEditable; and as it would be if it looked for the last two statuses only.
EditableUntilClosed(o) == orders[o] \notin {"none", "closed", "cancelled"}
Editable(o) == orders[o] \in {"draft", "confirmed"}

\* SalesOrderOutstanding: no line is outstanding, and none has started.
NothingOutstanding(o, shipped) == \A k \in LinesOf(o) : shipped[k] >= Ordered[k]
NothingStarted(o) == \A k \in LinesOf(o) : lines[k] = 0

\* The check on cancelling an order left out.
MayCancelAnyway(o) == TRUE
MayCancel(o) == NothingStarted(o)

\* advanceOrderAfterShipment leaves an order that was cancelled or closed alone.
Advance(o, shipped) ==
  IF o = NoOrder THEN orders
  ELSE IF orders[o] \notin {"draft", "confirmed", "partially_shipped"} THEN orders
  ELSE [orders EXCEPT ![o] = IF NothingOutstanding(o, shipped) THEN "shipped"
                             ELSE "partially_shipped"]

OrderShipments(o, status) ==
  {h \in Shipments : shipments[h].order = o /\ shipments[h].status \in status}

InHand(op, x) == \E c \in Clerks : task[c] = [op |-> op, on |-> x]

\* "unattended": a shipment is picked, and shipped, by one clerk at a time.
Unattended(h) == ~InHand("pick", h) /\ \A p \in PicksOf(h) : ~InHand("unpick", p)

\* "none open": an order is not cancelled while a shipment of it is open or being
\* opened, nor is one opened while it is being cancelled.
NoneOpen(o) == OrderShipments(o, {"picking"}) = {} /\ ~InHand("open", o)

\* "names line": a pick for an order names the order's line.
NamesLine(h, k) == shipments[h].order # NoOrder => k # NoLine

\* "leave picked": a line is taken off an order before anything is picked for it.
Unpicked(k) == \A p \in Made : picks[p].line # k

\* "leave promised": other removals leave what is promised where it is.
LeavesPromised(l, n) == Promised(l) + n <= lots[l].onHand

\* "lines first": nothing of an order goes while a line is being added to it.
LinesComplete(o) == ~InHand("add", o)

Idle(c) == task[c] = NoTask
Begin(c, op, x) == task' = [task EXCEPT ![c] = [op |-> op, on |-> x]]
End(c) == task' = [task EXCEPT ![c] = NoTask]

-----------------------------------------------------------------------------
(* Orders *)

CreateSalesOrder(o) ==
  /\ orders[o] = "none"
  /\ orders' = [orders EXCEPT ![o] = "draft"]
  /\ UNCHANGED <<lines, shipments, picks, lots, removals, task>>

\* A line is added by the status that was read first, ...
AskToAddLine(c, o) ==
  /\ Idle(c)
  /\ Editable(o)
  /\ Begin(c, "add", o)
  /\ UNCHANGED <<orders, lines, shipments, picks, lots, removals>>

AddSalesOrderLine(c, k) ==
  /\ ~Idle(c)
  /\ task[c] = [op |-> "add", on |-> OrderOf[k]]
  /\ ~There(k)
  /\ lines' = [lines EXCEPT ![k] = 0]
  /\ End(c)
  /\ UNCHANGED <<orders, shipments, picks, lots, removals>>

\* ... and so it is taken off again, but its row is locked from the start.
AskToRemoveLine(c, k) ==
  /\ Idle(c)
  /\ There(k)
  /\ ~InHand("remove", k)
  /\ Editable(OrderOf[k])
  /\ lines[k] = 0
  /\ "leave picked" \in Careful => Unpicked(k)
  /\ Begin(c, "remove", k)
  /\ UNCHANGED <<orders, lines, shipments, picks, lots, removals>>

\* ON DELETE SET NULL: a pick for the line becomes one for none, and what it
\* ships is then counted nowhere.
RemoveSalesOrderLine(c) ==
  /\ ~Idle(c)
  /\ task[c].op = "remove"
  /\ LET k == task[c].on
     IN  /\ lines' = [lines EXCEPT ![k] = NotThere]
         /\ picks' = [p \in Picks |-> IF p \in Made /\ picks[p].line = k
                                      THEN [picks[p] EXCEPT !.line = NoLine] ELSE picks[p]]
  /\ End(c)
  /\ UNCHANGED <<orders, shipments, lots, removals>>

\* By hand an order becomes either of these, whatever it is; ...
SetSalesOrderStatus(o, s) ==
  /\ orders[o] # "none"
  /\ orders' = [orders EXCEPT ![o] = s]
  /\ UNCHANGED <<lines, shipments, picks, lots, removals, task>>

\* ... and confirmed, or cancelled, by what its lines are when they are read.
AskToConfirm(c, o) ==
  /\ Idle(c)
  /\ orders[o] # "none"
  /\ LinesOf(o) # {}
  /\ Begin(c, "confirmed", o)
  /\ UNCHANGED <<orders, lines, shipments, picks, lots, removals>>

AskToCancel(c, o) ==
  /\ Idle(c)
  /\ orders[o] # "none"
  /\ MayCancel(o)
  /\ "none open" \in Careful => NoneOpen(o)
  /\ Begin(c, "cancelled", o)
  /\ UNCHANGED <<orders, lines, shipments, picks, lots, removals>>

ConfirmOrCancel(c) ==
  /\ ~Idle(c)
  /\ task[c].op \in {"confirmed", "cancelled"}
  /\ orders' = [orders EXCEPT ![task[c].on] = task[c].op]
  /\ End(c)
  /\ UNCHANGED <<lines, shipments, picks, lots, removals>>

-----------------------------------------------------------------------------
(* Shipments *)

\* For an order, or for none; before the wait for the next shipment number.
AskToShip(c, o) ==
  /\ Idle(c)
  /\ o # NoOrder => /\ orders[o] \notin {"none", "cancelled"}
                    /\ "none open" \in Careful => ~InHand("cancelled", o)
  /\ Begin(c, "open", o)
  /\ UNCHANGED <<orders, lines, shipments, picks, lots, removals>>

CreateShipment(c, h) ==
  /\ ~Idle(c)
  /\ task[c].op = "open"
  /\ shipments[h].status = "none"
  /\ shipments' = [shipments EXCEPT ![h] = [status |-> "picking", order |-> task[c].on]]
  /\ End(c)
  /\ UNCHANGED <<orders, lines, picks, lots, removals>>

\* Picking and unpicking are allowed by the status that was read first.
AskToPick(c, h) ==
  /\ Idle(c)
  /\ shipments[h].status = "picking"
  /\ Begin(c, "pick", h)
  /\ UNCHANGED <<orders, lines, shipments, picks, lots, removals>>

\* The lot is locked, the shipment is not.
AddShipmentLine(c, p, l, n, k) ==
  /\ ~Idle(c)
  /\ task[c].op = "pick"
  /\ p \notin Made
  /\ LET h == task[c].on
     IN  /\ lots[l].onHand - PickedFromLot(h, l) >= n
         /\ ~lots[l].held
         /\ k # NoLine => /\ There(k) /\ ~InHand("remove", k)
                          /\ OrderOf[k] = shipments[h].order
                          /\ l \in Matches[k]
         /\ "names line" \in Careful => NamesLine(h, k)
         /\ picks' = [picks EXCEPT ![p] = [shipment |-> h, line |-> k, lot |-> l,
                                           bottles |-> n, removal |-> 0]]
  /\ End(c)
  /\ UNCHANGED <<orders, lines, shipments, lots, removals>>

AskToUnpick(c, p) ==
  /\ Idle(c)
  /\ p \in Made
  /\ shipments[picks[p].shipment].status = "picking"
  /\ Begin(c, "unpick", p)
  /\ UNCHANGED <<orders, lines, shipments, picks, lots, removals>>

RemoveShipmentLine(c) ==
  /\ ~Idle(c)
  /\ task[c].op = "unpick"
  /\ picks' = [picks EXCEPT ![task[c].on] = NoPick]
  /\ End(c)
  /\ UNCHANGED <<orders, lines, shipments, lots, removals>>

\* A request that is refused, or fails, leaves nothing behind.
Refuse(c) ==
  /\ ~Idle(c)
  /\ End(c)
  /\ UNCHANGED <<orders, lines, shipments, picks, lots, removals>>

\* IncrementSalesOrderLineShipped, of every pick for the line; and of those on h.
ShippedOfAny(h, k) == {p \in Made : picks[p].line = k}
ShippedOf(h, k) == {p \in PicksOf(h) : picks[p].line = k}

\* The status checks of ShipShipment left out.
MayShipAgain(h) == shipments[h].status \in {"picking", "shipped"}
MayShip(h) == shipments[h].status = "picking"

\* recordRemoval's refusals, of the shipment's picks from a lot.
MayLeave(h, l) == ~lots[l].held /\ PickedOnShipment(h, l) <= lots[l].onHand

\* The picks become removals, the oldest id first; all of them, or none.  A line that
\* is being taken off its order is locked.
ShipShipment(h) ==
  LET S == PicksOf(h)
      Number(p) == Len(removals) + Cardinality({q \in S : q <= p})
      shipped == [k \in OrderLines |-> IF There(k)
                    THEN lines[k] + Bottles(ShippedOf(h, k)) ELSE lines[k]]
  IN  /\ MayShip(h)
      /\ S # {}
      /\ \A l \in Lots : PicksFrom(l, S) # {} => MayLeave(h, l)
      /\ \A p \in S : picks[p].line # NoLine => ~InHand("remove", picks[p].line)
      /\ "unattended" \in Careful => Unattended(h)
      /\ "lines first" \in Careful => LinesComplete(shipments[h].order)
      /\ Len(removals) + Cardinality(S) <= MaxRemovals
      /\ lots' = [l \in Lots |-> [lots[l] EXCEPT !.onHand = @ - PickedOnShipment(h, l)]]
      /\ removals' = removals \o
           [i \in 1..Cardinality(S) |->
              LET p == CHOOSE q \in S : Number(q) = Len(removals) + i
              IN  [shipment |-> h, lot |-> picks[p].lot,
                   bottles |-> picks[p].bottles, voided |-> FALSE]]
      /\ picks' = [p \in Picks |-> IF p \in S
                     THEN [picks[p] EXCEPT !.removal = Number(p)] ELSE picks[p]]
      /\ lines' = shipped
      /\ shipments' = [shipments EXCEPT ![h].status = "shipped"]
      /\ orders' = Advance(shipments[h].order, shipped)
      /\ UNCHANGED task

CancelShipment(h) ==
  /\ shipments[h].status = "picking"
  /\ shipments' = [shipments EXCEPT ![h].status = "cancelled"]
  /\ UNCHANGED <<orders, lines, picks, lots, removals, task>>

-----------------------------------------------------------------------------
(* The lots, meanwhile. *)

\* CreateRemoval, by hand or for the till.
RecordRemoval(l, n) ==
  /\ Len(removals) < MaxRemovals
  /\ ~lots[l].held
  /\ n <= lots[l].onHand
  /\ "leave promised" \in Careful => LeavesPromised(l, n)
  /\ lots' = [lots EXCEPT ![l].onHand = @ - n]
  /\ removals' = Append(removals, [shipment |-> NoPick, lot |-> l, bottles |-> n,
                                   voided |-> FALSE])
  /\ UNCHANGED <<orders, lines, shipments, picks, task>>

\* The shipment and the order stay as they are.
VoidRemoval(r) ==
  /\ ~removals[r].voided
  /\ removals' = [removals EXCEPT ![r].voided = TRUE]
  /\ lots' = [lots EXCEPT ![removals[r].lot].onHand = @ + removals[r].bottles]
  /\ UNCHANGED <<orders, lines, shipments, picks, task>>

\* HoldPackagedLot and its release.
SetHold(l) ==
  /\ lots' = [lots EXCEPT ![l].held = ~@]
  /\ UNCHANGED <<orders, lines, shipments, picks, removals, task>>

-----------------------------------------------------------------------------
Init ==
  /\ orders = [o \in Orders |-> "none"]
  /\ lines = [k \in OrderLines |-> NotThere]
  /\ shipments = [h \in Shipments |-> [status |-> "none", order |-> NoOrder]]
  /\ picks = [p \in Picks |-> NoPick]
  /\ lots = [l \in Lots |-> [onHand |-> Filled[l], held |-> FALSE]]
  /\ removals = << >>
  /\ task = [c \in Clerks |-> NoTask]

Next ==
  \/ \E o \in Orders : \/ CreateSalesOrder(o)
                       \/ \E s \in {"draft", "closed"} : SetSalesOrderStatus(o, s)
  \/ \E h \in Shipments : ShipShipment(h) \/ CancelShipment(h)
  \/ \E c \in Clerks :
       \/ \E o \in Orders : AskToAddLine(c, o) \/ AskToConfirm(c, o) \/ AskToCancel(c, o)
       \/ \E k \in OrderLines : AddSalesOrderLine(c, k) \/ AskToRemoveLine(c, k)
       \/ \E o \in Orders \cup {NoOrder} : AskToShip(c, o)
       \/ \E h \in Shipments : CreateShipment(c, h) \/ AskToPick(c, h)
       \/ \E p \in Picks : \/ AskToUnpick(c, p)
                           \/ \E l \in Lots, n \in Quantities, k \in OrderLines \cup {NoLine} :
                                AddShipmentLine(c, p, l, n, k)
       \/ RemoveSalesOrderLine(c) \/ ConfirmOrCancel(c) \/ RemoveShipmentLine(c)
       \/ Refuse(c)
  \/ \E l \in Lots : SetHold(l) \/ \E n \in Quantities : RecordRemoval(l, n)
  \/ \E r \in DOMAIN removals : VoidRemoval(r)

Spec == Init /\ [][Next]_vars

-----------------------------------------------------------------------------
(* Properties *)

\* "What ships is what the removal says left, because it is the same row read
\* twice" (000050_sales_orders): the picks of a shipment that went are, one for
\* one, the removals that came from it, and no other shipment has any.
ShippedIsRemoved ==
  /\ \A p \in Made :
       LET r == picks[p].removal
       IN  IF shipments[picks[p].shipment].status # "shipped" THEN r = 0
           ELSE /\ r \in DOMAIN removals
                /\ removals[r].shipment = picks[p].shipment
                /\ removals[r].lot = picks[p].lot
                /\ removals[r].bottles = picks[p].bottles
  /\ \A r \in DOMAIN removals : removals[r].shipment # NoPick =>
       Cardinality({p \in PicksOf(removals[r].shipment) : picks[p].removal = r}) = 1

\* Two pickers never promise the same bottles: what is picked of a lot is on hand,
\* with both of them picking, taking back and shipping on what they read before.
NotPromisedTwice ==
  \A l \in Lots : Promised(l) <= lots[l].onHand

\* The running total of an order's line is what the shipments that went took for
\* it, whatever else was picked, taken back, cancelled or reordered.
OrderCountsAgree ==
  \A k \in OrderLines : There(k) =>
    lines[k] = Bottles({p \in Made : picks[p].line = k /\ picks[p].removal # 0})

\* "advanceOrderAfterShipment moves an order to partially shipped or shipped
\* according to what is still owed on its lines" (sales_hydrate.go): nothing is owed
\* on an order that is shown as shipped.
ShippedOwesNothing ==
  \A o \in Orders : orders[o] = "shipped" => NothingOutstanding(o, lines)

\* "Cancelling an order that has already put stock on a truck would say the shipment
\* never happened" (sales.go): nothing went of an order that is shown as cancelled.
CancelledHasNotShipped ==
  \A o \in Orders : orders[o] = "cancelled" => OrderShipments(o, {"shipped"}) = {}

=============================================================================
