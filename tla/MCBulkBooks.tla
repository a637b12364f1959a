---------------------------- MODULE MCBulkBooks ----------------------------
(* Values for checking BulkBooks: a barrel (1) and two tanks (2 and 3), in   *)
(* half-litre-per-cent units: a litre at 60 % holds 30 units of LAA, so that *)
(* one unit per litre is the 2 % by which a gauge may differ from a tank.    *)
EXTENDS BulkBooks

MCCapacity == [c \in Containers |-> IF c \in Barrels THEN 2 ELSE 4]

Full(v) == [vol |-> v, laa |-> 30 * v, imp |-> 30 * v]

MCOpening == [c \in Containers |-> IF c = 2 THEN Full(2) ELSE Full(0)]

Ask(op, src, dst, v, a) ==
  [op |-> op, src |-> src, also |-> NoVessel, dst |-> dst,
   vol |-> v, more |-> 0, laa |-> a, event |-> 0]

Blend(src, v, also, w, dst) ==
  [op |-> "CreateBlend", src |-> src, also |-> also, dst |-> dst,
   vol |-> v, more |-> w, laa |-> 0, event |-> 0]

EveryRequest ==
  { Ask("AdoptOpeningInventory", NoVessel, 1, 2, 60),
    Ask("RecordProductionGauge", NoVessel, 3, 1, 32),
    Ask("FillBarrel", 2, 1, 1, 30),
    Ask("FillBarrel", 2, 1, 1, 29),
    Ask("FillBarrel", 2, 1, 2, 60),
    Ask("FillBarrel", 2, 1, 2, 58),
    Ask("FillBarrel", 1, 1, 1, 30),
    Ask("DumpBarrel", 1, 3, 1, 28),
    Ask("DumpBarrel", 1, 1, 1, 30),
    Ask("RegaugeBarrel", NoVessel, 1, 1, 28),
    Ask("RegaugeBarrel", NoVessel, 1, 2, 56),
    Blend(2, 1, 3, 1, 1),
    Blend(2, 1, 2, 1, 3),
    Ask("RecordInventoryAdjustment", NoVessel, 2, 1, 30),
    Ask("RecordInventoryAdjustment", NoVessel, 2, 1, 34),
    Ask("RecordInventoryAdjustment", NoVessel, 2, 2, 60),
    Ask("ReceiveExternal", NoVessel, 2, 1, 30),
    Ask("ShipExternal", 3, NoVessel, 1, 30),
    Ask("StartRedistillation", 2, NoVessel, 1, 30),
    Ask("StartRedistillation", 2, NoVessel, 2, 30),
    Ask("HandOver", NoVessel, 1, 0, 0),
    Ask("TakeBack", NoVessel, 1, 0, 0),
    Ask("CreateBottlingRun", 3, NoVessel, 1, 30),
    Ask("MarkContainer", 2, NoVessel, 1, 30) }

=============================================================================
