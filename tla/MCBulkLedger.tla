---------------------------- MODULE MCBulkLedger ----------------------------
(* Two transactions on two tanks (1 and 3) and a barrel (2), whose id        *)
(* sorts after one tank's and before the other's.                            *)
EXTENDS BulkLedger

MCCapacity == [c \in Containers |-> 4]

Full(v) == [vol |-> v, laa |-> 30 * v, imp |-> 30 * v]

MCOpening == [c \in Containers |-> IF c \in Barrels THEN Full(0) ELSE Full(1)]

Ask(op, src, dst, v, a) ==
  [op |-> op, src |-> src, also |-> NoVessel, dst |-> dst,
   vol |-> v, more |-> 0, laa |-> a, event |-> 0]

Blend(src, v, also, w, dst) ==
  [op |-> "CreateBlend", src |-> src, also |-> also, dst |-> dst,
   vol |-> v, more |-> w, laa |-> 0, event |-> 0]

\* Both tanks are filled into one barrel, which is regauged, bottled and handed
\* over while the fills run.
FillRequests == { Ask("FillBarrel", 1, 2, 1, 30),
                  Ask("FillBarrel", 3, 2, 1, 29),
                  Ask("RegaugeBarrel", NoVessel, 2, 1, 28),
                  Ask("CreateBottlingRun", 2, NoVessel, 1, 30),
                  Ask("StartRedistillation", 3, NoVessel, 2, 30),
                  Ask("HandOver", NoVessel, 2, 0, 0),
                  Ask("TakeBack", NoVessel, 2, 0, 0) }

\* Transfers that cross: each vessel is drawn on by one and filled by another.
CrossRequests == { Ask("FillBarrel", 1, 2, 1, 30),
                   Ask("DumpBarrel", 2, 3, 1, 30),
                   Blend(3, 1, 2, 1, 1) }

AllRequests == FillRequests \cup CrossRequests

=============================================================================
