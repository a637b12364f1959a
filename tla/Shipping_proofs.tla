--------------------------- MODULE Shipping_proofs ---------------------------
(***************************************************************************)
(* Theorems about Shipping: any orders, shipments, lots and clerks.  Each  *)
(* says which of the rules the operators keep.                             *)
(***************************************************************************)
EXTENDS Shipping, Sums, SequenceTheorems

-----------------------------------------------------------------------------
(* The invariant. *)

Status   == {"none", "draft", "confirmed", "partially_shipped", "shipped", "closed",
             "cancelled"}
Shipment == [status : {"none", "picking", "shipped", "cancelled"},
             order : Orders \cup {NoOrder}]
Lot      == [onHand : Nat, held : BOOLEAN]
Removal  == [shipment : Shipments \cup {NoPick}, lot : Lots, bottles : Nat,
             voided : BOOLEAN]

Shape ==
  /\ orders \in [Orders -> Status]
  /\ lines \in [OrderLines -> Nat \cup {NotThere}]
  /\ shipments \in [Shipments -> Shipment]
  /\ picks \in [Picks -> Pick \cup {NoPick}] /\ IsFiniteSet(Made)
  /\ lots \in [Lots -> Lot]
  /\ removals \in Seq(Removal)
  /\ task \in [Clerks -> Task \cup {NoTask}]

Open == {"picking", "cancelled"}

\* What was read for a request still holds: nobody picks on a shipment that has gone,
\* or is about to take back what has; an order about to be cancelled has nothing on a
\* truck or on its way to one, and one about to be shipped from is not cancelled; of a
\* line about to be removed nothing is picked.
Stands(x) ==
  /\ x.op = "pick" => shipments[x.on].status \in Open
  /\ x.op = "unpick" /\ x.on \in Made => shipments[picks[x.on].shipment].status \in Open
  /\ x.op = "cancelled" => OrderShipments(x.on, {"picking", "shipped"}) = {}
  /\ x.op = "open" /\ x.on \in Orders => orders[x.on] # "cancelled"
  /\ x.op = "remove" => Unpicked(x.on)

TasksStand == \A c \in Clerks : task[c] # NoTask => Stands(task[c])

Against(x, y) == x.op = "cancelled" /\ y.op = "open" /\ x.on = y.on

TasksApart ==
  \A c, d \in Clerks : task[c] # NoTask /\ task[d] # NoTask => ~Against(task[c], task[d])

\* A pick is of a shipment there is, and counts on a line of its order.
PicksStand ==
  \A p \in Made :
    /\ shipments[picks[p].shipment].status # "none"
    /\ picks[p].bottles > 0
    /\ picks[p].line # NoLine =>
         /\ There(picks[p].line)
         /\ OrderOf[picks[p].line] = shipments[picks[p].shipment].order
    /\ shipments[picks[p].shipment].order # NoOrder => picks[p].line # NoLine

NoneEmpty ==
  \A h \in Shipments : shipments[h].status = "shipped" => PicksOf(h) # {}

CancelledStayBack ==
  \A o \in Orders : orders[o] = "cancelled" => OrderShipments(o, {"picking", "shipped"}) = {}

Kept ==
  /\ Shape /\ TasksStand /\ TasksApart /\ PicksStand /\ NoneEmpty /\ CancelledStayBack
  /\ ShippedIsRemoved /\ NotPromisedTwice /\ OrderCountsAgree

\* The rules it takes.
Disciplined ==
  {"unattended", "none open", "names line", "leave picked", "leave promised"} \subseteq Careful

-----------------------------------------------------------------------------
(* Bottles of a set of picks. *)

Total(P, S) == SumFunctionOnSet([p \in S |-> P[p].bottles], S)

Countable(P, S) == IsFiniteSet(S) /\ \A p \in S : P[p].bottles \in Nat

LEMMA TotalNat ==
  ASSUME NEW P, NEW S, Countable(P, S)
  PROVE  Total(P, S) \in Nat
<1> DEFINE f == [p \in S |-> P[p].bottles]
<1>1. IsFiniteSet(S) /\ \A p \in S : f[p] \in Nat
  BY DEF Countable
<1> HIDE DEF f
<1>2. SumFunctionOnSet(f, S) \in Nat
  BY <1>1, SumNat
<1> QED BY <1>2 DEF f, Total

LEMMA TotalSame ==
  ASSUME NEW P, NEW Q, NEW S, Countable(P, S), \A p \in S : Q[p].bottles = P[p].bottles
  PROVE  Total(Q, S) = Total(P, S)
<1> DEFINE f == [p \in S |-> P[p].bottles]
           g == [p \in S |-> Q[p].bottles]
<1>1. IsFiniteSet(S) /\ \A p \in S : f[p] = g[p]
  BY DEF Countable
<1> HIDE DEF f, g
<1>2. SumFunctionOnSet(f, S) = SumFunctionOnSet(g, S)
  BY <1>1, SumSame
<1> QED BY <1>2 DEF f, g, Total

LEMMA TotalUnion ==
  ASSUME NEW P, NEW S, NEW R, Countable(P, S), Countable(P, R), S \cap R = {}
  PROVE  Countable(P, S \cup R) /\ Total(P, S \cup R) = Total(P, S) + Total(P, R)
<1> DEFINE f == [p \in S |-> P[p].bottles]
           g == [p \in R |-> P[p].bottles]
           h == [p \in S \cup R |-> P[p].bottles]
<1>1. IsFiniteSet(S) /\ IsFiniteSet(R)
  BY DEF Countable
<1>2. /\ \A p \in S : h[p] = f[p]
      /\ \A p \in R : h[p] = g[p]
      /\ \A p \in S \cup R : h[p] \in Int
  BY DEF Countable
<1> HIDE DEF f, g, h
<1>3. SumFunctionOnSet(h, S \cup R) = SumFunctionOnSet(h, S) + SumFunctionOnSet(h, R)
  BY <1>1, <1>2, SumUnion
<1>4. SumFunctionOnSet(h, S) = SumFunctionOnSet(f, S)
  BY <1>1, <1>2, SumSame
<1>5. SumFunctionOnSet(h, R) = SumFunctionOnSet(g, R)
  BY <1>1, <1>2, SumSame
<1>6. Countable(P, S \cup R)
  BY <1>1, FS_Union DEF Countable
<1> QED BY <1>3, <1>4, <1>5, <1>6 DEF f, g, h, Total

LEMMA TotalNone ==
  ASSUME NEW P
  PROVE  Total(P, {}) = 0
BY SumEmpty DEF Total

LEMMA TotalOne ==
  ASSUME NEW P, NEW p, P[p].bottles \in Nat
  PROVE  Countable(P, {p}) /\ Total(P, {p}) = P[p].bottles
<1> DEFINE f == [q \in {p} |-> P[q].bottles]
<1>1. f[p] = P[p].bottles /\ f[p] \in Int
  OBVIOUS
<1>2. Countable(P, {p})
  BY FS_Singleton DEF Countable
<1> HIDE DEF f
<1>3. SumFunctionOnSet(f, {} \cup {p}) = SumFunctionOnSet(f, {}) + f[p]
  BY <1>1, FS_EmptySet, SumAdd
<1>4. SumFunctionOnSet(f, {}) = 0 /\ {} \cup {p} = {p}
  BY SumEmpty
<1>5. SumFunctionOnSet(f, {p}) = f[p]
  BY <1>1, <1>3, <1>4
<1> QED BY <1>1, <1>2, <1>5 DEF f, Total

LEMMA TotalPart ==
  ASSUME NEW P, NEW S, NEW R, R \subseteq S, Countable(P, S)
  PROVE  /\ Countable(P, R) /\ Countable(P, S \ R)
         /\ Total(P, S) = Total(P, R) + Total(P, S \ R)
         /\ Total(P, R) \in Nat /\ Total(P, S \ R) \in Nat
<1>1. IsFiniteSet(R) /\ IsFiniteSet(S \ R)
  <2>1. S \ R \in SUBSET S
    OBVIOUS
  <2> QED BY <2>1, FS_Subset DEF Countable
<1>2. Countable(P, R) /\ Countable(P, S \ R)
  BY <1>1 DEF Countable
<1>3. Total(P, R \cup (S \ R)) = Total(P, R) + Total(P, S \ R)
  <2>1. R \cap (S \ R) = {}
    OBVIOUS
  <2> QED BY <1>2, <2>1, TotalUnion
<1>4. Total(P, R \cup (S \ R)) = Total(P, S)
  <2>1. R \cup (S \ R) = S
    OBVIOUS
  <2> QED BY <2>1, Zenon
<1> QED BY <1>2, <1>3, <1>4, TotalNat

\* TotalPart, of parts one by one.
Split(P, S, R) ==
  /\ Countable(P, R) /\ Countable(P, S \ R)
  /\ Total(P, S) = Total(P, R) + Total(P, S \ R)
  /\ Total(P, R) \in Nat /\ Total(P, S \ R) \in Nat

LEMMA TotalSplit ==
  ASSUME NEW P, NEW S, Countable(P, S)
  PROVE  \A R \in SUBSET S : Split(P, S, R)
<1> SUFFICES ASSUME NEW R \in SUBSET S PROVE Split(P, S, R)
  OBVIOUS
<1>1. R \subseteq S
  OBVIOUS
<1> QED BY <1>1, TotalPart DEF Split

LEMMA TotalMore ==
  ASSUME NEW P, NEW S, NEW p, Countable(P, S), p \notin S, P[p].bottles \in Nat
  PROVE  Countable(P, S \cup {p}) /\ Total(P, S \cup {p}) = Total(P, S) + P[p].bottles
<1>1. Countable(P, {p}) /\ Total(P, {p}) = P[p].bottles /\ S \cap {p} = {}
  BY TotalOne
<1> QED BY <1>1, TotalUnion

-----------------------------------------------------------------------------
(* The numbers of a shipment's removals. *)

Rank(S, p) == Cardinality({q \in S : q <= p})

LEMMA Ranks ==
  ASSUME NEW S, S \subseteq Nat, IsFiniteSet(S)
  PROVE  /\ Cardinality(S) \in Nat
         /\ \A p \in S : Rank(S, p) \in 1..Cardinality(S)
         /\ \A p, q \in S : Rank(S, p) = Rank(S, q) => p = q
         /\ \A i \in 1..Cardinality(S) : \E p \in S : Rank(S, p) = i
<1> DEFINE Below(p) == {q \in S : q <= p}
<1>1. ASSUME NEW p \in S
      PROVE  /\ IsFiniteSet(Below(p)) /\ Cardinality(Below(p)) \in 1..Cardinality(S)
             /\ Below(p) \subseteq S
  <2>1. Below(p) \subseteq S /\ p \in Below(p)
    OBVIOUS
  <2> HIDE DEF Below
  <2>2. /\ IsFiniteSet(Below(p)) /\ Cardinality(Below(p)) <= Cardinality(S)
        /\ Cardinality(Below(p)) \in Nat /\ Cardinality(S) \in Nat
    BY <2>1, FS_Subset, FS_CardinalityType
  <2>3. Cardinality(Below(p)) # 0
    BY <2>1, <2>2, FS_EmptySet
  <2> QED BY <2>1, <2>2, <2>3
<1>2. ASSUME NEW p \in S, NEW q \in S, p < q
      PROVE  Cardinality(Below(p)) < Cardinality(Below(q))
  <2>0. p \in Nat /\ q \in Nat /\ \A r \in S : r \in Nat /\ (r <= p => r <= q)
    BY <1>2
  <2>a. q \in Below(q) /\ q \notin Below(p)
    BY <1>2, <2>0
  <2>b. \A r \in Below(p) : r \in Below(q)
    BY <2>0
  <2>1. Below(p) \subseteq Below(q) /\ q \in Below(q) /\ q \notin Below(p)
    <3> HIDE DEF Below
    <3> QED BY <2>a, <2>b
  <2> HIDE DEF Below
  <2>2. /\ Cardinality(Below(p)) <= Cardinality(Below(q))
        /\ Cardinality(Below(q)) = Cardinality(Below(p)) => Below(q) = Below(p)
    BY <1>1, <2>1, FS_Subset
  <2>3. Cardinality(Below(p)) \in Nat /\ Cardinality(Below(q)) \in Nat
    BY <1>1
  <2> QED BY <2>1, <2>2, <2>3
<1>3. Cardinality(S) \in Nat
  BY FS_CardinalityType
<1> HIDE DEF Below
<1>4. \A p, q \in S : Cardinality(Below(p)) = Cardinality(Below(q)) => p = q
  <2> SUFFICES ASSUME NEW p \in S, NEW q \in S, Cardinality(Below(p)) = Cardinality(Below(q)),
                      p # q
               PROVE  FALSE
    OBVIOUS
  <2>1. p < q \/ q < p
    OBVIOUS
  <2>2. Cardinality(Below(p)) \in Nat /\ Cardinality(Below(q)) \in Nat
    BY <1>1
  <2> QED BY <1>2, <2>1, <2>2
<1>5. \A i \in 1..Cardinality(S) : \E p \in S : Cardinality(Below(p)) = i
  <2> DEFINE f == [p \in S |-> Cardinality(Below(p))]
             T == 1..Cardinality(S)
  <2>1. f \in Injection(S, T)
    BY <1>1, <1>4 DEF Injection, IsInjective
  <2>2. IsFiniteSet(T) /\ Cardinality(T) = Cardinality(S)
    BY <1>3, FS_Interval
  <2>3. f \in Surjection(S, T)
    <3> HIDE DEF f, T
    <3> QED BY <2>1, <2>2, FS_Injection
  <2> QED BY <2>3 DEF Surjection
<1> QED BY <1>1, <1>3, <1>4, <1>5 DEF Rank, Below

-----------------------------------------------------------------------------
(* What a step must leave alone. *)

\* The picks that are promised of a lot, and those that count on a line.
Going(l) == {p \in Made : /\ picks[p].lot = l
                          /\ shipments[picks[p].shipment].status = "picking"}
Counting(k) == {p \in Made : picks[p].line = k /\ picks[p].removal # 0}

LEMMA PickFields ==
  ASSUME Shape, NEW p \in Made
  PROVE  /\ p \in Picks /\ picks[p] \in Pick /\ picks[p].shipment \in Shipments
         /\ picks[p].line \in OrderLines \cup {NoLine} /\ picks[p].lot \in Lots
         /\ picks[p].bottles \in Nat /\ picks[p].removal \in Nat
<1>1. p \in Picks /\ picks[p] \in Pick
  BY DEF Shape, Made
<1> QED BY <1>1 DEF Pick

LEMMA MadeCountable ==
  ASSUME Shape, NEW S \in SUBSET Made
  PROVE  Countable(picks, S)
<1>1. IsFiniteSet(S)
  BY FS_Subset DEF Shape
<1>2. \A p \in S : picks[p].bottles \in Nat
  BY PickFields
<1> QED BY <1>1, <1>2 DEF Countable

\* Steps that promise nothing and take nothing from a lot.
LEMMA PromisesFewer ==
  ASSUME Shape, NotPromisedTwice,
         \A l \in Lots : /\ Going(l)' \subseteq Going(l)
                         /\ \A p \in Going(l)' : picks'[p].bottles = picks[p].bottles
                         /\ lots'[l].onHand \in Nat /\ lots'[l].onHand >= lots[l].onHand
  PROVE  NotPromisedTwice'
<1> SUFFICES ASSUME NEW l \in Lots PROVE Promised(l)' <= lots'[l].onHand
  BY DEF NotPromisedTwice
<1>1. PICK S : S = Going(l)
  OBVIOUS
<1>2. PICK R : R = Going(l)'
  OBVIOUS
<1>3. Countable(picks, S) /\ R \subseteq S
  <2>1. S \in SUBSET Made
    BY <1>1 DEF Going
  <2> QED BY <1>1, <1>2, <2>1, MadeCountable
<1>a. \A T \in SUBSET S : Split(picks, S, T)
  BY <1>3, TotalSplit
<1>b. Split(picks, S, R)
  BY <1>3, <1>a
<1>4. /\ Countable(picks, R) /\ Total(picks, R) \in Nat
      /\ Total(picks, S) = Total(picks, R) + Total(picks, S \ R)
      /\ Total(picks, S \ R) \in Nat
  BY <1>b DEF Split
<1>5. Total(picks', R) = Total(picks, R)
  BY <1>2, <1>4, TotalSame
<1>6. Promised(l) = Total(picks, S) /\ Promised(l)' = Total(picks', R)
  BY <1>1, <1>2 DEF Promised, Total, Bottles, Going
<1>7. Total(picks, S) <= lots[l].onHand /\ lots[l].onHand \in Nat
  BY <1>6 DEF NotPromisedTwice, Shape, Lot
<1>8. Total(picks', R) <= lots'[l].onHand
  BY <1>4, <1>5, <1>7
<1> QED BY <1>6, <1>8

\* Steps that ship nothing.
LEMMA CountsSame ==
  ASSUME Shape, OrderCountsAgree,
         \A k \in OrderLines : There(k)' =>
           /\ There(k) /\ lines'[k] = lines[k]
           /\ Counting(k)' = Counting(k)
           /\ \A p \in Counting(k) : picks'[p].bottles = picks[p].bottles
  PROVE  OrderCountsAgree'
<1> SUFFICES ASSUME NEW k \in OrderLines, There(k)'
             PROVE  lines'[k] = Total(picks', Counting(k)')
  BY DEF OrderCountsAgree, Bottles, Total, Counting
<1>1. lines[k] = Total(picks, Counting(k))
  BY DEF OrderCountsAgree, Bottles, Total, Counting
<1>2. Countable(picks, Counting(k))
  <2>1. Counting(k) \in SUBSET Made
    BY DEF Counting
  <2> QED BY <2>1, MadeCountable
<1>3. PICK S : S = Counting(k)
  OBVIOUS
<1>4. Total(picks', S) = Total(picks, S)
  BY <1>2, <1>3, TotalSame
<1>5. lines'[k] = lines[k] /\ Counting(k)' = S
  BY <1>3
<1> QED BY <1>1, <1>3, <1>4, <1>5

Keeping ==
  /\ \A h \in Shipments :
       shipments'[h].status = "shipped" <=> shipments[h].status = "shipped"
  /\ DOMAIN removals \subseteq DOMAIN removals'
  /\ \A r \in DOMAIN removals :
       /\ removals'[r].shipment = removals[r].shipment
       /\ removals'[r].lot = removals[r].lot
       /\ removals'[r].bottles = removals[r].bottles
  /\ \A r \in DOMAIN removals' : r \notin DOMAIN removals => removals'[r].shipment = NoPick
  /\ \A p \in Made' :
       \/ p \in Made /\ picks'[p] = picks[p]
       \/ /\ picks'[p].removal = 0 /\ picks'[p].shipment \in Shipments
          /\ shipments[picks'[p].shipment].status # "shipped"
  /\ \A p \in Made : \/ p \in Made' /\ picks'[p] = picks[p]
                     \/ picks[p].removal = 0

\* ShippedIsRemoved, by its parts.
SentAs(p) ==
  IF shipments[picks[p].shipment].status # "shipped" THEN picks[p].removal = 0
  ELSE /\ picks[p].removal \in DOMAIN removals
       /\ removals[picks[p].removal].shipment = picks[p].shipment
       /\ removals[picks[p].removal].lot = picks[p].lot
       /\ removals[picks[p].removal].bottles = picks[p].bottles

PicksFor(r) == {p \in Made : /\ picks[p].shipment = removals[r].shipment
                             /\ picks[p].removal = r}

AllSent == \A p \in Made : SentAs(p)
OneEach ==
  \A r \in DOMAIN removals : removals[r].shipment # NoPick => Cardinality(PicksFor(r)) = 1

LEMMA RemovedMeans == ShippedIsRemoved <=> AllSent /\ OneEach
<1>1. \A r : {p \in PicksOf(removals[r].shipment) : picks[p].removal = r} = PicksFor(r)
  BY DEF PicksOf, PicksFor
<1> QED BY <1>1 DEF ShippedIsRemoved, AllSent, SentAs, OneEach

LEMMA RemovedMeansNext == ShippedIsRemoved' <=> AllSent' /\ OneEach'
<1>1. (\A r : {p \in PicksOf(removals[r].shipment) : picks[p].removal = r} = PicksFor(r))'
  BY DEF PicksOf, PicksFor
<1> QED BY <1>1 DEF ShippedIsRemoved, AllSent, SentAs, OneEach

LEMMA RemovedStill ==
  ASSUME Shape, ShippedIsRemoved, Keeping
  PROVE  ShippedIsRemoved'
<1>1. \A r \in DOMAIN removals : r \in Nat /\ r # 0
  BY DEF Shape
<1>2. AllSent /\ OneEach
  BY RemovedMeans
<1>3. ASSUME NEW p \in Made' PROVE SentAs(p)'
  <2>1. CASE p \in Made /\ picks'[p] = picks[p]
    <3>1. picks[p].shipment \in Shipments
      BY <2>1, PickFields
    <3>2. SentAs(p)
      BY <1>2, <2>1 DEF AllSent
    <3> QED BY <2>1, <3>1, <3>2 DEF SentAs, Keeping
  <2>2. CASE /\ picks'[p].removal = 0 /\ picks'[p].shipment \in Shipments
             /\ shipments[picks'[p].shipment].status # "shipped"
    BY <2>2 DEF Keeping, SentAs
  <2> QED BY <1>3, <2>1, <2>2 DEF Keeping
<1>4. ASSUME NEW r \in DOMAIN removals', removals'[r].shipment # NoPick
      PROVE  Cardinality(PicksFor(r)') = 1
  <2>1. r \in DOMAIN removals /\ removals'[r].shipment = removals[r].shipment
    BY <1>4 DEF Keeping
  <2>2. \A p : p \in Made' /\ picks'[p].shipment = removals[r].shipment /\ picks'[p].removal = r
               <=> p \in Made /\ picks[p].shipment = removals[r].shipment /\ picks[p].removal = r
    BY <1>1, <2>1 DEF Keeping
  <2>3. PicksFor(r)' = PicksFor(r)
    BY <2>1, <2>2 DEF PicksFor
  <2> QED BY <1>2, <1>4, <2>1, <2>3 DEF OneEach
<1>5. AllSent' /\ OneEach'
  BY <1>3, <1>4 DEF AllSent, OneEach
<1> QED BY <1>5, RemovedMeansNext

-----------------------------------------------------------------------------
(* Orders, and what clerks have in hand. *)

\* A task is on what its name says.
LEMMA TaskFields ==
  ASSUME NEW x \in Task
  PROVE  /\ x = [op |-> x.op, on |-> x.on]
         /\ x.op = "pick" => x.on \in Shipments
         /\ x.op = "unpick" => x.on \in Picks
         /\ x.op \in {"add", "confirmed", "cancelled"} => x.on \in Orders
         /\ x.op = "open" => x.on \in Orders \cup {NoOrder}
         /\ x.op = "remove" => x.on \in OrderLines
BY DEF Task

LEMMA TaskOn ==
  ASSUME Shape, NEW c \in Clerks, ~Idle(c)
  PROVE  /\ task[c] \in Task
         /\ task[c].op = "pick" => task[c].on \in Shipments
         /\ task[c].op = "unpick" => task[c].on \in Picks
         /\ task[c].op \in {"add", "confirmed", "cancelled"} => task[c].on \in Orders
         /\ task[c].op = "open" => task[c].on \in Orders \cup {NoOrder}
         /\ task[c].op = "remove" => task[c].on \in OrderLines
<1>1. task[c] \in Task
  BY DEF Shape, Idle
<1> QED BY <1>1, TaskFields

\* Steps that change what orders are, and nothing else.
LEMMA Reordered ==
  ASSUME Kept, UNCHANGED <<lines, shipments, picks, lots, removals, task>>,
         orders' \in [Orders -> Status],
         \A o \in Orders : orders'[o] = "cancelled" => orders'[o] = orders[o]
  PROVE  Kept'
<1>1. Shape' /\ PicksStand' /\ NoneEmpty'
  BY DEF Kept, Shape, PicksStand, NoneEmpty, Made, There, PicksOf
<1>2. TasksStand' /\ TasksApart'
  BY DEF Kept, TasksStand, TasksApart, Stands, Against, Unpicked, Made, OrderShipments
<1>3. CancelledStayBack'
  BY DEF Kept, CancelledStayBack, OrderShipments
<1>4. ShippedIsRemoved' /\ NotPromisedTwice' /\ OrderCountsAgree'
  BY DEF Kept, ShippedIsRemoved, NotPromisedTwice, OrderCountsAgree, Made, PicksOf, Promised,
         Bottles, There
<1> QED BY <1>1, <1>2, <1>3, <1>4 DEF Kept

\* Steps that leave the clerks what they have in hand, or take it from them.
LEMMA TasksLeft ==
  ASSUME Shape, TasksStand, TasksApart,
         \A d \in Clerks : task'[d] = task[d] \/ task'[d] = NoTask,
         \A x \in Task : Stands(x) /\ (\E d \in Clerks : task[d] = x) => Stands(x)'
  PROVE  TasksStand' /\ TasksApart'
<1>1. ASSUME NEW d \in Clerks, task'[d] # NoTask PROVE Stands(task[d])'
  <2>1. PICK x : x = task[d]
    OBVIOUS
  <2>2. task'[d] = x /\ x \in Task /\ Stands(x)
    BY <1>1, <2>1 DEF Shape, TasksStand
  <2>3. Stands(x)'
    BY <2>1, <2>2
  <2> QED BY <2>2, <2>3 DEF Stands
<1>2. TasksStand'
  BY <1>1 DEF TasksStand
<1>3. TasksApart'
  BY DEF TasksApart, Against
<1> QED BY <1>2, <1>3

\* Steps that change what a clerk has in hand, and nothing else.
LEMMA TaskTaken ==
  ASSUME Kept, UNCHANGED <<orders, lines, shipments, picks, lots, removals>>,
         NEW c \in Clerks, NEW x \in Task \cup {NoTask}, task' = [task EXCEPT ![c] = x],
         x # NoTask => /\ Stands(x)
                       /\ \A d \in Clerks : task[d] # NoTask =>
                            ~Against(x, task[d]) /\ ~Against(task[d], x)
  PROVE  Kept'
<1>1. task'[c] = x /\ \A d \in Clerks : d # c => task'[d] = task[d]
  BY DEF Kept, Shape
<1>2. Shape' /\ PicksStand' /\ NoneEmpty' /\ CancelledStayBack'
  BY DEF Kept, Shape, PicksStand, NoneEmpty, CancelledStayBack, Made, OrderShipments, There,
         PicksOf
<1>3. TasksStand'
  <2> SUFFICES ASSUME NEW d \in Clerks, task'[d] # NoTask PROVE Stands(task[d])'
    BY DEF TasksStand
  <2>1. PICK y : y = task'[d]
    OBVIOUS
  <2>2. Stands(y)
    BY <1>1, <2>1 DEF Kept, TasksStand
  <2>3. Stands(y)'
    BY <2>2 DEF Stands, Made, OrderShipments, Unpicked
  <2> QED BY <2>1, <2>3 DEF Stands
<1>4. TasksApart'
  <2> SUFFICES ASSUME NEW d \in Clerks, NEW e \in Clerks, task'[d] # NoTask, task'[e] # NoTask
               PROVE  ~Against(task'[d], task'[e])
    BY DEF TasksApart, Against
  <2>1. CASE d = c /\ e = c
    BY <1>1, <2>1 DEF Against
  <2>2. CASE d # c \/ e # c
    BY <1>1, <2>2 DEF Kept, TasksApart
  <2> QED BY <2>1, <2>2
<1>5. ShippedIsRemoved' /\ NotPromisedTwice' /\ OrderCountsAgree'
  BY DEF Kept, ShippedIsRemoved, NotPromisedTwice, OrderCountsAgree, Made, PicksOf, Promised,
         Bottles, There
<1> QED BY <1>2, <1>3, <1>4, <1>5 DEF Kept

LEMMA ByCreateSalesOrder ==
  ASSUME Kept, NEW o \in Orders, CreateSalesOrder(o)
  PROVE  Kept'
<1>1. orders' \in [Orders -> Status]
  BY DEF CreateSalesOrder, Kept, Shape, Status
<1>2. \A x \in Orders : orders'[x] = "cancelled" => orders'[x] = orders[x]
  BY DEF CreateSalesOrder, Kept, Shape
<1> QED BY <1>1, <1>2, Reordered DEF CreateSalesOrder

LEMMA BySetSalesOrderStatus ==
  ASSUME Kept, NEW o \in Orders, NEW s \in {"draft", "closed"}, SetSalesOrderStatus(o, s)
  PROVE  Kept'
<1>1. orders' \in [Orders -> Status]
  BY DEF SetSalesOrderStatus, Kept, Shape, Status
<1>2. \A x \in Orders : orders'[x] = "cancelled" => orders'[x] = orders[x]
  BY DEF SetSalesOrderStatus, Kept, Shape
<1> QED BY <1>1, <1>2, Reordered DEF SetSalesOrderStatus

\* A pick that counts on a line makes its count positive.
LEMMA CountedIsPositive ==
  ASSUME Shape, PicksStand, NEW k, NEW p \in Counting(k)
  PROVE  Total(picks, Counting(k)) > 0
<1>1. Counting(k) \in SUBSET Made
  BY DEF Counting
<1>2. Countable(picks, Counting(k))
  BY <1>1, MadeCountable
<1>3. PICK S : S = Counting(k)
  OBVIOUS
<1>4. \A R \in SUBSET S : Split(picks, S, R)
  BY <1>2, <1>3, TotalSplit
<1>5. Split(picks, S, {p})
  BY <1>3, <1>4
<1>6. picks[p].bottles \in Nat /\ picks[p].bottles > 0
  BY <1>1, PickFields DEF PicksStand
<1>7. Total(picks, {p}) = picks[p].bottles
  BY <1>6, TotalOne
<1> QED BY <1>3, <1>5, <1>6, <1>7 DEF Split

\* What has shipped has a removal.
LEMMA ShippedHasRemoval ==
  ASSUME Shape, ShippedIsRemoved, NEW p \in Made
  PROVE  /\ shipments[picks[p].shipment].status = "shipped" => picks[p].removal # 0
         /\ shipments[picks[p].shipment].status # "shipped" => picks[p].removal = 0
<1>1. \A r \in DOMAIN removals : r # 0
  BY DEF Shape
<1>2. SentAs(p)
  BY RemovedMeans DEF AllSent
<1> QED BY <1>1, <1>2 DEF SentAs

\* An order of which the lines say that nothing went has nothing on a truck.
LEMMA NotStarted ==
  ASSUME Kept, NEW o \in Orders, NothingStarted(o)
  PROVE  OrderShipments(o, {"shipped"}) = {}
<1> SUFFICES ASSUME NEW h \in Shipments, shipments[h].order = o,
                    shipments[h].status = "shipped"
             PROVE  FALSE
  BY DEF OrderShipments
<1>1. PICK p \in Made : picks[p].shipment = h
  BY DEF Kept, NoneEmpty, PicksOf
<1>2. o # NoOrder
  BY ShippingAssumption
<1>3. PICK k : k = picks[p].line
  OBVIOUS
<1>4. k \in OrderLines /\ There(k) /\ OrderOf[k] = o
  BY <1>1, <1>2, <1>3, PickFields DEF Kept, PicksStand
<1>5. p \in Counting(k)
  BY <1>1, <1>3, ShippedHasRemoval DEF Kept, Counting
<1>6. Total(picks, Counting(k)) > 0
  BY <1>5, CountedIsPositive DEF Kept
<1>7. lines[k] = Total(picks, Counting(k))
  BY <1>4 DEF Kept, OrderCountsAgree, Bottles, Total, Counting
<1>8. lines[k] = 0
  BY <1>4 DEF NothingStarted, LinesOf
<1> QED BY <1>6, <1>7, <1>8

LEMMA ByAskToCancel ==
  ASSUME Kept, Disciplined, NEW c \in Clerks, NEW o \in Orders, AskToCancel(c, o)
  PROVE  Kept'
<1>1. PICK x : x = [op |-> "cancelled", on |-> o]
  OBVIOUS
<1>2. x \in Task /\ x.op = "cancelled" /\ x.on = o
  BY <1>1 DEF Task
<1>3. NoneOpen(o)
  BY DEF AskToCancel, Disciplined
<1>4. OrderShipments(o, {"picking", "shipped"}) = {}
  <2>1. OrderShipments(o, {"shipped"}) = {} /\ OrderShipments(o, {"picking"}) = {}
    BY <1>3, NotStarted DEF AskToCancel, MayCancel, NoneOpen
  <2> QED BY <2>1 DEF OrderShipments
<1>5. Stands(x)
  BY <1>2, <1>4 DEF Stands
<1>6. \A d \in Clerks : task[d] # NoTask => ~Against(x, task[d]) /\ ~Against(task[d], x)
  <2> SUFFICES ASSUME NEW d \in Clerks, task[d] # NoTask, task[d].op = "open", task[d].on = o
               PROVE  FALSE
    BY <1>2 DEF Against
  <2>1. task[d] = [op |-> "open", on |-> o]
    BY TaskOn, TaskFields DEF Kept, Idle
  <2> QED BY <1>3, <2>1 DEF NoneOpen, InHand
<1>7. task' = [task EXCEPT ![c] = x]
  BY <1>1 DEF AskToCancel, Begin
<1> QED BY <1>2, <1>5, <1>6, <1>7, TaskTaken DEF AskToCancel

LEMMA ByAskToShip ==
  ASSUME Kept, Disciplined, NEW c \in Clerks, NEW o \in Orders \cup {NoOrder}, AskToShip(c, o)
  PROVE  Kept'
<1>1. PICK x : x = [op |-> "open", on |-> o]
  OBVIOUS
<1>2. x \in Task /\ x.op = "open" /\ x.on = o
  BY <1>1 DEF Task
<1>3. o # NoOrder => orders[o] # "cancelled" /\ ~InHand("cancelled", o)
  BY DEF AskToShip, Disciplined
<1>4. Stands(x)
  BY <1>2, <1>3, ShippingAssumption DEF Stands
<1>5. \A d \in Clerks : task[d] # NoTask => ~Against(x, task[d]) /\ ~Against(task[d], x)
  <2> SUFFICES ASSUME NEW d \in Clerks, task[d] # NoTask, task[d].op = "cancelled",
                      task[d].on = o
               PROVE  FALSE
    BY <1>2 DEF Against
  <2>1. task[d] = [op |-> "cancelled", on |-> o] /\ o \in Orders
    BY TaskOn, TaskFields DEF Kept, Idle
  <2> QED BY <1>3, <2>1, ShippingAssumption DEF InHand
<1>6. task' = [task EXCEPT ![c] = x]
  BY <1>1 DEF AskToShip, Begin
<1> QED BY <1>2, <1>4, <1>5, <1>6, TaskTaken DEF AskToShip

LEMMA ByAskToAddLine ==
  ASSUME Kept, NEW c \in Clerks, NEW o \in Orders, AskToAddLine(c, o)
  PROVE  Kept'
<1>1. PICK x : x = [op |-> "add", on |-> o]
  OBVIOUS
<1>2. x \in Task /\ x.op = "add"
  BY <1>1 DEF Task
<1>3. Stands(x) /\ \A y : ~Against(x, y) /\ ~Against(y, x)
  BY <1>2 DEF Stands, Against
<1>4. task' = [task EXCEPT ![c] = x]
  BY <1>1 DEF AskToAddLine, Begin
<1> QED BY <1>2, <1>3, <1>4, TaskTaken DEF AskToAddLine

LEMMA ByAskToConfirm ==
  ASSUME Kept, NEW c \in Clerks, NEW o \in Orders, AskToConfirm(c, o)
  PROVE  Kept'
<1>1. PICK x : x = [op |-> "confirmed", on |-> o]
  OBVIOUS
<1>2. x \in Task /\ x.op = "confirmed"
  BY <1>1 DEF Task
<1>3. Stands(x) /\ \A y : ~Against(x, y) /\ ~Against(y, x)
  BY <1>2 DEF Stands, Against
<1>4. task' = [task EXCEPT ![c] = x]
  BY <1>1 DEF AskToConfirm, Begin
<1> QED BY <1>2, <1>3, <1>4, TaskTaken DEF AskToConfirm

LEMMA ByAskToRemoveLine ==
  ASSUME Kept, Disciplined, NEW c \in Clerks, NEW k \in OrderLines, AskToRemoveLine(c, k)
  PROVE  Kept'
<1>1. PICK x : x = [op |-> "remove", on |-> k]
  OBVIOUS
<1>2. x \in Task /\ x.op = "remove" /\ x.on = k
  BY <1>1 DEF Task
<1>3. Unpicked(k)
  BY DEF AskToRemoveLine, Disciplined
<1>4. Stands(x) /\ \A y : ~Against(x, y) /\ ~Against(y, x)
  BY <1>2, <1>3 DEF Stands, Against
<1>5. task' = [task EXCEPT ![c] = x]
  BY <1>1 DEF AskToRemoveLine, Begin
<1> QED BY <1>2, <1>4, <1>5, TaskTaken DEF AskToRemoveLine

LEMMA ByAskToPick ==
  ASSUME Kept, NEW c \in Clerks, NEW h \in Shipments, AskToPick(c, h)
  PROVE  Kept'
<1>1. PICK x : x = [op |-> "pick", on |-> h]
  OBVIOUS
<1>2. x \in Task /\ x.op = "pick" /\ x.on = h
  BY <1>1 DEF Task
<1>3. Stands(x) /\ \A y : ~Against(x, y) /\ ~Against(y, x)
  BY <1>2 DEF AskToPick, Stands, Against, Open
<1>4. task' = [task EXCEPT ![c] = x]
  BY <1>1 DEF AskToPick, Begin
<1> QED BY <1>2, <1>3, <1>4, TaskTaken DEF AskToPick

LEMMA ByAskToUnpick ==
  ASSUME Kept, NEW c \in Clerks, NEW p \in Picks, AskToUnpick(c, p)
  PROVE  Kept'
<1>1. PICK x : x = [op |-> "unpick", on |-> p]
  OBVIOUS
<1>2. x \in Task /\ x.op = "unpick" /\ x.on = p
  BY <1>1 DEF Task
<1>3. Stands(x) /\ \A y : ~Against(x, y) /\ ~Against(y, x)
  BY <1>2 DEF AskToUnpick, Stands, Against, Open
<1>4. task' = [task EXCEPT ![c] = x]
  BY <1>1 DEF AskToUnpick, Begin
<1> QED BY <1>2, <1>3, <1>4, TaskTaken DEF AskToUnpick

LEMMA ByRefuse ==
  ASSUME Kept, NEW c \in Clerks, Refuse(c)
  PROVE  Kept'
<1>1. task' = [task EXCEPT ![c] = NoTask]
  BY DEF Refuse, End
<1> QED BY <1>1, TaskTaken DEF Refuse

LEMMA ByConfirmOrCancel ==
  ASSUME Kept, NEW c \in Clerks, ConfirmOrCancel(c)
  PROVE  Kept'
<1>1. PICK o, s : o = task[c].on /\ s = task[c].op
  OBVIOUS
<1>2. /\ o \in Orders /\ s \in {"confirmed", "cancelled"} /\ task[c] # NoTask
      /\ s = "cancelled" => OrderShipments(o, {"picking", "shipped"}) = {}
  BY <1>1, TaskOn DEF ConfirmOrCancel, Kept, TasksStand, Stands, Idle
<1>3. orders' = [orders EXCEPT ![o] = s]
  BY <1>1 DEF ConfirmOrCancel
<1>4. /\ orders' \in [Orders -> Status] /\ orders'[o] = s
      /\ \A x \in Orders : x # o => orders'[x] = orders[x]
  BY <1>2, <1>3 DEF Kept, Shape, Status
<1>5. /\ task' \in [Clerks -> Task \cup {NoTask}]
      /\ \A d \in Clerks : task'[d] = task[d] \/ task'[d] = NoTask
  BY DEF ConfirmOrCancel, End, Kept, Shape
<1>6. UNCHANGED <<lines, shipments, picks, lots, removals>>
  BY DEF ConfirmOrCancel
<1>7. Shape' /\ PicksStand' /\ NoneEmpty'
  BY <1>4, <1>5, <1>6 DEF Kept, Shape, PicksStand, NoneEmpty, Made, There, PicksOf
<1>8. TasksStand' /\ TasksApart'
  <2> SUFFICES ASSUME NEW x \in Task, Stands(x), NEW d \in Clerks, task[d] = x
               PROVE  Stands(x)'
    BY <1>5, TasksLeft DEF Kept
  <2>1. x.op = "open" /\ x.on \in Orders => orders'[x.on] # "cancelled"
    <3>1. ~Against(task[c], x)
      <4>1. x # NoTask
        BY ShippingAssumption
      <4> QED BY <1>2, <4>1 DEF Kept, TasksApart
    <3>2. x.op = "open" /\ s = "cancelled" => x.on # o
      BY <1>1, <3>1 DEF Against
    <3>3. x.on \in Orders /\ x.on # o => orders'[x.on] = orders[x.on]
      BY <1>4
    <3>4. CASE s = "cancelled"
      BY <3>2, <3>3, <3>4 DEF Stands
    <3>5. CASE s # "cancelled"
      BY <1>4, <3>3, <3>5 DEF Stands
    <3> QED BY <3>4, <3>5
  <2> QED BY <1>6, <2>1 DEF Stands, Made, OrderShipments, Unpicked
<1>9. CancelledStayBack'
  BY <1>2, <1>4, <1>6 DEF Kept, CancelledStayBack, OrderShipments
<1>10. ShippedIsRemoved' /\ NotPromisedTwice' /\ OrderCountsAgree'
  BY <1>6 DEF Kept, ShippedIsRemoved, NotPromisedTwice, OrderCountsAgree, Made, PicksOf,
              Promised, Bottles, There
<1> QED BY <1>7, <1>8, <1>9, <1>10 DEF Kept

-----------------------------------------------------------------------------
(* The lines of orders. *)

LEMMA ByAddSalesOrderLine ==
  ASSUME Kept, NEW c \in Clerks, NEW k \in OrderLines, AddSalesOrderLine(c, k)
  PROVE  Kept'
<1>1. /\ ~There(k) /\ lines'[k] = 0 /\ lines' \in [OrderLines -> Nat \cup {NotThere}]
      /\ \A j \in OrderLines : j # k => lines'[j] = lines[j]
  BY DEF AddSalesOrderLine, Kept, Shape
<1>2. UNCHANGED <<orders, shipments, picks, lots, removals>>
  BY DEF AddSalesOrderLine
<1>3. /\ task' \in [Clerks -> Task \cup {NoTask}]
      /\ \A d \in Clerks : task'[d] = task[d] \/ task'[d] = NoTask
  BY DEF AddSalesOrderLine, End, Kept, Shape
<1>4. Shape' /\ NoneEmpty' /\ CancelledStayBack'
  BY <1>1, <1>2, <1>3 DEF Kept, Shape, NoneEmpty, CancelledStayBack, Made, OrderShipments,
                          PicksOf
<1>5. TasksStand' /\ TasksApart'
  <2>1. \A x \in Task : Stands(x) => Stands(x)'
    BY <1>2 DEF Stands, Made, OrderShipments, Unpicked
  <2> QED BY <1>3, <2>1, TasksLeft DEF Kept
<1>6. \A j \in OrderLines : There(j) => There(j)' /\ lines'[j] = lines[j]
  BY <1>1 DEF There, Kept, Shape
<1>7. PicksStand'
  <2> SUFFICES ASSUME NEW p \in Made
               PROVE  picks[p].line # NoLine => lines'[picks[p].line] >= 0
    BY <1>2 DEF Kept, PicksStand, Made, There
  <2> QED BY <1>6, PickFields DEF Kept, PicksStand, There
<1>8. ShippedIsRemoved' /\ NotPromisedTwice'
  BY <1>2 DEF Kept, ShippedIsRemoved, NotPromisedTwice, Made, PicksOf, Promised, Bottles
<1>9. OrderCountsAgree'
  <2> SUFFICES ASSUME NEW j \in OrderLines, There(j)'
               PROVE  lines'[j] = Total(picks, Counting(j))
    BY <1>2 DEF OrderCountsAgree, Bottles, Total, Counting, Made
  <2>1. CASE j # k
    <3>1. There(j) /\ lines'[j] = lines[j]
      BY <1>1, <2>1 DEF There
    <3> QED BY <3>1 DEF Kept, OrderCountsAgree, Bottles, Total, Counting
  <2>2. CASE j = k
    <3>1. Counting(j) = {}
      BY <1>1, <2>2, ShippingAssumption DEF Kept, PicksStand, Counting
    <3>2. Total(picks, Counting(j)) = 0
      BY <3>1, TotalNone
    <3> QED BY <1>1, <2>2, <3>2
  <2> QED BY <2>1, <2>2
<1> QED BY <1>4, <1>5, <1>7, <1>8, <1>9 DEF Kept

LEMMA ByRemoveSalesOrderLine ==
  ASSUME Kept, NEW c \in Clerks, RemoveSalesOrderLine(c)
  PROVE  Kept'
<1>1. PICK k : k = task[c].on
  OBVIOUS
<1>2. k \in OrderLines /\ \A p \in Made : picks[p].line # k
  BY <1>1, TaskOn DEF RemoveSalesOrderLine, Kept, TasksStand, Stands, Unpicked, Idle
<1>3. /\ lines' = [lines EXCEPT ![k] = NotThere]
      /\ picks' = [p \in Picks |-> IF p \in Made /\ picks[p].line = k
                                   THEN [picks[p] EXCEPT !.line = NoLine] ELSE picks[p]]
  BY <1>1 DEF RemoveSalesOrderLine
<1>4. /\ lines' \in [OrderLines -> Nat \cup {NotThere}] /\ lines'[k] = NotThere
      /\ \A j \in OrderLines : j # k => lines'[j] = lines[j]
  BY <1>2, <1>3 DEF Kept, Shape
<1>5. picks' = picks
  <2>1. picks' = [p \in Picks |-> picks[p]]
    BY <1>2, <1>3
  <2> QED BY <2>1 DEF Kept, Shape
<1>6. UNCHANGED <<orders, shipments, lots, removals>>
  BY DEF RemoveSalesOrderLine
<1>7. /\ task' \in [Clerks -> Task \cup {NoTask}]
      /\ \A d \in Clerks : task'[d] = task[d] \/ task'[d] = NoTask
  BY DEF RemoveSalesOrderLine, End, Kept, Shape
<1>8. Shape' /\ NoneEmpty' /\ CancelledStayBack'
  BY <1>4, <1>5, <1>6, <1>7 DEF Kept, Shape, NoneEmpty, CancelledStayBack, Made,
                                OrderShipments, PicksOf
<1>9. TasksStand' /\ TasksApart'
  <2>1. \A x \in Task : Stands(x) => Stands(x)'
    BY <1>5, <1>6 DEF Stands, Made, OrderShipments, Unpicked
  <2> QED BY <1>7, <2>1, TasksLeft DEF Kept
<1>10. PicksStand'
  <2> SUFFICES ASSUME NEW p \in Made
               PROVE  picks[p].line # NoLine => lines'[picks[p].line] >= 0
    BY <1>5, <1>6 DEF Kept, PicksStand, Made, There
  <2>1. picks[p].line # k
    BY <1>2
  <2> QED BY <1>4, <2>1, PickFields DEF Kept, PicksStand, There
<1>11. ShippedIsRemoved' /\ NotPromisedTwice'
  BY <1>5, <1>6 DEF Kept, ShippedIsRemoved, NotPromisedTwice, Made, PicksOf, Promised, Bottles
<1>12. \A j \in OrderLines : There(j)' => j # k /\ There(j) /\ lines'[j] = lines[j]
  BY <1>4 DEF There, NotThere
<1>13. OrderCountsAgree'
  <2>1. \A j \in OrderLines : Counting(j)' = Counting(j)
    BY <1>5, <1>6 DEF Counting, Made
  <2> QED BY <1>5, <1>12, <2>1, CountsSame DEF Kept
<1> QED BY <1>8, <1>9, <1>10, <1>11, <1>13 DEF Kept

-----------------------------------------------------------------------------
(* Shipments that do not go. *)

LEMMA ByCreateShipment ==
  ASSUME Kept, NEW c \in Clerks, NEW h \in Shipments, CreateShipment(c, h)
  PROVE  Kept'
<1>1. PICK o : o = task[c].on
  OBVIOUS
<1>2. /\ o \in Orders \cup {NoOrder} /\ task[c] # NoTask /\ task[c].op = "open"
      /\ o \in Orders => orders[o] # "cancelled"
  BY <1>1, TaskOn DEF CreateShipment, Kept, TasksStand, Stands, Idle
<1>3. /\ shipments[h].status = "none"
      /\ shipments' \in [Shipments -> Shipment]
      /\ shipments'[h].status = "picking" /\ shipments'[h].order = o
      /\ \A g \in Shipments : g # h => shipments'[g] = shipments[g]
  <2>1. [status |-> "picking", order |-> o] \in Shipment
    BY <1>2 DEF Shipment
  <2> QED BY <1>1, <2>1 DEF CreateShipment, Kept, Shape
<1>4. UNCHANGED <<orders, lines, picks, lots, removals>>
  BY DEF CreateShipment
<1>5. /\ task' \in [Clerks -> Task \cup {NoTask}]
      /\ \A d \in Clerks : task'[d] = task[d] \/ task'[d] = NoTask
  BY DEF CreateShipment, End, Kept, Shape
<1>6. \A p \in Made : picks[p].shipment # h /\ picks[p].shipment \in Shipments
  BY <1>3, PickFields DEF Kept, PicksStand
<1>7. Shape' /\ PicksStand' /\ NoneEmpty'
  BY <1>3, <1>4, <1>5, <1>6 DEF Kept, Shape, PicksStand, NoneEmpty, Made, There, PicksOf
<1>8. \A x \in Orders : x # o =>
        OrderShipments(x, {"picking", "shipped"})' = OrderShipments(x, {"picking", "shipped"})
  <2> SUFFICES ASSUME NEW x \in Orders, x # o, NEW g \in Shipments
               PROVE  shipments'[g].order = x /\ shipments'[g].status \in {"picking", "shipped"}
                      <=> shipments[g].order = x /\ shipments[g].status \in {"picking", "shipped"}
    BY DEF OrderShipments
  <2> QED BY <1>3
<1>9. TasksStand' /\ TasksApart'
  <2> SUFFICES ASSUME NEW x \in Task, Stands(x), NEW d \in Clerks, task[d] = x
               PROVE  Stands(x)'
    BY <1>5, TasksLeft DEF Kept
  <2>1. x.op = "pick" => shipments'[x.on].status \in Open
    BY <1>3, TaskFields DEF Stands, Open
  <2>2. x.op = "unpick" /\ x.on \in Made => shipments'[picks[x.on].shipment].status \in Open
    BY <1>3, <1>6 DEF Stands
  <2>3. x.op = "cancelled" => OrderShipments(x.on, {"picking", "shipped"})' = {}
    <3> SUFFICES ASSUME x.op = "cancelled"
                 PROVE  OrderShipments(x.on, {"picking", "shipped"})' = {}
      OBVIOUS
    <3>1. x.on # o
      BY <1>1, <1>2, ShippingAssumption DEF Kept, TasksApart, Against
    <3>2. x.on \in Orders
      BY TaskFields
    <3> QED BY <1>8, <3>1, <3>2 DEF Stands
  <2> QED BY <1>4, <2>1, <2>2, <2>3 DEF Stands, Made, Unpicked
<1>10. CancelledStayBack'
  <2>1. \A x \in Orders : orders[x] = "cancelled" => x # o
    BY <1>2
  <2> QED BY <1>4, <1>8, <2>1 DEF Kept, CancelledStayBack
<1>11. ShippedIsRemoved'
  <2>1. Keeping
    BY <1>3, <1>4 DEF Keeping, Made
  <2> QED BY <2>1, RemovedStill DEF Kept
<1>12. NotPromisedTwice'
  <2>1. \A l \in Lots : Going(l)' = Going(l)
    BY <1>3, <1>4, <1>6 DEF Going, Made
  <2>2. \A l \in Lots : lots[l].onHand \in Nat
    BY DEF Kept, Shape, Lot
  <2> QED BY <1>4, <2>1, <2>2, PromisesFewer DEF Kept
<1>13. OrderCountsAgree'
  BY <1>4 DEF Kept, OrderCountsAgree, Made, Bottles, There
<1> QED BY <1>7, <1>9, <1>10, <1>11, <1>12, <1>13 DEF Kept

LEMMA ByCancelShipment ==
  ASSUME Kept, NEW h \in Shipments, CancelShipment(h)
  PROVE  Kept'
<1>1. /\ shipments[h].status = "picking"
      /\ shipments' \in [Shipments -> Shipment]
      /\ shipments'[h].status = "cancelled" /\ shipments'[h].order = shipments[h].order
      /\ \A g \in Shipments : g # h => shipments'[g] = shipments[g]
  <2>1. shipments[h] \in Shipment /\ shipments' = [shipments EXCEPT ![h] =
          [shipments[h] EXCEPT !.status = "cancelled"]]
    BY DEF CancelShipment, Kept, Shape
  <2>2. /\ [shipments[h] EXCEPT !.status = "cancelled"] \in Shipment
        /\ [shipments[h] EXCEPT !.status = "cancelled"].status = "cancelled"
        /\ [shipments[h] EXCEPT !.status = "cancelled"].order = shipments[h].order
    BY <2>1 DEF Shipment
  <2> QED BY <2>1, <2>2 DEF CancelShipment, Kept, Shape
<1>2. UNCHANGED <<orders, lines, picks, lots, removals, task>>
  BY DEF CancelShipment
<1>3. \A p \in Made : picks[p].shipment \in Shipments
  BY PickFields DEF Kept
<1>4. Shape' /\ PicksStand' /\ NoneEmpty'
  BY <1>1, <1>2, <1>3 DEF Kept, Shape, PicksStand, NoneEmpty, Made, There, PicksOf
<1>5. \A x \in Orders :
        OrderShipments(x, {"picking", "shipped"})' \subseteq OrderShipments(x, {"picking", "shipped"})
  <2> SUFFICES ASSUME NEW x \in Orders, NEW g \in Shipments
               PROVE  shipments'[g].order = x /\ shipments'[g].status \in {"picking", "shipped"}
                      => shipments[g].order = x /\ shipments[g].status \in {"picking", "shipped"}
    BY DEF OrderShipments
  <2> QED BY <1>1
<1>6. TasksStand' /\ TasksApart'
  <2> SUFFICES ASSUME NEW x \in Task, Stands(x) PROVE Stands(x)'
    BY <1>2, TasksLeft DEF Kept
  <2>1. x.op = "pick" => shipments'[x.on].status \in Open
    BY <1>1, TaskFields DEF Stands, Open
  <2>2. x.op = "unpick" /\ x.on \in Made => shipments'[picks[x.on].shipment].status \in Open
    BY <1>1, <1>3 DEF Stands, Open
  <2>3. x.op = "cancelled" => OrderShipments(x.on, {"picking", "shipped"})' = {}
    BY <1>5, TaskFields DEF Stands
  <2>4. x.op = "remove" => Unpicked(x.on)'
    BY <1>2 DEF Stands, Unpicked, Made
  <2> QED BY <1>2, <2>1, <2>2, <2>3, <2>4 DEF Stands, Made
<1>7. CancelledStayBack'
  <2> SUFFICES ASSUME NEW x \in Orders, orders[x] = "cancelled"
               PROVE  OrderShipments(x, {"picking", "shipped"})' = {}
    BY <1>2 DEF CancelledStayBack
  <2>1. OrderShipments(x, {"picking", "shipped"}) = {}
    BY DEF Kept, CancelledStayBack
  <2> QED BY <1>5, <2>1
<1>8. ShippedIsRemoved'
  <2>1. Keeping
    BY <1>1, <1>2 DEF Keeping, Made
  <2> QED BY <2>1, RemovedStill DEF Kept
<1>9. NotPromisedTwice'
  <2>1. \A l \in Lots : Going(l)' \subseteq Going(l)
    <3> SUFFICES ASSUME NEW l \in Lots, NEW p \in Made, picks[p].lot = l,
                        shipments'[picks[p].shipment].status = "picking"
                 PROVE  shipments[picks[p].shipment].status = "picking"
      BY <1>2 DEF Going, Made
    <3> QED BY <1>1, <1>3
  <2>2. \A l \in Lots : lots[l].onHand \in Nat
    BY DEF Kept, Shape, Lot
  <2> QED BY <1>2, <2>1, <2>2, PromisesFewer DEF Kept
<1>10. OrderCountsAgree'
  BY <1>2 DEF Kept, OrderCountsAgree, Made, Bottles, There
<1> QED BY <1>4, <1>6, <1>7, <1>8, <1>9, <1>10 DEF Kept

-----------------------------------------------------------------------------
(* The lots. *)

\* Steps that change what is on hand, and what says so.
LEMMA LotsMoved ==
  ASSUME Kept, UNCHANGED <<orders, lines, shipments, picks, task>>,
         lots' \in [Lots -> Lot], removals' \in Seq(Removal), Keeping, NotPromisedTwice'
  PROVE  Kept'
<1>1. Shape' /\ PicksStand' /\ NoneEmpty' /\ CancelledStayBack'
  BY DEF Kept, Shape, PicksStand, NoneEmpty, CancelledStayBack, Made, OrderShipments, There,
         PicksOf
<1>2. ShippedIsRemoved'
  BY RemovedStill DEF Kept
<1>3. OrderCountsAgree'
  BY DEF Kept, OrderCountsAgree, Made, Bottles, There
<1>4. TasksStand' /\ TasksApart'
  BY DEF Kept, TasksStand, TasksApart, Stands, Against, Unpicked, Made, OrderShipments
<1> QED BY <1>1, <1>2, <1>3, <1>4 DEF Kept

LEMMA BySetHold ==
  ASSUME Kept, NEW l \in Lots, SetHold(l)
  PROVE  Kept'
<1>1. /\ lots' \in [Lots -> Lot]
      /\ \A m \in Lots : lots'[m].onHand = lots[m].onHand /\ lots[m].onHand \in Nat
  <2>1. /\ lots[l] \in Lot
        /\ lots' = [lots EXCEPT ![l] = [lots[l] EXCEPT !.held = ~lots[l].held]]
    BY DEF SetHold, Kept, Shape
  <2>2. /\ [lots[l] EXCEPT !.held = ~lots[l].held] \in Lot
        /\ [lots[l] EXCEPT !.held = ~lots[l].held].onHand = lots[l].onHand
    BY <2>1 DEF Lot
  <2>3. \A m \in Lots : lots[m].onHand \in Nat
    BY DEF Kept, Shape, Lot
  <2> QED BY <2>1, <2>2, <2>3 DEF Kept, Shape
<1>2. UNCHANGED <<orders, lines, shipments, picks, removals, task>>
  BY DEF SetHold
<1>3. Keeping
  BY <1>2 DEF Keeping, Made
<1>4. NotPromisedTwice'
  <2>1. \A m \in Lots : Going(m)' = Going(m)
    BY <1>2 DEF Going, Made
  <2> QED BY <1>1, <1>2, <2>1, PromisesFewer DEF Kept
<1>5. removals' \in Seq(Removal)
  BY <1>2 DEF Kept, Shape
<1> QED BY <1>1, <1>2, <1>3, <1>4, <1>5, LotsMoved

LEMMA ByVoidRemoval ==
  ASSUME Kept, NEW r \in DOMAIN removals, VoidRemoval(r)
  PROVE  Kept'
<1>1. removals[r] \in Removal /\ removals \in Seq(Removal)
  BY DEF Kept, Shape
<1>2. /\ removals' = [removals EXCEPT ![r] = [removals[r] EXCEPT !.voided = TRUE]]
      /\ lots' = [lots EXCEPT ![removals[r].lot] =
                    [lots[removals[r].lot] EXCEPT
                       !.onHand = lots[removals[r].lot].onHand + removals[r].bottles]]
  BY <1>1 DEF VoidRemoval, Kept, Shape, Removal
<1>3. PICK x : x = [removals[r] EXCEPT !.voided = TRUE]
  OBVIOUS
<1>4. /\ x \in Removal /\ x.shipment = removals[r].shipment
      /\ x.lot = removals[r].lot /\ x.bottles = removals[r].bottles
  BY <1>1, <1>3 DEF Removal
<1>5. /\ removals' \in Seq(Removal) /\ DOMAIN removals' = DOMAIN removals
      /\ removals'[r] = x /\ \A s \in DOMAIN removals : s # r => removals'[s] = removals[s]
  BY <1>1, <1>2, <1>3, <1>4
<1>6. PICK l : l = removals[r].lot
  OBVIOUS
<1>7. l \in Lots /\ lots[l] \in Lot /\ removals[r].bottles \in Nat
  BY <1>1, <1>6 DEF Kept, Shape, Removal
<1>8. PICK y : y = [lots[l] EXCEPT !.onHand = lots[l].onHand + removals[r].bottles]
  OBVIOUS
<1>9. y \in Lot /\ y.onHand >= lots[l].onHand
  BY <1>7, <1>8 DEF Lot
<1>10. lots' = [lots EXCEPT ![l] = y] /\ lots \in [Lots -> Lot]
  BY <1>2, <1>6, <1>8 DEF Kept, Shape
<1>11. /\ lots' \in [Lots -> Lot]
       /\ \A m \in Lots : lots'[m].onHand \in Nat /\ lots'[m].onHand >= lots[m].onHand
  <2>1. \A m \in Lots : lots[m].onHand \in Nat
    BY <1>10 DEF Lot
  <2>2. lots' \in [Lots -> Lot]
    BY <1>7, <1>9, <1>10
  <2>3. \A m \in Lots : lots'[m].onHand \in Nat
    BY <2>2 DEF Lot
  <2> QED BY <1>7, <1>9, <1>10, <2>1, <2>2, <2>3
<1>12. UNCHANGED <<orders, lines, shipments, picks, task>>
  BY DEF VoidRemoval
<1>13. Keeping
  BY <1>4, <1>5, <1>12 DEF Keeping, Made
<1>14. NotPromisedTwice'
  <2>1. \A m \in Lots : Going(m)' = Going(m)
    BY <1>12 DEF Going, Made
  <2> QED BY <1>11, <1>12, <2>1, PromisesFewer DEF Kept
<1> QED BY <1>5, <1>11, <1>12, <1>13, <1>14, LotsMoved

LEMMA ByRecordRemoval ==
  ASSUME Kept, Disciplined, NEW l \in Lots, NEW n \in Quantities, RecordRemoval(l, n)
  PROVE  Kept'
<1>1. n \in Nat
  BY ShippingAssumption
<1>2. PICK x : x = [shipment |-> NoPick, lot |-> l, bottles |-> n, voided |-> FALSE]
  OBVIOUS
<1>3. x \in Removal /\ x.shipment = NoPick
  BY <1>1, <1>2 DEF Removal
<1>4. removals' = Append(removals, x) /\ removals \in Seq(Removal)
  BY <1>2 DEF RecordRemoval, Kept, Shape
<1>5. /\ removals' \in Seq(Removal) /\ DOMAIN removals \subseteq DOMAIN removals'
      /\ \A s \in DOMAIN removals : removals'[s] = removals[s]
      /\ \A s \in DOMAIN removals' : s \notin DOMAIN removals => removals'[s] = x
  BY <1>3, <1>4
<1>6. PICK y : y = [lots[l] EXCEPT !.onHand = lots[l].onHand - n]
  OBVIOUS
<1>7. /\ lots' = [lots EXCEPT ![l] = y] /\ lots \in [Lots -> Lot]
      /\ n <= lots[l].onHand /\ Promised(l) + n <= lots[l].onHand
  <2>1. LeavesPromised(l, n)
    BY DEF RecordRemoval, Disciplined
  <2> QED BY <1>6, <2>1 DEF RecordRemoval, LeavesPromised, Kept, Shape
<1>8. y \in Lot /\ y.onHand = lots[l].onHand - n /\ lots[l].onHand \in Nat
  BY <1>1, <1>6, <1>7 DEF Lot
<1>9. /\ lots' \in [Lots -> Lot] /\ lots'[l].onHand = lots[l].onHand - n
      /\ \A m \in Lots : m # l => lots'[m] = lots[m]
  BY <1>7, <1>8
<1>10. UNCHANGED <<orders, lines, shipments, picks, task>>
  BY DEF RecordRemoval
<1>11. Keeping
  BY <1>3, <1>5, <1>10 DEF Keeping, Made
<1>12. NotPromisedTwice'
  <2> SUFFICES ASSUME NEW m \in Lots PROVE Promised(m) <= lots'[m].onHand
    BY <1>10 DEF NotPromisedTwice, Promised, Bottles, Made
  <2>1. CASE m # l
    BY <1>9, <2>1 DEF Kept, NotPromisedTwice
  <2>2. CASE m = l
    <3>1. PICK S : S = Going(l)
      OBVIOUS
    <3>2. S \in SUBSET Made
      BY <3>1 DEF Going
    <3>3. Total(picks, S) \in Nat
      BY <3>2, MadeCountable, TotalNat DEF Kept
    <3>4. Promised(l) = Total(picks, S)
      BY <3>1 DEF Promised, Total, Bottles, Going
    <3>5. Promised(l) \in Nat
      BY <3>3, <3>4
    <3> QED BY <1>1, <1>7, <1>8, <1>9, <2>2, <3>5
  <2> QED BY <2>1, <2>2
<1> QED BY <1>5, <1>9, <1>10, <1>11, <1>12, LotsMoved

-----------------------------------------------------------------------------
(* Picks. *)

LEMMA ByAddShipmentLine ==
  ASSUME Kept, Disciplined, NEW c \in Clerks, NEW p \in Picks, NEW l \in Lots,
         NEW n \in Quantities, NEW k \in OrderLines \cup {NoLine},
         AddShipmentLine(c, p, l, n, k)
  PROVE  Kept'
<1>1. PICK h : h = task[c].on
  OBVIOUS
<1>2. h \in Shipments /\ shipments[h].status \in Open
  BY <1>1, TaskOn DEF AddShipmentLine, Idle, Kept, TasksStand, Stands
<1>3. PICK x : x = [shipment |-> h, line |-> k, lot |-> l, bottles |-> n, removal |-> 0]
  OBVIOUS
<1>4. n \in Nat /\ n > 0
  BY ShippingAssumption
<1>5. /\ x \in Pick /\ x # NoPick /\ x.shipment = h /\ x.line = k /\ x.lot = l
      /\ x.bottles = n /\ x.removal = 0
  BY <1>2, <1>3, <1>4, ShippingAssumption DEF Pick
<1>6. /\ p \notin Made /\ picks' = [picks EXCEPT ![p] = x]
      /\ lots[l].onHand - Promised(l) >= n
      /\ k # NoLine => There(k) /\ OrderOf[k] = shipments[h].order
      /\ k # NoLine => ~InHand("remove", k)
      /\ shipments[h].order # NoOrder => k # NoLine
  <2>1. NamesLine(h, k)
    BY <1>1 DEF AddShipmentLine, Disciplined
  <2> QED BY <1>1, <1>3, <2>1 DEF AddShipmentLine, PickedFromLot, NamesLine
<1>7. UNCHANGED <<orders, lines, shipments, lots, removals>>
  BY DEF AddShipmentLine
<1>8. /\ task'[c] = NoTask /\ task' \in [Clerks -> Task \cup {NoTask}]
      /\ \A d \in Clerks : d # c => task'[d] = task[d]
  BY DEF AddShipmentLine, End, Kept, Shape
<1>9. /\ picks' \in [Picks -> Pick \cup {NoPick}] /\ picks'[p] = x
      /\ \A q \in Picks : q # p => picks'[q] = picks[q]
  BY <1>5, <1>6 DEF Kept, Shape
<1>10. Made' = Made \cup {p} /\ \A q \in Made : q # p /\ picks'[q] = picks[q]
  BY <1>5, <1>6, <1>9 DEF Made
<1>11. Shape'
  <2>1. IsFiniteSet(Made \cup {p})
    BY FS_AddElement DEF Kept, Shape
  <2> QED BY <1>7, <1>8, <1>9, <1>10, <2>1 DEF Kept, Shape
<1>12. TasksStand' /\ TasksApart'
  <2> SUFFICES ASSUME NEW t \in Task, Stands(t), \E d \in Clerks : task[d] = t
               PROVE  Stands(t)'
    BY <1>8, TasksLeft DEF Kept
  <2>1. \A q \in Made' : \/ q \in Made /\ picks'[q] = picks[q]
                         \/ picks'[q].shipment = h /\ picks'[q].line = k
    BY <1>5, <1>9, <1>10
  <2>2. t.op = "unpick" /\ t.on \in Made' => shipments[picks'[t.on].shipment].status \in Open
    BY <1>2, <2>1 DEF Stands
  <2>3. t.op = "remove" => \A q \in Made' : picks'[q].line # t.on
    <3> SUFFICES ASSUME t.op = "remove" PROVE \A q \in Made' : picks'[q].line # t.on
      OBVIOUS
    <3>1. t.on \in OrderLines /\ t = [op |-> "remove", on |-> t.on]
      BY TaskFields
    <3>2. k # t.on
      BY <1>6, <3>1, ShippingAssumption DEF InHand
    <3>3. \A q \in Made : picks[q].line # t.on
      BY DEF Stands, Unpicked
    <3> QED BY <2>1, <3>2, <3>3
  <2> QED BY <1>7, <2>2, <2>3 DEF Stands, Unpicked, OrderShipments
<1>13. PicksStand'
  <2>1. \A q \in Made' : (q \in Made /\ picks'[q] = picks[q]) \/ picks'[q] = x
    BY <1>9, <1>10
  <2>2. shipments[h].status # "none"
    BY <1>2 DEF Open
  <2> QED BY <1>4, <1>5, <1>6, <1>7, <2>1, <2>2 DEF Kept, PicksStand, There
<1>14. NoneEmpty'
  <2> SUFFICES ASSUME NEW g \in Shipments, shipments[g].status = "shipped"
               PROVE  \E q \in Made' : picks'[q].shipment = g
    BY <1>7 DEF NoneEmpty, PicksOf
  <2>1. PICK q \in Made : picks[q].shipment = g
    BY DEF Kept, NoneEmpty, PicksOf
  <2> QED BY <1>10, <2>1
<1>15. CancelledStayBack'
  BY <1>7 DEF Kept, CancelledStayBack, OrderShipments
<1>16. ShippedIsRemoved'
  <2>1. shipments[h].status # "shipped"
    BY <1>2 DEF Open
  <2>2. Keeping
    BY <1>2, <1>5, <1>7, <1>9, <1>10, <2>1 DEF Keeping
  <2> QED BY <2>2, RemovedStill DEF Kept
<1>17. NotPromisedTwice'
  <2> SUFFICES ASSUME NEW m \in Lots PROVE Promised(m)' <= lots[m].onHand
    BY <1>7 DEF NotPromisedTwice
  <2>1. PICK S : S = Going(m)
    OBVIOUS
  <2>2. PICK R : R = Going(m)'
    OBVIOUS
  <2>3. S \in SUBSET Made /\ p \notin S
    BY <1>6, <2>1 DEF Going
  <2>4. Countable(picks, S) /\ Total(picks, S) \in Nat
    BY <2>3, MadeCountable, TotalNat DEF Kept
  <2>5. Countable(picks', S) /\ Total(picks', S) = Total(picks, S)
    <3>1. \A q \in S : picks'[q].bottles = picks[q].bottles
      BY <1>10, <2>3
    <3> QED BY <2>4, <3>1, TotalSame DEF Countable
  <2>6. picks'[p].bottles = n
    BY <1>5, <1>9
  <2>7. Total(picks', S \cup {p}) = Total(picks', S) + n
    BY <1>4, <2>3, <2>5, <2>6, TotalMore
  <2>8. Promised(m) = Total(picks, S) /\ Promised(m)' = Total(picks', R)
    BY <2>1, <2>2 DEF Promised, Total, Bottles, Going
  <2>9. lots[m].onHand \in Nat /\ Promised(m) <= lots[m].onHand
    BY DEF Kept, Shape, Lot, NotPromisedTwice
  <2>10. CASE m = l /\ shipments[h].status = "picking"
    <3>1. \A q : q \in R <=> q \in S \cup {p}
      BY <1>5, <1>7, <1>9, <1>10, <2>1, <2>2, <2>10 DEF Going
    <3>2. R = S \cup {p}
      BY <3>1
    <3>3. Promised(l) = Total(picks, S) /\ m = l
      BY <2>8, <2>10
    <3>4. lots[l].onHand \in Nat
      BY <2>9, <2>10
    <3> QED BY <1>4, <1>6, <2>4, <2>5, <2>7, <2>8, <3>2, <3>3, <3>4
  <2>11. CASE ~(m = l /\ shipments[h].status = "picking")
    <3>1. \A q : q \in R <=> q \in S
      BY <1>5, <1>7, <1>9, <1>10, <2>1, <2>2, <2>3, <2>11 DEF Going
    <3>2. R = S
      BY <3>1
    <3> QED BY <2>5, <2>8, <2>9, <3>2
  <2> QED BY <2>10, <2>11
<1>18. OrderCountsAgree'
  <2>1. \A j \in OrderLines : Counting(j)' = Counting(j)
    <3> SUFFICES ASSUME NEW j \in OrderLines, NEW q
                 PROVE  q \in Made' /\ picks'[q].line = j /\ picks'[q].removal # 0
                        <=> q \in Made /\ picks[q].line = j /\ picks[q].removal # 0
      BY DEF Counting
    <3> QED BY <1>5, <1>9, <1>10
  <2>2. \A j \in OrderLines : \A q \in Counting(j) : picks'[q].bottles = picks[q].bottles
    BY <1>10 DEF Counting
  <2> QED BY <1>7, <2>1, <2>2, CountsSame DEF Kept, There
<1> QED BY <1>11, <1>12, <1>13, <1>14, <1>15, <1>16, <1>17, <1>18 DEF Kept

LEMMA ByRemoveShipmentLine ==
  ASSUME Kept, NEW c \in Clerks, RemoveShipmentLine(c)
  PROVE  Kept'
<1>1. PICK p : p = task[c].on
  OBVIOUS
<1>2. p \in Picks /\ (p \in Made => shipments[picks[p].shipment].status \in Open)
  BY <1>1, TaskOn DEF RemoveShipmentLine, Idle, Kept, TasksStand, Stands
<1>3. picks' = [picks EXCEPT ![p] = NoPick]
  BY <1>1 DEF RemoveShipmentLine
<1>4. UNCHANGED <<orders, lines, shipments, lots, removals>>
  BY DEF RemoveShipmentLine
<1>5. /\ task'[c] = NoTask /\ task' \in [Clerks -> Task \cup {NoTask}]
      /\ \A d \in Clerks : d # c => task'[d] = task[d]
  BY DEF RemoveShipmentLine, End, Kept, Shape
<1>6. /\ picks' \in [Picks -> Pick \cup {NoPick}] /\ picks'[p] = NoPick
      /\ \A q \in Picks : q # p => picks'[q] = picks[q]
  BY <1>2, <1>3 DEF Kept, Shape
<1>7. Made' = Made \ {p} /\ \A q \in Made' : q \in Made /\ picks'[q] = picks[q]
  BY <1>6 DEF Made
<1>8. p \in Made => picks[p].removal = 0 /\ shipments[picks[p].shipment].status # "shipped"
  BY <1>2, ShippedHasRemoval DEF Kept, Open
<1>9. Shape'
  <2>1. Made' \in SUBSET Made
    BY <1>7
  <2>2. IsFiniteSet(Made')
    BY <2>1, FS_Subset DEF Kept, Shape
  <2> QED BY <1>4, <1>5, <1>6, <2>2 DEF Kept, Shape
<1>10. TasksStand' /\ TasksApart'
  <2> SUFFICES ASSUME NEW x \in Task, Stands(x) PROVE Stands(x)'
    BY <1>5, TasksLeft DEF Kept
  <2>1. x.op = "unpick" /\ x.on \in Made' => shipments[picks'[x.on].shipment].status \in Open
    BY <1>7 DEF Stands
  <2>2. x.op = "remove" => \A q \in Made' : picks'[q].line # x.on
    BY <1>7 DEF Stands, Unpicked
  <2> QED BY <1>4, <2>1, <2>2 DEF Stands, Unpicked, OrderShipments
<1>11. PicksStand'
  BY <1>4, <1>7 DEF Kept, PicksStand, There
<1>12. NoneEmpty'
  <2> SUFFICES ASSUME NEW g \in Shipments, shipments[g].status = "shipped"
               PROVE  \E q \in Made' : picks'[q].shipment = g
    BY <1>4 DEF NoneEmpty, PicksOf
  <2>1. PICK q \in Made : picks[q].shipment = g
    BY DEF Kept, NoneEmpty, PicksOf
  <2> QED BY <1>7, <1>8, <2>1
<1>13. CancelledStayBack'
  BY <1>4 DEF Kept, CancelledStayBack, OrderShipments
<1>14. ShippedIsRemoved'
  <2>1. Keeping
    BY <1>4, <1>7, <1>8 DEF Keeping
  <2> QED BY <2>1, RemovedStill DEF Kept
<1>15. NotPromisedTwice'
  <2>1. \A l \in Lots : /\ Going(l)' \subseteq Going(l)
                        /\ \A q \in Going(l)' : picks'[q].bottles = picks[q].bottles
    BY <1>4, <1>7 DEF Going
  <2>2. \A l \in Lots : lots[l].onHand \in Nat
    BY DEF Kept, Shape, Lot
  <2> QED BY <1>4, <2>1, <2>2, PromisesFewer DEF Kept
<1>16. OrderCountsAgree'
  <2>1. \A j \in OrderLines : Counting(j)' = Counting(j)
    <3> SUFFICES ASSUME NEW j \in OrderLines, NEW q
                 PROVE  q \in Made' /\ picks'[q].line = j /\ picks'[q].removal # 0
                        <=> q \in Made /\ picks[q].line = j /\ picks[q].removal # 0
      BY DEF Counting
    <3> QED BY <1>7, <1>8
  <2>2. \A j \in OrderLines : \A q \in Counting(j) : picks'[q].bottles = picks[q].bottles
    BY <1>7, <1>8 DEF Counting
  <2> QED BY <1>4, <2>1, <2>2, CountsSame DEF Kept, There
<1> QED BY <1>9, <1>10, <1>11, <1>12, <1>13, <1>14, <1>15, <1>16 DEF Kept

-----------------------------------------------------------------------------
(* A shipment that goes. *)

\* Its picks, and the others.
LEMMA PicksSent ==
  ASSUME Shape, NEW h \in Shipments, ShipShipment(h), NEW S, S = PicksOf(h)
  PROVE  /\ S \subseteq Made /\ S \subseteq Nat /\ IsFiniteSet(S)
         /\ picks' \in [Picks -> Pick \cup {NoPick}] /\ Made' = Made
         /\ \A p \in S : /\ picks'[p].shipment = h /\ picks[p].shipment = h
                         /\ picks'[p].line = picks[p].line
                         /\ picks'[p].lot = picks[p].lot
                         /\ picks'[p].bottles = picks[p].bottles
                         /\ picks'[p].removal = Len(removals) + Rank(S, p)
         /\ \A p \in Made : p \notin S => picks'[p] = picks[p] /\ picks[p].shipment # h
<1>1. S \subseteq Made /\ \A p \in Made : p \in S <=> picks[p].shipment = h
  BY DEF PicksOf
<1>2. IsFiniteSet(S)
  BY <1>1, FS_Subset DEF Shape
<1>3. Made \subseteq Picks
  BY DEF Made
<1>4. S \subseteq Nat
  BY <1>1, <1>3, ShippingAssumption
<1>5. picks' = [p \in Picks |-> IF p \in S
                  THEN [picks[p] EXCEPT !.removal = Len(removals) + Rank(S, p)] ELSE picks[p]]
  BY DEF ShipShipment, Rank
<1>6. ASSUME NEW p \in S
      PROVE  /\ picks'[p] \in Pick
             /\ picks'[p].shipment = h /\ picks[p].shipment = h
             /\ picks'[p].line = picks[p].line
             /\ picks'[p].lot = picks[p].lot
             /\ picks'[p].bottles = picks[p].bottles
             /\ picks'[p].removal = Len(removals) + Rank(S, p)
  <2>1. picks[p] \in Pick /\ p \in Picks /\ picks[p].shipment = h
    BY <1>1, PickFields
  <2>2. PICK n : n = Len(removals) + Rank(S, p)
    OBVIOUS
  <2>3. n \in Nat
    <3>1. Rank(S, p) \in 1..Cardinality(S) /\ Cardinality(S) \in Nat
      BY <1>2, <1>4, Ranks
    <3>2. Len(removals) \in Nat
      BY DEF Shape
    <3> QED BY <2>2, <3>1, <3>2
  <2>4. picks'[p] = [picks[p] EXCEPT !.removal = n]
    BY <1>5, <2>1, <2>2
  <2> QED BY <2>1, <2>2, <2>3, <2>4 DEF Pick
<1>7. \A p \in Picks : p \notin S => picks'[p] = picks[p]
  BY <1>5
<1>8. picks' \in [Picks -> Pick \cup {NoPick}]
  <2>1. \A p \in Picks : picks'[p] \in Pick \cup {NoPick}
    BY <1>6, <1>7 DEF Shape
  <2> QED BY <1>5, <2>1
<1>9. Made' = Made
  <2>1. \A p \in Picks : picks'[p] # NoPick <=> picks[p] # NoPick
    BY <1>1, <1>6, <1>7, ShippingAssumption DEF Made
  <2> QED BY <2>1 DEF Made
<1> QED BY <1>1, <1>2, <1>3, <1>4, <1>6, <1>7, <1>8, <1>9

\* Each of them has a removal of its own, and there are no others.
LEMMA RemovalsMade ==
  ASSUME Shape, NEW h \in Shipments, ShipShipment(h), NEW S, S = PicksOf(h)
  PROVE  /\ removals' \in Seq(Removal)
         /\ DOMAIN removals \subseteq DOMAIN removals'
         /\ \A r \in DOMAIN removals : removals'[r] = removals[r]
         /\ \A p \in S : /\ picks'[p].removal \in DOMAIN removals'
                         /\ picks'[p].removal \notin DOMAIN removals
                         /\ picks'[p].removal # 0
                         /\ removals'[picks'[p].removal].shipment = h
                         /\ removals'[picks'[p].removal].lot = picks[p].lot
                         /\ removals'[picks'[p].removal].bottles = picks[p].bottles
         /\ \A p, q \in S : picks'[p].removal = picks'[q].removal => p = q
         /\ \A r \in DOMAIN removals' : r \notin DOMAIN removals =>
              \E p \in S : picks'[p].removal = r
<1> DEFINE N == Len(removals)
           K == Cardinality(S)
           row(p) == [shipment |-> h, lot |-> picks[p].lot, bottles |-> picks[p].bottles,
                      voided |-> FALSE]
           pick(i) == CHOOSE q \in S : N + Rank(S, q) = N + i
           more == [i \in 1..K |-> row(pick(i))]
<1>1. /\ S \subseteq Made /\ S \subseteq Nat /\ IsFiniteSet(S)
      /\ \A p \in S : picks'[p].removal = N + Rank(S, p)
  BY PicksSent
<1>2. removals \in Seq(Removal) /\ N \in Nat
  BY DEF Shape
<1>3. /\ K \in Nat
      /\ \A p \in S : Rank(S, p) \in 1..K
      /\ \A p, q \in S : Rank(S, p) = Rank(S, q) => p = q
      /\ \A i \in 1..K : \E p \in S : Rank(S, p) = i
  BY <1>1, Ranks
<1>4. removals' = removals \o more
  BY DEF ShipShipment, Rank
<1>5. \A p \in S : row(p) \in Removal
  BY <1>1, PickFields DEF Removal
<1>6. \A p \in S : pick(Rank(S, p)) = p
  <2> SUFFICES ASSUME NEW p \in S PROVE pick(Rank(S, p)) = p
    OBVIOUS
  <2>1. \A q \in S : N + Rank(S, q) = N + Rank(S, p) => q = p
    BY <1>2, <1>3
  <2> QED BY <2>1
<1>7. \A i \in 1..K : pick(i) \in S
  BY <1>3, <1>6
<1> HIDE DEF pick, row
<1>8. more \in Seq(Removal) /\ Len(more) = K /\ \A i \in 1..K : more[i] = row(pick(i))
  <2>1. more \in [1..K -> Removal]
    BY <1>5, <1>7
  <2> QED BY <1>3, <2>1, SeqDef
<1> HIDE DEF more
<1>9. /\ removals' \in Seq(Removal) /\ DOMAIN removals' = 1..(N + K) /\ DOMAIN removals = 1..N
      /\ \A r \in 1..N : removals'[r] = removals[r]
      /\ \A i \in 1..K : removals'[N + i] = more[i]
  BY <1>2, <1>3, <1>4, <1>8
<1> HIDE DEF N, K
<1>10. ASSUME NEW p \in S
       PROVE  /\ picks'[p].removal \in 1..(N + K) /\ picks'[p].removal \notin 1..N
              /\ picks'[p].removal # 0
              /\ removals'[picks'[p].removal] = row(p)
  <2>1. PICK i \in 1..K : i = Rank(S, p)
    BY <1>3
  <2>2. picks'[p].removal = N + i /\ pick(i) = p
    BY <1>1, <1>6, <2>1
  <2>3. removals'[N + i] = row(p)
    BY <1>8, <1>9, <2>2
  <2> QED BY <1>2, <1>3, <2>2, <2>3
<1>11. \A p, q \in S : picks'[p].removal = picks'[q].removal => p = q
  <2> SUFFICES ASSUME NEW p \in S, NEW q \in S, picks'[p].removal = picks'[q].removal
               PROVE  p = q
    OBVIOUS
  <2>1. Rank(S, p) \in Nat /\ Rank(S, q) \in Nat
    BY <1>3
  <2>2. Rank(S, p) = Rank(S, q)
    BY <1>1, <1>2, <2>1
  <2> QED BY <1>3, <2>2
<1>12. ASSUME NEW r \in 1..(N + K), r \notin 1..N
       PROVE  \E p \in S : picks'[p].removal = r
  <2>1. PICK i \in 1..K : r = N + i
    <3>1. r - N \in 1..K /\ r = N + (r - N)
      BY <1>2, <1>3, <1>12
    <3> QED BY <3>1
  <2>2. PICK p \in S : Rank(S, p) = i
    BY <1>3
  <2> QED BY <1>1, <2>1, <2>2
<1>13. 1..N \subseteq 1..(N + K)
  BY <1>2, <1>3
<1>14. \A p : row(p).shipment = h /\ row(p).lot = picks[p].lot /\ row(p).bottles = picks[p].bottles
  BY DEF row
<1> QED BY <1>9, <1>10, <1>11, <1>12, <1>13, <1>14


LEMMA ShipmentSent ==
  ASSUME Shape, NEW h \in Shipments, ShipShipment(h)
  PROVE  /\ shipments[h].status = "picking" /\ shipments'[h].status = "shipped"
         /\ shipments'[h].order = shipments[h].order
         /\ \A g \in Shipments : g # h => shipments'[g] = shipments[g]
         /\ shipments' \in [Shipments -> Shipment]
<1>1. shipments[h] \in Shipment /\ shipments' = [shipments EXCEPT ![h] =
        [shipments[h] EXCEPT !.status = "shipped"]]
  BY DEF ShipShipment, Shape
<1>2. /\ [shipments[h] EXCEPT !.status = "shipped"] \in Shipment
      /\ [shipments[h] EXCEPT !.status = "shipped"].status = "shipped"
      /\ [shipments[h] EXCEPT !.status = "shipped"].order = shipments[h].order
  BY <1>1 DEF Shipment
<1>3. shipments[h].status = "picking"
  BY DEF ShipShipment, MayShip
<1> QED BY <1>1, <1>2, <1>3 DEF Shape

LEMMA ShippedRemoved ==
  ASSUME Kept, NEW h \in Shipments, ShipShipment(h)
  PROVE  ShippedIsRemoved'
<1>1. PICK S : S = PicksOf(h)
  OBVIOUS
<1>2. /\ S \subseteq Made /\ Made' = Made
      /\ \A p \in S : /\ picks'[p].shipment = h /\ picks[p].shipment = h
                      /\ picks'[p].lot = picks[p].lot
                      /\ picks'[p].bottles = picks[p].bottles
      /\ \A p \in Made : p \notin S => picks'[p] = picks[p] /\ picks[p].shipment # h
  BY <1>1, PicksSent DEF Kept
<1>3. /\ DOMAIN removals \subseteq DOMAIN removals'
      /\ \A r \in DOMAIN removals : removals'[r] = removals[r]
      /\ \A p \in S : /\ picks'[p].removal \in DOMAIN removals'
                      /\ picks'[p].removal \notin DOMAIN removals
                      /\ removals'[picks'[p].removal].shipment = h
                      /\ removals'[picks'[p].removal].lot = picks[p].lot
                      /\ removals'[picks'[p].removal].bottles = picks[p].bottles
      /\ \A p, q \in S : picks'[p].removal = picks'[q].removal => p = q
      /\ \A r \in DOMAIN removals' : r \notin DOMAIN removals =>
           \E p \in S : picks'[p].removal = r
  BY <1>1, RemovalsMade DEF Kept
<1>4. /\ shipments[h].status = "picking" /\ shipments'[h].status = "shipped"
      /\ \A g \in Shipments : g # h => shipments'[g] = shipments[g]
  BY ShipmentSent DEF Kept
<1>5. AllSent /\ OneEach
  BY RemovedMeans DEF Kept
<1>6. \A r \in DOMAIN removals : r # 0
  BY DEF Kept, Shape
<1>7. ASSUME NEW p \in Made PROVE SentAs(p)'
  <2>1. CASE p \in S
    BY <1>2, <1>3, <1>4, <2>1 DEF SentAs
  <2>2. CASE p \notin S
    <3>1. picks'[p] = picks[p] /\ picks[p].shipment # h /\ picks[p].shipment \in Shipments
      BY <1>2, <2>2, PickFields DEF Kept
    <3>2. SentAs(p)
      BY <1>5 DEF AllSent
    <3> QED BY <1>3, <1>4, <3>1, <3>2 DEF SentAs
  <2> QED BY <2>1, <2>2
<1>8. ASSUME NEW r \in DOMAIN removals', removals'[r].shipment # NoPick
      PROVE  Cardinality(PicksFor(r)') = 1
  <2>1. CASE r \in DOMAIN removals
    <3>1. removals'[r] = removals[r] /\ Cardinality(PicksFor(r)) = 1
      BY <1>3, <1>5, <1>8, <2>1 DEF OneEach
    <3>2. removals[r].shipment # h
      <4> SUFFICES ASSUME removals[r].shipment = h PROVE FALSE
        OBVIOUS
      <4>1. \A p \in Made : p \notin PicksFor(r)
        BY <1>4, <1>5, <1>6, <2>1 DEF AllSent, SentAs, PicksFor
      <4>2. PicksFor(r) = {}
        BY <4>1 DEF PicksFor
      <4>3. Cardinality(PicksFor(r)) = 0
        BY <4>2, FS_EmptySet
      <4> QED BY <3>1, <4>3
    <3>3. \A p \in Made : picks'[p].shipment = removals[r].shipment /\ picks'[p].removal = r
                         <=> picks[p].shipment = removals[r].shipment /\ picks[p].removal = r
      BY <1>2, <3>2
    <3>4. PicksFor(r)' = PicksFor(r)
      BY <1>2, <3>1, <3>3 DEF PicksFor
    <3> QED BY <3>1, <3>4
  <2>2. CASE r \notin DOMAIN removals
    <3>1. PICK p \in S : picks'[p].removal = r
      BY <1>3, <2>2
    <3>2. removals'[r].shipment = h
      BY <1>3, <3>1
    <3>3. \A q \in Made : picks'[q].shipment = h /\ picks'[q].removal = r <=> q = p
      BY <1>2, <1>3, <3>1
    <3>4. PicksFor(r)' = {p}
      BY <1>2, <3>1, <3>2, <3>3 DEF PicksFor
    <3> QED BY <3>4, FS_Singleton
  <2> QED BY <2>1, <2>2
<1>9. AllSent' /\ OneEach'
  BY <1>2, <1>7, <1>8 DEF AllSent, OneEach
<1> QED BY <1>9, RemovedMeansNext

\* What it takes from a lot had been promised.
LEMMA ShippedPromised ==
  ASSUME Kept, NEW h \in Shipments, ShipShipment(h)
  PROVE  NotPromisedTwice' /\ lots' \in [Lots -> Lot]
<1>1. PICK S : S = PicksOf(h)
  OBVIOUS
<1>2. /\ S \subseteq Made /\ Made' = Made
      /\ \A p \in S : picks'[p].shipment = h /\ picks[p].shipment = h
      /\ \A p \in Made : p \notin S => picks'[p] = picks[p] /\ picks[p].shipment # h
  BY <1>1, PicksSent DEF Kept
<1>3. /\ shipments[h].status = "picking" /\ shipments'[h].status = "shipped"
      /\ \A g \in Shipments : g # h => shipments'[g] = shipments[g]
  BY ShipmentSent DEF Kept
<1>4. ASSUME NEW l \in Lots
      PROVE  /\ Promised(l)' <= lots'[l].onHand
             /\ lots'[l] \in Lot
  <2>1. PICK A : A = Going(l)
    OBVIOUS
  <2>2. PICK B : B = PicksFrom(l, S)
    OBVIOUS
  <2>3. A \in SUBSET Made /\ B \in SUBSET A
    <3>1. \A p \in B : p \in A
      BY <1>2, <1>3, <2>1, <2>2 DEF PicksFrom, Going
    <3> QED BY <2>1, <3>1 DEF Going
  <2>4. \A R \in SUBSET A : Split(picks, A, R)
    BY <2>3, MadeCountable, TotalSplit DEF Kept
  <2>5. PICK C : C = A \ B
    OBVIOUS
  <2>6. /\ Countable(picks, C) /\ Total(picks, A) = Total(picks, B) + Total(picks, C)
        /\ Total(picks, B) \in Nat /\ Total(picks, C) \in Nat
    BY <2>3, <2>4, <2>5 DEF Split
  <2>7. \A p : p \in Going(l)' <=> p \in C
    <3> SUFFICES ASSUME NEW p \in Made
                 PROVE  picks'[p].lot = l /\ shipments'[picks'[p].shipment].status = "picking"
                        <=> p \in C
      BY <1>2, <2>1, <2>5 DEF Going
    <3>1. CASE p \in S
      BY <1>2, <1>3, <2>1, <2>2, <2>5, <3>1 DEF Going, PicksFrom
    <3>2. CASE p \notin S
      <4>1. picks[p].shipment \in Shipments
        BY PickFields DEF Kept
      <4> QED BY <1>2, <1>3, <2>1, <2>2, <2>5, <3>2, <4>1 DEF Going, PicksFrom
    <3> QED BY <3>1, <3>2
  <2>8. Going(l)' = C
    BY <2>7
  <2>9. Total(picks', C) = Total(picks, C)
    <3>1. \A p \in C : picks'[p].bottles = picks[p].bottles
      BY <1>2, <2>1, <2>2, <2>5 DEF Going, PicksFrom
    <3> QED BY <2>6, <3>1, TotalSame
  <2>10. /\ Promised(l) = Total(picks, A) /\ Promised(l)' = Total(picks', C)
         /\ PickedOnShipment(h, l) = Total(picks, B)
    BY <1>1, <2>1, <2>2, <2>8 DEF Promised, Total, Bottles, Going, PickedOnShipment
  <2>11. lots[l] \in Lot /\ Promised(l) <= lots[l].onHand
    BY DEF Kept, Shape, NotPromisedTwice
  <2>12. PICK n \in Nat : n = Total(picks, B)
    BY <2>6
  <2>13. lots'[l] = [lots[l] EXCEPT !.onHand = lots[l].onHand - n]
    BY <2>10, <2>12 DEF ShipShipment
  <2>14. lots[l].onHand \in Nat
    BY <2>11 DEF Lot
  <2>15. lots[l].onHand - n \in Nat /\ Total(picks, C) <= lots[l].onHand - n
    BY <2>6, <2>10, <2>11, <2>12, <2>14
  <2>16. lots'[l] \in Lot /\ lots'[l].onHand = lots[l].onHand - n
    BY <2>11, <2>13, <2>15 DEF Lot
  <2> QED BY <2>9, <2>10, <2>15, <2>16
<1>5. lots' \in [Lots -> Lot]
  <2>1. lots' = [l \in Lots |-> lots'[l]]
    BY DEF ShipShipment
  <2> QED BY <1>4, <2>1
<1> QED BY <1>4, <1>5 DEF NotPromisedTwice

\* What it takes for a line is counted there.
LEMMA ShippedCounted ==
  ASSUME Kept, NEW h \in Shipments, ShipShipment(h)
  PROVE  /\ OrderCountsAgree' /\ lines' \in [OrderLines -> Nat \cup {NotThere}]
         /\ \A k \in OrderLines : (There(k)' <=> There(k)) /\ lines'[k] >= lines[k]
<1>1. PICK S : S = PicksOf(h)
  OBVIOUS
<1>2. /\ S \subseteq Made /\ Made' = Made
      /\ \A p \in S : /\ picks[p].shipment = h
                      /\ picks'[p].line = picks[p].line
                      /\ picks'[p].bottles = picks[p].bottles
      /\ \A p \in Made : p \notin S => picks'[p] = picks[p]
  BY <1>1, PicksSent DEF Kept
<1>3. \A p \in S : picks'[p].removal # 0
  BY <1>1, RemovalsMade DEF Kept
<1>4. \A p \in S : picks[p].removal = 0
  <2>1. shipments[h].status # "shipped"
    BY DEF ShipShipment, MayShip
  <2> QED BY <1>2, <2>1, ShippedHasRemoval DEF Kept
<1>5. ASSUME NEW k \in OrderLines
      PROVE  /\ lines'[k] \in Nat \cup {NotThere} /\ lines'[k] >= lines[k]
             /\ There(k)' <=> There(k)
             /\ There(k) => lines'[k] = Total(picks', Counting(k)')
  <2>1. PICK A : A = Counting(k)
    OBVIOUS
  <2>2. PICK B : B = ShippedOf(h, k)
    OBVIOUS
  <2>3. A \in SUBSET Made /\ B \in SUBSET Made /\ A \cap B = {}
    BY <1>1, <1>2, <1>4, <2>1, <2>2 DEF Counting, ShippedOf
  <2>4. Countable(picks, A) /\ Countable(picks, B)
    BY <2>3, MadeCountable DEF Kept
  <2>5. /\ Countable(picks, A \cup B)
        /\ Total(picks, A \cup B) = Total(picks, A) + Total(picks, B)
        /\ Total(picks, B) \in Nat
    BY <2>3, <2>4, TotalUnion, TotalNat
  <2>6. \A p : p \in Counting(k)' <=> p \in A \cup B
    <3> SUFFICES ASSUME NEW p \in Made
                 PROVE  picks'[p].line = k /\ picks'[p].removal # 0 <=> p \in A \cup B
      BY <1>2, <2>3 DEF Counting
    <3>1. CASE p \in S
      BY <1>1, <1>2, <1>3, <1>4, <2>1, <2>2, <3>1 DEF Counting, ShippedOf
    <3>2. CASE p \notin S
      BY <1>1, <1>2, <2>1, <2>2, <3>2 DEF Counting, ShippedOf
    <3> QED BY <3>1, <3>2
  <2>7. Counting(k)' = A \cup B
    BY <2>6
  <2>8. Total(picks', A \cup B) = Total(picks, A \cup B)
    <3>1. \A p \in A \cup B : picks'[p].bottles = picks[p].bottles
      BY <1>2, <2>3
    <3> QED BY <2>5, <3>1, TotalSame
  <2>9. Bottles(ShippedOf(h, k)) = Total(picks, B)
    BY <2>2 DEF Bottles, Total
  <2>10. lines'[k] = IF There(k) THEN lines[k] + Total(picks, B) ELSE lines[k]
    BY <2>9 DEF ShipShipment
  <2>11. lines[k] \in Nat \cup {NotThere}
    BY DEF Kept, Shape
  <2>12. There(k) => lines[k] = Total(picks, A)
    BY <2>1 DEF Kept, OrderCountsAgree, Bottles, Total, Counting
  <2> QED BY <2>5, <2>7, <2>8, <2>10, <2>11, <2>12 DEF There, NotThere
<1>6. lines' \in [OrderLines -> Nat \cup {NotThere}]
  <2>1. lines' = [k \in OrderLines |-> lines'[k]]
    BY DEF ShipShipment
  <2> QED BY <1>5, <2>1
<1>7. OrderCountsAgree'
  <2> SUFFICES ASSUME NEW k \in OrderLines, There(k)'
               PROVE  lines'[k] = Total(picks', Counting(k)')
    BY DEF OrderCountsAgree, Bottles, Total, Counting
  <2> QED BY <1>5
<1> QED BY <1>5, <1>6, <1>7

\* Its order moves on, or stays; the counts of its lines grow.
LEMMA OrderAdvanced ==
  ASSUME Shape, NEW h \in Shipments, ShipShipment(h), NEW o, o = shipments[h].order
  PROVE  /\ orders' \in [Orders -> Status]
         /\ \A x \in Orders : orders'[x] = "cancelled" => orders[x] = "cancelled"
         /\ \A x \in Orders : orders'[x] = "shipped" =>
              orders[x] = "shipped" \/ (x = o /\ NothingOutstanding(o, lines'))
<1>1. orders' = Advance(o, lines')
  BY DEF ShipShipment
<1>2. orders \in [Orders -> Status] /\ o \in Orders \cup {NoOrder}
  BY DEF Shape, Shipment
<1>3. CASE orders' = orders
  BY <1>2, <1>3
<1>4. CASE orders' # orders
  <2>1. o \in Orders /\ orders' = [orders EXCEPT ![o] =
          IF NothingOutstanding(o, lines') THEN "shipped" ELSE "partially_shipped"]
    BY <1>1, <1>2, <1>4 DEF Advance
  <2>2. CASE NothingOutstanding(o, lines')
    <3>1. orders' = [orders EXCEPT ![o] = "shipped"]
      BY <2>1, <2>2
    <3> QED BY <1>2, <2>1, <2>2, <3>1 DEF Status
  <2>3. CASE ~NothingOutstanding(o, lines')
    <3>1. orders' = [orders EXCEPT ![o] = "partially_shipped"]
      BY <2>1, <2>3
    <3> QED BY <1>2, <2>1, <3>1 DEF Status
  <2> QED BY <2>2, <2>3
<1> QED BY <1>3, <1>4

LEMMA LinesGrow ==
  ASSUME Shape, NEW h \in Shipments, ShipShipment(h)
  PROVE  /\ lines' \in [OrderLines -> Nat \cup {NotThere}]
         /\ \A k \in OrderLines : (There(k)' <=> There(k)) /\ lines'[k] >= lines[k]
<1>1. ASSUME NEW k \in OrderLines
      PROVE  /\ lines'[k] \in Nat \cup {NotThere} /\ lines'[k] >= lines[k]
             /\ There(k)' <=> There(k)
  <2>1. PICK B : B = ShippedOf(h, k)
    OBVIOUS
  <2>2. B \in SUBSET Made
    BY <2>1 DEF ShippedOf, PicksOf
  <2>3. Total(picks, B) \in Nat
    BY <2>2, MadeCountable, TotalNat
  <2>4. Bottles(ShippedOf(h, k)) = Total(picks, B)
    BY <2>1 DEF Bottles, Total
  <2>5. lines'[k] = IF There(k) THEN lines[k] + Total(picks, B) ELSE lines[k]
    BY <2>4 DEF ShipShipment
  <2>6. lines[k] \in Nat \cup {NotThere}
    BY DEF Shape
  <2> QED BY <2>3, <2>5, <2>6 DEF There, NotThere
<1>2. lines' = [k \in OrderLines |-> lines'[k]]
  BY DEF ShipShipment
<1> QED BY <1>1, <1>2

LEMMA ByShipShipment ==
  ASSUME Kept, Disciplined, NEW h \in Shipments, ShipShipment(h)
  PROVE  Kept'
<1>1. PICK S : S = PicksOf(h)
  OBVIOUS
<1>2. /\ S \subseteq Made /\ Made' = Made
      /\ picks' \in [Picks -> Pick \cup {NoPick}]
      /\ \A p \in Made : /\ picks'[p].shipment = picks[p].shipment
                         /\ picks'[p].line = picks[p].line
                         /\ picks'[p].bottles = picks[p].bottles
      /\ \A p \in Made : p \in S <=> picks[p].shipment = h
  <2>1. /\ S \subseteq Made /\ Made' = Made
        /\ picks' \in [Picks -> Pick \cup {NoPick}]
        /\ \A p \in S : /\ picks'[p].shipment = h /\ picks[p].shipment = h
                        /\ picks'[p].line = picks[p].line
                        /\ picks'[p].bottles = picks[p].bottles
        /\ \A p \in Made : p \notin S => picks'[p] = picks[p] /\ picks[p].shipment # h
    BY <1>1, PicksSent DEF Kept
  <2> QED BY <2>1
<1>3. /\ shipments[h].status = "picking" /\ shipments'[h].status = "shipped"
      /\ shipments'[h].order = shipments[h].order
      /\ \A g \in Shipments : g # h => shipments'[g] = shipments[g]
      /\ shipments' \in [Shipments -> Shipment]
  BY ShipmentSent DEF Kept
<1>4. /\ S # {} /\ Unattended(h) /\ UNCHANGED task
  BY <1>1 DEF ShipShipment, Disciplined
<1>5. PICK o : o = shipments[h].order
  OBVIOUS
<1>6. o \in Orders \cup {NoOrder}
  BY <1>5 DEF Kept, Shape, Shipment
<1>7. /\ lines' \in [OrderLines -> Nat \cup {NotThere}]
      /\ \A k \in OrderLines : (There(k)' <=> There(k)) /\ lines'[k] >= lines[k]
  BY ShippedCounted
<1>8. /\ orders' \in [Orders -> Status]
      /\ \A x \in Orders : orders'[x] = "cancelled" => orders[x] = "cancelled"
  BY <1>5, OrderAdvanced DEF Kept
<1>9. Shape'
  <2>1. removals' \in Seq(Removal)
    BY <1>1, RemovalsMade DEF Kept
  <2>2. lots' \in [Lots -> Lot]
    BY ShippedPromised
  <2> QED BY <1>2, <1>3, <1>4, <1>7, <1>8, <2>1, <2>2 DEF Kept, Shape
<1>10. \A x \in Orders :
         OrderShipments(x, {"picking", "shipped"})' = OrderShipments(x, {"picking", "shipped"})
  <2> SUFFICES ASSUME NEW x \in Orders, NEW g \in Shipments
               PROVE  shipments'[g].order = x /\ shipments'[g].status \in {"picking", "shipped"}
                      <=> shipments[g].order = x /\ shipments[g].status \in {"picking", "shipped"}
    BY DEF OrderShipments
  <2> QED BY <1>3
<1>11. TasksStand' /\ TasksApart'
  <2> SUFFICES ASSUME NEW x \in Task, Stands(x), \E d \in Clerks : task[d] = x
               PROVE  Stands(x)'
    BY <1>4, TasksLeft DEF Kept
  <2>1. x.op = "pick" => shipments'[x.on].status \in Open
    <3> SUFFICES ASSUME x.op = "pick" PROVE shipments'[x.on].status \in Open
      OBVIOUS
    <3>1. x.on \in Shipments /\ x = [op |-> "pick", on |-> x.on]
      BY TaskFields
    <3>2. x.on # h
      BY <1>4, <3>1 DEF Unattended, InHand
    <3> QED BY <1>3, <3>1, <3>2 DEF Stands
  <2>2. x.op = "unpick" /\ x.on \in Made => shipments'[picks'[x.on].shipment].status \in Open
    <3> SUFFICES ASSUME x.op = "unpick", x.on \in Made
                 PROVE  shipments'[picks'[x.on].shipment].status \in Open
      OBVIOUS
    <3>1. x = [op |-> "unpick", on |-> x.on] /\ picks[x.on].shipment \in Shipments
      BY TaskFields, PickFields DEF Kept
    <3>2. x.on \notin S
      BY <1>1, <1>4, <3>1 DEF Unattended, InHand
    <3> QED BY <1>2, <1>3, <3>1, <3>2 DEF Stands
  <2>3. x.op = "cancelled" => OrderShipments(x.on, {"picking", "shipped"})' = {}
    BY <1>10, TaskFields DEF Stands
  <2>4. x.op = "open" /\ x.on \in Orders => orders'[x.on] # "cancelled"
    BY <1>8 DEF Stands
  <2>5. x.op = "remove" => Unpicked(x.on)'
    BY <1>2 DEF Stands, Unpicked
  <2> QED BY <1>2, <2>1, <2>2, <2>3, <2>4, <2>5 DEF Stands
<1>12. PicksStand'
  <2> SUFFICES ASSUME NEW p \in Made PROVE
        /\ shipments'[picks[p].shipment].status # "none"
        /\ picks[p].bottles > 0
        /\ picks[p].line # NoLine =>
             /\ lines'[picks[p].line] >= 0
             /\ OrderOf[picks[p].line] = shipments'[picks[p].shipment].order
        /\ shipments'[picks[p].shipment].order # NoOrder => picks[p].line # NoLine
    BY <1>2 DEF PicksStand, There
  <2>1. picks[p].shipment \in Shipments /\ picks[p].line \in OrderLines \cup {NoLine}
    BY PickFields DEF Kept
  <2>2. /\ shipments'[picks[p].shipment].status # "none"
        /\ shipments'[picks[p].shipment].order = shipments[picks[p].shipment].order
    BY <1>3, <2>1 DEF Kept, PicksStand
  <2> QED BY <1>7, <2>1, <2>2 DEF Kept, PicksStand, There
<1>13. NoneEmpty'
  <2> SUFFICES ASSUME NEW g \in Shipments, shipments'[g].status = "shipped"
               PROVE  \E p \in Made : picks[p].shipment = g
    BY <1>2 DEF NoneEmpty, PicksOf
  <2>1. CASE g = h
    BY <1>2, <1>4, <2>1
  <2>2. CASE g # h
    BY <1>3, <2>2 DEF Kept, NoneEmpty, PicksOf
  <2> QED BY <2>1, <2>2
<1>14. CancelledStayBack'
  <2> SUFFICES ASSUME NEW x \in Orders, orders'[x] = "cancelled"
               PROVE  OrderShipments(x, {"picking", "shipped"})' = {}
    BY DEF CancelledStayBack
  <2>1. OrderShipments(x, {"picking", "shipped"}) = {}
    BY <1>8 DEF Kept, CancelledStayBack
  <2> QED BY <1>10, <2>1
<1>15. ShippedIsRemoved' /\ NotPromisedTwice' /\ OrderCountsAgree'
  BY ShippedRemoved, ShippedPromised, ShippedCounted
<1> QED BY <1>9, <1>11, <1>12, <1>13, <1>14, <1>15 DEF Kept

-----------------------------------------------------------------------------
(* The specification. *)

LEMMA ShapeInit == Init => Shape
<1> SUFFICES ASSUME Init PROVE Shape
  OBVIOUS
<1>1. \A l \in Lots : [onHand |-> Filled[l], held |-> FALSE] \in Lot
  BY ShippingAssumption DEF Lot
<1>2. [status |-> "none", order |-> NoOrder] \in Shipment
  BY DEF Shipment
<1>3. removals \in Seq(Removal)
  BY DEF Init
<1>4. IsFiniteSet(Made)
  <2>1. Made = {}
    BY DEF Init, Made
  <2> QED BY <2>1, FS_EmptySet
<1> QED BY <1>1, <1>2, <1>3, <1>4 DEF Init, Shape, Status

LEMMA KeptInit == Init => Kept
<1> SUFFICES ASSUME Init PROVE Kept
  OBVIOUS
<1>1. /\ Made = {} /\ removals = << >>
      /\ \A h \in Shipments : shipments[h] = [status |-> "none", order |-> NoOrder]
      /\ \A o \in Orders : orders[o] = "none"
      /\ \A k \in OrderLines : lines[k] = NotThere
      /\ \A c \in Clerks : task[c] = NoTask
  BY DEF Init, Made
<1>2. Shape
  BY ShapeInit
<1>3. TasksStand /\ TasksApart /\ PicksStand /\ NoneEmpty /\ CancelledStayBack
  BY <1>1 DEF TasksStand, TasksApart, PicksStand, NoneEmpty, CancelledStayBack
<1>4. ShippedIsRemoved
  BY <1>1 DEF ShippedIsRemoved
<1>5. NotPromisedTwice
  <2> SUFFICES ASSUME NEW l \in Lots PROVE Promised(l) <= lots[l].onHand
    BY DEF NotPromisedTwice
  <2>1. Going(l) = {}
    BY <1>1 DEF Going
  <2>2. Promised(l) = Total(picks, Going(l))
    BY DEF Promised, Total, Bottles, Going
  <2>3. Promised(l) = 0
    BY <2>1, <2>2, TotalNone
  <2>4. lots[l].onHand \in Nat
    BY <1>2 DEF Shape, Lot
  <2> QED BY <2>3, <2>4
<1>6. OrderCountsAgree
  BY <1>1 DEF OrderCountsAgree, There, NotThere
<1> QED BY <1>2, <1>3, <1>4, <1>5, <1>6 DEF Kept

LEMMA KeptNext == Disciplined /\ Kept /\ [Next]_vars => Kept'
<1> SUFFICES ASSUME Disciplined, Kept, [Next]_vars PROVE Kept'
  OBVIOUS
<1>1. CASE UNCHANGED vars
  <2>1. Shape' /\ TasksStand' /\ TasksApart' /\ PicksStand' /\ NoneEmpty' /\ CancelledStayBack'
    BY <1>1 DEF vars, Kept, Shape, TasksStand, TasksApart, Stands, Against, Unpicked, PicksStand,
                NoneEmpty, CancelledStayBack, Made, OrderShipments, There, PicksOf
  <2>2. ShippedIsRemoved' /\ NotPromisedTwice' /\ OrderCountsAgree'
    BY <1>1 DEF vars, Kept, ShippedIsRemoved, NotPromisedTwice, OrderCountsAgree, Made, PicksOf,
                Promised, Bottles, There
  <2> QED BY <2>1, <2>2 DEF Kept
<1>2. CASE \E o \in Orders : \/ CreateSalesOrder(o)
                             \/ \E s \in {"draft", "closed"} : SetSalesOrderStatus(o, s)
  BY <1>2, ByCreateSalesOrder, BySetSalesOrderStatus
<1>3. CASE \E h \in Shipments : ShipShipment(h) \/ CancelShipment(h)
  BY <1>3, ByShipShipment, ByCancelShipment
<1>4. CASE \E c \in Clerks :
             \/ \E o \in Orders : AskToAddLine(c, o) \/ AskToConfirm(c, o) \/ AskToCancel(c, o)
             \/ \E k \in OrderLines : AddSalesOrderLine(c, k) \/ AskToRemoveLine(c, k)
             \/ \E o \in Orders \cup {NoOrder} : AskToShip(c, o)
  BY <1>4, ByAskToAddLine, ByAskToConfirm, ByAskToCancel, ByAddSalesOrderLine,
     ByAskToRemoveLine, ByAskToShip
<1>5. CASE \E c \in Clerks :
             \/ \E h \in Shipments : CreateShipment(c, h) \/ AskToPick(c, h)
             \/ RemoveSalesOrderLine(c) \/ ConfirmOrCancel(c) \/ RemoveShipmentLine(c)
             \/ Refuse(c)
  BY <1>5, ByCreateShipment, ByAskToPick, ByRemoveSalesOrderLine, ByConfirmOrCancel,
     ByRemoveShipmentLine, ByRefuse
<1>6. CASE \E c \in Clerks : \E p \in Picks :
             \/ AskToUnpick(c, p)
             \/ \E l \in Lots, n \in Quantities, k \in OrderLines \cup {NoLine} :
                  AddShipmentLine(c, p, l, n, k)
  BY <1>6, ByAskToUnpick, ByAddShipmentLine
<1>7. CASE \E l \in Lots : SetHold(l) \/ \E n \in Quantities : RecordRemoval(l, n)
  BY <1>7, BySetHold, ByRecordRemoval
<1>8. CASE \E r \in DOMAIN removals : VoidRemoval(r)
  BY <1>8, ByVoidRemoval
<1> QED BY <1>1, <1>2, <1>3, <1>4, <1>5, <1>6, <1>7, <1>8 DEF Next

LEMMA SpecKept == ASSUME Disciplined PROVE Spec => []Kept
<1>1. Disciplined
  OBVIOUS
<1>2. Kept /\ [Next]_vars => Kept'
  BY <1>1, KeptNext
<1> QED BY KeptInit, <1>2, PTL DEF Spec

\* What ShipShipment makes of a shipment's picks: their removals, one for one, in
\* lots, bottles and shipment, and nothing a later request does undoes it.
THEOREM ShipmentsAreRemoved == ASSUME Disciplined PROVE Spec => []ShippedIsRemoved
<1>1. Kept => ShippedIsRemoved
  BY DEF Kept
<1> QED BY SpecKept, <1>1, PTL

\* BottlesPickedFromLot, under AddShipmentLine's lock of the lot, keeps what is
\* picked, on however many shipments, within what is on hand.
THEOREM PromisesAreOnHand == ASSUME Disciplined PROVE Spec => []NotPromisedTwice
<1>1. Kept => NotPromisedTwice
  BY DEF Kept
<1> QED BY SpecKept, <1>1, PTL

\* IncrementSalesOrderLineShipped, once for every pick that goes, makes a line's
\* count the bottles that went for it.
THEOREM OrderLinesCount == ASSUME Disciplined PROVE Spec => []OrderCountsAgree
<1>1. Kept => OrderCountsAgree
  BY DEF Kept
<1> QED BY SpecKept, <1>1, PTL

\* SalesOrderOutstanding's count of the lines that have started tells whether stock of
\* an order went, so that no cancelled order's did: of orders whose picks name their
\* lines and which are not cancelled with a shipment open.
THEOREM CancelledOrdersStayBack ==
  ASSUME Disciplined PROVE Spec => []CancelledHasNotShipped
<1>1. Kept => CancelledHasNotShipped
  <2> SUFFICES ASSUME Kept, NEW o \in Orders, orders[o] = "cancelled"
               PROVE  OrderShipments(o, {"shipped"}) = {}
    BY DEF CancelledHasNotShipped
  <2>1. OrderShipments(o, {"picking", "shipped"}) = {}
    BY DEF Kept, CancelledStayBack
  <2> QED BY <2>1 DEF OrderShipments
<1> QED BY SpecKept, <1>1, PTL

-----------------------------------------------------------------------------
(* Types, whatever rules are kept. *)

LEMMA ShapeOfOrders ==
  ASSUME Shape, NEW o \in Orders,
         \/ CreateSalesOrder(o)
         \/ \E s \in {"draft", "closed"} : SetSalesOrderStatus(o, s)
  PROVE  Shape'
<1>1. orders' \in [Orders -> Status]
  BY DEF CreateSalesOrder, SetSalesOrderStatus, Shape, Status
<1> QED BY <1>1 DEF CreateSalesOrder, SetSalesOrderStatus, Shape, Made

Asking(c) ==
  \/ \E o \in Orders : AskToAddLine(c, o) \/ AskToConfirm(c, o) \/ AskToCancel(c, o)
  \/ \E k \in OrderLines : AskToRemoveLine(c, k)
  \/ \E o \in Orders \cup {NoOrder} : AskToShip(c, o)
  \/ \E h \in Shipments : AskToPick(c, h)
  \/ \E p \in Picks : AskToUnpick(c, p)

LEMMA Asked ==
  ASSUME Shape, NEW c \in Clerks, Asking(c) \/ Refuse(c)
  PROVE  /\ UNCHANGED <<orders, lines, shipments, picks, lots, removals>>
         /\ \E x \in Task \cup {NoTask} :
              /\ task' = [task EXCEPT ![c] = x]
              /\ x # NoTask /\ x.op = "add" => Editable(x.on)
<1>1. CASE Refuse(c)
  BY <1>1 DEF Refuse, End
<1>2. CASE \E o \in Orders : AskToAddLine(c, o)
  <2>1. PICK o \in Orders : AskToAddLine(c, o)
    BY <1>2
  <2>2. PICK x : x = [op |-> "add", on |-> o]
    OBVIOUS
  <2>3. x \in Task /\ x.on = o /\ Editable(o)
    BY <2>1, <2>2 DEF Task, AskToAddLine
  <2>4. task' = [task EXCEPT ![c] = x]
    BY <2>1, <2>2 DEF AskToAddLine, Begin
  <2> QED BY <2>1, <2>3, <2>4 DEF AskToAddLine
<1>3. CASE \E x \in Task : /\ x.op # "add" /\ task' = [task EXCEPT ![c] = x]
                           /\ UNCHANGED <<orders, lines, shipments, picks, lots, removals>>
  BY <1>3
<1>4. ASSUME NEW op, NEW on, [op |-> op, on |-> on] \in Task, op # "add", Begin(c, op, on),
             UNCHANGED <<orders, lines, shipments, picks, lots, removals>>
      PROVE  \E x \in Task : /\ x.op # "add" /\ task' = [task EXCEPT ![c] = x]
                             /\ UNCHANGED <<orders, lines, shipments, picks, lots, removals>>
  <2>1. PICK x : x = [op |-> op, on |-> on]
    OBVIOUS
  <2>2. x \in Task /\ x.op # "add"
    BY <1>4, <2>1
  <2>3. task' = [task EXCEPT ![c] = x]
    BY <1>4, <2>1 DEF Begin
  <2> QED BY <1>4, <2>2, <2>3
<1>5. /\ \A o \in Orders : /\ [op |-> "confirmed", on |-> o] \in Task
                           /\ [op |-> "cancelled", on |-> o] \in Task
      /\ \A k \in OrderLines : [op |-> "remove", on |-> k] \in Task
      /\ \A o \in Orders \cup {NoOrder} : [op |-> "open", on |-> o] \in Task
      /\ \A h \in Shipments : [op |-> "pick", on |-> h] \in Task
      /\ \A p \in Picks : [op |-> "unpick", on |-> p] \in Task
  BY DEF Task
<1>6. CASE \E o \in Orders : AskToConfirm(c, o)
  BY <1>3, <1>4, <1>5, <1>6 DEF AskToConfirm
<1>7. CASE \E o \in Orders : AskToCancel(c, o)
  BY <1>3, <1>4, <1>5, <1>7 DEF AskToCancel
<1>8. CASE \E k \in OrderLines : AskToRemoveLine(c, k)
  BY <1>3, <1>4, <1>5, <1>8 DEF AskToRemoveLine
<1>9. CASE \E o \in Orders \cup {NoOrder} : AskToShip(c, o)
  BY <1>3, <1>4, <1>5, <1>9 DEF AskToShip
<1>10. CASE \E h \in Shipments : AskToPick(c, h)
  BY <1>3, <1>4, <1>5, <1>10 DEF AskToPick
<1>11. CASE \E p \in Picks : AskToUnpick(c, p)
  BY <1>3, <1>4, <1>5, <1>11 DEF AskToUnpick
<1> QED BY <1>1, <1>2, <1>6, <1>7, <1>8, <1>9, <1>10, <1>11 DEF Asking

LEMMA ShapeOfTasks ==
  ASSUME Shape, NEW c \in Clerks, Asking(c) \/ Refuse(c)
  PROVE  Shape'
<1>1. UNCHANGED <<orders, lines, shipments, picks, lots, removals>>
  BY Asked
<1>2. PICK x \in Task \cup {NoTask} : task' = [task EXCEPT ![c] = x]
  BY Asked
<1> QED BY <1>1, <1>2 DEF Shape, Made

LEMMA Ended ==
  ASSUME Shape, NEW c \in Clerks, End(c)
  PROVE  /\ task' \in [Clerks -> Task \cup {NoTask}]
         /\ \A d \in Clerks : task'[d] = task[d] \/ task'[d] = NoTask
BY DEF Shape, End

LEMMA ShapeOfAnswers ==
  ASSUME Shape, NEW c \in Clerks,
         \/ ConfirmOrCancel(c)
         \/ \E k \in OrderLines : AddSalesOrderLine(c, k)
         \/ \E h \in Shipments : CreateShipment(c, h)
  PROVE  Shape'
<1>1. CASE ConfirmOrCancel(c)
  <2>1. PICK o, s : o = task[c].on /\ s = task[c].op
    OBVIOUS
  <2>2. o \in Orders /\ s \in Status
    BY <1>1, <2>1, TaskOn DEF ConfirmOrCancel, Idle, Status
  <2>3. orders' = [orders EXCEPT ![o] = s]
    BY <1>1, <2>1 DEF ConfirmOrCancel
  <2>4. orders' \in [Orders -> Status]
    BY <2>2, <2>3 DEF Shape
  <2> QED BY <1>1, <2>4, Ended DEF ConfirmOrCancel, Shape, Made
<1>2. CASE \E k \in OrderLines : AddSalesOrderLine(c, k)
  <2>1. PICK k \in OrderLines : AddSalesOrderLine(c, k)
    BY <1>2
  <2>2. lines' \in [OrderLines -> Nat \cup {NotThere}]
    BY <2>1 DEF AddSalesOrderLine, Shape
  <2> QED BY <2>1, <2>2, Ended DEF AddSalesOrderLine, Shape, Made
<1>3. CASE \E h \in Shipments : CreateShipment(c, h)
  <2>1. PICK h \in Shipments : CreateShipment(c, h)
    BY <1>3
  <2>2. [status |-> "picking", order |-> task[c].on] \in Shipment
    BY <2>1, TaskOn DEF CreateShipment, Idle, Shipment
  <2>3. shipments' \in [Shipments -> Shipment]
    BY <2>1, <2>2 DEF CreateShipment, Shape
  <2> QED BY <2>1, <2>3, Ended DEF CreateShipment, Shape, Made
<1> QED BY <1>1, <1>2, <1>3

LEMMA ShapeOfRemovedLine ==
  ASSUME Shape, NEW c \in Clerks, RemoveSalesOrderLine(c)
  PROVE  Shape'
<1>1. PICK k : k = task[c].on
  OBVIOUS
<1>2. k \in OrderLines
  BY <1>1, TaskOn DEF RemoveSalesOrderLine, Idle
<1>3. /\ lines' = [lines EXCEPT ![k] = NotThere]
      /\ picks' = [p \in Picks |-> IF p \in Made /\ picks[p].line = k
                                   THEN [picks[p] EXCEPT !.line = NoLine] ELSE picks[p]]
  BY <1>1 DEF RemoveSalesOrderLine
<1>4. lines' \in [OrderLines -> Nat \cup {NotThere}]
  BY <1>2, <1>3 DEF Shape
<1>5. \A p \in Made : [picks[p] EXCEPT !.line = NoLine] \in Pick
  <2> SUFFICES ASSUME NEW p \in Made PROVE [picks[p] EXCEPT !.line = NoLine] \in Pick
    OBVIOUS
  <2>1. picks[p] \in Pick
    BY PickFields
  <2> QED BY <2>1 DEF Pick
<1>6. \A p \in Picks : /\ picks'[p] \in Pick \cup {NoPick}
                       /\ picks'[p] = NoPick <=> picks[p] = NoPick
  <2> SUFFICES ASSUME NEW p \in Picks
               PROVE  /\ picks'[p] \in Pick \cup {NoPick}
                      /\ picks'[p] = NoPick <=> picks[p] = NoPick
    OBVIOUS
  <2>1. CASE p \in Made /\ picks[p].line = k
    <3>1. picks'[p] \in Pick
      BY <1>3, <1>5, <2>1
    <3> QED BY <2>1, <3>1, ShippingAssumption DEF Made
  <2>2. CASE ~(p \in Made /\ picks[p].line = k)
    BY <1>3, <2>2 DEF Shape
  <2> QED BY <2>1, <2>2
<1>7. picks' \in [Picks -> Pick \cup {NoPick}] /\ Made' = Made
  <2>1. picks' \in [Picks -> Pick \cup {NoPick}]
    BY <1>3, <1>6
  <2> QED BY <1>6, <2>1 DEF Made
<1> QED BY <1>4, <1>7, Ended DEF RemoveSalesOrderLine, Shape

LEMMA ShapeOfPick ==
  ASSUME Shape, NEW c \in Clerks, NEW p \in Picks, NEW l \in Lots, NEW n \in Quantities,
         NEW k \in OrderLines \cup {NoLine}, AddShipmentLine(c, p, l, n, k)
  PROVE  Shape'
<1>1. PICK h : h = task[c].on
  OBVIOUS
<1>2. h \in Shipments /\ n \in Nat
  BY <1>1, TaskOn, ShippingAssumption DEF AddShipmentLine, Idle
<1>3. PICK x : x = [shipment |-> h, line |-> k, lot |-> l, bottles |-> n, removal |-> 0]
  OBVIOUS
<1>4. x \in Pick
  BY <1>2, <1>3 DEF Pick
<1>5. picks' = [picks EXCEPT ![p] = x]
  BY <1>1, <1>3 DEF AddShipmentLine
<1>6. picks' \in [Picks -> Pick \cup {NoPick}]
  BY <1>4, <1>5 DEF Shape
<1>7. IsFiniteSet(Made')
  <2>1. Made' \in SUBSET (Made \cup {p})
    BY <1>5 DEF Made, Shape
  <2>2. IsFiniteSet(Made \cup {p})
    BY FS_AddElement DEF Shape
  <2> QED BY <2>1, <2>2, FS_Subset
<1> QED BY <1>6, <1>7, Ended DEF AddShipmentLine, Shape

LEMMA ShapeOfUnpick ==
  ASSUME Shape, NEW c \in Clerks, RemoveShipmentLine(c)
  PROVE  Shape'
<1>1. PICK p : p = task[c].on
  OBVIOUS
<1>2. picks' = [picks EXCEPT ![p] = NoPick]
  BY <1>1 DEF RemoveShipmentLine
<1>3. picks' \in [Picks -> Pick \cup {NoPick}]
  BY <1>2 DEF Shape
<1>4. IsFiniteSet(Made')
  <2>1. Made' \in SUBSET Made
    BY <1>2 DEF Made, Shape
  <2> QED BY <2>1, FS_Subset DEF Shape
<1> QED BY <1>3, <1>4, Ended DEF RemoveShipmentLine, Shape

LEMMA ShapeOfCancelled ==
  ASSUME Shape, NEW h \in Shipments, CancelShipment(h)
  PROVE  Shape'
<1>1. [shipments[h] EXCEPT !.status = "cancelled"] \in Shipment
  <2>1. shipments[h] \in Shipment
    BY DEF Shape
  <2> QED BY <2>1 DEF Shipment
<1>2. shipments' = [shipments EXCEPT ![h] = [shipments[h] EXCEPT !.status = "cancelled"]]
  BY DEF CancelShipment, Shape
<1>3. shipments' \in [Shipments -> Shipment]
  BY <1>1, <1>2 DEF Shape
<1> QED BY <1>3 DEF CancelShipment, Shape, Made

LEMMA ShapeOfShipped ==
  ASSUME Shape, NEW h \in Shipments, ShipShipment(h)
  PROVE  Shape'
<1>1. PICK S : S = PicksOf(h)
  OBVIOUS
<1>2. picks' \in [Picks -> Pick \cup {NoPick}] /\ Made' = Made
  BY <1>1, PicksSent
<1>3. removals' \in Seq(Removal)
  BY <1>1, RemovalsMade
<1>4. lines' \in [OrderLines -> Nat \cup {NotThere}]
  BY LinesGrow
<1>5. orders' \in [Orders -> Status]
  BY OrderAdvanced
<1>6. shipments' \in [Shipments -> Shipment]
  BY ShipmentSent
<1>7. lots' \in [Lots -> Lot]
  <2>1. ASSUME NEW l \in Lots PROVE lots'[l] \in Lot
    <3>1. PICK B : B = PicksFrom(l, S)
      OBVIOUS
    <3>2. B \in SUBSET Made
      BY <1>1, <3>1 DEF PicksFrom, PicksOf
    <3>3. PICK n : n = PickedOnShipment(h, l)
      OBVIOUS
    <3>4. n = Total(picks, B)
      BY <1>1, <3>1, <3>3 DEF PickedOnShipment, Bottles, Total
    <3>5. n \in Nat
      BY <3>2, <3>4, MadeCountable, TotalNat
    <3>6. lots[l] \in Lot /\ lots[l].onHand \in Nat
      BY DEF Shape, Lot
    <3>7. n <= lots[l].onHand
      <4>1. CASE B = {}
        BY <3>4, <3>5, <3>6, <4>1, TotalNone
      <4>2. CASE B # {}
        BY <1>1, <3>1, <3>3, <4>2 DEF ShipShipment, MayLeave
      <4> QED BY <4>1, <4>2
    <3>8. lots'[l] = [lots[l] EXCEPT !.onHand = lots[l].onHand - n]
      BY <3>3 DEF ShipShipment
    <3>9. lots[l].onHand - n \in Nat
      BY <3>5, <3>6, <3>7
    <3> QED BY <3>6, <3>8, <3>9 DEF Lot
  <2>2. lots' = [l \in Lots |-> lots'[l]]
    BY DEF ShipShipment
  <2> QED BY <2>1, <2>2
<1>8. UNCHANGED task
  BY DEF ShipShipment
<1> QED BY <1>2, <1>3, <1>4, <1>5, <1>6, <1>7, <1>8 DEF Shape

LEMMA ShapeOfLots ==
  ASSUME Shape,
         \/ \E l \in Lots : SetHold(l) \/ \E n \in Quantities : RecordRemoval(l, n)
         \/ \E r \in DOMAIN removals : VoidRemoval(r)
  PROVE  Shape'
<1>1. CASE \E l \in Lots : SetHold(l)
  <2>1. PICK l \in Lots : SetHold(l)
    BY <1>1
  <2>2. [lots[l] EXCEPT !.held = ~lots[l].held] \in Lot
    <3>1. lots[l] \in Lot
      BY DEF Shape
    <3> QED BY <3>1 DEF Lot
  <2>3. lots' = [lots EXCEPT ![l] = [lots[l] EXCEPT !.held = ~lots[l].held]]
    BY <2>1 DEF SetHold, Shape
  <2>4. lots' \in [Lots -> Lot]
    BY <2>2, <2>3 DEF Shape
  <2> QED BY <2>1, <2>4 DEF SetHold, Shape, Made
<1>2. CASE \E l \in Lots : \E n \in Quantities : RecordRemoval(l, n)
  <2>1. PICK l \in Lots, n \in Quantities : RecordRemoval(l, n)
    BY <1>2
  <2>2. n \in Nat
    BY ShippingAssumption
  <2>3. PICK y : y = [lots[l] EXCEPT !.onHand = lots[l].onHand - n]
    OBVIOUS
  <2>4. lots' = [lots EXCEPT ![l] = y] /\ n <= lots[l].onHand /\ lots[l] \in Lot
    BY <2>1, <2>3 DEF RecordRemoval, Shape
  <2>5. y \in Lot
    BY <2>2, <2>3, <2>4 DEF Lot
  <2>6. lots' \in [Lots -> Lot]
    BY <2>4, <2>5 DEF Shape
  <2>7. PICK x : x = [shipment |-> NoPick, lot |-> l, bottles |-> n, voided |-> FALSE]
    OBVIOUS
  <2>8. x \in Removal
    BY <2>2, <2>7 DEF Removal
  <2>9. removals' = Append(removals, x) /\ removals \in Seq(Removal)
    BY <2>1, <2>7 DEF RecordRemoval, Shape
  <2>10. removals' \in Seq(Removal)
    BY <2>8, <2>9
  <2> QED BY <2>1, <2>6, <2>10 DEF RecordRemoval, Shape, Made
<1>3. CASE \E r \in DOMAIN removals : VoidRemoval(r)
  <2>1. PICK r \in DOMAIN removals : VoidRemoval(r)
    BY <1>3
  <2>2. removals[r] \in Removal /\ removals \in Seq(Removal)
    BY DEF Shape
  <2>3. PICK x : x = [removals[r] EXCEPT !.voided = TRUE]
    OBVIOUS
  <2>4. x \in Removal
    BY <2>2, <2>3 DEF Removal
  <2>5. removals' = [removals EXCEPT ![r] = x]
    BY <2>1, <2>2, <2>3 DEF VoidRemoval, Removal
  <2>6. removals' \in Seq(Removal)
    BY <2>2, <2>4, <2>5
  <2>7. PICK l, n : l = removals[r].lot /\ n = removals[r].bottles
    OBVIOUS
  <2>8. l \in Lots /\ lots[l] \in Lot /\ n \in Nat
    BY <2>2, <2>7 DEF Shape, Removal
  <2>9. [lots[l] EXCEPT !.onHand = lots[l].onHand + n] \in Lot
    BY <2>8 DEF Lot
  <2>10. lots' = [lots EXCEPT ![l] = [lots[l] EXCEPT !.onHand = lots[l].onHand + n]]
    BY <2>1, <2>7, <2>8 DEF VoidRemoval, Shape
  <2>11. lots' \in [Lots -> Lot]
    BY <2>9, <2>10 DEF Shape
  <2> QED BY <2>1, <2>6, <2>11 DEF VoidRemoval, Shape, Made
<1> QED BY <1>1, <1>2, <1>3

-----------------------------------------------------------------------------
(* What is owed. *)

\* Nobody is about to add a line to an order that has shipped.
NoneAdding ==
  \A c \in Clerks : task[c] # NoTask /\ task[c].op = "add" => orders[task[c].on] # "shipped"

Owing == Shape /\ NoneAdding /\ ShippedOwesNothing

\* Steps that show no more orders as shipped, and owe no more.
LEMMA OwesNoMore ==
  ASSUME Owing, Shape',
         \A o \in Orders : orders'[o] = "shipped" => orders[o] = "shipped",
         \A k \in OrderLines : There(k)' => There(k) /\ lines'[k] = lines[k],
         \A d \in Clerks : task'[d] # NoTask /\ task'[d].op = "add" =>
           task'[d] = task[d] \/ orders[task'[d].on] # "shipped"
  PROVE  Owing'
<1>1. NoneAdding'
  <2> SUFFICES ASSUME NEW d \in Clerks, task'[d] # NoTask, task'[d].op = "add"
               PROVE  orders'[task'[d].on] # "shipped"
    BY DEF NoneAdding
  <2>1. task'[d] \in Task
    BY DEF Shape
  <2>2. task'[d].on \in Orders
    BY <2>1, TaskFields
  <2> QED BY <2>2 DEF Owing, NoneAdding
<1>2. ShippedOwesNothing'
  BY DEF Owing, ShippedOwesNothing, NothingOutstanding, LinesOf
<1> QED BY <1>1, <1>2 DEF Owing

LEMMA OwingByAdd ==
  ASSUME Owing, NEW c \in Clerks, NEW k \in OrderLines, AddSalesOrderLine(c, k)
  PROVE  Owing'
<1>1. Shape'
  BY ShapeOfAnswers DEF Owing
<1>2. /\ UNCHANGED orders /\ orders[OrderOf[k]] # "shipped"
      /\ \A j \in OrderLines : j # k => lines'[j] = lines[j]
  BY DEF AddSalesOrderLine, Idle, Owing, NoneAdding, Shape
<1>3. \A d \in Clerks : task'[d] = task[d] \/ task'[d] = NoTask
  BY Ended DEF AddSalesOrderLine, Owing
<1>4. NoneAdding'
  BY <1>2, <1>3 DEF Owing, NoneAdding
<1>5. ShippedOwesNothing'
  BY <1>2 DEF Owing, ShippedOwesNothing, NothingOutstanding, LinesOf, There
<1> QED BY <1>1, <1>4, <1>5 DEF Owing

LEMMA OwingByShip ==
  ASSUME Owing, NEW h \in Shipments, ShipShipment(h), LinesComplete(shipments[h].order)
  PROVE  Owing'
<1>1. Shape'
  BY ShapeOfShipped DEF Owing
<1>2. PICK o : o = shipments[h].order
  OBVIOUS
<1>3. \A x \in Orders : orders'[x] = "shipped" =>
        orders[x] = "shipped" \/ (x = o /\ NothingOutstanding(o, lines'))
  BY <1>2, OrderAdvanced DEF Owing
<1>4. \A k \in OrderLines : /\ There(k)' <=> There(k)
                            /\ lines'[k] >= lines[k]
                            /\ lines[k] \in Int /\ lines'[k] \in Int
  BY <1>1, LinesGrow DEF Owing, Shape, NotThere
<1>5. \A x : LinesOf(x)' = LinesOf(x)
  BY <1>4 DEF LinesOf
<1>6. ShippedOwesNothing'
  <2> SUFFICES ASSUME NEW x \in Orders, orders'[x] = "shipped", NEW k \in LinesOf(x)
               PROVE  lines'[k] >= Ordered[k]
    BY <1>5 DEF ShippedOwesNothing, NothingOutstanding
  <2>1. k \in OrderLines /\ Ordered[k] \in Nat
    BY ShippingAssumption DEF LinesOf
  <2>2. CASE orders[x] = "shipped"
    <3>1. lines[k] >= Ordered[k]
      BY <2>2 DEF Owing, ShippedOwesNothing, NothingOutstanding
    <3> QED BY <1>4, <2>1, <3>1
  <2>3. CASE x = o /\ NothingOutstanding(o, lines')
    BY <2>3 DEF NothingOutstanding
  <2> QED BY <1>3, <2>2, <2>3
<1>7. NoneAdding'
  <2> SUFFICES ASSUME NEW c \in Clerks, task[c] # NoTask, task[c].op = "add"
               PROVE  orders'[task[c].on] # "shipped"
    BY DEF NoneAdding, ShipShipment
  <2>1. task[c].on \in Orders /\ task[c] = [op |-> "add", on |-> task[c].on]
    BY TaskOn, TaskFields DEF Idle, Owing
  <2>2. task[c].on # o
    BY <1>2, <2>1 DEF LinesComplete, InHand
  <2>3. orders[task[c].on] # "shipped"
    BY DEF Owing, NoneAdding
  <2> QED BY <1>3, <2>1, <2>2, <2>3
<1> QED BY <1>1, <1>6, <1>7 DEF Owing

LEMMA LinesStay ==
  ASSUME Shape, NEW c \in Clerks, RemoveSalesOrderLine(c)
  PROVE  \A j \in OrderLines : There(j)' => There(j) /\ lines'[j] = lines[j]
<1>1. PICK k : k = task[c].on
  OBVIOUS
<1>2. lines' = [lines EXCEPT ![k] = NotThere] /\ k \in OrderLines
  BY <1>1, TaskOn DEF RemoveSalesOrderLine, Idle
<1>3. /\ lines' \in [OrderLines -> Nat \cup {NotThere}] /\ lines'[k] = NotThere
      /\ \A j \in OrderLines : j # k => lines'[j] = lines[j]
  BY <1>2 DEF Shape
<1> QED BY <1>3 DEF There, NotThere

LEMMA OwingNext == "lines first" \in Careful /\ Owing /\ [Next]_vars => Owing'
<1> SUFFICES ASSUME "lines first" \in Careful, Owing, [Next]_vars PROVE Owing'
  OBVIOUS
<1>0. Shape
  BY DEF Owing
<1>1. CASE UNCHANGED vars
  BY <1>1 DEF vars, Owing, Shape, Made, NoneAdding, ShippedOwesNothing, NothingOutstanding,
              LinesOf, There
<1>2. ASSUME NEW o \in Orders,
             \/ CreateSalesOrder(o)
             \/ \E s \in {"draft", "closed"} : SetSalesOrderStatus(o, s)
      PROVE  Owing'
  <2>1. Shape'
    BY <1>0, <1>2, ShapeOfOrders
  <2>2. /\ UNCHANGED <<lines, task>>
        /\ \A x \in Orders : orders'[x] = "shipped" => orders[x] = "shipped"
    BY <1>0, <1>2 DEF CreateSalesOrder, SetSalesOrderStatus, Shape
  <2> QED BY <2>1, <2>2, OwesNoMore DEF There
<1>3. ASSUME NEW h \in Shipments, ShipShipment(h) PROVE Owing'
  <2>1. LinesComplete(shipments[h].order)
    BY <1>3 DEF ShipShipment
  <2> QED BY <1>3, <2>1, OwingByShip
<1>4. ASSUME NEW h \in Shipments, CancelShipment(h) PROVE Owing'
  <2>1. Shape' /\ UNCHANGED <<orders, lines, task>>
    BY <1>0, <1>4, ShapeOfCancelled DEF CancelShipment
  <2> QED BY <2>1, OwesNoMore DEF There
<1>5. ASSUME NEW c \in Clerks, Asking(c) \/ Refuse(c) PROVE Owing'
  <2>1. Shape' /\ UNCHANGED <<orders, lines>>
    BY <1>0, <1>5, ShapeOfTasks, Asked
  <2>2. PICK x \in Task \cup {NoTask} : /\ task' = [task EXCEPT ![c] = x]
                                        /\ x # NoTask /\ x.op = "add" => Editable(x.on)
    BY <1>0, <1>5, Asked
  <2>3. \A d \in Clerks : task'[d] = task[d] \/ task'[d] = x
    BY <1>0, <2>2 DEF Shape
  <2>4. \A d \in Clerks : task'[d] # NoTask /\ task'[d].op = "add" =>
          task'[d] = task[d] \/ orders[task'[d].on] # "shipped"
    BY <2>2, <2>3 DEF Editable
  <2> QED BY <2>1, <2>4, OwesNoMore DEF There
<1>6. ASSUME NEW c \in Clerks, NEW k \in OrderLines, AddSalesOrderLine(c, k) PROVE Owing'
  BY <1>6, OwingByAdd
<1>7. ASSUME NEW c \in Clerks, ConfirmOrCancel(c) PROVE Owing'
  <2>1. Shape' /\ UNCHANGED lines
    BY <1>0, <1>7, ShapeOfAnswers DEF ConfirmOrCancel
  <2>2. \A d \in Clerks : task'[d] = task[d] \/ task'[d] = NoTask
    BY <1>0, <1>7, Ended DEF ConfirmOrCancel
  <2>3. \A x \in Orders : orders'[x] = "shipped" => orders[x] = "shipped"
    BY <1>0, <1>7 DEF ConfirmOrCancel, Shape
  <2> QED BY <2>1, <2>2, <2>3, OwesNoMore DEF There
<1>8. ASSUME NEW c \in Clerks, RemoveSalesOrderLine(c) PROVE Owing'
  <2>1. Shape' /\ UNCHANGED orders
    BY <1>0, <1>8, ShapeOfRemovedLine DEF RemoveSalesOrderLine
  <2>2. \A d \in Clerks : task'[d] = task[d] \/ task'[d] = NoTask
    BY <1>0, <1>8, Ended DEF RemoveSalesOrderLine
  <2>3. \A j \in OrderLines : There(j)' => There(j) /\ lines'[j] = lines[j]
    BY <1>0, <1>8, LinesStay
  <2> QED BY <2>1, <2>2, <2>3, OwesNoMore
<1>9. ASSUME NEW c \in Clerks,
             \/ RemoveShipmentLine(c)
             \/ \E h \in Shipments : CreateShipment(c, h)
             \/ \E p \in Picks, l \in Lots, n \in Quantities, k \in OrderLines \cup {NoLine} :
                  AddShipmentLine(c, p, l, n, k)
      PROVE  Owing'
  <2>1. Shape'
    BY <1>0, <1>9, ShapeOfUnpick, ShapeOfAnswers, ShapeOfPick
  <2>2. UNCHANGED <<orders, lines>> /\ End(c)
    BY <1>9 DEF RemoveShipmentLine, CreateShipment, AddShipmentLine
  <2>3. \A d \in Clerks : task'[d] = task[d] \/ task'[d] = NoTask
    BY <1>0, <2>2, Ended
  <2> QED BY <2>1, <2>2, <2>3, OwesNoMore DEF There
<1>10. ASSUME \/ \E l \in Lots : SetHold(l) \/ \E n \in Quantities : RecordRemoval(l, n)
              \/ \E r \in DOMAIN removals : VoidRemoval(r)
       PROVE  Owing'
  <2>1. Shape'
    BY <1>0, <1>10, ShapeOfLots
  <2>2. UNCHANGED <<orders, lines, task>>
    BY <1>10 DEF SetHold, RecordRemoval, VoidRemoval
  <2> QED BY <2>1, <2>2, OwesNoMore DEF There
<1>11. Next => Owing'
  BY <1>2, <1>3, <1>4, <1>5, <1>6, <1>7, <1>8, <1>9, <1>10 DEF Next, Asking
<1> QED BY <1>1, <1>11

\* advanceOrderAfterShipment shows an order as shipped when nothing is owed on it, and
\* assertOrderEditable keeps it so: whatever else operators do, of orders to which no
\* line is being added while a shipment of them goes.
THEOREM ShippedOrdersOweNothing ==
  ASSUME "lines first" \in Careful PROVE Spec => []ShippedOwesNothing
<1>1. Init => Owing
  BY ShapeInit DEF Init, Owing, NoneAdding, ShippedOwesNothing
<1>2. "lines first" \in Careful
  OBVIOUS
<1>3. Owing /\ [Next]_vars => Owing'
  BY <1>2, OwingNext
<1>4. Owing => ShippedOwesNothing
  BY DEF Owing
<1> QED BY <1>1, <1>3, <1>4, PTL DEF Spec

=============================================================================
