---------------------------- MODULE Till_proofs ----------------------------
(***************************************************************************)
(* Theorems about Till: any sales, lots, clerks and quantities, for        *)
(* operators who post from one screen at a time.                           *)
(***************************************************************************)
EXTENDS Till, Sums, SequenceTheorems, WellFoundedInduction, NaturalsInduction

-----------------------------------------------------------------------------
(* The invariant. *)

Lot == [onHand : Nat, held : BOOLEAN]

Shape ==
  /\ sales \in [Sales -> {"unseen", "pending", "posted", "rejected", "ignored"}]
  /\ lots \in [Lots -> Lot]
  /\ removals \in Seq(Removal)
  /\ batch \in [Clerks -> Batch \cup {NoBatch}]

\* The sales a sequence of removals is of, and the removals of a lot.
SalesOf(rows) == {rows[i].sale : i \in DOMAIN rows}
Of(rows, l) == {i \in DOMAIN rows : rows[i].lot = l}

\* No sale is removed twice.
OneByOne(rows) == \A i, j \in DOMAIN rows : rows[i].sale = rows[j].sale => i = j

\* A batch takes its sales one by one.
Orderly(b) ==
  /\ b.todo \cap b.rejected = {}
  /\ (b.todo \cup b.rejected) \cap SalesOf(b.rows) = {}
  /\ OneByOne(b.rows)
  /\ \A i \in DOMAIN b.rows : ~b.rows[i].voided
  /\ b.lot # NoLot => b.todo # {}

Owned(b) == b.todo \cup b.rejected \cup SalesOf(b.rows)

\* The sales of a batch are pending until it commits, or nobody has seen them.
Claims(b, status) ==
  IF b.fresh = {} THEN \A s \in Owned(b) : status[s] = "pending"
  ELSE Owned(b) \subseteq b.fresh /\ \A s \in b.fresh : status[s] = "unseen"

\* What it has recorded of a lot was there, and nobody takes of it meanwhile.
Covered(b, stock) ==
  \A l \in Lots : Of(b.rows, l) # {} => Bottles(b.rows, Of(b.rows, l)) <= stock[l].onHand

\* No two batches are of one sale, and one at a time has the removal numbers.
Apart(b, d) ==
  /\ b.fresh \cap d.fresh = {}
  /\ b.fresh # {} \/ d.fresh # {}
  /\ b.rows = << >> \/ d.rows = << >>

Batches ==
  /\ \A c \in InHand : /\ Orderly(batch[c])
                       /\ Claims(batch[c], sales)
                       /\ Covered(batch[c], lots)
  /\ \A c, d \in InHand : c # d => Apart(batch[c], batch[d])

Explained == OneByOne(removals) /\ TakingsExplained

Kept == Shape /\ Batches /\ Explained /\ StockAgrees

-----------------------------------------------------------------------------
(* Helpers. *)

LEMMA LeastOf ==
  ASSUME NEW S, S \subseteq Nat, S # {}
  PROVE  Min(S) \in S
<1>1. PICK m \in S : \A y \in S : ~(<<y, m>> \in OpToRel(<, Nat))
  BY NatLessThanWellFounded, WFMin
<1>2. m \in Nat /\ \A y \in S : y \in Nat /\ ~(y < m)
  BY <1>1 DEF OpToRel
<1>3. \E x \in S : \A y \in S : x <= y
  BY <1>2
<1>4. QED
  BY <1>3 DEF Min

LEMMA BatchFields ==
  ASSUME NEW b \in Batch
  PROVE  /\ b.todo \subseteq Sales /\ b.fresh \subseteq Sales /\ b.rejected \subseteq Sales
         /\ b.lot \in Lots \cup {NoLot} /\ b.rows \in Seq(Removal)
         /\ b = [todo |-> b.todo, fresh |-> b.fresh, lot |-> b.lot, rows |-> b.rows,
                 rejected |-> b.rejected]
         /\ b # NoBatch
  BY TillAssumption DEF Batch

LEMMA RowFields ==
  ASSUME NEW rows \in Seq(Removal)
  PROVE  /\ \A i \in DOMAIN rows : /\ rows[i] \in Removal
                                   /\ rows[i].sale \in Sales /\ rows[i].lot \in Lots
                                   /\ rows[i].bottles \in Nat /\ rows[i].voided \in BOOLEAN
         /\ SalesOf(rows) \subseteq Sales
         /\ Len(rows) \in Nat
         /\ DOMAIN rows = 1..Len(rows)
         /\ IsFiniteSet(DOMAIN rows)
<1>1. \A i \in DOMAIN rows : rows[i] \in Removal
  OBVIOUS
<1>2. DOMAIN rows = 1..Len(rows) /\ Len(rows) \in Nat
  OBVIOUS
<1>3. IsFiniteSet(1..Len(rows))
  BY <1>2, FS_Interval
<1>4. \A i \in DOMAIN rows : /\ rows[i].sale \in Sales /\ rows[i].lot \in Lots
                            /\ rows[i].bottles \in Nat /\ rows[i].voided \in BOOLEAN
  BY <1>1 DEF Removal
<1>5. SalesOf(rows) \subseteq Sales
  BY <1>4 DEF SalesOf
<1>6. IsFiniteSet(DOMAIN rows)
  BY <1>2, <1>3
<1>7. QED
  BY <1>1, <1>2, <1>4, <1>5, <1>6

LEMMA BottlesNat ==
  ASSUME NEW rows \in Seq(Removal), NEW S \in SUBSET DOMAIN rows
  PROVE  Bottles(rows, S) \in Nat
<1>1. PICK f : f = [i \in DOMAIN rows |-> rows[i].bottles]
  OBVIOUS
<1>2. IsFiniteSet(S) /\ \A i \in S : f[i] \in Nat
  BY <1>1, RowFields, FS_Subset
<1>3. SumFunctionOnSet(f, S) \in Nat
  BY <1>2, SumNat
<1>4. QED
  BY <1>1, <1>3 DEF Bottles

LEMMA NoBottles ==
  ASSUME NEW rows
  PROVE  Bottles(rows, {}) = 0
  BY SumEmpty DEF Bottles

\* A removal recorded last.
Longer(rows, e, more) == rows \in Seq(Removal) /\ e \in Removal /\ more = Append(rows, e)

LEMMA SalesAdded ==
  ASSUME NEW rows, NEW e, NEW more, Longer(rows, e, more)
  PROVE  more \in Seq(Removal) /\ SalesOf(more) = SalesOf(rows) \cup {e.sale}
<1>1. PICK n : n = Len(rows) + 1
  OBVIOUS
<1>2. /\ more \in Seq(Removal) /\ DOMAIN rows = 1..Len(rows) /\ DOMAIN more = 1..n
      /\ Len(rows) \in Nat /\ more[n] = e /\ \A i \in 1..Len(rows) : more[i] = rows[i]
  BY <1>1 DEF Longer
<1>3. DOMAIN more = DOMAIN rows \cup {n}
  BY <1>1, <1>2
<1>4. \A i \in DOMAIN more : more[i] = IF i = n THEN e ELSE rows[i]
  BY <1>2, <1>3
<1>5. n \notin DOMAIN rows
  BY <1>1, <1>2
<1>6. SalesOf(more) = SalesOf(rows) \cup {e.sale}
  BY <1>3, <1>4, <1>5 DEF SalesOf
<1>7. QED
  BY <1>2, <1>6

LEMMA BottlesAdded ==
  ASSUME NEW rows, NEW e, NEW more, NEW l, Longer(rows, e, more)
  PROVE  /\ e.lot = l => Bottles(more, Of(more, l)) = Bottles(rows, Of(rows, l)) + e.bottles
         /\ e.lot # l => Bottles(more, Of(more, l)) = Bottles(rows, Of(rows, l))
<1>0. rows \in Seq(Removal) /\ e \in Removal /\ more = Append(rows, e)
  BY DEF Longer
<1> USE <1>0
<1>1. PICK f : f = [i \in DOMAIN rows |-> rows[i].bottles]
  OBVIOUS
<1>2. PICK g : g = [i \in DOMAIN more |-> more[i].bottles]
  OBVIOUS
<1>3. PICK n : n = Len(rows) + 1
  OBVIOUS
<1>4. /\ more \in Seq(Removal) /\ Len(rows) \in Nat
      /\ DOMAIN rows = 1..Len(rows) /\ DOMAIN more = 1..n
      /\ more[n] = e /\ \A i \in 1..Len(rows) : more[i] = rows[i]
  BY <1>3
<1>5. DOMAIN more = DOMAIN rows \cup {n} /\ n \notin DOMAIN rows
  BY <1>3, <1>4
<1>6. IsFiniteSet(Of(rows, l)) /\ Of(rows, l) \subseteq DOMAIN rows
  BY RowFields, FS_Subset DEF Of
<1>7. /\ \A i \in Of(rows, l) : f[i] \in Int /\ g[i] = f[i]
      /\ n \notin Of(rows, l) /\ g[n] = e.bottles /\ g[n] \in Int
  <2>1. \A i \in DOMAIN rows : rows[i].bottles \in Nat
    BY RowFields
  <2>2. e.bottles \in Nat
    BY DEF Removal
  <2>3. \A i \in DOMAIN rows : f[i] = rows[i].bottles /\ i \in DOMAIN more /\ more[i] = rows[i]
    BY <1>1, <1>4, <1>5
  <2>4. \A i \in DOMAIN more : g[i] = more[i].bottles
    BY <1>2
  <2>5. QED
    BY <1>4, <1>5, <1>6, <2>1, <2>2, <2>3, <2>4
<1>8. Of(more, l) = Of(rows, l) \cup (IF e.lot = l THEN {n} ELSE {})
  BY <1>4, <1>5 DEF Of
<1>9. Bottles(rows, Of(rows, l)) = SumFunctionOnSet(f, Of(rows, l))
       /\ Bottles(more, Of(more, l)) = SumFunctionOnSet(g, Of(more, l))
  BY <1>1, <1>2 DEF Bottles
<1>10. CASE e.lot = l
  <2>1. SumFunctionOnSet(g, Of(rows, l) \cup {n}) = SumFunctionOnSet(f, Of(rows, l)) + g[n]
    <3>1. PICK R : R = Of(rows, l)
      OBVIOUS
    <3>2. IsFiniteSet(R) /\ (\A i \in R : f[i] \in Int /\ g[i] = f[i]) /\ n \notin R /\ g[n] \in Int
      BY <1>6, <1>7, <3>1
    <3>3. SumFunctionOnSet(g, R \cup {n}) = SumFunctionOnSet(f, R) + g[n]
      BY <3>2, SumGrown
    <3>4. QED
      BY <3>1, <3>3
  <2>2. Of(more, l) = Of(rows, l) \cup {n}
    BY <1>8, <1>10
  <2>3. SumFunctionOnSet(g, Of(more, l)) = SumFunctionOnSet(f, Of(rows, l)) + e.bottles
    BY <1>7, <2>1, <2>2
  <2>4. QED
    BY <1>4, <1>6, <1>9, <1>10, <2>3
<1>11. CASE e.lot # l
  <2>1. Of(more, l) = Of(rows, l)
    BY <1>8, <1>11
  <2>2. SumFunctionOnSet(g, Of(rows, l)) = SumFunctionOnSet(f, Of(rows, l))
    BY <1>6, <1>7, SumSame
  <2>3. SumFunctionOnSet(g, Of(more, l)) = SumFunctionOnSet(f, Of(rows, l))
    BY <2>1, <2>2
  <2>4. Bottles(rows, Of(rows, l)) \in Int /\ Bottles(more, Of(more, l)) = Bottles(rows, Of(rows, l))
    <3>1. Bottles(rows, Of(rows, l)) \in Nat
      BY <1>6, BottlesNat
    <3>2. QED
      BY <1>9, <2>3, <3>1
  <2>5. QED
    BY <1>4, <1>6, <1>11, <2>4
<1>12. QED
  BY <1>10, <1>11

LEMMA BottlesEach ==
  ASSUME NEW rows, NEW e, NEW more, Longer(rows, e, more)
  PROVE  \A l : /\ e.lot = l => Bottles(more, Of(more, l)) = Bottles(rows, Of(rows, l)) + e.bottles
                /\ e.lot # l => Bottles(more, Of(more, l)) = Bottles(rows, Of(rows, l))
  BY BottlesAdded

\* The removals of a lot that stand.
Standing(rows, l) == {i \in DOMAIN rows : rows[i].lot = l /\ ~rows[i].voided}

\* The removals of a batch, recorded after the others.
LEMMA SeqTogether ==
  ASSUME NEW done \in Seq(Removal), NEW rows \in Seq(Removal), NEW all, all = done \o rows
  PROVE  /\ all \in Seq(Removal)
         /\ \A i \in DOMAIN done : i \in DOMAIN all /\ all[i] = done[i]
         /\ \A i \in DOMAIN rows : i + Len(done) \in DOMAIN all /\ all[i + Len(done)] = rows[i]
                                  /\ i + Len(done) \notin DOMAIN done
         /\ \A i \in DOMAIN all : i \notin DOMAIN done =>
              i - Len(done) \in DOMAIN rows /\ (i - Len(done)) + Len(done) = i
<1>1. /\ all \in Seq(Removal) /\ Len(all) = Len(done) + Len(rows)
      /\ \A i \in 1..(Len(done) + Len(rows)) :
           all[i] = IF i <= Len(done) THEN done[i] ELSE rows[i - Len(done)]
  BY ConcatProperties
<1>2. /\ DOMAIN done = 1..Len(done) /\ DOMAIN rows = 1..Len(rows) /\ DOMAIN all = 1..Len(all)
      /\ Len(done) \in Nat /\ Len(rows) \in Nat
  BY <1>1
<1>3. ASSUME NEW i \in DOMAIN rows
      PROVE  /\ i + Len(done) \in DOMAIN all /\ all[i + Len(done)] = rows[i]
             /\ i + Len(done) \notin DOMAIN done
  <2>1. i \in Nat /\ i >= 1 /\ i <= Len(rows)
    BY <1>2
  <2>2. PICK k : k = i + Len(done)
    OBVIOUS
  <2>3. k \in 1..(Len(done) + Len(rows)) /\ ~(k <= Len(done)) /\ k - Len(done) = i
    BY <1>2, <2>1, <2>2
  <2>4. all[k] = rows[i]
    BY <1>1, <2>3
  <2>5. QED
    BY <1>1, <1>2, <2>2, <2>3, <2>4
<1>4. QED
  BY <1>1, <1>2, <1>3

LEMMA SalesTogether ==
  ASSUME NEW done \in Seq(Removal), NEW rows \in Seq(Removal), NEW all, all = done \o rows,
         OneByOne(done), OneByOne(rows), SalesOf(done) \cap SalesOf(rows) = {}
  PROVE  OneByOne(all) /\ SalesOf(all) = SalesOf(done) \cup SalesOf(rows)
<1>1. PICK n : n = Len(done)
  OBVIOUS
<1>2. /\ \A i \in DOMAIN done : i \in DOMAIN all /\ all[i] = done[i]
      /\ \A i \in DOMAIN rows : i + n \in DOMAIN all /\ all[i + n] = rows[i]
      /\ \A i \in DOMAIN all : i \notin DOMAIN done =>
           i - n \in DOMAIN rows /\ (i - n) + n = i
  BY <1>1, SeqTogether
<1>3. ASSUME NEW i \in DOMAIN all, i \notin DOMAIN done
      PROVE  i - n \in DOMAIN rows /\ all[i] = rows[i - n] /\ (i - n) + n = i
  <2>1. PICK k : k = i - n
    OBVIOUS
  <2>2. k \in DOMAIN rows /\ k + n = i
    BY <1>2, <1>3, <2>1
  <2>3. all[k + n] = rows[k]
    BY <1>2, <2>2
  <2>4. QED
    BY <2>1, <2>2, <2>3
<1>4. SalesOf(all) = SalesOf(done) \cup SalesOf(rows)
  <2>1. SalesOf(all) \subseteq SalesOf(done) \cup SalesOf(rows)
    <3>1. \A i \in DOMAIN all : all[i].sale \in SalesOf(done) \cup SalesOf(rows)
      BY <1>2, <1>3 DEF SalesOf
    <3>2. QED
      BY <3>1 DEF SalesOf
  <2>2. SalesOf(done) \subseteq SalesOf(all)
    BY <1>2 DEF SalesOf
  <2>3. ASSUME NEW i \in DOMAIN rows PROVE rows[i].sale \in SalesOf(all)
    <3>1. PICK k \in DOMAIN all : all[k] = rows[i]
      BY <1>2
    <3>2. QED
      BY <3>1 DEF SalesOf
  <2>4. SalesOf(rows) \subseteq SalesOf(all)
    BY <2>3 DEF SalesOf
  <2>5. QED
    BY <2>1, <2>2, <2>4
<1>5. ASSUME NEW i \in DOMAIN all, NEW j \in DOMAIN all, all[i].sale = all[j].sale PROVE i = j
  <2>1. CASE i \in DOMAIN done /\ j \in DOMAIN done
    BY <1>2, <1>5, <2>1 DEF OneByOne
  <2>2. CASE i \in DOMAIN done /\ j \notin DOMAIN done
    <3>1. all[j] = rows[j - n] /\ j - n \in DOMAIN rows /\ all[i] = done[i]
      BY <1>3, <1>2, <2>2
    <3>2. all[j].sale \in SalesOf(rows) /\ all[i].sale \in SalesOf(done)
      BY <2>2, <3>1 DEF SalesOf
    <3>3. QED
      BY <1>5, <3>2
  <2>3. CASE i \notin DOMAIN done /\ j \in DOMAIN done
    <3>1. all[i] = rows[i - n] /\ i - n \in DOMAIN rows /\ all[j] = done[j]
      BY <1>3, <1>2, <2>3
    <3>2. all[i].sale \in SalesOf(rows) /\ all[j].sale \in SalesOf(done)
      BY <2>3, <3>1 DEF SalesOf
    <3>3. QED
      BY <1>5, <3>2
  <2>4. CASE i \notin DOMAIN done /\ j \notin DOMAIN done
    <3>1. /\ all[i] = rows[i - n] /\ i - n \in DOMAIN rows /\ (i - n) + n = i
          /\ all[j] = rows[j - n] /\ j - n \in DOMAIN rows /\ (j - n) + n = j
      BY <1>3, <2>4
    <3>2. i - n = j - n
      BY <1>5, <3>1 DEF OneByOne
    <3>3. QED
      BY <3>1, <3>2
  <2>5. QED
    BY <2>1, <2>2, <2>3, <2>4
<1>6. QED
  BY <1>4, <1>5 DEF OneByOne

Followed(done, rows, all) ==
  /\ done \in Seq(Removal) /\ rows \in Seq(Removal) /\ all = done \o rows
  /\ \A i \in DOMAIN rows : ~rows[i].voided

LEMMA BottlesTogether ==
  ASSUME NEW done, NEW rows, NEW all, Followed(done, rows, all)
  PROVE  \A l : Bottles(all, Standing(all, l)) =
                  Bottles(done, Standing(done, l)) + Bottles(rows, Of(rows, l))
<1>0. /\ done \in Seq(Removal) /\ rows \in Seq(Removal) /\ all = done \o rows
      /\ \A i \in DOMAIN rows : ~rows[i].voided
  BY DEF Followed
<1> USE <1>0
<1> SUFFICES ASSUME NEW l
             PROVE  Bottles(all, Standing(all, l)) =
                      Bottles(done, Standing(done, l)) + Bottles(rows, Of(rows, l))
  OBVIOUS
<1>1. PICK n : n = Len(done)
  OBVIOUS
<1>2. /\ \A i \in DOMAIN done : i \in DOMAIN all /\ all[i] = done[i]
      /\ \A i \in DOMAIN rows : /\ i + n \in DOMAIN all /\ all[i + n] = rows[i]
                               /\ i + n \notin DOMAIN done
      /\ \A i \in DOMAIN all : i \notin DOMAIN done =>
           i - n \in DOMAIN rows /\ (i - n) + n = i
      /\ all \in Seq(Removal)
  BY <1>1, SeqTogether
<1>3. PICK f : f = [i \in DOMAIN done |-> done[i].bottles]
  OBVIOUS
<1>4. PICK g : g = [i \in DOMAIN rows |-> rows[i].bottles]
  OBVIOUS
<1>5. PICK h : h = [i \in DOMAIN all |-> all[i].bottles]
  OBVIOUS
<1>6. PICK S : S = Standing(done, l)
  OBVIOUS
<1>7. PICK R : R = Of(rows, l)
  OBVIOUS
<1>8. PICK T : T = Standing(all, l) \ S
  OBVIOUS
<1>9. /\ S \subseteq DOMAIN done /\ S \subseteq Standing(all, l) /\ R \subseteq DOMAIN rows
      /\ IsFiniteSet(S) /\ IsFiniteSet(R) /\ IsFiniteSet(T)
      /\ Standing(all, l) \subseteq DOMAIN all
  <2>1. S \subseteq DOMAIN done /\ R \subseteq DOMAIN rows /\ Standing(all, l) \subseteq DOMAIN all
    BY <1>6, <1>7 DEF Standing, Of
  <2>2. S \subseteq Standing(all, l)
    BY <1>2, <1>6 DEF Standing
  <2>3. T \subseteq DOMAIN all
    BY <1>8, <2>1
  <2>4. QED
    BY <1>2, <2>1, <2>2, <2>3, RowFields, FS_Subset
<1>10. T = {i \in DOMAIN all : i \notin DOMAIN done /\ i - n \in R}
  <2>1. ASSUME NEW i \in DOMAIN all, i \notin DOMAIN done
        PROVE  i \in Standing(all, l) <=> i - n \in R
    <3>1. i - n \in DOMAIN rows /\ all[i] = rows[i - n]
      BY <1>2, <2>1
    <3>2. QED
      BY <1>7, <3>1 DEF Standing, Of
  <2>2. \A i \in DOMAIN done : i \in Standing(all, l) => i \in S
    BY <1>2, <1>6 DEF Standing
  <2>3. QED
    BY <1>8, <1>9, <2>1, <2>2
<1>11. \A i \in DOMAIN all : h[i] = all[i].bottles /\ h[i] \in Int
  BY <1>2, <1>5, RowFields
<1>12. \A i \in DOMAIN rows : g[i] = rows[i].bottles /\ g[i] \in Int
  BY <1>4, RowFields
<1>13. \A i \in DOMAIN done : f[i] = done[i].bottles /\ f[i] \in Int
  BY <1>3, RowFields
<1>14. SumFunctionOnSet(h, S) = SumFunctionOnSet(f, S)
  <2>1. \A i \in S : h[i] = f[i]
    BY <1>2, <1>9, <1>11, <1>13
  <2>2. QED
    BY <1>9, <2>1, SumSame
<1>15. SumFunctionOnSet(h, T) = SumFunctionOnSet(g, R)
  <2>1. n \in Int /\ IsFiniteSet(R)
    BY <1>1, <1>9, RowFields
  <2>2. ASSUME NEW x \in R
        PROVE  x \in Int /\ x + n \in T /\ g[x] \in Int /\ h[x + n] = g[x]
    <3>1. x \in DOMAIN rows /\ x + n \in DOMAIN all /\ x + n \notin DOMAIN done
          /\ all[x + n] = rows[x]
      BY <1>2, <1>9
    <3>2. x \in Int /\ (x + n) - n = x
      BY <2>1, <3>1, RowFields
    <3>3. QED
      BY <1>10, <1>11, <1>12, <3>1, <3>2
  <2>3. \A z \in T : \E x \in R : x + n = z
    BY <1>2, <1>10
  <2>4. \A x \in R : x \in Int /\ x + n \in T /\ g[x] \in Int /\ h[x + n] = g[x]
    BY <2>2
  <2>5. Shifted(g, R, h, T, n)
    BY <2>1, <2>3, <2>4 DEF Shifted
  <2>6. QED
    BY <2>5, SumShifted
<1>16. SumFunctionOnSet(h, S \cup T) = SumFunctionOnSet(h, S) + SumFunctionOnSet(h, T)
  <2>1. S \cap T = {} /\ \A x \in S \cup T : h[x] \in Int
    BY <1>8, <1>9, <1>11
  <2>2. QED
    BY <1>9, <2>1, SumUnion
<1>17. S \cup T = Standing(all, l)
  BY <1>8, <1>9
<1>18. Bottles(all, Standing(all, l)) = SumFunctionOnSet(h, S \cup T)
  BY <1>5, <1>17 DEF Bottles
<1>19. /\ Bottles(done, Standing(done, l)) = SumFunctionOnSet(f, S)
       /\ Bottles(rows, Of(rows, l)) = SumFunctionOnSet(g, R)
  BY <1>3, <1>4, <1>6, <1>7 DEF Bottles
<1>20. QED
  BY <1>14, <1>15, <1>16, <1>18, <1>19

\* Removals of which only others have been voided.
LEMMA BottlesUnchanged ==
  ASSUME NEW rows \in Seq(Removal), NEW more \in Seq(Removal), DOMAIN more = DOMAIN rows,
         \A i \in DOMAIN rows : more[i].bottles = rows[i].bottles,
         NEW S \in SUBSET DOMAIN rows
  PROVE  Bottles(more, S) = Bottles(rows, S)
<1>1. PICK f : f = [i \in DOMAIN rows |-> rows[i].bottles]
  OBVIOUS
<1>2. PICK g : g = [i \in DOMAIN more |-> more[i].bottles]
  OBVIOUS
<1>3. IsFiniteSet(S) /\ \A i \in S : g[i] = f[i]
  BY <1>1, <1>2, RowFields, FS_Subset
<1>4. SumFunctionOnSet(g, S) = SumFunctionOnSet(f, S)
  BY <1>3, SumSame
<1>5. QED
  BY <1>1, <1>2, <1>4 DEF Bottles

\* A removal taken out of those that stand.
LEMMA BottlesLess ==
  ASSUME NEW rows \in Seq(Removal), NEW S \in SUBSET DOMAIN rows, NEW r \in S
  PROVE  Bottles(rows, S) = rows[r].bottles + Bottles(rows, S \ {r})
<1>1. PICK f : f = [i \in DOMAIN rows |-> rows[i].bottles]
  OBVIOUS
<1>2. IsFiniteSet(S) /\ \A i \in S : f[i] \in Int
  BY <1>1, RowFields, FS_Subset
<1>3. SumFunctionOnSet(f, S) = f[r] + SumFunctionOnSet(f, S \ {r})
  BY <1>2, SumTake
<1>4. QED
  BY <1>1, <1>3 DEF Bottles

\* What a batch has is what these definitions say of it.
LEMMA InTheirTerms ==
  ASSUME NEW c
  PROVE  /\ Posted(c) = SalesOf(batch[c].rows)
         /\ \A l : Sold(c, l) = Of(batch[c].rows, l)
         /\ \A l : OnHand(c, l) = lots[l].onHand - Bottles(batch[c].rows, Of(batch[c].rows, l))
         /\ \A s : Touched(c, s) <=> s \in batch[c].fresh \cup batch[c].rejected
                                             \cup SalesOf(batch[c].rows)
  BY DEF Posted, Sold, OnHand, Touched, SalesOf, Of

\* One batch moves on, and nobody sees it.
LEMMA BatchMoves ==
  ASSUME Kept, NEW c \in Clerks, NEW b \in Batch, batch' = [batch EXCEPT ![c] = b],
         UNCHANGED <<sales, lots, removals>>,
         Orderly(b), Claims(b, sales), Covered(b, lots),
         \A d \in InHand \ {c} : Apart(b, batch[d])
  PROVE  Kept'
<1>1. Shape'
  BY DEF Kept, Shape
<1>2. /\ \A d \in Clerks : batch'[d] = IF d = c THEN b ELSE batch[d]
      /\ InHand' = InHand \cup {c}
  BY BatchFields DEF Kept, Shape, InHand
<1>3. \A d \in InHand' : d = c \/ (d \in InHand /\ batch'[d] = batch[d])
  BY <1>2 DEF InHand
<1>4. ASSUME NEW d \in InHand'
      PROVE  Orderly(batch'[d]) /\ Claims(batch'[d], sales') /\ Covered(batch'[d], lots')
  <2>1. CASE d = c
    BY <1>2, <2>1
  <2>2. CASE d # c
    BY <1>3, <2>2 DEF Kept, Batches
  <2>3. QED
    BY <2>1, <2>2
<1>5. ASSUME NEW d \in InHand', NEW e \in InHand', d # e
      PROVE  Apart(batch'[d], batch'[e])
  <2>1. CASE d = c
    BY <1>2, <1>3, <1>5, <2>1
  <2>2. CASE e = c
    <3>1. Apart(b, batch[d])
      BY <1>3, <1>5, <2>2
    <3>2. Apart(batch[d], b)
      BY <3>1 DEF Apart
    <3>3. QED
      BY <1>2, <1>3, <1>5, <2>2, <3>2
  <2>3. CASE d # c /\ e # c
    BY <1>3, <1>5, <2>3 DEF Kept, Batches
  <2>4. QED
    BY <2>1, <2>2, <2>3
<1>6. Batches'
  BY <1>4, <1>5 DEF Batches
<1>7. Explained' /\ StockAgrees'
  BY DEF Kept, Explained, TakingsExplained, OneByOne, StockAgrees, Removals
<1>8. QED
  BY <1>1, <1>6, <1>7 DEF Kept

\* What a batch that has begun has done: nothing.
LEMMA Begun ==
  ASSUME NEW S \in SUBSET Sales, NEW fresh \in SUBSET Sales
  PROVE  /\ Starting(S, fresh) \in Batch
         /\ Orderly(Starting(S, fresh)) /\ Owned(Starting(S, fresh)) = S
         /\ \A stock : Covered(Starting(S, fresh), stock)
         /\ Starting(S, fresh).fresh = fresh /\ Starting(S, fresh).rows = << >>
<1>1. PICK b : b = Starting(S, fresh)
  OBVIOUS
<1>2. /\ b.todo = S /\ b.fresh = fresh /\ b.lot = NoLot /\ b.rows = << >> /\ b.rejected = {}
      /\ b = [todo |-> S, fresh |-> fresh, lot |-> NoLot, rows |-> << >>, rejected |-> {}]
  BY <1>1 DEF Starting
<1>3. << >> \in Seq(Removal) /\ DOMAIN b.rows = {}
  BY <1>2
<1>4. b \in Batch
  BY <1>2, <1>3 DEF Batch
<1>5. SalesOf(b.rows) = {} /\ \A l : Of(b.rows, l) = {}
  BY <1>3 DEF SalesOf, Of
<1>6. Orderly(b) /\ Owned(b) = S /\ \A stock : Covered(b, stock)
  BY <1>2, <1>3, <1>5 DEF Orderly, Owned, Covered, OneByOne
<1>7. QED
  BY <1>1, <1>2, <1>4, <1>6

\* The sale a batch has come to is rejected.
LEMMA Rejected ==
  ASSUME NEW c \in Clerks, batch[c] \in Batch, Orderly(batch[c]), NEW s \in batch[c].todo
  PROVE  /\ Rejecting(c, s) \in Batch
         /\ Orderly(Rejecting(c, s)) /\ Owned(Rejecting(c, s)) = Owned(batch[c])
         /\ Rejecting(c, s).fresh = batch[c].fresh /\ Rejecting(c, s).rows = batch[c].rows
<1>1. PICK b : b = Rejecting(c, s)
  OBVIOUS
<1>2. PICK a : a = batch[c]
  OBVIOUS
<1>3. b = [todo |-> a.todo \ {s}, fresh |-> a.fresh, lot |-> NoLot, rows |-> a.rows,
           rejected |-> a.rejected \cup {s}]
  <2>1. b = [a EXCEPT !.todo = a.todo \ {s}, !.lot = NoLot, !.rejected = a.rejected \cup {s}]
    BY <1>1, <1>2 DEF Rejecting
  <2>2. a \in Batch
    BY <1>2
  <2>3. QED
    BY <2>1, <2>2 DEF Batch
<1>4. /\ b.todo = a.todo \ {s} /\ b.fresh = a.fresh /\ b.lot = NoLot /\ b.rows = a.rows
      /\ b.rejected = a.rejected \cup {s}
  BY <1>3
<1>5. b \in Batch
  BY <1>2, <1>3, BatchFields DEF Batch
<1>6. Orderly(b)
  BY <1>2, <1>4 DEF Orderly
<1>7. Owned(b) = Owned(a)
  BY <1>2, <1>4 DEF Owned
<1>8. QED
  BY <1>1, <1>2, <1>4, <1>5, <1>6, <1>7

\* Its removal is recorded.
LEMMA Recorded ==
  ASSUME NEW c \in Clerks, batch[c] \in Batch, Orderly(batch[c]), NEW s \in batch[c].todo,
         NEW l \in Lots
  PROVE  /\ Posting(c, s, l) \in Batch
         /\ Orderly(Posting(c, s, l)) /\ Owned(Posting(c, s, l)) = Owned(batch[c])
         /\ Posting(c, s, l).fresh = batch[c].fresh
         /\ Bottles(Posting(c, s, l).rows, Of(Posting(c, s, l).rows, l)) =
              Bottles(batch[c].rows, Of(batch[c].rows, l)) + Quantity[s]
         /\ \A k : k # l => /\ Of(Posting(c, s, l).rows, k) = Of(batch[c].rows, k)
                            /\ Bottles(Posting(c, s, l).rows, Of(Posting(c, s, l).rows, k)) =
                                 Bottles(batch[c].rows, Of(batch[c].rows, k))
<1>1. PICK b : b = Posting(c, s, l)
  OBVIOUS
<1>2. PICK a : a = batch[c]
  OBVIOUS
<1>3. PICK e : e = [sale |-> s, lot |-> l, bottles |-> Quantity[s], voided |-> FALSE]
  OBVIOUS
<1>4. b = [todo |-> a.todo \ {s}, fresh |-> a.fresh, lot |-> NoLot,
           rows |-> Append(a.rows, e), rejected |-> a.rejected]
  <2>1. b = [a EXCEPT !.todo = a.todo \ {s}, !.lot = NoLot, !.rows = Append(a.rows, e)]
    BY <1>1, <1>2, <1>3 DEF Posting
  <2>2. a \in Batch
    BY <1>2
  <2>3. QED
    BY <2>1, <2>2 DEF Batch
<1>5. /\ b.todo = a.todo \ {s} /\ b.fresh = a.fresh /\ b.lot = NoLot
      /\ b.rows = Append(a.rows, e) /\ b.rejected = a.rejected
  BY <1>4
<1>6. s \in Sales /\ Quantity[s] \in Nat /\ a.rows \in Seq(Removal) /\ a \in Batch
  BY <1>2, BatchFields, TillAssumption
<1>7. e \in Removal /\ e.sale = s /\ e.lot = l /\ e.bottles = Quantity[s] /\ ~e.voided
  BY <1>3, <1>6 DEF Removal
<1>8. /\ b.rows \in Seq(Removal) /\ SalesOf(b.rows) = SalesOf(a.rows) \cup {s}
      /\ \A k : /\ l = k => Bottles(b.rows, Of(b.rows, k)) =
                              Bottles(a.rows, Of(a.rows, k)) + Quantity[s]
                /\ l # k => Bottles(b.rows, Of(b.rows, k)) = Bottles(a.rows, Of(a.rows, k))
  <2>1. Longer(a.rows, e, b.rows)
    BY <1>5, <1>6, <1>7 DEF Longer
  <2>2. b.rows \in Seq(Removal) /\ SalesOf(b.rows) = SalesOf(a.rows) \cup {e.sale}
    BY <2>1, SalesAdded
  <2>3. \A k : /\ e.lot = k => Bottles(b.rows, Of(b.rows, k)) =
                                 Bottles(a.rows, Of(a.rows, k)) + e.bottles
               /\ e.lot # k => Bottles(b.rows, Of(b.rows, k)) = Bottles(a.rows, Of(a.rows, k))
    BY <2>1, BottlesEach
  <2>4. QED
    BY <1>7, <2>2, <2>3
<1>9. b \in Batch
  BY <1>2, <1>4, <1>5, <1>8, BatchFields DEF Batch
<1>10. PICK n : n = Len(a.rows) + 1
  OBVIOUS
<1>11. /\ DOMAIN b.rows = DOMAIN a.rows \cup {n} /\ n \notin DOMAIN a.rows
       /\ b.rows[n] = e /\ \A i \in DOMAIN a.rows : b.rows[i] = a.rows[i]
  BY <1>5, <1>6, <1>7, <1>10
<1>12. OneByOne(b.rows) /\ \A i \in DOMAIN b.rows : ~b.rows[i].voided
  <2>1. /\ OneByOne(a.rows) /\ \A i \in DOMAIN a.rows : ~a.rows[i].voided
        /\ \A i \in DOMAIN a.rows : a.rows[i].sale # s
    BY <1>2 DEF Orderly, SalesOf
  <2>2. QED
    BY <1>7, <1>11, <2>1 DEF OneByOne
<1>13. Orderly(b)
  BY <1>2, <1>5, <1>8, <1>12 DEF Orderly
<1>14. Owned(b) = Owned(a)
  BY <1>2, <1>5, <1>8 DEF Owned
<1>15. \A k : k # l => Of(b.rows, k) = Of(a.rows, k)
  BY <1>7, <1>11 DEF Of
<1>16. QED
  BY <1>1, <1>2, <1>5, <1>8, <1>9, <1>13, <1>14, <1>15

LEMMA InHandFacts ==
  ASSUME Kept, NEW c \in InHand
  PROVE  /\ c \in Clerks /\ batch[c] \in Batch /\ Orderly(batch[c])
         /\ Claims(batch[c], sales) /\ Covered(batch[c], lots)
         /\ batch[c].rows \in Seq(Removal)
         /\ batch[c].todo \subseteq Sales /\ batch[c].fresh \subseteq Sales
         /\ batch[c].rejected \subseteq Sales /\ batch[c].lot \in Lots \cup {NoLot}
         /\ Owned(batch[c]) \subseteq Sales
<1>1. c \in Clerks /\ batch[c] \in Batch
  BY DEF Kept, Shape, InHand
<1>2. Orderly(batch[c]) /\ Claims(batch[c], sales) /\ Covered(batch[c], lots)
  BY DEF Kept, Batches
<1>3. /\ batch[c].rows \in Seq(Removal)
      /\ batch[c].todo \subseteq Sales /\ batch[c].fresh \subseteq Sales
      /\ batch[c].rejected \subseteq Sales /\ batch[c].lot \in Lots \cup {NoLot}
  BY <1>1, BatchFields
<1>4. SalesOf(batch[c].rows) \subseteq Sales
  BY <1>3, RowFields
<1>5. QED
  BY <1>1, <1>2, <1>3, <1>4 DEF Owned

\* The status of some sales changes; none comes to be posted or ceases to be.
LEMMA SalesMove ==
  ASSUME Kept, UNCHANGED <<lots, removals, batch>>,
         sales' \in [Sales -> {"unseen", "pending", "posted", "rejected", "ignored"}],
         \A s \in Sales : sales'[s] = "posted" <=> sales[s] = "posted",
         \A c \in InHand : Claims(batch[c], sales')
  PROVE  Kept'
<1>1. Shape'
  BY DEF Kept, Shape
<1>2. Batches'
  BY DEF Kept, Batches, InHand
<1>3. Explained'
  BY DEF Kept, Explained, TakingsExplained, OneByOne, Removals
<1>4. StockAgrees'
  BY DEF Kept, StockAgrees
<1>5. QED
  BY <1>1, <1>2, <1>3, <1>4 DEF Kept

LEMMA IngestKeeps ==
  ASSUME Kept, NEW c \in Clerks, NEW S \in SUBSET Sales, IngestPOSSales(c, S)
  PROVE  Kept'
<1>1. /\ batch[c] = NoBatch
      /\ \A d \in InHand : S \cap batch[d].fresh = {}
      /\ UNCHANGED <<lots, removals>>
  BY DEF IngestPOSSales
<1>2. CASE sales' = Insert(S) /\ UNCHANGED batch
  <2>1. /\ sales' \in [Sales -> {"unseen", "pending", "posted", "rejected", "ignored"}]
        /\ \A s \in Sales : sales'[s] = IF s \in S /\ sales[s] = "unseen" THEN "pending"
                                        ELSE sales[s]
    BY <1>2 DEF Insert, Kept, Shape
  <2>2. ASSUME NEW d \in InHand PROVE Claims(batch[d], sales')
    <3>1. /\ Claims(batch[d], sales) /\ Owned(batch[d]) \subseteq Sales
          /\ batch[d].fresh \subseteq Sales
      BY InHandFacts
    <3>2. QED
      BY <1>1, <2>1, <3>1 DEF Claims
  <2>3. QED
    BY <1>1, <1>2, <2>1, <2>2, SalesMove
<1>3. ASSUME NEW fresh \in SUBSET S, fresh # {}, \A s \in fresh : sales[s] = "unseen",
             batch' = [batch EXCEPT ![c] = Starting(fresh, fresh)], UNCHANGED sales
      PROVE  Kept'
  <2>1. PICK b : b = Starting(fresh, fresh)
    OBVIOUS
  <2>2. /\ b \in Batch /\ Orderly(b) /\ Owned(b) = fresh /\ Covered(b, lots)
        /\ b.fresh = fresh /\ b.rows = << >>
    BY <2>1, Begun
  <2>3. Claims(b, sales)
    BY <1>3, <2>2 DEF Claims
  <2>4. \A d \in InHand \ {c} : Apart(b, batch[d])
    BY <1>1, <1>3, <2>2 DEF Apart
  <2>5. QED
    BY <1>1, <1>3, <2>1, <2>2, <2>3, <2>4, BatchMoves
<1>4. QED
  BY <1>2, <1>3 DEF IngestPOSSales

LEMMA PostKeeps ==
  ASSUME Kept, Careful, NEW c \in Clerks, NEW wanted \in SUBSET Sales, PostPOSSales(c, wanted)
  PROVE  Kept'
<1>1. PICK b : b = Starting(Pending \cap wanted, {})
  OBVIOUS
<1>2. /\ \A d \in InHand : batch[d].fresh # {}
      /\ batch' = [batch EXCEPT ![c] = b] /\ UNCHANGED <<sales, lots, removals>>
  BY <1>1 DEF PostPOSSales, NobodyPosts
<1>3. /\ b \in Batch /\ Orderly(b) /\ Owned(b) = Pending \cap wanted /\ Covered(b, lots)
      /\ b.fresh = {} /\ b.rows = << >>
  BY <1>1, Begun
<1>4. Claims(b, sales)
  BY <1>3 DEF Claims, Pending
<1>5. \A d \in InHand \ {c} : Apart(b, batch[d])
  BY <1>2, <1>3 DEF Apart
<1>6. QED
  BY <1>2, <1>3, <1>4, <1>5, BatchMoves

\* A batch whose sales, and whose lots, are as they were.
LEMMA SameClaims ==
  ASSUME NEW a, NEW b, Owned(b) = Owned(a), b.fresh = a.fresh
  PROVE  /\ Claims(a, sales) => Claims(b, sales)
         /\ b.rows = a.rows /\ Covered(a, lots) => Covered(b, lots)
         /\ b.rows = a.rows => \A d : Apart(a, d) => Apart(b, d)
  BY DEF Claims, Covered, Apart

LEMMA FirstOfTodo ==
  ASSUME Kept, NEW c \in InHand, batch[c].todo # {}
  PROVE  Foremost(c) \in batch[c].todo
<1>1. batch[c].todo \subseteq Nat
  BY InHandFacts, TillAssumption
<1>2. QED
  BY <1>1, LeastOf DEF Foremost

LEMMA RejectKeeps ==
  ASSUME Kept, NEW c \in InHand, NEW s \in batch[c].todo,
         batch' = [batch EXCEPT ![c] = Rejecting(c, s)], UNCHANGED <<sales, lots, removals>>
  PROVE  Kept'
<1>1. PICK b : b = Rejecting(c, s)
  OBVIOUS
<1>2. c \in Clerks /\ batch[c] \in Batch /\ Orderly(batch[c])
      /\ Claims(batch[c], sales) /\ Covered(batch[c], lots)
  BY InHandFacts
<1>3. /\ b \in Batch /\ Orderly(b) /\ Owned(b) = Owned(batch[c])
      /\ b.fresh = batch[c].fresh /\ b.rows = batch[c].rows
  BY <1>1, <1>2, Rejected
<1>4. Claims(b, sales) /\ Covered(b, lots)
  BY <1>2, <1>3, SameClaims
<1>5. \A d \in InHand \ {c} : Apart(b, batch[d])
  BY <1>3 DEF Kept, Batches, Apart
<1>6. QED
  BY <1>1, <1>2, <1>3, <1>4, <1>5, BatchMoves

LEMMA ChooseKeeps ==
  ASSUME Kept, NEW c \in Clerks, Choose(c)
  PROVE  Kept'
<1>1. /\ c \in InHand /\ batch[c].todo # {}
      /\ UNCHANGED <<sales, lots, removals>>
  BY DEF Choose, InHand
<1>2. PICK s : s = Foremost(c)
  OBVIOUS
<1>3. PICK p : p = map[SkuOf[s]]
  OBVIOUS
<1>4. s \in batch[c].todo
  BY <1>1, <1>2, FirstOfTodo
<1>5. CASE batch' = [batch EXCEPT ![c] = Rejecting(c, s)]
  BY <1>1, <1>4, <1>5, RejectKeeps
<1>6. CASE /\ Candidates(c, p) # {}
           /\ batch' = [batch EXCEPT ![c].lot = Min(Candidates(c, p))]
  <2>1. PICK l : l = Min(Candidates(c, p))
    OBVIOUS
  <2>2. l \in Lots
    <3>1. Candidates(c, p) \subseteq Lots
      BY DEF Candidates
    <3>2. QED
      BY <1>6, <2>1, <3>1, LeastOf, TillAssumption
  <2>3. PICK a : a = batch[c]
    OBVIOUS
  <2>4. PICK b : b = [a EXCEPT !.lot = l]
    OBVIOUS
  <2>5. /\ a \in Batch /\ Orderly(a) /\ Claims(a, sales) /\ Covered(a, lots)
    BY <1>1, <2>3, InHandFacts
  <2>6. /\ b \in Batch /\ b.todo = a.todo /\ b.fresh = a.fresh /\ b.rows = a.rows
        /\ b.rejected = a.rejected
    BY <2>2, <2>4, <2>5 DEF Batch
  <2>7. Orderly(b) /\ Owned(b) = Owned(a)
    BY <1>1, <2>3, <2>5, <2>6 DEF Orderly, Owned
  <2>8. Claims(b, sales) /\ Covered(b, lots)
    BY <2>5, <2>6, <2>7, SameClaims
  <2>9. \A d \in InHand \ {c} : Apart(b, batch[d])
    BY <1>1, <2>3, <2>6 DEF Kept, Batches, Apart
  <2>10. batch' = [batch EXCEPT ![c] = b]
    BY <1>6, <2>1, <2>3, <2>4
  <2>11. QED
    BY <1>1, <2>6, <2>7, <2>8, <2>9, <2>10, BatchMoves
<1>7. QED
  BY <1>2, <1>3, <1>5, <1>6 DEF Choose

LEMMA RecordKeeps ==
  ASSUME Kept, NEW c \in Clerks, RecordRemoval(c)
  PROVE  Kept'
<1>1. /\ c \in InHand /\ batch[c].lot # NoLot
      /\ UNCHANGED <<sales, lots, removals>>
  BY DEF RecordRemoval, InHand
<1>2. PICK s : s = Foremost(c)
  OBVIOUS
<1>3. PICK l : l = batch[c].lot
  OBVIOUS
<1>4. PICK a : a = batch[c]
  OBVIOUS
<1>5. /\ a \in Batch /\ Orderly(a) /\ Claims(a, sales) /\ Covered(a, lots)
      /\ a.rows \in Seq(Removal) /\ l \in Lots /\ batch[c].todo \subseteq Sales
  BY <1>1, <1>3, <1>4, InHandFacts
<1>6. s \in batch[c].todo /\ s \in Sales
  <2>1. batch[c].todo # {}
    BY <1>1, <1>4, <1>5 DEF Orderly
  <2>2. QED
    BY <1>1, <1>2, <1>5, <2>1, FirstOfTodo
<1>7. CASE batch' = [batch EXCEPT ![c] = Rejecting(c, s)]
  BY <1>1, <1>6, <1>7, RejectKeeps
<1>8. CASE /\ s \notin LateSales /\ Enough(c, l, Quantity[s])
           /\ batch' = [batch EXCEPT ![c] = Posting(c, s, l)]
  <2>1. PICK b : b = Posting(c, s, l)
    OBVIOUS
  <2>2. /\ b \in Batch /\ Orderly(b) /\ Owned(b) = Owned(a) /\ b.fresh = a.fresh
        /\ Bottles(b.rows, Of(b.rows, l)) = Bottles(a.rows, Of(a.rows, l)) + Quantity[s]
        /\ \A k : k # l => /\ Of(b.rows, k) = Of(a.rows, k)
                           /\ Bottles(b.rows, Of(b.rows, k)) = Bottles(a.rows, Of(a.rows, k))
    <3>1. /\ batch[c] \in Batch /\ Orderly(batch[c]) /\ s \in batch[c].todo /\ l \in Lots
      BY <1>4, <1>5, <1>6
    <3>2. QED
      BY <1>4, <2>1, <3>1, Recorded
  <2>3. Covered(b, lots)
    <3>1. Bottles(a.rows, Of(a.rows, l)) \in Nat
      BY <1>5, BottlesNat DEF Of
    <3>2. lots[l].onHand \in Nat /\ Quantity[s] \in Nat
      BY <1>5, <1>6, TillAssumption DEF Kept, Shape, Lot
    <3>3. lots[l].onHand - Bottles(a.rows, Of(a.rows, l)) >= Quantity[s]
      BY <1>4, <1>8, InTheirTerms DEF Enough
    <3>4. Bottles(b.rows, Of(b.rows, l)) <= lots[l].onHand
      BY <2>2, <3>1, <3>2, <3>3
    <3>5. ASSUME NEW k \in Lots, k # l, Of(b.rows, k) # {}
          PROVE  Bottles(b.rows, Of(b.rows, k)) <= lots[k].onHand
      <4>1. Of(b.rows, k) = Of(a.rows, k)
            /\ Bottles(b.rows, Of(b.rows, k)) = Bottles(a.rows, Of(a.rows, k))
        BY <2>2, <3>5
      <4>2. Bottles(a.rows, Of(a.rows, k)) <= lots[k].onHand
        BY <1>5, <3>5, <4>1 DEF Covered
      <4>3. QED
        BY <4>1, <4>2
    <3>6. QED
      BY <3>4, <3>5 DEF Covered
  <2>4. Claims(b, sales)
    BY <1>5, <2>2, SameClaims
  <2>5. \A d \in InHand \ {c} : batch[d].rows = << >>
    <3>1. LocksFree(c, l)
      BY <1>2, <1>3, <1>8 DEF RecordRemoval
    <3>2. QED
      BY <3>1 DEF LocksFree, Numbering
  <2>6. \A d \in InHand \ {c} : Apart(b, batch[d])
    BY <1>1, <1>4, <2>2, <2>5 DEF Kept, Batches, Apart
  <2>7. QED
    BY <1>1, <1>8, <2>1, <2>2, <2>3, <2>4, <2>6, BatchMoves
<1>9. QED
  BY <1>2, <1>3, <1>7, <1>8 DEF RecordRemoval

\* A batch ends: the others are as they were.
LEMMA BatchEnds ==
  ASSUME Kept, NEW c \in InHand, batch' = [batch EXCEPT ![c] = NoBatch],
         \A d \in InHand \ {c} : Claims(batch[d], sales') /\ Covered(batch[d], lots')
  PROVE  batch' \in [Clerks -> Batch \cup {NoBatch}] /\ Batches'
<1>1. batch' \in [Clerks -> Batch \cup {NoBatch}]
  BY DEF Kept, Shape
<1>2. /\ InHand' = InHand \ {c}
      /\ \A d \in InHand' : d \in InHand \ {c} /\ batch'[d] = batch[d]
  BY DEF Kept, Shape, InHand
<1>3. ASSUME NEW d \in InHand'
      PROVE  Orderly(batch'[d]) /\ Claims(batch'[d], sales') /\ Covered(batch'[d], lots')
  BY <1>2 DEF Kept, Batches
<1>4. ASSUME NEW d \in InHand', NEW e \in InHand', d # e PROVE Apart(batch'[d], batch'[e])
  BY <1>2, <1>4 DEF Kept, Batches
<1>5. QED
  BY <1>1, <1>3, <1>4 DEF Batches

LEMMA RollBackKeeps ==
  ASSUME Kept, NEW c \in Clerks, RollBack(c)
  PROVE  Kept'
<1>1. /\ c \in InHand /\ batch' = [batch EXCEPT ![c] = NoBatch]
      /\ UNCHANGED <<sales, lots, removals>>
  BY DEF RollBack, InHand
<1>2. \A d \in InHand \ {c} : Claims(batch[d], sales') /\ Covered(batch[d], lots')
  BY <1>1, InHandFacts
<1>3. batch' \in [Clerks -> Batch \cup {NoBatch}] /\ Batches'
  BY <1>1, <1>2, BatchEnds
<1>4. Shape' /\ Explained' /\ StockAgrees'
  BY <1>1, <1>3 DEF Kept, Shape, Explained, TakingsExplained, OneByOne, Removals, StockAgrees
<1>5. QED
  BY <1>3, <1>4 DEF Kept

LEMMA RemovalsAre ==
  \A s : Removals(s) # {} <=> s \in SalesOf(removals)
  BY DEF Removals, SalesOf

LEMMA CommitKeeps ==
  ASSUME Kept, NEW c \in Clerks, Commit(c)
  PROVE  Kept'
<1>1. PICK b : b = batch[c]
  OBVIOUS
<1>2. /\ c \in InHand /\ b.todo = {}
      /\ batch' = [batch EXCEPT ![c] = NoBatch]
      /\ sales' = [s \in Sales |-> IF s \in batch[c].rejected \cup Posted(c)
                                   THEN Marked(c, s) ELSE sales[s]]
      /\ lots' = [l \in Lots |-> [lots[l] EXCEPT !.onHand = OnHand(c, l)]]
      /\ removals' = removals \o batch[c].rows
  BY <1>1 DEF Commit, InHand
<1>3. /\ b \in Batch /\ Orderly(b) /\ Claims(b, sales) /\ Covered(b, lots)
      /\ b.rows \in Seq(Removal) /\ removals \in Seq(Removal)
      /\ \A i \in DOMAIN b.rows : ~b.rows[i].voided
  <2>1. b \in Batch /\ Orderly(b) /\ Claims(b, sales) /\ Covered(b, lots)
        /\ b.rows \in Seq(Removal)
    BY <1>1, <1>2, InHandFacts
  <2>2. QED
    BY <2>1 DEF Kept, Shape, Orderly
<1>4. Posted(c) = SalesOf(b.rows) /\ SalesOf(b.rows) \subseteq Sales
      /\ SalesOf(b.rows) \cap b.rejected = {}
  BY <1>1, <1>3, InTheirTerms, RowFields DEF Orderly
<1>5. \A s \in Sales : sales'[s] = IF s \in b.rejected THEN "rejected"
                                   ELSE IF s \in SalesOf(b.rows) THEN "posted" ELSE sales[s]
  BY <1>1, <1>2, <1>4 DEF Marked
<1>6. \A s \in b.rejected \cup SalesOf(b.rows) :
        IF b.fresh = {} THEN sales[s] = "pending" ELSE s \in b.fresh /\ sales[s] = "unseen"
  BY <1>3 DEF Claims, Owned
<1>7. \A l \in Lots : /\ lots[l] \in Lot /\ lots[l].onHand \in Nat
                      /\ Bottles(b.rows, Of(b.rows, l)) \in Nat
                      /\ Bottles(b.rows, Of(b.rows, l)) <= lots[l].onHand
  <2>1. ASSUME NEW l \in Lots
        PROVE  /\ lots[l] \in Lot /\ lots[l].onHand \in Nat
               /\ Bottles(b.rows, Of(b.rows, l)) \in Nat
               /\ Bottles(b.rows, Of(b.rows, l)) <= lots[l].onHand
    <3>1. lots[l] \in Lot /\ lots[l].onHand \in Nat
      BY DEF Kept, Shape, Lot
    <3>2. Bottles(b.rows, Of(b.rows, l)) \in Nat
      BY <1>3, BottlesNat DEF Of
    <3>3. CASE Of(b.rows, l) = {}
      <4>1. Bottles(b.rows, Of(b.rows, l)) = 0
        BY <3>3, NoBottles
      <4>2. QED
        BY <3>1, <4>1
    <3>4. CASE Of(b.rows, l) # {}
      BY <1>3, <3>1, <3>2, <3>4 DEF Covered
    <3>5. QED
      BY <3>1, <3>2, <3>3, <3>4
  <2>2. QED
    BY <2>1
<1>8. \A l \in Lots : /\ lots'[l] \in Lot
                      /\ lots'[l].onHand = lots[l].onHand - Bottles(b.rows, Of(b.rows, l))
  <2>1. ASSUME NEW l \in Lots
        PROVE  /\ lots'[l] \in Lot
               /\ lots'[l].onHand = lots[l].onHand - Bottles(b.rows, Of(b.rows, l))
    <3>1. OnHand(c, l) = lots[l].onHand - Bottles(b.rows, Of(b.rows, l))
      BY <1>1, InTheirTerms
    <3>2. OnHand(c, l) \in Nat
      BY <1>7, <3>1
    <3>3. lots'[l] = [lots[l] EXCEPT !.onHand = OnHand(c, l)]
      BY <1>2
    <3>4. QED
      BY <1>7, <3>1, <3>2, <3>3 DEF Lot
  <2>2. QED
    BY <2>1
<1>9. SalesOf(removals) \cap SalesOf(b.rows) = {}
  <2>1. ASSUME NEW s \in SalesOf(b.rows), s \in SalesOf(removals) PROVE FALSE
    <3>1. s \in Sales /\ sales[s] = "posted"
      BY <1>4, <2>1, RemovalsAre DEF Kept, Explained, TakingsExplained
    <3>2. QED
      BY <1>6, <3>1
  <2>2. QED
    BY <2>1
<1>10. OneByOne(removals') /\ SalesOf(removals') = SalesOf(removals) \cup SalesOf(b.rows)
  <2>1. OneByOne(removals) /\ OneByOne(b.rows) /\ removals' = removals \o b.rows
    BY <1>1, <1>2, <1>3 DEF Kept, Explained, Orderly
  <2>2. QED
    BY <1>3, <1>9, <2>1, SalesTogether
<1>11. removals' \in Seq(Removal)
  BY <1>1, <1>2, <1>3
<1>12. \A s \in Sales : sales'[s] = "posted" <=> s \in SalesOf(removals')
  <2>1. \A s \in Sales : sales[s] = "posted" <=> s \in SalesOf(removals)
    BY RemovalsAre DEF Kept, Explained, TakingsExplained
  <2>2. ASSUME NEW s \in Sales PROVE sales'[s] = "posted" <=> s \in SalesOf(removals')
    <3>1. CASE s \in b.rejected
      <4>1. sales'[s] = "rejected" /\ s \notin SalesOf(b.rows)
        BY <1>4, <1>5, <3>1
      <4>2. sales[s] # "posted"
        BY <1>6, <3>1
      <4>3. QED
        BY <1>10, <2>1, <4>1, <4>2
    <3>2. CASE s \in SalesOf(b.rows)
      BY <1>4, <1>5, <1>10, <3>2
    <3>3. CASE s \notin b.rejected \cup SalesOf(b.rows)
      BY <1>5, <1>10, <2>1, <3>3
    <3>4. QED
      BY <3>1, <3>2, <3>3
  <2>3. QED
    BY <2>2
<1>13. Explained'
  <2>1. \A s : Removals(s)' # {} <=> s \in SalesOf(removals')
    BY DEF Removals, SalesOf
  <2>2. QED
    BY <1>10, <1>12, <2>1 DEF Explained, TakingsExplained
<1>14. StockAgrees'
  <2>1. ASSUME NEW l \in Lots
        PROVE  /\ lots'[l].onHand >= 0
               /\ lots'[l].onHand = Filled[l] - Bottles(removals', Standing(removals', l))
    <3>1. lots'[l].onHand \in Nat
      BY <1>8 DEF Lot
    <3>2. PICK all : all = removals'
      OBVIOUS
    <3>3. Followed(removals, b.rows, all)
      BY <1>1, <1>2, <1>3, <3>2 DEF Followed
    <3>4. Bottles(all, Standing(all, l)) =
            Bottles(removals, Standing(removals, l)) + Bottles(b.rows, Of(b.rows, l))
      BY <3>3, BottlesTogether
    <3>5. lots[l].onHand = Filled[l] - Bottles(removals, Standing(removals, l))
      BY DEF Kept, StockAgrees, Standing
    <3>6. Bottles(removals, Standing(removals, l)) \in Nat
      BY <1>3, BottlesNat DEF Standing
    <3>7. Filled[l] \in Nat
      BY TillAssumption
    <3>8. lots'[l].onHand = Filled[l] - Bottles(all, Standing(all, l))
      BY <1>7, <1>8, <3>4, <3>5, <3>6, <3>7
    <3>9. QED
      BY <3>1, <3>2, <3>8
  <2>2. QED
    BY <2>1 DEF StockAgrees, Standing
<1>15. ASSUME NEW d \in InHand \ {c}
       PROVE  Claims(batch[d], sales') /\ Covered(batch[d], lots')
  <2>1. PICK a : a = batch[d]
    OBVIOUS
  <2>2. /\ Claims(a, sales) /\ Covered(a, lots) /\ Owned(a) \subseteq Sales
        /\ a.fresh \subseteq Sales /\ a.rows \in Seq(Removal)
    BY <2>1, InHandFacts
  <2>3. Apart(b, a) /\ Apart(a, b)
    BY <1>1, <1>2, <2>1 DEF Kept, Batches
  <2>4. Claims(a, sales')
    <3>1. ASSUME NEW s \in Sales, s \in b.rejected \cup SalesOf(b.rows)
          PROVE  s \notin a.fresh /\ (a.fresh = {} => s \notin Owned(a))
      BY <1>6, <2>2, <2>3, <3>1 DEF Apart, Claims
    <3>2. \A s \in Sales : s \notin b.rejected \cup SalesOf(b.rows) => sales'[s] = sales[s]
      BY <1>5
    <3>3. QED
      BY <2>2, <3>1, <3>2 DEF Claims
  <2>5. Covered(a, lots')
    <3>1. ASSUME NEW l \in Lots, Of(a.rows, l) # {}
          PROVE  Bottles(a.rows, Of(a.rows, l)) <= lots'[l].onHand
      <4>1. b.rows = << >>
        BY <2>3, <3>1 DEF Apart, Of
      <4>2. Of(b.rows, l) = {}
        BY <4>1 DEF Of
      <4>3. Bottles(b.rows, Of(b.rows, l)) = 0
        BY <4>2, NoBottles
      <4>4. lots'[l].onHand = lots[l].onHand
        BY <1>7, <1>8, <4>3
      <4>5. QED
        BY <2>2, <3>1, <4>4 DEF Covered
    <3>2. QED
      BY <3>1 DEF Covered
  <2>6. QED
    BY <2>1, <2>4, <2>5
<1>16. batch' \in [Clerks -> Batch \cup {NoBatch}] /\ Batches'
  BY <1>2, <1>15, BatchEnds
<1>17. Shape'
  <2>1. sales' \in [Sales -> {"unseen", "pending", "posted", "rejected", "ignored"}]
    BY <1>2, <1>5 DEF Kept, Shape, Marked
  <2>2. lots' \in [Lots -> Lot]
    BY <1>2, <1>8
  <2>3. QED
    BY <1>11, <1>16, <2>1, <2>2 DEF Shape
<1>18. QED
  BY <1>13, <1>14, <1>16, <1>17 DEF Kept

LEMMA IgnoreKeeps ==
  ASSUME Kept, Careful, NEW s \in Sales, IgnorePOSSale(s)
  PROVE  Kept'
<1>1. /\ sales[s] \in {"pending", "rejected"} /\ \A c \in InHand : batch[c].fresh # {}
      /\ sales' = [sales EXCEPT ![s] = "ignored"]
      /\ UNCHANGED <<lots, removals, batch>>
  BY DEF IgnorePOSSale, NotBeingPosted, NobodyPosts
<1>2. sales' \in [Sales -> {"unseen", "pending", "posted", "rejected", "ignored"}]
  BY <1>1 DEF Kept, Shape
<1>3. \A k \in Sales : sales'[k] = IF k = s THEN "ignored" ELSE sales[k]
  BY <1>1 DEF Kept, Shape
<1>4. \A k \in Sales : sales'[k] = "posted" <=> sales[k] = "posted"
  BY <1>1, <1>3
<1>5. ASSUME NEW c \in InHand PROVE Claims(batch[c], sales')
  <2>1. Claims(batch[c], sales) /\ batch[c].fresh # {} /\ batch[c].fresh \subseteq Sales
    BY <1>1, InHandFacts
  <2>2. QED
    BY <1>1, <1>3, <2>1 DEF Claims
<1>6. QED
  BY <1>1, <1>2, <1>4, <1>5, SalesMove

LEMMA HoldKeeps ==
  ASSUME Kept, NEW l \in Lots, SetHold(l)
  PROVE  Kept'
<1>1. lots' = [lots EXCEPT ![l].held = ~@] /\ UNCHANGED <<sales, removals, batch>>
  BY DEF SetHold
<1>2. lots' \in [Lots -> Lot] /\ \A k \in Lots : lots'[k].onHand = lots[k].onHand
  BY <1>1 DEF Kept, Shape, Lot
<1>3. Shape'
  BY <1>1, <1>2 DEF Kept, Shape
<1>4. Batches'
  <2>1. InHand' = InHand
    BY <1>1 DEF InHand
  <2>2. ASSUME NEW c \in InHand PROVE Covered(batch[c], lots')
    BY <1>2, InHandFacts DEF Covered
  <2>3. QED
    BY <1>1, <2>1, <2>2 DEF Kept, Batches
<1>5. Explained'
  BY <1>1 DEF Kept, Explained, TakingsExplained, OneByOne, Removals
<1>6. StockAgrees'
  BY <1>1, <1>2 DEF Kept, StockAgrees
<1>7. QED
  BY <1>3, <1>4, <1>5, <1>6 DEF Kept

LEMMA VoidKeeps ==
  ASSUME Kept, NEW r \in DOMAIN removals, VoidRemoval(r)
  PROVE  Kept'
<1>1. PICK k : k = removals[r].lot
  OBVIOUS
<1>2. PICK n : n = removals[r].bottles
  OBVIOUS
<1>3. /\ ~removals[r].voided
      /\ removals' = [removals EXCEPT ![r].voided = TRUE]
      /\ lots' = [lots EXCEPT ![k].onHand = @ + n]
      /\ UNCHANGED <<sales, batch>>
  BY <1>1, <1>2 DEF VoidRemoval
<1>4. /\ removals \in Seq(Removal) /\ removals[r] \in Removal /\ k \in Lots /\ n \in Nat
      /\ lots \in [Lots -> Lot]
  BY <1>1, <1>2, RowFields DEF Kept, Shape
<1>5. /\ removals' \in Seq(Removal) /\ DOMAIN removals' = DOMAIN removals
      /\ \A i \in DOMAIN removals :
           /\ removals'[i].sale = removals[i].sale /\ removals'[i].lot = removals[i].lot
           /\ removals'[i].bottles = removals[i].bottles
           /\ removals'[i].voided = (i = r \/ removals[i].voided)
  <2>1. PICK e : e = [removals[r] EXCEPT !.voided = TRUE]
    OBVIOUS
  <2>2. /\ e \in Removal /\ e.sale = removals[r].sale /\ e.lot = removals[r].lot
        /\ e.bottles = removals[r].bottles /\ e.voided = TRUE
    BY <1>4, <2>1 DEF Removal
  <2>3. removals' = [removals EXCEPT ![r] = e]
    BY <1>3, <2>1
  <2>4. removals' \in Seq(Removal) /\ DOMAIN removals' = DOMAIN removals
        /\ \A i \in DOMAIN removals : removals'[i] = IF i = r THEN e ELSE removals[i]
    BY <1>4, <2>2, <2>3
  <2>5. \A i \in DOMAIN removals : removals[i].voided \in BOOLEAN
    BY <1>4, RowFields
  <2>6. QED
    BY <2>2, <2>4, <2>5
<1>6. lots' \in [Lots -> Lot]
      /\ \A l \in Lots : /\ lots[l].onHand \in Nat
                         /\ lots'[l].onHand = lots[l].onHand + (IF l = k THEN n ELSE 0)
  BY <1>3, <1>4 DEF Lot
<1>7. Shape'
  BY <1>3, <1>5, <1>6 DEF Kept, Shape
<1>8. Batches'
  <2>1. InHand' = InHand
    BY <1>3 DEF InHand
  <2>2. ASSUME NEW c \in InHand PROVE Covered(batch[c], lots')
    <3>1. Covered(batch[c], lots) /\ batch[c].rows \in Seq(Removal)
      BY InHandFacts
    <3>2. ASSUME NEW l \in Lots, Of(batch[c].rows, l) # {}
          PROVE  Bottles(batch[c].rows, Of(batch[c].rows, l)) <= lots'[l].onHand
      <4>1. Bottles(batch[c].rows, Of(batch[c].rows, l)) <= lots[l].onHand
        BY <3>1, <3>2 DEF Covered
      <4>2. Bottles(batch[c].rows, Of(batch[c].rows, l)) \in Nat
        BY <3>1, BottlesNat DEF Of
      <4>3. QED
        BY <1>4, <1>6, <4>1, <4>2
    <3>3. QED
      BY <3>2 DEF Covered
  <2>3. QED
    BY <1>3, <2>1, <2>2 DEF Kept, Batches
<1>9. Explained'
  BY <1>3, <1>5 DEF Kept, Explained, TakingsExplained, OneByOne, Removals
<1>10. StockAgrees'
  <2>1. ASSUME NEW l \in Lots
        PROVE  /\ lots'[l].onHand >= 0
               /\ lots'[l].onHand = Filled[l] - Bottles(removals', Standing(removals', l))
    <3>1. PICK S : S = Standing(removals, l)
      OBVIOUS
    <3>2. PICK more : more = removals'
      OBVIOUS
    <3>3. S \in SUBSET DOMAIN removals /\ S \ {r} \in SUBSET DOMAIN removals
          /\ Standing(more, l) = S \ {r}
      BY <1>5, <3>1, <3>2 DEF Standing
    <3>4. Bottles(more, S \ {r}) = Bottles(removals, S \ {r})
      BY <1>4, <1>5, <3>2, <3>3, BottlesUnchanged
    <3>5. lots[l].onHand = Filled[l] - Bottles(removals, S) /\ lots[l].onHand >= 0
      BY <3>1 DEF Kept, StockAgrees, Standing
    <3>6. Bottles(removals, S) \in Nat /\ Bottles(removals, S \ {r}) \in Nat /\ Filled[l] \in Nat
      BY <1>4, <3>3, BottlesNat, TillAssumption
    <3>7. CASE l = k
      <4>1. r \in S
        BY <1>1, <1>3, <3>1, <3>7 DEF Standing
      <4>2. Bottles(removals, S) = n + Bottles(removals, S \ {r})
        BY <1>2, <1>4, <3>3, <4>1, BottlesLess
      <4>3. lots'[l].onHand = Filled[l] - Bottles(more, S \ {r}) /\ lots'[l].onHand >= 0
        BY <1>4, <1>6, <3>4, <3>5, <3>6, <3>7, <4>2
      <4>4. QED
        BY <3>2, <3>3, <4>3
    <3>8. CASE l # k
      <4>1. S \ {r} = S
        BY <1>1, <3>1, <3>8 DEF Standing
      <4>2. Bottles(more, Standing(more, l)) = Bottles(removals, S)
        BY <3>3, <3>4, <4>1
      <4>3. QED
        BY <1>6, <3>2, <3>5, <3>6, <3>8, <4>2
    <3>9. QED
      BY <3>7, <3>8
  <2>2. QED
    BY <2>1 DEF StockAgrees, Standing
<1>11. QED
  BY <1>7, <1>8, <1>9, <1>10 DEF Kept

-----------------------------------------------------------------------------
(* Theorems. *)

LEMMA KeptAtFirst == Init => Kept
<1> SUFFICES ASSUME Init PROVE Kept
  OBVIOUS
<1>1. /\ sales = [s \in Sales |-> "unseen"] /\ removals = << >>
      /\ lots = [l \in Lots |-> [onHand |-> Filled[l], held |-> FALSE]]
      /\ batch = [c \in Clerks |-> NoBatch]
  BY DEF Init
<1>2. removals \in Seq(Removal) /\ DOMAIN removals = {}
  BY <1>1
<1>3. Shape
  BY <1>1, <1>2, TillAssumption DEF Shape, Lot
<1>4. Batches
  BY <1>1 DEF Batches, InHand
<1>5. Explained
  BY <1>1, <1>2 DEF Explained, OneByOne, TakingsExplained, Removals
<1>6. StockAgrees
  <2>1. ASSUME NEW l \in Lots
        PROVE  /\ lots[l].onHand >= 0
               /\ lots[l].onHand = Filled[l] - Bottles(removals, Standing(removals, l))
    <3>1. Standing(removals, l) = {}
      BY <1>2 DEF Standing
    <3>2. Bottles(removals, Standing(removals, l)) = 0
      BY <3>1, NoBottles
    <3>3. QED
      BY <1>1, <3>2, TillAssumption
  <2>2. QED
    BY <2>1 DEF StockAgrees, Standing
<1>7. QED
  BY <1>3, <1>4, <1>5, <1>6 DEF Kept

LEMMA KeptUnseen ==
  ASSUME Kept, UNCHANGED <<sales, lots, removals, batch>>
  PROVE  Kept'
  BY DEF Kept, Shape, Batches, InHand, Explained, OneByOne, TakingsExplained, Removals, StockAgrees

LEMMA KeptThroughout == ASSUME Careful PROVE Kept /\ [Next]_vars => Kept'
<1> SUFFICES ASSUME Kept, [Next]_vars PROVE Kept'
  OBVIOUS
<1>1. CASE UNCHANGED vars
  BY <1>1, KeptUnseen DEF vars
<1>2. ASSUME NEW c \in Clerks, NEW S \in SUBSET Sales, IngestPOSSales(c, S) PROVE Kept'
  BY <1>2, IngestKeeps
<1>3. ASSUME NEW c \in Clerks, NEW S \in SUBSET Sales, PostPOSSales(c, S) PROVE Kept'
  BY <1>3, PostKeeps
<1>4. ASSUME NEW c \in Clerks, Choose(c) PROVE Kept'
  BY <1>4, ChooseKeeps
<1>5. ASSUME NEW c \in Clerks, RecordRemoval(c) PROVE Kept'
  BY <1>5, RecordKeeps
<1>6. ASSUME NEW c \in Clerks, Commit(c) PROVE Kept'
  BY <1>6, CommitKeeps
<1>7. ASSUME NEW c \in Clerks, RollBack(c) PROVE Kept'
  BY <1>7, RollBackKeeps
<1>8. ASSUME NEW s \in Sales, IgnorePOSSale(s) PROVE Kept'
  BY <1>8, IgnoreKeeps
<1>9. ASSUME NEW k \in Skus, NEW p \in Products, SavePOSProductMapping(k, p) PROVE Kept'
  BY <1>9, KeptUnseen DEF SavePOSProductMapping
<1>10. ASSUME NEW k \in Skus, DeletePOSProductMapping(k) PROVE Kept'
  BY <1>10, KeptUnseen DEF DeletePOSProductMapping
<1>11. ASSUME NEW l \in Lots, SetHold(l) PROVE Kept'
  BY <1>11, HoldKeeps
<1>12. ASSUME NEW r \in DOMAIN removals, VoidRemoval(r) PROVE Kept'
  BY <1>12, VoidKeeps
<1>13. QED
  BY <1>1, <1>2, <1>3, <1>4, <1>5, <1>6, <1>7, <1>8, <1>9, <1>10, <1>11, <1>12 DEF Next

LEMMA AlwaysKept == ASSUME Careful PROVE Safety => []Kept
<1>1. Init => Kept
  BY KeptAtFirst
<1>2. Kept /\ [Next]_vars => Kept'
  BY KeptThroughout
<1>3. QED
  BY <1>1, <1>2, PTL DEF Safety

\* A retry, a line delivered twice, a batch lost half way: where one screen posts at
\* a time, one sale is removed from stock once (pos.go, postPOSSales and recordRemoval).
THEOREM EachSaleRemovedOnce == ASSUME Careful PROVE Safety => []SoldOnce
<1>1. Kept => SoldOnce
  <2>1. ASSUME Kept, NEW s \in Sales PROVE Cardinality(Removals(s)) <= 1
    <3>1. CASE Removals(s) = {}
      BY <3>1, FS_EmptySet
    <3>2. ASSUME NEW r \in Removals(s) PROVE Cardinality(Removals(s)) <= 1
      <4>1. Removals(s) = {r}
        BY <2>1, <3>2 DEF Kept, Explained, OneByOne, Removals
      <4>2. Cardinality({r}) = 1
        BY FS_Singleton
      <4>3. QED
        BY <4>1, <4>2
    <3>3. QED
      BY <3>1, <3>2
  <2>2. QED
    BY <2>1 DEF SoldOnce
<1>2. QED
  BY <1>1, AlwaysKept, PTL

\* A sale is shown as posted exactly when a removal of it was recorded, so that
\* what the till took and what reached the return can be compared.
THEOREM TakingsAreExplained == ASSUME Careful PROVE Safety => []TakingsExplained
<1>1. Kept => TakingsExplained
  BY DEF Kept, Explained
<1>2. QED
  BY <1>1, AlwaysKept, PTL

\* The bottles of a lot are those it was filled with less its removals that
\* stand, though a batch chose its lot from stock it had not locked
\* (recordRemoval in packaging.go).
THEOREM TillStockAgrees == ASSUME Careful PROVE Safety => []StockAgrees
<1>1. Kept => StockAgrees
  BY DEF Kept
<1>2. QED
  BY <1>1, AlwaysKept, PTL

=============================================================================
