--------------------------- MODULE InventoryProofs ---------------------------
(***************************************************************************)
(* Theorems about Inventory, for every set of keys, every finite set of    *)
(* hold ids and every integer width.  The inductive invariant ties the     *)
(* held counter to the open holds; without it a Release could be thought   *)
(* to take the counter below zero, and the int32 arithmetic to wrap.       *)
(***************************************************************************)
EXTENDS Inventory, FiniteSetTheorems, TLAPS

QtyOK == \A h \in HoldId : holds[h].qty \in 0 .. MaxInt

CountersOK == \A k \in Key : /\ stock[k].total \in 0 .. MaxInt
                             /\ stock[k].sold \in 0 .. MaxInt
                             /\ stock[k].held \in 0 .. MaxInt
                             /\ Used(k) <= MaxInt

IInv == TypeOK /\ QtyOK /\ CountersOK /\ HeldIsOpenHolds /\ SoldWasCommitted

-----------------------------------------------------------------------------
(* Counting the units of holds.                                            *)

LEMMA HoldUnits ==
  ASSUME NEW h, NEW q \in Nat
  PROVE  /\ IsFiniteSet({h} \X (1 .. q))
         /\ Cardinality({h} \X (1 .. q)) = q
<1>1. IsFiniteSet({h}) /\ Cardinality({h}) = 1
  BY FS_Singleton
<1>2. IsFiniteSet(1 .. q) /\ Cardinality(1 .. q) = q
  BY FS_Interval
<1>3. /\ IsFiniteSet({h} \X (1 .. q))
      /\ Cardinality({h} \X (1 .. q)) = Cardinality({h}) * Cardinality(1 .. q)
  BY <1>1, <1>2, FS_Product
<1> QED
  BY <1>1, <1>2, <1>3

LEMMA UnitsFinite ==
  ASSUME NEW k, NEW st
  PROVE  /\ IsFiniteSet(Units(k, st))
         /\ Cardinality(Units(k, st)) \in Nat
<1>1. IsFiniteSet(1 .. MaxInt)
  BY FS_Interval, InventoryAssumption
<1>2. IsFiniteSet(HoldId \X (1 .. MaxInt))
  BY <1>1, FS_Product, InventoryAssumption
<1>3. Units(k, st) \in SUBSET (HoldId \X (1 .. MaxInt))
  BY DEF Units
<1>4. IsFiniteSet(Units(k, st))
  BY <1>2, <1>3, FS_Subset
<1> QED
  BY <1>4, FS_CardinalityType

\* The units of one hold are counted with its key and status, and no other
\* hold's units are among them.
LEMMA UnitsOfHold ==
  ASSUME QtyOK, NEW h \in HoldId, NEW k, NEW st,
         holds[h].key = k, holds[h].status = st
  PROVE  holds[h].qty <= Cardinality(Units(k, st))
<1> DEFINE U == {h} \X (1 .. holds[h].qty)
<1>1. holds[h].qty \in 0 .. MaxInt
  BY DEF QtyOK
<1>2. U \in SUBSET Units(k, st)
  BY <1>1, InventoryAssumption DEF Units
<1>a. holds[h].qty \in Nat
  BY <1>1, InventoryAssumption
<1>3. Cardinality(U) = holds[h].qty
  BY <1>a, HoldUnits, Zenon
<1>4. Cardinality(U) <= Cardinality(Units(k, st))
  BY <1>2, UnitsFinite, FS_Subset
<1> QED
  BY <1>3, <1>4

\* The units of (k, st) that hold h stands for.
Share(h, k, st) ==
  IF holds[h].key = k /\ holds[h].status = st THEN holds[h].qty ELSE 0

\* A step that changes one hold only changes every count by what that hold's
\* share of it was and becomes.
LEMMA UnitsUpdate ==
  ASSUME TypeOK, QtyOK, QtyOK', NEW h \in HoldId,
         \A g \in HoldId : g # h => holds'[g] = holds[g],
         NEW k, NEW st
  PROVE  Cardinality(Units(k, st)') =
           Cardinality(Units(k, st)) - Share(h, k, st) + Share(h, k, st)'
<1> DEFINE Old == {h} \X (1 .. Share(h, k, st))
           New == {h} \X (1 .. Share(h, k, st)')
           Rest == Units(k, st) \ Old
<1>1. /\ Share(h, k, st) \in 0 .. MaxInt
      /\ Share(h, k, st)' \in 0 .. MaxInt
      /\ MaxInt \in Nat
  BY InventoryAssumption DEF QtyOK, Share
<1>2. /\ Units(k, st) \cap Old = Old
      /\ Rest \cap New = {}
      /\ Units(k, st)' = Rest \cup New
  BY <1>1 DEF Units, Share
<1>3. Share(h, k, st) \in Nat /\ Share(h, k, st)' \in Nat
  BY <1>1
<1>4. /\ Cardinality(Old) = Share(h, k, st)
      /\ IsFiniteSet(New)
      /\ Cardinality(New) = Share(h, k, st)'
  BY <1>3, HoldUnits, Zenon
<1>5. /\ IsFiniteSet(Rest)
      /\ Cardinality(Rest) = Cardinality(Units(k, st)) - Cardinality(Old)
  BY <1>2, UnitsFinite, FS_Difference
<1>6. Cardinality(Rest \cup New) =
        Cardinality(Rest) + Cardinality(New) - Cardinality(Rest \cap New)
  BY <1>4, <1>5, FS_Union
<1>7. Cardinality(Rest \cap New) = 0
  BY <1>2, FS_EmptySet, Zenon
<1>8. Cardinality(Units(k, st)) \in Nat
  BY UnitsFinite
<1> QED
  BY <1>2, <1>3, <1>4, <1>5, <1>6, <1>7, <1>8

-----------------------------------------------------------------------------
(* The invariant holds initially and every RPC preserves it.               *)

\* Available counts over the integers: nothing in it wraps.
LEMMA AvailableExact ==
  ASSUME CountersOK, NEW k \in Key
  PROVE  Available(k) = stock[k].total - Used(k)
BY InventoryAssumption DEF CountersOK, Available, Used, Wrap

\* No hold has been made yet, whatever is stocked.
LEMMA UnusedInv ==
  ASSUME TypeOK,
         \A k \in Key : stock[k].sold = 0 /\ stock[k].held = 0 /\ stock[k].total \in 0 .. MaxInt,
         \A h \in HoldId : holds[h] = Absent
  PROVE  IInv
<1>1. Absent.qty = 0 /\ Absent.status = "absent"
  BY DEF Absent
<1>2. \A k : Units(k, "held") = {}
  BY <1>1 DEF Units
<1>3. QtyOK
  BY <1>1, InventoryAssumption DEF QtyOK
<1>4. CountersOK
  BY InventoryAssumption DEF CountersOK, Used
<1>5. HeldIsOpenHolds
  BY <1>2, FS_EmptySet DEF HeldIsOpenHolds
<1>6. SoldWasCommitted
  BY UnitsFinite DEF SoldWasCommitted
<1> QED
  BY <1>3, <1>4, <1>5, <1>6 DEF IInv

LEMMA InitInv == Init => IInv
<1> SUFFICES ASSUME Init PROVE IInv
  OBVIOUS
<1>1. Absent \in HoldRecord
  <2>1. Absent.key \in Key
    BY InventoryAssumption DEF Absent
  <2> QED
    BY <2>1, InventoryAssumption DEF Absent, HoldRecord, Int32
<1>2. NoStock \in StockRecord
  BY InventoryAssumption DEF NoStock, StockRecord, Int32
<1>3. TypeOK
  BY <1>1, <1>2 DEF Init, TypeOK
<1>4. \A k \in Key : stock[k].sold = 0 /\ stock[k].held = 0 /\ stock[k].total \in 0 .. MaxInt
  BY InventoryAssumption DEF Init, NoStock
<1> QED
  BY <1>3, <1>4, UnusedInv DEF Init

LEMMA SetStockInv ==
  ASSUME IInv, NEW k \in Key, NEW q \in Int32, SetStock(k, q)
  PROVE  IInv' /\ ExcessOnlyByLowering
<1> USE InventoryAssumption DEF IInv
<1>1. /\ q \in 0 .. MaxInt
      /\ holds' = holds
      /\ stock' = [stock EXCEPT ![k].listed = TRUE, ![k].total = q]
  BY DEF SetStock, Int32
<1>2. \A j \in Key : /\ stock'[j].sold = stock[j].sold
                     /\ stock'[j].held = stock[j].held
                     /\ stock'[j].total \in {stock[j].total, q}
  BY <1>1 DEF TypeOK, StockRecord
<1>3. TypeOK'
  BY <1>1 DEF TypeOK, StockRecord
<1>4. QtyOK'
  BY <1>1 DEF QtyOK
<1>5. CountersOK'
  BY <1>1, <1>2 DEF CountersOK, Used
<1>6. \A j, st : Units(j, st)' = Units(j, st)
  BY <1>1 DEF Units
<1>7. HeldIsOpenHolds' /\ SoldWasCommitted'
  BY <1>2, <1>6 DEF HeldIsOpenHolds, SoldWasCommitted
<1>8. ExcessOnlyByLowering
  <2> SUFFICES ASSUME NEW j \in Key, ~(stock[j].total' < stock[j].total)
               PROVE  ~(Excess(j)' > Excess(j))
    BY DEF ExcessOnlyByLowering
  <2>1. /\ Used(j)' = Used(j) /\ Used(j) \in Int
        /\ stock[j].total \in Int /\ stock[j].total' \in Int
    <3>1. /\ stock[j].total \in Int /\ stock[j].sold \in Int /\ stock[j].held \in Int
          /\ q \in Int
      BY <1>1 DEF CountersOK
    <3> QED
      BY <1>2, <3>1 DEF Used
  <2> QED
    BY <2>1 DEF Excess
<1> QED
  BY <1>3, <1>4, <1>5, <1>7, <1>8

LEMMA HoldInv ==
  ASSUME IInv, NEW k \in Key, NEW q \in Int32, NEW h \in HoldId, Hold(k, q, h)
  PROVE  IInv' /\ ExcessOnlyByLowering
<1> USE InventoryAssumption DEF IInv
<1> DEFINE r == [key |-> k, qty |-> q, status |-> "held"]
<1>1. /\ q > 0
      /\ q <= stock[k].total - Used(k)
      /\ holds[h].status = "absent"
      /\ stock' = [stock EXCEPT ![k].held = Wrap(@ + q)]
      /\ holds' = [holds EXCEPT ![h] = r]
  BY AvailableExact DEF Hold, CanHold
<1>2. /\ stock[k].held + q \in 0 .. MaxInt
      /\ Used(k) + q <= stock[k].total
      /\ q \in 0 .. MaxInt
  BY <1>1 DEF CountersOK, Used, Int32
<1>a. Wrap(stock[k].held + q) = stock[k].held + q
  BY <1>2 DEF Wrap
<1>3. stock' = [stock EXCEPT ![k].held = @ + q]
  BY <1>1, <1>a
<1>4. r \in HoldRecord /\ r.key = k /\ r.qty = q /\ r.status = "held"
  BY DEF HoldRecord
<1> HIDE DEF r
<1>5. \A j \in Key : /\ stock'[j].sold = stock[j].sold
                     /\ stock'[j].total = stock[j].total
                     /\ stock'[j].held = IF j = k THEN stock[j].held + q ELSE stock[j].held
  BY <1>3 DEF TypeOK, StockRecord
<1>6. TypeOK'
  BY <1>1, <1>2, <1>3, <1>4 DEF TypeOK, StockRecord, Int32
<1>7. QtyOK'
  BY <1>1, <1>2, <1>4 DEF QtyOK, TypeOK
<1>8. CountersOK'
  BY <1>2, <1>5 DEF CountersOK, Used
<1>b. holds'[h] = r /\ \A g \in HoldId : g # h => holds'[g] = holds[g]
  BY <1>1 DEF TypeOK
<1>c. \A j, st : Cardinality(Units(j, st)') =
                 Cardinality(Units(j, st)) - Share(h, j, st) + Share(h, j, st)'
  BY <1>7, <1>b, UnitsUpdate
<1>d. \A j, st : Cardinality(Units(j, st)) \in Nat
  BY UnitsFinite
<1>9. \A j \in Key : Cardinality(Units(j, "held")') =
                     IF j = k THEN Cardinality(Units(j, "held")) + q
                              ELSE Cardinality(Units(j, "held"))
  BY <1>1, <1>2, <1>4, <1>b, <1>c, <1>d DEF Share
<1>10. \A j \in Key : Cardinality(Units(j, "committed")') = Cardinality(Units(j, "committed"))
  BY <1>1, <1>4, <1>b, <1>c, <1>d DEF Share
<1>11. HeldIsOpenHolds'
  BY <1>5, <1>9 DEF HeldIsOpenHolds
<1>12. SoldWasCommitted'
  BY <1>5, <1>10 DEF SoldWasCommitted
<1>13. ExcessOnlyByLowering
  BY <1>2, <1>5 DEF ExcessOnlyByLowering, Excess, Used, CountersOK
<1> QED
  BY <1>6, <1>7, <1>8, <1>11, <1>12, <1>13

LEMMA CommitInv ==
  ASSUME IInv, NEW h \in HoldId, Commit(h)
  PROVE  IInv' /\ ExcessOnlyByLowering
<1> USE InventoryAssumption DEF IInv
<1> DEFINE k == holds[h].key
           q == holds[h].qty
<1>1. /\ k \in Key
      /\ q \in 0 .. MaxInt
      /\ holds[h].status = "held"
  BY DEF Commit, CanCommit, Open, TypeOK, HoldRecord, QtyOK
<1>2. q <= Cardinality(Units(k, "held"))
  BY <1>1, UnitsOfHold
<1>3. /\ stock[k].held - q \in 0 .. MaxInt
      /\ stock[k].sold + q \in 0 .. MaxInt
  BY <1>1, <1>2 DEF HeldIsOpenHolds, CountersOK, Used
<1>4. /\ Wrap(stock[k].held - q) = stock[k].held - q
      /\ Wrap(stock[k].sold + q) = stock[k].sold + q
  BY <1>3 DEF Wrap
<1>5. /\ stock' = [stock EXCEPT ![k].held = stock[k].held - q,
                              ![k].sold = stock[k].sold + q]
      /\ holds' = [holds EXCEPT ![h].status = "committed"]
  BY <1>4 DEF Commit
<1> HIDE DEF k, q
<1>6. \A j \in Key :
        /\ stock'[j].total = stock[j].total
        /\ stock'[j].held = IF j = k THEN stock[j].held - q ELSE stock[j].held
        /\ stock'[j].sold = IF j = k THEN stock[j].sold + q ELSE stock[j].sold
  BY <1>1, <1>5 DEF TypeOK, StockRecord
<1>7. /\ holds'[h].key = k
      /\ holds'[h].qty = q
      /\ holds'[h].status = "committed"
      /\ \A g \in HoldId : g # h => holds'[g] = holds[g]
  BY <1>5 DEF TypeOK, HoldRecord, k, q
<1>8. TypeOK'
  <2>0. [stock[k] EXCEPT !.held = stock[k].held - q,
                         !.sold = stock[k].sold + q] \in StockRecord
    <3>1. stock[k] \in StockRecord
      BY <1>1 DEF TypeOK
    <3>2. stock[k].held - q \in Int32 /\ stock[k].sold + q \in Int32
      BY <1>3 DEF Int32
    <3> QED
      BY <3>1, <3>2 DEF StockRecord
  <2>1. stock' \in [Key -> StockRecord]
    BY <2>0, <1>5 DEF TypeOK
  <2>2. holds' \in [HoldId -> HoldRecord]
    BY <1>5 DEF TypeOK, HoldRecord
  <2> QED
    BY <2>1, <2>2 DEF TypeOK
<1>9. QtyOK'
  BY <1>1, <1>7 DEF QtyOK
<1>10. CountersOK'
  BY <1>1, <1>3, <1>6 DEF CountersOK, Used
<1>11. \A j, st : Cardinality(Units(j, st)') =
                 Cardinality(Units(j, st)) - Share(h, j, st) + Share(h, j, st)'
  BY <1>7, <1>9, UnitsUpdate
<1>12. \A j, st : Cardinality(Units(j, st)) \in Nat
  BY UnitsFinite
<1>13. \A j \in Key : Cardinality(Units(j, "held")') =
                     IF j = k THEN Cardinality(Units(j, "held")) - q
                              ELSE Cardinality(Units(j, "held"))
  BY <1>1, <1>7, <1>11, <1>12 DEF Share, k, q
<1>14. \A j \in Key : Cardinality(Units(j, "committed")') =
                     IF j = k THEN Cardinality(Units(j, "committed")) + q
                              ELSE Cardinality(Units(j, "committed"))
  BY <1>1, <1>7, <1>11, <1>12 DEF Share, k, q
<1>15. HeldIsOpenHolds'
  BY <1>6, <1>13 DEF HeldIsOpenHolds
<1>16. SoldWasCommitted'
  BY <1>1, <1>6, <1>12, <1>14 DEF SoldWasCommitted
<1>17. ExcessOnlyByLowering
  BY <1>1, <1>3, <1>6 DEF ExcessOnlyByLowering, Excess, Used, CountersOK
<1> QED
  BY <1>8, <1>9, <1>10, <1>15, <1>16, <1>17

LEMMA ReleaseInv ==
  ASSUME IInv, NEW h \in HoldId, Release(h)
  PROVE  IInv' /\ ExcessOnlyByLowering
<1> USE InventoryAssumption DEF IInv
<1> DEFINE k == holds[h].key
           q == holds[h].qty
<1>1. /\ k \in Key
      /\ q \in 0 .. MaxInt
      /\ holds[h].status = "held"
  BY DEF Release, CanRelease, Open, TypeOK, HoldRecord, QtyOK
<1>2. q <= Cardinality(Units(k, "held"))
  BY <1>1, UnitsOfHold
<1>3. stock[k].held - q \in 0 .. MaxInt
  BY <1>1, <1>2 DEF HeldIsOpenHolds, CountersOK, Used
<1>4. Wrap(stock[k].held - q) = stock[k].held - q
  BY <1>3 DEF Wrap
<1>5. /\ stock' = [stock EXCEPT ![k].held = stock[k].held - q]
      /\ holds' = [holds EXCEPT ![h].status = "released"]
  BY <1>4 DEF Release
<1> HIDE DEF k, q
<1>6. \A j \in Key :
        /\ stock'[j].total = stock[j].total
        /\ stock'[j].held = IF j = k THEN stock[j].held - q ELSE stock[j].held
        /\ stock'[j].sold = stock[j].sold
  BY <1>1, <1>5 DEF TypeOK, StockRecord
<1>7. /\ holds'[h].key = k
      /\ holds'[h].qty = q
      /\ holds'[h].status = "released"
      /\ \A g \in HoldId : g # h => holds'[g] = holds[g]
  BY <1>5 DEF TypeOK, HoldRecord, k, q
<1>8. TypeOK'
  <2>1. stock' \in [Key -> StockRecord]
    BY <1>1, <1>3, <1>5 DEF TypeOK, StockRecord, Int32
  <2>2. holds' \in [HoldId -> HoldRecord]
    BY <1>5 DEF TypeOK, HoldRecord
  <2> QED
    BY <2>1, <2>2 DEF TypeOK
<1>9. QtyOK'
  BY <1>1, <1>7 DEF QtyOK
<1>10. CountersOK'
  BY <1>1, <1>3, <1>6 DEF CountersOK, Used
<1>11. \A j, st : Cardinality(Units(j, st)') =
                 Cardinality(Units(j, st)) - Share(h, j, st) + Share(h, j, st)'
  BY <1>7, <1>9, UnitsUpdate
<1>12. \A j, st : Cardinality(Units(j, st)) \in Nat
  BY UnitsFinite
<1>13. \A j \in Key : Cardinality(Units(j, "held")') =
                     IF j = k THEN Cardinality(Units(j, "held")) - q
                              ELSE Cardinality(Units(j, "held"))
  BY <1>1, <1>7, <1>11, <1>12 DEF Share, k, q
<1>14. \A j \in Key : Cardinality(Units(j, "committed")') =
                     Cardinality(Units(j, "committed"))
  BY <1>1, <1>7, <1>11, <1>12 DEF Share, k, q
<1>15. HeldIsOpenHolds'
  BY <1>6, <1>13 DEF HeldIsOpenHolds
<1>16. SoldWasCommitted'
  BY <1>1, <1>6, <1>12, <1>14 DEF SoldWasCommitted
<1>17. ExcessOnlyByLowering
  BY <1>1, <1>3, <1>6 DEF ExcessOnlyByLowering, Excess, Used, CountersOK
<1> QED
  BY <1>8, <1>9, <1>10, <1>15, <1>16, <1>17

LEMMA ReturnStockInv ==
  ASSUME IInv, NEW k \in Key, NEW q \in Int32, ReturnStock(k, q)
  PROVE  IInv' /\ ExcessOnlyByLowering
<1> USE InventoryAssumption DEF IInv
<1>1. /\ q > 0
      /\ stock[k].sold - q \in 0 .. MaxInt
  BY DEF ReturnStock, CanReturn, CountersOK, Int32
<1>2. Wrap(stock[k].sold - q) = stock[k].sold - q
  BY <1>1 DEF Wrap
<1>3. /\ stock' = [stock EXCEPT ![k].sold = stock[k].sold - q]
      /\ holds' = holds
  BY <1>2 DEF ReturnStock
<1>4. \A j \in Key :
        /\ stock'[j].total = stock[j].total
        /\ stock'[j].held = stock[j].held
        /\ stock'[j].sold = IF j = k THEN stock[j].sold - q ELSE stock[j].sold
  BY <1>3 DEF TypeOK, StockRecord
<1>5. TypeOK'
  BY <1>1, <1>3 DEF TypeOK, StockRecord, Int32
<1>6. QtyOK'
  BY <1>3 DEF QtyOK
<1>7. CountersOK'
  BY <1>1, <1>4 DEF CountersOK, Used, Int32
<1>8. \A j, st : Units(j, st)' = Units(j, st)
  BY <1>3 DEF Units
<1>9. HeldIsOpenHolds'
  BY <1>4, <1>8 DEF HeldIsOpenHolds
<1>10. SoldWasCommitted'
  BY <1>1, <1>4, <1>8, UnitsFinite DEF SoldWasCommitted, CountersOK, Int32
<1>11. ExcessOnlyByLowering
  BY <1>1, <1>4 DEF ExcessOnlyByLowering, Excess, Used, CountersOK, Int32
<1> QED
  BY <1>5, <1>6, <1>7, <1>9, <1>10, <1>11

LEMMA RestartInv ==
  ASSUME IInv, Restart
  PROVE  IInv' /\ ExcessOnlyByLowering
<1> USE InventoryAssumption DEF IInv
<1>1. \A k \in Key : stock'[k] = NoStock
  BY DEF Restart
<1>2. PICK k0 \in Key : Absent = [key |-> k0, qty |-> 0, status |-> "absent"]
  BY DEF Absent
<1>3. /\ Absent \in HoldRecord
      /\ Absent.qty = 0
      /\ Absent.status = "absent"
      /\ [Absent EXCEPT !.status = "lost"] \in HoldRecord
      /\ [Absent EXCEPT !.status = "lost"].qty = 0
      /\ [Absent EXCEPT !.status = "lost"].status = "lost"
  BY <1>2 DEF HoldRecord, Int32
<1>4. NoStock \in StockRecord
  BY DEF NoStock, StockRecord, Int32
<1>5. TypeOK'
  BY <1>3, <1>4 DEF TypeOK, Restart
<1>6. \A h \in HoldId : holds'[h].qty = 0 /\ holds'[h].status \in {"absent", "lost"}
  BY <1>3 DEF Restart
<1>7. QtyOK'
  BY <1>6 DEF QtyOK
<1>8. CountersOK'
  BY <1>1 DEF CountersOK, NoStock, Used
<1>9. \A k : Units(k, "held")' = {} /\ Units(k, "committed")' = {}
  BY <1>6 DEF Units
<1>a. \A k \in Key : stock'[k].held = 0 /\ stock'[k].sold = 0 /\ stock'[k].total = 0
  BY <1>1 DEF NoStock
<1>b. \A k : Cardinality(Units(k, "held")') = 0 /\ Cardinality(Units(k, "committed")') = 0
  BY <1>9, FS_EmptySet
<1>10. HeldIsOpenHolds' /\ SoldWasCommitted'
  BY <1>a, <1>b DEF HeldIsOpenHolds, SoldWasCommitted
<1>11. ExcessOnlyByLowering
  BY <1>a DEF ExcessOnlyByLowering, Excess, Used, CountersOK
<1> QED
  BY <1>5, <1>7, <1>8, <1>10, <1>11

LEMMA StutterInv ==
  ASSUME IInv, UNCHANGED vars
  PROVE  IInv'
BY DEF vars, IInv, TypeOK, QtyOK, CountersOK, Used, HeldIsOpenHolds,
       SoldWasCommitted, Units

\* What the messages of a step ask for.
LEMMA NextCases ==
  ASSUME Next
  PROVE  \/ \E k \in Key, q \in Int32 : SetStock(k, q)
         \/ \E k \in Key, q \in Int32, h \in HoldId : Hold(k, q, h)
         \/ \E h \in HoldId : Commit(h)
         \/ \E h \in HoldId : Release(h)
         \/ \E k \in Key, q \in Int32 : ReturnStock(k, q)
         \/ Restart
BY DEF Next, SetStockRequest, HoldRequest, CommitRequest, ReleaseRequest, ReturnStockRequest

\* One step: the invariant is preserved, and no step but a SetStock that
\* lowers a total raises the excess of a key.
LEMMA NextInv == IInv /\ Next => IInv' /\ ExcessOnlyByLowering
<1> SUFFICES ASSUME IInv, Next PROVE IInv' /\ ExcessOnlyByLowering
  OBVIOUS
<1>1. CASE \E k \in Key, q \in Int32 : SetStock(k, q)
  BY <1>1, SetStockInv
<1>2. CASE \E k \in Key, q \in Int32, h \in HoldId : Hold(k, q, h)
  BY <1>2, HoldInv
<1>3. CASE \E h \in HoldId : Commit(h)
  BY <1>3, CommitInv
<1>4. CASE \E h \in HoldId : Release(h)
  BY <1>4, ReleaseInv
<1>5. CASE \E k \in Key, q \in Int32 : ReturnStock(k, q)
  BY <1>5, ReturnStockInv
<1>6. CASE Restart
  BY <1>6, RestartInv
<1> QED
  BY <1>1, <1>2, <1>3, <1>4, <1>5, <1>6, NextCases

\* The inductive invariant holds in every state the service reaches.
THEOREM Invariant == Spec => []IInv
<1>1. IInv /\ [Next]_vars => IInv'
  BY NextInv, StutterInv
<1> QED
  BY InitInv, <1>1, PTL DEF Spec

-----------------------------------------------------------------------------
(* What follows from it.                                                   *)

\* Every value stays in its declared type (mem.go's int32 fields).
THEOREM TypeCorrect == Spec => []TypeOK
<1>1. IInv => TypeOK
  BY DEF IInv
<1> QED
  BY <1>1, Invariant, PTL

\* The held counter is the sum of the open holds (Hold, Commit, Release).
THEOREM HeldAccounting == Spec => []HeldIsOpenHolds
<1>1. IInv => HeldIsOpenHolds
  BY DEF IInv
<1> QED
  BY <1>1, Invariant, PTL

\* Sold never exceeds what was committed nor goes below zero (ReturnStock).
THEOREM SoldAccounting == Spec => []SoldWasCommitted
<1>1. IInv => SoldWasCommitted
  BY DEF IInv
<1> QED
  BY <1>1, Invariant, PTL

\* No int32 operation of the handlers wraps, at any width.
THEOREM NoOverflow == Spec => []NoWraparound
<1>1. IInv => NoWraparound
  BY AvailableExact, InventoryAssumption
     DEF IInv, NoWraparound, CountersOK, Used
<1> QED
  BY <1>1, Invariant, PTL

\* Only lowering a total can oversell a key (Hold's availability check).
THEOREM NoOversell == Spec => OversellOnlyByLowering
<1>1. IInv /\ [Next]_vars => [ExcessOnlyByLowering]_vars
  BY NextInv
<1> QED
  BY <1>1, Invariant, PTL DEF Spec, OversellOnlyByLowering

\* A step changes no hold that is committed or released, a restart aside.
LEMMA ConsumedStep ==
  ASSUME IInv, Next, NEW h \in HoldId, holds[h].status \in {"committed", "released"}
  PROVE  holds'[h] = holds[h] \/ holds'[h].status = "lost"
<1> USE DEF IInv, TypeOK
<1>1. CASE \E k \in Key, q \in Int32 : SetStock(k, q) \/ ReturnStock(k, q)
  BY <1>1 DEF SetStock, ReturnStock
<1>2. CASE \E k \in Key, q \in Int32, g \in HoldId : Hold(k, q, g)
  BY <1>2 DEF Hold
<1>3. CASE \E g \in HoldId : Commit(g) \/ Release(g)
  BY <1>3 DEF Commit, Release, CanCommit, CanRelease, Open
<1>4. CASE Restart
  <2>1. PICK k0 \in Key : Absent = [key |-> k0, qty |-> 0, status |-> "absent"]
    BY InventoryAssumption DEF Absent
  <2>2. [Absent EXCEPT !.status = "lost"].status = "lost"
    BY <2>1
  <2> QED
    BY <1>4, <2>2 DEF Restart
<1> QED
  BY <1>1, <1>2, <1>3, <1>4, NextCases

\* A hold is consumed once (the status checks of Commit and Release).
THEOREM HoldsConsumedOnce == Spec => ConsumedOnce
<1>1. IInv /\ [Next]_vars =>
        [\A h \in HoldId : holds[h].status \in {"committed", "released"} =>
           holds'[h] = holds[h] \/ holds'[h].status = "lost"]_vars
  BY ConsumedStep
<1> QED
  BY <1>1, Invariant, PTL DEF Spec, ConsumedOnce

-----------------------------------------------------------------------------
(* What the RPCs do to the sold counters, for the modules that call them.  *)

LEMMA CommitSells ==
  ASSUME IInv, NEW h \in HoldId, Commit(h)
  PROVE  \A j \in Key : stock'[j].sold =
           IF j = holds[h].key THEN stock[j].sold + holds[h].qty ELSE stock[j].sold
<1> DEFINE k == holds[h].key
           q == holds[h].qty
<1>1. CountersOK /\ CountersOK' /\ TypeOK /\ QtyOK
  BY CommitInv DEF IInv
<1>2. k \in Key /\ q \in 0 .. MaxInt
  BY <1>1 DEF TypeOK, HoldRecord, QtyOK
<1>3. stock' = [stock EXCEPT ![k].held = Wrap(@ - q), ![k].sold = Wrap(@ + q)]
  BY DEF Commit
<1> HIDE DEF k, q
<1>4. \A j \in Key : stock'[j].sold = IF j = k THEN Wrap(stock[j].sold + q)
                                               ELSE stock[j].sold
  BY <1>1, <1>2, <1>3 DEF TypeOK, StockRecord
<1>5. Wrap(stock[k].sold + q) = stock[k].sold + q
  BY <1>1, <1>2, <1>4, InventoryAssumption DEF CountersOK, Wrap
<1> QED
  BY <1>4, <1>5 DEF k, q

LEMMA ReturnFrees ==
  ASSUME IInv, NEW k \in Key, NEW q \in Int32, ReturnStock(k, q)
  PROVE  /\ q <= stock[k].sold
         /\ \A j \in Key : stock'[j].sold =
              IF j = k THEN stock[j].sold - q ELSE stock[j].sold
<1>1. CountersOK /\ TypeOK
  BY DEF IInv
<1>2. q > 0 /\ q <= stock[k].sold
  BY DEF ReturnStock, CanReturn
<1>3. stock' = [stock EXCEPT ![k].sold = Wrap(@ - q)]
  BY DEF ReturnStock
<1>4. \A j \in Key : stock'[j].sold = IF j = k THEN Wrap(stock[j].sold - q)
                                               ELSE stock[j].sold
  BY <1>1, <1>3 DEF TypeOK, StockRecord
<1>5. Wrap(stock[k].sold - q) = stock[k].sold - q
  BY <1>1, <1>2, InventoryAssumption DEF CountersOK, Wrap, Int32
<1> QED
  BY <1>2, <1>4, <1>5

LEMMA OthersSellNothing ==
  ASSUME IInv,
         \/ \E k \in Key, q \in Int32 : SetStock(k, q)
         \/ \E k \in Key, q \in Int32, h \in HoldId : Hold(k, q, h)
         \/ \E h \in HoldId : Release(h)
  PROVE  \A j \in Key : stock'[j].sold = stock[j].sold
<1> USE DEF IInv, TypeOK, StockRecord
<1>1. ASSUME NEW k \in Key, NEW q \in Int32, SetStock(k, q)
      PROVE  \A j \in Key : stock'[j].sold = stock[j].sold
  BY <1>1 DEF SetStock
<1>2. ASSUME NEW k \in Key, NEW q \in Int32, NEW h \in HoldId, Hold(k, q, h)
      PROVE  \A j \in Key : stock'[j].sold = stock[j].sold
  BY <1>2 DEF Hold
<1>3. ASSUME NEW h \in HoldId, Release(h)
      PROVE  \A j \in Key : stock'[j].sold = stock[j].sold
  <2>1. holds[h].key \in Key
    BY DEF HoldRecord
  <2> QED
    BY <1>3, <2>1 DEF Release
<1> QED
  BY <1>1, <1>2, <1>3
=============================================================================
