-------------------------- MODULE InventoryPGProofs --------------------------
(***************************************************************************)
(* Theorems about InventoryPG, for every set of keys, holds and open       *)
(* transactions.  The inductive invariant says what the row locks protect: *)
(* what a transaction read under a lock still holds when it writes.  With  *)
(* the accounting of InventoryProofs it makes every commit one RPC of      *)
(* Inventory, and every UPDATE one the schema accepts.                     *)
(***************************************************************************)
EXTENDS InventoryPG, TLAPS

IP == INSTANCE InventoryProofs WITH Durable <- TRUE

Consume == {"commit", "release"}

TablesOK == /\ tx \in [Txn -> Transaction]
            /\ stockLock \in [Key -> Txn \cup {"free"}]
            /\ holdLock \in [HoldId -> Txn \cup {"free"}]

\* An operation goes through its own statements only.
StepsOK(t) ==
  /\ tx[t].step = "selectStock" => tx[t].op \in {"hold", "return"}
  /\ tx[t].step = "selectHold" => tx[t].op \in Consume
  /\ tx[t].step \in {"updateStock", "commit"} => tx[t].op # "none"

\* What transaction t read is still true: nobody else could write the row.
ReadIsStable(t) ==
  /\ tx[t].op \in {"hold", "return"} =>
       stockLock[tx[t].key] = t /\ StockCheck(t)
  /\ tx[t].op \in Consume =>
       /\ holdLock[tx[t].hold] = t
       /\ Inv!Open(tx[t].hold)
       /\ holds[tx[t].hold].key = tx[t].key
       /\ holds[tx[t].hold].qty = tx[t].qty

LocksOK(t) ==
  /\ StepsOK(t)
  /\ tx[t].step \in {"updateStock", "commit"} => ReadIsStable(t)
  /\ tx[t].step = "commit" => stockLock[tx[t].key] = t

LockInv == \A t \in Txn : LocksOK(t)

IInv == IP!IInv /\ TablesOK /\ LockInv

\* A transaction owns the rows its finished statements have locked, no other:
\* the stock row is its key's.
Writing(t) == tx[t].step \in {"updateStock", "commit"}

OwnersOK(t) ==
  /\ \A k \in Key : stockLock[k] = t => Writing(t) /\ tx[t].key = k
  /\ \A h \in HoldId : holdLock[h] = t => Writing(t)

OwnerInv == \A t \in Txn : OwnersOK(t)

-----------------------------------------------------------------------------
(* InventoryProofs is about the module this one implements.                *)

LEMMA Constants ==
  Key # {} /\ MaxInt \in Nat /\ IP!IsFiniteSet(HoldId) /\ TRUE \in BOOLEAN
BY InventoryPGAssumption DEF IsFiniteSet, IP!IsFiniteSet

LEMMA SameModule ==
  /\ Inv!Init <=> IP!Init
  /\ Inv!Next <=> IP!Next
  /\ Inv!TypeOK <=> IP!TypeOK
  /\ Inv!Int32 = IP!Int32
<1>1. Inv!Init <=> IP!Init
  BY DEF Inv!Init, IP!Init, Inv!NoStock, IP!NoStock, Inv!Absent, IP!Absent
<1>2. Inv!Int32 = IP!Int32
  BY DEF Inv!Int32, IP!Int32
<1>3. Inv!TypeOK <=> IP!TypeOK
  BY <1>2 DEF Inv!TypeOK, IP!TypeOK, Inv!StockRecord, IP!StockRecord,
              Inv!HoldRecord, IP!HoldRecord
<1>4. Inv!Next <=> IP!Next
  BY <1>2 DEF Inv!Next, IP!Next, Inv!SetStock, IP!SetStock, Inv!Hold, IP!Hold,
     Inv!Commit, IP!Commit, Inv!Release, IP!Release, Inv!ReturnStock, IP!ReturnStock,
     Inv!Restart, IP!Restart, Inv!CanHold, IP!CanHold, Inv!CanReturn, IP!CanReturn,
     Inv!CanCommit, IP!CanCommit, Inv!CanRelease, IP!CanRelease, Inv!Open, IP!Open,
     Inv!Available, IP!Available, Inv!Wrap, IP!Wrap, Inv!Int32, IP!Int32,
     Inv!SetStockRequest, IP!SetStockRequest, Inv!HoldRequest, IP!HoldRequest,
     Inv!CommitRequest, IP!CommitRequest, Inv!ReleaseRequest, IP!ReleaseRequest,
     Inv!ReturnStockRequest, IP!ReturnStockRequest
<1> QED
  BY <1>1, <1>2, <1>3, <1>4

\* The types a step starts from.
LEMMA Types ==
  ASSUME IInv
  PROVE  /\ stock \in [Key -> Inv!StockRecord]
         /\ holds \in [HoldId -> Inv!HoldRecord]
         /\ TablesOK /\ LockInv
BY SameModule DEF IInv, IP!IInv, Inv!TypeOK

LEMMA IdleType == Idle \in Transaction /\ Idle.step = "idle"
<1>1. (CHOOSE k \in Key : TRUE) \in Key /\ (CHOOSE h \in HoldId : TRUE) \in HoldId
  BY InventoryPGAssumption
<1>2. 0 \in Inv!Int32
  BY InventoryPGAssumption DEF Inv!Int32
<1> QED
  BY <1>1, <1>2 DEF Idle, Transaction, Step

-----------------------------------------------------------------------------
(* The locks protect what a transaction read.                              *)

\* A step that leaves a transaction and the rows it has locked alone keeps
\* what the transaction relies on.
LEMMA OthersKeep ==
  ASSUME TablesOK, NEW u \in Txn, LocksOK(u), tx'[u] = tx[u],
         \A k \in Key : stockLock[k] = u => stockLock'[k] = u /\ stock'[k] = stock[k],
         \A h \in HoldId : holdLock[h] = u /\ Inv!Open(h) =>
                             holdLock'[h] = u /\ holds'[h] = holds[h]
  PROVE  LocksOK(u)'
<1>1. tx[u].key \in Key /\ tx[u].hold \in HoldId
  BY DEF TablesOK, Transaction
<1>2. StepsOK(u)'
  BY DEF LocksOK, StepsOK
<1>3. ASSUME ReadIsStable(u) PROVE ReadIsStable(u)'
  <2>1. CASE tx[u].op \in {"hold", "return"}
    BY <1>1, <1>3, <2>1 DEF ReadIsStable, StockCheck, Consume, Inv!CanHold, Inv!CanReturn, Inv!Available
  <2>2. CASE tx[u].op \in Consume
    BY <1>1, <1>3, <2>2 DEF ReadIsStable, Consume, Inv!Open
  <2>3. CASE tx[u].op \notin {"hold", "return"} \cup Consume
    BY <2>3 DEF ReadIsStable, Consume
  <2> QED
    BY <2>1, <2>2, <2>3
<1> QED
  BY <1>1, <1>2, <1>3 DEF LocksOK

\* Ending a transaction frees its rows and nobody else's.
LEMMA EndLocks ==
  ASSUME TablesOK, LockInv, NEW t \in Txn, End(t),
         \A k \in Key : stockLock[k] # t => stock'[k] = stock[k],
         \A h \in HoldId : holdLock[h] \in Txn \ {t} /\ Inv!Open(h) => holds'[h] = holds[h]
  PROVE  TablesOK' /\ LockInv'
<1>1. TablesOK'
  BY IdleType DEF TablesOK, End, Unlocked
<1>2. ASSUME NEW u \in Txn, u # t PROVE LocksOK(u)'
  <2>1. LocksOK(u) /\ tx'[u] = tx[u]
    BY <1>2 DEF LockInv, End, TablesOK
  <2>2. \A k \in Key : stockLock[k] = u => stockLock'[k] = u /\ stock'[k] = stock[k]
    BY <1>2 DEF End, Unlocked, TablesOK
  <2>3. \A h \in HoldId : holdLock[h] = u /\ Inv!Open(h) =>
                             holdLock'[h] = u /\ holds'[h] = holds[h]
    BY <1>2 DEF End, Unlocked, TablesOK
  <2> QED
    BY <1>2, <2>1, <2>2, <2>3, OthersKeep
<1>3. LocksOK(t)'
  BY IdleType DEF TablesOK, End, LocksOK, StepsOK
<1> QED
  BY <1>1, <1>2, <1>3 DEF LockInv

\* A transaction that starts has locked nothing yet.
LEMMA BeginLocks ==
  ASSUME IInv, NEW t \in Txn, NEW r \in Transaction,
         tx' = [tx EXCEPT ![t] = r], UNCHANGED <<stock, holds, stockLock, holdLock>>,
         \/ r.step = "selectStock" /\ r.op \in {"hold", "return"}
         \/ r.step = "selectHold" /\ r.op \in Consume
  PROVE  TablesOK' /\ LockInv'
<1> USE Types
<1>1. TablesOK'
  BY DEF TablesOK
<1>2. ASSUME NEW u \in Txn, u # t PROVE LocksOK(u)'
  BY <1>2, OthersKeep DEF TablesOK, LockInv
<1>3. tx'[t] = r
  BY DEF TablesOK
<1>4. LocksOK(t)'
  BY <1>3 DEF LocksOK, StepsOK, Consume
<1> QED
  BY <1>1, <1>2, <1>4 DEF LockInv

LEMMA BeginStockLocks ==
  ASSUME IInv, NEW t \in Txn, NEW k \in Key, NEW q \in Inv!Int32,
         BeginHold(t, k, q) \/ BeginReturn(t, k, q)
  PROVE  TablesOK' /\ LockInv'
<1>1. PICK op \in {"hold", "return"} :
         /\ tx' = [tx EXCEPT ![t] = [Idle EXCEPT !.op = op, !.step = "selectStock",
                                                 !.key = k, !.qty = q]]
         /\ UNCHANGED <<stock, holds, stockLock, holdLock>>
  BY DEF BeginHold, BeginReturn
<1> DEFINE r == [Idle EXCEPT !.op = op, !.step = "selectStock", !.key = k, !.qty = q]
<1>2. r \in Transaction /\ r.step = "selectStock" /\ r.op = op
  BY IdleType DEF Transaction, Step
<1> HIDE DEF r
<1>3. tx' = [tx EXCEPT ![t] = r]
  BY <1>1 DEF r
<1> QED
  BY <1>1, <1>2, <1>3, BeginLocks

LEMMA BeginConsumeLocks ==
  ASSUME IInv, NEW t \in Txn, NEW h \in HoldId, NEW op \in Consume,
         BeginConsume(t, h, op)
  PROVE  TablesOK' /\ LockInv'
<1> DEFINE r == [Idle EXCEPT !.op = op, !.step = "selectHold", !.hold = h]
<1>1. r \in Transaction /\ r.step = "selectHold" /\ r.op = op
  BY IdleType DEF Transaction, Step, Consume
<1>2. /\ tx' = [tx EXCEPT ![t] = r]
      /\ UNCHANGED <<stock, holds, stockLock, holdLock>>
  BY DEF BeginConsume
<1> HIDE DEF r
<1> QED
  BY <1>1, <1>2, BeginLocks

\* A rollback writes nothing.
LEMMA RollbackLocks ==
  ASSUME IInv, NEW t \in Txn, End(t), UNCHANGED <<stock, holds>>
  PROVE  TablesOK' /\ LockInv'
BY Types, EndLocks

LEMMA SelectStockLocks ==
  ASSUME IInv, NEW t \in Txn, SelectStock(t)
  PROVE  TablesOK' /\ LockInv'
<1> USE Types
<1>1. UNCHANGED <<stock, holds>> /\ tx[t].step = "selectStock"
  BY DEF SelectStock
<1>2. CASE End(t)
  BY <1>1, <1>2, RollbackLocks
<1>3. CASE /\ StockCheck(t) /\ LockStock(t, tx[t].key)
           /\ Goto(t, "updateStock") /\ UNCHANGED holdLock
  <2> DEFINE k == tx[t].key
  <2>1. k \in Key /\ t # "free"
    BY InventoryPGAssumption DEF TablesOK, Transaction
  <2>2. /\ stockLock[k] \in {"free", t}
        /\ stockLock' = [stockLock EXCEPT ![k] = t]
        /\ tx' = [tx EXCEPT ![t].step = "updateStock"]
    BY <1>3 DEF LockStock, Goto
  <2> HIDE DEF k
  <2>3. TablesOK'
    BY <1>3, <2>1, <2>2 DEF TablesOK, Transaction, Step
  <2>4. ASSUME NEW u \in Txn, u # t PROVE LocksOK(u)'
    <3>1. LocksOK(u) /\ tx'[u] = tx[u]
      BY <2>2, <2>4 DEF LockInv, TablesOK
    <3>2. \A j \in Key : stockLock[j] = u => stockLock'[j] = u
      BY <2>1, <2>2, <2>4, InventoryPGAssumption DEF TablesOK
    <3> QED
      BY <1>1, <1>3, <3>1, <3>2, OthersKeep
  <2>5. LocksOK(t)'
    <3>1. tx'[t] = [tx[t] EXCEPT !.step = "updateStock"]
      BY <2>2 DEF TablesOK
    <3>2. /\ tx'[t].step = "updateStock" /\ tx'[t].op = tx[t].op
          /\ tx'[t].key = tx[t].key /\ tx'[t].qty = tx[t].qty
      BY <3>1 DEF TablesOK, Transaction
    <3>3. tx[t].op \in {"hold", "return"}
      BY <1>1 DEF LockInv, LocksOK, StepsOK
    <3>4. stockLock'[tx'[t].key] = t
      BY <2>1, <2>2, <3>2 DEF TablesOK, k
    <3>5. StockCheck(t)'
      BY <1>1, <1>3, <3>2 DEF StockCheck, Inv!CanHold, Inv!CanReturn, Inv!Available
    <3> QED
      BY <3>2, <3>3, <3>4, <3>5 DEF LocksOK, StepsOK, ReadIsStable, Consume
  <2> QED
    BY <2>3, <2>4, <2>5 DEF LockInv
<1> QED
  BY <1>2, <1>3 DEF SelectStock

LEMMA SelectHoldLocks ==
  ASSUME IInv, NEW t \in Txn, SelectHold(t)
  PROVE  TablesOK' /\ LockInv'
<1> USE Types
<1> DEFINE h == tx[t].hold
<1>1. /\ UNCHANGED <<stock, holds>> /\ tx[t].step = "selectHold"
      /\ h \in HoldId
  BY DEF SelectHold, TablesOK, Transaction
<1>2. CASE End(t)
  BY <1>1, <1>2, RollbackLocks
<1>3. CASE /\ Inv!Open(h) /\ holdLock[h] = "free"
           /\ holdLock' = [holdLock EXCEPT ![h] = t]
           /\ tx' = [tx EXCEPT ![t].step = "updateStock",
                               ![t].key = holds[h].key, ![t].qty = holds[h].qty]
           /\ UNCHANGED stockLock
  <2> DEFINE r == [tx[t] EXCEPT !.step = "updateStock", !.key = holds[h].key,
                                !.qty = holds[h].qty]
  <2>0. holds[h].key \in Key /\ holds[h].qty \in Inv!Int32
    BY <1>1 DEF Inv!HoldRecord
  <2>1. /\ r \in Transaction
        /\ r.step = "updateStock" /\ r.op = tx[t].op /\ r.hold = h
        /\ r.key = holds[h].key /\ r.qty = holds[h].qty
    BY <2>0 DEF TablesOK, Transaction, Step
  <2>2. tx' = [tx EXCEPT ![t] = r]
    <3>1. tx' = [tx EXCEPT ![t] = [@ EXCEPT !.step = "updateStock", !.key = holds[h].key,
                                            !.qty = holds[h].qty]]
      BY <1>3, Zenon
    <3> QED
      BY <3>1
  <2> HIDE DEF r, h
  <2>3. TablesOK'
    <3>1. tx' \in [Txn -> Transaction]
      BY <2>1, <2>2 DEF TablesOK
    <3>2. holdLock' \in [HoldId -> Txn \cup {"free"}] /\ stockLock' = stockLock
      BY <1>1, <1>3 DEF TablesOK
    <3> QED
      BY <3>1, <3>2 DEF TablesOK
  <2>4. ASSUME NEW u \in Txn, u # t PROVE LocksOK(u)'
    <3>1. LocksOK(u) /\ tx'[u] = tx[u]
      BY <2>2, <2>4 DEF LockInv, TablesOK
    <3>2. \A g \in HoldId : holdLock[g] = u => holdLock'[g] = u
      BY <1>1, <1>3, <2>4, InventoryPGAssumption DEF TablesOK
    <3> QED
      BY <1>1, <1>3, <3>1, <3>2, OthersKeep
  <2>5. LocksOK(t)'
    <3>1. tx'[t] = r
      BY <2>2 DEF TablesOK
    <3>2. tx[t].op \in Consume
      BY <1>1 DEF LockInv, LocksOK, StepsOK
    <3>3. holdLock'[h] = t
      BY <1>1, <1>3 DEF TablesOK
    <3> QED
      BY <1>1, <1>3, <2>1, <3>1, <3>2, <3>3
         DEF LocksOK, StepsOK, ReadIsStable, Consume, Inv!Open
  <2> QED
    BY <2>3, <2>4, <2>5 DEF LockInv
<1> QED
  BY <1>1, <1>2, <1>3 DEF SelectHold

LEMMA UpdateStockLocks ==
  ASSUME IInv, NEW t \in Txn, UpdateStock(t)
  PROVE  TablesOK' /\ LockInv'
<1> USE Types
<1>1. UNCHANGED <<stock, holds>> /\ tx[t].step = "updateStock"
  BY DEF UpdateStock
<1>2. CASE End(t)
  BY <1>1, <1>2, RollbackLocks
<1>3. CASE LockStock(t, tx[t].key) /\ Goto(t, "commit") /\ UNCHANGED holdLock
  <2> DEFINE k == tx[t].key
  <2>1. k \in Key /\ t # "free"
    BY InventoryPGAssumption DEF TablesOK, Transaction
  <2>2. /\ stockLock[k] \in {"free", t}
        /\ stockLock' = [stockLock EXCEPT ![k] = t]
        /\ tx' = [tx EXCEPT ![t].step = "commit"]
    BY <1>3 DEF LockStock, Goto
  <2> HIDE DEF k
  <2>3. TablesOK'
    BY <1>3, <2>1, <2>2 DEF TablesOK, Transaction, Step
  <2>4. ASSUME NEW u \in Txn, u # t PROVE LocksOK(u)'
    <3>1. LocksOK(u) /\ tx'[u] = tx[u]
      BY <2>2, <2>4 DEF LockInv, TablesOK
    <3>2. \A j \in Key : stockLock[j] = u => stockLock'[j] = u
      BY <2>1, <2>2, <2>4, InventoryPGAssumption DEF TablesOK
    <3> QED
      BY <1>1, <1>3, <3>1, <3>2, OthersKeep
  <2>5. LocksOK(t)'
    <3>1. /\ tx'[t].step = "commit" /\ tx'[t].op = tx[t].op /\ tx'[t].hold = tx[t].hold
          /\ tx'[t].key = tx[t].key /\ tx'[t].qty = tx[t].qty
      BY <2>2 DEF TablesOK, Transaction
    <3>2. ReadIsStable(t) /\ tx[t].op # "none"
      BY <1>1 DEF LockInv, LocksOK, StepsOK
    <3>3. stockLock'[tx'[t].key] = t
      BY <2>1, <2>2, <3>1 DEF TablesOK, k
    <3>4. StockCheck(t)' <=> StockCheck(t)
      BY <1>1, <3>1 DEF StockCheck, Inv!CanHold, Inv!CanReturn, Inv!Available
    <3>5. ReadIsStable(t)'
      BY <1>1, <1>3, <3>1, <3>2, <3>3, <3>4 DEF ReadIsStable, Inv!Open
    <3> QED
      BY <3>1, <3>2, <3>3, <3>5 DEF LocksOK, StepsOK
  <2> QED
    BY <2>3, <2>4, <2>5 DEF LockInv
<1> QED
  BY <1>2, <1>3 DEF UpdateStock

LEMMA CommitTxLocks ==
  ASSUME IInv, NEW t \in Txn, CommitTx(t)
  PROVE  TablesOK' /\ LockInv'
<1> USE Types
<1>1. /\ stockLock[tx[t].key] = t /\ ReadIsStable(t) /\ tx[t].key \in Key
      /\ tx[t].hold \in HoldId /\ End(t)
  BY DEF CommitTx, LockInv, LocksOK, TablesOK, Transaction
<1>2. \A k \in Key : stockLock[k] # t => stock'[k] = stock[k]
  BY <1>1 DEF CommitTx
<1>3. ASSUME NEW g \in HoldId, holdLock[g] \in Txn \ {t}, Inv!Open(g)
      PROVE  holds'[g] = holds[g]
  <2>1. CASE tx[t].op = "hold"
    <3>1. PICK h \in HoldId : /\ holds[h].status = "absent"
                              /\ \E r : holds' = [holds EXCEPT ![h] = r]
      BY <2>1 DEF CommitTx
    <3> QED
      BY <1>3, <3>1 DEF Inv!Open
  <2>2. CASE tx[t].op \in Consume
    <3>1. holdLock[tx[t].hold] = t
      BY <1>1, <2>2 DEF ReadIsStable
    <3>2. PICK st : holds' = [holds EXCEPT ![tx[t].hold].status = st]
      BY <2>2 DEF CommitTx, Consume
    <3> QED
      BY <1>3, <3>1, <3>2
  <2>3. CASE tx[t].op = "return"
    BY <2>3 DEF CommitTx
  <2> QED
    BY <2>1, <2>2, <2>3 DEF CommitTx, Consume
<1> QED
  BY <1>1, <1>2, <1>3, EndLocks

LEMMA SetStockLocks ==
  ASSUME IInv, NEW k \in Key, NEW q \in Inv!Int32, SetStock(k, q)
  PROVE  TablesOK' /\ LockInv'
<1> USE Types
<1>1. TablesOK'
  BY DEF TablesOK, SetStock
<1>2. ASSUME NEW u \in Txn PROVE LocksOK(u)'
  <2>1. LocksOK(u) /\ tx'[u] = tx[u]
    BY DEF LockInv, SetStock
  <2>2. \A j \in Key : stockLock[j] = u => stockLock'[j] = u /\ stock'[j] = stock[j]
    BY InventoryPGAssumption DEF SetStock, Inv!SetStock
  <2>3. UNCHANGED <<holdLock, holds>>
    BY DEF SetStock, Inv!SetStock
  <2> QED
    BY <2>1, <2>2, <2>3, OthersKeep
<1> QED
  BY <1>1, <1>2 DEF LockInv

LEMMA LocksStutter ==
  ASSUME TablesOK, LockInv, UNCHANGED vars
  PROVE  TablesOK' /\ LockInv'
<1>1. TablesOK'
  BY DEF TablesOK, vars
<1>2. ASSUME NEW u \in Txn PROVE LocksOK(u)'
  BY OthersKeep DEF LockInv, vars
<1> QED
  BY <1>1, <1>2 DEF LockInv

-----------------------------------------------------------------------------
(* What a transaction writes is what the RPC of Inventory writes.          *)

\* The counters of a key, and what Hold computes from them.
LEMMA Counters ==
  ASSUME IInv, NEW k \in Key
  PROVE  /\ stock[k].total \in 0 .. MaxInt
         /\ stock[k].sold \in 0 .. MaxInt
         /\ stock[k].held \in 0 .. MaxInt
         /\ stock[k].sold + stock[k].held <= MaxInt
         /\ Inv!Available(k) = stock[k].total - (stock[k].sold + stock[k].held)
<1>1. IP!CountersOK
  BY DEF IInv, IP!IInv
<1> QED
  BY <1>1, InventoryPGAssumption DEF IP!CountersOK, IP!Used, Inv!Available, Inv!Wrap

\* The units of an open hold are among the units held of its key.
LEMMA OpenHoldUnits ==
  ASSUME IInv, NEW h \in HoldId, Inv!Open(h)
  PROVE  /\ holds[h].key \in Key
         /\ holds[h].qty \in 0 .. MaxInt
         /\ holds[h].qty <= stock[holds[h].key].held
<1> USE Types
<1> DEFINE k == holds[h].key
<1>1. IP!QtyOK /\ IP!HeldIsOpenHolds
  BY DEF IInv, IP!IInv
<1>2. k \in Key
  BY DEF Inv!HoldRecord
<1>3. holds[h].status = "held"
  BY DEF Inv!Open
<1>4. holds[h].qty <= IP!Cardinality(IP!Units(k, "held"))
  BY <1>1, <1>3, Constants, IP!UnitsOfHold
<1> QED
  BY <1>1, <1>2, <1>4 DEF IP!QtyOK, IP!HeldIsOpenHolds

LEMMA UpdateAllowed ==
  ASSUME IInv, NEW t \in Txn, tx[t].step \in {"updateStock", "commit"}
  PROVE  RowAllowed(Updated(t))
<1> USE Types
<1> DEFINE k == tx[t].key
           q == tx[t].qty
<1>1. /\ k \in Key /\ q \in Inv!Int32 /\ tx[t].hold \in HoldId
      /\ tx[t].op \in {"hold", "return", "commit", "release"}
  BY DEF TablesOK, Transaction, LockInv, LocksOK, StepsOK
<1>2. ReadIsStable(t)
  BY DEF LockInv, LocksOK
<1>3. stock[k] \in Inv!StockRecord
  BY <1>1
<1>4. /\ stock[k].total \in 0 .. MaxInt
      /\ stock[k].sold \in 0 .. MaxInt
      /\ stock[k].held \in 0 .. MaxInt
      /\ stock[k].sold + stock[k].held <= MaxInt
      /\ Inv!Available(k) = stock[k].total - (stock[k].sold + stock[k].held)
  BY <1>1, Counters
<1>5. q \in Int /\ MaxInt \in Nat
  BY <1>1, InventoryPGAssumption DEF Inv!Int32
<1>6. CASE tx[t].op = "hold"
  <2>1. q > 0 /\ Inv!Available(k) >= q
    BY <1>2, <1>6 DEF ReadIsStable, StockCheck, Inv!CanHold
  <2>2. Updated(t) = [stock[k] EXCEPT !.held = @ + q]
    BY <1>6 DEF Updated
  <2>3. Updated(t).held = stock[k].held + q /\ Updated(t).sold = stock[k].sold
    BY <1>3, <2>2 DEF Inv!StockRecord
  <2> QED
    BY <1>4, <1>5, <2>1, <2>3 DEF RowAllowed
<1>7. CASE tx[t].op = "return"
  <2>1. q > 0 /\ q <= stock[k].sold
    BY <1>2, <1>7 DEF ReadIsStable, StockCheck, Inv!CanReturn
  <2>2. Updated(t) = [stock[k] EXCEPT !.sold = @ - q]
    BY <1>7 DEF Updated
  <2>3. Updated(t).held = stock[k].held /\ Updated(t).sold = stock[k].sold - q
    BY <1>3, <2>2 DEF Inv!StockRecord
  <2> QED
    BY <1>4, <1>5, <2>1, <2>3 DEF RowAllowed
<1>8. CASE tx[t].op \in Consume
  <2>1. q \in 0 .. MaxInt /\ q <= stock[k].held
    BY <1>1, <1>2, <1>8, OpenHoldUnits DEF ReadIsStable
  <2>2. CASE tx[t].op = "commit"
    <3>1. Updated(t) = [stock[k] EXCEPT !.held = @ - q, !.sold = @ + q]
      BY <2>2 DEF Updated
    <3>2. Updated(t).held = stock[k].held - q /\ Updated(t).sold = stock[k].sold + q
      BY <1>3, <3>1 DEF Inv!StockRecord
    <3> QED
      BY <1>4, <1>5, <2>1, <3>2 DEF RowAllowed
  <2>3. CASE tx[t].op = "release"
    <3>1. Updated(t) = [stock[k] EXCEPT !.held = @ - q]
      BY <2>3 DEF Updated
    <3>2. Updated(t).held = stock[k].held - q /\ Updated(t).sold = stock[k].sold
      BY <1>3, <3>1 DEF Inv!StockRecord
    <3> QED
      BY <1>4, <1>5, <2>1, <3>2 DEF RowAllowed
  <2> QED
    BY <1>8, <2>2, <2>3 DEF Consume
<1> QED
  BY <1>1, <1>6, <1>7, <1>8 DEF Consume

\* Each commit is one successful RPC of Inventory.
LEMMA CommitIsRPC ==
  ASSUME IInv, NEW t \in Txn, CommitTx(t)
  PROVE  \/ \E h \in HoldId : Inv!Hold(tx[t].key, tx[t].qty, h)
         \/ Inv!Commit(tx[t].hold)
         \/ Inv!Release(tx[t].hold)
         \/ Inv!ReturnStock(tx[t].key, tx[t].qty)
<1> USE Types
<1> DEFINE k == tx[t].key
           q == tx[t].qty
           g == tx[t].hold
<1>1. /\ k \in Key /\ q \in Inv!Int32 /\ g \in HoldId
      /\ tx[t].step = "commit" /\ ReadIsStable(t)
      /\ stock' = [stock EXCEPT ![k] = Updated(t)]
  BY DEF CommitTx, TablesOK, Transaction, LockInv, LocksOK
<1>2. stock[k] \in Inv!StockRecord
  BY <1>1
<1>3. /\ Updated(t).held \in 0 .. MaxInt /\ Updated(t).sold \in 0 .. MaxInt
      /\ MaxInt \in Nat
  BY <1>1, UpdateAllowed, InventoryPGAssumption DEF RowAllowed
<1>4. \A x \in 0 .. MaxInt : Inv!Wrap(x) = x
  BY InventoryPGAssumption DEF Inv!Wrap
<1>5. CASE tx[t].op = "hold"
  <2>1. Updated(t) = [stock[k] EXCEPT !.held = @ + q]
    BY <1>5 DEF Updated
  <2>2. Updated(t) = [stock[k] EXCEPT !.held = Inv!Wrap(@ + q)]
    BY <1>2, <1>3, <1>4, <2>1 DEF Inv!StockRecord
  <2>3. stock' = [stock EXCEPT ![k].held = Inv!Wrap(@ + q)]
    BY <1>1, <2>2
  <2>4. Inv!CanHold(k, q)
    BY <1>1, <1>5 DEF ReadIsStable, StockCheck
  <2> QED
    BY <1>5, <2>3, <2>4 DEF CommitTx, Inv!Hold
<1>6. CASE tx[t].op = "return"
  <2>1. Updated(t) = [stock[k] EXCEPT !.sold = @ - q]
    BY <1>6 DEF Updated
  <2>2. Updated(t) = [stock[k] EXCEPT !.sold = Inv!Wrap(@ - q)]
    BY <1>2, <1>3, <1>4, <2>1 DEF Inv!StockRecord
  <2>3. stock' = [stock EXCEPT ![k].sold = Inv!Wrap(@ - q)]
    BY <1>1, <2>2
  <2>4. Inv!CanReturn(k, q)
    BY <1>1, <1>6 DEF ReadIsStable, StockCheck
  <2> QED
    BY <1>6, <2>3, <2>4 DEF CommitTx, Inv!ReturnStock
<1>7. CASE tx[t].op = "commit"
  <2>1. Updated(t) = [stock[k] EXCEPT !.held = @ - q, !.sold = @ + q]
    BY <1>7 DEF Updated
  <2>2. Updated(t) = [stock[k] EXCEPT !.held = Inv!Wrap(@ - q), !.sold = Inv!Wrap(@ + q)]
    BY <1>2, <1>3, <1>4, <2>1 DEF Inv!StockRecord
  <2>3. stock' = [stock EXCEPT ![k].held = Inv!Wrap(@ - q), ![k].sold = Inv!Wrap(@ + q)]
    BY <1>1, <2>2
  <2>4. Inv!Open(g) /\ holds[g].key = k /\ holds[g].qty = q
    BY <1>1, <1>7 DEF ReadIsStable, Consume
  <2> QED
    BY <1>7, <2>3, <2>4 DEF CommitTx, Inv!Commit, Inv!CanCommit
<1>8. CASE tx[t].op = "release"
  <2>1. Updated(t) = [stock[k] EXCEPT !.held = @ - q]
    BY <1>8 DEF Updated
  <2>2. Updated(t) = [stock[k] EXCEPT !.held = Inv!Wrap(@ - q)]
    BY <1>2, <1>3, <1>4, <2>1 DEF Inv!StockRecord
  <2>3. stock' = [stock EXCEPT ![k].held = Inv!Wrap(@ - q)]
    BY <1>1, <2>2
  <2>4. Inv!Open(g) /\ holds[g].key = k /\ holds[g].qty = q
    BY <1>1, <1>8 DEF ReadIsStable, Consume
  <2> QED
    BY <1>8, <2>3, <2>4 DEF CommitTx, Inv!Release, Inv!CanRelease
<1> QED
  BY <1>5, <1>6, <1>7, <1>8 DEF CommitTx

-----------------------------------------------------------------------------
(* The whole step.                                                         *)

LEMMA NextLocks == IInv /\ [Next]_vars => TablesOK' /\ LockInv'
<1> SUFFICES ASSUME IInv, [Next]_vars PROVE TablesOK' /\ LockInv'
  OBVIOUS
<1>1. ASSUME NEW k \in Key, NEW q \in Inv!Int32, SetStock(k, q)
      PROVE  TablesOK' /\ LockInv'
  BY <1>1, SetStockLocks
<1>2. ASSUME NEW t \in Txn, NEW k \in Key, NEW q \in Inv!Int32,
             BeginHold(t, k, q) \/ BeginReturn(t, k, q)
      PROVE  TablesOK' /\ LockInv'
  BY <1>2, BeginStockLocks
<1>3. ASSUME NEW t \in Txn, NEW h \in HoldId, NEW op \in {"commit", "release"},
             BeginConsume(t, h, op)
      PROVE  TablesOK' /\ LockInv'
  BY <1>3, BeginConsumeLocks DEF Consume
<1>4. ASSUME NEW t \in Txn, SelectStock(t) PROVE TablesOK' /\ LockInv'
  BY <1>4, SelectStockLocks
<1>5. ASSUME NEW t \in Txn, SelectHold(t) PROVE TablesOK' /\ LockInv'
  BY <1>5, SelectHoldLocks
<1>6. ASSUME NEW t \in Txn, UpdateStock(t) PROVE TablesOK' /\ LockInv'
  BY <1>6, UpdateStockLocks
<1>7. ASSUME NEW t \in Txn, CommitTx(t) PROVE TablesOK' /\ LockInv'
  BY <1>7, CommitTxLocks
<1>8. ASSUME NEW t \in Txn, Rollback(t) PROVE TablesOK' /\ LockInv'
  BY <1>8, RollbackLocks DEF Rollback
<1>9. CASE UNCHANGED vars
  BY <1>9, Types, LocksStutter
<1> QED
  BY <1>1, <1>2, <1>3, <1>4, <1>5, <1>6, <1>7, <1>8, <1>9 DEF Next, Statement

\* A step of the transactions is a step of Inventory, or changes no table.
LEMMA NextImplements == IInv /\ [Next]_vars => Inv!Next \/ UNCHANGED <<stock, holds>>
<1> SUFFICES ASSUME IInv, [Next]_vars PROVE Inv!Next \/ UNCHANGED <<stock, holds>>
  OBVIOUS
<1>1. ASSUME NEW k \in Key, NEW q \in Inv!Int32, SetStock(k, q) PROVE Inv!Next
  <2>1. [key |-> k, quantity |-> q] \in Inv!SetStockRequest
    BY DEF Inv!SetStockRequest
  <2>2. Inv!SetStock(k, q)
    BY <1>1 DEF SetStock
  <2> QED
    BY <2>1, <2>2 DEF Inv!Next
<1>2. ASSUME NEW t \in Txn, CommitTx(t) PROVE Inv!Next
  <2> DEFINE k == tx[t].key
             q == tx[t].qty
             g == tx[t].hold
  <2>1. k \in Key /\ q \in Inv!Int32 /\ g \in HoldId
    BY Types DEF TablesOK, Transaction
  <2> HIDE DEF k, q, g
  <2>2. /\ [key |-> k, quantity |-> q] \in Inv!HoldRequest
        /\ [key |-> k, quantity |-> q] \in Inv!ReturnStockRequest
        /\ [hold_id |-> g] \in Inv!CommitRequest
        /\ [hold_id |-> g] \in Inv!ReleaseRequest
    BY <2>1 DEF Inv!HoldRequest, Inv!ReturnStockRequest, Inv!CommitRequest,
                Inv!ReleaseRequest
  <2>3. \/ \E h \in HoldId : Inv!Hold(k, q, h)
        \/ Inv!Commit(g)
        \/ Inv!Release(g)
        \/ Inv!ReturnStock(k, q)
    BY <1>2, CommitIsRPC DEF k, q, g
  <2> QED
    BY <2>2, <2>3 DEF Inv!Next
<1>3. ASSUME NEW t \in Txn,
             \/ SelectStock(t) \/ SelectHold(t) \/ UpdateStock(t) \/ Rollback(t)
             \/ \E k \in Key, q \in Inv!Int32 : BeginHold(t, k, q) \/ BeginReturn(t, k, q)
             \/ \E h \in HoldId, op \in {"commit", "release"} : BeginConsume(t, h, op)
      PROVE  UNCHANGED <<stock, holds>>
  BY <1>3 DEF SelectStock, SelectHold, UpdateStock, Rollback, BeginHold, BeginReturn,
              BeginConsume
<1>4. CASE UNCHANGED vars
  BY <1>4 DEF vars
<1> QED
  BY <1>1, <1>2, <1>3, <1>4 DEF Next, Statement

LEMMA InitInv == Init => IInv
<1> SUFFICES ASSUME Init PROVE IInv
  OBVIOUS
<1>1. IP!IInv
  BY SameModule, Constants, IP!InitInv DEF Init
<1>2. TablesOK
  BY IdleType DEF Init, TablesOK
<1>3. LockInv
  BY IdleType DEF Init, LockInv, LocksOK, StepsOK
<1> QED
  BY <1>1, <1>2, <1>3 DEF IInv

LEMMA NextInv == IInv /\ [Next]_vars => IInv'
<1> SUFFICES ASSUME IInv, [Next]_vars PROVE IInv'
  OBVIOUS
<1>1. IP!Next \/ UNCHANGED IP!vars
  BY NextImplements, SameModule DEF IP!vars
<1>2. IP!IInv
  BY DEF IInv
<1>3. IP!IInv'
  BY <1>1, <1>2, Constants, IP!NextInv, IP!StutterInv
<1> QED
  BY <1>3, NextLocks DEF IInv

\* What the locks protect stays true while they are held.
THEOREM Invariant == Spec => []IInv
BY InitInv, NextInv, PTL DEF Spec

\* The tables, the transactions and the locks have their types (pg.go's rows).
THEOREM TypeCorrect == Spec => []TypeOK
<1>1. IInv => TypeOK
  BY SameModule DEF IInv, TypeOK, TablesOK, IP!IInv
<1> QED
  BY <1>1, Invariant, PTL

\* The checks under row locks suffice: the schema never rejects an UPDATE.
THEOREM SchemaSafe == Spec => []SchemaNeverRejects
<1>1. IInv => SchemaNeverRejects
  BY UpdateAllowed DEF SchemaNeverRejects
<1> QED
  BY <1>1, Invariant, PTL

\* Transactions of several statements implement the one-step RPCs of
\* Inventory, however they interleave and wherever they are rolled back.
THEOREM Implements == Spec => ImplementsInventory
<1>1. Init => Inv!Init
  BY DEF Init
<1>2. IInv /\ [Next]_vars => [Inv!Next]_(Inv!vars)
  BY NextImplements DEF Inv!vars
<1> QED
  BY <1>1, <1>2, Invariant, PTL DEF Spec, ImplementsInventory, Inv!Spec

-----------------------------------------------------------------------------
(* Who waits for whom.                                                     *)

\* A step that gives u no row, and leaves it alone, keeps what u owns.
LEMMA OthersOwn ==
  ASSUME NEW u \in Txn, OwnersOK(u), tx'[u] = tx[u],
         \A k \in Key : stockLock'[k] = u => stockLock[k] = u,
         \A h \in HoldId : holdLock'[h] = u => holdLock[h] = u
  PROVE  OwnersOK(u)'
BY DEF OwnersOK, Writing

LEMMA EndOwners ==
  ASSUME TablesOK, OwnerInv, NEW t \in Txn, End(t)
  PROVE  OwnerInv'
<1>1. /\ \A k \in Key : stockLock'[k] # t /\ (stockLock'[k] = "free" \/ stockLock'[k] = stockLock[k])
      /\ \A h \in HoldId : holdLock'[h] # t /\ (holdLock'[h] = "free" \/ holdLock'[h] = holdLock[h])
  BY InventoryPGAssumption DEF End, Unlocked, TablesOK
<1>2. OwnersOK(t)'
  BY <1>1 DEF OwnersOK
<1>3. ASSUME NEW u \in Txn, u # t PROVE OwnersOK(u)'
  BY <1>1, <1>3, OthersOwn, InventoryPGAssumption DEF End, TablesOK, OwnerInv
<1> QED
  BY <1>2, <1>3 DEF OwnerInv

\* A transaction that starts owned nothing when it was idle.
LEMMA BeginOwners ==
  ASSUME TablesOK, OwnerInv, NEW t \in Txn, NEW r,
         tx[t].step = "idle", tx' = [tx EXCEPT ![t] = r],
         UNCHANGED <<stockLock, holdLock>>
  PROVE  OwnerInv'
<1>1. OwnersOK(t)'
  BY DEF OwnerInv, OwnersOK, Writing
<1>2. ASSUME NEW u \in Txn, u # t PROVE OwnersOK(u)'
  BY <1>2, OthersOwn DEF TablesOK, OwnerInv
<1> QED
  BY <1>1, <1>2 DEF OwnerInv

\* A statement that goes on locks rows for its own transaction only.
LEMMA StatementOwners ==
  ASSUME TablesOK, OwnerInv, NEW t \in Txn,
         SelectStock(t) \/ SelectHold(t) \/ UpdateStock(t), ~End(t)
  PROVE  OwnerInv'
<1>1. tx[t].key \in Key /\ tx[t].hold \in HoldId
  BY DEF TablesOK, Transaction
<1>2. OwnersOK(t)
  BY DEF OwnerInv
<1>3. /\ \A u \in Txn : u # t => tx'[u] = tx[u]
      /\ \A u \in Txn, k \in Key : u # t /\ stockLock'[k] = u => stockLock[k] = u
      /\ \A u \in Txn, h \in HoldId : u # t /\ holdLock'[h] = u => holdLock[h] = u
  BY <1>1 DEF SelectStock, SelectHold, UpdateStock, Goto, LockStock, TablesOK
<1>4. OwnersOK(t)'
  <2>1. CASE SelectStock(t)
    BY <1>1, <1>2, <2>1 DEF SelectStock, Goto, LockStock, TablesOK, Transaction, OwnersOK, Writing
  <2>2. CASE SelectHold(t)
    BY <1>1, <1>2, <2>2 DEF SelectHold, TablesOK, Transaction, OwnersOK, Writing
  <2>3. CASE UpdateStock(t)
    BY <1>1, <1>2, <2>3 DEF UpdateStock, Goto, LockStock, TablesOK, Transaction, OwnersOK, Writing
  <2> QED
    BY <2>1, <2>2, <2>3
<1>5. ASSUME NEW u \in Txn, u # t PROVE OwnersOK(u)'
  BY <1>3, <1>5, OthersOwn DEF OwnerInv
<1> QED
  BY <1>4, <1>5 DEF OwnerInv

LEMMA NextOwners == TablesOK /\ OwnerInv /\ [Next]_vars => OwnerInv'
<1> SUFFICES ASSUME TablesOK, OwnerInv, [Next]_vars PROVE OwnerInv'
  OBVIOUS
<1>1. CASE UNCHANGED <<tx, stockLock, holdLock>>
  BY <1>1, OthersOwn DEF OwnerInv
<1>2. ASSUME NEW t \in Txn,
             \/ \E k \in Key, q \in Inv!Int32 : BeginHold(t, k, q) \/ BeginReturn(t, k, q)
             \/ \E h \in HoldId, op \in {"commit", "release"} : BeginConsume(t, h, op)
      PROVE  OwnerInv'
  BY <1>2, BeginOwners DEF BeginHold, BeginReturn, BeginConsume
<1>3. ASSUME NEW t \in Txn, End(t) PROVE OwnerInv'
  BY <1>3, EndOwners
<1>4. ASSUME NEW t \in Txn, Statement(t) \/ Rollback(t), ~End(t) PROVE OwnerInv'
  BY <1>4, StatementOwners DEF Statement, CommitTx, Rollback
<1> QED
  BY <1>1, <1>2, <1>3, <1>4 DEF Next, SetStock, vars

LEMMA InitOwners == Init => OwnerInv
BY InventoryPGAssumption DEF Init, OwnerInv, OwnersOK

\* Whoever waits and is waited for is a consumer at its UPDATE, behind the
\* owner of the stock row; and the owner of its own stock row waits for nobody.
LEMMA OwnersDoNotWait ==
  ASSUME TablesOK, OwnerInv, NEW t \in Txn, NEW s \in Txn, NEW r \in Txn, NEW q \in Txn,
         Waits(t, s), Waits(s, r)
  PROVE  ~Waits(r, q)
<1> \A u \in Txn : tx[u].key \in Key /\ tx[u].hold \in HoldId
  BY DEF TablesOK, Transaction
<1>1. Writing(s)
  BY DEF Waits, OwnerInv, OwnersOK
<1>2. stockLock[tx[s].key] = r
  BY <1>1 DEF Waits, Writing
<1>3. Writing(r) /\ stockLock[tx[r].key] = r
  BY <1>2 DEF OwnerInv, OwnersOK
<1> QED
  BY <1>3 DEF Waits, Writing

\* Row locks are always taken in an order in which no transactions wait for
\* each other: a chain of waiting transactions has at most three (pg.go).
THEOREM NoDeadlock == Spec => []WaitsAreShort
<1>1. Spec => []OwnerInv
  <2>1. IInv => TablesOK
    BY DEF IInv
  <2> QED
    BY <2>1, InitOwners, NextOwners, Invariant, PTL DEF Spec
<1>2. IInv /\ OwnerInv => WaitsAreShort
  BY OwnersDoNotWait DEF WaitsAreShort, IInv
<1> QED
  BY <1>1, <1>2, Invariant, PTL
=============================================================================
