----------------------------- MODULE InventoryPG -----------------------------
(***************************************************************************)
(* The Postgres backend of inventory (store/pg.go): every RPC but SetStock *)
(* is a READ COMMITTED transaction of several statements that takes row    *)
(* locks (SELECT ... FOR UPDATE, UPDATE), and any number of them run at    *)
(* once, possibly from several processes.  A transaction's writes become   *)
(* visible at its commit; its rows stay locked until then, so the row it   *)
(* writes is computed at the commit from the row it locked.  A transaction *)
(* can be rolled back at every step: by the code after a failed check, or  *)
(* because its context, its process or its connection ends.                *)
(*                                                                         *)
(* The transactions implement the one-step RPCs of module Inventory.       *)
(***************************************************************************)
EXTENDS Integers, FiniteSets

CONSTANTS Key, HoldId, MaxInt,
          Txn       \* the transactions that can be open at once

ASSUME InventoryPGAssumption == /\ Key # {}
                                /\ IsFiniteSet(HoldId) /\ HoldId # {}
                                /\ MaxInt \in Nat
                                /\ "free" \notin Txn

VARIABLES stock, holds,   \* the committed rows of the two tables
          tx,             \* tx[t]: what transaction t is doing
          stockLock,      \* stockLock[k]: the transaction that locks the row of k
          holdLock        \* holdLock[h]: the same for a row of holds

vars == <<stock, holds, tx, stockLock, holdLock>>

Inv == INSTANCE Inventory WITH Durable <- TRUE

Step == {"idle", "selectStock", "selectHold", "updateStock", "commit"}

Transaction == [op : {"none", "hold", "commit", "release", "return"}, step : Step,
                key : Key, qty : Inv!Int32, hold : HoldId]

TypeOK == /\ Inv!TypeOK
          /\ tx \in [Txn -> Transaction]
          /\ stockLock \in [Key -> Txn \cup {"free"}]
          /\ holdLock \in [HoldId -> Txn \cup {"free"}]

Idle == [op |-> "none", step |-> "idle", key |-> CHOOSE k \in Key : TRUE,
         qty |-> 0, hold |-> CHOOSE h \in HoldId : TRUE]

Init == /\ Inv!Init
        /\ tx = [t \in Txn |-> Idle]
        /\ stockLock = [k \in Key |-> "free"]
        /\ holdLock = [h \in HoldId |-> "free"]

-----------------------------------------------------------------------------
\* Mutant: an unlocked row has an owner that is no transaction.
UnlockedNil(lock, t) == [r \in DOMAIN lock |-> IF lock[r] = t THEN "nil" ELSE lock[r]]

Unlocked(lock, t) == [r \in DOMAIN lock |-> IF lock[r] = t THEN "free" ELSE lock[r]]

\* Mutant: an early return without the deferred Rollback keeps the rows locked.
EndLocked(t) == tx' = [tx EXCEPT ![t] = Idle] /\ UNCHANGED <<stockLock, holdLock>>

\* Committing and rolling back end the transaction and free its rows.
End(t) == /\ tx' = [tx EXCEPT ![t] = Idle]
          /\ stockLock' = Unlocked(stockLock, t)
          /\ holdLock' = Unlocked(holdLock, t)

Goto(t, step) == tx' = [tx EXCEPT ![t].step = step]

LockStock(t, k) == /\ stockLock[k] \in {"free", t}
                   /\ stockLock' = [stockLock EXCEPT ![k] = t]

\* The row the UPDATE makes of the stock row of the transaction's key.
Updated(t) ==
  LET row == stock[tx[t].key]
      q == tx[t].qty
  IN  CASE tx[t].op = "hold"    -> [row EXCEPT !.held = @ + q]
        [] tx[t].op = "commit"  -> [row EXCEPT !.held = @ - q, !.sold = @ + q]
        [] tx[t].op = "release" -> [row EXCEPT !.held = @ - q]
        [] tx[t].op = "return"  -> [row EXCEPT !.sold = @ - q]

\* INTEGER columns with CHECK (held >= 0) and CHECK (sold >= 0).
RowAllowed(row) == row.held \in 0 .. MaxInt /\ row.sold \in 0 .. MaxInt

-----------------------------------------------------------------------------
\* HoldId bounds how many holds are ever made: one id is left for every hold
\* under way.  (newHoldID does not run out.)
IdsLeft == Cardinality({t \in Txn : tx[t].op = "hold"})
             < Cardinality({h \in HoldId : holds[h].status = "absent"})

BeginHold(t, k, q) ==
  /\ tx[t].step = "idle"
  /\ q > 0
  /\ IdsLeft
  /\ tx' = [tx EXCEPT ![t] = [Idle EXCEPT !.op = "hold", !.step = "selectStock",
                                          !.key = k, !.qty = q]]
  /\ UNCHANGED <<stock, holds, stockLock, holdLock>>

BeginReturn(t, k, q) ==
  /\ tx[t].step = "idle"
  /\ q > 0
  /\ tx' = [tx EXCEPT ![t] = [Idle EXCEPT !.op = "return", !.step = "selectStock",
                                          !.key = k, !.qty = q]]
  /\ UNCHANGED <<stock, holds, stockLock, holdLock>>

BeginConsume(t, h, op) ==
  /\ tx[t].step = "idle"
  /\ tx' = [tx EXCEPT ![t] = [Idle EXCEPT !.op = op, !.step = "selectHold", !.hold = h]]
  /\ UNCHANGED <<stock, holds, stockLock, holdLock>>

\* SELECT ... FROM stock FOR UPDATE waits for the row's lock, then the code
\* checks what it read; a failed check rolls back.
StockCheck(t) ==
  LET k == tx[t].key
  IN  IF tx[t].op = "hold" THEN Inv!CanHold(k, tx[t].qty) ELSE Inv!CanReturn(k, tx[t].qty)

\* Mutant: SELECT ... FROM stock without FOR UPDATE.
SelectStockUnlocked(t) ==
  /\ tx[t].step = "selectStock"
  /\ \/ ~StockCheck(t) /\ End(t)
     \/ /\ StockCheck(t) /\ Goto(t, "updateStock")
        /\ UNCHANGED <<stockLock, holdLock>>
  /\ UNCHANGED <<stock, holds>>

SelectStock(t) ==
  /\ tx[t].step = "selectStock"
  /\ \/ ~stock[tx[t].key].listed /\ End(t)
     \/ /\ stock[tx[t].key].listed /\ stockLock[tx[t].key] = "free"
        /\ ~StockCheck(t) /\ End(t)
     \/ /\ StockCheck(t) /\ LockStock(t, tx[t].key)
        /\ Goto(t, "updateStock") /\ UNCHANGED holdLock
  /\ UNCHANGED <<stock, holds>>

\* SELECT ... FROM holds FOR UPDATE: of two consumers of a hold the second
\* waits and then sees the status the first one left.
\* Mutant: SELECT ... FROM holds without FOR UPDATE.
SelectHoldUnlocked(t) ==
  LET h == tx[t].hold
  IN  /\ tx[t].step = "selectHold"
      /\ \/ ~Inv!Open(h) /\ End(t)
         \/ /\ Inv!Open(h)
            /\ tx' = [tx EXCEPT ![t].step = "updateStock",
                                ![t].key = holds[h].key, ![t].qty = holds[h].qty]
            /\ UNCHANGED <<stockLock, holdLock>>
      /\ UNCHANGED <<stock, holds>>

SelectHold(t) ==
  LET h == tx[t].hold
  IN  /\ tx[t].step = "selectHold"
      /\ \/ holds[h].status = "absent" /\ End(t)
         \/ /\ holds[h].status \notin {"absent", "held"} /\ holdLock[h] = "free"
            /\ End(t)
         \/ /\ Inv!Open(h) /\ holdLock[h] = "free"
            /\ holdLock' = [holdLock EXCEPT ![h] = t]
            /\ tx' = [tx EXCEPT ![t].step = "updateStock",
                                ![t].key = holds[h].key, ![t].qty = holds[h].qty]
            /\ UNCHANGED stockLock
      /\ UNCHANGED <<stock, holds>>

\* UPDATE stock takes the row's lock too, and fails if the row it would write
\* violates the schema.
UpdateStock(t) ==
  /\ tx[t].step = "updateStock"
  /\ \/ /\ RowAllowed(Updated(t)) /\ LockStock(t, tx[t].key)
        /\ Goto(t, "commit") /\ UNCHANGED holdLock
     \/ stockLock[tx[t].key] \in {"free", t} /\ ~RowAllowed(Updated(t)) /\ End(t)
  /\ UNCHANGED <<stock, holds>>

\* The INSERT or UPDATE of holds and the COMMIT, which shows both rows.
CommitTx(t) ==
  /\ tx[t].step = "commit"
  /\ stock' = [stock EXCEPT ![tx[t].key] = Updated(t)]
  /\ \/ /\ tx[t].op = "hold"
        /\ \E h \in HoldId :
             /\ holds[h].status = "absent"
             /\ holds' = [holds EXCEPT ![h] =
                            [key |-> tx[t].key, qty |-> tx[t].qty, status |-> "held"]]
     \/ tx[t].op = "commit" /\ holds' = [holds EXCEPT ![tx[t].hold].status = "committed"]
     \/ tx[t].op = "release" /\ holds' = [holds EXCEPT ![tx[t].hold].status = "released"]
     \/ tx[t].op = "return" /\ UNCHANGED holds
  /\ End(t)

\* defer tx.Rollback: the context is cancelled, the connection breaks, the
\* process or the database restarts.
Rollback(t) == /\ tx[t].step # "idle"
               /\ End(t)
               /\ UNCHANGED <<stock, holds>>

\* SetStock is one upsert; it waits for the row's lock.
SetStock(k, q) == /\ stockLock[k] = "free"
                  /\ Inv!SetStock(k, q)
                  /\ UNCHANGED <<tx, stockLock, holdLock>>

Statement(t) == SelectStock(t) \/ SelectHold(t) \/ UpdateStock(t) \/ CommitTx(t)

Next == \/ \E k \in Key, q \in Inv!Int32 : SetStock(k, q)
        \/ \E t \in Txn, k \in Key, q \in Inv!Int32 : BeginHold(t, k, q)
        \/ \E t \in Txn, k \in Key, q \in Inv!Int32 : BeginReturn(t, k, q)
        \/ \E t \in Txn, h \in HoldId, op \in {"commit", "release"} : BeginConsume(t, h, op)
        \/ \E t \in Txn : Statement(t) \/ Rollback(t)

Spec == Init /\ [][Next]_vars

\* Postgres runs every statement, and grants a row's lock in order of arrival.
FairSpec == Spec /\ \A t \in Txn : SF_vars(Statement(t))

-----------------------------------------------------------------------------
\* However the statements interleave and wherever a transaction is rolled
\* back, what the tables show is what the one-step RPCs of Inventory do: no
\* oversell, no hold consumed twice, no unit lost by half a transaction.
ImplementsInventory == Inv!Spec

\* The schema's CHECK constraints and integer ranges never reject an UPDATE:
\* the row locks taken before it make the checks of the code sufficient.
SchemaNeverRejects ==
  \A t \in Txn : tx[t].step \in {"updateStock", "commit"} => RowAllowed(Updated(t))

\* The next statement of t needs a row that transaction s has locked.
Waits(t, s) ==
  /\ s # t
  /\ \/ tx[t].step \in {"selectStock", "updateStock"} /\ stockLock[tx[t].key] = s
     \/ tx[t].step = "selectHold" /\ holdLock[tx[t].hold] = s

\* The order in which the code takes row locks, the hold's before the stock's,
\* cannot deadlock: whoever waits for a row waits for a transaction that can go
\* on, or that waits for one that can.
WaitsAreShort ==
  \A t, s, r, q \in Txn : Waits(t, s) /\ Waits(s, r) => ~Waits(r, q)

\* With row locks granted in order of arrival every transaction ends.
EveryTxnEnds == \A t \in Txn : tx[t].step # "idle" ~> tx[t].step = "idle"
=============================================================================
