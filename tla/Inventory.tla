------------------------------ MODULE Inventory ------------------------------
(***************************************************************************)
(* The inventory service: room stock per (hotel, room_type, date) and the  *)
(* holds the booking saga takes on it.  This is the in-memory backend      *)
(* (store/mem.go behind server/server.go): one mutex makes every RPC one   *)
(* step.  The Postgres backend, where an RPC is a transaction of several   *)
(* statements, is module InventoryPG, which implements this module.        *)
(*                                                                         *)
(* A failing RPC changes nothing and is a stuttering step; the Can...      *)
(* predicates say when an RPC succeeds.                                    *)
(***************************************************************************)
EXTENDS Integers, FiniteSets

CONSTANTS Key,      \* (hotel, room_type, date) triples
          HoldId,   \* what newHoldID can return: 16 random bytes
          MaxInt,   \* the largest int32, 2^31 - 1 in the code
          Durable   \* FALSE for the in-memory backend, whose process may restart

ASSUME InventoryAssumption == /\ Key # {}
                              /\ MaxInt \in Nat
                              /\ IsFiniteSet(HoldId)
                              /\ Durable \in BOOLEAN

VARIABLES stock,    \* stock[k]: the stockRecord of k, listed iff the map has one
          holds     \* holds[h]: the holdRecord of h, status "absent" if not minted

vars == <<stock, holds>>

-----------------------------------------------------------------------------
(* int32 arithmetic.  One addition or subtraction of two int32 wraps at    *)
(* most once.                                                              *)

Int32 == -(MaxInt + 1) .. MaxInt

Wrap(x) == IF x > MaxInt THEN x - 2 * (MaxInt + 1)
           ELSE IF x < -(MaxInt + 1) THEN x + 2 * (MaxInt + 1)
           ELSE x

-----------------------------------------------------------------------------
StockRecord == [listed : BOOLEAN, total : Int32, sold : Int32, held : Int32]

\* "lost" is an id the process gave out before a restart: the map does not
\* have it any more, and newHoldID does not return it again.
HoldRecord ==
  [key : Key, qty : Int32,
   status : {"absent", "held", "committed", "released", "lost"}]

NoStock == [listed |-> FALSE, total |-> 0, sold |-> 0, held |-> 0]

Absent == [key |-> CHOOSE k \in Key : TRUE, qty |-> 0, status |-> "absent"]

TypeOK == /\ stock \in [Key -> StockRecord]
          /\ holds \in [HoldId -> HoldRecord]

Init == /\ stock = [k \in Key |-> NoStock]
        /\ holds = [h \in HoldId |-> Absent]

-----------------------------------------------------------------------------
Available(k) == Wrap(Wrap(stock[k].total - stock[k].sold) - stock[k].held)

Open(h) == holds[h].status = "held"

\* SetStock writes the total only; sold and held are preserved.
SetStock(k, q) ==
  /\ q >= 0
  /\ stock' = [stock EXCEPT ![k].listed = TRUE, ![k].total = q]
  /\ UNCHANGED holds

\* Mutant: Hold forgets the units that other holds have reserved.
CanHoldIgnoringHeld(k, q) ==
  q > 0 /\ stock[k].listed /\ Wrap(stock[k].total - stock[k].sold) >= q

\* Mutant: Hold forgets the units that are sold.
CanHoldIgnoringSold(k, q) ==
  q > 0 /\ stock[k].listed /\ Wrap(stock[k].total - stock[k].held) >= q

CanHold(k, q) == q > 0 /\ stock[k].listed /\ Available(k) >= q

Hold(k, q, h) ==
  /\ CanHold(k, q)
  /\ holds[h].status = "absent"
  /\ stock' = [stock EXCEPT ![k].held = Wrap(@ + q)]
  /\ holds' = [holds EXCEPT ![h] = [key |-> k, qty |-> q, status |-> "held"]]

CanCommit(h) == Open(h)

\* Mutant: Commit counts the units as sold and leaves them reserved.
CommitKeepsHeld(h) ==
  /\ CanCommit(h)
  /\ stock' = [stock EXCEPT ![holds[h].key].sold = Wrap(@ + holds[h].qty)]
  /\ holds' = [holds EXCEPT ![h].status = "committed"]

Commit(h) ==
  LET k == holds[h].key
      q == holds[h].qty
  IN  /\ CanCommit(h)
      /\ stock' = [stock EXCEPT ![k].held = Wrap(@ - q), ![k].sold = Wrap(@ + q)]
      /\ holds' = [holds EXCEPT ![h].status = "committed"]

\* Mutant: Release checks that the hold exists, not that it is open.
CanReleaseConsumed(h) == holds[h].status \in {"held", "committed"}

CanRelease(h) == Open(h)

\* Mutant: Release stores a status that is none of the three.
ReleaseMisspelt(h) ==
  /\ CanRelease(h)
  /\ stock' = [stock EXCEPT ![holds[h].key].held = Wrap(@ - holds[h].qty)]
  /\ holds' = [holds EXCEPT ![h].status = "release"]

Release(h) ==
  LET k == holds[h].key
      q == holds[h].qty
  IN  /\ CanRelease(h)
      /\ stock' = [stock EXCEPT ![k].held = Wrap(@ - q)]
      /\ holds' = [holds EXCEPT ![h].status = "released"]

\* Mutant: ReturnStock does not compare the quantity with what is sold.
CanReturnUnsold(k, q) == q > 0 /\ stock[k].listed

CanReturn(k, q) == q > 0 /\ stock[k].listed /\ q <= stock[k].sold

\* ReturnStock names a stock key, not a hold: any sold unit of k will do.
ReturnStock(k, q) ==
  /\ CanReturn(k, q)
  /\ stock' = [stock EXCEPT ![k].sold = Wrap(@ - q)]
  /\ UNCHANGED holds

\* The process dies and a new one starts with empty maps (NewMemStore).
Restart ==
  /\ ~Durable
  /\ stock' = [k \in Key |-> NoStock]
  /\ holds' = [h \in HoldId |-> IF holds[h].status = "absent" THEN Absent
                                ELSE [Absent EXCEPT !.status = "lost"]]

\* The messages.  A key is a hotel_id, a room_type and a date; an unset
\* quantity reads as 0.
SetStockRequest == [key : Key, quantity : Int32]
HoldRequest == [key : Key, quantity : Int32]
CommitRequest == [hold_id : HoldId]
ReleaseRequest == [hold_id : HoldId]
ReturnStockRequest == [key : Key, quantity : Int32]

Next == \/ \E m \in SetStockRequest : SetStock(m.key, m.quantity)
        \/ \E m \in HoldRequest, h \in HoldId : Hold(m.key, m.quantity, h)
        \/ \E m \in CommitRequest : Commit(m.hold_id)
        \/ \E m \in ReleaseRequest : Release(m.hold_id)
        \/ \E m \in ReturnStockRequest : ReturnStock(m.key, m.quantity)
        \/ Restart

Spec == Init /\ [][Next]_vars

-----------------------------------------------------------------------------
(* What the service promises.                                              *)

\* The units of stock key k that the holds with status st stand for.
Units(k, st) == {u \in HoldId \X (1 .. MaxInt) :
                    /\ holds[u[1]].key = k
                    /\ holds[u[1]].status = st
                    /\ u[2] <= holds[u[1]].qty}

Used(k) == stock[k].sold + stock[k].held

Excess(k) == IF Used(k) > stock[k].total THEN Used(k) - stock[k].total ELSE 0

\* The held counter of a key is exactly the sum of its open holds: no path
\* through Hold, Commit, Release, ReturnStock and a restart leaves a unit
\* reserved that no hold can give back, or gives one back twice.
HeldIsOpenHolds ==
  \A k \in Key : stock[k].held = Cardinality(Units(k, "held"))

\* No more units are sold than were committed, and a return never takes the
\* counter below zero although it names no hold.
SoldWasCommitted ==
  \A k \in Key : stock[k].sold \in 0 .. Cardinality(Units(k, "committed"))

\* The int32 arithmetic of the handlers never wraps: sold and held, and what
\* Hold computes from them, stay what they would be over the integers, even
\* when the total is lowered below what is sold.
NoWraparound ==
  \A k \in Key : /\ stock[k].total \in 0 .. MaxInt
                 /\ Used(k) \in 0 .. MaxInt
                 /\ Available(k) = stock[k].total - Used(k)

\* Hold never oversells: the number of units in use above the total grows
\* only in a step that lowers the total (an admin's SetStock).
ExcessOnlyByLowering ==
  \A k \in Key : Excess(k)' > Excess(k) => stock[k].total' < stock[k].total

OversellOnlyByLowering == [][ExcessOnlyByLowering]_vars

\* A hold is consumed once: committed or released, it never changes again,
\* unless the process that kept it restarts.
ConsumedOnce ==
  [][\A h \in HoldId :
        holds[h].status \in {"committed", "released"} =>
           holds'[h] = holds[h] \/ holds'[h].status = "lost"]_vars
=============================================================================
