---------------------------- MODULE BookingProofs ----------------------------
(***************************************************************************)
(* Booking for any calls, processes, keys and stores, and whatever fails:  *)
(* the key locks, the sagas, and what booking promises about a key.        *)
(*                                                                         *)
(* The locks come first.  A taken lock belongs to a call that is running   *)
(* and will release it; that is not inductive without OwnsLock, which says *)
(* that a call between lookup and answer has the lock of its key, so that  *)
(* its deferred unlock frees its own lock and nobody else's.               *)
(*                                                                         *)
(* SagaInv says what a saga has taken by each of its steps: which hold and *)
(* which authorization it has, and in what state they can be.  A stored    *)
(* booking is backed because of it, and the steps of Booking are steps of  *)
(* IdempotentCreate.                                                       *)
(***************************************************************************)
EXTENDS Booking, TLAPS, FiniteSetTheorems

ControlType == /\ req \in [Call -> Request]
               /\ pc \in [Call -> Step]
               /\ keyLock \in [Proc -> [IdemKey -> Call \cup {"unmade", "free"}]]

OwnsLock == \A c \in Call : Locked(c) => keyLock[proc(c)][key(c)] = c

LockInv == ControlType /\ OwnsLock /\ NoLockLeaked

\* The state the locks depend on.
control == <<req, pc, keyLock>>

\* A call that has its lock goes on to another step under the lock.
GoOn(c) == /\ Locked(c)
           /\ \E s \in SagaStep : pc' = [pc EXCEPT ![c] = s]
           /\ UNCHANGED <<req, keyLock>>

\* A call that has its lock answers and releases it.
Unlock(c) == /\ Locked(c)
             /\ pc' = [pc EXCEPT ![c] = "done"]
             /\ keyLock' = [keyLock EXCEPT ![proc(c)][key(c)] = "free"]
             /\ UNCHANGED req

-----------------------------------------------------------------------------
\* A request names a process and a key.
LEMMA RequestType ==
  ASSUME NEW c \in Call, ControlType
  PROVE  proc(c) \in Proc /\ key(c) \in IdemKey
BY BookingAssumption DEF ControlType, proc, key, CreateBookingRequest

\* The marks of a lock that nobody has are not calls.
LEMMA NoCallIsFree == "free" \notin Call /\ "unmade" \notin Call
BY BookingAssumption

LEMMA InitLock == Init => LockInv
<1> SUFFICES ASSUME Init PROVE LockInv
  OBVIOUS
<1>1. ControlType
  BY DEF Init, ControlType, Step
<1>2. OwnsLock
  BY DEF Init, OwnsLock, Locked, SagaStep
<1>3. NoLockLeaked
  BY NoCallIsFree DEF Init, NoLockLeaked
<1> QED BY <1>1, <1>2, <1>3 DEF LockInv

LEMMA GoOnLock ==
  ASSUME LockInv, NEW c \in Call, GoOn(c)
  PROVE  LockInv'
<1> USE DEF LockInv
<1>1. PICK s \in SagaStep : pc' = [pc EXCEPT ![c] = s]
  BY DEF GoOn
<1>2. ControlType'
  BY <1>1 DEF ControlType, GoOn, Step
<1>3. \A d \in Call : Locked(d)' <=> Locked(d)
  BY <1>1 DEF ControlType, GoOn, Locked
<1>4. OwnsLock'
  BY <1>3 DEF OwnsLock, GoOn, proc, key
<1>5. NoLockLeaked'
  BY <1>3 DEF NoLockLeaked, GoOn, proc, key
<1> QED BY <1>2, <1>4, <1>5

LEMMA UnlockLock ==
  ASSUME LockInv, NEW c \in Call, Unlock(c)
  PROVE  LockInv'
<1> USE DEF LockInv
<1>1. proc(c) \in Proc /\ key(c) \in IdemKey
  BY RequestType
<1>2. ControlType'
  BY <1>1 DEF ControlType, Unlock, Step
<1>3. \A d \in Call : Locked(d)' <=> Locked(d) /\ d # c
  BY DEF ControlType, Unlock, Locked, SagaStep
<1>4. \A p \in Proc, k \in IdemKey :
        keyLock'[p][k] = IF p = proc(c) /\ k = key(c) THEN "free" ELSE keyLock[p][k]
  BY <1>1 DEF ControlType, Unlock
<1>5. OwnsLock'
  <2> SUFFICES ASSUME NEW d \in Call, Locked(d)'
               PROVE  keyLock'[proc(d)][key(d)] = d
    BY DEF OwnsLock, Unlock, proc, key
  <2>1. proc(d) \in Proc /\ key(d) \in IdemKey
    BY RequestType
  <2>2. keyLock[proc(d)][key(d)] = d /\ keyLock[proc(c)][key(c)] = c /\ d # c
    BY <1>3 DEF OwnsLock, Unlock
  <2> QED BY <1>4, <2>1, <2>2
<1>6. NoLockLeaked'
  <2> SUFFICES ASSUME NEW p \in Proc, NEW k \in IdemKey, NEW h \in Call,
                      keyLock'[p][k] = h
               PROVE  Locked(h)' /\ proc(h) = p /\ key(h) = k
    BY DEF NoLockLeaked, Unlock, proc, key
  <2>1. keyLock'[p][k] = keyLock[p][k] /\ ~(p = proc(c) /\ k = key(c))
    BY <1>4, NoCallIsFree
  <2>2. Locked(h) /\ proc(h) = p /\ key(h) = k
    BY <2>1 DEF NoLockLeaked
  <2> QED BY <1>3, <2>1, <2>2
<1> QED BY <1>2, <1>5, <1>6

LEMMA InvokeLock ==
  ASSUME LockInv, NEW c \in Call, Invoke(c)
  PROVE  LockInv'
<1> USE DEF LockInv
<1>1. UNCHANGED <<req, keyLock>>
  BY DEF Invoke
<1>2. \/ pc' = [pc EXCEPT ![c] = "done"]
      \/ pc' = [pc EXCEPT ![c] = "lockFor"]
  BY DEF Invoke
<1>3. ControlType'
  BY <1>1, <1>2 DEF ControlType, Step
<1>4. \A d \in Call : Locked(d)' <=> Locked(d)
  BY <1>2 DEF ControlType, Invoke, Locked, SagaStep
<1>5. OwnsLock'
  BY <1>1, <1>4 DEF OwnsLock, proc, key
<1>6. NoLockLeaked'
  BY <1>1, <1>4 DEF NoLockLeaked, proc, key
<1> QED BY <1>3, <1>5, <1>6

LEMMA LockForLock ==
  ASSUME LockInv, NEW c \in Call, LockFor(c)
  PROVE  LockInv'
<1> USE DEF LockInv
<1>1. proc(c) \in Proc /\ key(c) \in IdemKey
  BY RequestType
<1>2. ControlType'
  BY <1>1 DEF ControlType, LockFor, Step
<1>3. \A d \in Call : Locked(d)' <=> Locked(d)
  BY DEF ControlType, LockFor, Locked, SagaStep
<1>4. \A p \in Proc, k \in IdemKey :
        \/ keyLock'[p][k] = keyLock[p][k]
        \/ keyLock[p][k] = "unmade" /\ keyLock'[p][k] = "free"
  BY <1>1 DEF ControlType, LockFor
<1>5. OwnsLock'
  <2> SUFFICES ASSUME NEW d \in Call, Locked(d)'
               PROVE  keyLock'[proc(d)][key(d)] = d
    BY DEF OwnsLock, LockFor, proc, key
  <2>1. keyLock[proc(d)][key(d)] = d
    BY <1>3 DEF OwnsLock
  <2> QED BY <1>4, <2>1, RequestType, NoCallIsFree
<1>6. NoLockLeaked'
  <2> SUFFICES ASSUME NEW p \in Proc, NEW k \in IdemKey, NEW h \in Call,
                      keyLock'[p][k] = h
               PROVE  Locked(h)' /\ proc(h) = p /\ key(h) = k
    BY DEF NoLockLeaked, LockFor, proc, key
  <2>1. keyLock'[p][k] = keyLock[p][k]
    BY <1>4, NoCallIsFree
  <2> QED BY <1>3, <2>1 DEF NoLockLeaked
<1> QED BY <1>2, <1>5, <1>6

LEMMA LockLock ==
  ASSUME LockInv, NEW c \in Call, Lock(c)
  PROVE  LockInv'
<1> USE DEF LockInv
<1>1. proc(c) \in Proc /\ key(c) \in IdemKey
  BY RequestType
<1>2. ControlType'
  BY <1>1 DEF ControlType, Lock, Step
<1>3. \A d \in Call : Locked(d)' <=> Locked(d) \/ d = c
  BY DEF ControlType, Lock, Locked, SagaStep
<1>4. \A p \in Proc, k \in IdemKey :
        keyLock'[p][k] = IF p = proc(c) /\ k = key(c) THEN c ELSE keyLock[p][k]
  BY <1>1 DEF ControlType, Lock
<1>5. keyLock[proc(c)][key(c)] = "free"
  BY DEF Lock
<1>6. OwnsLock'
  <2> SUFFICES ASSUME NEW d \in Call, Locked(d)'
               PROVE  keyLock'[proc(d)][key(d)] = d
    BY DEF OwnsLock, Lock, proc, key
  <2>1. CASE d = c
    BY <1>1, <1>4, <2>1
  <2>2. CASE d # c
    <3>1. keyLock[proc(d)][key(d)] = d
      BY <1>3, <2>2 DEF OwnsLock
    <3> QED BY <1>4, <1>5, <3>1, RequestType, NoCallIsFree
  <2> QED BY <2>1, <2>2
<1>7. NoLockLeaked'
  <2> SUFFICES ASSUME NEW p \in Proc, NEW k \in IdemKey, NEW h \in Call,
                      keyLock'[p][k] = h
               PROVE  Locked(h)' /\ proc(h) = p /\ key(h) = k
    BY DEF NoLockLeaked, Lock, proc, key
  <2>1. CASE p = proc(c) /\ k = key(c)
    BY <1>3, <1>4, <2>1
  <2>2. CASE ~(p = proc(c) /\ k = key(c))
    BY <1>3, <1>4, <2>2 DEF NoLockLeaked
  <2> QED BY <2>1, <2>2
<1> QED BY <1>2, <1>6, <1>7

\* A crash ends the calls of the process and makes its locks anew.
LEMMA CrashLock ==
  ASSUME LockInv, NEW p \in Proc, Crash(p)
  PROVE  LockInv'
<1> USE DEF LockInv
<1>1. UNCHANGED req
  BY DEF Crash
<1>2. \A d \in Call : pc'[d] = IF Active(d) /\ proc(d) = p THEN "done" ELSE pc[d]
  BY DEF Crash
<1>3. ControlType'
  BY NoCallIsFree DEF ControlType, Crash, Step
<1>4. \A d \in Call : Locked(d)' <=> Locked(d) /\ proc(d) # p
  BY <1>2 DEF ControlType, Locked, SagaStep, Active
<1>5. \A q \in Proc, k \in IdemKey :
        keyLock'[q][k] = IF q = p THEN "unmade" ELSE keyLock[q][k]
  BY DEF ControlType, Crash
<1>6. OwnsLock'
  <2> SUFFICES ASSUME NEW d \in Call, Locked(d)'
               PROVE  keyLock'[proc(d)][key(d)] = d
    BY <1>1 DEF OwnsLock, proc, key
  <2>1. Locked(d) /\ proc(d) # p
    BY <1>4
  <2> QED BY <1>5, <2>1, RequestType DEF OwnsLock
<1>7. NoLockLeaked'
  <2> SUFFICES ASSUME NEW q \in Proc, NEW k \in IdemKey, NEW h \in Call,
                      keyLock'[q][k] = h
               PROVE  Locked(h)' /\ proc(h) = q /\ key(h) = k
    BY <1>1 DEF NoLockLeaked, proc, key
  <2>1. q # p /\ keyLock'[q][k] = keyLock[q][k]
    BY <1>5, NoCallIsFree
  <2> QED BY <1>4, <2>1 DEF NoLockLeaked
<1> QED BY <1>3, <1>6, <1>7

-----------------------------------------------------------------------------
\* Every step of the handler under the lock goes on or unlocks.
LEMMA RpcGoesOn ==
  ASSUME NEW c \in Call, pc[c] \in SagaStep,
         \/ Hold(c) \/ Authorize(c) \/ Capture(c) \/ Commit(c)
         \/ Void(c) \/ Release(c) \/ Refund(c)
  PROVE  GoOn(c) \/ Unlock(c)
<1> USE DEF Rpc, Goto, Return, GoOn, Unlock, Locked, SagaStep
<1>1. CASE Hold(c)
  BY <1>1 DEF Hold
<1>2. CASE Authorize(c)
  BY <1>2 DEF Authorize
<1>3. CASE Capture(c)
  BY <1>3 DEF Capture
<1>4. CASE Commit(c)
  BY <1>4 DEF Commit
<1>5. CASE Void(c)
  BY <1>5 DEF Void
<1>6. CASE Release(c)
  BY <1>6 DEF Release
<1>7. CASE Refund(c)
  BY <1>7 DEF Refund
<1> QED BY <1>1, <1>2, <1>3, <1>4, <1>5, <1>6, <1>7

LEMMA StoreGoesOn ==
  ASSUME NEW c \in Call, ByIdempotencyKey(c) \/ Persist(c)
  PROVE  GoOn(c) \/ Unlock(c)
<1> USE DEF Goto, Return, GoOn, Unlock, Locked, SagaStep
<1>1. CASE ByIdempotencyKey(c)
  BY <1>1 DEF ByIdempotencyKey
<1>2. CASE Persist(c)
  BY <1>2 DEF Persist, Insert
<1> QED BY <1>1, <1>2

LEMMA CallLock ==
  ASSUME LockInv, NEW c \in Call, CreateBooking(c)
  PROVE  LockInv'
<1>1. CASE Invoke(c)
  BY <1>1, InvokeLock
<1>2. CASE LockFor(c)
  BY <1>2, LockForLock
<1>3. CASE Lock(c)
  BY <1>3, LockLock
<1>4. CASE ByIdempotencyKey(c) \/ Persist(c)
  BY <1>4, StoreGoesOn, GoOnLock, UnlockLock
<1>5. CASE \/ Hold(c) \/ Authorize(c) \/ Capture(c) \/ Commit(c)
           \/ Void(c) \/ Release(c) \/ Refund(c)
  <2>1. pc[c] \in SagaStep
    BY <1>5 DEF Hold, Authorize, Capture, Commit, Void, Release, Refund, SagaStep
  <2> QED BY <1>5, <2>1, RpcGoesOn, GoOnLock, UnlockLock
<1> QED BY <1>1, <1>2, <1>3, <1>4, <1>5 DEF CreateBooking

LEMMA StutterLock ==
  ASSUME LockInv, UNCHANGED control
  PROVE  LockInv'
BY DEF LockInv, ControlType, OwnsLock, NoLockLeaked, Locked, proc, key, control

LEMMA NextLock ==
  ASSUME LockInv, [Next]_vars
  PROVE  LockInv'
<1>1. ASSUME NEW c \in Call, CreateBooking(c)
      PROVE  LockInv'
  BY <1>1, CallLock
<1>2. ASSUME NEW c \in Call, ClientGone(c)
      PROVE  UNCHANGED control
  BY <1>2 DEF ClientGone, control
<1>3. ASSUME NEW p \in Proc, Crash(p)
      PROVE  LockInv'
  BY <1>3, CrashLock
<1>4. CASE InventoryRestart \/ Restock \/ PaymentRestart \/ AllDone \/ UNCHANGED vars
  <2>1. UNCHANGED control
    BY <1>4 DEF InventoryRestart, Restock, PaymentRestart, AllDone, vars, control
  <2> QED BY <2>1, StutterLock
<1> QED BY <1>1, <1>2, <1>3, <1>4, StutterLock DEF Next

\* The lock discipline holds in every reachable state.
THEOREM LockDiscipline == Spec => []LockInv
<1>1. LockInv /\ [Next]_vars => LockInv'
  BY NextLock
<1> QED BY <1>1, InitLock, PTL DEF Spec

\* No way out of the handler, and no crash, leaves a key locked.
THEOREM LocksReleased == Spec => []NoLockLeaked
<1>1. LockInv => NoLockLeaked
  BY DEF LockInv
<1> QED BY <1>1, LockDiscipline, PTL

\* Within one process the sagas of a key exclude each other.
THEOREM MutualExclusion == Spec => []OneSagaPerKeyAndProc
<1>1. LockInv => OneSagaPerKeyAndProc
  <2> SUFFICES ASSUME LockInv, NEW c \in Call, NEW d \in Call, c # d,
                      proc(c) = proc(d), key(c) = key(d),
                      Locked(c), Locked(d)
               PROVE  FALSE
    BY DEF OneSagaPerKeyAndProc
  <2>1. keyLock[proc(c)][key(c)] = c
    BY DEF LockInv, OwnsLock
  <2>2. keyLock[proc(d)][key(d)] = d
    BY DEF LockInv, OwnsLock
  <2> QED BY <2>1, <2>2
<1> QED BY <1>1, LockDiscipline, PTL

-----------------------------------------------------------------------------
(* What a saga has done so far.                                            *)

IP == INSTANCE InventoryProofs WITH Key <- Room, HoldId <- Call,
                                    Durable <- "inventory_restart" \notin Faults

TablesOK == /\ Pay!TypeOK
            /\ store \in [Store -> [IdemKey -> Call \cup {"none"}]]
            /\ ctx \in [Call -> {"live", "gone"}]
            /\ reply \in [Call -> Call \cup {"none", "failed", "invalid", "dropped"}]

MintedHold == {"held", "committed", "released"}
MintedAuth == {"authorized", "captured", "voided"}

\* The hold and the payment of a call are those of its request, and a payment
\* is given back in full or not at all.
RecordsOK(c) ==
  /\ holds[c].status \in MintedHold => holds[c].key = req[c].room /\ holds[c].qty = 1
  /\ auths[c].status \in MintedAuth =>
       /\ auths[c].amount = req[c].amount /\ auths[c].amount > 0
       /\ auths[c].chaosMode = Pay!ChaosMode(req[c].token)
  /\ auths[c].status \notin MintedAuth => auths[c].amount = 0
  /\ auths[c].refunded \in {0, auths[c].amount}

BeforeHold == {"idle", "lockFor", "lock", "lookup", "hold"}

\* What the step of a call says about its hold and its payment.
ProgressOK(c) ==
  /\ pc[c] \in BeforeHold => holds[c].status = "absent"
  /\ pc[c] \in BeforeHold \cup {"authorize"} => auths[c].status = "absent"
  /\ pc[c] \in {"authorize", "capture", "commit", "void", "release"} =>
       holds[c].status \in {"held", "lost"}
  /\ pc[c] = "capture" => auths[c].status \in {"authorized", "lost"}
  /\ pc[c] \in {"commit", "persist", "refund"} => auths[c].status \in {"captured", "lost"}
  /\ pc[c] = "persist" => holds[c].status \in {"committed", "lost"}
  /\ pc[c] = "refund" => holds[c].status \in {"held", "committed", "lost"}
  /\ pc[c] # "done" => auths[c].refunded = 0 /\ reply[c] = "none"

\* A booking is kept where its call put it, after the call paid for its room.
SlotOK(s, k) ==
  LET c == store[s][k]
  IN  c # "none" => /\ s = StoreOf[proc(c)] /\ k = key(c)
                    /\ pc[c] = "done"
                    /\ holds[c].status \in {"committed", "lost"}
                    /\ auths[c].status \in {"captured", "lost"}

StoreOK == \A s \in Store, k \in IdemKey : SlotOK(s, k)

CallsOK == \A c \in Call : RecordsOK(c) /\ ProgressOK(c)

SagaInv == LockInv /\ TablesOK /\ IP!IInv /\ CallsOK /\ StoreOK

-----------------------------------------------------------------------------
(* Inventory and Payment as their own theorems know them.                  *)

LEMMA InvConstants ==
  /\ Room # {} /\ MaxInt \in Nat /\ IP!IsFiniteSet(Call)
  /\ ("inventory_restart" \notin Faults) \in BOOLEAN
BY BookingAssumption DEF IsFiniteSet, IP!IsFiniteSet

LEMMA SameInventory ==
  /\ Inv!TypeOK <=> IP!TypeOK
  /\ Inv!Int32 = IP!Int32
  /\ \A k, q, h : Inv!Hold(k, q, h) <=> IP!Hold(k, q, h)
  /\ \A h : (Inv!Commit(h) <=> IP!Commit(h)) /\ (Inv!Release(h) <=> IP!Release(h))
  /\ \A k, q : /\ Inv!SetStock(k, q) <=> IP!SetStock(k, q)
               /\ Inv!ReturnStock(k, q) <=> IP!ReturnStock(k, q)
  /\ Inv!Restart <=> IP!Restart
  /\ Inv!Absent = IP!Absent
<1> USE DEF Inv!Wrap, IP!Wrap, Inv!Int32, IP!Int32, Inv!Open, IP!Open
<1>1. Inv!TypeOK <=> IP!TypeOK
  BY DEF Inv!TypeOK, IP!TypeOK, Inv!StockRecord, IP!StockRecord, Inv!HoldRecord, IP!HoldRecord
<1>2. Inv!Int32 = IP!Int32
  OBVIOUS
<1>3. \A k, q, h : Inv!Hold(k, q, h) <=> IP!Hold(k, q, h)
  BY DEF Inv!Hold, IP!Hold, Inv!CanHold, IP!CanHold, Inv!Available, IP!Available
<1>4. \A h : (Inv!Commit(h) <=> IP!Commit(h)) /\ (Inv!Release(h) <=> IP!Release(h))
  BY DEF Inv!Commit, IP!Commit, Inv!Release, IP!Release, Inv!CanCommit, IP!CanCommit,
         Inv!CanRelease, IP!CanRelease
<1>5. \A k, q : /\ Inv!SetStock(k, q) <=> IP!SetStock(k, q)
                /\ Inv!ReturnStock(k, q) <=> IP!ReturnStock(k, q)
  BY DEF Inv!SetStock, IP!SetStock, Inv!ReturnStock, IP!ReturnStock, Inv!CanReturn, IP!CanReturn
<1>6. Inv!Restart <=> IP!Restart
  BY DEF Inv!Restart, IP!Restart, Inv!NoStock, IP!NoStock, Inv!Absent, IP!Absent
<1>7. Inv!Absent = IP!Absent
  BY DEF Inv!Absent, IP!Absent
<1> QED
  BY <1>1, <1>2, <1>3, <1>4, <1>5, <1>6, <1>7

LEMMA InvTypes ==
  ASSUME IP!IInv
  PROVE  /\ Inv!TypeOK
         /\ stock \in [Room -> Inv!StockRecord]
         /\ holds \in [Call -> Inv!HoldRecord]
         /\ \A r \in Room : stock[r].total \in 0 .. MaxInt /\ stock[r].sold \in 0 .. MaxInt
<1>1. IP!TypeOK /\ IP!CountersOK
  BY DEF IP!IInv
<1> QED
  BY <1>1, SameInventory DEF Inv!TypeOK, IP!CountersOK

\* A request is one of the message's.
LEMMA RequestFields ==
  ASSUME NEW c \in Call, ControlType
  PROVE  /\ req[c].room \in Room
         /\ req[c].amount \in 0 .. MaxInt
         /\ req[c].token \in Pay!Token
BY BookingAssumption DEF ControlType, CreateBookingRequest, Pay!Token

\* The step of the inventory RPCs as the saga makes them.
LEMMA HoldServed ==
  ASSUME IP!IInv, NEW c \in Call, NEW r \in Room, Inv!Hold(r, 1, c)
  PROVE  /\ IP!IInv'
         /\ holds' = [holds EXCEPT ![c] = [key |-> r, qty |-> 1, status |-> "held"]]
         /\ holds[c].status = "absent"
         /\ \A k \in Room : stock'[k].sold = stock[k].sold
<1>1. IP!CountersOK
  BY DEF IP!IInv
<1>2. IP!Available(r) >= 1
  BY SameInventory DEF IP!Hold, IP!CanHold
<1>3. IP!Available(r) = stock[r].total - IP!Used(r)
  BY <1>1, InvConstants, IP!AvailableExact
<1>4. MaxInt >= 1
  BY <1>1, <1>2, <1>3, InvConstants DEF IP!CountersOK, IP!Used
<1>5. 1 \in IP!Int32
  BY <1>4, InvConstants DEF IP!Int32
<1>6. IP!Hold(r, 1, c)
  BY SameInventory
<1>7. IP!IInv'
  BY <1>5, <1>6, InvConstants, IP!HoldInv
<1>8. \A k \in Room : stock'[k].sold = stock[k].sold
  BY <1>5, <1>6, InvConstants, IP!OthersSellNothing
<1> QED
  BY <1>7, <1>8 DEF Inv!Hold

LEMMA CommitServed ==
  ASSUME IP!IInv, NEW c \in Call, Inv!Commit(c)
  PROVE  /\ IP!IInv'
         /\ holds' = [holds EXCEPT ![c].status = "committed"]
         /\ holds[c].status = "held"
         /\ \A k \in Room : stock'[k].sold =
              IF k = holds[c].key THEN stock[k].sold + holds[c].qty ELSE stock[k].sold
<1>1. IP!Commit(c)
  BY SameInventory
<1>2. IP!IInv'
  BY <1>1, InvConstants, IP!CommitInv
<1>3. \A k \in Room : stock'[k].sold =
        IF k = holds[c].key THEN stock[k].sold + holds[c].qty ELSE stock[k].sold
  BY <1>1, InvConstants, IP!CommitSells
<1> QED
  BY <1>2, <1>3 DEF Inv!Commit, Inv!CanCommit, Inv!Open

LEMMA ReleaseServed ==
  ASSUME IP!IInv, NEW c \in Call, Inv!Release(c)
  PROVE  /\ IP!IInv'
         /\ holds' = [holds EXCEPT ![c].status = "released"]
         /\ holds[c].status = "held"
         /\ \A k \in Room : stock'[k].sold = stock[k].sold
<1>1. IP!Release(c)
  BY SameInventory
<1>2. IP!IInv'
  BY <1>1, InvConstants, IP!ReleaseInv
<1>3. \A k \in Room : stock'[k].sold = stock[k].sold
  BY <1>1, InvConstants, IP!OthersSellNothing
<1> QED
  BY <1>2, <1>3 DEF Inv!Release, Inv!CanRelease, Inv!Open

LEMMA RestockServed ==
  ASSUME IP!IInv, NEW r \in Room, NEW n \in Totals, Inv!SetStock(r, n)
  PROVE  /\ IP!IInv'
         /\ holds' = holds
         /\ \A k \in Room : stock'[k].sold = stock[k].sold
<1>1. n \in IP!Int32
  BY BookingAssumption DEF IP!Int32
<1>2. IP!SetStock(r, n)
  BY SameInventory
<1>3. IP!IInv'
  BY <1>1, <1>2, InvConstants, IP!SetStockInv
<1>4. \A k \in Room : stock'[k].sold = stock[k].sold
  BY <1>1, <1>2, InvConstants, IP!OthersSellNothing
<1> QED
  BY <1>3, <1>4 DEF Inv!SetStock

\* A restart of inventory forgets the holds it gave out, and every sale.
LEMMA InventoryRestarted ==
  ASSUME IP!IInv, Inv!Restart
  PROVE  /\ IP!IInv'
         /\ \A c \in Call : holds'[c].status = IF holds[c].status = "absent" THEN "absent"
                                              ELSE "lost"
         /\ \A k \in Room : stock'[k].sold = 0
<1>1. IP!IInv'
  BY SameInventory, InvConstants, IP!RestartInv
<1>2. PICK r \in Room : Inv!Absent = [key |-> r, qty |-> 0, status |-> "absent"]
  BY BookingAssumption DEF Inv!Absent
<1> QED
  BY <1>1, <1>2 DEF Inv!Restart, Inv!NoStock

\* The step of the payment RPCs: the record of one authorization.
LEMMA AuthUpdate ==
  ASSUME Pay!TypeOK, NEW c \in Call, NEW auth \in Pay!Authorization,
         auths' = [auths EXCEPT ![c] = auth]
  PROVE  /\ Pay!TypeOK'
         /\ auths'[c] = auth
         /\ \A d \in Call : d # c => auths'[d] = auths[d]
BY DEF Pay!TypeOK

LEMMA AuthorizeServed ==
  ASSUME Pay!TypeOK, NEW c \in Call, NEW amount \in 0 .. MaxInt, NEW token \in Pay!Token,
         Pay!Authorize(c, amount, token)
  PROVE  /\ Pay!TypeOK'
         /\ \A d \in Call : d # c => auths'[d] = auths[d]
         /\ amount > 0
         /\ auths'[c].status = "authorized" /\ auths'[c].amount = amount
         /\ auths'[c].refunded = 0 /\ auths'[c].chaosMode = Pay!ChaosMode(token)
<1> DEFINE auth == [amount |-> amount, refunded |-> 0, status |-> "authorized",
                    chaosMode |-> Pay!ChaosMode(token)]
<1>1. auths' = [auths EXCEPT ![c] = auth] /\ amount > 0
  BY DEF Pay!Authorize, Pay!CanAuthorize
<1>2. auth \in Pay!Authorization
  BY InvConstants DEF Pay!Authorization, Pay!Amount, Pay!ChaosMode
<1>3. /\ auth.status = "authorized" /\ auth.amount = amount
      /\ auth.refunded = 0 /\ auth.chaosMode = Pay!ChaosMode(token)
  OBVIOUS
<1> HIDE DEF auth
<1> QED
  BY <1>1, <1>2, <1>3, AuthUpdate

\* Capture and Void change the status only.
LEMMA StatusServed ==
  ASSUME Pay!TypeOK, NEW c \in Call, NEW st \in {"captured", "voided"},
         auths' = [auths EXCEPT ![c].status = st]
  PROVE  /\ Pay!TypeOK'
         /\ \A d \in Call : d # c => auths'[d] = auths[d]
         /\ auths'[c].status = st /\ auths'[c].amount = auths[c].amount
         /\ auths'[c].refunded = auths[c].refunded
         /\ auths'[c].chaosMode = auths[c].chaosMode
<1> DEFINE auth == [auths[c] EXCEPT !.status = st]
<1>1. auths[c] \in Pay!Authorization
  BY DEF Pay!TypeOK
<1>2. auth \in Pay!Authorization
  BY <1>1 DEF Pay!Authorization
<1>3. /\ auth.status = st /\ auth.amount = auths[c].amount
      /\ auth.refunded = auths[c].refunded /\ auth.chaosMode = auths[c].chaosMode
  BY <1>1 DEF Pay!Authorization
<1>4. auths' = [auths EXCEPT ![c] = auth]
  OBVIOUS
<1> HIDE DEF auth
<1> QED
  BY <1>2, <1>3, <1>4, AuthUpdate

\* A full refund succeeds once.
LEMMA RefundServed ==
  ASSUME Pay!TypeOK, ControlType, NEW c \in Call, RecordsOK(c), Pay!Refund(c, req[c].amount)
  PROVE  /\ Pay!TypeOK'
         /\ \A d \in Call : d # c => auths'[d] = auths[d]
         /\ auths[c].status = "captured" /\ auths[c].refunded = 0 /\ auths[c].amount > 0
         /\ auths[c].amount = req[c].amount
         /\ auths'[c].status = "captured" /\ auths'[c].amount = auths[c].amount
         /\ auths'[c].refunded = auths[c].amount
         /\ auths'[c].chaosMode = auths[c].chaosMode
<1> DEFINE n == Pay!Wrap(auths[c].refunded + req[c].amount)
           auth == [auths[c] EXCEPT !.refunded = n]
<1>1. auths[c] \in Pay!Authorization
  BY DEF Pay!TypeOK
<1>2. /\ auths[c].status = "captured" /\ req[c].amount > 0
      /\ req[c].amount <= Pay!Wrap(auths[c].amount - auths[c].refunded)
      /\ auths' = [auths EXCEPT ![c] = auth]
  BY DEF Pay!Refund, Pay!CanRefund
<1>3. /\ auths[c].amount = req[c].amount /\ auths[c].refunded \in {0, auths[c].amount}
      /\ req[c].amount \in 0 .. MaxInt /\ MaxInt \in Nat
  BY <1>2, RequestFields, InvConstants DEF RecordsOK, MintedAuth
<1>4. auths[c].refunded = 0
  BY <1>2, <1>3 DEF Pay!Wrap
<1>5. n = auths[c].amount
  BY <1>3, <1>4 DEF Pay!Wrap
<1>6. n \in Pay!Amount
  BY <1>3, <1>5 DEF Pay!Amount
<1> HIDE DEF n
<1>7. auth \in Pay!Authorization
  BY <1>1, <1>6 DEF Pay!Authorization
<1>8. /\ auth.status = auths[c].status /\ auth.amount = auths[c].amount
      /\ auth.refunded = n /\ auth.chaosMode = auths[c].chaosMode
  BY <1>1 DEF Pay!Authorization
<1> HIDE DEF auth
<1> QED
  BY <1>2, <1>3, <1>4, <1>5, <1>7, <1>8, AuthUpdate

\* A restart of payment forgets the authorizations it gave out.
LEMMA PaymentRestarted ==
  ASSUME Pay!TypeOK, Pay!Restart
  PROVE  /\ Pay!TypeOK'
         /\ \A c \in Call : /\ auths'[c].status = IF auths[c].status = "absent" THEN "absent"
                                                 ELSE "lost"
                            /\ auths'[c].amount = 0 /\ auths'[c].refunded = 0
<1> DEFINE lost == [Pay!NoAuth EXCEPT !.status = "lost"]
<1>0. Pay!NoAuth \in Pay!Authorization
  BY InvConstants DEF Pay!NoAuth, Pay!Authorization, Pay!Amount
<1>1. lost \in Pay!Authorization
  BY <1>0 DEF Pay!Authorization
<1>2. /\ Pay!NoAuth.status = "absent" /\ Pay!NoAuth.amount = 0 /\ Pay!NoAuth.refunded = 0
      /\ lost.status = "lost" /\ lost.amount = 0 /\ lost.refunded = 0
  BY DEF Pay!NoAuth
<1>3. auths' = [c \in Call |-> IF auths[c].status = "absent" THEN Pay!NoAuth ELSE lost]
  BY DEF Pay!Restart
<1> HIDE DEF lost
<1> QED
  BY <1>0, <1>1, <1>2, <1>3 DEF Pay!TypeOK

-----------------------------------------------------------------------------
(* A step of one call.                                                     *)

\* The hold and the payment of every other call are left alone.
OthersAlone(c) ==
  \A d \in Call : d # c => holds'[d] = holds[d] /\ auths'[d] = auths[d]

\* Call c goes to a step, perhaps with an answer, and perhaps its context ends.
MovesTo(c, st) ==
  /\ pc' = [pc EXCEPT ![c] = st]
  /\ \/ reply' = reply
     \/ \E a \in Call \cup {"failed", "invalid"} : reply' = [reply EXCEPT ![c] = a]
  /\ \/ ctx' = ctx
     \/ ctx' = [ctx EXCEPT ![c] = "gone"]
  /\ req' = req

LEMMA OneCall ==
  ASSUME SagaInv, NEW c \in Call, pc[c] # "done", NEW st \in Step, MovesTo(c, st),
         LockInv', IP!IInv', Pay!TypeOK', OthersAlone(c),
         RecordsOK(c)', ProgressOK(c)',
         \/ UNCHANGED store
         \/ /\ Insert(c) /\ st = "done"
            /\ holds'[c].status \in {"committed", "lost"}
            /\ auths'[c].status \in {"captured", "lost"}
  PROVE  SagaInv'
<1> USE DEF SagaInv
<1>1. /\ proc(c) \in Proc /\ key(c) \in IdemKey /\ StoreOf[proc(c)] \in Store
  BY RequestType, BookingAssumption DEF LockInv
<1>2. /\ pc'[c] = st
      /\ \A d \in Call : d # c => pc'[d] = pc[d] /\ reply'[d] = reply[d]
  <2>1. pc \in [Call -> Step] /\ pc' = [pc EXCEPT ![c] = st]
    BY DEF LockInv, ControlType, MovesTo
  <2>2. reply = [d \in Call |-> reply[d]]
    BY DEF TablesOK
  <2>3. \A d \in Call : d # c => reply'[d] = reply[d]
    BY <2>2 DEF MovesTo
  <2> QED
    BY <2>1, <2>3
<1>3. TablesOK'
  <2>1. store' \in [Store -> [IdemKey -> Call \cup {"none"}]]
    BY <1>1 DEF TablesOK, Insert
  <2>2. ctx' \in [Call -> {"live", "gone"}]
    BY DEF TablesOK, MovesTo
  <2>3. reply' \in [Call -> Call \cup {"none", "failed", "invalid", "dropped"}]
    BY DEF TablesOK, MovesTo
  <2> QED
    BY <2>1, <2>2, <2>3 DEF TablesOK
<1>4. CallsOK'
  <2> SUFFICES ASSUME NEW d \in Call, d # c PROVE RecordsOK(d)' /\ ProgressOK(d)'
    BY DEF CallsOK
  <2>1. RecordsOK(d) /\ ProgressOK(d) /\ holds'[d] = holds[d] /\ auths'[d] = auths[d]
    BY DEF CallsOK, OthersAlone
  <2> QED
    BY <1>2, <2>1 DEF RecordsOK, ProgressOK, MovesTo
<1>5. StoreOK'
  <2> SUFFICES ASSUME NEW s \in Store, NEW k \in IdemKey, store'[s][k] # "none"
               PROVE  SlotOK(s, k)'
    BY DEF StoreOK, SlotOK
  <2>1. CASE store'[s][k] = store[s][k]
    <3> DEFINE d == store[s][k]
    <3>1. /\ s = StoreOf[proc(d)] /\ k = key(d) /\ pc[d] = "done" /\ d \in Call
          /\ holds[d].status \in {"committed", "lost"}
          /\ auths[d].status \in {"captured", "lost"}
      BY <2>1 DEF StoreOK, SlotOK, TablesOK
    <3>2. d # c
      BY <3>1
    <3>3. holds'[d] = holds[d] /\ auths'[d] = auths[d] /\ pc'[d] = "done"
      BY <1>2, <3>1, <3>2 DEF OthersAlone
    <3> HIDE DEF d
    <3>4. store'[s][k] = d
      BY <2>1 DEF d
    <3> QED
      BY <3>1, <3>3, <3>4 DEF SlotOK, proc, key, MovesTo
  <2>2. CASE store'[s][k] # store[s][k]
    <3>1. /\ Insert(c) /\ st = "done"
          /\ holds'[c].status \in {"committed", "lost"}
          /\ auths'[c].status \in {"captured", "lost"}
      BY <2>2
    <3>2. s = StoreOf[proc(c)] /\ k = key(c) /\ store'[s][k] = c
      BY <1>1, <2>2, <3>1 DEF Insert, TablesOK
    <3> QED
      BY <1>2, <3>1, <3>2 DEF SlotOK, proc, key, MovesTo
  <2> QED
    BY <2>1, <2>2
<1> QED
  BY <1>3, <1>4, <1>5

\* What the invariant says of the call that steps.
LEMMA CallFacts ==
  ASSUME SagaInv, NEW c \in Call
  PROVE  /\ RecordsOK(c) /\ ProgressOK(c)
         /\ LockInv /\ ControlType /\ TablesOK /\ Pay!TypeOK /\ IP!IInv
         /\ holds \in [Call -> Inv!HoldRecord]
         /\ pc[c] # "done" => reply[c] = "none"
BY InvTypes DEF SagaInv, LockInv, TablesOK, CallsOK, ProgressOK

\* A step that changes no hold and no payment.
LEMMA QuietCall ==
  ASSUME SagaInv, NEW c \in Call, pc[c] # "done", NEW st \in Step, MovesTo(c, st),
         LockInv', UNCHANGED <<stock, holds, auths>>, ProgressOK(c)',
         \/ UNCHANGED store
         \/ /\ Insert(c) /\ st = "done"
            /\ holds[c].status \in {"committed", "lost"}
            /\ auths[c].status \in {"captured", "lost"}
  PROVE  SagaInv'
<1> USE CallFacts
<1>1. IP!IInv' /\ Pay!TypeOK'
  BY InvConstants, IP!StutterInv DEF IP!vars, Pay!TypeOK
<1>2. OthersAlone(c)
  BY DEF OthersAlone
<1>3. RecordsOK(c)'
  BY DEF RecordsOK, MovesTo
<1> QED
  BY <1>1, <1>2, <1>3, OneCall

-----------------------------------------------------------------------------
(* CreateBooking, step by step.                                            *)

\* Before its lookup a call has touched nothing.
LEMMA EntrySaga ==
  ASSUME SagaInv, NEW c \in Call, Invoke(c) \/ LockFor(c) \/ Lock(c)
  PROVE  SagaInv'
<1> USE CallFacts
<1>1. LockInv'
  BY CallLock DEF CreateBooking
<1>2. /\ pc[c] \in {"idle", "lockFor", "lock"}
      /\ UNCHANGED <<stock, holds, auths, store>>
  BY DEF Invoke, LockFor, Lock, upstream
<1>3. PICK st \in {"done", "lockFor", "lock", "lookup"} : MovesTo(c, st)
  BY DEF Invoke, LockFor, Lock, MovesTo
<1>4. reply' = reply \/ st = "done"
  <2>1. pc'[c] = st
    BY <1>3 DEF MovesTo, ControlType
  <2> QED
    BY <2>1 DEF Invoke, LockFor, Lock, ControlType
<1>5. pc'[c] = st
  BY <1>3 DEF MovesTo, ControlType
<1>6. ProgressOK(c)'
  BY <1>2, <1>4, <1>5 DEF ProgressOK, BeforeHold
<1> QED
  BY <1>1, <1>2, <1>3, <1>6, QuietCall DEF Step

LEMMA LookupSaga ==
  ASSUME SagaInv, NEW c \in Call, ByIdempotencyKey(c)
  PROVE  SagaInv'
<1> USE CallFacts
<1>1. LockInv'
  BY CallLock DEF CreateBooking
<1>2. pc[c] = "lookup" /\ UNCHANGED <<stock, holds, auths, store, req, ctx>>
  BY DEF ByIdempotencyKey, upstream
<1>3. StoredFor(c) # "none" => StoredFor(c) \in Call
  BY RequestType, BookingAssumption DEF StoredFor, TablesOK
<1>4. \/ MovesTo(c, "hold") /\ reply' = reply
      \/ MovesTo(c, "done")
  BY <1>2, <1>3 DEF ByIdempotencyKey, Return, Goto, MovesTo
<1>5. PICK st \in {"hold", "done"} : MovesTo(c, st) /\ (reply' = reply \/ st = "done")
  BY <1>4
<1>6. pc'[c] = st
  BY <1>5 DEF MovesTo, ControlType
<1>7. ProgressOK(c)'
  BY <1>2, <1>5, <1>6 DEF ProgressOK, BeforeHold
<1> QED
  BY <1>1, <1>2, <1>5, <1>7, QuietCall DEF Step, SagaStep

LEMMA PersistSaga ==
  ASSUME SagaInv, NEW c \in Call, Persist(c)
  PROVE  SagaInv'
<1> USE CallFacts
<1>1. LockInv'
  BY CallLock DEF CreateBooking
<1>2. pc[c] = "persist" /\ UNCHANGED <<stock, holds, auths, req, ctx>>
  BY DEF Persist, upstream
<1>3. StoredFor(c) # "none" => StoredFor(c) \in Call
  BY RequestType, BookingAssumption DEF StoredFor, TablesOK
<1>4. MovesTo(c, "done") /\ (Insert(c) \/ UNCHANGED store)
  BY <1>2, <1>3 DEF Persist, Return, MovesTo
<1>5. pc'[c] = "done"
  BY <1>4 DEF MovesTo, ControlType
<1>6. ProgressOK(c)'
  BY <1>5 DEF ProgressOK, BeforeHold
<1>7. holds[c].status \in {"committed", "lost"} /\ auths[c].status \in {"captured", "lost"}
  BY <1>2 DEF ProgressOK
<1> QED
  BY <1>1, <1>2, <1>4, <1>6, <1>7, QuietCall DEF Step

\* How an RPC of the saga ends: the step it goes to, and what was served.
RpcMoves(c, Served, ok, err) ==
  \/ Served /\ MovesTo(c, ok) /\ (ok = "done" \/ reply' = reply)
  \/ Served /\ MovesTo(c, err) /\ (err = "done" \/ reply' = reply)
  \/ UNCHANGED upstream /\ MovesTo(c, err) /\ (err = "done" \/ reply' = reply)

LEMMA RpcEnds ==
  ASSUME NEW c \in Call
  PROVE  /\ Hold(c) => /\ pc[c] = "hold" /\ UNCHANGED store
                       /\ RpcMoves(c, Inv!Hold(req[c].room, 1, c) /\ UNCHANGED auths,
                                   "authorize", "done")
         /\ Authorize(c) => /\ pc[c] = "authorize" /\ UNCHANGED store
                            /\ RpcMoves(c, Pay!Authorize(c, req[c].amount, req[c].token)
                                             /\ UNCHANGED <<stock, holds>>,
                                        "capture", "release")
         /\ Capture(c) => /\ pc[c] = "capture" /\ UNCHANGED store
                          /\ RpcMoves(c, Pay!Capture(c) /\ UNCHANGED <<stock, holds>>,
                                      "commit", "void")
         /\ Commit(c) => /\ pc[c] = "commit" /\ UNCHANGED store
                         /\ RpcMoves(c, Inv!Commit(c) /\ UNCHANGED auths,
                                     "persist", "refund")
         /\ Void(c) => /\ pc[c] = "void" /\ UNCHANGED store
                       /\ RpcMoves(c, Pay!Void(c) /\ UNCHANGED <<stock, holds>>,
                                   "release", "release")
         /\ Release(c) => /\ pc[c] = "release" /\ UNCHANGED store
                          /\ RpcMoves(c, Inv!Release(c) /\ UNCHANGED auths, "done", "done")
         /\ Refund(c) => /\ pc[c] = "refund" /\ UNCHANGED store
                         /\ RpcMoves(c, Pay!Refund(c, req[c].amount)
                                          /\ UNCHANGED <<stock, holds>>,
                                     "done", "done")
<1> USE DEF Rpc, RpcMoves, MovesTo, ReplyLost
<1>1. \A st : UNCHANGED req /\ Goto(c, st) /\ (UNCHANGED ctx \/ ReplyLost(c))
                => MovesTo(c, st) /\ reply' = reply
  BY DEF Goto
<1>2. \A a \in Call \cup {"failed"} :
        UNCHANGED req /\ Return(c, a) /\ (UNCHANGED ctx \/ ReplyLost(c)) => MovesTo(c, "done")
  BY DEF Return
<1> HIDE DEF MovesTo, ReplyLost
<1>3. Hold(c) => /\ pc[c] = "hold" /\ UNCHANGED store
                 /\ RpcMoves(c, Inv!Hold(req[c].room, 1, c) /\ UNCHANGED auths,
                             "authorize", "done")
  BY <1>1, <1>2, Zenon DEF Hold
<1>4. Authorize(c) => /\ pc[c] = "authorize" /\ UNCHANGED store
                      /\ RpcMoves(c, Pay!Authorize(c, req[c].amount, req[c].token)
                                       /\ UNCHANGED <<stock, holds>>,
                                  "capture", "release")
  BY <1>1, Zenon DEF Authorize
<1>5. Capture(c) => /\ pc[c] = "capture" /\ UNCHANGED store
                    /\ RpcMoves(c, Pay!Capture(c) /\ UNCHANGED <<stock, holds>>,
                                "commit", "void")
  BY <1>1, Zenon DEF Capture
<1>6. Commit(c) => /\ pc[c] = "commit" /\ UNCHANGED store
                   /\ RpcMoves(c, Inv!Commit(c) /\ UNCHANGED auths, "persist", "refund")
  BY <1>1, Zenon DEF Commit
<1>7. Void(c) => /\ pc[c] = "void" /\ UNCHANGED store
                 /\ RpcMoves(c, Pay!Void(c) /\ UNCHANGED <<stock, holds>>,
                             "release", "release")
  BY <1>1, Zenon DEF Void
<1>8. Release(c) => /\ pc[c] = "release" /\ UNCHANGED store
                    /\ RpcMoves(c, Inv!Release(c) /\ UNCHANGED auths, "done", "done")
  BY <1>2, Zenon DEF Release
<1>9. Refund(c) => /\ pc[c] = "refund" /\ UNCHANGED store
                   /\ RpcMoves(c, Pay!Refund(c, req[c].amount) /\ UNCHANGED <<stock, holds>>,
                               "done", "done")
  BY <1>2, Zenon DEF Refund
<1> QED
  BY <1>3, <1>4, <1>5, <1>6, <1>7, <1>8, <1>9

\* The invariant after an RPC: what it did to the records of its call, and
\* that the step it goes to allows it.
LEMMA RpcSaga ==
  ASSUME SagaInv, NEW c \in Call, pc[c] \in SagaStep, NEW st \in SagaStep \cup {"done"},
         MovesTo(c, st), st = "done" \/ reply' = reply, LockInv', UNCHANGED store,
         IP!IInv', Pay!TypeOK', OthersAlone(c), RecordsOK(c)',
         st \in {"authorize", "capture", "commit", "void", "release"} =>
           holds'[c].status \in {"held", "lost"},
         st = "authorize" => auths'[c].status = "absent",
         st = "capture" => auths'[c].status \in {"authorized", "lost"},
         st \in {"commit", "persist", "refund"} => auths'[c].status \in {"captured", "lost"},
         st = "persist" => holds'[c].status \in {"committed", "lost"},
         st = "refund" => holds'[c].status \in {"held", "committed", "lost"},
         st # "done" => auths'[c].refunded = 0,
         st # "hold"
  PROVE  SagaInv'
<1> USE CallFacts
<1>1. pc[c] # "done" /\ reply[c] = "none" /\ st \in Step
  BY DEF SagaStep, Step
<1>2. pc'[c] = st
  BY DEF MovesTo, ControlType
<1>3. ProgressOK(c)'
  BY <1>1, <1>2 DEF ProgressOK, BeforeHold, SagaStep
<1> QED
  BY <1>1, <1>3, OneCall

LEMMA HoldSaga ==
  ASSUME SagaInv, NEW c \in Call, Hold(c)
  PROVE  SagaInv'
<1> USE CallFacts
<1>1. LockInv'
  BY CallLock DEF CreateBooking
<1>2. /\ pc[c] = "hold" /\ UNCHANGED store
      /\ RpcMoves(c, Inv!Hold(req[c].room, 1, c) /\ UNCHANGED auths, "authorize", "done")
  BY RpcEnds
<1>3. auths[c].status = "absent" /\ auths[c].refunded = 0
  BY <1>2 DEF ProgressOK, BeforeHold
<1>4. CASE Inv!Hold(req[c].room, 1, c) /\ UNCHANGED auths
  <2>1. /\ IP!IInv'
        /\ holds' = [holds EXCEPT ![c] = [key |-> req[c].room, qty |-> 1, status |-> "held"]]
    BY <1>4, RequestFields, HoldServed
  <2>2. holds'[c].status = "held" /\ holds'[c].key = req[c].room /\ holds'[c].qty = 1
    BY <2>1
  <2>3. OthersAlone(c)
    BY <1>4, <2>1 DEF OthersAlone
  <2>4. Pay!TypeOK'
    BY <1>4 DEF Pay!TypeOK
  <2>5. PICK st \in {"authorize", "done"} : MovesTo(c, st) /\ (st = "done" \/ reply' = reply)
    BY <1>2 DEF RpcMoves
  <2>6. RecordsOK(c)'
    BY <1>4, <2>2, <2>5 DEF RecordsOK, MovesTo
  <2> QED
    BY <1>1, <1>2, <1>3, <1>4, <2>1, <2>2, <2>3, <2>4, <2>5, <2>6, RpcSaga DEF SagaStep
<1>5. CASE UNCHANGED upstream /\ MovesTo(c, "done")
  <2>1. pc'[c] = "done"
    BY <1>5 DEF MovesTo, ControlType
  <2>2. ProgressOK(c)'
    BY <2>1 DEF ProgressOK, BeforeHold
  <2> QED
    BY <1>1, <1>2, <1>5, <2>2, QuietCall DEF Step, upstream
<1> QED
  BY <1>2, <1>4, <1>5 DEF RpcMoves

\* An RPC that is not served leaves the saga to its compensations.
LEMMA UnservedSaga ==
  ASSUME SagaInv, NEW c \in Call, LockInv', UNCHANGED upstream, UNCHANGED store,
         NEW st \in {"release", "void", "refund", "done"},
         MovesTo(c, st), st = "done" \/ reply' = reply,
         <<pc[c], st>> \in {<<"authorize", "release">>, <<"capture", "void">>,
                            <<"commit", "refund">>, <<"void", "release">>,
                            <<"release", "done">>, <<"refund", "done">>}
  PROVE  SagaInv'
<1> USE CallFacts
<1>1. pc'[c] = st
  BY DEF MovesTo, ControlType
<1>2. UNCHANGED <<stock, holds, auths>>
  BY DEF upstream
<1>3. ProgressOK(c)'
  BY <1>1, <1>2 DEF ProgressOK, BeforeHold
<1> QED
  BY <1>2, <1>3, QuietCall DEF Step, SagaStep

LEMMA AuthorizeSaga ==
  ASSUME SagaInv, NEW c \in Call, Authorize(c)
  PROVE  SagaInv'
<1> USE CallFacts
<1>1. LockInv'
  BY CallLock DEF CreateBooking
<1>2. /\ pc[c] = "authorize" /\ UNCHANGED store
      /\ RpcMoves(c, Pay!Authorize(c, req[c].amount, req[c].token) /\ UNCHANGED <<stock, holds>>,
                  "capture", "release")
  BY RpcEnds
<1>3. CASE Pay!Authorize(c, req[c].amount, req[c].token) /\ UNCHANGED <<stock, holds>>
  <2>1. /\ Pay!TypeOK'
        /\ \A d \in Call : d # c => auths'[d] = auths[d]
        /\ req[c].amount > 0
        /\ auths'[c].status = "authorized" /\ auths'[c].amount = req[c].amount
        /\ auths'[c].refunded = 0 /\ auths'[c].chaosMode = Pay!ChaosMode(req[c].token)
    BY <1>3, RequestFields, AuthorizeServed
  <2>2. OthersAlone(c)
    BY <1>3, <2>1 DEF OthersAlone
  <2>3. IP!IInv'
    BY <1>3, InvConstants, IP!StutterInv DEF IP!vars
  <2>4. PICK st \in {"capture", "release"} : MovesTo(c, st) /\ reply' = reply
    BY <1>2 DEF RpcMoves
  <2>5. RecordsOK(c)'
    BY <1>3, <2>1, <2>4 DEF RecordsOK, MovesTo, MintedAuth
  <2>6. holds'[c].status \in {"held", "lost"}
    BY <1>2, <1>3 DEF ProgressOK
  <2> QED
    BY <1>1, <1>2, <2>1, <2>2, <2>3, <2>4, <2>5, <2>6, RpcSaga DEF SagaStep
<1> QED
  BY <1>1, <1>2, <1>3, UnservedSaga DEF RpcMoves

LEMMA CaptureSaga ==
  ASSUME SagaInv, NEW c \in Call, Capture(c)
  PROVE  SagaInv'
<1> USE CallFacts
<1>1. LockInv'
  BY CallLock DEF CreateBooking
<1>2. /\ pc[c] = "capture" /\ UNCHANGED store
      /\ RpcMoves(c, Pay!Capture(c) /\ UNCHANGED <<stock, holds>>, "commit", "void")
  BY RpcEnds
<1>3. CASE Pay!Capture(c) /\ UNCHANGED <<stock, holds>>
  <2>0. auths[c].status \in MintedAuth
    BY <1>3 DEF Pay!Capture, Pay!CanCapture, MintedAuth
  <2>1. /\ Pay!TypeOK'
        /\ \A d \in Call : d # c => auths'[d] = auths[d]
        /\ auths'[c].status = "captured" /\ auths'[c].amount = auths[c].amount
        /\ auths'[c].refunded = auths[c].refunded
        /\ auths'[c].chaosMode = auths[c].chaosMode
    BY <1>3, StatusServed DEF Pay!Capture
  <2>2. OthersAlone(c)
    BY <1>3, <2>1 DEF OthersAlone
  <2>3. IP!IInv'
    BY <1>3, InvConstants, IP!StutterInv DEF IP!vars
  <2>4. PICK st \in {"commit", "void"} : MovesTo(c, st) /\ reply' = reply
    BY <1>2 DEF RpcMoves
  <2>5. RecordsOK(c)'
    BY <1>3, <2>0, <2>1, <2>4 DEF RecordsOK, MovesTo, MintedAuth
  <2>6. holds'[c].status \in {"held", "lost"} /\ auths'[c].refunded = 0
    BY <1>2, <1>3, <2>1 DEF ProgressOK
  <2> QED
    BY <1>1, <1>2, <2>1, <2>2, <2>3, <2>4, <2>5, <2>6, RpcSaga DEF SagaStep
<1> QED
  BY <1>1, <1>2, <1>3, UnservedSaga DEF RpcMoves

LEMMA CommitSaga ==
  ASSUME SagaInv, NEW c \in Call, Commit(c)
  PROVE  SagaInv'
<1> USE CallFacts
<1>1. LockInv'
  BY CallLock DEF CreateBooking
<1>2. /\ pc[c] = "commit" /\ UNCHANGED store
      /\ RpcMoves(c, Inv!Commit(c) /\ UNCHANGED auths, "persist", "refund")
  BY RpcEnds
<1>3. CASE Inv!Commit(c) /\ UNCHANGED auths
  <2>1. /\ IP!IInv'
        /\ holds' = [holds EXCEPT ![c].status = "committed"]
        /\ holds[c].status = "held"
    BY <1>3, CommitServed
  <2>2. /\ holds'[c].status = "committed" /\ holds'[c].key = holds[c].key
        /\ holds'[c].qty = holds[c].qty
    BY <2>1 DEF Inv!HoldRecord
  <2>3. OthersAlone(c)
    BY <1>3, <2>1 DEF OthersAlone
  <2>4. Pay!TypeOK'
    BY <1>3 DEF Pay!TypeOK
  <2>5. PICK st \in {"persist", "refund"} : MovesTo(c, st) /\ reply' = reply
    BY <1>2 DEF RpcMoves
  <2>6. RecordsOK(c)'
    BY <1>3, <2>1, <2>2, <2>5 DEF RecordsOK, MovesTo, MintedHold
  <2>7. auths'[c].status \in {"captured", "lost"} /\ auths'[c].refunded = 0
    BY <1>2, <1>3 DEF ProgressOK
  <2> QED
    BY <1>1, <1>2, <2>1, <2>2, <2>3, <2>4, <2>5, <2>6, <2>7, RpcSaga DEF SagaStep
<1> QED
  BY <1>1, <1>2, <1>3, UnservedSaga DEF RpcMoves

LEMMA VoidSaga ==
  ASSUME SagaInv, NEW c \in Call, Void(c)
  PROVE  SagaInv'
<1> USE CallFacts
<1>1. LockInv'
  BY CallLock DEF CreateBooking
<1>2. /\ pc[c] = "void" /\ UNCHANGED store
      /\ RpcMoves(c, Pay!Void(c) /\ UNCHANGED <<stock, holds>>, "release", "release")
  BY RpcEnds
<1>3. CASE Pay!Void(c) /\ UNCHANGED <<stock, holds>>
  <2>0. auths[c].status \in MintedAuth
    BY <1>3 DEF Pay!Void, Pay!CanVoid, MintedAuth
  <2>1. /\ Pay!TypeOK'
        /\ \A d \in Call : d # c => auths'[d] = auths[d]
        /\ auths'[c].status = "voided" /\ auths'[c].amount = auths[c].amount
        /\ auths'[c].refunded = auths[c].refunded
        /\ auths'[c].chaosMode = auths[c].chaosMode
    BY <1>3, StatusServed DEF Pay!Void
  <2>2. OthersAlone(c)
    BY <1>3, <2>1 DEF OthersAlone
  <2>3. IP!IInv'
    BY <1>3, InvConstants, IP!StutterInv DEF IP!vars
  <2>4. MovesTo(c, "release") /\ reply' = reply
    BY <1>2 DEF RpcMoves
  <2>5. RecordsOK(c)'
    BY <1>3, <2>0, <2>1, <2>4 DEF RecordsOK, MovesTo, MintedAuth
  <2>6. holds'[c].status \in {"held", "lost"} /\ auths'[c].refunded = 0
    BY <1>2, <1>3, <2>1 DEF ProgressOK
  <2> QED
    BY <1>1, <1>2, <2>1, <2>2, <2>3, <2>4, <2>5, <2>6, RpcSaga DEF SagaStep
<1> QED
  BY <1>1, <1>2, <1>3, UnservedSaga DEF RpcMoves

LEMMA ReleaseSaga ==
  ASSUME SagaInv, NEW c \in Call, Release(c)
  PROVE  SagaInv'
<1> USE CallFacts
<1>1. LockInv'
  BY CallLock DEF CreateBooking
<1>2. /\ pc[c] = "release" /\ UNCHANGED store
      /\ RpcMoves(c, Inv!Release(c) /\ UNCHANGED auths, "done", "done")
  BY RpcEnds
<1>3. CASE Inv!Release(c) /\ UNCHANGED auths
  <2>1. /\ IP!IInv'
        /\ holds' = [holds EXCEPT ![c].status = "released"]
        /\ holds[c].status = "held"
    BY <1>3, ReleaseServed
  <2>2. /\ holds'[c].status = "released" /\ holds'[c].key = holds[c].key
        /\ holds'[c].qty = holds[c].qty
    BY <2>1 DEF Inv!HoldRecord
  <2>3. OthersAlone(c)
    BY <1>3, <2>1 DEF OthersAlone
  <2>4. Pay!TypeOK'
    BY <1>3 DEF Pay!TypeOK
  <2>5. MovesTo(c, "done")
    BY <1>2 DEF RpcMoves
  <2>6. RecordsOK(c)'
    BY <1>3, <2>1, <2>2, <2>5 DEF RecordsOK, MovesTo, MintedHold
  <2> QED
    BY <1>1, <1>2, <2>1, <2>2, <2>3, <2>4, <2>5, <2>6, RpcSaga DEF SagaStep
<1> QED
  BY <1>1, <1>2, <1>3, UnservedSaga DEF RpcMoves

LEMMA RefundSaga ==
  ASSUME SagaInv, NEW c \in Call, Refund(c)
  PROVE  SagaInv'
<1> USE CallFacts
<1>1. LockInv'
  BY CallLock DEF CreateBooking
<1>2. /\ pc[c] = "refund" /\ UNCHANGED store
      /\ RpcMoves(c, Pay!Refund(c, req[c].amount) /\ UNCHANGED <<stock, holds>>,
                  "done", "done")
  BY RpcEnds
<1>3. CASE Pay!Refund(c, req[c].amount) /\ UNCHANGED <<stock, holds>>
  <2>1. /\ Pay!TypeOK'
        /\ \A d \in Call : d # c => auths'[d] = auths[d]
        /\ auths[c].status = "captured"
        /\ auths'[c].status = "captured" /\ auths'[c].amount = auths[c].amount
        /\ auths'[c].refunded = auths[c].amount
        /\ auths'[c].chaosMode = auths[c].chaosMode
    BY <1>3, RefundServed
  <2>2. OthersAlone(c)
    BY <1>3, <2>1 DEF OthersAlone
  <2>3. IP!IInv'
    BY <1>3, InvConstants, IP!StutterInv DEF IP!vars
  <2>4. MovesTo(c, "done")
    BY <1>2 DEF RpcMoves
  <2>5. RecordsOK(c)'
    BY <1>3, <2>1, <2>4 DEF RecordsOK, MovesTo, MintedAuth
  <2> QED
    BY <1>1, <1>2, <2>1, <2>2, <2>3, <2>4, <2>5, RpcSaga DEF SagaStep
<1> QED
  BY <1>1, <1>2, <1>3, UnservedSaga DEF RpcMoves

LEMMA CallSaga ==
  ASSUME SagaInv, NEW c \in Call, CreateBooking(c)
  PROVE  SagaInv'
BY EntrySaga, LookupSaga, PersistSaga, HoldSaga, AuthorizeSaga, CaptureSaga, CommitSaga,
   VoidSaga, ReleaseSaga, RefundSaga DEF CreateBooking

-----------------------------------------------------------------------------
(* The environment.                                                        *)

LEMMA SagaStutter ==
  ASSUME SagaInv, LockInv', ctx' \in [Call -> {"live", "gone"}],
         UNCHANGED <<stock, holds, auths, store, req, pc, reply>>
  PROVE  SagaInv'
<1> USE DEF SagaInv
<1>1. IP!IInv'
  BY InvConstants, IP!StutterInv DEF IP!vars
<1>2. TablesOK'
  BY DEF TablesOK, Pay!TypeOK
<1>3. CallsOK'
  BY DEF CallsOK, RecordsOK, ProgressOK
<1>4. StoreOK'
  BY DEF StoreOK, SlotOK, proc, key
<1> QED
  BY <1>1, <1>2, <1>3, <1>4

LEMMA CrashSaga ==
  ASSUME SagaInv, NEW p \in Proc, Crash(p)
  PROVE  SagaInv'
<1> USE DEF SagaInv
<1>1. LockInv'
  BY CrashLock
<1>2. /\ UNCHANGED <<stock, holds, auths, req, ctx>>
      /\ \A c \in Call : pc'[c] \in {pc[c], "done"}
      /\ \A c \in Call : pc'[c] # "done" => reply'[c] = reply[c]
      /\ \A c \in Call : pc[c] = "done" => pc'[c] = "done"
  BY DEF Crash, upstream, Active
<1>3. IP!IInv'
  BY <1>2, InvConstants, IP!StutterInv DEF IP!vars
<1>4. /\ store' \in [Store -> [IdemKey -> Call \cup {"none"}]]
      /\ \A s \in Store, k \in IdemKey : store'[s][k] \in {store[s][k], "none"}
  BY BookingAssumption DEF TablesOK, Crash
<1>5. TablesOK'
  BY <1>2, <1>4 DEF TablesOK, Pay!TypeOK, Crash
<1>6. CallsOK'
  BY <1>2 DEF CallsOK, RecordsOK, ProgressOK, BeforeHold
<1>7. StoreOK'
  BY <1>2, <1>4 DEF StoreOK, SlotOK, TablesOK, proc, key
<1> QED
  BY <1>1, <1>3, <1>5, <1>6, <1>7

\* The state of the calls and of booking, which the upstreams do not change.
calls == <<store, keyLock, req, pc, ctx, reply>>

LEMMA UpstreamLock ==
  ASSUME SagaInv, UNCHANGED calls
  PROVE  LockInv'
BY StutterLock DEF SagaInv, calls, control

LEMMA InventoryRestartSaga ==
  ASSUME SagaInv, InventoryRestart
  PROVE  SagaInv'
<1> USE DEF SagaInv
<1>1. UNCHANGED calls /\ UNCHANGED auths /\ Inv!Restart
  BY DEF InventoryRestart, calls
<1>2. /\ IP!IInv'
      /\ \A c \in Call : holds'[c].status = IF holds[c].status = "absent" THEN "absent"
                                           ELSE "lost"
  BY <1>1, InventoryRestarted
<1>3. TablesOK'
  BY <1>1 DEF TablesOK, Pay!TypeOK, calls
<1>4. CallsOK'
  BY <1>1, <1>2 DEF CallsOK, RecordsOK, ProgressOK, MintedHold, calls
<1>5. StoreOK'
  BY <1>1, <1>2 DEF StoreOK, SlotOK, TablesOK, calls, proc, key
<1> QED
  BY <1>1, <1>2, <1>3, <1>4, <1>5, UpstreamLock

LEMMA PaymentRestartSaga ==
  ASSUME SagaInv, PaymentRestart
  PROVE  SagaInv'
<1> USE DEF SagaInv
<1>1. UNCHANGED calls /\ UNCHANGED <<stock, holds>> /\ Pay!Restart
  BY DEF PaymentRestart, calls
<1>2. /\ Pay!TypeOK'
      /\ \A c \in Call : /\ auths'[c].status = IF auths[c].status = "absent" THEN "absent"
                                              ELSE "lost"
                         /\ auths'[c].amount = 0 /\ auths'[c].refunded = 0
  BY <1>1, PaymentRestarted DEF TablesOK
<1>3. TablesOK'
  BY <1>1, <1>2 DEF TablesOK, calls
<1>4. IP!IInv'
  BY <1>1, InvConstants, IP!StutterInv DEF IP!vars
<1>5. CallsOK'
  BY <1>1, <1>2 DEF CallsOK, RecordsOK, ProgressOK, MintedAuth, calls
<1>6. StoreOK'
  BY <1>1, <1>2 DEF StoreOK, SlotOK, TablesOK, calls, proc, key
<1> QED
  BY <1>1, <1>3, <1>4, <1>5, <1>6, UpstreamLock

LEMMA RestockSaga ==
  ASSUME SagaInv, Restock
  PROVE  SagaInv'
<1> USE DEF SagaInv
<1>1. UNCHANGED calls /\ UNCHANGED auths
  BY DEF Restock, calls
<1>2. IP!IInv' /\ holds' = holds
  BY RestockServed DEF Restock
<1>3. TablesOK'
  BY <1>1 DEF TablesOK, Pay!TypeOK, calls
<1>4. CallsOK'
  BY <1>1, <1>2 DEF CallsOK, RecordsOK, ProgressOK, calls
<1>5. StoreOK'
  BY <1>1, <1>2 DEF StoreOK, SlotOK, calls, proc, key
<1> QED
  BY <1>1, <1>2, <1>3, <1>4, <1>5, UpstreamLock

LEMMA NextSaga ==
  ASSUME SagaInv, [Next]_vars
  PROVE  SagaInv'
<1>1. ASSUME NEW c \in Call, CreateBooking(c) PROVE SagaInv'
  BY <1>1, CallSaga
<1>2. ASSUME NEW c \in Call, ClientGone(c) PROVE SagaInv'
  <2>1. ctx' \in [Call -> {"live", "gone"}]
    BY <1>2 DEF ClientGone, SagaInv, TablesOK
  <2>2. LockInv'
    BY <1>2, StutterLock DEF ClientGone, SagaInv, control
  <2> QED
    BY <1>2, <2>1, <2>2, SagaStutter DEF ClientGone, upstream
<1>3. ASSUME NEW p \in Proc, Crash(p) PROVE SagaInv'
  BY <1>3, CrashSaga
<1>4. CASE AllDone \/ UNCHANGED vars
  <2>1. LockInv'
    BY <1>4, StutterLock DEF AllDone, SagaInv, control, vars
  <2> QED
    BY <1>4, <2>1, SagaStutter DEF AllDone, SagaInv, TablesOK, vars
<1> QED
  BY <1>1, <1>2, <1>3, <1>4, InventoryRestartSaga, PaymentRestartSaga, RestockSaga DEF Next

LEMMA InitSaga == Init => SagaInv
<1> SUFFICES ASSUME Init PROVE SagaInv
  OBVIOUS
<1>1. LockInv
  BY InitLock
<1>2. IP!IInv
  <2>1. PICK total \in [Room -> Totals] :
          stock = [r \in Room |-> [listed |-> TRUE, total |-> total[r], sold |-> 0, held |-> 0]]
    BY DEF Init
  <2>2. /\ \A r \in Room : stock[r].sold = 0 /\ stock[r].held = 0
        /\ \A r \in Room : stock[r].total \in 0 .. MaxInt
    BY <2>1, BookingAssumption
  <2>3. \A h \in Call : holds[h] = IP!Absent
    BY SameInventory DEF Init
  <2>4. \A r \in Room : stock[r] \in IP!StockRecord
    <3>1. Totals \subseteq 0 .. MaxInt /\ MaxInt \in Nat
      BY BookingAssumption
    <3>2. 0 .. MaxInt \subseteq IP!Int32 /\ 0 \in IP!Int32
      BY <3>1 DEF IP!Int32
    <3>3. \A r \in Room : total[r] \in IP!Int32
      BY <2>1, <3>1, <3>2
    <3> QED
      BY <2>1, <3>2, <3>3 DEF IP!StockRecord
  <2>5. IP!Absent \in IP!HoldRecord
    <3>1. (CHOOSE k \in Room : TRUE) \in Room
      BY BookingAssumption
    <3> QED
      BY <3>1, BookingAssumption DEF IP!Absent, IP!HoldRecord, IP!Int32
  <2>6. IP!TypeOK
    BY <2>1, <2>3, <2>4, <2>5 DEF IP!TypeOK, Init
  <2> QED
    BY <2>2, <2>3, <2>6, InvConstants, IP!UnusedInv
<1>3. \A c \in Call : holds[c].status = "absent"
  BY DEF Init, Inv!Absent
<1>4. /\ \A c \in Call : auths[c] = Pay!NoAuth
      /\ Pay!NoAuth \in Pay!Authorization
      /\ Pay!NoAuth.status = "absent" /\ Pay!NoAuth.amount = 0 /\ Pay!NoAuth.refunded = 0
  <2>1. \A c \in Call : auths[c] = Pay!NoAuth
    BY DEF Init, Pay!Init
  <2>2. Pay!NoAuth \in Pay!Authorization
    BY InvConstants DEF Pay!NoAuth, Pay!Authorization, Pay!Amount
  <2>3. Pay!NoAuth.status = "absent" /\ Pay!NoAuth.amount = 0 /\ Pay!NoAuth.refunded = 0
    BY DEF Pay!NoAuth
  <2> QED
    BY <2>1, <2>2, <2>3
<1>5. TablesOK
  <2>1. Pay!TypeOK
    BY <1>4 DEF Init, Pay!Init, Pay!TypeOK
  <2> QED
    BY <2>1 DEF Init, TablesOK
<1>6. CallsOK
  BY <1>3, <1>4 DEF Init, CallsOK, RecordsOK, ProgressOK, MintedHold, MintedAuth
<1>7. StoreOK
  BY DEF Init, StoreOK, SlotOK
<1> QED
  BY <1>1, <1>2, <1>5, <1>6, <1>7 DEF SagaInv

\* The records of every saga fit the step it is at, whatever has failed.
THEOREM SagaDiscipline == Spec => []SagaInv
<1>1. SagaInv /\ [Next]_vars => SagaInv'
  BY NextSaga
<1> QED
  BY <1>1, InitSaga, PTL DEF Spec

\* The state of booking and of its upstreams keeps its types.
THEOREM TypeCorrect == Spec => []TypeOK
<1>1. SagaInv => TypeOK
  BY InvTypes DEF SagaInv, TypeOK, TablesOK, LockInv, ControlType
<1> QED
  BY <1>1, SagaDiscipline, PTL

-----------------------------------------------------------------------------
(* A stored booking stays backed.                                          *)

\* A call works on its own hold and payment only, and not after it is done.
LEMMA CallAlone ==
  ASSUME SagaInv, NEW c \in Call, CreateBooking(c)
  PROVE  /\ pc[c] # "done" /\ OthersAlone(c) /\ req' = req
         /\ \A d \in Call : d # c => pc'[d] = pc[d]
<1> USE CallFacts
<1>1. CASE Invoke(c) \/ LockFor(c) \/ Lock(c) \/ ByIdempotencyKey(c) \/ Persist(c)
  <2>1. pc[c] # "done" /\ UNCHANGED upstream /\ req' = req
    BY <1>1 DEF Invoke, LockFor, Lock, ByIdempotencyKey, Persist
  <2>2. \E st : pc' = [pc EXCEPT ![c] = st]
    BY <1>1, Zenon DEF Invoke, LockFor, Lock, ByIdempotencyKey, Persist, Goto, Return
  <2> QED
    BY <2>1, <2>2 DEF OthersAlone, upstream, ControlType
<1>2. CASE Hold(c) \/ Commit(c) \/ Release(c)
  <2>1. /\ pc[c] # "done"
        /\ \/ Inv!Hold(req[c].room, 1, c) /\ UNCHANGED auths
           \/ Inv!Commit(c) /\ UNCHANGED auths
           \/ Inv!Release(c) /\ UNCHANGED auths
           \/ UNCHANGED upstream
        /\ \E st : MovesTo(c, st)
    BY <1>2, RpcEnds DEF RpcMoves
  <2>2. \A d \in Call : d # c => holds'[d] = holds[d]
    BY <2>1 DEF Inv!Hold, Inv!Commit, Inv!Release, upstream
  <2>3. auths' = auths
    BY <2>1 DEF upstream
  <2> QED
    BY <2>1, <2>2, <2>3 DEF OthersAlone, MovesTo, ControlType
<1>3. CASE Authorize(c) \/ Capture(c) \/ Void(c) \/ Refund(c)
  <2>1. /\ pc[c] # "done"
        /\ \/ Pay!Authorize(c, req[c].amount, req[c].token) /\ UNCHANGED <<stock, holds>>
           \/ Pay!Capture(c) /\ UNCHANGED <<stock, holds>>
           \/ Pay!Void(c) /\ UNCHANGED <<stock, holds>>
           \/ Pay!Refund(c, req[c].amount) /\ UNCHANGED <<stock, holds>>
           \/ UNCHANGED upstream
        /\ \E st : MovesTo(c, st)
    BY <1>3, RpcEnds DEF RpcMoves
  <2>2. \A d \in Call : d # c => auths'[d] = auths[d]
    BY <2>1 DEF Pay!Authorize, Pay!Capture, Pay!Void, Pay!Refund, upstream, Pay!TypeOK
  <2>3. holds' = holds
    BY <2>1 DEF upstream
  <2> QED
    BY <2>1, <2>2, <2>3 DEF OthersAlone, MovesTo, ControlType
<1> QED
  BY <1>1, <1>2, <1>3 DEF CreateBooking

\* Once a call is done, only a restart touches what it did.
LEMMA DoneAlone ==
  ASSUME SagaInv, [Next]_vars, NEW d \in Call, pc[d] = "done"
  PROVE  /\ pc'[d] = "done" /\ req'[d] = req[d]
         /\ \/ auths'[d] = auths[d]
            \/ auths'[d].status \in {"absent", "lost"} /\ auths'[d].refunded = 0
         /\ \/ holds'[d] = holds[d]
            \/ "inventory_restart" \in Faults /\ holds'[d].status \in {"absent", "lost"}
<1>1. ASSUME NEW c \in Call, CreateBooking(c)
      PROVE  /\ pc'[d] = "done" /\ req'[d] = req[d]
             /\ auths'[d] = auths[d] /\ holds'[d] = holds[d]
  BY <1>1, CallAlone DEF OthersAlone
<1>2. CASE \/ \E c \in Call : ClientGone(c)
           \/ \E p \in Proc : Crash(p)
           \/ AllDone \/ UNCHANGED vars
  BY <1>2 DEF ClientGone, Crash, AllDone, vars, upstream, Active
<1>3. CASE Restock
  <2>1. holds' = holds
    BY <1>3 DEF Restock, Inv!SetStock
  <2> QED
    BY <1>3, <2>1 DEF Restock
<1>4. CASE InventoryRestart
  <2>1. holds'[d].status \in {"absent", "lost"}
    BY <1>4, InventoryRestarted DEF InventoryRestart, SagaInv
  <2>2. "inventory_restart" \in Faults
    BY <1>4 DEF InventoryRestart, Inv!Restart
  <2> QED
    BY <1>4, <2>1, <2>2 DEF InventoryRestart
<1>5. CASE PaymentRestart
  <2>1. auths'[d].status \in {"absent", "lost"} /\ auths'[d].refunded = 0
    BY <1>5, PaymentRestarted DEF PaymentRestart, SagaInv, TablesOK
  <2> QED
    BY <1>5, <2>1 DEF PaymentRestart
<1> QED
  BY <1>1, <1>2, <1>3, <1>4, <1>5 DEF Next

\* A step stores the booking of a call that has just persisted it, or none.
LEMMA StoreStep ==
  ASSUME SagaInv, [Next]_vars, NEW s \in Store, NEW k \in IdemKey, store'[s][k] # "none"
  PROVE  \/ store'[s][k] = store[s][k]
         \/ \E c \in Call : /\ Persist(c) /\ store'[s][k] = c /\ pc[c] = "persist"
                            /\ store[s][k] = "none"
<1> USE DEF SagaInv
<1>1. ASSUME NEW c \in Call, Persist(c), Insert(c)
      PROVE  \/ store'[s][k] = store[s][k]
             \/ store'[s][k] = c /\ pc[c] = "persist" /\ store[s][k] = "none"
  <2>1. UNCHANGED store \/ (pc[c] = "persist" /\ StoredFor(c) = "none")
    BY <1>1 DEF Persist
  <2>2. proc(c) \in Proc /\ key(c) \in IdemKey /\ StoreOf[proc(c)] \in Store
    BY RequestType, BookingAssumption DEF LockInv
  <2>3. store' = [store EXCEPT ![StoreOf[proc(c)]][key(c)] = c]
    BY <1>1 DEF Insert
  <2> QED
    BY <2>1, <2>2, <2>3 DEF TablesOK, StoredFor
<1>2. ASSUME NEW p \in Proc, Crash(p)
      PROVE  store'[s][k] = store[s][k]
  BY <1>2, BookingAssumption DEF TablesOK, Crash
<1>3. CASE UNCHANGED store
  BY <1>3
<1>4. ASSUME NEW c \in Call, Persist(c)
      PROVE  UNCHANGED store \/ Insert(c)
  BY <1>4 DEF Persist
<1>5. ASSUME NEW c \in Call, CreateBooking(c)
      PROVE  UNCHANGED store \/ Persist(c)
  BY <1>5, RpcEnds DEF CreateBooking, Invoke, LockFor, Lock, ByIdempotencyKey
<1>6. CASE \/ \E c \in Call : ClientGone(c)
           \/ InventoryRestart \/ Restock \/ PaymentRestart \/ AllDone \/ UNCHANGED vars
  BY <1>6 DEF ClientGone, InventoryRestart, Restock, PaymentRestart, AllDone, vars
<1> QED
  BY <1>1, <1>2, <1>3, <1>4, <1>5, <1>6 DEF Next

\* Booking refunds nothing that is stored.  (Cancellation does.)
Unrefunded == \A s \in Store, k \in IdemKey :
                store[s][k] # "none" => auths[store[s][k]].refunded = 0

LEMMA NextUnrefunded ==
  ASSUME SagaInv, Unrefunded, [Next]_vars
  PROVE  Unrefunded'
<1> SUFFICES ASSUME NEW s \in Store, NEW k \in IdemKey, store'[s][k] # "none"
             PROVE  auths'[store'[s][k]].refunded = 0
  BY DEF Unrefunded
<1>1. CASE store'[s][k] = store[s][k]
  <2> DEFINE d == store[s][k]
  <2>1. d \in Call /\ pc[d] = "done" /\ auths[d].refunded = 0
    BY <1>1 DEF SagaInv, StoreOK, SlotOK, TablesOK, Unrefunded
  <2> HIDE DEF d
  <2>2. auths'[d].refunded = 0
    BY <2>1, DoneAlone
  <2> QED
    BY <1>1, <2>2 DEF d
<1>2. ASSUME NEW c \in Call, Persist(c), store'[s][k] = c
      PROVE  auths'[store'[s][k]].refunded = 0
  <2>1. pc[c] = "persist" /\ auths' = auths
    BY <1>2 DEF Persist, upstream
  <2>2. auths[c].refunded = 0
    BY <2>1 DEF SagaInv, CallsOK, ProgressOK
  <2> QED
    BY <1>2, <2>1, <2>2
<1> QED
  BY <1>1, <1>2, StoreStep

\* A stored booking has its room and its money, whatever fails (persist is
\* the last step of the saga, and only compensations give back).
THEOREM BookingsAreBacked == Spec => []BookingBacked
<1>1. Init => Unrefunded
  BY DEF Init, Unrefunded
<1>2. SagaInv /\ Unrefunded /\ [Next]_vars => Unrefunded'
  BY NextUnrefunded
<1>3. SagaInv /\ Unrefunded => BookingBacked
  BY DEF SagaInv, StoreOK, SlotOK, Unrefunded, BookingBacked, Bookings
<1> QED
  BY <1>1, <1>2, <1>3, SagaDiscipline, PTL DEF Spec

-----------------------------------------------------------------------------
(* With one Postgres, booking keeps the promise of IdempotentCreate.       *)

keyOf == [c \in Call |-> req[c].key]
booked == [k \in IdemKey |-> store[CHOOSE s \in Store : TRUE][k]]

\* The call that steps has not been answered, and reads the booking of its key.
LEMMA PendingCall ==
  ASSUME SagaInv, NEW s0, Store = {s0}, NEW c \in Call, pc[c] # "done"
  PROVE  /\ Promise!Pending(c)
         /\ keyOf[c] \in IdemKey
         /\ StoredFor(c) = booked[keyOf[c]]
<1>1. reply[c] = "none" /\ proc(c) \in Proc /\ key(c) \in IdemKey
  BY CallFacts, RequestType
<1>2. StoreOf[proc(c)] = s0 /\ (CHOOSE s \in Store : TRUE) = s0
  BY <1>1, BookingAssumption
<1> QED
  BY <1>1, <1>2 DEF Promise!Pending, StoredFor, keyOf, booked, key

\* Answering with an error is Fail, whatever else the handler did upstream.
LEMMA FailIsFail ==
  ASSUME SagaInv, NEW s0, Store = {s0}, NEW c \in Call, pc[c] # "done",
         NEW err \in {"failed", "invalid"}, reply' = [reply EXCEPT ![c] = err],
         UNCHANGED <<store, req>>
  PROVE  Promise!Fail(c)
<1>1. Promise!Pending(c)
  BY PendingCall
<1>2. UNCHANGED <<keyOf, booked>>
  BY DEF keyOf, booked
<1> QED
  BY <1>1, <1>2 DEF Promise!Fail, keyOf, booked

LEMMA RpcPromise ==
  ASSUME NEW c \in Call,
         \/ Hold(c) \/ Authorize(c) \/ Capture(c) \/ Commit(c)
         \/ Void(c) \/ Release(c) \/ Refund(c)
  PROVE  /\ pc[c] # "done" /\ UNCHANGED <<store, req>>
         /\ reply' = reply \/ reply' = [reply EXCEPT ![c] = "failed"]
<1> USE DEF Rpc, Goto, Return
<1>1. CASE Hold(c)
  BY <1>1 DEF Hold
<1>2. CASE Authorize(c)
  BY <1>2 DEF Authorize
<1>3. CASE Capture(c)
  BY <1>3 DEF Capture
<1>4. CASE Commit(c)
  BY <1>4 DEF Commit
<1>5. CASE Void(c)
  BY <1>5 DEF Void
<1>6. CASE Release(c)
  BY <1>6 DEF Release
<1>7. CASE Refund(c)
  BY <1>7 DEF Refund
<1> QED
  BY <1>1, <1>2, <1>3, <1>4, <1>5, <1>6, <1>7

LEMMA LookupPromise ==
  ASSUME SagaInv, NEW s0, Store = {s0}, NEW c \in Call, ByIdempotencyKey(c)
  PROVE  Promise!Next \/ UNCHANGED <<keyOf, booked, reply>>
<1>1. pc[c] = "lookup" /\ UNCHANGED <<store, req>>
  BY DEF ByIdempotencyKey
<1>2. /\ UNCHANGED <<keyOf, booked>>
      /\ Promise!Pending(c) /\ StoredFor(c) = booked[keyOf[c]]
  BY <1>1, PendingCall DEF keyOf, booked
<1>3. CASE Return(c, "failed")
  BY <1>1, <1>3, FailIsFail DEF Return, Promise!Next
<1>4. CASE StoredFor(c) # "none" /\ Return(c, StoredFor(c))
  <2>1. Promise!Replay(c)
    BY <1>2, <1>4 DEF Return, Promise!Replay, keyOf, booked
  <2> QED
    BY <2>1 DEF Promise!Next
<1>5. CASE Goto(c, "hold")
  BY <1>2, <1>5 DEF Goto
<1> QED
  BY <1>3, <1>4, <1>5 DEF ByIdempotencyKey

LEMMA PersistPromise ==
  ASSUME SagaInv, NEW s0, Store = {s0}, NEW c \in Call, Persist(c)
  PROVE  Promise!Next
<1>1. pc[c] = "persist" /\ UNCHANGED req
  BY DEF Persist
<1>2. /\ UNCHANGED keyOf
      /\ Promise!Pending(c) /\ keyOf[c] \in IdemKey /\ StoredFor(c) = booked[keyOf[c]]
  BY <1>1, PendingCall DEF keyOf
<1>3. Insert(c) => booked' = [booked EXCEPT ![keyOf[c]] = c]
  <2> SUFFICES ASSUME Insert(c) PROVE booked' = [booked EXCEPT ![keyOf[c]] = c]
    OBVIOUS
  <2>1. proc(c) \in Proc /\ key(c) \in IdemKey /\ store \in [Store -> [IdemKey -> Call \cup {"none"}]]
    BY RequestType DEF SagaInv, LockInv, TablesOK
  <2>2. StoreOf[proc(c)] = s0 /\ (CHOOSE s \in Store : TRUE) = s0
    BY <2>1, BookingAssumption
  <2>3. store'[s0] = [store[s0] EXCEPT ![key(c)] = c]
    BY <2>1, <2>2 DEF Insert
  <2> QED
    BY <2>1, <2>2, <2>3 DEF booked, keyOf, key
<1>4. CASE StoredFor(c) = "none" /\ Insert(c) /\ (Return(c, c) \/ Return(c, "failed"))
  <2>1. \E told \in {c, "failed"} : reply' = [reply EXCEPT ![c] = told]
    BY <1>4 DEF Return
  <2>2. Promise!Create(c)
    BY <1>2, <1>3, <1>4, <2>1 DEF Promise!Create, keyOf, booked
  <2> QED
    BY <2>2 DEF Promise!Next
<1>5. CASE StoredFor(c) # "none" /\ Return(c, StoredFor(c)) /\ UNCHANGED store
  <2>1. UNCHANGED booked
    BY <1>5 DEF booked
  <2>2. Promise!Replay(c)
    BY <1>2, <1>5, <2>1 DEF Return, Promise!Replay, keyOf, booked
  <2> QED
    BY <2>2 DEF Promise!Next
<1>6. CASE Return(c, "failed") /\ UNCHANGED store
  BY <1>1, <1>6, FailIsFail DEF Return, Promise!Next
<1> QED
  BY <1>4, <1>5, <1>6 DEF Persist

LEMMA CrashPromise ==
  ASSUME SagaInv, Postgres, NEW p \in Proc, Crash(p)
  PROVE  Promise!Next
<1> DEFINE dying == {c \in Call : Active(c) /\ proc(c) = p}
<1>1. \A c \in dying : Promise!Pending(c)
  BY DEF SagaInv, CallsOK, ProgressOK, Active, Promise!Pending
<1>2. reply' = [c \in Call |-> IF c \in dying THEN "dropped" ELSE reply[c]]
  BY DEF Crash
<1>3. UNCHANGED <<keyOf, booked>>
  BY DEF Crash, keyOf, booked
<1>4. dying \in SUBSET Call
  OBVIOUS
<1>5. Promise!Drop(dying)
  BY <1>1, <1>2, <1>3 DEF Promise!Drop, keyOf, booked
<1> QED
  BY <1>4, <1>5 DEF Promise!Next

LEMMA PromiseStep ==
  ASSUME SagaInv, Postgres, NEW s0, Store = {s0}, [Next]_vars
  PROVE  Promise!Next \/ UNCHANGED <<keyOf, booked, reply>>
<1>1. ASSUME NEW c \in Call, Invoke(c)
      PROVE  Promise!Next \/ UNCHANGED <<keyOf, booked, reply>>
  <2>1. pc[c] = "idle" /\ UNCHANGED <<store, req>>
    BY <1>1 DEF Invoke
  <2>2. reply' = reply \/ reply' = [reply EXCEPT ![c] = "invalid"]
    BY <1>1 DEF Invoke
  <2>3. CASE reply' = reply
    BY <2>1, <2>3 DEF keyOf, booked
  <2>4. CASE reply' = [reply EXCEPT ![c] = "invalid"]
    BY <2>1, <2>4, FailIsFail DEF Promise!Next
  <2> QED
    BY <2>2, <2>3, <2>4
<1>2. ASSUME NEW c \in Call,
             \/ Hold(c) \/ Authorize(c) \/ Capture(c) \/ Commit(c)
             \/ Void(c) \/ Release(c) \/ Refund(c)
      PROVE  Promise!Next \/ UNCHANGED <<keyOf, booked, reply>>
  <2>1. /\ pc[c] # "done" /\ UNCHANGED <<store, req>>
        /\ reply' = reply \/ reply' = [reply EXCEPT ![c] = "failed"]
    BY <1>2, RpcPromise
  <2>2. CASE reply' = reply
    BY <2>1, <2>2 DEF keyOf, booked
  <2>3. CASE reply' = [reply EXCEPT ![c] = "failed"]
    BY <2>1, <2>3, FailIsFail DEF Promise!Next
  <2> QED
    BY <2>1, <2>2, <2>3
<1>3. CASE \/ \E c \in Call : LockFor(c) \/ Lock(c) \/ ClientGone(c)
           \/ InventoryRestart \/ Restock \/ PaymentRestart \/ AllDone \/ UNCHANGED vars
  <2>1. UNCHANGED <<req, store, reply>>
    BY <1>3 DEF LockFor, Lock, ClientGone, InventoryRestart, Restock, PaymentRestart,
                AllDone, vars
  <2> QED
    BY <2>1 DEF keyOf, booked
<1>4. ASSUME NEW c \in Call, CreateBooking(c)
      PROVE  Promise!Next \/ UNCHANGED <<keyOf, booked, reply>>
  BY <1>1, <1>2, <1>3, <1>4, LookupPromise, PersistPromise DEF CreateBooking
<1>5. ASSUME NEW p \in Proc, Crash(p)
      PROVE  Promise!Next
  BY <1>5, CrashPromise
<1> QED
  BY <1>3, <1>4, <1>5 DEF Next

\* With one Postgres behind any number of processes a key gets at most one
\* booking, which never changes, and every answer names it (persist's INSERT
\* ... ON CONFLICT DO NOTHING), whatever fails.
THEOREM PromiseIsKept ==
  ASSUME Postgres, NEW s0, Store = {s0}
  PROVE  Spec => KeepsPromise
<1>1. Init => Promise!Init
  <2> SUFFICES ASSUME Init PROVE Promise!Init
    OBVIOUS
  <2>1. keyOf \in [Call -> IdemKey]
    BY BookingAssumption DEF Init, keyOf, CreateBookingRequest
  <2>2. (CHOOSE s \in Store : TRUE) = s0
    OBVIOUS
  <2>3. booked = [k \in IdemKey |-> "none"]
    BY <2>2 DEF Init, booked
  <2> QED
    BY <2>1, <2>3 DEF Init, Promise!Init, keyOf, booked
<1>2. SagaInv /\ [Next]_vars => [Promise!Next]_(Promise!vars)
  BY PromiseStep DEF Promise!vars, keyOf, booked
<1> QED
  BY <1>1, <1>2, SagaDiscipline, PTL DEF Spec, KeepsPromise, Promise!Spec

-----------------------------------------------------------------------------
(***************************************************************************)
(* What the sagas of Booking sell and charge.  The first part holds        *)
(* whatever fails: inventory's sold counter is the number of rooms whose   *)
(* hold a saga has committed.  The second is about the faults under which  *)
(* a saga leaves nothing half done: refusals and upstreams that restart,   *)
(* but no call and no caller that is lost.                                 *)
(***************************************************************************)

\* The calls whose room of type r is committed.
Committed(r) == {c \in Call : req[c].room = r /\ holds[c].status = "committed"}

SoldIsCommitted == \A r \in Room : stock[r].sold = Cardinality(Committed(r))

-----------------------------------------------------------------------------
(* What a step does to the sold counters and to the charges.               *)

SoldNothing ==
  /\ \A r \in Room : stock'[r].sold = stock[r].sold
  /\ \A c \in Call : holds'[c].status = "committed" <=> holds[c].status = "committed"

SoldOne(c) ==
  /\ pc[c] = "commit" /\ holds[c].status = "held" /\ holds'[c].status = "committed"
  /\ \A d \in Call : d # c => holds'[d] = holds[d]
  /\ auths' = auths
  /\ \A r \in Room : stock'[r].sold = IF r = req[c].room THEN stock[r].sold + 1
                                                         ELSE stock[r].sold

SoldLost ==
  /\ "inventory_restart" \in Faults
  /\ \A r \in Room : stock'[r].sold = 0
  /\ \A c \in Call : holds'[c].status # "committed"

LEMMA CallSells ==
  ASSUME SagaInv, NEW c \in Call, CreateBooking(c)
  PROVE  SoldNothing \/ SoldOne(c)
<1> USE CallFacts
<1>1. CASE UNCHANGED upstream
  BY <1>1 DEF SoldNothing, upstream
<1>2. CASE Invoke(c) \/ LockFor(c) \/ Lock(c) \/ ByIdempotencyKey(c) \/ Persist(c)
  <2>1. UNCHANGED upstream
    BY <1>2 DEF Invoke, LockFor, Lock, ByIdempotencyKey, Persist
  <2> QED
    BY <1>1, <2>1
<1>3. CASE Authorize(c) \/ Capture(c) \/ Void(c) \/ Refund(c)
  <2>1. UNCHANGED <<stock, holds>>
    BY <1>3, RpcEnds DEF RpcMoves, upstream
  <2> QED
    BY <2>1 DEF SoldNothing
<1>4. CASE Hold(c)
  <2>1. CASE Inv!Hold(req[c].room, 1, c)
    <3>1. /\ holds' = [holds EXCEPT ![c] = [key |-> req[c].room, qty |-> 1, status |-> "held"]]
          /\ holds[c].status = "absent"
          /\ \A r \in Room : stock'[r].sold = stock[r].sold
      BY <2>1, RequestFields, HoldServed
    <3> QED
      BY <3>1 DEF SoldNothing
  <2> QED
    BY <1>1, <1>4, <2>1, RpcEnds DEF RpcMoves
<1>5. CASE Release(c)
  <2>1. CASE Inv!Release(c)
    <3>1. /\ holds' = [holds EXCEPT ![c].status = "released"]
          /\ holds[c].status = "held"
          /\ \A r \in Room : stock'[r].sold = stock[r].sold
      BY <2>1, ReleaseServed
    <3>2. holds'[c].status = "released"
      BY <3>1 DEF Inv!HoldRecord
    <3> QED
      BY <3>1, <3>2 DEF SoldNothing
  <2> QED
    BY <1>1, <1>5, <2>1, RpcEnds DEF RpcMoves
<1>6. CASE Commit(c)
  <2>1. CASE Inv!Commit(c) /\ UNCHANGED auths
    <3>1. /\ holds' = [holds EXCEPT ![c].status = "committed"]
          /\ holds[c].status = "held"
          /\ \A r \in Room : stock'[r].sold =
               IF r = holds[c].key THEN stock[r].sold + holds[c].qty ELSE stock[r].sold
      BY <2>1, CommitServed
    <3>2. holds[c].key = req[c].room /\ holds[c].qty = 1
      BY <3>1 DEF RecordsOK, MintedHold
    <3>3. holds'[c].status = "committed" /\ \A d \in Call : d # c => holds'[d] = holds[d]
      BY <3>1 DEF Inv!HoldRecord
    <3>4. pc[c] = "commit"
      BY <1>6, RpcEnds
    <3> QED
      BY <2>1, <3>1, <3>2, <3>3, <3>4 DEF SoldOne
  <2> QED
    BY <1>1, <1>6, <2>1, RpcEnds DEF RpcMoves
<1> QED
  BY <1>2, <1>3, <1>4, <1>5, <1>6 DEF CreateBooking

LEMMA StepSells ==
  ASSUME SagaInv, [Next]_vars
  PROVE  /\ req' = req
         /\ \/ SoldNothing
            \/ \E c \in Call : SoldOne(c)
            \/ SoldLost
<1>1. ASSUME NEW c \in Call, CreateBooking(c)
      PROVE  req' = req /\ (SoldNothing \/ SoldOne(c))
  BY <1>1, CallSells, CallAlone
<1>2. CASE \/ \E c \in Call : ClientGone(c)
           \/ \E p \in Proc : Crash(p)
           \/ PaymentRestart \/ AllDone \/ UNCHANGED vars
  <2>1. UNCHANGED <<stock, holds, req>>
    BY <1>2 DEF ClientGone, Crash, PaymentRestart, AllDone, vars, upstream
  <2> QED
    BY <2>1 DEF SoldNothing
<1>3. CASE Restock
  <2>1. holds' = holds /\ \A r \in Room : stock'[r].sold = stock[r].sold
    BY <1>3, RestockServed DEF Restock, SagaInv
  <2> QED
    BY <1>3, <2>1 DEF SoldNothing, Restock
<1>4. CASE InventoryRestart
  <2>1. /\ \A c \in Call : holds'[c].status \in {"absent", "lost"}
        /\ \A r \in Room : stock'[r].sold = 0
    BY <1>4, InventoryRestarted DEF InventoryRestart, SagaInv
  <2> QED
    BY <1>4, <2>1 DEF SoldLost, InventoryRestart, Inv!Restart
<1> QED
  BY <1>1, <1>2, <1>3, <1>4 DEF Next

\* Only the Capture of a running saga charges.
LEMMA StepCharges ==
  ASSUME SagaInv, [Next]_vars, NEW c \in Call, pc[c] # "capture", Charged(c)'
  PROVE  Charged(c)
<1>1. auths' = auths \/ auths'[c] = auths[c] => Charged(c)
  BY DEF Charged
<1>2. ASSUME NEW d \in Call, d # c, CreateBooking(d)
      PROVE  auths'[c] = auths[c]
  BY <1>2, CallAlone DEF OthersAlone
<1>3. ASSUME CreateBooking(c)
      PROVE  Charged(c)
  <2> USE CallFacts
  <2>1. CASE Authorize(c)
    <3>1. ASSUME Pay!Authorize(c, req[c].amount, req[c].token)
          PROVE  FALSE
      <4>1. auths'[c].status = "authorized"
        BY <3>1, RequestFields, AuthorizeServed
      <4> QED
        BY <4>1 DEF Charged
    <3> QED
      BY <1>1, <2>1, <3>1, RpcEnds DEF RpcMoves, upstream
  <2>2. CASE Void(c)
    <3>1. ASSUME Pay!Void(c)
          PROVE  FALSE
      <4>1. auths'[c].status = "voided"
        BY <3>1, StatusServed DEF Pay!Void
      <4> QED
        BY <4>1 DEF Charged
    <3> QED
      BY <1>1, <2>2, <3>1, RpcEnds DEF RpcMoves, upstream
  <2>3. CASE Refund(c)
    <3>1. ASSUME Pay!Refund(c, req[c].amount)
          PROVE  FALSE
      <4>1. auths[c].amount > 0 /\ auths'[c].amount = auths[c].amount
            /\ auths'[c].refunded = auths[c].amount /\ auths[c].amount = req[c].amount
        BY <3>1, RefundServed
      <4> QED
        BY <4>1, RequestFields, BookingAssumption DEF Charged
    <3> QED
      BY <1>1, <2>3, <3>1, RpcEnds DEF RpcMoves, upstream
  <2>4. CASE Hold(c) \/ Commit(c) \/ Release(c)
    BY <1>1, <2>4, RpcEnds DEF RpcMoves, upstream
  <2>5. CASE Invoke(c) \/ LockFor(c) \/ Lock(c) \/ ByIdempotencyKey(c) \/ Persist(c)
    BY <1>1, <2>5 DEF Invoke, LockFor, Lock, ByIdempotencyKey, Persist, upstream
  <2>6. ~Capture(c)
    BY DEF Capture
  <2> QED
    BY <1>3, <2>1, <2>2, <2>3, <2>4, <2>5, <2>6 DEF CreateBooking
<1>4. CASE \/ \E d \in Call : ClientGone(d)
           \/ \E p \in Proc : Crash(p)
           \/ InventoryRestart \/ Restock \/ AllDone \/ UNCHANGED vars
  <2>1. UNCHANGED auths
    BY <1>4 DEF ClientGone, Crash, InventoryRestart, Restock, AllDone, vars, upstream
  <2> QED
    BY <1>1, <2>1
<1>5. CASE PaymentRestart
  <2>1. auths'[c].amount = 0 /\ auths'[c].refunded = 0
    BY <1>5, PaymentRestarted DEF PaymentRestart, SagaInv, TablesOK
  <2> QED
    BY <2>1 DEF Charged
<1> QED
  BY <1>1, <1>2, <1>3, <1>4, <1>5 DEF Next

-----------------------------------------------------------------------------
(* The sold counters.                                                      *)

LEMMA CommittedFinite ==
  ASSUME NEW r \in Room
  PROVE  IsFiniteSet(Committed(r)) /\ Cardinality(Committed(r)) \in Nat
BY BookingAssumption, FS_Subset, FS_CardinalityType DEF Committed

\* A commit sells one room, of the type its call asked for.
LEMMA CommitCounts ==
  ASSUME NEW c \in Call, NEW r \in Room, SoldOne(c), req' = req
  PROVE  Cardinality(Committed(r)') = IF r = req[c].room THEN Cardinality(Committed(r)) + 1
                                                         ELSE Cardinality(Committed(r))
<1>1. CASE r = req[c].room
  <2>1. Committed(r)' = Committed(r) \cup {c} /\ c \notin Committed(r)
    BY <1>1 DEF SoldOne, Committed
  <2> QED
    BY <1>1, <2>1, CommittedFinite, FS_AddElement
<1>2. CASE r # req[c].room
  <2>1. Committed(r)' = Committed(r)
    BY <1>2 DEF SoldOne, Committed
  <2> QED
    BY <1>2, <2>1
<1> QED
  BY <1>1, <1>2

LEMMA NextSold ==
  ASSUME SagaInv, SoldIsCommitted, [Next]_vars
  PROVE  SoldIsCommitted'
<1> SUFFICES ASSUME NEW r \in Room PROVE stock'[r].sold = Cardinality(Committed(r)')
  BY DEF SoldIsCommitted
<1>1. stock[r].sold = Cardinality(Committed(r))
  BY DEF SoldIsCommitted
<1>2. req' = req
  BY StepSells
<1>3. CASE SoldNothing
  <2>1. Committed(r)' = Committed(r)
    BY <1>2, <1>3 DEF SoldNothing, Committed
  <2> QED
    BY <1>1, <1>3, <2>1 DEF SoldNothing
<1>4. ASSUME NEW c \in Call, SoldOne(c)
      PROVE  stock'[r].sold = Cardinality(Committed(r)')
  BY <1>1, <1>2, <1>4, CommitCounts DEF SoldOne
<1>5. CASE SoldLost
  <2>1. Committed(r)' = {}
    BY <1>5 DEF SoldLost, Committed
  <2> QED
    BY <1>5, <2>1, FS_EmptySet DEF SoldLost
<1> QED
  BY <1>3, <1>4, <1>5, StepSells

LEMMA InitSold == Init => SoldIsCommitted
<1> SUFFICES ASSUME Init, NEW r \in Room PROVE stock[r].sold = Cardinality(Committed(r))
  BY DEF SoldIsCommitted
<1>1. stock[r].sold = 0
  BY DEF Init
<1>2. Committed(r) = {}
  BY DEF Init, Committed, Inv!Absent
<1> QED
  BY <1>1, <1>2, FS_EmptySet

\* Whatever fails, inventory counts as sold what the sagas have committed
\* since it last started.
THEOREM CommitsAreSold == Spec => []SoldIsCommitted
<1>1. SagaInv /\ SoldIsCommitted /\ [Next]_vars => SoldIsCommitted'
  BY NextSold
<1> QED
  BY <1>1, InitSold, SagaDiscipline, PTL DEF Spec

-----------------------------------------------------------------------------
(* Sagas that nobody abandons.  An upstream may refuse an RPC, or restart  *)
(* and forget; no call and no answer is lost, nobody hangs up or dies, no  *)
(* refund is refused by the provider's chaos token, and each process has a *)
(* store of its own.                                                       *)

Quiet ==
  /\ Faults \subseteq {"inventory_restart", "payment_restart"}
  /\ \A m \in Request : m.token # "tok_refund_fail"
  /\ \A p, q \in Proc : StoreOf[p] = StoreOf[q] => p = q

\* What the compensations have left to do, and that they do it.
CompensatedOK(c) ==
  /\ ctx[c] = "live"
  /\ holds[c].status = "committed" => pc[c] = "persist" \/ c \in Bookings
  /\ pc[c] \in SagaStep => StoredFor(c) = "none"
  /\ pc[c] = "void" => auths[c].status \in {"authorized", "lost"}
  /\ pc[c] = "release" => auths[c].status \in {"absent", "voided", "lost"}
  /\ pc[c] = "refund" => holds[c].status = "lost"
  /\ pc[c] = "done" /\ c \notin Bookings =>
       /\ holds[c].status \notin {"held", "committed"}
       /\ auths[c].status # "authorized" /\ ~Charged(c)

Compensated == \A c \in Call : CompensatedOK(c)

\* A booking that is stored stays stored.
LEMMA BookingsStay ==
  ASSUME SagaInv, Quiet, [Next]_vars
  PROVE  Bookings \subseteq Bookings'
<1>1. ASSUME NEW c \in Call, CreateBooking(c)
      PROVE  Bookings \subseteq Bookings'
  <2>1. CASE Persist(c) /\ StoredFor(c) = "none" /\ Insert(c)
    <3>1. /\ proc(c) \in Proc /\ key(c) \in IdemKey /\ StoreOf[proc(c)] \in Store
          /\ store \in [Store -> [IdemKey -> Call \cup {"none"}]]
      BY RequestType, BookingAssumption DEF SagaInv, LockInv, TablesOK
    <3>2. \A s \in Store, k \in IdemKey :
            store[s][k] # "none" => store'[s][k] = store[s][k]
      BY <2>1, <3>1 DEF Insert, StoredFor
    <3> QED
      BY <3>2 DEF Bookings
  <2>2. CASE UNCHANGED store
    BY <2>2 DEF Bookings
  <2> QED
    BY <1>1, <2>1, <2>2, RpcEnds
    DEF CreateBooking, Persist, Invoke, LockFor, Lock, ByIdempotencyKey
<1>2. CASE ~\E c \in Call : CreateBooking(c)
  <2>1. UNCHANGED store
    BY <1>2 DEF Next, Quiet, ClientGone, Crash, InventoryRestart, Restock, PaymentRestart,
                AllDone, vars
  <2> QED
    BY <2>1 DEF Bookings
<1> QED
  BY <1>1, <1>2

\* While a saga runs nobody else stores a booking of its key.
LEMMA SlotFree ==
  ASSUME SagaInv, Quiet, [Next]_vars, NEW c \in Call,
         Locked(c), pc'[c] # "done", StoredFor(c) = "none"
  PROVE  StoredFor(c)' = "none"
<1> DEFINE s == StoreOf[proc(c)]
<1>1. req' = req /\ SagaInv'
  BY StepSells, NextSaga
<1>2. proc(c) \in Proc /\ key(c) \in IdemKey /\ s \in Store
  BY RequestType, BookingAssumption DEF SagaInv, LockInv
<1>3. StoredFor(c)' = store'[s][key(c)]
  BY <1>1 DEF StoredFor, proc, key
<1>4. ASSUME NEW d \in Call, Persist(d), store'[s][key(c)] = d, pc[d] = "persist"
      PROVE  FALSE
  <2>1. s = StoreOf[proc(d)] /\ key(c) = key(d) /\ pc'[d] = "done"
    BY <1>1, <1>2, <1>4, BookingAssumption DEF SagaInv, StoreOK, SlotOK, proc, key
  <2>2. proc(c) = proc(d) /\ Locked(d)
    BY <1>2, <1>4, <2>1, RequestType DEF SagaInv, LockInv, Quiet, Locked, SagaStep
  <2>3. c = d
    BY <2>1, <2>2 DEF SagaInv, LockInv, OwnsLock
  <2> QED
    BY <2>1, <2>3
<1>5. CASE store'[s][key(c)] = store[s][key(c)]
  BY <1>3, <1>5 DEF StoredFor
<1> HIDE DEF s
<1> QED
  BY <1>2, <1>3, <1>4, <1>5, StoreStep

\* An RPC is refused by its server, or carried out and answered.
LEMMA QuietRpcEnds ==
  ASSUME Quiet, NEW c \in Call, ctx[c] = "live"
  PROVE  /\ Hold(c) =>
              \/ Inv!Hold(req[c].room, 1, c) /\ UNCHANGED auths /\ Goto(c, "authorize")
              \/ UNCHANGED upstream /\ Return(c, "failed")
         /\ Authorize(c) =>
              \/ Pay!Authorize(c, req[c].amount, req[c].token) /\ UNCHANGED <<stock, holds>>
                 /\ Goto(c, "capture")
              \/ UNCHANGED upstream /\ Goto(c, "release")
         /\ Capture(c) =>
              \/ Pay!Capture(c) /\ UNCHANGED <<stock, holds>> /\ Goto(c, "commit")
              \/ UNCHANGED upstream /\ Goto(c, "void")
         /\ Commit(c) =>
              \/ Inv!Commit(c) /\ UNCHANGED auths /\ Goto(c, "persist")
              \/ ~Inv!CanCommit(c) /\ UNCHANGED upstream /\ Goto(c, "refund")
         /\ Void(c) =>
              /\ Goto(c, "release")
              /\ \/ Pay!Void(c) /\ UNCHANGED <<stock, holds>>
                 \/ ~Pay!CanVoid(c) /\ UNCHANGED upstream
         /\ Release(c) =>
              /\ Return(c, "failed")
              /\ \/ Inv!Release(c) /\ UNCHANGED auths
                 \/ ~Inv!CanRelease(c) /\ UNCHANGED upstream
         /\ Refund(c) =>
              /\ Return(c, "failed")
              /\ \/ Pay!Refund(c, req[c].amount) /\ UNCHANGED <<stock, holds>>
                 \/ ~Pay!CanRefund(c, req[c].amount) /\ UNCHANGED upstream
<1>1. /\ "reply_lost" \notin Faults /\ "client_gone" \notin Faults
      /\ "call_lost" \notin Faults
  BY DEF Quiet
<1>2. ~ReplyLost(c)
  BY <1>1 DEF ReplyLost
<1> USE <1>1, <1>2 DEF Rpc
<1>3. Hold(c) =>
        \/ Inv!Hold(req[c].room, 1, c) /\ UNCHANGED auths /\ Goto(c, "authorize")
        \/ UNCHANGED upstream /\ Return(c, "failed")
  BY Zenon DEF Hold
<1>4. Authorize(c) =>
        \/ Pay!Authorize(c, req[c].amount, req[c].token) /\ UNCHANGED <<stock, holds>>
           /\ Goto(c, "capture")
        \/ UNCHANGED upstream /\ Goto(c, "release")
  BY Zenon DEF Authorize
<1>5. Capture(c) =>
        \/ Pay!Capture(c) /\ UNCHANGED <<stock, holds>> /\ Goto(c, "commit")
        \/ UNCHANGED upstream /\ Goto(c, "void")
  BY Zenon DEF Capture
<1>6. Commit(c) =>
        \/ Inv!Commit(c) /\ UNCHANGED auths /\ Goto(c, "persist")
        \/ ~Inv!CanCommit(c) /\ UNCHANGED upstream /\ Goto(c, "refund")
  BY DEF Commit
<1>7. Void(c) =>
        /\ Goto(c, "release")
        /\ \/ Pay!Void(c) /\ UNCHANGED <<stock, holds>>
           \/ ~Pay!CanVoid(c) /\ UNCHANGED upstream
  BY DEF Void
<1>8. Release(c) =>
        /\ Return(c, "failed")
        /\ \/ Inv!Release(c) /\ UNCHANGED auths
           \/ ~Inv!CanRelease(c) /\ UNCHANGED upstream
  BY DEF Release
<1>9. Refund(c) =>
        /\ Return(c, "failed")
        /\ \/ Pay!Refund(c, req[c].amount) /\ UNCHANGED <<stock, holds>>
           \/ ~Pay!CanRefund(c, req[c].amount) /\ UNCHANGED upstream
  BY DEF Refund
<1> QED
  BY <1>3, <1>4, <1>5, <1>6, <1>7, <1>8, <1>9

\* Nobody hangs up.
LEMMA CtxStays ==
  ASSUME Quiet, [Next]_vars, \A c \in Call : ctx[c] = "live"
  PROVE  \A c \in Call : ctx'[c] = "live"
<1>1. "reply_lost" \notin Faults /\ "client_gone" \notin Faults /\ "booking_crash" \notin Faults
  BY DEF Quiet
<1>2. ASSUME NEW c \in Call, CreateBooking(c)
      PROVE  UNCHANGED ctx
  <2> USE <1>1 DEF Rpc, ReplyLost
  <2>1. CASE Hold(c) \/ Authorize(c) \/ Capture(c) \/ Commit(c)
    BY <2>1, Zenon DEF Hold, Authorize, Capture, Commit
  <2>2. CASE Void(c) \/ Release(c) \/ Refund(c)
    BY <2>2, Zenon DEF Void, Release, Refund
  <2>3. CASE Invoke(c) \/ LockFor(c) \/ Lock(c) \/ ByIdempotencyKey(c) \/ Persist(c)
    BY <2>3 DEF Invoke, LockFor, Lock, ByIdempotencyKey, Persist
  <2> QED
    BY <1>2, <2>1, <2>2, <2>3 DEF CreateBooking
<1>3. CASE ~\E c \in Call : CreateBooking(c)
  BY <1>1, <1>3 DEF Next, ClientGone, Crash, InventoryRestart, Restock, PaymentRestart,
                    AllDone, vars
<1> QED
  BY <1>2, <1>3

\* The state after a step of call c, as far as every step of it agrees.
LEMMA AfterStep ==
  ASSUME SagaInv, Quiet, Compensated, NEW c \in Call, CreateBooking(c)
  PROVE  /\ RecordsOK(c) /\ ProgressOK(c) /\ CompensatedOK(c)
         /\ RecordsOK(c)' /\ ProgressOK(c)'
         /\ pc \in [Call -> Step] /\ Pay!TypeOK /\ ControlType
         /\ IP!IInv /\ holds \in [Call -> Inv!HoldRecord]
         /\ ctx[c] = "live" /\ ctx'[c] = "live" /\ req' = req
         /\ Bookings \subseteq Bookings'
         /\ Locked(c) /\ pc'[c] # "done" /\ StoredFor(c) = "none" => StoredFor(c)' = "none"
<1>1. [Next]_vars
  BY DEF Next
<1>2. SagaInv'
  BY <1>1, NextSaga
<1>3. RecordsOK(c)' /\ ProgressOK(c)'
  BY <1>2 DEF SagaInv, CallsOK
<1>4. pc \in [Call -> Step] /\ CompensatedOK(c) /\ \A d \in Call : ctx[d] = "live"
  BY DEF SagaInv, LockInv, ControlType, Compensated, CompensatedOK
<1> QED
  BY <1>1, <1>3, <1>4, CallFacts, CtxStays, StepSells, BookingsStay, SlotFree

LEMMA EntryCompensated ==
  ASSUME SagaInv, Quiet, Compensated, NEW c \in Call,
         Invoke(c) \/ LockFor(c) \/ Lock(c) \/ ByIdempotencyKey(c)
  PROVE  CompensatedOK(c)'
<1> USE AfterStep DEF CreateBooking
<1>1. pc[c] \in {"idle", "lockFor", "lock", "lookup"} /\ UNCHANGED <<holds, auths, store>>
  BY DEF Invoke, LockFor, Lock, ByIdempotencyKey, upstream
<1>2. holds'[c].status = "absent" /\ auths'[c].status = "absent"
  BY <1>1 DEF ProgressOK, BeforeHold
<1>3. /\ pc'[c] \in {"done", "lockFor", "lock", "lookup", "hold"}
      /\ pc'[c] = "hold" => StoredFor(c)' = "none"
  <2>1. CASE Invoke(c) \/ LockFor(c) \/ Lock(c)
    BY <2>1 DEF Invoke, LockFor, Lock
  <2>2. CASE ByIdempotencyKey(c)
    <3>1. StoredFor(c)' = StoredFor(c)
      BY <1>1 DEF StoredFor, proc, key
    <3>2. \/ pc' = [pc EXCEPT ![c] = "done"]
          \/ pc' = [pc EXCEPT ![c] = "hold"] /\ StoredFor(c) = "none"
      BY <2>2 DEF ByIdempotencyKey, Return, Goto
    <3> QED
      BY <3>1, <3>2
  <2> QED
    BY <2>1, <2>2
<1> QED
  BY <1>2, <1>3 DEF CompensatedOK, SagaStep, Charged

LEMMA HoldCompensated ==
  ASSUME SagaInv, Quiet, Compensated, NEW c \in Call, Hold(c)
  PROVE  CompensatedOK(c)'
<1> USE AfterStep DEF CreateBooking
<1>1. pc[c] = "hold" /\ auths[c].status = "absent" /\ holds[c].status = "absent"
  BY DEF Hold, ProgressOK, BeforeHold
<1>2. CASE Inv!Hold(req[c].room, 1, c) /\ UNCHANGED auths /\ Goto(c, "authorize")
  <2>1. pc'[c] = "authorize" /\ holds'[c].status = "held"
    BY <1>2, RequestFields, HoldServed DEF Goto
  <2> QED
    BY <1>1, <2>1 DEF CompensatedOK, SagaStep, Locked
<1>3. CASE UNCHANGED upstream /\ Return(c, "failed")
  <2>1. pc'[c] = "done" /\ auths' = auths /\ holds' = holds
    BY <1>3 DEF Return, upstream
  <2> QED
    BY <1>1, <2>1 DEF CompensatedOK, SagaStep, Charged
<1> QED
  BY <1>2, <1>3, QuietRpcEnds

LEMMA AuthorizeCompensated ==
  ASSUME SagaInv, Quiet, Compensated, NEW c \in Call, Authorize(c)
  PROVE  CompensatedOK(c)'
<1> USE AfterStep DEF CreateBooking
<1>1. pc[c] = "authorize" /\ auths[c].status = "absent" /\ holds[c].status \in {"held", "lost"}
  BY DEF Authorize, ProgressOK
<1>2. CASE Goto(c, "capture") /\ UNCHANGED holds
  <2>1. pc'[c] = "capture"
    BY <1>2 DEF Goto
  <2> QED
    BY <1>1, <1>2, <2>1 DEF CompensatedOK, SagaStep, Locked
<1>3. CASE UNCHANGED upstream /\ Goto(c, "release")
  <2>1. pc'[c] = "release" /\ auths' = auths /\ holds' = holds
    BY <1>3 DEF Goto, upstream
  <2> QED
    BY <1>1, <2>1 DEF CompensatedOK, SagaStep, Locked
<1> QED
  BY <1>2, <1>3, QuietRpcEnds

LEMMA CaptureCompensated ==
  ASSUME SagaInv, Quiet, Compensated, NEW c \in Call, Capture(c)
  PROVE  CompensatedOK(c)'
<1> USE AfterStep DEF CreateBooking
<1>1. /\ pc[c] = "capture" /\ holds[c].status \in {"held", "lost"}
      /\ auths[c].status \in {"authorized", "lost"}
  BY DEF Capture, ProgressOK
<1>2. CASE Goto(c, "commit") /\ UNCHANGED holds
  <2>1. pc'[c] = "commit"
    BY <1>2 DEF Goto
  <2> QED
    BY <1>1, <1>2, <2>1 DEF CompensatedOK, SagaStep, Locked
<1>3. CASE UNCHANGED upstream /\ Goto(c, "void")
  <2>1. pc'[c] = "void" /\ auths' = auths /\ holds' = holds
    BY <1>3 DEF Goto, upstream
  <2> QED
    BY <1>1, <2>1 DEF CompensatedOK, SagaStep, Locked
<1> QED
  BY <1>2, <1>3, QuietRpcEnds

LEMMA CommitCompensated ==
  ASSUME SagaInv, Quiet, Compensated, NEW c \in Call, Commit(c)
  PROVE  CompensatedOK(c)'
<1> USE AfterStep DEF CreateBooking
<1>1. pc[c] = "commit" /\ holds[c].status \in {"held", "lost"}
  BY DEF Commit, ProgressOK
<1>2. CASE Inv!Commit(c) /\ Goto(c, "persist")
  <2>1. pc'[c] = "persist"
    BY <1>2 DEF Goto
  <2> QED
    BY <1>1, <2>1 DEF CompensatedOK, SagaStep, Locked
<1>3. CASE ~Inv!CanCommit(c) /\ UNCHANGED upstream /\ Goto(c, "refund")
  <2>1. pc'[c] = "refund" /\ holds' = holds /\ holds[c].status = "lost"
    BY <1>1, <1>3 DEF Goto, upstream, Inv!CanCommit, Inv!Open
  <2> QED
    BY <1>1, <2>1 DEF CompensatedOK, SagaStep, Locked
<1> QED
  BY <1>2, <1>3, QuietRpcEnds

LEMMA VoidCompensated ==
  ASSUME SagaInv, Quiet, Compensated, NEW c \in Call, Void(c)
  PROVE  CompensatedOK(c)'
<1> USE AfterStep DEF CreateBooking
<1>1. pc[c] = "void" /\ holds[c].status \in {"held", "lost"}
  BY DEF Void, ProgressOK
<1>2. auths[c].status \in {"authorized", "lost"}
  BY <1>1 DEF CompensatedOK
<1>3. Goto(c, "release") /\ holds' = holds /\ auths'[c].status \in {"voided", "lost"}
  <2>1. CASE Pay!Void(c) /\ UNCHANGED <<stock, holds>>
    <3>1. auths'[c].status = "voided"
      BY <2>1, StatusServed DEF Pay!Void
    <3> QED
      BY <2>1, <3>1, QuietRpcEnds
  <2>2. CASE ~Pay!CanVoid(c) /\ UNCHANGED upstream
    BY <1>2, <2>2, QuietRpcEnds DEF Pay!CanVoid, upstream
  <2> QED
    BY <2>1, <2>2, QuietRpcEnds
<1>4. pc'[c] = "release"
  BY <1>3 DEF Goto
<1> QED
  BY <1>1, <1>3, <1>4 DEF CompensatedOK, SagaStep, Locked

LEMMA ReleaseCompensated ==
  ASSUME SagaInv, Quiet, Compensated, NEW c \in Call, Release(c)
  PROVE  CompensatedOK(c)'
<1> USE AfterStep DEF CreateBooking
<1>1. pc[c] = "release" /\ holds[c].status \in {"held", "lost"}
  BY DEF Release, ProgressOK
<1>2. auths[c].status \in {"absent", "voided", "lost"}
  BY <1>1 DEF CompensatedOK
<1>3. Return(c, "failed") /\ auths' = auths /\ holds'[c].status \in {"released", "lost"}
  <2>1. CASE Inv!Release(c) /\ UNCHANGED auths
    <3>1. holds'[c].status = "released"
      BY <2>1, ReleaseServed DEF Inv!HoldRecord
    <3> QED
      BY <2>1, <3>1, QuietRpcEnds
  <2>2. CASE ~Inv!CanRelease(c) /\ UNCHANGED upstream
    BY <1>1, <2>2, QuietRpcEnds DEF Inv!CanRelease, Inv!Open, upstream
  <2> QED
    BY <2>1, <2>2, QuietRpcEnds
<1>4. pc'[c] = "done"
  BY <1>3 DEF Return
<1> QED
  BY <1>2, <1>3, <1>4 DEF CompensatedOK, SagaStep, Charged

\* A refund of everything that was captured is not refused.
LEMMA RefundAccepted ==
  ASSUME ControlType, Quiet, NEW c \in Call, RecordsOK(c),
         auths[c].status = "captured", auths[c].refunded = 0
  PROVE  Pay!CanRefund(c, req[c].amount)
<1>1. /\ auths[c].amount = req[c].amount /\ auths[c].amount > 0
      /\ auths[c].chaosMode = Pay!ChaosMode(req[c].token)
  BY DEF RecordsOK, MintedAuth
<1>2. req[c].token # "tok_refund_fail"
  BY DEF ControlType, Quiet
<1>3. auths[c].chaosMode # "refund_fail"
  BY <1>1, <1>2 DEF Pay!ChaosMode
<1>4. Pay!Wrap(auths[c].amount - auths[c].refunded) = req[c].amount
  BY <1>1, RequestFields, BookingAssumption DEF Pay!Wrap
<1> QED
  BY <1>1, <1>3, <1>4, RequestFields, BookingAssumption DEF Pay!CanRefund

LEMMA RefundCompensated ==
  ASSUME SagaInv, Quiet, Compensated, NEW c \in Call, Refund(c)
  PROVE  CompensatedOK(c)'
<1> USE AfterStep DEF CreateBooking
<1>1. /\ pc[c] = "refund" /\ auths[c].status \in {"captured", "lost"}
      /\ auths[c].refunded = 0
  BY DEF Refund, ProgressOK
<1>2. holds[c].status = "lost"
  BY <1>1 DEF CompensatedOK
<1>3. Return(c, "failed") /\ holds' = holds /\ auths'[c].status # "authorized" /\ ~Charged(c)'
  <2>1. CASE Pay!Refund(c, req[c].amount) /\ UNCHANGED <<stock, holds>>
    <3>1. /\ auths'[c].status = "captured" /\ auths'[c].amount = req[c].amount
          /\ auths'[c].refunded = req[c].amount
      BY <2>1, RefundServed
    <3> QED
      BY <2>1, <3>1, QuietRpcEnds, RequestFields, BookingAssumption DEF Charged
  <2>2. CASE ~Pay!CanRefund(c, req[c].amount) /\ UNCHANGED upstream
    <3>1. auths[c].status = "lost"
      BY <1>1, <2>2, RefundAccepted
    <3> QED
      BY <2>2, <3>1, QuietRpcEnds DEF Charged, upstream
  <2> QED
    BY <2>1, <2>2, QuietRpcEnds
<1>4. pc'[c] = "done"
  BY <1>3 DEF Return
<1> QED
  BY <1>2, <1>3, <1>4 DEF CompensatedOK, SagaStep

LEMMA PersistCompensated ==
  ASSUME SagaInv, Quiet, Compensated, NEW c \in Call, Persist(c)
  PROVE  CompensatedOK(c)'
<1> USE AfterStep DEF CreateBooking
<1>1. pc[c] = "persist" /\ StoredFor(c) = "none" /\ UNCHANGED <<holds, auths>>
  BY DEF Persist, CompensatedOK, SagaStep, upstream
<1>2. ~StoreFails(c) /\ Faults \cap {"store_error", "client_gone"} = {}
  BY DEF StoreFails, Quiet
<1>3. Insert(c) /\ Return(c, c)
  BY <1>1, <1>2 DEF Persist
<1>4. c \in Bookings'
  <2>1. /\ proc(c) \in Proc /\ key(c) \in IdemKey /\ StoreOf[proc(c)] \in Store
        /\ store \in [Store -> [IdemKey -> Call \cup {"none"}]] /\ c # "none"
    BY RequestType, BookingAssumption DEF SagaInv, LockInv, TablesOK
  <2>2. store'[StoreOf[proc(c)]][key(c)] = c
    BY <1>3, <2>1 DEF Insert
  <2> QED
    BY <2>1, <2>2 DEF Bookings
<1>5. pc'[c] = "done"
  BY <1>3 DEF Return
<1> QED
  BY <1>4, <1>5 DEF CompensatedOK, SagaStep

LEMMA OwnStepCompensated ==
  ASSUME SagaInv, Quiet, Compensated, NEW c \in Call, CreateBooking(c)
  PROVE  CompensatedOK(c)'
BY EntryCompensated, HoldCompensated, AuthorizeCompensated, CaptureCompensated,
   CommitCompensated, VoidCompensated, ReleaseCompensated, RefundCompensated,
   PersistCompensated DEF CreateBooking

\* A step that is not the call's own leaves it alone, or makes an upstream
\* forget.
LEMMA OtherStepCompensated ==
  ASSUME SagaInv, Quiet, Compensated, [Next]_vars, NEW c \in Call, pc'[c] = pc[c],
         holds'[c].status \in {holds[c].status, "absent", "lost"},
         pc[c] = "refund" => holds'[c].status = "lost",
         \/ auths'[c] = auths[c]
         \/ /\ auths'[c].status \in {"absent", "lost"}
            /\ auths'[c].status = "absent" => auths[c].status = "absent"
  PROVE  CompensatedOK(c)'
<1>1. CompensatedOK(c) /\ \A d \in Call : ctx[d] = "live"
  BY DEF Compensated, CompensatedOK
<1>2. ctx'[c] = "live" /\ Bookings \subseteq Bookings'
  BY <1>1, CtxStays, BookingsStay
<1>3. pc'[c] \in SagaStep => StoredFor(c)' = "none"
  BY <1>1, SlotFree DEF CompensatedOK, Locked, SagaStep
<1>4. Charged(c)' => Charged(c)
  BY DEF Charged
<1> QED
  BY <1>1, <1>2, <1>3, <1>4 DEF CompensatedOK

LEMMA NextCompensated ==
  ASSUME SagaInv, Quiet, Compensated, [Next]_vars
  PROVE  Compensated'
<1> SUFFICES ASSUME NEW c \in Call PROVE CompensatedOK(c)'
  BY DEF Compensated
<1> USE DEF SagaInv
<1>1. pc[c] = "refund" => holds[c].status = "lost"
  BY DEF Compensated, CompensatedOK
<1>2. ASSUME NEW d \in Call, d # c, CreateBooking(d)
      PROVE  CompensatedOK(c)'
  BY <1>1, <1>2, CallAlone, OtherStepCompensated DEF OthersAlone
<1>3. CASE AllDone \/ UNCHANGED vars
  BY <1>1, <1>3, OtherStepCompensated DEF AllDone, vars
<1>4. CASE Restock
  BY <1>1, <1>4, RestockServed, OtherStepCompensated DEF Restock
<1>5. CASE InventoryRestart
  BY <1>1, <1>5, InventoryRestarted, OtherStepCompensated DEF InventoryRestart
<1>6. CASE PaymentRestart
  BY <1>1, <1>6, PaymentRestarted, OtherStepCompensated DEF PaymentRestart, TablesOK
<1>7. (\A d \in Call : ~ClientGone(d)) /\ (\A p \in Proc : ~Crash(p))
  BY DEF Quiet, ClientGone, Crash
<1> QED
  BY <1>2, <1>3, <1>4, <1>5, <1>6, <1>7, OwnStepCompensated DEF Next

LEMMA InitCompensated ==
  ASSUME Init, Quiet
  PROVE  Compensated
<1>1. \A c \in Call : holds[c].status = "absent" /\ pc[c] = "idle" /\ ctx[c] = "live"
  BY DEF Init, Inv!Absent
<1> QED
  BY <1>1 DEF Compensated, CompensatedOK, SagaStep

\* The compensations do their work as long as nobody abandons a saga.
THEOREM CompensationsComplete ==
  ASSUME Quiet
  PROVE  Spec => []Compensated
<1>1. Init => Compensated
  BY InitCompensated
<1>2. SagaInv /\ Compensated /\ [Next]_vars => Compensated'
  BY NextCompensated
<1> QED
  BY <1>1, <1>2, SagaDiscipline, PTL DEF Spec

-----------------------------------------------------------------------------
\* A stored booking is paid for, unless payment has forgotten.
LEMMA StoredIsPaid ==
  ASSUME SagaInv, BookingBacked, NEW c \in Bookings
  PROVE  /\ c \in Call /\ pc[c] = "done"
         /\ holds[c].status \in {"committed", "lost"}
         /\ Charged(c) \/ auths[c].status = "lost"
<1>1. PICK s \in Store, k \in IdemKey : store[s][k] = c /\ c # "none"
  BY DEF Bookings
<1>2. c \in Call /\ pc[c] = "done" /\ RecordsOK(c)
  BY <1>1 DEF SagaInv, TablesOK, StoreOK, SlotOK, CallsOK
<1>3. /\ holds[c].status \in {"committed", "lost"}
      /\ auths[c].status \in {"captured", "lost"} /\ auths[c].refunded = 0
  BY DEF BookingBacked
<1>4. auths[c].status = "captured" => Charged(c)
  BY <1>2, <1>3 DEF RecordsOK, MintedAuth, Charged
<1> QED
  BY <1>2, <1>3, <1>4

\* A finished saga leaves a whole booking or nothing: the deferred
\* compensations of CreateBooking give back whatever was taken.
THEOREM NothingPartial ==
  ASSUME Quiet
  PROVE  Spec => []NoPartialBooking
<1>1. SagaInv /\ BookingBacked /\ Compensated => NoPartialBooking
  BY StoredIsPaid DEF NoPartialBooking, AllOrNothing, Compensated, CompensatedOK
<1> QED
  BY <1>1, SagaDiscipline, BookingsAreBacked, CompensationsComplete, PTL

\* The rooms that are sold are those of the bookings, and of the sagas that
\* are about to store theirs.
THEOREM SalesAreBookings ==
  ASSUME Quiet
  PROVE  Spec => []SoldIsBooked
<1>1. SagaInv /\ SoldIsCommitted /\ Compensated => SoldIsBooked
  <2> SUFFICES ASSUME SoldIsCommitted, Compensated, NEW r \in Room
               PROVE  stock[r].sold =
                        Cardinality({c \in Call : /\ req[c].room = r
                                                  /\ holds[c].status = "committed"
                                                  /\ c \in Bookings \/ pc[c] = "persist"})
    BY DEF SoldIsBooked
  <2>1. Committed(r) = {c \in Call : /\ req[c].room = r
                                     /\ holds[c].status = "committed"
                                     /\ c \in Bookings \/ pc[c] = "persist"}
    BY DEF Compensated, CompensatedOK, Committed
  <2> QED
    BY <2>1 DEF SoldIsCommitted
<1> QED
  BY <1>1, SagaDiscipline, CommitsAreSold, CompensationsComplete, PTL

\* With one booking process a client that retries a key pays once: the key
\* lock keeps two sagas of a key apart, and a saga starts only when the key
\* has no booking.
THEOREM PaysOnce ==
  ASSUME Quiet, \A p, q \in Proc : p = q
  PROVE  Spec => []OneChargePerKey
<1>1. SagaInv /\ Compensated => OneChargePerKey
  <2> SUFFICES ASSUME SagaInv, Compensated, NEW c \in Call, NEW d \in Call,
                      key(c) = key(d), Charged(c), Charged(d)
               PROVE  c = d
    BY DEF OneChargePerKey
  <2>1. proc(c) \in Proc /\ proc(d) \in Proc /\ proc(c) = proc(d)
        /\ key(c) \in IdemKey /\ StoreOf[proc(c)] \in Store
    BY RequestType, BookingAssumption DEF SagaInv, LockInv
  <2>2. ASSUME NEW e \in Call, Charged(e)
        PROVE  e \in Bookings \/ (pc[e] \in SagaStep /\ Locked(e))
    <3>1. auths[e].status = "captured" /\ pc[e] \in Step
      BY <2>2 DEF Charged, SagaInv, LockInv, ControlType
    <3>2. pc[e] = "done" => e \in Bookings
      BY <2>2 DEF Compensated, CompensatedOK
    <3>3. pc[e] \notin BeforeHold
      BY <3>1 DEF SagaInv, CallsOK, ProgressOK
    <3> QED
      BY <3>1, <3>2, <3>3 DEF Step, BeforeHold, SagaStep, Locked
  <2>3. ASSUME NEW e \in Bookings
        PROVE  e \in Call /\ e # "none" /\ StoredFor(e) = e
    BY BookingAssumption DEF Bookings, StoredFor, SagaInv, TablesOK, StoreOK, SlotOK
  <2>4. StoredFor(c) = StoredFor(d)
    BY <2>1 DEF StoredFor
  <2>5. CASE c \in Bookings \/ d \in Bookings
    <3>1. c \in Bookings /\ d \in Bookings
      BY <2>2, <2>3, <2>4, <2>5 DEF Compensated, CompensatedOK
    <3> QED
      BY <2>3, <2>4, <3>1
  <2>6. CASE Locked(c) /\ Locked(d)
    BY <2>1, <2>6 DEF SagaInv, LockInv, OwnsLock
  <2> QED
    BY <2>2, <2>5, <2>6
<1> QED
  BY <1>1, SagaDiscipline, CompensationsComplete, PTL

-----------------------------------------------------------------------------
(* What Cancellation needs to know of booking.                             *)

\* Only a restart of inventory loses a hold.
LEMMA HoldsKept ==
  ASSUME SagaInv, [Next]_vars, "inventory_restart" \notin Faults, NEW c \in Call,
         holds[c].status # "lost"
  PROVE  holds'[c].status # "lost"
<1>1. ASSUME NEW d \in Call, d # c, CreateBooking(d)
      PROVE  holds'[c] = holds[c]
  BY <1>1, CallAlone DEF OthersAlone
<1>2. ASSUME CreateBooking(c)
      PROVE  holds'[c].status # "lost"
  <2> USE CallFacts
  <2>1. ASSUME Inv!Hold(req[c].room, 1, c)
        PROVE  holds'[c].status = "held"
    BY <2>1, RequestFields, HoldServed
  <2>2. ASSUME Inv!Commit(c)
        PROVE  holds'[c].status = "committed"
    BY <2>2, CommitServed DEF Inv!HoldRecord
  <2>3. ASSUME Inv!Release(c)
        PROVE  holds'[c].status = "released"
    BY <2>3, ReleaseServed DEF Inv!HoldRecord
  <2>4. CASE Hold(c) \/ Commit(c) \/ Release(c)
    BY <2>1, <2>2, <2>3, <2>4, RpcEnds DEF RpcMoves, upstream
  <2>5. CASE Authorize(c) \/ Capture(c) \/ Void(c) \/ Refund(c)
    BY <2>5, RpcEnds DEF RpcMoves, upstream
  <2>6. CASE Invoke(c) \/ LockFor(c) \/ Lock(c) \/ ByIdempotencyKey(c) \/ Persist(c)
    BY <2>6 DEF Invoke, LockFor, Lock, ByIdempotencyKey, Persist, upstream
  <2> QED
    BY <1>2, <2>4, <2>5, <2>6 DEF CreateBooking
<1>3. CASE \/ \E d \in Call : ClientGone(d)
           \/ \E p \in Proc : Crash(p)
           \/ PaymentRestart \/ AllDone \/ UNCHANGED vars
  BY <1>3 DEF ClientGone, Crash, PaymentRestart, AllDone, vars, upstream
<1>4. CASE Restock
  BY <1>4, RestockServed DEF Restock, SagaInv
<1>5. ~InventoryRestart
  BY DEF InventoryRestart, Inv!Restart
<1> QED
  BY <1>1, <1>2, <1>3, <1>4, <1>5 DEF Next

\* A refund after the saga is done: it succeeds once, and in full.
LEMMA LateRefund ==
  ASSUME SagaInv, UNCHANGED calls, UNCHANGED <<stock, holds>>,
         NEW c \in Call, pc[c] = "done", Pay!Refund(c, req[c].amount)
  PROVE  /\ SagaInv'
         /\ Charged(c) /\ ~Charged(c)'
         /\ \A d \in Call : d # c => (Charged(d)' <=> Charged(d))
<1> USE CallFacts DEF SagaInv
<1>1. /\ Pay!TypeOK'
      /\ \A d \in Call : d # c => auths'[d] = auths[d]
      /\ auths[c].status = "captured" /\ auths[c].refunded = 0 /\ auths[c].amount > 0
      /\ auths[c].amount = req[c].amount
      /\ auths'[c].status = "captured" /\ auths'[c].amount = auths[c].amount
      /\ auths'[c].refunded = auths[c].amount
      /\ auths'[c].chaosMode = auths[c].chaosMode
  BY RefundServed
<1>2. IP!IInv'
  BY InvConstants, IP!StutterInv DEF IP!vars
<1>3. TablesOK'
  BY <1>1 DEF TablesOK, calls
<1>4. CallsOK'
  <2> SUFFICES ASSUME NEW d \in Call PROVE RecordsOK(d)' /\ ProgressOK(d)'
    BY DEF CallsOK
  <2>1. RecordsOK(d) /\ ProgressOK(d)
    BY DEF CallsOK
  <2>2. CASE d = c
    BY <1>1, <2>1, <2>2 DEF RecordsOK, ProgressOK, MintedAuth, BeforeHold, calls
  <2>3. CASE d # c
    BY <1>1, <2>1, <2>3 DEF RecordsOK, ProgressOK, calls
  <2> QED
    BY <2>2, <2>3
<1>5. StoreOK'
  <2>1. \A d \in Call : auths'[d].status = auths[d].status
    BY <1>1
  <2> QED
    BY <2>1 DEF StoreOK, SlotOK, TablesOK, calls, proc, key
<1>6. Charged(c) /\ ~Charged(c)' /\ \A d \in Call : d # c => (Charged(d)' <=> Charged(d))
  BY <1>1, RequestFields, BookingAssumption DEF Charged
<1> QED
  BY <1>2, <1>3, <1>4, <1>5, <1>6, UpstreamLock

\* A room that goes back after the saga is done.
LEMMA LateReturn ==
  ASSUME SagaInv, UNCHANGED calls, UNCHANGED auths,
         NEW r \in Room, Inv!ReturnStock(r, 1)
  PROVE  /\ SagaInv'
         /\ holds' = holds
         /\ \A k \in Room : stock'[k].sold = IF k = r THEN stock[k].sold - 1
                                                      ELSE stock[k].sold
<1> USE DEF SagaInv
<1>1. holds' = holds /\ stock[r].sold >= 1
  BY InvTypes DEF Inv!ReturnStock, Inv!CanReturn
<1>2. 1 \in IP!Int32
  BY <1>1, InvTypes, InvConstants DEF IP!Int32
<1>3. IP!ReturnStock(r, 1)
  BY SameInventory
<1>4. IP!IInv'
  BY <1>2, <1>3, InvConstants, IP!ReturnStockInv
<1>5. \A k \in Room : stock'[k].sold = IF k = r THEN stock[k].sold - 1 ELSE stock[k].sold
  BY <1>2, <1>3, InvConstants, IP!ReturnFrees
<1>6. TablesOK'
  BY DEF TablesOK, Pay!TypeOK, calls
<1>7. CallsOK'
  BY <1>1 DEF CallsOK, RecordsOK, ProgressOK, calls
<1>8. StoreOK'
  BY <1>1 DEF StoreOK, SlotOK, calls, proc, key
<1> QED
  BY <1>1, <1>4, <1>5, <1>6, <1>7, <1>8, UpstreamLock
=============================================================================
