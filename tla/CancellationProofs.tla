-------------------------- MODULE CancellationProofs --------------------------
(***************************************************************************)
(* Theorems about Cancellation, for any sagas, any number of Cancels and   *)
(* any faults but a restart of inventory.                                  *)
(***************************************************************************)
EXTENDS Cancellation, FiniteSetTheorems, TLAPS

BP == INSTANCE BookingProofs

-----------------------------------------------------------------------------
(* BookingProofs is about the module this one composes.               *)

LEMMA BookingConstants ==
  /\ MaxInt \in Nat
  /\ Room # {} /\ BP!IsFiniteSet(Call)
  /\ Request \subseteq BP!CreateBookingRequest
  /\ Totals \subseteq 0 .. MaxInt
  /\ StoreOf \in [Proc -> Store]
  /\ Postgres \in BOOLEAN
  /\ Faults \subseteq BP!AllFaults
  /\ Call \cap {"none", "failed", "invalid", "dropped", "unmade", "free"} = {}
BY CancellationAssumption
   DEF IsFiniteSet, BP!IsFiniteSet, Booking!CreateBookingRequest, BP!CreateBookingRequest,
       Booking!AllFaults, BP!AllFaults

LEMMA SameUpstreams ==
  /\ \A r, n, c : /\ Booking!Inv!Hold(r, n, c) <=> BP!Inv!Hold(r, n, c)
                  /\ Booking!Inv!CanHold(r, n) <=> BP!Inv!CanHold(r, n)
  /\ \A c : /\ Booking!Inv!Commit(c) <=> BP!Inv!Commit(c)
            /\ Booking!Inv!CanCommit(c) <=> BP!Inv!CanCommit(c)
            /\ Booking!Inv!Release(c) <=> BP!Inv!Release(c)
            /\ Booking!Inv!CanRelease(c) <=> BP!Inv!CanRelease(c)
  /\ \A r, n : /\ Booking!Inv!SetStock(r, n) <=> BP!Inv!SetStock(r, n)
               /\ Booking!Inv!ReturnStock(r, n) <=> BP!Inv!ReturnStock(r, n)
  /\ Booking!Inv!Restart <=> BP!Inv!Restart
  /\ Booking!Inv!Absent = BP!Inv!Absent
<1> USE DEF Booking!Inv!Wrap, BP!Inv!Wrap, Booking!Inv!Open, BP!Inv!Open
<1>1. \A r, n, c : /\ Booking!Inv!Hold(r, n, c) <=> BP!Inv!Hold(r, n, c)
                   /\ Booking!Inv!CanHold(r, n) <=> BP!Inv!CanHold(r, n)
  BY DEF Booking!Inv!Hold, BP!Inv!Hold, Booking!Inv!CanHold, BP!Inv!CanHold,
         Booking!Inv!Available, BP!Inv!Available
<1>2. \A c : /\ Booking!Inv!Commit(c) <=> BP!Inv!Commit(c)
             /\ Booking!Inv!CanCommit(c) <=> BP!Inv!CanCommit(c)
             /\ Booking!Inv!Release(c) <=> BP!Inv!Release(c)
             /\ Booking!Inv!CanRelease(c) <=> BP!Inv!CanRelease(c)
  BY DEF Booking!Inv!Commit, BP!Inv!Commit, Booking!Inv!CanCommit, BP!Inv!CanCommit,
         Booking!Inv!Release, BP!Inv!Release, Booking!Inv!CanRelease, BP!Inv!CanRelease
<1>3. \A r, n : /\ Booking!Inv!SetStock(r, n) <=> BP!Inv!SetStock(r, n)
                /\ Booking!Inv!ReturnStock(r, n) <=> BP!Inv!ReturnStock(r, n)
  BY DEF Booking!Inv!SetStock, BP!Inv!SetStock, Booking!Inv!ReturnStock, BP!Inv!ReturnStock,
         Booking!Inv!CanReturn, BP!Inv!CanReturn
<1>4. Booking!Inv!Absent = BP!Inv!Absent
  BY DEF Booking!Inv!Absent, BP!Inv!Absent
<1>5. Booking!Inv!Restart <=> BP!Inv!Restart
  BY <1>4 DEF Booking!Inv!Restart, BP!Inv!Restart, Booking!Inv!NoStock, BP!Inv!NoStock
<1> QED
  BY <1>1, <1>2, <1>3, <1>4, <1>5

LEMMA SamePayment ==
  /\ \A c, n, t : /\ Booking!Pay!Authorize(c, n, t) <=> BP!Pay!Authorize(c, n, t)
                  /\ Booking!Pay!CanAuthorize(n, t) <=> BP!Pay!CanAuthorize(n, t)
  /\ \A c : /\ Booking!Pay!Capture(c) <=> BP!Pay!Capture(c)
            /\ Booking!Pay!CanCapture(c) <=> BP!Pay!CanCapture(c)
            /\ Booking!Pay!Void(c) <=> BP!Pay!Void(c)
            /\ Booking!Pay!CanVoid(c) <=> BP!Pay!CanVoid(c)
  /\ \A c, n : /\ Booking!Pay!Refund(c, n) <=> BP!Pay!Refund(c, n)
               /\ Booking!Pay!CanRefund(c, n) <=> BP!Pay!CanRefund(c, n)
  /\ Booking!Pay!Restart <=> BP!Pay!Restart
  /\ Booking!Pay!Init <=> BP!Pay!Init
<1> USE DEF Booking!Pay!Wrap, BP!Pay!Wrap, Booking!Pay!NoAuth, BP!Pay!NoAuth
<1>1. \A c, n, t : /\ Booking!Pay!Authorize(c, n, t) <=> BP!Pay!Authorize(c, n, t)
                   /\ Booking!Pay!CanAuthorize(n, t) <=> BP!Pay!CanAuthorize(n, t)
  BY DEF Booking!Pay!Authorize, BP!Pay!Authorize, Booking!Pay!CanAuthorize,
         BP!Pay!CanAuthorize, Booking!Pay!ChaosMode, BP!Pay!ChaosMode
<1>2. \A c : /\ Booking!Pay!Capture(c) <=> BP!Pay!Capture(c)
             /\ Booking!Pay!CanCapture(c) <=> BP!Pay!CanCapture(c)
             /\ Booking!Pay!Void(c) <=> BP!Pay!Void(c)
             /\ Booking!Pay!CanVoid(c) <=> BP!Pay!CanVoid(c)
  BY DEF Booking!Pay!Capture, BP!Pay!Capture, Booking!Pay!CanCapture, BP!Pay!CanCapture,
         Booking!Pay!Void, BP!Pay!Void, Booking!Pay!CanVoid, BP!Pay!CanVoid
<1>3. \A c, n : /\ Booking!Pay!Refund(c, n) <=> BP!Pay!Refund(c, n)
                /\ Booking!Pay!CanRefund(c, n) <=> BP!Pay!CanRefund(c, n)
  BY DEF Booking!Pay!Refund, BP!Pay!Refund, Booking!Pay!CanRefund, BP!Pay!CanRefund
<1>4. Booking!Pay!Restart <=> BP!Pay!Restart
  BY DEF Booking!Pay!Restart, BP!Pay!Restart
<1>5. Booking!Pay!Init <=> BP!Pay!Init
  BY DEF Booking!Pay!Init, BP!Pay!Init
<1> QED
  BY <1>1, <1>2, <1>3, <1>4, <1>5

LEMMA SameCall ==
  ASSUME NEW c \in Call
  PROVE  Booking!CreateBooking(c) <=> BP!CreateBooking(c)
<1> USE SameUpstreams, SamePayment
    DEF Booking!proc, BP!proc, Booking!key, BP!key, Booking!StoredFor, BP!StoredFor,
        Booking!Goto, BP!Goto, Booking!Return, BP!Return, Booking!upstream, BP!upstream
<1>1. Booking!Invoke(c) <=> BP!Invoke(c)
  BY DEF Booking!Invoke, BP!Invoke
<1>2. Booking!LockFor(c) <=> BP!LockFor(c)
  BY DEF Booking!LockFor, BP!LockFor
<1>3. Booking!Lock(c) <=> BP!Lock(c)
  BY DEF Booking!Lock, BP!Lock
<1>4. /\ Booking!ByIdempotencyKey(c) <=> BP!ByIdempotencyKey(c)
      /\ Booking!Persist(c) <=> BP!Persist(c)
  BY DEF Booking!ByIdempotencyKey, BP!ByIdempotencyKey, Booking!Persist, BP!Persist,
         Booking!StoreWorks, BP!StoreWorks, Booking!StoreFails, BP!StoreFails,
         Booking!Insert, BP!Insert
<1> USE DEF Booking!Rpc, BP!Rpc, Booking!ReplyLost, BP!ReplyLost
<1>5. Booking!Hold(c) <=> BP!Hold(c)
  BY DEF Booking!Hold, BP!Hold
<1>6. Booking!Authorize(c) <=> BP!Authorize(c)
  BY DEF Booking!Authorize, BP!Authorize
<1>7. Booking!Capture(c) <=> BP!Capture(c)
  BY DEF Booking!Capture, BP!Capture
<1>8. Booking!Commit(c) <=> BP!Commit(c)
  BY DEF Booking!Commit, BP!Commit
<1>9. Booking!Void(c) <=> BP!Void(c)
  BY DEF Booking!Void, BP!Void
<1>10. Booking!Release(c) <=> BP!Release(c)
  BY DEF Booking!Release, BP!Release
<1>11. Booking!Refund(c) <=> BP!Refund(c)
  BY DEF Booking!Refund, BP!Refund
<1> QED
  BY <1>1, <1>2, <1>3, <1>4, <1>5, <1>6, <1>7, <1>8, <1>9, <1>10, <1>11
  DEF Booking!CreateBooking, BP!CreateBooking

LEMMA SameBooking ==
  /\ Booking!Init <=> BP!Init
  /\ Booking!Next <=> BP!Next
  /\ BP!vars = bookingVars
  /\ Booking!TypeOK <=> BP!TypeOK
  /\ Booking!Bookings = BP!Bookings
  /\ \A c : Booking!Charged(c) <=> BP!Charged(c)
<1>1. Booking!Init <=> BP!Init
  BY SameUpstreams, SamePayment DEF Booking!Init, BP!Init
<1>2. Booking!Next <=> BP!Next
  <2>1. \A c \in Call : /\ Booking!CreateBooking(c) <=> BP!CreateBooking(c)
                        /\ Booking!ClientGone(c) <=> BP!ClientGone(c)
    BY SameCall DEF Booking!ClientGone, BP!ClientGone, Booking!Active, BP!Active,
                    Booking!upstream, BP!upstream
  <2>2. \A p \in Proc : Booking!Crash(p) <=> BP!Crash(p)
    BY DEF Booking!Crash, BP!Crash, Booking!Active, BP!Active, Booking!proc, BP!proc,
           Booking!upstream, BP!upstream
  <2>3. /\ Booking!InventoryRestart <=> BP!InventoryRestart
        /\ Booking!Restock <=> BP!Restock
        /\ Booking!PaymentRestart <=> BP!PaymentRestart
        /\ Booking!AllDone <=> BP!AllDone
    BY SameUpstreams, SamePayment
    DEF Booking!InventoryRestart, BP!InventoryRestart, Booking!Restock, BP!Restock,
        Booking!PaymentRestart, BP!PaymentRestart, Booking!AllDone, BP!AllDone,
        Booking!vars, BP!vars
  <2> QED
    BY <2>1, <2>2, <2>3 DEF Booking!Next, BP!Next
<1>3. BP!vars = bookingVars
  BY DEF BP!vars, bookingVars
<1>4. Booking!TypeOK <=> BP!TypeOK
  BY DEF Booking!TypeOK, BP!TypeOK, Booking!Inv!TypeOK, BP!Inv!TypeOK,
         Booking!Inv!StockRecord, BP!Inv!StockRecord, Booking!Inv!HoldRecord,
         BP!Inv!HoldRecord, Booking!Inv!Int32, BP!Inv!Int32, Booking!Pay!TypeOK,
         BP!Pay!TypeOK, Booking!Pay!Authorization, BP!Pay!Authorization,
         Booking!Pay!Amount, BP!Pay!Amount, Booking!Step, BP!Step,
         Booking!SagaStep, BP!SagaStep
<1>5. Booking!Bookings = BP!Bookings
  BY DEF Booking!Bookings, BP!Bookings
<1>6. \A c : Booking!Charged(c) <=> BP!Charged(c)
  BY DEF Booking!Charged, BP!Charged
<1> QED
  BY <1>1, <1>2, <1>3, <1>4, <1>5, <1>6

-----------------------------------------------------------------------------
(* A booking is refunded once, whatever fails.                             *)

\* Cancel x has found its booking; Cancel x has refunded it (and will return
\* its room, or has).
Found(x) == step[x] \in {"refund", "returnStock"} \/ answer[x] = "ok"
Refunded(x) == step[x] = "returnStock" \/ answer[x] = "ok"

CancelTypes ==
  /\ target \in [Cancel -> CancelRequest]
  /\ step \in [Cancel -> {"idle", "getBooking", "refund", "returnStock", "done"}]
  /\ answer \in [Cancel -> {"none", "ok", "invalid", "not_found", "failed"}]

\* A Cancel works on a booking that was given out, hence on a saga that is
\* done, and its refund leaves nothing to refund.
CancelOK(x) ==
  /\ step[x] = "getBooking" => target[x] \in Call
  /\ Found(x) => target[x] \in Call /\ pc[target[x]] = "done"
  /\ Refunded(x) => ~BP!Charged(target[x])
  /\ step[x] # "done" => answer[x] = "none"

RefundedOnce ==
  \A x, y \in Cancel : Refunded(x) /\ Refunded(y) /\ target[x] = target[y] => x = y

CancelInv == /\ BP!SagaInv
             /\ CancelTypes
             /\ \A x \in Cancel : CancelOK(x)
             /\ RefundedOnce

\* The step that Cancel x goes to and what it has been told.
Moves(x, s, told) ==
  /\ step[x] # "done"
  /\ step' = [step EXCEPT ![x] = s]
  /\ answer' = [answer EXCEPT ![x] = told]
  /\ UNCHANGED target

GivesUp(x) == \E told \in {"invalid", "not_found", "failed"} : Moves(x, "done", told)

\* The refund, and the return of the room, as inventory and payment serve them.
RefundServed(x) ==
  /\ BP!Pay!Refund(target[x], req[target[x]].amount)
  /\ UNCHANGED <<stock, holds>>

ReturnServed(x) ==
  /\ BP!Inv!ReturnStock(req[target[x]].room, 1)
  /\ UNCHANGED auths

LEMMA CancelMoves ==
  ASSUME CancelTypes, NEW x \in Cancel, CancelOK(x),
         Invoke(x) \/ GetBooking(x) \/ Refund(x) \/ ReturnStock(x)
  PROVE  /\ UNCHANGED BP!calls
         /\ \/ UNCHANGED upstream /\ GivesUp(x)
            \/ /\ step[x] = "idle" /\ target[x] \in Call
               /\ UNCHANGED upstream /\ Moves(x, "getBooking", "none")
            \/ /\ step[x] = "getBooking"
               /\ \E s \in Store, k \in IdemKey : store[s][k] = target[x]
               /\ UNCHANGED upstream /\ Moves(x, "refund", "none")
            \/ /\ step[x] = "refund" /\ RefundServed(x)
               /\ GivesUp(x) \/ Moves(x, "returnStock", "none")
            \/ /\ step[x] = "returnStock" /\ ReturnServed(x)
               /\ GivesUp(x) \/ Moves(x, "done", "ok")
<1>1. /\ step[x] # "done" => answer[x] = "none"
      /\ answer[x] = "none" => answer = [answer EXCEPT ![x] = "none"]
  BY DEF CancelTypes, CancelOK
<1> USE DEF BP!calls, Moves, GivesUp, upstream, GetBookingResponse
<1>2. CASE Invoke(x)
  BY <1>1, <1>2 DEF Invoke, Goto, Return, bookingVars, CancelTypes, CancelRequest
<1>3. CASE GetBooking(x)
  BY <1>1, <1>3 DEF GetBooking, Goto, Return, bookingVars
<1>4. CASE Refund(x)
  BY <1>1, <1>4, SamePayment DEF Refund, Rpc, Goto, Return, RefundServed
<1>5. CASE ReturnStock(x)
  BY <1>1, <1>5, SameUpstreams DEF ReturnStock, Rpc, Return, ReturnServed
<1> QED
  BY <1>2, <1>3, <1>4, <1>5

LEMMA CancelInit == Init => CancelInv
<1> SUFFICES ASSUME Init PROVE CancelInv
  OBVIOUS
<1>1. BP!SagaInv
  BY BookingConstants, SameBooking, BP!InitSaga DEF Init
<1>2. CancelTypes
  BY DEF Init, CancelTypes
<1>3. \A x \in Cancel : step[x] = "idle" /\ answer[x] = "none"
  BY DEF Init
<1> QED
  BY <1>1, <1>2, <1>3 DEF CancelInv, CancelOK, RefundedOnce, Found, Refunded

\* A booking step leaves the bookings that are being cancelled alone.
LEMMA BookingStepCancel ==
  ASSUME CancelInv, [BP!Next]_BP!vars, UNCHANGED <<target, step, answer>>
  PROVE  CancelInv'
<1> USE BookingConstants DEF CancelInv
<1>1. BP!SagaInv'
  BY BP!NextSaga
<1>2. \A c \in Call : pc[c] = "done" => pc'[c] = "done" /\ (BP!Charged(c)' => BP!Charged(c))
  BY BP!DoneAlone, BP!StepCharges
<1>3. CancelTypes'
  BY DEF CancelTypes
<1>4. \A x \in Cancel : CancelOK(x)'
  <2> SUFFICES ASSUME NEW x \in Cancel PROVE CancelOK(x)'
    OBVIOUS
  <2>1. CancelOK(x) /\ (Found(x)' <=> Found(x)) /\ (Refunded(x)' <=> Refunded(x))
    BY DEF Found, Refunded
  <2>2. Refunded(x) => Found(x)
    BY DEF Found, Refunded
  <2>3. Found(x) => /\ target'[x] \in Call /\ pc'[target'[x]] = "done"
                    /\ BP!Charged(target[x])' => BP!Charged(target[x])
    BY <1>2, <2>1 DEF CancelOK
  <2> QED
    BY <2>1, <2>2, <2>3 DEF CancelOK
<1>5. RefundedOnce'
  BY DEF RefundedOnce, Refunded
<1> QED
  BY <1>1, <1>3, <1>4, <1>5

\* What a step of Cancel x does to the sagas: nothing but that the refund it
\* makes is the first one of its booking, and the last.
LEMMA CancelUpstream ==
  ASSUME CancelInv, NEW x \in Cancel, UNCHANGED BP!calls,
         \/ UNCHANGED upstream
         \/ step[x] = "refund" /\ RefundServed(x)
         \/ step[x] = "returnStock" /\ ReturnServed(x)
  PROVE  /\ BP!SagaInv'
         /\ holds' = holds
         /\ \A c \in Call : BP!Charged(c)' => BP!Charged(c)
         /\ \A b \in Call : step[x] = "refund" /\ RefundServed(x) /\ b = target[x] =>
              BP!Charged(b) /\ ~BP!Charged(b)'
         /\ step[x] = "returnStock" /\ ReturnServed(x) => auths' = auths
<1> USE BookingConstants DEF CancelInv
<1>1. CASE UNCHANGED upstream
  <2>1. UNCHANGED BP!vars
    BY <1>1 DEF BP!vars, BP!calls, upstream
  <2>2. BP!SagaInv' /\ holds' = holds /\ auths' = auths
    BY <1>1, <2>1, BP!NextSaga DEF upstream
  <2>3. \A c \in Call : BP!Charged(c)' <=> BP!Charged(c)
    BY <2>2 DEF BP!Charged
  <2>4. ~(step[x] = "refund" /\ RefundServed(x))
    <3> SUFFICES ASSUME step[x] = "refund", RefundServed(x) PROVE FALSE
      OBVIOUS
    <3>1. PICK b \in Call : b = target[x] /\ pc[b] = "done"
      BY DEF CancelOK, Found
    <3>2. BP!Pay!Refund(b, req[b].amount) /\ UNCHANGED <<stock, holds>>
      BY <3>1 DEF RefundServed
    <3>3. BP!Charged(b) /\ ~BP!Charged(b)'
      BY <3>1, <3>2, BP!LateRefund
    <3> QED
      BY <2>3, <3>3
  <2> QED
    BY <2>2, <2>3, <2>4
<1>2. CASE step[x] = "refund" /\ RefundServed(x)
  <2>1. PICK b \in Call : b = target[x] /\ pc[b] = "done"
    BY <1>2 DEF CancelOK, Found
  <2>2. BP!Pay!Refund(b, req[b].amount) /\ UNCHANGED <<stock, holds>>
    BY <1>2, <2>1 DEF RefundServed
  <2>3. /\ BP!SagaInv'
        /\ BP!Charged(b) /\ ~BP!Charged(b)'
        /\ \A d \in Call : d # b => (BP!Charged(d)' <=> BP!Charged(d))
    BY <2>1, <2>2, BP!LateRefund
  <2>4. \A c \in Call : BP!Charged(c)' => BP!Charged(c)
    BY <2>3
  <2> QED
    BY <1>2, <2>1, <2>2, <2>3, <2>4
<1>3. CASE step[x] = "returnStock" /\ ReturnServed(x)
  <2>1. target[x] \in Call
    BY <1>3 DEF CancelOK, Found
  <2>2. req[target[x]].room \in Room
    BY <2>1, BP!RequestFields DEF BP!SagaInv, BP!LockInv
  <2>3. BP!SagaInv' /\ holds' = holds /\ auths' = auths
    BY <1>3, <2>2, BP!LateReturn DEF ReturnServed
  <2>4. \A c \in Call : BP!Charged(c)' <=> BP!Charged(c)
    BY <2>3 DEF BP!Charged
  <2> QED
    BY <1>3, <2>3, <2>4
<1> QED
  BY <1>1, <1>2, <1>3

\* A booking that GetBooking finds is one whose saga is done.
LEMMA FoundIsDone ==
  ASSUME BP!SagaInv, NEW b \in Call, \E s \in Store, k \in IdemKey : store[s][k] = b
  PROVE  pc[b] = "done" /\ holds[b].status \in {"committed", "lost"}
<1>1. b # "none"
  BY CancellationAssumption
<1> QED
  BY <1>1 DEF BP!SagaInv, BP!StoreOK, BP!SlotOK

LEMMA CancelStepCancel ==
  ASSUME CancelInv, NEW x \in Cancel,
         Invoke(x) \/ GetBooking(x) \/ Refund(x) \/ ReturnStock(x)
  PROVE  CancelInv'
<1> USE DEF CancelInv
<1>1. /\ UNCHANGED BP!calls
      /\ \/ UNCHANGED upstream /\ GivesUp(x)
         \/ /\ step[x] = "idle" /\ target[x] \in Call
            /\ UNCHANGED upstream /\ Moves(x, "getBooking", "none")
         \/ /\ step[x] = "getBooking"
            /\ \E s \in Store, k \in IdemKey : store[s][k] = target[x]
            /\ UNCHANGED upstream /\ Moves(x, "refund", "none")
         \/ /\ step[x] = "refund" /\ RefundServed(x)
            /\ GivesUp(x) \/ Moves(x, "returnStock", "none")
         \/ /\ step[x] = "returnStock" /\ ReturnServed(x)
            /\ GivesUp(x) \/ Moves(x, "done", "ok")
  BY CancelMoves
<1>2. /\ BP!SagaInv'
      /\ \A c \in Call : BP!Charged(c)' => BP!Charged(c)
      /\ \A b \in Call : step[x] = "refund" /\ RefundServed(x) /\ b = target[x] =>
           BP!Charged(b) /\ ~BP!Charged(b)'
  BY <1>1, CancelUpstream
<1>3. PICK s \in {"getBooking", "refund", "returnStock", "done"},
           told \in {"none", "ok", "invalid", "not_found", "failed"} : Moves(x, s, told)
  BY <1>1 DEF GivesUp
<1>4. CancelTypes'
  BY <1>3 DEF CancelTypes, Moves
<1>5. /\ pc' = pc /\ target' = target
      /\ step'[x] = s /\ answer'[x] = told
      /\ \A y \in Cancel : y # x => step'[y] = step[y] /\ answer'[y] = answer[y]
  BY <1>1, <1>3 DEF CancelTypes, Moves, BP!calls
<1>6. \A y \in Cancel : y # x => (Found(y)' <=> Found(y)) /\ (Refunded(y)' <=> Refunded(y))
  BY <1>5 DEF Found, Refunded
<1>7. \A y \in Cancel : CancelOK(y) /\ (Refunded(y) => Found(y))
  BY DEF Found, Refunded
<1>8. Refunded(x)' => Refunded(x) \/ (step[x] = "refund" /\ RefundServed(x))
  BY <1>1, <1>5 DEF Refunded, Moves, GivesUp, CancelTypes
<1>9. \A y \in Cancel : CancelOK(y)'
  <2> SUFFICES ASSUME NEW y \in Cancel PROVE CancelOK(y)'
    OBVIOUS
  <2>1. Found(y)' => target[y] \in Call /\ pc[target[y]] = "done"
    <3>1. CASE y = x
      <4>1. Found(x)' => \/ Found(x)
                         \/ /\ step[x] = "getBooking"
                            /\ \E i \in Store, k \in IdemKey : store[i][k] = target[x]
        BY <1>1, <1>5 DEF Found, Moves, GivesUp, CancelTypes
      <4> QED
        BY <1>7, <3>1, <4>1, FoundIsDone DEF CancelOK
    <3>2. CASE y # x
      BY <1>6, <1>7, <3>2 DEF CancelOK
    <3> QED
      BY <3>1, <3>2
  <2>2. Refunded(y)' => Found(y)'
    BY DEF Found, Refunded
  <2>3. \A b \in Call : Refunded(y)' /\ b = target[y] => ~BP!Charged(b)'
    BY <1>2, <1>6, <1>7, <1>8 DEF CancelOK
  <2>4. Refunded(y)' => ~BP!Charged(target[y])'
    <3> SUFFICES ASSUME Refunded(y)' PROVE ~BP!Charged(target[y])'
      OBVIOUS
    <3>1. PICK b \in Call : b = target[y]
      BY <2>1, <2>2
    <3>2. ~BP!Charged(b)' /\ target'[y] = b
      BY <1>5, <2>3, <3>1
    <3> QED
      BY <3>2 DEF BP!Charged
  <2>5. /\ step'[y] = "getBooking" => target[y] \in Call
        /\ step'[y] # "done" => answer'[y] = "none"
    <3>1. CASE y = x
      BY <1>1, <1>5, <3>1 DEF Moves, GivesUp, CancelTypes
    <3>2. CASE y # x
      BY <1>5, <1>7, <3>2 DEF CancelOK
    <3> QED
      BY <3>1, <3>2
  <2> QED
    BY <1>5, <2>1, <2>2, <2>4, <2>5 DEF CancelOK
<1>10. RefundedOnce'
  <2> SUFFICES ASSUME NEW y \in Cancel, y # x, Refunded(y)', Refunded(x)', target[y] = target[x]
               PROVE  FALSE
    BY <1>5, <1>6 DEF RefundedOnce
  <2>1. Refunded(y) /\ ~BP!Charged(target[y]) /\ target[y] \in Call
    BY <1>6, <1>7 DEF CancelOK
  <2> QED
    BY <1>2, <1>8, <2>1 DEF RefundedOnce
<1> QED
  BY <1>2, <1>4, <1>9, <1>10

LEMMA NextCancel ==
  ASSUME CancelInv, [Next]_vars
  PROVE  CancelInv'
<1>1. ASSUME NEW x \in Cancel, Invoke(x) \/ GetBooking(x) \/ Refund(x) \/ ReturnStock(x)
      PROVE  CancelInv'
  BY <1>1, CancelStepCancel
<1>2. CASE Booking!Next /\ UNCHANGED <<target, step, answer>>
  BY <1>2, SameBooking, BookingStepCancel
<1>3. CASE UNCHANGED vars
  <2>1. UNCHANGED BP!vars /\ UNCHANGED <<target, step, answer>>
    BY <1>3 DEF vars, bookingVars, BP!vars
  <2> QED
    BY <2>1, BookingStepCancel
<1> QED
  BY <1>1, <1>2, <1>3 DEF Next

\* Cancels keep what the sagas rely on, whatever fails, and the other way round.
THEOREM CancelDiscipline == Spec => []CancelInv
<1>1. CancelInv /\ [Next]_vars => CancelInv'
  BY NextCancel
<1> QED
  BY <1>1, CancelInit, PTL DEF Spec

\* The state of the composition keeps its types.
THEOREM TypeCorrect == Spec => []TypeOK
<1>1. CancelInv => TypeOK
  <2> SUFFICES ASSUME CancelInv PROVE TypeOK
    OBVIOUS
  <2>1. BP!TypeOK
    BY BookingConstants, BP!InvTypes
    DEF CancelInv, BP!SagaInv, BP!TypeOK, BP!TablesOK, BP!LockInv, BP!ControlType
  <2> QED
    BY <2>1, SameBooking DEF CancelInv, CancelTypes, TypeOK
<1> QED
  BY <1>1, CancelDiscipline, PTL

\* Two Cancels of one booking that race, or retry, are not both told it
\* worked: the payment provider refunds a payment once.
THEOREM OnceOnly == Spec => []CancelledOnce
<1>1. CancelInv => CancelledOnce
  BY SameBooking DEF CancelInv, CancelOK, RefundedOnce, Refunded, CancelledOnce
<1> QED
  BY <1>1, CancelDiscipline, PTL

-----------------------------------------------------------------------------
(* What is sold, as long as inventory does not forget it.                  *)

\* The committed rooms of type r that are paid for.
Kept(r) == {c \in CommittedFor(r) : BP!Charged(c)}

NothingLost == \A c \in Call : holds[c].status # "lost"

FoundCommitted == \A x \in Cancel : Found(x) => target[x] \in CommittedFor(req[target[x]].room)

SoldCovers ==
  \A r \in Room : stock[r].sold >= Cardinality(Kept(r)) + Cardinality(Returning(r))

RoomsInv == NothingLost /\ FoundCommitted /\ SoldCovers /\ CancelReturnsRoom

LEMMA Counted ==
  ASSUME NEW r \in Room
  PROVE  /\ IsFiniteSet(CommittedFor(r)) /\ Cardinality(CommittedFor(r)) \in Nat
         /\ IsFiniteSet(Kept(r)) /\ Cardinality(Kept(r)) \in Nat
         /\ IsFiniteSet(Returning(r)) /\ Cardinality(Returning(r)) \in Nat
         /\ IsFiniteSet(CancelledFor(r)) /\ Cardinality(CancelledFor(r)) \in Nat
<1>1. /\ CommittedFor(r) \in SUBSET Call /\ Kept(r) \in SUBSET Call
      /\ Returning(r) \in SUBSET Cancel /\ CancelledFor(r) \in SUBSET Cancel
  BY DEF CommittedFor, Kept, Returning, CancelledFor
<1> QED
  BY <1>1, CancellationAssumption, FS_Subset, FS_CardinalityType

\* The sold counters are natural numbers.
LEMMA SoldType ==
  ASSUME BP!SagaInv, NEW r \in Room
  PROVE  stock[r].sold \in Nat
BY BookingConstants, BP!InvTypes DEF BP!SagaInv

LEMMA RoomsInit ==
  ASSUME Init
  PROVE  RoomsInv
<1>1. /\ \A c \in Call : holds[c].status = "absent"
      /\ \A x \in Cancel : step[x] = "idle" /\ answer[x] = "none"
      /\ \A r \in Room : stock[r].sold = 0
  BY DEF Init, Booking!Init, Booking!Inv!Absent
<1>2. \A r \in Room : /\ CommittedFor(r) = {} /\ Kept(r) = {}
                      /\ Returning(r) = {} /\ CancelledFor(r) = {}
  BY <1>1 DEF CommittedFor, Kept, Returning, CancelledFor
<1>3. SoldCovers /\ CancelReturnsRoom
  <2>1. Cardinality({}) = 0
    BY FS_EmptySet
  <2>2. \A r \in Room : /\ Cardinality(CommittedFor(r)) = 0 /\ Cardinality(Kept(r)) = 0
                        /\ Cardinality(Returning(r)) = 0 /\ Cardinality(CancelledFor(r)) = 0
    BY <1>2, <2>1, Zenon
  <2> QED
    BY <1>1, <2>2 DEF SoldCovers, CancelReturnsRoom
<1>4. NothingLost /\ FoundCommitted
  BY <1>1 DEF NothingLost, FoundCommitted, Found
<1> QED
  BY <1>3, <1>4 DEF RoomsInv

\* A step of the sagas sells a room with every charge that it makes good.
LEMMA BookingStepRooms ==
  ASSUME CancelInv, RoomsInv, "inventory_restart" \notin Faults,
         [BP!Next]_BP!vars, UNCHANGED <<target, step, answer>>
  PROVE  RoomsInv'
<1> USE BookingConstants DEF CancelInv, RoomsInv
<1>1. /\ req' = req
      /\ BP!SoldNothing \/ \E c \in Call : BP!SoldOne(c)
  BY BP!StepSells DEF BP!SoldLost
<1>2. NothingLost'
  BY BP!HoldsKept DEF NothingLost
<1>3. \A c \in Call : holds[c].status = "committed" => holds'[c].status = "committed"
  BY <1>1 DEF BP!SoldNothing, BP!SoldOne
<1>4. FoundCommitted'
  BY <1>1, <1>3 DEF FoundCommitted, Found, CommittedFor
<1>5. \A c \in Call : holds[c].status = "committed" /\ BP!Charged(c)' => BP!Charged(c)
  <2> SUFFICES ASSUME NEW c \in Call, holds[c].status = "committed", BP!Charged(c)'
               PROVE  BP!Charged(c)
    OBVIOUS
  <2>1. pc[c] # "capture"
    BY DEF BP!SagaInv, BP!CallsOK, BP!ProgressOK
  <2> QED
    BY <2>1, BP!StepCharges
<1>6. ASSUME NEW r \in Room
      PROVE  /\ stock'[r].sold >= Cardinality(Kept(r)') + Cardinality(Returning(r)')
             /\ stock'[r].sold <= Cardinality(CommittedFor(r)') - Cardinality(CancelledFor(r)')
  <2>1. Returning(r)' = Returning(r) /\ CancelledFor(r)' = CancelledFor(r)
    BY <1>1 DEF Returning, CancelledFor
  <2>2. /\ stock[r].sold >= Cardinality(Kept(r)) + Cardinality(Returning(r))
        /\ stock[r].sold <= Cardinality(CommittedFor(r)) - Cardinality(CancelledFor(r))
        /\ stock[r].sold \in Nat
    BY SoldType DEF SoldCovers, CancelReturnsRoom
  <2>3. CASE BP!SoldNothing
    <3>1. CommittedFor(r)' = CommittedFor(r) /\ stock'[r].sold = stock[r].sold
      BY <1>1, <2>3 DEF BP!SoldNothing, CommittedFor
    <3>2. Kept(r)' \subseteq Kept(r)
      BY <1>5, <3>1 DEF Kept, CommittedFor
    <3>3. Cardinality(Kept(r)') <= Cardinality(Kept(r)) /\ Cardinality(Kept(r)') \in Nat
      BY <3>2, Counted, FS_Subset, FS_CardinalityType
    <3> QED
      BY <2>1, <2>2, <3>1, <3>3, Counted
  <2>4. ASSUME NEW c \in Call, BP!SoldOne(c), req[c].room # r
        PROVE  /\ stock'[r].sold >= Cardinality(Kept(r)') + Cardinality(Returning(r)')
               /\ stock'[r].sold <= Cardinality(CommittedFor(r)') - Cardinality(CancelledFor(r)')
    <3>1. CommittedFor(r)' = CommittedFor(r) /\ stock'[r].sold = stock[r].sold
      BY <1>1, <2>4 DEF BP!SoldOne, CommittedFor
    <3>2. Kept(r)' \subseteq Kept(r)
      BY <1>5, <3>1 DEF Kept, CommittedFor
    <3>3. Cardinality(Kept(r)') <= Cardinality(Kept(r)) /\ Cardinality(Kept(r)') \in Nat
      BY <3>2, Counted, FS_Subset, FS_CardinalityType
    <3> QED
      BY <2>1, <2>2, <3>1, <3>3, Counted
  <2>5. ASSUME NEW c \in Call, BP!SoldOne(c), req[c].room = r
        PROVE  /\ stock'[r].sold >= Cardinality(Kept(r)') + Cardinality(Returning(r)')
               /\ stock'[r].sold <= Cardinality(CommittedFor(r)') - Cardinality(CancelledFor(r)')
    <3>1. /\ CommittedFor(r)' = CommittedFor(r) \cup {c} /\ c \notin CommittedFor(r)
          /\ stock'[r].sold = stock[r].sold + 1
      BY <1>1, <2>5 DEF BP!SoldOne, CommittedFor
    <3>2. Kept(r)' \subseteq Kept(r) \cup {c}
      BY <1>5, <3>1 DEF Kept, CommittedFor
    <3>3. /\ IsFiniteSet(Kept(r) \cup {c})
          /\ Cardinality(Kept(r) \cup {c}) <= Cardinality(Kept(r)) + 1
          /\ Cardinality(Kept(r) \cup {c}) \in Nat
      <4> DEFINE S == Kept(r)
      <4>1. IsFiniteSet(S) /\ Cardinality(S) \in Nat
        BY Counted
      <4> HIDE DEF S
      <4>2. /\ IsFiniteSet(S \cup {c})
            /\ Cardinality(S \cup {c}) = IF c \in S THEN Cardinality(S) ELSE Cardinality(S) + 1
        BY <4>1, FS_AddElement
      <4> QED
        BY <4>1, <4>2 DEF S
    <3>4. /\ Cardinality(Kept(r)') <= Cardinality(Kept(r) \cup {c})
          /\ Cardinality(Kept(r)') \in Nat
      BY <3>2, <3>3, FS_Subset, FS_CardinalityType
    <3>5. Cardinality(CommittedFor(r)') = Cardinality(CommittedFor(r)) + 1
      BY <3>1, Counted, FS_AddElement
    <3> QED
      BY <2>1, <2>2, <3>1, <3>3, <3>4, <3>5, Counted
  <2> QED
    BY <1>1, <2>3, <2>4, <2>5
<1> QED
  BY <1>2, <1>4, <1>6 DEF SoldCovers, CancelReturnsRoom

\* What a step of Cancel x does to the sets that are counted, besides the
\* room that x itself is about.
LEMMA CancelStepRooms ==
  ASSUME CancelInv, RoomsInv, NEW x \in Cancel,
         Invoke(x) \/ GetBooking(x) \/ Refund(x) \/ ReturnStock(x)
  PROVE  RoomsInv'
<1> USE DEF CancelInv, RoomsInv
<1>1. /\ UNCHANGED BP!calls
      /\ \/ UNCHANGED upstream /\ GivesUp(x)
         \/ /\ step[x] = "idle" /\ target[x] \in Call
            /\ UNCHANGED upstream /\ Moves(x, "getBooking", "none")
         \/ /\ step[x] = "getBooking"
            /\ \E s \in Store, k \in IdemKey : store[s][k] = target[x]
            /\ UNCHANGED upstream /\ Moves(x, "refund", "none")
         \/ /\ step[x] = "refund" /\ RefundServed(x)
            /\ GivesUp(x) \/ Moves(x, "returnStock", "none")
         \/ /\ step[x] = "returnStock" /\ ReturnServed(x)
            /\ GivesUp(x) \/ Moves(x, "done", "ok")
  BY CancelMoves
<1>2. /\ BP!SagaInv' /\ holds' = holds
      /\ \A c \in Call : BP!Charged(c)' => BP!Charged(c)
      /\ \A b \in Call : step[x] = "refund" /\ RefundServed(x) /\ b = target[x] =>
           BP!Charged(b) /\ ~BP!Charged(b)'
  BY <1>1, CancelUpstream
<1>3. /\ req' = req /\ target' = target
      /\ \A y \in Cancel : y # x => step'[y] = step[y] /\ answer'[y] = answer[y]
  BY <1>1 DEF Moves, GivesUp, CancelTypes, BP!calls
<1>4. CancelOK(x) /\ (Found(x) => target[x] \in Call)
  BY DEF CancelOK
<1>5. NothingLost'
  BY <1>2 DEF NothingLost
<1>6. FoundCommitted'
  <2> SUFFICES ASSUME NEW y \in Cancel, Found(y)'
               PROVE  target[y] \in CommittedFor(req[target[y]].room)
    BY <1>2, <1>3 DEF FoundCommitted, CommittedFor
  <2>1. CASE Found(y)
    BY <2>1 DEF FoundCommitted
  <2>2. CASE ~Found(y)
    <3>1. y = x
      BY <1>3, <2>2 DEF Found
    <3>2. /\ step[x] = "getBooking"
          /\ \E s \in Store, k \in IdemKey : store[s][k] = target[x]
      BY <1>1, <2>2, <3>1 DEF Found, Moves, GivesUp, CancelTypes
    <3>3. target[x] \in Call /\ holds[target[x]].status \in {"committed", "lost"}
      BY <1>4, <3>2, FoundIsDone DEF CancelOK
    <3> QED
      BY <3>1, <3>3 DEF NothingLost, CommittedFor
  <2> QED
    BY <2>1, <2>2
<1>7. ASSUME NEW r \in Room
      PROVE  /\ stock'[r].sold >= Cardinality(Kept(r)') + Cardinality(Returning(r)')
             /\ stock'[r].sold <= Cardinality(CommittedFor(r)') - Cardinality(CancelledFor(r)')
  <2>1. /\ stock[r].sold >= Cardinality(Kept(r)) + Cardinality(Returning(r))
        /\ stock[r].sold <= Cardinality(CommittedFor(r)) - Cardinality(CancelledFor(r))
        /\ stock[r].sold \in Nat
    BY SoldType DEF SoldCovers, CancelReturnsRoom
  <2>2. CommittedFor(r)' = CommittedFor(r) /\ Kept(r)' \subseteq Kept(r)
    BY <1>2, <1>3 DEF CommittedFor, Kept
  <2>3. Cardinality(Kept(r)') <= Cardinality(Kept(r)) /\ Cardinality(Kept(r)') \in Nat
    BY <2>2, Counted, FS_Subset, FS_CardinalityType
  <2>4. CASE stock'[r] = stock[r] /\ step'[x] # "returnStock" /\ answer'[x] # "ok"
    <3>1. Returning(r)' \subseteq Returning(r) /\ CancelledFor(r)' \subseteq CancelledFor(r)
      BY <1>3, <2>4 DEF Returning, CancelledFor
    <3>2. /\ Cardinality(Returning(r)') <= Cardinality(Returning(r))
          /\ Cardinality(Returning(r)') \in Nat
      BY <3>1, Counted, FS_Subset, FS_CardinalityType
    <3>3. /\ Cardinality(CancelledFor(r)') <= Cardinality(CancelledFor(r))
          /\ Cardinality(CancelledFor(r)') \in Nat
      BY <3>1, Counted, FS_Subset, FS_CardinalityType
    <3> QED
      BY <2>1, <2>2, <2>3, <2>4, <3>2, <3>3, Counted
  <2>5. CASE step[x] = "refund" /\ RefundServed(x) /\ Moves(x, "returnStock", "none")
    <3>1. stock' = stock /\ step'[x] = "returnStock" /\ answer'[x] = "none"
      BY <2>5 DEF RefundServed, Moves, CancelTypes
    <3>2. CancelledFor(r)' = CancelledFor(r)
      BY <1>3, <1>4, <2>5, <3>1 DEF CancelledFor, CancelOK
    <3>3. CASE req[target[x]].room # r
      <4>1. Returning(r)' = Returning(r)
        BY <1>3, <3>3 DEF Returning
      <4> QED
        BY <2>1, <2>2, <2>3, <3>1, <3>2, <4>1, Counted
    <3>4. CASE req[target[x]].room = r
      <4>1. PICK b \in Call : b = target[x]
        BY <1>4, <2>5 DEF Found
      <4>2. BP!Charged(b) /\ ~BP!Charged(b)'
        BY <1>2, <2>5, <4>1
      <4>3. b \in Kept(r) /\ b \notin Kept(r)'
        BY <2>5, <3>4, <4>1, <4>2 DEF FoundCommitted, Found, Kept
      <4>4. Kept(r)' \subseteq Kept(r) \ {b}
        BY <2>2, <4>3
      <4>5. /\ IsFiniteSet(Kept(r) \ {b})
            /\ Cardinality(Kept(r) \ {b}) = Cardinality(Kept(r)) - 1
        BY <4>3, Counted, FS_RemoveElement
      <4>6. Cardinality(Kept(r)') <= Cardinality(Kept(r)) - 1
        BY <4>4, <4>5, FS_Subset
      <4>7. Returning(r)' = Returning(r) \cup {x} /\ x \notin Returning(r)
        BY <1>3, <2>5, <3>1, <3>4 DEF Returning
      <4>8. Cardinality(Returning(r)') = Cardinality(Returning(r)) + 1
        BY <4>7, Counted, FS_AddElement
      <4> QED
        BY <2>1, <2>2, <2>3, <3>1, <3>2, <4>6, <4>8, Counted
    <3> QED
      BY <3>3, <3>4
  <2>6. CASE /\ step[x] = "returnStock" /\ ReturnServed(x)
             /\ GivesUp(x) \/ Moves(x, "done", "ok")
    <3>1. req[target[x]].room \in Room
      BY <1>4, <2>6, BookingConstants, BP!RequestFields DEF Found, BP!SagaInv, BP!LockInv
    <3>2. stock'[r].sold = IF r = req[target[x]].room THEN stock[r].sold - 1 ELSE stock[r].sold
      BY <1>1, <2>6, <3>1, BookingConstants, BP!LateReturn DEF ReturnServed
    <3>3. step'[x] = "done" /\ answer[x] = "none"
      BY <1>4, <2>6 DEF CancelOK, Moves, GivesUp, CancelTypes
    <3>4. CASE req[target[x]].room # r
      <4>1. Returning(r)' = Returning(r) /\ CancelledFor(r)' = CancelledFor(r)
        BY <1>3, <3>4 DEF Returning, CancelledFor
      <4> QED
        BY <2>1, <2>2, <2>3, <3>2, <3>4, <4>1, Counted
    <3>5. CASE req[target[x]].room = r
      <4>1. Returning(r)' = Returning(r) \ {x} /\ x \in Returning(r)
        BY <1>3, <2>6, <3>3, <3>5 DEF Returning
      <4>2. Cardinality(Returning(r)') = Cardinality(Returning(r)) - 1
        BY <4>1, Counted, FS_RemoveElement
      <4>3. CancelledFor(r)' \subseteq CancelledFor(r) \cup {x} /\ x \notin CancelledFor(r)
        BY <1>3, <3>3 DEF CancelledFor
      <4>4. /\ IsFiniteSet(CancelledFor(r) \cup {x})
            /\ Cardinality(CancelledFor(r) \cup {x}) = Cardinality(CancelledFor(r)) + 1
        BY <4>3, Counted, FS_AddElement
      <4>5. /\ Cardinality(CancelledFor(r)') <= Cardinality(CancelledFor(r)) + 1
            /\ Cardinality(CancelledFor(r)') \in Nat
        BY <4>3, <4>4, FS_Subset, FS_CardinalityType
      <4> QED
        BY <2>1, <2>2, <2>3, <3>2, <3>5, <4>2, <4>5, Counted
    <3> QED
      BY <3>4, <3>5
  <2> QED
    <3>1. \/ stock' = stock /\ step'[x] # "returnStock" /\ answer'[x] # "ok"
          \/ step[x] = "refund" /\ RefundServed(x) /\ Moves(x, "returnStock", "none")
          \/ /\ step[x] = "returnStock" /\ ReturnServed(x)
             /\ GivesUp(x) \/ Moves(x, "done", "ok")
      BY <1>1 DEF Moves, GivesUp, CancelTypes, upstream, RefundServed
    <3> QED
      BY <2>4, <2>5, <2>6, <3>1
<1> QED
  BY <1>5, <1>6, <1>7 DEF SoldCovers, CancelReturnsRoom

LEMMA NextRooms ==
  ASSUME CancelInv, RoomsInv, "inventory_restart" \notin Faults, [Next]_vars
  PROVE  RoomsInv'
<1>1. ASSUME NEW x \in Cancel, Invoke(x) \/ GetBooking(x) \/ Refund(x) \/ ReturnStock(x)
      PROVE  RoomsInv'
  BY <1>1, CancelStepRooms
<1>2. CASE Booking!Next /\ UNCHANGED <<target, step, answer>>
  BY <1>2, SameBooking, BookingStepRooms
<1>3. CASE UNCHANGED vars
  <2>1. UNCHANGED BP!vars /\ UNCHANGED <<target, step, answer>>
    BY <1>3 DEF vars, bookingVars, BP!vars
  <2> QED
    BY <2>1, BookingStepRooms
<1> QED
  BY <1>1, <1>2, <1>3 DEF Next

\* While inventory remembers its sales, every room that is paid for, and
\* every room that a Cancel is about to return, is one of the rooms sold.
THEOREM RoomsCounted ==
  ASSUME "inventory_restart" \notin Faults
  PROVE  Spec => []RoomsInv
<1>1. CancelInv /\ RoomsInv /\ [Next]_vars => RoomsInv'
  BY NextRooms
<1>2. Init => RoomsInv
  BY RoomsInit
<1> QED
  BY <1>1, <1>2, CancelDiscipline, PTL DEF Spec

\* No paying guest's room is sold again, and the room of a refunded booking
\* can be returned, however Cancels, sagas and lost calls interleave.
THEOREM PaidStaySold ==
  ASSUME "inventory_restart" \notin Faults
  PROVE  Spec => []PaidRoomsStaySold
<1>1. CancelInv /\ RoomsInv => PaidRoomsStaySold
  <2> SUFFICES ASSUME CancelInv, RoomsInv, NEW r \in Room
               PROVE  stock[r].sold >= Cardinality(PaidFor(r)) + Cardinality(Returning(r))
    BY DEF PaidRoomsStaySold
  <2>1. PaidFor(r) \subseteq Kept(r)
    <3> SUFFICES ASSUME NEW b \in PaidFor(r) PROVE b \in Kept(r)
      OBVIOUS
    <3>1. /\ b \in Call /\ req[b].room = r /\ BP!Charged(b)
          /\ b \in BP!Bookings \/ pc[b] = "persist"
      BY SameBooking DEF PaidFor
    <3>2. b \in BP!Bookings => \E s \in Store, k \in IdemKey : store[s][k] = b
      BY DEF BP!Bookings
    <3>3. holds[b].status \in {"committed", "lost"}
      BY <3>1, <3>2, FoundIsDone DEF CancelInv, BP!SagaInv, BP!CallsOK, BP!ProgressOK
    <3> QED
      BY <3>1, <3>3 DEF RoomsInv, NothingLost, Kept, CommittedFor
  <2>2. Cardinality(PaidFor(r)) <= Cardinality(Kept(r)) /\ Cardinality(PaidFor(r)) \in Nat
    BY <2>1, Counted, FS_Subset, FS_CardinalityType
  <2>3. stock[r].sold >= Cardinality(Kept(r)) + Cardinality(Returning(r)) /\ stock[r].sold \in Nat
    BY SoldType DEF CancelInv, RoomsInv, SoldCovers
  <2> QED
    BY <2>2, <2>3, Counted
<1> QED
  BY <1>1, CancelDiscipline, RoomsCounted, PTL

\* A Cancel that is told it worked has returned its room.
THEOREM RoomsReturned ==
  ASSUME "inventory_restart" \notin Faults
  PROVE  Spec => []CancelReturnsRoom
<1>1. RoomsInv => CancelReturnsRoom
  BY DEF RoomsInv
<1> QED
  BY <1>1, RoomsCounted, PTL
=============================================================================
