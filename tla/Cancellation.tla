----------------------------- MODULE Cancellation -----------------------------
(***************************************************************************)
(* The cancellation service, composed with booking, inventory and payment: *)
(* Cancel looks a booking up, refunds its payment, then returns its room.  *)
(* It is stateless and compensates nothing, so any number of Cancels of    *)
(* one booking run at once, and beside the sagas that still book.  A       *)
(* Cancel whose context or process ends between two RPCs is one whose next *)
(* RPC is not sent ("call_lost").  The server is the one cmd/cancellation  *)
(* builds (NewServerWithInventory).                                        *)
(***************************************************************************)
EXTENDS Integers, FiniteSets

CONSTANTS Call, Proc, IdemKey, Room, Request, Totals, Store, StoreOf, Postgres,
          Faults, MaxInt,  \* of Booking
          Cancel           \* the calls of Cancel

VARIABLES stock, holds, auths, store, keyLock, req, pc, ctx, reply,  \* of Booking
          target,   \* target[x]: the booking_id x was called with, "empty" if ""
          step,     \* step[x]: the next step of x
          answer    \* answer[x]: what x was told, "none" before

Booking == INSTANCE Booking

ASSUME CancellationAssumption ==
  /\ MaxInt \in Nat
  /\ Room # {} /\ IsFiniteSet(Call)
  /\ Request \subseteq Booking!CreateBookingRequest
  /\ Totals \subseteq 0 .. MaxInt
  /\ StoreOf \in [Proc -> Store]
  /\ Postgres \in BOOLEAN
  /\ Faults \subseteq Booking!AllFaults
  /\ Call \cap {"none", "failed", "invalid", "dropped", "unmade", "free"} = {}
  /\ IsFiniteSet(Cancel) /\ Cancel \cap Call = {}

bookingVars == <<stock, holds, auths, store, keyLock, req, pc, ctx, reply>>
upstream == <<stock, holds, auths>>
vars == <<bookingVars, target, step, answer>>

\* The messages.  The booking_id of a Cancel is one that was given out, or unset;
\* a booking has the hold, the payment and the room of the call that made it.
CancelRequest == Call \cup {"empty"}

GetBookingResponse(b) ==
  [auth_id |-> b, room |-> req[b].room, amount |-> req[b].amount]

TypeOK == /\ Booking!TypeOK
          /\ target \in [Cancel -> CancelRequest]
          /\ step \in [Cancel -> {"idle", "getBooking", "refund", "returnStock", "done"}]
          /\ answer \in [Cancel -> {"none", "ok", "invalid", "not_found", "failed"}]

Init == /\ Booking!Init
        /\ target \in [Cancel -> CancelRequest]
        /\ step = [x \in Cancel |-> "idle"]
        /\ answer = [x \in Cancel |-> "none"]

-----------------------------------------------------------------------------
Goto(x, s) == step' = [step EXCEPT ![x] = s] /\ UNCHANGED answer

\* Mutant: answering leaves the Cancel at a step that is none of its own.
ReturnMisstep(x, told) == /\ step' = [step EXCEPT ![x] = "answered"]
                          /\ answer' = [answer EXCEPT ![x] = told]

Return(x, told) == /\ step' = [step EXCEPT ![x] = "done"]
                   /\ answer' = [answer EXCEPT ![x] = told]

\* One RPC of Cancel x, as Booking's Rpc; an error ends the Cancel.
Rpc(x, can, Served, Ok) ==
  \/ Served /\ Ok
  \/ Served /\ "reply_lost" \in Faults /\ Return(x, "failed")
  \/ /\ ~can \/ "call_lost" \in Faults
     /\ Return(x, "failed")
     /\ UNCHANGED upstream

Invoke(x) ==
  /\ step[x] = "idle"
  /\ IF target[x] = "empty" THEN Return(x, "invalid") ELSE Goto(x, "getBooking")
  /\ UNCHANGED <<bookingVars, target>>

\* Mutant: the refund is skipped.
GetBookingNoRefund(x) ==
  /\ step[x] = "getBooking"
  /\ \E s \in Store :
       IF \E k \in IdemKey : store[s][k] = target[x]
         THEN Goto(x, "returnStock")
         ELSE Return(x, "not_found")
  /\ UNCHANGED <<bookingVars, target>>

\* GetBooking is served by any process of booking, from its store.
GetBooking(x) ==
  /\ step[x] = "getBooking"
  /\ \/ \E s \in Store :
          IF \E k \in IdemKey : store[s][k] = target[x]
            THEN Goto(x, "refund")
            ELSE Return(x, "not_found")
     \/ Faults \cap {"call_lost", "reply_lost", "store_error"} # {} /\ Return(x, "failed")
  /\ UNCHANGED <<bookingVars, target>>

\* Mutant: a refund that is refused counts as made before, and the room goes back.
RefundRetried(x) ==
  LET b == GetBookingResponse(target[x])
  IN  /\ step[x] = "refund"
      /\ \/ Booking!Pay!Refund(b.auth_id, b.amount) /\ UNCHANGED <<stock, holds>>
         \/ ~Booking!Pay!CanRefund(b.auth_id, b.amount) /\ UNCHANGED upstream
      /\ Goto(x, "returnStock")
      /\ UNCHANGED <<store, keyLock, req, pc, ctx, reply, target>>

\* Mutant: the room is not returned, as in the server NewServer makes.
RefundOnly(x) ==
  LET b == GetBookingResponse(target[x])
  IN  /\ step[x] = "refund"
      /\ Rpc(x, Booking!Pay!CanRefund(b.auth_id, b.amount),
             Booking!Pay!Refund(b.auth_id, b.amount) /\ UNCHANGED <<stock, holds>>,
             Return(x, "ok"))
      /\ UNCHANGED <<store, keyLock, req, pc, ctx, reply, target>>

Refund(x) ==
  LET b == GetBookingResponse(target[x])
  IN  /\ step[x] = "refund"
      /\ Rpc(x, Booking!Pay!CanRefund(b.auth_id, b.amount),
             Booking!Pay!Refund(b.auth_id, b.amount) /\ UNCHANGED <<stock, holds>>,
             Goto(x, "returnStock"))
      /\ UNCHANGED <<store, keyLock, req, pc, ctx, reply, target>>

ReturnStock(x) ==
  LET r == GetBookingResponse(target[x]).room
  IN  /\ step[x] = "returnStock"
      /\ Rpc(x, Booking!Inv!CanReturn(r, 1),
             Booking!Inv!ReturnStock(r, 1) /\ UNCHANGED auths,
             Return(x, "ok"))
      /\ UNCHANGED <<store, keyLock, req, pc, ctx, reply, target>>

Next == \/ Booking!Next /\ UNCHANGED <<target, step, answer>>
        \/ \E x \in Cancel : Invoke(x) \/ GetBooking(x) \/ Refund(x) \/ ReturnStock(x)

Spec == Init /\ [][Next]_vars

-----------------------------------------------------------------------------
(* What must hold.                                                         *)

\* The bookings of room r, stored or about to be, whose money is not given back.
PaidFor(r) == {b \in Call : /\ req[b].room = r
                            /\ b \in Booking!Bookings \/ pc[b] = "persist"
                            /\ Booking!Charged(b)}

\* The Cancels that have refunded a booking of r and not yet returned the room.
Returning(r) == {x \in Cancel : step[x] = "returnStock" /\ req[target[x]].room = r}

\* ReturnStock takes any sold unit of the room type, so a room must never be
\* given back twice for one booking, or for a booking that stands: however
\* Cancels and sagas race and whichever call is lost, a unit stays sold for
\* every booking that is paid for and for every Cancel that will return one.
\* No paying guest's room is sold again, and no ReturnStock that follows a
\* refund is refused.
PaidRoomsStaySold ==
  \A r \in Room :
    stock[r].sold >= Cardinality(PaidFor(r)) + Cardinality(Returning(r))

\* A booking is cancelled once: of the Cancels of one booking at most one is
\* told it worked, and then the money is back.
CancelledOnce ==
  \A x, y \in Cancel :
    /\ answer[x] = "ok" => ~Booking!Charged(target[x])
    /\ answer[x] = "ok" /\ answer[y] = "ok" /\ target[x] = target[y] => x = y

\* A Cancel that is told it worked has given its room back: of the units ever
\* sold, one per such Cancel is free again, whatever else was lost or refused.
CommittedFor(r) == {c \in Call : req[c].room = r /\ holds[c].status = "committed"}

CancelledFor(r) == {x \in Cancel : answer[x] = "ok" /\ req[target[x]].room = r}

CancelReturnsRoom ==
  \A r \in Room :
    stock[r].sold <= Cardinality(CommittedFor(r)) - Cardinality(CancelledFor(r))

\* FEATURES.md: Cancel is idempotent on booking_id, so a Cancel that follows a
\* successful one of the same booking does not fail.
IdempotentOnBookingId ==
  [][\A x, y \in Cancel :
        answer[x] = "ok" /\ target[x] = target[y] /\ step[y] # "done"
          => answer'[y] # "failed"]_vars
=============================================================================
