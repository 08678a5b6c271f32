------------------------------- MODULE Booking -------------------------------
(***************************************************************************)
(* The booking service: CreateBooking runs a saga over inventory and       *)
(* payment (Hold, Authorize, Capture, Commit, persist) with compensations, *)
(* under a lock per idempotency key, in one or several processes that keep *)
(* their records in memory or share one Postgres.  The saga's RPCs are the *)
(* actions of modules Inventory and Payment.                               *)
(*                                                                         *)
(* One call of CreateBooking is a member of Call.  The ids it mints (its   *)
(* hold_id, auth_id and booking_id) are random in the code; here they are  *)
(* named by the call itself.  A client's retry is another call with the    *)
(* same key.                                                               *)
(***************************************************************************)
EXTENDS Integers, FiniteSets

CONSTANTS Call, Proc, IdemKey, Room,
          Request,   \* the requests clients make
          Totals,    \* how many of a room the admin may have stocked
          Store,     \* the booking stores: one Postgres, or one per process
          StoreOf,   \* StoreOf[p]: the store of process p
          Postgres,  \* whether the stores are durable and can fail
          Faults,    \* what may go wrong besides the RPCs' own refusals
          MaxInt     \* the largest int32, and here the largest amount too

\* The message, and the process it is sent to; an unset amount reads as 0.
CreateBookingRequest ==
  [proc : Proc, key : IdemKey, room : Room, amount : 0 .. MaxInt,
   token : {"tok_ok", "tok_decline", "tok_capture_fail", "tok_refund_fail"}]

AllFaults == {"booking_crash", "inventory_restart", "payment_restart",
              "client_gone", "call_lost", "reply_lost", "store_error"}

ASSUME BookingAssumption ==
  /\ MaxInt \in Nat
  /\ Room # {} /\ IsFiniteSet(Call)
  /\ Request \subseteq CreateBookingRequest
  /\ Totals \subseteq 0 .. MaxInt
  /\ StoreOf \in [Proc -> Store]
  /\ Postgres \in BOOLEAN
  /\ Faults \subseteq AllFaults
  /\ Call \cap {"none", "failed", "invalid", "dropped", "unmade", "free"} = {}

VARIABLES stock, holds,  \* inventory
          auths,         \* payment
          store,         \* store[s][k]: the booking kept under key k, or "none"
          keyLock,       \* keyLock[p][k]: "unmade", "free" or the call that has it
          req,           \* req[c]: the request of call c
          pc,            \* pc[c]: the next step of call c
          ctx,           \* ctx[c]: "live", or "gone" once the caller's context ended
          reply          \* reply[c]: the outcome of call c, "none" until it has one

vars == <<stock, holds, auths, store, keyLock, req, pc, ctx, reply>>

Inv == INSTANCE Inventory WITH Key <- Room, HoldId <- Call,
                               Durable <- "inventory_restart" \notin Faults

Pay == INSTANCE Payment WITH AuthId <- Call, MaxAmount <- MaxInt,
                             Restarts <- "payment_restart" \in Faults

upstream == <<stock, holds, auths>>

-----------------------------------------------------------------------------
SagaStep == {"hold", "authorize", "capture", "commit", "persist",
             "void", "release", "refund"}

Step == {"idle", "lockFor", "lock", "lookup", "done"} \cup SagaStep

\* The steps between lock.Lock() and the deferred lock.Unlock().
Locked(c) == pc[c] \in SagaStep \cup {"lookup"}

Active(c) == pc[c] \notin {"idle", "done"}

TypeOK ==
  /\ Inv!TypeOK
  /\ Pay!TypeOK
  /\ store \in [Store -> [IdemKey -> Call \cup {"none"}]]
  /\ keyLock \in [Proc -> [IdemKey -> Call \cup {"unmade", "free"}]]
  /\ req \in [Call -> Request]
  /\ pc \in [Call -> Step]
  /\ ctx \in [Call -> {"live", "gone"}]
  /\ reply \in [Call -> Call \cup {"none", "failed", "invalid", "dropped"}]

\* The services are up, the admin has stocked the rooms, nobody has called.
Init ==
  /\ \E total \in [Room -> Totals] :
       stock = [r \in Room |-> [listed |-> TRUE, total |-> total[r], sold |-> 0, held |-> 0]]
  /\ holds = [c \in Call |-> Inv!Absent]
  /\ Pay!Init
  /\ store = [s \in Store |-> [k \in IdemKey |-> "none"]]
  /\ keyLock = [p \in Proc |-> [k \in IdemKey |-> "unmade"]]
  /\ req \in [Call -> Request]
  /\ pc = [c \in Call |-> "idle"]
  /\ ctx = [c \in Call |-> "live"]
  /\ reply = [c \in Call |-> "none"]

-----------------------------------------------------------------------------
(* How a call proceeds and ends.                                           *)

proc(c) == req[c].proc
key(c) == req[c].key
StoredFor(c) == store[StoreOf[proc(c)]][key(c)]

Goto(c, step) == /\ pc' = [pc EXCEPT ![c] = step]
                 /\ UNCHANGED <<keyLock, reply>>

\* Mutant: the handler has no deferred unlock.
ReturnLocked(c, answer) == /\ pc' = [pc EXCEPT ![c] = "done"]
                           /\ reply' = [reply EXCEPT ![c] = answer]
                           /\ UNCHANGED keyLock

\* Answering runs the deferred unlock.
Return(c, answer) == /\ pc' = [pc EXCEPT ![c] = "done"]
                     /\ reply' = [reply EXCEPT ![c] = answer]
                     /\ keyLock' = [keyLock EXCEPT ![proc(c)][key(c)] = "free"]

\* The answer of an RPC that was carried out does not arrive: the connection
\* fails, or the caller's context ends while it is under way.
ReplyLost(c) ==
  \/ "reply_lost" \in Faults /\ UNCHANGED ctx
  \/ "client_gone" \in Faults /\ ctx' = [ctx EXCEPT ![c] = "gone"]

\* One RPC of call c: served (can says whether the server accepts it) and
\* answered, served and not answered, or not served.  No RPC is sent on a
\* context that has ended.
Rpc(c, can, Served, Ok, Err) ==
  \/ ctx[c] = "live" /\ Served /\ Ok /\ UNCHANGED ctx
  \/ ctx[c] = "live" /\ Served /\ Err /\ ReplyLost(c)
  \/ /\ ~can \/ ctx[c] = "gone" \/ "call_lost" \in Faults
     /\ Err
     /\ UNCHANGED <<upstream, ctx>>

-----------------------------------------------------------------------------
(* CreateBooking.                                                          *)

Invoke(c) ==
  /\ pc[c] = "idle"
  /\ IF req[c].amount <= 0
       THEN /\ pc' = [pc EXCEPT ![c] = "done"]
            /\ reply' = [reply EXCEPT ![c] = "invalid"]
       ELSE /\ pc' = [pc EXCEPT ![c] = "lockFor"]
            /\ UNCHANGED reply
  /\ UNCHANGED <<upstream, store, keyLock, req, ctx>>

\* Mutant: every call makes a new mutex for its key.
LockForNew(c) ==
  /\ pc[c] = "lockFor"
  /\ pc' = [pc EXCEPT ![c] = "lock"]
  /\ keyLock' = [keyLock EXCEPT ![proc(c)][key(c)] = "free"]
  /\ UNCHANGED <<upstream, store, req, ctx, reply>>

LockFor(c) ==
  /\ pc[c] = "lockFor"
  /\ pc' = [pc EXCEPT ![c] = "lock"]
  /\ keyLock' = IF keyLock[proc(c)][key(c)] = "unmade"
                  THEN [keyLock EXCEPT ![proc(c)][key(c)] = "free"]
                  ELSE keyLock
  /\ UNCHANGED <<upstream, store, req, ctx, reply>>

Lock(c) ==
  /\ pc[c] = "lock"
  /\ keyLock[proc(c)][key(c)] = "free"
  /\ pc' = [pc EXCEPT ![c] = "lookup"]
  /\ keyLock' = [keyLock EXCEPT ![proc(c)][key(c)] = c]
  /\ UNCHANGED <<upstream, store, req, ctx, reply>>

\* A query of Postgres may fail, and does on a context that has ended.
StoreFails(c) == Postgres /\ (ctx[c] = "gone" \/ "store_error" \in Faults)
StoreWorks(c) == ~Postgres \/ ctx[c] = "live"

\* Mutant: the saga runs without looking the key up.
ByNoKey(c) ==
  /\ pc[c] = "lookup"
  /\ Goto(c, "hold")
  /\ UNCHANGED <<upstream, store, req, ctx>>

\* Mutant: the unlock is not deferred, and a key that is found returns early.
ByKeyEarlyReturn(c) ==
  /\ pc[c] = "lookup"
  /\ \/ StoreFails(c) /\ Return(c, "failed")
     \/ /\ StoreWorks(c) /\ StoredFor(c) # "none"
        /\ pc' = [pc EXCEPT ![c] = "done"]
        /\ reply' = [reply EXCEPT ![c] = StoredFor(c)]
        /\ UNCHANGED keyLock
     \/ StoreWorks(c) /\ StoredFor(c) = "none" /\ Goto(c, "hold")
  /\ UNCHANGED <<upstream, store, req, ctx>>

ByIdempotencyKey(c) ==
  /\ pc[c] = "lookup"
  /\ \/ StoreFails(c) /\ Return(c, "failed")
     \/ StoreWorks(c) /\ StoredFor(c) # "none" /\ Return(c, StoredFor(c))
     \/ StoreWorks(c) /\ StoredFor(c) = "none" /\ Goto(c, "hold")
  /\ UNCHANGED <<upstream, store, req, ctx>>

Hold(c) ==
  /\ pc[c] = "hold"
  /\ Rpc(c, Inv!CanHold(req[c].room, 1),
         Inv!Hold(req[c].room, 1, c) /\ UNCHANGED auths,
         Goto(c, "authorize"), Return(c, "failed"))
  /\ UNCHANGED <<store, req>>

\* Mutant: a refused payment is not compensated.
AuthorizeKeepsHold(c) ==
  /\ pc[c] = "authorize"
  /\ Rpc(c, Pay!CanAuthorize(req[c].amount, req[c].token),
         Pay!Authorize(c, req[c].amount, req[c].token) /\ UNCHANGED <<stock, holds>>,
         Goto(c, "capture"), Return(c, "failed"))
  /\ UNCHANGED <<store, req>>

Authorize(c) ==
  /\ pc[c] = "authorize"
  /\ Rpc(c, Pay!CanAuthorize(req[c].amount, req[c].token),
         Pay!Authorize(c, req[c].amount, req[c].token) /\ UNCHANGED <<stock, holds>>,
         Goto(c, "capture"), Goto(c, "release"))
  /\ UNCHANGED <<store, req>>

\* Mutant: the booking is stored before its hold is committed.
CapturePersists(c) ==
  /\ pc[c] = "capture"
  /\ Rpc(c, Pay!CanCapture(c), Pay!Capture(c) /\ UNCHANGED <<stock, holds>>,
         Goto(c, "persist"), Goto(c, "void"))
  /\ UNCHANGED <<store, req>>

Capture(c) ==
  /\ pc[c] = "capture"
  /\ Rpc(c, Pay!CanCapture(c), Pay!Capture(c) /\ UNCHANGED <<stock, holds>>,
         Goto(c, "commit"), Goto(c, "void"))
  /\ UNCHANGED <<store, req>>

Commit(c) ==
  /\ pc[c] = "commit"
  /\ Rpc(c, Inv!CanCommit(c), Inv!Commit(c) /\ UNCHANGED auths,
         Goto(c, "persist"), Goto(c, "refund"))
  /\ UNCHANGED <<store, req>>

\* The compensations: their errors are ignored.
Void(c) ==
  /\ pc[c] = "void"
  /\ Rpc(c, Pay!CanVoid(c), Pay!Void(c) /\ UNCHANGED <<stock, holds>>,
         Goto(c, "release"), Goto(c, "release"))
  /\ UNCHANGED <<store, req>>

Release(c) ==
  /\ pc[c] = "release"
  /\ Rpc(c, Inv!CanRelease(c), Inv!Release(c) /\ UNCHANGED auths,
         Return(c, "failed"), Return(c, "failed"))
  /\ UNCHANGED <<store, req>>

Refund(c) ==
  /\ pc[c] = "refund"
  /\ Rpc(c, Pay!CanRefund(c, req[c].amount),
         Pay!Refund(c, req[c].amount) /\ UNCHANGED <<stock, holds>>,
         Return(c, "failed"), Return(c, "failed"))
  /\ UNCHANGED <<store, req>>

\* INSERT ... ON CONFLICT DO NOTHING: the first booking of a key stays, and a
\* later call is told its id.
Insert(c) == store' = [store EXCEPT ![StoreOf[proc(c)]][key(c)] = c]

\* Mutant: INSERT ... ON CONFLICT DO UPDATE, the last booking of a key wins.
PersistOverwrites(c) ==
  /\ pc[c] = "persist"
  /\ \/ StoreWorks(c) /\ Insert(c) /\ Return(c, c)
     \/ StoreFails(c) /\ Return(c, "failed") /\ UNCHANGED store
  /\ UNCHANGED <<upstream, req, ctx>>

Persist(c) ==
  /\ pc[c] = "persist"
  /\ \/ StoreWorks(c) /\ StoredFor(c) = "none" /\ Insert(c) /\ Return(c, c)
     \/ /\ StoreWorks(c) /\ StoredFor(c) # "none"
        /\ Return(c, StoredFor(c)) /\ UNCHANGED store
     \/ StoreFails(c) /\ Return(c, "failed") /\ UNCHANGED store
     \/ /\ Postgres /\ Faults \cap {"store_error", "client_gone"} # {}
        /\ ctx[c] = "live" /\ StoredFor(c) = "none"
        /\ Insert(c) /\ Return(c, "failed")
  /\ UNCHANGED <<upstream, req, ctx>>

CreateBooking(c) ==
  \/ Invoke(c) \/ LockFor(c) \/ Lock(c) \/ ByIdempotencyKey(c)
  \/ Hold(c) \/ Authorize(c) \/ Capture(c) \/ Commit(c) \/ Persist(c)
  \/ Void(c) \/ Release(c) \/ Refund(c)

-----------------------------------------------------------------------------
(* The environment.                                                        *)

\* The caller hangs up or its deadline passes between two RPCs of the saga.
ClientGone(c) ==
  /\ "client_gone" \in Faults
  /\ Active(c) /\ ctx[c] = "live"
  /\ ctx' = [ctx EXCEPT ![c] = "gone"]
  /\ UNCHANGED <<upstream, store, keyLock, req, pc, reply>>

\* Process p dies and starts again: its calls end without an answer, its
\* locks are gone, and so are its records unless they are in Postgres.
Crash(p) ==
  LET dying == {c \in Call : Active(c) /\ proc(c) = p}
  IN  /\ "booking_crash" \in Faults
      /\ pc' = [c \in Call |-> IF c \in dying THEN "done" ELSE pc[c]]
      /\ reply' = [c \in Call |-> IF c \in dying THEN "dropped" ELSE reply[c]]
      /\ keyLock' = [keyLock EXCEPT ![p] = [k \in IdemKey |-> "unmade"]]
      /\ store' = IF Postgres THEN store
                  ELSE [store EXCEPT ![StoreOf[p]] = [k \in IdemKey |-> "none"]]
      /\ UNCHANGED <<upstream, req, ctx>>

InventoryRestart == Inv!Restart /\ UNCHANGED <<auths, store, keyLock, req, pc, ctx, reply>>

\* The admin stocks a room type again after inventory forgot it.  (Bound: only
\* then; Inventory alone checks a SetStock at any time.)
Restock ==
  /\ \E r \in Room, n \in Totals : ~stock[r].listed /\ Inv!SetStock(r, n)
  /\ UNCHANGED <<auths, store, keyLock, req, pc, ctx, reply>>

PaymentRestart ==
  Pay!Restart /\ UNCHANGED <<stock, holds, store, keyLock, req, pc, ctx, reply>>

AllDone == (\A c \in Call : pc[c] = "done") /\ UNCHANGED vars

Next == \/ \E c \in Call : CreateBooking(c) \/ ClientGone(c)
        \/ \E p \in Proc : Crash(p)
        \/ InventoryRestart
        \/ Restock
        \/ PaymentRestart
        \/ AllDone

Spec == Init /\ [][Next]_vars

\* Every handler is a goroutine the scheduler runs, and gRPC ends every call,
\* with an error if the connection fails; nobody has to send a request.
Fairness == \A c \in Call : WF_vars(CreateBooking(c) /\ pc[c] # "idle")

FairSpec == Spec /\ Fairness

-----------------------------------------------------------------------------
(* What must hold.                                                         *)

Bookings == {store[s][k] : s \in Store, k \in IdemKey} \ {"none"}

Charged(c) == auths[c].status = "captured" /\ auths[c].refunded < auths[c].amount

\* Whatever fails, a stored booking is backed: its hold was committed, and
\* its payment captured and not given back (a service that restarted may
\* have forgotten its side).  Cancellation relies on it.
BookingBacked ==
  \A b \in Bookings :
    /\ holds[b].status \in {"committed", "lost"}
    /\ auths[b].status \in {"captured", "lost"} /\ auths[b].refunded = 0

\* A finished call leaves all of a booking or nothing of it: a stored booking
\* with its room and its charge, or neither a room nor money.  (A service
\* that restarted may have forgotten its side.)
AllOrNothing(c) ==
  IF c \in Bookings THEN /\ holds[c].status \in {"committed", "lost"}
                         /\ Charged(c) \/ auths[c].status = "lost"
  ELSE /\ holds[c].status \notin {"held", "committed"}
       /\ auths[c].status # "authorized" /\ ~Charged(c)

NoPartialBooking == \A c \in Call : pc[c] = "done" => AllOrNothing(c)

\* What booking's SPEC.yaml promises, compensating actions on any failure along the chain,
\* once the Hold was answered: a saga that fails in payment.Authorize has
\* released its room when it answers, one that fails in payment.Capture has voided its
\* authorization too, and one that fails in inventory.Commit has refunded its charge.
CompensationsUndo ==
  [][\A c \in Call :
       /\ pc[c] = "release" /\ reply'[c] = "failed" => holds'[c].status # "held"
       /\ pc[c] = "void" /\ pc'[c] = "release" => auths'[c].status # "authorized"
       /\ pc[c] = "refund" /\ reply'[c] = "failed" => ~Charged(c)']_vars

\* However often a client retries a key, it pays for one room at most.
OneChargePerKey ==
  \A c, d \in Call : key(c) = key(d) /\ Charged(c) /\ Charged(d) => c = d

\* The rooms inventory counts as sold are the rooms of the bookings, and of
\* the calls about to store theirs, that it committed since it last started.
SoldIsBooked ==
  \A r \in Room :
    stock[r].sold = Cardinality({c \in Call : /\ req[c].room = r
                                              /\ holds[c].status = "committed"
                                              /\ c \in Bookings \/ pc[c] = "persist"})

\* Within one process the calls of a key are between lookup and answer one at a
\* time.  (Two processes do run the saga of one key at once: each has locks of
\* its own, and the UNIQUE constraint only picks which booking stays.)
OneSagaPerKeyAndProc ==
  \A c, d \in Call :
    Locked(c) /\ Locked(d) /\ key(c) = key(d) /\ proc(c) = proc(d) => c = d

\* A key lock that is taken belongs to a call that is still running and will
\* release it: no way out of the handler, and no crash, leaves it locked.
NoLockLeaked ==
  \A p \in Proc, k \in IdemKey :
    LET h == keyLock[p][k]
    IN  h \in Call => Locked(h) /\ proc(h) = p /\ key(h) = k

\* Every call that was made is answered, or dropped by a crash: nobody waits
\* for a key lock for ever.
EveryCallEnds == \A c \in Call : Active(c) ~> pc[c] = "done"

\* Booking with Postgres implements the promise of IdempotentCreate.
Promise ==
  INSTANCE IdempotentCreate
    WITH keyOf <- [c \in Call |-> req[c].key],
         booked <- [k \in IdemKey |-> store[CHOOSE s \in Store : TRUE][k]],
         answer <- reply

KeepsPromise == Promise!Spec
=============================================================================
