---------------------------- MODULE MCCancellation ----------------------------
(***************************************************************************)
(* Cancellation on small instances: two calls of CreateBooking, on one or  *)
(* two idempotency keys, and two Cancels of either booking or of none.     *)
(***************************************************************************)
EXTENDS Cancellation, TLC

CONSTANTS c1, c2, p1, k1, k2, r1, x1, x2

Calls == {c1, c2}
Procs == {p1}
Keys == {k1, k2}
Rooms == {r1}
Cancels == {x1, x2}

Requests == [proc : Procs, key : Keys, room : Rooms, amount : {1},
             token : {"tok_ok", "tok_refund_fail"}]

PgStore == {"pg"}
PgOf == [p \in Procs |-> "pg"]

NoFaults == {}
NetworkFaults == {"call_lost", "reply_lost", "booking_crash"}

Symm == Permutations(Call) \cup Permutations(Cancel)
=============================================================================
