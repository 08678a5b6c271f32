------------------------------ MODULE MCBooking ------------------------------
(***************************************************************************)
(* Booking on small instances: a few calls, two processes, one or two      *)
(* idempotency keys and one room type.  Every call picks any request of    *)
(* the instance, so the runs contain retries of one key, racing keys, and  *)
(* every mix of payment tokens.                                            *)
(***************************************************************************)
EXTENDS Booking, TLC

CONSTANTS c1, c2, c3, p1, p2, k1, k2, r1

Calls2 == {c1, c2}
Calls3 == {c1, c2, c3}

OneProc == {p1}
TwoProcs == {p1, p2}
OneKey == {k1}
TwoKeys == {k1, k2}
Rooms == {r1}

Requests(procs, keys, amounts, tokens) ==
  [proc : procs, key : keys, room : Rooms, amount : amounts, token : tokens]

AnyToken == {"tok_ok", "tok_decline", "tok_capture_fail", "tok_refund_fail"}

MixedRequests == Requests(OneProc, TwoKeys, {0, 1}, AnyToken \ {"tok_refund_fail"})
RacingRequests == Requests(TwoProcs, OneKey, {1}, {"tok_ok", "tok_capture_fail"})
RetriedRequests == Requests(OneProc, OneKey, {1}, {"tok_ok", "tok_capture_fail"})

PgStore == {"pg"}
PgOf(procs) == [p \in procs |-> "pg"]
PgOf1 == PgOf(OneProc)
PgOf2 == PgOf(TwoProcs)
MemOf1 == [p \in OneProc |-> p]

NoFaults == {}
ClientFault == {"client_gone"}
CrashFault == {"booking_crash"}
RestartFaults == {"inventory_restart", "payment_restart"}

Symm == Permutations(Call)
=============================================================================
