-------------------------- MODULE IdempotentCreate --------------------------
(***************************************************************************)
(* What booking promises about CreateBooking, without saying how: an       *)
(* idempotency key gets at most one booking, that booking never changes,   *)
(* and every successful answer for the key names it.  A call may fail, and *)
(* may fail although its booking was stored; it may also be dropped, with  *)
(* others, when its process dies.  Booking implements this module.         *)
(***************************************************************************)
CONSTANTS Call, IdemKey

VARIABLES keyOf,    \* keyOf[c]: the idempotency key c was called with
          booked,   \* booked[k]: the booking of k, named by the call that made it
          answer    \* answer[c]: what c was told

vars == <<keyOf, booked, answer>>

Init == /\ keyOf \in [Call -> IdemKey]
        /\ booked = [k \in IdemKey |-> "none"]
        /\ answer = [c \in Call |-> "none"]

Pending(c) == answer[c] = "none"

\* The booking of the key is made by this call, which is told so or fails.
Create(c) == /\ Pending(c)
             /\ booked[keyOf[c]] = "none"
             /\ booked' = [booked EXCEPT ![keyOf[c]] = c]
             /\ \E told \in {c, "failed"} : answer' = [answer EXCEPT ![c] = told]
             /\ UNCHANGED keyOf

\* The key already has a booking, and the call is told that one.
Replay(c) == /\ Pending(c)
             /\ booked[keyOf[c]] # "none"
             /\ answer' = [answer EXCEPT ![c] = booked[keyOf[c]]]
             /\ UNCHANGED <<keyOf, booked>>

Fail(c) == /\ Pending(c)
           /\ \E err \in {"failed", "invalid"} : answer' = [answer EXCEPT ![c] = err]
           /\ UNCHANGED <<keyOf, booked>>

Drop(S) == /\ \A c \in S : Pending(c)
           /\ answer' = [c \in Call |-> IF c \in S THEN "dropped" ELSE answer[c]]
           /\ UNCHANGED <<keyOf, booked>>

Next == \/ \E c \in Call : Create(c) \/ Replay(c) \/ Fail(c)
        \/ \E S \in SUBSET Call : Drop(S)

Spec == Init /\ [][Next]_vars
=============================================================================
