------------------------------- MODULE Payment -------------------------------
(***************************************************************************)
(* The mock payment provider: authorizations that are captured or voided,  *)
(* captures that are refunded in parts, and the reserved payment tokens    *)
(* that make Authorize, Capture or Refund fail.  One mutex makes every RPC *)
(* one step; Authorize sleeps (tok_slow_<ms>) before it takes the mutex,   *)
(* so a slow token is an ordinary one here.  State is in memory only.      *)
(*                                                                         *)
(* A failing RPC changes nothing and is a stuttering step; the Can...      *)
(* predicates say when an RPC succeeds.                                    *)
(***************************************************************************)
EXTENDS Integers

CONSTANTS AuthId,     \* what newAuthID can return: 16 random bytes
          MaxAmount,  \* the largest int64
          Restarts    \* whether the process may die and start again

ASSUME PaymentAssumption == MaxAmount \in Nat /\ Restarts \in BOOLEAN

VARIABLE auths        \* auths[a]: the authorization, "absent" if not minted

Amount == -(MaxAmount + 1) .. MaxAmount

Token == {"tok_ok", "tok_decline", "tok_capture_fail", "tok_refund_fail"}

Authorization ==
  [amount : Amount, refunded : Amount,
   status : {"absent", "authorized", "captured", "voided", "lost"},
   chaosMode : {"", "capture_fail", "refund_fail"}]

NoAuth == [amount |-> 0, refunded |-> 0, status |-> "absent", chaosMode |-> ""]

TypeOK == auths \in [AuthId -> Authorization]

Init == auths = [a \in AuthId |-> NoAuth]

-----------------------------------------------------------------------------
\* int64 arithmetic: one addition or subtraction wraps at most once.
Wrap(x) == IF x > MaxAmount THEN x - 2 * (MaxAmount + 1)
           ELSE IF x < -(MaxAmount + 1) THEN x + 2 * (MaxAmount + 1)
           ELSE x

ChaosMode(token) == CASE token = "tok_capture_fail" -> "capture_fail"
                      [] token = "tok_refund_fail" -> "refund_fail"
                      [] OTHER -> ""

CanAuthorize(amount, token) == amount > 0 /\ token # "tok_decline"

\* Every successful Authorize mints a new authorization, a retried one too.
Authorize(a, amount, token) ==
  /\ CanAuthorize(amount, token)
  /\ auths[a].status = "absent"
  /\ auths' = [auths EXCEPT ![a] =
                 [amount |-> amount, refunded |-> 0, status |-> "authorized",
                  chaosMode |-> ChaosMode(token)]]

CanCapture(a) == /\ auths[a].chaosMode # "capture_fail"
                 /\ auths[a].status \in {"captured", "authorized"}

Capture(a) == /\ CanCapture(a)
              /\ auths' = [auths EXCEPT ![a].status = "captured"]

\* Mutant: Void only refuses an authorization it does not know.
CanVoidCaptured(a) == auths[a].status \in {"voided", "authorized", "captured"}

CanVoid(a) == auths[a].status \in {"voided", "authorized"}

Void(a) == /\ CanVoid(a)
           /\ auths' = [auths EXCEPT ![a].status = "voided"]

\* Mutant: each refund is compared with the whole amount.
CanRefundAgain(a, amount) ==
  /\ auths[a].chaosMode # "refund_fail"
  /\ auths[a].status = "captured"
  /\ amount > 0
  /\ amount <= auths[a].amount

CanRefund(a, amount) ==
  /\ auths[a].chaosMode # "refund_fail"
  /\ auths[a].status = "captured"
  /\ amount > 0
  /\ amount <= Wrap(auths[a].amount - auths[a].refunded)

Refund(a, amount) ==
  /\ CanRefund(a, amount)
  /\ auths' = [auths EXCEPT ![a].refunded = Wrap(@ + amount)]

\* The process dies; every authorization it gave out is unknown afterwards.
Restart ==
  /\ Restarts
  /\ auths' = [a \in AuthId |-> IF auths[a].status = "absent" THEN NoAuth
                                ELSE [NoAuth EXCEPT !.status = "lost"]]

\* The messages; an unset amount reads as 0.
AuthorizeRequest == [amount : Amount, payment_token : Token]
CaptureRequest == [auth_id : AuthId]
VoidRequest == [auth_id : AuthId]
RefundRequest == [auth_id : AuthId, amount : Amount]

Next == \/ \E m \in AuthorizeRequest, a \in AuthId : Authorize(a, m.amount, m.payment_token)
        \/ \E m \in CaptureRequest : Capture(m.auth_id)
        \/ \E m \in VoidRequest : Void(m.auth_id)
        \/ \E m \in RefundRequest : Refund(m.auth_id, m.amount)
        \/ Restart

Spec == Init /\ [][Next]_auths

-----------------------------------------------------------------------------
(* What the provider promises.                                             *)

\* Over any sequence of partial refunds no more than the captured amount goes
\* back, only captured money goes back, and the int64 arithmetic that checks
\* it never wraps.
RefundsCovered ==
  \A a \in AuthId :
    LET auth == auths[a]
    IN  /\ auth.refunded \in 0 .. auth.amount
        /\ auth.refunded > 0 => auth.status = "captured"
        /\ Wrap(auth.amount - auth.refunded) = auth.amount - auth.refunded

\* The chaos tokens do what the contract says for the whole life of the
\* authorization: capture_fail is never captured, refund_fail never refunded.
ChaosHonoured ==
  \A a \in AuthId :
    /\ auths[a].chaosMode = "capture_fail" => auths[a].status # "captured"
    /\ auths[a].chaosMode = "refund_fail" => auths[a].refunded = 0

\* Captured and voided exclude each other for good, money goes back one way,
\* and nobody changes the authorized amount: a step takes an authorization
\* only forward, unless the process forgets it.
Forward(old, new) ==
  \/ old.status = "absent"
  \/ new.status = "lost"
  \/ /\ new.amount = old.amount
     /\ new.refunded >= old.refunded
     /\ new.status = old.status \/ old.status = "authorized"

ForwardOnly == \A a \in AuthId : Forward(auths[a], auths'[a])

MoneyMovesForward == [][ForwardOnly]_auths
=============================================================================
