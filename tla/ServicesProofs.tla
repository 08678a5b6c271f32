----------------------------- MODULE ServicesProofs ----------------------------
(***************************************************************************)
(* Theorems about the services besides the reservation path.  They share   *)
(* no state: each part below is about one component, for every value of    *)
(* its constants.                                                          *)
(***************************************************************************)
EXTENDS MCServices, CatalogProofs

-----------------------------------------------------------------------------
(***************************************************************************)
(* Theorems about Payment for every set of authorization ids and every     *)
(* integer width.                                                          *)
(***************************************************************************)

\* An authorization is voided, or refunded, only in its own way, and its
\* amount is positive from the moment it is minted.
AuthOK(auth) == /\ auth.amount \in 0 .. MaxAmount
                /\ auth.refunded \in 0 .. auth.amount
                /\ auth.refunded > 0 => auth.status = "captured"
                /\ auth.chaosMode = "capture_fail" => auth.status # "captured"
                /\ auth.chaosMode = "refund_fail" => auth.refunded = 0

PaymentIInv == TypeOK /\ \A a \in AuthId : AuthOK(auths[a])

\* A step that changes one authorization only is sound if its new record is.
LEMMA OneAuth ==
  ASSUME PaymentIInv, NEW a \in AuthId, NEW auth \in Authorization,
         AuthOK(auth), Forward(auths[a], auth),
         auths' = [auths EXCEPT ![a] = auth]
  PROVE  PaymentIInv' /\ ForwardOnly
<1>1. PaymentIInv'
  BY DEF PaymentIInv, TypeOK
<1>2. ASSUME NEW b \in AuthId PROVE Forward(auths[b], auths'[b])
  <2>1. CASE b = a
    BY <2>1 DEF PaymentIInv, TypeOK
  <2>2. CASE b # a
    <3>1. auths'[b] = auths[b]
      BY <2>2 DEF PaymentIInv, TypeOK
    <3>2. auths[b].refunded \in Int
      BY DEF PaymentIInv, AuthOK
    <3> QED
      BY <3>1, <3>2 DEF Forward
  <2> QED
    BY <2>1, <2>2
<1> QED
  BY <1>1, <1>2 DEF ForwardOnly

LEMMA AuthorizeInv ==
  ASSUME PaymentIInv, NEW a \in AuthId, NEW amount \in Amount, NEW token \in Token,
         Authorize(a, amount, token)
  PROVE  PaymentIInv' /\ ForwardOnly
<1> DEFINE auth == [amount |-> amount, refunded |-> 0, status |-> "authorized",
                    chaosMode |-> ChaosMode(token)]
<1>1. /\ auths' = [auths EXCEPT ![a] = auth]
      /\ amount > 0
      /\ auths[a].status = "absent"
  BY DEF Authorize, CanAuthorize
<1>2. auth \in Authorization
  BY PaymentAssumption DEF Authorization, Amount, ChaosMode
<1>3. AuthOK(auth)
  BY <1>1, PaymentAssumption DEF AuthOK, Amount
<1>4. Forward(auths[a], auth)
  BY <1>1 DEF Forward
<1> QED
  BY <1>1, <1>2, <1>3, <1>4, OneAuth

\* What the fields of a record updated in one field are.
LEMMA StatusUpdate ==
  ASSUME NEW old \in Authorization, NEW st
  PROVE  LET new == [old EXCEPT !.status = st]
         IN  /\ new.amount = old.amount
             /\ new.refunded = old.refunded
             /\ new.chaosMode = old.chaosMode
             /\ new.status = st
BY DEF Authorization

LEMMA CaptureInv ==
  ASSUME PaymentIInv, NEW a \in AuthId, Capture(a)
  PROVE  PaymentIInv' /\ ForwardOnly
<1> DEFINE auth == [auths[a] EXCEPT !.status = "captured"]
<1>1. /\ auths' = [auths EXCEPT ![a] = auth]
      /\ auths[a].chaosMode # "capture_fail"
      /\ auths[a].status \in {"captured", "authorized"}
  BY DEF Capture, CanCapture
<1>2. auths[a] \in Authorization /\ AuthOK(auths[a])
  BY DEF PaymentIInv, TypeOK
<1>3. auth \in Authorization
  BY <1>2 DEF Authorization
<1>4. /\ auth.amount = auths[a].amount
      /\ auth.refunded = auths[a].refunded
      /\ auth.chaosMode = auths[a].chaosMode
      /\ auth.status = "captured"
  BY <1>2, StatusUpdate
<1> HIDE DEF auth
<1>5. AuthOK(auth) /\ Forward(auths[a], auth)
  BY <1>1, <1>2, <1>4 DEF AuthOK, Forward
<1> QED
  BY <1>1, <1>3, <1>5, OneAuth

LEMMA VoidInv ==
  ASSUME PaymentIInv, NEW a \in AuthId, Void(a)
  PROVE  PaymentIInv' /\ ForwardOnly
<1> DEFINE auth == [auths[a] EXCEPT !.status = "voided"]
<1>1. /\ auths' = [auths EXCEPT ![a] = auth]
      /\ auths[a].status \in {"voided", "authorized"}
  BY DEF Void, CanVoid
<1>2. auths[a] \in Authorization /\ AuthOK(auths[a])
  BY DEF PaymentIInv, TypeOK
<1>3. auth \in Authorization
  BY <1>2 DEF Authorization
<1>4. /\ auth.amount = auths[a].amount
      /\ auth.refunded = auths[a].refunded
      /\ auth.chaosMode = auths[a].chaosMode
      /\ auth.status = "voided"
  BY <1>2, StatusUpdate
<1> HIDE DEF auth
<1>5. AuthOK(auth) /\ Forward(auths[a], auth)
  BY <1>1, <1>2, <1>4 DEF AuthOK, Forward
<1> QED
  BY <1>1, <1>3, <1>5, OneAuth

LEMMA RefundInv ==
  ASSUME PaymentIInv, NEW a \in AuthId, NEW amount \in Amount, Refund(a, amount)
  PROVE  PaymentIInv' /\ ForwardOnly
<1> DEFINE auth == [auths[a] EXCEPT !.refunded = auths[a].refunded + amount]
<1>1. auths[a] \in Authorization /\ AuthOK(auths[a])
  BY DEF PaymentIInv, TypeOK
<1>2. Wrap(auths[a].amount - auths[a].refunded) = auths[a].amount - auths[a].refunded
  BY <1>1, PaymentAssumption DEF Wrap, AuthOK
<1>3. /\ amount > 0
      /\ auths[a].refunded \in Nat
      /\ auths[a].refunded + amount \in 0 .. auths[a].amount
      /\ auths[a].status = "captured"
      /\ auths[a].chaosMode # "refund_fail"
  BY <1>1, <1>2, PaymentAssumption DEF Refund, CanRefund, AuthOK, Amount
<1>4. Wrap(auths[a].refunded + amount) = auths[a].refunded + amount
  BY <1>1, <1>3, PaymentAssumption DEF Wrap, AuthOK
<1>5. auths' = [auths EXCEPT ![a] = auth]
  BY <1>4 DEF Refund
<1>6. auths[a].refunded + amount \in Amount
  BY <1>1, <1>3, PaymentAssumption DEF Amount, AuthOK
<1>7. auth \in Authorization
  BY <1>1, <1>6 DEF Authorization
<1>8. /\ auth.amount = auths[a].amount
      /\ auth.refunded = auths[a].refunded + amount
      /\ auth.chaosMode = auths[a].chaosMode
      /\ auth.status = auths[a].status
  BY <1>1 DEF Authorization
<1> HIDE DEF auth
<1>9. AuthOK(auth) /\ Forward(auths[a], auth)
  BY <1>1, <1>3, <1>8 DEF AuthOK, Forward, Amount
<1> QED
  BY <1>5, <1>7, <1>9, OneAuth

LEMMA NoAuthOK ==
  /\ NoAuth \in Authorization /\ AuthOK(NoAuth)
  /\ [NoAuth EXCEPT !.status = "lost"] \in Authorization
  /\ AuthOK([NoAuth EXCEPT !.status = "lost"])
  /\ [NoAuth EXCEPT !.status = "lost"].status = "lost"
  /\ NoAuth.status = "absent"
<1>1. NoAuth \in Authorization /\ AuthOK(NoAuth) /\ NoAuth.status = "absent"
  BY PaymentAssumption DEF NoAuth, Authorization, Amount, AuthOK
<1>2. /\ NoAuth.amount = 0 /\ NoAuth.refunded = 0
      /\ NoAuth.chaosMode = ""
  BY DEF NoAuth
<1> DEFINE gone == [NoAuth EXCEPT !.status = "lost"]
<1>3. gone \in Authorization
  BY <1>1 DEF Authorization
<1>4. gone.status = "lost" /\ gone.amount = 0 /\ gone.refunded = 0 /\ gone.chaosMode = ""
  BY <1>1, <1>2, StatusUpdate
<1>5. 0 \in 0 .. MaxAmount /\ 0 \in 0 .. 0 /\ ~(0 > 0)
  BY PaymentAssumption
<1>6. AuthOK(gone)
  <2> HIDE DEF gone
  <2> QED
    BY <1>4, <1>5 DEF AuthOK
<1> QED
  BY <1>1, <1>3, <1>4, <1>6

LEMMA PaymentRestartInv ==
  ASSUME PaymentIInv, Restart
  PROVE  PaymentIInv' /\ ForwardOnly
<1>1. PaymentIInv'
  BY NoAuthOK DEF PaymentIInv, Restart, TypeOK
<1>2. ForwardOnly
  BY NoAuthOK DEF Restart, ForwardOnly, Forward
<1> QED
  BY <1>1, <1>2

LEMMA PaymentStepInv ==
  ASSUME PaymentIInv, Next
  PROVE  PaymentIInv' /\ ForwardOnly
<1>1. CASE \E a \in AuthId, amount \in Amount, token \in Token : Authorize(a, amount, token)
  BY <1>1, AuthorizeInv
<1>2. CASE \E a \in AuthId : Capture(a) \/ Void(a)
  BY <1>2, CaptureInv, VoidInv
<1>3. CASE \E a \in AuthId, amount \in Amount : Refund(a, amount)
  BY <1>3, RefundInv
<1>4. CASE Restart
  BY <1>4, PaymentRestartInv
<1> QED
  BY <1>1, <1>2, <1>3, <1>4
     DEF Next, AuthorizeRequest, CaptureRequest, VoidRequest, RefundRequest

\* The inductive invariant holds in every state the provider reaches.
THEOREM PaymentInvariant == Spec => []PaymentIInv
<1>1. Init => PaymentIInv
  BY NoAuthOK DEF Init, PaymentIInv, TypeOK
<1>2. PaymentIInv /\ [Next]_auths => PaymentIInv'
  <2>1. ASSUME PaymentIInv, UNCHANGED auths PROVE PaymentIInv'
    BY <2>1 DEF PaymentIInv, TypeOK, AuthOK
  <2> QED
    BY <2>1, PaymentStepInv
<1> QED
  BY <1>1, <1>2, PTL DEF Spec

\* No sequence of refunds gives back more than was captured (Refund's check
\* of the remaining amount), and the check itself never wraps.
THEOREM RefundSafety == Spec => []RefundsCovered
<1>1. PaymentIInv => RefundsCovered
  <2> SUFFICES ASSUME PaymentIInv, NEW a \in AuthId
               PROVE  /\ auths[a].refunded \in 0 .. auths[a].amount
                      /\ auths[a].refunded > 0 => auths[a].status = "captured"
                      /\ Wrap(auths[a].amount - auths[a].refunded) =
                           auths[a].amount - auths[a].refunded
    BY DEF RefundsCovered
  <2>1. AuthOK(auths[a])
    BY DEF PaymentIInv
  <2> QED
    BY <2>1, PaymentAssumption DEF AuthOK, Wrap
<1> QED
  BY <1>1, PaymentInvariant, PTL

\* A chaos token pins its failure for good (chaosMode set in Authorize).
THEOREM ChaosSafety == Spec => []ChaosHonoured
<1>1. PaymentIInv => ChaosHonoured
  BY DEF PaymentIInv, AuthOK, ChaosHonoured
<1> QED
  BY <1>1, PaymentInvariant, PTL

\* A captured authorization is never voided, a voided one never captured.
THEOREM ForwardSafety == Spec => MoneyMovesForward
<1>1. PaymentIInv /\ [Next]_auths => [ForwardOnly]_auths
  BY PaymentStepInv
<1> QED
  BY <1>1, PaymentInvariant, PTL DEF Spec, MoneyMovesForward

-----------------------------------------------------------------------------
(***************************************************************************)
(* The mutex of the user service makes an accrual atomic, for every number *)
(* of users, calls and restarts: what a call has read is still the balance *)
(* when it writes.  What the balances then add up to is the part after.    *)
(***************************************************************************)

\* Calls that passed the two checks name a user and earn something.
CheckedOK == \A c \in Accrual : calls[c].step \in {"lock", "read", "write"} =>
               calls[c].req.user_id \in UserId /\ calls[c].req.amount > 0

\* What a call has read is the balance until it writes.
ReadIsFresh ==
  \A c \in Accrual : calls[c].step = "write" =>
    /\ users[calls[c].req.user_id] # NoUser
    /\ calls[c].read = users[calls[c].req.user_id].points

UserIInv == UserTypeOK /\ CheckedOK /\ AccrualsExclusive /\ ReadIsFresh

-----------------------------------------------------------------------------
LEMMA UserConstants == MaxPoints \in Nat /\ NoAccrual \notin Accrual /\ 0 \in Points
<1>1. MaxPoints \in Nat
  BY UserAssumption
<1>2. 0 \in Points
  BY <1>1 DEF Points
<1> QED
  BY <1>1, <1>2, UserAssumption DEF NoAccrual

\* int64 addition of a balance and something that is not negative stays an int64.
LEMMA AddPointsType ==
  ASSUME NEW a \in Points, NEW b \in 0 .. MaxPoints
  PROVE  AddPoints(a, b) \in Points
<1>1. MaxPoints \in Nat
  BY UserAssumption
<1> QED
  BY <1>1 DEF AddPoints, Points

LEMMA EarnedType ==
  ASSUME NEW amount \in BookingAmount, amount > 0
  PROVE  Earned(amount) \in 0 .. MaxPoints
<1>1. amount \in Int /\ MaxPoints \in Nat /\ amount \div 100 <= MaxPoints
  BY UserAssumption
<1>2. amount \div 100 \in Int /\ amount \div 100 >= 0
  BY <1>1
<1> QED
  BY <1>1, <1>2 DEF Earned

LEMMA UserExists ==
  ASSUME UserTypeOK, NEW u \in UserId, users[u] # NoUser
  PROVE  users[u] \in UserRecord /\ users[u].points \in Points
BY DEF UserTypeOK, UserRecord

LEMMA UserInitInv == UserInit => UserIInv
<1> SUFFICES ASSUME UserInit PROVE UserIInv
  OBVIOUS
<1>1. 0 \in Points
  BY UserConstants
<1>2. NewCall \in Call /\ NewCall.step = "idle"
  BY <1>1, UserAssumption DEF NewCall, Call, CallStep, AccrueOnBookingRequest,
                              AccrueOnBookingResponse
<1>3. UserTypeOK
  BY <1>2 DEF UserInit, UserTypeOK
<1>4. CheckedOK /\ AccrualsExclusive /\ ReadIsFresh
  BY <1>2, UserAssumption
     DEF UserInit, CheckedOK, AccrualsExclusive, ReadIsFresh, NoAccrual
<1> QED
  BY <1>3, <1>4 DEF UserIInv

\* The RPCs that are one step under the mutex: no call is between its read and its
\* write.
LEMMA UserTableInv ==
  ASSUME UserIInv, \/ \E req \in CreateUserRequest : CreateUser(req)
               \/ \E req \in UpdatePreferencesRequest : UpdatePreferences(req)
  PROVE  UserIInv'
<1>1. /\ mu = NoAccrual /\ mu' = mu /\ calls' = calls
      /\ users \in [UserId -> UserRecord \cup {NoUser}]
  BY DEF CreateUser, UpdatePreferences, UserIInv, UserTypeOK
<1>2. users' \in [UserId -> UserRecord \cup {NoUser}]
  <2>1. CASE \E req \in CreateUserRequest : CreateUser(req)
    <3>1. PICK req \in CreateUserRequest : CreateUser(req)
      BY <2>1
    <3> DEFINE unset == ""
               new == [exists |-> TRUE, currency |-> unset, locale |-> unset, points |-> 0]
    <3>2. unset \in Currency /\ unset \in Locale
      BY UserAssumption
    <3>3. req.user_id \in UserId /\ users' = [users EXCEPT ![req.user_id] = new]
      BY <3>1 DEF CreateUser, CreateUserRequest
    <3> HIDE DEF unset
    <3>4. new \in UserRecord
      BY <3>2, UserConstants DEF UserRecord
    <3> QED
      BY <1>1, <3>3, <3>4
  <2>2. CASE \E req \in UpdatePreferencesRequest : UpdatePreferences(req)
    <3>1. PICK req \in UpdatePreferencesRequest : UpdatePreferences(req)
      BY <2>2
    <3> DEFINE u == req.user_id
               new == [users[u] EXCEPT !.currency = req.currency, !.locale = req.locale]
    <3>2. /\ u \in UserId /\ users[u] # NoUser /\ users' = [users EXCEPT ![u] = new]
          /\ req.currency \in Currency /\ req.locale \in Locale
      BY <1>1, <3>1 DEF UpdatePreferences, UpdatePreferencesRequest
    <3>3. users[u] \in UserRecord
      BY <3>2, UserExists DEF UserIInv
    <3>4. new \in UserRecord
      BY <3>2, <3>3 DEF UserRecord
    <3> QED
      BY <1>1, <3>2, <3>4
  <2> QED
    BY <2>1, <2>2
<1>3. \A c \in Accrual : calls[c].step # "write"
  BY <1>1, UserAssumption DEF UserIInv, AccrualsExclusive, NoAccrual
<1> QED
  BY <1>1, <1>2, <1>3 DEF UserIInv, UserTypeOK, CheckedOK, AccrualsExclusive, ReadIsFresh

\* A call that goes from step to step while no call writes.
LEMMA UserGotoInv ==
  ASSUME UserIInv, NEW c \in Accrual, NEW step \in CallStep, Goto(c, step),
         step \in {"lock", "read"} => calls[c].step \in {"lock", "read"},
         step # "write",
         mu' \in {c, NoAccrual}, step = "read" <=> mu' = c,
         mu \in {c, NoAccrual}, users' = users
  PROVE  UserIInv'
<1>1. /\ calls \in [Accrual -> Call] /\ calls' = [calls EXCEPT ![c].step = step]
      /\ mu' \in Accrual \cup {NoAccrual}
  BY DEF UserIInv, UserTypeOK, Goto
<1>2. /\ calls' \in [Accrual -> Call]
      /\ calls'[c].step = step /\ calls'[c].req = calls[c].req
      /\ \A d \in Accrual : d # c => calls'[d] = calls[d]
  BY <1>1 DEF Call
<1>3. UserTypeOK' /\ CheckedOK'
  BY <1>1, <1>2 DEF UserIInv, UserTypeOK, CheckedOK
<1>4. \A d \in Accrual : d # c => calls[d].step \notin {"read", "write"} /\ d # mu'
  BY UserConstants DEF UserIInv, AccrualsExclusive
<1>5. AccrualsExclusive' /\ ReadIsFresh'
  BY <1>2, <1>4 DEF AccrualsExclusive, ReadIsFresh
<1> QED
  BY <1>3, <1>5 DEF UserIInv

LEMMA UserAskInv ==
  ASSUME UserIInv, NEW c \in Accrual, NEW req \in AccrueOnBookingRequest,
         AccrueOnBooking(c, req)
  PROVE  UserIInv'
<1> DEFINE step == IF req.user_id = "" \/ req.amount <= 0 THEN "refused" ELSE "lock"
<1>1. /\ calls \in [Accrual -> Call] /\ calls[c].step = "idle"
      /\ calls' = [calls EXCEPT ![c].req = req, ![c].step = step]
      /\ users' = users /\ mu' = mu
  BY DEF UserIInv, UserTypeOK, AccrueOnBooking
<1>2. step \in CallStep /\ step \in {"refused", "lock"}
  BY DEF CallStep
<1>3. /\ calls' \in [Accrual -> Call]
      /\ calls'[c].step = step /\ calls'[c].req = req
      /\ \A d \in Accrual : d # c => calls'[d] = calls[d]
  BY <1>1, <1>2 DEF Call
<1>4. req.user_id \in UserId \cup {""} /\ req.amount \in Int
  BY UserAssumption DEF AccrueOnBookingRequest
<1>5. UserTypeOK'
  BY <1>1, <1>3 DEF UserIInv, UserTypeOK
<1>6. CheckedOK'
  <2>1. step = "lock" => req.user_id \in UserId /\ ~(req.amount <= 0)
    BY <1>4, Zenon
  <2>2. req.amount \in Int
    BY <1>4
  <2> HIDE DEF step
  <2> QED
    BY <1>2, <1>3, <2>1, <2>2 DEF UserIInv, CheckedOK
<1>7. AccrualsExclusive' /\ ReadIsFresh'
  BY <1>1, <1>2, <1>3 DEF UserIInv, AccrualsExclusive, ReadIsFresh
<1> QED
  BY <1>5, <1>6, <1>7 DEF UserIInv

LEMMA LockInv == ASSUME UserIInv, NEW c \in Accrual, LockMu(c) PROVE UserIInv'
<1>1. calls[c].step = "lock" /\ mu = NoAccrual /\ mu' = c /\ Goto(c, "read") /\ users' = users
  BY DEF LockMu
<1>2. "read" \in CallStep
  BY DEF CallStep
<1> QED
  BY <1>1, <1>2, UserGotoInv

LEMMA NotFoundInv == ASSUME UserIInv, NEW c \in Accrual, NotFound(c) PROVE UserIInv'
<1>1. /\ calls[c].step = "read" /\ mu' = NoAccrual /\ Goto(c, "refused") /\ users' = users
  BY DEF NotFound
<1>2. mu = c /\ c # NoAccrual
  BY <1>1, UserAssumption DEF UserIInv, AccrualsExclusive, NoAccrual
<1>3. "refused" \in CallStep
  BY DEF CallStep
<1> QED
  BY <1>1, <1>2, <1>3, UserGotoInv

LEMMA ReadInv == ASSUME UserIInv, NEW c \in Accrual, ReadPoints(c) PROVE UserIInv'
<1> DEFINE u == calls[c].req.user_id
<1>1. /\ calls \in [Accrual -> Call] /\ calls[c].step = "read" /\ users[u] # NoUser
      /\ calls' = [calls EXCEPT ![c].step = "write", ![c].read = users[u].points]
      /\ users' = users /\ mu' = mu
  BY DEF UserIInv, UserTypeOK, ReadPoints
<1>2. u \in UserId
  BY <1>1 DEF UserIInv, CheckedOK
<1>3. users[u].points \in Points
  BY <1>1, <1>2, UserExists DEF UserIInv
<1>4. /\ calls' \in [Accrual -> Call]
      /\ calls'[c].step = "write" /\ calls'[c].req = calls[c].req
      /\ calls'[c].read = users[u].points
      /\ \A d \in Accrual : d # c => calls'[d] = calls[d]
  BY <1>1, <1>3 DEF Call, CallStep
<1>5. UserTypeOK' /\ CheckedOK'
  BY <1>1, <1>4 DEF UserIInv, UserTypeOK, CheckedOK
<1>6. AccrualsExclusive' /\ ReadIsFresh'
  BY <1>1, <1>4 DEF UserIInv, AccrualsExclusive, ReadIsFresh
<1> QED
  BY <1>5, <1>6 DEF UserIInv

LEMMA WriteInv == ASSUME UserIInv, NEW c \in Accrual, WritePoints(c) PROVE UserIInv'
<1> DEFINE u == calls[c].req.user_id
           sum == AddPoints(calls[c].read, Earned(calls[c].req.amount))
           new == [users[u] EXCEPT !.points = sum]
<1>1. /\ calls \in [Accrual -> Call] /\ calls[c].step = "write"
      /\ users \in [UserId -> UserRecord \cup {NoUser}]
      /\ users' = [users EXCEPT ![u] = new]
      /\ calls' = [calls EXCEPT ![c].step = "done", ![c].resp = [points |-> sum]]
      /\ mu' = NoAccrual
  BY DEF UserIInv, UserTypeOK, WritePoints
<1>2. u \in UserId /\ calls[c].req.amount > 0 /\ users[u] # NoUser
  BY <1>1 DEF UserIInv, CheckedOK, ReadIsFresh
<1>3. calls[c].req.amount \in BookingAmount /\ calls[c].read \in Points
  BY <1>1 DEF Call, AccrueOnBookingRequest
<1>4. sum \in Points
  BY <1>2, <1>3, AddPointsType, EarnedType
<1> HIDE DEF sum
<1>5. users[u] \in UserRecord
  BY <1>2, UserExists DEF UserIInv
<1>6. new \in UserRecord
  BY <1>4, <1>5 DEF UserRecord
<1>7. users' \in [UserId -> UserRecord \cup {NoUser}]
  BY <1>1, <1>2, <1>6
<1>8. /\ calls' \in [Accrual -> Call]
      /\ calls'[c].step = "done"
      /\ \A d \in Accrual : d # c => calls'[d] = calls[d]
  BY <1>1, <1>4 DEF Call, CallStep, AccrueOnBookingResponse
<1>9. UserTypeOK' /\ CheckedOK'
  BY <1>1, <1>7, <1>8 DEF UserIInv, UserTypeOK, CheckedOK
<1>10. \A d \in Accrual : d # c => calls[d].step \notin {"read", "write"}
  BY <1>1 DEF UserIInv, AccrualsExclusive
<1>11. AccrualsExclusive' /\ ReadIsFresh'
  BY <1>1, <1>8, <1>10, UserAssumption DEF AccrualsExclusive, ReadIsFresh, NoAccrual
<1> QED
  BY <1>9, <1>11 DEF UserIInv

LEMMA UserRestartInv == ASSUME UserIInv, UserRestart PROVE UserIInv'
<1>1. /\ calls \in [Accrual -> Call] /\ mu' = NoAccrual
      /\ users' = [u \in UserId |-> NoUser]
  BY DEF UserIInv, UserTypeOK, UserRestart
<1>2. ASSUME NEW c \in Accrual
      PROVE  calls'[c] \in Call /\ calls'[c].step \in {"idle", "died"}
  BY <1>1 DEF UserRestart, Call, CallStep
<1>3. calls' \in [Accrual -> Call]
  BY <1>2 DEF UserRestart
<1>4. UserTypeOK'
  BY <1>1, <1>3 DEF UserTypeOK
<1>5. CheckedOK' /\ AccrualsExclusive' /\ ReadIsFresh'
  BY <1>1, <1>2, UserAssumption DEF CheckedOK, AccrualsExclusive, ReadIsFresh, NoAccrual
<1> QED
  BY <1>4, <1>5 DEF UserIInv

LEMMA UserStutterInv == ASSUME UserIInv, UNCHANGED userVars PROVE UserIInv'
BY DEF UserIInv, UserTypeOK, CheckedOK, AccrualsExclusive, ReadIsFresh, userVars

\* The inductive invariant holds in every state the service reaches.
THEOREM UserInvariant == UserSpec => []UserIInv
<1>1. UserIInv /\ [UserNext]_userVars => UserIInv'
  BY UserTableInv, UserAskInv, LockInv, NotFoundInv, ReadInv, WriteInv, UserRestartInv, UserStutterInv
     DEF UserNext
<1> QED
  BY <1>1, UserInitInv, PTL DEF UserSpec

\* Users, mutex and calls have their types; no balance leaves int64 (server.go of
\* user).
THEOREM UserTypeCorrect == UserSpec => []UserTypeOK
<1>1. UserIInv => UserTypeOK
  BY DEF UserIInv
<1> QED
  BY <1>1, UserInvariant, PTL

\* From its lock to its unlock a call of AccrueOnBooking is alone, so what it adds
\* its points to is the balance as it is (s.mu of AccrueOnBooking).
THEOREM AccrualsAreAtomic == UserSpec => [](AccrualsExclusive /\ ReadIsFresh)
<1>1. UserIInv => AccrualsExclusive /\ ReadIsFresh
  BY DEF UserIInv
<1> QED
  BY <1>1, UserInvariant, PTL

-----------------------------------------------------------------------------
(***************************************************************************)
(* What the accruals add up to.                                            *)
(***************************************************************************)

\* What the call earns.
Gain(c) == Earned(calls[c].req.amount)

\* bal is the balance after each of the calls of order.
Adds(order, bal) ==
  /\ bal[0] = 0
  /\ \A k \in 1 .. Len(order) : bal[k] = AddPoints(bal[k - 1], Gain(order[k]))

LEMMA FoldedBalance ==
  ASSUME NEW order \in Seq(Accrual), NEW bal, Adds(order, bal), MaxPoints \in Nat,
         \A k \in 1 .. Len(order) : Gain(order[k]) \in 0 .. MaxPoints,
         NEW i \in 0 .. Len(order)
  PROVE  BalanceAfter(order, i) = bal[i]
<1> DEFINE first == SubSeq(order, 1, i)
           Sum(it) == [s \in SUBSET DOMAIN first |->
                        IF s = {} THEN 0 ELSE AddPoints(it[s \ {Max(s)}], Gain(first[Max(s)]))]
           J == CHOOSE it : it = Sum(it)
           F == [p \in Points \X (1 .. i) |-> AddPoints(p[1], Gain(order[p[2]]))]
<1>1. BalanceAfter(order, i) = J[DOMAIN first]
  BY Zenon DEF BalanceAfter, FoldLeft, MapThenFoldSet, Gain
<1>2. i \in Nat /\ DOMAIN first = 1 .. i /\ \A k \in 1 .. i : first[k] = order[k]
  OBVIOUS
<1>3. \A k \in 1 .. i : k \in 1 .. Len(order) /\ Gain(order[k]) \in 0 .. MaxPoints
  OBVIOUS
<1>4. F \in [Points \X (1 .. i) -> Points]
  BY <1>3, AddPointsType
<1>5. 0 \in Points
  BY UserConstants
<1> HIDE DEF first
<1>6. \E it : it = Sum(it)
  <2> HIDE DEF F
  <2>1. PICK it \in [SUBSET (1 .. i) -> Points] : Folds(it, i, 0, F)
    <3>1. i \in Nat
      BY <1>2
    <3> QED
      BY <3>1, <1>4, <1>5, FoldDefined
  <2>2. ASSUME NEW s \in SUBSET (1 .. i), s # {}
        PROVE  F[<<it[s \ {Max(s)}], Max(s)>>] = AddPoints(it[s \ {Max(s)}], Gain(first[Max(s)]))
    <3>1. Max(s) \in 1 .. i
      BY <1>2, <2>2, MaxIsIn
    <3>2. it[s \ {Max(s)}] \in Points
      BY <2>1
    <3> QED
      BY <1>2, <3>1, <3>2 DEF F
  <2>3. it = Sum(it)
    BY <1>2, <2>1, <2>2 DEF Folds
  <2> QED
    BY <2>3
<1>7. J = Sum(J)
  BY <1>6
<1> HIDE DEF J, F
<1>8. \A s \in SUBSET (1 .. i) :
        J[s] = IF s = {} THEN 0 ELSE AddPoints(J[s \ {Max(s)}], Gain(first[Max(s)]))
  BY <1>2, <1>7
<1> HIDE DEF Sum
<1> DEFINE Agree == {k \in Nat : k <= i => J[1 .. k] = bal[k]}
<1>9. 0 \in Agree
  <2>1. 1 .. 0 = {}
    OBVIOUS
  <2>2. J[{}] = 0
    BY <1>8
  <2> QED
    BY <2>1, <2>2 DEF Adds
<1>10. ASSUME NEW k \in Nat, k \in Agree PROVE k + 1 \in Agree
  <2> SUFFICES ASSUME k + 1 <= i PROVE J[1 .. (k + 1)] = bal[k + 1]
    OBVIOUS
  <2>1. /\ 1 .. (k + 1) \in SUBSET (1 .. i) /\ k + 1 \in 1 .. (k + 1)
        /\ (1 .. (k + 1)) \ {k + 1} = 1 .. k
        /\ k + 1 \in 1 .. i
    BY <1>2
  <2>2. Max(1 .. (k + 1)) = k + 1
    BY <2>1, MaxIsLast
  <2>3. J[1 .. (k + 1)] = AddPoints(J[1 .. k], Gain(order[k + 1]))
    BY <1>2, <1>8, <2>1, <2>2
  <2>4. bal[k + 1] = AddPoints(bal[k], Gain(order[k + 1]))
    BY <1>3, <2>1 DEF Adds
  <2>5. J[1 .. k] = bal[k]
    BY <1>2, <1>10
  <2> QED
    BY <2>3, <2>4, <2>5
<1>11. i \in Agree
  BY <1>2, <1>9, <1>10, Induction
<1> QED
  BY <1>1, <1>2, <1>11

\* The order in which the accruals of u took the mutex, and the balances that
\* they answered.
Ledger(u, order, bal) ==
  /\ order \in SetToSeqs(Accrued(u))
  /\ Adds(order, bal)
  /\ bal[Len(order)] = users[u].points
  /\ \A k \in 1 .. Len(order) : calls[order[k]].resp.points = bal[k]

BalanceOK(u) ==
  /\ IsFiniteSet(Accrued(u))
  /\ users[u] = NoUser => Accrued(u) = {}
  /\ users[u] # NoUser => \E order, bal : Ledger(u, order, bal)

\* A call that is done has passed the two checks.
DoneOK == \A c \in Accrual : calls[c].step = "done" =>
            calls[c].req.user_id \in UserId /\ calls[c].req.amount > 0

BalancesOK == DoneOK /\ \A u \in UserId : BalanceOK(u)

\* An order of a finite set is a sequence of its elements.
LEMMA OrderType ==
  ASSUME NEW S, IsFiniteSet(S), NEW order \in SetToSeqs(S)
  PROVE  /\ Cardinality(S) \in Nat
         /\ order \in [1 .. Cardinality(S) -> S]
         /\ order \in Seq(S) /\ Len(order) = Cardinality(S)
         /\ \A i, j \in 1 .. Len(order) : i # j => order[i] # order[j]
<1>1. Cardinality(S) \in Nat
  BY FS_CardinalityType
<1>2. /\ order \in [1 .. Cardinality(S) -> S]
      /\ \A i, j \in 1 .. Cardinality(S) : i # j => order[i] # order[j]
  BY DEF SetToSeqs
<1> QED
  BY <1>1, <1>2

\* What happens elsewhere leaves the account of u in order.
SameAccount(u) ==
  /\ Accrued(u)' = Accrued(u)
  /\ \A c \in Accrued(u) : calls'[c].req = calls[c].req /\ calls'[c].resp = calls[c].resp
  /\ users'[u] = NoUser <=> users[u] = NoUser
  /\ users[u] # NoUser => users'[u].points = users[u].points

LEMMA AccountKept ==
  ASSUME NEW u \in UserId, BalanceOK(u), SameAccount(u)
  PROVE  BalanceOK(u)'
<1>1. /\ IsFiniteSet(Accrued(u)')
      /\ users'[u] = NoUser => Accrued(u)' = {}
  BY DEF BalanceOK, SameAccount
<1>2. ASSUME NEW order, NEW bal, Ledger(u, order, bal), users[u] # NoUser
      PROVE  Ledger(u, order, bal)'
  <2>1. order \in SetToSeqs(Accrued(u)) /\ order \in SetToSeqs(Accrued(u)')
    BY <1>2 DEF Ledger, SameAccount
  <2>2. \A k \in 1 .. Len(order) : order[k] \in Accrued(u)
    BY <2>1, OrderType DEF BalanceOK
  <2>3. \A k \in 1 .. Len(order) :
          /\ calls'[order[k]].req = calls[order[k]].req
          /\ calls'[order[k]].resp = calls[order[k]].resp
    BY <2>2 DEF SameAccount
  <2>4. Adds(order, bal)'
    BY <1>2, <2>3 DEF Ledger, Adds, Gain
  <2> QED
    BY <1>2, <2>1, <2>3, <2>4 DEF Ledger, SameAccount
<1> QED
  BY <1>1, <1>2 DEF BalanceOK, SameAccount

\* A call that is not done and does not get done changes no account.
LEMMA UndoneMoves ==
  ASSUME BalancesOK, NEW c \in Accrual, users' = users,
         calls[c].step # "done", calls'[c].step # "done",
         \A d \in Accrual : d # c => calls'[d] = calls[d]
  PROVE  BalancesOK'
<1>1. DoneOK'
  BY DEF BalancesOK, DoneOK
<1>2. ASSUME NEW u \in UserId PROVE SameAccount(u)
  BY DEF SameAccount, Accrued
<1> QED
  BY <1>1, <1>2, AccountKept DEF BalancesOK

LEMMA BalancesInit == UserInit => BalancesOK
<1> SUFFICES ASSUME UserInit PROVE BalancesOK
  OBVIOUS
<1>1. \A c \in Accrual : calls[c].step = "idle"
  BY DEF UserInit, NewCall
<1>2. \A u \in UserId : Accrued(u) = {} /\ users[u] = NoUser
  BY <1>1 DEF UserInit, Accrued
<1> QED
  BY <1>1, <1>2, FS_EmptySet DEF BalancesOK, BalanceOK, DoneOK

LEMMA EmptyLedger ==
  ASSUME NEW u \in UserId, Accrued(u)' = {}, users'[u].points = 0
  PROVE  (\E order, bal : Ledger(u, order, bal))'
<1> DEFINE bal == [k \in {0} |-> 0]
<1>1. <<>> \in SetToSeqs({})
  <2>1. Cardinality({}) = 0
    BY FS_EmptySet
  <2> QED
    BY <2>1 DEF SetToSeqs
<1>2. Adds(<<>>, bal)' /\ bal[Len(<<>>)] = 0
  BY DEF Adds
<1>3. Ledger(u, <<>>, bal)'
  BY <1>1, <1>2 DEF Ledger
<1> QED
  BY <1>3

LEMMA TableBalances ==
  ASSUME UserIInv, BalancesOK,
         \/ \E req \in CreateUserRequest : CreateUser(req)
         \/ \E req \in UpdatePreferencesRequest : UpdatePreferences(req)
  PROVE  BalancesOK'
<1>1. /\ calls' = calls /\ users \in [UserId -> UserRecord \cup {NoUser}]
  BY DEF CreateUser, UpdatePreferences, UserIInv, UserTypeOK
<1>2. DoneOK' /\ \A u \in UserId : Accrued(u)' = Accrued(u)
  BY <1>1 DEF BalancesOK, DoneOK, Accrued
<1>3. ASSUME NEW u \in UserId PROVE BalanceOK(u)'
  <2>1. CASE users'[u] = users[u]
    BY <1>1, <1>2, <1>3, <2>1, AccountKept DEF SameAccount, BalancesOK
  <2>2. ASSUME NEW req \in CreateUserRequest, CreateUser(req), req.user_id = u
        PROVE  BalanceOK(u)'
    <3> DEFINE unset == ""
               new == [exists |-> TRUE, currency |-> unset, locale |-> unset, points |-> 0]
    <3>1. users[u] = NoUser /\ users'[u] = new
      BY <1>1, <2>2 DEF CreateUser
    <3> HIDE DEF unset
    <3>2. users'[u].points = 0 /\ users'[u].exists = TRUE
      BY <3>1
    <3>3. users'[u] # NoUser
      BY <3>2 DEF NoUser
    <3>4. Accrued(u)' = {}
      BY <1>2, <1>3, <3>1 DEF BalancesOK, BalanceOK
    <3>5. (\E order, bal : Ledger(u, order, bal))'
      BY <3>2, <3>4, EmptyLedger
    <3> QED
      BY <3>3, <3>4, <3>5, FS_EmptySet DEF BalanceOK
  <2>3. ASSUME NEW req \in UpdatePreferencesRequest, UpdatePreferences(req), req.user_id = u
        PROVE  BalanceOK(u)'
    <3> DEFINE new == [users[u] EXCEPT !.currency = req.currency, !.locale = req.locale]
    <3>1. users[u] # NoUser /\ users'[u] = new
      BY <1>1, <2>3 DEF UpdatePreferences
    <3>2. users[u] \in UserRecord
      BY <3>1, UserExists DEF UserIInv
    <3>3. new.points = users[u].points /\ new.exists
      BY <3>2 DEF UserRecord
    <3>4. new # NoUser
      BY <3>3 DEF NoUser
    <3> HIDE DEF new
    <3>5. SameAccount(u)
      BY <1>1, <1>2, <3>1, <3>3, <3>4 DEF SameAccount
    <3> QED
      BY <3>5, AccountKept DEF BalancesOK
  <2>4. \/ users'[u] = users[u]
        \/ \E req \in CreateUserRequest : CreateUser(req) /\ req.user_id = u
        \/ \E req \in UpdatePreferencesRequest : UpdatePreferences(req) /\ req.user_id = u
    BY <1>1 DEF CreateUser, UpdatePreferences
  <2> QED
    BY <2>1, <2>2, <2>3, <2>4
<1> QED
  BY <1>2, <1>3 DEF BalancesOK

\* The accrual that ends is the last of its user's, and answers the balance it
\* wrote.
LEMMA WriteBalances ==
  ASSUME UserIInv, BalancesOK, NEW c \in Accrual, WritePoints(c)
  PROVE  BalancesOK'
<1>0. PICK u, sum : /\ u = calls[c].req.user_id
                    /\ sum = AddPoints(calls[c].read, Gain(c))
  OBVIOUS
<1>1. /\ calls[c].step = "write" /\ calls \in [Accrual -> Call]
      /\ users \in [UserId -> UserRecord \cup {NoUser}]
      /\ users' = [users EXCEPT ![u].points = sum]
      /\ calls' = [calls EXCEPT ![c].step = "done", ![c].resp = [points |-> sum]]
  BY <1>0 DEF UserIInv, UserTypeOK, WritePoints, Gain
<1>2. /\ u \in UserId /\ calls[c].req.amount > 0 /\ users[u] # NoUser
      /\ calls[c].read = users[u].points
  BY <1>0, <1>1 DEF UserIInv, CheckedOK, ReadIsFresh
<1>3. users[u] \in UserRecord
  BY <1>2, UserExists DEF UserIInv
<1>4. /\ calls'[c].step = "done" /\ calls'[c].req = calls[c].req
      /\ calls'[c].resp.points = sum
      /\ \A d \in Accrual : d # c => calls'[d] = calls[d]
      /\ users'[u] # NoUser /\ users'[u].points = sum
      /\ \A v \in UserId : v # u => users'[v] = users[v]
  BY <1>1, <1>2, <1>3 DEF Call, UserRecord, NoUser
<1>5. DoneOK'
  BY <1>0, <1>1, <1>2, <1>4 DEF BalancesOK, DoneOK
<1>6. ASSUME NEW v \in UserId, v # u PROVE BalanceOK(v)'
  <2>1. SameAccount(v)
    BY <1>0, <1>1, <1>4, <1>6 DEF SameAccount, Accrued
  <2> QED
    BY <2>1, AccountKept DEF BalancesOK
<1>7. BalanceOK(u)'
  <2>1. c \notin Accrued(u) /\ Accrued(u)' = Accrued(u) \cup {c} /\ IsFiniteSet(Accrued(u))
    BY <1>0, <1>1, <1>2, <1>4 DEF Accrued, BalancesOK, BalanceOK
  <2>2. /\ IsFiniteSet(Accrued(u)') /\ Cardinality(Accrued(u)') = Cardinality(Accrued(u)) + 1
    BY <2>1, FS_AddElement
  <2>3. PICK order, bal : Ledger(u, order, bal)
    BY <1>2 DEF BalancesOK, BalanceOK
  <2> DEFINE n == Len(order)
             longer == Append(order, c)
             more == [k \in 0 .. (n + 1) |-> IF k = n + 1 THEN sum ELSE bal[k]]
  <2>4. /\ n \in Nat /\ n = Cardinality(Accrued(u))
        /\ order \in [1 .. n -> Accrued(u)] /\ order \in Seq(Accrued(u))
        /\ \A i, j \in 1 .. n : i # j => order[i] # order[j]
    BY <2>1, <2>3, OrderType DEF Ledger
  <2>5. /\ Len(longer) = n + 1 /\ longer[n + 1] = c
        /\ \A k \in 1 .. n : longer[k] = order[k]
        /\ longer \in [1 .. (n + 1) -> Accrued(u)']
    <3>1. /\ Len(longer) = n + 1 /\ longer[n + 1] = c
          /\ \A k \in 1 .. n : longer[k] = order[k]
      BY <2>4
    <3>2. \A k \in 1 .. (n + 1) : longer[k] \in Accrued(u)'
      BY <2>1, <2>4, <3>1
    <3>3. longer \in Seq(Accrual)
      BY <2>4 DEF Accrued
    <3> HIDE DEF longer
    <3>4. longer \in [1 .. (n + 1) -> Accrual]
      BY <3>1, <3>3
    <3> QED
      BY <3>1, <3>2, <3>4
  <2>6. longer \in SetToSeqs(Accrued(u)')
    <3>1. \A i, j \in 1 .. (n + 1) : i # j => longer[i] # longer[j]
      BY <2>1, <2>4, <2>5
    <3> QED
      BY <2>2, <2>4, <2>5, <3>1 DEF SetToSeqs
  <2>7. ASSUME NEW k \in 1 .. n
        PROVE  /\ calls'[order[k]] = calls[order[k]]
               /\ more[k] = bal[k] /\ more[k - 1] = bal[k - 1]
    <3>1. order[k] \in Accrued(u) /\ order[k] # c /\ order[k] \in Accrual
      BY <2>1, <2>4 DEF Accrued
    <3> QED
      BY <1>4, <2>4, <3>1
  <2>8. /\ more[0] = 0 /\ more[n + 1] = sum /\ more[n] = bal[n]
        /\ bal[n] = users[u].points
    BY <2>3, <2>4 DEF Ledger, Adds
  <2> HIDE DEF longer, more, n
  <2>9. Adds(longer, more)'
    <3>1. \A k \in 1 .. n : more[k] = AddPoints(more[k - 1], Gain(longer[k])')
      BY <2>3, <2>5, <2>7 DEF Ledger, Adds, Gain, n
    <3>2. more[n + 1] = AddPoints(more[n], Gain(longer[n + 1])')
      BY <1>0, <1>2, <1>4, <2>5, <2>8 DEF Gain
    <3>3. \A k \in 1 .. (n + 1) : more[k] = AddPoints(more[k - 1], Gain(longer[k])')
      BY <2>4, <3>1, <3>2
    <3> QED
      BY <2>5, <2>8, <3>3 DEF Adds
  <2>10. \A k \in 1 .. (n + 1) : calls'[longer[k]].resp.points = more[k]
    <3>1. \A k \in 1 .. n : calls'[longer[k]].resp.points = more[k]
      BY <2>3, <2>5, <2>7 DEF Ledger, n
    <3> QED
      BY <1>4, <2>4, <2>5, <2>8, <3>1
  <2>11. Ledger(u, longer, more)'
    BY <1>4, <2>5, <2>6, <2>8, <2>9, <2>10 DEF Ledger
  <2> QED
    BY <1>4, <2>2, <2>11 DEF BalanceOK
<1>8. \A v \in UserId : BalanceOK(v)'
  BY <1>6, <1>7
<1> QED
  BY <1>5, <1>8, Zenon DEF BalancesOK

LEMMA RestartBalances ==
  ASSUME UserIInv, BalancesOK, UserRestart
  PROVE  BalancesOK'
<1>1. \A c \in Accrual : calls'[c].step # "done"
  BY DEF UserRestart, UserIInv, UserTypeOK, Call
<1>2. \A u \in UserId : users'[u] = NoUser /\ Accrued(u)' = {}
  BY <1>1 DEF UserRestart, Accrued
<1> QED
  BY <1>1, <1>2, FS_EmptySet DEF BalancesOK, BalanceOK, DoneOK

LEMMA NextBalances == UserIInv /\ BalancesOK /\ [UserNext]_userVars => BalancesOK'
<1> SUFFICES ASSUME UserIInv, BalancesOK, [UserNext]_userVars PROVE BalancesOK'
  OBVIOUS
<1>1. ASSUME NEW c \in Accrual, NEW req \in AccrueOnBookingRequest, AccrueOnBooking(c, req)
      PROVE  BalancesOK'
  <2>1. /\ users' = users /\ calls[c].step = "idle" /\ calls'[c].step \in {"refused", "lock"}
        /\ \A d \in Accrual : d # c => calls'[d] = calls[d]
    BY <1>1 DEF AccrueOnBooking, UserIInv, UserTypeOK, Call
  <2> QED
    BY <2>1, UndoneMoves
<1>2. ASSUME NEW c \in Accrual, LockMu(c) \/ NotFound(c) \/ ReadPoints(c)
      PROVE  BalancesOK'
  <2>1. /\ users' = users /\ calls[c].step \in {"lock", "read"}
        /\ calls'[c].step \in {"read", "refused", "write"}
        /\ \A d \in Accrual : d # c => calls'[d] = calls[d]
    BY <1>2 DEF LockMu, NotFound, ReadPoints, Goto, UserIInv, UserTypeOK, Call
  <2> QED
    BY <2>1, UndoneMoves
<1>3. CASE UNCHANGED userVars
  <2>1. \A u \in UserId : SameAccount(u)
    BY <1>3 DEF userVars, SameAccount, Accrued
  <2> QED
    BY <1>3, <2>1, AccountKept DEF BalancesOK, DoneOK, userVars
<1> QED
  BY <1>1, <1>2, <1>3, TableBalances, WriteBalances, RestartBalances DEF UserNext

\* In every state the balance of a user, and every balance that was answered, is
\* what the accruals add up to in the order in which they took the mutex.
THEOREM NoAccrualIsLost == UserSpec => []PointsLinearizable
<1>1. UserIInv /\ BalancesOK => PointsLinearizable
  <2> SUFFICES ASSUME UserIInv, BalancesOK, NEW u \in UserId, users[u] # NoUser
               PROVE  \E order \in SetToSeqs(Accrued(u)) :
                        /\ GetPointsResponse(u).points = BalanceAfter(order, Len(order))
                        /\ \A i \in DOMAIN order :
                             calls[order[i]].resp.points = BalanceAfter(order, i)
    BY DEF PointsLinearizable
  <2>1. PICK order, bal : Ledger(u, order, bal)
    BY DEF BalancesOK, BalanceOK
  <2>2. /\ order \in SetToSeqs(Accrued(u)) /\ Adds(order, bal)
        /\ Len(order) \in Nat /\ DOMAIN order = 1 .. Len(order)
        /\ order \in [1 .. Len(order) -> Accrued(u)] /\ order \in Seq(Accrual)
    <3>1. IsFiniteSet(Accrued(u)) /\ order \in SetToSeqs(Accrued(u)) /\ Adds(order, bal)
      BY <2>1 DEF BalancesOK, BalanceOK, Ledger
    <3>2. order \in Seq(Accrued(u)) /\ Accrued(u) \subseteq Accrual
      BY <3>1, OrderType DEF Accrued
    <3> QED
      BY <3>1, <3>2, OrderType
  <2>3. \A k \in 1 .. Len(order) : Gain(order[k]) \in 0 .. MaxPoints
    <3>1. ASSUME NEW c \in Accrued(u) PROVE Gain(c) \in 0 .. MaxPoints
      <4>1. c \in Accrual /\ calls[c].req.amount > 0
        BY DEF BalancesOK, DoneOK, Accrued
      <4>2. calls[c].req.amount \in BookingAmount
        BY <4>1 DEF UserIInv, UserTypeOK, Call, AccrueOnBookingRequest
      <4> QED
        BY <4>1, <4>2, EarnedType DEF Gain
    <3> QED
      BY <2>2, <3>1
  <2>4. \A i \in 0 .. Len(order) : BalanceAfter(order, i) = bal[i]
    BY <2>2, <2>3, UserConstants, FoldedBalance
  <2>5. GetPointsResponse(u).points = users[u].points
    BY DEF GetPointsResponse
  <2> QED
    BY <2>1, <2>2, <2>4, <2>5 DEF Ledger
<1> QED
  BY <1>1, BalancesInit, NextBalances, UserInvariant, PTL DEF UserSpec

-----------------------------------------------------------------------------
(***************************************************************************)
(* What an access token says, and for how long, for every number of        *)
(* accounts, sessions, tokens, restarts and ticks of the clock.            *)
(***************************************************************************)

\* A token was minted at or before the end of its session, if that has ended.
TimeOK == \A t \in minted :
            /\ t.exp = t.iat + TokenLifetime /\ t.iat <= now
            /\ sessions[t.session].state # "unused"
            /\ sessions[t.session].state \in {"revoked", "lost"}
                 => t.iat <= sessions[t.session].endedAt

\* While its session lives the account it was minted for is there, with its id.
LiveOK == \A t \in minted :
            sessions[t.session].state = "live" =>
              /\ sessions[t.session].userID = t.sub
              /\ accounts[t.email] # NoAccount
              /\ accounts[t.email].userID = t.sub

\* The counter gives every account of a process an id of its own.
IdsOK == /\ \A e \in Email : accounts[e] # NoAccount => accounts[e].userID <= nextID
         /\ \A e, f \in Email :
              /\ accounts[e] # NoAccount /\ accounts[f] # NoAccount
              /\ accounts[e].userID = accounts[f].userID
              => e = f

AuthIInv == AuthTypeOK /\ TimeOK /\ LiveOK /\ IdsOK

-----------------------------------------------------------------------------
\* An account is not mistaken for a missing one.
LEMMA AccountExists ==
  ASSUME AuthTypeOK, NEW e \in Email, accounts[e] # NoAccount
  PROVE  accounts[e] \in Account /\ accounts[e].userID \in Nat /\ accounts[e].userID # 0
BY DEF AuthTypeOK, Account

LEMMA AuthInitInv == AuthInit => AuthIInv
BY DEF AuthInit, AuthIInv, AuthTypeOK, TimeOK, LiveOK, IdsOK, Session, Unused

LEMMA RegisterInv ==
  ASSUME AuthIInv, NEW req \in RegisterRequest, Register(req)
  PROVE  AuthIInv'
<1> DEFINE new == [userID |-> nextID + 1, password |-> req.password]
<1>1. /\ req.email \in Email /\ req.password \in Password /\ nextID \in Nat
      /\ accounts \in [Email -> Account \cup {NoAccount}]
      /\ accounts[req.email] = NoAccount
  BY DEF RegisterRequest, Register, AuthIInv, AuthTypeOK
<1>2. /\ accounts' = [accounts EXCEPT ![req.email] = new] /\ nextID' = nextID + 1
      /\ sessions' = sessions /\ minted' = minted /\ now' = now
  BY DEF Register
<1>3. new \in Account /\ new # NoAccount
  BY <1>1 DEF Account, NoAccount
<1>4. AuthTypeOK'
  BY <1>1, <1>2, <1>3 DEF AuthIInv, AuthTypeOK
<1>5. TimeOK'
  BY <1>2 DEF AuthIInv, TimeOK
<1>6. LiveOK'
  BY <1>1, <1>2 DEF AuthIInv, LiveOK, AuthTypeOK, AccessToken
<1>7. \A e \in Email : accounts[e] # NoAccount => accounts[e].userID \in Nat
  BY AccountExists DEF AuthIInv
<1>8. IdsOK'
  <2>1. \A e \in Email : e # req.email => accounts'[e] = accounts[e]
    BY <1>1, <1>2
  <2>2. accounts'[req.email].userID = nextID + 1
    BY <1>1, <1>2
  <2> QED
    BY <1>1, <1>2, <1>7, <2>1, <2>2 DEF AuthIInv, IdsOK
<1> QED
  BY <1>4, <1>5, <1>6, <1>8 DEF AuthIInv

\* A new token is for the session and the account it is minted for.
LEMMA MintInv ==
  ASSUME AuthIInv, NEW id, NEW r \in RefreshToken, NEW e \in Email,
         MintToken(id, r, e), id \in Nat \ {0},
         accounts' = accounts, nextID' = nextID, now' = now,
         sessions' \in [RefreshToken -> Session],
         sessions'[r].state = "live", sessions'[r].userID = id,
         accounts[e] # NoAccount, accounts[e].userID = id,
         \A q \in RefreshToken : q = r \/ sessions'[q] = sessions[q],
         \A t \in minted : t.session = r => sessions[r] = sessions'[r]
  PROVE  AuthIInv'
<1> DEFINE new == [sub |-> id, iat |-> now, exp |-> now + TokenLifetime,
                   session |-> r, email |-> e]
<1>1. minted' = minted \cup {new}
  BY DEF MintToken
<1>2. now \in Nat /\ TokenLifetime \in Nat
  BY AuthAssumption DEF AuthIInv, AuthTypeOK
<1>3. new \in AccessToken
  BY <1>2 DEF AccessToken
<1>4. AuthTypeOK'
  BY <1>1, <1>3 DEF AuthIInv, AuthTypeOK
<1>5. \A t \in minted : sessions'[t.session] = sessions[t.session]
  BY DEF AuthIInv, AuthTypeOK, AccessToken
<1>6. TimeOK'
  BY <1>1, <1>2, <1>5 DEF AuthIInv, TimeOK
<1>7. LiveOK'
  BY <1>1, <1>5 DEF AuthIInv, LiveOK
<1>8. IdsOK'
  BY DEF AuthIInv, IdsOK
<1> QED
  BY <1>4, <1>6, <1>7, <1>8 DEF AuthIInv

LEMMA LoginInv ==
  ASSUME AuthIInv, NEW req \in LoginRequest, NEW r \in RefreshToken, Login(req, r)
  PROVE  AuthIInv'
<1> DEFINE id == accounts[req.email].userID
           opened == [state |-> "live", userID |-> id, endedAt |-> 0]
<1>1. /\ req.email \in Email /\ accounts[req.email] # NoAccount
      /\ sessions[r] = Unused /\ MintToken(id, r, req.email)
      /\ sessions' = [sessions EXCEPT ![r] = opened]
      /\ accounts' = accounts /\ nextID' = nextID /\ now' = now
  BY DEF Login, LoginRequest
<1>2. id \in Nat /\ id # 0
  BY <1>1, AccountExists DEF AuthIInv
<1>3. sessions \in [RefreshToken -> Session]
  BY DEF AuthIInv, AuthTypeOK
<1>4. opened \in Session
  BY <1>2 DEF Session
<1>5. /\ sessions' \in [RefreshToken -> Session]
      /\ sessions'[r] = opened
      /\ \A q \in RefreshToken : q = r \/ sessions'[q] = sessions[q]
  BY <1>1, <1>3, <1>4
<1>6. \A t \in minted : t.session # r
  BY <1>1 DEF AuthIInv, TimeOK, Unused
<1> QED
  BY <1>1, <1>2, <1>5, <1>6, MintInv

LEMMA RefreshInv ==
  ASSUME AuthIInv, NEW req \in RefreshRequest, Refresh(req)
  PROVE  AuthIInv'
<1> DEFINE r == req.refresh_token
<1>1. /\ r \in RefreshToken /\ sessions[r].state = "live"
      /\ accounts' = accounts /\ nextID' = nextID /\ now' = now /\ sessions' = sessions
  BY DEF Refresh, RefreshRequest
<1>2. PICK t \in minted : t.session = r /\ MintToken(sessions[r].userID, t.session, t.email)
  BY DEF Refresh
<1>3. t \in AccessToken
  BY DEF AuthIInv, AuthTypeOK
<1>4. t.email \in Email /\ t.sub \in Nat \ {0}
  BY <1>3 DEF AccessToken
<1>5. /\ sessions[r].userID = t.sub
      /\ accounts[t.email] # NoAccount /\ accounts[t.email].userID = t.sub
  BY <1>1, <1>2 DEF AuthIInv, LiveOK
<1>6. sessions' \in [RefreshToken -> Session]
  BY <1>1 DEF AuthIInv, AuthTypeOK
<1> QED
  BY <1>1, <1>2, <1>4, <1>5, <1>6, MintInv

LEMMA LogoutInv ==
  ASSUME AuthIInv, NEW req \in LogoutRequest, Logout(req)
  PROVE  AuthIInv'
<1> DEFINE r == req.refresh_token
<1>1. /\ r \in RefreshToken /\ now \in Nat
      /\ sessions \in [RefreshToken -> Session] /\ sessions[r].state = "live"
      /\ sessions' = [sessions EXCEPT ![r].state = "revoked", ![r].endedAt = now]
      /\ UNCHANGED <<accounts, nextID, minted, now>>
  BY DEF Logout, LogoutRequest, AuthIInv, AuthTypeOK
<1>2. /\ sessions' \in [RefreshToken -> Session]
      /\ sessions'[r].state = "revoked" /\ sessions'[r].endedAt = now
      /\ \A q \in RefreshToken : q # r => sessions'[q] = sessions[q]
  BY <1>1 DEF Session
<1>3. \A t \in minted : t.session \in RefreshToken
  BY DEF AuthIInv, AuthTypeOK, AccessToken
<1>4. AuthTypeOK'
  BY <1>1, <1>2 DEF AuthIInv, AuthTypeOK
<1>5. TimeOK' /\ LiveOK'
  BY <1>1, <1>2, <1>3 DEF AuthIInv, TimeOK, LiveOK
<1>6. IdsOK'
  BY <1>1 DEF AuthIInv, IdsOK
<1> QED
  BY <1>4, <1>5, <1>6 DEF AuthIInv

LEMMA AuthRestartInv == ASSUME AuthIInv, AuthRestart PROVE AuthIInv'
<1>1. /\ now \in Nat /\ sessions \in [RefreshToken -> Session]
      /\ accounts' = [e \in Email |-> NoAccount] /\ nextID' = 0
      /\ UNCHANGED <<minted, now>>
  BY DEF AuthRestart, AuthIInv, AuthTypeOK
<1>2. ASSUME NEW r \in RefreshToken
      PROVE  /\ sessions'[r] \in Session
             /\ sessions'[r].state # "live"
             /\ \/ sessions'[r] = sessions[r]
                \/ sessions'[r].state = "lost" /\ sessions'[r].endedAt = now
  BY <1>1 DEF AuthRestart, Session
<1>3. sessions' \in [RefreshToken -> Session]
  BY <1>2 DEF AuthRestart
<1>4. \A t \in minted : t.session \in RefreshToken
  BY DEF AuthIInv, AuthTypeOK, AccessToken
<1>5. AuthTypeOK'
  BY <1>1, <1>3 DEF AuthIInv, AuthTypeOK
<1>6. TimeOK' /\ LiveOK'
  BY <1>1, <1>2, <1>4 DEF AuthIInv, TimeOK, LiveOK
<1>7. IdsOK'
  BY <1>1 DEF IdsOK
<1> QED
  BY <1>5, <1>6, <1>7 DEF AuthIInv

LEMMA TickInv == ASSUME AuthIInv, Tick \/ UNCHANGED authVars PROVE AuthIInv'
<1>1. now \in Nat /\ \A t \in minted : t.iat \in Nat
  BY DEF AuthIInv, AuthTypeOK, AccessToken
<1>2. now' \in Nat /\ now <= now' /\ UNCHANGED <<accounts, nextID, sessions, minted>>
  BY <1>1 DEF Tick, authVars
<1>3. AuthTypeOK'
  BY <1>2 DEF AuthIInv, AuthTypeOK
<1>4. TimeOK'
  BY <1>1, <1>2 DEF AuthIInv, TimeOK
<1>5. LiveOK' /\ IdsOK'
  BY <1>2 DEF AuthIInv, LiveOK, IdsOK
<1> QED
  BY <1>3, <1>4, <1>5 DEF AuthIInv

\* The inductive invariant holds in every state the service reaches.
THEOREM AuthInvariant == AuthSpec => []AuthIInv
<1>1. AuthIInv /\ [AuthNext]_authVars => AuthIInv'
  BY RegisterInv, LoginInv, RefreshInv, LogoutInv, AuthRestartInv, TickInv DEF AuthNext
<1> QED
  BY <1>1, AuthInitInv, PTL DEF AuthSpec

\* Accounts, sessions, tokens and the clock have their types (server.go of auth).
THEOREM AuthTypeCorrect == AuthSpec => []AuthTypeOK
<1>1. AuthIInv => AuthTypeOK
  BY DEF AuthIInv
<1> QED
  BY <1>1, AuthInvariant, PTL

\* A session that has ended gives access for less than the lifetime of one token
\* more (Refresh under the mutex of Logout, and the expiry that VerifyToken checks).
THEOREM EndedSessionsExpire == AuthSpec => []AccessEnds
<1>1. AuthIInv => AccessEnds
  <2> SUFFICES ASSUME AuthIInv, NEW t \in minted,
                      sessions[t.session].state \in {"revoked", "lost"}, Verified(t)
               PROVE  now < sessions[t.session].endedAt + TokenLifetime
    BY DEF AccessEnds
  <2>1. t.iat \in Nat /\ now \in Nat /\ t.session \in RefreshToken
    BY DEF AuthIInv, AuthTypeOK, AccessToken
  <2>2. sessions[t.session].endedAt \in Nat
    BY <2>1 DEF AuthIInv, AuthTypeOK, Session
  <2>3. t.exp = t.iat + TokenLifetime /\ t.iat <= sessions[t.session].endedAt
    BY DEF AuthIInv, TimeOK
  <2>4. now < t.iat + TokenLifetime
    BY <2>3 DEF Verified
  <2>5. TokenLifetime \in Nat
    BY AuthAssumption
  <2> DEFINE end == sessions[t.session].endedAt
             iat == t.iat
  <2>6. iat \in Nat /\ end \in Nat /\ now \in Nat /\ iat <= end
        /\ now < iat + TokenLifetime
    BY <2>1, <2>2, <2>3, <2>4
  <2> HIDE DEF end, iat
  <2>7. now < end + TokenLifetime
    BY <2>5, <2>6
  <2> QED
    BY <2>7 DEF end
<1> QED
  BY <1>1, AuthInvariant, PTL

\* While a session lives its tokens name the account that logged in and no other
\* (nextID of Register, sess.userID of Refresh).
THEOREM SubjectIsTheUser == AuthSpec => []TokenNamesItsUser
<1>1. AuthIInv => TokenNamesItsUser
  BY DEF AuthIInv, AuthTypeOK, AccessToken, LiveOK, IdsOK, TokenNamesItsUser, VerifyTokenResponse
<1> QED
  BY <1>1, AuthInvariant, PTL

-----------------------------------------------------------------------------
(***************************************************************************)
(* Review: the pages of its lists, for every set of hotels, of reviewers   *)
(* and of ratings, every width of int32 and every number of reviews that   *)
(* fits it.                                                                *)
(***************************************************************************)

\* The reviews of a hotel are in the order of their ids.
PostsOK(h) == /\ Len(reviews[h]) <= seq
              /\ \A i \in 1 .. Len(reviews[h]) : reviews[h][i].review_id \in 1 .. seq
              /\ \A i, j \in 1 .. Len(reviews[h]) :
                   i < j => reviews[h][i].review_id < reviews[h][j].review_id

ReviewIInv == Reviews!ReviewTypeOK /\ \A h \in HotelId : PostsOK(h)

LEMMA ReviewConstants ==
  /\ Rating \subseteq Int /\ "" \notin HotelId \cup Reviewer
  /\ MaxInt32 \in Nat /\ MaxReviews \in Nat /\ 2 * MaxReviews <= MaxInt32 + 1
<1>1. Reviews!ReviewAssumption
  BY ServicesAssumption
<1>2. /\ Rating \subseteq Int /\ "" \notin HotelId \cup Reviewer
      /\ MaxInt32 \in Nat /\ MaxReviews \in 0 .. (MaxInt32 + 1) \div 2
  BY <1>1 DEF Reviews!ReviewAssumption
<1>3. \A m \in Nat : \A x \in 0 .. (m + 1) \div 2 : x \in Nat /\ 2 * x <= m + 1
  OBVIOUS
<1> QED
  BY <1>2, <1>3

LEMMA ReviewNumbers == MaxInt32 \in Nat /\ MaxReviews \in Nat
  BY ReviewConstants

\* What is posted is appended, with the next id.
LEMMA PostedReview ==
  ASSUME ReviewIInv, NEW req \in Reviews!PostReviewRequest, Reviews!PostReview(req)
  PROVE  LET new == Reviews!NewReview(seq + 1, req)
         IN  /\ new \in Reviews!ReviewRecord /\ new.review_id = seq + 1
             /\ reviews \in [HotelId -> Seq(Reviews!ReviewRecord)] /\ req.hotel_id \in HotelId
             /\ reviews' = [reviews EXCEPT ![req.hotel_id] = Append(@, new)]
             /\ seq \in Nat /\ seq' = seq + 1 /\ seq' \in 0 .. MaxReviews
<1> DEFINE none == ""
           new == Reviews!NewReview(seq + 1, req)
<1>1. /\ req.hotel_id \in HotelId /\ req.user_id \in Reviewer /\ req.rating \in 1 .. 5
      /\ seq \in Nat /\ seq' = seq + 1 /\ seq' \in 0 .. MaxReviews
  <2>1. req.hotel_id \in HotelId \cup {none} /\ req.user_id \in Reviewer \cup {none}
    BY DEF Reviews!PostReviewRequest
  <2>2. req.hotel_id # none /\ req.user_id # none
    BY DEF Reviews!PostReview
  <2> HIDE DEF none
  <2>3. req.hotel_id \in HotelId /\ req.user_id \in Reviewer
    BY <2>1, <2>2
  <2>4. req.rating \in 1 .. 5 /\ seq < MaxReviews /\ seq' = seq + 1 /\ seq \in 0 .. MaxReviews
    BY DEF Reviews!PostReview, ReviewIInv, Reviews!ReviewTypeOK
  <2> QED
    BY <2>3, <2>4, ReviewNumbers
<1>2. new \in Reviews!ReviewRecord /\ new.review_id = seq + 1
  BY <1>1 DEF Reviews!NewReview, Reviews!ReviewRecord
<1>3. /\ reviews \in [HotelId -> Seq(Reviews!ReviewRecord)]
      /\ reviews' = [reviews EXCEPT ![req.hotel_id] = Append(@, new)]
  BY <1>1 DEF Reviews!PostReview, ReviewIInv, Reviews!ReviewTypeOK
<1> QED
  BY <1>1, <1>2, <1>3

LEMMA PostKeepsReviews ==
  ASSUME ReviewIInv, NEW req \in Reviews!PostReviewRequest, Reviews!PostReview(req)
  PROVE  ReviewIInv'
<1> DEFINE h == req.hotel_id
           new == Reviews!NewReview(seq + 1, req)
<1>1. h \in HotelId /\ seq \in Nat /\ seq' = seq + 1 /\ seq' \in 0 .. MaxReviews
  BY PostedReview
<1>2. new \in Reviews!ReviewRecord /\ new.review_id = seq + 1
  BY PostedReview
<1>3. /\ reviews \in [HotelId -> Seq(Reviews!ReviewRecord)]
      /\ reviews' = [reviews EXCEPT ![h] = Append(@, new)]
  BY PostedReview
<1> HIDE DEF h, new
<1>4. Reviews!ReviewTypeOK'
  <2>1. reviews' \in [HotelId -> Seq(Reviews!ReviewRecord)]
    BY <1>1, <1>2, <1>3
  <2>2. seq' \in 0 .. MaxReviews
    BY <1>1
  <2> QED
    BY <2>1, <2>2 DEF Reviews!ReviewTypeOK, Reviews!ReviewRecord
<1>5. ASSUME NEW g \in HotelId PROVE PostsOK(g)'
  <2>1. PostsOK(g) /\ reviews[g] \in Seq(Reviews!ReviewRecord)
    BY <1>3 DEF ReviewIInv
  <2>2. \A i \in 1 .. Len(reviews[g]) : reviews[g][i].review_id \in Nat
    <3>1. \A i \in 1 .. Len(reviews[g]) : reviews[g][i] \in Reviews!ReviewRecord
      BY <2>1
    <3> QED
      BY <3>1 DEF Reviews!ReviewRecord
  <2>3. CASE g # h
    <3>1. reviews'[g] = reviews[g]
      BY <1>1, <1>3, <2>3
    <3> QED
      BY <1>1, <2>1, <2>2, <3>1 DEF PostsOK
  <2>4. CASE g = h
    <3>1. /\ reviews'[g] = Append(reviews[g], new)
          /\ Len(reviews'[g]) = Len(reviews[g]) + 1 /\ Len(reviews[g]) \in Nat
          /\ \A i \in 1 .. Len(reviews[g]) : reviews'[g][i] = reviews[g][i]
          /\ reviews'[g][Len(reviews[g]) + 1] = new
      BY <1>1, <1>3, <2>1, <2>4
    <3> QED
      BY <1>1, <1>2, <2>1, <2>2, <3>1 DEF PostsOK
  <2> QED
    BY <2>3, <2>4
<1> QED
  BY <1>4, <1>5 DEF ReviewIInv

LEMMA ReviewsKept == ReviewIInv /\ [Reviews!ReviewNext]_reviewVars => ReviewIInv'
<1>1. ASSUME ReviewIInv, UNCHANGED reviewVars PROVE ReviewIInv'
  BY <1>1 DEF ReviewIInv, PostsOK, reviewVars, Reviews!ReviewTypeOK, Reviews!ReviewRecord
<1> QED
  BY <1>1, PostKeepsReviews DEF Reviews!ReviewNext

LEMMA ReviewsInit == Reviews!ReviewInit => ReviewIInv
<1> SUFFICES ASSUME Reviews!ReviewInit PROVE ReviewIInv
  OBVIOUS
<1>1. seq = 0 /\ \A h \in HotelId : reviews[h] = <<>> /\ Len(reviews[h]) = 0
  BY DEF Reviews!ReviewInit
<1>2. reviews = [h \in HotelId |-> <<>>]
  BY DEF Reviews!ReviewInit
<1>3. reviews \in [HotelId -> Seq(Reviews!ReviewRecord)] /\ seq \in 0 .. MaxReviews
  <2>1. <<>> \in Seq(Reviews!ReviewRecord)
    OBVIOUS
  <2> QED
    BY <1>1, <1>2, <2>1, ReviewNumbers
<1> QED
  BY <1>1, <1>3 DEF ReviewIInv, PostsOK, Reviews!ReviewTypeOK

-----------------------------------------------------------------------------
\* Numbers that fit are what int32 makes of them.
LEMMA FitsInt32 ==
  ASSUME NEW x \in 0 .. MaxInt32
  PROVE  Reviews!Int32Of(x) = x
<1>1. \A m \in Nat : \A y \in 0 .. m : ((y + m + 1) % (2 * (m + 1))) - (m + 1) = y
  OBVIOUS
<1> QED
  BY <1>1, ReviewConstants DEF Reviews!Int32Of

\* A request whose first index is still an int32.
Listable(req) == Reviews!CanList(req) /\ (req.page - 1) * req.page_size <= MaxInt32

\* The first index of the page, and how many reviews it can show.
From(req) == (req.page - 1) * req.page_size

LEMMA FromFits ==
  ASSUME NEW req \in Reviews!ListReviewsRequest, Listable(req)
  PROVE  /\ From(req) \in 0 .. MaxInt32 /\ req.page_size \in 1 .. MaxInt32
         /\ req.page \in 1 .. MaxInt32 /\ req.hotel_id \in HotelId
         /\ req.page * req.page_size = From(req) + req.page_size
         /\ (From(req) = 0 \/ req.page_size <= From(req))
         /\ Reviews!Start(req) = From(req)
<1>1. /\ req.page \in 1 .. MaxInt32 /\ req.page_size \in 1 .. MaxInt32
      /\ req.hotel_id \in HotelId /\ MaxInt32 \in Nat
  <2>1. /\ req.page \in 0 .. MaxInt32 /\ req.page_size \in 0 .. MaxInt32
        /\ req.hotel_id \in HotelId
    BY DEF Reviews!ListReviewsRequest
  <2>2. req.page >= 1 /\ req.page_size >= 1
    BY DEF Listable, Reviews!CanList
  <2> QED
    BY <2>1, <2>2, ReviewNumbers
<1>2. \A p, n \in Nat : /\ p >= 1 => (p - 1) * n \in Nat /\ p * n = (p - 1) * n + n
                        /\ p = 1 => (p - 1) * n = 0
                        /\ p >= 2 => n <= (p - 1) * n
  OBVIOUS
<1>3. From(req) \in 0 .. MaxInt32
  BY <1>1, <1>2 DEF Listable, From
<1>4. Reviews!Start(req) = From(req)
  BY <1>3, FitsInt32 DEF Reviews!Start, From
<1> QED
  BY <1>1, <1>2, <1>3, <1>4 DEF From

\* What a page from index first on shows of all reviews.
Shown(all, first, size) ==
  IF first >= Len(all) THEN <<>>
  ELSE SubSeq(all, first + 1, IF first + size > Len(all) THEN Len(all) ELSE first + size)

\* With the first index the last one fits too, if the page shows anything.
PagesListed ==
  \A req \in Reviews!ListReviewsRequest : Listable(req) =>
    /\ ~ Reviews!SlicePanics(req)
    /\ Reviews!ListReviews(req).total_count = Len(reviews[req.hotel_id])
    /\ Reviews!ListReviews(req).reviews
         = Shown(reviews[req.hotel_id], From(req), req.page_size)

LEMMA ListedPages == ReviewIInv => PagesListed
<1> SUFFICES ASSUME ReviewIInv, NEW req \in Reviews!ListReviewsRequest, Listable(req)
             PROVE  /\ ~ Reviews!SlicePanics(req)
                    /\ Reviews!ListReviews(req).total_count = Len(reviews[req.hotel_id])
                    /\ Reviews!ListReviews(req).reviews
                         = Shown(reviews[req.hotel_id], From(req), req.page_size)
  BY DEF PagesListed
<1> DEFINE f == From(req)
           z == req.page_size
           all == reviews[req.hotel_id]
           n == Len(all)
<1>1. /\ f \in 0 .. MaxInt32 /\ z \in 1 .. MaxInt32 /\ (f = 0 \/ z <= f)
      /\ Reviews!Start(req) = f /\ MaxInt32 \in Nat /\ 2 * MaxReviews <= MaxInt32 + 1
      /\ MaxReviews \in Nat
  BY FromFits, ReviewConstants
<1>2. n \in 0 .. MaxReviews
  <2>1. req.hotel_id \in HotelId
    BY FromFits
  <2>2. all \in Seq(Reviews!ReviewRecord) /\ Len(all) <= seq /\ seq \in 0 .. MaxReviews
    BY <2>1 DEF ReviewIInv, PostsOK, Reviews!ReviewTypeOK
  <2> QED
    BY <1>1, <2>2
<1>3. ASSUME f < n
      PROVE  Reviews!End(req) = IF f + z > n THEN n ELSE f + z
  <2>1. f + z \in 0 .. MaxInt32
    BY <1>1, <1>2, <1>3
  <2>2. Reviews!Int32Of(f + z) = f + z
    BY <2>1, FitsInt32
  <2> QED
    BY <1>1, <2>2 DEF Reviews!End
<1>4. ~ Reviews!SlicePanics(req)
  BY <1>1, <1>2, <1>3 DEF Reviews!SlicePanics
<1>5. /\ Reviews!ListReviews(req).total_count = n
      /\ Reviews!ListReviews(req).reviews
           = IF f >= n THEN <<>> ELSE SubSeq(all, f + 1, Reviews!End(req))
  BY <1>1 DEF Reviews!ListReviews, Reviews!ListReviewsResponse
<1> HIDE DEF f, z, all
<1>6. Reviews!ListReviews(req).reviews = Shown(all, f, z)
  <2>1. CASE f >= n
    BY <1>5, <2>1 DEF Shown
  <2>2. CASE f < n
    <3>1. ~ (f >= n)
      BY <1>1, <1>2, <2>2
    <3> QED
      BY <1>3, <1>5, <2>2, <3>1 DEF Shown
  <2> QED
    BY <1>1, <1>2, <2>1, <2>2
<1> QED
  BY <1>4, <1>5, <1>6 DEF f, z, all

ShownLen(n, first, size) ==
  IF first >= n THEN 0 ELSE IF first + size > n THEN n - first ELSE size

LEMMA ShownType ==
  ASSUME NEW S, NEW all \in Seq(S), NEW f \in Nat, NEW z \in Nat
  PROVE  /\ Shown(all, f, z) \in Seq(S)
         /\ Len(Shown(all, f, z)) = ShownLen(Len(all), f, z)
         /\ \A i \in 1 .. Len(Shown(all, f, z)) :
              f + i \in 1 .. Len(all) /\ Shown(all, f, z)[i] = all[f + i]
<1> DEFINE n == Len(all)
           e == IF f + z > n THEN n ELSE f + z
<1>1. n \in Nat /\ (f >= n \/ f < n)
  OBVIOUS
<1>2. CASE f >= n
  <2>1. Shown(all, f, z) = <<>>
    BY <1>2 DEF Shown
  <2> QED
    BY <1>2, <2>1 DEF ShownLen
<1>3. CASE f < n
  <2>1. ~ (f >= n) /\ e \in f .. n /\ e \in Nat
    BY <1>1, <1>3
  <2>2. Shown(all, f, z) = SubSeq(all, f + 1, e)
    BY <2>1 DEF Shown
  <2>3. e - f = IF f + z > n THEN n - f ELSE z
    BY <1>1
  <2> HIDE DEF e
  <2>4. /\ SubSeq(all, f + 1, e) \in Seq(S) /\ Len(SubSeq(all, f + 1, e)) = e - f
        /\ \A i \in 1 .. e - f : /\ f + i \in 1 .. n
                                 /\ SubSeq(all, f + 1, e)[i] = all[f + i]
    BY <1>1, <1>3, <2>1
  <2> QED
    BY <2>1, <2>2, <2>3, <2>4 DEF ShownLen
<1> QED
  BY <1>1, <1>2, <1>3

\* Posting one more review leaves what a page shows where it is.
LEMMA ShownGrows ==
  ASSUME NEW S, NEW all \in Seq(S), NEW f \in Nat, NEW z \in Nat,
         NEW more \in {all} \cup {Append(all, x) : x \in S}
  PROVE  Reviews!IsPrefix(Shown(all, f, z), Shown(more, f, z))
<1> DEFINE s == Shown(all, f, z)
           t == Shown(more, f, z)
<1>1. /\ more \in Seq(S) /\ Len(more) \in {Len(all), Len(all) + 1} /\ Len(all) \in Nat
      /\ \A i \in 1 .. Len(all) : more[i] = all[i]
  OBVIOUS
<1>2. /\ s \in Seq(S) /\ t \in Seq(S)
      /\ Len(s) = ShownLen(Len(all), f, z) /\ Len(t) = ShownLen(Len(more), f, z)
  BY <1>1, ShownType
<1>3. /\ \A i \in 1 .. Len(s) : f + i \in 1 .. Len(all) /\ s[i] = all[f + i]
      /\ \A i \in 1 .. Len(t) : t[i] = more[f + i]
  <2>1. \A i \in 1 .. Len(s) : f + i \in 1 .. Len(all) /\ s[i] = all[f + i]
    BY ShownType
  <2>2. more \in Seq(S)
    BY <1>1
  <2>3. \A i \in 1 .. Len(t) : t[i] = more[f + i]
    BY <2>2, ShownType
  <2> QED
    BY <2>1, <2>3
<1> HIDE DEF s, t
<1>4. Len(s) <= Len(t) /\ Len(s) \in Nat /\ Len(t) \in Nat
  BY <1>1, <1>2 DEF ShownLen
<1>5. \A i \in 1 .. Len(s) : s[i] = t[i]
  BY <1>1, <1>3, <1>4
<1>6. SubSeq(s, 1, Len(s)) = SubSeq(t, 1, Len(s))
  <2>1. /\ SubSeq(s, 1, Len(s)) \in Seq(S) /\ SubSeq(t, 1, Len(s)) \in Seq(S)
        /\ Len(SubSeq(s, 1, Len(s))) = Len(s) /\ Len(SubSeq(t, 1, Len(s))) = Len(s)
        /\ \A i \in 1 .. Len(s) : SubSeq(s, 1, Len(s))[i] = SubSeq(t, 1, Len(s))[i]
    BY <1>2, <1>4, <1>5
  <2> QED
    BY <2>1, SeqEqual
<1> QED
  BY <1>4, <1>6 DEF Reviews!IsPrefix, s, t

\* The steps of the other services leave the reviews alone.
LEMMA ServicesReview ==
  [ServicesNext]_vars => [Reviews!ReviewNext]_reviewVars
BY DEF ServicesNext, PaymentStep, UserStep, AuthStep, CatalogStep, AdsStep, ReviewStep, vars

\* The inductive invariant of the reviews, and what it says of every page.
THEOREM ReviewInvariant == ServicesSpec => [](ReviewIInv /\ PagesListed)
<1>1. ServicesInit => ReviewIInv
  BY ReviewsInit DEF ServicesInit
<1> QED
  BY <1>1, ReviewsKept, ListedPages, ServicesReview, PTL DEF ServicesSpec

\* Posting a review leaves on its page what the page showed before (PostReview
\* appends, ListReviews slices from the front).
THEOREM PagesAreKept == ServicesSpec => PagesStay
<1>1. ReviewIInv /\ PagesListed /\ PagesListed' /\ [ServicesNext]_vars
        => [service = "review" => Reviews!PagesKept]_reviewVars
  <2> SUFFICES ASSUME ReviewIInv, PagesListed, PagesListed', Reviews!ReviewNext,
                      NEW req \in Reviews!ListReviewsRequest, Listable(req)
               PROVE  Reviews!IsPrefix(Reviews!ListReviews(req).reviews,
                                       Reviews!ListReviews(req).reviews')
    BY ServicesReview DEF Reviews!PagesKept, Listable
  <2>1. PICK post \in Reviews!PostReviewRequest : Reviews!PostReview(post)
    BY DEF Reviews!ReviewNext
  <2> DEFINE h == req.hotel_id
             f == From(req)
             z == req.page_size
  <2>2. h \in HotelId /\ f \in Nat /\ z \in Nat
    BY FromFits
  <2> DEFINE new == Reviews!NewReview(seq + 1, post)
  <2>3. /\ reviews \in [HotelId -> Seq(Reviews!ReviewRecord)]
        /\ reviews' = [reviews EXCEPT ![post.hotel_id] = Append(@, new)]
        /\ new \in Reviews!ReviewRecord
    BY <2>1, PostedReview
  <2>5. reviews'[h] \in {reviews[h]} \cup {Append(reviews[h], x) : x \in Reviews!ReviewRecord}
    BY <2>2, <2>3
  <2> HIDE DEF h, f, z, new
  <2>6. Reviews!IsPrefix(Shown(reviews[h], f, z), Shown(reviews'[h], f, z))
    BY <2>2, <2>3, <2>5, ShownGrows
  <2>7. Reviews!ListReviews(req).reviews = Shown(reviews[h], f, z)
    BY DEF PagesListed, h, f, z
  <2>8. Reviews!ListReviews(req).reviews' = Shown(reviews'[h], f, z)
    BY DEF PagesListed, h, f, z, Shown, From, Listable
  <2> QED
    BY <2>6, <2>7, <2>8
<1> QED
  BY <1>1, ReviewInvariant, PTL DEF ServicesSpec, PagesStay

-----------------------------------------------------------------------------
\* R is the sum of the ratings up to each review of s.
RatesUpTo(s, R) == /\ R[0] = 0
                   /\ \A k \in 1 .. Len(s) : R[k] = R[k - 1] + s[k].rating

LEMMA RatingsExist ==
  ASSUME NEW s \in Seq(Reviews!ReviewRecord)
  PROVE  \E R \in [0 .. Len(s) -> Int] : RatesUpTo(s, R)
<1> DEFINE n == Len(s)
           F == [p \in Int \X (1 .. n) |-> p[1] + s[p[2]].rating]
<1>1. n \in Nat /\ \A i \in 1 .. n : s[i].rating \in Int
  <2>1. n \in Nat /\ \A i \in 1 .. n : s[i] \in Reviews!ReviewRecord
    OBVIOUS
  <2> QED
    BY <2>1 DEF Reviews!ReviewRecord
<1>2. F \in [Int \X (1 .. n) -> Int]
  BY <1>1
<1>3. \A p \in Int \X (1 .. n) : F[p] = p[1] + s[p[2]].rating
  OBVIOUS
<1> HIDE DEF F
<1>4. PICK it \in [SUBSET (1 .. n) -> Int] : Folds(it, n, 0, F)
  <2>1. n \in Nat /\ 0 \in Int
    BY <1>1
  <2> HIDE DEF n
  <2> QED
    BY <2>1, <1>2, FoldDefined
<1> DEFINE R == [k \in 0 .. n |-> it[1 .. k]]
<1>5. \A k \in 0 .. n : 1 .. k \in SUBSET (1 .. n) /\ R[k] = it[1 .. k]
  BY <1>1
<1>6. R \in [0 .. n -> Int]
  BY <1>5
<1>7. R[0] = 0
  <2>1. 1 .. 0 = {} /\ 0 \in 0 .. n /\ {} \in SUBSET (1 .. n)
    BY <1>1
  <2>2. it[{}] = 0
    BY <1>4, <2>1 DEF Folds
  <2> QED
    BY <1>5, <2>1, <2>2
<1>8. ASSUME NEW k \in 1 .. n PROVE R[k] = R[k - 1] + s[k].rating
  <2>1. /\ k \in 1 .. k /\ 1 .. k # {} /\ (1 .. k) \ {k} = 1 .. (k - 1) /\ k - 1 \in 0 .. n
        /\ k \in Nat /\ 1 .. k \in SUBSET (1 .. k)
    BY <1>1
  <2>2. Max(1 .. k) = k
    BY <2>1, MaxIsLast
  <2>3. it[1 .. k] = F[<<it[1 .. (k - 1)], k>>]
    BY <1>4, <1>5, <2>1, <2>2 DEF Folds
  <2>4. <<it[1 .. (k - 1)], k>> \in Int \X (1 .. n)
    BY <1>4, <1>5, <2>1
  <2>5. F[<<it[1 .. (k - 1)], k>>] = it[1 .. (k - 1)] + s[k].rating
    BY <1>3, <2>4
  <2> QED
    BY <1>5, <2>1, <2>3, <2>5
<1> QED
  BY <1>6, <1>7, <1>8 DEF RatesUpTo

LEMMA FoldedRatings ==
  ASSUME NEW s \in Seq(Reviews!ReviewRecord), NEW R, RatesUpTo(s, R)
  PROVE  Reviews!Ratings(s) = R[Len(s)]
<1> DEFINE n == Len(s)
           Sum(it) == [t \in SUBSET DOMAIN s |->
                        IF t = {} THEN 0
                        ELSE it[t \ {Reviews!Max(t)}] + s[Reviews!Max(t)].rating]
           J == CHOOSE it : it = Sum(it)
           F == [p \in Int \X (1 .. n) |-> p[1] + s[p[2]].rating]
<1>1. Reviews!Ratings(s) = J[DOMAIN s]
  BY Zenon DEF Reviews!Ratings, Reviews!FoldLeft, Reviews!MapThenFoldSet
<1>2. n \in Nat /\ DOMAIN s = 1 .. n /\ \A i \in 1 .. n : s[i].rating \in Int
  <2>1. n \in Nat /\ DOMAIN s = 1 .. n /\ \A i \in 1 .. n : s[i] \in Reviews!ReviewRecord
    OBVIOUS
  <2> QED
    BY <2>1 DEF Reviews!ReviewRecord
<1>3. \A t : Reviews!Max(t) = Max(t)
  BY DEF Reviews!Max, Max
<1>4. F \in [Int \X (1 .. n) -> Int]
  BY <1>2
<1>5. \E it : it = Sum(it)
  <2> HIDE DEF F
  <2>1. PICK it \in [SUBSET (1 .. n) -> Int] : Folds(it, n, 0, F)
    <3>1. n \in Nat /\ 0 \in Int
      BY <1>2
    <3> HIDE DEF n
    <3> QED
      BY <3>1, <1>4, FoldDefined
  <2>2. ASSUME NEW t \in SUBSET (1 .. n), t # {}
        PROVE  F[<<it[t \ {Max(t)}], Max(t)>>] = it[t \ {Reviews!Max(t)}] + s[Reviews!Max(t)].rating
    <3>1. Max(t) \in 1 .. n
      BY <1>2, <2>2, MaxIsIn
    <3>2. it[t \ {Max(t)}] \in Int
      BY <2>1
    <3> QED
      BY <1>3, <3>1, <3>2 DEF F
  <2>3. it = Sum(it)
    BY <1>2, <2>1, <2>2 DEF Folds
  <2> QED
    BY <2>3
<1>6. J = Sum(J)
  BY <1>5
<1> HIDE DEF J, F
<1>7. \A t \in SUBSET (1 .. n) :
        J[t] = IF t = {} THEN 0 ELSE J[t \ {Max(t)}] + s[Max(t)].rating
  BY <1>2, <1>3, <1>6
<1> HIDE DEF Sum
<1> DEFINE Agree == {k \in Nat : k <= n => J[1 .. k] = R[k]}
<1>8. 0 \in Agree
  <2>1. 1 .. 0 = {}
    OBVIOUS
  <2>2. J[{}] = 0
    BY <1>7
  <2> QED
    BY <2>1, <2>2 DEF RatesUpTo
<1>9. ASSUME NEW k \in Nat, k \in Agree PROVE k + 1 \in Agree
  <2> SUFFICES ASSUME k + 1 <= n PROVE J[1 .. (k + 1)] = R[k + 1]
    OBVIOUS
  <2>1. /\ 1 .. (k + 1) \in SUBSET (1 .. n) /\ k + 1 \in 1 .. (k + 1)
        /\ (1 .. (k + 1)) \ {k + 1} = 1 .. k
        /\ k + 1 \in 1 .. n
    BY <1>2
  <2>2. Max(1 .. (k + 1)) = k + 1
    BY <2>1, MaxIsLast
  <2>3. J[1 .. (k + 1)] = J[1 .. k] + s[k + 1].rating
    BY <1>7, <2>1, <2>2
  <2>4. R[k + 1] = R[k] + s[k + 1].rating
    BY <2>1 DEF RatesUpTo
  <2>5. J[1 .. k] = R[k]
    BY <1>2, <1>9
  <2> QED
    BY <2>3, <2>4, <2>5
<1>10. n \in Agree
  BY <1>2, <1>8, <1>9, Induction
<1> QED
  BY <1>1, <1>2, <1>10

\* P cuts all into K pieces, the p-th of them from C[p - 1] to C[p].
Cuts(all, P, C, K) ==
  /\ C \in [0 .. K -> 0 .. Len(all)] /\ C[0] = 0 /\ C[K] = Len(all)
  /\ \A p, q \in 0 .. K : p <= q => C[p] <= C[q]
  /\ \A p \in 1 .. K : /\ P[p] \in Seq(Reviews!ReviewRecord)
                       /\ Len(P[p]) = C[p] - C[p - 1]
                       /\ \A i \in 1 .. Len(P[p]) : P[p][i] = all[C[p - 1] + i]

\* The ratings of a piece are the difference of the sums up to its ends.
LEMMA PieceRatings ==
  ASSUME NEW all \in Seq(Reviews!ReviewRecord), NEW P, NEW C, NEW K \in Nat,
         Cuts(all, P, C, K), NEW p \in 1 .. K,
         NEW R \in [0 .. Len(all) -> Int], RatesUpTo(all, R)
  PROVE  Reviews!Ratings(P[p]) = R[C[p]] - R[C[p - 1]]
<1> DEFINE b == C[p - 1]
           m == Len(P[p])
           Q == [k \in 0 .. m |-> R[b + k] - R[b]]
<1>0. p \in 0 .. K /\ p - 1 \in 0 .. K /\ p - 1 <= p /\ Len(all) \in Nat
  OBVIOUS
<1>1. /\ b \in 0 .. Len(all) /\ C[p] \in 0 .. Len(all) /\ b <= C[p] /\ Len(all) \in Nat
      /\ m = C[p] - b /\ P[p] \in Seq(Reviews!ReviewRecord)
      /\ \A i \in 1 .. m : P[p][i] = all[b + i]
  BY <1>0 DEF Cuts
<1> HIDE DEF b, m
<1>2. b \in Nat /\ m \in Nat /\ b + m = C[p] /\ b + m <= Len(all)
  BY <1>1
<1>3. \A k \in 0 .. m : b + k \in 0 .. Len(all)
  BY <1>0, <1>2
<1>4. ASSUME NEW k \in 1 .. m PROVE Q[k] = Q[k - 1] + P[p][k].rating
  <2>1. /\ b + k \in 1 .. Len(all) /\ k \in 0 .. m /\ k - 1 \in 0 .. m
        /\ b + (k - 1) = (b + k) - 1 /\ b \in 0 .. Len(all)
    BY <1>0, <1>2
  <2>2. P[p][k] = all[b + k]
    BY <1>1
  <2>3. R[b + k] = R[b + (k - 1)] + P[p][k].rating
    BY <2>1, <2>2 DEF RatesUpTo
  <2>4. P[p][k].rating \in Int
    <3>1. all[b + k] \in Reviews!ReviewRecord
      BY <2>1
    <3> QED
      BY <2>2, <3>1 DEF Reviews!ReviewRecord
  <2>5. R[b + k] \in Int /\ R[b + (k - 1)] \in Int /\ R[b] \in Int
    BY <1>3, <2>1
  <2>6. Q[k] = R[b + k] - R[b] /\ Q[k - 1] = R[b + (k - 1)] - R[b]
    BY <2>1
  <2> HIDE DEF Q
  <2> QED
    BY <2>3, <2>4, <2>5, <2>6
<1>5. Q[0] = 0 /\ Q[m] = R[b + m] - R[b]
  BY <1>2, <1>3
<1> HIDE DEF Q
<1>6. RatesUpTo(P[p], Q)
  BY <1>4, <1>5 DEF RatesUpTo, m
<1>7. Reviews!Ratings(P[p]) = Q[m]
  <2>1. P[p] \in Seq(Reviews!ReviewRecord) /\ m = Len(P[p])
    BY <1>1 DEF m
  <2> QED
    BY <1>6, <2>1, FoldedRatings
<1> QED
  BY <1>2, <1>5, <1>7 DEF b

\* Adding up what a function gives for the pieces is what it gives for the whole,
\* if it is a difference of values at the ends: equal pieces would be counted once,
\* but only empty ones are equal.
LEMMA SumOfCuts ==
  ASSUME NEW all \in Seq(Reviews!ReviewRecord), NEW P, NEW C, NEW K \in Nat,
         Cuts(all, P, C, K),
         \A i, j \in 1 .. Len(all) : i < j => all[i] # all[j],
         NEW G \in [0 .. Len(all) -> Int], G[0] = 0,
         NEW listed, listed = {P[p] : p \in 1 .. K},
         NEW f \in [listed -> Int],
         \A p \in 1 .. K : f[P[p]] = G[C[p]] - G[C[p - 1]],
         NEW it, SumsOver(it, listed, f)
  PROVE  it[listed] = G[Len(all)]
<1> DEFINE T(k) == {P[p] : p \in 1 .. k} \ {<<>>}
           Agree == {k \in Nat : k <= K => it[T(k)] = G[C[k]]}
<1>1. IsFiniteSet(listed)
  <2> DEFINE e == [p \in 1 .. K |-> P[p]]
  <2>1. e \in Seq(listed) /\ Len(e) = K
    OBVIOUS
  <2>2. \A x \in listed : \E p \in 1 .. Len(e) : e[p] = x
    BY <2>1
  <2> QED
    BY <2>1, <2>2 DEF IsFiniteSet
<1>2. \A s \in SUBSET listed : it[s] \in Int
  BY <1>1, SumType
<1>3. \A s \in SUBSET listed : \A x \in s : it[s] = f[x] + it[s \ {x}]
  <2>1. TakesAny(it, listed, f)
    BY <1>1, SumTakesAny
  <2> QED
    BY <2>1 DEF TakesAny
<1>4. it[{}] = 0
  BY DEF SumsOver
<1>5. ASSUME NEW p \in 1 .. K
      PROVE  /\ C[p] \in 0 .. Len(all) /\ C[p - 1] \in 0 .. Len(all) /\ C[p - 1] <= C[p]
             /\ P[p] \in Seq(Reviews!ReviewRecord) /\ Len(P[p]) = C[p] - C[p - 1]
             /\ \A i \in 1 .. Len(P[p]) : P[p][i] = all[C[p - 1] + i]
             /\ (P[p] = <<>> <=> C[p] = C[p - 1])
  <2>1. p \in 0 .. K /\ p - 1 \in 0 .. K /\ p - 1 <= p
    OBVIOUS
  <2>2. /\ C[p] \in 0 .. Len(all) /\ C[p - 1] \in 0 .. Len(all) /\ C[p - 1] <= C[p]
        /\ P[p] \in Seq(Reviews!ReviewRecord) /\ Len(P[p]) = C[p] - C[p - 1]
        /\ \A i \in 1 .. Len(P[p]) : P[p][i] = all[C[p - 1] + i]
    BY <2>1 DEF Cuts
  <2>3. P[p] = <<>> <=> Len(P[p]) = 0
    BY <2>2, EmptySeq
  <2> QED
    BY <2>2, <2>3
<1>6. 0 \in Agree
  <2>1. T(0) = {}
    OBVIOUS
  <2>2. C[0] = 0
    BY DEF Cuts
  <2> QED
    BY <1>4, <2>1, <2>2
<1>7. ASSUME NEW k \in Nat, k \in Agree PROVE k + 1 \in Agree
  <2> SUFFICES ASSUME k + 1 <= K PROVE it[T(k + 1)] = G[C[k + 1]]
    OBVIOUS
  <2>1. k + 1 \in 1 .. K /\ k <= K /\ (k + 1) - 1 = k
    OBVIOUS
  <2>2. it[T(k)] = G[C[k]]
    BY <1>7, <2>1
  <2>3. {P[p] : p \in 1 .. k + 1} = {P[p] : p \in 1 .. k} \cup {P[k + 1]}
    <3>1. 1 .. k + 1 = (1 .. k) \cup {k + 1}
      OBVIOUS
    <3> QED
      BY <3>1
  <2>4. CASE P[k + 1] = <<>>
    <3>1. T(k + 1) = T(k)
      BY <2>3, <2>4
    <3>2. C[k + 1] = C[k]
      BY <1>5, <2>1, <2>4
    <3> QED
      BY <2>2, <3>1, <3>2
  <2>5. CASE P[k + 1] # <<>>
    <3>1. C[k] < C[k + 1] /\ C[k] \in 0 .. Len(all) /\ C[k + 1] \in 0 .. Len(all)
          /\ Len(all) \in Nat
      BY <1>5, <2>1, <2>5
    <3>2. P[k + 1][1] = all[C[k] + 1]
      <4>1. Len(P[k + 1]) = C[k + 1] - C[k]
        BY <1>5, <2>1
      <4>2. 1 \in 1 .. Len(P[k + 1])
        BY <3>1, <4>1
      <4> QED
        BY <1>5, <2>1, <4>2
    <3>3. ASSUME NEW p \in 1 .. k, P[p] = P[k + 1] PROVE FALSE
      <4>1. p \in 1 .. K /\ p \in 0 .. K /\ k \in 0 .. K /\ p <= k
        BY <2>1
      <4>2. C[p - 1] < C[p] /\ C[p] <= C[k] /\ C[p - 1] \in 0 .. Len(all) /\ C[p] \in 0 .. Len(all)
        <5>1. C[p] <= C[k]
          BY <4>1 DEF Cuts
        <5>2. /\ C[p] \in 0 .. Len(all) /\ C[p - 1] \in 0 .. Len(all) /\ C[p - 1] <= C[p]
              /\ (P[p] = <<>> <=> C[p] = C[p - 1])
          BY <1>5, <4>1
        <5>3. P[p] # <<>>
          BY <2>5, <3>3
        <5>4. C[p] # C[p - 1] /\ C[p] \in Int /\ C[p - 1] \in Int
          BY <5>2, <5>3
        <5> QED
          BY <5>1, <5>2, <5>4
      <4>3. Len(P[p]) = C[p] - C[p - 1]
        BY <1>5, <4>1
      <4>4. 1 \in 1 .. Len(P[p])
        BY <4>2, <4>3
      <4>5. P[p][1] = all[C[p - 1] + 1]
        BY <1>5, <4>1, <4>4
      <4>6. all[C[p - 1] + 1] # all[C[k] + 1]
        <5>1. C[p - 1] + 1 \in 1 .. Len(all) /\ C[k] + 1 \in 1 .. Len(all)
              /\ C[p - 1] + 1 < C[k] + 1
          <6>1. /\ C[p - 1] \in Int /\ C[k] \in Int /\ C[k + 1] \in Int /\ C[p] \in Int
                /\ 0 <= C[p - 1] /\ 0 <= C[k] /\ C[k + 1] <= Len(all)
            BY <3>1, <4>2
          <6>2. \A a, b, c, d, n \in Int : 0 <= a /\ a < b /\ b <= c /\ c < d /\ d <= n
                  => a + 1 \in 1 .. n /\ c + 1 \in 1 .. n /\ a + 1 < c + 1
            OBVIOUS
          <6>3. Len(all) \in Int
            BY <3>1
          <6> QED
            BY <3>1, <4>2, <6>1, <6>2, <6>3
        <5> QED
          BY <5>1
      <4> QED
        BY <3>2, <3>3, <4>5, <4>6
    <3>4. P[k + 1] \notin T(k) /\ P[k + 1] \in T(k + 1) /\ T(k + 1) \ {P[k + 1]} = T(k)
      <4>1. P[k + 1] \notin {P[p] : p \in 1 .. k}
        BY <3>3
      <4> QED
        BY <2>3, <2>5, <4>1
    <3>5. T(k + 1) \in SUBSET listed
      BY <2>1
    <3>6. PICK t, t0 : t = T(k + 1) /\ t0 = T(k)
      OBVIOUS
    <3> HIDE DEF T
    <3>9. it[t] = f[P[k + 1]] + it[t0]
      <4>1. t \in SUBSET listed /\ P[k + 1] \in t /\ t \ {P[k + 1]} = t0
        BY <3>4, <3>5, <3>6
      <4> QED
        BY <1>3, <4>1
    <3>7. f[P[k + 1]] = G[C[k + 1]] - G[C[k]]
      BY <2>1
    <3>8. G[C[k + 1]] \in Int /\ G[C[k]] \in Int
      BY <3>1
    <3> QED
      BY <2>2, <3>6, <3>7, <3>8, <3>9
  <2> QED
    BY <2>4, <2>5
<1>8. it[T(K)] = G[Len(all)]
  <2>1. K \in Agree
    <3> HIDE DEF Agree
    <3> QED
      BY <1>6, <1>7, Induction
  <2>2. C[K] = Len(all)
    BY DEF Cuts
  <2> QED
    BY <2>1, <2>2
<1>9. T(K) = listed \ {<<>>}
  OBVIOUS
<1>10. ASSUME <<>> \in listed PROVE it[listed] = it[listed \ {<<>>}]
  <2>1. PICK p \in 1 .. K : P[p] = <<>>
    BY <1>10
  <2>2. C[p] = C[p - 1] /\ C[p] \in 0 .. Len(all)
    BY <1>5, <2>1
  <2>3. f[<<>>] = 0
    <3>1. f[P[p]] = G[C[p]] - G[C[p]] /\ G[C[p]] \in Int
      BY <2>2
    <3> QED
      BY <2>1, <3>1
  <2>4. it[listed] = f[<<>>] + it[listed \ {<<>>}] /\ it[listed \ {<<>>}] \in Int
    BY <1>2, <1>3, <1>10
  <2> QED
    BY <2>3, <2>4
<1>11. <<>> \notin listed => listed \ {<<>>} = listed
  OBVIOUS
<1> QED
  BY <1>8, <1>9, <1>10, <1>11

-----------------------------------------------------------------------------
LEMMA ProductsGrow ==
  ASSUME NEW z \in Nat, NEW p \in Nat, NEW q \in Nat, p <= q
  PROVE  p * z <= q * z /\ p * z \in Nat /\ q * z \in Nat
<1>1. \A d \in Nat : (p + d) * z = p * z + d * z /\ d * z \in Nat /\ p * z \in Nat
  OBVIOUS
<1>2. q - p \in Nat /\ p + (q - p) = q
  OBVIOUS
<1>3. q * z = p * z + (q - p) * z /\ (q - p) * z \in Nat /\ p * z \in Nat
  BY <1>1, <1>2
<1> QED
  BY <1>3

\* Pages of one size that reach the end cut the reviews into pieces.
LEMMA PagesCut ==
  ASSUME NEW all \in Seq(Reviews!ReviewRecord), NEW z \in Nat, NEW K \in Nat,
         K * z >= Len(all)
  PROVE  \E C : Cuts(all, [p \in 1 .. K |-> Shown(all, (p - 1) * z, z)], C, K)
<1> DEFINE n == Len(all)
           C == [p \in 0 .. K |-> IF p * z > n THEN n ELSE p * z]
           P == [p \in 1 .. K |-> Shown(all, (p - 1) * z, z)]
<1>1. n \in Nat
  OBVIOUS
<1>2. \A p \in Nat : p * z \in Nat
  OBVIOUS
<1>4. \A p \in Nat : p >= 1 => (p - 1) * z \in Nat /\ p * z = (p - 1) * z + z
  OBVIOUS
<1>5. \A p \in 0 .. K : p \in Nat /\ C[p] = IF p * z > n THEN n ELSE p * z
  OBVIOUS
<1>6. C \in [0 .. K -> 0 .. n] /\ C[0] = 0 /\ C[K] = n
  <2>1. \A p \in 0 .. K : (IF p * z > n THEN n ELSE p * z) \in 0 .. n
    BY <1>1, <1>2
  <2>2. 0 * z = 0 /\ K * z \in Nat
    OBVIOUS
  <2>3. C[0] = 0
    BY <1>1, <1>5, <2>2
  <2>4. C[K] = n
    BY <1>1, <1>5, <2>2
  <2> QED
    BY <2>1, <2>3, <2>4
<1>7. \A p, q \in 0 .. K : p <= q => C[p] <= C[q]
  <2> TAKE p, q \in 0 .. K
  <2> HAVE p <= q
  <2>1. p * z <= q * z /\ p * z \in Nat /\ q * z \in Nat
    BY ProductsGrow
  <2> HIDE DEF C, n
  <2> QED
    BY <1>1, <1>5, <2>1
<1>8. ASSUME NEW p \in 1 .. K
      PROVE  /\ P[p] \in Seq(Reviews!ReviewRecord)
             /\ Len(P[p]) = C[p] - C[p - 1]
             /\ \A i \in 1 .. Len(P[p]) : P[p][i] = all[C[p - 1] + i]
  <2>1. PICK f : f = (p - 1) * z
    OBVIOUS
  <2>2. f \in Nat /\ p * z = f + z
    BY <1>4, <2>1
  <2>3. C[p] = (IF f + z > n THEN n ELSE f + z) /\ C[p - 1] = (IF f > n THEN n ELSE f)
    BY <1>5, <2>1, <2>2
  <2>4. P[p] = Shown(all, f, z)
    BY <2>1
  <2> HIDE DEF C, P
  <2>5. /\ Shown(all, f, z) \in Seq(Reviews!ReviewRecord)
        /\ Len(Shown(all, f, z)) = ShownLen(n, f, z)
        /\ \A i \in 1 .. Len(Shown(all, f, z)) : Shown(all, f, z)[i] = all[f + i]
    <3>1. /\ Shown(all, f, z) \in Seq(Reviews!ReviewRecord)
          /\ Len(Shown(all, f, z)) = ShownLen(n, f, z)
      BY <2>2, ShownType
    <3>2. \A i \in 1 .. Len(Shown(all, f, z)) : Shown(all, f, z)[i] = all[f + i]
      BY <2>2, ShownType
    <3> QED
      BY <3>1, <3>2
  <2> HIDE DEF n
  <2>6. Len(Shown(all, f, z)) = C[p] - C[p - 1]
    BY <1>1, <2>2, <2>3, <2>5 DEF ShownLen
  <2>7. \A i \in 1 .. Len(Shown(all, f, z)) : Shown(all, f, z)[i] = all[C[p - 1] + i]
    <3>1. CASE f < n
      <4>1. C[p - 1] = f
        BY <1>1, <2>2, <2>3, <3>1
      <4> QED
        BY <2>5, <4>1
    <3>2. CASE f >= n
      <4>1. Len(Shown(all, f, z)) = 0
        BY <2>5, <3>2 DEF ShownLen
      <4> QED
        BY <4>1
    <3> QED
      BY <1>1, <2>2, <3>1, <3>2
  <2> QED
    BY <2>4, <2>5, <2>6, <2>7
<1>9. Cuts(all, P, C, K)
  <2> HIDE DEF C, P
  <2> QED
    BY <1>6, <1>7, <1>8 DEF Cuts
<1> QED
  BY <1>9

\* The pages of size z whose first index fits reach past the last review.
LEMMA PagesReachTheEnd ==
  ASSUME NEW z \in 1 .. MaxInt32, NEW n \in 0 .. MaxReviews
  PROVE  \E K \in Nat : /\ {q \in 1 .. MaxInt32 : (q - 1) * z <= MaxInt32} = 1 .. K
                        /\ K * z >= n
<1> DEFINE Q == {q \in 1 .. MaxInt32 : (q - 1) * z <= MaxInt32}
<1>0. MaxInt32 \in Nat /\ MaxReviews \in Nat /\ n <= MaxInt32 /\ z \in Nat /\ z >= 1
  <2>1. MaxInt32 \in Nat /\ MaxReviews \in Nat /\ 2 * MaxReviews <= MaxInt32 + 1
    BY ReviewConstants
  <2> QED
    BY <2>1
<1>1. 1 \in Q
  BY <1>0
<1>2. PICK K \in Q : \A q \in Q : q <= K
  <2> DEFINE T == {MaxInt32 - q : q \in Q}
  <2>1. T \subseteq Nat /\ T # {}
    BY <1>0, <1>1
  <2>2. PICK t \in T : \A u \in T : t <= u
    BY <2>1, LeastElement
  <2>3. PICK K \in Q : t = MaxInt32 - K
    BY <2>2
  <2>4. ASSUME NEW q \in Q PROVE q <= K
    <3>1. MaxInt32 - K <= MaxInt32 - q
      BY <2>2, <2>3
    <3> QED
      BY <1>0, <3>1
  <2> QED
    BY <2>4
<1>4. ASSUME NEW q \in 1 .. K PROVE q \in Q
  <2>1. q - 1 \in Nat /\ K - 1 \in Nat /\ q - 1 <= K - 1 /\ q \in 1 .. MaxInt32
    BY <1>0
  <2>2. (q - 1) * z <= (K - 1) * z /\ (K - 1) * z <= MaxInt32
    BY <1>0, <2>1, ProductsGrow
  <2>3. (q - 1) * z \in Int /\ (K - 1) * z \in Int
    BY <1>0, <2>1
  <2> QED
    BY <1>0, <2>1, <2>2, <2>3
<1>5. Q = 1 .. K /\ K \in Nat
  BY <1>0, <1>2, <1>4
<1>6. K * z >= n
  <2>1. CASE K = MaxInt32
    <3>1. K * z >= K
      <4>1. \A p, y \in Nat : y >= 1 => p * y >= p
        OBVIOUS
      <4> QED
        BY <1>0, <1>5, <4>1
    <3>2. K * z \in Int
      BY <1>0, <1>5
    <3> QED
      BY <1>0, <2>1, <3>1, <3>2
  <2>2. CASE K # MaxInt32
    <3>1. K + 1 \in 1 .. MaxInt32 /\ K + 1 \notin Q
      BY <1>0, <1>2, <2>2
    <3>2. (K + 1) - 1 = K
      BY <1>5
    <3>3. ~ (K * z <= MaxInt32)
      BY <3>1, <3>2
    <3>4. K * z \in Int
      BY <1>0, <1>5
    <3> QED
      BY <1>0, <3>3, <3>4
  <2> QED
    BY <2>1, <2>2
<1> QED
  BY <1>5, <1>6

LEMMA ShownIsPage ==
  ASSUME NEW all \in Seq(Reviews!ReviewRecord), NEW p \in Nat, NEW z \in Nat, p >= 1
  PROVE  Shown(all, (p - 1) * z, z) = Reviews!PageOf(all, p, z)
<1> DEFINE n == Len(all)
<1>1. PICK f, e : f = (p - 1) * z /\ e = p * z
  OBVIOUS
<1>2. f \in Nat /\ e = f + z /\ e \in Nat /\ n \in Nat
  BY <1>1
<1>3. Reviews!Min({e, n}) = IF e > n THEN n ELSE e
  <2>1. CASE e > n
    <3>1. \A x \in {e, n} : (\A y \in {e, n} : x <= y) <=> x = n
      BY <1>2, <2>1
    <3> QED
      BY <2>1, <3>1 DEF Reviews!Min
  <2>2. CASE ~ (e > n)
    <3>1. \A x \in {e, n} : (\A y \in {e, n} : x <= y) <=> x = e
      BY <1>2, <2>2
    <3> QED
      BY <2>2, <3>1 DEF Reviews!Min
  <2> QED
    BY <2>1, <2>2
<1>4. Reviews!PageOf(all, p, z) = SubSeq(all, f + 1, IF e > n THEN n ELSE e)
  BY <1>1, <1>3 DEF Reviews!PageOf
<1>5. CASE f >= n
  <2>1. (IF e > n THEN n ELSE e) < f + 1
    BY <1>2, <1>5
  <2>2. \A j \in Int : j < f + 1 => SubSeq(all, f + 1, j) = <<>>
    BY <1>2
  <2>3. (IF e > n THEN n ELSE e) \in Int
    BY <1>2
  <2> QED
    BY <1>1, <1>4, <1>5, <2>1, <2>2, <2>3 DEF Shown
<1>6. CASE ~ (f >= n)
  BY <1>1, <1>2, <1>4, <1>6 DEF Shown
<1> QED
  BY <1>5, <1>6

\* The two sums of PagesPartition, which are the same over all pieces as over all.
ReviewsIn(listed) == Reviews!MapThenSumSet(Len, listed)
RatingsIn(listed) == Reviews!MapThenSumSet(Reviews!Ratings, listed)

LEMMA PiecesAddUp ==
  ASSUME NEW all \in Seq(Reviews!ReviewRecord), NEW P, NEW C, NEW K \in Nat,
         Cuts(all, P, C, K),
         \A i, j \in 1 .. Len(all) : i < j => all[i] # all[j],
         NEW listed, listed = {P[p] : p \in 1 .. K}
  PROVE  ReviewsIn(listed) = Len(all) /\ RatingsIn(listed) = Reviews!Ratings(all)
<1>1. IsFiniteSet(listed)
  <2> DEFINE e == [p \in 1 .. K |-> P[p]]
  <2>1. e \in Seq(listed) /\ Len(e) = K
    OBVIOUS
  <2>2. \A x \in listed : \E p \in 1 .. Len(e) : e[p] = x
    BY <2>1
  <2> QED
    BY <2>1, <2>2 DEF IsFiniteSet
<1>2. ASSUME NEW p \in 1 .. K
      PROVE  /\ C[p] \in 0 .. Len(all) /\ C[p - 1] \in 0 .. Len(all)
             /\ P[p] \in Seq(Reviews!ReviewRecord) /\ Len(P[p]) = C[p] - C[p - 1]
  <2>1. p \in 0 .. K /\ p - 1 \in 0 .. K
    OBVIOUS
  <2> QED
    BY <2>1 DEF Cuts
<1>3. ReviewsIn(listed) = Len(all)
  <2> DEFINE Sum(it) == [s \in SUBSET listed |-> IF s = {} THEN 0
                           ELSE Len(CHOOSE x \in s : TRUE) + it[s \ {CHOOSE x \in s : TRUE}]]
             J == CHOOSE it : it = Sum(it)
             f == [x \in listed |-> Len(x)]
  <2>1. ReviewsIn(listed) = J[listed]
    BY Zenon DEF ReviewsIn, Reviews!MapThenSumSet, Reviews!MapThenFoldSet
  <2>2. f \in [listed -> Int]
    <3>1. \A x \in listed : Len(x) \in Int
      BY <1>2
    <3> QED
      BY <3>1
  <2>3. ASSUME NEW s \in SUBSET listed, s # {}
        PROVE  Len(CHOOSE x \in s : TRUE) = f[CHOOSE x \in s : TRUE]
    <3>1. (CHOOSE x \in s : TRUE) \in listed
      BY <2>3
    <3> QED
      BY <3>1
  <2> HIDE DEF f
  <2>4. \E it : it = Sum(it)
    <3>1. PICK it \in [SUBSET listed -> Int] : SumsOver(it, listed, f)
      BY <1>1, <2>2, SumDefined
    <3>2. it = Sum(it)
      BY <2>3, <3>1 DEF SumsOver
    <3> QED
      BY <3>2
  <2>5. J = Sum(J)
    BY <2>4
  <2> HIDE DEF J
  <2>6. SumsOver(J, listed, f)
    BY <2>3, <2>5 DEF SumsOver
  <2>7. PICK G \in [0 .. Len(all) -> Int] : \A k \in 0 .. Len(all) : G[k] = k
    <3> DEFINE same == [k \in 0 .. Len(all) |-> k]
    <3>1. same \in [0 .. Len(all) -> Int] /\ \A k \in 0 .. Len(all) : same[k] = k
      OBVIOUS
    <3> QED
      BY <3>1
  <2>8. \A p \in 1 .. K : f[P[p]] = G[C[p]] - G[C[p - 1]]
    BY <1>2, <2>7 DEF f
  <2>9. G[0] = 0
    BY <2>7
  <2>10. J[listed] = G[Len(all)]
    BY <2>2, <2>6, <2>8, <2>9, SumOfCuts
  <2>11. G[Len(all)] = Len(all)
    BY <2>7
  <2> QED
    BY <2>1, <2>10, <2>11
<1>4. RatingsIn(listed) = Reviews!Ratings(all)
  <2> DEFINE Sum(it) == [s \in SUBSET listed |-> IF s = {} THEN 0
                           ELSE Reviews!Ratings(CHOOSE x \in s : TRUE)
                                  + it[s \ {CHOOSE x \in s : TRUE}]]
             J == CHOOSE it : it = Sum(it)
             f == [x \in listed |-> Reviews!Ratings(x)]
  <2>1. RatingsIn(listed) = J[listed]
    BY Zenon DEF RatingsIn, Reviews!MapThenSumSet, Reviews!MapThenFoldSet
  <2>2. PICK R \in [0 .. Len(all) -> Int] : RatesUpTo(all, R)
    BY RatingsExist
  <2>3. \A p \in 1 .. K : Reviews!Ratings(P[p]) = R[C[p]] - R[C[p - 1]]
    BY <2>2, PieceRatings
  <2>4. f \in [listed -> Int]
    <3>1. \A x \in listed : Reviews!Ratings(x) \in Int
      <4>1. ASSUME NEW p \in 1 .. K PROVE Reviews!Ratings(P[p]) \in Int
        <5>1. R[C[p]] \in Int /\ R[C[p - 1]] \in Int
          BY <1>2
        <5> QED
          BY <2>3, <5>1
      <4> QED
        BY <4>1
    <3> QED
      BY <3>1
  <2>5. ASSUME NEW s \in SUBSET listed, s # {}
        PROVE  Reviews!Ratings(CHOOSE x \in s : TRUE) = f[CHOOSE x \in s : TRUE]
    <3>1. (CHOOSE x \in s : TRUE) \in listed
      BY <2>5
    <3> QED
      BY <3>1
  <2>6. \A p \in 1 .. K : f[P[p]] = R[C[p]] - R[C[p - 1]]
    BY <2>3
  <2> HIDE DEF f
  <2>7. \E it : it = Sum(it)
    <3>1. PICK it \in [SUBSET listed -> Int] : SumsOver(it, listed, f)
      BY <1>1, <2>4, SumDefined
    <3>2. it = Sum(it)
      BY <2>5, <3>1 DEF SumsOver
    <3> QED
      BY <3>2
  <2>8. J = Sum(J)
    BY <2>7
  <2> HIDE DEF J
  <2>9. SumsOver(J, listed, f)
    BY <2>5, <2>8 DEF SumsOver
  <2>10. J[listed] = R[Len(all)]
    <3>1. R[0] = 0
      BY <2>2 DEF RatesUpTo
    <3> QED
      BY <2>4, <2>6, <2>9, <3>1, SumOfCuts
  <2>11. Reviews!Ratings(all) = R[Len(all)]
    BY <2>2, FoldedRatings
  <2> QED
    BY <2>1, <2>10, <2>11
<1> QED
  BY <1>3, <1>4

\* The pages of one size hold every review of a hotel, and each once.
LEMMA PagesHoldAll ==
  ASSUME ReviewIInv, PagesListed, NEW h \in HotelId, NEW z \in 1 .. MaxInt32
  PROVE  LET pages == {Reviews!ListReviews([hotel_id |-> h, page |-> p, page_size |-> z]) :
                         p \in {q \in 1 .. MaxInt32 : (q - 1) * z <= MaxInt32}}
             listed == {answer.reviews : answer \in pages}
         IN  /\ Reviews!GetAggregate(h)
                  = Reviews!GetAggregateResponse(Reviews!MapThenSumSet(Len, listed),
                                                 Reviews!MapThenSumSet(Reviews!Ratings, listed))
             /\ \A answer \in pages :
                  answer.total_count = Reviews!GetAggregate(h).review_count
<1> DEFINE all == reviews[h]
           n == Len(all)
           Page(p) == Reviews!ListReviews([hotel_id |-> h, page |-> p, page_size |-> z])
<1>1. /\ all \in Seq(Reviews!ReviewRecord) /\ n \in 0 .. MaxReviews /\ PostsOK(h)
  <2>1. all \in Seq(Reviews!ReviewRecord) /\ n <= seq /\ seq \in 0 .. MaxReviews /\ PostsOK(h)
    BY DEF ReviewIInv, PostsOK, Reviews!ReviewTypeOK
  <2> QED
    BY <2>1, ReviewNumbers
<1>2. \A i, j \in 1 .. n : i < j => all[i] # all[j]
  <2>1. \A i \in 1 .. n : all[i].review_id \in 1 .. seq
    BY <1>1 DEF PostsOK
  <2>2. \A i, j \in 1 .. n : i < j => all[i].review_id < all[j].review_id
    BY <1>1 DEF PostsOK
  <2> QED
    BY <2>1, <2>2
<1>3. PICK K \in Nat : /\ {q \in 1 .. MaxInt32 : (q - 1) * z <= MaxInt32} = 1 .. K
                       /\ K * z >= n
  BY <1>1, PagesReachTheEnd
<1> DEFINE P == [p \in 1 .. K |-> Shown(all, (p - 1) * z, z)]
<1>4. PICK C : Cuts(all, P, C, K)
  <2>1. z \in Nat
    BY ReviewNumbers
  <2> QED
    BY <1>1, <1>3, <2>1, PagesCut
<1>5. ASSUME NEW p \in 1 .. K
      PROVE  Page(p).reviews = P[p] /\ Page(p).total_count = n
  <2> DEFINE req == [hotel_id |-> h, page |-> p, page_size |-> z]
  <2>1. p \in 1 .. MaxInt32 /\ (p - 1) * z <= MaxInt32
    BY <1>3
  <2>2. req \in Reviews!ListReviewsRequest /\ Listable(req) /\ From(req) = (p - 1) * z
    BY <2>1, ReviewNumbers DEF Reviews!ListReviewsRequest, Listable, Reviews!CanList, From
  <2>3. Reviews!ListReviews(req).reviews = Shown(all, From(req), z)
        /\ Reviews!ListReviews(req).total_count = n
    BY <2>2 DEF PagesListed
  <2> QED
    BY <2>2, <2>3
<1> HIDE DEF P
<1> DEFINE pages == {Page(p) : p \in 1 .. K}
           listed == {answer.reviews : answer \in pages}
<1>6. listed = {P[p] : p \in 1 .. K}
  BY <1>5
<1>7. ReviewsIn(listed) = n /\ RatingsIn(listed) = Reviews!Ratings(all)
  <2>1. all \in Seq(Reviews!ReviewRecord) /\ \A i, j \in 1 .. Len(all) : i < j => all[i] # all[j]
    BY <1>1, <1>2
  <2> HIDE DEF all, listed
  <2> QED
    BY <1>4, <1>6, <2>1, PiecesAddUp
<1>8. /\ Reviews!GetAggregate(h) = Reviews!GetAggregateResponse(n, Reviews!Ratings(all))
      /\ Reviews!GetAggregate(h).review_count = n
  BY DEF Reviews!GetAggregate, Reviews!GetAggregateResponse
<1>9. \A answer \in pages : answer.total_count = n
  BY <1>5
<1>10. pages = {Page(p) : p \in {q \in 1 .. MaxInt32 : (q - 1) * z <= MaxInt32}}
  BY <1>3
<1> QED
  BY <1>7, <1>8, <1>9, <1>10, Zenon DEF ReviewsIn, RatingsIn

\* Every page whose first index fits is right, and the pages of any size hold each
\* review once, so that counting and rating page by page gives the aggregate
\* (ListReviews and GetAggregate of review/server.go).
THEOREM PagesPartitionReviews == ServicesSpec => []PagesPartition
<1>1. ReviewIInv /\ PagesListed => PagesPartition
  <2> SUFFICES ASSUME ReviewIInv, PagesListed PROVE Reviews!PagesPartition
    BY DEF PagesPartition
  <2>1. ASSUME NEW req \in Reviews!ListReviewsRequest, Reviews!CanList(req),
               (req.page - 1) * req.page_size <= MaxInt32
        PROVE  Reviews!PageRight(req)
    <3>1. Listable(req)
      BY <2>1 DEF Listable
    <3>2. /\ ~ Reviews!SlicePanics(req)
          /\ Reviews!ListReviews(req).reviews
               = Shown(reviews[req.hotel_id], (req.page - 1) * req.page_size, req.page_size)
      BY <3>1 DEF PagesListed, From
    <3>3. /\ req.page \in Nat /\ req.page >= 1 /\ req.page_size \in Nat
          /\ reviews[req.hotel_id] \in Seq(Reviews!ReviewRecord)
      <4>1. req.page \in 1 .. MaxInt32 /\ req.page_size \in 1 .. MaxInt32
            /\ req.hotel_id \in HotelId
        BY <3>1, FromFits
      <4> QED
        BY <4>1, ReviewNumbers DEF ReviewIInv, Reviews!ReviewTypeOK
    <3> QED
      BY <3>2, <3>3, ShownIsPage DEF Reviews!PageRight
  <2> QED
    BY <2>1, PagesHoldAll, Zenon DEF Reviews!PagesPartition
<1> QED
  BY <1>1, ReviewInvariant, PTL DEF ServicesSpec

-----------------------------------------------------------------------------
(***************************************************************************)
(* Ads: the auction, for every set of bids and budgets and every number of *)
(* slots.  The loop is the sequence of the answers it has built after each *)
(* bidder; who wins is told by how many before could pay.                  *)
(***************************************************************************)

\* The bids of all campaigns are numbers.
LEMMA CampaignTypes ==
  ASSUME campaigns \in Seq(AdService!Campaign)
  PROVE  /\ DOMAIN campaigns = 1 .. Len(campaigns) /\ Len(campaigns) \in Nat
         /\ \A n \in DOMAIN campaigns :
              /\ campaigns[n] = [bid |-> campaigns[n].bid, remaining |-> campaigns[n].remaining]
              /\ campaigns[n].bid \in Bid /\ campaigns[n].bid \in Int
              /\ campaigns[n].remaining \in Nat
<1>1. Bid \subseteq Int
  BY ServicesAssumption DEF AdService!AdsAssumption
<1>2. DOMAIN campaigns = 1 .. Len(campaigns) /\ Len(campaigns) \in Nat
  OBVIOUS
<1>3. \A n \in DOMAIN campaigns : campaigns[n] \in AdService!Campaign
  BY <1>2
<1> QED
  BY <1>1, <1>2, <1>3 DEF AdService!Campaign

\* Before is a strict total order of the campaigns.
LEMMA BeforeIsTotal ==
  ASSUME campaigns \in Seq(AdService!Campaign), NEW S, S \subseteq DOMAIN campaigns
  PROVE  TotalOrder({p \in S \X S : AdService!Before(p[1], p[2])}, S)
<1> DEFINE lt == {p \in S \X S : AdService!Before(p[1], p[2])}
<1>1. \A x \in S : x \in Nat /\ campaigns[x].bid \in Int
  BY CampaignTypes
<1>2. \A x, y \in S : <<x, y>> \in lt <=> AdService!Before(x, y)
  OBVIOUS
<1> HIDE DEF lt
<1>3. \A x, y \in S : x # y => <<x, y>> \in lt \/ <<y, x>> \in lt
  BY <1>1, <1>2 DEF AdService!Before
<1>4. \A x, y, z \in S : <<x, y>> \in lt /\ <<y, z>> \in lt => <<x, z>> \in lt
  BY <1>1, <1>2 DEF AdService!Before
<1>5. \A x \in S : <<x, x>> \notin lt
  BY <1>1, <1>2 DEF AdService!Before
<1> QED
  BY <1>3, <1>4, <1>5 DEF TotalOrder, lt

\* The ranking holds the eligible campaigns, each once, in the order of Before.
RankedOK(ranked, n) ==
  /\ n \in Nat /\ ranked \in [1 .. n -> AdService!Eligible] /\ Len(ranked) = n
  /\ ranked \in Seq(AdService!Eligible)
  /\ AdService!Eligible = {ranked[i] : i \in 1 .. n}
  /\ \A i, j \in 1 .. n : i < j <=> AdService!Before(ranked[i], ranked[j])
  /\ \A i, j \in 1 .. n : i # j => ranked[i] # ranked[j]

LEMMA RankedSorted ==
  ASSUME campaigns \in Seq(AdService!Campaign)
  PROVE  /\ IsFiniteSet(AdService!Eligible)
         /\ RankedOK(AdService!Ranked, Cardinality(AdService!Eligible))
<1> DEFINE S == AdService!Eligible
           n == Cardinality(S)
           lt == {p \in S \X S : AdService!Before(p[1], p[2])}
           In(r) == r \in [1 .. n -> S] /\ \A i, j \in 1 .. n : i # j => r[i] # r[j]
           InOrder(r) == \A i, j \in DOMAIN r : i < j => AdService!Before(r[i], r[j])
<1>1. S \subseteq DOMAIN campaigns
  BY DEF AdService!Eligible
<1>2. IsFiniteSet(S) /\ n \in Nat
  <2>1. IsFiniteSet(1 .. Len(campaigns))
    <3>1. 1 \in Int /\ Len(campaigns) \in Int
      OBVIOUS
    <3> QED
      BY <3>1, FS_Interval
  <2> QED
    BY <1>1, <2>1, CampaignTypes, FS_Subset, FS_CardinalityType
<1>3. TotalOrder(lt, S)
  BY <1>1, BeforeIsTotal
<1> HIDE DEF S
<1>4. \A x, y \in S : /\ <<x, y>> \in lt <=> AdService!Before(x, y)
                      /\ AdService!Before(x, y) => ~ AdService!Before(y, x) /\ x # y
  <2>1. \A x, y \in S : <<x, y>> \in lt <=> AdService!Before(x, y)
    OBVIOUS
  <2> HIDE DEF lt
  <2> QED
    BY <1>3, <2>1 DEF TotalOrder
<1>0. AdService!SetToSeqs(S) = {f \in [1 .. n -> S] : \A i, j \in 1 .. n : i # j => f[i] # f[j]}
  <2>1. AdService!Cardinality(S) = n
    BY DEF AdService!Cardinality, Cardinality
  <2> HIDE DEF n
  <2> QED
    BY <2>1 DEF AdService!SetToSeqs
<1> HIDE DEF lt, n
<1>5. PICK order : Sorts(order, S, lt)
  BY <1>2, <1>3, SortedExists
<1>6. order \in AdService!SetToSeqs(S) /\ InOrder(order)
  <2>1. order \in [1 .. n -> S] /\ \A i, j \in 1 .. n : i < j => <<order[i], order[j]>> \in lt
    BY <1>5 DEF Sorts, n
  <2>2. \A i, j \in 1 .. n : i < j => AdService!Before(order[i], order[j])
    BY <1>4, <2>1
  <2>3. \A i, j \in 1 .. n : i # j => i < j \/ j < i
    BY <1>2
  <2>4. \A i, j \in 1 .. n : i # j => order[i] # order[j]
    BY <1>4, <2>1, <2>2, <2>3
  <2> QED
    BY <1>0, <2>1, <2>2, <2>4
<1>7. PICK r : r = AdService!Ranked
  OBVIOUS
<1>8. r = CHOOSE ranked \in AdService!SetToSeqs(S) : InOrder(ranked)
  BY <1>7 DEF AdService!Ranked, S
<1>9. r \in AdService!SetToSeqs(S) /\ InOrder(r)
  <2> HIDE DEF InOrder
  <2> QED
    BY <1>6, <1>8
<1>10. In(r) /\ DOMAIN r = 1 .. n
  BY <1>0, <1>9
<1>11. S = {r[i] : i \in 1 .. n}
  <2>1. IsFiniteSet(1 .. n) /\ Cardinality(1 .. n) = n
    BY <1>2, FS_Interval
  <2>2. r \in Injection(1 .. n, S)
    BY <1>10 DEF Injection, IsInjective
  <2>3. r \in Surjection(1 .. n, S)
    BY <1>2, <2>1, <2>2, FS_Injection DEF n
  <2> QED
    BY <1>10, <2>3 DEF Surjection
<1>12. \A i, j \in 1 .. n : i < j <=> AdService!Before(r[i], r[j])
  <2>1. \A i, j \in 1 .. n : i < j => AdService!Before(r[i], r[j])
    BY <1>9, <1>10
  <2>2. \A i, j \in 1 .. n : r[i] \in S /\ r[j] \in S /\ (i < j \/ i = j \/ j < i)
    BY <1>2, <1>10
  <2> QED
    BY <1>4, <2>1, <2>2
<1>13. r \in Seq(S) /\ Len(r) = n
  BY <1>2, <1>10
<1> QED
  BY <1>2, <1>7, <1>10, <1>11, <1>12, <1>13 DEF RankedOK, S, n

\* The bidders that the auction asks can be given a slot.
LEMMA FillType ==
  ASSUME AdService!TypeOK, NEW ranked, NEW n, RankedOK(ranked, n), NEW i \in 1 .. n,
         NEW filled \in Seq(AdService!Slot), NEW count
  PROVE  /\ ranked[i] \in DOMAIN campaigns
         /\ AdService!Price(ranked, i) \in Bid /\ AdService!Price(ranked, i) \in Int
         /\ AdService!Price(ranked, i) = campaigns[ranked[IF i < n THEN i + 1 ELSE i]].bid
         /\ [campaign |-> ranked[i], price |-> AdService!Price(ranked, i)] \in AdService!Slot
         /\ AdService!Fill(filled, ranked, i, count) \in Seq(AdService!Slot)
<1>1. /\ n \in Nat /\ Len(ranked) = n /\ \A j \in 1 .. n : ranked[j] \in DOMAIN campaigns
  BY DEF RankedOK, AdService!Eligible
<1> DEFINE j == IF i < n THEN i + 1 ELSE i
<1>2. j \in 1 .. n
  BY <1>1
<1>3. AdService!Price(ranked, i) = campaigns[ranked[j]].bid
  BY <1>1 DEF AdService!Price
<1> HIDE DEF j
<1>4. AdService!Price(ranked, i) \in Bid /\ AdService!Price(ranked, i) \in Int
  BY <1>1, <1>2, <1>3, CampaignTypes DEF AdService!TypeOK
<1>5. ranked[i] \in 1 .. MaxCampaigns
  <2>1. /\ ranked[i] \in 1 .. Len(campaigns) /\ Len(campaigns) \in Nat
        /\ Len(campaigns) <= MaxCampaigns /\ MaxCampaigns \in Nat
    BY <1>1, CampaignTypes, ServicesAssumption DEF AdService!TypeOK, AdService!AdsAssumption
  <2> QED
    BY <2>1
<1>6. [campaign |-> ranked[i], price |-> AdService!Price(ranked, i)] \in AdService!Slot
  BY <1>4, <1>5 DEF AdService!Slot
<1>7. AdService!Fill(filled, ranked, i, count) \in Seq(AdService!Slot)
  BY <1>6 DEF AdService!Fill
<1> QED
  BY <1>1, <1>3, <1>4, <1>6, <1>7 DEF j

\* W[k] is the answer after the bidders at the first k positions.
FillsUpTo(W, ranked, n, count) ==
  /\ W \in [0 .. n -> Seq(AdService!Slot)] /\ W[0] = <<>>
  /\ \A k \in 1 .. n : W[k] = AdService!Fill(W[k - 1], ranked, k, count)

LEMMA FoldedAuction ==
  ASSUME AdService!TypeOK, NEW count, NEW n, RankedOK(AdService!Ranked, n)
  PROVE  \E W : FillsUpTo(W, AdService!Ranked, n, count) /\ AdService!Auction(count) = W[n]
<1> DEFINE ranked == AdService!Ranked
           ids == [i \in DOMAIN ranked |-> i]
           V == Seq(AdService!Slot)
           Run(it) == [s \in SUBSET DOMAIN ids |->
                        IF s = {} THEN <<>>
                        ELSE AdService!Fill(it[s \ {AdService!Max(s)}], ranked,
                                            ids[AdService!Max(s)], count)]
           J == CHOOSE it : it = Run(it)
           F == [p \in V \X (1 .. n) |-> AdService!Fill(p[1], ranked, p[2], count)]
<1>1. AdService!Auction(count) = J[DOMAIN ids]
  BY Zenon DEF AdService!Auction, AdService!FoldLeftDomain, AdService!FoldLeft,
               AdService!MapThenFoldSet
<1>2. /\ n \in Nat /\ DOMAIN ranked = 1 .. n /\ DOMAIN ids = 1 .. n
      /\ \A i \in 1 .. n : ids[i] = i
  BY DEF RankedOK
<1>0. \A s \in V, i \in 1 .. n : AdService!Fill(s, ranked, i, count) \in V
  BY FillType
<1>3. F \in [V \X (1 .. n) -> V]
  <2> HIDE DEF ranked, V
  <2> QED
    BY <1>0
<1>4. <<>> \in V /\ \A t : AdService!Max(t) = Max(t)
  BY DEF AdService!Max, Max
<1>5. \A s \in V, i \in 1 .. n : F[<<s, i>>] = AdService!Fill(s, ranked, i, count)
  OBVIOUS
<1> HIDE DEF F, V, ranked, ids
<1>6. PICK it \in [SUBSET (1 .. n) -> V] : Folds(it, n, <<>>, F)
  BY <1>2, <1>3, <1>4, FoldDefined
<1>7. \E g : g = Run(g)
  <2>1. ASSUME NEW s \in SUBSET (1 .. n), s # {}
        PROVE  F[<<it[s \ {Max(s)}], Max(s)>>]
                 = AdService!Fill(it[s \ {Max(s)}], ranked, ids[Max(s)], count)
    <3>1. Max(s) \in 1 .. n
      BY <1>2, <2>1, MaxIsIn
    <3>2. it[s \ {Max(s)}] \in V
      BY <1>6
    <3> QED
      BY <1>2, <1>5, <3>1, <3>2
  <2>2. it = Run(it)
    BY <1>2, <1>4, <1>6, <2>1 DEF Folds
  <2> QED
    BY <2>2
<1>8. J = Run(J)
  BY <1>7
<1> HIDE DEF J
<1>9. \A s \in SUBSET (1 .. n) :
        J[s] = IF s = {} THEN <<>>
               ELSE AdService!Fill(J[s \ {Max(s)}], ranked, ids[Max(s)], count)
  BY <1>2, <1>4, <1>8
<1> HIDE DEF Run
<1> DEFINE W == [k \in 0 .. n |-> J[1 .. k]]
<1>10. \A k \in 0 .. n : 1 .. k \in SUBSET (1 .. n) /\ W[k] = J[1 .. k]
  BY <1>2
<1>11. W[0] = <<>>
  <2>1. 1 .. 0 = {} /\ {} \in SUBSET (1 .. n) /\ 0 \in 0 .. n
    BY <1>2
  <2> QED
    BY <1>9, <1>10, <2>1
<1>12. ASSUME NEW k \in 1 .. n PROVE W[k] = AdService!Fill(W[k - 1], ranked, k, count)
  <2>1. /\ k \in 1 .. k /\ 1 .. k # {} /\ (1 .. k) \ {k} = 1 .. (k - 1) /\ k - 1 \in 0 .. n
        /\ k \in Nat /\ 1 .. k \in SUBSET (1 .. k) /\ k \in 0 .. n
    BY <1>2
  <2>2. Max(1 .. k) = k
    BY <2>1, MaxIsLast
  <2>3. J[1 .. k] = AdService!Fill(J[1 .. (k - 1)], ranked, k, count)
    <3>1. (1 .. k) \ {Max(1 .. k)} = 1 .. (k - 1) /\ ids[Max(1 .. k)] = k
      BY <1>2, <2>1, <2>2
    <3>2. 1 .. k \in SUBSET (1 .. n) /\ 1 .. k # {}
      BY <1>10, <2>1
    <3> QED
      BY <1>9, <3>1, <3>2
  <2> QED
    BY <1>10, <2>1, <2>3
<1>13. \E f : W \in [0 .. n -> f]
  <2> WITNESS {W[k] : k \in 0 .. n}
  <2> QED
    OBVIOUS
<1> HIDE DEF W
<1>14. W \in [0 .. n -> V]
  <2> DEFINE Typed == {k \in Nat : k <= n => W[k] \in V}
  <2>1. 0 \in Typed
    BY <1>4, <1>11
  <2>2. ASSUME NEW k \in Nat, k \in Typed PROVE k + 1 \in Typed
    <3> SUFFICES ASSUME k + 1 <= n PROVE W[k + 1] \in V
      OBVIOUS
    <3>1. k + 1 \in 1 .. n /\ (k + 1) - 1 = k /\ W[k] \in V
      BY <1>2, <2>2
    <3>2. W[k + 1] = AdService!Fill(W[k], ranked, k + 1, count)
      BY <1>12, <3>1
    <3> QED
      BY <1>0, <3>1, <3>2
  <2> HIDE DEF Typed
  <2>3. \A k \in Nat : k \in Typed
    BY <2>1, <2>2, Induction
  <2>4. \A k \in 0 .. n : W[k] \in V
    BY <1>2, <2>3 DEF Typed
  <2> QED
    BY <1>13, <2>4
<1>15. J[DOMAIN ids] = W[n]
  BY <1>2, <1>10
<1>16. FillsUpTo(W, AdService!Ranked, n, count)
  BY <1>11, <1>12, <1>14 DEF FillsUpTo, ranked, V
<1> QED
  BY <1>1, <1>15, <1>16

\* The bidder at position i can afford its price.
Payable(ranked, i) == campaigns[ranked[i]].remaining >= AdService!Price(ranked, i)

\* Those at the first k positions who can, and how many they are.
PaidUpTo(ranked, k) == {ranked[i] : i \in {j \in 1 .. k : Payable(ranked, j)}}
Count(ranked, k) == Cardinality(PaidUpTo(ranked, k))

CountOK(ranked, n) ==
  /\ Count(ranked, 0) = 0
  /\ \A k \in 0 .. n : Count(ranked, k) \in Nat
  /\ \A k \in 1 .. n : Count(ranked, k) = IF Payable(ranked, k) THEN Count(ranked, k - 1) + 1
                                          ELSE Count(ranked, k - 1)

LEMMA PaidCounts ==
  ASSUME NEW ranked, NEW n, RankedOK(ranked, n)
  PROVE  CountOK(ranked, n)
<1>1. \A k \in 0 .. n : IsFiniteSet(PaidUpTo(ranked, k)) /\ Count(ranked, k) \in Nat
  <2> SUFFICES ASSUME NEW k \in 0 .. n
               PROVE  IsFiniteSet(PaidUpTo(ranked, k)) /\ Count(ranked, k) \in Nat
    OBVIOUS
  <2> DEFINE T == {ranked[i] : i \in 1 .. k}
             e == [i \in 1 .. k |-> ranked[i]]
  <2>0. k \in Nat
    BY DEF RankedOK
  <2>1. e \in Seq(T) /\ Len(e) = k
    BY <2>0
  <2>2. \A x \in T : \E i \in 1 .. Len(e) : e[i] = x
    BY <2>1
  <2>3. IsFiniteSet(T)
    BY <2>1, <2>2 DEF IsFiniteSet
  <2>4. PaidUpTo(ranked, k) \subseteq T
    BY DEF PaidUpTo
  <2> HIDE DEF T
  <2>5. IsFiniteSet(PaidUpTo(ranked, k))
    BY <2>3, <2>4, FS_Subset
  <2> QED
    BY <2>5, FS_CardinalityType DEF Count
<1>2. Count(ranked, 0) = 0
  <2>1. PaidUpTo(ranked, 0) = {}
    BY DEF PaidUpTo
  <2> QED
    BY <2>1, FS_EmptySet DEF Count
<1>3. ASSUME NEW k \in 1 .. n
      PROVE  Count(ranked, k) = IF Payable(ranked, k) THEN Count(ranked, k - 1) + 1
                                ELSE Count(ranked, k - 1)
  <2>1. /\ k - 1 \in 0 .. n /\ 1 .. k = (1 .. (k - 1)) \cup {k}
        /\ \A i \in 1 .. (k - 1) : i \in 1 .. n /\ i # k
    BY DEF RankedOK
  <2>2. \A i \in 1 .. (k - 1) : ranked[i] # ranked[k]
    BY <2>1 DEF RankedOK
  <2>3. CASE Payable(ranked, k)
    <3>1. PaidUpTo(ranked, k) = PaidUpTo(ranked, k - 1) \cup {ranked[k]}
      BY <2>1, <2>3 DEF PaidUpTo
    <3>2. ranked[k] \notin PaidUpTo(ranked, k - 1)
      BY <2>2 DEF PaidUpTo
    <3> QED
      BY <1>1, <2>1, <2>3, <3>1, <3>2, FS_AddElement DEF Count
  <2>4. CASE ~ Payable(ranked, k)
    <3>1. PaidUpTo(ranked, k) = PaidUpTo(ranked, k - 1)
      BY <2>1, <2>4 DEF PaidUpTo
    <3> QED
      BY <2>4, <3>1 DEF Count
  <2> QED
    BY <2>3, <2>4
<1> QED
  BY <1>1, <1>2, <1>3 DEF CountOK

SlotAt(ranked, i) == [campaign |-> ranked[i], price |-> AdService!Price(ranked, i)]

\* The positions of the first count bidders who can pay.
Wins(ranked, i, count) == Payable(ranked, i) /\ Count(ranked, i - 1) < count

\* After k positions the answer lists their winners in the order of the positions.
FilledOK(filled, pos, ranked, k, count) ==
  /\ filled \in Seq(AdService!Slot)
  /\ Len(filled) = IF Count(ranked, k) <= count THEN Count(ranked, k) ELSE count
  /\ pos \in [1 .. Len(filled) -> 1 .. k]
  /\ \A j \in 1 .. Len(filled) : /\ filled[j] = SlotAt(ranked, pos[j])
                                 /\ Wins(ranked, pos[j], count)
  /\ \A i, j \in 1 .. Len(filled) : i < j => pos[i] < pos[j]
  /\ \A i \in 1 .. k : Wins(ranked, i, count) => \E j \in 1 .. Len(filled) : pos[j] = i

LEMMA FilledInit ==
  ASSUME NEW ranked, NEW n, RankedOK(ranked, n), NEW count \in Nat
  PROVE  \E pos : FilledOK(<<>>, pos, ranked, 0, count)
<1> DEFINE pos == [i \in 1 .. 0 |-> i]
<1>1. Count(ranked, 0) = 0
  BY PaidCounts DEF CountOK
<1>2. FilledOK(<<>>, pos, ranked, 0, count)
  BY <1>1 DEF FilledOK
<1> QED
  BY <1>2

LEMMA FilledStep ==
  ASSUME AdService!TypeOK, NEW ranked, NEW n, RankedOK(ranked, n), NEW count \in Nat,
         NEW k \in 1 .. n, NEW filled, NEW pos, FilledOK(filled, pos, ranked, k - 1, count)
  PROVE  \E p : FilledOK(AdService!Fill(filled, ranked, k, count), p, ranked, k, count)
<1>0. n \in Nat /\ k \in Nat /\ k - 1 \in 0 .. n /\ k \in 0 .. n
  BY DEF RankedOK
<1> DEFINE c == Count(ranked, k)
           b == Count(ranked, k - 1)
<1>1. b \in Nat /\ c \in Nat /\ c = IF Payable(ranked, k) THEN b + 1 ELSE b
  BY <1>0, PaidCounts DEF CountOK
<1>2. /\ filled \in Seq(AdService!Slot) /\ Len(filled) = (IF b <= count THEN b ELSE count)
      /\ pos \in [1 .. Len(filled) -> 1 .. (k - 1)]
      /\ \A j \in 1 .. Len(filled) : /\ filled[j] = SlotAt(ranked, pos[j])
                                     /\ Wins(ranked, pos[j], count)
      /\ \A i, j \in 1 .. Len(filled) : i < j => pos[i] < pos[j]
      /\ \A i \in 1 .. (k - 1) : Wins(ranked, i, count) => \E j \in 1 .. Len(filled) : pos[j] = i
  BY DEF FilledOK
<1>3. Len(filled) \in Nat /\ (Len(filled) = count <=> ~ (b < count))
  BY <1>1, <1>2
<1>4. Payable(ranked, k) <=> ~ (campaigns[ranked[k]].remaining < AdService!Price(ranked, k))
  <2>1. /\ ranked[k] \in DOMAIN campaigns /\ AdService!Price(ranked, k) \in Int
        /\ campaigns[ranked[k]].remaining \in Int
    <3>1. ranked[k] \in DOMAIN campaigns /\ AdService!Price(ranked, k) \in Int
      BY <1>2, FillType
    <3>2. campaigns \in Seq(AdService!Campaign)
      BY DEF AdService!TypeOK
    <3>3. campaigns[ranked[k]].remaining \in Nat
      BY <3>1, <3>2, CampaignTypes
    <3> QED
      BY <3>1, <3>3
  <2> QED
    BY <2>1 DEF Payable
<1> DEFINE more == AdService!Fill(filled, ranked, k, count)
<1>5. more = IF Wins(ranked, k, count) THEN Append(filled, SlotAt(ranked, k)) ELSE filled
  BY <1>3, <1>4 DEF AdService!Fill, Wins, SlotAt
<1>6. more \in Seq(AdService!Slot)
  BY <1>2, FillType
<1> HIDE DEF more, b, c
<1>7. CASE ~ Wins(ranked, k, count)
  <2>1. more = filled
    BY <1>5, <1>7
  <2>2. Len(filled) = IF c <= count THEN c ELSE count
    BY <1>1, <1>2, <1>7 DEF Wins, b
  <2>3. \A i \in 1 .. k : i \in 1 .. (k - 1) \/ i = k
    BY <1>0
  <2>4. pos \in [1 .. Len(filled) -> 1 .. k]
    BY <1>0, <1>2
  <2>5. FilledOK(filled, pos, ranked, k, count)
    BY <1>2, <1>7, <2>2, <2>3, <2>4 DEF FilledOK, c
  <2> QED
    BY <2>1, <2>5 DEF more
<1>8. CASE Wins(ranked, k, count)
  <2> DEFINE m == Len(filled)
             p == [i \in 1 .. m + 1 |-> IF i = m + 1 THEN k ELSE pos[i]]
  <2>1. more = Append(filled, SlotAt(ranked, k))
    BY <1>5, <1>8
  <2>2. /\ Len(more) = m + 1 /\ more[m + 1] = SlotAt(ranked, k) /\ m \in Nat
        /\ \A i \in 1 .. m : more[i] = filled[i]
    BY <1>2, <2>1
  <2>3. /\ p[m + 1] = k
        /\ \A i \in 1 .. m : i \in 1 .. m + 1 /\ p[i] = pos[i] /\ pos[i] \in 1 .. (k - 1)
    BY <1>2, <2>2
  <2>4. \A i \in 1 .. m + 1 : i \in 1 .. m \/ i = m + 1
    BY <2>2
  <2>5. p \in [1 .. m + 1 -> 1 .. k]
    <3>0. \A x \in 1 .. (k - 1) : x \in 1 .. k
      BY <1>0
    <3>1. \A i \in 1 .. m : pos[i] \in 1 .. k
      BY <2>3, <3>0
    <3>2. k \in 1 .. k
      BY <1>0
    <3> QED
      BY <2>4, <3>1, <3>2
  <2> HIDE DEF p
  <2>6. m + 1 = IF c <= count THEN c ELSE count
    BY <1>1, <1>2, <1>8 DEF Wins, b
  <2>7. \A j \in 1 .. m + 1 : more[j] = SlotAt(ranked, p[j]) /\ Wins(ranked, p[j], count)
    BY <1>2, <1>8, <2>2, <2>3, <2>4
  <2>8. ASSUME NEW i \in 1 .. m + 1, NEW j \in 1 .. m + 1, i < j
        PROVE  p[i] < p[j]
    <3>1. i \in 1 .. m
      BY <2>2, <2>8
    <3>2. CASE j = m + 1
      BY <1>0, <2>3, <3>1, <3>2
    <3>3. CASE j \in 1 .. m
      BY <1>2, <2>3, <2>8, <3>1, <3>3
    <3> QED
      BY <2>4, <3>2, <3>3
  <2>9. ASSUME NEW i \in 1 .. k, Wins(ranked, i, count)
        PROVE  \E j \in 1 .. m + 1 : p[j] = i
    <3>1. CASE i = k
      <4>1. m + 1 \in 1 .. m + 1
        BY <2>2
      <4> QED
        BY <2>3, <3>1, <4>1
    <3>2. CASE i # k
      <4>1. i \in 1 .. (k - 1)
        BY <1>0, <3>2
      <4>2. PICK j \in 1 .. m : pos[j] = i
        BY <1>2, <2>9, <4>1
      <4> QED
        BY <2>3, <4>2
    <3> QED
      BY <3>1, <3>2
  <2>10. FilledOK(more, p, ranked, k, count)
    BY <1>6, <2>2, <2>5, <2>6, <2>7, <2>8, <2>9 DEF FilledOK, c
  <2> QED
    BY <2>10 DEF more
<1> QED
  BY <1>7, <1>8

LEMMA AuctionFilled ==
  ASSUME AdService!TypeOK, NEW count \in Nat, NEW n, RankedOK(AdService!Ranked, n)
  PROVE  \E pos : FilledOK(AdService!Auction(count), pos, AdService!Ranked, n, count)
<1>1. PICK ranked : ranked = AdService!Ranked
  OBVIOUS
<1>2. PICK W : FillsUpTo(W, ranked, n, count) /\ AdService!Auction(count) = W[n]
  BY <1>1, FoldedAuction
<1> DEFINE Good == {k \in Nat : k <= n => \E pos : FilledOK(W[k], pos, ranked, k, count)}
<1>3. n \in Nat /\ RankedOK(ranked, n)
  BY <1>1 DEF RankedOK
<1>4. 0 \in Good
  <2>1. W[0] = <<>>
    BY <1>2 DEF FillsUpTo
  <2> QED
    BY <1>3, <2>1, FilledInit
<1>5. ASSUME NEW k \in Nat, k \in Good PROVE k + 1 \in Good
  <2> SUFFICES ASSUME k + 1 <= n
               PROVE  \E pos : FilledOK(W[k + 1], pos, ranked, k + 1, count)
    OBVIOUS
  <2>1. k + 1 \in 1 .. n /\ (k + 1) - 1 = k
    BY <1>3
  <2>2. PICK pos : FilledOK(W[k], pos, ranked, k, count)
    BY <1>3, <1>5, <2>1
  <2>3. W[k + 1] = AdService!Fill(W[k], ranked, k + 1, count)
    BY <1>2, <2>1 DEF FillsUpTo
  <2>4. FilledOK(W[k], pos, ranked, (k + 1) - 1, count)
    BY <2>1, <2>2
  <2>5. \E p : FilledOK(AdService!Fill(W[k], ranked, k + 1, count), p, ranked, k + 1, count)
    BY <1>3, <2>1, <2>4, FilledStep
  <2> QED
    BY <2>3, <2>5
<1> HIDE DEF Good
<1>6. n \in Good
  BY <1>3, <1>4, <1>5, Induction
<1> QED
  BY <1>1, <1>2, <1>3, <1>6 DEF Good

\* What is left of a balance after the charges.
Left(balance, charges) ==
  AdService!FoldSet(LAMBDA s, left : left - s.price, balance, charges)

LEMMA LeftOfCharges ==
  ASSUME NEW balance \in Int
  PROVE  /\ Left(balance, {}) = balance
         /\ \A x : Left(balance, {x}) = balance - x.price
<1>1. Left(balance, {}) = balance
  <2> DEFINE Sub(it) == [s \in SUBSET {} |-> IF s = {} THEN balance
                           ELSE it[s \ {CHOOSE y \in s : TRUE}] - (CHOOSE y \in s : TRUE).price]
             J == CHOOSE it : it = Sub(it)
  <2>1. Left(balance, {}) = J[{}]
    BY Zenon DEF Left, AdService!FoldSet, AdService!MapThenFoldSet
  <2> DEFINE g == [s \in SUBSET {} |-> balance]
  <2>2. g = Sub(g)
    OBVIOUS
  <2> HIDE DEF g
  <2>3. J = Sub(J)
    BY <2>2
  <2> HIDE DEF J
  <2> QED
    BY <2>1, <2>3
<1>2. ASSUME NEW x PROVE Left(balance, {x}) = balance - x.price
  <2> DEFINE Sub(it) == [s \in SUBSET {x} |-> IF s = {} THEN balance
                           ELSE it[s \ {CHOOSE y \in s : TRUE}] - (CHOOSE y \in s : TRUE).price]
             J == CHOOSE it : it = Sub(it)
  <2>1. Left(balance, {x}) = J[{x}]
    BY Zenon DEF Left, AdService!FoldSet, AdService!MapThenFoldSet
  <2>2. \A s \in SUBSET {x} : s = {} \/ s = {x}
    OBVIOUS
  <2>3. (CHOOSE y \in {x} : TRUE) = x
    OBVIOUS
  <2> DEFINE g == [s \in SUBSET {x} |-> IF s = {} THEN balance ELSE balance - x.price]
  <2>4. g[{}] = balance /\ g[{x}] = balance - x.price
    OBVIOUS
  <2>5. \A s \in SUBSET {x} : g[s] = IF s = {} THEN balance
                           ELSE g[s \ {CHOOSE y \in s : TRUE}] - (CHOOSE y \in s : TRUE).price
    <3> SUFFICES ASSUME NEW s \in SUBSET {x}
                 PROVE  g[s] = IF s = {} THEN balance
                           ELSE g[s \ {CHOOSE y \in s : TRUE}] - (CHOOSE y \in s : TRUE).price
      OBVIOUS
    <3> HIDE DEF g
    <3>1. CASE s = {}
      BY <2>4, <3>1
    <3>2. CASE s = {x}
      <4>1. (CHOOSE y \in s : TRUE) = x /\ s \ {x} = {} /\ s # {}
        BY <2>3, <3>2
      <4> QED
        BY <2>4, <3>2, <4>1
    <3> QED
      BY <2>2, <3>1, <3>2
  <2>6. g = Sub(g)
    BY <2>5
  <2> HIDE DEF g
  <2>7. J = Sub(J)
    BY <2>6
  <2> HIDE DEF J
  <2>8. J[{}] = balance
    BY <2>7
  <2>9. J[{x}] = J[{x} \ {x}] - x.price
    BY <2>3, <2>7
  <2>10. {x} \ {x} = {}
    OBVIOUS
  <2> QED
    BY <2>1, <2>8, <2>9, <2>10
<1> QED
  BY <1>1, <1>2

\* A winner is charged for one slot, and nobody else is.
LEMMA AuctionCharges ==
  ASSUME NEW ranked, NEW n, RankedOK(ranked, n), NEW count,
         NEW filled, NEW pos, FilledOK(filled, pos, ranked, n, count)
  PROVE  /\ AdService!ToSet(filled)
              = {SlotAt(ranked, i) : i \in {j \in 1 .. n : Wins(ranked, j, count)}}
         /\ \A i \in 1 .. n : AdService!Charged(ranked[i], filled)
                                = IF Wins(ranked, i, count) THEN {SlotAt(ranked, i)} ELSE {}
         /\ \A c : c \notin AdService!Eligible => AdService!Charged(c, filled) = {}
<1>1. AdService!ToSet(filled) = {filled[j] : j \in 1 .. Len(filled)}
  BY DEF FilledOK, AdService!ToSet
<1>2. \A j \in 1 .. Len(filled) : /\ pos[j] \in 1 .. n /\ Wins(ranked, pos[j], count)
                                  /\ filled[j] = SlotAt(ranked, pos[j])
  BY DEF FilledOK
<1>3. \A i \in 1 .. n : Wins(ranked, i, count) => \E j \in 1 .. Len(filled) : pos[j] = i
  BY DEF FilledOK
<1>4. AdService!ToSet(filled) = {SlotAt(ranked, i) : i \in {j \in 1 .. n : Wins(ranked, j, count)}}
  BY <1>1, <1>2, <1>3
<1>5. \A i \in 1 .. n : SlotAt(ranked, i).campaign = ranked[i]
  BY DEF SlotAt
<1>6. \A i, j \in 1 .. n : ranked[i] = ranked[j] => i = j
  BY DEF RankedOK
<1>7. ASSUME NEW i \in 1 .. n
      PROVE  AdService!Charged(ranked[i], filled)
               = IF Wins(ranked, i, count) THEN {SlotAt(ranked, i)} ELSE {}
  BY <1>4, <1>5, <1>6 DEF AdService!Charged
<1>8. ASSUME NEW c, c \notin AdService!Eligible PROVE AdService!Charged(c, filled) = {}
  <2>1. \A i \in 1 .. n : ranked[i] \in AdService!Eligible
    BY DEF RankedOK
  <2> QED
    BY <1>4, <1>5, <1>8, <2>1 DEF AdService!Charged
<1> QED
  BY <1>4, <1>7, <1>8

\* A SelectSponsored leaves the bids alone and takes its price off each winner.
ChargesOK(ranked, n, count) ==
  /\ DOMAIN campaigns' = DOMAIN campaigns
  /\ \A c \in DOMAIN campaigns :
       /\ campaigns'[c].bid = campaigns[c].bid
       /\ campaigns'[c].remaining \in Nat /\ campaigns'[c] \in AdService!Campaign
       /\ c \notin AdService!Eligible => campaigns'[c].remaining = campaigns[c].remaining
  /\ \A i \in 1 .. n :
       campaigns'[ranked[i]].remaining
         = campaigns[ranked[i]].remaining
             - (IF Wins(ranked, i, count) THEN AdService!Price(ranked, i) ELSE 0)

LEMMA SelectCharges ==
  ASSUME AdService!TypeOK, NEW count, AdService!SelectSponsored(count),
         NEW ranked, NEW n, RankedOK(ranked, n),
         NEW pos, FilledOK(slots', pos, ranked, n, count)
  PROVE  ChargesOK(ranked, n, count)
<1>0. campaigns \in Seq(AdService!Campaign)
  BY DEF AdService!TypeOK
<1>1. campaigns' = [c \in DOMAIN campaigns |->
                     [campaigns[c] EXCEPT !.remaining =
                        Left(@, AdService!Charged(c, slots'))]]
  BY Zenon DEF AdService!SelectSponsored, Left
<1>2. \A c \in DOMAIN campaigns :
        /\ campaigns[c] = [bid |-> campaigns[c].bid, remaining |-> campaigns[c].remaining]
        /\ campaigns[c].bid \in Bid /\ campaigns[c].remaining \in Nat
  BY <1>0, CampaignTypes
<1>3. /\ DOMAIN campaigns' = DOMAIN campaigns
      /\ \A c \in DOMAIN campaigns :
           campaigns'[c] = [bid |-> campaigns[c].bid,
                            remaining |-> Left(campaigns[c].remaining,
                                               AdService!Charged(c, slots'))]
  BY <1>1, <1>2
<1>4. ASSUME NEW c \in DOMAIN campaigns, c \notin AdService!Eligible
      PROVE  campaigns'[c].remaining = campaigns[c].remaining
  <2>1. AdService!Charged(c, slots') = {}
    BY <1>4, AuctionCharges
  <2>2. Left(campaigns[c].remaining, {}) = campaigns[c].remaining
    BY <1>2, LeftOfCharges
  <2> QED
    BY <1>3, <2>1, <2>2
<1>5. ASSUME NEW i \in 1 .. n
      PROVE  /\ campaigns'[ranked[i]].remaining
                  = campaigns[ranked[i]].remaining
                      - (IF Wins(ranked, i, count) THEN AdService!Price(ranked, i) ELSE 0)
             /\ campaigns'[ranked[i]].remaining \in Nat
  <2>1. ranked[i] \in DOMAIN campaigns /\ AdService!Price(ranked, i) \in Int
    <3>1. <<>> \in Seq(AdService!Slot)
      OBVIOUS
    <3> QED
      BY <3>1, FillType
  <2>2. PICK r \in Nat : r = campaigns[ranked[i]].remaining
    BY <1>2, <2>1
  <2>3. campaigns'[ranked[i]].remaining = Left(r, AdService!Charged(ranked[i], slots'))
    BY <1>3, <2>1, <2>2
  <2>4. CASE Wins(ranked, i, count)
    <3>1. AdService!Charged(ranked[i], slots') = {SlotAt(ranked, i)}
      BY <2>4, AuctionCharges
    <3>2. Left(r, {SlotAt(ranked, i)}) = r - SlotAt(ranked, i).price
      BY LeftOfCharges
    <3>3. SlotAt(ranked, i).price = AdService!Price(ranked, i)
      BY DEF SlotAt
    <3>4. r >= AdService!Price(ranked, i)
      BY <2>2, <2>4 DEF Wins, Payable
    <3> QED
      BY <2>1, <2>2, <2>3, <2>4, <3>1, <3>2, <3>3, <3>4
  <2>5. CASE ~ Wins(ranked, i, count)
    <3>1. AdService!Charged(ranked[i], slots') = {}
      BY <2>5, AuctionCharges
    <3>2. Left(r, {}) = r
      BY LeftOfCharges
    <3> QED
      BY <2>2, <2>3, <2>5, <3>1, <3>2
  <2> QED
    BY <2>4, <2>5
<1>6. ASSUME NEW c \in DOMAIN campaigns
      PROVE  /\ campaigns'[c].bid = campaigns[c].bid /\ campaigns'[c].remaining \in Nat
             /\ campaigns'[c] \in AdService!Campaign
  <2>1. campaigns'[c].remaining \in Nat
    <3>1. CASE c \in AdService!Eligible
      <4>1. PICK i \in 1 .. n : c = ranked[i]
        BY <3>1 DEF RankedOK
      <4> QED
        BY <1>5, <4>1
    <3>2. CASE c \notin AdService!Eligible
      BY <1>2, <1>4, <3>2
    <3> QED
      BY <3>1, <3>2
  <2> QED
    BY <1>2, <1>3, <2>1 DEF AdService!Campaign
<1> QED
  BY <1>3, <1>4, <1>5, <1>6 DEF ChargesOK

AdsIInv == /\ AdService!TypeOK /\ AdService!SlotsInOrder
           /\ \A i \in DOMAIN slots : slots[i].campaign \in DOMAIN campaigns

LEMMA AdsInit == AdService!Init => AdsIInv
<1> SUFFICES ASSUME AdService!Init PROVE AdsIInv
  OBVIOUS
<1>1. campaigns = <<>> /\ slots = <<>>
  BY DEF AdService!Init
<1>2. MaxCampaigns \in 1 .. 9
  BY ServicesAssumption DEF AdService!AdsAssumption
<1>3. /\ <<>> \in Seq(AdService!Campaign) /\ <<>> \in Seq(AdService!Slot)
      /\ Len(<<>>) = 0 /\ DOMAIN <<>> = {}
  OBVIOUS
<1> QED
  BY <1>1, <1>2, <1>3 DEF AdsIInv, AdService!TypeOK, AdService!SlotsInOrder

LEMMA SetCampaignInv ==
  ASSUME AdsIInv, NEW m \in AdService!SetCampaignRequest,
         AdService!SetCampaign(m.bid, m.budget)
  PROVE  AdsIInv'
<1> DEFINE new == [bid |-> m.bid, remaining |-> m.budget]
<1>1. new \in AdService!Campaign
  <2>1. m.bid \in Bid /\ m.budget \in Int /\ m.budget > 0
    BY ServicesAssumption DEF AdService!SetCampaignRequest, AdService!AdsAssumption,
                              AdService!SetCampaign
  <2> QED
    BY <2>1 DEF AdService!Campaign
<1>2. /\ campaigns \in Seq(AdService!Campaign) /\ campaigns' = Append(campaigns, new)
      /\ Len(campaigns) < MaxCampaigns /\ slots' = slots /\ slots \in Seq(AdService!Slot)
      /\ MaxCampaigns \in Nat
  BY ServicesAssumption
  DEF AdService!SetCampaign, AdsIInv, AdService!TypeOK, AdService!AdsAssumption
<1> HIDE DEF new
<1>3. /\ campaigns' \in Seq(AdService!Campaign) /\ Len(campaigns') <= MaxCampaigns
      /\ \A c \in DOMAIN campaigns : c \in DOMAIN campaigns' /\ campaigns'[c] = campaigns[c]
  BY <1>1, <1>2
<1>4. AdService!TypeOK'
  BY <1>2, <1>3 DEF AdService!TypeOK, AdService!Campaign, AdService!Slot
<1>5. \A i \in DOMAIN slots : slots[i].campaign \in DOMAIN campaigns
  BY DEF AdsIInv
<1>6. AdService!SlotsInOrder'
  BY <1>2, <1>3, <1>5 DEF AdsIInv, AdService!SlotsInOrder
<1> QED
  BY <1>2, <1>3, <1>4, <1>5, <1>6 DEF AdsIInv

\* What is known of a SelectSponsored.
LEMMA Selected ==
  ASSUME AdService!TypeOK, NEW count \in Nat, AdService!SelectSponsored(count)
  PROVE  \E ranked, n, pos : /\ RankedOK(ranked, n) /\ FilledOK(slots', pos, ranked, n, count)
                             /\ ChargesOK(ranked, n, count)
<1>1. PICK ranked, n : ranked = AdService!Ranked /\ n = Cardinality(AdService!Eligible)
  OBVIOUS
<1>2. RankedOK(ranked, n) /\ RankedOK(AdService!Ranked, n)
  BY <1>1, RankedSorted DEF AdService!TypeOK
<1>3. PICK pos : FilledOK(slots', pos, ranked, n, count)
  BY <1>1, <1>2, AuctionFilled DEF AdService!SelectSponsored
<1> QED
  BY <1>2, <1>3, SelectCharges

\* The bids fall along the ranking.
LEMMA BidsFall ==
  ASSUME campaigns \in Seq(AdService!Campaign), NEW ranked, NEW n, RankedOK(ranked, n)
  PROVE  /\ \A i \in 1 .. n : ranked[i] \in DOMAIN campaigns /\ campaigns[ranked[i]].bid \in Int
         /\ \A i, j \in 1 .. n : i <= j => campaigns[ranked[i]].bid >= campaigns[ranked[j]].bid
<1>1. \A i \in 1 .. n : ranked[i] \in DOMAIN campaigns /\ campaigns[ranked[i]].bid \in Int
  <2>1. \A i \in 1 .. n : ranked[i] \in DOMAIN campaigns
    BY DEF RankedOK, AdService!Eligible
  <2> QED
    BY <2>1, CampaignTypes
<1>2. ASSUME NEW i \in 1 .. n, NEW j \in 1 .. n, i <= j
      PROVE  campaigns[ranked[i]].bid >= campaigns[ranked[j]].bid
  <2>1. CASE i = j
    BY <1>1, <2>1
  <2>2. CASE i < j
    BY <1>1, <2>2 DEF RankedOK, AdService!Before
  <2> QED
    BY <1>2, <2>1, <2>2 DEF RankedOK
<1> QED
  BY <1>1, <1>2

LEMMA SelectInv ==
  ASSUME AdsIInv, NEW count \in Nat, AdService!SelectSponsored(count)
  PROVE  AdsIInv'
<1>1. PICK ranked, n, pos : /\ RankedOK(ranked, n) /\ FilledOK(slots', pos, ranked, n, count)
                            /\ ChargesOK(ranked, n, count)
  BY Selected DEF AdsIInv
<1>2. campaigns \in Seq(AdService!Campaign) /\ Len(campaigns) <= MaxCampaigns
  BY DEF AdsIInv, AdService!TypeOK
<1>3. campaigns' \in Seq(AdService!Campaign) /\ Len(campaigns') = Len(campaigns)
  <2>1. /\ DOMAIN campaigns = 1 .. Len(campaigns) /\ Len(campaigns) \in Nat
        /\ DOMAIN campaigns' = DOMAIN campaigns
        /\ \A c \in DOMAIN campaigns : campaigns'[c] \in AdService!Campaign
    BY <1>1, <1>2 DEF ChargesOK
  <2>2. campaigns' = [c \in DOMAIN campaigns' |-> campaigns'[c]]
    BY Zenon DEF AdService!SelectSponsored
  <2>3. campaigns' \in [1 .. Len(campaigns) -> AdService!Campaign]
    BY <2>1, <2>2
  <2> QED
    BY <2>1, <2>3
<1>4. slots' \in Seq(AdService!Slot) /\ DOMAIN slots' = 1 .. Len(slots')
  BY <1>1 DEF FilledOK
<1>5. AdService!TypeOK'
  BY <1>2, <1>3, <1>4 DEF AdService!TypeOK, AdService!Campaign, AdService!Slot
<1>6. n \in Nat /\ \A c \in DOMAIN campaigns : campaigns'[c].bid = campaigns[c].bid
  BY <1>1 DEF ChargesOK, RankedOK
<1>7. \A i \in DOMAIN slots' : /\ pos[i] \in 1 .. n /\ ranked[pos[i]] \in DOMAIN campaigns
                               /\ slots'[i].campaign = ranked[pos[i]]
                               /\ slots'[i].price = AdService!Price(ranked, pos[i])
  <2> SUFFICES ASSUME NEW i \in DOMAIN slots'
               PROVE  /\ pos[i] \in 1 .. n /\ ranked[pos[i]] \in DOMAIN campaigns
                      /\ slots'[i].campaign = ranked[pos[i]]
                      /\ slots'[i].price = AdService!Price(ranked, pos[i])
    OBVIOUS
  <2>1. i \in 1 .. Len(slots')
    BY <1>4
  <2>2. pos[i] \in 1 .. n /\ slots'[i] = SlotAt(ranked, pos[i])
    BY <1>1, <2>1 DEF FilledOK
  <2>3. ranked[pos[i]] \in DOMAIN campaigns
    BY <1>1, <1>2, <2>2, BidsFall
  <2> QED
    BY <2>2, <2>3 DEF SlotAt
<1>8. DOMAIN campaigns' = DOMAIN campaigns
  BY <1>1 DEF ChargesOK
<1>9. ASSUME NEW i \in DOMAIN slots'
      PROVE  slots'[i].price <= campaigns'[slots'[i].campaign].bid
  <2>1. PICK p \in 1 .. n : p = pos[i]
    BY <1>7
  <2>2. PICK q \in 1 .. n : q = IF p < n THEN p + 1 ELSE p
    BY <1>6
  <2>3. p <= q
    BY <2>2
  <2>4. AdService!Price(ranked, p) = campaigns[ranked[q]].bid
    BY <1>1, <2>2 DEF AdService!Price, RankedOK
  <2>5. /\ campaigns[ranked[q]].bid \in Int /\ campaigns[ranked[p]].bid \in Int
        /\ campaigns[ranked[p]].bid >= campaigns[ranked[q]].bid
    BY <1>1, <1>2, <2>3, BidsFall
  <2> QED
    BY <1>6, <1>7, <2>1, <2>4, <2>5
<1>10. ASSUME NEW i \in DOMAIN slots', NEW j \in DOMAIN slots', i < j
       PROVE  /\ slots'[i].campaign # slots'[j].campaign
              /\ campaigns'[slots'[i].campaign].bid >= campaigns'[slots'[j].campaign].bid
  <2>1. PICK p \in 1 .. n, q \in 1 .. n : p = pos[i] /\ q = pos[j]
    BY <1>7
  <2>2. p < q
    BY <1>1, <1>4, <1>10, <2>1 DEF FilledOK
  <2>3. ranked[p] # ranked[q]
    BY <1>1, <2>2 DEF RankedOK
  <2>4. campaigns[ranked[p]].bid >= campaigns[ranked[q]].bid
    <3>1. p <= q
      BY <2>2
    <3> QED
      BY <1>1, <1>2, <3>1, BidsFall
  <2> QED
    BY <1>6, <1>7, <2>1, <2>3, <2>4
<1>11. AdService!SlotsInOrder'
  BY <1>9, <1>10 DEF AdService!SlotsInOrder
<1>12. \A i \in DOMAIN slots' : slots'[i].campaign \in DOMAIN campaigns'
  BY <1>7, <1>8
<1> QED
  BY <1>5, <1>11, <1>12 DEF AdsIInv

LEMMA AdsKept == AdsIInv /\ [AdService!Next]_adVars => AdsIInv'
<1> SUFFICES ASSUME AdsIInv, [AdService!Next]_adVars PROVE AdsIInv'
  OBVIOUS
<1>1. CASE \E m \in AdService!SetCampaignRequest : AdService!SetCampaign(m.bid, m.budget)
  BY <1>1, SetCampaignInv
<1>2. CASE \E m \in AdService!SelectSponsoredRequest : AdService!SelectSponsored(m.slot_count)
  <2>1. PICK m \in AdService!SelectSponsoredRequest : AdService!SelectSponsored(m.slot_count)
    BY <1>2
  <2>2. m.slot_count \in Nat
    BY ServicesAssumption DEF AdService!SelectSponsoredRequest, AdService!AdsAssumption
  <2> QED
    BY <2>1, <2>2, SelectInv
<1>3. CASE UNCHANGED adVars
  BY <1>3 DEF adVars, AdsIInv, AdService!TypeOK, AdService!SlotsInOrder, AdService!Campaign,
              AdService!Slot
<1> QED
  BY <1>1, <1>2, <1>3 DEF AdService!Next

LEMMA ServicesAds == [ServicesNext]_vars => [AdService!Next]_adVars
BY DEF ServicesNext, PaymentStep, UserStep, AuthStep, CatalogStep, AdsStep, ReviewStep, vars,
       adVars

\* The inductive invariant holds in every state the service reaches.
THEOREM AdsInvariant == ServicesSpec => []AdsIInv
<1>1. ServicesInit => AdsIInv
  BY AdsInit DEF ServicesInit
<1> QED
  BY <1>1, AdsKept, ServicesAds, PTL DEF ServicesSpec

\* The answer lists its winners by falling bid, none twice, at no more than their
\* own bids (the sort and the loop of SelectSponsored in ads/server.go).
THEOREM SlotsAreInOrder == ServicesSpec => []AdService!SlotsInOrder
<1>1. AdsIInv => AdService!SlotsInOrder
  BY DEF AdsIInv
<1> QED
  BY <1>1, AdsInvariant, PTL

\* What a bidder owes is the price of its position: the next bid of the ranking is
\* the highest below it.
LEMMA DueIsPrice ==
  ASSUME campaigns \in Seq(AdService!Campaign), NEW ranked, NEW n, RankedOK(ranked, n),
         NEW i \in 1 .. n
  PROVE  AdService!Due(ranked[i]) = AdService!Price(ranked, i)
<1>1. /\ n \in Nat /\ Len(ranked) = n
      /\ AdService!Eligible = {ranked[j] : j \in 1 .. n}
      /\ \A j \in 1 .. n : AdService!Before(ranked[i], ranked[j]) <=> i < j
  BY DEF RankedOK
<1> DEFINE below == AdService!Below(ranked[i])
           bids == {campaigns[m].bid : m \in below}
<1>2. below = {ranked[j] : j \in {k \in 1 .. n : i < k}}
  BY <1>1 DEF AdService!Below
<1>3. AdService!Due(ranked[i]) = IF below = {} THEN campaigns[ranked[i]].bid
                                 ELSE CHOOSE b \in bids : \A m \in below : campaigns[m].bid <= b
  BY DEF AdService!Due
<1> HIDE DEF below
<1>4. CASE ~ (i < n)
  <2>1. i = n
    BY <1>1, <1>4
  <2>2. below = {}
    BY <1>1, <1>2, <2>1
  <2>3. AdService!Price(ranked, i) = campaigns[ranked[i]].bid
    BY <1>1, <1>4 DEF AdService!Price
  <2> QED
    BY <1>3, <2>2, <2>3
<1>5. CASE i < n
  <2>1. PICK k \in 1 .. n : k = i + 1 /\ i < k
    BY <1>1, <1>5
  <2>2. ranked[k] \in below
    BY <1>2, <2>1
  <2>3. PICK top : top = campaigns[ranked[k]].bid
    OBVIOUS
  <2>4. AdService!Price(ranked, i) = top
    BY <1>1, <1>5, <2>1, <2>3 DEF AdService!Price
  <2>5. top \in bids
    BY <2>2, <2>3
  <2>6. ASSUME NEW m \in below PROVE campaigns[m].bid <= top /\ campaigns[m].bid \in Int
    <3>1. PICK j \in 1 .. n : m = ranked[j] /\ i < j
      BY <1>2
    <3>2. k <= j
      BY <2>1, <3>1
    <3>3. /\ campaigns[ranked[k]].bid >= campaigns[ranked[j]].bid
          /\ campaigns[ranked[k]].bid \in Int /\ campaigns[ranked[j]].bid \in Int
      BY <3>2, BidsFall
    <3> QED
      BY <2>3, <3>1, <3>3
  <2>7. \A b \in bids : (\A m \in below : campaigns[m].bid <= b) => b = top
    <3> SUFFICES ASSUME NEW b \in bids, \A m \in below : campaigns[m].bid <= b
                 PROVE  b = top
      OBVIOUS
    <3>1. PICK m \in below : b = campaigns[m].bid
      OBVIOUS
    <3>2. b <= top /\ b \in Int
      BY <2>6, <3>1
    <3>3. top <= b /\ top \in Int
      BY <2>2, <2>3, <2>6
    <3> QED
      BY <3>2, <3>3
  <2>8. \A m \in below : campaigns[m].bid <= top
    BY <2>6
  <2> HIDE DEF bids
  <2>9. (CHOOSE b \in bids : \A m \in below : campaigns[m].bid <= b) = top
    BY <2>5, <2>7, <2>8
  <2> QED
    BY <1>3, <2>2, <2>4, <2>9
<1> QED
  BY <1>4, <1>5

\* The winners by the loop are those of the definition without it.
LEMMA WinnersWin ==
  ASSUME campaigns \in Seq(AdService!Campaign), NEW ranked, NEW n, RankedOK(ranked, n),
         NEW count
  PROVE  /\ \A i \in 1 .. n : ranked[i] \in AdService!Winners(count) <=> Wins(ranked, i, count)
         /\ \A c \in AdService!Winners(count) : c \in AdService!Eligible
<1>1. /\ n \in Nat /\ AdService!Eligible = {ranked[i] : i \in 1 .. n}
      /\ \A i, j \in 1 .. n : i < j <=> AdService!Before(ranked[i], ranked[j])
      /\ \A i, j \in 1 .. n : i # j => ranked[i] # ranked[j]
  BY DEF RankedOK
<1>2. \A i \in 1 .. n : AdService!Due(ranked[i]) = AdService!Price(ranked, i)
  BY DueIsPrice
<1>3. \A i \in 1 .. n : ranked[i] \in AdService!Payers <=> Payable(ranked, i)
  BY <1>1, <1>2 DEF AdService!Payers, Payable
<1>4. AdService!Payers \subseteq AdService!Eligible
  BY DEF AdService!Payers
<1>5. ASSUME NEW i \in 1 .. n
      PROVE  {m \in AdService!Payers : AdService!Before(m, ranked[i])} = PaidUpTo(ranked, i - 1)
  <2>1. \A j \in 1 .. n : j < i <=> j \in 1 .. (i - 1)
    BY <1>1
  <2>2. \A j \in 1 .. (i - 1) : j \in 1 .. n
    BY <1>1
  <2>3. ASSUME NEW m \in AdService!Payers, AdService!Before(m, ranked[i])
        PROVE  m \in PaidUpTo(ranked, i - 1)
    <3>1. PICK j \in 1 .. n : m = ranked[j]
      BY <1>1, <1>4
    <3>2. j \in 1 .. (i - 1) /\ Payable(ranked, j)
      BY <1>1, <1>3, <2>1, <2>3, <3>1
    <3> QED
      BY <3>1, <3>2 DEF PaidUpTo
  <2>4. ASSUME NEW m \in PaidUpTo(ranked, i - 1)
        PROVE  m \in AdService!Payers /\ AdService!Before(m, ranked[i])
    <3>1. PICK j \in 1 .. (i - 1) : m = ranked[j] /\ Payable(ranked, j)
      BY DEF PaidUpTo
    <3> QED
      BY <1>1, <1>3, <2>1, <2>2, <3>1
  <2> QED
    BY <2>3, <2>4
<1>6. \A S : AdService!Cardinality(S) = Cardinality(S)
  BY DEF AdService!Cardinality, Cardinality
<1>7. ASSUME NEW i \in 1 .. n
      PROVE  ranked[i] \in AdService!Winners(count) <=> Wins(ranked, i, count)
  <2>1. AdService!Cardinality({m \in AdService!Payers : AdService!Before(m, ranked[i])})
          = Count(ranked, i - 1)
    BY <1>5, <1>6 DEF Count
  <2> QED
    BY <1>3, <2>1 DEF AdService!Winners, Wins
<1>8. \A c \in AdService!Winners(count) : c \in AdService!Eligible
  BY <1>4 DEF AdService!Winners
<1> QED
  BY <1>7, <1>8

LEMMA SelectIsSecondPrice ==
  ASSUME AdService!TypeOK, NEW count \in Nat, AdService!SelectSponsored(count)
  PROVE  AdService!SecondPrice(count)
<1>1. PICK ranked, n, pos : /\ RankedOK(ranked, n) /\ FilledOK(slots', pos, ranked, n, count)
                            /\ ChargesOK(ranked, n, count)
  BY Selected
<1>2. campaigns \in Seq(AdService!Campaign)
  BY DEF AdService!TypeOK
<1>3. AdService!Eligible = {ranked[i] : i \in 1 .. n}
  BY <1>1 DEF RankedOK
<1> DEFINE winners == AdService!Winners(count)
<1>4. /\ \A i \in 1 .. n : ranked[i] \in winners <=> Wins(ranked, i, count)
      /\ \A c \in winners : c \in AdService!Eligible
  BY <1>1, <1>2, WinnersWin
<1>5. \A i \in 1 .. n : AdService!Due(ranked[i]) = AdService!Price(ranked, i)
  BY <1>1, <1>2, DueIsPrice
<1> HIDE DEF winners
<1>6. AdService!ToSet(slots') = {[campaign |-> c, price |-> AdService!Due(c)] : c \in winners}
  <2>1. AdService!ToSet(slots')
          = {SlotAt(ranked, i) : i \in {j \in 1 .. n : Wins(ranked, j, count)}}
    BY <1>1, AuctionCharges
  <2>2. \A i \in 1 .. n : SlotAt(ranked, i)
                            = [campaign |-> ranked[i], price |-> AdService!Due(ranked[i])]
    BY <1>5 DEF SlotAt
  <2>3. winners = {ranked[i] : i \in {j \in 1 .. n : Wins(ranked, j, count)}}
    BY <1>3, <1>4
  <2> QED
    BY <2>1, <2>2, <2>3
<1>7. ASSUME NEW c \in DOMAIN campaigns
      PROVE  campaigns[c].remaining - campaigns'[c].remaining
               = IF c \in winners THEN AdService!Due(c) ELSE 0
  <2>1. PICK before \in Nat : before = campaigns[c].remaining
    BY <1>2, CampaignTypes
  <2>2. CASE c \in AdService!Eligible
    <3>1. PICK i \in 1 .. n : c = ranked[i]
      BY <1>3, <2>2
    <3>2. campaigns'[c].remaining
            = before - (IF Wins(ranked, i, count) THEN AdService!Price(ranked, i) ELSE 0)
      BY <1>1, <2>1, <3>1 DEF ChargesOK
    <3>3. AdService!Price(ranked, i) \in Int
      <4>1. <<>> \in Seq(AdService!Slot)
        OBVIOUS
      <4> QED
        BY <1>1, <4>1, FillType
    <3>4. /\ c \in winners <=> Wins(ranked, i, count)
          /\ AdService!Due(c) = AdService!Price(ranked, i)
      BY <1>4, <1>5, <3>1
    <3>5. CASE c \in winners
      BY <2>1, <3>2, <3>3, <3>4, <3>5
    <3>6. CASE c \notin winners
      BY <2>1, <3>2, <3>4, <3>6
    <3> QED
      BY <3>5, <3>6
  <2>3. CASE c \notin AdService!Eligible
    <3>1. c \notin winners /\ campaigns'[c].remaining = before
      BY <1>1, <1>4, <2>1, <2>3 DEF ChargesOK
    <3> QED
      BY <2>1, <3>1
  <2> QED
    BY <2>2, <2>3
<1> QED
  BY <1>6, <1>7 DEF AdService!SecondPrice, winners

\* Every SelectSponsored is a second-price auction over the campaigns that can pay:
\* its slots in order, its prices and what is left of every budget (SelectSponsored of
\* ads/server.go, whose loop skips a bidder that cannot afford the next bid).
THEOREM AuctionsAreSecondPrice == ServicesSpec => SecondPriceAuction
<1>1. AdsIInv => AdService!AuctionIsSecondPrice
  <2> SUFFICES ASSUME AdsIInv, NEW count \in 1 .. MaxSlots, AdService!SelectSponsored(count)
               PROVE  AdService!SecondPrice(count) /\ AdService!SlotsInOrder'
    BY DEF AdService!AuctionIsSecondPrice
  <2>1. count \in Nat
    BY ServicesAssumption DEF AdService!AdsAssumption
  <2>2. AdService!SecondPrice(count)
    BY <2>1, SelectIsSecondPrice DEF AdsIInv
  <2>3. AdService!SlotsInOrder'
    BY <2>1, SelectInv DEF AdsIInv
  <2> QED
    BY <2>2, <2>3
<1>2. AdsIInv /\ [ServicesNext]_vars
        => [service = "ads" => AdService!AuctionIsSecondPrice]_adVars
  BY <1>1
<1> QED
  BY <1>2, AdsInvariant, PTL DEF ServicesSpec, SecondPriceAuction

-----------------------------------------------------------------------------
\* The services run alone: what one of them does leaves the others as they are.
LEMMA ServicesAlone ==
  [ServicesNext]_vars => [Next]_auths /\ [UserNext]_userVars /\ [AuthNext]_authVars
                         /\ [CatalogNext]_catalogVars
BY DEF ServicesNext, PaymentStep, UserStep, AuthStep, CatalogStep, AdsStep, ReviewStep, vars

\* Each service keeps its state within its types (the servers of payment, user, auth,
\* the catalog, ads and review); the balances of the campaigns are never negative.
THEOREM ServicesTypeCorrect == ServicesSpec => []ServicesTypeOK
<1>1. ServicesInit => Init /\ UserInit /\ AuthInit /\ CatalogInit
  BY DEF ServicesInit
<1>2. ServicesSpec => Spec /\ UserSpec /\ AuthSpec /\ CatalogSpec
  BY <1>1, ServicesAlone, PTL DEF ServicesSpec, Spec, UserSpec, AuthSpec, CatalogSpec
<1>3. PaymentIInv => TypeOK
  BY DEF PaymentIInv
<1>4. AdsIInv => AdService!TypeOK
  BY DEF AdsIInv
<1>5. ReviewIInv => Reviews!ReviewTypeOK
  BY DEF ReviewIInv
<1> QED
  BY <1>2, <1>3, <1>4, <1>5, PaymentInvariant, UserTypeCorrect, AuthTypeCorrect,
     CatalogTypeCorrect, AdsInvariant, ReviewInvariant, PTL DEF ServicesTypeOK

==============================================================================
