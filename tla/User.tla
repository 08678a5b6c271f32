---------------------------------- MODULE User ---------------------------------
(***************************************************************************)
(* The loyalty account of a user.  AccrueOnBooking reads the balance, adds *)
(* a point for every 100 cents and writes it back under the mutex of the   *)
(* server, so it is a call of several steps here: it waits for the mutex,  *)
(* reads, and writes with its answer.  CreateUser and UpdatePreferences    *)
(* are one step under the mutex; GetUser and GetPoints change nothing.     *)
(* The table is in memory and a restart loses it.                          *)
(***************************************************************************)
EXTENDS Integers, FiniteSets, FiniteSetsExt, SequencesExt

CONSTANTS UserId, Currency, Locale,
          Accrual,        \* calls of AccrueOnBooking
          BookingAmount,  \* what they ask for, in cents
          MaxPoints       \* the largest int64

\* (The points of an amount fit in an int64, because the amount does.)
ASSUME UserAssumption == /\ BookingAmount \subseteq Int /\ 0 \in BookingAmount
                         /\ MaxPoints \in Nat
                         /\ \A amount \in BookingAmount : amount \div 100 <= MaxPoints
                         /\ "" \notin UserId /\ "" \in Currency \cap Locale
                         /\ "none" \notin Accrual

VARIABLES users,  \* users[u]: the record of u, or NoUser
          mu,     \* the call that holds the mutex, or NoAccrual
          calls   \* calls[c]: where call c is, what it asked, read and answered

userVars == <<users, mu, calls>>

Points == -(MaxPoints + 1) .. MaxPoints

NoUser == [exists |-> FALSE]

UserRecord == [exists : {TRUE}, currency : Currency, locale : Locale, points : Points]

NoAccrual == "none"

\* The messages; an unset field reads as "" or 0.
CreateUserRequest == [user_id : UserId \cup {""}]
UpdatePreferencesRequest ==
  [user_id : UserId \cup {""}, currency : Currency, locale : Locale]
AccrueOnBookingRequest == [user_id : UserId \cup {""}, amount : BookingAmount]
AccrueOnBookingResponse == [points : Points]

CallStep == {"idle", "lock", "read", "write", "done", "refused", "died"}

Call == [step : CallStep, req : AccrueOnBookingRequest, read : Points,
         resp : AccrueOnBookingResponse]

NewCall == [step |-> "idle", req |-> [user_id |-> "", amount |-> 0], read |-> 0,
            resp |-> [points |-> 0]]

UserTypeOK == /\ users \in [UserId -> UserRecord \cup {NoUser}]
              /\ mu \in Accrual \cup {NoAccrual}
              /\ calls \in [Accrual -> Call]

UserInit == /\ users = [u \in UserId |-> NoUser]
            /\ mu = NoAccrual
            /\ calls = [c \in Accrual |-> NewCall]

-----------------------------------------------------------------------------
\* int64 addition of two balances.
AddPoints(a, b) == IF a + b > MaxPoints THEN a + b - 2 * (MaxPoints + 1) ELSE a + b

Earned(amount) == amount \div 100

CreateUser(req) ==
  /\ req.user_id # ""
  /\ mu = NoAccrual
  /\ users[req.user_id] = NoUser
  /\ users' = [users EXCEPT ![req.user_id] =
                 [exists |-> TRUE, currency |-> "", locale |-> "", points |-> 0]]
  /\ UNCHANGED <<mu, calls>>

UpdatePreferences(req) ==
  /\ req.user_id # ""
  /\ mu = NoAccrual
  /\ users[req.user_id] # NoUser
  /\ users' = [users EXCEPT ![req.user_id].currency = req.currency,
                            ![req.user_id].locale = req.locale]
  /\ UNCHANGED <<mu, calls>>

Goto(c, step) == calls' = [calls EXCEPT ![c].step = step]

\* The two checks that need no lock.
AccrueOnBooking(c, req) ==
  /\ calls[c].step = "idle"
  /\ calls' = [calls EXCEPT ![c].req = req, ![c].step =
                  IF req.user_id = "" \/ req.amount <= 0 THEN "refused" ELSE "lock"]
  /\ UNCHANGED <<users, mu>>

\* Mutant: the call does not wait for the mutex.
LockNot(c) == /\ calls[c].step = "lock"
              /\ Goto(c, "read")
              /\ mu' = c
              /\ UNCHANGED users

LockMu(c) == /\ calls[c].step = "lock"
             /\ mu = NoAccrual
             /\ Goto(c, "read")
             /\ mu' = c
             /\ UNCHANGED users

NotFound(c) == /\ calls[c].step = "read"
               /\ users[calls[c].req.user_id] = NoUser
               /\ Goto(c, "refused")
               /\ mu' = NoAccrual
               /\ UNCHANGED users

ReadPoints(c) ==
  /\ calls[c].step = "read"
  /\ LET u == users[calls[c].req.user_id]
     IN  /\ u # NoUser
         /\ calls' = [calls EXCEPT ![c].step = "write", ![c].read = u.points]
  /\ UNCHANGED <<users, mu>>

\* u.points += amount / 100, and the deferred unlock.
WritePoints(c) ==
  /\ calls[c].step = "write"
  /\ LET req == calls[c].req
         sum == AddPoints(calls[c].read, Earned(req.amount))
     IN  /\ users' = [users EXCEPT ![req.user_id].points = sum]
         /\ calls' = [calls EXCEPT ![c].step = "done", ![c].resp = [points |-> sum]]
  /\ mu' = NoAccrual

\* What GetPoints answers.
GetPointsResponse(u) == [points |-> users[u].points]

\* The process dies with its table and the calls it was working on; the answers
\* it gave before are about balances that are gone.
UserRestart ==
  /\ \E u \in UserId : users[u] # NoUser
  /\ users' = [u \in UserId |-> NoUser]
  /\ mu' = NoAccrual
  /\ calls' = [c \in Accrual |-> IF calls[c].step = "idle" THEN calls[c]
                                 ELSE [calls[c] EXCEPT !.step = "died"]]

UserNext == \/ \E req \in CreateUserRequest : CreateUser(req)
            \/ \E req \in UpdatePreferencesRequest : UpdatePreferences(req)
            \/ \E c \in Accrual, req \in AccrueOnBookingRequest : AccrueOnBooking(c, req)
            \/ \E c \in Accrual : LockMu(c) \/ NotFound(c) \/ ReadPoints(c) \/ WritePoints(c)
            \/ UserRestart

UserSpec == UserInit /\ [][UserNext]_userVars

-----------------------------------------------------------------------------
Accrued(u) == {c \in Accrual : calls[c].step = "done" /\ calls[c].req.user_id = u}

\* The accruals of u as if they came one after the other: the balance after
\* the i-th of them.
BalanceAfter(order, i) ==
  FoldLeft(LAMBDA sum, c : AddPoints(sum, Earned(calls[c].req.amount)), 0,
           SubSeq(order, 1, i))

\* No accrual is lost, whatever the calls interleave with: the balance, and
\* every balance that was answered, is what the accruals add up to in some
\* order, each with the cents below a full point cut off on its own, and with
\* the wraparound of int64.  (A repeated call is one more accrual: the request
\* has nothing to recognise it by.)
PointsLinearizable ==
  \A u \in UserId : users[u] # NoUser =>
    \E order \in SetToSeqs(Accrued(u)) :
      /\ GetPointsResponse(u).points = BalanceAfter(order, Len(order))
      /\ \A i \in DOMAIN order : calls[order[i]].resp.points = BalanceAfter(order, i)

\* Only the call that holds the mutex is between its lock and its answer.
AccrualsExclusive == \A c \in Accrual : calls[c].step \in {"read", "write"} <=> mu = c
=============================================================================
