---------------------------------- MODULE Auth ---------------------------------
(***************************************************************************)
(* Accounts, sessions and access tokens.  A Login opens a session, named   *)
(* by a refresh token, and mints an access token; a Refresh mints another  *)
(* one while the session lives; a Logout ends the session.  An access      *)
(* token is a signed claim that nobody stores: VerifyToken looks at its    *)
(* signature and its expiry only.  One mutex makes every RPC one step.     *)
(*                                                                         *)
(* Accounts, sessions and the counter of user ids are in memory; the       *)
(* signing key comes from the environment and survives a restart, so a     *)
(* token does too.  The scope is always "guest" and is left out.           *)
(***************************************************************************)
EXTENDS Integers, FiniteSets

CONSTANTS Email, Password,
          RefreshToken,   \* what randomString(32) can return
          TokenLifetime,  \* tokenLifetime, in ticks of the clock
          MaxTime,        \* bound on the clock
          MaxTokens       \* bound on the access tokens minted

ASSUME AuthAssumption == /\ TokenLifetime \in Nat \ {0} /\ MaxTime \in Nat
                         /\ MaxTokens \in Nat
                         /\ "" \notin Email \cup Password \cup RefreshToken

VARIABLES accounts,  \* accounts[e]: s.users[e], or NoAccount
          nextID,    \* the last user id given out
          sessions,  \* sessions[r]: the session of refresh token r
          minted,    \* the access tokens minted so far
          now        \* the wall clock

authVars == <<accounts, nextID, sessions, minted, now>>

NoAccount == [userID |-> 0]

Account == [userID : Nat \ {0}, password : Password]

\* s.sessions holds the "live" ones; of the others the model remembers when and
\* how they ended.
Session == [state : {"unused", "live", "revoked", "lost"}, userID : Nat, endedAt : Nat]

Unused == [state |-> "unused", userID |-> 0, endedAt |-> 0]

\* The claims, and the session and the account they were minted for.
AccessToken == [sub : Nat \ {0}, iat : Nat, exp : Nat,
                session : RefreshToken, email : Email]

\* The messages; an unset field reads as "".
RegisterRequest == [email : Email \cup {""}, password : Password \cup {""}]
LoginRequest == [email : Email \cup {""}, password : Password \cup {""}]
RefreshRequest == [refresh_token : RefreshToken \cup {""}]
LogoutRequest == [refresh_token : RefreshToken \cup {""}]

AuthTypeOK == /\ accounts \in [Email -> Account \cup {NoAccount}]
              /\ nextID \in Nat
              /\ sessions \in [RefreshToken -> Session]
              /\ minted \subseteq AccessToken
              /\ now \in Nat

AuthInit == /\ accounts = [e \in Email |-> NoAccount]
            /\ nextID = 0
            /\ sessions = [r \in RefreshToken |-> Unused]
            /\ minted = {}
            /\ now = 0

-----------------------------------------------------------------------------
\* Mutant: the counter of user ids stays where it is.
RegisterSameID(req) ==
  /\ req.email # "" /\ req.password # ""
  /\ accounts[req.email] = NoAccount
  /\ nextID' = 1
  /\ accounts' = [accounts EXCEPT ![req.email] =
                    [userID |-> nextID', password |-> req.password]]
  /\ UNCHANGED <<sessions, minted, now>>

Register(req) ==
  /\ req.email # "" /\ req.password # ""
  /\ accounts[req.email] = NoAccount
  /\ nextID' = nextID + 1
  /\ accounts' = [accounts EXCEPT ![req.email] =
                    [userID |-> nextID', password |-> req.password]]
  /\ UNCHANGED <<sessions, minted, now>>

MintToken(userID, session, email) ==
  /\ Cardinality(minted) < MaxTokens
  /\ minted' = minted \cup {[sub |-> userID, iat |-> now, exp |-> now + TokenLifetime,
                             session |-> session, email |-> email]}

Login(req, refresh) ==
  /\ req.email # "" /\ req.password # ""
  /\ accounts[req.email] # NoAccount
  /\ accounts[req.email].password = req.password
  /\ sessions[refresh] = Unused
  /\ LET id == accounts[req.email].userID
     IN  /\ MintToken(id, refresh, req.email)
         /\ sessions' = [sessions EXCEPT ![refresh] =
                           [state |-> "live", userID |-> id, endedAt |-> 0]]
  /\ UNCHANGED <<accounts, nextID, now>>

\* Mutant: a session that has ended is as good as a live one.
RefreshEnded(req) ==
  /\ req.refresh_token # ""
  /\ LET sess == sessions[req.refresh_token]
     IN  /\ sess.state # "unused"
         /\ \E t \in minted : /\ t.session = req.refresh_token
                              /\ MintToken(sess.userID, t.session, t.email)
  /\ UNCHANGED <<accounts, nextID, sessions, now>>

\* The new token is for whom the session was opened for.
Refresh(req) ==
  /\ req.refresh_token # ""
  /\ LET sess == sessions[req.refresh_token]
     IN  /\ sess.state = "live"
         /\ \E t \in minted : /\ t.session = req.refresh_token
                              /\ MintToken(sess.userID, t.session, t.email)
  /\ UNCHANGED <<accounts, nextID, sessions, now>>

\* Idempotent: an unknown refresh token is no error and changes nothing.
Logout(req) ==
  /\ req.refresh_token # ""
  /\ sessions[req.refresh_token].state = "live"
  /\ sessions' = [sessions EXCEPT ![req.refresh_token].state = "revoked",
                                  ![req.refresh_token].endedAt = now]
  /\ UNCHANGED <<accounts, nextID, minted, now>>

\* VerifyToken: the signature of a minted token is always good.
Verified(t) == now < t.exp

\* The claims of the token are all the answer has.
VerifyTokenResponse(t) == [user_id |-> t.sub]

\* The process starts again: NewServer with the same key.
AuthRestart ==
  /\ nextID > 0
  /\ accounts' = [e \in Email |-> NoAccount]
  /\ nextID' = 0
  /\ sessions' = [r \in RefreshToken |->
                    IF sessions[r].state = "live"
                    THEN [sessions[r] EXCEPT !.state = "lost", !.endedAt = now]
                    ELSE sessions[r]]
  /\ UNCHANGED <<minted, now>>

Tick == /\ now < MaxTime
        /\ now' = now + 1
        /\ UNCHANGED <<accounts, nextID, sessions, minted>>

AuthNext == \/ \E req \in RegisterRequest : Register(req)
            \/ \E req \in LoginRequest, r \in RefreshToken : Login(req, r)
            \/ \E req \in RefreshRequest : Refresh(req)
            \/ \E req \in LogoutRequest : Logout(req)
            \/ AuthRestart
            \/ Tick

AuthSpec == AuthInit /\ [][AuthNext]_authVars

-----------------------------------------------------------------------------
\* A session that has ended, by a Logout or with its process, gives access for
\* at most the lifetime of a token more, whatever Refreshes raced the Logout.
AccessEnds ==
  \A t \in minted :
    LET sess == sessions[t.session]
    IN  sess.state \in {"revoked", "lost"} /\ Verified(t)
          => now < sess.endedAt + TokenLifetime

\* The subject of an access token is the account that logged in, and no other
\* account, now or later, as long as the session lives; so no two accounts of
\* one process have an id in common.  (After a restart the ids begin at 1 again
\* while old tokens may still be in date.)
TokenNamesItsUser ==
  \A t \in minted, e \in Email :
    sessions[t.session].state = "live"
      => (accounts[e] # NoAccount /\ accounts[e].userID = VerifyTokenResponse(t).user_id
           <=> e = t.email)
=============================================================================
