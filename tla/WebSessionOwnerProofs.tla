----------------------- MODULE WebSessionOwnerProofs -----------------------
(***************************************************************************)
(* For any users, calls and bounds: the stored access token belongs to the *)
(* stored user, except through a refresh that outlives its session, and a  *)
(* user is thrown out only of a session that is over, unless an answer was *)
(* lost.                                                                   *)
(***************************************************************************)
EXTENDS WebSessionProofs

(* The stored access token has been issued, and the pair a refresh brings  *)
(* was issued to the user the refresh was made for.                        *)
OwnerInv ==
    /\ storage.token <= Len(owner)
    /\ refresh.st = "ok" => /\ refresh.new \in 1 .. Len(owner)
                            /\ owner[refresh.new] = refresh.user

(* Issuing a pair leaves the owners of the earlier ones alone.             *)
LEMMA IssuedOwner ==
  ASSUME TypeOK, NEW u \in Users
  PROVE  /\ Len(owner) \in Nat /\ Len(Append(owner, u)) = Len(owner) + 1
         /\ Append(owner, u)[Len(owner) + 1] = u
         /\ \A p \in 1 .. Len(owner) : Append(owner, u)[p] = owner[p]
  BY DEF TypeOK

(* What a step can do to the stored items, the owners and the refresh.     *)
LEMMA StorageSteps ==
  ASSUME SessionInv, Next
  PROVE  \/ UNCHANGED <<storage, owner, refresh>>
         \/ UNCHANGED <<storage, owner>> /\ refresh'.st # "ok"
         \/ /\ UNCHANGED <<storage, owner>> /\ refresh'.st = refresh.st
            /\ refresh'.new = refresh.new /\ refresh'.user = refresh.user
         \/ /\ storage' = NoStorage /\ UNCHANGED owner
            /\ refresh' = refresh \/ refresh'.st = "idle"
         \/ \E u \in Users : Login(u)
         \/ /\ ServerRefresh /\ UNCHANGED storage /\ owner' = Append(owner, refresh.user)
            /\ refresh'.st = "ok" /\ refresh'.new = Len(owner) + 1
            /\ refresh'.user = refresh.user
         \/ RefreshDone
<1>0. refresh \in RefreshType
  BY Parts DEF SessionInv
<1>1. ASSUME NEW c \in Calls, Send(c) \/ Upload(c) \/ AnswerOk(c) \/ AnswerLost(c)
      PROVE  UNCHANGED <<storage, owner, refresh>>
  BY <1>1 DEF Send, Upload, AnswerOk, AnswerLost, server
<1>2. ASSUME NEW c \in Calls, Logout(c)
      PROVE  storage' = NoStorage /\ UNCHANGED <<owner, refresh>>
  BY <1>2 DEF Logout, server
<1>3. ASSUME NEW c \in Calls, AnswerUnauthorized(c)
      PROVE  /\ UNCHANGED owner
             /\ \/ UNCHANGED <<storage, refresh>>
                \/ UNCHANGED storage /\ refresh'.st = "sent"
                \/ /\ UNCHANGED storage /\ refresh'.st = refresh.st
                   /\ refresh'.new = refresh.new /\ refresh'.user = refresh.user
                \/ storage' = NoStorage /\ UNCHANGED refresh
  BY <1>0, <1>3 DEF AnswerUnauthorized, RefreshAuth, StartRefresh, ForceReLogin, NoRefresh,
                    RefreshType, server
<1>4. CASE ServerRefresh
  BY <1>0, <1>4 DEF ServerRefresh, RefreshType
<1>5. CASE RefreshLost
  BY <1>0, <1>5 DEF RefreshLost, RefreshType, server
<1>6. CASE RefreshFailed
  BY <1>6 DEF RefreshFailed, ForceReLogin, NoRefresh, server
<1>7. CASE Unload \/ Reload
  BY <1>7 DEF Unload, Reload, Unloaded, NoRefresh, server
<1>8. CASE \/ Restore \/ (\E u \in Users : Revoke(u)) \/ (\E p \in Pairs : Expire(p))
  BY <1>8 DEF Restore, Revoke, Expire, server
<1> QED
  BY <1>1, <1>2, <1>3, <1>4, <1>5, <1>6, <1>7, <1>8 DEF Next

(* A login: the pair issued is the pair stored.                            *)
LEMMA LoginOwner ==
  ASSUME SessionInv, OwnerInv, NEW u \in Users, Login(u)
  PROVE  OwnerInv' /\ ~MixedUp'
<1>1. /\ Len(owner) \in Nat /\ owner' = Append(owner, u) /\ Len(owner') = Len(owner) + 1
      /\ owner'[Len(owner) + 1] = u /\ \A p \in 1 .. Len(owner) : owner'[p] = owner[p]
  BY IssuedOwner DEF Login, SessionInv
<1>2. storage'.token = Len(owner) + 1 /\ storage'.user = u /\ refresh' = refresh
  BY DEF Login, LoginStorage
<1> QED
  BY <1>1, <1>2 DEF OwnerInv, MixedUp

(* The server issues the pair of a refresh to the user it was made for.    *)
LEMMA RefreshOwner ==
  ASSUME SessionInv, OwnerInv, ServerRefresh, UNCHANGED storage,
         owner' = Append(owner, refresh.user), refresh'.st = "ok",
         refresh'.new = Len(owner) + 1, refresh'.user = refresh.user
  PROVE  OwnerInv' /\ (~MixedUp => ~MixedUp')
<1>1. refresh.user \in Users /\ storage.token \in Nat
  BY Parts DEF ServerRefresh, SessionInv, OnceInv
<1>2. /\ Len(owner) \in Nat /\ Len(owner') = Len(owner) + 1
      /\ owner'[Len(owner) + 1] = refresh.user
      /\ \A p \in 1 .. Len(owner) : owner'[p] = owner[p]
  BY <1>1, IssuedOwner DEF SessionInv
<1> QED
  BY <1>1, <1>2 DEF OwnerInv, MixedUp

(* The new pair is stored: it is the present user's if the refresh was.    *)
LEMMA DoneOwner ==
  ASSUME SessionInv, OwnerInv, RefreshDone
  PROVE  OwnerInv' /\ (MixedUp' => refresh.user # storage.user)
<1>1. /\ storage'.token = refresh.new /\ storage'.user = storage.user
      /\ refresh.st = "ok" /\ refresh'.st = "idle" /\ UNCHANGED owner
  BY DEF RefreshDone, SetAuthTokens, NoRefresh, server, SessionInv, TypeOK
<1>2. Len(owner) \in Nat
  BY DEF SessionInv, TypeOK
<1> QED
  BY <1>1, <1>2 DEF OwnerInv, MixedUp

(* Every step preserves OwnerInv, and only a late refresh mixes users up.  *)
LEMMA OwnerStep ==
  ASSUME SessionInv, OwnerInv, Next
  PROVE  OwnerInv' /\ (~MixedUp /\ MixedUp' => RefreshDone /\ refresh.user # storage.user)
<1>0. Len(owner) \in Nat
  BY DEF SessionInv, TypeOK
<1>1. CASE UNCHANGED <<storage, owner, refresh>>
  BY <1>1 DEF OwnerInv, MixedUp
<1>2. CASE UNCHANGED <<storage, owner>> /\ refresh'.st # "ok"
  BY <1>2 DEF OwnerInv, MixedUp
<1>3. CASE /\ UNCHANGED <<storage, owner>> /\ refresh'.st = refresh.st
           /\ refresh'.new = refresh.new /\ refresh'.user = refresh.user
  BY <1>3 DEF OwnerInv, MixedUp
<1>4. CASE /\ storage' = NoStorage /\ UNCHANGED owner
           /\ refresh' = refresh \/ refresh'.st = "idle"
  BY <1>0, <1>4 DEF OwnerInv, MixedUp, NoStorage
<1> QED
  BY <1>1, <1>2, <1>3, <1>4, StorageSteps, LoginOwner, RefreshOwner, DoneOwner

(* The one way to have a token that is not the stored user's is a refresh  *)
(* begun in an earlier session (setAuthTokens does not look at the user).  *)
THEOREM SessionOwner == Spec => MixedUpOnlyByLateRefresh
<1>1. Init => OwnerInv
  BY DEF Init, OwnerInv, NoStorage, NoRefresh
<1>2. SessionInv /\ OwnerInv /\ [Next]_sessionVars => OwnerInv'
  <2>1. OwnerInv /\ UNCHANGED sessionVars => OwnerInv'
    BY DEF OwnerInv, sessionVars
  <2> QED
    BY <2>1, OwnerStep
<1>3. SessionInv /\ OwnerInv /\ [Next]_sessionVars =>
        [~MixedUp /\ MixedUp' => RefreshDone /\ refresh.user # storage.user]_sessionVars
  BY OwnerStep
<1> QED
  BY <1>1, <1>2, <1>3, SessionInit, SessionStep, PTL DEF Spec, MixedUpOnlyByLateRefresh
-----------------------------------------------------------------------------
(* A refresh of the stored token was made for the stored user; a refused   *)
(* token stays refused; the chat page is shown to a signed-in user.        *)
OverInv ==
    /\ page = "chat" => auth.token # 0
    /\ refresh.st # "idle" => refresh.user \in Users
    /\ refresh.st # "idle" /\ refresh.old = storage.refresh => refresh.user = storage.user
    /\ refresh.st = "refused" => current[refresh.user] # refresh.old

(* The token of a refresh under way has been issued.                       *)
LEMMA OldIssued ==
  ASSUME SessionInv
  PROVE  /\ Len(owner) \in Nat
         /\ refresh.st # "idle" => refresh.old \in 1 .. Len(owner)
  BY DEF SessionInv, TypeOK, OnceInv

(* Steps of a call.                                                        *)
LEMMA OverCall ==
  ASSUME SessionInv, OverInv, NEW c \in Calls,
         \/ Send(c) \/ Upload(c) \/ AnswerOk(c) \/ AnswerUnauthorized(c)
         \/ AnswerLost(c) \/ Logout(c)
  PROVE  OverInv'
<1>0. refresh \in RefreshType /\ current \in [Users -> 0 .. MaxPairs]
  BY Parts DEF SessionInv
<1>1. CASE Send(c) \/ Upload(c) \/ AnswerLost(c)
  BY <1>1 DEF Send, Upload, AnswerLost, OverInv, server
<1>2. CASE AnswerOk(c)
  <2>1. UNCHANGED <<page, auth, refresh, storage>>
    BY <1>2 DEF AnswerOk
  <2>2. \A u \in Users : current'[u] \in {0, current[u]}
    BY <1>0, <1>2 DEF AnswerOk
  <2> QED
    BY <2>1, <2>2, OldIssued DEF OverInv
<1>3. CASE Logout(c)
  BY <1>3, OldIssued DEF Logout, OverInv, NoStorage, server
<1>4. CASE AnswerUnauthorized(c)
  <2>0. UNCHANGED <<auth, current>>
    BY <1>4 DEF AnswerUnauthorized, server
  <2>1. CASE UNCHANGED <<refresh, storage, page>>
    BY <2>0, <2>1 DEF OverInv
  <2>2. CASE refresh' = [refresh EXCEPT !.waiters = @ \cup {c}] /\ UNCHANGED <<storage, page>>
    <3>1. /\ refresh'.st = refresh.st /\ refresh'.old = refresh.old
          /\ refresh'.user = refresh.user
      BY <1>0, <2>2 DEF RefreshType
    <3> QED
      BY <2>0, <2>2, <3>1 DEF OverInv
  <2>3. CASE CanRefresh /\ StartRefresh({c}) /\ UNCHANGED <<storage, page>>
    <3>1. refresh'.st = "sent" /\ refresh'.user = storage.user
      BY <2>3 DEF StartRefresh, NoRefresh
    <3>2. storage.user \in Users
      BY <2>3, Parts DEF CanRefresh, SessionInv
    <3> QED
      BY <2>0, <2>3, <3>1, <3>2 DEF OverInv
  <2>4. CASE ForceReLogin /\ UNCHANGED refresh
    BY <2>0, <2>4, OldIssued DEF ForceReLogin, NoStorage, OverInv
  <2> QED
    BY <1>4, <2>1, <2>2, <2>3, <2>4 DEF AnswerUnauthorized, RefreshAuth
<1> QED
  BY <1>1, <1>2, <1>3, <1>4

(* Steps of the refresh.                                                   *)
LEMMA OverRefresh ==
  ASSUME SessionInv, OverInv, ServerRefresh \/ RefreshLost \/ RefreshDone \/ RefreshFailed
  PROVE  OverInv'
<1>0. refresh \in RefreshType
  BY Parts DEF SessionInv
<1>1. CASE ServerRefresh \/ RefreshLost
  <2>1. /\ refresh.st # "idle" /\ refresh'.old = refresh.old /\ refresh'.user = refresh.user
        /\ refresh'.st = "refused" => current'[refresh.user] # refresh.old
        /\ UNCHANGED <<page, auth, storage>>
    BY <1>0, <1>1 DEF ServerRefresh, RefreshLost, RefreshType, server
  <2> QED
    BY <2>1 DEF OverInv
<1>2. CASE RefreshDone
  <2>1. refresh'.st = "idle" /\ UNCHANGED <<auth, page>>
    BY <1>2 DEF RefreshDone, NoRefresh
  <2> QED
    BY <2>1 DEF OverInv
<1>3. CASE RefreshFailed
  <2>1. refresh'.st = "idle" /\ page' # "chat"
    BY <1>3 DEF RefreshFailed, ForceReLogin, NoRefresh
  <2> QED
    BY <2>1 DEF OverInv
<1> QED
  BY <1>1, <1>2, <1>3

(* Steps of the page and the server's own.                                 *)
LEMMA OverPage ==
  ASSUME SessionInv, OverInv,
         \/ \E u \in Users : Login(u) \/ Revoke(u)
         \/ Restore \/ Unload \/ Reload
         \/ \E p \in Pairs : Expire(p)
  PROVE  OverInv'
<1>0. current \in [Users -> 0 .. MaxPairs]
  BY Parts DEF SessionInv
<1>1. ASSUME NEW u \in Users, Login(u)
      PROVE  OverInv'
  <2>1. /\ storage'.refresh = Len(owner) + 1 /\ auth'.token = Len(owner) + 1
        /\ UNCHANGED refresh
    BY <1>1 DEF Login, LoginStorage
  <2>2. \A v \in Users : current'[v] \in {Len(owner) + 1, current[v]}
    BY <1>0, <1>1 DEF Login
  <2> QED
    BY <2>1, <2>2, OldIssued DEF OverInv
<1>2. ASSUME NEW u \in Users, Revoke(u)
      PROVE  OverInv'
  <2>1. UNCHANGED <<page, auth, refresh, storage>>
    BY <1>2 DEF Revoke
  <2>2. \A v \in Users : current'[v] \in {0, current[v]}
    BY <1>0, <1>2 DEF Revoke
  <2> QED
    BY <2>1, <2>2, OldIssued DEF OverInv
<1>3. CASE Restore
  BY <1>3 DEF Restore, OverInv, server
<1>4. CASE Unload \/ Reload
  BY <1>4 DEF Unload, Reload, Unloaded, NoRefresh, OverInv
<1>5. CASE \E p \in Pairs : Expire(p)
  BY <1>5 DEF Expire, OverInv
<1> QED
  BY <1>1, <1>2, <1>3, <1>4, <1>5

(* Every step preserves OverInv.                                           *)
LEMMA OverStep == SessionInv /\ OverInv /\ [Next]_sessionVars => OverInv'
<1>1. OverInv /\ UNCHANGED sessionVars => OverInv'
  BY DEF OverInv, sessionVars
<1> QED
  BY <1>1, OverCall, OverRefresh, OverPage DEF Next

(* forceReLogin ends a session only if the server has ended it, unless the *)
(* answer to the refresh was lost or the refresh is of an earlier session. *)
THEOREM SessionThrownOut == Spec => ThrownOutOnlyWhenOver
<1>1. Init => OverInv
  BY DEF Init, OverInv, NoRefresh
<1>2. SessionInv /\ OverInv /\ [Next]_sessionVars =>
        [/\ CanRefresh /\ storage' = NoStorage /\ auth' = auth
         /\ refresh.st # "lost" /\ (refresh.st = "idle" \/ refresh.old = storage.refresh)
         => current[storage.user] # storage.refresh]_sessionVars
  <2> SUFFICES ASSUME SessionInv, OverInv, Next, CanRefresh, storage' = NoStorage,
                      auth' = auth, refresh.st # "lost",
                      refresh.st = "idle" \/ refresh.old = storage.refresh
               PROVE  current[storage.user] # storage.refresh
    OBVIOUS
  <2>0. storage' # storage /\ storage'.refresh = 0
    BY DEF CanRefresh, NoStorage
  <2>1. ASSUME NEW c \in Calls, Logout(c)
        PROVE  FALSE
    BY <2>1 DEF Logout, NoAuth, OverInv
  <2>2. ASSUME NEW c \in Calls, AnswerUnauthorized(c)
        PROVE  FALSE
    BY <2>0, <2>2 DEF AnswerUnauthorized, RefreshAuth
  <2>3. CASE RefreshDone
    <3>1. storage'.user = storage.user
      BY <2>3 DEF RefreshDone, SetAuthTokens, SessionInv, TypeOK
    <3> QED
      BY <3>1 DEF CanRefresh, NoStorage
  <2>4. CASE RefreshFailed
    BY <2>4 DEF RefreshFailed, OverInv
  <2>5. ASSUME NEW u \in Users, Login(u)
        PROVE  FALSE
    BY <2>5 DEF Login, LoginStorage, NoStorage
  <2> QED
    BY <2>0, <2>1, <2>2, <2>3, <2>4, <2>5 DEF Next, Send, Upload, AnswerOk, AnswerLost,
       ServerRefresh, RefreshLost, Revoke, Restore, Unload, Reload, Expire
<1> QED
  BY <1>1, <1>2, OverStep, SessionInit, SessionStep, PTL DEF Spec, ThrownOutOnlyWhenOver
=============================================================================
