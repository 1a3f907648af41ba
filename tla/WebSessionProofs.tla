-------------------------- MODULE WebSessionProofs --------------------------
(***************************************************************************)
(* For any users, calls and bounds: the session state is well typed and no *)
(* refresh token is presented twice, however calls, logins, logouts and    *)
(* reloads interleave with a refresh.                                      *)
(***************************************************************************)
EXTENDS WebSession, TLAPS

(* Why a stored token is never presented again.  A pair is presented only  *)
(* after it was issued.  While a presented pair is still the stored one    *)
(* (and no reload cut its refresh), that refresh is in flight, so a caller *)
(* of refreshAuth joins it; a pair that comes back is new.                 *)
OnceInv ==
    /\ presented \subseteq 1 .. Len(owner)
    /\ storage.refresh <= Len(owner)
    /\ refresh.new <= Len(owner)
    /\ storage.refresh \in presented \ cut =>
          refresh.st # "idle" /\ refresh.old = storage.refresh
    /\ refresh.st = "ok" => refresh.new \notin presented
    /\ refresh.st = "sent" => refresh.user \in Users
    /\ refresh.st # "idle" => refresh.old \in presented

SessionInv == TypeOK /\ OnceInv

USE SessionAssumption

(* The initial state satisfies the invariant.                              *)
LEMMA SessionInit == Init => SessionInv
  BY DEF Init, SessionInv, TypeOK, OnceInv, NoStorage, NoAuth, Idle, NoRefresh, Pairs

(* A token pair appended to the server's issue order.                      *)
LEMMA Issued ==
  ASSUME TypeOK, NEW u \in Users, Len(owner) < MaxPairs
  PROVE  /\ Append(owner, u) \in Seq(Users)
         /\ Len(Append(owner, u)) = Len(owner) + 1
         /\ Len(owner) \in Nat /\ Len(owner) + 1 \in 1 .. MaxPairs
  BY DEF TypeOK

CallType ==
    [st : {"idle", "sent", "refresh"}, kind : {"api", "logout"}, token : 0 .. MaxPairs,
     retry : BOOLEAN]
RefreshType ==
    [st : {"idle", "sent", "ok", "refused", "lost"}, old : 0 .. MaxPairs,
     new : 0 .. MaxPairs, user : Users \cup {NoUser}, waiters : SUBSET Calls]

(* Updating a function at one point keeps it in its function set.          *)
LEMMA Update ==
  ASSUME NEW S, NEW T, NEW f \in [S -> T], NEW x, NEW y \in T
  PROVE  [f EXCEPT ![x] = y] \in [S -> T]
  OBVIOUS

(* The types of the parts, for the steps below.                            *)
LEMMA Parts ==
  ASSUME TypeOK
  PROVE  /\ call \in [Calls -> CallType] /\ refresh \in RefreshType
         /\ storage.token \in 0 .. MaxPairs /\ storage.refresh \in 0 .. MaxPairs
         /\ storage.user \in Users \cup {NoUser}
         /\ refresh.new \in 0 .. MaxPairs
         /\ current \in [Users -> 0 .. MaxPairs]
         /\ Idle \in CallType /\ NoRefresh \in RefreshType
  BY DEF TypeOK, CallType, RefreshType, Idle, NoRefresh

(* What a call becomes when it is sent, waits, or is sent again.           *)
LEMMA CallTypes ==
  ASSUME TypeOK
  PROVE  /\ Fetch("api", TRUE) \in CallType /\ Fetch("api", FALSE) \in CallType
         /\ Fetch("logout", TRUE) \in CallType
         /\ \A c \in Calls : [call[c] EXCEPT !.st = "refresh"] \in CallType
         /\ \A c \in Calls : [call[c] EXCEPT !.st = "sent", !.retry = FALSE,
                                             !.token = refresh.new] \in CallType
<1>1. /\ call \in [Calls -> CallType] /\ storage.token \in 0 .. MaxPairs
      /\ refresh.new \in 0 .. MaxPairs
  BY Parts
<1> QED
  BY <1>1 DEF Fetch, CallType

(* The refresh, when the server has issued the new pair.                   *)
LEMMA RefreshTyped ==
  ASSUME TypeOK, NEW n \in 0 .. MaxPairs
  PROVE  [refresh EXCEPT !.st = "ok", !.new = n] \in RefreshType
<1>1. refresh \in RefreshType
  BY Parts
<1> QED
  BY <1>1 DEF RefreshType

(* Every step of one call, and the answer that wakes the waiting ones,     *)
(* keeps the calls well typed.                                             *)
LEMMA CallsTyped ==
  ASSUME TypeOK, NEW c \in Calls,
         \/ Send(c) \/ Upload(c) \/ RefreshDone
         \/ call' = [call EXCEPT ![c] = Idle]
         \/ call' = [call EXCEPT ![c].st = "refresh"]
  PROVE  call' \in [Calls -> CallType]
<1>1. CASE Send(c) \/ Upload(c)
  BY <1>1, Parts, CallTypes, Update DEF Send, Upload
<1>2. CASE call' = [call EXCEPT ![c] = Idle]
  BY <1>2, Parts, Update
<1>3. CASE call' = [call EXCEPT ![c].st = "refresh"]
  <2>1. [call EXCEPT ![c].st = "refresh"] = [call EXCEPT ![c] = [call[c] EXCEPT !.st = "refresh"]]
    OBVIOUS
  <2> QED
    BY <1>3, <2>1, Parts, CallTypes, Update
<1>4. CASE RefreshDone
  BY <1>4, Parts, CallTypes DEF RefreshDone
<1> QED
  BY <1>1, <1>2, <1>3, <1>4

(* Steps of one call: sending, its answers, and a logout.                  *)
LEMMA CallStep ==
  ASSUME SessionInv, NEW c \in Calls,
         \/ Send(c) \/ Upload(c) \/ AnswerOk(c) \/ AnswerUnauthorized(c)
         \/ AnswerLost(c) \/ Logout(c)
  PROVE  SessionInv'
<1> USE DEF SessionInv, TypeOK, OnceInv
<1>0. Len(owner) \in Nat
  OBVIOUS
<1>1. CASE Send(c) \/ Upload(c)
  <2>1. call' \in [Calls -> CallType]
    BY <1>1, CallsTyped
  <2> QED
    BY <1>1, <2>1 DEF Send, Upload, CallType, server, history
<1>2. CASE AnswerOk(c)
  <2>1. call' \in [Calls -> CallType]
    BY <1>2, CallsTyped DEF AnswerOk
  <2>2. current' \in [Users -> 0 .. MaxPairs]
    BY <1>2, Parts, Update DEF AnswerOk
  <2> QED
    BY <1>2, <2>1, <2>2 DEF AnswerOk, CallType, history
<1>3. CASE AnswerLost(c)
  <2>1. call' \in [Calls -> CallType]
    BY <1>3, CallsTyped DEF AnswerLost
  <2> QED
    BY <1>3, <2>1 DEF AnswerLost, CallType, server, history
<1>4. CASE Logout(c)
  BY <1>0, <1>4 DEF Logout, Fetch, NoStorage, NoAuth, server, history
<1>5. CASE AnswerUnauthorized(c)
  <2>0. /\ UNCHANGED <<auth, owner, current, expired, cut, reloads>>
        /\ \/ RefreshAuth(c, [call EXCEPT ![c].st = "refresh"])
           \/ call' = [call EXCEPT ![c] = Idle] /\ UNCHANGED <<refresh, presented, storage, page>>
    BY <1>5 DEF AnswerUnauthorized, server
  <2>1. CASE call' = [call EXCEPT ![c] = Idle] /\ UNCHANGED <<refresh, presented, storage, page>>
    <3>1. call' \in [Calls -> CallType]
      BY <2>1, CallsTyped
    <3> QED
      BY <2>0, <2>1, <3>1 DEF CallType
  <2>2. CASE /\ refresh' = [refresh EXCEPT !.waiters = @ \cup {c}]
             /\ call' = [call EXCEPT ![c].st = "refresh"]
             /\ UNCHANGED <<presented, storage, page>>
    <3>1. call' \in [Calls -> CallType]
      BY <2>2, CallsTyped
    <3>2. /\ refresh' \in RefreshType
          /\ refresh'.st = refresh.st /\ refresh'.old = refresh.old
          /\ refresh'.new = refresh.new /\ refresh'.user = refresh.user
      BY <2>2 DEF RefreshType
    <3> QED
      BY <2>0, <2>2, <3>1, <3>2 DEF CallType, RefreshType
  <2>3. CASE /\ refresh.st = "idle" /\ CanRefresh /\ StartRefresh({c})
             /\ call' = [call EXCEPT ![c].st = "refresh"]
             /\ UNCHANGED <<storage, page>>
    <3>1. storage.refresh \in 1 .. Len(owner) /\ storage.user \in Users
      BY <1>0, <2>3 DEF CanRefresh
    <3>2. TypeOK'
      <4>1. call' \in [Calls -> CallType]
        BY <2>3, CallsTyped
      <4>2. refresh' \in RefreshType
        BY <2>3, <3>1, Parts DEF StartRefresh, NoRefresh, RefreshType
      <4>3. presented' \subseteq Pairs
        BY <1>0, <2>3, <3>1 DEF StartRefresh, Pairs
      <4> QED
        BY <2>0, <2>3, <4>1, <4>2, <4>3 DEF CallType, RefreshType
    <3>3. OnceInv'
      BY <1>0, <2>0, <2>3, <3>1 DEF StartRefresh, NoRefresh
    <3> QED
      BY <3>2, <3>3
  <2>4. CASE /\ ForceReLogin /\ call' = [call EXCEPT ![c] = Idle]
             /\ UNCHANGED <<refresh, presented>>
    <3>1. call' \in [Calls -> CallType]
      BY <2>4, Parts, Update
    <3>2. /\ storage' \in [token : 0 .. MaxPairs, refresh : 0 .. MaxPairs,
                           user : Users \cup {NoUser}]
          /\ storage'.refresh = 0 /\ page' \in {"login", "chat", "leaving"}
      BY <2>4 DEF ForceReLogin, NoStorage
    <3>3. TypeOK'
      BY <2>0, <2>4, <3>1, <3>2 DEF CallType
    <3>4. OnceInv'
      BY <1>0, <2>0, <2>4, <3>2
    <3> QED
      BY <3>3, <3>4
  <2> QED
    BY <2>0, <2>1, <2>2, <2>3, <2>4 DEF RefreshAuth
<1> QED
  BY <1>1, <1>2, <1>3, <1>4, <1>5

(* Steps of the refresh in flight.                                         *)
LEMMA RefreshStep ==
  ASSUME SessionInv, ServerRefresh \/ RefreshLost \/ RefreshDone \/ RefreshFailed
  PROVE  SessionInv'
<1> USE DEF SessionInv, TypeOK, OnceInv
<1>0. Len(owner) \in Nat
  OBVIOUS
<1>1. CASE ServerRefresh
  <2>1. CASE /\ current[refresh.user] = refresh.old /\ Len(owner) < MaxPairs
             /\ owner' = Append(owner, refresh.user)
             /\ current' = [current EXCEPT ![refresh.user] = Len(owner) + 1]
             /\ refresh' = [refresh EXCEPT !.st = "ok", !.new = Len(owner) + 1]
    <3>1. refresh.user \in Users
      BY <1>1 DEF ServerRefresh
    <3>2. /\ owner' \in Seq(Users) /\ Len(owner') = Len(owner) + 1
          /\ Len(owner) + 1 \in 1 .. MaxPairs
      BY <2>1, <3>1, Issued
    <3>3. current' \in [Users -> 0 .. MaxPairs]
      BY <2>1, <3>2, Parts, Update
    <3>4. refresh' \in RefreshType
      <4> HIDE DEF SessionInv, TypeOK, OnceInv
      <4>1. TypeOK /\ Len(owner) + 1 \in 0 .. MaxPairs
        BY <3>2 DEF SessionInv
      <4> QED
        BY <2>1, <4>1, RefreshTyped
    <3>5. UNCHANGED <<storage, auth, page, call, expired, presented, cut, reloads>>
      BY <1>1 DEF ServerRefresh, history
    <3>6. TypeOK'
      <4>1. owner' \in Seq(Users) /\ Len(owner') <= MaxPairs
        BY <1>0, <3>2
      <4> QED
        BY <3>3, <3>4, <3>5, <4>1 DEF RefreshType
    <3>7. OnceInv'
      BY <1>0, <1>1, <2>1, <3>2 DEF ServerRefresh, history
    <3> QED
      BY <3>6, <3>7
  <2>2. CASE refresh' = [refresh EXCEPT !.st = "refused"] /\ UNCHANGED <<owner, current>>
    BY <1>1, <2>2 DEF ServerRefresh, history
  <2> QED
    BY <1>1, <2>1, <2>2 DEF ServerRefresh
<1>2. CASE RefreshLost
  BY <1>2 DEF RefreshLost, server, history
<1>3. CASE RefreshDone
  <2>1. call' \in [Calls -> CallType]
    BY <1>3, CallsTyped, Parts DEF RefreshDone
  <2>0. /\ storage' \in [token : 0 .. MaxPairs, refresh : 0 .. MaxPairs,
                         user : Users \cup {NoUser}]
        /\ storage'.refresh = refresh.new
    <3> HIDE DEF SessionInv, TypeOK, OnceInv
    <3>1. /\ storage \in [token : 0 .. MaxPairs, refresh : 0 .. MaxPairs, user : Users \cup {NoUser}]
          /\ refresh.new \in 0 .. MaxPairs
      BY DEF SessionInv, TypeOK
    <3>2. storage' = [storage EXCEPT !.token = refresh.new, !.refresh = refresh.new]
      BY <1>3 DEF RefreshDone, SetAuthTokens
    <3> QED
      BY <3>1, <3>2
  <2>5. /\ refresh.new \in 0 .. Len(owner) /\ refresh.new \notin presented
        /\ UNCHANGED <<owner, presented, cut>>
    <3>1. refresh.st = "ok" /\ UNCHANGED <<owner, presented, cut>>
      BY <1>3 DEF RefreshDone, server, history
    <3> QED
      BY <1>0, <3>1
  <2>4. refresh' \in RefreshType /\ refresh'.st = "idle" /\ refresh'.new = 0
    BY <1>3, Parts DEF RefreshDone, NoRefresh
  <2>2. TypeOK'
    BY <1>3, <2>0, <2>1, <2>4 DEF RefreshDone, CallType, RefreshType, server, history
  <2>3. OnceInv'
    BY <1>0, <2>0, <2>4, <2>5
  <2> QED
    BY <2>2, <2>3
<1>4. CASE RefreshFailed
  BY <1>0, <1>4 DEF RefreshFailed, ForceReLogin, NoStorage, NoRefresh, Idle, server, history
<1> QED
  BY <1>1, <1>2, <1>3, <1>4

(* Steps of the page and the server's own.                                 *)
LEMMA PageStep ==
  ASSUME SessionInv,
         \/ \E u \in Users : Login(u) \/ Revoke(u)
         \/ Restore \/ Unload \/ Reload
         \/ \E p \in Pairs : Expire(p)
  PROVE  SessionInv'
<1> USE DEF SessionInv, TypeOK, OnceInv
<1>0. Len(owner) \in Nat
  OBVIOUS
<1>1. ASSUME NEW u \in Users, Login(u)
      PROVE  SessionInv'
  <2>1. /\ owner' \in Seq(Users) /\ Len(owner') = Len(owner) + 1
        /\ Len(owner) + 1 \in 1 .. MaxPairs
    BY <1>1, Issued DEF Login
  <2>2. current' \in [Users -> 0 .. MaxPairs]
    BY <1>1, <2>1, Parts, Update DEF Login
  <2>3. /\ storage' = [token |-> Len(owner) + 1, refresh |-> Len(owner) + 1, user |-> u]
        /\ auth' = [token |-> Len(owner) + 1, user |-> u]
        /\ page' = "chat" /\ UNCHANGED <<call, refresh, expired, presented, cut, reloads>>
    BY <1>1 DEF Login, LoginStorage, history
  <2>4. TypeOK'
    <3>1. owner' \in Seq(Users) /\ Len(owner') <= MaxPairs
      BY <1>0, <2>1
    <3>2. /\ storage' \in [token : 0 .. MaxPairs, refresh : 0 .. MaxPairs, user : Users \cup {NoUser}]
          /\ auth' \in [token : 0 .. MaxPairs, user : Users \cup {NoUser}]
          /\ auth'.token # 0 /\ auth'.user # NoUser
      BY <1>0, <2>1, <2>3
    <3> QED
      BY <2>2, <2>3, <3>1, <3>2
  <2>5. OnceInv'
    BY <1>0, <2>1, <2>3
  <2> QED
    BY <2>4, <2>5
<1>2. ASSUME NEW u \in Users, Revoke(u)
      PROVE  SessionInv'
  <2>1. current' \in [Users -> 0 .. MaxPairs]
    BY <1>2 DEF Revoke
  <2> QED
    BY <1>2, <2>1 DEF Revoke, history
<1>3. Restored(storage) \in [token : 0 .. MaxPairs, user : Users \cup {NoUser}]
      /\ (Restored(storage).token = 0 <=> Restored(storage).user = NoUser)
  BY DEF Restored, NoAuth
<1>4. CASE Restore
  BY <1>3, <1>4 DEF Restore, server, history
<1>5. CASE Unload
  <2>1. call' \in [Calls -> CallType]
    BY <1>5, Parts DEF Unload, Unloaded
  <2>0. refresh' \in RefreshType /\ cut' \subseteq Pairs
    BY <1>5, Parts DEF Unload, Unloaded
  <2>2. TypeOK'
    BY <1>3, <1>5, <2>0, <2>1 DEF Unload, Unloaded, CallType, RefreshType, server
  <2>3. OnceInv'
    BY <1>0, <1>5 DEF Unload, Unloaded, NoRefresh, server
  <2> QED
    BY <2>2, <2>3
<1>6. CASE Reload
  <2>1. call' \in [Calls -> CallType]
    BY <1>6, Parts DEF Reload, Unloaded
  <2>0. refresh' \in RefreshType /\ cut' \subseteq Pairs
    BY <1>6, Parts DEF Reload, Unloaded
  <2>2. TypeOK'
    BY <1>3, <1>6, <2>0, <2>1 DEF Reload, Unloaded, CallType, RefreshType, server
  <2>3. OnceInv'
    BY <1>0, <1>6 DEF Reload, Unloaded, NoRefresh, server
  <2> QED
    BY <2>2, <2>3
<1>7. ASSUME NEW p \in Pairs, Expire(p)
      PROVE  SessionInv'
  BY <1>7 DEF Expire, history
<1> QED
  BY <1>1, <1>2, <1>4, <1>5, <1>6, <1>7

(* Every step preserves the invariant.                                     *)
LEMMA SessionStep == SessionInv /\ [Next]_sessionVars => SessionInv'
<1> SUFFICES ASSUME SessionInv, [Next]_sessionVars
             PROVE  SessionInv'
  OBVIOUS
<1>1. CASE Next
  BY <1>1, CallStep, RefreshStep, PageStep DEF Next
<1>2. CASE UNCHANGED sessionVars
  BY <1>2 DEF sessionVars, SessionInv, TypeOK, OnceInv
<1> QED
  BY <1>1, <1>2

(* The session state stays well typed, and authStore never holds a token   *)
(* without a user (restoreFromStorage, login, logout).                     *)
THEOREM SessionTypeCorrect == Spec => []TypeOK
<1>1. SessionInv => TypeOK
  BY DEF SessionInv
<1> QED
  BY <1>1, SessionInit, SessionStep, PTL DEF Spec

(* refreshAuth never presents a refresh token a second time, unless a      *)
(* reload of the page cut its first use short.                             *)
THEOREM SessionPresentsOnce == Spec => RefreshPresentedOnce
<1>1. SessionInv /\ [Next]_sessionVars =>
        [refresh.st = "idle" /\ refresh'.st = "sent" =>
            refresh'.old \notin presented \ cut]_sessionVars
  <2> SUFFICES ASSUME SessionInv, Next, refresh.st = "idle", refresh'.st = "sent"
               PROVE  refresh'.old \notin presented \ cut
    OBVIOUS
  <2>0. /\ ~UNCHANGED refresh /\ refresh' # NoRefresh
        /\ refresh' # [refresh EXCEPT !.st = "lost"]
    BY DEF NoRefresh, SessionInv, TypeOK
  <2>1. \E c \in Calls : AnswerUnauthorized(c)
    BY <2>0 DEF Next, Send, Upload, AnswerOk, AnswerLost, Logout, ServerRefresh, RefreshLost,
           RefreshDone, RefreshFailed, Login, Revoke, Restore, Unload, Unloaded, Reload, Expire
  <2>2. refresh'.old = storage.refresh
    BY <2>1 DEF AnswerUnauthorized, RefreshAuth, StartRefresh, NoRefresh, SessionInv, TypeOK
  <2> QED
    BY <2>2 DEF SessionInv, OnceInv
<1> QED
  BY <1>1, SessionInit, SessionStep, PTL DEF Spec, RefreshPresentedOnce
=============================================================================
