------------------------------ MODULE WebSession ------------------------------
(***************************************************************************)
(* The sign-in state of the web client: localStorage, authStore, the       *)
(* request function of lib/api.ts with its one retry behind refreshAuth,   *)
(* and the login, logout and restore operations of useAuth and authStore.  *)
(*                                                                         *)
(* JavaScript runs one task at a time, so an action is a task with the     *)
(* promise reactions it releases; what can come in between are the awaits. *)
(* A token pair (access token and refresh token) is the number under which *)
(* the server issued it, 0 stands for none.  The server is external: it    *)
(* keeps one refresh token per user, since every browser signs in with the *)
(* same device "web", and rotates it on every refresh.                     *)
(***************************************************************************)
EXTENDS Integers, Sequences

CONSTANTS
    Users,        \* who signs in at this browser
    Calls,        \* request() calls under way at the same time
    NoUser,       \* no "user" item
    MaxPairs,     \* bound on the token pairs the server issues
    MaxReloads    \* bound on reloads of the page by the user

ASSUME SessionAssumption ==
    /\ NoUser \notin Users
    /\ MaxPairs \in Nat /\ MaxReloads \in Nat

VARIABLES
    storage,   \* localStorage: the items token, refreshToken and user
    auth,      \* authStore: token and user (isAuthenticated iff a token)
    page,      \* "login", "chat", or "leaving": on its way to a new document
    call,      \* state of each request() call
    refresh,   \* refreshInflight, and the request behind it
    owner,     \* server: the user of each pair issued, in order of issue
    current,   \* server: the pair whose refresh token is accepted, per user
    expired,   \* server: pairs whose access token is no longer accepted
    presented, \* history: pairs whose refresh token the client has sent
    cut,       \* history: pairs being refreshed when the page was reloaded
    reloads

sessionVars == <<storage, auth, page, call, refresh, owner, current, expired,
                 presented, cut, reloads>>
server == <<owner, current, expired>>
history == <<presented, cut, reloads>>

Pairs == 1 .. MaxPairs
NoStorage == [token |-> 0, refresh |-> 0, user |-> NoUser]
NoAuth == [token |-> 0, user |-> NoUser]
Idle == [st |-> "idle", kind |-> "api", token |-> 0, retry |-> FALSE]
NoRefresh == [st |-> "idle", old |-> 0, new |-> 0, user |-> NoUser, waiters |-> {}]

(* The types; authStore never holds a token without its user.              *)
TypeOK ==
    /\ storage \in [token : 0 .. MaxPairs, refresh : 0 .. MaxPairs, user : Users \cup {NoUser}]
    /\ auth \in [token : 0 .. MaxPairs, user : Users \cup {NoUser}]
    /\ auth.token = 0 <=> auth.user = NoUser
    /\ page \in {"login", "chat", "leaving"}
    /\ call \in [Calls -> [st : {"idle", "sent", "refresh"}, kind : {"api", "logout"},
                           token : 0 .. MaxPairs, retry : BOOLEAN]]
    /\ refresh \in [st : {"idle", "sent", "ok", "refused", "lost"}, old : 0 .. MaxPairs,
                    new : 0 .. MaxPairs, user : Users \cup {NoUser}, waiters : SUBSET Calls]
    /\ owner \in Seq(Users) /\ Len(owner) <= MaxPairs
    /\ current \in [Users -> 0 .. MaxPairs]
    /\ expired \subseteq Pairs
    /\ presented \subseteq Pairs /\ cut \subseteq Pairs
    /\ reloads \in 0 .. MaxReloads

(* A browser opened on the login page.                                     *)
Init ==
    /\ storage = NoStorage /\ auth = NoAuth /\ page = "login"
    /\ call = [c \in Calls |-> Idle]
    /\ refresh = NoRefresh
    /\ owner = << >> /\ current = [u \in Users |-> 0] /\ expired = {}
    /\ presented = {} /\ cut = {} /\ reloads = 0
-----------------------------------------------------------------------------
\* Mutant: the refresh token is not replaced.
SetAuthTokensKeepsOldRefresh(p) == [storage EXCEPT !.token = p]

(* setAuthTokens: the user item stays as it is.                            *)
SetAuthTokens(p) == [storage EXCEPT !.token = p, !.refresh = p]

\* Mutant: the user item is not looked at.
RestoredByToken(s) == [token |-> s.token, user |-> s.user]

(* restoreFromStorage: signed in only with both a token and a user.        *)
Restored(s) ==
    IF s.token # 0 /\ s.user # NoUser THEN [token |-> s.token, user |-> s.user] ELSE NoAuth

(* forceReLogin: the items go, and unless it is there already the browser  *)
(* starts to load the login page.                                          *)
ForceReLogin ==
    /\ storage' = NoStorage
    /\ page' = IF page = "login" THEN "login" ELSE "leaving"

(* The stored credentials refreshAuth needs.                               *)
CanRefresh == storage.refresh # 0 /\ storage.user # NoUser

(* The part of refreshAuth that starts a request.                          *)
StartRefresh(ws) ==
    /\ refresh' = [NoRefresh EXCEPT !.st = "sent", !.old = storage.refresh,
                                    !.user = storage.user, !.waiters = ws]
    /\ presented' = presented \cup {storage.refresh}

(* refreshAuth: callers share the request in flight; without credentials   *)
(* the promise is rejected at once and the caller forces a new login.      *)
RefreshAuth(c, st) ==
    \/ /\ refresh.st # "idle"
       /\ refresh' = [refresh EXCEPT !.waiters = @ \cup {c}]
       /\ call' = st
       /\ UNCHANGED <<presented, storage, page>>
    \/ /\ refresh.st = "idle" /\ CanRefresh
       /\ StartRefresh({c})
       /\ call' = st
       /\ UNCHANGED <<storage, page>>
    \/ /\ refresh.st = "idle" /\ ~CanRefresh
       /\ ForceReLogin
       /\ call' = [call EXCEPT ![c] = Idle]
       /\ UNCHANGED <<refresh, presented>>

(* request(): the access token is the stored one at the time of the call.  *)
Fetch(kind, retry) ==
    [st |-> "sent", kind |-> kind, token |-> storage.token, retry |-> retry]

Send(c) ==
    /\ call[c].st = "idle" /\ page # "leaving" /\ auth.token # 0
    /\ call' = [call EXCEPT ![c] = Fetch("api", TRUE)]
    /\ UNCHANGED <<storage, auth, page, refresh, server, history>>

(* fileApi.upload calls fetch itself: a 401 is an error like any other.    *)
Upload(c) ==
    /\ call[c].st = "idle" /\ page # "leaving" /\ auth.token # 0
    /\ call' = [call EXCEPT ![c] = Fetch("api", FALSE)]
    /\ UNCHANGED <<storage, auth, page, refresh, server, history>>

(* The server accepts an access token it issued and that has not expired.  *)
Accepted(p) == p # 0 /\ p \notin expired

(* A 2xx answer.  A logout revokes the refresh token of the token's user.  *)
AnswerOk(c) ==
    /\ call[c].st = "sent" /\ Accepted(call[c].token)
    /\ current' = IF call[c].kind = "logout"
                  THEN [current EXCEPT ![owner[call[c].token]] = 0] ELSE current
    /\ call' = [call EXCEPT ![c] = Idle]
    /\ UNCHANGED <<storage, auth, page, refresh, owner, expired, history>>

\* Mutant: a 401 ends the session at once.
AnswerUnauthorizedNoRefresh(c) ==
    /\ call[c].st = "sent" /\ ~Accepted(call[c].token)
    /\ ForceReLogin
    /\ call' = [call EXCEPT ![c] = Idle]
    /\ UNCHANGED <<refresh, presented, auth, server, cut, reloads>>

(* A 401 answer: refresh once, then retry; the second 401 is an error.     *)
AnswerUnauthorized(c) ==
    /\ call[c].st = "sent" /\ ~Accepted(call[c].token)
    /\ IF call[c].retry
       THEN RefreshAuth(c, [call EXCEPT ![c].st = "refresh"])
       ELSE /\ call' = [call EXCEPT ![c] = Idle]
            /\ UNCHANGED <<refresh, presented, storage, page>>
    /\ UNCHANGED <<auth, server, cut, reloads>>

(* No answer, or another error: the call fails and nothing else changes.   *)
AnswerLost(c) ==
    /\ call[c].st = "sent"
    /\ call' = [call EXCEPT ![c] = Idle]
    /\ UNCHANGED <<storage, auth, page, refresh, server, history>>

(* The server handles the refresh: the presented token must be the current *)
(* one of that user, and is replaced by a new pair.                        *)
ServerRefresh ==
    /\ refresh.st = "sent"
    /\ \/ /\ current[refresh.user] = refresh.old /\ Len(owner) < MaxPairs
          /\ owner' = Append(owner, refresh.user)
          /\ current' = [current EXCEPT ![refresh.user] = Len(owner) + 1]
          /\ refresh' = [refresh EXCEPT !.st = "ok", !.new = Len(owner) + 1]
       \/ /\ current[refresh.user] # refresh.old
          /\ refresh' = [refresh EXCEPT !.st = "refused"]
          /\ UNCHANGED <<owner, current>>
    /\ UNCHANGED <<storage, auth, page, call, expired, history>>

(* The request or its answer is lost.                                      *)
RefreshLost ==
    /\ refresh.st \in {"sent", "ok"}
    /\ refresh' = [refresh EXCEPT !.st = "lost"]
    /\ UNCHANGED <<storage, auth, page, call, server, history>>

(* The new pair arrives: it is stored, and the waiting calls try again.    *)
RefreshDone ==
    /\ refresh.st = "ok"
    /\ storage' = SetAuthTokens(refresh.new)
    /\ call' = [c \in Calls |-> IF c \in refresh.waiters
                                THEN [call[c] EXCEPT !.st = "sent", !.retry = FALSE,
                                                     !.token = refresh.new]
                                ELSE call[c]]
    /\ refresh' = NoRefresh
    /\ UNCHANGED <<auth, page, server, history>>

\* Mutant: a lost answer is not noticed.
RefreshFailedIfRefused ==
    /\ refresh.st = "refused"
    /\ ForceReLogin
    /\ call' = [c \in Calls |-> IF c \in refresh.waiters THEN Idle ELSE call[c]]
    /\ refresh' = NoRefresh
    /\ UNCHANGED <<auth, server, history>>

(* Any other outcome: every waiting call forces a new login and fails.     *)
RefreshFailed ==
    /\ refresh.st \in {"refused", "lost"}
    /\ ForceReLogin
    /\ call' = [c \in Calls |-> IF c \in refresh.waiters THEN Idle ELSE call[c]]
    /\ refresh' = NoRefresh
    /\ UNCHANGED <<auth, server, history>>

\* Mutant: the old access token stays.
LoginStorageKeepsToken(u, p) == [storage EXCEPT !.refresh = p, !.user = u]

(* useAuth.login, when the server's answer arrives.                        *)
LoginStorage(u, p) == [token |-> p, refresh |-> p, user |-> u]
Login(u) ==
    LET p == Len(owner) + 1
    IN /\ page = "login" /\ p <= MaxPairs
       /\ owner' = Append(owner, u)
       /\ current' = [current EXCEPT ![u] = p]
       /\ storage' = LoginStorage(u, p)
       /\ auth' = [token |-> p, user |-> u]
       /\ page' = "chat"
       /\ UNCHANGED <<call, refresh, expired, history>>

(* useAuth.logout: the server is told, without waiting for it.             *)
Logout(c) ==
    /\ page = "chat" /\ call[c].st = "idle"
    /\ call' = [call EXCEPT ![c] = Fetch("logout", TRUE)]
    /\ storage' = NoStorage /\ auth' = NoAuth /\ page' = "login"
    /\ UNCHANGED <<refresh, server, history>>

(* The effect of useAuth runs again after every change of the store, and   *)
(* takes over what is stored; then the redirect to the fitting page.       *)
Restore ==
    /\ page # "leaving"
    /\ auth # Restored(storage)
    /\ auth' = Restored(storage)
    /\ page' = IF auth'.token # 0 THEN "chat" ELSE "login"
    /\ UNCHANGED <<storage, call, refresh, server, history>>

(* The document is replaced: what is in flight has nobody waiting for it,  *)
(* and AuthInitializer restores what is stored.                            *)
Unloaded ==
    /\ call' = [c \in Calls |-> Idle]
    /\ refresh' = NoRefresh
    /\ auth' = Restored(storage)
    /\ cut' = cut \cup (IF refresh.st = "idle" THEN {} ELSE {refresh.old})

Unload ==
    /\ page = "leaving"
    /\ Unloaded
    /\ page' = IF auth'.token # 0 THEN "chat" ELSE "login"
    /\ UNCHANGED <<storage, server, presented, reloads>>

Reload ==
    /\ page # "leaving" /\ reloads < MaxReloads
    /\ Unloaded
    /\ page' = IF auth'.token # 0 THEN "chat" ELSE "login"
    /\ reloads' = reloads + 1
    /\ UNCHANGED <<storage, server, presented>>

(* The access token runs out.                                              *)
Expire(p) ==
    /\ p \in DOMAIN owner /\ p \notin expired
    /\ expired' = expired \cup {p}
    /\ UNCHANGED <<storage, auth, page, call, refresh, owner, current, history>>

(* The refresh token runs out, or the user signs in on another browser.    *)
Revoke(u) ==
    /\ current[u] # 0
    /\ current' = [current EXCEPT ![u] = 0]
    /\ UNCHANGED <<storage, auth, page, call, refresh, owner, expired, history>>

Next ==
    \/ \E c \in Calls : \/ Send(c) \/ Upload(c) \/ AnswerOk(c) \/ AnswerUnauthorized(c)
                        \/ AnswerLost(c) \/ Logout(c)
    \/ ServerRefresh \/ RefreshLost \/ RefreshDone \/ RefreshFailed
    \/ \E u \in Users : Login(u) \/ Revoke(u)
    \/ Restore \/ Unload \/ Reload
    \/ \E p \in Pairs : Expire(p)

Spec == Init /\ [][Next]_sessionVars

(* A fetch ends, with an answer or with an error, and so does a refresh;   *)
(* the browser then runs the code that awaits it.                          *)
Fairness ==
    /\ \A c \in Calls : WF_sessionVars(AnswerOk(c) \/ AnswerUnauthorized(c) \/ AnswerLost(c))
    /\ WF_sessionVars(ServerRefresh \/ RefreshLost)
    /\ WF_sessionVars(RefreshDone \/ RefreshFailed)

FairSpec == Spec /\ Fairness
-----------------------------------------------------------------------------
(* The server takes a refresh token once, so the client must not send one  *)
(* twice, whatever calls meet a 401 at the same time and whoever signs in  *)
(* and out meanwhile (refreshAuth, setAuthTokens).  Only a reload of the   *)
(* page that cuts a refresh short leaves a used token in localStorage.     *)
RefreshPresentedOnce ==
    [][refresh.st = "idle" /\ refresh'.st = "sent" => refresh'.old \notin presented \ cut]_sessionVars

(* The stored access token was issued to the stored user.  The one way to  *)
(* lose this is a refresh that began in an earlier session and is answered *)
(* in the present one: setAuthTokens does not look at the user.            *)
MixedUp ==
    storage.token # 0 /\ storage.user # NoUser /\ owner[storage.token] # storage.user
MixedUpOnlyByLateRefresh ==
    [][~MixedUp /\ MixedUp' => RefreshDone /\ refresh.user # storage.user]_sessionVars

(* Unless an answer is lost or a refresh of an earlier session is under    *)
(* way, forceReLogin throws away a refresh token only if the server indeed *)
(* no longer accepts it ("session truly expired", api.ts:58).              *)
ThrownOutOnlyWhenOver ==
    [][/\ CanRefresh /\ storage' = NoStorage /\ auth' = auth
       /\ refresh.st # "lost" /\ (refresh.st = "idle" \/ refresh.old = storage.refresh)
       => current[storage.user] # storage.refresh]_sessionVars

(* Every call ends: none is left waiting for a refresh that is over.       *)
CallsEnd == \A c \in Calls : call[c].st # "idle" ~> call[c].st = "idle"
=============================================================================
