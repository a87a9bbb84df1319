----------------------------- MODULE AuthSessions -----------------------------
(***************************************************************************)
(* Sign-in sessions: the Session rows and the rotation of refresh tokens on *)
(* the server (routes/auth.js, middleware/auth.js), and the tabs of one     *)
(* browser, which keep the tokens in localStorage ("remember me", shared by *)
(* all tabs) or in the sessionStorage of one tab (src/frontend/src/lib/     *)
(* api.js).                                                                *)
(*                                                                         *)
(* Token n is both what the n-th issue returns: a refresh token, of which   *)
(* the row keeps the hash, and an access token, good until it expires.  A   *)
(* session is named by the first token issued in it.  Passwords and what    *)
(* requests do once they are admitted are left out.                         *)
(***************************************************************************)
EXTENDS Naturals

CONSTANTS
    User,       \* people who sign in at this browser
    Tab,        \* tabs of the browser
    Request,    \* API calls the tabs make
    None,       \* nobody
    MaxTokens,  \* bound: tokens issued
    MaxLost,    \* bound: answers that do not arrive
    MaxEvents   \* bound: sign-outs, revocations, expiries, changes of an account

ASSUME SessionAssumption ==
    /\ None \notin User \cup Tab
    /\ MaxTokens \in Nat \ {0} /\ MaxLost \in Nat /\ MaxEvents \in Nat

VARIABLES
    session,   \* the Session collection
    issued,    \* tokens issued so far
    home,      \* the session each token was issued in
    expired,   \* access tokens past their time
    active,    \* users with isActive
    local,     \* localStorage
    own,       \* sessionStorage of each tab
    req,       \* the program state of each API call
    out,       \* the program state of signOut in each tab
    login,     \* the program state of a sign-in in each tab
    rotator,   \* history: the tab that rotated each session last
    orphaned,  \* history: sessions of which a new token did not reach the browser,
               \* or that two tabs rotated with the same token
    crossed,   \* history: a store mixed what belongs to two sign-ins
    lost,      \* number of answers lost
    events     \* number of sign-outs, revocations, expiries and account changes

server == <<session, issued, home, expired, active>>
browser == <<local, own>>
vars == <<server, browser, req, out, login, rotator, orphaned, crossed, lost, events>>

-----------------------------------------------------------------------------
(* State                                                                   *)

Token == 1..MaxTokens
Tokens == 0..MaxTokens   \* 0: no token

Session == [status : {"live", "revoked"}, user : User, hash : Token]
NoSession == [status |-> "none", user |-> None, hash |-> 0]

\* ft_token, ft_refresh, ft_user
Bucket == [access : Tokens, refresh : Tokens, user : User \cup {None}]
Empty == [access |-> 0, refresh |-> 0, user |-> None]

\* sent: the token of an API call; used: the refresh token of the refresh that
\* the call runs; sid: the session found for it; new: the token in the answer.
RequestState ==
    [pc   : {"idle", "sent", "join", "find", "rotate", "answer", "retry", "body", "done"},
     tab  : Tab \cup {None},
     sync : BOOLEAN,
     sent : Tokens,
     used : Tokens,
     sid  : Tokens,
     new  : Tokens,
     me   : User \cup {None}]

TypeOK ==
    /\ session \in [Token -> Session \cup {NoSession}]
    /\ issued \in Tokens
    /\ home \in [Token -> Tokens]
    /\ expired \subseteq Token
    /\ active \subseteq User
    /\ local \in Bucket
    /\ own \in [Tab -> Bucket]
    /\ req \in [Request -> RequestState]
    /\ out \in [Tab -> [pc : {"idle", "sent", "clear"}, access : Tokens]]
    /\ login \in [Tab -> [pc : {"idle", "answer"}, new : Tokens]]
    /\ rotator \in [Token -> Tab \cup {None}]
    /\ orphaned \subseteq Token
    /\ crossed \in BOOLEAN
    /\ lost \in 0..MaxLost
    /\ events \in 0..MaxEvents

NewRequest == [pc |-> "idle", tab |-> None, sync |-> FALSE, sent |-> 0, used |-> 0,
               sid |-> 0, new |-> 0, me |-> None]
Done == [NewRequest EXCEPT !.pc = "done"]

Init ==
    /\ session = [n \in Token |-> NoSession]
    /\ issued = 0
    /\ home = [n \in Token |-> 0]
    /\ expired = {}
    /\ active = User
    /\ local = Empty
    /\ own = [t \in Tab |-> Empty]
    /\ req = [q \in Request |-> NewRequest]
    /\ out = [t \in Tab |-> [pc |-> "idle", access |-> 0]]
    /\ login = [t \in Tab |-> [pc |-> "idle", new |-> 0]]
    /\ rotator = [n \in Token |-> None]
    /\ orphaned = {}
    /\ crossed = FALSE
    /\ lost = 0
    /\ events = 0

-----------------------------------------------------------------------------
(* Tokens, on the server and in the browser                                *)

Owner(n) == session[home[n]].user

\* middleware/auth.js: the token is in time, its user active, its session live.
Accepted(n) ==
    /\ n \in Token \ expired
    /\ Owner(n) \in active
    /\ session[home[n]].status = "live"

\* getStoredToken, getStoredRefreshToken, getStoredUser: this tab's value first.
StoredToken(t) == IF own[t].access # 0 THEN own[t].access ELSE local.access
StoredRefresh(t) == IF own[t].refresh # 0 THEN own[t].refresh ELSE local.refresh
StoredUser(t) == IF own[t].user # None THEN own[t].user ELSE local.user

\* Slip: the profile is kept in localStorage whatever is chosen.
StoreProfileShared(t, bucket, rememberMe) ==
    IF rememberMe THEN local' = bucket /\ own' = [own EXCEPT ![t] = Empty]
                  ELSE /\ local' = [Empty EXCEPT !.user = bucket.user]
                       /\ own' = [own EXCEPT ![t] = [bucket EXCEPT !.user = None]]

\* storeAuthSession: both buckets are cleared, one is filled.
StoreAuth(t, bucket, rememberMe) ==
    IF rememberMe THEN local' = bucket /\ own' = [own EXCEPT ![t] = Empty]
                  ELSE local' = Empty /\ own' = [own EXCEPT ![t] = bucket]

-----------------------------------------------------------------------------
(* Sign-in and sign-out                                                    *)

\* The server's half: issueSession.
LoginRequest(t) ==
    /\ login[t].pc = "idle"
    /\ issued < MaxTokens
    /\ LET n == issued + 1
       IN  /\ issued' = n
           /\ home' = [home EXCEPT ![n] = n]
           /\ \E u \in active :
                session' = [session EXCEPT ![n] = [status |-> "live", user |-> u, hash |-> n]]
           /\ login' = [login EXCEPT ![t] = [pc |-> "answer", new |-> n]]
    /\ UNCHANGED <<expired, active, browser, req, out, rotator, orphaned, crossed, lost, events>>

LoginStore(t) ==
    LET n == login[t].new
    IN  /\ login[t].pc = "answer"
        /\ \E rememberMe \in BOOLEAN :
             StoreAuth(t, [access |-> n, refresh |-> n, user |-> Owner(n)], rememberMe)
        /\ login' = [login EXCEPT ![t] = [pc |-> "idle", new |-> 0]]
        /\ UNCHANGED <<server, req, out, rotator, orphaned, crossed, lost, events>>

\* signOut: with no token there is nothing to revoke.
SignOut(t) ==
    /\ out[t].pc = "idle"
    /\ events < MaxEvents
    /\ events' = events + 1
    /\ out' = [out EXCEPT ![t] = IF StoredToken(t) = 0
                                 THEN [pc |-> "clear", access |-> 0]
                                 ELSE [pc |-> "sent", access |-> StoredToken(t)]]
    /\ UNCHANGED <<server, browser, req, login, rotator, orphaned, crossed, lost>>

\* POST /logout; a token that is not accepted revokes nothing.
Logout(t) ==
    LET s == home[out[t].access]
    IN  /\ out[t].pc = "sent"
        /\ IF Accepted(out[t].access)
           THEN session' = [session EXCEPT ![s].status = "revoked"]
           ELSE UNCHANGED session
        /\ out' = [out EXCEPT ![t] = [pc |-> "clear", access |-> 0]]
        /\ UNCHANGED <<issued, home, expired, active, browser, req, login, rotator, orphaned, crossed,
                       lost, events>>

Clear(t) ==
    /\ out[t].pc = "clear"
    /\ local' = Empty
    /\ own' = [own EXCEPT ![t] = Empty]
    /\ out' = [out EXCEPT ![t].pc = "idle"]
    /\ UNCHANGED <<server, req, login, rotator, orphaned, crossed, lost, events>>

-----------------------------------------------------------------------------
(* API calls and the refresh                                               *)

\* fetchWithOptionalRefresh, or syncCurrentUserFromServer when sync.
Send(q) ==
    /\ req[q].pc = "idle"
    /\ \E t \in Tab, sync \in BOOLEAN :
         /\ StoredToken(t) # 0
         /\ req' = [req EXCEPT ![q] = [NewRequest EXCEPT !.pc = "sent", !.tab = t,
                                                        !.sync = sync, !.sent = StoredToken(t)]]
    /\ UNCHANGED <<server, browser, out, login, rotator, orphaned, crossed, lost, events>>

Refreshing(t) == {q \in Request : req[q].tab = t /\ req[q].pc \in {"find", "rotate", "answer"}}

\* What an accepted call goes on with: a sync has the user in its answer.
Admitted(q, n) == IF req[q].sync THEN [req[q] EXCEPT !.pc = "body", !.me = Owner(n)] ELSE Done

Answered(q) ==
    /\ req[q].pc = "sent"
    /\ Accepted(req[q].sent)
    /\ req' = [req EXCEPT ![q] = Admitted(q, req[q].sent)]
    /\ UNCHANGED <<server, browser, out, login, rotator, orphaned, crossed, lost, events>>

\* Slip: every rejected call refreshes by itself.
RefreshAlone(q) ==
    LET t == req[q].tab
    IN  /\ req[q].pc = "sent"
        /\ ~Accepted(req[q].sent)
        /\ req' = [req EXCEPT ![q] =
                     IF StoredRefresh(t) = 0 THEN Done
                     ELSE [@ EXCEPT !.pc = "find", !.used = StoredRefresh(t)]]
        /\ UNCHANGED <<server, browser, out, login, rotator, orphaned, crossed, lost, events>>

\* A 401: the call waits for the refresh of its tab, or starts one.
Rejected(q) ==
    LET t == req[q].tab
    IN  /\ req[q].pc = "sent"
        /\ ~Accepted(req[q].sent)
        /\ req' = [req EXCEPT ![q] =
                     IF Refreshing(t) # {} THEN [@ EXCEPT !.pc = "join"]
                     ELSE IF StoredRefresh(t) = 0 THEN Done
                     ELSE [@ EXCEPT !.pc = "find", !.used = StoredRefresh(t)]]
        /\ UNCHANGED <<server, browser, out, login, rotator, orphaned, crossed, lost, events>>

\* Slip: the other calls of the tab are not told.
ResolveOwn(q, ok) ==
    req' = [req EXCEPT ![q] = IF ok THEN [@ EXCEPT !.pc = "retry", !.used = 0, !.sid = 0, !.new = 0]
                                    ELSE Done]

\* Everybody who waits for q's refresh goes on as told.
Resolve(q, ok) ==
    req' = [p \in Request |->
              IF p = q \/ (req[p].pc = "join" /\ req[p].tab = req[q].tab)
              THEN IF ok THEN [req[p] EXCEPT !.pc = "retry", !.used = 0, !.sid = 0, !.new = 0]
                         ELSE Done
              ELSE req[p]]

\* POST /refresh looks the session up by the hash.
RefreshFind(q) ==
    LET found == {s \in Token : session[s].status = "live" /\ session[s].hash = req[q].used}
    IN  /\ req[q].pc = "find"
        /\ IF found = {} THEN Resolve(q, FALSE)
           ELSE \E s \in found : req' = [req EXCEPT ![q].pc = "rotate", ![q].sid = s]
        /\ UNCHANGED <<server, browser, out, login, rotator, orphaned, crossed, lost, events>>

\* Slip: the row is saved as it was loaded, with revokedAt null.
SavedStatusStale(s) == "live"

\* save() writes the hash; revokedAt is what somebody may have made it.
SavedStatus(s) == session[s].status

\* The user is checked, the hash replaced, both tokens issued.
RefreshRotate(q) ==
    LET s == req[q].sid
        n == issued + 1
    IN  /\ req[q].pc = "rotate"
        /\ issued < MaxTokens
        /\ session[s].user \in active
        /\ issued' = n
        /\ home' = [home EXCEPT ![n] = s]
        /\ session' = [session EXCEPT ![s].hash = n, ![s].status = SavedStatus(s)]
        /\ rotator' = [rotator EXCEPT ![s] = req[q].tab]
        /\ orphaned' = IF session[s].hash # req[q].used /\ rotator[s] # req[q].tab
                       THEN orphaned \cup {s} ELSE orphaned
        /\ req' = [req EXCEPT ![q].pc = "answer", ![q].new = n]
        /\ UNCHANGED <<expired, active, browser, out, login, crossed, lost, events>>

\* The user was deactivated.
RefreshRefused(q) ==
    LET s == req[q].sid
    IN  /\ req[q].pc = "rotate"
        /\ session[s].user \notin active
        /\ Resolve(q, FALSE)
        /\ UNCHANGED <<server, browser, out, login, rotator, orphaned, crossed, lost, events>>

\* Slip: the answer is stored where the tokens of a sign-in would go.
RefreshStoreAnywhere(q) ==
    LET t == req[q].tab
        n == req[q].new
    IN  /\ req[q].pc = "answer"
        /\ own' = [own EXCEPT ![t].access = n, ![t].refresh = n]
        /\ Resolve(q, TRUE)
        /\ UNCHANGED <<server, local, out, login, rotator, orphaned, crossed, lost, events>>

\* The answer goes to the bucket that holds a token now, if one does.
RefreshStore(q) ==
    LET t == req[q].tab
        n == req[q].new
        crosses(bucket) == home[bucket.access] # home[n]
    IN  /\ req[q].pc = "answer"
        /\ CASE own[t].access # 0 ->
                  /\ own' = [own EXCEPT ![t].access = n, ![t].refresh = n]
                  /\ crossed' = (crossed \/ crosses(own[t]))
                  /\ Resolve(q, TRUE)
                  /\ UNCHANGED local
             [] own[t].access = 0 /\ local.access # 0 ->
                  /\ local' = [local EXCEPT !.access = n, !.refresh = n]
                  /\ crossed' = (crossed \/ crosses(local))
                  /\ Resolve(q, TRUE)
                  /\ UNCHANGED own
             [] OTHER ->
                  /\ Resolve(q, FALSE)
                  /\ UNCHANGED <<browser, crossed>>
        /\ UNCHANGED <<server, out, login, rotator, orphaned, lost, events>>

\* The answer does not arrive, or the server ends before it sends it.
RefreshLost(q) ==
    /\ req[q].pc \in {"find", "rotate", "answer"}
    /\ lost < MaxLost
    /\ lost' = lost + 1
    /\ orphaned' = IF req[q].pc = "answer" THEN orphaned \cup {req[q].sid} ELSE orphaned
    /\ Resolve(q, FALSE)
    /\ UNCHANGED <<server, browser, out, login, rotator, crossed, events>>

\* One retry with what is stored now; a second 401 is the caller's.
Retry(q) ==
    LET n == StoredToken(req[q].tab)
    IN  /\ req[q].pc = "retry"
        /\ req' = [req EXCEPT ![q] = IF Accepted(n) THEN Admitted(q, n) ELSE Done]
        /\ UNCHANGED <<server, browser, out, login, rotator, orphaned, crossed, lost, events>>

\* The answer of a sync: the tokens are stored again together with the user, in
\* localStorage if there is a token, whosesoever.
SyncStore(q) ==
    LET t == req[q].tab
        n == StoredToken(t)
        rememberMe == local.access # 0
        bucket == [access |-> n, refresh |-> StoredRefresh(t), user |-> req[q].me]
    IN  /\ req[q].pc = "body"
        /\ StoreAuth(t, bucket, rememberMe)
        /\ crossed' = \/ crossed
                      \/ n = 0 \/ Owner(n) # req[q].me
                      \/ rememberMe /\ own[t].access # 0
        /\ req' = [req EXCEPT ![q] = Done]
        /\ UNCHANGED <<server, out, login, rotator, orphaned, lost, events>>

-----------------------------------------------------------------------------
(* What else happens                                                       *)

\* From another device: DELETE /sessions and /sessions/:id, an admin's reset.
Revoke ==
    \E s \in Token :
        /\ session[s].status = "live"
        /\ session' = [session EXCEPT ![s].status = "revoked"]
        /\ UNCHANGED <<expired, active>>

ExpireAccess ==
    \E n \in 1..issued \ expired :
        /\ expired' = expired \cup {n}
        /\ UNCHANGED <<session, active>>

\* POST /users/:id/deactivate and /activate.
ChangeAccount ==
    \E u \in User :
        /\ active' = IF u \in active THEN active \ {u} ELSE active \cup {u}
        /\ UNCHANGED <<session, expired>>

Event ==
    /\ events < MaxEvents
    /\ events' = events + 1
    /\ Revoke \/ ExpireAccess \/ ChangeAccount
    /\ UNCHANGED <<issued, home, browser, req, out, login, rotator, orphaned, crossed, lost>>

CallStep(q) == Send(q) \/ Answered(q) \/ Rejected(q) \/ RefreshFind(q) \/ RefreshRotate(q)
                \/ RefreshRefused(q) \/ RefreshStore(q) \/ RefreshLost(q) \/ Retry(q) \/ SyncStore(q)
TabStep(t) == LoginRequest(t) \/ LoginStore(t) \/ SignOut(t) \/ Logout(t) \/ Clear(t)

Next == Event \/ (\E t \in Tab : TabStep(t)) \/ (\E q \in Request : CallStep(q))

Spec == Init /\ [][Next]_vars

-----------------------------------------------------------------------------
(* Properties                                                              *)

\* The refresh token a tab has stored is the one the server takes (POST /refresh
\* rotates it, api.js stores it), while its session lives and no answer is on
\* its way.  When an answer is lost, or two tabs refresh with one token, it is
\* not, and the tab can only sign in again: orphaned.
SignedInCanRefresh ==
    \A t \in Tab :
        LET r == StoredRefresh(t)
            s == home[r]
        IN  r # 0 /\ session[s].status = "live" /\ s \notin orphaned
                /\ (\A q \in Request : req[q].pc = "answer" => req[q].sid # s)
            => session[s].hash = r

\* Access token, refresh token and profile that a tab reads from its two buckets
\* come from one sign-in (storeAuthSession, refreshAccessTokenLocked), unless a
\* store mixed two: a sync or a refresh that another sign-in overtook, or one
\* that moved a tab's own sign-in over the shared one.
StoredFromOneSignIn ==
    ~crossed => \A t \in Tab :
        IF StoredToken(t) = 0
        THEN StoredRefresh(t) = 0 /\ StoredUser(t) = None
        ELSE /\ StoredRefresh(t) # 0
             /\ home[StoredToken(t)] = home[StoredRefresh(t)]
             /\ Owner(StoredToken(t)) = StoredUser(t)

\* A call that waits for a refresh has one to wait for (refreshInFlight).
WaitsForRefresh == \A q \in Request : req[q].pc = "join" => Refreshing(req[q].tab) # {}

\* A revoked session stays revoked, although rows are loaded and saved around it
\* (auth.js:330-347, auth.js:748, middleware/auth.js:35).
RevokedForGood ==
    [][\A s \in Token : session[s].status = "revoked" => session'[s].status = "revoked"]_vars

\* A signed-out tab gets a token from a sign-in only, not from an answer that was
\* on its way when it signed out.
OnlySignInSignsIn ==
    [][\A t \in Tab : StoredToken(t) = 0 /\ StoredToken(t)' # 0
          => \E u \in Tab : LoginStore(u)]_vars
=============================================================================
