----------------------------- MODULE SessionProofs -----------------------------
(***************************************************************************)
(* Proofs about AuthSessions, for any users, tabs, API calls, tokens and    *)
(* losses.                                                                 *)
(*                                                                         *)
(* TypeInv ties every token to its session and pairs the two tokens of a    *)
(* bucket; WaitsForRefresh is inductive next to it, and UsersApart next to  *)
(* it says whose tokens a bucket has.  SignedInCanRefresh is not inductive: *)
(* that the answer of a refresh is stored where the token it replaces was   *)
(* must be known while the answer travels.  Rotation says so: a session     *)
(* that is not orphaned is in one bucket, a refresh in flight replaces the  *)
(* token of the bucket its answer will go to, the token of an answer is     *)
(* known to nobody yet, and a refresh that was overtaken was so by another  *)
(* tab (a tab has one in flight), so that rotating again orphans.           *)
(***************************************************************************)
EXTENDS AuthSessions, TLAPS

-----------------------------------------------------------------------------
(* The inductive invariant                                                 *)

\* The places where a refresh token is kept: localStorage (None) and the
\* sessionStorage of each tab.
Place == Tab \cup {None}
held == [p \in Place |-> IF p = None THEN local.refresh ELSE own[p].refresh]

\* The refresh token the server takes for each session.
hash == [s \in Token |-> session[s].hash]

InFlight(q) == req[q].pc \in {"find", "rotate", "answer"}
Taken == 1..issued

\* Every token issued is of a session that exists, whose hash is one of its own.
TokensKnown ==
    /\ \A n \in Token : IF n \in Taken THEN home[n] \in Taken /\ session[home[n]] \in Session
                                       ELSE home[n] = 0 /\ session[n] = NoSession
    /\ \A s \in Token : session[s] \in Session => session[s].hash \in Taken /\ home[session[s].hash] = s

\* The two tokens of a bucket are of one issue.
BucketsPaired ==
    /\ local.access = local.refresh
    /\ \A t \in Tab : own[t].access = own[t].refresh
    /\ \A p \in Place : held[p] # 0 => held[p] \in Taken

\* What the program counter says of an API call and of a sign-in.
CallShape(q) ==
    /\ req[q].pc \notin {"idle", "done"} => req[q].tab \in Tab
    /\ InFlight(q) => req[q].used \in Taken
    /\ req[q].pc \in {"rotate", "answer"} =>
         /\ req[q].sid \in Taken /\ req[q].sid = home[req[q].used] /\ session[req[q].sid] \in Session
    /\ req[q].pc = "answer" => req[q].new \in Taken /\ home[req[q].new] = req[q].sid

\* A session whose sign-in is not stored yet is nobody's.
LoginFresh(t) ==
    LET n == login[t].new
    IN  login[t].pc = "answer" =>
          /\ n \in Taken /\ home[n] = n /\ hash[n] = n
          /\ \A p \in Place : held[p] # 0 => home[held[p]] # n
          /\ \A q \in Request : InFlight(q) => home[req[q].used] # n
          /\ \A u \in Tab \ {t} : login[u].pc = "answer" => login[u].new # n

\* A tab has one refresh in flight.
OneFlight ==
    \A p, q \in Request : InFlight(p) /\ InFlight(q) /\ req[p].tab = req[q].tab => p = q

\* A session that is not orphaned is in one bucket.
OneBucket ==
    \A p, q \in Place :
        p # q /\ held[p] # 0 /\ held[q] # 0 /\ home[held[p]] \notin orphaned => home[held[p]] # home[held[q]]

\* A refresh that is going to give session s a new token, or has: the token it
\* replaces is in the bucket where the answer will be stored, or nowhere.
Renews(q, s) ==
    /\ InFlight(q)
    /\ s = home[req[q].used] /\ s \notin orphaned
    /\ req[q].pc = "answer" \/ hash[s] = req[q].used

RenewsInPlace(q) ==
    \A s \in Token : Renews(q, s) =>
        /\ \A u \in Tab \ {req[q].tab} : held[u] # 0 => home[held[u]] # s
        /\ held[None] # 0 /\ home[held[None]] = s => held[req[q].tab] = 0

\* The token of an answer on its way is the one the server takes, and known to
\* no one else.
AnswerNew(q) ==
    req[q].pc = "answer" /\ req[q].sid \notin orphaned =>
        /\ hash[req[q].sid] = req[q].new
        /\ rotator[req[q].sid] = req[q].tab
        /\ \A p \in Request : InFlight(p) => req[p].used # req[q].new
        /\ \A p \in Place : held[p] # req[q].new

\* A refresh that was overtaken was so by another tab.
OvertakenByOther(q) ==
    req[q].pc = "rotate" /\ req[q].sid \notin orphaned /\ hash[req[q].sid] # req[q].used
        => rotator[req[q].sid] # req[q].tab

Pending(s) == \E q \in Request : req[q].pc = "answer" /\ req[q].sid = s

\* What is held is what the server takes.
HeldCurrent ==
    \A p \in Place :
        held[p] # 0 /\ home[held[p]] \notin orphaned /\ ~Pending(home[held[p]])
            => hash[home[held[p]]] = held[p]

Known == TokensKnown /\ BucketsPaired /\ (\A q \in Request : CallShape(q))

Flights ==
    /\ OneFlight
    /\ OneBucket
    /\ \A q \in Request : RenewsInPlace(q) /\ AnswerNew(q) /\ OvertakenByOther(q)
    /\ HeldCurrent

Rotation == (\A t \in Tab : LoginFresh(t)) /\ Flights

\* A bucket that no store mixed is empty or of its own user.
OwnUser(bucket) == IF bucket.access = 0 THEN bucket.user = None ELSE bucket.user = Owner(bucket.access)
UsersApart == ~crossed => OwnUser(local) /\ \A t \in Tab : OwnUser(own[t])

\* A sign-in that is not stored yet is of a token that was issued.
LoginTaken == \A t \in Tab : login[t].pc = "answer" => login[t].new \in Taken

TypeInv == TypeOK /\ Known /\ LoginTaken

-----------------------------------------------------------------------------
(* Type correctness                                                        *)

LEMMA StartShapes ==
    /\ NewRequest \in RequestState /\ NewRequest.pc = "idle"
    /\ Done \in RequestState /\ Done.pc = "done"
    /\ Empty \in Bucket /\ Empty.access = 0 /\ Empty.refresh = 0 /\ Empty.user = None
    /\ NoSession.status = "none" /\ NoSession \notin Session
  <1>1. 0 \in Tokens
    BY SessionAssumption DEF Tokens
  <1>2. NewRequest \in RequestState /\ NewRequest.pc = "idle"
    BY <1>1 DEF NewRequest, RequestState
  <1>3. Done \in RequestState /\ Done.pc = "done"
    BY <1>1 DEF Done, NewRequest, RequestState
  <1>4. Empty \in Bucket /\ Empty.access = 0 /\ Empty.refresh = 0 /\ Empty.user = None
    BY <1>1 DEF Empty, Bucket
  <1>5. NoSession.status = "none" /\ \A s \in Session : s.status \in {"live", "revoked"}
    BY DEF NoSession, Session
  <1> QED
    BY <1>2, <1>3, <1>4, <1>5

LEMMA InitTypeInv == Init => TypeInv
  <1> SUFFICES ASSUME Init PROVE TypeInv
    OBVIOUS
  <1> USE DEF Init
  <1>1. Taken = {} /\ issued \in Tokens /\ lost \in 0..MaxLost /\ events \in 0..MaxEvents
    BY SessionAssumption DEF Taken, Tokens
  <1>2. TypeOK
    BY <1>1, StartShapes DEF TypeOK, Tokens
  <1>3. TokensKnown
    BY <1>1, StartShapes DEF TokensKnown
  <1>4. BucketsPaired
    BY StartShapes DEF BucketsPaired, Place, held
  <1>5. \A q \in Request : CallShape(q)
    BY StartShapes DEF CallShape, InFlight
  <1>6. LoginTaken
    BY DEF LoginTaken
  <1> QED
    BY <1>2, <1>3, <1>4, <1>5, <1>6 DEF TypeInv, Known

LEMMA TakenTokens == ASSUME TypeInv PROVE Taken \subseteq Token /\ Taken \subseteq Tokens
  BY SessionAssumption DEF TypeInv, TypeOK, Taken, Token, Tokens

\* What the tokens and sessions never do: none is forgotten, and none changes
\* hands.
ServerGrows ==
    /\ Taken \subseteq Taken'
    /\ \A n \in Taken : home'[n] = home[n]
    /\ \A s \in Token : session[s] \in Session =>
         session'[s] \in Session /\ session'[s].user = session[s].user

ServerTyped ==
    /\ session \in [Token -> Session \cup {NoSession}]
    /\ issued \in Tokens
    /\ home \in [Token -> Tokens]

LEMMA ServerSame ==
    ASSUME TypeInv, UNCHANGED <<session, issued, home>>
    PROVE  ServerTyped' /\ TokensKnown' /\ ServerGrows
  <1>1. TokensKnown' /\ ServerTyped'
    BY DEF TypeInv, TypeOK, Known, TokensKnown, ServerTyped, Taken
  <1> QED
    BY <1>1 DEF ServerGrows, Taken

\* A token is issued, in session s, whose row is then new.
LEMMA Issue ==
    ASSUME TypeInv, issued < MaxTokens, NEW s \in Taken \cup {issued + 1}, NEW row \in Session,
           row.hash = issued + 1, s \in Taken => row.user = session[s].user,
           issued' = issued + 1, home' = [home EXCEPT ![issued + 1] = s],
           session' = [session EXCEPT ![s] = row]
    PROVE  ServerTyped' /\ TokensKnown' /\ ServerGrows
  <1> DEFINE n == issued + 1
  <1>1. /\ n \in Token /\ n \notin Taken /\ Taken' = Taken \cup {n} /\ Taken \subseteq Token
        /\ issued' \in Tokens /\ s \in Token /\ s \in Tokens
    BY SessionAssumption DEF TypeInv, TypeOK, Taken, Token, Tokens
  <1>2. /\ session \in [Token -> Session \cup {NoSession}]
        /\ home \in [Token -> Tokens] /\ TokensKnown
    BY DEF TypeInv, TypeOK, Known
  <1>3. /\ \A m \in Token : home'[m] = IF m = n THEN s ELSE home[m]
        /\ \A m \in Token : session'[m] = IF m = s THEN row ELSE session[m]
    BY <1>1, <1>2
  <1>4. ServerTyped'
    BY <1>1, <1>2 DEF ServerTyped
  <1>5. session[n] = NoSession
    BY <1>1, <1>2 DEF TokensKnown
  <1>6. ServerGrows
    BY <1>1, <1>3, <1>5, StartShapes DEF ServerGrows
  <1>7. ASSUME NEW m \in Token
        PROVE  IF m \in Taken' THEN home'[m] \in Taken' /\ session'[home'[m]] \in Session
                               ELSE home'[m] = 0 /\ session'[m] = NoSession
    <2>1. CASE m = n
      BY <1>1, <1>3, <2>1
    <2>2. CASE m # n /\ m \in Taken
      <3>1. home'[m] = home[m] /\ home[m] \in Taken /\ session[home[m]] \in Session
        BY <1>2, <1>3, <2>2 DEF TokensKnown
      <3> QED
        BY <1>1, <1>3, <2>2, <3>1
    <2>3. CASE m \notin Taken'
      BY <1>1, <1>2, <1>3, <2>3 DEF TokensKnown
    <2> QED
      BY <1>1, <2>1, <2>2, <2>3
  <1>8. ASSUME NEW m \in Token, session'[m] \in Session
        PROVE  session'[m].hash \in Taken' /\ home'[session'[m].hash] = m
    <2>1. CASE m = s
      BY <1>1, <1>3, <2>1
    <2>2. CASE m # s
      <3>1. session'[m] = session[m] /\ session[m].hash \in Taken /\ home[session[m].hash] = m
        BY <1>2, <1>3, <1>8, <2>2 DEF TokensKnown
      <3> QED
        BY <1>1, <1>3, <3>1
    <2> QED
      BY <2>1, <2>2
  <1> QED
    BY <1>4, <1>6, <1>7, <1>8 DEF TokensKnown

LEMMA Revoking ==
    ASSUME TypeInv, NEW s \in Token, session[s].status = "live",
           session' = [session EXCEPT ![s].status = "revoked"], UNCHANGED <<issued, home>>
    PROVE  ServerTyped' /\ TokensKnown' /\ ServerGrows
  <1>1. session \in [Token -> Session \cup {NoSession}] /\ TokensKnown /\ Taken' = Taken
    BY DEF TypeInv, TypeOK, Known, Taken
  <1>2. session[s] \in Session
    BY <1>1, StartShapes
  <1>3. /\ session'[s] \in Session /\ session'[s].user = session[s].user
        /\ session'[s].hash = session[s].hash
    BY <1>1, <1>2 DEF Session
  <1>4. \A m \in Token : m # s => session'[m] = session[m]
    BY <1>1
  <1>5. ServerTyped'
    BY <1>1, <1>3 DEF ServerTyped, TypeInv, TypeOK
  <1>6. TokensKnown'
    <2>1. \A m \in Token : session'[m] \in Session <=> session[m] \in Session
      BY <1>2, <1>3, <1>4
    <2>2. \A m \in Token : session'[m].hash = session[m].hash
      BY <1>3, <1>4
    <2>3. \A m \in Taken : m \in Token
      BY TakenTokens
    <2>4. \A m \in Token : session[m] = NoSession => session'[m] = NoSession
      BY <1>2, <1>4, StartShapes
    <2> QED
      BY <1>1, <2>1, <2>2, <2>3, <2>4 DEF TokensKnown
  <1> QED
    BY <1>1, <1>3, <1>4, <1>5, <1>6 DEF ServerGrows

\* A call that does not move keeps its shape, as the server only grows.
LEMMA CallKept ==
    ASSUME TypeInv, ServerGrows, NEW p \in Request, req'[p] = req[p] PROVE CallShape(p)'
  <1>1. CallShape(p)
    BY DEF TypeInv, Known
  <1>2. Taken \subseteq Token
    BY TakenTokens
  <1> QED
    BY <1>1, <1>2 DEF CallShape, InFlight, ServerGrows

LEMMA CallsSame ==
    ASSUME TypeInv, ServerGrows, UNCHANGED req
    PROVE  req' \in [Request -> RequestState] /\ \A p \in Request : CallShape(p)'
  BY CallKept DEF TypeInv, TypeOK

LEMMA MoveTyped ==
    ASSUME TypeInv, ServerGrows, NEW q \in Request, NEW s \in RequestState,
           req' = [req EXCEPT ![q] = s], CallShape(q)'
    PROVE  req' \in [Request -> RequestState] /\ \A p \in Request : CallShape(p)'
  <1>1. req \in [Request -> RequestState]
    BY DEF TypeInv, TypeOK
  <1>2. \A p \in Request : p # q => req'[p] = req[p]
    BY <1>1
  <1> QED
    BY <1>1, <1>2, CallKept

\* What becomes of the calls when q's refresh ends.
LEMMA ResolveMoves ==
    ASSUME TypeInv, NEW q \in Request, InFlight(q), NEW ok \in BOOLEAN, Resolve(q, ok)
    PROVE  /\ req' \in [Request -> RequestState]
           /\ \A p \in Request :
                IF p = q \/ (req[p].pc = "join" /\ req[p].tab = req[q].tab)
                THEN \/ req'[p] = Done
                     \/ req'[p].pc = "retry" /\ req'[p].tab = req[p].tab
                ELSE req'[p] = req[p]
  <1>1. req \in [Request -> RequestState] /\ 0 \in Tokens
    BY SessionAssumption DEF TypeInv, TypeOK, Tokens
  <1>2. ASSUME NEW p \in Request
        PROVE  LET s == [req[p] EXCEPT !.pc = "retry", !.used = 0, !.sid = 0, !.new = 0]
               IN  s \in RequestState /\ s.pc = "retry" /\ s.tab = req[p].tab
    BY <1>1 DEF RequestState
  <1> QED
    BY <1>1, <1>2, StartShapes DEF Resolve

LEMMA ResolveTyped ==
    ASSUME TypeInv, ServerGrows, NEW q \in Request, InFlight(q), NEW ok \in BOOLEAN, Resolve(q, ok)
    PROVE  req' \in [Request -> RequestState] /\ \A p \in Request : CallShape(p)'
  <1>1. ASSUME NEW p \in Request PROVE CallShape(p)'
    <2>1. CASE req'[p] = req[p]
      BY <2>1, CallKept
    <2>2. CASE req'[p].pc = "done"
      BY <2>2 DEF CallShape, InFlight
    <2>3. CASE req'[p].pc = "retry" /\ req'[p].tab = req[p].tab /\ (p = q \/ req[p].pc = "join")
      BY <2>3 DEF CallShape, InFlight, TypeInv, Known
    <2> QED
      BY <2>1, <2>2, <2>3, ResolveMoves, StartShapes
  <1> QED
    BY <1>1, ResolveMoves

\* What a store leaves in the browser.
BrowserTyped == local \in Bucket /\ own \in [Tab -> Bucket]

LEMMA BrowserSame ==
    ASSUME TypeInv, ServerGrows, UNCHANGED browser PROVE BrowserTyped' /\ BucketsPaired'
  BY DEF TypeInv, TypeOK, Known, BrowserTyped, BucketsPaired, held, Place, browser, ServerGrows

LEMMA StoreTyped ==
    ASSUME TypeInv, ServerGrows, NEW t \in Tab, NEW bucket \in Bucket,
           bucket.access = bucket.refresh, bucket.refresh # 0 => bucket.refresh \in Taken,
           NEW shared \in Bucket, shared.access = shared.refresh,
           shared.refresh # 0 => shared.refresh \in Taken,
           local' = shared, own' = [own EXCEPT ![t] = bucket]
    PROVE  BrowserTyped' /\ BucketsPaired'
  <1>1. own \in [Tab -> Bucket] /\ BucketsPaired /\ None \notin Tab
    BY SessionAssumption DEF TypeInv, TypeOK, Known
  <1>2. \A u \in Tab : own'[u] = IF u = t THEN bucket ELSE own[u]
    BY <1>1
  <1>3. BrowserTyped'
    BY <1>1 DEF BrowserTyped
  <1>4. \A p \in Place : held'[p] # 0 => held'[p] \in Taken
    <2> SUFFICES ASSUME NEW p \in Place, held'[p] # 0 PROVE held'[p] \in Taken
      OBVIOUS
    <2>1. CASE p = None
      BY <2>1 DEF held, Place
    <2>2. CASE p = t
      BY <1>1, <1>2, <2>2 DEF held, Place
    <2>3. CASE p # None /\ p # t
      BY <1>1, <1>2, <2>3 DEF held, BucketsPaired, Place
    <2> QED
      BY <2>1, <2>2, <2>3
  <1> QED
    BY <1>1, <1>2, <1>3, <1>4 DEF BucketsPaired, ServerGrows

LEMMA StoreAuthTyped ==
    ASSUME TypeInv, ServerGrows, NEW t \in Tab, NEW bucket \in Bucket, NEW remember \in BOOLEAN,
           bucket.access = bucket.refresh, bucket.refresh # 0 => bucket.refresh \in Taken,
           StoreAuth(t, bucket, remember)
    PROVE  BrowserTyped' /\ BucketsPaired'
  BY StoreTyped, StartShapes DEF StoreAuth

\* The user a token was issued to.
LEMMA OwnerKnown ==
    ASSUME TypeInv, NEW n \in Taken PROVE Owner(n) \in User /\ home[n] \in Taken /\ home[n] \in Token
  <1>1. home[n] \in Taken /\ session[home[n]] \in Session
    BY TakenTokens DEF TypeInv, Known, TokensKnown
  <1> QED
    BY <1>1, TakenTokens DEF Owner, Session

LEMMA StoredTaken ==
    ASSUME TypeInv, NEW t \in Tab
    PROVE  /\ StoredToken(t) = StoredRefresh(t)
           /\ StoredToken(t) # 0 => StoredToken(t) \in Taken
           /\ StoredToken(t) \in Tokens
  <1>1. BucketsPaired /\ t # None /\ t \in Place /\ None \in Place
    BY SessionAssumption DEF TypeInv, Known, Place
  <1>2. local.refresh # 0 => local.refresh \in Taken
    BY <1>1 DEF BucketsPaired, held, Place
  <1>3. own[t].refresh # 0 => own[t].refresh \in Taken
    BY <1>1 DEF BucketsPaired, held, Place
  <1>4. 0 \in Tokens
    BY SessionAssumption DEF Tokens
  <1> QED
    BY <1>1, <1>2, <1>3, <1>4, TakenTokens DEF StoredToken, StoredRefresh, BucketsPaired

\* What each step does to the server, the browser and the calls.
Sound ==
    /\ ServerTyped' /\ TokensKnown' /\ ServerGrows
    /\ BrowserTyped' /\ BucketsPaired'
    /\ req' \in [Request -> RequestState] /\ \A p \in Request : CallShape(p)'

\* The rest of the state, of which the proofs need the types alone.
RestTyped ==
    /\ expired \subseteq Token
    /\ active \subseteq User
    /\ out \in [Tab -> [pc : {"idle", "sent", "clear"}, access : Tokens]]
    /\ login \in [Tab -> [pc : {"idle", "answer"}, new : Tokens]]
    /\ rotator \in [Token -> Tab \cup {None}]
    /\ orphaned \subseteq Token
    /\ crossed \in BOOLEAN
    /\ lost \in 0..MaxLost
    /\ events \in 0..MaxEvents

LEMMA Assemble == Sound /\ RestTyped' /\ LoginTaken' => TypeInv'
  BY DEF Sound, RestTyped, TypeInv, TypeOK, Known, ServerTyped, BrowserTyped

LEMMA RestNow == TypeInv => RestTyped
  BY DEF TypeInv, TypeOK, RestTyped

\* What LoginRequest does to the server, in the terms of Issue.
LEMMA LoginIssues ==
    ASSUME TypeInv, NEW t \in Tab, LoginRequest(t)
    PROVE  /\ issued + 1 \in Token /\ issued' = issued + 1
           /\ home' = [home EXCEPT ![issued + 1] = issued + 1]
           /\ \E u \in User :
                session' = [session EXCEPT ![issued + 1] =
                              [status |-> "live", user |-> u, hash |-> issued + 1]]
           /\ ServerTyped' /\ TokensKnown' /\ ServerGrows
  <1> DEFINE n == issued + 1
  <1>1. issued < MaxTokens /\ issued' = n /\ home' = [home EXCEPT ![n] = n]
    BY DEF LoginRequest
  <1>2. PICK u \in active : session' = [session EXCEPT ![n] = [status |-> "live", user |-> u, hash |-> n]]
    BY DEF LoginRequest
  <1>3. n \in Token /\ n \notin Taken /\ u \in User
    BY <1>1, SessionAssumption DEF TypeInv, TypeOK, Token, Tokens, Taken
  <1> DEFINE row == [status |-> "live", user |-> u, hash |-> n]
  <1>4. row \in Session /\ row.hash = n
    BY <1>3 DEF Session
  <1>5. session' = [session EXCEPT ![n] = row]
    BY <1>2
  <1> HIDE DEF row
  <1>6. ServerTyped' /\ TokensKnown' /\ ServerGrows
    BY <1>1, <1>3, <1>4, <1>5, Issue
  <1> QED
    BY <1>1, <1>2, <1>3, <1>6

\* What a rotation does.
LEMMA Rotates ==
    ASSUME TypeInv, NEW q \in Request, RefreshRotate(q)
    PROVE  LET s == req[q].sid
               n == issued + 1
           IN  /\ n \in Token /\ n \notin Taken /\ issued' = n /\ s \in Taken
               /\ home' = [home EXCEPT ![n] = s]
               /\ session' = [session EXCEPT ![s] = session'[s]]
               /\ session'[s] \in Session /\ session'[s].hash = n
               /\ session'[s].status = session[s].status /\ session'[s].user = session[s].user
               /\ ServerTyped' /\ TokensKnown' /\ ServerGrows
  <1> DEFINE s == req[q].sid
             n == issued + 1
             row == [session[s] EXCEPT !.hash = n]
  <1>1. /\ req[q].pc = "rotate" /\ issued < MaxTokens /\ issued' = n
        /\ home' = [home EXCEPT ![n] = s]
        /\ session' = [session EXCEPT ![s].hash = n, ![s].status = session[s].status]
    BY DEF RefreshRotate, SavedStatus
  <1>2. s \in Taken /\ session[s] \in Session /\ s \in Token
    BY <1>1, TakenTokens DEF TypeInv, Known, CallShape
  <1>3. n \in Token /\ n \notin Taken
    BY <1>1, SessionAssumption DEF TypeInv, TypeOK, Token, Tokens, Taken
  <1>4. row \in Session /\ row.hash = n /\ row.status = session[s].status /\ row.user = session[s].user
    BY <1>2, <1>3 DEF Session
  <1>5. session \in [Token -> Session \cup {NoSession}]
    BY DEF TypeInv, TypeOK
  <1>6. session' = [session EXCEPT ![s] = row]
    <2>1. [[session[s] EXCEPT !.hash = n] EXCEPT !.status = session[s].status] = row
      BY <1>2 DEF Session
    <2> QED
      BY <1>1, <1>2, <1>5, <2>1
  <1> HIDE DEF row
  <1>7. session'[s] = row
    BY <1>2, <1>5, <1>6
  <1>8. ServerTyped' /\ TokensKnown' /\ ServerGrows
    BY <1>1, <1>2, <1>4, <1>6, Issue
  <1> QED
    BY <1>1, <1>2, <1>3, <1>4, <1>6, <1>7, <1>8

LEMMA TabStepTyped ==
    ASSUME TypeInv, NEW t \in Tab, TabStep(t) PROVE Sound /\ RestTyped'
  <1>0. RestTyped
    BY RestNow
  <1>1. CASE LoginRequest(t)
    <2>1. ServerTyped' /\ TokensKnown' /\ ServerGrows
      BY <1>1, LoginIssues
    <2>2. login' \in [Tab -> [pc : {"idle", "answer"}, new : Tokens]]
      <3>1. issued + 1 \in Tokens
        BY <1>1, SessionAssumption DEF LoginRequest, TypeInv, TypeOK, Tokens
      <3> QED
        BY <1>0, <1>1, <3>1 DEF LoginRequest, RestTyped
    <2> QED
      BY <1>0, <1>1, <2>1, <2>2, BrowserSame, CallsSame DEF LoginRequest, Sound, RestTyped
  <1>2. CASE LoginStore(t)
    <2> DEFINE n == login[t].new
               bucket == [access |-> n, refresh |-> n, user |-> Owner(n)]
    <2>1. n \in Taken /\ n \in Tokens /\ Owner(n) \in User
      BY <1>2, OwnerKnown, TakenTokens DEF LoginStore, TypeInv, LoginTaken
    <2>2. bucket \in Bucket /\ bucket.access = bucket.refresh /\ bucket.refresh = n
      BY <2>1 DEF Bucket
    <2>3. ServerTyped' /\ TokensKnown' /\ ServerGrows
      BY <1>2, ServerSame DEF LoginStore, server
    <2>4. BrowserTyped' /\ BucketsPaired'
      BY <1>2, <2>1, <2>2, <2>3, StoreAuthTyped DEF LoginStore
    <2>5. req' \in [Request -> RequestState] /\ \A p \in Request : CallShape(p)'
      BY <1>2, <2>3, CallsSame DEF LoginStore
    <2>6. login' \in [Tab -> [pc : {"idle", "answer"}, new : Tokens]]
      BY <1>0, <1>2, SessionAssumption DEF LoginStore, RestTyped, Tokens
    <2>7. UNCHANGED <<expired, active, out, rotator, orphaned, lost, events, crossed>>
      BY <1>2 DEF LoginStore, server
    <2> QED
      BY <1>0, <2>3, <2>4, <2>5, <2>6, <2>7 DEF Sound, RestTyped
  <1>3. CASE SignOut(t)
    <2>1. ServerTyped' /\ TokensKnown' /\ ServerGrows
      BY <1>3, ServerSame DEF SignOut, server
    <2>2. out' \in [Tab -> [pc : {"idle", "sent", "clear"}, access : Tokens]]
      BY <1>0, <1>3, StoredTaken, SessionAssumption DEF SignOut, RestTyped, Tokens
    <2>3. events' \in 0..MaxEvents
      BY <1>0, <1>3, SessionAssumption DEF SignOut, RestTyped
    <2> QED
      BY <1>0, <1>3, <2>1, <2>2, <2>3, BrowserSame, CallsSame DEF SignOut, server, Sound, RestTyped
  <1>4. CASE Logout(t)
    <2> DEFINE s == home[out[t].access]
    <2>1. ServerTyped' /\ TokensKnown' /\ ServerGrows
      <3>1. CASE Accepted(out[t].access)
        <4>1. session[s].status = "live" /\ session' = [session EXCEPT ![s].status = "revoked"]
                 /\ UNCHANGED <<issued, home>>
          BY <1>4, <3>1 DEF Logout, Accepted
        <4>2. CASE s \in Token
          BY <4>1, <4>2, Revoking
        <4>3. CASE s \notin Token
          <5>1. session' = session
            BY <4>1, <4>3 DEF TypeInv, TypeOK
          <5> QED
            BY <4>1, <5>1, ServerSame
        <4> QED
          BY <4>2, <4>3
      <3>2. CASE ~Accepted(out[t].access)
        BY <1>4, <3>2, ServerSame DEF Logout
      <3> QED
        BY <3>1, <3>2
    <2>2. out' \in [Tab -> [pc : {"idle", "sent", "clear"}, access : Tokens]]
      BY <1>0, <1>4, SessionAssumption DEF Logout, RestTyped, Tokens
    <2> QED
      BY <1>0, <1>4, <2>1, <2>2, BrowserSame, CallsSame DEF Logout, Sound, RestTyped
  <1>5. CASE Clear(t)
    <2>1. ServerTyped' /\ TokensKnown' /\ ServerGrows
      BY <1>5, ServerSame DEF Clear, server
    <2>2. BrowserTyped' /\ BucketsPaired'
      BY <1>5, <2>1, StoreTyped, StartShapes DEF Clear
    <2>3. out' \in [Tab -> [pc : {"idle", "sent", "clear"}, access : Tokens]]
      BY <1>0, <1>5 DEF Clear, RestTyped
    <2> QED
      BY <1>0, <1>5, <2>1, <2>2, <2>3, CallsSame DEF Clear, server, Sound, RestTyped
  <1> QED
    BY <1>1, <1>2, <1>3, <1>4, <1>5 DEF TabStep

LEMMA EventTyped == ASSUME TypeInv, Event PROVE Sound /\ RestTyped'
  <1>0. RestTyped
    BY RestNow
  <1>1. events' \in 0..MaxEvents
    BY <1>0, SessionAssumption DEF Event, RestTyped
  <1>2. ServerTyped' /\ TokensKnown' /\ ServerGrows
    <2>1. CASE Revoke
      BY <2>1, Revoking DEF Revoke, Event
    <2>2. CASE ExpireAccess \/ ChangeAccount
      BY <2>2, ServerSame DEF ExpireAccess, ChangeAccount, Event
    <2> QED
      BY <2>1, <2>2 DEF Event
  <1>3. expired' \subseteq Token /\ active' \subseteq User
    BY <1>0, TakenTokens DEF Event, Revoke, ExpireAccess, ChangeAccount, RestTyped, Taken
  <1> QED
    BY <1>0, <1>1, <1>2, <1>3, BrowserSame, CallsSame DEF Event, Sound, RestTyped

\* The steps of a call that touch neither the server nor the browser.
LEMMA QuietTyped ==
    ASSUME TypeInv, UNCHANGED <<server, browser, out, login, rotator, crossed, events>>,
           orphaned' \subseteq Token, lost' \in 0..MaxLost,
           req' \in [Request -> RequestState], \A p \in Request : CallShape(p)'
    PROVE  Sound /\ RestTyped'
  <1>1. ServerTyped' /\ TokensKnown' /\ ServerGrows
    BY ServerSame DEF server
  <1> QED
    BY <1>1, RestNow, BrowserSame DEF server, Sound, RestTyped

LEMMA CallStepTyped ==
    ASSUME TypeInv, NEW q \in Request, CallStep(q) PROVE Sound /\ RestTyped'
  <1>0. RestTyped /\ req[q] \in RequestState /\ CallShape(q)
    BY RestNow DEF TypeInv, TypeOK, Known
  <1>1. UNCHANGED <<session, issued, home>> => ServerTyped' /\ TokensKnown' /\ ServerGrows
    BY ServerSame
  <1>2. CASE Send(q)
    <2>1. PICK t \in Tab, sync \in BOOLEAN :
            req' = [req EXCEPT ![q] = [NewRequest EXCEPT !.pc = "sent", !.tab = t, !.sync = sync,
                                                         !.sent = StoredToken(t)]]
      BY <1>2 DEF Send
    <2> DEFINE s == [NewRequest EXCEPT !.pc = "sent", !.tab = t, !.sync = sync, !.sent = StoredToken(t)]
    <2>2. s \in RequestState /\ s.pc = "sent" /\ s.tab = t
      BY StoredTaken, StartShapes DEF NewRequest, RequestState
    <2> HIDE DEF s
    <2>3. req'[q] = s
      BY <2>1 DEF TypeInv, TypeOK, s
    <2>4. CallShape(q)'
      BY <2>2, <2>3 DEF CallShape, InFlight
    <2>5. req' \in [Request -> RequestState] /\ \A p \in Request : CallShape(p)'
      BY <1>1, <1>2, <2>1, <2>2, <2>4, MoveTyped DEF Send, server, s
    <2> QED
      BY <1>0, <1>2, <2>5, QuietTyped DEF Send, RestTyped
  <1>3. ASSUME req[q].pc \in {"sent", "retry"}, NEW n \in Tokens, Accepted(n),
               req' = [req EXCEPT ![q] = Admitted(q, n)],
               UNCHANGED <<server, browser, out, login, rotator, orphaned, crossed, lost, events>>
        PROVE  Sound /\ RestTyped'
    <2> DEFINE s == Admitted(q, n)
    <2>1. s \in RequestState /\ (s.pc = "done" \/ (s.pc = "body" /\ s.tab = req[q].tab))
      <3>1. Owner(n) \in User
        BY <1>0, <1>3 DEF Accepted, RestTyped
      <3> QED
        BY <1>0, <3>1, StartShapes DEF Admitted, RequestState
    <2> HIDE DEF s
    <2>2. req'[q] = s
      BY <1>3 DEF TypeInv, TypeOK, s
    <2>3. CallShape(q)'
      BY <1>0, <1>3, <2>1, <2>2 DEF CallShape, InFlight
    <2>4. req' \in [Request -> RequestState] /\ \A p \in Request : CallShape(p)'
      BY <1>1, <1>3, <2>1, <2>3, MoveTyped DEF server, s
    <2> QED
      BY <1>0, <1>3, <2>4, QuietTyped DEF RestTyped
  <1>4. ASSUME req' = [req EXCEPT ![q] = Done],
               UNCHANGED <<server, browser, out, login, rotator, orphaned, crossed, lost, events>>
        PROVE  Sound /\ RestTyped'
    <2>1. CallShape(q)'
      BY <1>4, StartShapes DEF CallShape, InFlight, TypeInv, TypeOK
    <2>2. req' \in [Request -> RequestState] /\ \A p \in Request : CallShape(p)'
      BY <1>1, <1>4, <2>1, MoveTyped, StartShapes DEF server
    <2> QED
      BY <1>0, <1>4, <2>2, QuietTyped DEF RestTyped
  <1>5. CASE Answered(q)
    BY <1>0, <1>3, <1>5 DEF Answered, RequestState
  <1>6. CASE Retry(q)
    <2>1. req[q].tab \in Tab
      BY <1>0, <1>6 DEF Retry, CallShape
    <2> QED
      BY <1>3, <1>4, <1>6, <2>1, StoredTaken DEF Retry
  <1>7. CASE Rejected(q)
    <2> DEFINE t == req[q].tab
    <2>1. t \in Tab
      BY <1>0, <1>7 DEF Rejected, CallShape
    <2>2. CASE Refreshing(t) = {} /\ StoredRefresh(t) = 0
      BY <1>4, <1>7, <2>2 DEF Rejected
    <2>3. CASE Refreshing(t) # {}
      <3> DEFINE s == [req[q] EXCEPT !.pc = "join"]
      <3>1. s \in RequestState /\ s.pc = "join" /\ s.tab = t
        BY <1>0 DEF RequestState
      <3> HIDE DEF s
      <3>2. req' = [req EXCEPT ![q] = s]
        BY <1>7, <2>3 DEF Rejected, s
      <3>3. req'[q] = s
        BY <3>2 DEF TypeInv, TypeOK
      <3>4. CallShape(q)'
        BY <2>1, <3>1, <3>3 DEF CallShape, InFlight
      <3>5. req' \in [Request -> RequestState] /\ \A p \in Request : CallShape(p)'
        BY <1>1, <1>7, <3>1, <3>2, <3>4, MoveTyped DEF Rejected, server
      <3> QED
        BY <1>0, <1>7, <3>5, QuietTyped DEF Rejected, RestTyped
    <2>4. CASE Refreshing(t) = {} /\ StoredRefresh(t) # 0
      <3> DEFINE s == [req[q] EXCEPT !.pc = "find", !.used = StoredRefresh(t)]
      <3>1. StoredRefresh(t) \in Taken /\ StoredRefresh(t) \in Tokens
        BY <2>1, <2>4, StoredTaken
      <3>2. s \in RequestState /\ s.pc = "find" /\ s.tab = t /\ s.used = StoredRefresh(t)
        BY <1>0, <3>1 DEF RequestState
      <3> HIDE DEF s
      <3>3. req' = [req EXCEPT ![q] = s]
        BY <1>7, <2>4 DEF Rejected, s
      <3>4. req'[q] = s /\ Taken' = Taken
        BY <1>7, <3>3 DEF TypeInv, TypeOK, Rejected, server, Taken
      <3>5. CallShape(q)'
        BY <2>1, <3>1, <3>2, <3>4 DEF CallShape, InFlight
      <3>6. req' \in [Request -> RequestState] /\ \A p \in Request : CallShape(p)'
        BY <1>1, <1>7, <3>2, <3>3, <3>5, MoveTyped DEF Rejected, server
      <3> QED
        BY <1>0, <1>7, <3>6, QuietTyped DEF Rejected, RestTyped
    <2> QED
      BY <2>2, <2>3, <2>4
  <1>8. ASSUME InFlight(q), NEW ok \in BOOLEAN, Resolve(q, ok),
               UNCHANGED <<server, browser, out, login, rotator, crossed, events>>,
               orphaned' \subseteq Token, lost' \in 0..MaxLost
        PROVE  Sound /\ RestTyped'
    BY <1>1, <1>8, ResolveTyped, QuietTyped DEF server
  <1>9. CASE RefreshFind(q)
    <2> DEFINE found == {s \in Token : session[s].status = "live" /\ session[s].hash = req[q].used}
    <2>1. InFlight(q)
      BY <1>9 DEF RefreshFind, InFlight
    <2>2. CASE found = {}
      BY <1>0, <1>8, <1>9, <2>1, <2>2 DEF RefreshFind, RestTyped
    <2>3. CASE found # {}
      <3>1. PICK s \in found : req' = [req EXCEPT ![q].pc = "rotate", ![q].sid = s]
        BY <1>9, <2>3 DEF RefreshFind
      <3>2. session[s] \in Session /\ s \in Token /\ session[s].hash = req[q].used
        BY StartShapes DEF TypeInv, TypeOK
      <3>3. home[req[q].used] = s /\ s \in Taken
        BY <1>0, <2>1, <3>2, TakenTokens DEF CallShape, TypeInv, Known, TokensKnown
      <3> DEFINE new == [req[q] EXCEPT !.pc = "rotate", !.sid = s]
      <3>4. /\ new \in RequestState /\ new.pc = "rotate" /\ new.sid = s
            /\ new.used = req[q].used /\ new.tab = req[q].tab
        BY <1>0, <3>3, TakenTokens DEF RequestState
      <3>5. req' = [req EXCEPT ![q] = new]
        BY <1>0, <3>1 DEF TypeInv, TypeOK, RequestState
      <3> HIDE DEF new
      <3>6. req'[q] = new /\ Taken' = Taken /\ home' = home /\ session' = session
        BY <1>9, <3>5 DEF TypeInv, TypeOK, RefreshFind, server, Taken
      <3>7. CallShape(q)'
        BY <1>0, <1>9, <2>1, <3>2, <3>3, <3>4, <3>6 DEF CallShape, InFlight, RefreshFind
      <3>8. req' \in [Request -> RequestState] /\ \A p \in Request : CallShape(p)'
        BY <1>1, <3>4, <3>5, <3>6, <3>7, <1>9, MoveTyped DEF RefreshFind, server
      <3> QED
        BY <1>0, <1>9, <3>8, QuietTyped DEF RefreshFind, RestTyped
    <2> QED
      BY <2>2, <2>3
  <1>10. CASE RefreshRotate(q)
    <2> DEFINE s == req[q].sid
               n == issued + 1
               new == [req[q] EXCEPT !.pc = "answer", !.new = n]
    <2>1. /\ n \in Token /\ issued' = n /\ s \in Taken
          /\ home' = [home EXCEPT ![n] = s]
          /\ session'[s] \in Session
          /\ ServerTyped' /\ TokensKnown' /\ ServerGrows
      BY <1>10, Rotates
    <2>2. /\ new \in RequestState /\ new.pc = "answer" /\ new.sid = s /\ new.new = n
          /\ new.used = req[q].used /\ new.tab = req[q].tab
      <3>1. n \in Tokens
        BY <2>1 DEF Token, Tokens
      <3> HIDE DEF n
      <3> QED
        BY <1>0, <3>1 DEF RequestState
    <2>3. req' = [req EXCEPT ![q] = new]
      BY <1>0, <1>10 DEF RefreshRotate, TypeInv, TypeOK, RequestState
    <2> HIDE DEF new
    <2>4. req'[q] = new
      BY <2>3 DEF TypeInv, TypeOK
    <2>5. n \in Taken' /\ home'[n] = s /\ s \in Taken'
      BY <2>1 DEF TypeInv, TypeOK, Taken, Token, ServerGrows
    <2>6. /\ req[q].pc = "rotate" /\ req[q].tab \in Tab /\ req[q].used \in Taken
          /\ s = home[req[q].used]
      BY <1>0, <1>10 DEF RefreshRotate, CallShape, InFlight
    <2>7. req[q].used \in Taken' /\ home'[req[q].used] = s
      BY <2>1, <2>6 DEF ServerGrows
    <2>8. CallShape(q)'
      BY <2>1, <2>2, <2>4, <2>5, <2>6, <2>7 DEF CallShape, InFlight
    <2>9. req' \in [Request -> RequestState] /\ \A p \in Request : CallShape(p)'
      BY <2>1, <2>2, <2>3, <2>8, MoveTyped
    <2>10. rotator' \in [Token -> Tab \cup {None}] /\ orphaned' \subseteq Token
      BY <1>0, <1>10, <2>1, <2>6, TakenTokens DEF RefreshRotate, RestTyped
    <2> QED
      BY <1>0, <1>10, <2>1, <2>9, <2>10, BrowserSame DEF RefreshRotate, Sound, RestTyped
  <1>11. CASE RefreshRefused(q)
    BY <1>0, <1>8, <1>11 DEF RefreshRefused, InFlight, RestTyped
  <1>12. CASE RefreshLost(q)
    <2>1. InFlight(q) /\ lost' \in 0..MaxLost
      BY <1>0, <1>12, SessionAssumption DEF RefreshLost, InFlight, RestTyped
    <2>2. orphaned' \subseteq Token
      BY <1>0, <1>12, TakenTokens DEF RefreshLost, RestTyped, CallShape
    <2> QED
      BY <1>8, <1>12, <2>1, <2>2 DEF RefreshLost
  <1>13. CASE RefreshStore(q)
    <2> DEFINE t == req[q].tab
               n == req[q].new
    <2>1. /\ InFlight(q) /\ t \in Tab /\ n \in Taken /\ n \in Tokens
          /\ UNCHANGED <<session, issued, home>>
      BY <1>0, <1>13, TakenTokens DEF RefreshStore, CallShape, InFlight, server
    <2>2. ServerTyped' /\ TokensKnown' /\ ServerGrows
      BY <1>1, <2>1
    <2>3. PICK ok \in BOOLEAN : Resolve(q, ok)
      BY <1>13 DEF RefreshStore
    <2>4. req' \in [Request -> RequestState] /\ \A p \in Request : CallShape(p)'
      BY <2>1, <2>2, <2>3, ResolveTyped
    <2>5. ASSUME NEW b \in Bucket
          PROVE  LET b2 == [b EXCEPT !.access = n, !.refresh = n]
                 IN  b2 \in Bucket /\ b2.access = n /\ b2.refresh = n
      BY <2>1 DEF Bucket
    <2>6. local \in Bucket /\ own[t] \in Bucket /\ own \in [Tab -> Bucket] /\ BucketsPaired /\ None # t
      BY <2>1, SessionAssumption DEF TypeInv, TypeOK, Known
    <2>7. /\ local.access = local.refresh /\ own[t].access = own[t].refresh
          /\ local.refresh # 0 => local.refresh \in Taken
          /\ own[t].refresh # 0 => own[t].refresh \in Taken
      BY <2>1, <2>6 DEF BucketsPaired, held, Place
    <2>8. BrowserTyped' /\ BucketsPaired'
      <3>1. CASE own[t].access # 0
        <4> DEFINE b == [own[t] EXCEPT !.access = n, !.refresh = n]
        <4>1. b \in Bucket /\ b.access = n /\ b.refresh = n
          BY <2>5, <2>6
        <4>2. local' = local /\ own' = [own EXCEPT ![t] = b]
          BY <1>13, <2>1, <2>6, <3>1 DEF RefreshStore, Bucket
        <4> HIDE DEF b
        <4> QED
          BY <2>1, <2>2, <2>6, <2>7, <4>1, <4>2, StoreTyped
      <3>2. CASE own[t].access = 0 /\ local.access # 0
        <4> DEFINE b == [local EXCEPT !.access = n, !.refresh = n]
        <4>1. b \in Bucket /\ b.access = n /\ b.refresh = n
          BY <2>5, <2>6
        <4>2. local' = b /\ own' = [own EXCEPT ![t] = own[t]]
          BY <1>13, <2>6, <3>2 DEF RefreshStore
        <4> HIDE DEF b
        <4> QED
          BY <2>1, <2>2, <2>6, <2>7, <4>1, <4>2, StoreTyped
      <3>3. CASE own[t].access = 0 /\ local.access = 0
        BY <1>13, <2>2, <3>3, BrowserSame DEF RefreshStore
      <3> QED
        BY <3>1, <3>2, <3>3
    <2>9. crossed' \in BOOLEAN
      BY <1>0, <1>13 DEF RefreshStore, RestTyped
    <2> QED
      BY <1>0, <1>13, <2>2, <2>4, <2>8, <2>9 DEF RefreshStore, server, Sound, RestTyped
  <1>14. CASE SyncStore(q)
    <2> DEFINE t == req[q].tab
               n == StoredToken(t)
               bucket == [access |-> n, refresh |-> StoredRefresh(t), user |-> req[q].me]
    <2>1. t \in Tab
      BY <1>0, <1>14 DEF SyncStore, CallShape
    <2>2. n = StoredRefresh(t) /\ (n # 0 => n \in Taken) /\ n \in Tokens
      BY <2>1, StoredTaken
    <2>3. bucket \in Bucket /\ bucket.access = n /\ bucket.refresh = n
      BY <1>0, <2>2 DEF Bucket, RequestState
    <2>4. ServerTyped' /\ TokensKnown' /\ ServerGrows
      BY <1>1, <1>14 DEF SyncStore, server
    <2>5. StoreAuth(t, bucket, local.access # 0)
      BY <1>14 DEF SyncStore
    <2> HIDE DEF bucket
    <2>6. BrowserTyped' /\ BucketsPaired'
      BY <2>1, <2>2, <2>3, <2>4, <2>5, StoreAuthTyped
    <2>7. CallShape(q)'
      BY <1>14, StartShapes DEF SyncStore, CallShape, InFlight, TypeInv, TypeOK
    <2>8. req' \in [Request -> RequestState] /\ \A p \in Request : CallShape(p)'
      BY <1>14, <2>4, <2>7, MoveTyped, StartShapes DEF SyncStore
    <2>9. crossed' \in BOOLEAN
      BY <1>0, <1>14 DEF SyncStore, RestTyped
    <2> QED
      BY <1>0, <1>14, <2>4, <2>6, <2>8, <2>9 DEF SyncStore, server, Sound, RestTyped
  <1> QED
    BY <1>2, <1>5, <1>6, <1>7, <1>9, <1>10, <1>11, <1>12, <1>13, <1>14 DEF CallStep

LEMMA StutterSound == TypeInv /\ UNCHANGED vars => Sound /\ RestTyped'
  BY RestNow, ServerSame, BrowserSame, CallsSame DEF vars, server, browser, Sound, RestTyped

LEMMA NextSound == TypeInv /\ [Next]_vars => Sound /\ RestTyped'
  BY StutterSound, EventTyped, TabStepTyped, CallStepTyped DEF Next

LEMMA LoginTakenNext == TypeInv /\ [Next]_vars => LoginTaken'
  <1> SUFFICES ASSUME TypeInv, [Next]_vars PROVE LoginTaken'
    OBVIOUS
  <1>1. LoginTaken /\ Taken \subseteq Taken' /\ login \in [Tab -> [pc : {"idle", "answer"}, new : Tokens]]
    BY NextSound DEF Sound, ServerGrows, TypeInv, TypeOK
  <1>2. ASSUME NEW t \in Tab, TabStep(t) PROVE LoginTaken'
    <2>1. CASE LoginRequest(t)
      <3>1. issued + 1 \in Taken'
        BY <2>1, LoginIssues DEF Taken, TypeInv, TypeOK, Tokens, Token
      <3> QED
        BY <1>1, <2>1, <3>1 DEF LoginRequest, LoginTaken
    <2>2. CASE LoginStore(t)
      BY <1>1, <2>2 DEF LoginStore, LoginTaken
    <2> QED
      BY <1>1, <1>2, <2>1, <2>2 DEF TabStep, SignOut, Logout, Clear, LoginTaken
  <1>3. CASE UNCHANGED login
    BY <1>1, <1>3 DEF LoginTaken
  <1> QED
    BY <1>2, <1>3
    DEF Next, Event, CallStep, Send, Answered, Rejected, RefreshFind, RefreshRotate,
        RefreshRefused, RefreshStore, RefreshLost, Retry, SyncStore, vars

LEMMA TypeInvariant == Spec => []TypeInv
  <1>1. TypeInv /\ [Next]_vars => TypeInv'
    BY NextSound, LoginTakenNext, Assemble
  <1> QED
    BY <1>1, InitTypeInv, PTL DEF Spec

\* TypeOK: sessions, tokens, buckets and calls are well typed in every reachable
\* state.
THEOREM TypeCorrect == Spec => []TypeOK
  BY TypeInvariant, PTL DEF TypeInv

-----------------------------------------------------------------------------
(* How the calls move                                                      *)

\* A call that is in no refresh, before and after.
Aside(q) ==
    /\ req[q].pc \in {"idle", "sent", "retry", "body"}
    /\ req'[q].pc \in {"sent", "body", "done"}

\* A call that begins to wait for the refresh of its tab.
Joins(q) ==
    /\ req[q].pc = "sent"
    /\ req'[q].pc = "join" /\ req'[q].tab = req[q].tab
    /\ Refreshing(req[q].tab) # {}

\* A call that begins a refresh, with the token its tab has stored.
Begins(q) ==
    /\ req[q].pc = "sent"
    /\ req'[q].pc = "find" /\ req'[q].tab = req[q].tab /\ req[q].tab \in Tab
    /\ req'[q].used = StoredRefresh(req[q].tab) /\ req'[q].used \in Taken
    /\ Refreshing(req[q].tab) = {}

\* A refresh that finds the session of its token.
Finds(q) ==
    /\ req[q].pc = "find"
    /\ req'[q].pc = "rotate" /\ req'[q].tab = req[q].tab /\ req'[q].used = req[q].used
    /\ req'[q].sid \in Token /\ session[req'[q].sid].hash = req[q].used

LEMMA CallMoves ==
    ASSUME TypeInv, NEW q \in Request, CallStep(q)
    PROVE  \/ /\ \A p \in Request : p # q => req'[p] = req[p]
              /\ Aside(q) \/ Joins(q) \/ Begins(q) \/ Finds(q) \/ RefreshRotate(q)
           \/ InFlight(q) /\ \E ok \in BOOLEAN : Resolve(q, ok)
  <1>0. req \in [Request -> RequestState] /\ req[q] \in RequestState /\ CallShape(q)
    BY DEF TypeInv, TypeOK, Known
  <1>1. ASSUME NEW s, req' = [req EXCEPT ![q] = s]
        PROVE  req'[q] = s /\ \A p \in Request : p # q => req'[p] = req[p]
    BY <1>0, <1>1
  <1>2. CASE Send(q)
    <2>1. PICK t \in Tab, sync \in BOOLEAN :
            req' = [req EXCEPT ![q] = [NewRequest EXCEPT !.pc = "sent", !.tab = t, !.sync = sync,
                                                         !.sent = StoredToken(t)]]
      BY <1>2 DEF Send
    <2>2. [NewRequest EXCEPT !.pc = "sent", !.tab = t, !.sync = sync, !.sent = StoredToken(t)].pc = "sent"
      BY DEF NewRequest
    <2> QED
      BY <1>1, <1>2, <2>1, <2>2 DEF Send, Aside
  <1>3. ASSUME NEW n PROVE Admitted(q, n).pc \in {"body", "done"}
    BY <1>0, StartShapes DEF Admitted, RequestState
  <1>4. CASE Answered(q)
    BY <1>1, <1>3, <1>4 DEF Answered, Aside
  <1>5. CASE Retry(q)
    BY <1>1, <1>3, <1>5, StartShapes DEF Retry, Aside
  <1>6. CASE SyncStore(q)
    BY <1>1, <1>6, StartShapes DEF SyncStore, Aside
  <1>7. CASE Rejected(q)
    <2> DEFINE t == req[q].tab
    <2>1. t \in Tab /\ req[q].pc = "sent"
      BY <1>0, <1>7 DEF Rejected, CallShape
    <2>2. CASE Refreshing(t) = {} /\ StoredRefresh(t) = 0
      BY <1>1, <1>7, <2>2, StartShapes DEF Rejected, Aside
    <2>3. CASE Refreshing(t) # {}
      <3> DEFINE s == [req[q] EXCEPT !.pc = "join"]
      <3>1. s.pc = "join" /\ s.tab = t
        BY <1>0 DEF RequestState
      <3>2. req' = [req EXCEPT ![q] = s]
        BY <1>7, <2>3 DEF Rejected
      <3> QED
        BY <1>1, <2>1, <2>3, <3>1, <3>2 DEF Joins
    <2>4. CASE Refreshing(t) = {} /\ StoredRefresh(t) # 0
      <3> DEFINE s == [req[q] EXCEPT !.pc = "find", !.used = StoredRefresh(t)]
      <3>1. StoredRefresh(t) \in Taken
        BY <2>1, <2>4, StoredTaken
      <3>2. s.pc = "find" /\ s.tab = t /\ s.used = StoredRefresh(t)
        BY <1>0 DEF RequestState
      <3>3. req' = [req EXCEPT ![q] = s]
        BY <1>7, <2>4 DEF Rejected
      <3> QED
        BY <1>1, <2>1, <2>4, <3>1, <3>2, <3>3 DEF Begins
    <2> QED
      BY <2>2, <2>3, <2>4
  <1>8. CASE RefreshFind(q)
    <2> DEFINE found == {s \in Token : session[s].status = "live" /\ session[s].hash = req[q].used}
    <2>1. CASE found = {}
      BY <1>8, <2>1 DEF RefreshFind, InFlight
    <2>2. CASE found # {}
      <3>1. PICK s \in found : req' = [req EXCEPT ![q].pc = "rotate", ![q].sid = s]
        BY <1>8, <2>2 DEF RefreshFind
      <3>2. /\ req'[q].pc = "rotate" /\ req'[q].sid = s
            /\ req'[q].tab = req[q].tab /\ req'[q].used = req[q].used
            /\ \A p \in Request : p # q => req'[p] = req[p]
        BY <1>0, <3>1 DEF RequestState
      <3> QED
        BY <1>8, <3>1, <3>2 DEF RefreshFind, Finds
    <2> QED
      BY <2>1, <2>2
  <1>9. CASE RefreshRotate(q)
    <2>1. \A p \in Request : p # q => req'[p] = req[p]
      BY <1>0, <1>9 DEF RefreshRotate
    <2> QED
      BY <1>9, <2>1
  <1>10. CASE RefreshRefused(q) \/ RefreshStore(q) \/ RefreshLost(q)
    BY <1>10 DEF RefreshRefused, RefreshStore, RefreshLost, InFlight
  <1> QED
    BY <1>2, <1>4, <1>5, <1>6, <1>7, <1>8, <1>9, <1>10 DEF CallStep

LEMMA RotateMoves ==
    ASSUME TypeInv, NEW q \in Request, RefreshRotate(q)
    PROVE  /\ req[q].pc = "rotate" /\ req'[q].pc = "answer"
           /\ req'[q].tab = req[q].tab /\ req'[q].used = req[q].used /\ req'[q].sid = req[q].sid
           /\ req'[q].new = issued + 1
           /\ \A p \in Request : p # q => req'[p] = req[p]
  BY DEF RefreshRotate, TypeInv, TypeOK, RequestState

\* When a refresh ends, all others go on as they were.
LEMMA ResolveFlights ==
    ASSUME TypeInv, NEW q \in Request, InFlight(q), NEW ok \in BOOLEAN, Resolve(q, ok), NEW p \in Request
    PROVE  /\ InFlight(p)' => p # q /\ req'[p] = req[p]
           /\ InFlight(p) /\ p # q => req'[p] = req[p]
  BY ResolveMoves, StartShapes DEF InFlight

-----------------------------------------------------------------------------
(* Waiting for a refresh                                                   *)

LEMMA WaitsInit == Init => WaitsForRefresh
  BY StartShapes DEF Init, WaitsForRefresh

LEMMA WaitsNext == TypeInv /\ WaitsForRefresh /\ [Next]_vars => WaitsForRefresh'
  <1> SUFFICES ASSUME TypeInv, WaitsForRefresh, [Next]_vars PROVE WaitsForRefresh'
    OBVIOUS
  <1> DEFINE Stays(r) == InFlight(r)' /\ req'[r].tab = req[r].tab
  <1>1. ASSUME NEW p \in Request, req'[p].pc = "join", req'[p] = req[p],
               \A r \in Refreshing(req[p].tab) : Stays(r)
        PROVE  Refreshing(req[p].tab)' # {}
    BY <1>1 DEF WaitsForRefresh, Refreshing, InFlight
  <1>2. ASSUME UNCHANGED req PROVE WaitsForRefresh'
    BY <1>2 DEF WaitsForRefresh, Refreshing
  <1>3. ASSUME NEW q \in Request, CallStep(q), NEW p \in Request, req'[p].pc = "join"
        PROVE  Refreshing(req[p].tab)' # {}
    <2>1. ASSUME \A r \in Request : r # q => req'[r] = req[r], Aside(q)
          PROVE  Refreshing(req[p].tab)' # {}
      BY <1>1, <1>3, <2>1 DEF Aside, Refreshing, InFlight
    <2>2. ASSUME \A r \in Request : r # q => req'[r] = req[r], Joins(q)
          PROVE  Refreshing(req[p].tab)' # {}
      <3>1. \A r \in Request : InFlight(r) => Stays(r)
        BY <2>2 DEF Joins, InFlight
      <3> QED
        BY <1>1, <1>3, <2>2, <3>1 DEF Joins, Refreshing, InFlight
    <2>3. ASSUME \A r \in Request : r # q => req'[r] = req[r],
                 Begins(q) \/ Finds(q) \/ RefreshRotate(q)
          PROVE  Refreshing(req[p].tab)' # {}
      <3>1. req'[q].pc \in {"find", "rotate", "answer"} /\ req'[q].tab = req[q].tab
        BY <2>3, RotateMoves DEF Begins, Finds
      <3>2. \A r \in Request : InFlight(r) => Stays(r)
        BY <2>3, <3>1 DEF InFlight
      <3> QED
        BY <1>1, <1>3, <2>3, <3>1, <3>2 DEF Refreshing, InFlight
    <2>4. ASSUME InFlight(q), NEW ok \in BOOLEAN, Resolve(q, ok)
          PROVE  Refreshing(req[p].tab)' # {}
      <3>1. req'[p] = req[p] /\ req[p].tab # req[q].tab
        BY <1>3, <2>4, ResolveMoves, StartShapes DEF InFlight
      <3>2. \A r \in Refreshing(req[p].tab) : Stays(r)
        BY <2>4, <3>1, ResolveFlights DEF Refreshing, InFlight
      <3> QED
        BY <1>1, <1>3, <3>1, <3>2
    <2> QED
      BY <1>3, <2>1, <2>2, <2>3, <2>4, CallMoves
  <1>4. CASE UNCHANGED req
    BY <1>2, <1>4
  <1> QED
    BY <1>3, <1>4 DEF Next, Event, TabStep, LoginRequest, LoginStore, SignOut, Logout, Clear, vars,
                      WaitsForRefresh

\* WaitsForRefresh: no call waits for a refresh that has ended.
THEOREM NoCallIsForgotten == Spec => []WaitsForRefresh
  BY TypeInvariant, WaitsInit, WaitsNext, PTL DEF Spec

-----------------------------------------------------------------------------
(* What no step may do                                                     *)

LEMMA RevokedStays ==
    ASSUME TypeInv, [Next]_vars, NEW s \in Token, session[s].status = "revoked"
    PROVE  session'[s].status = "revoked"
  <1>1. session \in [Token -> Session \cup {NoSession}]
    BY DEF TypeInv, TypeOK
  <1>2. ASSUME NEW t \in Tab, LoginRequest(t) PROVE session'[s].status = "revoked"
    <2>1. issued + 1 \in Token /\ issued + 1 \notin Taken
            /\ \E u \in User : session' = [session EXCEPT ![issued + 1] =
                                            [status |-> "live", user |-> u, hash |-> issued + 1]]
      BY <1>2, LoginIssues DEF Taken, TypeInv, TypeOK, Tokens
    <2>2. session[issued + 1] = NoSession
      BY <2>1 DEF TypeInv, Known, TokensKnown
    <2> QED
      BY <1>1, <2>1, <2>2, StartShapes
  <1>3. ASSUME NEW q \in Request, RefreshRotate(q) PROVE session'[s].status = "revoked"
    BY <1>1, <1>3, Rotates
  <1>4. ASSUME NEW t \in Tab, Logout(t) PROVE session'[s].status = "revoked"
    BY <1>1, <1>4 DEF Logout, Accepted
  <1>5. CASE Event
    BY <1>1, <1>5 DEF Event, Revoke, ExpireAccess, ChangeAccount
  <1> QED
    BY <1>2, <1>3, <1>4, <1>5
    DEF Next, TabStep, CallStep, LoginStore, SignOut, Clear, Send, Answered, Rejected, RefreshFind,
        RefreshRefused, RefreshStore, RefreshLost, Retry, SyncStore, vars, server

\* RevokedForGood: no sign-in, refresh or sign-out brings a revoked session back.
THEOREM RevokedIsForGood == Spec => RevokedForGood
  <1>1. TypeInv /\ [Next]_vars =>
          [\A s \in Token : session[s].status = "revoked" => session'[s].status = "revoked"]_vars
    BY RevokedStays
  <1> QED
    BY <1>1, TypeInvariant, PTL DEF Spec, RevokedForGood

LEMMA StoresKeepSignedOut ==
    ASSUME TypeInv, [Next]_vars, NEW t \in Tab, StoredToken(t) = 0, StoredToken(t)' # 0
    PROVE  \E u \in Tab : LoginStore(u)
  <1> SUFFICES ASSUME \A u \in Tab : ~LoginStore(u) PROVE FALSE
    OBVIOUS
  <1>1. own \in [Tab -> Bucket] /\ own[t].access = 0 /\ local.access = 0
    BY DEF StoredToken, TypeInv, TypeOK
  <1>2. ASSUME UNCHANGED browser PROVE FALSE
    BY <1>2 DEF StoredToken, browser
  <1>3. ASSUME NEW u \in Tab, Clear(u) PROVE FALSE
    BY <1>1, <1>3, StartShapes DEF Clear, StoredToken
  <1>4. ASSUME NEW q \in Request, RefreshStore(q) PROVE FALSE
    <2>1. req[q].tab \in Tab
      BY <1>4 DEF RefreshStore, CallShape, TypeInv, Known
    <2>2. own[req[q].tab].access # 0
      BY <1>1, <1>2, <1>4 DEF RefreshStore
    <2>3. local' = local /\ own'[t] = own[t]
      BY <1>1, <1>4, <2>1, <2>2 DEF RefreshStore
    <2> QED
      BY <2>3 DEF StoredToken
  <1>5. ASSUME NEW q \in Request, SyncStore(q) PROVE FALSE
    <2> DEFINE u == req[q].tab
               bucket == [access |-> StoredToken(u), refresh |-> StoredRefresh(u), user |-> req[q].me]
    <2>1. local' = Empty /\ own' = [own EXCEPT ![u] = bucket]
      BY <1>1, <1>5 DEF SyncStore, StoreAuth
    <2>2. u = t => bucket.access = 0
      OBVIOUS
    <2> HIDE DEF bucket
    <2>3. own'[t].access = 0
      BY <1>1, <2>1, <2>2
    <2> QED
      BY <2>1, <2>3, StartShapes DEF StoredToken
  <1> QED
    BY <1>2, <1>3, <1>4, <1>5
    DEF Next, Event, TabStep, CallStep, LoginRequest, SignOut, Logout, Send, Answered, Rejected,
        RefreshFind, RefreshRotate, RefreshRefused, RefreshLost, Retry, vars, browser

\* OnlySignInSignsIn: no late answer puts a token into a tab that has none.
THEOREM SignedOutStaysOut == Spec => OnlySignInSignsIn
  <1>1. TypeInv /\ [Next]_vars =>
          [\A t \in Tab : StoredToken(t) = 0 /\ StoredToken(t)' # 0 => \E u \in Tab : LoginStore(u)]_vars
    BY StoresKeepSignedOut
  <1> QED
    BY <1>1, TypeInvariant, PTL DEF Spec, OnlySignInSignsIn

-----------------------------------------------------------------------------
(* One sign-in in what a tab reads                                         *)

LEMMA OwnerKept == ASSUME TypeInv, ServerGrows, NEW n \in Taken PROVE Owner(n)' = Owner(n)
  <1>1. home[n] \in Token /\ session[home[n]] \in Session
    BY TakenTokens DEF TypeInv, Known, TokensKnown
  <1> QED
    BY <1>1 DEF Owner, ServerGrows

LEMMA HeldTaken ==
    ASSUME TypeInv
    PROVE  /\ local.access # 0 => local.access \in Taken
           /\ \A t \in Tab : own[t].access # 0 => own[t].access \in Taken
  BY SessionAssumption DEF TypeInv, Known, BucketsPaired, Place, held

LEMMA UsersInit == Init => UsersApart
  BY StartShapes DEF Init, UsersApart, OwnUser

LEMMA UsersNext == TypeInv /\ UsersApart /\ [Next]_vars => UsersApart'
  <1> SUFFICES ASSUME TypeInv, UsersApart, [Next]_vars, ~crossed'
               PROVE  OwnUser(local)' /\ \A t \in Tab : OwnUser(own[t])'
    BY DEF UsersApart
  <1>1. ServerGrows
    BY NextSound DEF Sound
  <1>2. ~crossed /\ own \in [Tab -> Bucket] /\ local \in Bucket
    <2>1. crossed \in BOOLEAN /\ own \in [Tab -> Bucket] /\ local \in Bucket
      BY DEF TypeInv, TypeOK
    <2>2. crossed => crossed'
      BY DEF Next, Event, TabStep, CallStep, LoginRequest, LoginStore, SignOut, Logout, Clear,
             Send, Answered, Rejected, RefreshFind, RefreshRotate, RefreshRefused, RefreshStore,
             RefreshLost, Retry, SyncStore, vars
    <2> QED
      BY <2>1, <2>2
  <1>3. OwnUser(local) /\ \A t \in Tab : OwnUser(own[t])
    BY <1>2 DEF UsersApart
  \* A bucket that stays is still of its own user.
  <1>4. ASSUME local' = local PROVE OwnUser(local)'
    BY <1>1, <1>3, <1>4, HeldTaken, OwnerKept DEF OwnUser
  <1>5. ASSUME NEW t \in Tab, own'[t] = own[t] PROVE OwnUser(own[t])'
    BY <1>1, <1>3, <1>5, HeldTaken, OwnerKept DEF OwnUser
  <1>6. CASE UNCHANGED browser
    BY <1>4, <1>5, <1>6 DEF browser
  <1>7. ASSUME NEW t \in Tab, NEW bucket, NEW remember \in BOOLEAN, StoreAuth(t, bucket, remember),
               bucket.access \in Taken, bucket.user = Owner(bucket.access)
        PROVE  OwnUser(local)' /\ \A u \in Tab : OwnUser(own[u])'
    <2>1. bucket.access # 0 /\ Owner(bucket.access)' = bucket.user
      BY <1>1, <1>7, OwnerKept DEF Taken
    <2>2. local' \in {bucket, Empty} /\ own'[t] \in {bucket, Empty}
            /\ \A u \in Tab : u # t => own'[u] = own[u]
      BY <1>2, <1>7 DEF StoreAuth
    <2> QED
      BY <1>5, <2>1, <2>2, StartShapes DEF OwnUser, Owner
  <1>8. ASSUME NEW t \in Tab, LoginStore(t) PROVE OwnUser(local)' /\ \A u \in Tab : OwnUser(own[u])'
    BY <1>7, <1>8 DEF LoginStore, TypeInv, LoginTaken
  <1>9. ASSUME NEW t \in Tab, Clear(t) PROVE OwnUser(local)' /\ \A u \in Tab : OwnUser(own[u])'
    <2>1. local' = Empty /\ own'[t] = Empty /\ \A u \in Tab : u # t => own'[u] = own[u]
      BY <1>2, <1>9 DEF Clear
    <2> QED
      BY <1>5, <2>1, StartShapes DEF OwnUser, Owner
  <1>10. ASSUME NEW q \in Request, SyncStore(q)
         PROVE  OwnUser(local)' /\ \A u \in Tab : OwnUser(own[u])'
    <2> DEFINE t == req[q].tab
               n == StoredToken(t)
    <2>1. t \in Tab
      BY <1>10 DEF SyncStore, CallShape, TypeInv, Known
    <2>2. n # 0 /\ Owner(n) = req[q].me
      BY <1>10 DEF SyncStore
    <2>3. n \in Taken
      BY <2>1, <2>2, StoredTaken
    <2> DEFINE bucket == [access |-> n, refresh |-> StoredRefresh(t), user |-> req[q].me]
    <2>4. StoreAuth(t, bucket, local.access # 0) /\ (local.access # 0) \in BOOLEAN
      BY <1>10 DEF SyncStore
    <2>5. bucket.access \in Taken /\ bucket.user = Owner(bucket.access)
      BY <2>2, <2>3
    <2> HIDE DEF bucket
    <2> QED
      BY <1>7, <2>1, <2>4, <2>5
  <1>11. ASSUME NEW q \in Request, RefreshStore(q), NEW t, t = req[q].tab, NEW n, n = req[q].new
         PROVE  OwnUser(local)' /\ \A u \in Tab : OwnUser(own[u])'
    <2>1. t \in Tab /\ n \in Taken /\ n # 0
      BY <1>11 DEF RefreshStore, CallShape, TypeInv, Known, Taken
    <2>2. Owner(n)' = Owner(n)
      BY <1>1, <2>1, OwnerKept
    <2>3. CASE own[t].access # 0
      <3>1. local' = local /\ own' = [own EXCEPT ![t].access = n, ![t].refresh = n]
               /\ home[own[t].access] = home[n]
        BY <1>11, <2>3 DEF RefreshStore
      <3>2. own'[t].access = n /\ own'[t].user = own[t].user /\ \A u \in Tab : u # t => own'[u] = own[u]
        BY <1>2, <2>1, <3>1 DEF Bucket
      <3>3. own[t].user = Owner(n)
        BY <1>3, <2>1, <2>3, <3>1 DEF OwnUser, Owner
      <3>4. OwnUser(own[t])'
        BY <2>1, <2>2, <3>2, <3>3 DEF OwnUser
      <3> QED
        BY <1>4, <1>5, <3>1, <3>2, <3>4
    <2>4. CASE own[t].access = 0 /\ local.access # 0
      <3>1. own' = own /\ local' = [local EXCEPT !.access = n, !.refresh = n]
               /\ home[local.access] = home[n]
        BY <1>11, <2>4 DEF RefreshStore
      <3>2. local'.access = n /\ local'.user = local.user
        BY <1>2, <3>1 DEF Bucket
      <3>3. local.user = Owner(n)
        BY <1>3, <2>4, <3>1 DEF OwnUser, Owner
      <3>4. OwnUser(local)'
        BY <2>1, <2>2, <3>2, <3>3 DEF OwnUser
      <3> QED
        BY <1>5, <3>1, <3>4
    <2>5. CASE own[t].access = 0 /\ local.access = 0
      BY <1>6, <1>11, <2>5 DEF RefreshStore
    <2> QED
      BY <2>3, <2>4, <2>5
  <1> QED
    BY <1>6, <1>8, <1>9, <1>10, <1>11
    DEF Next, Event, TabStep, CallStep, LoginRequest, SignOut, Logout, Send, Answered, Rejected,
        RefreshFind, RefreshRotate, RefreshRefused, RefreshLost, Retry, vars, browser

\* StoredFromOneSignIn: the tokens and the profile a tab reads come from one
\* sign-in, unless a store mixed two.
THEOREM TabReadsOneSignIn == Spec => []StoredFromOneSignIn
  <1>1. TypeInv /\ UsersApart => StoredFromOneSignIn
    <2> SUFFICES ASSUME TypeInv, UsersApart, ~crossed, NEW t \in Tab
                 PROVE  IF StoredToken(t) = 0
                        THEN StoredRefresh(t) = 0 /\ StoredUser(t) = None
                        ELSE /\ StoredRefresh(t) # 0
                             /\ home[StoredToken(t)] = home[StoredRefresh(t)]
                             /\ Owner(StoredToken(t)) = StoredUser(t)
      BY DEF StoredFromOneSignIn
    <2>1. StoredToken(t) = StoredRefresh(t) /\ OwnUser(local) /\ OwnUser(own[t])
      BY StoredTaken DEF UsersApart
    <2>2. own[t].access # 0 => Owner(own[t].access) # None
      BY HeldTaken, OwnerKnown, SessionAssumption
    <2> QED
      BY <2>1, <2>2 DEF OwnUser, StoredToken, StoredUser
  <1> QED
    BY <1>1, TypeInvariant, UsersInit, UsersNext, PTL DEF Spec

-----------------------------------------------------------------------------
(* The rotation of refresh tokens                                          *)

\* What is known of the tokens that are held and used.
LEMMA HeldKnown ==
    ASSUME TypeInv, NEW p \in Place, held[p] # 0
    PROVE  held[p] \in Taken /\ home[held[p]] \in Taken
  <1>1. held[p] \in Taken
    BY DEF TypeInv, Known, BucketsPaired
  <1> QED
    BY <1>1, OwnerKnown

LEMMA FlightKnown ==
    ASSUME TypeInv, NEW q \in Request, InFlight(q)
    PROVE  /\ req[q].tab \in Tab /\ req[q].used \in Taken /\ home[req[q].used] \in Taken
           /\ req[q].pc \in {"rotate", "answer"} => req[q].sid = home[req[q].used]
           /\ req[q].pc = "answer" => req[q].new \in Taken /\ home[req[q].new] = req[q].sid
  <1>1. CallShape(q) /\ req[q].pc \notin {"idle", "done"}
    BY DEF TypeInv, Known, InFlight
  <1>2. home[req[q].used] \in Taken
    BY <1>1, OwnerKnown DEF CallShape
  <1> QED
    BY <1>1, <1>2 DEF CallShape

LEMMA SmallTokens == ASSUME TypeInv PROVE Taken \subseteq Token /\ 0 \notin Taken
  BY TakenTokens DEF Taken

\* The server as the browser can tell: what was issued keeps its session, and
\* each session the token it takes.
ServerKept ==
    /\ Taken \subseteq Taken'
    /\ \A n \in Taken : home'[n] = home[n] /\ hash'[n] = hash[n]
    /\ rotator' = rotator

\* A step after which tokens are held and used where they were, or nowhere.
Shrinks ==
    /\ ServerKept
    /\ orphaned \subseteq orphaned'
    /\ \A p \in Place : held'[p] = held[p] \/ held'[p] = 0
    /\ \A q \in Request :
         /\ InFlight(q)' => req'[q] = req[q]
         /\ req[q].pc = "answer" /\ req[q].sid \notin orphaned' => req'[q] = req[q]

LEMMA ShrinkFlights == ASSUME TypeInv, Flights, Shrinks PROVE Flights'
  <1> USE DEF Shrinks, ServerKept
  <1>1. OneFlight'
    BY DEF Flights, OneFlight, InFlight
  <1>2. OneBucket'
    <2> SUFFICES ASSUME NEW p \in Place, NEW q \in Place, p # q, held'[p] # 0, held'[q] # 0,
                        home'[held'[p]] \notin orphaned'
                 PROVE  home'[held'[p]] # home'[held'[q]]
      BY DEF OneBucket
    <2>1. home'[held'[p]] = home[held[p]] /\ home'[held'[q]] = home[held[q]]
      BY HeldKnown
    <2> QED
      BY <2>1 DEF Flights, OneBucket
  <1>3. ASSUME NEW q \in Request PROVE RenewsInPlace(q)'
    <2> SUFFICES ASSUME NEW s \in Token, Renews(q, s)'
                 PROVE  /\ \A u \in Tab \ {req'[q].tab} : held'[u] # 0 => home'[held'[u]] # s
                        /\ held'[None] # 0 /\ home'[held'[None]] = s => held'[req'[q].tab] = 0
      BY DEF RenewsInPlace
    <2>1. InFlight(q) /\ req'[q] = req[q]
      BY DEF Renews, InFlight
    <2>2. Renews(q, s)
      BY <2>1, FlightKnown DEF Renews
    <2>3. /\ \A u \in Tab \ {req[q].tab} : held[u] # 0 => home[held[u]] # s
          /\ held[None] # 0 /\ home[held[None]] = s => held[req[q].tab] = 0
      BY <2>2 DEF Flights, RenewsInPlace
    <2>4. \A p \in Place : held'[p] # 0 => held'[p] = held[p] /\ home'[held'[p]] = home[held[p]]
      BY HeldKnown
    <2> QED
      BY <2>1, <2>3, <2>4, FlightKnown DEF Place
  <1>4. ASSUME NEW q \in Request PROVE AnswerNew(q)'
    <2> SUFFICES ASSUME req'[q].pc = "answer", req'[q].sid \notin orphaned'
                 PROVE  /\ hash'[req'[q].sid] = req'[q].new
                        /\ rotator'[req'[q].sid] = req'[q].tab
                        /\ \A p \in Request : InFlight(p)' => req'[p].used # req'[q].new
                        /\ \A p \in Place : held'[p] # req'[q].new
      BY DEF AnswerNew
    <2>1. InFlight(q) /\ req'[q] = req[q]
      BY DEF InFlight
    <2>2. /\ hash[req[q].sid] = req[q].new /\ rotator[req[q].sid] = req[q].tab
          /\ \A p \in Request : InFlight(p) => req[p].used # req[q].new
          /\ \A p \in Place : held[p] # req[q].new
      BY <2>1 DEF Flights, AnswerNew
    <2>3. req[q].new # 0 /\ req[q].sid \in Taken
      BY <2>1, FlightKnown, SmallTokens
    <2> QED
      BY <2>1, <2>2, <2>3 DEF InFlight
  <1>5. ASSUME NEW q \in Request PROVE OvertakenByOther(q)'
    BY FlightKnown DEF Flights, OvertakenByOther, InFlight
  <1>6. HeldCurrent'
    <2> SUFFICES ASSUME NEW p \in Place, held'[p] # 0, home'[held'[p]] \notin orphaned',
                        ~Pending(home[held[p]])'
                 PROVE  hash'[home'[held'[p]]] = held'[p]
      BY DEF HeldCurrent
    <2>1. held'[p] = held[p] /\ home'[held'[p]] = home[held[p]] /\ home[held[p]] \in Taken
      BY HeldKnown
    <2>2. ~Pending(home[held[p]])
      BY <2>1 DEF Pending
    <2> QED
      BY <2>1, <2>2 DEF Flights, HeldCurrent
  <1> QED
    BY <1>1, <1>2, <1>3, <1>4, <1>5, <1>6 DEF Flights

\* A sign-in that is on its way stays nobody's.
LEMMA ShrinkLogin ==
    ASSUME TypeInv, Rotation, Shrinks, NEW t \in Tab,
           \A u \in Tab : login'[u].pc = "answer" => login'[u] = login[u]
    PROVE  LoginFresh(t)'
  <1> USE DEF Shrinks, ServerKept
  <1> SUFFICES ASSUME login'[t].pc = "answer"
               PROVE  LET n == login'[t].new
                      IN  /\ n \in Taken' /\ home'[n] = n /\ hash'[n] = n
                          /\ \A p \in Place : held'[p] # 0 => home'[held'[p]] # n
                          /\ \A q \in Request : InFlight(q)' => home'[req'[q].used] # n
                          /\ \A u \in Tab \ {t} : login'[u].pc = "answer" => login'[u].new # n
    BY DEF LoginFresh
  <1> DEFINE n == login[t].new
  <1>1. login'[t] = login[t]
    OBVIOUS
  <1>2. /\ n \in Taken /\ home[n] = n /\ hash[n] = n
        /\ \A p \in Place : held[p] # 0 => home[held[p]] # n
        /\ \A q \in Request : InFlight(q) => home[req[q].used] # n
        /\ \A u \in Tab \ {t} : login[u].pc = "answer" => login[u].new # n
    BY <1>1 DEF Rotation, LoginFresh
  <1>3. \A p \in Place : held'[p] # 0 => home'[held'[p]] # n
    BY <1>2, HeldKnown
  <1>4. \A q \in Request : InFlight(q)' => home'[req'[q].used] # n
    BY <1>2, FlightKnown DEF InFlight
  <1> QED
    BY <1>1, <1>2, <1>3, <1>4

LEMMA ServerStays ==
    ASSUME TypeInv, UNCHANGED <<session, issued, home, rotator>>
    PROVE  ServerKept /\ hash' = hash /\ Taken' = Taken
  BY DEF ServerKept, hash, Taken

\* What is held where, told by the buckets.
LEMMA HeldTells ==
    /\ held[None] = local.refresh /\ None \in Place /\ None \notin Tab
    /\ \A t \in Tab : held[t] = own[t].refresh /\ t \in Place
    /\ held'[None] = local'.refresh
    /\ \A t \in Tab : held'[t] = own'[t].refresh
  BY SessionAssumption DEF held, Place

LEMMA HeldSame == UNCHANGED browser => held' = held
  BY DEF held, browser

\* A store fills one of the two buckets of a tab and clears the other.
LEMMA StoreHeld ==
    ASSUME TypeInv, NEW t \in Tab, NEW bucket, NEW remember \in BOOLEAN, StoreAuth(t, bucket, remember)
    PROVE  /\ held'[None] = IF remember THEN bucket.refresh ELSE 0
           /\ held'[t] = IF remember THEN 0 ELSE bucket.refresh
           /\ \A p \in Place \ {None, t} : held'[p] = held[p]
  <1>1. own \in [Tab -> Bucket]
    BY DEF TypeInv, TypeOK
  <1>2. ASSUME NEW p \in Place \ {None, t} PROVE held'[p] = held[p]
    <2>1. p \in Tab /\ own'[p] = own[p]
      BY <1>1 DEF StoreAuth, Place
    <2> QED
      BY <2>1, HeldTells
  <1>3. own'[t] = IF remember THEN Empty ELSE bucket
    BY <1>1 DEF StoreAuth
  <1> QED
    BY <1>2, <1>3, HeldTells, StartShapes DEF StoreAuth

\* A sign-in is stored: its session is in one bucket and in no refresh.
LEMMA LoginStoreRotation ==
    ASSUME TypeInv, Rotation, NEW t \in Tab, LoginStore(t) PROVE Rotation'
  <1> DEFINE n0 == login[t].new
  <1>1. PICK n : n = n0
    OBVIOUS
  <1> HIDE DEF n0
  <1>2. /\ n \in Taken /\ home[n] = n /\ hash[n] = n
        /\ \A p \in Place : held[p] # 0 => home[held[p]] # n
        /\ \A q \in Request : InFlight(q) => home[req[q].used] # n
        /\ \A u \in Tab \ {t} : login[u].pc = "answer" => login[u].new # n
    BY <1>1 DEF Rotation, LoginFresh, LoginStore, n0
  <1>3. PICK remember \in BOOLEAN : StoreAuth(t, [access |-> n, refresh |-> n, user |-> Owner(n)], remember)
    BY <1>1 DEF LoginStore, n0
  <1>4. \A p \in Place : held'[p] \in {held[p], 0, n}
    BY <1>3, StoreHeld
  <1>5. \A p, q \in Place : held'[p] = n /\ held'[q] = n => p = q
    <2>1. n # 0 /\ \A p \in Place : held[p] # n
      BY <1>2, SmallTokens
    <2>2. \A p \in Place : held'[p] = n => p = IF remember THEN None ELSE t
      BY <1>3, <2>1, StoreHeld
    <2> QED
      BY <2>2
  <1>6. /\ Taken' = Taken /\ hash' = hash /\ UNCHANGED <<home, req, rotator, orphaned>>
        /\ login' = [login EXCEPT ![t] = [pc |-> "idle", new |-> 0]]
    BY ServerStays DEF LoginStore, server
  <1>7. n # 0 /\ n \in Token
    BY <1>2, SmallTokens
  <1>8. \A u \in Tab : LoginFresh(u)'
    <2> SUFFICES ASSUME NEW u \in Tab PROVE LoginFresh(u)'
      OBVIOUS
    <2>1. login'[t].pc = "idle" /\ \A v \in Tab : v # t => login'[v] = login[v]
      BY <1>6 DEF TypeInv, TypeOK
    <2>2. LoginFresh(u)
      BY DEF Rotation
    <2> QED
      BY <1>2, <1>4, <1>6, <2>1, <2>2 DEF LoginFresh, InFlight
  <1>9. OneFlight'
    BY <1>6 DEF Rotation, Flights, OneFlight, InFlight
  <1>10. OneBucket'
    BY <1>2, <1>4, <1>5, <1>6 DEF Rotation, Flights, OneBucket
  <1>11. ASSUME NEW q \in Request PROVE RenewsInPlace(q)'
    <2> SUFFICES ASSUME NEW s \in Token, Renews(q, s)'
                 PROVE  /\ \A u \in Tab \ {req[q].tab} : held'[u] # 0 => home[held'[u]] # s
                        /\ held'[None] # 0 => home[held'[None]] # s
      BY <1>6 DEF RenewsInPlace
    <2>1. Renews(q, s) /\ s # n
      BY <1>2, <1>6 DEF Renews, InFlight
    <2>2. \A u \in Tab \ {req[q].tab} : held[u] # 0 => home[held[u]] # s
      BY <2>1 DEF Rotation, Flights, RenewsInPlace
    <2>3. held'[None] \in {0, n}
      BY <1>3, StoreHeld
    <2> QED
      BY <1>2, <1>4, <2>1, <2>2, <2>3, HeldTells
  <1>12. ASSUME NEW q \in Request PROVE AnswerNew(q)'
    <2>1. AnswerNew(q)
      BY DEF Rotation, Flights
    <2>2. req[q].pc = "answer" => req[q].new # 0 /\ req[q].new # n
      BY <1>2, FlightKnown, SmallTokens DEF InFlight
    <2> QED
      BY <1>4, <1>6, <2>1, <2>2 DEF AnswerNew, InFlight
  <1>13. ASSUME NEW q \in Request PROVE OvertakenByOther(q)'
    BY <1>6 DEF Rotation, Flights, OvertakenByOther
  <1>14. HeldCurrent'
    <2>1. \A s : Pending(s)' = Pending(s)
      BY <1>6 DEF Pending
    <2> QED
      BY <1>2, <1>4, <1>6, <2>1 DEF Rotation, Flights, HeldCurrent, Pending
  <1> QED
    BY <1>8, <1>9, <1>10, <1>11, <1>12, <1>13, <1>14 DEF Rotation, Flights

\* A sign-in opens a session that nothing in the browser refers to.
LEMMA LoginRequestRotation ==
    ASSUME TypeInv, Rotation, NEW t \in Tab, LoginRequest(t) PROVE Rotation'
  <1> DEFINE n == issued + 1
  <1>1. /\ n \in Token /\ n \notin Taken /\ n \in Taken' /\ Taken \subseteq Taken'
    BY LoginIssues DEF Taken, TypeInv, TypeOK, Tokens, Token
  <1>2. home'[n] = n /\ \A m \in Taken : home'[m] = home[m]
    BY <1>1, LoginIssues DEF TypeInv, TypeOK, ServerGrows
  <1>3. hash'[n] = n /\ \A m \in Taken : hash'[m] = hash[m]
    <2>1. PICK u \in User : session' = [session EXCEPT ![n] = [status |-> "live", user |-> u, hash |-> n]]
      BY LoginIssues
    <2>2. session'[n].hash = n /\ \A m \in Taken : session'[m] = session[m]
      BY <1>1, <2>1, SmallTokens DEF TypeInv, TypeOK
    <2> QED
      BY <1>1, <2>2, SmallTokens DEF hash
  <1>4. /\ UNCHANGED <<req, rotator, orphaned>> /\ held' = held
        /\ login' = [login EXCEPT ![t] = [pc |-> "answer", new |-> n]]
    BY HeldSame DEF LoginRequest
  <1>5. Shrinks
    BY <1>1, <1>2, <1>3, <1>4 DEF Shrinks, ServerKept
  <1>6. login'[t] = [pc |-> "answer", new |-> n] /\ \A v \in Tab : v # t => login'[v] = login[v]
    BY <1>4 DEF TypeInv, TypeOK
  <1> HIDE DEF n
  <1>7. LoginFresh(t)'
    <2>1. \A p \in Place : held'[p] # 0 => home'[held'[p]] # n
      BY <1>1, <1>2, <1>4, HeldKnown
    <2>2. \A q \in Request : InFlight(q)' => home'[req'[q].used] # n
      BY <1>1, <1>2, <1>4, FlightKnown DEF InFlight
    <2>3. \A u \in Tab \ {t} : login'[u].pc = "answer" => login'[u].new # n
      BY <1>1, <1>6 DEF TypeInv, LoginTaken
    <2> QED
      BY <1>1, <1>2, <1>3, <1>6, <2>1, <2>2, <2>3 DEF LoginFresh
  <1>8. ASSUME NEW u \in Tab, u # t PROVE LoginFresh(u)'
    <2>1. LoginFresh(u)
      BY DEF Rotation
    <2>2. \A p \in Place : held'[p] # 0 => home'[held'[p]] = home[held[p]]
      BY <1>2, <1>4, HeldKnown
    <2>3. \A q \in Request : InFlight(q)' => InFlight(q) /\ home'[req'[q].used] = home[req[q].used]
      BY <1>2, <1>4, FlightKnown DEF InFlight
    <2>4. \A v \in Tab : login'[v].new = IF v = t THEN n ELSE login[v].new
      BY <1>6
    <2>5. login[u].pc = "answer" => login[u].new \in Taken
      BY DEF TypeInv, LoginTaken
    <2> QED
      BY <1>1, <1>2, <1>3, <1>4, <1>6, <1>8, <2>1, <2>2, <2>3, <2>4, <2>5 DEF LoginFresh
  <1> QED
    BY <1>5, <1>7, <1>8, ShrinkFlights DEF Rotation

\* Nothing changes but what the calls do.
Quiet == ServerKept /\ hash' = hash /\ Taken' = Taken /\ UNCHANGED <<home, rotator, orphaned, login>>

\* The tokens of tab t move from its own bucket to the shared one.
LEMMA MoveRotation ==
    ASSUME TypeInv, Rotation, Quiet, NEW t \in Tab,
           held[t] # 0, held'[None] = held[t], held'[t] = 0,
           \A p \in Place \ {None, t} : held'[p] = held[p],
           \A q \in Request : InFlight(q) \/ InFlight(q)' => req'[q] = req[q]
    PROVE  Rotation'
  <1> USE DEF Quiet
  <1>1. \A q \in Request : (InFlight(q)' <=> InFlight(q)) /\ (InFlight(q) => req'[q] = req[q])
    BY DEF InFlight
  <1>2. \A p \in Place : held'[p] \in {0, held[p], held[t]} /\ None \in Place /\ t \in Place /\ t # None
    BY HeldTells
  <1>3. ASSUME NEW u \in Tab PROVE LoginFresh(u)'
    BY <1>1, <1>2 DEF Rotation, LoginFresh
  <1>4. OneFlight'
    BY <1>1 DEF Rotation, Flights, OneFlight
  <1>5. OneBucket'
    <2> SUFFICES ASSUME NEW p \in Place, NEW q \in Place, p # q, held'[p] # 0, held'[q] # 0,
                        home[held'[p]] \notin orphaned
                 PROVE  home[held'[p]] # home[held'[q]]
      BY DEF OneBucket
    <2> DEFINE from(x) == IF x = None THEN t ELSE x
    <2>1. held'[p] = held[from(p)] /\ held'[q] = held[from(q)] /\ p # t /\ q # t
      OBVIOUS
    <2>2. from(p) # from(q) /\ from(p) \in Place /\ from(q) \in Place
      BY <1>2, <2>1
    <2> QED
      BY <2>1, <2>2 DEF Rotation, Flights, OneBucket
  <1>6. ASSUME NEW q \in Request PROVE RenewsInPlace(q)'
    <2> SUFFICES ASSUME NEW s \in Token, Renews(q, s)'
                 PROVE  /\ \A u \in Tab \ {req'[q].tab} : held'[u] # 0 => home[held'[u]] # s
                        /\ held'[None] # 0 /\ home[held'[None]] = s => held'[req'[q].tab] = 0
      BY DEF RenewsInPlace
    <2>1. Renews(q, s) /\ req'[q] = req[q]
      BY <1>1 DEF Renews
    <2>2. \A u \in Tab \ {req[q].tab} : held[u] # 0 => home[held[u]] # s
      BY <2>1 DEF Rotation, Flights, RenewsInPlace
    <2>3. \A u \in Tab : held'[u] # 0 => u # t /\ held'[u] = held[u]
      BY HeldTells
    <2> QED
      BY <2>1, <2>2, <2>3
  <1>7. ASSUME NEW q \in Request PROVE AnswerNew(q)'
    <2> SUFFICES ASSUME req'[q].pc = "answer", req'[q].sid \notin orphaned
                 PROVE  /\ hash[req'[q].sid] = req'[q].new
                        /\ rotator[req'[q].sid] = req'[q].tab
                        /\ \A p \in Request : InFlight(p)' => req'[p].used # req'[q].new
                        /\ \A p \in Place : held'[p] # req'[q].new
      BY DEF AnswerNew
    <2>1. req'[q] = req[q] /\ InFlight(q)
      BY <1>1 DEF InFlight
    <2>2. AnswerNew(q) /\ req[q].new # 0
      BY <2>1, FlightKnown, SmallTokens DEF Rotation, Flights
    <2> QED
      BY <1>1, <1>2, <2>1, <2>2 DEF AnswerNew
  <1>8. ASSUME NEW q \in Request PROVE OvertakenByOther(q)'
    BY <1>1 DEF Rotation, Flights, OvertakenByOther, InFlight
  <1>9. HeldCurrent'
    <2>1. \A s : Pending(s)' = Pending(s)
      BY <1>1 DEF Pending, InFlight
    <2>2. ASSUME NEW p \in Place, held[p] # 0, home[held[p]] \notin orphaned, ~Pending(home[held[p]])
          PROVE  hash[home[held[p]]] = held[p]
      BY <2>2 DEF Rotation, Flights, HeldCurrent
    <2>3. ASSUME NEW p \in Place, held'[p] # 0, home[held'[p]] \notin orphaned, ~Pending(home[held[p]])'
          PROVE  hash[home[held'[p]]] = held'[p]
      <3>1. PICK p0 \in {p, t} : held'[p] = held[p0]
        BY <1>2, <2>3
      <3>2. ~Pending(home'[held'[p]])
        BY <2>1, <2>3 DEF Pending
      <3> QED
        BY <1>2, <2>2, <2>3, <3>1, <3>2
    <2> QED
      BY <2>3 DEF HeldCurrent
  <1> QED
    BY <1>3, <1>4, <1>5, <1>6, <1>7, <1>8, <1>9 DEF Rotation, Flights

LEMMA SyncRotation ==
    ASSUME TypeInv, Rotation, NEW q \in Request, SyncStore(q) PROVE Rotation'
  <1>1. PICK t : t = req[q].tab
    OBVIOUS
  <1>2. t \in Tab /\ req[q].pc = "body"
    BY <1>1 DEF SyncStore, CallShape, TypeInv, Known
  <1>3. Quiet
    BY ServerStays DEF SyncStore, server, Quiet
  <1>4. /\ \A p \in Request : p # q => req'[p] = req[p]
        /\ req'[q].pc = "done"
    BY StartShapes DEF SyncStore, TypeInv, TypeOK
  <1>5. \A p \in Request : InFlight(p) \/ InFlight(p)' => req'[p] = req[p]
    BY <1>2, <1>4 DEF InFlight
  <1> DEFINE bucket == [access |-> StoredToken(t), refresh |-> StoredRefresh(t), user |-> req[q].me]
  <1>6. StoreAuth(t, bucket, local.access # 0) /\ bucket.refresh = StoredRefresh(t)
    BY <1>1 DEF SyncStore
  <1> HIDE DEF bucket
  <1>7. PICK r : r = StoredRefresh(t)
    OBVIOUS
  <1>8. PICK remember \in BOOLEAN : remember <=> local.access # 0
    OBVIOUS
  <1>9. /\ held'[None] = IF remember THEN r ELSE 0
        /\ held'[t] = IF remember THEN 0 ELSE r
        /\ \A p \in Place \ {None, t} : held'[p] = held[p]
    BY <1>2, <1>6, <1>7, <1>8, StoreHeld
  <1>10. /\ r = IF held[t] # 0 THEN held[t] ELSE held[None]
         /\ remember <=> held[None] # 0
    BY <1>2, <1>7, <1>8, HeldTells DEF StoredRefresh, TypeInv, Known, BucketsPaired
  <1>11. CASE held[t] # 0 /\ held[None] # 0
    BY <1>2, <1>3, <1>5, <1>9, <1>10, <1>11, MoveRotation
  <1>12. CASE held[t] = 0 \/ held[None] = 0
    <2>1. \A p \in Place : held'[p] = held[p] \/ held'[p] = 0
      BY <1>9, <1>10, <1>12
    <2>2. Shrinks
      BY <1>3, <1>5, <2>1 DEF Shrinks, Quiet, InFlight
    <2> QED
      BY <1>3, <2>2, ShrinkFlights, ShrinkLogin DEF Quiet, Rotation
  <1> QED
    BY <1>11, <1>12

\* A refresh begins: its token is where its tab found it.
LEMMA BeginsRotation ==
    ASSUME TypeInv, Rotation, Quiet, held' = held, NEW q \in Request, Begins(q),
           \A p \in Request : p # q => req'[p] = req[p]
    PROVE  Rotation'
  <1> USE DEF Quiet
  <1>1. PICK t \in Tab : t = req[q].tab /\ t # None
    BY HeldTells DEF Begins
  <1>2. PICK r \in Taken : r = StoredRefresh(t) /\ req'[q].used = r
    BY <1>1 DEF Begins
  <1>3. PICK p0 \in {t, None} : held[p0] = r /\ r # 0 /\ (p0 = None => held[t] = 0)
    BY <1>2, HeldTells, SmallTokens DEF StoredRefresh
  <1>4. p0 \in Place /\ None \in Place /\ t \in Place
    BY HeldTells
  <1>5. /\ ~InFlight(q) /\ InFlight(q)' /\ req'[q].tab = t /\ req'[q].pc = "find"
        /\ \A p \in Request : p # q => req'[p] = req[p] /\ (InFlight(p)' <=> InFlight(p))
        /\ \A p \in Request : InFlight(p) => req[p].tab # t
    BY <1>1 DEF Begins, InFlight, Refreshing
  <1>6. ASSUME NEW u \in Tab PROVE LoginFresh(u)'
    <2>1. LoginFresh(u)
      BY DEF Rotation
    <2>2. login[u].pc = "answer" => home[r] # login[u].new
      BY <1>3, <1>4, <2>1 DEF LoginFresh
    <2>3. login[u].pc = "answer" =>
            \A p \in Request : InFlight(p)' => home[req'[p].used] # login[u].new
      BY <1>2, <1>5, <2>1, <2>2 DEF LoginFresh
    <2> QED
      BY <2>1, <2>3 DEF LoginFresh
  <1>7. OneFlight'
    BY <1>1, <1>5 DEF Rotation, Flights, OneFlight
  <1>8. OneBucket'
    BY DEF Rotation, Flights, OneBucket
  <1>9. RenewsInPlace(q)'
    <2> SUFFICES ASSUME NEW s \in Token, s = home[r], s \notin orphaned
                 PROVE  /\ \A u \in Tab \ {t} : held[u] # 0 => home[held[u]] # s
                        /\ held[None] # 0 /\ home[held[None]] = s => held[t] = 0
      BY <1>2, <1>5 DEF RenewsInPlace, Renews
    <2>1. \A p \in Place : p # p0 /\ held[p] # 0 => home[held[p]] # s
      BY <1>3, <1>4 DEF Rotation, Flights, OneBucket
    <2> QED
      BY <1>1, <1>3, <1>4, <2>1, HeldTells
  <1>10. ASSUME NEW p \in Request, p # q PROVE RenewsInPlace(p)' /\ OvertakenByOther(p)'
    BY <1>5, <1>10 DEF Rotation, Flights, RenewsInPlace, Renews, OvertakenByOther
  <1>11. OvertakenByOther(q)'
    BY <1>5 DEF OvertakenByOther
  <1>12. ASSUME NEW p \in Request PROVE AnswerNew(p)'
    <2> SUFFICES ASSUME p # q, req[p].pc = "answer", req[p].sid \notin orphaned
                 PROVE  /\ hash[req[p].sid] = req[p].new
                        /\ rotator[req[p].sid] = req[p].tab
                        /\ \A x \in Request : InFlight(x)' => req'[x].used # req[p].new
                        /\ \A x \in Place : held[x] # req[p].new
      BY <1>5 DEF AnswerNew
    <2>1. /\ hash[req[p].sid] = req[p].new
          /\ rotator[req[p].sid] = req[p].tab
          /\ \A x \in Request : InFlight(x) => req[x].used # req[p].new
          /\ \A x \in Place : held[x] # req[p].new
      BY DEF Rotation, Flights, AnswerNew
    <2>2. r # req[p].new
      BY <1>3, <1>4, <2>1
    <2> QED
      BY <1>2, <1>5, <2>1, <2>2
  <1>13. HeldCurrent'
    <2>1. \A s : Pending(s)' = Pending(s)
      BY <1>5 DEF Pending, InFlight
    <2> QED
      BY <2>1 DEF Rotation, Flights, HeldCurrent, Pending
  <1> QED
    BY <1>6, <1>7, <1>8, <1>9, <1>10, <1>11, <1>12, <1>13 DEF Rotation, Flights

\* A refresh finds its session by the token it carries.
LEMMA FindsRotation ==
    ASSUME TypeInv, Rotation, Quiet, held' = held, NEW q \in Request, Finds(q),
           \A p \in Request : p # q => req'[p] = req[p]
    PROVE  Rotation'
  <1> USE DEF Quiet
  <1>1. /\ \A p \in Request : /\ InFlight(p)' <=> InFlight(p)
                              /\ req'[p].pc = "answer" <=> req[p].pc = "answer"
                              /\ req'[p].tab = req[p].tab
                              /\ InFlight(p) => req'[p].used = req[p].used
                              /\ p # q => req'[p] = req[p]
        /\ req'[q].pc = "rotate" /\ hash[req'[q].sid] = req'[q].used
    BY DEF Finds, InFlight, hash
  <1>2. \A u \in Tab : LoginFresh(u)'
    BY <1>1 DEF Rotation, LoginFresh
  <1>3. OneFlight'
    BY <1>1 DEF Rotation, Flights, OneFlight
  <1>4. OneBucket'
    BY DEF Rotation, Flights, OneBucket
  <1>5. ASSUME NEW p \in Request PROVE RenewsInPlace(p)'
    BY <1>1 DEF Rotation, Flights, RenewsInPlace, Renews
  <1>6. ASSUME NEW p \in Request PROVE AnswerNew(p)'
    <2>1. AnswerNew(p) /\ (req[p].pc = "answer" => p # q)
      BY <1>1 DEF Rotation, Flights
    <2> QED
      BY <1>1, <2>1 DEF AnswerNew
  <1>7. ASSUME NEW p \in Request PROVE OvertakenByOther(p)'
    BY <1>1 DEF Rotation, Flights, OvertakenByOther
  <1>8. HeldCurrent'
    <2>1. \A s : Pending(s)' = Pending(s)
      BY <1>1 DEF Pending
    <2> QED
      BY <2>1 DEF Rotation, Flights, HeldCurrent, Pending
  <1> QED
    BY <1>2, <1>3, <1>4, <1>5, <1>6, <1>7, <1>8 DEF Rotation, Flights

\* A rotation: the session stays in reach only if the token used was the one the
\* server took, as another token was put there by another tab.
LEMMA RotateRotation ==
    ASSUME TypeInv, Rotation, NEW q \in Request, RefreshRotate(q) PROVE Rotation'
  <1>1. PICK s, n, t : s = req[q].sid /\ n = issued + 1 /\ t = req[q].tab
    OBVIOUS
  <1>2. /\ InFlight(q) /\ req[q].pc = "rotate" /\ req'[q].pc = "answer"
        /\ req'[q].tab = t /\ req'[q].used = req[q].used /\ req'[q].sid = s /\ req'[q].new = n
        /\ \A p \in Request : p # q => req'[p] = req[p]
    BY <1>1, RotateMoves DEF InFlight
  <1>3. /\ s \in Taken /\ s = home[req[q].used] /\ req[q].used \in Taken /\ t \in Tab
    BY <1>1, <1>2, FlightKnown
  <1>4. /\ n \in Token /\ n \notin Taken /\ n # 0 /\ issued' = n
        /\ home' = [home EXCEPT ![n] = s]
        /\ session' = [session EXCEPT ![s] = session'[s]] /\ session'[s].hash = n
        /\ Taken \subseteq Taken'
    BY <1>1, Rotates DEF ServerGrows, Token
  <1>5. home'[n] = s /\ \A m \in Taken : home'[m] = home[m]
    BY <1>4 DEF TypeInv, TypeOK
  <1>6. hash'[s] = n /\ \A m \in Taken : m # s => hash'[m] = hash[m]
    <2>1. \A m \in Taken : m # s => session'[m] = session[m]
      BY <1>4, SmallTokens DEF TypeInv, TypeOK
    <2> QED
      BY <1>3, <1>4, <2>1, SmallTokens DEF hash
  <1>7. held' = held /\ login' = login
    BY HeldSame DEF RefreshRotate
  <1>8. rotator'[s] = t /\ \A m \in Taken : m # s => rotator'[m] = rotator[m]
    BY <1>1, <1>3, SmallTokens DEF RefreshRotate, TypeInv, TypeOK
  <1>9. orphaned \subseteq orphaned' /\ (s \notin orphaned' => hash[s] = req[q].used)
    <2>1. orphaned' = IF hash[s] # req[q].used /\ rotator[s] # t THEN orphaned \cup {s} ELSE orphaned
      BY <1>1, <1>3, SmallTokens DEF RefreshRotate, hash
    <2>2. s \notin orphaned /\ hash[s] # req[q].used => rotator[s] # t
      BY <1>1, <1>2 DEF Rotation, Flights, OvertakenByOther
    <2> QED
      BY <2>1, <2>2
  <1>10. \A p \in Place : held[p] # 0 => held[p] \in Taken /\ home[held[p]] \in Taken
                                          /\ home'[held'[p]] = home[held[p]]
    BY <1>5, <1>7, HeldKnown
  <1>11. \A p \in Request :
           /\ InFlight(p)' <=> InFlight(p)
           /\ req'[p].tab = req[p].tab /\ req'[p].used = req[p].used /\ req'[p].sid = req[p].sid
           /\ InFlight(p) => /\ req[p].used \in Taken /\ home[req[p].used] \in Taken
                             /\ home'[req'[p].used] = home[req[p].used] /\ req[p].tab \in Tab
           /\ req[p].pc \in {"rotate", "answer"} => req[p].sid = home[req[p].used]
    BY <1>1, <1>2, <1>5, FlightKnown DEF InFlight
  <1>12. ASSUME NEW u \in Tab PROVE LoginFresh(u)'
    <2> SUFFICES ASSUME login[u].pc = "answer", NEW m, m = login[u].new
                 PROVE  /\ m \in Taken' /\ home'[m] = m /\ hash'[m] = m
                        /\ \A p \in Place : held'[p] # 0 => home'[held'[p]] # m
                        /\ \A p \in Request : InFlight(p)' => home'[req'[p].used] # m
                        /\ \A v \in Tab \ {u} : login[v].pc = "answer" => login[v].new # m
      BY <1>7 DEF LoginFresh
    <2>1. /\ m \in Taken /\ home[m] = m /\ hash[m] = m
          /\ \A p \in Place : held[p] # 0 => home[held[p]] # m
          /\ \A p \in Request : InFlight(p) => home[req[p].used] # m
          /\ \A v \in Tab \ {u} : login[v].pc = "answer" => login[v].new # m
      BY DEF Rotation, LoginFresh
    <2>2. m # s
      BY <1>2, <1>3, <2>1
    <2>3. m \in Taken' /\ home'[m] = m /\ hash'[m] = m
      BY <1>4, <1>5, <1>6, <2>1, <2>2
    <2>4. \A p \in Place : held'[p] # 0 => home'[held'[p]] # m
      BY <1>7, <1>10, <2>1
    <2>5. \A p \in Request : InFlight(p)' => home'[req'[p].used] # m
      BY <1>11, <2>1
    <2> QED
      BY <2>1, <2>3, <2>4, <2>5
  <1>13. OneFlight'
    BY <1>11 DEF Rotation, Flights, OneFlight
  <1>14. OneBucket'
    BY <1>7, <1>9, <1>10 DEF Rotation, Flights, OneBucket
  <1>15. ASSUME NEW p \in Request PROVE RenewsInPlace(p)'
    <2> SUFFICES ASSUME NEW m \in Token, Renews(p, m)'
                 PROVE  /\ \A u \in Tab \ {req'[p].tab} : held'[u] # 0 => home'[held'[u]] # m
                        /\ held'[None] # 0 /\ home'[held'[None]] = m => held'[req'[p].tab] = 0
      BY DEF RenewsInPlace
    <2>1. /\ InFlight(p) /\ m = home[req[p].used] /\ m \in Taken /\ m \notin orphaned
          /\ req'[p].pc = "answer" \/ hash'[m] = req[p].used
      BY <1>9, <1>11 DEF Renews
    <2>2. req[p].pc = "answer" \/ hash[m] = req[p].used
      <3>1. CASE p = q
        BY <1>3, <1>9, <2>1, <3>1, <1>11 DEF Renews
      <3>2. CASE p # q
        <4>1. m = s => hash'[m] # req[p].used
          BY <1>4, <1>6, <1>11, <2>1
        <4> QED
          BY <1>2, <1>6, <2>1, <3>2, <4>1
      <3> QED
        BY <3>1, <3>2
    <2>3. Renews(p, m)
      BY <2>1, <2>2 DEF Renews
    <2>4. /\ \A u \in Tab \ {req[p].tab} : held[u] # 0 => home[held[u]] # m
          /\ held[None] # 0 /\ home[held[None]] = m => held[req[p].tab] = 0
      BY <2>3 DEF Rotation, Flights, RenewsInPlace
    <2> QED
      BY <1>7, <1>10, <1>11, <2>4, HeldTells
  <1>16. AnswerNew(q)'
    <2>1. \A p \in Request : InFlight(p)' => req'[p].used # n
      BY <1>4, <1>11
    <2>2. \A p \in Place : held'[p] # n
      BY <1>4, <1>7, <1>10
    <2> QED
      BY <1>2, <1>6, <1>8, <2>1, <2>2 DEF AnswerNew
  <1>17. ASSUME NEW p \in Request, p # q PROVE AnswerNew(p)'
    <2> SUFFICES ASSUME req[p].pc = "answer", req[p].sid \notin orphaned'
                 PROVE  /\ hash'[req[p].sid] = req[p].new
                        /\ rotator'[req[p].sid] = req[p].tab
                        /\ \A x \in Request : InFlight(x)' => req'[x].used # req[p].new
                        /\ \A x \in Place : held'[x] # req[p].new
      BY <1>2, <1>17 DEF AnswerNew
    <2>1. /\ hash[req[p].sid] = req[p].new
          /\ rotator[req[p].sid] = req[p].tab
          /\ \A x \in Request : InFlight(x) => req[x].used # req[p].new
          /\ \A x \in Place : held[x] # req[p].new
      BY <1>9 DEF Rotation, Flights, AnswerNew
    <2>2. req[p].sid \in Taken
      BY <1>11 DEF InFlight
    <2>3. req[p].sid # s
      BY <1>2, <1>9, <2>1
    <2> QED
      BY <1>6, <1>7, <1>8, <1>11, <2>1, <2>2, <2>3
  <1>18. ASSUME NEW p \in Request PROVE OvertakenByOther(p)'
    <2> SUFFICES ASSUME p # q, req[p].pc = "rotate", req[p].sid \notin orphaned',
                        hash'[req[p].sid] # req[p].used
                 PROVE  rotator'[req[p].sid] # req[p].tab
      BY <1>2 DEF OvertakenByOther
    <2>1. InFlight(p) /\ req[p].sid \in Taken
      BY <1>11 DEF InFlight
    <2>2. CASE req[p].sid = s
      <3>1. req[p].tab # t
        BY <1>1, <1>2, <2>1 DEF Rotation, Flights, OneFlight
      <3> QED
        BY <1>8, <2>2, <3>1
    <2>3. CASE req[p].sid # s
      BY <1>6, <1>8, <1>9, <2>1, <2>3 DEF Rotation, Flights, OvertakenByOther
    <2> QED
      BY <2>2, <2>3
  <1>19. HeldCurrent'
    <2> SUFFICES ASSUME NEW p \in Place, held[p] # 0, home[held[p]] \notin orphaned',
                        ~ \E x \in Request : req'[x].pc = "answer" /\ req'[x].sid = home[held[p]]
                 PROVE  hash'[home[held[p]]] = held[p]
      BY <1>7, <1>10 DEF HeldCurrent, Pending
    <2>1. home[held[p]] # s
      BY <1>2
    <2>2. ~Pending(home[held[p]])
      BY <1>2 DEF Pending
    <2>3. hash[home[held[p]]] = held[p]
      BY <1>9, <2>2 DEF Rotation, Flights, HeldCurrent
    <2> QED
      BY <1>6, <1>10, <2>1, <2>3
  <1> QED
    BY <1>12, <1>13, <1>14, <1>15, <1>16, <1>17, <1>18, <1>19 DEF Rotation, Flights

\* What the end of a refresh that stores its answer does to the buckets.
LEMMA RefreshStoreHeld ==
    ASSUME TypeInv, NEW q \in Request, RefreshStore(q)
    PROVE  \/ \E p0 \in {req[q].tab, None} :
               /\ held[p0] # 0 /\ (p0 = None => held[req[q].tab] = 0)
               /\ held'[p0] = req[q].new /\ \A p \in Place \ {p0} : held'[p] = held[p]
           \/ held' = held /\ held[None] = 0 /\ held[req[q].tab] = 0
  <1> DEFINE t == req[q].tab
             n == req[q].new
  <1>1. t \in Tab /\ own \in [Tab -> Bucket] /\ local \in Bucket
    BY DEF RefreshStore, CallShape, TypeInv, TypeOK, Known
  <1>2. /\ held[t] = own[t].access /\ held[None] = local.access
        /\ \A p \in Place : p = None \/ (p \in Tab /\ held[p] = own[p].refresh)
    BY <1>1, HeldTells DEF TypeInv, Known, BucketsPaired, Place
  <1>3. CASE own[t].access # 0
    <2>1. local' = local /\ own' = [own EXCEPT ![t].access = n, ![t].refresh = n]
      BY <1>3 DEF RefreshStore
    <2>2. own'[t].refresh = n /\ \A u \in Tab : u # t => own'[u] = own[u]
      BY <1>1, <2>1 DEF Bucket
    <2>3. held'[t] = n /\ \A p \in Place \ {t} : held'[p] = held[p]
      BY <1>1, <1>2, <2>1, <2>2, HeldTells
    <2> QED
      BY <1>1, <1>2, <1>3, <2>3, HeldTells
  <1>4. CASE own[t].access = 0 /\ local.access # 0
    <2>1. own' = own /\ local' = [local EXCEPT !.access = n, !.refresh = n]
      BY <1>4 DEF RefreshStore
    <2>2. local'.refresh = n
      BY <1>1, <2>1 DEF Bucket
    <2>3. held'[None] = n /\ \A p \in Place \ {None} : held'[p] = held[p]
      BY <1>1, <1>2, <2>1, <2>2, HeldTells
    <2> QED
      BY <1>2, <1>4, <2>3
  <1>5. CASE own[t].access = 0 /\ local.access = 0
    BY <1>2, <1>5, HeldSame DEF RefreshStore
  <1> QED
    BY <1>3, <1>4, <1>5

\* A refresh stores its answer where the token it replaces was, or nowhere.
LEMMA RefreshStoreRotation ==
    ASSUME TypeInv, Rotation, NEW q \in Request, RefreshStore(q) PROVE Rotation'
  <1>1. PICK s, n, t : s = req[q].sid /\ n = req[q].new /\ t = req[q].tab
    OBVIOUS
  <1>2. /\ InFlight(q) /\ req[q].pc = "answer"
        /\ t \in Tab /\ s \in Taken /\ s = home[req[q].used]
        /\ n \in Taken /\ home[n] = s /\ n # 0 /\ s \in Token
    BY <1>1, FlightKnown, SmallTokens DEF RefreshStore, InFlight
  <1>3. Quiet
    BY ServerStays DEF RefreshStore, server, Quiet
  <1>4. \A p \in Request : /\ InFlight(p)' => p # q /\ InFlight(p) /\ req'[p] = req[p]
                           /\ InFlight(p) /\ p # q => req'[p] = req[p]
    <2>1. \E ok \in BOOLEAN : Resolve(q, ok)
      BY DEF RefreshStore
    <2>2. \A p \in Request : /\ InFlight(p)' => p # q /\ req'[p] = req[p]
                             /\ InFlight(p) /\ p # q => req'[p] = req[p]
      BY <1>2, <2>1, ResolveFlights
    <2> QED
      BY <2>2 DEF InFlight
  <1>5. s \notin orphaned =>
          /\ hash[s] = n /\ rotator[s] = t
          /\ \A p \in Request : InFlight(p) => req[p].used # n
          /\ \A u \in Tab \ {t} : held[u] # 0 => home[held[u]] # s
          /\ held[None] # 0 /\ home[held[None]] = s => held[t] = 0
    BY <1>1, <1>2 DEF Rotation, Flights, AnswerNew, RenewsInPlace, Renews
  <1>6. PICK p0 \in {t, None} :
          /\ held'[p0] \in {n, 0} /\ (held'[p0] = n => held[p0] # 0)
          /\ \A p \in Place \ {p0} : /\ held'[p] = held[p]
                                     /\ held[p] # 0 /\ s \notin orphaned => home[held[p]] # s
    <2>1. CASE \E p0 \in {t, None} :
                 /\ held[p0] # 0 /\ (p0 = None => held[t] = 0)
                 /\ held'[p0] = n /\ \A p \in Place \ {p0} : held'[p] = held[p]
      <3>1. PICK p0 \in {t, None} :
              /\ held[p0] # 0 /\ (p0 = None => held[t] = 0)
              /\ held'[p0] = n /\ \A p \in Place \ {p0} : held'[p] = held[p]
        BY <2>1
      <3>2. \A p \in Place \ {p0} : held[p] # 0 /\ s \notin orphaned => home[held[p]] # s
        BY <1>2, <1>5, <3>1 DEF Place
      <3> QED
        BY <3>1, <3>2
    <2>2. CASE held' = held /\ held[None] = 0 /\ held[t] = 0
      BY <1>2, <1>5, <2>2 DEF Place
    <2> QED
      BY <1>1, <2>1, <2>2, RefreshStoreHeld
  <1>7. p0 \in Place /\ None \in Place /\ t \in Place /\ None \notin Tab
    BY <1>2, <1>6, HeldTells
  <1> USE <1>3 DEF Quiet
  <1>8. ASSUME NEW p \in Request, InFlight(p), p # q, s \notin orphaned, home[req[p].used] = s
        PROVE  req[p].pc # "answer" /\ hash[s] # req[p].used
    <2>1. CASE req[p].pc = "answer"
      <3>1. req[p].sid = s
        BY <1>8, <2>1, FlightKnown
      <3>2. req[p].tab = t
        BY <1>5, <1>8, <2>1, <3>1 DEF Rotation, Flights, AnswerNew
      <3> QED
        BY <1>1, <1>2, <1>8, <3>2 DEF Rotation, Flights, OneFlight
    <2> QED
      BY <1>5, <1>8, <2>1
  <1>9. ASSUME NEW u \in Tab PROVE LoginFresh(u)'
    <2>1. LoginFresh(u)
      BY DEF Rotation
    <2>2. login[u].pc = "answer" => \A p \in Place : held'[p] # 0 => home[held'[p]] # login[u].new
      BY <1>2, <1>6, <2>1 DEF LoginFresh
    <2> QED
      BY <1>4, <2>1, <2>2 DEF LoginFresh
  <1>10. OneFlight'
    BY <1>4 DEF Rotation, Flights, OneFlight
  <1>11. OneBucket'
    <2> SUFFICES ASSUME NEW p \in Place, NEW x \in Place, p # x, held'[p] # 0, held'[x] # 0,
                        home[held'[p]] \notin orphaned
                 PROVE  home[held'[p]] # home[held'[x]]
      BY DEF OneBucket
    <2>1. CASE p = p0
      BY <1>2, <1>6, <2>1
    <2>2. CASE x = p0
      BY <1>2, <1>6, <2>2
    <2>3. CASE p # p0 /\ x # p0
      BY <1>6, <2>3 DEF Rotation, Flights, OneBucket
    <2> QED
      BY <2>1, <2>2, <2>3
  <1>12. ASSUME NEW p \in Request PROVE RenewsInPlace(p)'
    <2> SUFFICES ASSUME NEW m \in Token, Renews(p, m)'
                 PROVE  /\ \A u \in Tab \ {req'[p].tab} : held'[u] # 0 => home[held'[u]] # m
                        /\ held'[None] # 0 /\ home[held'[None]] = m => held'[req'[p].tab] = 0
      BY DEF RenewsInPlace
    <2>1. p # q /\ InFlight(p) /\ req'[p] = req[p] /\ Renews(p, m)
      BY <1>4 DEF Renews
    <2>2. m # s
      BY <1>8, <2>1 DEF Renews
    <2>3. /\ \A u \in Tab \ {req[p].tab} : held[u] # 0 => home[held[u]] # m
          /\ held[None] # 0 /\ home[held[None]] = m => held[req[p].tab] = 0
      BY <2>1 DEF Rotation, Flights, RenewsInPlace
    <2>4. \A u \in Tab \ {req[p].tab} : held'[u] # 0 => home[held'[u]] # m
      BY <1>2, <1>6, <2>2, <2>3, HeldTells
    <2>5. ASSUME held'[None] # 0, home[held'[None]] = m PROVE held'[req[p].tab] = 0
      <3>1. held'[None] = held[None] /\ held[req[p].tab] = 0
        BY <1>2, <1>6, <1>7, <2>2, <2>3, <2>5
      <3>2. req[p].tab \in Tab
        BY <2>1, FlightKnown
      <3> QED
        BY <1>6, <3>1, <3>2, HeldTells
    <2> QED
      BY <2>1, <2>4, <2>5
  <1>13. ASSUME NEW p \in Request PROVE AnswerNew(p)'
    <2> SUFFICES ASSUME req'[p].pc = "answer", req'[p].sid \notin orphaned
                 PROVE  /\ hash[req'[p].sid] = req'[p].new
                        /\ rotator[req'[p].sid] = req'[p].tab
                        /\ \A x \in Request : InFlight(x)' => req'[x].used # req'[p].new
                        /\ \A x \in Place : held'[x] # req'[p].new
      BY DEF AnswerNew
    <2>1. p # q /\ InFlight(p) /\ req'[p] = req[p]
      BY <1>4 DEF InFlight
    <2>2. /\ hash[req[p].sid] = req[p].new /\ rotator[req[p].sid] = req[p].tab
          /\ \A x \in Request : InFlight(x) => req[x].used # req[p].new
          /\ \A x \in Place : held[x] # req[p].new
      BY <2>1 DEF Rotation, Flights, AnswerNew
    <2>3. req[p].new # 0 /\ home[req[p].new] = req[p].sid /\ req[p].sid = home[req[p].used]
      BY <2>1, FlightKnown, SmallTokens
    <2>4. req[p].new # n
      BY <1>2, <1>8, <2>1, <2>3
    <2>5. \A x \in Place : held'[x] # req[p].new
      BY <1>6, <2>2, <2>3, <2>4
    <2> QED
      BY <1>4, <2>1, <2>2, <2>5
  <1>14. ASSUME NEW p \in Request PROVE OvertakenByOther(p)'
    <2>1. req'[p].pc = "rotate" => req'[p] = req[p]
      BY <1>4 DEF InFlight
    <2> QED
      BY <2>1 DEF Rotation, Flights, OvertakenByOther
  <1>15. HeldCurrent'
    <2> SUFFICES ASSUME NEW p \in Place, held'[p] # 0, home[held'[p]] \notin orphaned,
                        ~ \E x \in Request : req'[x].pc = "answer" /\ req'[x].sid = home[held'[p]]
                 PROVE  hash[home[held'[p]]] = held'[p]
      BY DEF HeldCurrent, Pending
    <2>1. CASE p = p0
      BY <1>2, <1>5, <1>6, <2>1
    <2>2. CASE p # p0
      <3>1. held'[p] = held[p] /\ home[held[p]] # s
        BY <1>6, <2>2
      <3>2. ~Pending(home[held[p]])
        BY <1>1, <1>4, <3>1 DEF Pending, InFlight
      <3> QED
        BY <3>1, <3>2 DEF Rotation, Flights, HeldCurrent
    <2> QED
      BY <2>1, <2>2
  <1> QED
    BY <1>9, <1>10, <1>11, <1>12, <1>13, <1>14, <1>15 DEF Rotation, Flights

\* A refresh that ends without an answer: its session is the same, or orphaned.
LEMMA FailsRotation ==
    ASSUME TypeInv, Rotation, NEW q \in Request, InFlight(q), NEW ok \in BOOLEAN, Resolve(q, ok),
           held' = held, login' = login, ServerKept, orphaned \subseteq orphaned',
           req[q].pc = "answer" => req[q].sid \in orphaned'
    PROVE  Rotation'
  <1>1. \A p \in Request : /\ InFlight(p)' => req'[p] = req[p]
                           /\ InFlight(p) /\ p # q => req'[p] = req[p]
    BY ResolveFlights
  <1>2. Shrinks
    BY <1>1 DEF Shrinks, InFlight
  <1> QED
    BY <1>2, ShrinkFlights, ShrinkLogin DEF Rotation

\* A step that neither the refreshes nor the sign-ins notice.
LEMMA AsideRotation ==
    ASSUME TypeInv, Rotation, ServerKept, login' = login, orphaned' = orphaned,
           \A p \in Place : held'[p] = held[p] \/ held'[p] = 0,
           \A p \in Request : InFlight(p) \/ InFlight(p)' => req'[p] = req[p]
    PROVE  Rotation'
  <1>1. Shrinks
    BY DEF Shrinks, InFlight
  <1> QED
    BY <1>1, ShrinkFlights, ShrinkLogin DEF Rotation

\* The status of a session is not the browser's.
LEMMA StatusKept ==
    ASSUME TypeInv, NEW s, session' = [session EXCEPT ![s].status = "revoked"],
           session[s].status = "live", UNCHANGED <<issued, home, rotator>>
    PROVE  ServerKept
  <1>1. session \in [Token -> Session \cup {NoSession}]
    BY DEF TypeInv, TypeOK
  <1>2. \A m \in Token : session'[m].hash = session[m].hash
    <2>1. CASE s \in Token
      <3>1. session[s] \in Session
        BY <1>1, <2>1, StartShapes
      <3>2. session'[s].hash = session[s].hash /\ \A m \in Token : m # s => session'[m] = session[m]
        BY <1>1, <2>1, <3>1 DEF Session
      <3> QED
        BY <3>2
    <2>2. CASE s \notin Token
      BY <1>1, <2>2
    <2> QED
      BY <2>1, <2>2
  <1>3. hash' = hash
    BY <1>2 DEF hash
  <1> QED
    BY <1>3 DEF ServerKept, Taken

LEMMA TabRotation ==
    ASSUME TypeInv, Rotation, NEW t \in Tab, TabStep(t) PROVE Rotation'
  <1>1. CASE SignOut(t)
    <2>1. ServerKept
      BY <1>1, ServerStays DEF SignOut, server
    <2> QED
      BY <1>1, <2>1, HeldSame, AsideRotation DEF SignOut, InFlight
  <1>2. CASE Logout(t)
    <2>1. ServerKept
      <3>1. CASE Accepted(out[t].access)
        BY <1>2, <3>1, StatusKept DEF Logout, Accepted
      <3>2. CASE ~Accepted(out[t].access)
        BY <1>2, <3>2, ServerStays DEF Logout
      <3> QED
        BY <3>1, <3>2
    <2> QED
      BY <1>2, <2>1, HeldSame, AsideRotation DEF Logout, InFlight
  <1>3. CASE Clear(t)
    <2>1. ServerKept
      BY <1>3, ServerStays DEF Clear, server
    <2>2. \A p \in Place : held'[p] = held[p] \/ held'[p] = 0
      <3>1. local'.refresh = 0
        BY <1>3, StartShapes DEF Clear
      <3>2. \A u \in Tab : own'[u] = own[u] \/ own'[u].refresh = 0
        BY <1>3, StartShapes DEF Clear, TypeInv, TypeOK
      <3> QED
        BY <3>1, <3>2, HeldTells DEF Place
    <2> QED
      BY <1>3, <2>1, <2>2, AsideRotation DEF Clear, InFlight
  <1> QED
    BY <1>1, <1>2, <1>3, LoginRequestRotation, LoginStoreRotation DEF TabStep

LEMMA EventRotation == ASSUME TypeInv, Rotation, Event PROVE Rotation'
  <1>1. ServerKept
    <2>1. CASE Revoke
      BY <2>1, StatusKept DEF Revoke, Event
    <2>2. CASE ExpireAccess \/ ChangeAccount
      BY <2>2, ServerStays DEF ExpireAccess, ChangeAccount, Event
    <2> QED
      BY <2>1, <2>2 DEF Event
  <1> QED
    BY <1>1, HeldSame, AsideRotation DEF Event, InFlight

LEMMA CallRotation ==
    ASSUME TypeInv, Rotation, NEW q \in Request, CallStep(q) PROVE Rotation'
  <1>1. CASE RefreshRotate(q) \/ RefreshStore(q) \/ SyncStore(q)
    BY <1>1, RotateRotation, RefreshStoreRotation, SyncRotation
  <1>2. CASE RefreshLost(q)
    <2>1. ServerKept
      BY <1>2, ServerStays DEF RefreshLost, server
    <2> QED
      BY <1>2, <2>1, HeldSame, FailsRotation DEF RefreshLost, InFlight
  <1>3. CASE Send(q) \/ Answered(q) \/ Rejected(q) \/ RefreshFind(q) \/ RefreshRefused(q) \/ Retry(q)
    <2>1. held' = held
      BY <1>3, HeldSame DEF Send, Answered, Rejected, RefreshFind, RefreshRefused, Retry
    <2>2. UNCHANGED <<session, issued, home, rotator, orphaned, login>>
      BY <1>3 DEF Send, Answered, Rejected, RefreshFind, RefreshRefused, Retry, server
    <2>3. Quiet
      BY <2>2, ServerStays DEF Quiet
    <2>4. req[q].pc # "answer" /\ ~RefreshRotate(q)
      BY <1>3 DEF Send, Answered, Rejected, RefreshFind, RefreshRefused, Retry, RefreshRotate
    <2>5. CASE InFlight(q) /\ \E ok \in BOOLEAN : Resolve(q, ok)
      BY <2>1, <2>3, <2>4, <2>5, FailsRotation DEF Quiet
    <2>6. CASE /\ \A p \in Request : p # q => req'[p] = req[p]
               /\ Aside(q) \/ Joins(q)
      <3>1. \A p \in Request : InFlight(p) \/ InFlight(p)' => req'[p] = req[p]
        BY <2>6 DEF Aside, Joins, InFlight
      <3> QED
        BY <2>1, <2>3, <3>1, AsideRotation DEF Quiet
    <2> QED
      BY <2>1, <2>3, <2>4, <2>5, <2>6, CallMoves, BeginsRotation, FindsRotation
  <1> QED
    BY <1>1, <1>2, <1>3 DEF CallStep

LEMMA RotationInit == Init => Rotation
  <1> SUFFICES ASSUME Init PROVE Rotation
    OBVIOUS
  <1>1. \A q \in Request : req[q].pc = "idle"
    BY StartShapes DEF Init
  <1>2. \A p \in Place : held[p] = 0
    BY StartShapes, HeldTells DEF Init, Place
  <1>3. \A t \in Tab : login[t].pc = "idle"
    BY DEF Init
  <1> QED
    BY <1>1, <1>2, <1>3 DEF Rotation, Flights, LoginFresh, OneFlight, OneBucket, RenewsInPlace, Renews,
                            AnswerNew, OvertakenByOther, HeldCurrent, InFlight

LEMMA RotationNext == TypeInv /\ Rotation /\ [Next]_vars => Rotation'
  <1> SUFFICES ASSUME TypeInv, Rotation, [Next]_vars PROVE Rotation'
    OBVIOUS
  <1>1. CASE UNCHANGED vars
    <2>1. ServerKept
      BY <1>1, ServerStays DEF vars, server
    <2> QED
      BY <1>1, <2>1, HeldSame, AsideRotation DEF vars, InFlight
  <1> QED
    BY <1>1, TabRotation, EventRotation, CallRotation DEF Next

\* SignedInCanRefresh: the refresh token a tab has stored is the one the server
\* takes, unless its session ended, an answer is on its way or was lost, or two
\* tabs rotated it with one token.
THEOREM SignedInRefreshes == Spec => []SignedInCanRefresh
  <1>1. TypeInv /\ Rotation => SignedInCanRefresh
    <2> SUFFICES ASSUME TypeInv, Rotation, NEW t \in Tab, NEW r, r = StoredRefresh(t), r # 0,
                        home[r] \notin orphaned,
                        \A q \in Request : req[q].pc = "answer" => req[q].sid # home[r]
                 PROVE  session[home[r]].hash = r
      BY DEF SignedInCanRefresh
    <2>1. PICK p \in Place : held[p] = r
      BY HeldTells DEF StoredRefresh
    <2>2. hash[home[r]] = r /\ home[r] \in Token
      BY <2>1, HeldKnown, SmallTokens DEF Rotation, Flights, HeldCurrent, Pending
    <2> QED
      BY <2>2 DEF hash
  <1> QED
    BY <1>1, TypeInvariant, RotationInit, RotationNext, PTL DEF Spec
=============================================================================
