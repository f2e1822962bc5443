------------------------------ MODULE AuthApi ------------------------------
(***************************************************************************)
(* The authentication endpoints (app/api/v1/endpoints/auth.py) and the     *)
(* AuthMiddleware (app/middleware/auth.py), composed of UserStore (U) and  *)
(* TokenSessions (T).                                                      *)
(*                                                                         *)
(* A process is one HTTP request.  req[p] is its handler: the endpoint,    *)
(* the call it awaits (at) and what it keeps across awaits.  Each action   *)
(* below is the code between two awaits: it looks at the result of the     *)
(* call that has returned and either starts the next call or responds.     *)
(* The commands of the calls themselves are the steps of U and T, so they  *)
(* interleave with those of every other request.                           *)
(*                                                                         *)
(* Administrators act on the modelled accounts from an account of their    *)
(* own that is not modelled: their endpoints start where _require_admin    *)
(* has passed.  Audit entries are left out (they change none of this       *)
(* state); bulk_delete_users is "delete" once per name.                    *)
(*                                                                         *)
(* History variables, never read by an action of the code: barred and      *)
(* barredRefresh are the tokens whose end some response has confirmed,     *)
(* password[t] is the password that t's session was opened with, and       *)
(* exchanges counts the successful refreshes per refresh token.            *)
(***************************************************************************)
EXTENDS Naturals, FiniteSets

CONSTANTS
    Procs, Names, Passwords, MaxFailures, Keep, NoUser,     \* of UserStore
    RefreshIds, AccessIds, NoToken,                      \* of TokenSessions
    TryBound,       \* bound: failed logins in a row
    VersionBound,   \* bound: token version at which no session is ended
    MayOverlap,     \* endpoints writing an account that may overlap with
                    \* each other on it (all of them, in the code)
    Recreate,       \* may a name be registered again while tokens of an
                    \* earlier account of that name are around?
    Endpoints       \* the endpoints clients use in this instance

VARIABLES
    users, userIndex, ucall,
    refreshJwt, expired, sessions, index, revokedAccess, tcall,
    accessJwt,      \* jti -> claims of the access token, or NoToken
    req,            \* process -> the request it handles
    barred, barredRefresh, password, exchanges           \* history

U == INSTANCE UserStore
         WITH Overlap <- TRUE,
              TryBound <- TryBound + Cardinality(Procs),
              VersionBound <- VersionBound + Cardinality(Procs)
T == INSTANCE TokenSessions WITH Overlap <- TRUE

history == <<barred, barredRefresh, password, exchanges>>
uvars == <<users, userIndex, ucall>>
tvars == <<refreshJwt, expired, sessions, index, revokedAccess, tcall>>
vars == <<uvars, tvars, accessJwt, req, history>>

AccountWriters == {"register", "login", "logoutAll", "changePassword",
                   "update", "delete"}
AllEndpoints == AccountWriters \cup {"refresh", "logout", "me"}

ASSUME EndpointsAssumption ==
    Endpoints \subseteq AllEndpoints /\ MayOverlap \subseteq AccountWriters

\* What the two instances assume of their constants, and that no jti is used
\* for both kinds of tokens.
ASSUME ApiAssumption ==
    /\ IsFiniteSet(Procs) /\ TryBound \in Nat /\ VersionBound \in Nat
    /\ MaxFailures \in Nat \ {0}
    /\ Keep \notin Passwords /\ Keep \notin BOOLEAN
    /\ NoUser \notin U!StoredUser
    /\ NoToken \notin T!Claims \cup RefreshIds \cup AccessIds
    /\ RefreshIds \cap AccessIds = {}

NoRequest == [ep |-> "none"]

Request == [ep : AllEndpoints,
            at : {"start", "revoked?", "user?", "auth", "failing", "recording",
                  "reread", "issue", "validate", "lookup", "rotate", "verify",
                  "blacklist", "logout", "update", "sweep", "bump", "delete",
                  "create"},
            name : Names,
            pw : Passwords \cup {Keep},         \* the password presented
            chg : U!Change,                     \* the update asked for
            a : AccessIds \cup {NoToken},       \* the bearer token
            r : RefreshIds \cup {NoToken},      \* the refresh token in the body
            tv : Nat,                           \* of the user read last
            ends : SUBSET AccessIds,            \* history: tokens it will end
            endsR : SUBSET RefreshIds]

ApiTypeOK ==
    /\ U!UserTypeOK
    /\ T!TokenTypeOK
    /\ accessJwt \in [AccessIds -> T!Claims \cup {NoToken}]
    /\ req \in [Procs -> Request \cup {NoRequest}]
    /\ barred \in SUBSET AccessIds
    /\ barredRefresh \in SUBSET RefreshIds
    /\ password \in [AccessIds \cup RefreshIds -> Passwords \cup {Keep}]
    /\ exchanges \in [RefreshIds -> Nat]

Init ==
    /\ U!UserInit
    /\ T!TokenInit
    /\ accessJwt = [a \in AccessIds |-> NoToken]
    /\ req = [p \in Procs |-> NoRequest]
    /\ barred = {}
    /\ barredRefresh = {}
    /\ password = [t \in AccessIds \cup RefreshIds |-> Keep]
    /\ exchanges = [r \in RefreshIds |-> 0]

-----------------------------------------------------------------------------
(* Awaiting calls and responding *)

Busy(p) == req[p] # NoRequest
In(p, at) == Busy(p) /\ req[p].at = at
UserDone(p) == U!At(p, "done")
TokenDone(p) == T!At(p, "done")
User(p) == ucall[p].rec
TokenRes(p) == tcall[p].res

UserQuiet(p) == IF UserDone(p) THEN U!UserReturn(p) ELSE UNCHANGED uvars
TokenQuiet(p) == IF TokenDone(p) THEN T!TokenReturn(p) ELSE UNCHANGED tvars

\* req[p] goes on to await an operation of UserService on its account ...
AwaitUser(p, op, chg, r) ==
    /\ U!UserStart(p, op, r.name, chg)
    /\ TokenQuiet(p)
    /\ req' = [req EXCEPT ![p] = r]
    /\ UNCHANGED <<accessJwt, history>>

\* ... or a call of TokenSessionService.
AwaitToken(p, Start, r) ==
    /\ Start
    /\ UserQuiet(p)
    /\ req' = [req EXCEPT ![p] = r]
    /\ UNCHANGED <<accessJwt, history>>

Goto(p, at) == [req[p] EXCEPT !.at = at]

Quit(p) ==
    /\ UserQuiet(p) /\ TokenQuiet(p)
    /\ req' = [req EXCEPT ![p] = NoRequest]

\* The response carries an error, or nothing that a property is about.
Respond(p) == Quit(p) /\ UNCHANGED <<accessJwt, history>>

\* The response confirms the end of the tokens the request set out to end.
Confirm(p) ==
    /\ Quit(p)
    /\ barred' = barred \cup req[p].ends
    /\ barredRefresh' = barredRefresh \cup req[p].endsR
    /\ UNCHANGED <<accessJwt, password, exchanges>>

-----------------------------------------------------------------------------
(* Requests *)

AccessOf(n) == {a \in AccessIds : accessJwt[a] # NoToken /\ accessJwt[a].sub = n}
RefreshOf(n) == {r \in RefreshIds : T!Handed(r) /\ refreshJwt[r].sub = n}

\* A client has r: the response that carries it has been sent.
Held(r) == /\ T!Handed(r)
           /\ \A p \in Procs : In(p, "issue") => tcall[p].jti # r

\* Enough unused jtis for one more request that issues tokens.
Grants(p) == Busy(p) /\ req[p].ep \in {"login", "refresh"}
Room ==
    LET pending == Cardinality({p \in Procs : Grants(p)}) IN
    /\ Cardinality({a \in AccessIds : accessJwt[a] = NoToken}) > pending
    /\ Cardinality({r \in RefreshIds : refreshJwt[r] = NoToken}) > pending

\* The bounds and the environment assumptions on a request for account n.
Admitted(ep, n) ==
    /\ ep \in Endpoints
    /\ \A q \in Procs : Busy(q) /\ req[q].name = n
                        /\ {ep, req[q].ep} \subseteq AccountWriters
                        => {ep, req[q].ep} \subseteq MayOverlap
    /\ ep \in {"login", "refresh"} => Room
    /\ users[n] # NoUser =>
         /\ ep = "login" => users[n].fails < TryBound
         /\ ep \in {"logoutAll", "changePassword", "update"} =>
              users[n].tv < VersionBound
    /\ ep = "register" => Recreate \/ AccessOf(n) \cup RefreshOf(n) = {}

NewRequest(ep, at, n) ==
    [ep |-> ep, at |-> at, name |-> n, pw |-> Keep, chg |-> U!NoChange,
     a |-> NoToken, r |-> NoToken, tv |-> 0, ends |-> {}, endsR |-> {}]

\* A request that will end every session of its account remembers which
\* tokens there are now.
Ending(r) == [r EXCEPT !.ends = AccessOf(r.name), !.endsR = RefreshOf(r.name)]

\* POST /register and POST /users: create_user.
Register(p, n, pw) ==
    /\ ~Busy(p) /\ Admitted("register", n)
    /\ AwaitUser(p, "create", [U!NoChange EXCEPT !.pw = pw],
                 NewRequest("register", "create", n))

\* POST /login and POST /token: authenticate reads the user.
Login(p, n, pw) ==
    /\ ~Busy(p) /\ Admitted("login", n)
    /\ AwaitUser(p, "read", U!NoChange,
                 [NewRequest("login", "auth", n) EXCEPT !.pw = pw])

\* POST /refresh: validate_refresh_token.
Refresh(p, r) ==
    /\ ~Busy(p) /\ Held(r)
    /\ LET n == refreshJwt[r].sub IN
       /\ Admitted("refresh", n)
       /\ AwaitToken(p, T!ValidateStart(p, r),
                     [NewRequest("refresh", "validate", n) EXCEPT !.r = r])

\* PATCH /users/{n}: update_user.
AdminUpdate(p, n, chg) ==
    /\ ~Busy(p) /\ Admitted("update", n)
    /\ AwaitUser(p, "update", chg,
                 Ending([NewRequest("update", "update", n) EXCEPT !.chg = chg]))

\* DELETE /users/{n}: revoke_all_user_sessions.
AdminDelete(p, n) ==
    /\ ~Busy(p) /\ Admitted("delete", n)
    /\ AwaitToken(p, T!RevokeAllStart(p, n),
                  Ending(NewRequest("delete", "sweep", n)))

\* A request with a bearer token enters the middleware, which has decoded it
\* and looks its jti up in the black list.
Bearer(p, a, r) ==
    /\ ~Busy(p)
    /\ accessJwt[a] # NoToken
    /\ Admitted(r.ep, r.name)
    /\ AwaitToken(p, T!IsRevokedStart(p, a, accessJwt[a]),
                  [r EXCEPT !.a = a])

BearerRequest(p, a) ==
    LET n == accessJwt[a].sub IN
    \/ Bearer(p, a, NewRequest("me", "revoked?", n))
    \/ Bearer(p, a, Ending(NewRequest("logoutAll", "revoked?", n)))
    \/ \E r \in RefreshIds :
         /\ Held(r)
         /\ Bearer(p, a, [NewRequest("logout", "revoked?", n)
                            EXCEPT !.r = r, !.ends = {a}, !.endsR = {r}])
    \/ \E pw, new \in Passwords :
         Bearer(p, a, Ending([NewRequest("changePassword", "revoked?", n)
                       EXCEPT !.pw = pw, !.chg = [U!NoChange EXCEPT !.pw = new]]))

-----------------------------------------------------------------------------
(* AuthMiddleware.dispatch *)

CheckRevoked(p) ==
    /\ In(p, "revoked?") /\ TokenDone(p)
    /\ \/ TokenRes(p) = "refused" /\ Respond(p)
       \/ TokenRes(p) = "ok" /\ AwaitUser(p, "read", U!NoChange, Goto(p, "user?"))

\* The user exists, is active and has the token version of the claims c.
Accepts(p, c) ==
    /\ User(p) # NoUser
    /\ User(p).active
    /\ User(p).tv = c.tv

CheckUser(p) ==
    /\ In(p, "user?") /\ UserDone(p)
    /\ LET c == accessJwt[req[p].a] IN
       \/ ~Accepts(p, c) /\ Respond(p)
       \/ /\ Accepts(p, c)
          /\ \/ req[p].ep = "me" /\ Respond(p)
             \/ /\ req[p].ep \in {"logout", "logoutAll"}
                /\ AwaitToken(p, T!RevokeAccessStart(p, req[p].a, c),
                              Goto(p, "blacklist"))
             \/ /\ req[p].ep = "changePassword"
                /\ AwaitUser(p, "read", U!NoChange, Goto(p, "verify"))

-----------------------------------------------------------------------------
(* Login: authenticate, then _build_token_response *)

MayLogIn(u) == u # NoUser /\ u.active /\ ~u.locked

Authenticate(p) ==
    /\ In(p, "auth") /\ UserDone(p)
    /\ LET u == User(p) IN
       \/ ~MayLogIn(u) /\ Respond(p)
       \/ /\ MayLogIn(u)
          /\ \/ /\ u.pw # req[p].pw
                /\ AwaitUser(p, "fail", U!NoChange, Goto(p, "failing"))
             \/ /\ u.pw = req[p].pw
                /\ AwaitUser(p, "login", U!NoChange, Goto(p, "recording"))

LoginFailed(p) == In(p, "failing") /\ UserDone(p) /\ Respond(p)

LoginRecorded(p) ==
    /\ In(p, "recording") /\ UserDone(p)
    /\ AwaitUser(p, "read", U!NoChange, Goto(p, "reread"))

\* authenticate returns the record as re-read; the tokens get its version.
LoginReread(p) ==
    /\ In(p, "reread") /\ UserDone(p)
    /\ \/ User(p) = NoUser /\ Respond(p)
       \/ /\ User(p) # NoUser
          /\ AwaitToken(p, T!IssueStart(p, req[p].name, User(p).tv),
                        [Goto(p, "issue") EXCEPT !.tv = User(p).tv])

\* The refresh token is saved: sign an access token and respond with both.
IssueTokens(p) ==
    /\ In(p, "issue") /\ TokenDone(p)
    /\ LET old == req[p].r
           pw == IF req[p].ep = "login" THEN req[p].pw ELSE password[old] IN
       \E a \in AccessIds :
         /\ accessJwt[a] = NoToken
         /\ accessJwt' = [accessJwt EXCEPT
              ![a] = [sub |-> req[p].name, tv |-> req[p].tv]]
         /\ password' = [password EXCEPT ![a] = pw, ![tcall[p].jti] = pw]
         /\ exchanges' = IF old = NoToken THEN exchanges
                         ELSE [exchanges EXCEPT ![old] = @ + 1]
    /\ Quit(p)
    /\ UNCHANGED <<barred, barredRefresh>>

-----------------------------------------------------------------------------
(* Refresh: validate, look the user up, rotate (revoke, then issue) *)

RefreshValidated(p) ==
    /\ In(p, "validate") /\ TokenDone(p)
    /\ \/ TokenRes(p) = "refused" /\ Respond(p)
       \/ TokenRes(p) = "ok" /\ AwaitUser(p, "read", U!NoChange, Goto(p, "lookup"))

\* Mutant: the token is not revoked before the new one is issued.
LookedUpUnrotated(p) ==
    /\ In(p, "lookup") /\ UserDone(p)
    /\ \/ ~Accepts(p, refreshJwt[req[p].r]) /\ Respond(p)
       \/ /\ Accepts(p, refreshJwt[req[p].r])
          /\ AwaitToken(p, T!IssueStart(p, req[p].name, User(p).tv),
                        [Goto(p, "issue") EXCEPT !.tv = User(p).tv])

RefreshLookedUp(p) ==
    /\ In(p, "lookup") /\ UserDone(p)
    /\ \/ ~Accepts(p, refreshJwt[req[p].r]) /\ Respond(p)
       \/ /\ Accepts(p, refreshJwt[req[p].r])
          /\ AwaitToken(p, T!RevokeStart(p, req[p].r),
                        [Goto(p, "rotate") EXCEPT !.tv = User(p).tv])

\* Mutant: rotate_refresh_token signs with the newest token version.
RotatedAsLatest(p) ==
    /\ In(p, "rotate") /\ TokenDone(p)
    /\ \/ TokenRes(p) = "refused" /\ Respond(p)
       \/ /\ TokenRes(p) = "ok"
          /\ LET u == users[req[p].name]
                 v == IF u = NoUser THEN req[p].tv ELSE u.tv
             IN AwaitToken(p, T!IssueStart(p, req[p].name, v),
                           [Goto(p, "issue") EXCEPT !.tv = v])

\* rotate_refresh_token issues for the user as looked up before.
RefreshRotated(p) ==
    /\ In(p, "rotate") /\ TokenDone(p)
    /\ \/ TokenRes(p) = "refused" /\ Respond(p)
       \/ /\ TokenRes(p) = "ok"
          /\ AwaitToken(p, T!IssueStart(p, req[p].name, req[p].tv),
                        Goto(p, "issue"))

-----------------------------------------------------------------------------
(* Logout, logout-all, password change, administration *)

BlackListed(p) ==
    /\ In(p, "blacklist") /\ TokenDone(p)
    /\ \/ /\ req[p].ep = "logout"
          /\ AwaitToken(p, T!RevokeStart(p, req[p].r), Goto(p, "logout"))
       \/ /\ req[p].ep = "logoutAll"
          /\ AwaitToken(p, T!RevokeAllStart(p, req[p].name), Goto(p, "sweep"))

LoggedOut(p) ==
    /\ In(p, "logout") /\ TokenDone(p)
    /\ \/ TokenRes(p) = "refused" /\ Respond(p)
       \/ TokenRes(p) = "ok" /\ Confirm(p)

PasswordVerified(p) ==
    /\ In(p, "verify") /\ UserDone(p)
    /\ LET right == User(p) # NoUser /\ User(p).pw = req[p].pw IN
       \/ ~right /\ Respond(p)
       \/ right /\ AwaitUser(p, "update", req[p].chg, Goto(p, "update"))

\* Does this update end the sessions of the account?
Invalidates(r) ==
    r.ep = "changePassword" \/ r.chg.pw # Keep \/ r.chg.active = FALSE

AccountUpdated(p) ==
    /\ In(p, "update") /\ UserDone(p)
    /\ \/ (ucall[p].res = "missing" \/ ~Invalidates(req[p])) /\ Respond(p)
       \/ /\ ucall[p].res = "ok" /\ Invalidates(req[p])
          /\ AwaitToken(p, T!RevokeAllStart(p, req[p].name), Goto(p, "sweep"))

\* Mutant: _invalidate_user_sessions only revokes the refresh sessions.
SweptWithoutBump(p) ==
    /\ In(p, "sweep") /\ TokenDone(p)
    /\ IF req[p].ep = "delete"
       THEN AwaitUser(p, "delete", U!NoChange, Goto(p, "delete"))
       ELSE Confirm(p)

Swept(p) ==
    /\ In(p, "sweep") /\ TokenDone(p)
    /\ IF req[p].ep = "delete"
       THEN AwaitUser(p, "delete", U!NoChange, Goto(p, "delete"))
       ELSE AwaitUser(p, "bump", U!NoChange, Goto(p, "bump"))

\* increment_token_version or delete_user has returned: an error when the
\* account was gone.
Ended(p) ==
    /\ In(p, "bump") \/ In(p, "delete")
    /\ UserDone(p)
    /\ \/ ucall[p].res = "missing" /\ Respond(p)
       \/ ucall[p].res = "ok" /\ Confirm(p)

Created(p) == In(p, "create") /\ UserDone(p) /\ Respond(p)

-----------------------------------------------------------------------------

Receive(p) ==
    \/ \E n \in Names :
         \/ \E pw \in Passwords : Register(p, n, pw) \/ Login(p, n, pw)
         \/ \E chg \in U!Change : AdminUpdate(p, n, chg)
         \/ AdminDelete(p, n)
    \/ \E r \in RefreshIds : Refresh(p, r)
    \/ \E a \in AccessIds : accessJwt[a] # NoToken /\ BearerRequest(p, a)

Handle(p) ==
    \/ CheckRevoked(p) \/ CheckUser(p)
    \/ Authenticate(p) \/ LoginFailed(p) \/ LoginRecorded(p) \/ LoginReread(p)
    \/ IssueTokens(p)
    \/ RefreshValidated(p) \/ RefreshLookedUp(p) \/ RefreshRotated(p)
    \/ BlackListed(p) \/ LoggedOut(p) \/ PasswordVerified(p)
    \/ AccountUpdated(p) \/ Swept(p) \/ Ended(p) \/ Created(p)

apiOnly == <<accessJwt, req, history>>

\* A command of the call p awaits.
Command(p) ==
    \/ U!UserStep(p) /\ UNCHANGED <<tvars, apiOnly>>
    \/ T!TokenStep(p) /\ UNCHANGED <<uvars, apiOnly>>

\* Time passes a lock, the TTL of a session or the exp of a refresh token.
Passes ==
    \/ \E n \in Names : U!LockExpires(n) /\ UNCHANGED <<tvars, apiOnly>>
    \/ \E r \in RefreshIds : /\ T!SessionExpires(r) \/ T!JwtExpires(r)
                             /\ UNCHANGED <<uvars, apiOnly>>

Next == Passes \/ \E p \in Procs : Receive(p) \/ Handle(p) \/ Command(p)

Spec == Init /\ [][Next]_vars

-----------------------------------------------------------------------------
(* Properties *)

\* Presented now, the access token a passes the middleware.
Usable(a) ==
    /\ accessJwt[a] # NoToken
    /\ a \notin revokedAccess
    /\ LET u == users[accessJwt[a].sub] IN
       u # NoUser /\ u.active /\ u.tv = accessJwt[a].tv

\* Presented now, the refresh token r is exchanged for new tokens.
Exchangeable(r) ==
    /\ r \notin expired
    /\ sessions[r] # NoToken
    /\ LET u == users[sessions[r].sub] IN
       u # NoUser /\ u.active /\ u.tv = sessions[r].tv

\* Once a logout, logout-all, password change, disabling or deletion has
\* been confirmed, the access tokens that existed when it was requested are
\* never accepted again, nor are its refresh tokens exchanged
\* (auth.py:101-103, 180-215, 298-417).
ConfirmedEndIsFinal ==
    /\ \A a \in barred : ~Usable(a)
    /\ \A r \in barredRefresh : ~Exchangeable(r)

\* When no write of the account is under way, every token that works was
\* obtained with the password the account has now: a session opened with an
\* earlier password does not survive, not even through a refresh that was
\* under way during the change (auth.py:129-172, 298-329, 402-417).
TokensFollowPassword ==
    \A n \in Names :
        (\A p \in Procs : Busy(p) /\ req[p].name = n
                          => req[p].ep \notin AccountWriters)
        => /\ \A a \in AccessOf(n) : Usable(a) => password[a] = users[n].pw
           /\ \A r \in RefreshOf(n) : password[r] # Keep /\ Exchangeable(r)
                                      => password[r] = users[n].pw

\* A refresh token that was exchanged once is spent: no later request gets
\* anything for it, whatever logouts, sweeps and refreshes of it are still
\* under way (auth.py:129-172, token_session_service.py:82-99).
ExchangedIsSpent == \A r \in RefreshIds : exchanges[r] > 0 => ~Exchangeable(r)

\* A refresh token is exchanged at most once (auth.py:129-172).
ExchangedOnce == \A r \in RefreshIds : exchanges[r] <= 1
=============================================================================
