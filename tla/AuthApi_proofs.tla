--------------------------- MODULE AuthApi_proofs ---------------------------
(***************************************************************************)
(* Theorems about AuthApi, for any number of requests, accounts, passwords *)
(* and tokens.  What UserStore_proofs and TokenSessions_proofs show of the *)
(* steps of the two services is used here through UP and TP.               *)
(***************************************************************************)
EXTENDS AuthApi, FiniteSetTheorems, TLAPS

UP == INSTANCE UserStore_proofs
          WITH Overlap <- TRUE,
               TryBound <- TryBound + Cardinality(Procs),
               VersionBound <- VersionBound + Cardinality(Procs)
TP == INSTANCE TokenSessions_proofs WITH Overlap <- TRUE

LEMMA UserAssumptions ==
    /\ UP!OverlapAssumption /\ UP!UserBoundAssumption
    /\ UP!RecordAssumption /\ UP!NoUserAssumption
<1>1. Cardinality(Procs) \in Nat
  BY ApiAssumption, FS_CardinalityType
<1>2. QED
  BY <1>1, ApiAssumption DEF UP!OverlapAssumption, UP!UserBoundAssumption,
     UP!RecordAssumption, UP!NoUserAssumption, U!StoredUser, UP!StoredUser

LEMMA TokenAssumptions == TP!NoTokenAssumption
  BY ApiAssumption DEF TP!NoTokenAssumption, T!Claims, TP!Claims

\* The steps of UserService keep its calls in order.
LEMMA UserStarts ==
    ASSUME UP!UserInv, NEW p \in Procs, NEW op \in UP!Writers \cup {"read"},
           NEW n \in Names, NEW chg \in U!Change,
           op = "create" => chg.pw \in Passwords,
           U!UserStart(p, op, n, chg)
    PROVE  UP!UserInv'
<1>1. UP!UserStart(p, op, n, chg)
  BY DEF U!UserStart, UP!UserStart, U!At, UP!At, U!Writers, UP!Writers,
         U!Free, UP!Free, U!Writing, UP!Writing, U!Within, UP!Within
<1>2. chg \in UP!Change
  BY DEF U!Change, UP!Change
<1>3. QED
  BY <1>1, <1>2, UP!UserStart_Inv, UserAssumptions

LEMMA UserSteps ==
    ASSUME UP!UserInv, NEW p \in Procs, U!UserStep(p) \/ U!UserReturn(p)
    PROVE  UP!UserInv'
<1>1. UP!UserStep(p) \/ UP!UserReturn(p)
  BY DEF U!UserStep, UP!UserStep, U!UserReturn, UP!UserReturn, U!At, UP!At,
         U!ReadUser, UP!ReadUser, U!Reject, UP!Reject, U!Fetch, UP!Fetch,
         U!SetUser, UP!SetUser, U!SAddUser, UP!SAddUser, U!DelUser,
         UP!DelUser, U!SRemUser, UP!SRemUser, U!Finish, UP!Finish,
         U!Refuses, UP!Refuses, U!Written, UP!Written, U!NewUser, UP!NewUser,
         U!Updated, UP!Updated, U!LoggedIn, UP!LoggedIn, U!FailedOnce,
         UP!FailedOnce, U!Versioned, UP!Versioned, U!NoCall, UP!NoCall
<1>2. QED
  BY <1>1, UP!UserStep_Inv, UserAssumptions

LEMMA UserTime ==
    ASSUME UP!UserInv, NEW n \in Names, U!LockExpires(n)
    PROVE  UP!UserInv'
<1>1. UP!LockExpires(n)
  BY DEF U!LockExpires, UP!LockExpires, U!Unlocked, UP!Unlocked, U!At, UP!At
<1>2. QED
  BY <1>1, UP!LockExpires_Inv, UserAssumptions

\* The steps of TokenSessionService keep its invariant, and undo nothing.
LEMMA TokenStarts ==
    ASSUME TP!TokenInv, NEW p \in Procs,
           \/ \E n \in Names, v \in Nat : T!IssueStart(p, n, v)
           \/ \E j \in RefreshIds : T!ValidateStart(p, j) \/ T!RevokeStart(p, j)
           \/ \E n \in Names : T!RevokeAllStart(p, n)
           \/ \E a \in AccessIds, k \in T!Claims :
                T!RevokeAccessStart(p, a, k) \/ T!IsRevokedStart(p, a, k)
    PROVE  TP!TokenInv' /\ TP!Monotone
<1> USE DEF T!Ready, TP!Ready, T!At, TP!At, T!Enter, TP!Enter
<1>1. ASSUME NEW n \in Names, NEW v \in Nat, T!IssueStart(p, n, v)
      PROVE  TP!TokenInv' /\ TP!Monotone
  <2>1. TP!IssueStart(p, n, v)
    BY <1>1 DEF T!IssueStart, TP!IssueStart, T!Sweeping, TP!Sweeping
  <2>2. QED
    BY <2>1, TP!Issue_Inv, TokenAssumptions
<1>2. ASSUME NEW j \in RefreshIds, T!ValidateStart(p, j) \/ T!RevokeStart(p, j)
      PROVE  TP!TokenInv' /\ TP!Monotone
  <2>1. TP!ValidateStart(p, j) \/ TP!RevokeStart(p, j)
    BY <1>2 DEF T!ValidateStart, TP!ValidateStart, T!RevokeStart,
         TP!RevokeStart, T!Handed, TP!Handed, T!EnterRefused, TP!EnterRefused
  <2>2. QED
    BY <2>1, TP!Start_Inv, TokenAssumptions
<1>3. ASSUME NEW n \in Names, T!RevokeAllStart(p, n)
      PROVE  TP!TokenInv' /\ TP!Monotone
  <2>1. TP!RevokeAllStart(p, n)
    BY <1>3 DEF T!RevokeAllStart, TP!RevokeAllStart, T!Issuing, TP!Issuing,
         T!Established, TP!Established, T!Handed, TP!Handed
  <2>2. QED
    BY <2>1, TP!Start_Inv, TokenAssumptions
<1>4. ASSUME NEW a \in AccessIds, NEW k \in T!Claims,
             T!RevokeAccessStart(p, a, k) \/ T!IsRevokedStart(p, a, k)
      PROVE  TP!TokenInv' /\ TP!Monotone
  <2>1. TP!RevokeAccessStart(p, a, k) \/ TP!IsRevokedStart(p, a, k)
    BY <1>4 DEF T!RevokeAccessStart, TP!RevokeAccessStart, T!IsRevokedStart,
         TP!IsRevokedStart
  <2>2. k \in TP!Claims
    BY DEF T!Claims, TP!Claims
  <2>3. QED
    BY <2>1, <2>2, TP!Start_Inv, TokenAssumptions
<1>5. QED
  BY <1>1, <1>2, <1>3, <1>4

LEMMA TokenSteps ==
    ASSUME TP!TokenInv, NEW p \in Procs, T!TokenStep(p) \/ T!TokenReturn(p)
    PROVE  TP!TokenInv' /\ TP!Monotone
<1>1. TP!TokenStep(p) \/ TP!TokenReturn(p)
  BY DEF T!TokenStep, TP!TokenStep, T!TokenReturn, TP!TokenReturn, T!At,
         TP!At, T!SetSession, TP!SetSession, T!SAddSession, TP!SAddSession,
         T!GetSession, TP!GetSession, T!DelSession, TP!DelSession,
         T!SRemSession, TP!SRemSession, T!SMembers, TP!SMembers,
         T!DelMember, TP!DelMember, T!DelIndex, TP!DelIndex, T!BlackList,
         TP!BlackList, T!LookUp, TP!LookUp, T!Finish, TP!Finish, T!GoTo,
         TP!GoTo, T!NoCall, TP!NoCall
<1>2. QED
  BY <1>1, TP!Step_Inv, TokenAssumptions

LEMMA TokenTime ==
    ASSUME TP!TokenInv, NEW j \in RefreshIds,
           T!SessionExpires(j) \/ T!JwtExpires(j)
    PROVE  TP!TokenInv' /\ TP!Monotone
<1>1. TP!SessionExpires(j) \/ TP!JwtExpires(j)
  BY DEF T!SessionExpires, TP!SessionExpires, T!JwtExpires, TP!JwtExpires,
         T!Handed, TP!Handed
<1>2. QED
  BY <1>1, TP!Time_Inv, TokenAssumptions

-----------------------------------------------------------------------------
(* What a request awaits, and what it holds while it does *)

UserPlaces == {"user?", "auth", "failing", "recording", "reread", "lookup",
               "verify", "update", "bump", "delete", "create"}
TokenPlaces == {"revoked?", "issue", "validate", "rotate", "blacklist",
                "logout", "sweep"}

\* The endpoint whose handler is at this place.
Placed(r) ==
    /\ r.at \in UserPlaces \cup TokenPlaces
    /\ r.at = "create" <=> r.ep = "register"
    /\ r.at \in {"auth", "failing", "recording", "reread"} => r.ep = "login"
    /\ r.at \in {"validate", "lookup", "rotate"} => r.ep = "refresh"
    /\ r.at = "issue" => r.ep \in {"login", "refresh"}
    /\ r.at \in {"revoked?", "user?"}
       => r.ep \in {"me", "logout", "logoutAll", "changePassword"}
    /\ r.at = "blacklist" => r.ep \in {"logout", "logoutAll"}
    /\ r.at = "logout" => r.ep = "logout"
    /\ r.at = "verify" => r.ep = "changePassword"
    /\ r.at = "update" => r.ep \in {"update", "changePassword"}
    /\ r.at = "sweep"
       => r.ep \in {"logoutAll", "changePassword", "update", "delete"}
    /\ r.at = "bump" => r.ep \in {"logoutAll", "changePassword", "update"}
    /\ r.at = "delete" => r.ep = "delete"

\* The tokens a request carries exist and are of its account.
Carries(r) ==
    /\ r.ep = "login" => r.r = NoToken /\ r.pw \in Passwords
    /\ r.ep = "refresh" => /\ r.r \in RefreshIds /\ TP!Handed(r.r)
                           /\ refreshJwt[r.r].sub = r.name
    /\ r.ep \in {"me", "logout", "logoutAll", "changePassword"}
       => /\ r.a \in AccessIds /\ accessJwt[r.a] # NoToken
          /\ accessJwt[r.a].sub = r.name
    /\ r.ep = "logout" => r.r \in RefreshIds /\ TP!Handed(r.r)
    /\ r.ep = "changePassword" => r.chg.pw \in Passwords

\* The call u of UserService is the one r is waiting for at its place.
AwaitsUser(r, u) ==
    /\ u.pc # "idle" /\ u.name = r.name
    /\ r.at \in {"user?", "auth", "reread", "lookup", "verify"} => u.op = "read"
    /\ r.at = "failing" => u.op = "fail"
    /\ r.at = "recording" => u.op = "login"
    /\ r.at = "update" => u.op = "update" /\ u.chg = r.chg
    /\ r.at = "bump" => u.op = "bump"
    /\ r.at = "delete" => u.op = "delete"
    /\ r.at = "create" => u.op = "create"

\* The call t of TokenSessionService is.
AwaitsToken(r, t) ==
    /\ t.pc # "idle"
    /\ r.at = "revoked?" => t.op = "isRevoked"
    /\ r.at = "issue" => t.op = "issue" /\ t.claims = [sub |-> r.name, tv |-> r.tv]
    /\ r.at = "validate" => t.op = "validate"
    /\ r.at \in {"rotate", "logout"} => t.op = "revoke" /\ t.jti = r.r
    /\ r.at = "blacklist" => t.op = "revokeAccess" /\ t.jti = r.a
    /\ r.at = "sweep" => t.op = "revokeAll"

\* The commands of each call of UserService ...
UserCommands(u) ==
    u.pc # "idle" =>
      /\ u.op = "read" => u.pc \in {"get", "done"}
      /\ u.op = "delete" => u.pc \in {"get", "del", "srem", "done"}
      /\ u.op \notin {"read", "delete"} => u.pc \in {"get", "set", "sadd", "done"}

\* ... and of TokenSessionService, with what those that have returned did.
TokenCommands(t) ==
    t.pc # "idle" =>
      /\ t.op = "revoke" =>
           /\ t.pc \in {"del", "srem", "done"} /\ t.jti \in RefreshIds
           /\ t.pc = "srem" \/ (t.pc = "done" /\ t.res = "ok") => TP!Over(t.jti)
      /\ t.op = "revokeAccess" =>
           /\ t.pc \in {"black", "done"}
           /\ t.pc = "done" => t.jti \in revokedAccess
      /\ t.op = "issue" =>
           /\ t.pc \in {"set", "sadd", "done"}
           /\ t.jti \in RefreshIds
           /\ refreshJwt[t.jti] = t.claims /\ t.claims # NoToken

Fits(r, u, t) ==
    /\ UserCommands(u) /\ TokenCommands(t)
    /\ r = NoRequest => u.pc = "idle" /\ t.pc = "idle"
    /\ r # NoRequest =>
         /\ Placed(r) /\ Carries(r)
         /\ r.at \in UserPlaces => AwaitsUser(r, u) /\ t.pc = "idle"
         /\ r.at \in TokenPlaces => AwaitsToken(r, t) /\ u.pc = "idle"
         /\ r.ep = "refresh" /\ r.at = "issue" => TP!Over(r.r)

OwnTypes ==
    /\ accessJwt \in [AccessIds -> TP!Claims \cup {NoToken}]
    /\ req \in [Procs -> Request \cup {NoRequest}]
    /\ barred \in SUBSET AccessIds
    /\ barredRefresh \in SUBSET RefreshIds
    /\ password \in [AccessIds \cup RefreshIds -> Passwords \cup {Keep}]
    /\ exchanges \in [RefreshIds -> Nat]

Spent == \A r \in RefreshIds : exchanges[r] > 0 => TP!Over(r)

ApiInv == /\ UP!UserInv /\ TP!TokenInv /\ OwnTypes
          /\ \A p \in Procs : Fits(req[p], ucall[p], tcall[p])
          /\ Spent

\* What no step undoes: a signed token, the end of a session, an entry of
\* the black list.
Grows == /\ TP!Monotone
         /\ \A a \in AccessIds : accessJwt[a] # NoToken
                                 => accessJwt'[a] = accessJwt[a]
         /\ revokedAccess \subseteq revokedAccess'

LEMMA FitsKept ==
    ASSUME Grows, TP!TokenInv, NEW r \in Request \cup {NoRequest}, NEW u, NEW t,
           Fits(r, u, t)
    PROVE  Fits(r, u, t)'
<1>1. \A j \in RefreshIds : (TP!Handed(j) => TP!Handed(j)')
                            /\ (TP!Over(j) => TP!Over(j)')
  BY DEF Grows, TP!Monotone, TP!Over
<1>2. \A j \in RefreshIds : refreshJwt[j] # NoToken => refreshJwt'[j] = refreshJwt[j]
  BY DEF Grows, TP!Monotone
<1>3. \A j \in RefreshIds : TP!Handed(j) => refreshJwt[j] # NoToken
  BY DEF TP!Handed
<1>4. \A j : TP!Over(j) => TP!Handed(j)
  BY DEF TP!Over
<1>5. UserCommands(u)'
  BY DEF Fits, UserCommands
<1>6. TokenCommands(t)'
  BY <1>1, <1>2 DEF Fits, TokenCommands, Grows
<1>7. ASSUME r # NoRequest
      PROVE  Carries(r)'
  BY <1>1, <1>2, <1>3, <1>7 DEF Fits, Carries, Grows
<1>8. QED
  BY <1>1, <1>5, <1>6, <1>7 DEF Fits, Placed, AwaitsUser, AwaitsToken, Carries

\* A step of p changes its own request and calls only.
LEMMA OthersKept ==
    ASSUME ApiInv, Grows, NEW p \in Procs, NEW r \in Request \cup {NoRequest},
           NEW u, NEW t,
           req' = [req EXCEPT ![p] = r], ucall' = [ucall EXCEPT ![p] = u],
           tcall' = [tcall EXCEPT ![p] = t], Fits(r, u, t)'
    PROVE  \A q \in Procs : Fits(req[q], ucall[q], tcall[q])'
<1> SUFFICES ASSUME NEW q \in Procs
             PROVE  Fits(req[q], ucall[q], tcall[q])'
  OBVIOUS
<1>1. /\ req \in [Procs -> Request \cup {NoRequest}]
      /\ DOMAIN ucall = Procs /\ DOMAIN tcall = Procs
  BY DEF ApiInv, OwnTypes, UP!UserInv, UP!UserTypeOK, TP!TokenInv,
         TP!TokenTypeOK
<1>2. CASE q = p
  <2>1. req'[q] = r /\ ucall'[q] = u /\ tcall'[q] = t
    BY <1>1, <1>2
  <2>2. QED
    BY <2>1
<1>3. CASE q # p
  <2>1. PICK x, y, z :
          x \in Request \cup {NoRequest} /\ x = req[q] /\ y = ucall[q] /\ z = tcall[q]
    BY <1>1
  <2>2. req'[q] = x /\ ucall'[q] = y /\ tcall'[q] = z
    BY <1>1, <1>3, <2>1
  <2>3. Fits(x, y, z)
    BY <2>1 DEF ApiInv
  <2>4. TP!TokenInv
    BY DEF ApiInv
  <2>5. Fits(x, y, z)'
    BY <2>1, <2>3, <2>4, FitsKept
  <2>6. QED
    BY <2>2, <2>5
<1>4. QED
  BY <1>2, <1>3

\* A call that is idle is no call.
LEMMA IdleIsNoCall ==
    ASSUME ApiInv, NEW p \in Procs
    PROVE  /\ ucall[p].pc = "idle" => ucall[p] = UP!NoCall
           /\ tcall[p].pc = "idle" => tcall[p] = TP!NoCall
           /\ UP!NoCall.pc = "idle" /\ TP!NoCall.pc = "idle"
           /\ ucall[p].pc # "idle" => ucall[p] \in UP!Call
           /\ tcall[p].pc # "idle" => tcall[p] \in TP!Call
  BY DEF ApiInv, UP!UserInv, UP!UserTypeOK, TP!TokenInv, TP!TokenTypeOK,
         UP!NoCall, TP!NoCall, UP!Call, TP!Call

LEMMA UserQuiets ==
    ASSUME ApiInv, NEW p \in Procs, ucall[p].pc \in {"idle", "done"}, UserQuiet(p)
    PROVE  /\ UP!UserInv' /\ ucall' = [ucall EXCEPT ![p] = UP!NoCall]
           /\ UNCHANGED <<users, userIndex>>
<1>1. CASE UserDone(p)
  <2>1. U!UserReturn(p)
    BY <1>1 DEF UserQuiet
  <2>2. UP!UserInv'
    BY <2>1, UserSteps DEF ApiInv
  <2>3. QED
    BY <2>1, <2>2 DEF U!UserReturn, U!NoCall, UP!NoCall
<1>2. CASE ~UserDone(p)
  <2>1. UNCHANGED uvars /\ ucall[p].pc = "idle"
    BY <1>2 DEF UserQuiet, UserDone, U!At
  <2>2. UP!UserInv'
    BY <2>1 DEF uvars, ApiInv, UP!UserInv, UP!UserTypeOK, UP!CallsInOrder,
                UP!InOrder
  <2>3. ucall[p] = UP!NoCall
    BY <2>1, IdleIsNoCall
  <2>4. ucall' = [ucall EXCEPT ![p] = UP!NoCall]
    BY <2>1, <2>3 DEF uvars, ApiInv, UP!UserInv, UP!UserTypeOK
  <2>5. QED
    BY <2>1, <2>2, <2>4 DEF uvars
<1>3. QED
  BY <1>1, <1>2

LEMMA TokenQuiets ==
    ASSUME ApiInv, NEW p \in Procs, tcall[p].pc \in {"idle", "done"}, TokenQuiet(p)
    PROVE  /\ TP!TokenInv' /\ TP!Monotone
           /\ tcall' = [tcall EXCEPT ![p] = TP!NoCall]
           /\ UNCHANGED <<refreshJwt, expired, sessions, index, revokedAccess>>
<1>1. CASE TokenDone(p)
  <2>1. T!TokenReturn(p)
    BY <1>1 DEF TokenQuiet
  <2>2. TP!TokenInv' /\ TP!Monotone
    BY <2>1, TokenSteps DEF ApiInv
  <2>3. QED
    BY <2>1, <2>2 DEF T!TokenReturn, T!NoCall, TP!NoCall
<1>2. CASE ~TokenDone(p)
  <2>1. UNCHANGED tvars /\ tcall[p].pc = "idle"
    BY <1>2 DEF TokenQuiet, TokenDone, T!At
  <2>2. UNCHANGED TP!tvars
    BY <2>1 DEF tvars, TP!tvars
  <2>3. TP!TokenInv' /\ TP!Monotone
    BY <2>2, TP!TokenNext_Inv, TokenAssumptions DEF ApiInv
  <2>4. tcall[p] = TP!NoCall
    BY <2>1, IdleIsNoCall
  <2>5. tcall' = [tcall EXCEPT ![p] = TP!NoCall]
    BY <2>1, <2>4 DEF tvars, ApiInv, TP!TokenInv, TP!TokenTypeOK
  <2>6. QED
    BY <2>1, <2>3, <2>5 DEF tvars
<1>3. QED
  BY <1>1, <1>2

\* The call of UserService that a request begins.
NewUserCall(op, n, chg) ==
    [op |-> op, name |-> n, chg |-> chg, pc |-> "get", rec |-> NoUser,
     res |-> "none"]

\* The request of p goes on as r, awaiting UserService.
LEMMA ToUser ==
    ASSUME ApiInv, NEW p \in Procs, NEW op \in UP!Writers \cup {"read"},
           NEW chg \in U!Change, op = "create" => chg.pw \in Passwords,
           NEW r \in Request, AwaitUser(p, op, chg, r),
           tcall[p].pc \in {"idle", "done"},
           Placed(r), Carries(r), r.at \in UserPlaces,
           AwaitsUser(r, NewUserCall(op, r.name, chg))
    PROVE  /\ ApiInv' /\ Grows
           /\ req' = [req EXCEPT ![p] = r]
           /\ ucall' = [ucall EXCEPT ![p] = NewUserCall(op, r.name, chg)]
           /\ tcall' = [tcall EXCEPT ![p] = TP!NoCall]
           /\ UNCHANGED <<users, userIndex, refreshJwt, expired, sessions,
                          revokedAccess, accessJwt, history>>
<1> DEFINE u == NewUserCall(op, r.name, chg)
<1>1. /\ U!UserStart(p, op, r.name, chg) /\ TokenQuiet(p)
      /\ req' = [req EXCEPT ![p] = r] /\ UNCHANGED <<accessJwt, history>>
  BY DEF AwaitUser
<1>2. /\ TP!TokenInv' /\ TP!Monotone
      /\ tcall' = [tcall EXCEPT ![p] = TP!NoCall]
      /\ UNCHANGED <<refreshJwt, expired, sessions, index, revokedAccess>>
  BY <1>1, TokenQuiets
<1>3. r.name \in Names
  BY DEF Request
<1>4. UP!UserInv' /\ ucall' = [ucall EXCEPT ![p] = u] /\ UNCHANGED <<users, userIndex>>
  <2>1. UP!UserInv'
    BY <1>1, <1>3, UserStarts DEF ApiInv
  <2>2. QED
    BY <1>1, <2>1 DEF U!UserStart, NewUserCall
<1>5. Grows
  BY <1>1, <1>2 DEF Grows
<1>6. UserCommands(u) /\ r # NoRequest /\ TP!NoCall.pc = "idle"
  BY IdleIsNoCall DEF UserCommands, NewUserCall, Request, NoRequest
<1> HIDE DEF u
<1>7. Fits(r, u, TP!NoCall)
  BY <1>6 DEF Fits, TokenCommands, UserPlaces, TokenPlaces, Placed, u
<1>8. Fits(r, u, TP!NoCall)'
  <2>1. PICK t : t = TP!NoCall
    OBVIOUS
  <2>2. Fits(r, u, t)'
    BY <1>5, <1>7, <2>1, FitsKept DEF ApiInv
  <2>3. TP!NoCall' = t
    BY <2>1 DEF TP!NoCall
  <2>4. QED
    BY <2>2, <2>3
<1>9. \A q \in Procs : Fits(req[q], ucall[q], tcall[q])'
  BY <1>1, <1>2, <1>4, <1>5, <1>8, OthersKept
<1>10. OwnTypes'
  BY <1>1 DEF ApiInv, OwnTypes, history
<1>11. Spent'
  BY <1>1, <1>2 DEF ApiInv, Spent, history, TP!Monotone, TP!Over
<1>12. QED
  BY <1>1, <1>2, <1>4, <1>5, <1>9, <1>10, <1>11 DEF ApiInv, u

\* The call of TokenSessionService that a request begins.
NewTokenCall(op, pc, claims, jti, old, res) ==
    [op |-> op, pc |-> pc, claims |-> claims, jti |-> jti, todo |-> {},
     old |-> old, res |-> res]

\* The request of p goes on as r, awaiting the call t of TokenSessionService.
LEMMA ToToken ==
    ASSUME ApiInv, NEW p \in Procs, NEW r \in Request, NEW t,
           TP!TokenInv', TP!Monotone,
           tcall' = [tcall EXCEPT ![p] = t],
           UNCHANGED <<sessions, revokedAccess, accessJwt, history>>,
           req' = [req EXCEPT ![p] = r],
           UserQuiet(p), ucall[p].pc \in {"idle", "done"},
           Placed(r), Carries(r), r.at \in TokenPlaces, AwaitsToken(r, t),
           TokenCommands(t)',
           r.ep = "refresh" /\ r.at = "issue" => TP!Over(r.r)
    PROVE  /\ ApiInv' /\ Grows
           /\ ucall' = [ucall EXCEPT ![p] = UP!NoCall]
           /\ UNCHANGED <<users, userIndex>>
<1>1. /\ UP!UserInv' /\ ucall' = [ucall EXCEPT ![p] = UP!NoCall]
      /\ UNCHANGED <<users, userIndex>>
  BY UserQuiets
<1>2. Grows
  BY DEF Grows
<1>3. /\ r # NoRequest /\ UP!NoCall.pc = "idle"
  BY IdleIsNoCall DEF Request, NoRequest
<1>4. Fits(r, UP!NoCall, t)'
  <2>1. PICK u : u = UP!NoCall
    OBVIOUS
  <2>2. /\ \A j \in RefreshIds : (TP!Handed(j) => TP!Handed(j)')
                                 /\ (TP!Over(j) => TP!Over(j)')
        /\ \A j \in RefreshIds : TP!Handed(j) => refreshJwt'[j] = refreshJwt[j]
    BY DEF TP!Monotone, TP!Over, TP!Handed
  <2>3. Carries(r)'
    BY <2>2 DEF Carries
  <2>4. r.ep = "refresh" /\ r.at = "issue" => TP!Over(r.r)'
    BY <2>2 DEF Carries
  <2>5. Fits(r, u, t)'
    BY <1>3, <2>1, <2>3, <2>4
       DEF Fits, UserCommands, UserPlaces, TokenPlaces, Placed, AwaitsToken
  <2>6. UP!NoCall' = u
    BY <2>1 DEF UP!NoCall
  <2>7. QED
    BY <2>5, <2>6
<1>5. \A q \in Procs : Fits(req[q], ucall[q], tcall[q])'
  <2>1. PICK u : u = UP!NoCall
    OBVIOUS
  <2>2. Fits(r, u, t)'
    BY <1>4, <2>1 DEF UP!NoCall
  <2>3. QED
    BY <1>1, <1>2, <2>1, <2>2, OthersKept
<1>6. OwnTypes'
  BY DEF ApiInv, OwnTypes, history
<1>7. Spent'
  BY DEF ApiInv, Spent, history, TP!Monotone, TP!Over
<1>8. QED
  BY <1>1, <1>2, <1>5, <1>6, <1>7 DEF ApiInv

\* The starts of the calls, as the request sees them.
LEMMA IssueCalls ==
    ASSUME ApiInv, NEW p \in Procs, NEW n \in Names, NEW v \in Nat,
           T!IssueStart(p, n, v)
    PROVE  /\ TP!TokenInv' /\ TP!Monotone
           /\ UNCHANGED <<sessions, revokedAccess, expired>>
           /\ \E j \in RefreshIds :
                LET k == [sub |-> n, tv |-> v]
                    t == NewTokenCall("issue", "set", k, j, {}, "none")
                IN /\ refreshJwt[j] = NoToken
                   /\ refreshJwt' = [refreshJwt EXCEPT ![j] = k]
                   /\ tcall' = [tcall EXCEPT ![p] = t]
                   /\ TokenCommands(t)' /\ t.claims = k /\ t.op = "issue"
                   /\ t.pc = "set" /\ t.jti = j
<1>1. TP!TokenInv' /\ TP!Monotone
  BY TokenStarts DEF ApiInv
<1> DEFINE k == [sub |-> n, tv |-> v]
<1>2. PICK j \in RefreshIds :
        /\ refreshJwt[j] = NoToken
        /\ refreshJwt' = [refreshJwt EXCEPT ![j] = k]
        /\ tcall' = [tcall EXCEPT ![p] = NewTokenCall("issue", "set", k, j, {}, "none")]
  BY DEF T!IssueStart, T!Enter, NewTokenCall
<1>3. k # NoToken
  BY ApiAssumption DEF T!Claims
<1>4. refreshJwt'[j] = k
  BY <1>2 DEF ApiInv, TP!TokenInv, TP!TokenTypeOK
<1> HIDE DEF k
<1> DEFINE t == NewTokenCall("issue", "set", k, j, {}, "none")
<1>5. t.pc = "set" /\ t.op = "issue" /\ t.jti = j /\ t.claims = k
  BY DEF NewTokenCall
<1> HIDE DEF t
<1>6. TokenCommands(t)'
  BY <1>3, <1>4, <1>5 DEF TokenCommands
<1>7. UNCHANGED <<sessions, revokedAccess, expired>>
  BY DEF T!IssueStart
<1>8. QED
  BY <1>1, <1>2, <1>5, <1>6, <1>7 DEF t, k

\* Validating and revoking a token.
LEMMA RefreshCalls ==
    ASSUME ApiInv, NEW p \in Procs, NEW j \in RefreshIds,
           NEW op \in {"validate", "revoke"},
           \/ op = "validate" /\ T!ValidateStart(p, j)
           \/ op = "revoke" /\ T!RevokeStart(p, j)
    PROVE  /\ TP!TokenInv' /\ TP!Monotone
           /\ UNCHANGED <<refreshJwt, sessions, revokedAccess, expired>>
           /\ \E t : /\ tcall' = [tcall EXCEPT ![p] = t]
                     /\ t.op = op /\ t.jti = j /\ t.pc \in {"get", "del", "done"}
                     /\ TokenCommands(t)'
<1>1. TP!TokenInv' /\ TP!Monotone
  BY TokenStarts DEF ApiInv
<1>2. UNCHANGED <<refreshJwt, sessions, revokedAccess, expired>>
  BY DEF T!ValidateStart, T!RevokeStart
<1>3. PICK pc \in {"get", "del", "done"}, res \in {"none", "refused"} :
        /\ tcall' = [tcall EXCEPT ![p] =
                       NewTokenCall(op, pc, refreshJwt[j], j, {}, res)]
        /\ op = "revoke" => pc \in {"del", "done"}
        /\ pc = "done" => res = "refused"
  BY DEF T!ValidateStart, T!RevokeStart, T!Enter, T!EnterRefused, NewTokenCall
<1>4. PICK t : t = NewTokenCall(op, pc, refreshJwt[j], j, {}, res)
  OBVIOUS
<1>5. t.op = op /\ t.jti = j /\ t.pc = pc /\ t.res = res
  BY <1>4 DEF NewTokenCall
<1>6. TokenCommands(t)'
  BY <1>3, <1>5 DEF TokenCommands
<1>7. QED
  BY <1>1, <1>2, <1>3, <1>4, <1>5, <1>6

LEMMA OtherCalls ==
    ASSUME ApiInv, NEW p \in Procs, NEW op,
           \/ op = "revokeAll" /\ \E n \in Names : T!RevokeAllStart(p, n)
           \/ \E a \in AccessIds, k \in T!Claims :
                \/ op = "revokeAccess" /\ T!RevokeAccessStart(p, a, k)
                \/ op = "isRevoked" /\ T!IsRevokedStart(p, a, k)
    PROVE  /\ TP!TokenInv' /\ TP!Monotone
           /\ UNCHANGED <<refreshJwt, sessions, revokedAccess, expired>>
           /\ \E t : /\ tcall' = [tcall EXCEPT ![p] = t]
                     /\ t.op = op /\ t.pc \in {"smembers", "black", "look"}
                     /\ TokenCommands(t)'
                     /\ \A a, k : T!RevokeAccessStart(p, a, k) => t.jti = a
<1>1. TP!TokenInv' /\ TP!Monotone
  BY TokenStarts DEF ApiInv
<1>2. UNCHANGED <<refreshJwt, sessions, revokedAccess, expired>>
  BY DEF T!RevokeAllStart, T!RevokeAccessStart, T!IsRevokedStart
<1>3. PICK pc, claims, jti, old :
        /\ pc \in {"smembers", "black", "look"}
        /\ tcall' = [tcall EXCEPT ![p] =
                       NewTokenCall(op, pc, claims, jti, old, "none")]
        /\ op = "revokeAccess" => pc = "black"
        /\ op \in {"revokeAll", "revokeAccess", "isRevoked"}
  BY DEF T!RevokeAllStart, T!RevokeAccessStart, T!IsRevokedStart, T!Enter,
         NewTokenCall
<1>4. PICK t : t = NewTokenCall(op, pc, claims, jti, old, "none")
  OBVIOUS
<1>5. t.op = op /\ t.jti = jti /\ t.pc = pc
  BY <1>4 DEF NewTokenCall
<1>6. TokenCommands(t)'
  BY <1>3, <1>5 DEF TokenCommands
<1>7. ASSUME NEW a, NEW k, T!RevokeAccessStart(p, a, k)
      PROVE  t.jti = a
  <2>1. tcall'[p] = t /\ tcall'[p].jti = a
    BY <1>3, <1>4, <1>7 DEF T!RevokeAccessStart, T!Enter, ApiInv, TP!TokenInv,
                        TP!TokenTypeOK
  <2>2. QED
    BY <2>1
<1>8. QED
  BY <1>1, <1>2, <1>3, <1>4, <1>5, <1>6, <1>7

\* A request that responds.
LEMMA Quits ==
    ASSUME ApiInv, NEW p \in Procs, Quit(p),
           ucall[p].pc \in {"idle", "done"}, tcall[p].pc \in {"idle", "done"},
           \A a \in AccessIds : accessJwt[a] # NoToken
                                => accessJwt'[a] = accessJwt[a],
           OwnTypes',
           \A r \in RefreshIds : exchanges'[r] > 0 => exchanges[r] > 0 \/ TP!Over(r)
    PROVE  /\ ApiInv' /\ Grows
           /\ req' = [req EXCEPT ![p] = NoRequest]
           /\ ucall' = [ucall EXCEPT ![p] = UP!NoCall]
           /\ tcall' = [tcall EXCEPT ![p] = TP!NoCall]
           /\ UNCHANGED <<users, userIndex, refreshJwt, sessions, revokedAccess>>
<1>1. /\ UP!UserInv' /\ ucall' = [ucall EXCEPT ![p] = UP!NoCall]
      /\ UNCHANGED <<users, userIndex>>
  BY UserQuiets DEF Quit
<1>2. /\ TP!TokenInv' /\ TP!Monotone
      /\ tcall' = [tcall EXCEPT ![p] = TP!NoCall]
      /\ UNCHANGED <<refreshJwt, expired, sessions, index, revokedAccess>>
  BY TokenQuiets DEF Quit
<1>3. req' = [req EXCEPT ![p] = NoRequest]
  BY DEF Quit
<1>4. Grows
  BY <1>2 DEF Grows
<1>5. PICK r, u, t : r = NoRequest /\ u = UP!NoCall /\ t = TP!NoCall
  OBVIOUS
<1>6. Fits(r, u, t)'
  BY <1>5, IdleIsNoCall DEF Fits, UserCommands, TokenCommands
<1>7. \A q \in Procs : Fits(req[q], ucall[q], tcall[q])'
  BY <1>1, <1>2, <1>3, <1>4, <1>5, <1>6, OthersKept
<1>8. Spent'
  BY <1>2 DEF ApiInv, Spent, TP!Monotone, TP!Over
<1>9. QED
  BY <1>1, <1>2, <1>3, <1>4, <1>7, <1>8 DEF ApiInv

-----------------------------------------------------------------------------
(* The steps of a handler, by what they do to its request *)

\* r is the request o at another place, or with another token version.
SameRequest(r, o) ==
    /\ o # NoRequest
    /\ r.ep = o.ep /\ r.name = o.name /\ r.pw = o.pw /\ r.chg = o.chg
    /\ r.a = o.a /\ r.r = o.r /\ r.ends = o.ends /\ r.endsR = o.endsR

\* A request arrives.
Arrives(p, r) ==
    /\ req[p] = NoRequest /\ r # NoRequest
    /\ Admitted(r.ep, r.name)
    /\ r.at \in {"create", "auth", "validate", "update", "sweep", "revoked?"}
    /\ r.ep = "refresh" => Held(r.r)
    /\ r.ep = "logout" => r.ends = {r.a} /\ r.endsR = {r.r}
    /\ \A a \in r.ends : /\ accessJwt[a] # NoToken
                         /\ r.ep = "logout" \/ accessJwt[a].sub = r.name
    /\ \A j \in r.endsR : /\ TP!Handed(j)
                          /\ r.ep = "logout" \/ refreshJwt[j].sub = r.name
    /\ UNCHANGED <<accessJwt, refreshJwt, history>>

\* A request goes on to its next place.
GoesOn(p, r, t) ==
    LET o == req[p]
        u == ucall[p]
    IN
    /\ SameRequest(r, o)
    /\ r.at \in {"user?", "failing", "recording", "reread", "lookup", "verify",
                 "update", "bump", "delete", "issue", "rotate", "blacklist",
                 "logout", "sweep"}
    /\ r.at = "recording" => /\ o.at = "auth" /\ u.pc = "done"
                             /\ u.rec # NoUser /\ u.rec.pw = o.pw
    /\ r.at = "reread" => o.at = "recording"
    /\ r.at = "rotate" =>
         /\ o.at = "lookup" /\ u.pc = "done" /\ u.rec # NoUser
         /\ r.tv = u.rec.tv /\ r.tv = refreshJwt[o.r].tv
    /\ r.at = "issue" =>
         /\ o.ep = "login" => /\ o.at = "reread" /\ u.pc = "done"
                              /\ u.rec # NoUser /\ r.tv = u.rec.tv
         /\ o.ep = "refresh" => o.at = "rotate" /\ r.tv = o.tv
         /\ refreshJwt[t.jti] = NoToken /\ t.jti \in RefreshIds
         /\ refreshJwt' = [refreshJwt EXCEPT ![t.jti] = [sub |-> r.name, tv |-> r.tv]]
    /\ r.at # "issue" => UNCHANGED refreshJwt
    /\ r.at = "logout" => o.at = "blacklist" /\ tcall[p].pc = "done"
    /\ r.at = "update" => o.at = "verify"
    /\ r.at = "sweep" => \/ o.at = "blacklist"
                         \/ o.at = "update" /\ Invalidates(o)
    /\ o.at = "update" => r.at = "sweep"
    /\ r.at \in {"bump", "delete"} => o.at = "sweep"
    /\ o.at = "sweep" => r.at = IF o.ep = "delete" THEN "delete" ELSE "bump"
    /\ o.at \notin {"bump", "issue"}
    /\ UNCHANGED <<accessJwt, history>>

\* It responds, and the response confirms what it ended, carries new tokens
\* or does neither.
Responds(p) ==
    LET o == req[p] IN
    /\ UNCHANGED refreshJwt
    /\ \/ /\ UNCHANGED <<accessJwt, history>>
          /\ o.at \notin {"issue", "sweep"}
          /\ o.at = "update" =>
               ucall[p].pc = "done" /\ (ucall[p].res # "ok" \/ ~Invalidates(o))
          /\ o.at = "bump" => ucall[p].pc = "done" /\ ucall[p].res = "missing"
       \/ /\ \/ o.at = "logout" /\ tcall[p].pc = "done" /\ tcall[p].res = "ok"
             \/ o.at \in {"bump", "delete"} /\ ucall[p].pc = "done"
                /\ ucall[p].res = "ok"
          /\ barred' = barred \cup o.ends
          /\ barredRefresh' = barredRefresh \cup o.endsR
          /\ UNCHANGED <<accessJwt, password, exchanges>>
       \/ /\ o.at = "issue" /\ tcall[p].pc = "done"
          /\ UNCHANGED <<barred, barredRefresh>>
          /\ \E a \in AccessIds :
               LET w == IF o.ep = "login" THEN o.pw ELSE password[o.r] IN
               /\ accessJwt[a] = NoToken
               /\ accessJwt' = [accessJwt EXCEPT ![a] = [sub |-> o.name, tv |-> o.tv]]
               /\ password' = [password EXCEPT ![a] = w, ![tcall[p].jti] = w]

OwnStep(p) ==
    /\ UNCHANGED <<users, sessions, revokedAccess>>
    /\ \E r \in Request \cup {NoRequest} : \E u, t :
         /\ req' = [req EXCEPT ![p] = r]
         /\ ucall' = [ucall EXCEPT ![p] = u] /\ u.pc \in {"get", "idle"}
         /\ tcall' = [tcall EXCEPT ![p] = t]
         /\ \/ Arrives(p, r)
            \/ r # NoRequest /\ GoesOn(p, r, t)
            \/ r = NoRequest /\ req[p] # NoRequest /\ Responds(p)

\* What is known of a request at its place.
LEMMA AtPlace ==
    ASSUME ApiInv, NEW p \in Procs, Busy(p)
    PROVE  /\ req[p] \in Request /\ req[p] # NoRequest
           /\ Placed(req[p]) /\ Carries(req[p])
           /\ req[p].at \in UserPlaces
              => AwaitsUser(req[p], ucall[p]) /\ tcall[p].pc = "idle"
           /\ req[p].at \in TokenPlaces
              => AwaitsToken(req[p], tcall[p]) /\ ucall[p].pc = "idle"
           /\ req[p].ep = "refresh" /\ req[p].at = "issue" => TP!Over(req[p].r)
           /\ ucall[p].pc # "idle" => ucall[p] \in UP!Call
           /\ tcall[p].pc # "idle" => tcall[p] \in TP!Call
<1>1. req[p] \in Request /\ req[p] # NoRequest
  BY DEF ApiInv, OwnTypes, Busy
<1>2. Fits(req[p], ucall[p], tcall[p])
  BY DEF ApiInv
<1>3. QED
  BY <1>1, <1>2, IdleIsNoCall DEF Fits

\* No request, no call.
LEMMA NotBusy ==
    ASSUME ApiInv, NEW p \in Procs, ~Busy(p)
    PROVE  /\ req[p] = NoRequest
           /\ ucall[p].pc = "idle" /\ tcall[p].pc = "idle"
  BY DEF ApiInv, OwnTypes, Busy, Fits

LEMMA GotoIs ==
    ASSUME ApiInv, NEW p \in Procs, Busy(p),
           NEW at \in UserPlaces \cup TokenPlaces, NEW tv \in Nat, NEW r,
           r = Goto(p, at) \/ r = [Goto(p, at) EXCEPT !.tv = tv]
    PROVE  /\ r \in Request /\ r # NoRequest /\ SameRequest(r, req[p])
           /\ r.at = at
           /\ r = Goto(p, at) => r.tv = req[p].tv
           /\ r = [Goto(p, at) EXCEPT !.tv = tv] => r.tv = tv
           /\ Carries(r)
<1>1. req[p] \in Request /\ req[p] # NoRequest /\ Carries(req[p])
  BY AtPlace
<1>2. PICK o \in Request : o = req[p]
  BY <1>1
<1>3. r = [o EXCEPT !.at = at] \/ r = [o EXCEPT !.at = at, !.tv = tv]
  BY <1>2 DEF Goto
<1>4. /\ r \in Request /\ r.at = at
      /\ r.ep = o.ep /\ r.name = o.name /\ r.pw = o.pw /\ r.chg = o.chg
      /\ r.a = o.a /\ r.r = o.r /\ r.ends = o.ends /\ r.endsR = o.endsR
      /\ r = [o EXCEPT !.at = at] => r.tv = o.tv
      /\ r = [o EXCEPT !.at = at, !.tv = tv] => r.tv = tv
  <2>1. CASE r = [o EXCEPT !.at = at]
    <3>1. /\ r.at = at /\ r.tv = o.tv /\ r.ep = o.ep /\ r.name = o.name
          /\ r.pw = o.pw /\ r.chg = o.chg /\ r.a = o.a /\ r.r = o.r
          /\ r.ends = o.ends /\ r.endsR = o.endsR
      BY <2>1 DEF Request
    <3>2. r \in Request
      BY <2>1 DEF Request, UserPlaces, TokenPlaces
    <3>3. r = [o EXCEPT !.at = at, !.tv = tv] => r.tv = tv
      BY DEF Request
    <3>4. QED
      BY <3>1, <3>2, <3>3
  <2>2. CASE r = [o EXCEPT !.at = at, !.tv = tv]
    <3>1. /\ r.at = at /\ r.tv = tv /\ r.ep = o.ep /\ r.name = o.name
          /\ r.pw = o.pw /\ r.chg = o.chg /\ r.a = o.a /\ r.r = o.r
          /\ r.ends = o.ends /\ r.endsR = o.endsR
      BY <2>2 DEF Request
    <3>2. r \in Request
      BY <2>2 DEF Request, UserPlaces, TokenPlaces
    <3>3. r = [o EXCEPT !.at = at] => r.tv = o.tv
      BY DEF Request
    <3>4. QED
      BY <3>1, <3>2, <3>3
  <2>3. QED
    BY <1>3, <2>1, <2>2
<1>5. r # NoRequest
  BY <1>4 DEF Request, NoRequest
<1>6. SameRequest(r, req[p])
  BY <1>1, <1>2, <1>4 DEF SameRequest
<1>7. Carries(r)
  BY <1>1, <1>2, <1>4 DEF Carries
<1>8. r = Goto(p, at) => r.tv = req[p].tv
  BY <1>2, <1>4 DEF Goto
<1>9. r = [Goto(p, at) EXCEPT !.tv = tv] => r.tv = tv
  BY <1>2, <1>4 DEF Goto
<1>10. QED
  BY <1>4, <1>5, <1>6, <1>7, <1>8, <1>9

LEMMA NoChangeIsChange == U!NoChange \in U!Change
  BY DEF U!NoChange, U!Change

\* The handler of p awaits UserService next.
LEMMA GoUser ==
    ASSUME ApiInv, NEW p \in Procs, Busy(p),
           NEW op \in {"read", "fail", "login", "update", "bump", "delete"},
           NEW chg \in U!Change, NEW at \in UserPlaces, NEW r, r = Goto(p, at),
           AwaitUser(p, op, chg, r), tcall[p].pc \in {"idle", "done"},
           Placed(r), AwaitsUser(r, NewUserCall(op, r.name, chg)),
           GoesOn(p, r, TP!NoCall)
    PROVE  ApiInv' /\ Grows /\ OwnStep(p)
<1>1. r \in Request /\ r # NoRequest /\ r.at = at /\ Carries(r)
  <2>1. 0 \in Nat
    OBVIOUS
  <2>2. QED
    BY <2>1, GotoIs
<1>2. op \in UP!Writers \cup {"read"} /\ op # "create"
  BY DEF UP!Writers
<1> DEFINE u == NewUserCall(op, r.name, chg)
<1>3. /\ ApiInv' /\ Grows
      /\ req' = [req EXCEPT ![p] = r]
      /\ ucall' = [ucall EXCEPT ![p] = u]
      /\ tcall' = [tcall EXCEPT ![p] = TP!NoCall]
      /\ UNCHANGED <<users, sessions, revokedAccess>>
  BY <1>1, <1>2, ToUser
<1>4. u.pc = "get"
  BY DEF NewUserCall
<1> HIDE DEF u
<1>5. QED
  BY <1>1, <1>3, <1>4 DEF OwnStep

\* It awaits TokenSessionService next.
LEMMA GoToken ==
    ASSUME ApiInv, NEW p \in Procs, Busy(p),
           NEW r \in Request, NEW t,
           TP!TokenInv', TP!Monotone, tcall' = [tcall EXCEPT ![p] = t],
           UNCHANGED <<sessions, revokedAccess, accessJwt, history>>,
           req' = [req EXCEPT ![p] = r],
           UserQuiet(p), ucall[p].pc \in {"idle", "done"},
           Placed(r), Carries(r), r.at \in TokenPlaces, AwaitsToken(r, t),
           TokenCommands(t)',
           r.ep = "refresh" /\ r.at = "issue" => TP!Over(r.r),
           GoesOn(p, r, t)
    PROVE  ApiInv' /\ Grows /\ OwnStep(p)
<1>1. /\ ApiInv' /\ Grows
      /\ ucall' = [ucall EXCEPT ![p] = UP!NoCall]
      /\ UNCHANGED <<users, userIndex>>
  BY ToToken
<1>2. UP!NoCall.pc = "idle" /\ r # NoRequest
  BY IdleIsNoCall DEF Request, NoRequest
<1>3. QED
  BY <1>1, <1>2 DEF OwnStep

\* It responds with an error, or with nothing a property is about.
LEMMA Responding ==
    ASSUME ApiInv, NEW p \in Procs, Busy(p), Respond(p),
           ucall[p].pc \in {"idle", "done"}, tcall[p].pc \in {"idle", "done"},
           req[p].at \notin {"issue", "sweep"},
           req[p].at = "update" =>
               ucall[p].pc = "done"
               /\ (ucall[p].res # "ok" \/ ~Invalidates(req[p])),
           req[p].at = "bump" => ucall[p].pc = "done" /\ ucall[p].res = "missing"
    PROVE  ApiInv' /\ Grows /\ OwnStep(p)
<1>1. Quit(p) /\ UNCHANGED <<accessJwt, history>>
  BY DEF Respond
<1>2. OwnTypes'
  <2>1. req' = [req EXCEPT ![p] = NoRequest]
    BY <1>1 DEF Quit
  <2>2. QED
    BY <1>1, <2>1 DEF OwnTypes, history, ApiInv
<1>3. /\ ApiInv' /\ Grows
      /\ req' = [req EXCEPT ![p] = NoRequest]
      /\ ucall' = [ucall EXCEPT ![p] = UP!NoCall]
      /\ tcall' = [tcall EXCEPT ![p] = TP!NoCall]
      /\ UNCHANGED <<users, userIndex, refreshJwt, sessions, revokedAccess>>
  BY <1>1, <1>2, Quits DEF history
<1>4. Responds(p)
  BY <1>1, <1>3 DEF Responds
<1>5. UP!NoCall.pc = "idle" /\ req[p] # NoRequest
  BY IdleIsNoCall DEF Busy
<1>6. QED
  BY <1>3, <1>4, <1>5 DEF OwnStep

\* It confirms the end of some tokens.
LEMMA Confirming ==
    ASSUME ApiInv, NEW p \in Procs, Busy(p), Confirm(p),
           ucall[p].pc \in {"idle", "done"}, tcall[p].pc \in {"idle", "done"},
           \/ /\ req[p].at = "logout"
              /\ tcall[p].pc = "done" /\ tcall[p].res = "ok"
           \/ /\ req[p].at \in {"bump", "delete"}
              /\ ucall[p].pc = "done" /\ ucall[p].res = "ok"
    PROVE  ApiInv' /\ Grows /\ OwnStep(p)
<1>1. /\ Quit(p) /\ UNCHANGED <<accessJwt, password, exchanges>>
      /\ barred' = barred \cup req[p].ends
      /\ barredRefresh' = barredRefresh \cup req[p].endsR
  BY DEF Confirm
<1>2. req[p] \in Request
  BY AtPlace
<1>3. OwnTypes'
  <2>1. req' = [req EXCEPT ![p] = NoRequest]
    BY <1>1 DEF Quit
  <2>2. req[p].ends \in SUBSET AccessIds /\ req[p].endsR \in SUBSET RefreshIds
    BY <1>2 DEF Request
  <2>3. QED
    BY <1>1, <2>1, <2>2 DEF OwnTypes, ApiInv
<1>4. /\ ApiInv' /\ Grows
      /\ req' = [req EXCEPT ![p] = NoRequest]
      /\ ucall' = [ucall EXCEPT ![p] = UP!NoCall]
      /\ tcall' = [tcall EXCEPT ![p] = TP!NoCall]
      /\ UNCHANGED <<users, userIndex, refreshJwt, sessions, revokedAccess>>
  BY <1>1, <1>3, Quits
<1>5. Responds(p)
  BY <1>1, <1>4 DEF Responds
<1>6. UP!NoCall.pc = "idle" /\ req[p] # NoRequest
  BY IdleIsNoCall DEF Busy
<1>7. QED
  BY <1>4, <1>5, <1>6 DEF OwnStep


\* The places from which a handler awaits UserService, and for what.
LEMMA UserEdge ==
    ASSUME ApiInv, NEW p \in Procs, Busy(p), NEW o, o = req[p].at,
           NEW at, NEW op, NEW chg \in U!Change,
           tcall[p].pc \in {"idle", "done"},
           AwaitUser(p, op, chg, Goto(p, at)),
           \/ o = "revoked?" /\ at = "user?" /\ op = "read"
           \/ o = "user?" /\ at = "verify" /\ op = "read"
              /\ req[p].ep = "changePassword"
           \/ o = "auth" /\ at = "failing" /\ op = "fail"
           \/ o = "auth" /\ at = "recording" /\ op = "login"
              /\ ucall[p].pc = "done" /\ ucall[p].rec # NoUser
              /\ ucall[p].rec.pw = req[p].pw
           \/ o = "recording" /\ at = "reread" /\ op = "read"
           \/ o = "validate" /\ at = "lookup" /\ op = "read"
           \/ o = "verify" /\ at = "update" /\ op = "update" /\ chg = req[p].chg
           \/ o = "sweep" /\ at = "bump" /\ op = "bump" /\ req[p].ep # "delete"
           \/ o = "sweep" /\ at = "delete" /\ op = "delete" /\ req[p].ep = "delete"
    PROVE  ApiInv' /\ Grows /\ OwnStep(p)
<1>1. PICK r : r = Goto(p, at)
  OBVIOUS
<1>2. at \in UserPlaces /\ op \in {"read", "fail", "login", "update", "bump", "delete"}
  BY DEF UserPlaces
<1>3. Placed(req[p])
  BY AtPlace
<1>4. SameRequest(r, req[p]) /\ r.at = at
  BY <1>1, <1>2, GotoIs
<1>5. Placed(r)
  BY <1>2, <1>3, <1>4 DEF Placed, SameRequest
<1>6. AwaitsUser(r, NewUserCall(op, r.name, chg))
  <2>1. PICK u : u = NewUserCall(op, r.name, chg)
    OBVIOUS
  <2>2. u.pc # "idle" /\ u.name = r.name /\ u.op = op /\ u.chg = chg
    BY <2>1 DEF NewUserCall
  <2>3. r.chg = req[p].chg
    BY <1>4 DEF SameRequest
  <2>4. AwaitsUser(r, u)
    BY <1>4, <2>2, <2>3 DEF AwaitsUser
  <2>5. QED
    BY <2>1, <2>4
<1>7. UNCHANGED <<accessJwt, history, refreshJwt>>
  BY TokenQuiets DEF AwaitUser
<1>8. GoesOn(p, r, TP!NoCall)
  <2>1. req[p].ep = r.ep
    BY <1>4 DEF SameRequest
  <2>2. QED
    BY <1>4, <1>7, <2>1 DEF GoesOn
<1>9. QED
  BY <1>1, <1>2, <1>5, <1>6, <1>8, GoUser

-----------------------------------------------------------------------------
(* The middleware *)

LEMMA CheckRevokedStep ==
    ASSUME ApiInv, NEW p \in Procs, CheckRevoked(p)
    PROVE  ApiInv' /\ Grows /\ OwnStep(p)
<1>1. Busy(p) /\ req[p].at = "revoked?" /\ tcall[p].pc = "done"
  BY DEF CheckRevoked, In, TokenDone, T!At
<1>2. ucall[p].pc = "idle"
  BY <1>1, AtPlace DEF TokenPlaces
<1>3. CASE Respond(p)
  BY <1>1, <1>2, <1>3, Responding
<1>4. CASE AwaitUser(p, "read", U!NoChange, Goto(p, "user?"))
  BY <1>1, <1>4, UserEdge, NoChangeIsChange
<1>5. QED
  BY <1>3, <1>4 DEF CheckRevoked

LEMMA CheckUserStep ==
    ASSUME ApiInv, NEW p \in Procs, CheckUser(p)
    PROVE  ApiInv' /\ Grows /\ OwnStep(p)
<1>1. Busy(p) /\ req[p].at = "user?" /\ ucall[p].pc = "done"
  BY DEF CheckUser, In, UserDone, U!At
<1>2. /\ tcall[p].pc = "idle" /\ Placed(req[p]) /\ Carries(req[p])
      /\ req[p] \in Request
  BY <1>1, AtPlace DEF UserPlaces
<1>3. CASE Respond(p)
  BY <1>1, <1>2, <1>3, Responding
<1>4. CASE /\ req[p].ep \in {"logout", "logoutAll"}
           /\ AwaitToken(p, T!RevokeAccessStart(p, req[p].a, accessJwt[req[p].a]),
                         Goto(p, "blacklist"))
  <2>1. PICK r : r = Goto(p, "blacklist")
    OBVIOUS
  <2>2. /\ SameRequest(r, req[p]) /\ r.at = "blacklist" /\ r \in Request
        /\ Carries(r)
    <3>1. 0 \in Nat /\ "blacklist" \in TokenPlaces
      BY DEF TokenPlaces
    <3>2. QED
      BY <1>1, <2>1, <3>1, GotoIs
  <2>3. Placed(r)
    BY <1>2, <1>4, <2>2 DEF Placed, SameRequest, TokenPlaces, UserPlaces
  <2>4. req[p].a \in AccessIds /\ accessJwt[req[p].a] \in T!Claims
    BY <1>2, <1>4 DEF Carries, ApiInv, OwnTypes, T!Claims, TP!Claims
  <2>5. T!RevokeAccessStart(p, req[p].a, accessJwt[req[p].a])
    BY <1>4 DEF AwaitToken
  <2>6. PICK t : /\ TP!TokenInv' /\ TP!Monotone
                 /\ UNCHANGED <<refreshJwt, sessions, revokedAccess, expired>>
                 /\ tcall' = [tcall EXCEPT ![p] = t]
                 /\ t.op = "revokeAccess" /\ t.pc \in {"smembers", "black", "look"}
                 /\ TokenCommands(t)' /\ t.jti = req[p].a
    BY <2>4, <2>5, OtherCalls
  <2>7. AwaitsToken(r, t)
    BY <2>2, <2>6 DEF AwaitsToken, SameRequest
  <2>8. GoesOn(p, r, t)
    BY <1>1, <1>4, <2>1, <2>2, <2>6 DEF GoesOn, AwaitToken
  <2>9. QED
    BY <1>1, <1>2, <1>4, <2>1, <2>2, <2>3, <2>6, <2>7, <2>8, GoToken
       DEF AwaitToken, TokenPlaces
<1>5. CASE /\ req[p].ep = "changePassword"
           /\ AwaitUser(p, "read", U!NoChange, Goto(p, "verify"))
  BY <1>1, <1>2, <1>5, UserEdge, NoChangeIsChange
<1>6. QED
  BY <1>3, <1>4, <1>5 DEF CheckUser

-----------------------------------------------------------------------------
(* Login *)

LEMMA AuthenticateStep ==
    ASSUME ApiInv, NEW p \in Procs, Authenticate(p)
    PROVE  ApiInv' /\ Grows /\ OwnStep(p)
<1>1. Busy(p) /\ req[p].at = "auth" /\ ucall[p].pc = "done"
  BY DEF Authenticate, In, UserDone, U!At
<1>2. tcall[p].pc = "idle"
  BY <1>1, AtPlace DEF UserPlaces
<1>3. CASE Respond(p)
  BY <1>1, <1>2, <1>3, Responding
<1>4. CASE AwaitUser(p, "fail", U!NoChange, Goto(p, "failing"))
  BY <1>1, <1>2, <1>4, UserEdge, NoChangeIsChange
<1>5. CASE /\ MayLogIn(User(p)) /\ User(p).pw = req[p].pw
           /\ AwaitUser(p, "login", U!NoChange, Goto(p, "recording"))
  BY <1>1, <1>2, <1>5, UserEdge, NoChangeIsChange DEF MayLogIn, User
<1>6. QED
  BY <1>3, <1>4, <1>5 DEF Authenticate

LEMMA LoginFailedStep ==
    ASSUME ApiInv, NEW p \in Procs, LoginFailed(p)
    PROVE  ApiInv' /\ Grows /\ OwnStep(p)
<1>1. Busy(p) /\ req[p].at = "failing" /\ ucall[p].pc = "done" /\ Respond(p)
  BY DEF LoginFailed, In, UserDone, U!At
<1>2. tcall[p].pc = "idle"
  BY <1>1, AtPlace DEF UserPlaces
<1>3. QED
  BY <1>1, <1>2, Responding

LEMMA LoginRecordedStep ==
    ASSUME ApiInv, NEW p \in Procs, LoginRecorded(p)
    PROVE  ApiInv' /\ Grows /\ OwnStep(p)
<1>1. Busy(p) /\ req[p].at = "recording" /\ ucall[p].pc = "done"
  BY DEF LoginRecorded, In, UserDone, U!At
<1>2. tcall[p].pc = "idle"
  BY <1>1, AtPlace DEF UserPlaces
<1>3. AwaitUser(p, "read", U!NoChange, Goto(p, "reread"))
  BY DEF LoginRecorded
<1>4. QED
  BY <1>1, <1>2, <1>3, UserEdge, NoChangeIsChange

\* A handler at "reread" or "rotate" has the new refresh token issued.
LEMMA IssueEdge ==
    ASSUME ApiInv, NEW p \in Procs, Busy(p), NEW v \in Nat,
           NEW r, \/ r = Goto(p, "issue") /\ v = req[p].tv
                  \/ r = [Goto(p, "issue") EXCEPT !.tv = v],
           AwaitToken(p, T!IssueStart(p, req[p].name, v), r),
           ucall[p].pc \in {"idle", "done"},
           \/ /\ req[p].at = "reread" /\ ucall[p].pc = "done"
              /\ ucall[p].rec # NoUser /\ v = ucall[p].rec.tv
           \/ req[p].at = "rotate" /\ v = req[p].tv /\ TP!Over(req[p].r)
    PROVE  ApiInv' /\ Grows /\ OwnStep(p)
<1>1. Placed(req[p]) /\ req[p] \in Request
  BY AtPlace
<1>2. /\ SameRequest(r, req[p]) /\ r.at = "issue" /\ r.tv = v /\ r \in Request
      /\ Carries(r)
  BY GotoIs DEF TokenPlaces
<1>3. Placed(r)
  BY <1>1, <1>2 DEF Placed, SameRequest, TokenPlaces, UserPlaces
<1>4. r.name \in Names /\ r.name = req[p].name
  BY <1>2 DEF Request, SameRequest
<1>5. PICK j, t :
        /\ j \in RefreshIds
        /\ TP!TokenInv' /\ TP!Monotone
        /\ UNCHANGED <<sessions, revokedAccess, expired>>
        /\ refreshJwt[j] = NoToken
        /\ refreshJwt' = [refreshJwt EXCEPT ![j] = [sub |-> r.name, tv |-> v]]
        /\ tcall' = [tcall EXCEPT ![p] = t]
        /\ TokenCommands(t)' /\ t.claims = [sub |-> r.name, tv |-> v]
        /\ t.op = "issue" /\ t.pc = "set" /\ t.jti = j
  <2>1. T!IssueStart(p, r.name, v)
    BY <1>4 DEF AwaitToken
  <2>2. QED
    BY <1>4, <2>1, IssueCalls
<1>6. AwaitsToken(r, t)
  BY <1>2, <1>5 DEF AwaitsToken
<1>7. GoesOn(p, r, t)
  <2>1. r.ep = req[p].ep
    BY <1>2 DEF SameRequest
  <2>2. QED
    BY <1>1, <1>2, <1>5, <2>1 DEF GoesOn, AwaitToken, Placed
<1>8. r.ep = "refresh" => TP!Over(r.r)
  BY <1>1, <1>2 DEF Placed, SameRequest
<1>9. QED
  BY <1>2, <1>3, <1>5, <1>6, <1>7, <1>8, GoToken DEF AwaitToken, TokenPlaces

LEMMA LoginRereadStep ==
    ASSUME ApiInv, NEW p \in Procs, LoginReread(p)
    PROVE  ApiInv' /\ Grows /\ OwnStep(p)
<1>1. Busy(p) /\ req[p].at = "reread" /\ ucall[p].pc = "done"
  BY DEF LoginReread, In, UserDone, U!At
<1>2. tcall[p].pc = "idle" /\ ucall[p] \in UP!Call
  BY <1>1, AtPlace DEF UserPlaces
<1>3. CASE Respond(p)
  BY <1>1, <1>2, <1>3, Responding
<1>4. CASE /\ User(p) # NoUser
           /\ AwaitToken(p, T!IssueStart(p, req[p].name, User(p).tv),
                         [Goto(p, "issue") EXCEPT !.tv = User(p).tv])
  <2>1. User(p) = ucall[p].rec /\ ucall[p].rec \in UP!StoredUser
    BY <1>2, <1>4 DEF User, UP!Call
  <2>2. User(p).tv \in Nat
    BY <2>1 DEF UP!StoredUser
  <2>3. QED
    BY <1>1, <1>4, <2>1, <2>2, IssueEdge
<1>5. QED
  BY <1>3, <1>4 DEF LoginReread

LEMMA IssueTokensStep ==
    ASSUME ApiInv, NEW p \in Procs, IssueTokens(p)
    PROVE  ApiInv' /\ Grows /\ OwnStep(p)
<1>1. Busy(p) /\ req[p].at = "issue" /\ tcall[p].pc = "done"
  BY DEF IssueTokens, In, TokenDone, T!At
<1>2. /\ Placed(req[p]) /\ Carries(req[p]) /\ req[p] \in Request
      /\ AwaitsToken(req[p], tcall[p]) /\ ucall[p].pc = "idle"
      /\ req[p].ep = "refresh" => TP!Over(req[p].r)
  BY <1>1, AtPlace DEF TokenPlaces
<1>3. tcall[p].jti \in RefreshIds
  BY <1>1, <1>2 DEF ApiInv, Fits, TokenCommands, AwaitsToken
<1>4. req[p].ep \in {"login", "refresh"}
  BY <1>1, <1>2 DEF Placed
<1> DEFINE w == IF req[p].ep = "login" THEN req[p].pw ELSE password[req[p].r]
           k == [sub |-> req[p].name, tv |-> req[p].tv]
<1>5. PICK a \in AccessIds :
        /\ accessJwt[a] = NoToken
        /\ accessJwt' = [accessJwt EXCEPT ![a] = k]
        /\ password' = [password EXCEPT ![a] = w, ![tcall[p].jti] = w]
        /\ exchanges' = IF req[p].r = NoToken THEN exchanges
                        ELSE [exchanges EXCEPT ![req[p].r] = @ + 1]
  BY DEF IssueTokens
<1>6. Quit(p) /\ UNCHANGED <<barred, barredRefresh>>
  BY DEF IssueTokens
<1>7. w \in Passwords \cup {Keep} /\ k \in TP!Claims
  BY <1>2, <1>4 DEF Request, Carries, ApiInv, OwnTypes, TP!Claims
<1> HIDE DEF w, k
<1>8. req[p].r # NoToken => req[p].r \in RefreshIds /\ req[p].ep = "refresh"
  BY <1>2, <1>4 DEF Carries
<1>9. OwnTypes'
  <2>1. req' = [req EXCEPT ![p] = NoRequest]
    BY <1>6 DEF Quit
  <2>2. exchanges' \in [RefreshIds -> Nat]
    BY <1>5, <1>8 DEF ApiInv, OwnTypes
  <2>3. password' \in [AccessIds \cup RefreshIds -> Passwords \cup {Keep}]
    BY <1>5, <1>7 DEF ApiInv, OwnTypes
  <2>4. QED
    BY <1>5, <1>6, <1>7, <2>1, <2>2, <2>3 DEF ApiInv, OwnTypes
<1>10. \A r \in RefreshIds : exchanges'[r] > 0 => exchanges[r] > 0 \/ TP!Over(r)
  <2>1. CASE req[p].r = NoToken
    BY <1>5, <2>1
  <2>2. CASE req[p].r # NoToken
    <3>1. TP!Over(req[p].r)
      BY <1>2, <1>8, <2>2
    <3>2. \A r \in RefreshIds : r # req[p].r => exchanges'[r] = exchanges[r]
      BY <1>5, <2>2
    <3>3. QED
      BY <3>1, <3>2
  <2>3. QED
    BY <2>1, <2>2
<1>11. /\ ApiInv' /\ Grows
       /\ req' = [req EXCEPT ![p] = NoRequest]
       /\ ucall' = [ucall EXCEPT ![p] = UP!NoCall]
       /\ tcall' = [tcall EXCEPT ![p] = TP!NoCall]
       /\ UNCHANGED <<users, userIndex, refreshJwt, sessions, revokedAccess>>
  BY <1>1, <1>2, <1>5, <1>6, <1>9, <1>10, Quits
<1>12. Responds(p)
  BY <1>1, <1>5, <1>6, <1>11 DEF Responds, w, k
<1>13. UP!NoCall.pc = "idle" /\ req[p] # NoRequest
  BY <1>1, IdleIsNoCall DEF Busy
<1>14. QED
  BY <1>11, <1>12, <1>13 DEF OwnStep

-----------------------------------------------------------------------------
(* Refresh *)

LEMMA RefreshValidatedStep ==
    ASSUME ApiInv, NEW p \in Procs, RefreshValidated(p)
    PROVE  ApiInv' /\ Grows /\ OwnStep(p)
<1>1. Busy(p) /\ req[p].at = "validate" /\ tcall[p].pc = "done"
  BY DEF RefreshValidated, In, TokenDone, T!At
<1>2. ucall[p].pc = "idle"
  BY <1>1, AtPlace DEF TokenPlaces
<1>3. CASE Respond(p)
  BY <1>1, <1>2, <1>3, Responding
<1>4. CASE AwaitUser(p, "read", U!NoChange, Goto(p, "lookup"))
  BY <1>1, <1>4, UserEdge, NoChangeIsChange
<1>5. QED
  BY <1>3, <1>4 DEF RefreshValidated

LEMMA RefreshLookedUpStep ==
    ASSUME ApiInv, NEW p \in Procs, RefreshLookedUp(p)
    PROVE  ApiInv' /\ Grows /\ OwnStep(p)
<1>1. Busy(p) /\ req[p].at = "lookup" /\ ucall[p].pc = "done"
  BY DEF RefreshLookedUp, In, UserDone, U!At
<1>2. /\ tcall[p].pc = "idle" /\ ucall[p] \in UP!Call
      /\ Placed(req[p]) /\ Carries(req[p])
  BY <1>1, AtPlace DEF UserPlaces
<1>3. CASE Respond(p)
  BY <1>1, <1>2, <1>3, Responding
<1>4. CASE /\ Accepts(p, refreshJwt[req[p].r])
           /\ AwaitToken(p, T!RevokeStart(p, req[p].r),
                         [Goto(p, "rotate") EXCEPT !.tv = User(p).tv])
  <2>1. /\ ucall[p].rec # NoUser /\ ucall[p].rec \in UP!StoredUser
        /\ ucall[p].rec.tv = refreshJwt[req[p].r].tv
    BY <1>2, <1>4 DEF Accepts, User, UP!Call
  <2>2. ucall[p].rec.tv \in Nat
    BY <2>1 DEF UP!StoredUser
  <2>3. PICK r : r = [Goto(p, "rotate") EXCEPT !.tv = ucall[p].rec.tv]
    OBVIOUS
  <2>4. /\ SameRequest(r, req[p]) /\ r.at = "rotate" /\ r.tv = ucall[p].rec.tv
        /\ r \in Request /\ Carries(r)
    <3>1. "rotate" \in TokenPlaces
      BY DEF TokenPlaces
    <3>2. QED
      BY <1>1, <2>2, <2>3, <3>1, GotoIs
  <2>5. Placed(r)
    BY <1>1, <1>2, <2>4 DEF Placed, SameRequest, TokenPlaces, UserPlaces
  <2>6. req[p].r \in RefreshIds
    BY <1>1, <1>2 DEF Placed, Carries
  <2>7. T!RevokeStart(p, req[p].r) /\ UserQuiet(p) /\ req' = [req EXCEPT ![p] = r]
        /\ UNCHANGED <<accessJwt, history>>
    BY <1>4, <2>3 DEF AwaitToken, User
  <2>8. PICK t :
          /\ TP!TokenInv' /\ TP!Monotone
          /\ UNCHANGED <<refreshJwt, sessions, revokedAccess, expired>>
          /\ tcall' = [tcall EXCEPT ![p] = t]
          /\ t.op = "revoke" /\ t.jti = req[p].r /\ t.pc \in {"get", "del", "done"}
          /\ TokenCommands(t)'
    BY <2>6, <2>7, RefreshCalls
  <2>9. AwaitsToken(r, t)
    BY <2>4, <2>8 DEF AwaitsToken, SameRequest
  <2>10. GoesOn(p, r, t)
    BY <1>1, <2>1, <2>4, <2>7, <2>8 DEF GoesOn
  <2>11. QED
    BY <1>1, <2>4, <2>5, <2>7, <2>8, <2>9, <2>10, GoToken DEF TokenPlaces
<1>5. QED
  BY <1>3, <1>4 DEF RefreshLookedUp

LEMMA RefreshRotatedStep ==
    ASSUME ApiInv, NEW p \in Procs, RefreshRotated(p)
    PROVE  ApiInv' /\ Grows /\ OwnStep(p)
<1>1. Busy(p) /\ req[p].at = "rotate" /\ tcall[p].pc = "done"
  BY DEF RefreshRotated, In, TokenDone, T!At
<1>2. /\ ucall[p].pc = "idle" /\ req[p] \in Request
      /\ AwaitsToken(req[p], tcall[p])
  BY <1>1, AtPlace DEF TokenPlaces
<1>3. CASE Respond(p)
  BY <1>1, <1>2, <1>3, Responding
<1>4. CASE /\ TokenRes(p) = "ok"
           /\ AwaitToken(p, T!IssueStart(p, req[p].name, req[p].tv),
                         Goto(p, "issue"))
  <2>1. TP!Over(req[p].r)
    BY <1>1, <1>2, <1>4 DEF TokenRes, AwaitsToken, ApiInv, Fits, TokenCommands
  <2>2. req[p].tv \in Nat
    BY <1>2 DEF Request
  <2>3. QED
    BY <1>1, <1>2, <1>4, <2>1, <2>2, IssueEdge
<1>5. QED
  BY <1>3, <1>4 DEF RefreshRotated

-----------------------------------------------------------------------------
(* Logout, logout-all, password change, administration *)

\* A handler has all sessions of its account revoked.
LEMMA SweepEdge ==
    ASSUME ApiInv, NEW p \in Procs, Busy(p),
           AwaitToken(p, T!RevokeAllStart(p, req[p].name), Goto(p, "sweep")),
           ucall[p].pc \in {"idle", "done"},
           \/ req[p].at = "blacklist" /\ req[p].ep = "logoutAll"
           \/ req[p].at = "update" /\ Invalidates(req[p])
    PROVE  ApiInv' /\ Grows /\ OwnStep(p)
<1>1. Placed(req[p]) /\ req[p] \in Request
  BY AtPlace
<1>2. PICK r : r = Goto(p, "sweep")
  OBVIOUS
<1>3. SameRequest(r, req[p]) /\ r.at = "sweep" /\ r \in Request /\ Carries(r)
  <2>1. 0 \in Nat /\ "sweep" \in TokenPlaces
    BY DEF TokenPlaces
  <2>2. QED
    BY <1>2, <2>1, GotoIs
<1>4. Placed(r)
  BY <1>1, <1>3 DEF Placed, SameRequest, TokenPlaces, UserPlaces
<1>5. PICK t :
        /\ TP!TokenInv' /\ TP!Monotone
        /\ UNCHANGED <<refreshJwt, sessions, revokedAccess, expired>>
        /\ tcall' = [tcall EXCEPT ![p] = t]
        /\ t.op = "revokeAll" /\ t.pc \in {"smembers", "black", "look"}
        /\ TokenCommands(t)'
  <2>1. req[p].name \in Names
    BY <1>1 DEF Request
  <2>2. QED
    BY <2>1, OtherCalls DEF AwaitToken
<1>6. AwaitsToken(r, t)
  BY <1>3, <1>5 DEF AwaitsToken
<1>7. GoesOn(p, r, t)
  BY <1>1, <1>3, <1>5 DEF GoesOn, AwaitToken
<1>8. QED
  BY <1>2, <1>3, <1>4, <1>5, <1>6, <1>7, GoToken DEF AwaitToken, TokenPlaces

LEMMA BlackListedStep ==
    ASSUME ApiInv, NEW p \in Procs, BlackListed(p)
    PROVE  ApiInv' /\ Grows /\ OwnStep(p)
<1>1. Busy(p) /\ req[p].at = "blacklist" /\ tcall[p].pc = "done"
  BY DEF BlackListed, In, TokenDone, T!At
<1>2. /\ ucall[p].pc = "idle" /\ req[p] \in Request /\ Carries(req[p])
      /\ Placed(req[p])
  BY <1>1, AtPlace DEF TokenPlaces
<1>3. CASE /\ req[p].ep = "logout"
           /\ AwaitToken(p, T!RevokeStart(p, req[p].r), Goto(p, "logout"))
  <2>1. PICK r : r = Goto(p, "logout")
    OBVIOUS
  <2>2. SameRequest(r, req[p]) /\ r.at = "logout" /\ r \in Request /\ Carries(r)
    <3>1. 0 \in Nat /\ "logout" \in TokenPlaces
      BY DEF TokenPlaces
    <3>2. QED
      BY <1>1, <2>1, <3>1, GotoIs
  <2>3. Placed(r)
    BY <1>1, <1>2, <1>3, <2>2 DEF Placed, SameRequest, TokenPlaces, UserPlaces
  <2>4. PICK t :
          /\ TP!TokenInv' /\ TP!Monotone
          /\ UNCHANGED <<refreshJwt, sessions, revokedAccess, expired>>
          /\ tcall' = [tcall EXCEPT ![p] = t]
          /\ t.op = "revoke" /\ t.jti = req[p].r /\ t.pc \in {"get", "del", "done"}
          /\ TokenCommands(t)'
    BY <1>2, <1>3, RefreshCalls DEF Carries, AwaitToken
  <2>5. AwaitsToken(r, t)
    BY <2>2, <2>4 DEF AwaitsToken, SameRequest
  <2>6. GoesOn(p, r, t)
    BY <1>1, <1>3, <2>2, <2>4 DEF GoesOn, AwaitToken
  <2>7. QED
    BY <1>1, <1>2, <1>3, <2>1, <2>2, <2>3, <2>4, <2>5, <2>6, GoToken
       DEF AwaitToken, TokenPlaces
<1>4. CASE /\ req[p].ep = "logoutAll"
           /\ AwaitToken(p, T!RevokeAllStart(p, req[p].name), Goto(p, "sweep"))
  BY <1>1, <1>2, <1>4, SweepEdge
<1>5. QED
  BY <1>3, <1>4 DEF BlackListed

LEMMA LoggedOutStep ==
    ASSUME ApiInv, NEW p \in Procs, LoggedOut(p)
    PROVE  ApiInv' /\ Grows /\ OwnStep(p)
<1>1. Busy(p) /\ req[p].at = "logout" /\ tcall[p].pc = "done"
  BY DEF LoggedOut, In, TokenDone, T!At
<1>2. ucall[p].pc = "idle"
  BY <1>1, AtPlace DEF TokenPlaces
<1>3. CASE Respond(p)
  BY <1>1, <1>2, <1>3, Responding
<1>4. CASE TokenRes(p) = "ok" /\ Confirm(p)
  BY <1>1, <1>2, <1>4, Confirming DEF TokenRes
<1>5. QED
  BY <1>3, <1>4 DEF LoggedOut

LEMMA PasswordVerifiedStep ==
    ASSUME ApiInv, NEW p \in Procs, PasswordVerified(p)
    PROVE  ApiInv' /\ Grows /\ OwnStep(p)
<1>1. Busy(p) /\ req[p].at = "verify" /\ ucall[p].pc = "done"
  BY DEF PasswordVerified, In, UserDone, U!At
<1>2. tcall[p].pc = "idle" /\ req[p] \in Request
  BY <1>1, AtPlace DEF UserPlaces
<1>3. CASE Respond(p)
  BY <1>1, <1>2, <1>3, Responding
<1>4. CASE AwaitUser(p, "update", req[p].chg, Goto(p, "update"))
  <2>1. req[p].chg \in U!Change
    BY <1>2 DEF Request
  <2>2. QED
    BY <1>1, <1>2, <1>4, <2>1, UserEdge
<1>5. QED
  BY <1>3, <1>4 DEF PasswordVerified

LEMMA AccountUpdatedStep ==
    ASSUME ApiInv, NEW p \in Procs, AccountUpdated(p)
    PROVE  ApiInv' /\ Grows /\ OwnStep(p)
<1>1. Busy(p) /\ req[p].at = "update" /\ ucall[p].pc = "done"
  BY DEF AccountUpdated, In, UserDone, U!At
<1>2. tcall[p].pc = "idle"
  BY <1>1, AtPlace DEF UserPlaces
<1>3. CASE /\ ucall[p].res = "missing" \/ ~Invalidates(req[p])
           /\ Respond(p)
  BY <1>1, <1>2, <1>3, Responding
<1>4. CASE /\ Invalidates(req[p])
           /\ AwaitToken(p, T!RevokeAllStart(p, req[p].name), Goto(p, "sweep"))
  BY <1>1, <1>4, SweepEdge
<1>5. QED
  BY <1>3, <1>4 DEF AccountUpdated

LEMMA SweptStep ==
    ASSUME ApiInv, NEW p \in Procs, Swept(p)
    PROVE  ApiInv' /\ Grows /\ OwnStep(p)
<1>1. Busy(p) /\ req[p].at = "sweep" /\ tcall[p].pc = "done"
  BY DEF Swept, In, TokenDone, T!At
<1>2. CASE /\ req[p].ep = "delete"
           /\ AwaitUser(p, "delete", U!NoChange, Goto(p, "delete"))
  BY <1>1, <1>2, UserEdge, NoChangeIsChange
<1>3. CASE /\ req[p].ep # "delete"
           /\ AwaitUser(p, "bump", U!NoChange, Goto(p, "bump"))
  BY <1>1, <1>3, UserEdge, NoChangeIsChange
<1>4. QED
  BY <1>2, <1>3 DEF Swept

LEMMA EndedStep ==
    ASSUME ApiInv, NEW p \in Procs, Ended(p)
    PROVE  ApiInv' /\ Grows /\ OwnStep(p)
<1>1. Busy(p) /\ req[p].at \in {"bump", "delete"} /\ ucall[p].pc = "done"
  BY DEF Ended, In, UserDone, U!At
<1>2. tcall[p].pc = "idle"
  BY <1>1, AtPlace DEF UserPlaces
<1>3. CASE ucall[p].res = "missing" /\ Respond(p)
  BY <1>1, <1>2, <1>3, Responding
<1>4. CASE ucall[p].res = "ok" /\ Confirm(p)
  BY <1>1, <1>2, <1>4, Confirming
<1>5. QED
  BY <1>3, <1>4 DEF Ended

LEMMA CreatedStep ==
    ASSUME ApiInv, NEW p \in Procs, Created(p)
    PROVE  ApiInv' /\ Grows /\ OwnStep(p)
<1>1. Busy(p) /\ req[p].at = "create" /\ ucall[p].pc = "done" /\ Respond(p)
  BY DEF Created, In, UserDone, U!At
<1>2. tcall[p].pc = "idle"
  BY <1>1, AtPlace DEF UserPlaces
<1>3. QED
  BY <1>1, <1>2, Responding

LEMMA HandleStep ==
    ASSUME ApiInv, NEW p \in Procs, Handle(p)
    PROVE  ApiInv' /\ Grows /\ OwnStep(p)
  BY CheckRevokedStep, CheckUserStep, AuthenticateStep, LoginFailedStep,
     LoginRecordedStep, LoginRereadStep, IssueTokensStep, RefreshValidatedStep,
     RefreshLookedUpStep, RefreshRotatedStep, BlackListedStep, LoggedOutStep,
     PasswordVerifiedStep, AccountUpdatedStep, SweptStep, EndedStep, CreatedStep
     DEF Handle

-----------------------------------------------------------------------------
(* Requests arrive *)

LEMMA NewRequestType ==
    ASSUME NEW ep \in AllEndpoints, NEW n \in Names,
           NEW at \in UserPlaces \cup TokenPlaces, NEW r, r = NewRequest(ep, at, n)
    PROVE  /\ r \in Request
           /\ r.ep = ep /\ r.at = at /\ r.name = n /\ r.pw = Keep
           /\ r.a = NoToken /\ r.r = NoToken /\ r.chg = U!NoChange
           /\ r.ends = {} /\ r.endsR = {}
  BY NoChangeIsChange DEF NewRequest, Request, UserPlaces, TokenPlaces

\* What a request that will end every session of its account names.
LEMMA EndsOfAccount ==
    ASSUME NEW n
    PROVE  /\ AccessOf(n) \in SUBSET AccessIds
           /\ RefreshOf(n) \in SUBSET RefreshIds
           /\ \A a \in AccessOf(n) : accessJwt[a] # NoToken /\ accessJwt[a].sub = n
           /\ \A j \in RefreshOf(n) : TP!Handed(j) /\ refreshJwt[j].sub = n
  BY DEF AccessOf, RefreshOf, T!Handed, TP!Handed

LEMMA ArriveUser ==
    ASSUME ApiInv, NEW p \in Procs, ~Busy(p),
           NEW op \in {"read", "create", "update"}, NEW chg \in U!Change,
           op = "create" => chg.pw \in Passwords,
           NEW r \in Request, AwaitUser(p, op, chg, r),
           Placed(r), Carries(r), r.at \in UserPlaces,
           AwaitsUser(r, NewUserCall(op, r.name, chg)),
           UNCHANGED refreshJwt => Arrives(p, r)
    PROVE  ApiInv' /\ Grows /\ OwnStep(p)
<1>1. ucall[p].pc = "idle" /\ tcall[p].pc = "idle"
  BY NotBusy
<1>2. op \in UP!Writers \cup {"read"}
  BY DEF UP!Writers
<1> DEFINE u == NewUserCall(op, r.name, chg)
<1>3. /\ ApiInv' /\ Grows
      /\ req' = [req EXCEPT ![p] = r]
      /\ ucall' = [ucall EXCEPT ![p] = u]
      /\ tcall' = [tcall EXCEPT ![p] = TP!NoCall]
      /\ UNCHANGED <<users, refreshJwt, sessions, revokedAccess>>
  BY <1>1, <1>2, ToUser
<1>4. u.pc = "get"
  BY DEF NewUserCall
<1> HIDE DEF u
<1>5. QED
  BY <1>3, <1>4 DEF OwnStep

LEMMA ArriveToken ==
    ASSUME ApiInv, NEW p \in Procs, ~Busy(p), NEW r \in Request, NEW t,
           TP!TokenInv', TP!Monotone, tcall' = [tcall EXCEPT ![p] = t],
           UNCHANGED <<refreshJwt, sessions, revokedAccess, accessJwt, history>>,
           req' = [req EXCEPT ![p] = r], UserQuiet(p),
           Placed(r), Carries(r), r.at \in TokenPlaces \ {"issue"},
           AwaitsToken(r, t), TokenCommands(t)', Arrives(p, r)
    PROVE  ApiInv' /\ Grows /\ OwnStep(p)
<1>1. ucall[p].pc = "idle" /\ tcall[p].pc = "idle"
  BY NotBusy
<1>2. /\ ApiInv' /\ Grows
      /\ ucall' = [ucall EXCEPT ![p] = UP!NoCall]
      /\ UNCHANGED <<users, userIndex>>
  BY <1>1, ToToken
<1>3. UP!NoCall.pc = "idle"
  BY IdleIsNoCall
<1>4. QED
  BY <1>2, <1>3 DEF OwnStep

LEMMA RegisterStep ==
    ASSUME ApiInv, NEW p \in Procs, NEW n \in Names, NEW pw \in Passwords,
           Register(p, n, pw)
    PROVE  ApiInv' /\ Grows /\ OwnStep(p)
<1> DEFINE chg == [U!NoChange EXCEPT !.pw = pw]
<1>1. chg \in U!Change /\ chg.pw = pw
  BY DEF U!NoChange, U!Change
<1>2. PICK r : r = NewRequest("register", "create", n)
  OBVIOUS
<1>3. /\ r \in Request /\ r.ep = "register" /\ r.at = "create" /\ r.name = n
      /\ r.ends = {} /\ r.endsR = {}
  BY <1>2, NewRequestType DEF AllEndpoints, AccountWriters, UserPlaces
<1>4. ~Busy(p) /\ Admitted("register", n) /\ AwaitUser(p, "create", chg, r)
  BY <1>2 DEF Register
<1> HIDE DEF chg
<1>5. Placed(r) /\ Carries(r) /\ r.at \in UserPlaces
  BY <1>3 DEF Placed, Carries, UserPlaces, TokenPlaces
<1>6. AwaitsUser(r, NewUserCall("create", r.name, chg))
  BY <1>3 DEF AwaitsUser, NewUserCall
<1>7. UNCHANGED refreshJwt => Arrives(p, r)
  BY <1>3, <1>4, NotBusy DEF Arrives, AwaitUser, Request, NoRequest
<1>8. QED
  BY <1>1, <1>3, <1>4, <1>5, <1>6, <1>7, ArriveUser

LEMMA LoginStep ==
    ASSUME ApiInv, NEW p \in Procs, NEW n \in Names, NEW pw \in Passwords,
           Login(p, n, pw)
    PROVE  ApiInv' /\ Grows /\ OwnStep(p)
<1>1. PICK q : q = NewRequest("login", "auth", n)
  OBVIOUS
<1>2. /\ q \in Request /\ q.ep = "login" /\ q.at = "auth" /\ q.name = n
      /\ q.ends = {} /\ q.endsR = {} /\ q.r = NoToken
  BY <1>1, NewRequestType DEF AllEndpoints, AccountWriters, UserPlaces
<1>3. PICK r : r = [q EXCEPT !.pw = pw]
  OBVIOUS
<1>4. /\ r \in Request /\ r.ep = "login" /\ r.at = "auth" /\ r.name = n
      /\ r.ends = {} /\ r.endsR = {} /\ r.r = NoToken /\ r.pw = pw
  BY <1>2, <1>3 DEF Request
<1>5. ~Busy(p) /\ Admitted("login", n) /\ AwaitUser(p, "read", U!NoChange, r)
  BY <1>1, <1>3 DEF Login
<1>6. Placed(r) /\ Carries(r) /\ r.at \in UserPlaces
  BY <1>4 DEF Placed, Carries, UserPlaces, TokenPlaces
<1>7. AwaitsUser(r, NewUserCall("read", r.name, U!NoChange))
  BY <1>4 DEF AwaitsUser, NewUserCall
<1>8. UNCHANGED refreshJwt => Arrives(p, r)
  BY <1>4, <1>5, NotBusy DEF Arrives, AwaitUser, Request, NoRequest
<1>9. QED
  BY <1>4, <1>5, <1>6, <1>7, <1>8, ArriveUser, NoChangeIsChange

LEMMA AdminUpdateStep ==
    ASSUME ApiInv, NEW p \in Procs, NEW n \in Names, NEW chg \in U!Change,
           AdminUpdate(p, n, chg)
    PROVE  ApiInv' /\ Grows /\ OwnStep(p)
<1>1. PICK q : q = NewRequest("update", "update", n)
  OBVIOUS
<1>2. q \in Request /\ q.ep = "update" /\ q.at = "update" /\ q.name = n
  BY <1>1, NewRequestType DEF AllEndpoints, AccountWriters, UserPlaces
<1>3. PICK r : r = Ending([q EXCEPT !.chg = chg])
  OBVIOUS
<1>4. /\ r \in Request /\ r.ep = "update" /\ r.at = "update" /\ r.name = n
      /\ r.chg = chg /\ r.ends = AccessOf(n) /\ r.endsR = RefreshOf(n)
  BY <1>2, <1>3, EndsOfAccount DEF Request, Ending
<1>5. ~Busy(p) /\ Admitted("update", n) /\ AwaitUser(p, "update", chg, r)
  BY <1>1, <1>3 DEF AdminUpdate
<1>6. Placed(r) /\ Carries(r) /\ r.at \in UserPlaces
  BY <1>4 DEF Placed, Carries, UserPlaces, TokenPlaces
<1>7. AwaitsUser(r, NewUserCall("update", r.name, chg))
  BY <1>4 DEF AwaitsUser, NewUserCall
<1>8. UNCHANGED refreshJwt => Arrives(p, r)
  BY <1>4, <1>5, NotBusy, EndsOfAccount DEF Arrives, AwaitUser, Request, NoRequest
<1>9. QED
  BY <1>4, <1>5, <1>6, <1>7, <1>8, ArriveUser

LEMMA AdminDeleteStep ==
    ASSUME ApiInv, NEW p \in Procs, NEW n \in Names, AdminDelete(p, n)
    PROVE  ApiInv' /\ Grows /\ OwnStep(p)
<1>1. PICK q : q = NewRequest("delete", "sweep", n)
  OBVIOUS
<1>2. q \in Request /\ q.ep = "delete" /\ q.at = "sweep" /\ q.name = n
  BY <1>1, NewRequestType DEF AllEndpoints, AccountWriters, TokenPlaces
<1>3. PICK r : r = Ending(q)
  OBVIOUS
<1>4. /\ r \in Request /\ r.ep = "delete" /\ r.at = "sweep" /\ r.name = n
      /\ r.ends = AccessOf(n) /\ r.endsR = RefreshOf(n)
  BY <1>2, <1>3, EndsOfAccount DEF Request, Ending
<1>5. ~Busy(p) /\ Admitted("delete", n) /\ AwaitToken(p, T!RevokeAllStart(p, n), r)
  BY <1>1, <1>3 DEF AdminDelete
<1>6. Placed(r) /\ Carries(r) /\ r.at \in TokenPlaces \ {"issue"}
  BY <1>4 DEF Placed, Carries, UserPlaces, TokenPlaces
<1>7. PICK t :
        /\ TP!TokenInv' /\ TP!Monotone
        /\ UNCHANGED <<refreshJwt, sessions, revokedAccess, expired>>
        /\ tcall' = [tcall EXCEPT ![p] = t]
        /\ t.op = "revokeAll" /\ t.pc \in {"smembers", "black", "look"}
        /\ TokenCommands(t)'
  BY <1>5, OtherCalls DEF AwaitToken
<1>8. AwaitsToken(r, t)
  BY <1>4, <1>7 DEF AwaitsToken
<1>9. Arrives(p, r)
  BY <1>4, <1>5, <1>7, NotBusy, EndsOfAccount
     DEF Arrives, AwaitToken, Request, NoRequest
<1>10. QED
  BY <1>4, <1>5, <1>6, <1>7, <1>8, <1>9, ArriveToken DEF AwaitToken

LEMMA RefreshStep ==
    ASSUME ApiInv, NEW p \in Procs, NEW j \in RefreshIds, Refresh(p, j)
    PROVE  ApiInv' /\ Grows /\ OwnStep(p)
<1>1. ~Busy(p) /\ Held(j) /\ TP!Handed(j)
  BY DEF Refresh, Held, T!Handed, TP!Handed
<1>2. PICK n : n = refreshJwt[j].sub
  OBVIOUS
<1>3. n \in Names
  BY <1>1, <1>2 DEF TP!Handed, ApiInv, TP!TokenInv, TP!TokenTypeOK, TP!Claims
<1>4. PICK q : q = NewRequest("refresh", "validate", n)
  OBVIOUS
<1>5. /\ q \in Request /\ q.ep = "refresh" /\ q.at = "validate" /\ q.name = n
      /\ q.ends = {} /\ q.endsR = {}
  BY <1>3, <1>4, NewRequestType DEF AllEndpoints, AccountWriters, TokenPlaces
<1>6. PICK r : r = [q EXCEPT !.r = j]
  OBVIOUS
<1>7. /\ r \in Request /\ r.ep = "refresh" /\ r.at = "validate" /\ r.name = n
      /\ r.ends = {} /\ r.endsR = {} /\ r.r = j
  BY <1>5, <1>6 DEF Request
<1>8. Admitted("refresh", n) /\ AwaitToken(p, T!ValidateStart(p, j), r)
  BY <1>2, <1>4, <1>6 DEF Refresh
<1>9. Placed(r) /\ Carries(r) /\ r.at \in TokenPlaces \ {"issue"}
  BY <1>1, <1>2, <1>7 DEF Placed, Carries, UserPlaces, TokenPlaces
<1>10. PICK t :
         /\ TP!TokenInv' /\ TP!Monotone
         /\ UNCHANGED <<refreshJwt, sessions, revokedAccess, expired>>
         /\ tcall' = [tcall EXCEPT ![p] = t]
         /\ t.op = "validate" /\ t.jti = j /\ t.pc \in {"get", "del", "done"}
         /\ TokenCommands(t)'
  BY <1>8, RefreshCalls DEF AwaitToken
<1>11. AwaitsToken(r, t)
  BY <1>7, <1>10 DEF AwaitsToken
<1>12. Arrives(p, r)
  BY <1>1, <1>7, <1>8, <1>10, NotBusy DEF Arrives, AwaitToken, Request, NoRequest
<1>13. QED
  BY <1>1, <1>7, <1>8, <1>9, <1>10, <1>11, <1>12, ArriveToken DEF AwaitToken

\* A request with a bearer token: what is left to show about its arguments.
LEMMA BearerStep ==
    ASSUME ApiInv, NEW p \in Procs, NEW a \in AccessIds, NEW q \in Request,
           Bearer(p, a, q), q.at = "revoked?", q.name = accessJwt[a].sub,
           q.ep \in {"me", "logout", "logoutAll", "changePassword"},
           q.ep = "changePassword" => q.chg.pw \in Passwords,
           q.ep = "logout" => /\ q.r \in RefreshIds /\ TP!Handed(q.r)
                              /\ q.ends = {a} /\ q.endsR = {q.r},
           \A e \in q.ends : /\ accessJwt[e] # NoToken
                             /\ q.ep = "logout" \/ accessJwt[e].sub = q.name,
           \A j \in q.endsR : /\ TP!Handed(j)
                              /\ q.ep = "logout" \/ refreshJwt[j].sub = q.name
    PROVE  ApiInv' /\ Grows /\ OwnStep(p)
<1>1. PICK r : r = [q EXCEPT !.a = a]
  OBVIOUS
<1>2. /\ r \in Request /\ r.ep = q.ep /\ r.at = q.at /\ r.name = q.name
      /\ r.a = a /\ r.r = q.r /\ r.chg = q.chg
      /\ r.ends = q.ends /\ r.endsR = q.endsR
  BY <1>1 DEF Request
<1>3. /\ ~Busy(p) /\ accessJwt[a] # NoToken /\ Admitted(q.ep, q.name)
      /\ AwaitToken(p, T!IsRevokedStart(p, a, accessJwt[a]), r)
  BY <1>1 DEF Bearer
<1>4. Placed(r) /\ Carries(r) /\ r.at \in TokenPlaces \ {"issue"}
  BY <1>2, <1>3 DEF Placed, Carries, UserPlaces, TokenPlaces
<1>5. accessJwt[a] \in T!Claims
  BY <1>3 DEF ApiInv, OwnTypes, T!Claims, TP!Claims
<1>6. PICK t :
        /\ TP!TokenInv' /\ TP!Monotone
        /\ UNCHANGED <<refreshJwt, sessions, revokedAccess, expired>>
        /\ tcall' = [tcall EXCEPT ![p] = t]
        /\ t.op = "isRevoked" /\ t.pc \in {"smembers", "black", "look"}
        /\ TokenCommands(t)'
  BY <1>3, <1>5, OtherCalls DEF AwaitToken
<1>7. AwaitsToken(r, t)
  BY <1>2, <1>6 DEF AwaitsToken
<1>8. Arrives(p, r)
  BY <1>2, <1>3, <1>6, NotBusy DEF Arrives, AwaitToken, Request, NoRequest
<1>9. QED
  BY <1>2, <1>3, <1>4, <1>6, <1>7, <1>8, ArriveToken DEF AwaitToken

LEMMA BearerRequestStep ==
    ASSUME ApiInv, NEW p \in Procs, NEW a \in AccessIds, accessJwt[a] # NoToken,
           BearerRequest(p, a)
    PROVE  ApiInv' /\ Grows /\ OwnStep(p)
<1>1. PICK n : n = accessJwt[a].sub
  OBVIOUS
<1>2. n \in Names
  BY <1>1 DEF ApiInv, OwnTypes, TP!Claims
<1>3. \A ep \in {"me", "logout", "logoutAll", "changePassword"} :
        LET q == NewRequest(ep, "revoked?", n) IN
        /\ q \in Request /\ q.ep = ep /\ q.at = "revoked?" /\ q.name = n
        /\ q.ends = {} /\ q.endsR = {}
  BY <1>2, NewRequestType DEF AllEndpoints, AccountWriters, TokenPlaces
<1>4. CASE Bearer(p, a, NewRequest("me", "revoked?", n))
  <2>1. PICK q : q = NewRequest("me", "revoked?", n)
    OBVIOUS
  <2>2. QED
    BY <1>1, <1>3, <1>4, <2>1, BearerStep
<1>5. CASE Bearer(p, a, Ending(NewRequest("logoutAll", "revoked?", n)))
  <2>1. PICK q : q = NewRequest("logoutAll", "revoked?", n)
    OBVIOUS
  <2>2. q \in Request /\ q.ep = "logoutAll" /\ q.at = "revoked?" /\ q.name = n
    BY <1>3, <2>1
  <2>3. PICK r : r = Ending(q)
    OBVIOUS
  <2>4. /\ r \in Request /\ r.ep = "logoutAll" /\ r.at = "revoked?" /\ r.name = n
        /\ r.ends = AccessOf(n) /\ r.endsR = RefreshOf(n)
    BY <2>2, <2>3, EndsOfAccount DEF Request, Ending
  <2>5. QED
    BY <1>1, <1>5, <2>1, <2>3, <2>4, BearerStep, EndsOfAccount
<1>6. CASE \E j \in RefreshIds :
             /\ Held(j)
             /\ Bearer(p, a, [NewRequest("logout", "revoked?", n)
                                EXCEPT !.r = j, !.ends = {a}, !.endsR = {j}])
  <2>1. PICK j \in RefreshIds :
          /\ TP!Handed(j)
          /\ Bearer(p, a, [NewRequest("logout", "revoked?", n)
                             EXCEPT !.r = j, !.ends = {a}, !.endsR = {j}])
    BY <1>6 DEF Held, T!Handed, TP!Handed
  <2>2. PICK q : q = NewRequest("logout", "revoked?", n)
    OBVIOUS
  <2>3. q \in Request /\ q.ep = "logout" /\ q.at = "revoked?" /\ q.name = n
    BY <1>3, <2>2
  <2>4. PICK r : r = [q EXCEPT !.r = j, !.ends = {a}, !.endsR = {j}]
    OBVIOUS
  <2>5. /\ r \in Request /\ r.ep = "logout" /\ r.at = "revoked?" /\ r.name = n
        /\ r.ends = {a} /\ r.endsR = {j} /\ r.r = j
    BY <2>3, <2>4 DEF Request
  <2>6. QED
    BY <1>1, <2>1, <2>2, <2>4, <2>5, BearerStep
<1>7. CASE \E pw, new \in Passwords :
             Bearer(p, a, Ending([NewRequest("changePassword", "revoked?", n)
                EXCEPT !.pw = pw, !.chg = [U!NoChange EXCEPT !.pw = new]]))
  <2>1. PICK pw \in Passwords, new \in Passwords :
          Bearer(p, a, Ending([NewRequest("changePassword", "revoked?", n)
                EXCEPT !.pw = pw, !.chg = [U!NoChange EXCEPT !.pw = new]]))
    BY <1>7
  <2>2. PICK q, chg : /\ q = NewRequest("changePassword", "revoked?", n)
                      /\ chg = [U!NoChange EXCEPT !.pw = new]
    OBVIOUS
  <2>3. /\ q \in Request /\ q.ep = "changePassword" /\ q.at = "revoked?"
        /\ q.name = n
    BY <1>3, <2>2
  <2>4. chg \in U!Change /\ chg.pw = new
    BY <2>2 DEF U!NoChange, U!Change
  <2>5. PICK x : x = [q EXCEPT !.pw = pw, !.chg = chg]
    OBVIOUS
  <2>6. /\ x \in Request /\ x.ep = "changePassword" /\ x.at = "revoked?"
        /\ x.name = n /\ x.chg = chg
    BY <2>3, <2>4, <2>5 DEF Request
  <2>7. PICK r : r = Ending(x)
    OBVIOUS
  <2>8. /\ r \in Request /\ r.ep = "changePassword" /\ r.at = "revoked?"
        /\ r.name = n /\ r.chg = chg
        /\ r.ends = AccessOf(n) /\ r.endsR = RefreshOf(n)
    BY <2>6, <2>7, EndsOfAccount DEF Request, Ending
  <2>9. Bearer(p, a, r)
    BY <2>1, <2>2, <2>5, <2>7
  <2>10. QED
    BY <1>1, <2>4, <2>8, <2>9, BearerStep, EndsOfAccount
<1>8. QED
  BY <1>1, <1>4, <1>5, <1>6, <1>7 DEF BearerRequest

LEMMA ReceiveStep ==
    ASSUME ApiInv, NEW p \in Procs, Receive(p)
    PROVE  ApiInv' /\ Grows /\ OwnStep(p)
  BY RegisterStep, LoginStep, AdminUpdateStep, AdminDeleteStep, RefreshStep,
     BearerRequestStep DEF Receive

-----------------------------------------------------------------------------
(* Commands and time *)

LEMMA UnchangedUsers ==
    ASSUME UP!UserInv, UNCHANGED uvars
    PROVE  UP!UserInv'
  BY DEF uvars, UP!UserInv, UP!UserTypeOK, UP!CallsInOrder, UP!InOrder

LEMMA UnchangedTokens ==
    ASSUME TP!TokenInv, UNCHANGED tvars
    PROVE  TP!TokenInv' /\ TP!Monotone
  BY DEF tvars, TP!TokenInv, TP!TokenTypeOK, TP!SessionMatchesToken,
         TP!CallsMatchTokens, TP!InOrder, TP!Handed, TP!Monotone

\* A command of UserService: the call it belongs to and how far it gets.
LEMMA UserCommandCall ==
    ASSUME ApiInv, NEW p \in Procs, U!UserStep(p)
    PROVE  /\ ucall[p] \in UP!Call
           /\ \E u : /\ ucall' = [ucall EXCEPT ![p] = u]
                     /\ u.op = ucall[p].op /\ u.name = ucall[p].name
                     /\ u.chg = ucall[p].chg /\ u.pc # "idle"
                     /\ UserCommands(u)
<1>1. ucall[p].pc # "idle"
  BY DEF U!UserStep, U!ReadUser, U!Reject, U!Fetch, U!SetUser, U!SAddUser,
         U!DelUser, U!SRemUser, U!At
<1>2. ucall[p] \in UP!Call
  BY <1>1, IdleIsNoCall
<1>3. UserCommands(ucall[p])
  BY DEF ApiInv, Fits
<1>4. UP!InOrder(ucall[p])
  BY DEF ApiInv, UP!UserInv, UP!CallsInOrder
<1>5. PICK pc, rec, res :
        /\ ucall' = [ucall EXCEPT ![p].pc = pc, ![p].rec = rec, ![p].res = res]
        /\ \/ pc = "done"
           \/ /\ pc = "del" /\ ucall[p].op = "delete"
           \/ /\ pc = "set" /\ ucall[p].op \notin {"read", "delete"}
           \/ /\ pc = "sadd" /\ ucall[p].pc = "set"
           \/ /\ pc = "srem" /\ ucall[p].pc = "del"
  <2>1. CASE U!ReadUser(p) \/ U!Reject(p) \/ U!SAddUser(p) \/ U!SRemUser(p)
    BY <2>1 DEF U!ReadUser, U!Reject, U!SAddUser, U!SRemUser, U!Finish
  <2>2. CASE U!Fetch(p)
    <3> DEFINE to == IF ucall[p].op = "delete" THEN "del" ELSE "set"
    <3>1. ucall' = [ucall EXCEPT ![p].pc = to, ![p].rec = users[ucall[p].name],
                                 ![p].res = ucall[p].res]
      BY <1>2, <2>2 DEF U!Fetch, UP!Call, ApiInv, UP!UserInv, UP!UserTypeOK
    <3>2. \/ to = "del" /\ ucall[p].op = "delete"
          \/ to = "set" /\ ucall[p].op \notin {"read", "delete"}
      BY <2>2 DEF U!Fetch
    <3>3. QED
      BY <3>1, <3>2
  <2>3. CASE U!SetUser(p)
    <3>1. ucall' = [ucall EXCEPT ![p].pc = "sadd",
                                 ![p].rec = U!Written(ucall[p]),
                                 ![p].res = ucall[p].res]
      BY <1>2, <2>3 DEF U!SetUser, UP!Call, ApiInv, UP!UserInv, UP!UserTypeOK
    <3>2. ucall[p].pc = "set"
      BY <2>3 DEF U!SetUser, U!At
    <3>3. QED
      BY <3>1, <3>2
  <2>4. CASE U!DelUser(p)
    <3>1. ucall' = [ucall EXCEPT ![p].pc = "srem", ![p].rec = ucall[p].rec,
                                 ![p].res = ucall[p].res]
      BY <1>2, <2>4 DEF U!DelUser, UP!Call, ApiInv, UP!UserInv, UP!UserTypeOK
    <3>2. ucall[p].pc = "del"
      BY <2>4 DEF U!DelUser, U!At
    <3>3. QED
      BY <3>1, <3>2
  <2>5. QED
    BY <2>1, <2>2, <2>3, <2>4 DEF U!UserStep
<1>6. PICK u : u = [ucall[p] EXCEPT !.pc = pc, !.rec = rec, !.res = res]
  OBVIOUS
<1>7. ucall' = [ucall EXCEPT ![p] = u]
  BY <1>5, <1>6 DEF ApiInv, UP!UserInv, UP!UserTypeOK
<1>8. /\ u.op = ucall[p].op /\ u.name = ucall[p].name
      /\ u.chg = ucall[p].chg /\ u.pc = pc
  BY <1>2, <1>6 DEF UP!Call
<1>9. UserCommands(u) /\ u.pc # "idle"
  BY <1>1, <1>2, <1>3, <1>5, <1>8 DEF UserCommands, UP!Call
<1>10. QED
  BY <1>2, <1>7, <1>8, <1>9

LEMMA UserCommandStep ==
    ASSUME ApiInv, NEW p \in Procs, U!UserStep(p), UNCHANGED <<tvars, apiOnly>>
    PROVE  ApiInv' /\ Grows
<1>1. PICK u : /\ ucall[p] \in UP!Call
               /\ ucall' = [ucall EXCEPT ![p] = u]
               /\ u.op = ucall[p].op /\ u.name = ucall[p].name
               /\ u.chg = ucall[p].chg /\ u.pc # "idle"
               /\ UserCommands(u)
  BY UserCommandCall
<1>2. UP!UserInv'
  BY UserSteps DEF ApiInv
<1>3. /\ TP!TokenInv' /\ OwnTypes' /\ Spent' /\ Grows
  <2>1. TP!TokenInv' /\ TP!Monotone
    BY UnchangedTokens DEF ApiInv
  <2>2. OwnTypes' /\ Spent'
    BY DEF ApiInv, OwnTypes, Spent, apiOnly, history, tvars, TP!Over, TP!Handed
  <2>3. QED
    BY <2>1, <2>2 DEF Grows, apiOnly, tvars
<1>4. PICK r, t : r \in Request \cup {NoRequest} /\ r = req[p] /\ t = tcall[p]
  BY DEF ApiInv, OwnTypes
<1>5. /\ req' = [req EXCEPT ![p] = r] /\ tcall' = [tcall EXCEPT ![p] = t]
  BY <1>4 DEF apiOnly, tvars, ApiInv, OwnTypes, TP!TokenInv, TP!TokenTypeOK
<1>6. Fits(r, ucall[p], t) /\ ucall[p].pc # "idle"
  <2>1. ucall[p].pc # "idle"
    BY DEF U!UserStep, U!ReadUser, U!Reject, U!Fetch, U!SetUser, U!SAddUser,
           U!DelUser, U!SRemUser, U!At
  <2>2. QED
    BY <1>4, <2>1 DEF ApiInv
<1>7. Fits(r, u, t)
  BY <1>1, <1>6 DEF Fits, AwaitsUser
<1>8. Fits(r, u, t)'
  BY <1>3, <1>4, <1>7, FitsKept DEF ApiInv
<1>9. QED
  BY <1>1, <1>2, <1>3, <1>4, <1>5, <1>8, OthersKept DEF ApiInv

\* A command of TokenSessionService.
LEMMA TokenCommandCall ==
    ASSUME ApiInv, NEW p \in Procs, T!TokenStep(p)
    PROVE  /\ tcall[p] \in TP!Call /\ tcall[p].pc # "idle"
           /\ revokedAccess \subseteq revokedAccess'
           /\ \E t : /\ tcall' = [tcall EXCEPT ![p] = t]
                     /\ t.op = tcall[p].op /\ t.claims = tcall[p].claims
                     /\ t.jti = tcall[p].jti /\ t.pc # "idle"
                     /\ TokenCommands(t)'
<1>1. tcall[p].pc # "idle"
  BY DEF T!TokenStep, T!SetSession, T!SAddSession, T!GetSession, T!DelSession,
         T!SRemSession, T!SMembers, T!DelMember, T!DelIndex, T!BlackList,
         T!LookUp, T!At
<1>2. tcall[p] \in TP!Call
  BY <1>1, IdleIsNoCall
<1>3. TokenCommands(tcall[p])
  BY DEF ApiInv, Fits
<1>4. TP!InOrder(tcall[p])
  BY DEF ApiInv, TP!TokenInv, TP!CallsMatchTokens
<1>5. TP!TokenInv' /\ TP!Monotone
  BY TokenSteps DEF ApiInv
<1>6. TP!TokenTypeOK
  BY DEF ApiInv, TP!TokenInv
<1>7. refreshJwt' = refreshJwt
  BY DEF T!TokenStep, T!SetSession, T!SAddSession, T!GetSession, T!DelSession,
         T!SRemSession, T!SMembers, T!DelMember, T!DelIndex, T!BlackList,
         T!LookUp
<1>8. revokedAccess \subseteq revokedAccess'
  BY DEF T!TokenStep, T!SetSession, T!SAddSession, T!GetSession, T!DelSession,
         T!SRemSession, T!SMembers, T!DelMember, T!DelIndex, T!BlackList,
         T!LookUp
<1>9. PICK pc, todo, res :
        /\ tcall' = [tcall EXCEPT ![p].pc = pc, ![p].todo = todo, ![p].res = res]
        /\ \/ pc = "sadd" /\ tcall[p].pc = "set"
           \/ pc = "srem" /\ tcall[p].pc = "del"
           \/ pc \in {"dels", "delindex"} /\ tcall[p].pc \in {"smembers", "dels"}
           \/ /\ pc = "done"
              /\ tcall[p].pc \in {"sadd", "get", "srem", "delindex", "look"}
           \/ /\ pc = "done" /\ tcall[p].pc = "black"
              /\ tcall[p].jti \in revokedAccess'
  <2>1. CASE T!SetSession(p) \/ T!DelSession(p)
    <3>1. PICK pc \in {"sadd", "srem"} :
             /\ tcall' = [tcall EXCEPT ![p].pc = pc]
             /\ \/ pc = "sadd" /\ tcall[p].pc = "set"
                \/ pc = "srem" /\ tcall[p].pc = "del"
      BY <2>1 DEF T!SetSession, T!DelSession, T!GoTo, T!At
    <3>2. tcall' = [tcall EXCEPT ![p].pc = pc, ![p].todo = tcall[p].todo,
                                 ![p].res = tcall[p].res]
      BY <1>2, <1>6, <3>1 DEF TP!Call, TP!TokenTypeOK
    <3>3. QED
      BY <3>1, <3>2
  <2>2. CASE T!SAddSession(p) \/ T!GetSession(p) \/ T!SRemSession(p)
             \/ T!DelIndex(p) \/ T!LookUp(p) \/ T!BlackList(p)
    <3>1. PICK res :
             /\ tcall' = [tcall EXCEPT ![p].pc = "done", ![p].res = res]
             /\ \/ tcall[p].pc \in {"sadd", "get", "srem", "delindex", "look"}
                \/ tcall[p].pc = "black" /\ tcall[p].jti \in revokedAccess'
      BY <2>2 DEF T!SAddSession, T!GetSession, T!SRemSession, T!DelIndex,
         T!LookUp, T!BlackList, T!Finish, T!At
    <3>2. tcall' = [tcall EXCEPT ![p].pc = "done", ![p].todo = tcall[p].todo,
                                 ![p].res = res]
      BY <1>2, <1>6, <3>1 DEF TP!Call, TP!TokenTypeOK
    <3>3. QED
      BY <3>1, <3>2
  <2>3. CASE T!SMembers(p) \/ T!DelMember(p)
    <3>1. PICK pc, todo :
             /\ tcall' = [tcall EXCEPT ![p].todo = todo, ![p].pc = pc]
             /\ pc \in {"dels", "delindex"}
             /\ tcall[p].pc \in {"smembers", "dels"}
      BY <2>3 DEF T!SMembers, T!DelMember, T!At
    <3>2. tcall' = [tcall EXCEPT ![p].pc = pc, ![p].todo = todo,
                                 ![p].res = tcall[p].res]
      BY <1>2, <1>6, <3>1 DEF TP!Call, TP!TokenTypeOK
    <3>3. QED
      BY <3>1, <3>2
  <2>4. QED
    BY <2>1, <2>2, <2>3 DEF T!TokenStep
<1>10. PICK t : t = [tcall[p] EXCEPT !.pc = pc, !.todo = todo, !.res = res]
  OBVIOUS
<1>11. tcall' = [tcall EXCEPT ![p] = t]
  BY <1>6, <1>9, <1>10 DEF TP!TokenTypeOK
<1>12. /\ t.op = tcall[p].op /\ t.claims = tcall[p].claims
       /\ t.jti = tcall[p].jti /\ t.pc = pc /\ t.pc # "idle"
       /\ t.res = res
  BY <1>2, <1>9, <1>10 DEF TP!Call
<1>13. tcall'[p] = t
  BY <1>6, <1>11 DEF TP!TokenTypeOK
<1>14. TP!InOrder(t)'
  BY <1>5, <1>13 DEF TP!TokenInv, TP!CallsMatchTokens
<1>15. TokenCommands(t)'
  <2>1. ASSUME t.op = "revoke"
        PROVE  /\ t.pc \in {"del", "srem", "done"} /\ t.jti \in RefreshIds
               /\ t.pc = "srem" \/ (t.pc = "done" /\ t.res = "ok") => TP!Over(t.jti)'
    <3>1. /\ tcall[p].pc \in {"del", "srem", "done"} /\ t.jti \in RefreshIds
          /\ tcall[p].pc = "srem" => TP!Over(t.jti)
      BY <1>1, <1>3, <1>12, <2>1 DEF TokenCommands
    <3>2. CASE pc = "srem"
      BY <1>12, <1>14, <3>1, <3>2 DEF TP!InOrder, TP!Over
    <3>3. CASE pc = "done" /\ tcall[p].pc = "srem"
      BY <1>5, <1>12, <3>1, <3>3 DEF TP!Over, TP!Monotone
    <3>4. QED
      BY <1>9, <1>12, <3>1, <3>2, <3>3
  <2>2. ASSUME t.op = "revokeAccess"
        PROVE  t.pc \in {"black", "done"}
               /\ (t.pc = "done" => t.jti \in revokedAccess')
    BY <1>1, <1>3, <1>8, <1>9, <1>12, <2>2 DEF TokenCommands
  <2>3. ASSUME t.op = "issue"
        PROVE  /\ t.pc \in {"set", "sadd", "done"} /\ t.jti \in RefreshIds
               /\ refreshJwt'[t.jti] = t.claims /\ t.claims # NoToken
    BY <1>1, <1>3, <1>7, <1>9, <1>12, <2>3 DEF TokenCommands
  <2>4. QED
    BY <2>1, <2>2, <2>3 DEF TokenCommands
<1>16. QED
  BY <1>1, <1>2, <1>8, <1>11, <1>12, <1>15

LEMMA TokenCommandStep ==
    ASSUME ApiInv, NEW p \in Procs, T!TokenStep(p), UNCHANGED <<uvars, apiOnly>>
    PROVE  ApiInv' /\ Grows
<1>1. PICK t : /\ tcall' = [tcall EXCEPT ![p] = t]
               /\ t.op = tcall[p].op /\ t.claims = tcall[p].claims
               /\ t.jti = tcall[p].jti /\ t.pc # "idle"
               /\ TokenCommands(t)'
  BY TokenCommandCall
<1>2. /\ tcall[p].pc # "idle" /\ revokedAccess \subseteq revokedAccess'
  BY TokenCommandCall
<1>3. TP!TokenInv' /\ TP!Monotone
  BY TokenSteps DEF ApiInv
<1>4. Grows
  BY <1>2, <1>3 DEF Grows, apiOnly
<1>5. UP!UserInv'
  BY UnchangedUsers DEF uvars, ApiInv
<1>6. OwnTypes'
  BY DEF ApiInv, OwnTypes, apiOnly, history
<1>7. Spent'
  BY <1>3 DEF ApiInv, Spent, apiOnly, history, TP!Over, TP!Monotone
<1>8. PICK r, u, c :
         r \in Request \cup {NoRequest} /\ r = req[p] /\ u = ucall[p] /\ c = tcall[p]
  BY DEF ApiInv, OwnTypes
<1>9. /\ req' = [req EXCEPT ![p] = r] /\ ucall' = [ucall EXCEPT ![p] = u]
  BY <1>8 DEF apiOnly, uvars, ApiInv, OwnTypes, UP!UserInv, UP!UserTypeOK
<1>10. Fits(r, u, c) /\ c.pc # "idle"
  BY <1>2, <1>8 DEF ApiInv
<1>11. Fits(r, u, c)'
  BY <1>4, <1>8, <1>10, FitsKept DEF ApiInv
<1>12. /\ c.op = t.op /\ c.claims = t.claims /\ c.jti = t.jti
  BY <1>1, <1>8
<1>13. Fits(r, u, t)'
  BY <1>1, <1>10, <1>11, <1>12 DEF Fits, AwaitsToken
<1>14. QED
  BY <1>1, <1>3, <1>4, <1>5, <1>6, <1>7, <1>8, <1>9, <1>13, OthersKept DEF ApiInv

\* A step that leaves req and every call alone but for the copy a call of
\* UserService holds.
LEMMA CallsKept ==
    ASSUME ApiInv, UP!UserInv', TP!TokenInv', TP!Monotone,
           UNCHANGED <<apiOnly, tcall, revokedAccess>>,
           DOMAIN ucall' = Procs,
           \A q \in Procs :
               \/ ucall'[q] = ucall[q]
               \/ /\ ucall[q].pc # "idle"
                  /\ ucall'[q].op = ucall[q].op /\ ucall'[q].pc = ucall[q].pc
                  /\ ucall'[q].name = ucall[q].name
                  /\ ucall'[q].chg = ucall[q].chg
    PROVE  ApiInv' /\ Grows
<1>1. Grows
  BY DEF Grows, apiOnly
<1>2. OwnTypes'
  BY DEF ApiInv, OwnTypes, apiOnly, history
<1>3. Spent'
  BY DEF ApiInv, Spent, apiOnly, history, TP!Over, TP!Monotone
<1>4. ASSUME NEW q \in Procs
      PROVE  Fits(req[q], ucall[q], tcall[q])'
  <2>1. PICK r, u, t :
          r \in Request \cup {NoRequest} /\ r = req[q] /\ u = ucall[q] /\ t = tcall[q]
    BY DEF ApiInv, OwnTypes
  <2>2. Fits(r, u, t)
    BY <2>1 DEF ApiInv
  <2>3. PICK v : v = ucall'[q]
    OBVIOUS
  <2>4. \/ v = u
        \/ /\ u.pc # "idle" /\ v.op = u.op /\ v.pc = u.pc
           /\ v.name = u.name /\ v.chg = u.chg
    BY <2>1, <2>3
  <2>5. Fits(r, v, t)
    BY <2>2, <2>4 DEF Fits, UserCommands, AwaitsUser
  <2>6. Fits(r, v, t)'
    BY <1>1, <2>1, <2>5, FitsKept DEF ApiInv
  <2>7. req'[q] = r /\ ucall'[q] = v /\ tcall'[q] = t
    BY <2>1, <2>3 DEF apiOnly
  <2>8. QED
    BY <2>6, <2>7
<1>5. QED
  BY <1>1, <1>2, <1>3, <1>4 DEF ApiInv

LEMMA PassesStep ==
    ASSUME ApiInv, Passes
    PROVE  ApiInv' /\ Grows
<1>1. ASSUME NEW n \in Names, U!LockExpires(n), UNCHANGED <<tvars, apiOnly>>
      PROVE  ApiInv' /\ Grows
  <2>1. UP!UserInv'
    BY <1>1, UserTime DEF ApiInv
  <2>2. TP!TokenInv' /\ TP!Monotone
    BY <1>1, UnchangedTokens DEF ApiInv
  <2>3. ASSUME NEW q \in Procs, ucall'[q] # ucall[q]
        PROVE  /\ ucall[q].pc # "idle"
               /\ ucall'[q].op = ucall[q].op /\ ucall'[q].pc = ucall[q].pc
               /\ ucall'[q].name = ucall[q].name
               /\ ucall'[q].chg = ucall[q].chg
    <3>1. /\ ucall[q].pc # "idle"
          /\ ucall'[q] = [ucall[q] EXCEPT !.rec = U!Unlocked(ucall[q].rec)]
      BY <1>1, <2>3 DEF U!LockExpires, U!At
    <3>2. ucall[q] \in UP!Call
      BY <3>1, IdleIsNoCall
    <3>3. QED
      BY <3>1, <3>2 DEF UP!Call
  <2>4. DOMAIN ucall' = Procs
    BY <1>1 DEF U!LockExpires
  <2>5. QED
    BY <1>1, <2>1, <2>2, <2>3, <2>4, CallsKept DEF tvars
<1>2. ASSUME NEW j \in RefreshIds, T!SessionExpires(j) \/ T!JwtExpires(j),
             UNCHANGED <<uvars, apiOnly>>
      PROVE  ApiInv' /\ Grows
  <2>1. UP!UserInv'
    BY <1>2, UnchangedUsers DEF ApiInv
  <2>2. TP!TokenInv' /\ TP!Monotone
    BY <1>2, TokenTime DEF ApiInv
  <2>3. UNCHANGED <<tcall, revokedAccess, ucall>>
    BY <1>2 DEF T!SessionExpires, T!JwtExpires, uvars
  <2>4. DOMAIN ucall' = Procs
    BY <2>3 DEF ApiInv, UP!UserInv, UP!UserTypeOK
  <2>5. QED
    BY <1>2, <2>1, <2>2, <2>3, <2>4, CallsKept
<1>3. QED
  BY <1>1, <1>2 DEF Passes

LEMMA ApiNext ==
    ASSUME ApiInv, [Next]_vars
    PROVE  ApiInv' /\ Grows
<1>1. CASE UNCHANGED vars
  <2>1. UP!UserInv' /\ TP!TokenInv' /\ TP!Monotone
    BY <1>1, UnchangedUsers, UnchangedTokens DEF vars, ApiInv
  <2>2. UNCHANGED <<apiOnly, tcall, revokedAccess, ucall>>
    BY <1>1 DEF vars, uvars, tvars, apiOnly
  <2>3. DOMAIN ucall' = Procs
    BY <2>2 DEF ApiInv, UP!UserInv, UP!UserTypeOK
  <2>4. QED
    BY <2>1, <2>2, <2>3, CallsKept
<1>2. CASE Passes
  BY <1>2, PassesStep
<1>3. ASSUME NEW p \in Procs, Receive(p) \/ Handle(p)
      PROVE  ApiInv' /\ Grows
  BY <1>3, ReceiveStep, HandleStep
<1>4. ASSUME NEW p \in Procs, Command(p)
      PROVE  ApiInv' /\ Grows
  BY <1>4, UserCommandStep, TokenCommandStep DEF Command
<1>5. QED
  BY <1>1, <1>2, <1>3, <1>4 DEF Next

LEMMA ApiInit == Init => ApiInv
<1> SUFFICES ASSUME Init
             PROVE  ApiInv
  OBVIOUS
<1>1. UP!UserInit
  BY DEF Init, U!UserInit, UP!UserInit, U!NoCall, UP!NoCall
<1>2. TP!TokenInit
  BY DEF Init, T!TokenInit, TP!TokenInit, T!NoCall, TP!NoCall
<1>3. UP!UserInv
  BY <1>1, UP!UserInit_Inv, UserAssumptions
<1>4. TP!TokenInv
  BY <1>2, TP!TokenInit_Inv, TokenAssumptions
<1>5. OwnTypes /\ Spent
  BY DEF Init, OwnTypes, Spent
<1>6. ASSUME NEW p \in Procs
      PROVE  Fits(req[p], ucall[p], tcall[p])
  <2>1. req[p] = NoRequest /\ ucall[p].pc = "idle" /\ tcall[p].pc = "idle"
    BY <1>1, <1>2 DEF Init, UP!UserInit, TP!TokenInit, UP!NoCall, TP!NoCall
  <2>2. QED
    BY <2>1 DEF Fits, UserCommands, TokenCommands
<1>7. QED
  BY <1>3, <1>4, <1>5, <1>6 DEF ApiInv

-----------------------------------------------------------------------------

\* The composition of the endpoints with the two services is type correct,
\* whatever requests interleave (auth.py:51-432).
THEOREM ApiTypeCorrect == Spec => []ApiTypeOK
<1>1. ApiInv => ApiTypeOK
  <2>1. UP!UserTypeOK => U!UserTypeOK
    BY DEF UP!UserTypeOK, U!UserTypeOK, UP!StoredUser, U!StoredUser, UP!Call,
           U!Call, UP!NoCall, U!NoCall, UP!Change, U!Change, UP!Writers,
           U!Writers
  <2>2. TP!TokenTypeOK => T!TokenTypeOK
    BY DEF TP!TokenTypeOK, T!TokenTypeOK, TP!Claims, T!Claims, TP!Call,
           T!Call, TP!NoCall, T!NoCall
  <2>3. TP!Claims = T!Claims
    BY DEF TP!Claims, T!Claims
  <2>4. QED
    BY <2>1, <2>2, <2>3 DEF ApiInv, UP!UserInv, TP!TokenInv, OwnTypes, ApiTypeOK
<1>2. ApiInv /\ [Next]_vars => ApiInv'
  BY ApiNext
<1>3. QED
  BY <1>1, <1>2, ApiInit, PTL DEF Spec

\* A refresh token that was exchanged once is spent, with any number of
\* requests under way, on any endpoints (auth.py:129-172,
\* token_session_service.py:82-99): the session of an exchanged token is over,
\* and nothing brings a session back that is over.
THEOREM ExchangedIsSpentHolds == Spec => []ExchangedIsSpent
<1>1. ApiInv => ExchangedIsSpent
  BY DEF ApiInv, Spent, ExchangedIsSpent, Exchangeable, TP!Over
<1>2. ApiInv /\ [Next]_vars => ApiInv'
  BY ApiNext
<1>3. QED
  BY <1>1, <1>2, ApiInit, PTL DEF Spec

-----------------------------------------------------------------------------
(* Confirmed ends, when writers of an account do not overlap: the versions *)
(* of accounts, of copies under way and of tokens                          *)

\* At most logins overlap on an account, and no name is registered again
\* while tokens of it are around.
Serially == MayOverlap \subseteq {"login"} /\ ~Recreate

Tokenless(n) ==
    /\ \A a \in AccessIds : accessJwt[a] # NoToken => accessJwt[a].sub # n
    /\ \A j \in RefreshIds : refreshJwt[j] # NoToken => refreshJwt[j].sub # n

\* Claims that no longer match the account, and never will.
Behind(c) == users[c.sub] = NoUser \/ c.tv < users[c.sub].tv

\* Claims of a version that the account has reached.
NotAhead(n, v) == users[n] # NoUser => v <= users[n].tv

EndsBehind(r) == /\ \A a \in r.ends : Behind(accessJwt[a])
                 /\ \A j \in r.endsR : Behind(refreshJwt[j])

\* The version has been raised, or the account deleted.
Raised(r, u) ==
    \/ r.at = "bump" /\ (u.pc = "sadd" \/ (u.pc = "done" /\ u.res = "ok"))
    \/ r.at = "delete" /\ (u.pc = "srem" \/ (u.pc = "done" /\ u.res = "ok"))

\* What a request knows of accounts and tokens, with its call u.
Knows(r, u) ==
    /\ r.ep = "register" => Tokenless(r.name)
    /\ r.ep = "logout" => r.ends = {r.a} /\ r.endsR = {r.r}
    /\ \A a \in r.ends : /\ accessJwt[a] # NoToken
                         /\ r.ep = "logout" \/ accessJwt[a].sub = r.name
    /\ \A j \in r.endsR : /\ TP!Handed(j)
                          /\ r.ep = "logout" \/ refreshJwt[j].sub = r.name
    /\ r.at = "logout" => r.a \in revokedAccess
    /\ r.at \in {"rotate", "issue"} => NotAhead(r.name, r.tv)
    /\ u.pc = "done" /\ u.op = "read" /\ u.rec # NoUser
       => NotAhead(r.name, u.rec.tv)
    /\ u.pc = "set" /\ u.op = "create" => users[r.name] = NoUser
    /\ u.pc = "set" /\ u.op # "create" =>
         /\ users[r.name] # NoUser /\ u.rec # NoUser
         /\ u.rec.tv = users[r.name].tv /\ u.rec.pw = users[r.name].pw
    /\ Raised(r, u) => EndsBehind(r)

OnlyLogins ==
    \A p, q \in Procs :
        p # q /\ Busy(p) /\ Busy(q) /\ req[p].name = req[q].name
        /\ {req[p].ep, req[q].ep} \subseteq AccountWriters
        => req[p].ep = "login" /\ req[q].ep = "login"

ReachedVersions ==
    /\ \A a \in AccessIds : accessJwt[a] # NoToken
                            => NotAhead(accessJwt[a].sub, accessJwt[a].tv)
    /\ \A j \in RefreshIds : refreshJwt[j] # NoToken
                             => NotAhead(refreshJwt[j].sub, refreshJwt[j].tv)

Confirmed ==
    /\ \A a \in barred : /\ accessJwt[a] # NoToken
                         /\ a \in revokedAccess \/ Behind(accessJwt[a])
    /\ \A j \in barredRefresh : /\ TP!Handed(j)
                                /\ TP!Over(j) \/ Behind(refreshJwt[j])

EndInv == /\ OnlyLogins /\ ReachedVersions /\ Confirmed
          /\ \A p \in Procs : Busy(p) => Knows(req[p], ucall[p])

\* The endpoint that an account's call under way is made for.
LEMMA CallOfRequest ==
    ASSUME ApiInv, NEW p \in Procs, ucall[p].pc # "idle"
    PROVE  /\ Busy(p) /\ req[p] \in Request /\ req[p].at \in UserPlaces
           /\ ucall[p] \in UP!Call /\ ucall[p].name = req[p].name
           /\ req[p].name \in Names
           /\ ucall[p].op # "read" => req[p].ep \in AccountWriters
           /\ req[p].ep = "login" => ucall[p].op \in {"read", "fail", "login"}
           /\ ucall[p].op = "create" <=> req[p].ep = "register"
           /\ ucall[p].op = "bump" <=> req[p].at = "bump"
           /\ ucall[p].op = "delete" <=> req[p].at = "delete"
           /\ ucall[p].op = "update" <=> req[p].at = "update"
           /\ req[p].at = "update" => ucall[p].chg = req[p].chg
<1>1. Busy(p)
  BY NotBusy
<1>2. /\ req[p] \in Request /\ Placed(req[p]) /\ ucall[p] \in UP!Call
      /\ req[p].at \in TokenPlaces => ucall[p].pc = "idle"
      /\ req[p].at \in UserPlaces => AwaitsUser(req[p], ucall[p])
  BY <1>1, AtPlace
<1>3. req[p].at \in UserPlaces
  BY <1>2 DEF Placed
<1>4. PICK r, u : r = req[p] /\ u = ucall[p]
  OBVIOUS
<1>5. /\ r \in Request /\ Placed(r) /\ AwaitsUser(r, u) /\ r.at \in UserPlaces
      /\ u \in UP!Call
  BY <1>2, <1>3, <1>4
<1>6. /\ u.name = r.name /\ r.name \in Names
      /\ u.op # "read" => r.ep \in AccountWriters
      /\ r.ep = "login" => u.op \in {"read", "fail", "login"}
      /\ u.op = "create" <=> r.ep = "register"
      /\ u.op = "bump" <=> r.at = "bump"
      /\ u.op = "delete" <=> r.at = "delete"
      /\ u.op = "update" <=> r.at = "update"
      /\ r.at = "update" => u.chg = r.chg
  BY <1>5 DEF Request, Placed, AwaitsUser, UserPlaces, AccountWriters,
     AllEndpoints
<1>7. QED
  BY <1>1, <1>3, <1>4, <1>5, <1>6

\* While a name is being registered nobody else is at work on it.
LEMMA Alone ==
    ASSUME ApiInv, EndInv, NEW p \in Procs, NEW q \in Procs, p # q,
           Busy(p), Busy(q), req[p].name = req[q].name, req[p].ep = "register"
    PROVE  FALSE
<1>1. Tokenless(req[p].name)
  BY DEF EndInv, Knows
<1>2. req[q] \in Request /\ Carries(req[q])
  BY AtPlace
<1>3. req[q].ep \in AccountWriters => req[p].ep = "login"
  BY DEF EndInv, OnlyLogins, AccountWriters
<1>4. req[q].ep \in {"refresh", "logout", "me"}
  BY <1>2, <1>3 DEF Request, AllEndpoints
<1>5. QED
  BY <1>1, <1>2, <1>4 DEF Carries, Tokenless, TP!Handed

\* The tokens that a step of a handler makes are of its account and of a
\* version that this account has reached.
LEMMA NewTokens ==
    ASSUME ApiInv, EndInv, NEW p \in Procs, OwnStep(p), ApiInv', Grows
    PROVE  /\ \A j \in RefreshIds :
                refreshJwt'[j] # refreshJwt[j] =>
                  /\ refreshJwt[j] = NoToken
                  /\ Busy(p) /\ req[p].ep \in {"login", "refresh"}
                  /\ refreshJwt'[j].sub = req[p].name
                  /\ NotAhead(req[p].name, refreshJwt'[j].tv)
           /\ \A a \in AccessIds :
                accessJwt'[a] # accessJwt[a] =>
                  /\ accessJwt[a] = NoToken
                  /\ Busy(p) /\ req[p].ep \in {"login", "refresh"}
                  /\ accessJwt'[a].sub = req[p].name
                  /\ NotAhead(req[p].name, accessJwt'[a].tv)
<1>1. PICK r \in Request \cup {NoRequest} : \E u, t :
         /\ req' = [req EXCEPT ![p] = r]
         /\ ucall' = [ucall EXCEPT ![p] = u] /\ u.pc \in {"get", "idle"}
         /\ tcall' = [tcall EXCEPT ![p] = t]
         /\ \/ Arrives(p, r)
            \/ r # NoRequest /\ GoesOn(p, r, t)
            \/ r = NoRequest /\ req[p] # NoRequest /\ Responds(p)
  BY DEF OwnStep
<1>2. PICK u, t :
         /\ req' = [req EXCEPT ![p] = r]
         /\ ucall' = [ucall EXCEPT ![p] = u] /\ u.pc \in {"get", "idle"}
         /\ tcall' = [tcall EXCEPT ![p] = t]
         /\ \/ Arrives(p, r)
            \/ r # NoRequest /\ GoesOn(p, r, t)
            \/ r = NoRequest /\ req[p] # NoRequest /\ Responds(p)
  BY <1>1
<1>3. CASE Arrives(p, r)
  BY <1>3 DEF Arrives
<1>4. CASE r # NoRequest /\ GoesOn(p, r, t)
  <2>1. Busy(p) /\ SameRequest(r, req[p])
    BY <1>4 DEF GoesOn, SameRequest, Busy
  <2>2. PICK o : o = req[p]
    OBVIOUS
  <2>3. Knows(o, ucall[p]) /\ Placed(o) /\ o \in Request
    BY <2>1, <2>2, AtPlace DEF EndInv
  <2>4. UNCHANGED accessJwt
    BY <1>4 DEF GoesOn
  <2>5. CASE r.at # "issue"
    <3>1. UNCHANGED refreshJwt
      BY <1>4, <2>5 DEF GoesOn
    <3>2. QED
      BY <2>4, <3>1
  <2>6. CASE r.at = "issue"
    <3>1. /\ o.ep = "login" => /\ o.at = "reread" /\ ucall[p].pc = "done"
                               /\ ucall[p].rec # NoUser /\ r.tv = ucall[p].rec.tv
          /\ o.ep = "refresh" => o.at = "rotate" /\ r.tv = o.tv
          /\ refreshJwt[t.jti] = NoToken /\ t.jti \in RefreshIds
          /\ refreshJwt' = [refreshJwt EXCEPT ![t.jti] = [sub |-> r.name, tv |-> r.tv]]
      BY <1>4, <2>2, <2>6 DEF GoesOn
    <3>2. o.ep \in {"login", "refresh"} /\ r.name = o.name
      <4>1. Fits(r, u, t)'
        <5>1. req'[p] = r /\ ucall'[p] = u /\ tcall'[p] = t
          BY <1>2 DEF ApiInv, OwnTypes, UP!UserInv, UP!UserTypeOK, TP!TokenInv,
                      TP!TokenTypeOK
        <5>2. QED
          BY <5>1 DEF ApiInv
      <4>2. Placed(r)
        BY <1>4, <4>1 DEF Fits, Placed
      <4>3. QED
        BY <2>1, <2>2, <2>6, <4>2 DEF Placed, SameRequest
    <3>3. NotAhead(o.name, r.tv)
      <4>1. CASE o.ep = "refresh"
        BY <2>3, <3>1, <4>1 DEF Knows
      <4>2. CASE o.ep = "login"
        <5>1. ucall[p].op = "read"
          BY <2>1, <2>2, <3>1, <4>2, AtPlace DEF AwaitsUser, UserPlaces
        <5>2. QED
          BY <2>3, <3>1, <4>2, <5>1 DEF Knows
      <4>3. QED
        BY <3>2, <4>1, <4>2
    <3>4. \A j \in RefreshIds :
            refreshJwt'[j] # refreshJwt[j] =>
              j = t.jti /\ refreshJwt'[j] = [sub |-> o.name, tv |-> r.tv]
      BY <3>1, <3>2 DEF ApiInv, TP!TokenInv, TP!TokenTypeOK
    <3>5. QED
      BY <2>1, <2>2, <2>4, <3>1, <3>2, <3>3, <3>4
  <2>7. QED
    BY <2>5, <2>6
<1>5. CASE r = NoRequest /\ req[p] # NoRequest /\ Responds(p)
  <2>1. Busy(p) /\ UNCHANGED refreshJwt
    BY <1>5 DEF Busy, Responds
  <2>2. PICK o : o = req[p]
    OBVIOUS
  <2>3. Knows(o, ucall[p]) /\ Placed(o)
    BY <2>1, <2>2, AtPlace DEF EndInv
  <2>4. CASE UNCHANGED accessJwt
    BY <2>1, <2>4
  <2>5. CASE /\ o.at = "issue"
             /\ \E a \in AccessIds :
                  /\ accessJwt[a] = NoToken
                  /\ accessJwt' = [accessJwt EXCEPT ![a] = [sub |-> o.name, tv |-> o.tv]]
    <3>1. PICK a \in AccessIds :
            /\ accessJwt[a] = NoToken
            /\ accessJwt' = [accessJwt EXCEPT ![a] = [sub |-> o.name, tv |-> o.tv]]
      BY <2>5
    <3>2. \A b \in AccessIds :
            accessJwt'[b] # accessJwt[b] =>
              b = a /\ accessJwt'[b] = [sub |-> o.name, tv |-> o.tv]
      BY <3>1 DEF ApiInv, OwnTypes
    <3>3. NotAhead(o.name, o.tv) /\ o.ep \in {"login", "refresh"}
      BY <2>3, <2>5 DEF Knows, Placed
    <3>4. QED
      BY <2>1, <2>2, <3>1, <3>2, <3>3
  <2>6. QED
    BY <1>5, <2>2, <2>4, <2>5 DEF Responds
<1>6. QED
  BY <1>2, <1>3, <1>4, <1>5

\* What a request knows stays true while others' handlers take steps.
LEMMA OthersKnow ==
    ASSUME ApiInv, EndInv, NEW p \in Procs, OwnStep(p), ApiInv', Grows,
           NEW q \in Procs, q # p, Busy(q)
    PROVE  /\ req'[q] = req[q] /\ ucall'[q] = ucall[q]
           /\ Knows(req[q], ucall[q])'
<1>1. req'[q] = req[q] /\ ucall'[q] = ucall[q]
  BY DEF OwnStep, ApiInv, OwnTypes, UP!UserInv, UP!UserTypeOK
<1>2. UNCHANGED <<users, revokedAccess>>
  BY DEF OwnStep
<1>3. PICK r, u : r = req[q] /\ u = ucall[q]
  OBVIOUS
<1>4. r \in Request /\ Knows(r, u)
  BY <1>3, AtPlace DEF EndInv
<1>5. ASSUME r.ep = "register"
      PROVE  Tokenless(r.name)'
  <2>1. Tokenless(r.name)
    BY <1>4, <1>5 DEF Knows
  <2>2. Busy(p) => req[p].name # r.name
    BY <1>3, <1>5, Alone
  <2>3. /\ \A j \in RefreshIds : refreshJwt'[j] # refreshJwt[j]
                                  => refreshJwt'[j].sub # r.name
        /\ \A a \in AccessIds : accessJwt'[a] # accessJwt[a]
                                 => accessJwt'[a].sub # r.name
    BY <2>2, NewTokens
  <2>4. QED
    BY <2>1, <2>3 DEF Tokenless
<1>6. /\ \A a \in AccessIds : accessJwt[a] # NoToken => accessJwt'[a] = accessJwt[a]
      /\ \A j \in RefreshIds : TP!Handed(j) => /\ TP!Handed(j)'
                                               /\ refreshJwt'[j] = refreshJwt[j]
  BY DEF Grows, TP!Monotone, TP!Handed
<1>7. /\ \A a \in r.ends : /\ accessJwt'[a] # NoToken
                           /\ accessJwt'[a] = accessJwt[a]
      /\ \A j \in r.endsR : /\ TP!Handed(j)'
                            /\ refreshJwt'[j] = refreshJwt[j]
  BY <1>4, <1>6 DEF Knows, Request
<1>8. Raised(r, u) => EndsBehind(r)'
  BY <1>2, <1>4, <1>7 DEF Knows, EndsBehind, Behind
<1>9. Knows(r, u)'
  BY <1>2, <1>4, <1>5, <1>7, <1>8 DEF Knows, NotAhead, Raised
<1>10. QED
  BY <1>1, <1>3, <1>9

\* What the request of a handler's step knows after it.
LEMMA OwnKnows ==
    ASSUME ApiInv, EndInv, NEW p \in Procs, OwnStep(p), ApiInv', Grows,
           Serially, Busy(p)'
    PROVE  Knows(req[p], ucall[p])'
<1>1. PICK r \in Request \cup {NoRequest} : \E u, t :
         /\ req' = [req EXCEPT ![p] = r]
         /\ ucall' = [ucall EXCEPT ![p] = u] /\ u.pc \in {"get", "idle"}
         /\ tcall' = [tcall EXCEPT ![p] = t]
         /\ \/ Arrives(p, r)
            \/ r # NoRequest /\ GoesOn(p, r, t)
            \/ r = NoRequest /\ req[p] # NoRequest /\ Responds(p)
  BY DEF OwnStep
<1>2. PICK u, t :
         /\ req' = [req EXCEPT ![p] = r]
         /\ ucall' = [ucall EXCEPT ![p] = u] /\ u.pc \in {"get", "idle"}
         /\ tcall' = [tcall EXCEPT ![p] = t]
         /\ \/ Arrives(p, r)
            \/ r # NoRequest /\ GoesOn(p, r, t)
            \/ r = NoRequest /\ req[p] # NoRequest /\ Responds(p)
  BY <1>1
<1>3. req'[p] = r /\ ucall'[p] = u /\ tcall'[p] = t
  BY <1>2 DEF ApiInv, OwnTypes, UP!UserInv, UP!UserTypeOK, TP!TokenInv,
              TP!TokenTypeOK
<1>4. r # NoRequest /\ r \in Request
  BY <1>3 DEF Busy
<1>5. UNCHANGED <<users, revokedAccess>>
  BY DEF OwnStep
<1>6. ~Raised(r, u)'
  BY <1>2 DEF Raised
<1>7. CASE Arrives(p, r)
  <2>1. /\ r.ep = "logout" => r.ends = {r.a} /\ r.endsR = {r.r}
        /\ r.at \notin {"logout", "rotate", "issue"}
        /\ UNCHANGED <<accessJwt, refreshJwt>>
        /\ \A a \in r.ends : /\ accessJwt[a] # NoToken
                             /\ r.ep = "logout" \/ accessJwt[a].sub = r.name
        /\ \A j \in r.endsR : /\ TP!Handed(j)
                              /\ r.ep = "logout" \/ refreshJwt[j].sub = r.name
    BY <1>7 DEF Arrives
  <2>2. \A j \in r.endsR : TP!Handed(j)'
    BY <1>4, <2>1 DEF Grows, TP!Monotone, Request
  <2>3. ASSUME r.ep = "register"
        PROVE  Tokenless(r.name)'
    <3>1. AccessOf(r.name) = {} /\ RefreshOf(r.name) = {}
      BY <1>7, <2>3 DEF Arrives, Admitted, Serially
    <3>2. ASSUME NEW j \in RefreshIds, refreshJwt[j] # NoToken,
                 refreshJwt[j].sub = r.name
          PROVE  FALSE
      <4>1. ~TP!Handed(j)
        BY <3>1, <3>2 DEF RefreshOf, T!Handed, TP!Handed
      <4>2. PICK q \in Procs : /\ tcall[q].pc \in {"set", "sadd"}
                               /\ tcall[q].op = "issue" /\ tcall[q].jti = j
        BY <3>2, <4>1 DEF TP!Handed
      <4>3. Busy(q)
        BY <4>2, NotBusy
      <4>4. PICK o, c : o = req[q] /\ c = tcall[q]
        OBVIOUS
      <4>5. /\ o \in Request /\ Placed(o) /\ Carries(o)
            /\ o.at \in TokenPlaces /\ AwaitsToken(o, c) /\ TokenCommands(c)
        <5>1. /\ o \in Request /\ Placed(o) /\ Carries(o)
              /\ o.at \in UserPlaces => c.pc = "idle"
              /\ o.at \in TokenPlaces => AwaitsToken(o, c)
          BY <4>3, <4>4, AtPlace
        <5>2. o.at \in TokenPlaces
          BY <4>2, <4>4, <5>1 DEF Placed
        <5>3. TokenCommands(c)
          BY <4>4 DEF ApiInv, Fits
        <5>4. QED
          BY <5>1, <5>2, <5>3
      <4>6. o.at = "issue" /\ c.claims.sub = o.name /\ refreshJwt[j] = c.claims
        <5>1. o.at = "issue"
          BY <4>2, <4>4, <4>5 DEF AwaitsToken, TokenPlaces
        <5>2. c.claims = [sub |-> o.name, tv |-> o.tv]
          BY <4>5, <5>1 DEF AwaitsToken
        <5>3. refreshJwt[j] = c.claims
          BY <4>2, <4>4, <4>5 DEF TokenCommands
        <5>4. QED
          BY <5>1, <5>2, <5>3
      <4>7. o.name = r.name /\ o.ep \in {"login", "refresh"}
        BY <3>2, <4>5, <4>6 DEF Placed
      <4>8. CASE o.ep = "login"
        <5>1. {"register", "login"} \subseteq MayOverlap
          BY <1>7, <2>3, <4>3, <4>4, <4>7, <4>8
             DEF Arrives, Admitted, AccountWriters
        <5>2. QED
          BY <5>1 DEF Serially
      <4>9. CASE o.ep = "refresh"
        BY <3>1, <4>5, <4>7, <4>9 DEF Carries, RefreshOf, T!Handed, TP!Handed
      <4>10. QED
        BY <4>7, <4>8, <4>9
    <3>3. Tokenless(r.name)
      BY <3>1, <3>2 DEF AccessOf, Tokenless
    <3>4. QED
      BY <2>1, <3>3 DEF Tokenless
  <2>4. Knows(r, u)'
    BY <1>2, <1>6, <2>1, <2>2, <2>3 DEF Knows
  <2>5. QED
    BY <1>3, <2>4
<1>8. CASE r # NoRequest /\ GoesOn(p, r, t)
  <2>1. PICK o, v : o = req[p] /\ v = ucall[p]
    OBVIOUS
  <2>2. Busy(p) /\ SameRequest(r, o)
    BY <1>8, <2>1 DEF GoesOn, SameRequest, Busy
  <2>3. o \in Request /\ Placed(o) /\ Knows(o, v) /\ Carries(o)
    BY <2>1, <2>2, AtPlace DEF EndInv
  <2>4. UNCHANGED accessJwt
    BY <1>8 DEF GoesOn
  <2>5. \A j \in RefreshIds : TP!Handed(j) => /\ TP!Handed(j)'
                                              /\ refreshJwt'[j] = refreshJwt[j]
    BY DEF Grows, TP!Monotone, TP!Handed
  <2>6. /\ \A a \in r.ends : /\ accessJwt[a] # NoToken
                             /\ r.ep = "logout" \/ accessJwt[a].sub = r.name
        /\ \A j \in r.endsR : /\ TP!Handed(j)' /\ j \in RefreshIds
                              /\ r.ep = "logout" \/ refreshJwt'[j].sub = r.name
        /\ r.ep = "logout" => r.ends = {r.a} /\ r.endsR = {r.r}
    BY <2>2, <2>3, <2>5 DEF Knows, SameRequest, Request
  <2>7. r.ep = "register" => FALSE
    <3>1. r.at # "create"
      BY <1>8 DEF GoesOn
    <3>2. Fits(r, u, t)'
      BY <1>3 DEF ApiInv
    <3>3. QED
      BY <1>4, <3>1, <3>2 DEF Fits, Placed, UserPlaces, TokenPlaces
  <2>8. r.at = "logout" => r.a \in revokedAccess
    <3>1. ASSUME r.at = "logout"
          PROVE  o.at = "blacklist" /\ tcall[p].pc = "done"
      BY <1>8, <2>1, <3>1 DEF GoesOn
    <3>2. ASSUME r.at = "logout"
          PROVE  AwaitsToken(o, tcall[p]) /\ TokenCommands(tcall[p])
      BY <2>1, <2>2, <3>1, <3>2, AtPlace DEF TokenPlaces, ApiInv, Fits
    <3>3. QED
      BY <2>2, <3>1, <3>2 DEF AwaitsToken, TokenCommands, SameRequest
  <2>9. r.at = "rotate" => NotAhead(r.name, r.tv)
    <3>1. ASSUME r.at = "rotate"
          PROVE  /\ o.at = "lookup" /\ v.pc = "done" /\ v.rec # NoUser
                 /\ r.tv = v.rec.tv
      BY <1>8, <2>1, <3>1 DEF GoesOn
    <3>2. ASSUME r.at = "rotate"
          PROVE  v.op = "read"
      BY <2>1, <2>2, <3>1, <3>2, AtPlace DEF UserPlaces, AwaitsUser
    <3>3. QED
      BY <2>2, <2>3, <3>1, <3>2 DEF Knows, SameRequest
  <2>10. r.at = "issue" => NotAhead(r.name, r.tv)
    <3>1. ASSUME r.at = "issue"
          PROVE  /\ o.ep = "login" => /\ o.at = "reread" /\ v.pc = "done"
                                      /\ v.rec # NoUser /\ r.tv = v.rec.tv
                 /\ o.ep = "refresh" => o.at = "rotate" /\ r.tv = o.tv
      BY <1>8, <2>1, <3>1 DEF GoesOn
    <3>2. ASSUME r.at = "issue"
          PROVE  o.ep \in {"login", "refresh"}
      <4>1. Fits(r, u, t)'
        BY <1>3 DEF ApiInv
      <4>2. QED
        BY <1>4, <2>2, <3>2, <4>1 DEF Fits, Placed, SameRequest
    <3>3. ASSUME r.at = "issue", o.ep = "login"
          PROVE  v.op = "read"
      BY <2>1, <2>2, <3>1, <3>3, AtPlace DEF UserPlaces, AwaitsUser
    <3>4. QED
      BY <2>2, <2>3, <3>1, <3>2, <3>3 DEF Knows, SameRequest
  <2>11. Knows(r, u)'
    BY <1>2, <1>5, <1>6, <2>4, <2>6, <2>7, <2>8, <2>9, <2>10 DEF Knows, NotAhead
  <2>12. QED
    BY <1>3, <2>11
<1>9. CASE r = NoRequest
  BY <1>4, <1>9
<1>10. QED
  BY <1>2, <1>7, <1>8, <1>9

LEMMA OwnSerial ==
    ASSUME ApiInv, EndInv, NEW p \in Procs, OwnStep(p), Serially
    PROVE  OnlyLogins'
<1>1. PICK r \in Request \cup {NoRequest} : \E t :
         /\ req' = [req EXCEPT ![p] = r]
         /\ \/ Arrives(p, r)
            \/ r # NoRequest /\ GoesOn(p, r, t)
            \/ r = NoRequest
  BY DEF OwnStep
<1>2. \A q \in Procs : req'[q] = IF q = p THEN r ELSE req[q]
  BY <1>1 DEF ApiInv, OwnTypes
<1>3. OnlyLogins
  BY DEF EndInv
<1>4. CASE r = NoRequest
  BY <1>2, <1>3, <1>4 DEF OnlyLogins, Busy
<1>5. CASE \E t : r # NoRequest /\ GoesOn(p, r, t)
  <2>1. Busy(p) /\ r.ep = req[p].ep /\ r.name = req[p].name
    BY <1>5 DEF GoesOn, SameRequest, Busy
  <2>2. \A q \in Procs : /\ Busy(q)' => Busy(q)
                         /\ Busy(q)' => req'[q].ep = req[q].ep
                         /\ Busy(q)' => req'[q].name = req[q].name
    BY <1>2, <2>1 DEF Busy
  <2>3. QED
    BY <1>3, <2>2 DEF OnlyLogins
<1>6. CASE Arrives(p, r)
  <2>1. \A q \in Procs : Busy(q) /\ req[q].name = r.name
                         /\ {r.ep, req[q].ep} \subseteq AccountWriters
                         => r.ep = "login" /\ req[q].ep = "login"
    BY <1>6 DEF Arrives, Admitted, Serially
  <2>2. ASSUME NEW q1 \in Procs, NEW q2 \in Procs,
               q1 # q2, Busy(q1)', Busy(q2)', req'[q1].name = req'[q2].name,
               {req'[q1].ep, req'[q2].ep} \subseteq AccountWriters
        PROVE  req'[q1].ep = "login" /\ req'[q2].ep = "login"
    <3>1. CASE q1 # p /\ q2 # p
      <4>1. req'[q1] = req[q1] /\ req'[q2] = req[q2]
        BY <1>2, <3>1
      <4>2. QED
        BY <1>3, <2>2, <4>1 DEF OnlyLogins, Busy
    <3>2. CASE q1 = p
      <4>1. req'[q1] = r /\ req'[q2] = req[q2]
        BY <1>2, <2>2, <3>2
      <4>2. QED
        BY <2>1, <2>2, <4>1 DEF Busy
    <3>3. CASE q2 = p
      <4>1. req'[q2] = r /\ req'[q1] = req[q1]
        BY <1>2, <2>2, <3>3
      <4>2. QED
        BY <2>1, <2>2, <4>1 DEF Busy
    <3>4. QED
      BY <3>1, <3>2, <3>3
  <2>3. QED
    BY <2>2 DEF OnlyLogins
<1>7. QED
  BY <1>1, <1>4, <1>5, <1>6

LEMMA OwnConfirmed ==
    ASSUME ApiInv, EndInv, NEW p \in Procs, OwnStep(p), ApiInv', Grows
    PROVE  Confirmed'
<1>1. PICK r \in Request \cup {NoRequest} : \E t :
         \/ Arrives(p, r)
         \/ r # NoRequest /\ GoesOn(p, r, t)
         \/ r = NoRequest /\ req[p] # NoRequest /\ Responds(p)
  BY DEF OwnStep
<1>2. UNCHANGED <<users, sessions, revokedAccess>>
  BY DEF OwnStep
<1>3. PICK ends, endsR :
        /\ barred' = barred \cup ends /\ barredRefresh' = barredRefresh \cup endsR
        /\ \/ ends = {} /\ endsR = {}
           \/ /\ Busy(p) /\ ends = req[p].ends /\ endsR = req[p].endsR
              /\ \/ /\ req[p].at = "logout"
                    /\ tcall[p].pc = "done" /\ tcall[p].res = "ok"
                 \/ Raised(req[p], ucall[p])
  <2>1. CASE UNCHANGED <<barred, barredRefresh>>
    <3>1. barred' = barred \cup {} /\ barredRefresh' = barredRefresh \cup {}
      BY <2>1
    <3>2. QED
      BY <3>1
  <2>2. CASE /\ \/ /\ req[p].at = "logout"
                   /\ tcall[p].pc = "done" /\ tcall[p].res = "ok"
                \/ /\ req[p].at \in {"bump", "delete"}
                   /\ ucall[p].pc = "done" /\ ucall[p].res = "ok"
             /\ barred' = barred \cup req[p].ends
             /\ barredRefresh' = barredRefresh \cup req[p].endsR
             /\ req[p] # NoRequest
    BY <2>2 DEF Raised, Busy
  <2>3. CASE r = NoRequest /\ req[p] # NoRequest /\ Responds(p)
    BY <2>1, <2>2, <2>3 DEF Responds, history
  <2>4. CASE Arrives(p, r)
    BY <2>1, <2>4 DEF Arrives, history
  <2>5. CASE \E t : GoesOn(p, r, t)
    BY <2>1, <2>5 DEF GoesOn, history
  <2>6. QED
    BY <1>1, <2>3, <2>4, <2>5
<1>4. /\ \A a \in AccessIds : accessJwt[a] # NoToken => accessJwt'[a] = accessJwt[a]
      /\ \A j \in RefreshIds : TP!Handed(j) => /\ TP!Handed(j)'
                                               /\ refreshJwt'[j] = refreshJwt[j]
      /\ \A j \in RefreshIds : TP!Over(j) => TP!Over(j)'
  BY DEF Grows, TP!Monotone, TP!Handed, TP!Over
<1>5. ASSUME Busy(p), ends = req[p].ends, endsR = req[p].endsR
      PROVE  /\ \A a \in ends : a \in AccessIds /\ accessJwt[a] # NoToken
             /\ \A j \in endsR : j \in RefreshIds /\ TP!Handed(j)
  BY <1>5, AtPlace DEF EndInv, Knows, Request
<1>6. ASSUME Busy(p), ends = req[p].ends, endsR = req[p].endsR,
             req[p].at = "logout", tcall[p].pc = "done", tcall[p].res = "ok"
      PROVE  /\ \A a \in ends : a \in revokedAccess
             /\ \A j \in endsR : TP!Over(j)
  <2>1. PICK o, c : o = req[p] /\ c = tcall[p]
    OBVIOUS
  <2>2. /\ Knows(o, ucall[p]) /\ Placed(o) /\ AwaitsToken(o, c)
        /\ TokenCommands(c)
    BY <1>6, <2>1, AtPlace DEF EndInv, TokenPlaces, ApiInv, Fits
  <2>3. /\ o.a \in revokedAccess /\ o.ends = {o.a} /\ o.endsR = {o.r}
    BY <1>6, <2>1, <2>2 DEF Knows, Placed
  <2>4. TP!Over(o.r)
    BY <1>6, <2>1, <2>2 DEF AwaitsToken, TokenCommands
  <2>5. QED
    BY <1>6, <2>1, <2>3, <2>4
<1>7. ASSUME Busy(p), ends = req[p].ends, endsR = req[p].endsR,
             Raised(req[p], ucall[p])
      PROVE  /\ \A a \in ends : Behind(accessJwt[a])
             /\ \A j \in endsR : Behind(refreshJwt[j])
  BY <1>7 DEF EndInv, Knows, EndsBehind
<1>8. ASSUME NEW a \in barred'
      PROVE  /\ accessJwt'[a] # NoToken
             /\ a \in revokedAccess' \/ Behind(accessJwt[a])'
  <2>1. /\ a \in AccessIds /\ accessJwt[a] # NoToken
        /\ a \in revokedAccess \/ Behind(accessJwt[a])
    BY <1>3, <1>5, <1>6, <1>7, <1>8 DEF EndInv, Confirmed, ApiInv, OwnTypes
  <2>2. accessJwt'[a] = accessJwt[a]
    BY <1>4, <2>1
  <2>3. QED
    BY <1>2, <2>1, <2>2 DEF Behind
<1>9. ASSUME NEW j \in barredRefresh'
      PROVE  TP!Handed(j)' /\ (TP!Over(j)' \/ Behind(refreshJwt[j])')
  <2>1. /\ j \in RefreshIds /\ TP!Handed(j)
        /\ TP!Over(j) \/ Behind(refreshJwt[j])
    BY <1>3, <1>5, <1>6, <1>7, <1>9 DEF EndInv, Confirmed, ApiInv, OwnTypes
  <2>2. refreshJwt'[j] = refreshJwt[j]
    BY <1>4, <2>1
  <2>3. QED
    BY <1>2, <1>4, <2>1, <2>2 DEF Behind
<1>10. QED
  BY <1>8, <1>9 DEF Confirmed

\* A step of a handler.
LEMMA OwnEnd ==
    ASSUME ApiInv, EndInv, NEW p \in Procs, OwnStep(p), ApiInv', Grows, Serially
    PROVE  EndInv'
<1>1. OnlyLogins' /\ Confirmed'
  BY OwnSerial, OwnConfirmed
<1>2. ReachedVersions'
  <2>1. UNCHANGED users
    BY DEF OwnStep
  <2>2. QED
    BY <2>1, NewTokens DEF EndInv, ReachedVersions, NotAhead
<1>3. ASSUME NEW q \in Procs, Busy(q)'
      PROVE  Knows(req[q], ucall[q])'
  <2>1. CASE q = p
    BY <1>3, <2>1, OwnKnows
  <2>2. CASE q # p
    <3>1. Busy(q)
      BY <1>3, <2>2 DEF Busy, OwnStep, ApiInv, OwnTypes
    <3>2. QED
      BY <2>2, <3>1, OthersKnow
  <2>3. QED
    BY <2>1, <2>2
<1>4. QED
  BY <1>1, <1>2, <1>3 DEF EndInv

\* What a command of UserService does to the account of its call c, and the
\* command, copy and result the call then has.
UserMove(c, pc, rec, res) ==
    \/ /\ UNCHANGED users
       /\ c.op = "read" /\ pc = "done" /\ rec = users[c.name]
    \/ /\ UNCHANGED users
       /\ c.op # "read" /\ pc = "done" /\ res \in {"exists", "missing"}
       /\ c.op # "create" => users[c.name] = NoUser
    \/ /\ UNCHANGED users
       /\ c.op # "read" /\ rec = users[c.name]
       /\ pc = IF c.op = "delete" THEN "del" ELSE "set"
       /\ c.op = "create" <=> users[c.name] = NoUser
    \/ /\ c.pc = "set" /\ pc = "sadd"
       /\ users' = [users EXCEPT ![c.name] = U!Written(c)]
    \/ /\ UNCHANGED users
       /\ c.pc = "sadd" /\ pc = "done" /\ res = "ok" /\ rec = c.rec
    \/ /\ c.pc = "del" /\ pc = "srem"
       /\ users' = [users EXCEPT ![c.name] = NoUser]
    \/ /\ UNCHANGED users
       /\ c.pc = "srem" /\ pc = "done" /\ res = "ok"

LEMMA UserMoves ==
    ASSUME ApiInv, NEW p \in Procs, U!UserStep(p)
    PROVE  /\ ucall[p].pc # "idle"
           /\ \E u : /\ ucall' = [ucall EXCEPT ![p] = u]
                     /\ u.op = ucall[p].op /\ u.name = ucall[p].name
                     /\ u.chg = ucall[p].chg
                     /\ UserMove(ucall[p], u.pc, u.rec, u.res)
<1>1. ucall[p].pc # "idle"
  BY DEF U!UserStep, U!ReadUser, U!Reject, U!Fetch, U!SetUser, U!SAddUser,
         U!DelUser, U!SRemUser, U!At
<1>2. ucall[p] \in UP!Call
  BY <1>1, IdleIsNoCall
<1>3. ucall \in [Procs -> UP!Call \cup {UP!NoCall}]
  BY DEF ApiInv, UP!UserInv, UP!UserTypeOK
<1>4. PICK pc, rec, res :
        /\ ucall' = [ucall EXCEPT ![p].pc = pc, ![p].rec = rec, ![p].res = res]
        /\ UserMove(ucall[p], pc, rec, res)
  <2>1. CASE U!ReadUser(p)
    <3>1. /\ ucall' = [ucall EXCEPT ![p].pc = "done",
                         ![p].rec = users[ucall[p].name], ![p].res = "ok"]
          /\ UserMove(ucall[p], "done", users[ucall[p].name], "ok")
      BY <2>1 DEF U!ReadUser, U!Finish, UserMove
    <3>2. QED
      BY <3>1
  <2>2. CASE U!Reject(p)
    <3>1. PICK res \in {"exists", "missing"} :
            ucall' = [ucall EXCEPT ![p].pc = "done", ![p].rec = NoUser,
                                   ![p].res = res]
      BY <2>2 DEF U!Reject, U!Finish
    <3>2. UserMove(ucall[p], "done", NoUser, res)
      BY <2>2, <3>1 DEF U!Reject, U!Refuses, UserMove
    <3>3. QED
      BY <3>1, <3>2
  <2>3. CASE U!Fetch(p)
    <3> DEFINE to == IF ucall[p].op = "delete" THEN "del" ELSE "set"
    <3>1. ucall' = [ucall EXCEPT ![p].pc = to, ![p].rec = users[ucall[p].name],
                                 ![p].res = ucall[p].res]
      BY <1>2, <1>3, <2>3 DEF U!Fetch, UP!Call
    <3>2. UserMove(ucall[p], to, users[ucall[p].name], ucall[p].res)
      BY <2>3 DEF U!Fetch, U!Refuses, UserMove
    <3>3. QED
      BY <3>1, <3>2
  <2>4. CASE U!SetUser(p)
    <3>1. ucall' = [ucall EXCEPT ![p].pc = "sadd",
                                 ![p].rec = U!Written(ucall[p]),
                                 ![p].res = ucall[p].res]
      BY <1>2, <1>3, <2>4 DEF U!SetUser, UP!Call
    <3>2. UserMove(ucall[p], "sadd", U!Written(ucall[p]), ucall[p].res)
      BY <2>4 DEF U!SetUser, U!At, UserMove
    <3>3. QED
      BY <3>1, <3>2
  <2>5. CASE U!SAddUser(p)
    <3>1. /\ ucall' = [ucall EXCEPT ![p].pc = "done", ![p].rec = ucall[p].rec,
                                    ![p].res = "ok"]
          /\ UserMove(ucall[p], "done", ucall[p].rec, "ok")
      BY <2>5 DEF U!SAddUser, U!At, U!Finish, UserMove
    <3>2. QED
      BY <3>1
  <2>6. CASE U!DelUser(p)
    <3>1. ucall' = [ucall EXCEPT ![p].pc = "srem", ![p].rec = ucall[p].rec,
                                 ![p].res = ucall[p].res]
      BY <1>2, <1>3, <2>6 DEF U!DelUser, UP!Call
    <3>2. UserMove(ucall[p], "srem", ucall[p].rec, ucall[p].res)
      BY <2>6 DEF U!DelUser, U!At, UserMove
    <3>3. QED
      BY <3>1, <3>2
  <2>7. CASE U!SRemUser(p)
    <3>1. /\ ucall' = [ucall EXCEPT ![p].pc = "done", ![p].rec = NoUser,
                                    ![p].res = "ok"]
          /\ UserMove(ucall[p], "done", NoUser, "ok")
      BY <2>7 DEF U!SRemUser, U!At, U!Finish, UserMove
    <3>2. QED
      BY <3>1
  <2>8. QED
    BY <2>1, <2>2, <2>3, <2>4, <2>5, <2>6, <2>7 DEF U!UserStep
<1>5. PICK u : u = [ucall[p] EXCEPT !.pc = pc, !.rec = rec, !.res = res]
  OBVIOUS
<1>6. ucall' = [ucall EXCEPT ![p] = u]
  BY <1>3, <1>4, <1>5
<1>7. /\ u.op = ucall[p].op /\ u.name = ucall[p].name
      /\ u.chg = ucall[p].chg /\ u.pc = pc /\ u.rec = rec /\ u.res = res
  BY <1>2, <1>5 DEF UP!Call
<1>8. QED
  BY <1>1, <1>4, <1>6, <1>7

\* How a command changes the account it is about, and that it changes no
\* other.
Evolves(n, r) ==
    \/ users'[n] = users[n]
    \/ /\ n = r.name
       /\ \/ users[n] = NoUser /\ r.ep = "register"
          \/ users'[n] = NoUser /\ r.ep = "delete"
          \/ /\ users[n] # NoUser /\ users'[n] # NoUser
             /\ r.ep \notin {"register", "delete"}
             /\ users'[n].tv = IF r.at = "bump" THEN users[n].tv + 1
                               ELSE users[n].tv
             /\ r.at # "update" => users'[n].pw = users[n].pw

LEMMA UserEvolves ==
    ASSUME ApiInv, EndInv, NEW p \in Procs, U!UserStep(p)
    PROVE  \A n \in Names : Evolves(n, req[p])
<1>1. PICK u : ucall[p].pc # "idle" /\ UserMove(ucall[p], u.pc, u.rec, u.res)
  BY UserMoves
<1>2. PICK r, c : r = req[p] /\ c = ucall[p]
  OBVIOUS
<1>3. /\ Busy(p) /\ r \in Request /\ c \in UP!Call /\ c.name = r.name
      /\ r.name \in Names /\ Placed(r) /\ Knows(r, c)
      /\ r.at \in UserPlaces
      /\ c.op = "create" <=> r.ep = "register"
      /\ c.op = "bump" <=> r.at = "bump"
      /\ c.op = "delete" <=> r.at = "delete"
      /\ c.op = "update" <=> r.at = "update"
  BY <1>1, <1>2, CallOfRequest, AtPlace DEF EndInv
<1>4. UP!InOrder(c) /\ users \in [Names -> UP!StoredUser \cup {NoUser}]
  BY <1>2 DEF ApiInv, UP!UserInv, UP!CallsInOrder, UP!UserTypeOK
<1>5. CASE UNCHANGED users
  BY <1>5 DEF Evolves
<1>6. CASE c.pc = "del" /\ users' = [users EXCEPT ![c.name] = NoUser]
  <2>1. r.ep = "delete"
    BY <1>3, <1>4, <1>6 DEF UP!InOrder, Placed
  <2>2. QED
    BY <1>2, <1>3, <1>4, <1>6, <2>1 DEF Evolves
<1>7. CASE c.pc = "set" /\ users' = [users EXCEPT ![c.name] = U!Written(c)]
  <2>1. users'[c.name] = U!Written(c)
    BY <1>3, <1>4, <1>7
  <2>2. \A n \in Names : n # c.name => users'[n] = users[n]
    BY <1>3, <1>4, <1>7
  <2>3. CASE c.op = "create"
    <3>1. users[r.name] = NoUser
      BY <1>3, <1>7, <2>3 DEF Knows
    <3>2. QED
      BY <1>2, <1>3, <2>2, <2>3, <3>1 DEF Evolves
  <2>4. CASE c.op # "create"
    <3>1. /\ users[r.name] # NoUser /\ c.rec # NoUser
          /\ c.rec.tv = users[r.name].tv /\ c.rec.pw = users[r.name].pw
      BY <1>3, <1>7, <2>4 DEF Knows
    <3>2. c.rec \in UP!StoredUser
      BY <1>3, <3>1 DEF UP!Call
    <3>3. c.op \in {"update", "login", "fail", "bump"}
      BY <1>4, <1>7, <2>4 DEF UP!InOrder, UP!Writers
    <3>4. /\ U!Written(c) \in UP!StoredUser
          /\ U!Written(c).tv = IF c.op = "bump" THEN c.rec.tv + 1 ELSE c.rec.tv
          /\ c.op # "update" => U!Written(c).pw = c.rec.pw
      <4>1. U!Written(c) = UP!Written(c)
        BY DEF U!Written, UP!Written, U!NewUser, UP!NewUser, U!Updated,
           UP!Updated, U!LoggedIn, UP!LoggedIn, U!FailedOnce, UP!FailedOnce,
           U!Versioned, UP!Versioned
      <4>2. UP!Written(c) \in UP!StoredUser
        <5>1. c.op \in UP!Writers \ {"delete"} /\ c.chg \in UP!Change
          BY <1>3, <3>3 DEF UP!Writers, UP!Call
        <5>2. QED
          BY <2>4, <3>2, <5>1, UP!WrittenKeepsType, UserAssumptions
      <4>3. /\ c.op = "update" => U!Written(c) = U!Updated(c.rec, c.chg)
            /\ c.op = "login" => U!Written(c) = U!LoggedIn(c.rec)
            /\ c.op = "fail" => U!Written(c) = U!FailedOnce(c.rec)
            /\ c.op = "bump" => U!Written(c) = U!Versioned(c.rec)
        BY DEF U!Written
      <4>4. /\ U!Updated(c.rec, c.chg).tv = c.rec.tv
            /\ U!LoggedIn(c.rec).tv = c.rec.tv
            /\ U!LoggedIn(c.rec).pw = c.rec.pw
            /\ U!FailedOnce(c.rec).tv = c.rec.tv
            /\ U!FailedOnce(c.rec).pw = c.rec.pw
            /\ U!Versioned(c.rec).tv = c.rec.tv + 1
            /\ U!Versioned(c.rec).pw = c.rec.pw
        BY <3>2 DEF UP!StoredUser, U!Updated, U!LoggedIn, U!FailedOnce,
           U!Versioned
      <4>5. QED
        BY <3>3, <4>1, <4>2, <4>3, <4>4
    <3>5. NoUser \notin UP!StoredUser
      BY ApiAssumption DEF U!StoredUser, UP!StoredUser
    <3>6. r.ep \notin {"register", "delete"}
      BY <1>3, <2>4, <3>3 DEF Placed, UserPlaces
    <3>7. QED
      BY <1>2, <1>3, <2>1, <2>2, <3>1, <3>4, <3>5, <3>6 DEF Evolves
  <2>5. QED
    BY <2>3, <2>4
<1>8. QED
  BY <1>1, <1>2, <1>5, <1>6, <1>7 DEF UserMove

\* Tokens of an account keep what is known of their versions.
LEMMA VersionsKept ==
    ASSUME ApiInv, EndInv, NEW p \in Procs, U!UserStep(p)
    PROVE  /\ \A n \in Names :
                /\ ~Tokenless(n) /\ users[n] = NoUser => users'[n] = NoUser
                /\ users[n] # NoUser /\ users'[n] # NoUser
                   => users[n].tv <= users'[n].tv
           /\ \A a \in AccessIds : accessJwt[a] # NoToken =>
                LET c == accessJwt[a] IN
                /\ c.sub \in Names /\ c.tv \in Nat
                /\ Behind(c) => users'[c.sub] = NoUser \/ c.tv < users'[c.sub].tv
                /\ users'[c.sub] # NoUser => c.tv <= users'[c.sub].tv
           /\ \A j \in RefreshIds : refreshJwt[j] # NoToken =>
                LET c == refreshJwt[j] IN
                /\ c.sub \in Names /\ c.tv \in Nat
                /\ Behind(c) => users'[c.sub] = NoUser \/ c.tv < users'[c.sub].tv
                /\ users'[c.sub] # NoUser => c.tv <= users'[c.sub].tv
<1>1. PICK r : r = req[p]
  OBVIOUS
<1>2. \A n \in Names : Evolves(n, r)
  BY <1>1, UserEvolves
<1>3. Busy(p) /\ Knows(r, ucall[p])
  BY <1>1, UserMoves, CallOfRequest DEF EndInv
<1>4. ASSUME NEW n \in Names
      PROVE  users[n] # NoUser => users[n].tv \in Nat
  BY DEF ApiInv, UP!UserInv, UP!UserTypeOK, UP!StoredUser
<1>5. ASSUME NEW n \in Names
      PROVE  /\ ~Tokenless(n) /\ users[n] = NoUser => users'[n] = NoUser
             /\ users[n] # NoUser /\ users'[n] # NoUser
                => users[n].tv <= users'[n].tv
  <2>1. Evolves(n, r)
    BY <1>2
  <2>2. users[n] # NoUser => users[n].tv \in Nat
    BY <1>4
  <2>3. r.ep = "register" => Tokenless(r.name)
    BY <1>3 DEF Knows
  <2>4. QED
    BY <2>1, <2>2, <2>3 DEF Evolves
<1>6. ASSUME NEW c \in TP!Claims, ~Tokenless(c.sub),
             NotAhead(c.sub, c.tv)
      PROVE  /\ c.sub \in Names /\ c.tv \in Nat
             /\ Behind(c) => users'[c.sub] = NoUser \/ c.tv < users'[c.sub].tv
             /\ users'[c.sub] # NoUser => c.tv <= users'[c.sub].tv
  <2>1. c.sub \in Names /\ c.tv \in Nat
    BY DEF TP!Claims
  <2>2. users[c.sub] # NoUser /\ users'[c.sub] # NoUser =>
          users[c.sub].tv \in Nat /\ users'[c.sub].tv \in Nat
    BY <2>1, UserSteps DEF ApiInv, UP!UserInv, UP!UserTypeOK, UP!StoredUser
  <2>3. QED
    BY <1>5, <1>6, <2>1, <2>2 DEF Behind, NotAhead
<1>7. ASSUME NEW a \in AccessIds, accessJwt[a] # NoToken
      PROVE  /\ accessJwt[a] \in TP!Claims /\ ~Tokenless(accessJwt[a].sub)
             /\ NotAhead(accessJwt[a].sub, accessJwt[a].tv)
  BY <1>7 DEF ApiInv, OwnTypes, Tokenless, EndInv, ReachedVersions
<1>8. ASSUME NEW j \in RefreshIds, refreshJwt[j] # NoToken
      PROVE  /\ refreshJwt[j] \in TP!Claims /\ ~Tokenless(refreshJwt[j].sub)
             /\ NotAhead(refreshJwt[j].sub, refreshJwt[j].tv)
  BY <1>8 DEF ApiInv, TP!TokenInv, TP!TokenTypeOK, Tokenless, EndInv,
     ReachedVersions
<1>9. QED
  BY <1>5, <1>6, <1>7, <1>8

\* What the other requests know while a command changes an account.
LEMMA OthersKnowUser ==
    ASSUME ApiInv, EndInv, NEW p \in Procs, U!UserStep(p),
           UNCHANGED <<tvars, apiOnly>>, NEW q \in Procs, q # p, Busy(q)
    PROVE  Knows(req[q], ucall[q])'
<1>1. PICK u : ucall' = [ucall EXCEPT ![p] = u]
  BY UserMoves
<1>2. ucall'[q] = ucall[q] /\ req'[q] = req[q]
  BY <1>1 DEF apiOnly, ApiInv, UP!UserInv, UP!UserTypeOK
<1>3. UNCHANGED <<accessJwt, refreshJwt, revokedAccess, tcall>>
  BY DEF apiOnly, tvars
<1>4. PICK r, c, o : r = req[q] /\ c = ucall[q] /\ o = req[p]
  OBVIOUS
<1>5. /\ r \in Request /\ Knows(r, c) /\ r.name \in Names
  BY <1>4, AtPlace DEF EndInv, Request
<1>6. Busy(p) /\ Evolves(r.name, o)
  BY <1>4, <1>5, UserEvolves, UserMoves, CallOfRequest
<1>7. users[r.name] = NoUser => users'[r.name] = NoUser
  <2>1. ~(r.name = o.name /\ o.ep = "register")
    BY <1>4, <1>6, Alone
  <2>2. QED
    BY <1>6, <2>1 DEF Evolves
<1>8. users[r.name] # NoUser /\ users'[r.name] # NoUser
      => users[r.name].tv <= users'[r.name].tv
  BY <1>5, VersionsKept
<1>9. ASSUME NEW v \in Nat, NotAhead(r.name, v)
      PROVE  NotAhead(r.name, v)'
  <2>1. users[r.name] # NoUser /\ users'[r.name] # NoUser =>
          users[r.name].tv \in Nat /\ users'[r.name].tv \in Nat
    BY <1>5, UserSteps DEF ApiInv, UP!UserInv, UP!UserTypeOK, UP!StoredUser
  <2>2. QED
    BY <1>7, <1>8, <1>9, <2>1 DEF NotAhead
<1>10. ASSUME c.pc = "set", c.op # "create"
       PROVE  /\ users'[r.name] # NoUser
              /\ c.rec.tv = users'[r.name].tv /\ c.rec.pw = users'[r.name].pw
  <2>1. /\ users[r.name] # NoUser
        /\ c.rec.tv = users[r.name].tv /\ c.rec.pw = users[r.name].pw
    BY <1>5, <1>10 DEF Knows
  <2>2. CASE users'[r.name] = users[r.name]
    BY <2>1, <2>2
  <2>3. CASE users'[r.name] # users[r.name]
    <3>1. o.name = r.name
      BY <1>6, <2>3 DEF Evolves
    <3>2. c.op # "read" /\ r.ep \in AccountWriters
      <4>1. UserCommands(c) /\ c.pc # "idle"
        BY <1>4, <1>10 DEF ApiInv, Fits
      <4>2. QED
        BY <1>4, <1>10, <4>1, CallOfRequest DEF UserCommands
    <3>3. o.ep \in AccountWriters
      <4>1. ucall[p].op # "read"
        <5>1. PICK v : UserMove(ucall[p], v.pc, v.rec, v.res)
          BY UserMoves
        <5>2. UserCommands(ucall[p]) /\ ucall[p].pc # "idle"
          BY UserMoves DEF ApiInv, Fits
        <5>3. ~UNCHANGED users
          BY <2>3
        <5>4. ucall[p].pc \in {"set", "del"}
          BY <5>1, <5>3 DEF UserMove
        <5>5. QED
          BY <5>2, <5>4 DEF UserCommands
      <4>2. QED
        BY <1>4, <4>1, UserMoves, CallOfRequest
    <3>4. o.ep = "login"
      BY <1>4, <1>6, <3>1, <3>2, <3>3 DEF EndInv, OnlyLogins
    <3>5. o.at \notin {"bump", "update"}
      BY <1>4, <1>6, <3>4, AtPlace DEF Placed
    <3>6. QED
      BY <1>6, <2>1, <2>3, <3>4, <3>5 DEF Evolves
  <2>4. QED
    BY <2>2, <2>3
<1>11. Raised(r, c) => EndsBehind(r)'
  <2>1. /\ \A a \in r.ends : a \in AccessIds /\ accessJwt[a] # NoToken
        /\ \A j \in r.endsR : j \in RefreshIds /\ refreshJwt[j] # NoToken
    BY <1>5 DEF Knows, Request, TP!Handed
  <2>2. QED
    BY <1>3, <1>5, <2>1, VersionsKept DEF Knows, EndsBehind, Behind
<1>12. /\ r.tv \in Nat
       /\ c.pc = "done" /\ c.rec # NoUser => c.rec.tv \in Nat
  <2>1. c.pc = "done" => c \in UP!Call
    BY <1>4, IdleIsNoCall
  <2>2. QED
    BY <1>5, <2>1 DEF Request, UP!Call, UP!StoredUser
<1>13. Knows(r, c)'
  BY <1>3, <1>5, <1>7, <1>9, <1>10, <1>11, <1>12
     DEF Knows, Tokenless, TP!Handed, Raised
<1>14. QED
  BY <1>2, <1>4, <1>13

\* What the request knows whose call the command is of.
LEMMA OwnKnowsUser ==
    ASSUME ApiInv, EndInv, NEW p \in Procs, U!UserStep(p),
           UNCHANGED <<tvars, apiOnly>>
    PROVE  Knows(req[p], ucall[p])'
<1>1. PICK u : /\ ucall' = [ucall EXCEPT ![p] = u]
               /\ u.op = ucall[p].op /\ u.name = ucall[p].name
               /\ UserMove(ucall[p], u.pc, u.rec, u.res)
  BY UserMoves
<1>2. ucall'[p] = u /\ req'[p] = req[p]
  BY <1>1 DEF apiOnly, ApiInv, UP!UserInv, UP!UserTypeOK
<1>3. UNCHANGED <<accessJwt, refreshJwt, revokedAccess, tcall>>
  BY DEF apiOnly, tvars
<1>4. PICK r, c : r = req[p] /\ c = ucall[p]
  OBVIOUS
<1>5. /\ Busy(p) /\ r \in Request /\ r.name \in Names /\ r.at \in UserPlaces
      /\ c \in UP!Call /\ c.name = r.name /\ Placed(r) /\ Knows(r, c)
      /\ c.op = "create" <=> r.ep = "register"
      /\ c.op = "bump" <=> r.at = "bump"
      /\ c.op = "delete" <=> r.at = "delete"
  BY <1>4, UserMoves, CallOfRequest, AtPlace DEF EndInv
<1>6. UserMove(c, u.pc, u.rec, u.res) /\ u.op = c.op
  BY <1>1, <1>4
<1>7. /\ UP!InOrder(c) /\ UserCommands(c) /\ c.pc # "idle"
  BY <1>4, UserMoves DEF ApiInv, UP!UserInv, UP!CallsInOrder, Fits
<1>8. Evolves(r.name, r)
  BY <1>4, <1>5, UserEvolves
<1>9. users \in [Names -> UP!StoredUser \cup {NoUser}]
  BY DEF ApiInv, UP!UserInv, UP!UserTypeOK
<1>10. r.at \notin {"rotate", "issue", "logout"}
  BY <1>5 DEF UserPlaces
<1>11. ASSUME u.pc = "done", u.op = "read", u.rec # NoUser
       PROVE  NotAhead(r.name, u.rec.tv)'
  <2>1. UNCHANGED users /\ u.rec = users[r.name]
    BY <1>5, <1>6, <1>7, <1>11 DEF UserMove, UserCommands
  <2>2. users[r.name].tv \in Nat
    BY <1>5, <1>9, <1>11, <2>1 DEF UP!StoredUser
  <2>3. QED
    BY <2>1, <2>2 DEF NotAhead
<1>12. ASSUME u.pc = "set"
       PROVE  /\ u.op = "create" => users'[r.name] = NoUser
              /\ u.op # "create" =>
                   /\ users'[r.name] # NoUser /\ u.rec # NoUser
                   /\ u.rec.tv = users'[r.name].tv
                   /\ u.rec.pw = users'[r.name].pw
  BY <1>5, <1>6, <1>12 DEF UserMove
<1>13. ASSUME Raised(r, u)
       PROVE  EndsBehind(r)'
  <2>1. /\ r.ep # "logout"
        /\ \A a \in r.ends : /\ a \in AccessIds /\ accessJwt[a] # NoToken
                             /\ accessJwt[a].sub = r.name
        /\ \A j \in r.endsR : /\ j \in RefreshIds /\ refreshJwt[j] # NoToken
                              /\ refreshJwt[j].sub = r.name
    <3>1. r.ep # "logout"
      BY <1>5, <1>13 DEF Raised, Placed
    <3>2. QED
      BY <1>5, <3>1 DEF Knows, Request, TP!Handed
  <2>2. /\ \A a \in AccessIds : accessJwt[a] # NoToken =>
             LET k == accessJwt[a] IN
             /\ k.tv \in Nat
             /\ Behind(k) => users'[k.sub] = NoUser \/ k.tv < users'[k.sub].tv
        /\ \A j \in RefreshIds : refreshJwt[j] # NoToken =>
             LET k == refreshJwt[j] IN
             /\ k.tv \in Nat
             /\ Behind(k) => users'[k.sub] = NoUser \/ k.tv < users'[k.sub].tv
    BY VersionsKept
  <2>3. CASE Raised(r, c)
    BY <1>3, <1>5, <2>1, <2>2, <2>3 DEF Knows, EndsBehind, Behind
  <2>4. CASE users'[r.name] = NoUser
    BY <1>3, <2>1, <2>4 DEF EndsBehind, Behind
  <2>5. CASE /\ r.at = "bump" /\ users[r.name] # NoUser
             /\ users'[r.name] # NoUser
             /\ users'[r.name].tv = users[r.name].tv + 1
    <3>1. users[r.name].tv \in Nat
      BY <1>5, <1>9, <2>5 DEF UP!StoredUser
    <3>2. /\ \A a \in r.ends : accessJwt[a].tv <= users[r.name].tv
          /\ \A j \in r.endsR : refreshJwt[j].tv <= users[r.name].tv
      BY <2>1, <2>5 DEF EndInv, ReachedVersions, NotAhead
    <3>3. /\ \A a \in r.ends : accessJwt[a].tv < users'[r.name].tv
          /\ \A j \in r.endsR : refreshJwt[j].tv < users'[r.name].tv
      BY <2>1, <2>2, <2>5, <3>1, <3>2
    <3>4. QED
      BY <1>3, <2>1, <3>3 DEF EndsBehind, Behind
  <2>6. CASE r.at = "bump" /\ ~Raised(r, c)
    <3>1. u.pc = "sadd" \/ (u.pc = "done" /\ u.res = "ok")
      BY <1>13, <2>6 DEF Raised
    <3>2. c.op = "bump" /\ c.pc # "sadd"
      BY <1>5, <2>6 DEF Raised
    <3>3. c.pc = "set" /\ users' = [users EXCEPT ![c.name] = U!Written(c)]
      BY <1>6, <1>7, <3>1, <3>2 DEF UserMove, UserCommands
    <3>4. users[r.name] # NoUser
      BY <1>5, <3>2, <3>3 DEF Knows
    <3>5. CASE users'[r.name] = users[r.name]
      <4>1. /\ c.rec \in UP!StoredUser /\ c.rec.tv = users[r.name].tv
        BY <1>5, <3>2, <3>3 DEF Knows, UP!Call
      <4>2. users'[r.name] = U!Versioned(c.rec)
        BY <1>5, <1>9, <3>2, <3>3 DEF U!Written
      <4>3. U!Versioned(c.rec).tv = c.rec.tv + 1 /\ c.rec.tv \in Nat
        BY <4>1 DEF U!Versioned, UP!StoredUser
      <4>4. QED
        BY <3>5, <4>1, <4>2, <4>3
    <3>6. CASE users'[r.name] # users[r.name]
      <4>1. r.ep \notin {"register", "delete"}
        BY <1>5, <2>6 DEF Placed
      <4>2. QED
        BY <1>8, <2>4, <2>5, <2>6, <3>4, <3>6, <4>1 DEF Evolves
    <3>7. QED
      BY <3>5, <3>6
  <2>7. CASE r.at = "delete" /\ ~Raised(r, c)
    <3>1. u.pc = "srem" \/ (u.pc = "done" /\ u.res = "ok")
      BY <1>13, <2>7 DEF Raised
    <3>2. c.op = "delete" /\ c.pc # "srem"
      BY <1>5, <2>7 DEF Raised
    <3>3. users' = [users EXCEPT ![c.name] = NoUser]
      BY <1>6, <1>7, <3>1, <3>2 DEF UserMove, UserCommands
    <3>4. QED
      BY <1>5, <1>9, <2>4, <3>3
  <2>8. QED
    BY <1>13, <2>3, <2>6, <2>7 DEF Raised
<1>14. Knows(r, u)'
  BY <1>3, <1>5, <1>10, <1>11, <1>12, <1>13 DEF Knows, Tokenless, TP!Handed, Raised
<1>15. QED
  BY <1>2, <1>4, <1>14

\* A command of UserService.
LEMMA UserCommandEnd ==
    ASSUME ApiInv, EndInv, NEW p \in Procs, U!UserStep(p),
           UNCHANGED <<tvars, apiOnly>>
    PROVE  EndInv'
<1>1. UNCHANGED <<accessJwt, refreshJwt, revokedAccess, tcall, sessions, req,
                  barred, barredRefresh>>
  BY DEF apiOnly, tvars, history
<1>2. OnlyLogins'
  BY <1>1 DEF EndInv, OnlyLogins, Busy
<1>3. ReachedVersions'
  BY <1>1, VersionsKept DEF ReachedVersions, NotAhead
<1>4. Confirmed'
  <2>1. /\ \A a \in barred : /\ a \in AccessIds /\ accessJwt[a] # NoToken
                             /\ a \in revokedAccess \/ Behind(accessJwt[a])
        /\ \A j \in barredRefresh :
             /\ j \in RefreshIds /\ TP!Handed(j) /\ refreshJwt[j] # NoToken
             /\ TP!Over(j) \/ Behind(refreshJwt[j])
    BY DEF EndInv, Confirmed, ApiInv, OwnTypes, TP!Handed
  <2>2. QED
    BY <1>1, <2>1, VersionsKept DEF Confirmed, Behind, TP!Over, TP!Handed
<1>5. \A q \in Procs : Busy(q)' => Knows(req[q], ucall[q])'
  BY <1>1, OthersKnowUser, OwnKnowsUser DEF Busy
<1>6. QED
  BY <1>2, <1>3, <1>4, <1>5 DEF EndInv

\* Accounts keep their versions and passwords, and calls of UserService
\* everything but the locks in their copies.
LocksOnly ==
    /\ \A n \in Names :
         /\ users'[n] = NoUser <=> users[n] = NoUser
         /\ users[n] # NoUser => /\ users'[n].tv = users[n].tv
                                 /\ users'[n].pw = users[n].pw
    /\ \A q \in Procs :
         \/ ucall'[q] = ucall[q]
         \/ /\ ucall'[q].pc = ucall[q].pc /\ ucall'[q].op = ucall[q].op
            /\ ucall'[q].res = ucall[q].res
            /\ ucall'[q].rec = NoUser <=> ucall[q].rec = NoUser
            /\ ucall[q].rec # NoUser =>
                 /\ ucall'[q].rec.tv = ucall[q].rec.tv
                 /\ ucall'[q].rec.pw = ucall[q].rec.pw

LEMMA LockIsOnly ==
    ASSUME ApiInv, NEW n \in Names, U!LockExpires(n)
    PROVE  LocksOnly
<1>1. \A u \in UP!StoredUser : /\ U!Unlocked(u) # NoUser
                               /\ U!Unlocked(u).tv = u.tv
                               /\ U!Unlocked(u).pw = u.pw
  <2>1. NoUser \notin UP!StoredUser
    BY ApiAssumption DEF U!StoredUser, UP!StoredUser
  <2>2. ASSUME NEW u \in UP!StoredUser
        PROVE  /\ U!Unlocked(u) \in UP!StoredUser
               /\ U!Unlocked(u).tv = u.tv /\ U!Unlocked(u).pw = u.pw
    BY <2>1 DEF U!Unlocked, UP!StoredUser
  <2>3. QED
    BY <2>1, <2>2
<1>2. U!Unlocked(NoUser) = NoUser
  BY DEF U!Unlocked
<1>3. /\ users' = [users EXCEPT ![n] = U!Unlocked(users[n])]
      /\ users \in [Names -> UP!StoredUser \cup {NoUser}]
  BY DEF U!LockExpires, ApiInv, UP!UserInv, UP!UserTypeOK
<1>4. \A m \in Names :
        /\ users'[m] = NoUser <=> users[m] = NoUser
        /\ users[m] # NoUser => /\ users'[m].tv = users[m].tv
                                /\ users'[m].pw = users[m].pw
  BY <1>1, <1>2, <1>3
<1>5. ASSUME NEW q \in Procs, ucall'[q] # ucall[q]
      PROVE  /\ ucall'[q].pc = ucall[q].pc /\ ucall'[q].op = ucall[q].op
             /\ ucall'[q].res = ucall[q].res
             /\ ucall'[q].rec = NoUser <=> ucall[q].rec = NoUser
             /\ ucall[q].rec # NoUser =>
                  /\ ucall'[q].rec.tv = ucall[q].rec.tv
                  /\ ucall'[q].rec.pw = ucall[q].rec.pw
  <2>1. /\ ucall[q].pc # "idle"
        /\ ucall'[q] = [ucall[q] EXCEPT !.rec = U!Unlocked(ucall[q].rec)]
    BY <1>5 DEF U!LockExpires, U!At
  <2>2. ucall[q] \in UP!Call
    BY <2>1, IdleIsNoCall
  <2>3. QED
    BY <1>1, <1>2, <2>1, <2>2 DEF UP!Call
<1>6. QED
  BY <1>4, <1>5 DEF LocksOnly

\* A step that leaves accounts' versions, passwords and signed tokens alone
\* and the calls of UserService but for the locks in their copies.
LEMMA QuietEnd ==
    ASSUME ApiInv, EndInv, ApiInv', Grows,
           UNCHANGED <<accessJwt, refreshJwt, req, barred, barredRefresh>>,
           LocksOnly
    PROVE  EndInv'
<1>1. OnlyLogins'
  BY DEF EndInv, OnlyLogins, Busy
<1>2. ASSUME NEW n \in Names, NEW v
      PROVE  NotAhead(n, v)' <=> NotAhead(n, v)
  BY DEF NotAhead, LocksOnly
<1>3. ASSUME NEW c \in TP!Claims
      PROVE  Behind(c) => Behind(c)'
  <2>1. c.sub \in Names
    BY DEF TP!Claims
  <2>2. QED
    BY <2>1 DEF Behind, LocksOnly
<1>4. /\ \A a \in AccessIds : accessJwt[a] # NoToken => accessJwt[a] \in TP!Claims
      /\ \A j \in RefreshIds : refreshJwt[j] # NoToken => refreshJwt[j] \in TP!Claims
  BY DEF ApiInv, OwnTypes, TP!TokenInv, TP!TokenTypeOK
<1>5. ReachedVersions'
  <2>1. \A c \in TP!Claims : c.sub \in Names
    BY DEF TP!Claims
  <2>2. QED
    BY <1>2, <1>4, <2>1 DEF EndInv, ReachedVersions
<1>6. \A j \in RefreshIds : /\ TP!Handed(j) => TP!Handed(j)'
                            /\ TP!Over(j) => TP!Over(j)'
  BY DEF Grows, TP!Monotone, TP!Handed, TP!Over
<1>7. Confirmed'
  <2>1. barred \subseteq AccessIds /\ barredRefresh \subseteq RefreshIds
    BY DEF ApiInv, OwnTypes
  <2>2. \A j \in barredRefresh : refreshJwt[j] # NoToken
    BY DEF EndInv, Confirmed, TP!Handed
  <2>3. revokedAccess \subseteq revokedAccess'
    BY DEF Grows
  <2>4. QED
    BY <1>3, <1>4, <1>6, <2>1, <2>2, <2>3 DEF EndInv, Confirmed
<1>8. ASSUME NEW q \in Procs, Busy(q)'
      PROVE  Knows(req[q], ucall[q])'
  <2>1. PICK r, c, d : r = req[q] /\ c = ucall[q] /\ d = ucall'[q]
    OBVIOUS
  <2>2. Busy(q) /\ r \in Request /\ r.name \in Names /\ Knows(r, c)
    BY <1>8, <2>1, AtPlace DEF Busy, EndInv, Request
  <2>3. \/ d = c
        \/ /\ d.pc = c.pc /\ d.op = c.op /\ d.res = c.res
           /\ d.rec = NoUser <=> c.rec = NoUser
           /\ c.rec # NoUser => d.rec.tv = c.rec.tv /\ d.rec.pw = c.rec.pw
    BY <2>1 DEF LocksOnly
  <2>4. Knows(r, d)
    BY <2>2, <2>3 DEF Knows, Raised
  <2>5. Raised(r, d) => EndsBehind(r)'
    <3>1. /\ \A a \in r.ends : a \in AccessIds /\ accessJwt[a] # NoToken
          /\ \A j \in r.endsR : j \in RefreshIds /\ refreshJwt[j] # NoToken
      BY <2>2 DEF Knows, Request, TP!Handed
    <3>2. Raised(r, d) => EndsBehind(r)
      BY <2>4 DEF Knows
    <3>3. QED
      BY <1>3, <1>4, <3>1, <3>2 DEF EndsBehind
  <2>6. /\ \A a \in r.ends : a \in AccessIds
        /\ \A j \in r.endsR : j \in RefreshIds
        /\ revokedAccess \subseteq revokedAccess'
    BY <2>2 DEF Request, Grows
  <2>7. \A v : NotAhead(r.name, v)' <=> NotAhead(r.name, v)
    BY <1>2, <2>2
  <2>8. /\ users'[r.name] = NoUser <=> users[r.name] = NoUser
        /\ users[r.name] # NoUser => /\ users'[r.name].tv = users[r.name].tv
                                     /\ users'[r.name].pw = users[r.name].pw
    BY <2>2 DEF LocksOnly
  <2>9. Knows(r, d)'
    BY <1>6, <2>4, <2>5, <2>6, <2>7, <2>8 DEF Knows, Tokenless, Raised
  <2>10. req'[q] = r /\ ucall'[q] = d
    BY <2>1
  <2>11. QED
    BY <2>9, <2>10
<1>9. QED
  BY <1>1, <1>5, <1>7, <1>8 DEF EndInv

LEMMA EndNext ==
    ASSUME ApiInv, EndInv, [Next]_vars, Serially
    PROVE  EndInv'
<1>1. ApiInv' /\ Grows
  BY ApiNext
<1>2. ASSUME UNCHANGED <<users, ucall, accessJwt, refreshJwt, req, barred,
                         barredRefresh>>
      PROVE  EndInv'
  BY <1>1, <1>2, QuietEnd DEF LocksOnly
<1>3. CASE UNCHANGED vars
  BY <1>2, <1>3 DEF vars, uvars, tvars, history
<1>4. ASSUME NEW p \in Procs, Receive(p) \/ Handle(p)
      PROVE  EndInv'
  BY <1>1, <1>4, OwnEnd, ReceiveStep, HandleStep
<1>5. ASSUME NEW p \in Procs, Command(p)
      PROVE  EndInv'
  <2>1. CASE U!UserStep(p) /\ UNCHANGED <<tvars, apiOnly>>
    BY <2>1, UserCommandEnd
  <2>2. CASE T!TokenStep(p) /\ UNCHANGED <<uvars, apiOnly>>
    <3>1. UNCHANGED refreshJwt
      BY <2>2 DEF T!TokenStep, T!SetSession, T!SAddSession, T!GetSession,
         T!DelSession, T!SRemSession, T!SMembers, T!DelMember, T!DelIndex,
         T!BlackList, T!LookUp
    <3>2. QED
      BY <1>2, <2>2, <3>1 DEF uvars, apiOnly, history
  <2>3. QED
    BY <1>5, <2>1, <2>2 DEF Command
<1>6. ASSUME NEW j \in RefreshIds, T!SessionExpires(j) \/ T!JwtExpires(j),
             UNCHANGED <<uvars, apiOnly>>
      PROVE  EndInv'
  BY <1>2, <1>6 DEF T!SessionExpires, T!JwtExpires, uvars, apiOnly, history
<1>7. ASSUME NEW n \in Names, U!LockExpires(n), UNCHANGED <<tvars, apiOnly>>
      PROVE  EndInv'
  BY <1>1, <1>7, LockIsOnly, QuietEnd DEF tvars, apiOnly, history
<1>8. QED
  BY <1>3, <1>4, <1>5, <1>6, <1>7 DEF Next, Passes

LEMMA EndInit == Init => EndInv
  BY DEF Init, EndInv, OnlyLogins, ReachedVersions, Confirmed, Busy,
     T!TokenInit

\* Whatever requests interleave, a confirmed logout, logout-all, password
\* change, disabling or deletion is final (auth.py:101-103, 180-215, 298-417),
\* as long as no two requests but logins write one account at a time and no
\* name is registered again while tokens of it are around: every token that
\* the request set out to end is black-listed, its session over, or its
\* version behind that of the account, and none of these is ever undone.
THEOREM ConfirmedEndIsFinalHolds ==
    ASSUME MayOverlap \subseteq {"login"}, ~Recreate
    PROVE  Spec => []ConfirmedEndIsFinal
<1>1. Serially
  BY DEF Serially
<1>2. ApiInv /\ EndInv => ConfirmedEndIsFinal
  <2> SUFFICES ASSUME ApiInv, EndInv
               PROVE  ConfirmedEndIsFinal
    OBVIOUS
  <2>1. ASSUME NEW a \in barred, Usable(a)
        PROVE  FALSE
    <3>1. accessJwt[a] \in TP!Claims /\ Behind(accessJwt[a])
      BY <2>1 DEF Usable, EndInv, Confirmed, ApiInv, OwnTypes
    <3>2. users[accessJwt[a].sub] # NoUser
          /\ users[accessJwt[a].sub].tv = accessJwt[a].tv
      BY <2>1 DEF Usable
    <3>3. accessJwt[a].tv \in Nat
      BY <3>1 DEF TP!Claims
    <3>4. QED
      BY <3>1, <3>2, <3>3 DEF Behind
  <2>2. ASSUME NEW j \in barredRefresh, Exchangeable(j)
        PROVE  FALSE
    <3>1. /\ j \in RefreshIds /\ sessions[j] = refreshJwt[j]
          /\ refreshJwt[j] \in TP!Claims
      BY <2>2 DEF Exchangeable, ApiInv, OwnTypes, TP!TokenInv,
         TP!SessionMatchesToken, TP!TokenTypeOK
    <3>2. Behind(refreshJwt[j])
      BY <2>2 DEF Exchangeable, EndInv, Confirmed, TP!Over
    <3>3. users[refreshJwt[j].sub] # NoUser
          /\ users[refreshJwt[j].sub].tv = refreshJwt[j].tv
      BY <2>2, <3>1 DEF Exchangeable
    <3>4. refreshJwt[j].tv \in Nat
      BY <3>1 DEF TP!Claims
    <3>5. QED
      BY <3>2, <3>3, <3>4 DEF Behind
  <2>3. QED
    BY <2>1, <2>2 DEF ConfirmedEndIsFinal
<1>3. ApiInv /\ EndInv /\ [Next]_vars => (ApiInv /\ EndInv)'
  BY <1>1, ApiNext, EndNext
<1>4. QED
  BY <1>2, <1>3, ApiInit, EndInit, PTL DEF Spec

-----------------------------------------------------------------------------
(* Tokens follow the password *)

\* A request that may have changed the password of its account, or is about
\* to, and has still to raise the version of the account past its tokens.
Pending(r, u) ==
    /\ r.ep \in {"update", "changePassword"} /\ Invalidates(r)
    /\ \/ r.at = "update" /\ ~(u.pc = "done" /\ u.res # "ok")
       \/ r.at = "sweep"
       \/ r.at = "bump" /\ u.pc \in {"get", "set"}

Changing(n) ==
    \E p \in Procs : Busy(p) /\ req[p].name = n /\ Pending(req[p], ucall[p])

\* A token with the claims c, of a session opened with the password w, is
\* worthless, or w is the password of its account, or that one is changing.
Right(c, w) ==
    users[c.sub] # NoUser /\ c.tv = users[c.sub].tv
    => w = users[c.sub].pw \/ Changing(c.sub)

\* What a request, with its call u, knows of the password of its session.
KnowsPassword(r, u) ==
    /\ r.ep = "refresh" => password[r.r] # Keep
    /\ r.ep = "refresh" /\ r.at \in {"rotate", "issue"}
       => r.tv = refreshJwt[r.r].tv
    /\ r.at = "auth" /\ u.pc = "done" /\ u.rec # NoUser /\ users[r.name] # NoUser
       => u.rec.pw = users[r.name].pw
    /\ r.ep = "login" /\ r.at \in {"recording", "reread", "issue"}
       /\ users[r.name] # NoUser => r.pw = users[r.name].pw

AccessRight ==
    \A a \in AccessIds : accessJwt[a] # NoToken
                         => Right(accessJwt[a], password[a])

RefreshRight ==
    \A j \in RefreshIds :
        /\ refreshJwt[j] # NoToken /\ password[j] # Keep
           => Right(refreshJwt[j], password[j])
        /\ refreshJwt[j] = NoToken => password[j] = Keep

\* A refresh token has no password yet while its response is being made.
Unsent ==
    \A j \in RefreshIds : refreshJwt[j] # NoToken /\ password[j] = Keep
        => \E p \in Procs : In(p, "issue") /\ tcall[p].jti = j

PwInv == /\ AccessRight /\ RefreshRight /\ Unsent
         /\ \A p \in Procs : Busy(p) => KnowsPassword(req[p], ucall[p])

\* A handler that has changed the password goes on to raise the version.
LEMMA OwnChanging ==
    ASSUME ApiInv, NEW p \in Procs, OwnStep(p), ApiInv',
           NEW n \in Names, Changing(n)
    PROVE  Changing(n)'
<1>1. PICK q \in Procs : /\ Busy(q) /\ req[q].name = n
                         /\ Pending(req[q], ucall[q])
  BY DEF Changing
<1>2. PICK r \in Request \cup {NoRequest} : \E u, t :
         /\ req' = [req EXCEPT ![p] = r]
         /\ ucall' = [ucall EXCEPT ![p] = u] /\ u.pc \in {"get", "idle"}
         /\ tcall' = [tcall EXCEPT ![p] = t]
         /\ \/ Arrives(p, r)
            \/ r # NoRequest /\ GoesOn(p, r, t)
            \/ r = NoRequest /\ req[p] # NoRequest /\ Responds(p)
  BY DEF OwnStep
<1>3. PICK u, t :
         /\ req' = [req EXCEPT ![p] = r]
         /\ ucall' = [ucall EXCEPT ![p] = u] /\ u.pc \in {"get", "idle"}
         /\ tcall' = [tcall EXCEPT ![p] = t]
         /\ \/ Arrives(p, r)
            \/ r # NoRequest /\ GoesOn(p, r, t)
            \/ r = NoRequest /\ req[p] # NoRequest /\ Responds(p)
  BY <1>2
<1>4. /\ req \in [Procs -> Request \cup {NoRequest}]
      /\ DOMAIN ucall = Procs /\ DOMAIN tcall = Procs
  BY DEF ApiInv, OwnTypes, UP!UserInv, UP!UserTypeOK, TP!TokenInv,
         TP!TokenTypeOK
<1>5. CASE q # p
  <2>1. req'[q] = req[q] /\ ucall'[q] = ucall[q]
    BY <1>3, <1>4, <1>5
  <2>2. Busy(q)' /\ req'[q].name = n /\ Pending(req[q], ucall[q])'
    BY <1>1, <2>1 DEF Busy, Pending, Invalidates
  <2>3. QED
    BY <2>2 DEF Changing
<1>6. CASE q = p
  <2>1. PICK o, v : o = req[p] /\ v = ucall[p]
    OBVIOUS
  <2>2. o # NoRequest /\ o.name = n /\ Pending(o, v)
    BY <1>1, <1>6, <2>1 DEF Busy
  <2>3. req'[p] = r /\ ucall'[p] = u /\ tcall'[p] = t
    BY <1>3, <1>4
  <2>4. CASE Arrives(p, r)
    BY <2>1, <2>2, <2>4 DEF Arrives
  <2>5. CASE r = NoRequest /\ Responds(p)
    BY <2>1, <2>2, <2>5 DEF Responds, Pending
  <2>6. CASE r # NoRequest /\ GoesOn(p, r, t)
    <3>1. /\ SameRequest(r, o)
          /\ o.at = "update" => r.at = "sweep"
          /\ o.at = "sweep" => r.at = IF o.ep = "delete" THEN "delete" ELSE "bump"
          /\ o.at # "bump"
      BY <2>1, <2>6 DEF GoesOn
    <3>2. Fits(r, u, t)'
      BY <2>3 DEF ApiInv
    <3>3. r.at = "bump" => u.pc = "get"
      BY <1>3, <2>6, <3>2 DEF Fits, AwaitsUser, UserPlaces
    <3>4. Pending(r, u)
      BY <2>2, <3>1, <3>3 DEF Pending, SameRequest, Invalidates
    <3>5. r.name = n
      BY <2>2, <3>1 DEF SameRequest
    <3>6. Busy(p)' /\ req'[p].name = n /\ Pending(r, u)'
      BY <2>3, <2>6, <3>4, <3>5 DEF Busy, Pending, Invalidates
    <3>7. Pending(req[p], ucall[p])'
      BY <2>3, <3>6
    <3>8. QED
      BY <3>6, <3>7 DEF Changing
  <2>7. QED
    BY <1>3, <2>4, <2>5, <2>6
<1>7. QED
  BY <1>5, <1>6

\* What the response of an issued pair of tokens opens its session with.
LEMMA IssuedRight ==
    ASSUME ApiInv, PwInv, NEW p \in Procs, Busy(p), req[p].at = "issue",
           NEW w, w = IF req[p].ep = "login" THEN req[p].pw ELSE password[req[p].r]
    PROVE  /\ w # Keep
           /\ Right([sub |-> req[p].name, tv |-> req[p].tv], w)
           /\ tcall[p].jti \in RefreshIds
           /\ refreshJwt[tcall[p].jti] = [sub |-> req[p].name, tv |-> req[p].tv]
<1>1. PICK o, t : o = req[p] /\ t = tcall[p]
  OBVIOUS
<1>2. /\ o \in Request /\ Placed(o) /\ Carries(o) /\ AwaitsToken(o, t)
      /\ TokenCommands(t) /\ KnowsPassword(o, ucall[p])
  BY <1>1, AtPlace DEF PwInv, ApiInv, Fits, TokenPlaces
<1>3. /\ t.jti \in RefreshIds
      /\ refreshJwt[t.jti] = [sub |-> o.name, tv |-> o.tv]
  BY <1>1, <1>2 DEF AwaitsToken, TokenCommands
<1>4. CASE o.ep = "login"
  <2>1. w = o.pw /\ o.pw \in Passwords /\ o.at = "issue"
    BY <1>1, <1>2, <1>4 DEF Carries
  <2>2. users[o.name] # NoUser => o.pw = users[o.name].pw
    BY <1>2, <1>4, <2>1 DEF KnowsPassword
  <2>3. w # Keep
    BY <2>1, ApiAssumption
  <2>4. Right([sub |-> o.name, tv |-> o.tv], w)
    BY <2>1, <2>2 DEF Right
  <2>5. QED
    BY <1>1, <1>3, <2>3, <2>4
<1>5. CASE o.ep = "refresh"
  <2>1. w = password[o.r] /\ w # Keep /\ o.tv = refreshJwt[o.r].tv
    BY <1>1, <1>2, <1>5 DEF KnowsPassword
  <2>2. /\ o.r \in RefreshIds /\ refreshJwt[o.r] # NoToken
        /\ refreshJwt[o.r].sub = o.name
    BY <1>2, <1>5 DEF Carries, TP!Handed
  <2>3. Right(refreshJwt[o.r], w)
    BY <2>1, <2>2 DEF PwInv, RefreshRight
  <2>4. Right([sub |-> o.name, tv |-> o.tv], w)
    BY <2>1, <2>2, <2>3 DEF Right
  <2>5. QED
    BY <1>1, <1>3, <2>1, <2>4
<1>6. QED
  BY <1>1, <1>2, <1>4, <1>5 DEF Placed

\* How a step of a handler changes the passwords of sessions.
OwnPasswords(p) ==
    \/ UNCHANGED <<accessJwt, password>>
    \/ /\ Busy(p) /\ req[p].at = "issue" /\ req'[p] = NoRequest
       /\ UNCHANGED refreshJwt
       /\ \E a \in AccessIds :
            LET o == req[p]
                w == IF o.ep = "login" THEN o.pw ELSE password[o.r] IN
            /\ accessJwt' = [accessJwt EXCEPT ![a] = [sub |-> o.name, tv |-> o.tv]]
            /\ password' = [password EXCEPT ![a] = w, ![tcall[p].jti] = w]

LEMMA OwnPasswordsOf ==
    ASSUME ApiInv, NEW p \in Procs, OwnStep(p)
    PROVE  /\ OwnPasswords(p)
           /\ Busy(p)' => UNCHANGED <<accessJwt, password>>
<1>1. PICK r \in Request \cup {NoRequest} : \E t :
         /\ req' = [req EXCEPT ![p] = r]
         /\ \/ Arrives(p, r)
            \/ r # NoRequest /\ GoesOn(p, r, t)
            \/ r = NoRequest /\ req[p] # NoRequest /\ Responds(p)
  BY DEF OwnStep
<1>2. req'[p] = r
  BY <1>1 DEF ApiInv, OwnTypes
<1>3. CASE Arrives(p, r) \/ \E t : GoesOn(p, r, t)
  BY <1>3 DEF Arrives, GoesOn, history, OwnPasswords
<1>4. CASE r = NoRequest /\ req[p] # NoRequest /\ Responds(p)
  BY <1>2, <1>4 DEF Responds, history, OwnPasswords, Busy
<1>5. QED
  BY <1>1, <1>3, <1>4

LEMMA OwnKnowsPassword ==
    ASSUME ApiInv, PwInv, NEW p \in Procs, OwnStep(p), ApiInv', Grows, Busy(p)'
    PROVE  KnowsPassword(req[p], ucall[p])'
<1>1. PICK r \in Request \cup {NoRequest} : \E u, t :
         /\ req' = [req EXCEPT ![p] = r]
         /\ ucall' = [ucall EXCEPT ![p] = u] /\ u.pc \in {"get", "idle"}
         /\ tcall' = [tcall EXCEPT ![p] = t]
         /\ \/ Arrives(p, r)
            \/ r # NoRequest /\ GoesOn(p, r, t)
            \/ r = NoRequest /\ req[p] # NoRequest /\ Responds(p)
  BY DEF OwnStep
<1>2. PICK u, t :
         /\ req' = [req EXCEPT ![p] = r]
         /\ ucall' = [ucall EXCEPT ![p] = u] /\ u.pc \in {"get", "idle"}
         /\ tcall' = [tcall EXCEPT ![p] = t]
         /\ \/ Arrives(p, r)
            \/ r # NoRequest /\ GoesOn(p, r, t)
            \/ r = NoRequest /\ req[p] # NoRequest /\ Responds(p)
  BY <1>1
<1>3. req'[p] = r /\ ucall'[p] = u
  BY <1>2 DEF ApiInv, OwnTypes, UP!UserInv, UP!UserTypeOK
<1>4. r # NoRequest /\ r \in Request
  BY <1>3 DEF Busy
<1>5. UNCHANGED <<users, password>>
  BY OwnPasswordsOf DEF OwnStep
<1>6. CASE Arrives(p, r)
  <2>1. /\ r.at \notin {"rotate", "issue", "recording", "reread"}
        /\ r.ep = "refresh" => Held(r.r)
    BY <1>6 DEF Arrives
  <2>2. ASSUME r.ep = "refresh"
        PROVE  password[r.r] # Keep
    <3>1. /\ refreshJwt[r.r] # NoToken
          /\ \A q \in Procs : In(q, "issue") => tcall[q].jti # r.r
      BY <2>1, <2>2 DEF Held, T!Handed
    <3>2. r.r \in RefreshIds
      <4>1. Fits(req[p], ucall[p], tcall[p])'
        BY DEF ApiInv
      <4>2. Carries(r)'
        BY <1>3, <1>4, <4>1 DEF Fits
      <4>3. QED
        BY <2>2, <4>2 DEF Carries
    <3>3. QED
      BY <3>1, <3>2 DEF PwInv, Unsent
  <2>3. KnowsPassword(r, u)'
    BY <1>2, <1>5, <2>1, <2>2 DEF KnowsPassword
  <2>4. QED
    BY <1>3, <2>3
<1>7. CASE GoesOn(p, r, t)
  <2>1. PICK o, v : o = req[p] /\ v = ucall[p]
    OBVIOUS
  <2>2. Busy(p) /\ SameRequest(r, o)
    BY <1>7, <2>1 DEF GoesOn, SameRequest, Busy
  <2>3. /\ o \in Request /\ Placed(o) /\ Carries(o) /\ KnowsPassword(o, v)
    BY <2>1, <2>2, AtPlace DEF PwInv
  <2>4. Placed(r)
    <3>1. Fits(req[p], ucall[p], tcall[p])'
      BY DEF ApiInv
    <3>2. Placed(r)'
      BY <1>3, <1>4, <3>1 DEF Fits
    <3>3. QED
      BY <3>2 DEF Placed
  <2>5. /\ r.at = "recording" => /\ o.at = "auth" /\ v.pc = "done"
                                 /\ v.rec # NoUser /\ v.rec.pw = o.pw
        /\ r.at = "reread" => o.at = "recording"
        /\ r.at = "rotate" => r.tv = refreshJwt[o.r].tv
        /\ r.at = "issue" => /\ o.ep = "login" => o.at = "reread"
                             /\ o.ep = "refresh" => o.at = "rotate" /\ r.tv = o.tv
        /\ r.at # "auth"
    BY <1>7, <2>1 DEF GoesOn
  <2>6. ASSUME r.ep = "refresh"
        PROVE  /\ refreshJwt'[r.r] = refreshJwt[r.r]
               /\ password[r.r] # Keep
               /\ r.at \in {"rotate", "issue"} => r.tv = refreshJwt[r.r].tv
    <3>1. r.r \in RefreshIds /\ refreshJwt[r.r] # NoToken
      BY <2>2, <2>3, <2>6 DEF Carries, SameRequest, TP!Handed
    <3>2. refreshJwt'[r.r] = refreshJwt[r.r]
      BY <3>1 DEF Grows, TP!Monotone
    <3>3. QED
      BY <2>2, <2>3, <2>5, <2>6, <3>2 DEF KnowsPassword, SameRequest
  <2>7. ASSUME r.ep = "login", r.at \in {"recording", "reread", "issue"},
               users[r.name] # NoUser
        PROVE  r.pw = users[r.name].pw
    <3>1. /\ o.ep = "login" /\ o.name = r.name /\ o.pw = r.pw
      BY <2>2, <2>7 DEF SameRequest
    <3>2. CASE r.at = "recording"
      BY <2>3, <2>5, <2>7, <3>1, <3>2 DEF KnowsPassword
    <3>3. CASE r.at \in {"reread", "issue"}
      BY <2>3, <2>5, <2>7, <3>1, <3>3 DEF KnowsPassword
    <3>4. QED
      BY <2>7, <3>2, <3>3
  <2>8. KnowsPassword(r, u)'
    BY <1>5, <2>5, <2>6, <2>7 DEF KnowsPassword
  <2>9. QED
    BY <1>3, <2>8
<1>8. QED
  BY <1>2, <1>4, <1>6, <1>7

LEMMA OthersKnowPassword ==
    ASSUME ApiInv, PwInv, NEW p \in Procs, OwnStep(p), ApiInv', Grows,
           NEW q \in Procs, q # p, Busy(q)
    PROVE  KnowsPassword(req[q], ucall[q])'
<1>1. req'[q] = req[q] /\ ucall'[q] = ucall[q]
  BY DEF OwnStep, ApiInv, OwnTypes, UP!UserInv, UP!UserTypeOK
<1>2. UNCHANGED users
  BY DEF OwnStep
<1>3. PICK r, u : r = req[q] /\ u = ucall[q]
  OBVIOUS
<1>4. r \in Request /\ KnowsPassword(r, u) /\ Carries(r)
  BY <1>3, AtPlace DEF PwInv
<1>5. ASSUME r.ep = "refresh"
      PROVE  refreshJwt'[r.r] = refreshJwt[r.r] /\ password'[r.r] # Keep
  <2>1. r.r \in RefreshIds /\ refreshJwt[r.r] # NoToken /\ password[r.r] # Keep
    BY <1>4, <1>5 DEF Carries, TP!Handed, KnowsPassword
  <2>2. refreshJwt'[r.r] = refreshJwt[r.r]
    BY <2>1 DEF Grows, TP!Monotone
  <2>3. CASE UNCHANGED password
    BY <2>1, <2>2, <2>3
  <2>4. ASSUME NEW a \in AccessIds, NEW w, Busy(p), req[p].at = "issue",
               w = IF req[p].ep = "login" THEN req[p].pw ELSE password[req[p].r],
               password' = [password EXCEPT ![a] = w, ![tcall[p].jti] = w]
        PROVE  password'[r.r] # Keep
    <3>1. w # Keep
      BY <2>4, IssuedRight
    <3>2. DOMAIN password = AccessIds \cup RefreshIds
      BY DEF ApiInv, OwnTypes
    <3>3. password'[r.r] = password[r.r] \/ password'[r.r] = w
      BY <2>1, <2>4, <3>2
    <3>4. QED
      BY <2>1, <3>1, <3>3
  <2>5. QED
    BY <2>2, <2>3, <2>4, OwnPasswordsOf DEF OwnPasswords
<1>6. KnowsPassword(r, u)'
  BY <1>2, <1>4, <1>5 DEF KnowsPassword
<1>7. QED
  BY <1>1, <1>3, <1>6

LEMMA RightKept ==
    ASSUME UNCHANGED users, \A n \in Names : Changing(n) => Changing(n)',
           NEW c, c.sub \in Names, NEW w, Right(c, w)
    PROVE  Right(c, w)'
  BY DEF Right

\* A refresh token that a handler has just signed.
LEMMA JustSigned ==
    ASSUME ApiInv, NEW p \in Procs, OwnStep(p), NEW j \in RefreshIds,
           refreshJwt'[j] # refreshJwt[j]
    PROVE  refreshJwt[j] = NoToken /\ In(p, "issue")' /\ tcall'[p].jti = j
<1>1. PICK r \in Request \cup {NoRequest} : \E t :
         /\ req' = [req EXCEPT ![p] = r]
         /\ tcall' = [tcall EXCEPT ![p] = t]
         /\ \/ Arrives(p, r)
            \/ r # NoRequest /\ GoesOn(p, r, t)
            \/ r = NoRequest /\ req[p] # NoRequest /\ Responds(p)
  BY DEF OwnStep
<1>2. PICK t :
         /\ req' = [req EXCEPT ![p] = r]
         /\ tcall' = [tcall EXCEPT ![p] = t]
         /\ \/ Arrives(p, r)
            \/ r # NoRequest /\ GoesOn(p, r, t)
            \/ r = NoRequest /\ req[p] # NoRequest /\ Responds(p)
  BY <1>1
<1>3. req'[p] = r /\ tcall'[p] = t
  BY <1>2 DEF ApiInv, OwnTypes, TP!TokenInv, TP!TokenTypeOK
<1>4. r # NoRequest /\ GoesOn(p, r, t)
  BY <1>2 DEF Arrives, Responds
<1>5. /\ r.at = "issue" /\ refreshJwt[t.jti] = NoToken
      /\ refreshJwt' = [refreshJwt EXCEPT ![t.jti] = [sub |-> r.name, tv |-> r.tv]]
  BY <1>4 DEF GoesOn
<1>6. j = t.jti
  BY <1>5 DEF ApiInv, TP!TokenInv, TP!TokenTypeOK
<1>7. QED
  BY <1>3, <1>4, <1>5, <1>6 DEF In, Busy

\* A step of a handler.
LEMMA OwnPw ==
    ASSUME ApiInv, PwInv, NEW p \in Procs, OwnStep(p), ApiInv', Grows
    PROVE  PwInv'
<1>1. UNCHANGED users
  BY DEF OwnStep
<1>2. \A n \in Names : Changing(n) => Changing(n)'
  BY OwnChanging
<1>3. /\ accessJwt \in [AccessIds -> TP!Claims \cup {NoToken}]
      /\ refreshJwt \in [RefreshIds -> TP!Claims \cup {NoToken}]
      /\ \A c \in TP!Claims : c.sub \in Names
      /\ DOMAIN password = AccessIds \cup RefreshIds
      /\ AccessIds \cap RefreshIds = {}
  BY ApiAssumption DEF ApiInv, OwnTypes, TP!TokenInv, TP!TokenTypeOK, TP!Claims
<1>4. \A j \in RefreshIds : refreshJwt'[j] # refreshJwt[j] =>
          refreshJwt[j] = NoToken /\ In(p, "issue")' /\ tcall'[p].jti = j
  BY JustSigned
<1>5. ASSUME NEW q \in Procs, Busy(q)'
      PROVE  KnowsPassword(req[q], ucall[q])'
  <2>1. CASE q = p
    BY <1>5, <2>1, OwnKnowsPassword
  <2>2. CASE q # p
    <3>1. Busy(q)
      BY <1>5, <2>2 DEF Busy, OwnStep, ApiInv, OwnTypes
    <3>2. QED
      BY <2>2, <3>1, OthersKnowPassword
  <2>3. QED
    BY <2>1, <2>2
<1>6. \A q \in Procs : q # p /\ In(q, "issue")
                       => In(q, "issue")' /\ tcall'[q].jti = tcall[q].jti
  BY DEF OwnStep, In, Busy, ApiInv, OwnTypes, TP!TokenInv, TP!TokenTypeOK
<1>7. CASE UNCHANGED <<accessJwt, password>> /\ ~In(p, "issue")
  <2>1. AccessRight'
    <3> SUFFICES ASSUME NEW a \in AccessIds, accessJwt[a] # NoToken
                 PROVE  Right(accessJwt[a], password[a])'
      BY <1>7 DEF AccessRight
    <3>1. PICK c, w : c = accessJwt[a] /\ w = password[a]
      OBVIOUS
    <3>2. c.sub \in Names /\ Right(c, w)
      BY <1>3, <3>1 DEF PwInv, AccessRight
    <3>3. Right(c, w)'
      BY <1>1, <1>2, <3>2, RightKept
    <3>4. accessJwt'[a] = c /\ password'[a] = w
      BY <1>7, <3>1
    <3>5. QED
      BY <3>3, <3>4
  <2>2. ASSUME NEW j \in RefreshIds
        PROVE  /\ refreshJwt'[j] # NoToken /\ password'[j] # Keep
                  => Right(refreshJwt[j], password[j])'
               /\ refreshJwt'[j] = NoToken => password'[j] = Keep
    <3>1. CASE refreshJwt'[j] # refreshJwt[j]
      <4>1. password'[j] = Keep
        BY <1>4, <1>7, <3>1 DEF PwInv, RefreshRight
      <4>2. QED
        BY <4>1
    <3>2. CASE refreshJwt'[j] = refreshJwt[j]
      <4>1. refreshJwt[j] = NoToken => password'[j] = Keep
        BY <1>7 DEF PwInv, RefreshRight
      <4>2. ASSUME refreshJwt[j] # NoToken, password[j] # Keep
            PROVE  Right(refreshJwt[j], password[j])'
        <5>1. PICK c, w : c = refreshJwt[j] /\ w = password[j]
          OBVIOUS
        <5>2. c.sub \in Names /\ Right(c, w)
          BY <1>3, <4>2, <5>1 DEF PwInv, RefreshRight
        <5>3. Right(c, w)'
          BY <1>1, <1>2, <5>2, RightKept
        <5>4. refreshJwt'[j] = c /\ password'[j] = w
          BY <1>7, <3>2, <5>1
        <5>5. QED
          BY <5>3, <5>4
      <4>3. QED
        BY <1>7, <3>2, <4>1, <4>2
    <3>3. QED
      BY <3>1, <3>2
  <2>3. RefreshRight'
    BY <2>2 DEF RefreshRight
  <2>4. ASSUME NEW j \in RefreshIds, refreshJwt'[j] # NoToken, password'[j] = Keep
        PROVE  \E q \in Procs : In(q, "issue")' /\ tcall'[q].jti = j
    <3>1. CASE refreshJwt'[j] # refreshJwt[j]
      BY <1>4, <3>1
    <3>2. CASE refreshJwt'[j] = refreshJwt[j]
      <4>1. PICK q \in Procs : In(q, "issue") /\ tcall[q].jti = j
        BY <1>7, <2>4, <3>2 DEF PwInv, Unsent
      <4>2. q # p
        BY <1>7, <4>1
      <4>3. QED
        BY <1>6, <4>1, <4>2
    <3>3. QED
      BY <3>1, <3>2
  <2>5. Unsent'
    BY <2>4 DEF Unsent
  <2>6. QED
    BY <1>5, <2>1, <2>3, <2>5 DEF PwInv
<1>8. CASE /\ Busy(p) /\ req[p].at = "issue" /\ UNCHANGED refreshJwt
           /\ \E a \in AccessIds :
                LET o == req[p]
                    w == IF o.ep = "login" THEN o.pw ELSE password[o.r] IN
                /\ accessJwt' = [accessJwt EXCEPT ![a] = [sub |-> o.name, tv |-> o.tv]]
                /\ password' = [password EXCEPT ![a] = w, ![tcall[p].jti] = w]
  <2>1. PICK n, v, w, k : /\ n = req[p].name /\ v = req[p].tv /\ k = tcall[p].jti
                          /\ w = IF req[p].ep = "login" THEN req[p].pw
                                 ELSE password[req[p].r]
    OBVIOUS
  <2>2. PICK b \in AccessIds :
          /\ accessJwt' = [accessJwt EXCEPT ![b] = [sub |-> n, tv |-> v]]
          /\ password' = [password EXCEPT ![b] = w, ![k] = w]
    BY <1>8, <2>1
  <2>3. PICK new : new = [sub |-> n, tv |-> v]
    OBVIOUS
  <2>4. /\ w # Keep /\ Right(new, w) /\ k \in RefreshIds /\ refreshJwt[k] = new
    BY <1>8, <2>1, <2>3, IssuedRight
  <2>5. new.sub \in Names /\ new # NoToken
    <3>1. n \in Names
      BY <1>8, <2>1, AtPlace DEF Request
    <3>2. v \in Nat
      BY <1>8, <2>1, AtPlace DEF Request
    <3>3. new \in T!Claims
      BY <2>3, <3>1, <3>2 DEF T!Claims
    <3>4. QED
      BY <2>3, <3>1, <3>3, ApiAssumption
  <2>6. Right(new, w)'
    BY <1>1, <1>2, <2>4, <2>5, RightKept
  <2>7. /\ accessJwt'[b] = new /\ password'[b] = w /\ password'[k] = w
        /\ \A a \in AccessIds : a # b => /\ accessJwt'[a] = accessJwt[a]
                                        /\ password'[a] = password[a]
        /\ \A j \in RefreshIds : j # k => password'[j] = password[j]
    BY <1>3, <2>2, <2>3, <2>4
  <2>8. ASSUME NEW a \in AccessIds, accessJwt'[a] # NoToken
        PROVE  Right(accessJwt[a], password[a])'
    <3>1. CASE a = b
      <4>1. accessJwt'[a] = new /\ password'[a] = w
        BY <2>7, <3>1
      <4>2. QED
        BY <2>6, <4>1
    <3>2. CASE a # b
      <4>1. PICK c, x : c = accessJwt[a] /\ x = password[a]
        OBVIOUS
      <4>2. accessJwt'[a] = c /\ password'[a] = x
        BY <2>7, <3>2, <4>1
      <4>3. c.sub \in Names /\ Right(c, x)
        BY <1>3, <2>8, <4>1, <4>2 DEF PwInv, AccessRight
      <4>4. Right(c, x)'
        BY <1>1, <1>2, <4>3, RightKept
      <4>5. QED
        BY <4>2, <4>4
    <3>3. QED
      BY <3>1, <3>2
  <2>9. ASSUME NEW j \in RefreshIds
        PROVE  /\ refreshJwt'[j] # NoToken /\ password'[j] # Keep
                  => Right(refreshJwt[j], password[j])'
               /\ refreshJwt'[j] = NoToken => password'[j] = Keep
    <3>1. CASE j = k
      <4>1. refreshJwt'[j] = new /\ password'[j] = w
        BY <1>8, <2>4, <2>7, <3>1
      <4>2. QED
        BY <2>5, <2>6, <4>1
    <3>2. CASE j # k
      <4>1. PICK c, x : c = refreshJwt[j] /\ x = password[j]
        OBVIOUS
      <4>2. refreshJwt'[j] = c /\ password'[j] = x
        BY <1>8, <2>7, <3>2, <4>1
      <4>3. c = NoToken => x = Keep
        BY <4>1 DEF PwInv, RefreshRight
      <4>4. ASSUME c # NoToken, x # Keep
            PROVE  Right(c, x)'
        <5>1. c.sub \in Names /\ Right(c, x)
          BY <1>3, <4>1, <4>4 DEF PwInv, RefreshRight
        <5>2. QED
          BY <1>1, <1>2, <5>1, RightKept
      <4>5. QED
        BY <4>2, <4>3, <4>4
    <3>3. QED
      BY <3>1, <3>2
  <2>10. ASSUME NEW j \in RefreshIds, refreshJwt'[j] # NoToken, password'[j] = Keep
         PROVE  \E q \in Procs : In(q, "issue")' /\ tcall'[q].jti = j
    <3>1. j # k
      BY <2>4, <2>7, <2>10
    <3>2. PICK q \in Procs : In(q, "issue") /\ tcall[q].jti = j
      BY <1>8, <2>7, <2>10, <3>1 DEF PwInv, Unsent
    <3>3. q # p
      BY <2>1, <3>1, <3>2
    <3>4. QED
      BY <1>6, <3>2, <3>3
  <2>11. AccessRight' /\ RefreshRight' /\ Unsent'
    BY <2>8, <2>9, <2>10 DEF AccessRight, RefreshRight, Unsent
  <2>12. QED
    BY <1>5, <2>11 DEF PwInv
<1>9. OwnPasswords(p) /\ (In(p, "issue") /\ UNCHANGED <<accessJwt, password>> => FALSE)
  <2>1. OwnPasswords(p)
    BY OwnPasswordsOf
  <2>2. ASSUME In(p, "issue"), UNCHANGED <<accessJwt, password>>
        PROVE  FALSE
    <3>1. PICK r \in Request \cup {NoRequest} : \E t :
            \/ Arrives(p, r)
            \/ GoesOn(p, r, t)
            \/ Responds(p)
      BY DEF OwnStep
    <3>2. ~Arrives(p, r) /\ \A t : ~GoesOn(p, r, t)
      BY <2>2 DEF In, Busy, Arrives, GoesOn
    <3>3. Responds(p) /\ req[p].at = "issue"
      BY <2>2, <3>1, <3>2 DEF In
    <3>4. PICK a \in AccessIds :
            /\ accessJwt[a] = NoToken
            /\ accessJwt' = [accessJwt EXCEPT
                 ![a] = [sub |-> req[p].name, tv |-> req[p].tv]]
      BY <3>3 DEF Responds
    <3>5. accessJwt'[a] = [sub |-> req[p].name, tv |-> req[p].tv]
      BY <1>3, <3>4
    <3>6. req[p].name \in Names /\ req[p].tv \in Nat
      BY <2>2, AtPlace DEF In, Request
    <3>7. accessJwt'[a] \in T!Claims
      BY <3>5, <3>6 DEF T!Claims
    <3>8. QED
      BY <2>2, <3>4, <3>7, ApiAssumption
  <2>3. QED
    BY <2>1, <2>2
<1>10. QED
  BY <1>7, <1>8, <1>9 DEF OwnPasswords, In

\* The SET of an increment raises the version of the account as it is.
LEMMA BumpRaises ==
    ASSUME ApiInv, EndInv, NEW p \in Procs, U!UserStep(p),
           ucall[p].op = "bump", ucall[p].pc = "set"
    PROVE  LET n == req[p].name IN
           /\ users[n] # NoUser /\ users[n].tv \in Nat
           /\ users'[n].tv = users[n].tv + 1
<1>1. PICK r, c : r = req[p] /\ c = ucall[p]
  OBVIOUS
<1>2. /\ Busy(p) /\ r \in Request /\ r.name \in Names
      /\ c \in UP!Call /\ c.name = r.name /\ Knows(r, c)
  BY <1>1, UserMoves, CallOfRequest DEF EndInv
<1>3. /\ users[r.name] # NoUser /\ c.rec # NoUser
      /\ c.rec.tv = users[r.name].tv /\ c.rec \in UP!StoredUser
  BY <1>1, <1>2 DEF Knows, UP!Call
<1>4. users' = [users EXCEPT ![c.name] = U!Written(c)]
  BY <1>1 DEF U!UserStep, U!ReadUser, U!Reject, U!Fetch, U!SetUser, U!SAddUser,
         U!DelUser, U!SRemUser, U!At
<1>5. users'[r.name] = U!Versioned(c.rec)
  BY <1>1, <1>2, <1>4 DEF U!Written, ApiInv, UP!UserInv, UP!UserTypeOK
<1>6. U!Versioned(c.rec).tv = c.rec.tv + 1 /\ c.rec.tv \in Nat
  BY <1>3 DEF U!Versioned, UP!StoredUser
<1>7. QED
  BY <1>1, <1>3, <1>5, <1>6

\* A password changes under a request that will raise the version.
LEMMA UpdateIsPending ==
    ASSUME ApiInv, EndInv, NEW p \in Procs, U!UserStep(p), req[p].at = "update",
           NEW n \in Names, n = req[p].name,
           users[n] # NoUser, users'[n] # NoUser, users'[n].pw # users[n].pw
    PROVE  Pending(req[p], ucall'[p])
<1>1. PICK u : /\ ucall' = [ucall EXCEPT ![p] = u]
               /\ UserMove(ucall[p], u.pc, u.rec, u.res)
  BY UserMoves
<1>2. PICK r, c : r = req[p] /\ c = ucall[p]
  OBVIOUS
<1>3. /\ Busy(p) /\ r \in Request /\ Placed(r) /\ c \in UP!Call
      /\ c.name = r.name /\ Knows(r, c) /\ c.op = "update" /\ c.chg = r.chg
  BY <1>2, UserMoves, CallOfRequest, AtPlace DEF EndInv
<1>4. users \in [Names -> UP!StoredUser \cup {NoUser}]
  BY DEF ApiInv, UP!UserInv, UP!UserTypeOK
<1>5. c.pc = "set" /\ u.pc = "sadd" /\ users' = [users EXCEPT ![c.name] = U!Written(c)]
  BY <1>1, <1>2, <1>3, <1>4 DEF UserMove
<1>6. users'[n] = U!Updated(c.rec, c.chg)
  BY <1>2, <1>3, <1>4, <1>5 DEF U!Written
<1>7. c.rec \in UP!StoredUser /\ c.rec.pw = users[n].pw
  BY <1>2, <1>3, <1>5 DEF Knows, UP!Call
<1>8. c.chg.pw = Keep => U!Updated(c.rec, c.chg).pw = c.rec.pw
  BY <1>7 DEF U!Updated, UP!StoredUser
<1>9. r.chg.pw # Keep
  BY <1>3, <1>6, <1>7, <1>8
<1>10. r.ep \in {"update", "changePassword"} /\ r.at = "update"
  BY <1>2, <1>3 DEF Placed
<1>11. ucall'[p] = u
  BY <1>1 DEF ApiInv, UP!UserInv, UP!UserTypeOK
<1>12. QED
  BY <1>2, <1>5, <1>9, <1>10, <1>11 DEF Pending, Invalidates

\* A change of a password goes on, or the version of the account is raised,
\* or the account is gone.
LEMMA UserChanging ==
    ASSUME ApiInv, EndInv, NEW p \in Procs, U!UserStep(p), UNCHANGED req,
           NEW n \in Names, Changing(n)
    PROVE  \/ Changing(n)'
           \/ users'[n] = NoUser
           \/ /\ users[n] # NoUser /\ users[n].tv \in Nat
              /\ users'[n].tv = users[n].tv + 1
<1>1. PICK q \in Procs : /\ Busy(q) /\ req[q].name = n
                         /\ Pending(req[q], ucall[q])
  BY DEF Changing
<1>2. PICK u : /\ ucall' = [ucall EXCEPT ![p] = u]
               /\ u.op = ucall[p].op
               /\ UserMove(ucall[p], u.pc, u.rec, u.res)
  BY UserMoves
<1>3. DOMAIN ucall = Procs
  BY DEF ApiInv, UP!UserInv, UP!UserTypeOK
<1>4. CASE q # p
  <2>1. ucall'[q] = ucall[q]
    BY <1>2, <1>3, <1>4
  <2>2. Busy(q)' /\ req'[q].name = n /\ Pending(req[q], ucall[q])'
    BY <1>1, <2>1 DEF Busy, Pending, Invalidates
  <2>3. QED
    BY <2>2 DEF Changing
<1>5. CASE q = p
  <2>1. PICK r, c : r = req[p] /\ c = ucall[p]
    OBVIOUS
  <2>2. /\ r \in Request /\ r.at \in UserPlaces /\ c.name = r.name /\ r.name = n
        /\ c.op = "bump" <=> r.at = "bump"
        /\ c.op = "update" <=> r.at = "update"
        /\ Pending(r, c) /\ UP!InOrder(c)
    BY <1>1, <1>5, <2>1, UserMoves, CallOfRequest
       DEF ApiInv, UP!UserInv, UP!CallsInOrder
  <2>3. UserMove(c, u.pc, u.rec, u.res) /\ ucall'[p] = u
    BY <1>2, <1>3, <2>1
  <2>4. ASSUME Pending(r, u)
        PROVE  Changing(n)'
    <3>1. Busy(p)' /\ req'[p].name = n /\ Pending(req[p], ucall[p])'
      BY <1>1, <1>5, <2>1, <2>3, <2>4 DEF Busy, Pending, Invalidates
    <3>2. QED
      BY <3>1 DEF Changing
  <2>5. CASE r.at = "update"
    <3>1. u.pc = "done" /\ u.res # "ok" => users'[n] = NoUser
      BY <2>2, <2>3, <2>5 DEF UserMove, UP!InOrder
    <3>2. ~(u.pc = "done" /\ u.res # "ok") => Pending(r, u)
      BY <2>2, <2>5 DEF Pending
    <3>3. QED
      BY <2>4, <3>1, <3>2
  <2>6. CASE r.at = "bump"
    <3>1. c.op = "bump" /\ c.pc \in {"get", "set"}
      BY <2>2, <2>6 DEF Pending
    <3>2. CASE c.pc = "set"
      BY <2>1, <2>2, <3>1, <3>2, BumpRaises
    <3>3. CASE c.pc = "get"
      <4>1. u.pc = "set" \/ users'[n] = NoUser
        BY <2>2, <2>3, <3>1, <3>3 DEF UserMove
      <4>2. u.pc = "set" => Pending(r, u)
        BY <2>2, <2>6 DEF Pending
      <4>3. QED
        BY <2>4, <4>1, <4>2
    <3>4. QED
      BY <3>1, <3>2, <3>3
  <2>7. CASE r.at = "sweep"
    BY <2>2, <2>7 DEF UserPlaces
  <2>8. QED
    BY <2>2, <2>5, <2>6, <2>7 DEF Pending
<1>6. QED
  BY <1>4, <1>5

\* What is said of a token stays true while an account is written.
LEMMA RightEvolves ==
    ASSUME ApiInv, EndInv, NEW p \in Procs, U!UserStep(p), UNCHANGED req,
           NEW c, NEW w, Right(c, w),
           c \in TP!Claims, ~Tokenless(c.sub), NotAhead(c.sub, c.tv)
    PROVE  Right(c, w)'
<1>1. c.sub \in Names /\ c.tv \in Nat
  BY DEF TP!Claims
<1>2. SUFFICES ASSUME users'[c.sub] # NoUser, c.tv = users'[c.sub].tv
               PROVE  w = users'[c.sub].pw \/ Changing(c.sub)'
  BY DEF Right
<1>3. /\ users[c.sub] # NoUser
      /\ users[c.sub].tv \in Nat /\ users[c.sub].tv <= users'[c.sub].tv /\ c.tv <= users[c.sub].tv
  <2>1. users[c.sub] # NoUser /\ users[c.sub].tv <= users'[c.sub].tv
    BY <1>1, <1>2, VersionsKept
  <2>2. users[c.sub].tv \in Nat
    BY <1>1, <2>1 DEF ApiInv, UP!UserInv, UP!UserTypeOK, UP!StoredUser
  <2>3. QED
    BY <2>1, <2>2 DEF NotAhead
<1>4. c.tv = users[c.sub].tv
  BY <1>1, <1>2, <1>3
<1>5. w = users[c.sub].pw \/ Changing(c.sub)
  BY <1>3, <1>4 DEF Right
<1>6. CASE Changing(c.sub)
  <2>1. \A n \in Names : Changing(n) =>
          \/ Changing(n)'
          \/ users'[n] = NoUser
          \/ /\ users[n] # NoUser /\ users[n].tv \in Nat
             /\ users'[n].tv = users[n].tv + 1
    BY UserChanging
  <2>2. users'[c.sub].tv # users[c.sub].tv + 1
    BY <1>2, <1>3, <1>4
  <2>3. QED
    BY <1>1, <1>2, <1>6, <2>1, <2>2
<1>7. CASE w = users[c.sub].pw /\ users'[c.sub].pw # users[c.sub].pw
  <2>1. PICK r : r = req[p]
    OBVIOUS
  <2>2. /\ Busy(p) /\ Evolves(c.sub, r)
    BY <1>1, <2>1, UserEvolves, UserMoves, CallOfRequest
  <2>3. r.at = "update" /\ c.sub = r.name
    BY <1>2, <1>3, <1>7, <2>2 DEF Evolves
  <2>4. Pending(req[p], ucall'[p])
    BY <1>1, <1>2, <1>3, <1>7, <2>1, <2>3, UpdateIsPending
  <2>5. Busy(p)' /\ req'[p].name = c.sub /\ Pending(req[p], ucall[p])'
    BY <2>1, <2>2, <2>3, <2>4 DEF Busy, Pending, Invalidates
  <2>6. QED
    BY <2>5 DEF Changing
<1>8. QED
  BY <1>5, <1>6, <1>7

\* No password changes while a login to its account is under way.
LEMMA LoginPassword ==
    ASSUME ApiInv, EndInv, NEW p \in Procs, U!UserStep(p),
           NEW q \in Procs, Busy(q), req[q].ep = "login"
    PROVE  LET n == req[q].name IN
           users'[n] # NoUser => users[n] # NoUser /\ users'[n].pw = users[n].pw
<1>1. PICK o, r : o = req[p] /\ r = req[q]
  OBVIOUS
<1>2. Busy(p) /\ Placed(o) /\ r.name \in Names /\ Evolves(r.name, o)
  BY <1>1, UserEvolves, UserMoves, CallOfRequest, AtPlace DEF Request
<1>3. ASSUME o.name = r.name
      PROVE  o.ep # "register" /\ o.at # "update"
  <2>1. CASE p = q
    BY <1>1, <1>2, <2>1 DEF Placed
  <2>2. CASE p # q
    <3>1. o.ep \in AccountWriters => o.ep = "login"
      BY <1>1, <1>2, <1>3, <2>2 DEF EndInv, OnlyLogins, AccountWriters
    <3>2. QED
      BY <1>2, <3>1 DEF AccountWriters, Placed
  <2>3. QED
    BY <2>1, <2>2
<1>4. QED
  BY <1>1, <1>2, <1>3 DEF Evolves

\* A command of UserService.
LEMMA UserCommandPw ==
    ASSUME ApiInv, EndInv, PwInv, NEW p \in Procs, U!UserStep(p),
           UNCHANGED <<tvars, apiOnly>>
    PROVE  PwInv'
<1>1. UNCHANGED <<accessJwt, refreshJwt, req, password, tcall>>
  BY DEF tvars, apiOnly, history
<1>2. AccessRight'
  <2> SUFFICES ASSUME NEW a \in AccessIds, accessJwt[a] # NoToken
               PROVE  Right(accessJwt[a], password[a])'
    BY <1>1 DEF AccessRight
  <2>1. PICK c, w : c = accessJwt[a] /\ w = password[a]
    OBVIOUS
  <2>2. /\ c \in TP!Claims /\ ~Tokenless(c.sub) /\ NotAhead(c.sub, c.tv)
        /\ Right(c, w)
    BY <2>1 DEF ApiInv, OwnTypes, Tokenless, EndInv, ReachedVersions, PwInv,
       AccessRight
  <2>3. Right(c, w)'
    BY <1>1, <2>2, RightEvolves
  <2>4. QED
    BY <1>1, <2>1, <2>3
<1>3. ASSUME NEW j \in RefreshIds, refreshJwt[j] # NoToken, password[j] # Keep
      PROVE  Right(refreshJwt[j], password[j])'
  <2>1. PICK c, w : c = refreshJwt[j] /\ w = password[j]
    OBVIOUS
  <2>2. /\ c \in TP!Claims /\ ~Tokenless(c.sub) /\ NotAhead(c.sub, c.tv)
        /\ Right(c, w)
    BY <1>3, <2>1 DEF ApiInv, TP!TokenInv, TP!TokenTypeOK, Tokenless, EndInv,
       ReachedVersions, PwInv, RefreshRight
  <2>3. Right(c, w)'
    BY <1>1, <2>2, RightEvolves
  <2>4. QED
    BY <1>1, <2>1, <2>3
<1>4. RefreshRight'
  BY <1>1, <1>3 DEF RefreshRight, PwInv
<1>5. Unsent'
  BY <1>1 DEF Unsent, PwInv, In, Busy
<1>6. ASSUME NEW q \in Procs, Busy(q)'
      PROVE  KnowsPassword(req[q], ucall[q])'
  <2>1. PICK r, v : r = req[q] /\ v = ucall[q]
    OBVIOUS
  <2>2. Busy(q) /\ r \in Request /\ Placed(r) /\ KnowsPassword(r, v)
    BY <1>1, <1>6, <2>1, AtPlace DEF Busy, PwInv
  <2>3. PICK x : x = ucall'[q]
    OBVIOUS
  <2>4. ASSUME r.ep = "login", users'[r.name] # NoUser
        PROVE  users[r.name] # NoUser /\ users'[r.name].pw = users[r.name].pw
    BY <2>1, <2>2, <2>4, LoginPassword
  <2>5. ASSUME r.at = "auth", x.pc = "done", x.rec # NoUser, users'[r.name] # NoUser
        PROVE  x.rec.pw = users'[r.name].pw
    <3>1. r.ep = "login"
      BY <2>2, <2>5 DEF Placed
    <3>2. CASE q = p
      <4>1. PICK u : /\ ucall' = [ucall EXCEPT ![p] = u]
                     /\ UserMove(ucall[p], u.pc, u.rec, u.res)
        BY UserMoves
      <4>2. x = u
        BY <2>3, <3>2, <4>1 DEF ApiInv, UP!UserInv, UP!UserTypeOK
      <4>3. /\ v.op = "read" /\ v.name = r.name
            /\ UserCommands(v) /\ v.pc # "idle"
        BY <2>1, <2>2, <2>5, <3>2, AtPlace, UserMoves
           DEF UserPlaces, AwaitsUser, ApiInv, Fits
      <4>4. UNCHANGED users /\ x.rec = users[r.name]
        BY <2>1, <2>5, <3>2, <4>1, <4>2, <4>3 DEF UserMove, UserCommands
      <4>5. QED
        BY <4>4
    <3>3. CASE q # p
      <4>1. x = v
        <5>1. PICK u : ucall' = [ucall EXCEPT ![p] = u]
          BY UserMoves
        <5>2. QED
          BY <2>1, <2>3, <3>3, <5>1 DEF ApiInv, UP!UserInv, UP!UserTypeOK
      <4>2. QED
        BY <2>2, <2>4, <2>5, <3>1, <4>1 DEF KnowsPassword
    <3>4. QED
      BY <3>2, <3>3
  <2>6. KnowsPassword(r, x)'
    BY <1>1, <2>2, <2>4, <2>5 DEF KnowsPassword
  <2>7. QED
    BY <1>1, <2>1, <2>3, <2>6
<1>7. QED
  BY <1>2, <1>4, <1>5, <1>6 DEF PwInv

\* A step that leaves accounts' versions, passwords and signed tokens alone
\* and the calls of UserService but for the locks in their copies.
LEMMA QuietPw ==
    ASSUME ApiInv, PwInv, UNCHANGED <<accessJwt, refreshJwt, req, password>>,
           LocksOnly,
           \A q \in Procs : In(q, "issue") => tcall'[q].jti = tcall[q].jti
    PROVE  PwInv'
<1>1. \A n \in Names :
        /\ users'[n] = NoUser <=> users[n] = NoUser
        /\ users[n] # NoUser => /\ users'[n].tv = users[n].tv
                                /\ users'[n].pw = users[n].pw
  BY DEF LocksOnly
<1>2. ASSUME NEW q \in Procs
      PROVE  \/ ucall'[q] = ucall[q]
             \/ /\ ucall'[q].pc = ucall[q].pc /\ ucall'[q].res = ucall[q].res
                /\ ucall'[q].rec = NoUser <=> ucall[q].rec = NoUser
                /\ ucall[q].rec # NoUser => ucall'[q].rec.pw = ucall[q].rec.pw
  BY DEF LocksOnly
<1>3. \A n \in Names : Changing(n) => Changing(n)'
  <2>1. ASSUME NEW n \in Names, NEW q \in Procs, Busy(q), req[q].name = n,
               Pending(req[q], ucall[q])
        PROVE  Busy(q)' /\ req'[q].name = n /\ Pending(req[q], ucall[q])'
    <3>1. \/ ucall'[q] = ucall[q]
          \/ ucall'[q].pc = ucall[q].pc /\ ucall'[q].res = ucall[q].res
      BY <1>2
    <3>2. QED
      BY <2>1, <3>1 DEF Busy, Pending, Invalidates
  <2>2. QED
    BY <2>1 DEF Changing
<1>4. ASSUME NEW c \in TP!Claims, NEW w, Right(c, w)
      PROVE  Right(c, w)'
  <2>1. c.sub \in Names
    BY DEF TP!Claims
  <2>2. QED
    BY <1>1, <1>3, <1>4, <2>1 DEF Right
<1>5. /\ \A a \in AccessIds : accessJwt[a] # NoToken => accessJwt[a] \in TP!Claims
      /\ \A j \in RefreshIds : refreshJwt[j] # NoToken => refreshJwt[j] \in TP!Claims
  BY DEF ApiInv, OwnTypes, TP!TokenInv, TP!TokenTypeOK
<1>6. ASSUME NEW a \in AccessIds, accessJwt[a] # NoToken
      PROVE  Right(accessJwt[a], password[a])'
  <2>1. PICK c, w : c = accessJwt[a] /\ w = password[a]
    OBVIOUS
  <2>2. c \in TP!Claims /\ Right(c, w)
    BY <1>5, <1>6, <2>1 DEF PwInv, AccessRight
  <2>3. Right(c, w)'
    BY <1>4, <2>2
  <2>4. QED
    BY <2>1, <2>3
<1>7. ASSUME NEW j \in RefreshIds, refreshJwt[j] # NoToken, password[j] # Keep
      PROVE  Right(refreshJwt[j], password[j])'
  <2>1. PICK c, w : c = refreshJwt[j] /\ w = password[j]
    OBVIOUS
  <2>2. c \in TP!Claims /\ Right(c, w)
    BY <1>5, <1>7, <2>1 DEF PwInv, RefreshRight
  <2>3. Right(c, w)'
    BY <1>4, <2>2
  <2>4. QED
    BY <2>1, <2>3
<1>8. AccessRight' /\ RefreshRight'
  BY <1>6, <1>7 DEF AccessRight, RefreshRight, PwInv
<1>9. Unsent'
  BY DEF Unsent, PwInv, In, Busy
<1>10. ASSUME NEW q \in Procs, Busy(q)'
       PROVE  KnowsPassword(req[q], ucall[q])'
  <2>1. PICK r, v, x : r = req[q] /\ v = ucall[q] /\ x = ucall'[q]
    OBVIOUS
  <2>2. Busy(q) /\ r.name \in Names /\ KnowsPassword(r, v)
    BY <1>10, <2>1, AtPlace DEF Busy, PwInv, Request
  <2>3. \/ x = v
        \/ /\ x.pc = v.pc
           /\ x.rec = NoUser <=> v.rec = NoUser
           /\ v.rec # NoUser => x.rec.pw = v.rec.pw
    BY <1>2, <2>1
  <2>4. KnowsPassword(r, x)'
    BY <1>1, <2>2, <2>3 DEF KnowsPassword
  <2>5. QED
    BY <2>1, <2>4
<1>11. QED
  BY <1>8, <1>9, <1>10 DEF PwInv

LEMMA PwNext ==
    ASSUME ApiInv, EndInv, PwInv, [Next]_vars
    PROVE  PwInv'
<1>1. ApiInv' /\ Grows
  BY ApiNext
<1>2. ASSUME UNCHANGED <<users, ucall, accessJwt, refreshJwt, req, password>>,
             \A q \in Procs : In(q, "issue") => tcall'[q].jti = tcall[q].jti
      PROVE  PwInv'
  <2>1. LocksOnly
    BY <1>2 DEF LocksOnly
  <2>2. QED
    BY <1>2, <2>1, QuietPw
<1>3. CASE UNCHANGED vars
  BY <1>2, <1>3 DEF vars, uvars, tvars, history
<1>4. ASSUME NEW p \in Procs, Receive(p) \/ Handle(p)
      PROVE  PwInv'
  BY <1>1, <1>4, OwnPw, ReceiveStep, HandleStep
<1>5. ASSUME NEW p \in Procs, Command(p)
      PROVE  PwInv'
  <2>1. CASE U!UserStep(p) /\ UNCHANGED <<tvars, apiOnly>>
    BY <2>1, UserCommandPw
  <2>2. CASE T!TokenStep(p) /\ UNCHANGED <<uvars, apiOnly>>
    <3>1. UNCHANGED refreshJwt
      BY <2>2 DEF T!TokenStep, T!SetSession, T!SAddSession, T!GetSession,
         T!DelSession, T!SRemSession, T!SMembers, T!DelMember, T!DelIndex,
         T!BlackList, T!LookUp
    <3>2. \A q \in Procs : tcall'[q].jti = tcall[q].jti
      <4>1. PICK t : tcall' = [tcall EXCEPT ![p] = t] /\ t.jti = tcall[p].jti
        BY <2>2, TokenCommandCall
      <4>2. QED
        BY <4>1 DEF ApiInv, TP!TokenInv, TP!TokenTypeOK
    <3>3. QED
      BY <1>2, <2>2, <3>1, <3>2 DEF uvars, apiOnly, history
  <2>3. QED
    BY <1>5, <2>1, <2>2 DEF Command
<1>6. ASSUME NEW j \in RefreshIds, T!SessionExpires(j) \/ T!JwtExpires(j),
             UNCHANGED <<uvars, apiOnly>>
      PROVE  PwInv'
  BY <1>2, <1>6 DEF T!SessionExpires, T!JwtExpires, uvars, apiOnly, history
<1>7. ASSUME NEW n \in Names, U!LockExpires(n), UNCHANGED <<tvars, apiOnly>>
      PROVE  PwInv'
  BY <1>7, LockIsOnly, QuietPw DEF tvars, apiOnly, history
<1>8. QED
  BY <1>3, <1>4, <1>5, <1>6, <1>7 DEF Next, Passes

LEMMA PwInit == Init => PwInv
  BY DEF Init, PwInv, AccessRight, RefreshRight, Unsent, Busy, T!TokenInit

\* When no write of an account is under way, every token of it that works was
\* obtained with the password the account has now (auth.py:129-172, 298-329,
\* 402-417), under the assumptions of ConfirmedEndIsFinalHolds: from the SET
\* of the new password on, the request that wrote it stays on its way to the
\* increment, which leaves every token there is a version behind.
THEOREM TokensFollowPasswordHolds ==
    ASSUME MayOverlap \subseteq {"login"}, ~Recreate
    PROVE  Spec => []TokensFollowPassword
<1>1. Serially
  BY DEF Serially
<1>2. ApiInv /\ PwInv => TokensFollowPassword
  <2> SUFFICES ASSUME ApiInv, PwInv, NEW n \in Names,
                      \A p \in Procs : Busy(p) /\ req[p].name = n
                                       => req[p].ep \notin AccountWriters
               PROVE  /\ \A a \in AccessOf(n) : Usable(a)
                                              => password[a] = users[n].pw
                      /\ \A r \in RefreshOf(n) :
                           password[r] # Keep /\ Exchangeable(r)
                           => password[r] = users[n].pw
    BY DEF TokensFollowPassword
  <2>1. ~Changing(n)
    BY DEF Changing, Pending, AccountWriters
  <2>2. ASSUME NEW a \in AccessOf(n), Usable(a)
        PROVE  password[a] = users[n].pw
    <3>1. /\ a \in AccessIds /\ accessJwt[a] # NoToken /\ accessJwt[a].sub = n
          /\ users[n] # NoUser /\ users[n].tv = accessJwt[a].tv
      BY <2>2 DEF AccessOf, Usable
    <3>2. Right(accessJwt[a], password[a])
      BY <3>1 DEF PwInv, AccessRight
    <3>3. QED
      BY <2>1, <3>1, <3>2 DEF Right
  <2>3. ASSUME NEW r \in RefreshOf(n), password[r] # Keep, Exchangeable(r)
        PROVE  password[r] = users[n].pw
    <3>1. /\ r \in RefreshIds /\ refreshJwt[r] # NoToken /\ refreshJwt[r].sub = n
          /\ sessions[r] = refreshJwt[r]
      BY <2>3 DEF RefreshOf, T!Handed, Exchangeable, ApiInv, TP!TokenInv,
         TP!SessionMatchesToken
    <3>2. users[n] # NoUser /\ users[n].tv = refreshJwt[r].tv
      BY <2>3, <3>1 DEF Exchangeable
    <3>3. Right(refreshJwt[r], password[r])
      BY <2>3, <3>1 DEF PwInv, RefreshRight
    <3>4. QED
      BY <2>1, <3>1, <3>2, <3>3 DEF Right
  <2>4. QED
    BY <2>2, <2>3
<1>3. ApiInv /\ EndInv /\ PwInv /\ [Next]_vars => (ApiInv /\ EndInv /\ PwInv)'
  BY <1>1, ApiNext, EndNext, PwNext
<1>4. QED
  BY <1>2, <1>3, ApiInit, EndInit, PwInit, PTL DEF Spec

=============================================================================
