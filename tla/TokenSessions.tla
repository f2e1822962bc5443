--------------------------- MODULE TokenSessions ---------------------------
(***************************************************************************)
(* TokenSessionService (app/services/token_session_service.py) on Redis.   *)
(*                                                                         *)
(* A refresh token is a JWT (refreshJwt: the claims it was signed with) and *)
(* a session record under auth:refresh:<jti>; the jtis of a user are also  *)
(* in the set auth:refresh:user:<name>, which only revoke_all_user_sessions *)
(* reads.  Access tokens have no session: revoking one puts its jti on a   *)
(* black list.  As in UserStore every Redis command is an action, and      *)
(* tcall[p] is the call that coroutine p is in.                            *)
(*                                                                         *)
(* Two clocks end a refresh token: the TTL of its record (SessionExpires)  *)
(* and the exp of the JWT (JwtExpires); they are set about a second apart, *)
(* so either may come first.  The black list is not aged: an entry lives   *)
(* as long as the token it names.  Records that are not JSON are left out  *)
(* (nothing writes one).                                                   *)
(*                                                                         *)
(* Overlap says whether a user's sessions may be revoked as a whole while  *)
(* one is being issued; the code never prevents it.                        *)
(***************************************************************************)
EXTENDS Naturals, FiniteSets

CONSTANTS
    Procs,          \* coroutines
    Names,          \* usernames
    RefreshIds,     \* jtis of refresh tokens (bound: as many can be issued)
    AccessIds,      \* jtis of access tokens
    Overlap,        \* may revoke_all overlap issue_refresh_token?
    NoToken         \* no token, no session record

Claims == [sub : Names, tv : Nat]

ASSUME NoTokenAssumption == NoToken \notin Claims \cup RefreshIds \cup AccessIds

VARIABLES
    refreshJwt,     \* jti -> the claims the token was signed with, or NoToken
    expired,        \* the jtis whose JWT is past its exp
    sessions,       \* auth:refresh:<jti> -> record, or NoToken
    index,          \* auth:refresh:user:<name> -> set of jtis
    revokedAccess,  \* auth:revoked:access:<jti>, the keys that exist
    tcall           \* process -> its call of TokenSessionService

tvars == <<refreshJwt, expired, sessions, index, revokedAccess, tcall>>

Call == [op : {"issue", "validate", "revoke", "revokeAll",
               "revokeAccess", "isRevoked"},
         pc : {"set", "sadd", "get", "del", "srem", "smembers", "dels",
               "delindex", "black", "look", "done"},
         claims : Claims,                     \* whom the call is about
         jti : RefreshIds \cup AccessIds \cup {NoToken},
         todo : SUBSET RefreshIds,            \* revokeAll: still to delete
         old : SUBSET RefreshIds,             \* history: live when it began
         res : {"none", "ok", "refused"}]

NoCall == [pc |-> "idle"]

TokenTypeOK ==
    /\ refreshJwt \in [RefreshIds -> Claims \cup {NoToken}]
    /\ expired \in SUBSET RefreshIds
    /\ sessions \in [RefreshIds -> Claims \cup {NoToken}]
    /\ index \in [Names -> SUBSET RefreshIds]
    /\ revokedAccess \in SUBSET AccessIds
    /\ tcall \in [Procs -> Call \cup {NoCall}]

TokenInit ==
    /\ refreshJwt = [j \in RefreshIds |-> NoToken]
    /\ expired = {}
    /\ sessions = [j \in RefreshIds |-> NoToken]
    /\ index = [n \in Names |-> {}]
    /\ revokedAccess = {}
    /\ tcall = [p \in Procs |-> NoCall]

At(p, step) == tcall[p].pc = step

Ready(p) == At(p, "idle") \/ At(p, "done")

\* p is issuing a token of n; p is sweeping the sessions of n.
Issuing(p, n) == tcall[p].pc \in {"set", "sadd"} /\ tcall[p].claims.sub = n
Sweeping(p, n) ==
    tcall[p].pc \in {"smembers", "dels", "delindex"} /\ tcall[p].claims.sub = n

\* A token a client can hold: it was signed, and its issue has returned.
Handed(j) ==
    /\ refreshJwt[j] # NoToken
    /\ \A p \in Procs : tcall[p].pc \in {"set", "sadd"} /\ tcall[p].op = "issue"
                       => tcall[p].jti # j

Enter(p, op, pc, claims, jti, old) ==
    tcall' = [tcall EXCEPT ![p] =
      [op |-> op, pc |-> pc, claims |-> claims, jti |-> jti,
       todo |-> {}, old |-> old, res |-> "none"]]

\* The call fails on an expired JWT before its first command.
EnterRefused(p, op, j) ==
    tcall' = [tcall EXCEPT ![p] =
      [op |-> op, pc |-> "done", claims |-> refreshJwt[j], jti |-> j,
       todo |-> {}, old |-> {}, res |-> "refused"]]

Finish(p, res) == tcall' = [tcall EXCEPT ![p].pc = "done", ![p].res = res]

GoTo(p, pc) == tcall' = [tcall EXCEPT ![p].pc = pc]

TokenReturn(p) ==
    /\ At(p, "done")
    /\ tcall' = [tcall EXCEPT ![p] = NoCall]
    /\ UNCHANGED <<refreshJwt, expired, sessions, index, revokedAccess>>

-----------------------------------------------------------------------------
(* issue_refresh_token: sign a JWT with a fresh jti, SET, SADD *)

IssueStart(p, n, v) ==
    /\ Ready(p)
    /\ Overlap \/ \A q \in Procs : ~Sweeping(q, n)
    /\ \E j \in RefreshIds :
         /\ refreshJwt[j] = NoToken
         /\ refreshJwt' = [refreshJwt EXCEPT ![j] = [sub |-> n, tv |-> v]]
         /\ Enter(p, "issue", "set", [sub |-> n, tv |-> v], j, {})
    /\ UNCHANGED <<expired, sessions, index, revokedAccess>>

SetSession(p) ==
    /\ At(p, "set")
    /\ sessions' = [sessions EXCEPT ![tcall[p].jti] = tcall[p].claims]
    /\ GoTo(p, "sadd")
    /\ UNCHANGED <<refreshJwt, expired, index, revokedAccess>>

\* Mutant: the session is saved without its index entry.
SAddForgotten(p) ==
    /\ At(p, "sadd")
    /\ Finish(p, "ok")
    /\ UNCHANGED <<refreshJwt, expired, sessions, index, revokedAccess>>

SAddSession(p) ==
    /\ At(p, "sadd")
    /\ index' = [index EXCEPT ![tcall[p].claims.sub] = @ \cup {tcall[p].jti}]
    /\ Finish(p, "ok")
    /\ UNCHANGED <<refreshJwt, expired, sessions, revokedAccess>>

-----------------------------------------------------------------------------
(* validate_refresh_token: decode the JWT, GET the record, compare *)

ValidateStart(p, j) ==
    /\ Ready(p)
    /\ Handed(j)
    /\ \/ j \notin expired
          /\ Enter(p, "validate", "get", refreshJwt[j], j, {})
       \/ j \in expired /\ EnterRefused(p, "validate", j)
    /\ UNCHANGED <<refreshJwt, expired, sessions, index, revokedAccess>>

\* Mutant: validating a token saves its record again (a sliding expiry).
GetAndTouchSession(p) ==
    /\ At(p, "get")
    /\ IF sessions[tcall[p].jti] = tcall[p].claims
       THEN GoTo(p, "set") ELSE Finish(p, "refused")
    /\ UNCHANGED <<refreshJwt, expired, sessions, index, revokedAccess>>

\* No record, another subject or another token version: refused.
GetSession(p) ==
    /\ At(p, "get")
    /\ Finish(p, IF sessions[tcall[p].jti] = tcall[p].claims
                 THEN "ok" ELSE "refused")
    /\ UNCHANGED <<refreshJwt, expired, sessions, index, revokedAccess>>

-----------------------------------------------------------------------------
(* revoke_refresh_token: decode the JWT, DEL the record, SREM the entry *)

RevokeStart(p, j) ==
    /\ Ready(p)
    /\ Handed(j)
    /\ \/ j \notin expired
          /\ Enter(p, "revoke", "del", refreshJwt[j], j, {})
       \/ j \in expired /\ EnterRefused(p, "revoke", j)
    /\ UNCHANGED <<refreshJwt, expired, sessions, index, revokedAccess>>

DelSession(p) ==
    /\ At(p, "del")
    /\ sessions' = [sessions EXCEPT ![tcall[p].jti] = NoToken]
    /\ GoTo(p, "srem")
    /\ UNCHANGED <<refreshJwt, expired, index, revokedAccess>>

SRemSession(p) ==
    /\ At(p, "srem")
    /\ index' = [index EXCEPT ![tcall[p].claims.sub] = @ \ {tcall[p].jti}]
    /\ Finish(p, "ok")
    /\ UNCHANGED <<refreshJwt, expired, sessions, revokedAccess>>

-----------------------------------------------------------------------------
(* revoke_all_user_sessions: SMEMBERS, one DEL per jti, DEL the set *)

\* The sessions of n that exist and whose issue has returned.
Established(n) ==
    {j \in RefreshIds : /\ Handed(j)
                        /\ refreshJwt[j].sub = n
                        /\ sessions[j] # NoToken}

RevokeAllStart(p, n) ==
    /\ Ready(p)
    /\ Overlap \/ \A q \in Procs : ~Issuing(q, n)
    /\ Enter(p, "revokeAll", "smembers", [sub |-> n, tv |-> 0], NoToken,
             Established(n))
    /\ UNCHANGED <<refreshJwt, expired, sessions, index, revokedAccess>>

SMembers(p) ==
    /\ At(p, "smembers")
    /\ LET found == index[tcall[p].claims.sub] IN
       tcall' = [tcall EXCEPT
         ![p].todo = found,
         ![p].pc = IF found = {} THEN "delindex" ELSE "dels"]
    /\ UNCHANGED <<refreshJwt, expired, sessions, index, revokedAccess>>

\* Mutant: the loop returns after the first record.
DelFirstOnly(p) ==
    /\ At(p, "dels")
    /\ \E j \in tcall[p].todo :
         /\ sessions' = [sessions EXCEPT ![j] = NoToken]
         /\ tcall' = [tcall EXCEPT ![p].todo = {}, ![p].pc = "delindex"]
    /\ UNCHANGED <<refreshJwt, expired, index, revokedAccess>>

DelMember(p) ==
    /\ At(p, "dels")
    /\ \E j \in tcall[p].todo :
         /\ sessions' = [sessions EXCEPT ![j] = NoToken]
         /\ tcall' = [tcall EXCEPT
              ![p].todo = @ \ {j},
              ![p].pc = IF tcall[p].todo = {j} THEN "delindex" ELSE "dels"]
    /\ UNCHANGED <<refreshJwt, expired, index, revokedAccess>>

DelIndex(p) ==
    /\ At(p, "delindex")
    /\ index' = [index EXCEPT ![tcall[p].claims.sub] = {}]
    /\ Finish(p, "ok")
    /\ UNCHANGED <<refreshJwt, expired, sessions, revokedAccess>>

-----------------------------------------------------------------------------
(* revoke_access_token and is_access_token_revoked *)

RevokeAccessStart(p, a, c) ==
    /\ Ready(p)
    /\ Enter(p, "revokeAccess", "black", c, a, {})
    /\ UNCHANGED <<refreshJwt, expired, sessions, index, revokedAccess>>

\* Mutant: the entry is saved with a TTL of zero seconds.
BlackListLapsed(p) ==
    /\ At(p, "black")
    /\ Finish(p, "ok")
    /\ UNCHANGED <<refreshJwt, expired, sessions, index, revokedAccess>>

BlackList(p) ==
    /\ At(p, "black")
    /\ revokedAccess' = revokedAccess \cup {tcall[p].jti}
    /\ Finish(p, "ok")
    /\ UNCHANGED <<refreshJwt, expired, sessions, index>>

IsRevokedStart(p, a, c) ==
    /\ Ready(p)
    /\ Enter(p, "isRevoked", "look", c, a, {})
    /\ UNCHANGED <<refreshJwt, expired, sessions, index, revokedAccess>>

LookUp(p) ==
    /\ At(p, "look")
    /\ Finish(p, IF tcall[p].jti \in revokedAccess THEN "refused" ELSE "ok")
    /\ UNCHANGED <<refreshJwt, expired, sessions, index, revokedAccess>>

-----------------------------------------------------------------------------
(* Time *)

SessionExpires(j) ==
    /\ sessions[j] # NoToken
    /\ sessions' = [sessions EXCEPT ![j] = NoToken]
    /\ UNCHANGED <<refreshJwt, expired, index, revokedAccess, tcall>>

JwtExpires(j) ==
    /\ Handed(j)
    /\ j \notin expired
    /\ expired' = expired \cup {j}
    /\ UNCHANGED <<refreshJwt, sessions, index, revokedAccess, tcall>>

TokenStep(p) ==
    \/ SetSession(p) \/ SAddSession(p) \/ GetSession(p)
    \/ DelSession(p) \/ SRemSession(p)
    \/ SMembers(p) \/ DelMember(p) \/ DelIndex(p)
    \/ BlackList(p) \/ LookUp(p)

CONSTANT VersionBound       \* bound: the token versions users have here

TokenBegin(p) ==
    \/ \E n \in Names : \/ \E v \in 0..VersionBound : IssueStart(p, n, v)
                        \/ RevokeAllStart(p, n)
    \/ \E j \in RefreshIds : ValidateStart(p, j) \/ RevokeStart(p, j)
    \/ \E a \in AccessIds, n \in Names :
         \/ RevokeAccessStart(p, a, [sub |-> n, tv |-> 0])
         \/ IsRevokedStart(p, a, [sub |-> n, tv |-> 0])

TokenNext ==
    \/ \E p \in Procs : TokenBegin(p) \/ TokenReturn(p) \/ TokenStep(p)
    \/ \E j \in RefreshIds : SessionExpires(j) \/ JwtExpires(j)

TokenSpec == TokenInit /\ [][TokenNext]_tvars

-----------------------------------------------------------------------------
(* Properties *)

\* A session of a token its client may hold has ended.
Over(j) == Handed(j) /\ sessions[j] = NoToken

\* A refresh session that has ended - revoked, swept or timed out - is never
\* active again, whatever calls were under way when it ended
\* (token_session_service.py:112-152).
EndedStaysEnded == [][\A j \in RefreshIds : Over(j) => Over(j)']_tvars

\* A live session can be found by the next revoke_all: it is in the index of
\* its user, or its SADD is still to come (token_session_service.py:112-152).
LiveIsIndexed ==
    \A j \in RefreshIds : sessions[j] # NoToken =>
        \/ j \in index[sessions[j].sub]
        \/ \E p \in Procs : At(p, "sadd") /\ tcall[p].jti = j

\* When revoke_all_user_sessions returns, every session of the user that was
\* established when it was called has ended (token_session_service.py:108).
SweepIsComplete ==
    \A p \in Procs :
        tcall[p].pc = "done" /\ tcall[p].op = "revokeAll"
        => \A j \in tcall[p].old : sessions[j] = NoToken

-----------------------------------------------------------------------------
(* The inductive invariants behind these properties *)

\* A live session carries the claims of its own token, so validation refuses
\* for a missing record only (token_session_service.py:88-95).
SessionMatchesToken ==
    \A j \in RefreshIds : sessions[j] # NoToken => sessions[j] = refreshJwt[j]

\* The token a call is about, at each of its commands: an issue has it to
\* itself until it returns, and a revoked session stays revoked.
InOrder(c) ==
    /\ c.pc \in {"set", "sadd"} => c.op = "issue"
    /\ c.pc \in {"set", "sadd", "get", "del", "srem"} =>
         /\ c.jti \in RefreshIds
         /\ refreshJwt[c.jti] # NoToken
         /\ c.claims = refreshJwt[c.jti]
    /\ c.pc \in {"get", "del", "srem"} => Handed(c.jti)
    /\ c.pc = "srem" => sessions[c.jti] = NoToken
    /\ c.pc = "black" => c.jti \in AccessIds

CallsMatchTokens == \A p \in Procs : InOrder(tcall[p])

\* No session of a user is issued while they are being swept.
SweepsExclude ==
    \A p, q \in Procs, n \in Names : ~(Sweeping(p, n) /\ Issuing(q, n))

LiveOf(n) == {j \in RefreshIds : sessions[j] # NoToken /\ sessions[j].sub = n}

\* How far a sweep is: the live sessions left are those it has still to do,
\* and what it has to end is none that is still to be saved.
Sweep(p) ==
    LET c == tcall[p] IN
    /\ c.pc = "dels" => LiveOf(c.claims.sub) \subseteq c.todo
    /\ c.pc = "delindex" => LiveOf(c.claims.sub) = {}
    /\ c.pc \in {"set", "sadd", "get", "del", "srem", "black", "look"}
       => c.old = {}
    /\ c.pc # "idle" => \A j \in c.old :
         /\ Handed(j)
         /\ refreshJwt[j].sub = c.claims.sub
         /\ c.pc = "done" => sessions[j] = NoToken

SweepsProgress == \A p \in Procs : Sweep(p)
=============================================================================
