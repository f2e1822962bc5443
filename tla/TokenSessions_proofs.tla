------------------------ MODULE TokenSessions_proofs ------------------------
(***************************************************************************)
(* Theorems about TokenSessions, for any number of coroutines, users and   *)
(* tokens.                                                                 *)
(***************************************************************************)
EXTENDS TokenSessions, TLAPS

TokenInv == TokenTypeOK /\ SessionMatchesToken /\ CallsMatchTokens

\* What no step undoes: a signed token, a token in a client's hands, the end
\* of a session.
Monotone ==
    /\ \A j \in RefreshIds : refreshJwt[j] # NoToken
                             => refreshJwt'[j] = refreshJwt[j]
    /\ \A j \in RefreshIds : Handed(j) => Handed(j)'
    /\ \A j \in RefreshIds : Handed(j) /\ sessions[j] = NoToken
                             => sessions'[j] = NoToken

LEMMA TokenInit_Inv == TokenInit => TokenInv
  BY DEF TokenInit, TokenInv, TokenTypeOK, SessionMatchesToken,
         CallsMatchTokens, InOrder, NoCall

\* A step that replaces p's call by c: what is left to show about c, the JWTs
\* and the records.
LEMMA Replaced ==
    ASSUME TokenInv, NEW p \in Procs, NEW c \in Call \cup {NoCall},
           tcall' = [tcall EXCEPT ![p] = c],
           refreshJwt' \in [RefreshIds -> Claims \cup {NoToken}],
           expired' \in SUBSET RefreshIds,
           sessions' \in [RefreshIds -> Claims \cup {NoToken}],
           index' \in [Names -> SUBSET RefreshIds],
           revokedAccess' \in SUBSET AccessIds,
           \A j \in RefreshIds : refreshJwt[j] # NoToken
                                 => refreshJwt'[j] = refreshJwt[j],
           \A j \in RefreshIds : Handed(j) /\ sessions[j] = NoToken
                                 => sessions'[j] = NoToken,
           \A j \in RefreshIds : sessions'[j] # NoToken
                                 => sessions'[j] = refreshJwt'[j],
           c.pc \in {"set", "sadd"} => c.op = "issue" /\ ~Handed(c.jti),
           c.pc \in {"set", "sadd", "get", "del", "srem"} =>
               /\ c.jti \in RefreshIds
               /\ refreshJwt'[c.jti] # NoToken
               /\ c.claims = refreshJwt'[c.jti],
           c.pc \in {"get", "del", "srem"} => Handed(c.jti),
           c.pc = "srem" => sessions'[c.jti] = NoToken,
           c.pc = "black" => c.jti \in AccessIds
    PROVE  TokenInv' /\ Monotone
<1>1. TokenTypeOK'
  BY DEF TokenInv, TokenTypeOK
<1>2. \A q \in Procs : tcall'[q] = IF q = p THEN c ELSE tcall[q]
  BY DEF TokenInv, TokenTypeOK
<1>3. ASSUME NEW j \in RefreshIds, Handed(j)
      PROVE  Handed(j)'
  BY <1>2, <1>3 DEF Handed
<1>4. ASSUME NEW q \in Procs
      PROVE  InOrder(tcall[q])'
  <2>1. CASE q = p
    BY <1>2, <1>3, <2>1 DEF InOrder
  <2>2. CASE q # p
    <3>1. tcall'[q] = tcall[q] /\ InOrder(tcall[q])
      BY <1>2, <2>2 DEF TokenInv, CallsMatchTokens
    <3>2. QED
      BY <1>3, <3>1 DEF InOrder
  <2>3. QED
    BY <2>1, <2>2
<1>5. QED
  BY <1>1, <1>3, <1>4 DEF TokenInv, SessionMatchesToken, CallsMatchTokens,
                          Monotone

\* Most steps leave the JWTs and the records alone.
LEMMA CallReplaced ==
    ASSUME TokenInv, NEW p \in Procs, NEW c \in Call \cup {NoCall},
           tcall' = [tcall EXCEPT ![p] = c],
           UNCHANGED <<refreshJwt, expired, sessions>>,
           index' \in [Names -> SUBSET RefreshIds],
           revokedAccess' \in SUBSET AccessIds,
           InOrder(c),
           c.pc \in {"set", "sadd"} => ~Handed(c.jti)
    PROVE  TokenInv' /\ Monotone
  BY Replaced DEF TokenInv, TokenTypeOK, SessionMatchesToken, InOrder

\* A call as Enter and EnterRefused make it.
NewCall(op, pc, claims, jti, old, res) ==
    [op |-> op, pc |-> pc, claims |-> claims, jti |-> jti, todo |-> {},
     old |-> old, res |-> res]

LEMMA Issue_Inv ==
    ASSUME TokenInv, NEW p \in Procs, NEW n \in Names, NEW v \in Nat,
           IssueStart(p, n, v)
    PROVE  TokenInv' /\ Monotone
<1> DEFINE k == [sub |-> n, tv |-> v]
<1>1. PICK j \in RefreshIds :
        /\ refreshJwt[j] = NoToken
        /\ refreshJwt' = [refreshJwt EXCEPT ![j] = k]
        /\ tcall' = [tcall EXCEPT ![p] = NewCall("issue", "set", k, j, {}, "none")]
  BY DEF IssueStart, Enter, NewCall
<1> DEFINE c == NewCall("issue", "set", k, j, {}, "none")
<1>2. k \in Claims /\ k # NoToken
  BY NoTokenAssumption DEF Claims
<1> HIDE DEF k
<1>3. /\ c \in Call
      /\ c.pc = "set" /\ c.op = "issue" /\ c.jti = j /\ c.claims = k
  BY <1>2 DEF Call, NewCall
<1>4. ~Handed(j)
  BY <1>1 DEF Handed
<1>5. refreshJwt' \in [RefreshIds -> Claims \cup {NoToken}]
  BY <1>1, <1>2 DEF TokenInv, TokenTypeOK
<1>6. refreshJwt'[j] = k
  BY <1>1 DEF TokenInv, TokenTypeOK
<1>7. \A i \in RefreshIds : refreshJwt[i] # NoToken
                             => refreshJwt'[i] = refreshJwt[i]
  BY <1>1 DEF TokenInv, TokenTypeOK
<1>8. UNCHANGED <<expired, sessions, index, revokedAccess>>
  BY DEF IssueStart
<1> HIDE DEF c
<1>9. QED
  BY <1>1, <1>2, <1>3, <1>4, <1>5, <1>6, <1>7, <1>8, Replaced
     DEF TokenInv, TokenTypeOK, SessionMatchesToken, c

\* The starts of the other calls sign nothing and change no record.
LEMMA Start_Inv ==
    ASSUME TokenInv, NEW p \in Procs,
           \/ \E j \in RefreshIds : ValidateStart(p, j) \/ RevokeStart(p, j)
           \/ \E n \in Names : RevokeAllStart(p, n)
           \/ \E a \in AccessIds, k \in Claims :
                RevokeAccessStart(p, a, k) \/ IsRevokedStart(p, a, k)
    PROVE  TokenInv' /\ Monotone
<1> USE DEF TokenInv, TokenTypeOK
<1>1. ASSUME NEW j \in RefreshIds, ValidateStart(p, j) \/ RevokeStart(p, j)
      PROVE  TokenInv' /\ Monotone
  <2>1. Handed(j) /\ refreshJwt[j] \in Claims
    BY <1>1 DEF ValidateStart, RevokeStart, Handed
  <2>2. PICK op \in {"validate", "revoke"}, pc \in {"get", "del", "done"},
             res \in {"none", "refused"} :
          tcall' = [tcall EXCEPT ![p] = NewCall(op, pc, refreshJwt[j], j, {}, res)]
    BY <1>1 DEF ValidateStart, RevokeStart, Enter, EnterRefused, NewCall
  <2> DEFINE c == NewCall(op, pc, refreshJwt[j], j, {}, res)
  <2>3. c \in Call /\ InOrder(c) /\ c.pc \notin {"set", "sadd"}
    BY <2>1 DEF Call, NewCall, InOrder, Handed
  <2>4. UNCHANGED <<refreshJwt, expired, sessions, index, revokedAccess>>
    BY <1>1 DEF ValidateStart, RevokeStart
  <2> HIDE DEF c
  <2>5. QED
    BY <2>2, <2>3, <2>4, CallReplaced DEF c
<1>2. ASSUME NEW n \in Names, RevokeAllStart(p, n)
      PROVE  TokenInv' /\ Monotone
  <2> DEFINE k == [sub |-> n, tv |-> 0]
             c == NewCall("revokeAll", "smembers", k, NoToken,
                          Established(n), "none")
  <2>1. tcall' = [tcall EXCEPT ![p] = c]
    BY <1>2 DEF RevokeAllStart, Enter, NewCall
  <2>2. k \in Claims /\ Established(n) \in SUBSET RefreshIds
    BY DEF Claims, Established
  <2> HIDE DEF k
  <2>3. c \in Call /\ InOrder(c) /\ c.pc \notin {"set", "sadd"}
    BY <2>2 DEF Call, NewCall, InOrder
  <2>4. UNCHANGED <<refreshJwt, expired, sessions, index, revokedAccess>>
    BY <1>2 DEF RevokeAllStart
  <2> HIDE DEF c
  <2>5. QED
    BY <2>1, <2>3, <2>4, CallReplaced
<1>3. ASSUME NEW a \in AccessIds, NEW k \in Claims,
             RevokeAccessStart(p, a, k) \/ IsRevokedStart(p, a, k)
      PROVE  TokenInv' /\ Monotone
  <2>1. PICK op \in {"revokeAccess", "isRevoked"}, pc \in {"black", "look"} :
          tcall' = [tcall EXCEPT ![p] = NewCall(op, pc, k, a, {}, "none")]
    BY <1>3 DEF RevokeAccessStart, IsRevokedStart, Enter, NewCall
  <2> DEFINE c == NewCall(op, pc, k, a, {}, "none")
  <2>2. c \in Call /\ InOrder(c) /\ c.pc \notin {"set", "sadd"}
    BY DEF Call, NewCall, InOrder
  <2>3. UNCHANGED <<refreshJwt, expired, sessions, index, revokedAccess>>
    BY <1>3 DEF RevokeAccessStart, IsRevokedStart
  <2> HIDE DEF c
  <2>4. QED
    BY <2>1, <2>2, <2>3, CallReplaced DEF c
<1>4. QED
  BY <1>1, <1>2, <1>3

\* Commands and returns of a call.
LEMMA Step_Inv ==
    ASSUME TokenInv, NEW p \in Procs, TokenStep(p) \/ TokenReturn(p)
    PROVE  TokenInv' /\ Monotone
<1> USE DEF TokenInv, TokenTypeOK
<1> DEFINE d == tcall[p]
<1>a. d.pc # "idle" => d \in Call
  BY DEF NoCall
<1>b. InOrder(d)
  BY DEF CallsMatchTokens
<1>1. CASE TokenReturn(p)
  <2>1. InOrder(NoCall) /\ NoCall.pc \notin {"set", "sadd"}
    BY DEF NoCall, InOrder
  <2>2. QED
    BY <1>1, <2>1, CallReplaced DEF TokenReturn
<1>2. CASE SetSession(p)
  <2> DEFINE c == [d EXCEPT !.pc = "sadd"]
  <2>1. /\ tcall' = [tcall EXCEPT ![p] = c]
        /\ sessions' = [sessions EXCEPT ![d.jti] = d.claims]
        /\ UNCHANGED <<refreshJwt, expired, index, revokedAccess>>
        /\ d.pc = "set" /\ d \in Call
    BY <1>a, <1>2 DEF SetSession, GoTo, At
  <2>2. /\ d.op = "issue" /\ d.jti \in RefreshIds /\ refreshJwt[d.jti] # NoToken
        /\ d.claims = refreshJwt[d.jti] /\ ~Handed(d.jti)
    BY <1>b, <2>1 DEF InOrder, Handed
  <2>3. /\ c \in Call /\ c.pc = "sadd" /\ c.op = "issue" /\ c.jti = d.jti
        /\ c.claims = d.claims
    BY <2>1, <2>2 DEF Call
  <2>4. sessions' \in [RefreshIds -> Claims \cup {NoToken}]
    BY <2>1, <2>2
  <2>5. \A j \in RefreshIds : sessions'[j] = IF j = d.jti THEN refreshJwt[j]
                                              ELSE sessions[j]
    BY <2>1, <2>2
  <2> HIDE DEF c, d
  <2>6. QED
    BY <2>1, <2>2, <2>3, <2>4, <2>5, Replaced DEF SessionMatchesToken
<1>3. CASE SAddSession(p)
  <2> DEFINE c == [d EXCEPT !.pc = "done", !.res = "ok"]
  <2>1. /\ tcall' = [tcall EXCEPT ![p] = c]
        /\ index' = [index EXCEPT ![d.claims.sub] = @ \cup {d.jti}]
        /\ UNCHANGED <<refreshJwt, expired, sessions, revokedAccess>>
        /\ d.pc = "sadd" /\ d \in Call
    BY <1>a, <1>3 DEF SAddSession, Finish, At
  <2>2. d.jti \in RefreshIds
    BY <1>b, <2>1 DEF InOrder
  <2>3. c \in Call /\ InOrder(c) /\ c.pc \notin {"set", "sadd"}
    BY <2>1 DEF Call, InOrder
  <2>4. index' \in [Names -> SUBSET RefreshIds]
    BY <2>1, <2>2
  <2> HIDE DEF c, d
  <2>5. QED
    BY <2>1, <2>3, <2>4, CallReplaced
<1>4. CASE GetSession(p)
  <2> DEFINE r == IF sessions[d.jti] = d.claims THEN "ok" ELSE "refused"
             c == [d EXCEPT !.pc = "done", !.res = r]
  <2>1. /\ tcall' = [tcall EXCEPT ![p] = c]
        /\ UNCHANGED <<refreshJwt, expired, sessions, index, revokedAccess>>
        /\ d.pc = "get" /\ d \in Call
    BY <1>a, <1>4 DEF GetSession, Finish, At
  <2>2. c \in Call /\ InOrder(c) /\ c.pc \notin {"set", "sadd"}
    BY <2>1 DEF Call, InOrder
  <2> HIDE DEF c, d
  <2>3. QED
    BY <2>1, <2>2, CallReplaced
<1>5. CASE DelSession(p)
  <2> DEFINE c == [d EXCEPT !.pc = "srem"]
  <2>1. /\ tcall' = [tcall EXCEPT ![p] = c]
        /\ sessions' = [sessions EXCEPT ![d.jti] = NoToken]
        /\ UNCHANGED <<refreshJwt, expired, index, revokedAccess>>
        /\ d.pc = "del" /\ d \in Call
    BY <1>a, <1>5 DEF DelSession, GoTo, At
  <2>2. /\ d.jti \in RefreshIds /\ refreshJwt[d.jti] # NoToken
        /\ d.claims = refreshJwt[d.jti] /\ Handed(d.jti)
    BY <1>b, <2>1 DEF InOrder
  <2>3. c \in Call /\ c.pc = "srem" /\ c.jti = d.jti /\ c.claims = d.claims
    BY <2>1 DEF Call
  <2>4. sessions' \in [RefreshIds -> Claims \cup {NoToken}]
    BY <2>1
  <2>5. \A j \in RefreshIds : sessions'[j] = IF j = d.jti THEN NoToken
                                              ELSE sessions[j]
    BY <2>1
  <2> HIDE DEF c, d
  <2>6. QED
    BY <2>1, <2>2, <2>3, <2>4, <2>5, Replaced DEF SessionMatchesToken
<1>6. CASE SRemSession(p)
  <2> DEFINE c == [d EXCEPT !.pc = "done", !.res = "ok"]
  <2>1. /\ tcall' = [tcall EXCEPT ![p] = c]
        /\ index' \in [Names -> SUBSET RefreshIds]
        /\ UNCHANGED <<refreshJwt, expired, sessions, revokedAccess>>
        /\ d.pc = "srem" /\ d \in Call
    BY <1>a, <1>6 DEF SRemSession, Finish, At
  <2>2. c \in Call /\ InOrder(c) /\ c.pc \notin {"set", "sadd"}
    BY <2>1 DEF Call, InOrder
  <2> HIDE DEF c, d
  <2>3. QED
    BY <2>1, <2>2, CallReplaced
<1>7. CASE SMembers(p)
  <2> DEFINE t == index[d.claims.sub]
             to == IF t = {} THEN "delindex" ELSE "dels"
             c == [d EXCEPT !.todo = t, !.pc = to]
  <2>1. /\ tcall' = [tcall EXCEPT ![p] = c]
        /\ UNCHANGED <<refreshJwt, expired, sessions, index, revokedAccess>>
        /\ d.pc = "smembers" /\ d \in Call
    BY <1>a, <1>7 DEF SMembers, At
  <2>2. t \in SUBSET RefreshIds /\ to \in {"delindex", "dels"}
    BY <2>1 DEF Call, Claims
  <2> HIDE DEF t, to
  <2>3. c \in Call /\ InOrder(c) /\ c.pc \notin {"set", "sadd"}
    BY <2>1, <2>2 DEF Call, InOrder
  <2> HIDE DEF c, d
  <2>4. QED
    BY <2>1, <2>3, CallReplaced
<1>8. CASE DelMember(p)
  <2>1. PICK j \in d.todo :
          /\ sessions' = [sessions EXCEPT ![j] = NoToken]
          /\ tcall' = [tcall EXCEPT
               ![p].todo = @ \ {j},
               ![p].pc = IF tcall[p].todo = {j} THEN "delindex" ELSE "dels"]
    BY <1>8 DEF DelMember
  <2> DEFINE t == d.todo \ {j}
             to == IF d.todo = {j} THEN "delindex" ELSE "dels"
             c == [d EXCEPT !.todo = t, !.pc = to]
  <2>2. /\ tcall' = [tcall EXCEPT ![p] = c]
        /\ UNCHANGED <<refreshJwt, expired, index, revokedAccess>>
        /\ d.pc = "dels" /\ d \in Call
    BY <1>a, <1>8, <2>1 DEF DelMember, At
  <2>3. t \in SUBSET RefreshIds /\ to \in {"delindex", "dels"} /\ j \in RefreshIds
    BY <2>2 DEF Call
  <2> HIDE DEF t, to
  <2>4. c \in Call /\ c.pc \in {"delindex", "dels"}
    BY <2>2, <2>3 DEF Call
  <2>5. sessions' \in [RefreshIds -> Claims \cup {NoToken}]
    BY <2>1
  <2>6. \A i \in RefreshIds : sessions'[i] = IF i = j THEN NoToken
                                              ELSE sessions[i]
    BY <2>1
  <2> HIDE DEF c, d
  <2>7. QED
    BY <2>2, <2>4, <2>5, <2>6, Replaced DEF SessionMatchesToken
<1>9. CASE DelIndex(p)
  <2> DEFINE c == [d EXCEPT !.pc = "done", !.res = "ok"]
  <2>1. /\ tcall' = [tcall EXCEPT ![p] = c]
        /\ index' \in [Names -> SUBSET RefreshIds]
        /\ UNCHANGED <<refreshJwt, expired, sessions, revokedAccess>>
        /\ d.pc = "delindex" /\ d \in Call
    BY <1>a, <1>9 DEF DelIndex, Finish, At
  <2>2. c \in Call /\ InOrder(c) /\ c.pc \notin {"set", "sadd"}
    BY <2>1 DEF Call, InOrder
  <2> HIDE DEF c, d
  <2>3. QED
    BY <2>1, <2>2, CallReplaced
<1>10. CASE BlackList(p)
  <2> DEFINE c == [d EXCEPT !.pc = "done", !.res = "ok"]
  <2>1. /\ tcall' = [tcall EXCEPT ![p] = c]
        /\ revokedAccess' = revokedAccess \cup {d.jti}
        /\ UNCHANGED <<refreshJwt, expired, sessions, index>>
        /\ d.pc = "black" /\ d \in Call
    BY <1>a, <1>10 DEF BlackList, Finish, At
  <2>2. d.jti \in AccessIds
    BY <1>b, <2>1 DEF InOrder
  <2>3. c \in Call /\ InOrder(c) /\ c.pc \notin {"set", "sadd"}
    BY <2>1 DEF Call, InOrder
  <2> HIDE DEF c, d
  <2>4. QED
    BY <2>1, <2>2, <2>3, CallReplaced
<1>11. CASE LookUp(p)
  <2> DEFINE r == IF d.jti \in revokedAccess THEN "refused" ELSE "ok"
             c == [d EXCEPT !.pc = "done", !.res = r]
  <2>1. /\ tcall' = [tcall EXCEPT ![p] = c]
        /\ UNCHANGED <<refreshJwt, expired, sessions, index, revokedAccess>>
        /\ d.pc = "look" /\ d \in Call
    BY <1>a, <1>11 DEF LookUp, Finish, At
  <2>2. c \in Call /\ InOrder(c) /\ c.pc \notin {"set", "sadd"}
    BY <2>1 DEF Call, InOrder
  <2> HIDE DEF c, d
  <2>3. QED
    BY <2>1, <2>2, CallReplaced
<1>12. QED
  BY <1>1, <1>2, <1>3, <1>4, <1>5, <1>6, <1>7, <1>8, <1>9, <1>10, <1>11
     DEF TokenStep

\* Time passes.
LEMMA Time_Inv ==
    ASSUME TokenInv, NEW j \in RefreshIds, SessionExpires(j) \/ JwtExpires(j)
    PROVE  TokenInv' /\ Monotone
<1>1. /\ UNCHANGED <<refreshJwt, index, revokedAccess, tcall>>
      /\ expired' \in SUBSET RefreshIds
      /\ sessions' \in [RefreshIds -> Claims \cup {NoToken}]
      /\ \A i \in RefreshIds : sessions'[i] \in {sessions[i], NoToken}
  BY DEF SessionExpires, JwtExpires, TokenInv, TokenTypeOK
<1>2. \A i \in RefreshIds : Handed(i)' <=> Handed(i)
  BY <1>1 DEF Handed
<1>3. ASSUME NEW q \in Procs
      PROVE  InOrder(tcall[q])'
  BY <1>1, <1>2 DEF InOrder, TokenInv, CallsMatchTokens
<1>4. QED
  BY <1>1, <1>2, <1>3 DEF TokenInv, TokenTypeOK, SessionMatchesToken,
                          CallsMatchTokens, Monotone

LEMMA TokenNext_Inv ==
    TokenInv /\ [TokenNext]_tvars => TokenInv' /\ Monotone
<1> SUFFICES ASSUME TokenInv, [TokenNext]_tvars
             PROVE  TokenInv' /\ Monotone
  OBVIOUS
<1>1. CASE UNCHANGED tvars
  BY <1>1 DEF tvars, TokenInv, TokenTypeOK, SessionMatchesToken,
              CallsMatchTokens, InOrder, Handed, Monotone
<1>2. ASSUME NEW p \in Procs, TokenBegin(p)
      PROVE  TokenInv' /\ Monotone
  <2>1. \A n \in Names : [sub |-> n, tv |-> 0] \in Claims
    BY DEF Claims
  <2>2. \A v \in 0..VersionBound : v \in Nat
    OBVIOUS
  <2>3. QED
    BY <1>2, <2>1, <2>2, Issue_Inv, Start_Inv DEF TokenBegin
<1>3. ASSUME NEW p \in Procs, TokenReturn(p) \/ TokenStep(p)
      PROVE  TokenInv' /\ Monotone
  BY <1>3, Step_Inv
<1>4. ASSUME NEW j \in RefreshIds, SessionExpires(j) \/ JwtExpires(j)
      PROVE  TokenInv' /\ Monotone
  BY <1>4, Time_Inv
<1>5. QED
  BY <1>1, <1>2, <1>3, <1>4 DEF TokenNext

\* TokenSessions is type correct however its calls interleave
\* (token_session_service.py:62-152).
THEOREM TokenTypeCorrect == TokenSpec => []TokenTypeOK
<1>1. TokenInv => TokenTypeOK
  BY DEF TokenInv
<1>2. QED
  BY <1>1, TokenInit_Inv, TokenNext_Inv, PTL DEF TokenSpec

\* However calls overlap, a session that a client's token had and that has
\* ended is never active again (token_session_service.py:112-152).
THEOREM EndedStaysEndedHolds == TokenSpec => EndedStaysEnded
<1>1. TokenInv /\ [TokenNext]_tvars
      => [\A j \in RefreshIds : Over(j) => Over(j)']_tvars
  BY TokenNext_Inv DEF Over, Monotone
<1>2. QED
  BY <1>1, TokenInit_Inv, TokenNext_Inv, PTL DEF TokenSpec, EndedStaysEnded

-----------------------------------------------------------------------------
(* Sweeps that no issue overlaps *)

SweepInv == SweepsExclude /\ LiveIsIndexed /\ SweepsProgress

\* A call at one of its commands is a call.
LEMMA AtCommand ==
    ASSUME TokenInv, NEW p \in Procs, tcall[p].pc # "idle"
    PROVE  tcall[p] \in Call /\ tcall[p].claims.sub \in Names
  BY DEF TokenInv, TokenTypeOK, NoCall, Call, Claims

\* p's call goes from d to c, without starting an issue or a sweep: the
\* exclusion of the two is kept.
LEMMA Exclude_Kept ==
    ASSUME TokenInv, SweepsExclude, NEW p \in Procs,
           \A q \in Procs \ {p} : tcall'[q] = tcall[q],
           \A n \in Names : Sweeping(p, n)' => Sweeping(p, n),
           \A n \in Names : Issuing(p, n)' => Issuing(p, n)
    PROVE  SweepsExclude'
<1>1. \A q \in Procs, n \in Names :
        (Sweeping(q, n)' => Sweeping(q, n)) /\ (Issuing(q, n)' => Issuing(q, n))
  BY DEF Sweeping, Issuing
<1>2. QED
  BY <1>1 DEF SweepsExclude

\* A sweep that is not p's stays where it is when no session of its user
\* appears.
LEMMA Sweep_Kept ==
    ASSUME TokenInv, TokenInv', Monotone, SweepsProgress, NEW q \in Procs,
           tcall'[q] = tcall[q],
           \A j \in RefreshIds :
               /\ sessions'[j] # NoToken
               /\ tcall[q].pc \in {"dels", "delindex"}
               => sessions[j] # NoToken \/ sessions'[j].sub # tcall[q].claims.sub
    PROVE  Sweep(q)'
<1>1. Sweep(q)
  BY DEF SweepsProgress
<1>2. \A j \in RefreshIds : sessions[j] # NoToken /\ sessions'[j] # NoToken
                             => sessions'[j] = sessions[j]
  BY DEF TokenInv, TokenTypeOK, SessionMatchesToken, Monotone
<1>3. CASE tcall[q].pc = "idle"
  BY <1>3 DEF Sweep
<1>4. CASE tcall[q].pc # "idle"
  <2>1. tcall[q].old \subseteq RefreshIds
    BY <1>4, AtCommand DEF Call
  <2>2. ASSUME NEW j \in tcall[q].old
        PROVE  /\ Handed(j)'
               /\ refreshJwt'[j].sub = tcall[q].claims.sub
               /\ tcall[q].pc = "done" => sessions'[j] = NoToken
    BY <1>1, <1>4, <2>1, <2>2 DEF Sweep, Monotone, Handed
  <2>3. tcall[q].pc \in {"dels", "delindex"} =>
          (LiveOf(tcall[q].claims.sub))' \subseteq LiveOf(tcall[q].claims.sub)
    BY <1>2 DEF LiveOf
  <2>4. /\ tcall[q].pc = "dels" => (LiveOf(tcall[q].claims.sub))' \subseteq tcall[q].todo
        /\ tcall[q].pc = "delindex" => (LiveOf(tcall[q].claims.sub))' = {}
    BY <1>1, <2>3 DEF Sweep
  <2>5. tcall[q].pc \in {"set", "sadd", "get", "del", "srem", "black", "look"}
        => tcall[q].old = {}
    BY <1>1 DEF Sweep
  <2>6. QED
    BY <2>2, <2>4, <2>5 DEF Sweep
<1>5. QED
  BY <1>3, <1>4

\* What the start of a call leaves alone, and the call it starts.
LEMMA Begin_Shape ==
    ASSUME NEW p \in Procs, TokenBegin(p), TokenInv
    PROVE  /\ Ready(p)
           /\ UNCHANGED <<expired, sessions, index, revokedAccess>>
           /\ \A q \in Procs \ {p} : tcall'[q] = tcall[q]
           /\ tcall'[p].pc \in {"set", "get", "del", "smembers", "black",
                                "look", "done"}
           /\ \/ tcall'[p].old = {} /\ tcall'[p].pc # "smembers"
              \/ /\ tcall'[p].pc = "smembers"
                 /\ tcall'[p].old = Established(tcall'[p].claims.sub)
                 /\ Overlap \/ \A q \in Procs : ~Issuing(q, tcall'[p].claims.sub)
           /\ tcall'[p].pc = "set" =>
                Overlap \/ \A q \in Procs : ~Sweeping(q, tcall'[p].claims.sub)
<1> USE DEF TokenInv, TokenTypeOK
<1>1. ASSUME NEW n \in Names, NEW v \in 0..VersionBound, IssueStart(p, n, v)
      PROVE  /\ Ready(p)
             /\ UNCHANGED <<expired, sessions, index, revokedAccess>>
             /\ \A q \in Procs \ {p} : tcall'[q] = tcall[q]
             /\ tcall'[p].pc = "set" /\ tcall'[p].old = {}
             /\ tcall'[p].claims.sub = n
             /\ Overlap \/ \A q \in Procs : ~Sweeping(q, n)
  BY <1>1 DEF IssueStart, Enter
<1>2. ASSUME NEW n \in Names, RevokeAllStart(p, n)
      PROVE  /\ Ready(p)
             /\ UNCHANGED <<expired, sessions, index, revokedAccess>>
             /\ \A q \in Procs \ {p} : tcall'[q] = tcall[q]
             /\ tcall'[p].pc = "smembers" /\ tcall'[p].old = Established(n)
             /\ tcall'[p].claims.sub = n
             /\ Overlap \/ \A q \in Procs : ~Issuing(q, n)
  BY <1>2 DEF RevokeAllStart, Enter
<1>3. ASSUME NEW j \in RefreshIds, ValidateStart(p, j) \/ RevokeStart(p, j)
      PROVE  /\ Ready(p)
             /\ UNCHANGED <<expired, sessions, index, revokedAccess>>
             /\ \A q \in Procs \ {p} : tcall'[q] = tcall[q]
             /\ tcall'[p].pc \in {"get", "del", "done"} /\ tcall'[p].old = {}
  BY <1>3 DEF ValidateStart, RevokeStart, Enter, EnterRefused
<1>4. ASSUME NEW a \in AccessIds, NEW n \in Names,
             \/ RevokeAccessStart(p, a, [sub |-> n, tv |-> 0])
             \/ IsRevokedStart(p, a, [sub |-> n, tv |-> 0])
      PROVE  /\ Ready(p)
             /\ UNCHANGED <<expired, sessions, index, revokedAccess>>
             /\ \A q \in Procs \ {p} : tcall'[q] = tcall[q]
             /\ tcall'[p].pc \in {"black", "look"} /\ tcall'[p].old = {}
  BY <1>4 DEF RevokeAccessStart, IsRevokedStart, Enter
<1>5. QED
  BY <1>1, <1>2, <1>3, <1>4 DEF TokenBegin

LEMMA Sweep_Begin ==
    ASSUME ~Overlap, TokenInv, TokenInv', Monotone, SweepInv,
           NEW p \in Procs, TokenBegin(p)
    PROVE  SweepInv'
<1>1. SweepsExclude'
  <2> SUFFICES ASSUME NEW q \in Procs, NEW r \in Procs, NEW n \in Names,
                      Sweeping(q, n)', Issuing(r, n)'
               PROVE  FALSE
    BY DEF SweepsExclude
  <2>1. \A s \in Procs \ {p} : (Sweeping(s, n)' => Sweeping(s, n))
                              /\ (Issuing(s, n)' => Issuing(s, n))
    BY Begin_Shape DEF Sweeping, Issuing
  <2>2. CASE q # p /\ r # p
    BY <2>1, <2>2 DEF SweepInv, SweepsExclude
  <2>3. CASE q = p
    <3>1. tcall'[p].pc = "smembers" /\ tcall'[p].claims.sub = n
      BY <2>3, Begin_Shape DEF Sweeping
    <3>2. QED
      BY <2>1, <3>1, Begin_Shape DEF Issuing
  <2>4. CASE r = p
    <3>1. tcall'[p].pc = "set" /\ tcall'[p].claims.sub = n
      BY <2>4, Begin_Shape DEF Issuing
    <3>2. QED
      BY <2>1, <3>1, Begin_Shape DEF Sweeping
  <2>5. QED
    BY <2>2, <2>3, <2>4
<1>2. LiveIsIndexed'
  BY Begin_Shape DEF SweepInv, LiveIsIndexed, At, Ready
<1>3. ASSUME NEW q \in Procs
      PROVE  Sweep(q)'
  <2>1. CASE q # p
    BY <2>1, Begin_Shape, Sweep_Kept DEF SweepInv
  <2>2. CASE q = p
    <3>1. CASE tcall'[p].old = {}
      BY <2>2, <3>1, Begin_Shape DEF Sweep
    <3>2. CASE /\ tcall'[p].pc = "smembers"
               /\ tcall'[p].old = Established(tcall'[p].claims.sub)
      BY <2>2, <3>2 DEF Sweep, Established, Monotone, Handed
    <3>3. QED
      BY <3>1, <3>2, Begin_Shape
  <2>3. QED
    BY <2>1, <2>2
<1>4. QED
  BY <1>1, <1>2, <1>3 DEF SweepInv, SweepsProgress

\* What the commands of a call do to it: where it goes, and that it keeps
\* whom it is about and what it has to end.
LEMMA Step_Shape ==
    ASSUME TokenInv, NEW p \in Procs, TokenStep(p)
    PROVE  /\ \A q \in Procs \ {p} : tcall'[q] = tcall[q]
           /\ tcall[p] \in Call
           /\ tcall'[p].claims = tcall[p].claims
           /\ tcall'[p].old = tcall[p].old
           /\ tcall'[p].jti = tcall[p].jti
           /\ tcall[p].pc = "set" => tcall'[p].pc = "sadd"
           /\ tcall[p].pc \in {"sadd", "get", "srem", "delindex", "black", "look"}
              => tcall'[p].pc = "done"
           /\ tcall[p].pc = "del" => tcall'[p].pc = "srem"
           /\ tcall[p].pc \in {"smembers", "dels"}
              => tcall'[p].pc \in {"dels", "delindex"}
           /\ tcall[p].pc \notin {"idle", "done"}
<1> USE DEF TokenInv, TokenTypeOK
<1>1. tcall[p].pc \notin {"idle", "done"}
  BY DEF TokenStep, At, SetSession, SAddSession, GetSession, DelSession,
         SRemSession, SMembers, DelMember, DelIndex, BlackList, LookUp
<1>2. tcall[p] \in Call
  BY <1>1, AtCommand
<1>3. CASE SetSession(p) \/ DelSession(p)
  BY <1>2, <1>3 DEF SetSession, DelSession, GoTo, At, Call
<1>4. CASE \/ SAddSession(p) \/ GetSession(p) \/ SRemSession(p)
           \/ DelIndex(p) \/ BlackList(p) \/ LookUp(p)
  BY <1>2, <1>4 DEF SAddSession, GetSession, SRemSession, DelIndex, BlackList,
                    LookUp, Finish, At, Call
<1>5. CASE SMembers(p)
  BY <1>2, <1>5 DEF SMembers, At, Call
<1>6. CASE DelMember(p)
  BY <1>2, <1>6 DEF DelMember, At, Call
<1>7. QED
  BY <1>1, <1>2, <1>3, <1>4, <1>5, <1>6 DEF TokenStep

\* A step creates a session only by SetSession, and moves p's own sweep on
\* only by SMembers, DelMember and DelIndex.
LEMMA Sweep_Others ==
    ASSUME TokenInv, TokenInv', Monotone, SweepInv, NEW p \in Procs,
           TokenStep(p), NEW q \in Procs, q # p
    PROVE  Sweep(q)'
<1>1. tcall'[q] = tcall[q]
  BY Step_Shape
<1>2. CASE SetSession(p)
  <2>1. \A j \in RefreshIds : sessions'[j] # NoToken =>
          sessions[j] # NoToken \/ (j = tcall[p].jti /\ sessions'[j] = tcall[p].claims)
    BY <1>2 DEF SetSession, TokenInv, TokenTypeOK
  <2>2. /\ tcall[p].claims.sub \in Names
        /\ Issuing(p, tcall[p].claims.sub)
    BY <1>2, AtCommand DEF SetSession, At, Issuing
  <2>3. tcall[q].pc \in {"dels", "delindex"} =>
          tcall[q].claims.sub # tcall[p].claims.sub
    BY <2>2 DEF SweepInv, SweepsExclude, Sweeping
  <2>4. QED
    BY <1>1, <2>1, <2>3, Sweep_Kept DEF SweepInv
<1>3. CASE ~SetSession(p)
  <2>1. \A j \in RefreshIds : sessions'[j] # NoToken => sessions[j] # NoToken
    BY <1>3 DEF TokenStep, SAddSession, GetSession, DelSession, SRemSession,
                SMembers, DelMember, DelIndex, BlackList, LookUp,
                TokenInv, TokenTypeOK
  <2>2. QED
    BY <1>1, <2>1, Sweep_Kept DEF SweepInv
<1>4. QED
  BY <1>2, <1>3

\* p's own sweep.
LEMMA Sweep_Own ==
    ASSUME TokenInv, TokenInv', Monotone, SweepInv, NEW p \in Procs, TokenStep(p)
    PROVE  Sweep(p)'
<1> DEFINE n == tcall[p].claims.sub
<1>a. tcall[p].old \subseteq RefreshIds /\ n \in Names
  BY Step_Shape, AtCommand DEF Call
<1>b. Sweep(p)
  BY DEF SweepInv, SweepsProgress
<1>c. tcall[p].pc # "idle" /\ tcall'[p].claims.sub = n /\ tcall'[p].old = tcall[p].old
  BY Step_Shape
<1>1. \A j \in tcall'[p].old : /\ Handed(j)'
                              /\ refreshJwt'[j].sub = tcall'[p].claims.sub
  BY <1>a, <1>b, <1>c DEF Sweep, Monotone, Handed
<1>2. \A j \in RefreshIds : sessions[j] # NoToken /\ sessions'[j] # NoToken
                             => sessions'[j] = sessions[j]
  BY DEF TokenInv, TokenTypeOK, SessionMatchesToken, Monotone
<1>3. CASE SMembers(p)
  <2>1. /\ tcall'[p].pc \in {"dels", "delindex"}
        /\ tcall'[p].pc = "dels" => tcall'[p].todo = index[n]
        /\ tcall'[p].pc = "delindex" => index[n] = {}
        /\ sessions' = sessions /\ Sweeping(p, n)
    BY <1>3, Step_Shape DEF SMembers, At, Call, Sweeping, TokenInv, TokenTypeOK
  <2>2. LiveOf(n) \subseteq index[n]
    <3> SUFFICES ASSUME NEW j \in RefreshIds, sessions[j] # NoToken,
                        sessions[j].sub = n
                 PROVE  j \in index[n]
      BY DEF LiveOf
    <3>1. CASE j \in index[sessions[j].sub]
      BY <3>1
    <3>2. ASSUME NEW q \in Procs, At(q, "sadd"), tcall[q].jti = j
          PROVE  FALSE
      <4>1. tcall[q].claims = refreshJwt[j]
        BY <3>2 DEF TokenInv, CallsMatchTokens, InOrder, At
      <4>2. Issuing(q, n)
        BY <3>2, <4>1 DEF Issuing, At, TokenInv, SessionMatchesToken
      <4>3. QED
        BY <1>a, <2>1, <4>2 DEF SweepInv, SweepsExclude
    <3>3. QED
      BY <3>1, <3>2 DEF SweepInv, LiveIsIndexed
  <2>3. (LiveOf(n))' = LiveOf(tcall'[p].claims.sub)
    BY <1>c, <2>1 DEF LiveOf
  <2>4. QED
    BY <1>1, <1>c, <2>1, <2>2 DEF Sweep, LiveOf
<1>4. CASE DelMember(p)
  <2>1. PICK i \in tcall[p].todo :
          /\ sessions' = [sessions EXCEPT ![i] = NoToken]
          /\ tcall' = [tcall EXCEPT
               ![p].todo = @ \ {i},
               ![p].pc = IF tcall[p].todo = {i} THEN "delindex" ELSE "dels"]
    BY <1>4 DEF DelMember
  <2>2. /\ tcall[p].pc = "dels" /\ tcall[p].todo \subseteq RefreshIds
        /\ tcall'[p].pc \in {"dels", "delindex"}
        /\ tcall'[p].pc = "dels" => tcall'[p].todo = tcall[p].todo \ {i}
        /\ tcall'[p].pc = "delindex" => tcall[p].todo = {i}
    <3> DEFINE t == tcall[p].todo \ {i}
               to == IF tcall[p].todo = {i} THEN "delindex" ELSE "dels"
    <3>1. tcall[p].pc = "dels" /\ tcall[p] \in Call
      BY <1>4, Step_Shape DEF DelMember, At
    <3>2. tcall'[p] = [tcall[p] EXCEPT !.todo = t, !.pc = to]
      BY <2>1, <3>1 DEF TokenInv, TokenTypeOK
    <3>3. /\ to \in {"delindex", "dels"}
          /\ to = "delindex" => tcall[p].todo = {i}
      OBVIOUS
    <3> HIDE DEF t, to
    <3>4. tcall'[p].todo = t /\ tcall'[p].pc = to
      BY <3>1, <3>2 DEF Call
    <3>5. tcall[p].todo \subseteq RefreshIds
      BY <3>1 DEF Call
    <3>6. QED
      BY <3>1, <3>3, <3>4, <3>5 DEF t
  <2>3. \A j \in RefreshIds : sessions'[j] # NoToken /\ sessions'[j].sub = n
                               => j \in tcall[p].todo \ {i}
    BY <1>b, <2>1, <2>2 DEF Sweep, LiveOf, TokenInv, TokenTypeOK
  <2>4. QED
    BY <1>1, <1>c, <2>2, <2>3 DEF Sweep, LiveOf
<1>5. CASE DelIndex(p)
  <2>1. tcall[p].pc = "delindex" /\ tcall'[p].pc = "done" /\ sessions' = sessions
    BY <1>5, Step_Shape DEF DelIndex, At
  <2>2. ASSUME NEW j \in tcall[p].old, sessions[j] # NoToken
        PROVE  FALSE
    <3>1. j \in RefreshIds /\ refreshJwt[j].sub = n
      BY <1>a, <1>b, <2>1 DEF Sweep
    <3>2. j \in LiveOf(n)
      BY <2>2, <3>1 DEF LiveOf, TokenInv, SessionMatchesToken
    <3>3. QED
      BY <1>b, <2>1, <3>2 DEF Sweep
  <2>3. QED
    BY <1>1, <1>c, <2>1, <2>2 DEF Sweep
<1>6. CASE SetSession(p) \/ DelSession(p)
  <2>1. tcall[p].pc \in {"set", "del"} /\ tcall'[p].pc \in {"sadd", "srem"}
    BY <1>6, Step_Shape DEF SetSession, DelSession, At
  <2>2. QED
    BY <1>b, <1>c, <2>1 DEF Sweep
<1>7. CASE SAddSession(p) \/ GetSession(p) \/ SRemSession(p) \/ BlackList(p) \/ LookUp(p)
  <2>1. /\ tcall[p].pc \in {"sadd", "get", "srem", "black", "look"}
        /\ tcall'[p].pc = "done"
    BY <1>7, Step_Shape DEF SAddSession, GetSession, SRemSession, BlackList,
                            LookUp, At
  <2>2. QED
    BY <1>b, <1>c, <2>1 DEF Sweep
<1>8. QED
  BY <1>3, <1>4, <1>5, <1>6, <1>7 DEF TokenStep

\* A session that stays live keeps its index entry or its coming SADD.
LEMMA Live_Step ==
    ASSUME TokenInv, TokenInv', Monotone, SweepInv, NEW p \in Procs, TokenStep(p)
    PROVE  LiveIsIndexed'
<1> SUFFICES ASSUME NEW j \in RefreshIds, sessions'[j] # NoToken
             PROVE  \/ j \in index'[sessions'[j].sub]
                    \/ \E q \in Procs : tcall'[q].pc = "sadd" /\ tcall'[q].jti = j
  BY DEF LiveIsIndexed, At
<1> DEFINE d == tcall[p]
<1>a. d \in Call /\ d.claims.sub \in Names
  BY Step_Shape, AtCommand
<1>b. \A q \in Procs : q # p => tcall'[q] = tcall[q]
  BY Step_Shape
<1>1. CASE SetSession(p) /\ j = d.jti
  BY <1>1, Step_Shape DEF SetSession, At
<1>2. CASE ~(SetSession(p) /\ j = d.jti)
  <2>1. sessions[j] = sessions'[j]
    <3>1. CASE SetSession(p)
      BY <1>2, <3>1 DEF SetSession, TokenInv, TokenTypeOK
    <3>2. CASE DelSession(p) \/ DelMember(p)
      BY <3>2 DEF DelSession, DelMember, TokenInv, TokenTypeOK
    <3>3. QED
      BY <3>1, <3>2 DEF TokenStep, SAddSession, GetSession, SRemSession,
                        SMembers, DelIndex, BlackList, LookUp
  <2>2. \/ j \in index[sessions[j].sub]
        \/ \E q \in Procs : tcall[q].pc = "sadd" /\ tcall[q].jti = j
    BY <2>1 DEF SweepInv, LiveIsIndexed, At
  <2>3. sessions[j] \in Claims /\ sessions[j].sub \in Names
    BY <2>1 DEF TokenInv, TokenTypeOK, Claims
  <2>4. CASE SAddSession(p)
    <3>1. index' = [index EXCEPT ![d.claims.sub] = @ \cup {d.jti}]
      BY <2>4 DEF SAddSession
    <3>2. d.jti = j => sessions[j] = d.claims
      BY <2>1, <2>4 DEF SAddSession, At, TokenInv, SessionMatchesToken,
                        CallsMatchTokens, InOrder
    <3>3. index[sessions[j].sub] \subseteq index'[sessions[j].sub]
      BY <1>a, <2>3, <3>1 DEF TokenInv, TokenTypeOK
    <3>4. d.jti = j => j \in index'[sessions[j].sub]
      BY <1>a, <3>1, <3>2 DEF TokenInv, TokenTypeOK
    <3>5. QED
      BY <1>b, <2>1, <2>2, <3>3, <3>4
  <2>5. CASE SRemSession(p)
    <3>1. index' = [index EXCEPT ![d.claims.sub] = @ \ {d.jti}] /\ d.pc = "srem"
      BY <2>5 DEF SRemSession, At
    <3>2. sessions[d.jti] = NoToken
      BY <3>1 DEF TokenInv, CallsMatchTokens, InOrder
    <3>3. j \in index[sessions[j].sub] => j \in index'[sessions[j].sub]
      BY <2>1, <2>3, <3>1, <3>2 DEF TokenInv, TokenTypeOK
    <3>4. QED
      BY <1>b, <2>1, <2>2, <3>1, <3>3
  <2>6. CASE DelIndex(p)
    <3>1. index' = [index EXCEPT ![d.claims.sub] = {}] /\ d.pc = "delindex"
      BY <2>6 DEF DelIndex, At
    <3>2. sessions[j].sub # d.claims.sub
      <4>1. Sweep(p)
        BY DEF SweepInv, SweepsProgress
      <4>2. QED
        BY <2>1, <3>1, <4>1 DEF Sweep, LiveOf
    <3>3. index'[sessions[j].sub] = index[sessions[j].sub]
      BY <2>3, <3>1, <3>2 DEF TokenInv, TokenTypeOK
    <3>4. QED
      BY <1>b, <2>1, <2>2, <3>1, <3>3
  <2>7. CASE ~(SAddSession(p) \/ SRemSession(p) \/ DelIndex(p))
    <3>1. index' = index /\ d.pc # "sadd"
      BY <2>7 DEF TokenStep, SetSession, GetSession, DelSession, SMembers,
                  DelMember, BlackList, LookUp, At
    <3>2. QED
      BY <1>b, <2>1, <2>2, <3>1
  <2>8. QED
    BY <2>4, <2>5, <2>6, <2>7
<1>3. QED
  BY <1>1, <1>2

LEMMA Sweep_Step ==
    ASSUME TokenInv, TokenInv', Monotone, SweepInv, NEW p \in Procs, TokenStep(p)
    PROVE  SweepInv'
<1>1. SweepsExclude'
  <2>1. \A n \in Names : Sweeping(p, n)' => Sweeping(p, n)
    BY Step_Shape DEF Sweeping, Call
  <2>2. \A n \in Names : Issuing(p, n)' => Issuing(p, n)
    BY Step_Shape DEF Issuing, Call
  <2>3. QED
    BY <2>1, <2>2, Step_Shape, Exclude_Kept DEF SweepInv
<1>2. LiveIsIndexed'
  BY Live_Step
<1>3. SweepsProgress'
  BY Sweep_Own, Sweep_Others DEF SweepsProgress
<1>4. QED
  BY <1>1, <1>2, <1>3 DEF SweepInv

LEMMA Sweep_Return ==
    ASSUME TokenInv, TokenInv', Monotone, SweepInv, NEW p \in Procs, TokenReturn(p)
    PROVE  SweepInv'
<1>1. /\ tcall'[p] = NoCall /\ tcall[p].pc = "done"
      /\ \A q \in Procs \ {p} : tcall'[q] = tcall[q]
      /\ UNCHANGED <<refreshJwt, expired, sessions, index, revokedAccess>>
  BY DEF TokenReturn, At, TokenInv, TokenTypeOK
<1>2. SweepsExclude'
  BY <1>1, Exclude_Kept DEF SweepInv, Sweeping, Issuing, NoCall
<1>3. LiveIsIndexed'
  BY <1>1 DEF SweepInv, LiveIsIndexed, At
<1>4. ASSUME NEW q \in Procs
      PROVE  Sweep(q)'
  <2>1. CASE q = p
    BY <1>1, <2>1 DEF Sweep, NoCall
  <2>2. CASE q # p
    BY <1>1, <2>2, Sweep_Kept DEF SweepInv
  <2>3. QED
    BY <2>1, <2>2
<1>5. QED
  BY <1>2, <1>3, <1>4 DEF SweepInv, SweepsProgress

LEMMA Sweep_Time ==
    ASSUME TokenInv, TokenInv', Monotone, SweepInv, NEW j \in RefreshIds,
           SessionExpires(j) \/ JwtExpires(j)
    PROVE  SweepInv'
<1>1. /\ UNCHANGED <<refreshJwt, index, revokedAccess, tcall>>
      /\ \A i \in RefreshIds : sessions'[i] \in {sessions[i], NoToken}
  BY DEF SessionExpires, JwtExpires, TokenInv, TokenTypeOK
<1>2. SweepsExclude'
  BY <1>1 DEF SweepInv, SweepsExclude, Sweeping, Issuing
<1>3. LiveIsIndexed'
  BY <1>1 DEF SweepInv, LiveIsIndexed, At
<1>4. \A q \in Procs : Sweep(q)'
  BY <1>1, Sweep_Kept DEF SweepInv
<1>5. QED
  BY <1>2, <1>3, <1>4 DEF SweepInv, SweepsProgress

LEMMA SweepNext_Inv ==
    ASSUME ~Overlap
    PROVE  TokenInv /\ SweepInv /\ [TokenNext]_tvars => SweepInv'
<1> SUFFICES ASSUME TokenInv, SweepInv, [TokenNext]_tvars
             PROVE  SweepInv'
  OBVIOUS
<1>0. TokenInv' /\ Monotone
  BY TokenNext_Inv
<1>1. CASE UNCHANGED tvars
  BY <1>1 DEF tvars, SweepInv, SweepsExclude, LiveIsIndexed, SweepsProgress,
              Sweep, LiveOf, Handed, Sweeping, Issuing, At
<1>2. ASSUME NEW p \in Procs, TokenBegin(p)
      PROVE  SweepInv'
  BY <1>0, <1>2, Sweep_Begin
<1>3. ASSUME NEW p \in Procs, TokenReturn(p)
      PROVE  SweepInv'
  BY <1>0, <1>3, Sweep_Return
<1>4. ASSUME NEW p \in Procs, TokenStep(p)
      PROVE  SweepInv'
  BY <1>0, <1>4, Sweep_Step
<1>5. ASSUME NEW j \in RefreshIds, SessionExpires(j) \/ JwtExpires(j)
      PROVE  SweepInv'
  BY <1>0, <1>5, Sweep_Time
<1>6. QED
  BY <1>1, <1>2, <1>3, <1>4, <1>5 DEF TokenNext

LEMMA SweepInit_Inv == TokenInit => SweepInv
  BY DEF TokenInit, SweepInv, SweepsExclude, LiveIsIndexed, SweepsProgress,
         Sweep, Sweeping, NoCall

\* When no issue overlaps a sweep, a live session is always where the next
\* sweep will find it (token_session_service.py:112-152).
THEOREM LiveIsIndexedHolds ==
    ASSUME ~Overlap
    PROVE  TokenSpec => []LiveIsIndexed
<1>1. SweepInv => LiveIsIndexed
  BY DEF SweepInv
<1>2. TokenInv /\ SweepInv /\ [TokenNext]_tvars => SweepInv'
  BY SweepNext_Inv
<1>3. QED
  BY <1>1, <1>2, SweepInit_Inv, TokenInit_Inv, TokenNext_Inv, PTL DEF TokenSpec

\* ... and revoke_all_user_sessions, when it returns, has ended every session
\* of the user that was established when it was called, however many
\* validations, revocations and other sweeps ran meanwhile
\* (token_session_service.py:148-152).
THEOREM SweepIsCompleteHolds ==
    ASSUME ~Overlap
    PROVE  TokenSpec => []SweepIsComplete
<1>1. SweepInv => SweepIsComplete
  BY DEF SweepInv, SweepsProgress, Sweep, SweepIsComplete
<1>2. TokenInv /\ SweepInv /\ [TokenNext]_tvars => SweepInv'
  BY SweepNext_Inv
<1>3. QED
  BY <1>1, <1>2, SweepInit_Inv, TokenInit_Inv, TokenNext_Inv, PTL DEF TokenSpec
=============================================================================
