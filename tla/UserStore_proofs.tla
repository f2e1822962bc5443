-------------------------- MODULE UserStore_proofs --------------------------
(***************************************************************************)
(* Theorems about UserStore, for any number of coroutines, accounts,       *)
(* passwords and bounds.                                                   *)
(***************************************************************************)
EXTENDS UserStore, TLAPS

-----------------------------------------------------------------------------
(* The pure updates of a user record *)

\* What the pure updates return: a record of the same type.
LEMMA UpdatesKeepType ==
    ASSUME NEW u \in StoredUser
    PROVE  /\ \A pw \in Passwords : NewUser(pw) \in StoredUser
           /\ \A chg \in Change : Updated(u, chg) \in StoredUser
           /\ LoggedIn(u) \in StoredUser
           /\ FailedOnce(u) \in StoredUser
           /\ Versioned(u) \in StoredUser
           /\ Unlocked(u) \in StoredUser
<1> USE DEF StoredUser
<1>1. \A pw \in Passwords : NewUser(pw) \in StoredUser
  BY DEF NewUser
<1>2. ASSUME NEW chg \in Change
      PROVE  Updated(u, chg) \in StoredUser
  BY <1>2, RecordAssumption DEF Updated, Change
<1>3. LoggedIn(u) \in StoredUser
  BY DEF LoggedIn
<1>4. FailedOnce(u) \in StoredUser
  <2>1. u.fails + 1 \in Nat
    OBVIOUS
  <2>2. CASE u.fails + 1 >= MaxFailures
    <3>1. FailedOnce(u) = [u EXCEPT !.fails = u.fails + 1, !.locked = TRUE]
      BY <2>2, Zenon DEF FailedOnce
    <3>2. QED
      BY <2>1, <3>1
  <2>3. CASE ~(u.fails + 1 >= MaxFailures)
    <3>1. FailedOnce(u) = [u EXCEPT !.fails = u.fails + 1, !.locked = u.locked]
      BY <2>3, Zenon DEF FailedOnce
    <3>2. QED
      BY <2>1, <3>1
  <2>4. QED
    BY <2>2, <2>3
<1>5. Versioned(u) \in StoredUser
  BY DEF Versioned
<1>6. Unlocked(u) \in StoredUser
  BY DEF Unlocked
<1>7. QED
  BY <1>1, <1>2, <1>3, <1>4, <1>5, <1>6

LEMMA NewUserType == \A pw \in Passwords : NewUser(pw) \in StoredUser
  BY DEF NewUser, StoredUser

\* The record a call writes, from a record it has read, is a record again.
LEMMA WrittenKeepsType ==
    ASSUME NEW c, c.op \in Writers \ {"delete"}, c.chg \in Change,
           c.op = "create" => c.chg.pw \in Passwords,
           c.op # "create" => c.rec \in StoredUser
    PROVE  Written(c) \in StoredUser
<1>1. CASE c.op = "create"
  BY <1>1, NewUserType DEF Written
<1>2. CASE c.op = "update"
  BY <1>2, UpdatesKeepType DEF Written
<1>3. CASE c.op = "login"
  BY <1>3, UpdatesKeepType DEF Written
<1>4. CASE c.op = "fail"
  BY <1>4, UpdatesKeepType DEF Written
<1>5. CASE c.op = "bump"
  BY <1>5, UpdatesKeepType DEF Written
<1>6. QED
  BY <1>1, <1>2, <1>3, <1>4, <1>5 DEF Writers

-----------------------------------------------------------------------------
(* The calls *)

UserInv == UserTypeOK /\ CallsInOrder

\* The record a call is about to write is a record of the right type.
LEMMA WrittenType ==
    ASSUME UserInv, NEW p \in Procs, At(p, "set")
    PROVE  /\ ucall[p] \in Call
           /\ Written(ucall[p]) \in StoredUser
<1>1. ucall[p] \in Call
  BY DEF UserInv, UserTypeOK, At, NoCall
<1>2. /\ ucall[p].op \in Writers \ {"delete"} /\ ucall[p].chg \in Change
      /\ ucall[p].op = "create" => ucall[p].chg.pw \in Passwords
      /\ ucall[p].op # "create" => ucall[p].rec \in StoredUser
  BY <1>1 DEF UserInv, CallsInOrder, InOrder, At, Call
<1>3. QED
  BY <1>1, <1>2, WrittenKeepsType

LEMMA UserInit_Inv == UserInit => UserInv
  BY DEF UserInit, UserInv, UserTypeOK, CallsInOrder, InOrder, NoCall

\* Every step but the passing of time replaces one call; what is left to show
\* is that the new call is in order.
LEMMA CallReplaced ==
    ASSUME UserInv, NEW p \in Procs, NEW c \in Call \cup {NoCall}, InOrder(c),
           ucall' = [ucall EXCEPT ![p] = c],
           users' \in [Names -> StoredUser \cup {NoUser}],
           userIndex' \in SUBSET Names
    PROVE  UserInv'
<1>1. UserTypeOK'
  BY DEF UserInv, UserTypeOK
<1>2. ASSUME NEW q \in Procs
      PROVE  InOrder(ucall[q])'
  <2>1. ucall'[q] = IF q = p THEN c ELSE ucall[q]
    BY DEF UserInv, UserTypeOK
  <2>2. InOrder(ucall'[q])
    BY <2>1 DEF UserInv, CallsInOrder
  <2>3. QED
    BY <2>2 DEF InOrder
<1>3. QED
  BY <1>1, <1>2 DEF UserInv, CallsInOrder

LEMMA UserStart_Inv ==
    ASSUME UserInv, NEW p \in Procs, NEW op \in Writers \cup {"read"},
           NEW n \in Names, NEW chg \in Change,
           op = "create" => chg.pw \in Passwords,
           UserStart(p, op, n, chg)
    PROVE  UserInv'
<1> DEFINE c == [op |-> op, name |-> n, chg |-> chg, pc |-> "get",
                 rec |-> NoUser, res |-> "none"]
<1>1. c \in Call /\ InOrder(c)
  BY DEF Call, InOrder
<1>2. ucall' = [ucall EXCEPT ![p] = c] /\ UNCHANGED <<users, userIndex>>
  BY DEF UserStart
<1> HIDE DEF c
<1>3. QED
  BY <1>1, <1>2, CallReplaced DEF UserInv, UserTypeOK

\* The calls the standalone specification makes are calls with such arguments.
LEMMA UserBegin_Start ==
    ASSUME NEW p \in Procs, UserBegin(p)
    PROVE  \E op \in Writers \cup {"read"}, n \in Names, chg \in Change :
              /\ op = "create" => chg.pw \in Passwords
              /\ UserStart(p, op, n, chg)
<1>1. PICK n \in Names, op \in Writers \cup {"read"} :
        \E chg \in CASE op = "update" -> Change
                     [] op = "create" -> {[NoChange EXCEPT !.pw = pw] :
                                                    pw \in Passwords}
                     [] OTHER -> {NoChange} :
          UserStart(p, op, n, chg)
  BY DEF UserBegin
<1>2. CASE op = "update"
  BY <1>1, <1>2
<1>3. CASE op = "create"
  <2>1. PICK pw \in Passwords :
          UserStart(p, op, n, [NoChange EXCEPT !.pw = pw])
    BY <1>1, <1>3
  <2>2. /\ [NoChange EXCEPT !.pw = pw] \in Change
        /\ [NoChange EXCEPT !.pw = pw].pw \in Passwords
    BY DEF NoChange, Change
  <2>3. QED
    BY <2>1, <2>2
<1>4. CASE op \notin {"update", "create"}
  <2>1. UserStart(p, op, n, NoChange) /\ NoChange \in Change
    BY <1>1, <1>4 DEF NoChange, Change
  <2>2. QED
    BY <2>1, <1>4
<1>5. QED
  BY <1>2, <1>3, <1>4

\* Commands and returns of a call.
LEMMA UserStep_Inv ==
    ASSUME UserInv, NEW p \in Procs, UserStep(p) \/ UserReturn(p)
    PROVE  UserInv'
<1> USE DEF UserInv, UserTypeOK
<1>a. ucall[p].pc # "idle" => ucall[p] \in Call
  BY DEF NoCall
<1>b. InOrder(ucall[p])
  BY DEF CallsInOrder
<1>1. CASE UserReturn(p)
  <2>1. NoCall \in Call \cup {NoCall} /\ InOrder(NoCall)
    BY DEF NoCall, InOrder
  <2>2. QED
    BY <1>1, <2>1, CallReplaced DEF UserReturn
<1>2. CASE ReadUser(p)
  <2> DEFINE u == users[ucall[p].name]
             c == [ucall[p] EXCEPT !.pc = "done", !.rec = u, !.res = "ok"]
  <2>1. ucall' = [ucall EXCEPT ![p] = c] /\ UNCHANGED <<users, userIndex>>
    BY <1>2, <1>a DEF ReadUser, Finish, At
  <2>2. c \in Call /\ InOrder(c)
    BY <1>2, <1>a, <1>b DEF ReadUser, At, Call, InOrder
  <2> HIDE DEF c
  <2>3. QED
    BY <2>1, <2>2, CallReplaced
<1>3. CASE Reject(p)
  <2> DEFINE r == IF ucall[p].op = "create" THEN "exists" ELSE "missing"
             c == [ucall[p] EXCEPT !.pc = "done", !.rec = NoUser, !.res = r]
  <2>1. ucall' = [ucall EXCEPT ![p] = c] /\ UNCHANGED <<users, userIndex>>
    BY <1>3, <1>a DEF Reject, Finish, At
  <2>2. c \in Call /\ InOrder(c)
    BY <1>3, <1>a, <1>b DEF Reject, At, Call, InOrder
  <2> HIDE DEF c
  <2>3. QED
    BY <2>1, <2>2, CallReplaced
<1>4. CASE Fetch(p)
  <2> DEFINE u == users[ucall[p].name]
             to == IF ucall[p].op = "delete" THEN "del" ELSE "set"
             c == [ucall[p] EXCEPT !.rec = u, !.pc = to]
  <2>1. ucall' = [ucall EXCEPT ![p] = c] /\ UNCHANGED <<users, userIndex>>
    BY <1>4, <1>a DEF Fetch, At
  <2>2. c \in Call /\ InOrder(c)
    BY <1>4, <1>a, <1>b DEF Fetch, Refuses, At, Call, InOrder
  <2> HIDE DEF c
  <2>3. QED
    BY <2>1, <2>2, CallReplaced
<1>5. CASE SetUser(p)
  <2> DEFINE w == Written(ucall[p])
             c == [ucall[p] EXCEPT !.pc = "sadd", !.rec = w]
  <2>1. w \in StoredUser
    BY <1>5, WrittenType DEF SetUser
  <2>2. /\ ucall' = [ucall EXCEPT ![p] = c]
        /\ users' = [users EXCEPT ![ucall[p].name] = w]
        /\ UNCHANGED userIndex
    BY <1>5, <1>a DEF SetUser, At
  <2> HIDE DEF w
  <2>3. c \in Call /\ InOrder(c)
    BY <1>5, <1>a, <1>b, <2>1 DEF SetUser, At, Call, InOrder
  <2>4. users' \in [Names -> StoredUser \cup {NoUser}]
    BY <2>1, <2>2
  <2> HIDE DEF c
  <2>5. QED
    BY <2>2, <2>3, <2>4, CallReplaced
<1>6. CASE SAddUser(p)
  <2> DEFINE c == [ucall[p] EXCEPT !.pc = "done", !.rec = ucall[p].rec,
                                   !.res = "ok"]
  <2>1. /\ ucall' = [ucall EXCEPT ![p] = c]
        /\ userIndex' = userIndex \cup {ucall[p].name}
        /\ UNCHANGED users
    BY <1>6, <1>a DEF SAddUser, Finish, At
  <2>2. c \in Call /\ InOrder(c)
    BY <1>6, <1>a, <1>b DEF SAddUser, At, Call, InOrder
  <2>3. userIndex' \in SUBSET Names
    BY <1>6, <1>a, <2>1 DEF SAddUser, At, Call
  <2> HIDE DEF c
  <2>4. QED
    BY <2>1, <2>2, <2>3, CallReplaced
<1>7. CASE DelUser(p)
  <2> DEFINE c == [ucall[p] EXCEPT !.pc = "srem"]
  <2>1. /\ ucall' = [ucall EXCEPT ![p] = c]
        /\ users' \in [Names -> StoredUser \cup {NoUser}]
        /\ UNCHANGED userIndex
    BY <1>7, <1>a DEF DelUser, At
  <2>2. c \in Call /\ InOrder(c)
    BY <1>7, <1>a, <1>b DEF DelUser, At, Call, InOrder
  <2> HIDE DEF c
  <2>3. QED
    BY <2>1, <2>2, CallReplaced
<1>8. CASE SRemUser(p)
  <2> DEFINE c == [ucall[p] EXCEPT !.pc = "done", !.rec = NoUser, !.res = "ok"]
  <2>1. /\ ucall' = [ucall EXCEPT ![p] = c]
        /\ userIndex' \in SUBSET Names
        /\ UNCHANGED users
    BY <1>8, <1>a DEF SRemUser, Finish, At
  <2>2. c \in Call /\ InOrder(c)
    BY <1>8, <1>a, <1>b DEF SRemUser, At, Call, InOrder
  <2> HIDE DEF c
  <2>3. QED
    BY <2>1, <2>2, CallReplaced
<1>9. QED
  BY <1>1, <1>2, <1>3, <1>4, <1>5, <1>6, <1>7, <1>8 DEF UserStep

LEMMA LockExpires_Inv ==
    ASSUME UserInv, NEW n \in Names, LockExpires(n)
    PROVE  UserInv'
<1> USE DEF UserInv, UserTypeOK
<1>1. \A u \in StoredUser \cup {NoUser} :
        /\ Unlocked(u) \in StoredUser \cup {NoUser}
        /\ Unlocked(u) = NoUser <=> u = NoUser
  <2>1. \A u \in StoredUser : Unlocked(u) \in StoredUser
    BY UpdatesKeepType
  <2>2. QED
    BY <2>1, NoUserAssumption DEF Unlocked
<1>2. users' \in [Names -> StoredUser \cup {NoUser}]
  BY <1>1 DEF LockExpires
<1>3. ASSUME NEW p \in Procs
      PROVE  ucall'[p] \in Call \cup {NoCall} /\ InOrder(ucall'[p])
  <2>1. CASE ucall'[p] = ucall[p]
    BY <2>1 DEF CallsInOrder
  <2>2. CASE ucall'[p] # ucall[p]
    <3> DEFINE v == Unlocked(ucall[p].rec)
    <3>1. ucall[p].pc # "idle" /\ ucall'[p] = [ucall[p] EXCEPT !.rec = v]
      BY <2>2 DEF LockExpires, At
    <3>2. ucall[p] \in Call /\ InOrder(ucall[p])
      BY <3>1 DEF NoCall, CallsInOrder
    <3>3. v \in StoredUser \cup {NoUser} /\ (v = NoUser <=> ucall[p].rec = NoUser)
      BY <1>1, <3>2 DEF Call
    <3> HIDE DEF v
    <3>4. QED
      BY <3>1, <3>2, <3>3 DEF Call, InOrder
  <2>3. QED
    BY <2>1, <2>2
<1>4. ucall' \in [Procs -> Call \cup {NoCall}]
  BY <1>3 DEF LockExpires
<1>5. CallsInOrder'
  BY <1>3 DEF CallsInOrder, InOrder
<1>6. QED
  BY <1>2, <1>4, <1>5 DEF LockExpires

LEMMA UserNext_Inv == UserInv /\ [UserNext]_uvars => UserInv'
<1> SUFFICES ASSUME UserInv, [UserNext]_uvars
             PROVE  UserInv'
  OBVIOUS
<1>1. CASE UNCHANGED uvars
  BY <1>1 DEF uvars, UserInv, UserTypeOK, CallsInOrder, InOrder
<1>2. ASSUME NEW p \in Procs, UserBegin(p)
      PROVE  UserInv'
  BY <1>2, UserBegin_Start, UserStart_Inv
<1>3. ASSUME NEW p \in Procs, UserReturn(p) \/ UserStep(p)
      PROVE  UserInv'
  BY <1>3, UserStep_Inv
<1>4. ASSUME NEW n \in Names, LockExpires(n)
      PROVE  UserInv'
  BY <1>4, LockExpires_Inv
<1>5. QED
  BY <1>1, <1>2, <1>3, <1>4 DEF UserNext

\* UserStore is type correct however its calls interleave: whatever a call
\* reads, computes and saves is a user record (user_service.py:143-282).
THEOREM UserTypeCorrect == UserSpec => []UserTypeOK
<1>1. UserInv => UserTypeOK
  BY DEF UserInv
<1>2. QED
  BY <1>1, UserInit_Inv, UserNext_Inv, PTL DEF UserSpec

-----------------------------------------------------------------------------
(* Writes that do not overlap *)

\* A call that is about to SET, DEL or SREM is writing its account.
LEMMA AtCommandIsWriting ==
    ASSUME UserInv, NEW p \in Procs,
           ucall[p].pc \in {"set", "sadd", "del", "srem"}
    PROVE  /\ ucall[p] \in Call
           /\ ucall[p].name \in Names
           /\ Writing(p, ucall[p].name)
<1>1. ucall[p] \in Call
  BY DEF UserInv, UserTypeOK, NoCall
<1>2. ucall[p].op \in Writers
  BY <1>1 DEF UserInv, CallsInOrder, InOrder, Writers
<1>3. QED
  BY <1>1, <1>2 DEF Writing, Call

LEMMA Fresh_Start ==
    ASSUME ~Overlap, UserInv, NoStaleWrite, NEW p \in Procs,
           NEW op \in Writers \cup {"read"}, NEW n \in Names,
           NEW chg \in Change, UserStart(p, op, n, chg)
    PROVE  NoStaleWrite'
<1> USE DEF UserInv, UserTypeOK
<1>1. /\ \A q \in Procs : ucall'[q] =
            IF q = p THEN [op |-> op, name |-> n, chg |-> chg, pc |-> "get",
                           rec |-> NoUser, res |-> "none"]
                     ELSE ucall[q]
      /\ UNCHANGED <<users, userIndex>>
  BY DEF UserStart
<1>2. ASSUME NEW q \in Procs
      PROVE  Fresh(q)'
  <2>1. CASE q = p
    BY <1>1, <2>1 DEF Fresh
  <2>2. CASE q # p
    BY <1>1, <2>2 DEF NoStaleWrite, Fresh
  <2>3. QED
    BY <2>1, <2>2
<1>3. ASSUME NEW q \in Procs, NEW r \in Procs, NEW m \in Names,
             Writing(q, m)', Writing(r, m)'
      PROVE  q = r
  <2>1. \A s \in Procs : Writing(s, m)' /\ s # p => Writing(s, m)
    BY <1>1 DEF Writing
  <2>2. Writing(p, m)' => m = n /\ op \in Writers
    BY <1>1 DEF Writing
  <2>3. op \in Writers => Free(n)
    BY DEF UserStart
  <2>4. QED
    BY <1>3, <2>1, <2>2, <2>3 DEF NoStaleWrite, AtMostOneWriter, Free
<1>4. QED
  BY <1>2, <1>3 DEF NoStaleWrite, AtMostOneWriter

\* A step of p's call starts no new write.
LEMMA NoNewWriter ==
    ASSUME UserInv, NEW p \in Procs, UserStep(p) \/ UserReturn(p),
           NEW q \in Procs, NEW m \in Names, Writing(q, m)'
    PROVE  Writing(q, m)
<1> USE DEF UserInv, UserTypeOK
<1>1. CASE q # p
  BY <1>1 DEF UserStep, UserReturn, ReadUser, Reject, Fetch, SetUser, SAddUser,
              DelUser, SRemUser, Finish, Writing
<1>2. CASE q = p
  <2>1. ucall[p].pc # "idle" => ucall[p] \in Call
    BY DEF NoCall
  <2>2. CASE UserReturn(p)
    BY <1>2, <2>2 DEF UserReturn, Writing, NoCall
  <2>3. CASE UserStep(p)
    <3>1. ucall[p].pc \in {"get", "set", "sadd", "del", "srem"}
      BY <2>3 DEF UserStep, ReadUser, Reject, Fetch, SetUser, SAddUser,
                  DelUser, SRemUser, At
    <3>2. ucall'[p].name = ucall[p].name /\ ucall'[p].op = ucall[p].op
      BY <2>1, <2>3, <3>1
         DEF UserStep, ReadUser, Reject, Fetch, SetUser, SAddUser,
             DelUser, SRemUser, Finish, Call
    <3>3. QED
      BY <1>2, <3>1, <3>2 DEF Writing
  <2>4. QED
    BY <2>2, <2>3
<1>3. QED
  BY <1>1, <1>2

LEMMA Fresh_Step ==
    ASSUME UserInv, NoStaleWrite, NEW p \in Procs, UserStep(p) \/ UserReturn(p)
    PROVE  NoStaleWrite'
<1> USE DEF UserInv, UserTypeOK
<1>1. AtMostOneWriter'
  BY NoNewWriter DEF NoStaleWrite, AtMostOneWriter
<1>a. ucall[p].pc # "idle" => ucall[p] \in Call
  BY DEF NoCall
<1>2. ASSUME NEW q \in Procs
      PROVE  Fresh(q)'
  <2>1. Fresh(q)
    BY DEF NoStaleWrite
  <2>2. CASE q # p
    <3>1. ucall'[q] = ucall[q]
      BY <2>2 DEF UserStep, UserReturn, ReadUser, Reject, Fetch, SetUser,
                  SAddUser, DelUser, SRemUser, Finish
    <3>2. CASE UNCHANGED users
      BY <2>1, <3>1, <3>2 DEF Fresh
    <3>3. CASE SetUser(p) \/ DelUser(p)
      <4>1. ucall[q].pc \in {"set", "del", "srem"} =>
              users'[ucall[q].name] = users[ucall[q].name]
        <5> SUFFICES ASSUME ucall[q].pc \in {"set", "del", "srem"}
                     PROVE  users'[ucall[q].name] = users[ucall[q].name]
          OBVIOUS
        <5>1. Writing(q, ucall[q].name) /\ ucall[q].name \in Names
          BY AtCommandIsWriting
        <5>2. Writing(p, ucall[p].name) /\ ucall[p].name \in Names
          BY <3>3, AtCommandIsWriting DEF SetUser, DelUser, At
        <5>3. ucall[q].name # ucall[p].name
          BY <2>2, <5>1, <5>2 DEF NoStaleWrite, AtMostOneWriter
        <5>4. QED
          BY <3>3, <5>1, <5>3 DEF SetUser, DelUser
      <4>2. QED
        BY <2>1, <3>1, <4>1 DEF Fresh
    <3>4. QED
      BY <3>2, <3>3 DEF UserStep, UserReturn, ReadUser, Reject, Fetch,
                        SAddUser, SRemUser
  <2>3. CASE q = p
    <3>1. CASE UserReturn(p)
      BY <2>3, <3>1 DEF UserReturn, Fresh, NoCall
    <3>2. CASE ReadUser(p) \/ Reject(p) \/ SAddUser(p) \/ SRemUser(p)
      <4>1. ucall'[p].pc = "done"
        BY <1>a, <3>2 DEF ReadUser, Reject, SAddUser, SRemUser, Finish, At, Call
      <4>2. QED
        BY <2>3, <4>1 DEF Fresh
    <3>3. CASE Fetch(p)
      BY <1>a, <2>3, <3>3 DEF Fetch, Refuses, Fresh, At, Call
    <3>4. CASE SetUser(p)
      <4>1. ucall'[p].pc = "sadd"
        BY <1>a, <3>4 DEF SetUser, At, Call
      <4>2. QED
        BY <2>3, <4>1 DEF Fresh
    <3>5. CASE DelUser(p)
      <4>1. ucall'[p].pc = "srem" /\ ucall'[p].name = ucall[p].name
        BY <1>a, <3>5 DEF DelUser, At, Call
      <4>2. users'[ucall[p].name] = NoUser
        BY <1>a, <3>5 DEF DelUser, At, Call
      <4>3. QED
        BY <2>3, <4>1, <4>2 DEF Fresh
    <3>6. QED
      BY <3>1, <3>2, <3>3, <3>4, <3>5 DEF UserStep
  <2>4. QED
    BY <2>2, <2>3
<1>3. QED
  BY <1>1, <1>2 DEF NoStaleWrite

\* Unlocking keeps None None.
LEMMA UnlockedKind ==
    ASSUME NEW u \in StoredUser \cup {NoUser}
    PROVE  /\ Unlocked(u) \in StoredUser \cup {NoUser}
           /\ Unlocked(u) = NoUser <=> u = NoUser
<1>1. CASE u = NoUser
  BY <1>1 DEF Unlocked
<1>2. CASE u \in StoredUser
  BY <1>2, UpdatesKeepType, NoUserAssumption
<1>3. QED
  BY <1>1, <1>2

LEMMA Fresh_LockExpires ==
    ASSUME UserInv, NoStaleWrite, NEW n \in Names, LockExpires(n)
    PROVE  NoStaleWrite'
<1> USE DEF UserInv, UserTypeOK
<1>1. ASSUME NEW p \in Procs
      PROVE  /\ ucall'[p].pc = ucall[p].pc
             /\ ucall[p].pc # "idle" =>
                  /\ ucall'[p].name = ucall[p].name
                  /\ ucall'[p].op = ucall[p].op
                  /\ ucall'[p].rec = IF ucall[p].name = n THEN Unlocked(ucall[p].rec)
                                     ELSE ucall[p].rec
  <2>1. ucall[p].pc # "idle" => ucall[p] \in Call
    BY DEF NoCall
  <2>2. ucall'[p] = IF At(p, "idle") \/ ucall[p].name # n THEN ucall[p]
                    ELSE [ucall[p] EXCEPT !.rec = Unlocked(ucall[p].rec)]
    BY DEF LockExpires
  <2>3. QED
    BY <2>1, <2>2 DEF At, Call
<1>2. AtMostOneWriter'
  BY <1>1 DEF NoStaleWrite, AtMostOneWriter, Writing
<1>3. \A m \in Names : users'[m] = IF m = n THEN Unlocked(users[m]) ELSE users[m]
  BY DEF LockExpires
<1>4. ASSUME NEW p \in Procs
      PROVE  Fresh(p)'
  <2> SUFFICES ASSUME ucall[p].pc \in {"set", "del", "srem"}
               PROVE  Fresh(p)'
    BY <1>1 DEF Fresh
  <2>1. ucall[p].name \in Names /\ ucall[p] \in Call
    BY AtCommandIsWriting
  <2>2. Unlocked(users[ucall[p].name]) = NoUser <=> users[ucall[p].name] = NoUser
    BY <2>1, UnlockedKind
  <2>3. Fresh(p)
    BY DEF NoStaleWrite
  <2>4. QED
    BY <1>1, <1>3, <2>1, <2>2, <2>3 DEF Fresh
<1>5. QED
  BY <1>2, <1>4 DEF NoStaleWrite

LEMMA Fresh_Next ==
    ASSUME ~Overlap
    PROVE  UserInv /\ NoStaleWrite /\ [UserNext]_uvars => NoStaleWrite'
<1> SUFFICES ASSUME UserInv, NoStaleWrite, [UserNext]_uvars
             PROVE  NoStaleWrite'
  OBVIOUS
<1>1. CASE UNCHANGED uvars
  BY <1>1 DEF uvars, NoStaleWrite, AtMostOneWriter, Writing, Fresh
<1>2. ASSUME NEW p \in Procs, UserBegin(p)
      PROVE  NoStaleWrite'
  BY <1>2, UserBegin_Start, Fresh_Start
<1>3. ASSUME NEW p \in Procs, UserReturn(p) \/ UserStep(p)
      PROVE  NoStaleWrite'
  BY <1>3, Fresh_Step
<1>4. ASSUME NEW n \in Names, LockExpires(n)
      PROVE  NoStaleWrite'
  BY <1>4, Fresh_LockExpires
<1>5. QED
  BY <1>1, <1>2, <1>3, <1>4 DEF UserNext

\* When writes of an account do not overlap, none of them is computed from a
\* copy that is out of date (user_service.py:159-255).
THEOREM NoStaleWriteHolds ==
    ASSUME ~Overlap
    PROVE  UserSpec => []NoStaleWrite
<1>1. UserInit => NoStaleWrite
  BY DEF UserInit, NoStaleWrite, AtMostOneWriter, Writing, Fresh, NoCall
<1>2. UserInv /\ NoStaleWrite /\ [UserNext]_uvars => NoStaleWrite'
  BY Fresh_Next
<1>3. QED
  BY <1>1, <1>2, UserInit_Inv, UserNext_Inv, PTL DEF UserSpec

-----------------------------------------------------------------------------
(* The record and its index entry *)

\* A step in which no record appears, no SADD is dropped and the index loses
\* no account keeps every record listed.
LEMMA Listed_Kept ==
    ASSUME ListedOrComing,
           \A n \in Names : users'[n] # NoUser =>
               users[n] # NoUser /\ (n \in userIndex => n \in userIndex'),
           \A q \in Procs : ucall[q].pc = "sadd" =>
               ucall'[q].pc = "sadd" /\ ucall'[q].name = ucall[q].name
    PROVE  ListedOrComing'
  BY DEF ListedOrComing, At

LEMMA Listed_Step ==
    ASSUME UserInv, NoStaleWrite, ListedOrComing, NEW p \in Procs,
           UserStep(p) \/ UserReturn(p)
    PROVE  ListedOrComing'
<1> USE DEF UserInv, UserTypeOK
<1>a. ucall[p].pc # "idle" => ucall[p] \in Call
  BY DEF NoCall
<1>b. \A q \in Procs \ {p} : ucall'[q] = ucall[q]
  BY DEF UserStep, UserReturn, ReadUser, Reject, Fetch, SetUser, SAddUser,
         DelUser, SRemUser, Finish
<1>1. CASE UserReturn(p) \/ ReadUser(p) \/ Reject(p) \/ Fetch(p)
  <2>1. ucall[p].pc # "sadd" /\ UNCHANGED <<users, userIndex>>
    BY <1>1 DEF UserReturn, ReadUser, Reject, Fetch, At
  <2>2. QED
    BY <1>b, <2>1, Listed_Kept
<1>2. CASE SetUser(p)
  <2>1. /\ ucall'[p].pc = "sadd" /\ ucall'[p].name = ucall[p].name
        /\ ucall[p].pc # "sadd"
    BY <1>a, <1>2 DEF SetUser, At, Call
  <2>2. \A n \in Names : n # ucall[p].name => users'[n] = users[n]
    BY <1>2 DEF SetUser
  <2>3. QED
    BY <1>2, <1>b, <2>1, <2>2 DEF ListedOrComing, At, SetUser
<1>3. CASE SAddUser(p)
  BY <1>3, <1>b DEF SAddUser, ListedOrComing, At
<1>4. CASE DelUser(p)
  <2>1. /\ ucall[p].pc # "sadd" /\ userIndex' = userIndex
        /\ \A n \in Names : users'[n] # NoUser => users[n] # NoUser
    BY <1>4 DEF DelUser, At
  <2>2. QED
    BY <1>b, <2>1, Listed_Kept
<1>5. CASE SRemUser(p)
  <2>1. ucall[p].pc # "sadd" /\ users' = users
    BY <1>5 DEF SRemUser, At
  <2>2. users[ucall[p].name] = NoUser
    BY <1>5 DEF SRemUser, At, NoStaleWrite, Fresh
  <2>3. userIndex' = userIndex \ {ucall[p].name}
    BY <1>5 DEF SRemUser
  <2>4. QED
    BY <1>b, <2>1, <2>2, <2>3, Listed_Kept
<1>6. QED
  BY <1>1, <1>2, <1>3, <1>4, <1>5 DEF UserStep

LEMMA Listed_Next ==
    UserInv /\ NoStaleWrite /\ ListedOrComing /\ [UserNext]_uvars
    => ListedOrComing'
<1> SUFFICES ASSUME UserInv, NoStaleWrite, ListedOrComing, [UserNext]_uvars
             PROVE  ListedOrComing'
  OBVIOUS
<1>1. CASE UNCHANGED uvars
  BY <1>1 DEF uvars, ListedOrComing, At
<1>2. ASSUME NEW p \in Procs, UserBegin(p)
      PROVE  ListedOrComing'
  <2>1. /\ ucall[p].pc # "sadd" /\ UNCHANGED <<users, userIndex>>
        /\ \A q \in Procs \ {p} : ucall'[q] = ucall[q]
    BY <1>2, UserBegin_Start DEF UserStart, At, UserInv, UserTypeOK
  <2>2. QED
    BY <2>1, Listed_Kept
<1>3. ASSUME NEW p \in Procs, UserReturn(p) \/ UserStep(p)
      PROVE  ListedOrComing'
  BY <1>3, Listed_Step
<1>4. ASSUME NEW n \in Names, LockExpires(n)
      PROVE  ListedOrComing'
  <2>1. \A m \in Names : users'[m] # NoUser => users[m] # NoUser
    BY <1>4 DEF LockExpires, UserInv, UserTypeOK
  <2>2. ASSUME NEW q \in Procs, ucall[q].pc = "sadd"
        PROVE  ucall'[q].pc = "sadd" /\ ucall'[q].name = ucall[q].name
    <3>1. ucall[q] \in Call
      BY <2>2 DEF UserInv, UserTypeOK, NoCall
    <3>2. QED
      BY <1>4, <2>2, <3>1 DEF LockExpires, At, Call
  <2>3. QED
    BY <1>4, <2>1, <2>2, Listed_Kept DEF LockExpires
<1>5. QED
  BY <1>1, <1>2, <1>3, <1>4 DEF UserNext

\* When writes of an account do not overlap, an account that no write is at
\* work on exists only if list_users shows it, although the record and the
\* index are two keys (user_service.py:266-282).
THEOREM EveryUserListedHolds ==
    ASSUME ~Overlap
    PROVE  UserSpec => []EveryUserListed
<1>1. UserInit => ListedOrComing
  BY DEF UserInit, ListedOrComing
<1>2. UserInv /\ ListedOrComing => EveryUserListed
  <2> SUFFICES ASSUME UserInv, ListedOrComing,
                      NEW n \in Names, users[n] # NoUser, Free(n)
               PROVE  n \in userIndex
    BY DEF EveryUserListed, ListUsers
  <2>1. ASSUME NEW p \in Procs, At(p, "sadd"), ucall[p].name = n
        PROVE  FALSE
    BY <2>1, AtCommandIsWriting DEF At, Free
  <2>2. QED
    BY <2>1 DEF ListedOrComing
<1>3. UserSpec => []NoStaleWrite
  BY NoStaleWriteHolds
<1>4. QED
  BY <1>1, <1>2, <1>3, Listed_Next, UserInit_Inv, UserNext_Inv, PTL
     DEF UserSpec

-----------------------------------------------------------------------------
(* The refinement of Accounts *)

\* What a command does to the table of accounts.
LEMMA SetImplements ==
    ASSUME UserInv, NoStaleWrite, NEW p \in Procs, SetUser(p)
    PROVE  AtomicAccounts!Next
<1> DEFINE c == ucall[p]
           n == ucall[p].name
           u == users[ucall[p].name]
<1>1. /\ c \in Call /\ n \in Names
      /\ c.op \in {"create", "update", "login", "fail", "bump"}
  <2>1. c \in Call /\ n \in Names
    BY AtCommandIsWriting DEF SetUser, At
  <2>2. c.op \in Writers \ {"delete"}
    BY <2>1 DEF SetUser, At, UserInv, CallsInOrder, InOrder
  <2>3. QED
    BY <2>1, <2>2 DEF Writers
<1>2. c.rec = u /\ (c.op = "create" <=> u = NoUser)
  BY DEF SetUser, At, NoStaleWrite, Fresh
<1>3. users' = [users EXCEPT ![n] = Written(c)]
  BY DEF SetUser
<1> USE DEF AtomicAccounts!Replace
<1>4. CASE c.op = "create"
  <2>1. c.chg.pw \in Passwords
    BY <1>1, <1>4 DEF UserInv, CallsInOrder, InOrder, SetUser, At
  <2>2. Written(c) = AtomicAccounts!NewUser(c.chg.pw)
    BY <1>4 DEF Written, NewUser, AtomicAccounts!NewUser
  <2>3. AtomicAccounts!Create(n, c.chg.pw)
    BY <1>2, <1>3, <1>4, <2>2 DEF AtomicAccounts!Create
  <2>4. QED
    BY <1>1, <2>1, <2>3 DEF AtomicAccounts!Next
<1>5. CASE c.op = "update"
  <2>1. Written(c) = AtomicAccounts!Updated(u, c.chg)
    BY <1>2, <1>5 DEF Written, Updated, AtomicAccounts!Updated
  <2>2. AtomicAccounts!Update(n, c.chg)
    BY <1>2, <1>3, <1>5, <2>1 DEF AtomicAccounts!Update
  <2>3. c.chg \in AtomicAccounts!Change
    BY <1>1 DEF Call, Change, AtomicAccounts!Change
  <2>4. QED
    BY <1>1, <2>2, <2>3 DEF AtomicAccounts!Next
<1>6. CASE c.op = "login"
  <2>1. Written(c) = AtomicAccounts!LoggedIn(u)
    BY <1>2, <1>6 DEF Written, LoggedIn, AtomicAccounts!LoggedIn
  <2>2. AtomicAccounts!RecordLogin(n)
    BY <1>2, <1>3, <1>6, <2>1 DEF AtomicAccounts!RecordLogin
  <2>3. QED
    BY <1>1, <2>2 DEF AtomicAccounts!Next
<1>7. CASE c.op = "fail"
  <2>1. Written(c) = AtomicAccounts!FailedOnce(u)
    BY <1>2, <1>7 DEF Written, FailedOnce, AtomicAccounts!FailedOnce
  <2>2. AtomicAccounts!RecordFailedLogin(n)
    BY <1>2, <1>3, <1>7, <2>1 DEF AtomicAccounts!RecordFailedLogin
  <2>3. QED
    BY <1>1, <2>2 DEF AtomicAccounts!Next
<1>8. CASE c.op = "bump"
  <2>1. Written(c) = AtomicAccounts!Versioned(u)
    BY <1>2, <1>8 DEF Written, Versioned, AtomicAccounts!Versioned
  <2>2. AtomicAccounts!IncrementTokenVersion(n)
    BY <1>2, <1>3, <1>8, <2>1 DEF AtomicAccounts!IncrementTokenVersion
  <2>3. QED
    BY <1>1, <2>2 DEF AtomicAccounts!Next
<1>9. QED
  BY <1>1, <1>4, <1>5, <1>6, <1>7, <1>8

LEMMA NextImplements ==
    UserInv /\ NoStaleWrite /\ [UserNext]_uvars => [AtomicAccounts!Next]_users
<1> SUFFICES ASSUME UserInv, NoStaleWrite, UserNext
             PROVE  AtomicAccounts!Next \/ UNCHANGED users
  BY DEF uvars
<1>1. ASSUME NEW p \in Procs, UserBegin(p)
      PROVE  UNCHANGED users
  BY <1>1, UserBegin_Start DEF UserStart
<1>2. ASSUME NEW p \in Procs, UserReturn(p)
      PROVE  UNCHANGED users
  BY <1>2 DEF UserReturn
<1>3. ASSUME NEW p \in Procs, UserStep(p)
      PROVE  AtomicAccounts!Next \/ UNCHANGED users
  <2>1. CASE SetUser(p)
    BY <2>1, SetImplements
  <2>2. CASE DelUser(p)
    <3>1. ucall[p].name \in Names /\ users[ucall[p].name] # NoUser
      <4>1. ucall[p].name \in Names /\ ucall[p].op = "delete"
        BY <2>2, AtCommandIsWriting
           DEF DelUser, At, UserInv, CallsInOrder, InOrder
      <4>2. QED
        BY <2>2, <4>1 DEF DelUser, At, NoStaleWrite, Fresh
    <3>2. AtomicAccounts!Delete(ucall[p].name)
      BY <2>2, <3>1 DEF DelUser, AtomicAccounts!Delete, AtomicAccounts!Replace
    <3>3. QED
      BY <3>1, <3>2 DEF AtomicAccounts!Next
  <2>3. CASE ReadUser(p) \/ Reject(p) \/ Fetch(p) \/ SAddUser(p) \/ SRemUser(p)
    BY <2>3 DEF ReadUser, Reject, Fetch, SAddUser, SRemUser
  <2>4. QED
    BY <1>3, <2>1, <2>2, <2>3 DEF UserStep
<1>4. ASSUME NEW n \in Names, LockExpires(n)
      PROVE  AtomicAccounts!Next
  <2>1. AtomicAccounts!LockExpires(n)
    BY <1>4 DEF LockExpires, AtomicAccounts!LockExpires, AtomicAccounts!Replace,
                Unlocked, AtomicAccounts!Unlocked
  <2>2. QED
    BY <2>1 DEF AtomicAccounts!Next
<1>5. QED
  BY <1>1, <1>2, <1>3, <1>4 DEF UserNext

\* When writes of an account do not overlap, UserService is the atomic table
\* of accounts: its three-command writes cannot be told from one-step ones.
THEOREM StoreImplementsAccounts ==
    ASSUME ~Overlap
    PROVE  UserSpec => ImplementsAccounts
<1>1. UserInit => AtomicAccounts!Init
  BY DEF UserInit, AtomicAccounts!Init
<1>2. UserSpec => []NoStaleWrite
  BY NoStaleWriteHolds
<1>3. QED
  BY <1>1, <1>2, NextImplements, UserInit_Inv, UserNext_Inv, PTL
     DEF UserSpec, ImplementsAccounts, AtomicAccounts!Spec

\* ... so a token version never goes back while its account exists
\* (user_service.py:245-255), whichever operations run one after the other.
THEOREM TokenVersionMonotone ==
    ASSUME ~Overlap
    PROVE  UserSpec => TokenVersionNeverDecreases
<1> DEFINE Up == \A n \in Names : users[n] # NoUser /\ users'[n] # NoUser
                                  => users'[n].tv >= users[n].tv
<1>1. UserTypeOK /\ [AtomicAccounts!Next]_users => [Up]_users
  <2> SUFFICES ASSUME UserTypeOK, AtomicAccounts!Next,
                      NEW n \in Names, users[n] # NoUser, users'[n] # NoUser
               PROVE  users'[n].tv >= users[n].tv
    OBVIOUS
  <2>1. users[n] \in StoredUser
    BY DEF UserTypeOK
  <2>2. users[n].tv >= users[n].tv
    BY <2>1 DEF StoredUser
  <2> USE DEF AtomicAccounts!Replace
  <2>3. PICK m \in Names :
          \/ \E pw \in Passwords : AtomicAccounts!Create(m, pw)
          \/ \E chg \in AtomicAccounts!Change : AtomicAccounts!Update(m, chg)
          \/ AtomicAccounts!Delete(m)
          \/ AtomicAccounts!RecordLogin(m)
          \/ AtomicAccounts!RecordFailedLogin(m)
          \/ AtomicAccounts!IncrementTokenVersion(m)
          \/ AtomicAccounts!LockExpires(m)
    BY DEF AtomicAccounts!Next
  <2>4. CASE m # n
    <3>1. users'[n] = users[n]
      BY <2>3, <2>4 DEF UserTypeOK, AtomicAccounts!Create,
         AtomicAccounts!Update, AtomicAccounts!Delete,
         AtomicAccounts!RecordLogin, AtomicAccounts!RecordFailedLogin,
         AtomicAccounts!IncrementTokenVersion, AtomicAccounts!LockExpires
    <3>2. QED
      BY <2>2, <3>1
  <2>5. CASE m = n /\ \E pw \in Passwords : AtomicAccounts!Create(m, pw)
    BY <2>5 DEF AtomicAccounts!Create
  <2>6. CASE m = n /\ \E chg \in AtomicAccounts!Change :
                        AtomicAccounts!Update(m, chg)
    <3>1. PICK chg \in AtomicAccounts!Change :
            users'[n] = AtomicAccounts!Updated(users[n], chg)
      BY <2>6 DEF AtomicAccounts!Update, UserTypeOK
    <3>2. QED
      BY <2>1, <2>2, <3>1 DEF AtomicAccounts!Updated, StoredUser
  <2>7. CASE m = n /\ AtomicAccounts!Delete(m)
    BY <2>7 DEF AtomicAccounts!Delete, UserTypeOK
  <2>8. CASE m = n /\ AtomicAccounts!RecordLogin(m)
    BY <2>1, <2>2, <2>8 DEF AtomicAccounts!RecordLogin, UserTypeOK,
                            AtomicAccounts!LoggedIn, StoredUser
  <2>9. CASE m = n /\ AtomicAccounts!RecordFailedLogin(m)
    <3>1. users'[n] = AtomicAccounts!FailedOnce(users[n])
      BY <2>9 DEF AtomicAccounts!RecordFailedLogin, UserTypeOK
    <3>2. AtomicAccounts!FailedOnce(users[n]).tv = users[n].tv
      BY <2>1, Zenon DEF AtomicAccounts!FailedOnce, StoredUser
    <3>3. QED
      BY <2>2, <3>1, <3>2
  <2>10. CASE m = n /\ AtomicAccounts!IncrementTokenVersion(m)
    BY <2>1, <2>10 DEF AtomicAccounts!IncrementTokenVersion, UserTypeOK,
                       AtomicAccounts!Versioned, StoredUser
  <2>11. CASE m = n /\ AtomicAccounts!LockExpires(m)
    BY <2>1, <2>2, <2>11 DEF AtomicAccounts!LockExpires, UserTypeOK,
                             AtomicAccounts!Unlocked, StoredUser
  <2>12. QED
    BY <2>3, <2>4, <2>5, <2>6, <2>7, <2>8, <2>9, <2>10, <2>11
<1>2. UserSpec => [][AtomicAccounts!Next]_users
  BY StoreImplementsAccounts, PTL DEF ImplementsAccounts, AtomicAccounts!Spec
<1>3. QED
  BY <1>1, <1>2, UserTypeCorrect, PTL DEF TokenVersionNeverDecreases
=============================================================================
