----------------------------- MODULE UserStore -----------------------------
(***************************************************************************)
(* UserService (app/services/user_service.py) on its primary backend, in   *)
(* the default configuration (redis storage, no dual write).               *)
(*                                                                         *)
(* The service is asynchronous: every "await self._redis..." lets another  *)
(* request run, so every Redis command is an action of its own.  An        *)
(* operation that changes an account is GET, then SET, then SADD (or DEL,  *)
(* then SREM), and what it SETs is computed from the record it has read:   *)
(* nothing (WATCH, Lua, a lock) makes the three commands one.              *)
(*                                                                         *)
(* A process of Procs is a coroutine.  ucall[p] is the UserService call it *)
(* is in: the operation, its arguments, the command it is about to issue   *)
(* (pc), the record it has read (rec) and, at the end, its result (res).   *)
(*                                                                         *)
(* Overlap says whether two writes of one account may be under way at the  *)
(* same time.  The code never prevents it (Overlap = TRUE); FALSE is the   *)
(* service as its one-request-at-a-time tests see it.                      *)
(***************************************************************************)
EXTENDS AccountRecord

CONSTANTS
    Procs,          \* coroutines
    Names,          \* usernames
    Overlap,        \* may two writes of one account overlap?
    TryBound,       \* bound: no failed login is started at this count
    VersionBound    \* bound: no increment is started at this token version

ASSUME OverlapAssumption == Overlap \in BOOLEAN
ASSUME UserBoundAssumption == TryBound \in Nat /\ VersionBound \in Nat

VARIABLES
    users,          \* auth:users:<name>  -> the JSON record, or NoUser
    userIndex,      \* auth:users:all     -> the set of names
    ucall           \* process -> its call of UserService

uvars == <<users, userIndex, ucall>>

Call == [op : Writers \cup {"read"}, name : Names, chg : Change,
         pc : {"get", "set", "sadd", "del", "srem", "done"},
         rec : StoredUser \cup {NoUser},
         res : {"none", "ok", "missing", "exists"}]

NoCall == [pc |-> "idle"]

UserTypeOK ==
    /\ users \in [Names -> StoredUser \cup {NoUser}]
    /\ userIndex \in SUBSET Names
    /\ ucall \in [Procs -> Call \cup {NoCall}]

UserInit ==
    /\ users = [n \in Names |-> NoUser]
    /\ userIndex = {}
    /\ ucall = [p \in Procs |-> NoCall]

At(p, step) == ucall[p].pc = step

\* p is inside a call that ends in a write of n's record.
Writing(p, n) ==
    /\ ucall[p].pc \notin {"idle", "done"}
    /\ ucall[p].name = n
    /\ ucall[p].op \in Writers

Free(n) == \A p \in Procs : ~Writing(p, n)

Within(op, u) ==
    u # NoUser => /\ op = "fail" => u.fails < TryBound
                  /\ op = "bump" => u.tv < VersionBound

(***************************************************************************)
(* The caller awaits an operation of UserService.                          *)
(***************************************************************************)
UserStart(p, op, n, chg) ==
    /\ At(p, "idle") \/ At(p, "done")
    /\ op \in Writers => (Overlap \/ Free(n)) /\ Within(op, users[n])
    /\ ucall' = [ucall EXCEPT ![p] =
         [op |-> op, name |-> n, chg |-> chg, pc |-> "get",
          rec |-> NoUser, res |-> "none"]]
    /\ UNCHANGED <<users, userIndex>>

\* The caller is done with the result.
UserReturn(p) ==
    /\ At(p, "done")
    /\ ucall' = [ucall EXCEPT ![p] = NoCall]
    /\ UNCHANGED <<users, userIndex>>

Finish(p, u, res) ==
    ucall' = [ucall EXCEPT ![p].pc = "done", ![p].rec = u, ![p].res = res]

\* GET of get_user: the record, or None.
ReadUser(p) ==
    /\ At(p, "get")
    /\ ucall[p].op = "read"
    /\ Finish(p, users[ucall[p].name], "ok")
    /\ UNCHANGED <<users, userIndex>>

Reject(p) ==
    /\ At(p, "get")
    /\ ucall[p].op # "read"
    /\ Refuses(ucall[p].op, users[ucall[p].name])
    /\ Finish(p, NoUser, IF ucall[p].op = "create" THEN "exists" ELSE "missing")
    /\ UNCHANGED <<users, userIndex>>

\* GET of a write: the record its new version will be computed from.
Fetch(p) ==
    /\ At(p, "get")
    /\ ucall[p].op # "read"
    /\ ~Refuses(ucall[p].op, users[ucall[p].name])
    /\ ucall' = [ucall EXCEPT
         ![p].rec = users[ucall[p].name],
         ![p].pc  = IF ucall[p].op = "delete" THEN "del" ELSE "set"]
    /\ UNCHANGED <<users, userIndex>>

\* SET of _save_user_redis.
SetUser(p) ==
    /\ At(p, "set")
    /\ users' = [users EXCEPT ![ucall[p].name] = Written(ucall[p])]
    /\ ucall' = [ucall EXCEPT ![p].pc = "sadd", ![p].rec = Written(ucall[p])]
    /\ UNCHANGED userIndex

\* Mutant: the index is only written when the account is created by update.
SAddOnUpdateOnly(p) ==
    /\ At(p, "sadd")
    /\ userIndex' = IF ucall[p].op = "create" THEN userIndex
                    ELSE userIndex \cup {ucall[p].name}
    /\ Finish(p, ucall[p].rec, "ok")
    /\ UNCHANGED users

\* SADD of _save_user_redis.
SAddUser(p) ==
    /\ At(p, "sadd")
    /\ userIndex' = userIndex \cup {ucall[p].name}
    /\ Finish(p, ucall[p].rec, "ok")
    /\ UNCHANGED users

\* DEL of _delete_user_redis.
DelUser(p) ==
    /\ At(p, "del")
    /\ users' = [users EXCEPT ![ucall[p].name] = NoUser]
    /\ ucall' = [ucall EXCEPT ![p].pc = "srem"]
    /\ UNCHANGED userIndex

\* SREM of _delete_user_redis.
SRemUser(p) ==
    /\ At(p, "srem")
    /\ userIndex' = userIndex \ {ucall[p].name}
    /\ Finish(p, NoUser, "ok")
    /\ UNCHANGED users

UserStep(p) ==
    \/ ReadUser(p) \/ Reject(p) \/ Fetch(p)
    \/ SetUser(p) \/ SAddUser(p) \/ DelUser(p) \/ SRemUser(p)

\* Time passes locked_until: the stored lock is over, and so is the same
\* lock in every copy that a call still holds.
LockExpires(n) ==
    /\ users[n] # NoUser
    /\ users[n].locked
    /\ users' = [users EXCEPT ![n] = Unlocked(users[n])]
    /\ ucall' = [p \in Procs |->
         IF At(p, "idle") \/ ucall[p].name # n THEN ucall[p]
         ELSE [ucall[p] EXCEPT !.rec = Unlocked(ucall[p].rec)]]
    /\ UNCHANGED userIndex

UserBegin(p) ==
    \E n \in Names, op \in Writers \cup {"read"} :
        \E chg \in CASE op = "update" -> Change
                     [] op = "create" -> {[NoChange EXCEPT !.pw = pw] :
                                                      pw \in Passwords}
                     [] OTHER -> {NoChange} :
            UserStart(p, op, n, chg)

UserNext ==
    \/ \E p \in Procs : UserBegin(p) \/ UserReturn(p) \/ UserStep(p)
    \/ \E n \in Names : LockExpires(n)

UserSpec == UserInit /\ [][UserNext]_uvars

-----------------------------------------------------------------------------
(* Properties *)

\* list_users: the names of the index whose record exists.
ListUsers == {n \in userIndex : users[n] # NoUser}

\* Every account that exists is listed by list_users, unless a write of it
\* is under way (user_service.py:266-282: the record and the index are two
\* keys, written by two commands, in both directions).
EveryUserListed ==
    \A n \in Names : users[n] # NoUser /\ Free(n) => n \in ListUsers

\* The token version of an account that stays in the table never decreases:
\* no write brings back an older version (user_service.py:245-255).
TokenVersionNeverDecreases ==
    [][\A n \in Names :
         users[n] # NoUser /\ users'[n] # NoUser => users'[n].tv >= users[n].tv
      ]_users

\* UserService is an atomic table of accounts.
AtomicAccounts == INSTANCE Accounts WITH accounts <- users

\* The detailed service implements the atomic table (user_service.py as a
\* whole): each SET or DEL is the whole operation, the rest stutters.
ImplementsAccounts == AtomicAccounts!Spec

-----------------------------------------------------------------------------
(* The inductive invariants behind these properties *)

\* The arguments and the copy a call holds at each of its commands,
\* whatever else runs.
InOrder(c) ==
    c.pc # "idle" =>
        /\ c.op = "create" => c.chg.pw \in Passwords
        /\ c.pc = "set" => /\ c.op \in Writers \ {"delete"}
                           /\ c.op # "create" => c.rec # NoUser
        /\ c.pc \in {"del", "srem"} => c.op = "delete"
        /\ c.pc = "sadd" => c.op \in Writers

CallsInOrder == \A p \in Procs : InOrder(ucall[p])

AtMostOneWriter ==
    \A p, q \in Procs, n \in Names : Writing(p, n) /\ Writing(q, n) => p = q

\* What p is about to write is computed from the record as it still is.
Fresh(p) ==
    LET c == ucall[p] IN
    /\ c.pc \in {"set", "del"} => /\ c.rec = users[c.name]
                                  /\ c.op = "create" <=> c.rec = NoUser
    /\ c.pc = "srem" => users[c.name] = NoUser

\* One write of an account at a time, and none of them from a stale copy
\* (user_service.py:159-255: the copy is read one await before it is saved).
NoStaleWrite == AtMostOneWriter /\ \A p \in Procs : Fresh(p)

\* A record without its index entry has its SADD still to come.
ListedOrComing ==
    \A n \in Names : users[n] # NoUser =>
        \/ n \in userIndex
        \/ \E p \in Procs : At(p, "sadd") /\ ucall[p].name = n
=============================================================================
