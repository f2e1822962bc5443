----------------------------- MODULE DualWrite -----------------------------
(***************************************************************************)
(* Accounts and refresh sessions in two stores (UserService and            *)
(* TokenSessionService with a PostgreSQL repository, app/repositories, and *)
(* the start-up of app/main.py).                                           *)
(*                                                                         *)
(* conf holds the settings the process was started with: the store written *)
(* first (storage, the primary), the store get_user reads, whether the     *)
(* other store (the mirror) is written too, and the configured accounts    *)
(* (boot).  A call reads the primary, writes it, and then writes the       *)
(* mirror; each of these is a step, and between two steps other calls run, *)
(* the connection may break or the process may stop.  Nothing undoes the   *)
(* first write when the second one raises.                                 *)
(*                                                                         *)
(* One step here is the group of Redis commands that UserStore and         *)
(* TokenSessions take apart, or one PostgreSQL transaction.  PostgreSQL    *)
(* refuses what Redis accepts: a second row of one name, an update or      *)
(* deletion of a missing row, a session row without its user, and the      *)
(* deletion of a user who has session rows - which are never deleted.      *)
(* Time is left out: locks and sessions expire in both stores at once.     *)
(*                                                                         *)
(* History variables, read by no action but the one that switches the      *)
(* primary: split, the accounts and sessions that a write has reached in   *)
(* the primary only; ended, the sessions whose end a call has confirmed.   *)
(***************************************************************************)
EXTENDS AccountRecord, FiniteSets

CONSTANTS
    Procs,          \* coroutines that serve requests
    Main,           \* the coroutine that starts the process
    Names,          \* usernames
    Legacy,         \* "admin", the account of the old default settings
    Jtis,           \* jtis of refresh tokens (bound: as many can be issued)
    Configs,        \* the settings the operator starts the process with
    BootPassword,   \* the configured password of the configured accounts
    Ops,            \* coroutine -> the operations it calls in this instance
    Updates,        \* the changes update_user is asked for
    Overlap,        \* may writes of one account, or calls on its sessions,
                    \* overlap with each other? (they may, in the code)
    Faults,         \* may connections break and the process be killed?
    CountBound      \* bound: no increment is started at this count

Stores == {"redis", "postgres"}

SessionOps == {"issue", "revoke", "revokeAll"}

ASSUME DualAssumption ==
    /\ Main \notin Procs
    /\ Legacy \in Names
    /\ NoUser \notin Names \cup Jtis
    /\ Names \cap Jtis = {}
    /\ Configs \subseteq [storage : Stores, read : Stores, dual : BOOLEAN,
                          boot : SUBSET Names]
    /\ BootPassword \in Passwords
    /\ Ops \in [Procs -> SUBSET (Writers \cup SessionOps)]
    /\ Updates \subseteq Change
    /\ Overlap \in BOOLEAN /\ Faults \in BOOLEAN
    /\ CountBound \in Nat

VARIABLES
    conf,           \* the settings of the running (or last) process
    phase,          \* how far the process is: see Phases
    todo,           \* bootstrap: the configured accounts still to do
    users,          \* store -> name -> record, or NoUser
    live,           \* store -> the jtis whose session is active there
    rows,           \* the jtis with a row in auth_refresh_sessions
    owner,          \* jti -> the name its token was signed for, or NoUser
    call,           \* coroutine -> its call
    split, ended    \* history

data == <<users, live, rows>>
vars == <<conf, phase, todo, data, owner, call, split, ended>>

Phases == {"down", "boot", "cleanup", "up", "failed"}
Coroutines == Procs \cup {Main}

Call == [op : Writers \cup SessionOps, name : Names, chg : Change,
         jti : Jtis \cup {NoUser},
         pc : {"get", "save", "probe", "mirror"},
         rec : StoredUser \cup {NoUser},    \* read, then to be stored
         new : BOOLEAN,                     \* is_new of the next save
         old : SUBSET Jtis]                 \* history: what it will end

\* How the call has ended; only the start-up looks at it.
Outcome == [pc : {"done"}, name : Names, res : {"ok", "refused", "lost"}]

NoCall == [pc |-> "idle"]

DualTypeOK ==
    /\ conf \in Configs
    /\ phase \in Phases
    /\ todo \in SUBSET Names
    /\ users \in [Stores -> [Names -> StoredUser \cup {NoUser}]]
    /\ live \in [Stores -> SUBSET Jtis]
    /\ rows \in SUBSET Jtis
    /\ owner \in [Jtis -> Names \cup {NoUser}]
    /\ call \in [Coroutines -> Call \cup Outcome \cup {NoCall}]
    /\ split \in SUBSET (Names \cup Jtis)
    /\ ended \in SUBSET Jtis

DualInit ==
    /\ conf \in Configs
    /\ phase = "down"
    /\ todo = {}
    /\ users = [s \in Stores |-> [n \in Names |-> NoUser]]
    /\ live = [s \in Stores |-> {}]
    /\ rows = {}
    /\ owner = [j \in Jtis |-> NoUser]
    /\ call = [p \in Coroutines |-> NoCall]
    /\ split = {}
    /\ ended = {}

-----------------------------------------------------------------------------
(* Stores *)

Primary == conf.storage
Mirror == IF conf.storage = "redis" THEN "postgres" ELSE "redis"

\* _should_read_from_postgres: postgres once either setting says so.
ReadBackend ==
    IF "postgres" \in {conf.read, conf.storage} THEN "postgres" ELSE "redis"

SessionsOf(n) == {j \in Jtis : owner[j] = n}

\* PostgreSQL's constraints on the write of call c: users.username is unique,
\* an update and a deletion look the row up, and a session row needs its user
\* for ever (user_id is NOT NULL, no cascade).
PgTakes(c) ==
    LET there == users["postgres"][c.name] # NoUser IN
    CASE c.op \in {"revoke", "revokeAll"} -> TRUE
      [] c.op = "issue"  -> there
      [] c.op = "delete" -> there /\ rows \cap SessionsOf(c.name) = {}
      [] OTHER           -> there <=> ~c.new

Takes(s, c) == s = "redis" \/ PgTakes(c)

\* Mutant: a sweep only reaches the sessions of Redis.
WriteNoSweep(s, c) ==
    /\ users' = IF c.op \notin Writers THEN users
                ELSE [users EXCEPT ![s][c.name] = c.rec]
    /\ live' = [live EXCEPT ![s] =
                  CASE c.op = "issue"     -> @ \cup {c.jti}
                    [] c.op = "revoke"    -> @ \ {c.jti}
                    [] c.op = "revokeAll" /\ s = "redis" ->
                                             @ \ SessionsOf(c.name)
                    [] OTHER              -> @]
    /\ rows' = IF s = "postgres" /\ c.op = "issue" THEN rows \cup {c.jti}
               ELSE rows

\* The write of call c in store s.  A revoked session keeps its row.
Write(s, c) ==
    /\ users' = IF c.op \notin Writers THEN users
                ELSE [users EXCEPT ![s][c.name] = c.rec]
    /\ live' = [live EXCEPT ![s] =
                  CASE c.op = "issue"     -> @ \cup {c.jti}
                    [] c.op = "revoke"    -> @ \ {c.jti}
                    [] c.op = "revokeAll" -> @ \ SessionsOf(c.name)
                    [] OTHER              -> @]
    /\ rows' = IF s = "postgres" /\ c.op = "issue" THEN rows \cup {c.jti}
               ELSE rows

-----------------------------------------------------------------------------
(* Calls *)

At(p, step) == call[p].pc = step
Busy(p) == call[p].pc \notin {"idle", "done"}

\* What a call writes: an account, or sessions.
Touches(p) ==
    CASE call[p].op \in Writers    -> {call[p].name}
      [] call[p].op = "revokeAll"  -> SessionsOf(call[p].name)
      [] OTHER                     -> {call[p].jti}

\* The primary has the write of p, the mirror not yet.
Halfway(p) == At(p, "probe") \/ At(p, "mirror")

\* A token its client may hold: signed, and not being issued any more.
Handed(j) ==
    /\ owner[j] # NoUser
    /\ \A p \in Coroutines : Busy(p) /\ call[p].op = "issue" => call[p].jti # j

\* No write of account n, or no call on its sessions, is under way.
Free(op, n) ==
    \A p \in Coroutines : Busy(p) /\ call[p].name = n =>
        (op \in Writers <=> call[p].op \notin Writers)

Begin(p, op, n, chg, j, old) ==
    /\ ~Busy(p)
    /\ Overlap \/ Free(op, n)
    /\ call' = [call EXCEPT ![p] =
         [op |-> op, name |-> n, chg |-> chg, jti |-> j,
          pc |-> IF op \in Writers THEN "get" ELSE "save",
          rec |-> NoUser, new |-> op = "create", old |-> old]]

\* create_user ... increment_token_version, as requests call them.
BeginWrite(p) ==
    \E n \in Names, op \in Ops[p] \cap Writers :
        /\ users[Primary][n] # NoUser =>
             /\ op = "bump" => users[Primary][n].tv < CountBound
             /\ op = "fail" => users[Primary][n].fails < CountBound
        /\ \E chg \in CASE op = "update" -> Updates
                        [] op = "create" -> {[NoChange EXCEPT !.pw = pw] :
                                                        pw \in Passwords}
                        [] OTHER -> {NoChange} :
             Begin(p, op, n, chg, NoUser, {})
        /\ UNCHANGED owner

\* issue_refresh_token: a JWT with a fresh jti, for a user the caller has
\* read and who may have been deleted since.
BeginIssue(p) ==
    \E n \in Names, j \in Jtis :
        /\ "issue" \in Ops[p]
        /\ owner[j] = NoUser
        /\ users["redis"][n] # NoUser \/ users["postgres"][n] # NoUser
        /\ Begin(p, "issue", n, NoChange, j, {})
        /\ owner' = [owner EXCEPT ![j] = n]

BeginRevoke(p) ==
    /\ \/ \E j \in Jtis :
            /\ "revoke" \in Ops[p]
            /\ Handed(j)
            /\ Begin(p, "revoke", owner[j], NoChange, j, {j})
       \/ \E n \in Names :
            /\ "revokeAll" \in Ops[p]
            /\ Begin(p, "revokeAll", n, NoChange, NoUser,
                     {j \in SessionsOf(n) : Handed(j)})
    /\ UNCHANGED owner

Return(p, c, res) ==
    call' = [call EXCEPT ![p] =
      IF p = Main THEN [pc |-> "done", name |-> c.name, res |-> res] ELSE NoCall]

\* The call raises: what it has written stays written.
Fail(p, res) ==
    /\ Return(p, call[p], res)
    /\ split' = IF Halfway(p) THEN split \cup Touches(p) ELSE split
    /\ UNCHANGED <<data, ended>>

\* Mutant: a write starts from the read back end's copy.
GetReader(p) ==
    /\ At(p, "get")
    /\ LET u == users[ReadBackend][call[p].name] IN
       \/ /\ Refuses(call[p].op, u)
          /\ Fail(p, "refused")
       \/ /\ ~Refuses(call[p].op, u)
          /\ call' = [call EXCEPT ![p] = [@ EXCEPT !.pc = "save", !.rec = u]]
          /\ UNCHANGED <<data, split, ended>>

\* _get_user_primary, and the early return of each operation.
GetPrimary(p) ==
    /\ At(p, "get")
    /\ LET u == users[Primary][call[p].name] IN
       \/ /\ Refuses(call[p].op, u)
          /\ Fail(p, "refused")
       \/ /\ ~Refuses(call[p].op, u)
          /\ call' = [call EXCEPT ![p] = [@ EXCEPT !.pc = "save", !.rec = u]]
          /\ UNCHANGED <<data, split, ended>>

\* The record call c stores, in the primary first.
Storing(c) ==
    [c EXCEPT !.rec = IF c.op \in Writers \ {"delete"} THEN Written(c)
                      ELSE NoUser]

\* The call returns, and no write of it is missing in the mirror.
Succeed(p) ==
    /\ Return(p, call[p], "ok")
    /\ split' = split \ Touches(p)
    /\ ended' = ended \cup call[p].old

\* Mutant: the record read is mirrored, not the one stored.
SavePrimaryMirrorOld(p) ==
    /\ At(p, "save")
    /\ LET c == Storing(call[p]) IN
       \/ /\ ~Takes(Primary, c)
          /\ Fail(p, "refused")
       \/ /\ Takes(Primary, c)
          /\ Write(Primary, c)
          /\ \/ /\ ~conf.dual
                /\ Return(p, c, "ok")
                /\ split' = split \cup Touches(p)
             \/ /\ conf.dual
                /\ call' = [call EXCEPT ![p].pc =
                     IF Primary = "redis" /\ c.op \in Writers THEN "probe"
                     ELSE "mirror"]
                /\ UNCHANGED split
          /\ UNCHANGED ended

\* _save_user_... and _delete_user_primary, _save_refresh_primary,
\* _revoke_refresh_primary, _revoke_all_primary.  Without dual write the
\* call is over, and the mirror has missed it.
SavePrimary(p) ==
    /\ At(p, "save")
    /\ LET c == Storing(call[p]) IN
       \/ /\ ~Takes(Primary, c)
          /\ Fail(p, "refused")
       \/ /\ Takes(Primary, c)
          /\ Write(Primary, c)
          /\ \/ /\ ~conf.dual
                /\ Return(p, c, "ok")
                /\ split' = split \cup Touches(p)
             \/ /\ conf.dual
                /\ call' = [call EXCEPT ![p] = [c EXCEPT !.pc =
                     IF Primary = "redis" /\ c.op \in Writers THEN "probe"
                     ELSE "mirror"]]
                /\ UNCHANGED split
          /\ UNCHANGED ended

\* _mirror_save and _mirror_delete look into PostgreSQL first: the row is
\* created or updated; a missing one is not deleted.
Probe(p) ==
    /\ At(p, "probe")
    /\ LET missing == users["postgres"][call[p].name] = NoUser IN
       \/ /\ call[p].op = "delete" /\ missing
          /\ Succeed(p)
       \/ /\ call[p].op # "delete" \/ ~missing
          /\ call' = [call EXCEPT ![p] = [@ EXCEPT !.pc = "mirror",
                                                  !.new = missing]]
          /\ UNCHANGED <<split, ended>>
    /\ UNCHANGED data

\* The mirror's write.  What it refuses raises out of the whole call.
WriteMirror(p) ==
    /\ At(p, "mirror")
    /\ \/ ~Takes(Mirror, call[p]) /\ Fail(p, "refused")
       \/ Takes(Mirror, call[p]) /\ Write(Mirror, call[p]) /\ Succeed(p)

\* A connection breaks before the next command of p.
Fault(p) == Faults /\ Busy(p) /\ Fail(p, "lost")

Step(p) ==
    /\ GetPrimary(p) \/ SavePrimary(p) \/ Probe(p) \/ WriteMirror(p) \/ Fault(p)
    /\ UNCHANGED <<conf, phase, todo, owner>>

Serve(p) ==
    /\ phase = "up"
    /\ BeginWrite(p) \/ BeginIssue(p) \/ BeginRevoke(p)
    /\ UNCHANGED <<conf, phase, todo, data, split, ended>>

-----------------------------------------------------------------------------
(* Start-up: lifespan of main.py, UserService.bootstrap *)

\* The operator starts the process with settings c.  The primary is switched
\* only when the stores have been reconciled (docs/auth-migration-plan.md:195).
Start(c) ==
    /\ phase \in {"down", "failed"}
    /\ c.storage # conf.storage => split = {}
    /\ conf' = c
    /\ phase' = "boot"
    /\ todo' = c.boot
    /\ UNCHANGED <<data, owner, call, split, ended>>

\* Mutant: bootstrap asks the read back end whether an account exists.
KnownToReader(n) == users[ReadBackend][n] # NoUser

\* bootstrap looks into the primary and, under dual write, the other store.
Known(n) ==
    \/ users[Primary][n] # NoUser
    \/ conf.dual /\ users[Mirror][n] # NoUser

\* Mutant: bootstrap leaves a disabled account disabled.
BootUserInactive(n) ==
    /\ phase = "boot" /\ At(Main, "idle")
    /\ n \in todo
    /\ Begin(Main, IF Known(n) THEN "update" ELSE "create", n,
             [pw |-> BootPassword, active |-> Keep], NoUser, {})
    /\ UNCHANGED <<conf, phase, todo, data, owner, split, ended>>

\* An account found in either store is updated, which looks in the primary.
BootUser(n) ==
    /\ phase = "boot" /\ At(Main, "idle")
    /\ n \in todo
    /\ Begin(Main, IF Known(n) THEN "update" ELSE "create", n,
             [pw |-> BootPassword, active |-> TRUE], NoUser, {})
    /\ UNCHANGED <<conf, phase, todo, data, owner, split, ended>>

\* _cleanup_legacy_default_admin: deletes "admin" when it is not configured
\* and the read back end has it.
Cleanup ==
    /\ phase = "boot" /\ At(Main, "idle")
    /\ todo = {}
    /\ LET stale == /\ Legacy \notin conf.boot
                    /\ users[ReadBackend][Legacy] # NoUser
       IN \/ ~stale /\ phase' = "up" /\ UNCHANGED call
          \/ /\ stale
             /\ phase' = "cleanup"
             /\ Begin(Main, "delete", Legacy, NoChange, NoUser, {})
    /\ UNCHANGED <<conf, todo, data, owner, split, ended>>

\* The call of the start-up returns, or raises and ends the process.
BootReturns ==
    /\ At(Main, "done")
    /\ LET res == call[Main].res IN
       phase' = CASE res = "lost"    -> "down"
                  [] res = "refused" -> "failed"
                  [] res = "ok"      -> IF phase = "cleanup" THEN "up" ELSE "boot"
    /\ todo' = todo \ {call[Main].name}
    /\ call' = [call EXCEPT ![Main] = NoCall]
    /\ UNCHANGED <<conf, data, owner, split, ended>>

\* The process is stopped, or killed in the middle of its calls.
Stop ==
    /\ phase \in {"boot", "cleanup", "up"}
    /\ Faults \/ \A p \in Coroutines : ~Busy(p)
    /\ phase' = "down"
    /\ todo' = {}
    /\ call' = [p \in Coroutines |-> NoCall]
    /\ split' = split \cup UNION {Touches(p) : p \in {q \in Coroutines : Halfway(q)}}
    /\ UNCHANGED <<conf, data, owner, ended>>

DualNext ==
    \/ \E p \in Procs : Serve(p)
    \/ \E p \in Coroutines : Step(p)
    \/ \E c \in Configs : Start(c)
    \/ \E n \in Names : BootUser(n)
    \/ Cleanup \/ BootReturns \/ Stop

DualSpec == DualInit /\ [][DualNext]_vars

-----------------------------------------------------------------------------
(* Properties *)

\* The stores hold the same of an account, or of a session.
Agree(x) ==
    /\ x \in Names => users["redis"][x] = users["postgres"][x]
    /\ x \in Jtis => (x \in live["redis"] <=> x \in live["postgres"])

\* No call has written x in the primary and has the mirror still to come.
Settled(x) == \A p \in Coroutines : Halfway(p) => x \notin Touches(p)

\* Unless a call was interrupted or refused between its two writes, the
\* mirror is a copy of the primary - whichever store that is, across
\* restarts and changes of the settings; and the next call that succeeds
\* repairs what was split (user_service.py:316-362,
\* token_session_service.py:177-222).
StoresAgree ==
    \A x \in (Names \cup Jtis) \ split : Settled(x) => Agree(x)

\* A session whose end was confirmed under dual write is active in neither
\* store, so no later choice of AUTH_READ_BACKEND revives it
\* (token_session_service.py:77-110, 199-222).
EndedEverywhere == \A j \in ended, s \in Stores : j \notin live[s]

\* When start-up succeeds every configured account is active in the primary
\* with the configured password, whatever was left behind by earlier
\* processes, and the old default admin is gone from the read back end
\* (user_service.py:110-131, 372-383).
BootAligns ==
    [][phase # "up" /\ phase' = "up" =>
         /\ \A n \in conf.boot : /\ users'[Primary][n] # NoUser
                                 /\ users'[Primary][n].pw = BootPassword
                                 /\ users'[Primary][n].active
         /\ Legacy \notin conf.boot => users'[ReadBackend][Legacy] = NoUser
      ]_vars

\* Start-up is only refused over an account that is left in the mirror alone,
\* or an old admin whom session rows keep (user_service.py:110-131, 372-383).
Stranded(n) == users[Primary][n] = NoUser /\ users[Mirror][n] # NoUser

StartFailsOnStranded ==
    phase = "failed" => \/ \E n \in conf.boot \cup {Legacy} : Stranded(n)
                        \/ rows \cap SessionsOf(Legacy) # {}

\* The primary alone is the atomic table of accounts, whatever becomes of
\* the mirror, through crashes, restarts and switches of the primary
\* (user_service.py:143-362).
AtomicAccounts == INSTANCE Accounts WITH accounts <- users[conf.storage]
PrimaryImplementsAccounts == AtomicAccounts!Spec

\* Without a fault the two back ends hold the same accounts
\* (user_service.py:182-187, 353-362).
BackendsInSync == \A n \in Names : Settled(n) => Agree(n)
=============================================================================
