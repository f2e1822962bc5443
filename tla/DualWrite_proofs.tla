-------------------------- MODULE DualWrite_proofs --------------------------
(***************************************************************************)
(* Theorems about DualWrite, for any number of coroutines, accounts,       *)
(* sessions and settings.                                                  *)
(***************************************************************************)
EXTENDS DualWrite, TLAPS

\* The record a call writes, from a record it has read, is a record again.
LEMMA WrittenKeepsType ==
    ASSUME NEW c, c.op \in Writers \ {"delete"}, c.chg \in Change,
           c.op = "create" => c.chg.pw \in Passwords,
           c.op # "create" => c.rec \in StoredUser
    PROVE  Written(c) \in StoredUser
<1> USE DEF StoredUser
<1>1. CASE c.op = "create"
  BY <1>1 DEF Written, NewUser
<1>2. CASE c.op = "update"
  BY <1>2, RecordAssumption DEF Written, Updated, Change
<1>3. CASE c.op = "login"
  BY <1>3 DEF Written, LoggedIn
<1>4. CASE c.op = "fail"
  <2>1. PICK b \in BOOLEAN :
          b = IF c.rec.fails + 1 >= MaxFailures THEN TRUE ELSE c.rec.locked
    BY <1>4
  <2>2. FailedOnce(c.rec)
          = [c.rec EXCEPT !.fails = c.rec.fails + 1, !.locked = b]
    BY <2>1, Zenon DEF FailedOnce
  <2>3. c.rec \in StoredUser /\ c.rec.fails + 1 \in Nat
    BY <1>4
  <2>4. Written(c) = FailedOnce(c.rec)
    BY <1>4 DEF Written
  <2>5. QED
    BY <2>1, <2>2, <2>3, <2>4
<1>5. CASE c.op = "bump"
  BY <1>5 DEF Written, Versioned
<1>6. QED
  BY <1>1, <1>2, <1>3, <1>4, <1>5 DEF Writers

\* What a call holds fits the place it has reached.
InOrder(c) ==
    c.pc \notin {"idle", "done"} =>
      /\ c.op = "create" => c.chg.pw \in Passwords
      /\ c.op \in Writers => c.old = {}
      /\ c.op \in SessionOps => c.pc \in {"save", "mirror"}
      /\ c.op \in Writers /\ c.pc = "save" => ~Refuses(c.op, c.rec)
      /\ c.op \in Writers /\ c.pc \in {"probe", "mirror"} =>
            (c.rec = NoUser <=> c.op = "delete")
      /\ c.pc \in {"probe", "mirror"} => conf.dual
      /\ c.pc = "probe" => Primary = "redis"

\* A call on a session is about one its account's token was signed for.
OwnSession(c) ==
    c.pc \notin {"idle", "done"} =>
      /\ c.op = "issue"     => /\ c.jti \in Jtis /\ owner[c.jti] = c.name
                               /\ c.old = {}
      /\ c.op = "revoke"    => /\ c.jti \in Jtis /\ owner[c.jti] = c.name
                               /\ c.old = {c.jti}
      /\ c.op = "revokeAll" => c.old \subseteq SessionsOf(c.name)

\* Requests are served only when the start-up is over.
Resting ==
    /\ phase \notin {"boot", "cleanup"} => call[Main] = NoCall
    /\ phase # "up" => \A p \in Procs : call[p] = NoCall
    /\ \A p \in Procs : ~At(p, "done")

DualInv ==
    /\ DualTypeOK
    /\ \A p \in Coroutines : InOrder(call[p]) /\ OwnSession(call[p])
    /\ Resting

\* A session that a call is to end, or has ended, is not being issued, and
\* the primary has lost it when the mirror is written.
EndsComing ==
    /\ \A j \in ended : Handed(j)
    /\ EndedEverywhere
    /\ \A p \in Coroutines : Busy(p) =>
         \A j \in call[p].old :
           /\ Handed(j)
           /\ Halfway(p) => j \notin live[Primary]

\* Two calls on one account: one on its record, one on its sessions.
Exclusive ==
    \A p, q \in Coroutines :
       p # q /\ Busy(p) /\ Busy(q) /\ call[p].name = call[q].name =>
          (call[p].op \in Writers <=> call[q].op \notin Writers)

\* What a call has read is still in the primary, and what it has written too.
InPrimary(c) ==
    /\ c.pc \in {"save", "probe", "mirror"} /\ c.op \in Writers =>
         users[Primary][c.name] = c.rec
    /\ c.pc = "mirror" =>
         /\ c.op = "issue" => c.jti \in live[Primary]
         /\ c.op = "revoke" => c.jti \notin live[Primary]
         /\ c.op = "revokeAll" => SessionsOf(c.name) \cap live[Primary] = {}

SyncInv ==
    /\ Exclusive
    /\ \A p \in Coroutines : InPrimary(call[p])
    /\ StoresAgree

\* What bootstrap makes of a configured account.
Aligned(n) ==
    /\ users[Primary][n] # NoUser
    /\ users[Primary][n].pw = BootPassword
    /\ users[Primary][n].active

BootChange == [pw |-> BootPassword, active |-> TRUE]

\* What start-up is refused over.
Blocked ==
    \/ \E n \in conf.boot \cup {Legacy} : Stranded(n)
    \/ rows \cap SessionsOf(Legacy) # {}

\* A call of bootstrap: where it is in the stores, and what its end tells.
AlignCall(c) ==
    /\ c.name \in todo
    /\ c.pc = "done" => /\ c.res = "ok" => Aligned(c.name)
                        /\ c.res = "refused" => Blocked
    /\ c.pc # "done" =>
         /\ c.op \in {"create", "update"} /\ c.chg = BootChange
         /\ c.pc \in {"get", "save"} =>
              /\ c.new <=> c.op = "create"
              /\ c.op = "update" <=> Known(c.name)
         /\ c.pc = "save" => c.rec = users[Primary][c.name]
         /\ c.pc \in {"probe", "mirror"} => Aligned(c.name)
         /\ c.pc = "mirror" /\ Primary = "redis" =>
              (c.new <=> users["postgres"][c.name] = NoUser)

\* The call of _cleanup_legacy_default_admin.
CleanupCall(c) ==
    /\ c.name = Legacy
    /\ c.pc = "done" =>
         /\ c.res = "ok" => users[Primary][Legacy] = NoUser
         /\ c.res = "ok" /\ conf.dual => users[Mirror][Legacy] = NoUser
         /\ c.res = "refused" => Blocked
    /\ c.pc # "done" =>
         /\ c.op = "delete"
         /\ c.pc = "get" => users[ReadBackend][Legacy] # NoUser
         /\ c.pc = "save" => c.rec = users[Primary][Legacy]
         /\ c.pc \in {"probe", "mirror"} => users[Primary][Legacy] = NoUser
         /\ c.pc = "mirror" /\ Primary = "redis" =>
              users["postgres"][Legacy] # NoUser

\* How far the start-up is.
BootInv ==
    /\ phase \in {"boot", "cleanup"} =>
         /\ todo \subseteq conf.boot
         /\ \A n \in conf.boot \ todo : Aligned(n)
    /\ phase = "boot" => call[Main] = NoCall \/ AlignCall(call[Main])
    /\ phase = "cleanup" =>
         /\ todo = {} /\ Legacy \notin conf.boot
         /\ call[Main] # NoCall /\ CleanupCall(call[Main])
    /\ phase = "failed" => Blocked

-----------------------------------------------------------------------------
(* The steps of a call, without the LETs *)

Fetched(p) ==
    /\ At(p, "get")
    /\ ~Refuses(call[p].op, users[Primary][call[p].name])
    /\ call' = [call EXCEPT ![p] = [call[p] EXCEPT !.pc = "save",
                                    !.rec = users[Primary][call[p].name]]]
    /\ UNCHANGED <<data, split, ended>>

SavedAlone(p) ==
    /\ At(p, "save") /\ ~conf.dual
    /\ Takes(Primary, Storing(call[p]))
    /\ Write(Primary, Storing(call[p]))
    /\ Return(p, Storing(call[p]), "ok")
    /\ split' = split \cup Touches(p)
    /\ UNCHANGED ended

SavedFirst(p) ==
    /\ At(p, "save") /\ conf.dual
    /\ Takes(Primary, Storing(call[p]))
    /\ Write(Primary, Storing(call[p]))
    /\ call' = [call EXCEPT ![p] = [Storing(call[p]) EXCEPT !.pc =
                  IF Primary = "redis" /\ call[p].op \in Writers THEN "probe"
                  ELSE "mirror"]]
    /\ UNCHANGED <<split, ended>>

Missing(p) ==
    /\ At(p, "probe")
    /\ call[p].op = "delete" /\ users["postgres"][call[p].name] = NoUser
    /\ Succeed(p)
    /\ UNCHANGED data

Probed(p) ==
    /\ At(p, "probe")
    /\ call[p].op # "delete" \/ users["postgres"][call[p].name] # NoUser
    /\ call' = [call EXCEPT ![p] = [call[p] EXCEPT !.pc = "mirror",
                  !.new = (users["postgres"][call[p].name] = NoUser)]]
    /\ UNCHANGED <<data, split, ended>>

Mirrored(p) ==
    /\ At(p, "mirror")
    /\ Takes(Mirror, call[p])
    /\ Write(Mirror, call[p])
    /\ Succeed(p)

\* Why a call fails.
Refused(p) ==
    /\ Fail(p, "refused")
    /\ \/ At(p, "get") /\ Refuses(call[p].op, users[Primary][call[p].name])
       \/ At(p, "save") /\ ~Takes(Primary, Storing(call[p]))
       \/ At(p, "mirror") /\ ~Takes(Mirror, call[p])

Lost(p) == Fail(p, "lost")

LEMMA BusyCall ==
    ASSUME DualTypeOK, NEW p \in Coroutines, Busy(p)
    PROVE  call[p] \in Call
  BY DEF DualTypeOK, Busy, NoCall, Outcome

LEMMA StepCases ==
    ASSUME DualTypeOK, NEW p \in Coroutines, Step(p)
    PROVE  /\ Busy(p) /\ call[p] \in Call
           /\ UNCHANGED <<conf, phase, todo, owner>>
           /\ \/ Fetched(p) \/ SavedAlone(p) \/ SavedFirst(p)
              \/ Missing(p) \/ Probed(p) \/ Mirrored(p)
              \/ Refused(p) \/ Lost(p)
<1>1. Busy(p) /\ call[p] \in Call
  <2>1. Busy(p)
    BY DEF Step, GetPrimary, SavePrimary, Probe, WriteMirror, Fault, At, Busy
  <2>2. QED
    BY <2>1, BusyCall
<1>2. Storing(call[p]).op = call[p].op
  BY <1>1 DEF Storing, Call
<1> DEFINE Cases == \/ Fetched(p) \/ SavedAlone(p) \/ SavedFirst(p)
                    \/ Missing(p) \/ Probed(p) \/ Mirrored(p)
                    \/ Refused(p) \/ Lost(p)
<1>3. ASSUME GetPrimary(p)
      PROVE  Cases
  BY <1>3, Zenon DEF GetPrimary, Fetched, Refused
<1>4. ASSUME SavePrimary(p)
      PROVE  Cases
  BY <1>2, <1>4, Zenon DEF SavePrimary, SavedAlone, SavedFirst, Refused
<1>5. ASSUME Probe(p)
      PROVE  Cases
  BY <1>5, Zenon DEF Probe, Missing, Probed
<1>6. ASSUME WriteMirror(p)
      PROVE  Cases
  BY <1>6, Zenon DEF WriteMirror, Mirrored, Refused
<1>7. ASSUME Fault(p)
      PROVE  Cases
  BY <1>7, Zenon DEF Fault, Lost
<1>8. QED
  BY <1>1, <1>3, <1>4, <1>5, <1>6, <1>7, Zenon DEF Step

\* The record that a call stores.
LEMMA StoringIs ==
    ASSUME NEW c \in Call, InOrder(c), c.pc = "save"
    PROVE  /\ Storing(c) \in Call
           /\ Storing(c).op = c.op /\ Storing(c).name = c.name
           /\ Storing(c).jti = c.jti /\ Storing(c).old = c.old
           /\ Storing(c).pc = c.pc /\ Storing(c).chg = c.chg
           /\ Storing(c).new = c.new
           /\ c.op \in Writers \ {"delete"} =>
                Storing(c).rec = Written(c) /\ Written(c) \in StoredUser
           /\ c.op = "delete" => Storing(c).rec = NoUser
<1>1. ASSUME c.op \in Writers \ {"delete"}
      PROVE  Written(c) \in StoredUser
  <2>1. c.chg \in Change /\ (c.op = "create" => c.chg.pw \in Passwords)
    BY DEF Call, InOrder
  <2>2. c.op # "create" => c.rec \in StoredUser
    BY <1>1 DEF Call, InOrder, Refuses, Writers
  <2>3. QED
    BY <1>1, <2>1, <2>2, WrittenKeepsType
<1>2. QED
  BY <1>1 DEF Storing, Call, Writers

\* What the write of a call does to the stores.
LEMMA WriteEffect ==
    ASSUME DualTypeOK, NEW s \in Stores, NEW c \in Call,
           c.op \in {"issue", "revoke"} => c.jti \in Jtis, Write(s, c)
    PROVE  /\ users' \in [Stores -> [Names -> StoredUser \cup {NoUser}]]
           /\ live' \in [Stores -> SUBSET Jtis]
           /\ rows' \in SUBSET Jtis
           /\ c.op \in Writers =>
                /\ users'[s] = [users[s] EXCEPT ![c.name] = c.rec]
                /\ live' = live /\ rows' = rows
           /\ c.op \in SessionOps => users' = users
           /\ c.op = "issue" => live'[s] = live[s] \cup {c.jti}
           /\ c.op = "revoke" => live'[s] = live[s] \ {c.jti}
           /\ c.op = "revokeAll" => live'[s] = live[s] \ SessionsOf(c.name)
           /\ \A t \in Stores \ {s} : users'[t] = users[t] /\ live'[t] = live[t]
<1> USE DEF DualTypeOK, Write
<1>1. c.op \in Writers \cup SessionOps /\ c.name \in Names
      /\ c.rec \in StoredUser \cup {NoUser}
  BY DEF Call
<1>2. CASE c.op \in Writers
  <2>1. users' = [users EXCEPT ![s] = [users[s] EXCEPT ![c.name] = c.rec]]
    BY <1>2
  <2>2. live' = [live EXCEPT ![s] = live[s]] /\ rows' = rows
    BY <1>2 DEF Writers
  <2>3. QED
    BY <1>1, <1>2, <2>1, <2>2 DEF Writers, SessionOps
<1>3. CASE c.op = "issue"
  <2>1. /\ users' = users
        /\ live' = [live EXCEPT ![s] = live[s] \cup {c.jti}]
        /\ rows' \in {rows, rows \cup {c.jti}}
    BY <1>3 DEF Writers
  <2>2. QED
    BY <1>3, <2>1 DEF Writers, SessionOps
<1>4. CASE c.op = "revoke"
  <2>1. /\ users' = users
        /\ live' = [live EXCEPT ![s] = live[s] \ {c.jti}]
        /\ rows' = rows
    BY <1>4 DEF Writers
  <2>2. QED
    BY <1>4, <2>1 DEF Writers, SessionOps
<1>5. CASE c.op = "revokeAll"
  <2>1. /\ users' = users
        /\ live' = [live EXCEPT ![s] = live[s] \ SessionsOf(c.name)]
        /\ rows' = rows
    BY <1>5 DEF Writers
  <2>2. QED
    BY <1>5, <2>1 DEF Writers, SessionOps
<1>6. QED
  BY <1>1, <1>2, <1>3, <1>4, <1>5 DEF SessionOps

-----------------------------------------------------------------------------
(* Types and the order of the steps *)

\* What a call leaves when it is over.
Returned(p, n, res) ==
    IF p = Main THEN [pc |-> "done", name |-> n, res |-> res] ELSE NoCall

LEMMA TouchesIs ==
    ASSUME DualInv, NEW p \in Coroutines, Busy(p)
    PROVE  /\ call[p].op \in Writers => Touches(p) = {call[p].name}
           /\ call[p].op = "revokeAll" => Touches(p) = SessionsOf(call[p].name)
           /\ call[p].op \in {"issue", "revoke"} => Touches(p) = {call[p].jti}
           /\ Touches(p) \subseteq Names \cup Jtis
<1>1. call[p] \in Call
  BY BusyCall DEF DualInv
<1>2. CASE call[p].op \in Writers
  <2>1. Touches(p) = {call[p].name}
    BY <1>2 DEF Touches, Writers
  <2>2. QED
    BY <1>1, <1>2, <2>1 DEF Call, Writers
<1>3. CASE call[p].op = "revokeAll"
  <2>1. Touches(p) = SessionsOf(call[p].name)
    BY <1>3 DEF Touches, Writers
  <2>2. QED
    BY <1>1, <1>3, <2>1 DEF Writers, SessionsOf
<1>4. CASE call[p].op \in {"issue", "revoke"}
  <2>1. Touches(p) = {call[p].jti}
    BY <1>4 DEF Touches, Writers
  <2>2. call[p].jti \in Jtis
    BY <1>4 DEF DualInv, OwnSession, Busy
  <2>3. QED
    BY <1>4, <2>1, <2>2 DEF Writers
<1>5. QED
  BY <1>1, <1>2, <1>3, <1>4 DEF Call, SessionOps

\* A step replaces one call by another that is in order.
LEMMA StepReplaces ==
    ASSUME DualInv, NEW p \in Coroutines, Busy(p),
           NEW d \in Call \cup Outcome \cup {NoCall},
           InOrder(d), OwnSession(d), p # Main => d.pc # "done",
           call' = [call EXCEPT ![p] = d],
           UNCHANGED <<conf, phase, todo, owner>>,
           users' \in [Stores -> [Names -> StoredUser \cup {NoUser}]],
           live' \in [Stores -> SUBSET Jtis], rows' \in SUBSET Jtis,
           split' \in SUBSET (Names \cup Jtis), ended' \in SUBSET Jtis
    PROVE  DualInv'
<1>1. DualTypeOK'
  BY DEF DualInv, DualTypeOK
<1>2. \A q \in Coroutines : call'[q] = IF q = p THEN d ELSE call[q]
  BY DEF DualInv, DualTypeOK
<1>3. ASSUME NEW q \in Coroutines
      PROVE  InOrder(call[q])' /\ OwnSession(call[q])'
  <2>1. InOrder(call'[q]) /\ OwnSession(call'[q])
    BY <1>2 DEF DualInv
  <2>2. QED
    BY <2>1 DEF InOrder, OwnSession, SessionsOf, Primary
<1>4. Resting'
  <2>1. call[p] # NoCall
    BY DEF Busy, NoCall
  <2>2. Main \in Coroutines /\ Procs \subseteq Coroutines
    BY DEF Coroutines
  <2>3. CASE p = Main
    <3>1. phase \in {"boot", "cleanup"}
      BY <2>1, <2>3 DEF DualInv, Resting
    <3>2. QED
      BY <1>2, <2>2, <2>3, <3>1, DualAssumption DEF DualInv, Resting, At
  <2>4. CASE p \in Procs
    <3>1. phase = "up"
      BY <2>1, <2>4 DEF DualInv, Resting
    <3>2. QED
      BY <1>2, <2>2, <2>4, <3>1, DualAssumption DEF DualInv, Resting, At
  <2>5. QED
    BY <2>3, <2>4 DEF Coroutines
<1>5. QED
  BY <1>1, <1>3, <1>4 DEF DualInv

\* A call that is over leaves an outcome of the start-up, or nothing.
LEMMA ReturnedIs ==
    ASSUME NEW p \in Coroutines, NEW n \in Names,
           NEW res \in {"ok", "refused", "lost"}
    PROVE  /\ Returned(p, n, res) \in Outcome \cup {NoCall}
           /\ Returned(p, n, res).pc \in {"idle", "done"}
           /\ p # Main => Returned(p, n, res) = NoCall
           /\ InOrder(Returned(p, n, res)) /\ OwnSession(Returned(p, n, res))
  BY DEF Returned, Outcome, NoCall, InOrder, OwnSession

LEMMA Return_Inv ==
    ASSUME DualInv, NEW p \in Coroutines, Busy(p), NEW n \in Names,
           NEW res \in {"ok", "refused", "lost"},
           call' = [call EXCEPT ![p] = Returned(p, n, res)],
           UNCHANGED <<conf, phase, todo, owner>>,
           users' \in [Stores -> [Names -> StoredUser \cup {NoUser}]],
           live' \in [Stores -> SUBSET Jtis], rows' \in SUBSET Jtis,
           split' \in SUBSET (Names \cup Jtis), ended' \in SUBSET Jtis
    PROVE  DualInv'
<1> DEFINE d == Returned(p, n, res)
<1>1. /\ d \in Call \cup Outcome \cup {NoCall}
      /\ InOrder(d) /\ OwnSession(d) /\ (p # Main => d.pc # "done")
  BY ReturnedIs DEF NoCall
<1> HIDE DEF d
<1>2. call' = [call EXCEPT ![p] = d]
  BY DEF d
<1>3. QED
  BY <1>1, <1>2, StepReplaces

\* How a call fails and how it succeeds.
LEMMA EndIs ==
    ASSUME DualInv, NEW p \in Coroutines, Busy(p)
    PROVE  /\ call[p].name \in Names
           /\ \A res : Fail(p, res) =>
                /\ call' = [call EXCEPT ![p] = Returned(p, call[p].name, res)]
                /\ split' \in {split, split \cup Touches(p)}
                /\ Halfway(p) => split' = split \cup Touches(p)
                /\ split' \in SUBSET (Names \cup Jtis)
                /\ UNCHANGED <<users, live, rows, ended>>
           /\ Succeed(p) =>
                /\ call' = [call EXCEPT ![p] = Returned(p, call[p].name, "ok")]
                /\ split' = split \ Touches(p)
                /\ split' \in SUBSET (Names \cup Jtis)
                /\ ended' = ended \cup call[p].old
                /\ ended' \in SUBSET Jtis
<1>1. call[p].name \in Names /\ call[p].old \subseteq Jtis
  BY BusyCall DEF DualInv, Call
<1>2. split \subseteq Names \cup Jtis /\ ended \subseteq Jtis
  BY DEF DualInv, DualTypeOK
<1>3. ASSUME NEW res, Fail(p, res)
      PROVE  /\ call' = [call EXCEPT ![p] = Returned(p, call[p].name, res)]
             /\ split' \in {split, split \cup Touches(p)}
             /\ Halfway(p) => split' = split \cup Touches(p)
             /\ split' \in SUBSET (Names \cup Jtis)
             /\ UNCHANGED <<users, live, rows, ended>>
  <2>1. call' = [call EXCEPT ![p] = Returned(p, call[p].name, res)]
    BY <1>3, Zenon DEF Fail, Return, Returned
  <2>2. QED
    BY <1>2, <1>3, <2>1, TouchesIs DEF Fail, data
<1>4. ASSUME Succeed(p)
      PROVE  /\ call' = [call EXCEPT ![p] = Returned(p, call[p].name, "ok")]
             /\ split' = split \ Touches(p)
             /\ split' \in SUBSET (Names \cup Jtis)
             /\ ended' = ended \cup call[p].old
             /\ ended' \in SUBSET Jtis
  <2>1. call' = [call EXCEPT ![p] = Returned(p, call[p].name, "ok")]
    BY <1>4, Zenon DEF Succeed, Return, Returned
  <2>2. QED
    BY <1>1, <1>2, <1>4, <2>1 DEF Succeed
<1>5. QED
  BY <1>1, <1>3, <1>4

\* The primary and the mirror are the two stores.
LEMMA TwoStores ==
    ASSUME DualTypeOK
    PROVE  /\ Primary \in Stores /\ Mirror \in Stores /\ Mirror # Primary
           /\ Stores = {Primary, Mirror}
           /\ Stores = {"redis", "postgres"}
<1>1. conf.storage \in Stores
  BY DualAssumption DEF DualTypeOK
<1>2. QED
  BY <1>1 DEF Stores, Primary, Mirror

LEMMA Step_Inv ==
    ASSUME DualInv, NEW p \in Coroutines, Step(p)
    PROVE  DualInv'
<1> DEFINE c == call[p]
           n == call[p].name
<1>1. /\ Busy(p) /\ c \in Call /\ n \in Names
      /\ UNCHANGED <<conf, phase, todo, owner>>
  BY StepCases DEF DualInv, Call
<1>2. /\ InOrder(c) /\ OwnSession(c) /\ c.pc \notin {"idle", "done"}
      /\ (c.op \in {"issue", "revoke"} => c.jti \in Jtis)
  BY <1>1 DEF DualInv, Busy, OwnSession
<1>3. DualTypeOK /\ split \subseteq Names \cup Jtis /\ ended \subseteq Jtis
  BY DEF DualInv, DualTypeOK
<1>4. ASSUME UNCHANGED <<users, live, rows>>
      PROVE  /\ users' \in [Stores -> [Names -> StoredUser \cup {NoUser}]]
             /\ live' \in [Stores -> SUBSET Jtis] /\ rows' \in SUBSET Jtis
  BY <1>4 DEF DualInv, DualTypeOK
<1>5. CASE \E res \in {"refused", "lost"} : Fail(p, res)
  <2>1. PICK res \in {"refused", "lost"} : Fail(p, res)
    BY <1>5
  <2>2. /\ call' = [call EXCEPT ![p] = Returned(p, n, res)]
        /\ split' \in SUBSET (Names \cup Jtis)
        /\ UNCHANGED <<users, live, rows, ended>>
    BY <1>1, <2>1, EndIs
  <2>3. QED
    BY <1>1, <1>3, <1>4, <2>2, Return_Inv
<1>6. CASE Fetched(p)
  <2> DEFINE u == users[Primary][n]
             d == [c EXCEPT !.pc = "save", !.rec = u]
  <2>1. u \in StoredUser \cup {NoUser}
    BY <1>1, <1>3, TwoStores DEF DualTypeOK
  <2>2. c.pc = "get" /\ ~Refuses(c.op, u)
    BY <1>6 DEF Fetched, At
  <2>3. d \in Call /\ InOrder(d) /\ OwnSession(d) /\ d.pc # "done"
    BY <1>1, <1>2, <2>1, <2>2 DEF Call, InOrder, OwnSession
  <2>4. call' = [call EXCEPT ![p] = d] /\ UNCHANGED <<data, split, ended>>
    BY <1>6 DEF Fetched
  <2> HIDE DEF d
  <2>5. QED
    BY <1>1, <1>3, <1>4, <2>3, <2>4, StepReplaces DEF data
<1>7. CASE SavedAlone(p) \/ SavedFirst(p)
  <2> DEFINE e == Storing(c)
  <2>1. c.pc = "save" /\ Write(Primary, e)
    BY <1>7 DEF SavedAlone, SavedFirst, At
  <2>2. /\ e \in Call /\ e.op = c.op /\ e.name = n /\ e.jti = c.jti
        /\ e.old = c.old /\ e.chg = c.chg /\ e.pc = "save"
        /\ c.op \in Writers \ {"delete"} => e.rec \in StoredUser
        /\ c.op = "delete" => e.rec = NoUser
    BY <1>1, <1>2, <2>1, StoringIs
  <2> HIDE DEF e
  <2>3. /\ users' \in [Stores -> [Names -> StoredUser \cup {NoUser}]]
        /\ live' \in [Stores -> SUBSET Jtis] /\ rows' \in SUBSET Jtis
    BY <1>2, <1>3, <2>1, <2>2, TwoStores, WriteEffect
  <2>4. CASE SavedAlone(p)
    <3>1. call' = [call EXCEPT ![p] = Returned(p, n, "ok")]
      BY <2>2, <2>4, Zenon DEF SavedAlone, Return, Returned, e
    <3>2. split' \in SUBSET (Names \cup Jtis) /\ ended' \in SUBSET Jtis
      BY <1>1, <1>3, <2>4, TouchesIs DEF SavedAlone
    <3>3. QED
      BY <1>1, <2>3, <3>1, <3>2, Return_Inv
  <2>5. CASE SavedFirst(p)
    <3> DEFINE pc == IF Primary = "redis" /\ c.op \in Writers THEN "probe"
                     ELSE "mirror"
               d == [e EXCEPT !.pc = pc]
    <3>1. call' = [call EXCEPT ![p] = d] /\ UNCHANGED <<split, ended>>
      BY <2>5 DEF SavedFirst, e
    <3>2. conf.dual
      BY <2>5 DEF SavedFirst
    <3>3. pc \in {"probe", "mirror"} /\ (pc = "probe" => Primary = "redis")
          /\ (c.op \in SessionOps => pc = "mirror")
      BY DEF Writers, SessionOps
    <3> HIDE DEF pc
    <3>4. d \in Call /\ OwnSession(d) /\ d.pc # "done"
      BY <1>2, <2>2, <3>3 DEF Call, OwnSession
    <3>5. InOrder(d)
      BY <1>2, <2>2, <3>2, <3>3, NoUserAssumption DEF Call, InOrder
    <3> HIDE DEF d
    <3>6. QED
      BY <1>1, <1>3, <2>3, <3>1, <3>4, <3>5, StepReplaces
  <2>6. QED
    BY <1>7, <2>4, <2>5
<1>8. CASE Missing(p)
  <2>1. /\ call' = [call EXCEPT ![p] = Returned(p, n, "ok")]
        /\ split' \in SUBSET (Names \cup Jtis) /\ ended' \in SUBSET Jtis
    BY <1>1, <1>8, EndIs DEF Missing
  <2>2. UNCHANGED <<users, live, rows>>
    BY <1>8 DEF Missing, data
  <2>3. QED
    BY <1>1, <1>4, <2>1, <2>2, Return_Inv
<1>9. CASE Probed(p)
  <2> DEFINE new == (users["postgres"][n] = NoUser)
             d == [c EXCEPT !.pc = "mirror", !.new = new]
  <2>1. c.pc = "probe" /\ new \in BOOLEAN
    BY <1>9 DEF Probed, At
  <2>2. call' = [call EXCEPT ![p] = d] /\ UNCHANGED <<data, split, ended>>
    BY <1>9 DEF Probed
  <2> HIDE DEF new
  <2>3. d \in Call /\ InOrder(d) /\ OwnSession(d) /\ d.pc # "done"
    BY <1>1, <1>2, <2>1 DEF Call, InOrder, OwnSession
  <2> HIDE DEF d
  <2>4. QED
    BY <1>1, <1>3, <1>4, <2>2, <2>3, StepReplaces DEF data
<1>10. CASE Mirrored(p)
  <2>1. Write(Mirror, c)
    BY <1>10 DEF Mirrored
  <2>2. /\ users' \in [Stores -> [Names -> StoredUser \cup {NoUser}]]
        /\ live' \in [Stores -> SUBSET Jtis] /\ rows' \in SUBSET Jtis
    BY <1>1, <1>2, <1>3, <2>1, TwoStores, WriteEffect
  <2>3. /\ call' = [call EXCEPT ![p] = Returned(p, n, "ok")]
        /\ split' \in SUBSET (Names \cup Jtis) /\ ended' \in SUBSET Jtis
    BY <1>1, <1>10, EndIs DEF Mirrored
  <2>4. QED
    BY <1>1, <2>2, <2>3, Return_Inv
<1>11. QED
  BY <1>3, <1>5, <1>6, <1>7, <1>8, <1>9, <1>10, StepCases DEF Refused, Lost

\* The call that Begin makes.
Begun(op, n, chg, j, old) ==
    [op |-> op, name |-> n, chg |-> chg, jti |-> j,
     pc |-> IF op \in Writers THEN "get" ELSE "save",
     rec |-> NoUser, new |-> op = "create", old |-> old]

LEMMA BegunIs ==
    ASSUME NEW op \in Writers \cup SessionOps, NEW n \in Names,
           NEW chg \in Change, NEW j \in Jtis \cup {NoUser},
           NEW old \in SUBSET Jtis, op = "create" => chg.pw \in Passwords,
           op \in Writers => old = {}
    PROVE  /\ Begun(op, n, chg, j, old) \in Call
           /\ Begun(op, n, chg, j, old).pc \in {"get", "save"}
           /\ InOrder(Begun(op, n, chg, j, old))
  BY DEF Begun, Call, InOrder, Writers, SessionOps

\* The call that coroutine p makes, and with which arguments.
Asked(p, op, n, chg, j, old) ==
    /\ op = "create" => chg.pw \in Passwords
    /\ op \in Writers => old = {}
    /\ Overlap \/ Free(op, n)
    /\ call' = [call EXCEPT ![p] = Begun(op, n, chg, j, old)]
    /\ \/ /\ op = "issue" /\ j \in Jtis /\ owner[j] = NoUser
          /\ owner' = [owner EXCEPT ![j] = n] /\ old = {}
       \/ /\ op # "issue" /\ owner' = owner
          /\ \A i \in old : Handed(i)
          /\ op = "revoke" => j \in Jtis /\ owner[j] = n /\ old = {j}
          /\ op = "revokeAll" => old \subseteq SessionsOf(n)

LEMMA ServeIs ==
    ASSUME DualInv, NEW p \in Procs, Serve(p)
    PROVE  /\ phase = "up" /\ ~Busy(p)
           /\ UNCHANGED <<conf, phase, todo, users, live, rows, split, ended>>
           /\ \E op \in Writers \cup SessionOps, n \in Names, chg \in Change,
                j \in Jtis \cup {NoUser}, old \in SUBSET Jtis :
                Asked(p, op, n, chg, j, old)
<1>1. Ops[p] \subseteq Writers \cup SessionOps /\ NoChange \in Change
  BY DualAssumption DEF NoChange, Change
<1>2. ASSUME BeginWrite(p)
      PROVE  \E op \in Writers, n \in Names, chg \in Change :
               Asked(p, op, n, chg, NoUser, {})
  <2>1. PICK n \in Names, op \in Ops[p] \cap Writers :
          \E chg \in CASE op = "update" -> Updates
                       [] op = "create" -> {[NoChange EXCEPT !.pw = pw] :
                                                       pw \in Passwords}
                       [] OTHER -> {NoChange} :
            Begin(p, op, n, chg, NoUser, {})
    BY <1>2 DEF BeginWrite
  <2>2. PICK chg \in Change : /\ op = "create" => chg.pw \in Passwords
                              /\ Begin(p, op, n, chg, NoUser, {})
    <3>1. CASE op = "update"
      BY <2>1, <3>1, DualAssumption
    <3>2. CASE op = "create"
      <4>1. PICK pw \in Passwords :
              Begin(p, op, n, [NoChange EXCEPT !.pw = pw], NoUser, {})
        BY <2>1, <3>2
      <4>2. /\ [NoChange EXCEPT !.pw = pw] \in Change
            /\ [NoChange EXCEPT !.pw = pw].pw \in Passwords
        BY DEF NoChange, Change
      <4>3. QED
        BY <4>1, <4>2
    <3>3. CASE op \notin {"update", "create"}
      BY <1>1, <2>1, <3>3
    <3>4. QED
      BY <3>1, <3>2, <3>3
  <2>3. op # "issue" /\ op # "revoke" /\ op # "revokeAll"
    BY DEF Writers
  <2>4. owner' = owner
    BY <1>2 DEF BeginWrite
  <2>5. Asked(p, op, n, chg, NoUser, {})
    BY <2>2, <2>3, <2>4 DEF Begin, Begun, Asked
  <2>6. QED
    BY <2>5
<1>3. ASSUME BeginIssue(p)
      PROVE  \E n \in Names, j \in Jtis : Asked(p, "issue", n, NoChange, j, {})
  <2>1. PICK n \in Names, j \in Jtis :
          /\ owner[j] = NoUser /\ owner' = [owner EXCEPT ![j] = n]
          /\ Begin(p, "issue", n, NoChange, j, {})
    BY <1>3 DEF BeginIssue
  <2>2. Asked(p, "issue", n, NoChange, j, {})
    BY <2>1 DEF Begin, Begun, Asked
  <2>3. QED
    BY <2>2
<1>4. ASSUME BeginRevoke(p)
      PROVE  \E op \in {"revoke", "revokeAll"}, n \in Names,
                j \in Jtis \cup {NoUser}, old \in SUBSET Jtis :
               Asked(p, op, n, NoChange, j, old)
  <2>1. CASE \E j \in Jtis :
               /\ Handed(j)
               /\ Begin(p, "revoke", owner[j], NoChange, j, {j})
    <3>1. PICK j \in Jtis : /\ Handed(j)
                            /\ Begin(p, "revoke", owner[j], NoChange, j, {j})
      BY <2>1
    <3>2. owner[j] \in Names
      BY <3>1 DEF Handed, DualInv, DualTypeOK
    <3>3. Asked(p, "revoke", owner[j], NoChange, j, {j})
      BY <1>4, <3>1 DEF Begin, Begun, Asked, BeginRevoke, Writers
    <3>4. {j} \in SUBSET Jtis
      OBVIOUS
    <3>5. QED
      BY <3>2, <3>3, <3>4
  <2>2. CASE \E n \in Names :
               Begin(p, "revokeAll", n, NoChange, NoUser,
                     {j \in SessionsOf(n) : Handed(j)})
    <3>1. PICK n \in Names : Begin(p, "revokeAll", n, NoChange, NoUser,
                                   {j \in SessionsOf(n) : Handed(j)})
      BY <2>2
    <3> DEFINE old == {j \in SessionsOf(n) : Handed(j)}
    <3>2. /\ old \in SUBSET Jtis /\ old \subseteq SessionsOf(n)
          /\ \A i \in old : Handed(i)
      BY DEF SessionsOf
    <3>3. Begin(p, "revokeAll", n, NoChange, NoUser, old)
      BY <3>1
    <3> HIDE DEF old
    <3>4. Asked(p, "revokeAll", n, NoChange, NoUser, old)
      BY <1>4, <3>2, <3>3 DEF Begin, Begun, Asked, BeginRevoke, Writers
    <3>5. QED
      BY <3>2, <3>4
  <2>3. QED
    BY <1>4, <2>1, <2>2 DEF BeginRevoke
<1>5. \E op \in Writers \cup SessionOps, n \in Names, chg \in Change,
         j \in Jtis \cup {NoUser}, old \in SUBSET Jtis :
        Asked(p, op, n, chg, j, old)
  <2>1. {"issue", "revoke", "revokeAll"} \subseteq Writers \cup SessionOps
    BY DEF SessionOps
  <2>2. {} \in SUBSET Jtis /\ NoUser \in Jtis \cup {NoUser}
    OBVIOUS
  <2>3. CASE BeginWrite(p)
    BY <1>2, <2>2, <2>3
  <2>4. CASE BeginIssue(p)
    BY <1>1, <1>3, <2>1, <2>2, <2>4
  <2>5. CASE BeginRevoke(p)
    BY <1>1, <1>4, <2>1, <2>5
  <2>6. QED
    BY <2>3, <2>4, <2>5 DEF Serve
<1>6. phase = "up" /\ UNCHANGED <<conf, phase, todo, users, live, rows, split, ended>>
  BY DEF Serve, data
<1>7. ~Busy(p)
  BY Zenon DEF Serve, BeginWrite, BeginIssue, BeginRevoke, Begin
<1>8. QED
  BY <1>5, <1>6, <1>7

LEMMA Serve_Inv ==
    ASSUME DualInv, NEW p \in Procs, Serve(p)
    PROVE  DualInv'
<1>1. /\ phase = "up" /\ ~Busy(p)
      /\ UNCHANGED <<conf, phase, todo, users, live, rows, split, ended>>
  BY ServeIs
<1>2. PICK op \in Writers \cup SessionOps, n \in Names, chg \in Change,
           j \in Jtis \cup {NoUser}, old \in SUBSET Jtis :
        Asked(p, op, n, chg, j, old)
  BY ServeIs
<1> DEFINE d == Begun(op, n, chg, j, old)
<1>3. /\ d \in Call /\ d.pc \in {"get", "save"} /\ InOrder(d)
      /\ d.op = op /\ d.name = n /\ d.jti = j /\ d.old = old
  BY <1>2, BegunIs DEF Begun, Asked
<1>4. call' = [call EXCEPT ![p] = d]
  BY <1>2 DEF Asked
<1> HIDE DEF d
<1>5. /\ owner' \in [Jtis -> Names \cup {NoUser}]
      /\ \A i \in Jtis : owner[i] # NoUser => owner'[i] = owner[i]
      /\ op = "issue" => j \in Jtis /\ owner'[j] = n /\ old = {}
      /\ op # "issue" => owner' = owner
  BY <1>2 DEF DualInv, DualTypeOK, Asked
<1>6. Main \in Coroutines /\ Procs \subseteq Coroutines /\ p # Main
  BY DualAssumption DEF Coroutines
<1>7. \A q \in Coroutines : call'[q] = IF q = p THEN d ELSE call[q]
  BY <1>4, <1>6 DEF DualInv, DualTypeOK
<1>8. /\ op = "revoke" => j \in Jtis /\ owner'[j] = n /\ old = {j}
      /\ op = "revokeAll" => old \subseteq SessionsOf(n)'
  BY <1>2, <1>5 DEF SessionsOf, Asked
<1>9. DualTypeOK'
  BY <1>1, <1>3, <1>4, <1>5, <1>6 DEF DualInv, DualTypeOK
<1>10. ASSUME NEW q \in Coroutines
      PROVE  InOrder(call[q])' /\ OwnSession(call[q])'
  <2>1. InOrder(call'[q])
    BY <1>3, <1>7 DEF DualInv
  <2>2. CASE q = p
    <3>1. OwnSession(call[q])'
      BY <1>3, <1>5, <1>7, <1>8, <2>2 DEF OwnSession, SessionsOf
    <3>2. QED
      BY <1>1, <2>1, <3>1 DEF InOrder, OwnSession, Primary
  <2>3. CASE q # p
    <3>1. OwnSession(call[q]) /\ call'[q] = call[q]
      BY <1>7, <2>3 DEF DualInv
    <3>2. call[q] \in Call \cup Outcome \cup {NoCall}
      BY DEF DualInv, DualTypeOK
    <3>3. call[q].pc \notin {"idle", "done"} => call[q] \in Call
      BY <3>2 DEF Outcome, NoCall
    <3>4. OwnSession(call[q])'
      BY <1>5, <3>1, <3>3, DualAssumption DEF OwnSession, SessionsOf, Call
    <3>5. QED
      BY <1>1, <2>1, <3>4 DEF InOrder, Primary
  <2>4. QED
    BY <2>2, <2>3
<1>11. Resting'
  BY <1>1, <1>3, <1>6, <1>7 DEF DualInv, Resting, At
<1>12. QED
  BY <1>9, <1>10, <1>11 DEF DualInv

\* Outside of calls nothing is to be in order.
LEMMA NoCallInOrder ==
    /\ NoCall \in Call \cup Outcome \cup {NoCall}
    /\ NoCall.pc = "idle" /\ InOrder(NoCall) /\ OwnSession(NoCall)
  BY DEF NoCall, InOrder, OwnSession

LEMMA Init_Inv == DualInit => DualInv
<1> SUFFICES ASSUME DualInit
             PROVE  DualInv
  OBVIOUS
<1>1. \A p \in Coroutines : call[p] = NoCall
  BY DEF DualInit
<1>2. Main \in Coroutines /\ Procs \subseteq Coroutines
  BY DEF Coroutines
<1>3. DualTypeOK
  BY NoCallInOrder DEF DualInit, DualTypeOK, Phases, Stores
<1>4. Resting
  BY <1>1, <1>2, NoCallInOrder DEF Resting, DualInit, At
<1>5. QED
  BY <1>1, <1>3, <1>4, NoCallInOrder DEF DualInv

LEMMA Start_Inv ==
    ASSUME DualInv, NEW c \in Configs, Start(c)
    PROVE  DualInv'
<1>1. /\ phase \in {"down", "failed"} /\ phase' = "boot"
      /\ conf' = c /\ todo' = c.boot
      /\ UNCHANGED <<data, owner, call, split, ended>>
  BY DEF Start
<1>2. \A p \in Coroutines : call[p] = NoCall
  BY <1>1 DEF DualInv, Resting, Coroutines
<1>3. Main \in Coroutines /\ Procs \subseteq Coroutines
  BY DEF Coroutines
<1>4. c.boot \subseteq Names
  BY DualAssumption
<1>5. DualTypeOK'
  BY <1>1, <1>4 DEF DualInv, DualTypeOK, Phases, data
<1>6. \A p \in Coroutines : InOrder(call[p])' /\ OwnSession(call[p])'
  BY <1>1, <1>2, NoCallInOrder DEF InOrder, OwnSession
<1>7. Resting'
  BY <1>1, <1>2, <1>3, NoCallInOrder DEF Resting, At
<1>8. QED
  BY <1>5, <1>6, <1>7 DEF DualInv

\* The calls of the start-up.
LEMMA BootBegins ==
    ASSUME DualInv, NEW op \in {"create", "update", "delete"},
           NEW n \in Names, NEW chg \in {BootChange, NoChange},
           op = "create" => chg = BootChange,
           phase \in {"boot", "cleanup"}, phase' \in {"boot", "cleanup"},
           Begin(Main, op, n, chg, NoUser, {}),
           UNCHANGED <<conf, todo, data, owner, split, ended>>
    PROVE  /\ DualInv'
           /\ call' = [call EXCEPT ![Main] = Begun(op, n, chg, NoUser, {})]
<1> DEFINE d == Begun(op, n, chg, NoUser, {})
<1>1. /\ chg \in Change /\ (op = "create" => chg.pw \in Passwords)
      /\ op \in Writers
  <2>1. BootChange \in Change /\ NoChange \in Change
    BY DualAssumption DEF BootChange, NoChange, Change
  <2>2. BootChange.pw \in Passwords
    BY DualAssumption DEF BootChange
  <2>3. QED
    BY <2>1, <2>2 DEF Writers
<1>2. d \in Call /\ d.pc \in {"get", "save"} /\ InOrder(d) /\ d.op = op
  BY <1>1, BegunIs DEF Begun
<1>3. call' = [call EXCEPT ![Main] = d]
  BY DEF Begin, Begun
<1> HIDE DEF d
<1>4. OwnSession(d)
  BY <1>2 DEF OwnSession
<1>5. Main \in Coroutines /\ Procs \subseteq Coroutines /\ Main \notin Procs
  BY DualAssumption DEF Coroutines
<1>6. \A q \in Coroutines : call'[q] = IF q = Main THEN d ELSE call[q]
  BY <1>3, <1>5 DEF DualInv, DualTypeOK
<1>7. DualTypeOK'
  BY <1>2, <1>3, <1>5 DEF DualInv, DualTypeOK, Phases, data
<1>8. ASSUME NEW q \in Coroutines
      PROVE  InOrder(call[q])' /\ OwnSession(call[q])'
  <2>1. InOrder(call'[q]) /\ OwnSession(call'[q])
    BY <1>2, <1>4, <1>6 DEF DualInv
  <2>2. QED
    BY <2>1 DEF InOrder, OwnSession, SessionsOf, Primary
<1>9. Resting'
  BY <1>2, <1>5, <1>6 DEF DualInv, Resting, At
<1>10. QED
  BY <1>3, <1>7, <1>8, <1>9 DEF DualInv, d

LEMMA BootUser_Inv ==
    ASSUME DualInv, NEW n \in Names, BootUser(n)
    PROVE  DualInv'
<1>1. /\ phase = "boot"
      /\ Begin(Main, IF Known(n) THEN "update" ELSE "create", n, BootChange,
               NoUser, {})
      /\ UNCHANGED <<conf, phase, todo, data, owner, split, ended>>
  BY DEF BootUser, BootChange
<1>2. QED
  BY <1>1, BootBegins

LEMMA Cleanup_Inv ==
    ASSUME DualInv, Cleanup
    PROVE  DualInv'
<1>1. CASE phase' = "up" /\ UNCHANGED call
  <2>1. /\ phase = "boot" /\ At(Main, "idle")
        /\ UNCHANGED <<conf, todo, data, owner, split, ended>>
    BY DEF Cleanup
  <2>2. Main \in Coroutines /\ Procs \subseteq Coroutines
    BY DEF Coroutines
  <2>3. call[Main] = NoCall
    BY <2>1, <2>2 DEF DualInv, DualTypeOK, At, Call, Outcome
  <2>4. DualTypeOK'
    BY <1>1, <2>1 DEF DualInv, DualTypeOK, Phases, data
  <2>5. \A p \in Coroutines : InOrder(call[p])' /\ OwnSession(call[p])'
    BY <1>1, <2>1 DEF DualInv, InOrder, OwnSession, SessionsOf, Primary
  <2>6. Resting'
    BY <1>1, <2>1, <2>2, <2>3 DEF DualInv, Resting, At
  <2>7. QED
    BY <2>4, <2>5, <2>6 DEF DualInv
<1>2. CASE phase' = "cleanup" /\ Begin(Main, "delete", Legacy, NoChange, NoUser, {})
  BY <1>2, BootBegins, DualAssumption DEF Cleanup
<1>3. QED
  BY <1>1, <1>2 DEF Cleanup

LEMMA BootReturns_Inv ==
    ASSUME DualInv, BootReturns
    PROVE  DualInv'
<1>1. /\ call[Main].pc = "done" /\ call' = [call EXCEPT ![Main] = NoCall]
      /\ UNCHANGED <<conf, data, owner, split, ended>>
      /\ todo' \subseteq todo
  BY DEF BootReturns, At
<1>2. Main \in Coroutines /\ Procs \subseteq Coroutines /\ Main \notin Procs
  BY DualAssumption DEF Coroutines
<1>3. call[Main] \in Outcome
  BY <1>1, <1>2 DEF DualInv, DualTypeOK, Call, NoCall
<1>4. phase' \in Phases /\ phase \in {"boot", "cleanup"}
  <2>1. phase \in {"boot", "cleanup"}
    BY <1>1 DEF DualInv, Resting, NoCall
  <2>2. call[Main].res \in {"ok", "refused", "lost"}
    BY <1>3 DEF Outcome
  <2>3. QED
    BY <2>1, <2>2 DEF BootReturns, Phases
<1>5. \A q \in Coroutines : call'[q] = IF q = Main THEN NoCall ELSE call[q]
  BY <1>1, <1>2 DEF DualInv, DualTypeOK
<1>6. DualTypeOK'
  BY <1>1, <1>2, <1>4, NoCallInOrder DEF DualInv, DualTypeOK, data
<1>7. ASSUME NEW q \in Coroutines
      PROVE  InOrder(call[q])' /\ OwnSession(call[q])'
  <2>1. InOrder(call'[q]) /\ OwnSession(call'[q])
    BY <1>5, NoCallInOrder DEF DualInv
  <2>2. QED
    BY <1>1, <2>1 DEF InOrder, OwnSession, SessionsOf, Primary
<1>8. Resting'
  BY <1>2, <1>4, <1>5 DEF DualInv, Resting, At
<1>9. QED
  BY <1>6, <1>7, <1>8 DEF DualInv

LEMMA Stop_Inv ==
    ASSUME DualInv, Stop
    PROVE  DualInv'
<1>1. /\ phase' = "down" /\ todo' = {}
      /\ call' = [p \in Coroutines |-> NoCall]
      /\ UNCHANGED <<conf, data, owner, ended>>
      /\ split' = split \cup UNION {Touches(p) : p \in {q \in Coroutines : Halfway(q)}}
  BY DEF Stop
<1>2. \A p \in Coroutines : Halfway(p) => Touches(p) \subseteq Names \cup Jtis
  BY TouchesIs DEF Halfway, At, Busy
<1>3. split' \in SUBSET (Names \cup Jtis)
  BY <1>1, <1>2 DEF DualInv, DualTypeOK
<1>4. Main \in Coroutines /\ Procs \subseteq Coroutines
  BY DEF Coroutines
<1>5. DualTypeOK'
  BY <1>1, <1>3, NoCallInOrder DEF DualInv, DualTypeOK, Phases, data
<1>6. ASSUME NEW q \in Coroutines
      PROVE  InOrder(call[q])' /\ OwnSession(call[q])'
  BY <1>1, NoCallInOrder DEF InOrder, OwnSession
<1>7. Resting'
  BY <1>1, <1>4, NoCallInOrder DEF Resting, At
<1>8. QED
  BY <1>5, <1>6, <1>7 DEF DualInv

LEMMA Next_Inv == DualInv /\ [DualNext]_vars => DualInv'
<1> SUFFICES ASSUME DualInv, [DualNext]_vars
             PROVE  DualInv'
  OBVIOUS
<1>1. ASSUME NEW p \in Procs, Serve(p)
      PROVE  DualInv'
  BY <1>1, Serve_Inv
<1>2. ASSUME NEW p \in Coroutines, Step(p)
      PROVE  DualInv'
  BY <1>2, Step_Inv
<1>3. ASSUME NEW c \in Configs, Start(c)
      PROVE  DualInv'
  BY <1>3, Start_Inv
<1>4. ASSUME NEW n \in Names, BootUser(n)
      PROVE  DualInv'
  BY <1>4, BootUser_Inv
<1>5. CASE UNCHANGED vars
  BY <1>5 DEF vars, data, DualInv, DualTypeOK, InOrder, OwnSession, SessionsOf,
              Primary, Resting, At
<1>6. QED
  BY <1>1, <1>2, <1>3, <1>4, <1>5, Cleanup_Inv, BootReturns_Inv, Stop_Inv
     DEF DualNext

\* Whatever requests, start-ups, faults and switches of the settings do, calls
\* hold accounts and sessions of the right kind and take their steps in order
\* (user_service.py:110-383, token_session_service.py:62-230).
THEOREM DualTypeCorrect == DualSpec => []DualTypeOK
<1>1. DualInv => DualTypeOK
  BY DEF DualInv
<1>2. QED
  BY <1>1, Init_Inv, Next_Inv, PTL DEF DualSpec

\* A step ends the call or takes it further; what it is about stays.
Further(d, c) ==
    \/ d.pc \in {"idle", "done"}
    \/ /\ d.pc \notin {"idle", "done"}
       /\ d.op = c.op /\ d.name = c.name /\ d.jti = c.jti
       /\ d.chg = c.chg /\ d.old = c.old

LEMMA StepGoesFurther ==
    ASSUME DualInv, NEW p \in Coroutines, Step(p)
    PROVE  \E d : call' = [call EXCEPT ![p] = d] /\ Further(d, call[p])
<1> DEFINE c == call[p]
<1>1. Busy(p) /\ c \in Call /\ c.name \in Names /\ InOrder(c)
  BY StepCases DEF DualInv, Call
<1>2. ASSUME NEW res \in {"ok", "refused", "lost"},
             call' = [call EXCEPT ![p] = Returned(p, c.name, res)]
      PROVE  \E d : call' = [call EXCEPT ![p] = d] /\ Further(d, c)
  <2>1. Further(Returned(p, c.name, res), c)
    BY <1>1, ReturnedIs DEF Further
  <2>2. QED
    BY <1>2, <2>1
<1>3. CASE Fetched(p)
  <2> DEFINE d == [c EXCEPT !.pc = "save", !.rec = users[Primary][c.name]]
  <2>1. Further(d, c)
    BY <1>1 DEF Call, Further
  <2>2. call' = [call EXCEPT ![p] = d]
    BY <1>3 DEF Fetched
  <2>3. QED
    BY <2>1, <2>2
<1>4. CASE Probed(p)
  <2> DEFINE d == [c EXCEPT !.pc = "mirror",
                            !.new = (users["postgres"][c.name] = NoUser)]
  <2>1. Further(d, c)
    BY <1>1 DEF Call, Further
  <2>2. call' = [call EXCEPT ![p] = d]
    BY <1>4 DEF Probed
  <2>3. QED
    BY <2>1, <2>2
<1>5. CASE SavedFirst(p)
  <2> DEFINE pc == IF Primary = "redis" /\ c.op \in Writers THEN "probe"
                   ELSE "mirror"
             d == [Storing(c) EXCEPT !.pc = pc]
  <2>1. /\ Storing(c) \in Call /\ Storing(c).op = c.op
        /\ Storing(c).name = c.name /\ Storing(c).jti = c.jti
        /\ Storing(c).chg = c.chg /\ Storing(c).old = c.old
    BY <1>1, <1>5, StoringIs DEF SavedFirst, At
  <2>2. Further(d, c)
    BY <2>1 DEF Call, Further
  <2>3. call' = [call EXCEPT ![p] = d]
    BY <1>5 DEF SavedFirst
  <2>4. QED
    BY <2>2, <2>3
<1>6. CASE SavedAlone(p)
  <2>1. Storing(c).name = c.name
    BY <1>1, <1>6, StoringIs DEF SavedAlone, At
  <2>2. call' = [call EXCEPT ![p] = Returned(p, c.name, "ok")]
    BY <1>6, <2>1, Zenon DEF SavedAlone, Return, Returned
  <2>3. QED
    BY <1>2, <2>2
<1>7. CASE Missing(p) \/ Mirrored(p)
  BY <1>1, <1>2, <1>7, EndIs DEF Missing, Mirrored
<1>8. CASE Refused(p) \/ Lost(p)
  <2>1. PICK res \in {"refused", "lost"} : Fail(p, res)
    BY <1>8 DEF Refused, Lost
  <2>2. QED
    BY <1>1, <1>2, <2>1, EndIs
<1>9. QED
  BY <1>3, <1>4, <1>5, <1>6, <1>7, <1>8, StepCases DEF DualInv

\* So after a step every call that is under way was under way before.
LEMMA StepKeepsCalls ==
    ASSUME DualInv, NEW p \in Coroutines, Step(p),
           NEW q \in Coroutines, Busy(q)'
    PROVE  /\ Busy(q)
           /\ call'[q].op = call[q].op /\ call'[q].name = call[q].name
           /\ call'[q].jti = call[q].jti /\ call'[q].chg = call[q].chg
           /\ call'[q].old = call[q].old
<1>1. PICK d : call' = [call EXCEPT ![p] = d] /\ Further(d, call[p])
  BY StepGoesFurther
<1>2. call'[q] = IF q = p THEN d ELSE call[q]
  BY <1>1 DEF DualInv, DualTypeOK
<1>3. Busy(p)
  BY StepCases DEF DualInv
<1>4. QED
  BY <1>1, <1>2, <1>3 DEF Busy, Further

-----------------------------------------------------------------------------
(* Ended sessions *)

\* No step begins to issue a token.
LEMMA StepKeepsHanded ==
    ASSUME DualInv, NEW p \in Coroutines, Step(p), NEW j \in Jtis, Handed(j)
    PROVE  Handed(j)'
<1>1. UNCHANGED owner
  BY StepCases DEF DualInv
<1>2. QED
  BY <1>1, StepKeepsCalls DEF Handed

\* A step makes no session active but the one it issues.
LEMMA StepKeepsDead ==
    ASSUME DualInv, NEW p \in Coroutines, Step(p), NEW s \in Stores,
           NEW j \in Jtis, Handed(j), j \notin live[s]
    PROVE  j \notin live'[s]
<1> DEFINE c == call[p]
<1>1. Busy(p) /\ c \in Call /\ InOrder(c) /\ DualTypeOK
      /\ (c.op \in {"issue", "revoke"} => c.jti \in Jtis)
  BY StepCases DEF DualInv, Busy, OwnSession
<1>2. c.op = "issue" => c.jti # j
  BY <1>1 DEF Handed
<1>3. ASSUME NEW t \in Stores, NEW e \in Call, e.op = c.op, e.jti = c.jti,
             Write(t, e)
      PROVE  j \notin live'[s]
  <2>1. e.op \in Writers \cup SessionOps
    BY DEF Call
  <2>2. /\ e.op \in Writers => live' = live
        /\ e.op = "issue" => live'[t] = live[t] \cup {e.jti}
        /\ e.op = "revoke" => live'[t] = live[t] \ {e.jti}
        /\ e.op = "revokeAll" => live'[t] = live[t] \ SessionsOf(e.name)
        /\ \A r \in Stores \ {t} : live'[r] = live[r]
    BY <1>1, <1>3, WriteEffect
  <2>3. QED
    BY <1>2, <1>3, <2>1, <2>2 DEF SessionOps
<1>4. CASE SavedAlone(p) \/ SavedFirst(p)
  <2>1. /\ Storing(c) \in Call /\ Storing(c).op = c.op
        /\ Storing(c).jti = c.jti
    BY <1>1, <1>4, StoringIs DEF SavedAlone, SavedFirst, At
  <2>2. QED
    BY <1>1, <1>3, <1>4, <2>1, TwoStores DEF SavedAlone, SavedFirst
<1>5. CASE Mirrored(p)
  BY <1>1, <1>3, <1>5, TwoStores DEF Mirrored
<1>6. CASE UNCHANGED live
  BY <1>6
<1>7. QED
  BY <1>1, <1>4, <1>5, <1>6, StepCases, EndIs
     DEF Fetched, Missing, Probed, Refused, Lost, data

\* A write takes from its store what the call is to end.
LEMMA WriteEnds ==
    ASSUME DualTypeOK, NEW s \in Stores, NEW e \in Call, OwnSession(e),
           e.op \in Writers => e.old = {}, e.pc \notin {"idle", "done"},
           Write(s, e),
           NEW j \in e.old
    PROVE  j \notin live'[s]
<1>1. e.op \in {"revoke", "revokeAll"}
  BY DEF OwnSession, Call, SessionOps
<1>2. CASE e.op = "revoke"
  <2>1. e.jti \in Jtis /\ e.old = {e.jti}
    BY <1>2 DEF OwnSession
  <2>2. live'[s] = live[s] \ {e.jti}
    BY <1>2, <2>1, WriteEffect
  <2>3. QED
    BY <2>1, <2>2
<1>3. CASE e.op = "revokeAll"
  <2>1. e.old \subseteq SessionsOf(e.name)
    BY <1>3 DEF OwnSession
  <2>2. live'[s] = live[s] \ SessionsOf(e.name)
    BY <1>3, WriteEffect
  <2>3. QED
    BY <2>1, <2>2
<1>4. QED
  BY <1>1, <1>2, <1>3

LEMMA Ends_Step ==
    ASSUME DualInv, EndsComing, NEW p \in Coroutines, Step(p)
    PROVE  EndsComing'
<1> DEFINE c == call[p]
<1>1. /\ Busy(p) /\ c \in Call /\ InOrder(c) /\ OwnSession(c)
      /\ c.pc \notin {"idle", "done"} /\ c.old \subseteq Jtis /\ DualTypeOK
      /\ ended \subseteq Jtis /\ UNCHANGED <<conf, owner>>
  BY StepCases DEF DualInv, DualTypeOK, Busy, Call
<1>2. \/ ended' = ended
      \/ Mirrored(p) /\ ended' = ended \cup c.old
  <2>1. CASE Missing(p)
    BY <1>1, <2>1, EndIs DEF Missing, InOrder, Writers
  <2>2. CASE Mirrored(p)
    BY <1>1, <2>2, EndIs DEF Mirrored
  <2>3. QED
    BY <1>1, <2>1, <2>2, StepCases, EndIs
       DEF Fetched, SavedAlone, SavedFirst, Probed, Refused, Lost
<1>3. ASSUME NEW j \in ended'
      PROVE  j \in Jtis /\ Handed(j)
  <2>1. CASE j \in ended
    BY <1>1, <2>1 DEF EndsComing
  <2>2. CASE j \in c.old
    BY <1>1, <2>2 DEF EndsComing
  <2>3. QED
    BY <1>2, <1>3, <2>1, <2>2
<1>4. ASSUME NEW j \in ended', NEW s \in Stores
      PROVE  j \notin live'[s]
  <2>1. CASE j \in ended
    BY <1>3, <2>1, StepKeepsDead DEF EndsComing, EndedEverywhere
  <2>2. CASE Mirrored(p) /\ j \in c.old
    <3>1. j \notin live[Primary]
      <4>1. Halfway(p)
        BY <2>2 DEF Halfway, Mirrored
      <4>2. QED
        BY <1>1, <2>2, <4>1 DEF EndsComing
    <3>2. CASE s = Primary
      BY <1>3, <3>1, <3>2, StepKeepsDead
    <3>3. CASE s = Mirror
      BY <1>1, <2>2, <3>3, TwoStores, WriteEnds DEF Mirrored, InOrder
    <3>4. QED
      BY <1>1, <3>2, <3>3, TwoStores
  <2>3. QED
    BY <1>2, <2>1, <2>2
<1>5. ASSUME NEW q \in Coroutines, Busy(q)', NEW j \in call'[q].old
      PROVE  j \in Jtis /\ Handed(j) /\ j \in call[q].old /\ Busy(q)
  <2>1. Busy(q) /\ call'[q].old = call[q].old
    BY <1>5, StepKeepsCalls
  <2>2. call[q].old \subseteq Jtis
    BY <1>1, <2>1, BusyCall DEF Call
  <2>3. j \in call[q].old
    BY <1>5, <2>1
  <2>4. Handed(j)
    BY <2>1, <2>3 DEF EndsComing
  <2>5. QED
    BY <2>1, <2>2, <2>3, <2>4
<1>6. ASSUME NEW q \in Coroutines, Busy(q)', NEW j \in call'[q].old, Halfway(q)'
      PROVE  j \notin live'[Primary]
  <2>1. CASE Halfway(q)
    <3>1. j \notin live[Primary]
      BY <1>5, <1>6, <2>1 DEF EndsComing
    <3>2. QED
      BY <1>1, <1>5, <1>6, <3>1, StepKeepsDead, TwoStores
  <2>2. CASE ~Halfway(q)
    <3>1. q = p /\ SavedFirst(p)
      <4>1. PICK d : call' = [call EXCEPT ![p] = d] /\ Further(d, c)
        BY StepGoesFurther
      <4>2. q = p
        BY <1>1, <1>6, <2>2, <4>1 DEF DualTypeOK, Halfway, At
      <4>3. call'[p].pc \in {"probe", "mirror"} /\ c.pc \notin {"probe", "mirror"}
        BY <1>6, <2>2, <4>2 DEF Halfway, At
      <4>4. ~Fetched(p)
        <5>1. Fetched(p) => call'[p].pc = "save"
          BY <1>1 DEF Fetched, DualTypeOK, Call
        <5>2. QED
          BY <4>3, <5>1
      <4>5. ~Probed(p) /\ ~Missing(p) /\ ~Mirrored(p)
        BY <4>3 DEF Probed, Missing, Mirrored, At
      <4>6. ASSUME NEW res \in {"ok", "refused", "lost"},
                   call' = [call EXCEPT ![p] = Returned(p, c.name, res)]
            PROVE  FALSE
        <5>1. Returned(p, c.name, res).pc \in {"idle", "done"}
          BY <1>1, ReturnedIs DEF Call
        <5>2. QED
          BY <1>1, <4>3, <4>6, <5>1 DEF DualTypeOK
      <4>7. ~SavedAlone(p)
        <5>1. ASSUME SavedAlone(p)
              PROVE  Storing(c).name = c.name
          BY <1>1, <5>1, StoringIs DEF SavedAlone, At
        <5>2. ASSUME SavedAlone(p)
              PROVE  call' = [call EXCEPT ![p] = Returned(p, c.name, "ok")]
          BY <5>1, <5>2, Zenon DEF SavedAlone, Return, Returned
        <5>3. QED
          BY <4>6, <5>2
      <4>8. ~Refused(p) /\ ~Lost(p)
        BY <1>1, <4>6, EndIs DEF Refused, Lost
      <4>9. QED
        BY <4>2, <4>4, <4>5, <4>7, <4>8, StepCases DEF DualInv
    <3> DEFINE e == Storing(c)
    <3>2. /\ e \in Call /\ e.op = c.op /\ e.jti = c.jti /\ e.old = c.old
          /\ e.name = c.name /\ Write(Primary, e)
      BY <1>1, <3>1, StoringIs DEF SavedFirst, At
    <3>3. j \in c.old
      BY <1>5, <1>6, <3>1
    <3> HIDE DEF e
    <3>4. j \notin live'[Primary]
      <4>1. e.pc \notin {"idle", "done"}
        BY <1>1, <3>1, StoringIs DEF e, SavedFirst, At
      <4>2. OwnSession(e) /\ (e.op \in Writers => e.old = {})
        BY <1>1, <3>2, <4>1 DEF OwnSession, InOrder
      <4>3. QED
        BY <1>1, <3>2, <3>3, <4>1, <4>2, TwoStores, WriteEnds
    <3>5. QED
      BY <1>1, <3>4 DEF Primary
  <2>3. QED
    BY <2>1, <2>2
<1>7. \A j \in ended' : Handed(j)'
  BY <1>3, StepKeepsHanded
<1>8. \A q \in Coroutines : Busy(q)' => \A j \in call'[q].old : Handed(j)'
  BY <1>5, StepKeepsHanded
<1>9. QED
  BY <1>1, <1>4, <1>6, <1>7, <1>8 DEF EndsComing, EndedEverywhere, Primary

\* A token that is handed out, or never issued, is not one just being issued.
LEMMA Ends_Serve ==
    ASSUME DualInv, EndsComing, NEW p \in Procs, Serve(p)
    PROVE  EndsComing'
<1>1. PICK op \in Writers \cup SessionOps, n \in Names, chg \in Change,
           j \in Jtis \cup {NoUser}, old \in SUBSET Jtis :
        Asked(p, op, n, chg, j, old)
  BY ServeIs
<1>2. ~Busy(p) /\ UNCHANGED <<conf, users, live, rows, split, ended>>
  BY ServeIs
<1> DEFINE d == Begun(op, n, chg, j, old)
<1>3. /\ d.op = op /\ d.jti = j /\ d.old = old /\ d.pc \in {"get", "save"}
  BY <1>1, BegunIs DEF Begun
<1>4. p \in Coroutines
  BY DEF Coroutines
<1>5. \A q \in Coroutines : call'[q] = IF q = p THEN d ELSE call[q]
  BY <1>1, <1>4 DEF Asked, DualInv, DualTypeOK
<1>6. op = "issue" => owner[j] = NoUser /\ j \in Jtis /\ old = {}
  BY <1>1 DEF Asked
<1>7. \A i \in Jtis : owner[i] # NoUser => owner'[i] = owner[i]
  BY <1>1 DEF Asked, DualInv, DualTypeOK
<1>8. \A i \in old : Handed(i)
  BY <1>1, <1>6 DEF Asked
<1> HIDE DEF d
<1>9. ASSUME NEW i \in Jtis, Handed(i)
      PROVE  Handed(i)'
  <2>1. owner'[i] # NoUser
    BY <1>7, <1>9 DEF Handed
  <2>2. ASSUME NEW q \in Coroutines, Busy(q)', call'[q].op = "issue"
        PROVE  call'[q].jti # i
    BY <1>3, <1>5, <1>6, <1>9, <2>2 DEF Handed, Busy
  <2>3. QED
    BY <2>1, <2>2 DEF Handed
<1>10. ended \subseteq Jtis
  BY DEF DualInv, DualTypeOK
<1>11. ASSUME NEW q \in Coroutines, Busy(q)', NEW i \in call'[q].old
       PROVE  Handed(i)' /\ (Halfway(q)' => i \notin live'[Primary])
  <2>1. CASE q = p
    BY <1>3, <1>4, <1>5, <1>8, <1>9, <1>11, <2>1 DEF Halfway, At
  <2>2. CASE q # p
    <3>1. Busy(q) /\ i \in call[q].old /\ (Halfway(q)' => Halfway(q))
      BY <1>5, <1>11, <2>2 DEF Busy, Halfway, At
    <3>2. call[q].old \subseteq Jtis
      BY <3>1, BusyCall DEF DualInv, Call
    <3>3. QED
      BY <1>2, <1>9, <3>1, <3>2 DEF EndsComing
  <2>3. QED
    BY <2>1, <2>2
<1>12. QED
  BY <1>2, <1>9, <1>10, <1>11 DEF EndsComing, EndedEverywhere, Primary

\* The start-up ends no session, and nor does a stop.
LEMMA Ends_Rest ==
    ASSUME DualInv, EndsComing,
           \/ \E c \in Configs : Start(c)
           \/ \E n \in Names : BootUser(n)
           \/ Cleanup \/ BootReturns \/ Stop \/ UNCHANGED vars
    PROVE  EndsComing'
<1>1. UNCHANGED <<live, owner, ended>>
  BY DEF Start, BootUser, Cleanup, BootReturns, Stop, vars, data
<1>2. ASSUME NEW q \in Coroutines, Busy(q)'
      PROVE  \/ /\ UNCHANGED conf
                /\ Busy(q) /\ call'[q] = call[q]
             \/ call'[q].op # "issue" /\ call'[q].old = {}
  <2>1. ASSUME NEW c \in Configs, Start(c)
        PROVE  FALSE
    <3>1. call[q] = NoCall /\ call' = call
      BY <2>1 DEF Start, DualInv, Resting, Coroutines
    <3>2. QED
      BY <1>2, <3>1 DEF Busy, NoCall
  <2>2. ASSUME NEW op \in {"create", "update", "delete"}, NEW n \in Names,
               NEW chg \in {BootChange, NoChange},
               op = "create" => chg = BootChange,
               phase \in {"boot", "cleanup"}, phase' \in {"boot", "cleanup"},
               Begin(Main, op, n, chg, NoUser, {}),
               UNCHANGED <<conf, todo, data, owner, split, ended>>
        PROVE  \/ Busy(q) /\ call'[q] = call[q]
               \/ call'[q].op # "issue" /\ call'[q].old = {}
    <3>1. call' = [call EXCEPT ![Main] = Begun(op, n, chg, NoUser, {})]
      BY <2>2, BootBegins
    <3>2. /\ Begun(op, n, chg, NoUser, {}).op # "issue"
          /\ Begun(op, n, chg, NoUser, {}).old = {}
      BY DEF Begun
    <3>3. QED
      BY <1>2, <3>1, <3>2 DEF DualInv, DualTypeOK, Busy
  <2>3. ASSUME NEW n \in Names, BootUser(n)
        PROVE  UNCHANGED conf /\ \/ Busy(q) /\ call'[q] = call[q]
                                 \/ call'[q].op # "issue" /\ call'[q].old = {}
    <3>1. /\ phase = "boot"
          /\ Begin(Main, IF Known(n) THEN "update" ELSE "create", n, BootChange,
                   NoUser, {})
          /\ UNCHANGED <<conf, phase, todo, data, owner, split, ended>>
      BY <2>3 DEF BootUser, BootChange
    <3>2. QED
      BY <2>2, <3>1
  <2>4. CASE Cleanup
    <3>1. CASE phase' = "up" /\ UNCHANGED call
      BY <1>2, <2>4, <3>1 DEF Cleanup, Busy
    <3>2. CASE /\ phase' = "cleanup"
               /\ Begin(Main, "delete", Legacy, NoChange, NoUser, {})
      BY <2>2, <2>4, <3>2, DualAssumption DEF Cleanup
    <3>3. QED
      BY <2>4, <3>1, <3>2 DEF Cleanup
  <2>5. CASE BootReturns
    BY <1>2, <2>5 DEF BootReturns, DualInv, DualTypeOK, Busy, NoCall
  <2>6. CASE Stop
    BY <1>2, <2>6 DEF Stop, Busy, NoCall
  <2>7. CASE UNCHANGED vars
    BY <1>2, <2>7 DEF vars, Busy
  <2>8. QED
    BY <2>1, <2>3, <2>4, <2>5, <2>6, <2>7
<1>3. \A i : Handed(i) => Handed(i)'
  BY <1>1, <1>2 DEF Handed
<1>4. ASSUME NEW q \in Coroutines, Busy(q)', NEW i \in call'[q].old
      PROVE  Handed(i)' /\ (Halfway(q)' => i \notin live'[Primary'])
  <2>1. UNCHANGED conf /\ Busy(q) /\ call'[q] = call[q]
    BY <1>2, <1>4
  <2>2. QED
    BY <1>1, <1>3, <1>4, <2>1 DEF EndsComing, Halfway, At, Primary
<1>5. QED
  BY <1>1, <1>3, <1>4 DEF EndsComing, EndedEverywhere

\* What a caller was told has ended is active in neither store and stays so,
\* however calls on the session overlap, are interrupted or refused and
\* whatever settings the process is started with next
\* (token_session_service.py:77-110, 199-222).
THEOREM EndedEverywhereHolds == DualSpec => []EndedEverywhere
<1>1. DualInit => EndsComing
  BY DEF DualInit, EndsComing, EndedEverywhere, Busy, NoCall
<1>2. DualInv /\ EndsComing /\ [DualNext]_vars => EndsComing'
  BY Ends_Step, Ends_Serve, Ends_Rest DEF DualNext
<1>3. EndsComing => EndedEverywhere
  BY DEF EndsComing
<1>4. QED
  BY <1>1, <1>2, <1>3, Init_Inv, Next_Inv, PTL DEF DualSpec

-----------------------------------------------------------------------------
(* The two stores agree *)

\* A call changes nothing but what it touches.
LEMMA WriteTouches ==
    ASSUME DualInv, NEW p \in Coroutines, Busy(p), NEW s \in Stores,
           NEW e \in Call, e.op = call[p].op, e.name = call[p].name,
           e.jti = call[p].jti, Write(s, e)
    PROVE  /\ \A t \in Stores, n \in Names :
                n \notin Touches(p) => users'[t][n] = users[t][n]
           /\ \A t \in Stores, j \in Jtis :
                j \notin Touches(p) => (j \in live'[t] <=> j \in live[t])
           /\ \A t \in Stores \ {s} : users'[t] = users[t] /\ live'[t] = live[t]
<1> DEFINE c == call[p]
<1>1. /\ DualTypeOK /\ c.op \in Writers \cup SessionOps
      /\ c.op \in {"issue", "revoke"} => c.jti \in Jtis
  BY BusyCall DEF DualInv, OwnSession, Busy, Call
<1>2. /\ e.op \in Writers =>
           users'[s] = [users[s] EXCEPT ![e.name] = e.rec] /\ live' = live
      /\ e.op \in SessionOps => users' = users
      /\ e.op = "issue" => live'[s] = live[s] \cup {e.jti}
      /\ e.op = "revoke" => live'[s] = live[s] \ {e.jti}
      /\ e.op = "revokeAll" => live'[s] = live[s] \ SessionsOf(e.name)
      /\ \A t \in Stores \ {s} : users'[t] = users[t] /\ live'[t] = live[t]
  <2>1. e.op \in {"issue", "revoke"} => e.jti \in Jtis
    BY <1>1
  <2>2. QED
    BY <1>1, <2>1, WriteEffect
<1>3. CASE c.op \in Writers
  <2>1. users'[s] = [users[s] EXCEPT ![c.name] = e.rec] /\ live' = live
    BY <1>2, <1>3
  <2>2. Touches(p) = {c.name}
    BY <1>3, TouchesIs
  <2>3. users[s] \in [Names -> StoredUser \cup {NoUser}]
    BY <1>1 DEF DualTypeOK
  <2>4. QED
    BY <1>2, <2>1, <2>2, <2>3
<1>4. CASE c.op = "revokeAll"
  <2>1. users' = users /\ live'[s] = live[s] \ SessionsOf(c.name)
    BY <1>2, <1>4 DEF SessionOps
  <2>2. Touches(p) = SessionsOf(c.name)
    BY <1>4, TouchesIs
  <2>3. QED
    BY <1>2, <2>1, <2>2
<1>5. CASE c.op \in {"issue", "revoke"}
  <2>1. users' = users
    BY <1>2, <1>5 DEF SessionOps
  <2>2. live'[s] \in {live[s] \cup {c.jti}, live[s] \ {c.jti}}
    BY <1>2, <1>5
  <2>3. Touches(p) = {c.jti}
    BY <1>5, TouchesIs
  <2>4. QED
    BY <1>2, <2>1, <2>2, <2>3
<1>6. QED
  BY <1>1, <1>3, <1>4, <1>5 DEF SessionOps

\* Where the writes of two calls do not overlap they touch different things.
LEMMA TouchesDiffer ==
    ASSUME DualInv, Exclusive, NEW p \in Coroutines, NEW q \in Coroutines,
           p # q, Busy(p), Busy(q)
    PROVE  Touches(p) \cap Touches(q) = {}
<1> DEFINE Owned(r) == \A j \in Touches(r) : j \in SessionsOf(call[r].name)
<1>1. ASSUME NEW r \in {p, q}
      PROVE  /\ call[r].op \in Writers => Touches(r) = {call[r].name}
             /\ call[r].op \notin Writers => Owned(r)
             /\ call[r].name \in Names
  <2>1. call[r] \in Call /\ Busy(r) /\ r \in Coroutines
    BY BusyCall DEF DualInv
  <2>2. call[r].op \in {"issue", "revoke"} => call[r].jti \in SessionsOf(call[r].name)
    BY <2>1 DEF DualInv, OwnSession, Busy, SessionsOf
  <2>3. QED
    BY <2>1, <2>2, TouchesIs DEF Call, SessionOps
<1>2. call[p].name = call[q].name =>
        (call[p].op \in Writers <=> call[q].op \notin Writers)
  BY DEF Exclusive
<1>3. \A r \in {p, q} : SessionsOf(call[r].name) \subseteq Jtis
  BY DEF SessionsOf
<1>4. CASE call[p].op \in Writers /\ call[q].op \in Writers
  BY <1>1, <1>2, <1>4
<1>5. CASE call[p].op \in Writers <=> call[q].op \notin Writers
  BY <1>1, <1>3, <1>5, DualAssumption
<1>6. CASE call[p].op \notin Writers /\ call[q].op \notin Writers
  BY <1>1, <1>2, <1>6 DEF SessionsOf
<1>7. QED
  BY <1>4, <1>5, <1>6

\* A step leaves the other calls alone.
LEMMA Others ==
    ASSUME DualInv, NEW p \in Coroutines, Step(p), NEW q \in Coroutines, q # p
    PROVE  /\ call'[q] = call[q]
           /\ Touches(q)' = Touches(q)
           /\ Busy(q)' <=> Busy(q)
           /\ Halfway(q)' <=> Halfway(q)
<1>1. PICK d : call' = [call EXCEPT ![p] = d] /\ Further(d, call[p])
  BY StepGoesFurther
<1>2. call'[q] = call[q]
  BY <1>1 DEF DualInv, DualTypeOK
<1>3. UNCHANGED owner
  BY StepCases DEF DualInv
<1>4. QED
  BY <1>2, <1>3 DEF Touches, Busy, Halfway, At, SessionsOf

LEMMA Exclusive_Step ==
    ASSUME DualInv, Exclusive, NEW p \in Coroutines, Step(p)
    PROVE  Exclusive'
  BY StepKeepsCalls DEF Exclusive

\* Every step that writes does so through Write; the others change no data.
LEMMA StepWrites ==
    ASSUME DualInv, NEW p \in Coroutines, Step(p)
    PROVE  \/ UNCHANGED <<users, live, rows>>
           \/ /\ SavedAlone(p) \/ SavedFirst(p)
              /\ \E e \in Call : /\ e = Storing(call[p])
                                 /\ e.op = call[p].op /\ e.name = call[p].name
                                 /\ e.jti = call[p].jti /\ Write(Primary, e)
           \/ Mirrored(p) /\ Write(Mirror, call[p])
<1>1. call[p] \in Call /\ InOrder(call[p])
  BY StepCases DEF DualInv
<1>2. CASE SavedAlone(p) \/ SavedFirst(p)
  <2>1. call[p].pc = "save" /\ Write(Primary, Storing(call[p]))
    BY <1>2 DEF SavedAlone, SavedFirst, At
  <2>2. QED
    BY <1>1, <1>2, <2>1, StoringIs
<1>3. CASE Mirrored(p)
  BY <1>3 DEF Mirrored
<1>4. CASE ~(SavedAlone(p) \/ SavedFirst(p)) /\ ~Mirrored(p)
  BY <1>4, StepCases, EndIs
     DEF DualInv, Fetched, Missing, Probed, Refused, Lost, data
<1>5. QED
  BY <1>2, <1>3, <1>4

\* A step changes nothing but what its call touches.
LEMMA StepTouches ==
    ASSUME DualInv, NEW p \in Coroutines, Step(p), NEW t \in Stores
    PROVE  /\ \A n \in Names : n \notin Touches(p) => users'[t][n] = users[t][n]
           /\ \A j \in Jtis :
                j \notin Touches(p) => (j \in live'[t] <=> j \in live[t])
<1>1. Busy(p) /\ call[p] \in Call /\ Primary \in Stores /\ Mirror \in Stores
  BY StepCases, TwoStores DEF DualInv
<1>2. QED
  BY <1>1, StepWrites, WriteTouches

\* What the write of a call leaves in its store.
LEMMA WriteLeaves ==
    ASSUME DualTypeOK, NEW s \in Stores, NEW e \in Call,
           e.op \in {"issue", "revoke"} => e.jti \in Jtis, Write(s, e)
    PROVE  /\ e.op \in Writers => users'[s][e.name] = e.rec
           /\ e.op = "issue" => e.jti \in live'[s]
           /\ e.op = "revoke" => e.jti \notin live'[s]
           /\ e.op = "revokeAll" => SessionsOf(e.name) \cap live'[s] = {}
<1>1. e.name \in Names /\ users[s] \in [Names -> StoredUser \cup {NoUser}]
  BY DEF Call, DualTypeOK
<1>2. /\ e.op \in Writers => users'[s] = [users[s] EXCEPT ![e.name] = e.rec]
      /\ e.op = "issue" => live'[s] = live[s] \cup {e.jti}
      /\ e.op = "revoke" => live'[s] = live[s] \ {e.jti}
      /\ e.op = "revokeAll" => live'[s] = live[s] \ SessionsOf(e.name)
  BY WriteEffect
<1>3. QED
  BY <1>1, <1>2

\* What the others have read or written in the primary stays there.
LEMMA InPrimary_Others ==
    ASSUME DualInv, Exclusive, NEW p \in Coroutines, Step(p),
           NEW q \in Coroutines, q # p, InPrimary(call[q])
    PROVE  InPrimary(call[q])'
<1> DEFINE c == call[q]
<1>1. call'[q] = c /\ UNCHANGED <<conf, owner>> /\ Primary \in Stores /\ Busy(p)
  BY Others, StepCases, TwoStores DEF DualInv
<1>2. CASE ~Busy(q)
  BY <1>1, <1>2 DEF InPrimary, Busy
<1>3. CASE Busy(q)
  <2>1. c \in Call /\ Touches(p) \cap Touches(q) = {}
    BY <1>1, <1>3, BusyCall, TouchesDiffer DEF DualInv
  <2>2. /\ \A n \in Names : n \in Touches(q) => users'[Primary][n] = users[Primary][n]
        /\ \A j \in Jtis :
             j \in Touches(q) => (j \in live'[Primary] <=> j \in live[Primary])
    BY <1>1, <2>1, StepTouches
  <2>3. CASE c.op \in Writers
    <3>1. users'[Primary][c.name] = users[Primary][c.name]
      BY <1>3, <2>1, <2>2, <2>3, TouchesIs DEF Call
    <3>2. c.op \notin {"issue", "revoke", "revokeAll"}
      BY <2>3 DEF Writers
    <3>3. QED
      BY <1>1, <3>1, <3>2 DEF InPrimary, Primary
  <2>4. CASE c.op = "revokeAll"
    <3>1. SessionsOf(c.name) \cap live[Primary] = {} =>
            SessionsOf(c.name) \cap live'[Primary] = {}
      BY <1>3, <2>2, <2>4, TouchesIs DEF SessionsOf
    <3>2. QED
      BY <1>1, <2>4, <3>1 DEF InPrimary, Primary, SessionsOf, Writers
  <2>5. CASE c.op \in {"issue", "revoke"}
    <3>1. c.jti \in Jtis
      BY <1>3, <2>5 DEF DualInv, OwnSession, Busy
    <3>2. c.jti \in live'[Primary] <=> c.jti \in live[Primary]
      BY <1>3, <2>2, <2>5, <3>1, TouchesIs
    <3>3. QED
      BY <1>1, <2>5, <3>2 DEF InPrimary, Primary, Writers
  <2>6. QED
    BY <2>1, <2>3, <2>4, <2>5 DEF Call, SessionOps
<1>4. QED
  BY <1>2, <1>3

LEMMA InPrimary_Own ==
    ASSUME DualInv, NEW p \in Coroutines, Step(p), InPrimary(call[p])
    PROVE  InPrimary(call[p])'
<1> DEFINE c == call[p]
<1>1. /\ c \in Call /\ InOrder(c) /\ UNCHANGED <<conf, owner>>
      /\ DualTypeOK /\ Primary \in Stores /\ Busy(p)
      /\ c.op \in {"issue", "revoke"} => c.jti \in Jtis
  BY StepCases, TwoStores DEF DualInv, OwnSession, Busy
<1>2. ASSUME NEW d, call' = [call EXCEPT ![p] = d]
      PROVE  call'[p] = d
  BY <1>1, <1>2 DEF DualTypeOK
<1>3. CASE ~Busy(p)'
  BY <1>3 DEF InPrimary, Busy
<1>4. CASE Fetched(p)
  <2> DEFINE u == users[Primary][c.name]
             d == [c EXCEPT !.pc = "save", !.rec = u]
  <2>1. call'[p] = d /\ users' = users
    BY <1>2, <1>4 DEF Fetched, data
  <2>2. d.op = c.op /\ d.name = c.name /\ d.pc = "save" /\ d.rec = u
    BY <1>1 DEF Call
  <2>3. QED
    BY <1>1, <2>1, <2>2 DEF InPrimary, Primary
<1>5. CASE Probed(p)
  <2> DEFINE new == (users["postgres"][c.name] = NoUser)
             d == [c EXCEPT !.pc = "mirror", !.new = new]
  <2>1. call'[p] = d /\ UNCHANGED <<users, live, rows>>
    BY <1>2, <1>5 DEF Probed, data
  <2>2. /\ d.op = c.op /\ d.name = c.name /\ d.jti = c.jti /\ d.rec = c.rec
        /\ d.pc = "mirror" /\ c.pc = "probe"
    BY <1>1, <1>5 DEF Call, Probed, At
  <2>3. c.op \in Writers
    BY <1>1, <2>2 DEF InOrder, Call
  <2>4. users[Primary][c.name] = c.rec
    BY <2>2, <2>3 DEF InPrimary
  <2> HIDE DEF d
  <2>5. QED
    BY <1>1, <2>1, <2>2, <2>3, <2>4 DEF InPrimary, Primary, Writers
<1>6. CASE SavedFirst(p)
  <2> DEFINE e == Storing(c)
             pc == IF Primary = "redis" /\ c.op \in Writers THEN "probe"
                   ELSE "mirror"
             d == [e EXCEPT !.pc = pc]
  <2>1. call'[p] = d /\ Write(Primary, e) /\ c.pc = "save"
    BY <1>2, <1>6 DEF SavedFirst, At
  <2>2. e \in Call /\ e.op = c.op /\ e.jti = c.jti /\ e.name = c.name
    BY <1>1, <2>1, StoringIs
  <2> HIDE DEF e
  <2>3. /\ e.op \in Writers => users'[Primary][e.name] = e.rec
        /\ e.op = "issue" => e.jti \in live'[Primary]
        /\ e.op = "revoke" => e.jti \notin live'[Primary]
        /\ e.op = "revokeAll" => SessionsOf(e.name) \cap live'[Primary] = {}
    BY <1>1, <2>1, <2>2, WriteLeaves
  <2>4. d.op = e.op /\ d.name = e.name /\ d.jti = e.jti /\ d.rec = e.rec
    BY <2>2 DEF Call
  <2> HIDE DEF d
  <2>5. QED
    BY <1>1, <2>1, <2>3, <2>4 DEF InPrimary, Primary, SessionsOf
<1>7. ASSUME NEW res \in {"ok", "refused", "lost"},
             call' = [call EXCEPT ![p] = Returned(p, c.name, res)]
      PROVE  ~Busy(p)'
  <2>1. Returned(p, c.name, res).pc \in {"idle", "done"}
    BY <1>1, ReturnedIs DEF Call
  <2>2. call'[p] = Returned(p, c.name, res)
    BY <1>2, <1>7
  <2>3. QED
    BY <2>1, <2>2 DEF Busy
<1>8. CASE SavedAlone(p)
  <2>1. Storing(c).name = c.name
    BY <1>1, <1>8, StoringIs DEF SavedAlone, At
  <2>2. call' = [call EXCEPT ![p] = Returned(p, c.name, "ok")]
    BY <1>8, <2>1, Zenon DEF SavedAlone, Return, Returned
  <2>3. QED
    BY <1>3, <1>7, <2>2
<1>9. CASE Missing(p) \/ Mirrored(p)
  BY <1>1, <1>3, <1>7, <1>9, EndIs DEF Missing, Mirrored
<1>10. CASE Refused(p) \/ Lost(p)
  <2>1. PICK res \in {"refused", "lost"} : Fail(p, res)
    BY <1>10 DEF Refused, Lost
  <2>2. QED
    BY <1>1, <1>3, <1>7, <2>1, EndIs
<1>11. QED
  BY <1>4, <1>5, <1>6, <1>8, <1>9, <1>10, StepCases DEF DualInv

\* Where the mirror is written too, the stores agree on what was touched.
LEMMA EndAgrees ==
    ASSUME DualInv, NEW p \in Coroutines, Missing(p) \/ Mirrored(p), Step(p),
           InPrimary(call[p]), NEW x \in Touches(p)
    PROVE  Agree(x)'
<1> DEFINE c == call[p]
<1>1. /\ c \in Call /\ InOrder(c) /\ UNCHANGED owner /\ DualTypeOK
      /\ Busy(p) /\ c.name \in Names
      /\ c.op \in {"issue", "revoke"} => c.jti \in Jtis
      /\ Primary \in Stores /\ Mirror \in Stores /\ Mirror # Primary
      /\ Stores = {Primary, Mirror} /\ Stores = {"redis", "postgres"}
  BY StepCases, TwoStores DEF DualInv, OwnSession, Busy, Call
<1>2. CASE Missing(p)
  <2>1. /\ c.op = "delete" /\ users["postgres"][c.name] = NoUser
        /\ c.pc = "probe" /\ users' = users
    BY <1>2 DEF Missing, At, data
  <2>2. Primary = "redis" /\ c.rec = NoUser
    BY <1>1, <2>1 DEF InOrder, Writers
  <2>3. users["redis"][c.name] = NoUser
    BY <2>1, <2>2 DEF InPrimary, Writers
  <2>4. x = c.name /\ x \in Names /\ x \notin Jtis
    BY <1>1, <2>1, TouchesIs, DualAssumption DEF Writers
  <2>5. QED
    BY <2>1, <2>3, <2>4 DEF Agree
<1>3. CASE Mirrored(p)
  <2>1. c.pc = "mirror" /\ Write(Mirror, c)
    BY <1>3 DEF Mirrored, At
  <2>2. /\ c.op \in Writers => users'[Mirror][c.name] = c.rec
        /\ c.op = "issue" => c.jti \in live'[Mirror]
        /\ c.op = "revoke" => c.jti \notin live'[Mirror]
        /\ c.op = "revokeAll" => SessionsOf(c.name) \cap live'[Mirror] = {}
    BY <1>1, <2>1, WriteLeaves
  <2>3. users'[Primary] = users[Primary] /\ live'[Primary] = live[Primary]
    BY <1>1, <2>1, WriteTouches
  <2>4. /\ c.op \in Writers => users[Primary][c.name] = c.rec
        /\ c.op = "issue" => c.jti \in live[Primary]
        /\ c.op = "revoke" => c.jti \notin live[Primary]
        /\ c.op = "revokeAll" => SessionsOf(c.name) \cap live[Primary] = {}
    BY <2>1 DEF InPrimary
  <2>5. \/ x \in Names /\ x \notin Jtis /\ users'[Mirror][x] = users'[Primary][x]
        \/ /\ x \in Jtis /\ x \notin Names
           /\ x \in live'[Mirror] <=> x \in live'[Primary]
    <3>1. CASE c.op \in Writers
      BY <1>1, <2>2, <2>3, <2>4, <3>1, TouchesIs, DualAssumption
    <3>2. CASE c.op = "revokeAll"
      BY <1>1, <2>2, <2>3, <2>4, <3>2, TouchesIs, DualAssumption DEF SessionsOf
    <3>3. CASE c.op \in {"issue", "revoke"}
      BY <1>1, <2>2, <2>3, <2>4, <3>3, TouchesIs, DualAssumption
    <3>4. QED
      BY <1>1, <3>1, <3>2, <3>3 DEF Call, SessionOps
  <2>6. QED
    BY <1>1, <2>5 DEF Agree
<1>4. QED
  BY <1>2, <1>3

LEMMA StoresAgree_Step ==
    ASSUME DualInv, SyncInv, NEW p \in Coroutines, Step(p)
    PROVE  StoresAgree'
<1> DEFINE c == call[p]
<1>1. Busy(p) /\ c \in Call /\ InOrder(c) /\ UNCHANGED owner /\ DualTypeOK
  BY StepCases DEF DualInv
<1>2. split \ Touches(p) \subseteq split'
  BY <1>1, StepCases, EndIs
     DEF DualInv, Fetched, SavedAlone, SavedFirst, Missing, Probed, Mirrored,
         Refused, Lost
<1> SUFFICES ASSUME NEW x \in (Names \cup Jtis) \ split', Settled(x)'
             PROVE  Agree(x)'
  BY DEF StoresAgree
\* Another call that has x half written still has.
<1>3. ASSUME ~Halfway(p) \/ x \notin Touches(p)
      PROVE  Settled(x)
  <2> SUFFICES ASSUME NEW q \in Coroutines, Halfway(q), x \in Touches(q)
               PROVE  FALSE
    BY DEF Settled
  <2>1. q # p
    BY <1>3
  <2>2. Halfway(q)' /\ Touches(q)' = Touches(q)
    BY <2>1, Others
  <2>3. QED
    BY <2>2 DEF Settled
<1>4. CASE x \notin Touches(p)
  <2>1. Agree(x)
    BY <1>2, <1>3, <1>4 DEF SyncInv, StoresAgree
  <2>2. \A t \in {"redis", "postgres"} :
          /\ x \in Names => users'[t][x] = users[t][x]
          /\ x \in Jtis => (x \in live'[t] <=> x \in live[t])
    BY <1>1, <1>4, StepTouches, TwoStores
  <2>3. QED
    BY <2>1, <2>2 DEF Agree
<1>5. CASE x \in Touches(p)
  <2>1. CASE Fetched(p) \/ ((Refused(p) \/ Lost(p)) /\ ~Halfway(p))
    <3>1. ~Halfway(p) /\ UNCHANGED <<users, live>>
      BY <1>1, <2>1, EndIs DEF Fetched, Halfway, At, data, Refused, Lost
    <3>2. x \notin split
      <4>1. Fetched(p) => split' = split
        BY DEF Fetched
      <4>2. Refused(p) \/ Lost(p) => split \subseteq split'
        BY <1>1, EndIs DEF Refused, Lost
      <4>3. QED
        BY <2>1, <4>1, <4>2
    <3>3. QED
      BY <1>3, <3>1, <3>2 DEF SyncInv, StoresAgree, Agree
  <2>2. CASE (Refused(p) \/ Lost(p)) /\ Halfway(p)
    BY <1>1, <1>5, <2>2, EndIs DEF Refused, Lost
  <2>3. CASE SavedAlone(p)
    BY <1>5, <2>3 DEF SavedAlone
  <2>4. CASE SavedFirst(p) \/ Probed(p)
    <3>1. PICK d : call' = [call EXCEPT ![p] = d] /\ Further(d, c)
      BY StepGoesFurther
    <3>2. call'[p] = d
      BY <1>1, <3>1 DEF DualTypeOK
    <3>3. call'[p].pc \in {"probe", "mirror"}
      <4>1. CASE Probed(p)
        BY <1>1, <4>1 DEF Probed, DualTypeOK, Call
      <4>2. CASE SavedFirst(p)
        <5>1. Storing(c) \in Call
          BY <1>1, <4>2, StoringIs DEF SavedFirst, At
        <5>2. QED
          BY <1>1, <4>2, <5>1 DEF SavedFirst, DualTypeOK, Call
      <4>3. QED
        BY <2>4, <4>1, <4>2
    <3>4. Halfway(p)' /\ Touches(p)' = Touches(p)
      BY <1>1, <3>1, <3>2, <3>3 DEF Further, Halfway, At, Touches, SessionsOf
    <3>5. QED
      BY <1>5, <3>4 DEF Settled
  <2>5. CASE Missing(p) \/ Mirrored(p)
    BY <1>5, <2>5, EndAgrees DEF SyncInv
  <2>6. QED
    BY <2>1, <2>2, <2>3, <2>4, <2>5, StepCases DEF DualInv
<1>6. QED
  BY <1>4, <1>5

LEMMA Sync_Step ==
    ASSUME DualInv, SyncInv, NEW p \in Coroutines, Step(p)
    PROVE  SyncInv'
<1>1. Exclusive'
  BY Exclusive_Step DEF SyncInv
<1>2. ASSUME NEW q \in Coroutines
      PROVE  InPrimary(call[q])'
  BY InPrimary_Own, InPrimary_Others DEF SyncInv
<1>3. QED
  BY <1>1, <1>2, StoresAgree_Step DEF SyncInv

\* A call begins where no other is at work on the account, or on its sessions.
LEMMA Sync_Begun ==
    ASSUME DualInv, SyncInv, NEW p \in Coroutines, ~Busy(p),
           NEW op \in Writers \cup SessionOps, NEW n \in Names,
           NEW chg, NEW j, NEW old, Free(op, n),
           call' = [call EXCEPT ![p] = Begun(op, n, chg, j, old)],
           \/ owner' = owner
           \/ /\ op = "issue" /\ j \in Jtis /\ owner[j] = NoUser
              /\ owner' = [owner EXCEPT ![j] = n],
           UNCHANGED <<conf, users, live, split>>
    PROVE  SyncInv'
<1> DEFINE d == Begun(op, n, chg, j, old)
<1>1. /\ d.op = op /\ d.name = n
      /\ d.pc = IF op \in Writers THEN "get" ELSE "save"
  BY DEF Begun
<1>2. call' = [call EXCEPT ![p] = d]
  OBVIOUS
<1> HIDE DEF d
<1>3. \A q \in Coroutines : call'[q] = IF q = p THEN d ELSE call[q]
  BY <1>2 DEF DualInv, DualTypeOK
<1>4. \A i \in Jtis : owner[i] # NoUser => owner'[i] = owner[i]
  BY DEF DualInv, DualTypeOK
<1>5. \A q \in Coroutines : q # p /\ Busy(q) /\ call[q].name = n =>
        (op \in Writers <=> call[q].op \notin Writers)
  BY DEF Free
<1>6. Exclusive'
  <2> SUFFICES ASSUME NEW q \in Coroutines, NEW r \in Coroutines, q # r,
                      Busy(q)', Busy(r)', call'[q].name = call'[r].name
               PROVE  call'[q].op \in Writers <=> call'[r].op \notin Writers
    BY DEF Exclusive
  <2>1. CASE q = p
    BY <1>1, <1>3, <1>5, <2>1 DEF Busy
  <2>2. CASE r = p
    BY <1>1, <1>3, <1>5, <2>2 DEF Busy
  <2>3. CASE q # p /\ r # p
    BY <1>3, <2>3 DEF SyncInv, Exclusive, Busy
  <2>4. QED
    BY <2>1, <2>2, <2>3
<1>7. \A m \in Names : SessionsOf(m) \subseteq SessionsOf(m)'
  BY <1>4, DualAssumption DEF SessionsOf
<1>8. \A m \in Names : m # n => SessionsOf(m)' = SessionsOf(m)
  BY DualAssumption DEF SessionsOf, DualInv, DualTypeOK
<1>9. ASSUME NEW q \in Coroutines
      PROVE  InPrimary(call[q])'
  <2>1. CASE q = p
    BY <1>1, <1>3, <2>1 DEF InPrimary
  <2>2. CASE q # p /\ Halfway(q)
    <3>1. /\ call'[q] = call[q] /\ InPrimary(call[q]) /\ Busy(q)
          /\ call[q] \in Call /\ call[q].name \in Names
      BY <1>3, <2>2, BusyCall DEF SyncInv, DualInv, Busy, Halfway, At, Call
    <3>2. call[q].op = "revokeAll" =>
            SessionsOf(call[q].name)' = SessionsOf(call[q].name)
      <4>1. CASE owner' = owner
        BY <3>1, <4>1 DEF SessionsOf
      <4>2. CASE op = "issue"
        <5> SUFFICES ASSUME call[q].op = "revokeAll"
                     PROVE  SessionsOf(call[q].name)' = SessionsOf(call[q].name)
          OBVIOUS
        <5>1. op \notin Writers /\ call[q].op \notin Writers
          BY <4>2 DEF Writers
        <5>2. call[q].name # n
          BY <1>5, <2>2, <3>1, <5>1
        <5>3. {i \in Jtis : owner'[i] = call[q].name} = SessionsOf(call[q].name)
          BY <3>1, <5>2, DualAssumption DEF SessionsOf, DualInv, DualTypeOK
        <5>4. QED
          BY <3>1, <5>3 DEF SessionsOf
      <4>3. QED
        BY <4>1, <4>2
    <3>3. QED
      BY <3>1, <3>2 DEF InPrimary, Primary
  <2>3. CASE q # p /\ ~Halfway(q)
    BY <1>3, <2>3 DEF SyncInv, InPrimary, Halfway, At, Primary
  <2>4. QED
    BY <2>1, <2>2, <2>3
<1>10. ASSUME NEW x \in (Names \cup Jtis) \ split, Settled(x)'
       PROVE  Agree(x)
  <2>1. ASSUME NEW q \in Coroutines, Halfway(q), x \in Touches(q)
        PROVE  FALSE
    <3>1. q # p /\ Busy(q) /\ call'[q] = call[q] /\ call[q] \in Call
      BY <1>3, <2>1, BusyCall DEF DualInv, Busy, Halfway, At
    <3>2. Halfway(q)'
      BY <2>1, <3>1 DEF Halfway, At
    <3>3. x \in Touches(q)'
      <4>1. CASE call[q].op \in Writers
        <5>1. Touches(q)' = {call[q].name}
          BY <3>1, <4>1 DEF Touches, Writers
        <5>2. QED
          BY <2>1, <3>1, <4>1, <5>1, TouchesIs
      <4>2. CASE call[q].op = "revokeAll"
        <5>1. Touches(q)' = SessionsOf(call[q].name)'
          BY <3>1, <4>2 DEF Touches, Writers
        <5>2. QED
          BY <1>7, <2>1, <3>1, <4>2, <5>1, TouchesIs DEF Call
      <4>3. CASE call[q].op \in {"issue", "revoke"}
        <5>1. Touches(q)' = {call[q].jti}
          BY <3>1, <4>3 DEF Touches, Writers
        <5>2. QED
          BY <2>1, <3>1, <4>3, <5>1, TouchesIs
      <4>4. QED
        BY <3>1, <4>1, <4>2, <4>3 DEF Call, SessionOps
    <3>4. QED
      BY <1>10, <3>2, <3>3 DEF Settled
  <2>2. QED
    BY <2>1 DEF SyncInv, StoresAgree, Settled
<1>11. StoresAgree'
  BY <1>10 DEF StoresAgree, Agree
<1>12. QED
  BY <1>6, <1>9, <1>11 DEF SyncInv

LEMMA Sync_Serve ==
    ASSUME ~Overlap, DualInv, SyncInv, NEW p \in Procs, Serve(p)
    PROVE  SyncInv'
<1>1. PICK op \in Writers \cup SessionOps, n \in Names, chg \in Change,
           j \in Jtis \cup {NoUser}, old \in SUBSET Jtis :
        Asked(p, op, n, chg, j, old)
  BY ServeIs
<1>2. p \in Coroutines /\ ~Busy(p) /\ UNCHANGED <<conf, users, live, split>>
  BY ServeIs DEF Coroutines
<1>3. /\ Free(op, n)
      /\ call' = [call EXCEPT ![p] = Begun(op, n, chg, j, old)]
      /\ \/ owner' = owner
         \/ /\ op = "issue" /\ j \in Jtis /\ owner[j] = NoUser
            /\ owner' = [owner EXCEPT ![j] = n]
  BY <1>1 DEF Asked
<1>4. QED
  BY <1>2, <1>3, Sync_Begun

\* Calls that are over, and a process that stops, leave the stores as they are.
LEMMA Sync_Over ==
    ASSUME DualInv, SyncInv, UNCHANGED <<users, live>>,
           \A q \in Coroutines : call'[q] = NoCall \/
              (call'[q] = call[q] /\ UNCHANGED <<conf, owner>>),
           \A q \in Coroutines : Halfway(q) =>
              Touches(q) \subseteq split' \/ call'[q] = call[q],
           split \subseteq split'
    PROVE  SyncInv'
<1>1. \A q \in Coroutines : Busy(q)' => Busy(q) /\ call'[q] = call[q]
  BY DEF Busy, NoCall
<1>2. Exclusive'
  BY <1>1 DEF SyncInv, Exclusive
<1>3. ASSUME NEW q \in Coroutines
      PROVE  InPrimary(call[q])'
  <2>1. CASE call'[q] = NoCall
    BY <2>1 DEF InPrimary, NoCall
  <2>2. CASE call'[q] = call[q] /\ UNCHANGED <<conf, owner>>
    BY <2>2 DEF SyncInv, InPrimary, Primary, SessionsOf
  <2>3. QED
    BY <2>1, <2>2
<1>4. ASSUME NEW x \in (Names \cup Jtis) \ split', Settled(x)'
      PROVE  Agree(x)'
  <2>1. ASSUME NEW q \in Coroutines, Halfway(q), x \in Touches(q)
        PROVE  FALSE
    <3>1. call'[q] = call[q] /\ call[q] # NoCall
      BY <1>4, <2>1 DEF Halfway, At, NoCall
    <3>2. Halfway(q)' /\ Touches(q)' = Touches(q)
      BY <2>1, <3>1 DEF Halfway, At, Touches, SessionsOf
    <3>3. QED
      BY <1>4, <2>1, <3>2 DEF Settled
  <2>2. Agree(x)
    BY <1>4, <2>1 DEF SyncInv, StoresAgree, Settled
  <2>3. QED
    BY <2>2 DEF Agree
<1>5. QED
  BY <1>2, <1>3, <1>4 DEF SyncInv, StoresAgree

LEMMA Sync_Rest ==
    ASSUME ~Overlap, DualInv, SyncInv,
           \/ \E c \in Configs : Start(c)
           \/ \E n \in Names : BootUser(n)
           \/ Cleanup \/ BootReturns \/ Stop \/ UNCHANGED vars
    PROVE  SyncInv'
<1>1. ASSUME NEW c \in Configs, Start(c)
      PROVE  SyncInv'
  <2>1. \A q \in Coroutines : call[q] = NoCall
    BY <1>1 DEF Start, DualInv, Resting, Coroutines
  <2>2. UNCHANGED <<users, live, call, split>>
    BY <1>1 DEF Start, data
  <2>3. QED
    BY <2>1, <2>2, Sync_Over
<1>2. ASSUME NEW op \in {"create", "update", "delete"}, NEW n \in Names,
             NEW chg \in {BootChange, NoChange},
             op = "create" => chg = BootChange,
             phase \in {"boot", "cleanup"}, phase' \in {"boot", "cleanup"},
             Begin(Main, op, n, chg, NoUser, {}),
             UNCHANGED <<conf, todo, data, owner, split, ended>>
      PROVE  SyncInv'
  <2>1. /\ call' = [call EXCEPT ![Main] = Begun(op, n, chg, NoUser, {})]
        /\ Free(op, n) /\ ~Busy(Main) /\ UNCHANGED <<conf, users, live, split>>
    <3>1. call' = [call EXCEPT ![Main] = Begun(op, n, chg, NoUser, {})]
      BY <1>2, BootBegins
    <3>2. Free(op, n) /\ ~Busy(Main)
      BY <1>2 DEF Begin
    <3>3. UNCHANGED <<conf, users, live, split>>
      BY <1>2 DEF data
    <3>4. QED
      BY <3>1, <3>2, <3>3
  <2>2. Main \in Coroutines /\ op \in Writers \cup SessionOps
    BY DEF Coroutines, Writers
  <2>3. QED
    BY <1>2, <2>1, <2>2, Sync_Begun
<1>3. ASSUME NEW n \in Names, BootUser(n)
      PROVE  SyncInv'
  <2>1. /\ phase = "boot"
        /\ Begin(Main, IF Known(n) THEN "update" ELSE "create", n, BootChange,
                 NoUser, {})
        /\ UNCHANGED <<conf, phase, todo, data, owner, split, ended>>
    BY <1>3 DEF BootUser, BootChange
  <2>2. QED
    BY <1>2, <2>1
<1>4. CASE Cleanup
  <2>1. CASE phase' = "up" /\ UNCHANGED call
    <3>1. UNCHANGED <<conf, owner, users, live, split>>
      BY <1>4 DEF Cleanup, data
    <3>2. QED
      BY <2>1, <3>1, Sync_Over
  <2>2. CASE /\ phase' = "cleanup"
             /\ Begin(Main, "delete", Legacy, NoChange, NoUser, {})
    BY <1>2, <1>4, <2>2, DualAssumption DEF Cleanup
  <2>3. QED
    BY <1>4, <2>1, <2>2 DEF Cleanup
<1>5. CASE BootReturns
  <2>1. /\ UNCHANGED <<conf, owner, users, live, split>>
        /\ At(Main, "done") /\ call' = [call EXCEPT ![Main] = NoCall]
    BY <1>5 DEF BootReturns, data
  <2>2. \A q \in Coroutines :
          call'[q] = IF q = Main THEN NoCall ELSE call[q]
    BY <2>1 DEF DualInv, DualTypeOK
  <2>3. ~Halfway(Main)
    BY <2>1 DEF Halfway, At
  <2>4. QED
    BY <2>1, <2>2, <2>3, Sync_Over
<1>6. CASE Stop
  <2>1. /\ UNCHANGED <<conf, owner, users, live>>
        /\ call' = [q \in Coroutines |-> NoCall]
        /\ split' = split \cup UNION {Touches(q) : q \in {r \in Coroutines : Halfway(r)}}
    BY <1>6 DEF Stop, data
  <2>2. \A q \in Coroutines : Halfway(q) => Touches(q) \subseteq split'
    BY <2>1
  <2>3. split \subseteq split' /\ \A q \in Coroutines : call'[q] = NoCall
    BY <2>1
  <2>4. QED
    BY <2>1, <2>2, <2>3, Sync_Over
<1>7. CASE UNCHANGED vars
  BY <1>7, Sync_Over DEF vars, data
<1>8. QED
  BY <1>1, <1>3, <1>4, <1>5, <1>6, <1>7

LEMMA Sync_Init == DualInit => SyncInv
<1> SUFFICES ASSUME DualInit
             PROVE  SyncInv
  OBVIOUS
<1>1. \A p \in Coroutines : call[p] = NoCall
  BY DEF DualInit
<1>2. StoresAgree
  BY DEF DualInit, StoresAgree, Agree, Stores
<1>3. QED
  BY <1>1, <1>2 DEF SyncInv, Exclusive, Busy, InPrimary, NoCall

LEMMA Sync_Next ==
    ASSUME ~Overlap
    PROVE  DualInv /\ SyncInv /\ [DualNext]_vars => SyncInv'
  BY Sync_Step, Sync_Serve, Sync_Rest DEF DualNext

\* When the calls on one account are serial, the mirror is a copy of the
\* primary but for what a call that was interrupted or refused has left split,
\* through restarts and changes of the settings
\* (user_service.py:316-362, token_session_service.py:177-222).
THEOREM StoresAgreeHolds ==
    ASSUME ~Overlap
    PROVE  DualSpec => []StoresAgree
<1>1. SyncInv => StoresAgree
  BY DEF SyncInv
<1>2. QED
  BY <1>1, Sync_Init, Sync_Next, Init_Inv, Next_Inv, PTL DEF DualSpec

-----------------------------------------------------------------------------
(* The primary alone is the atomic table of accounts *)

\* The first write of a call is the operation of the table.
LEMMA SaveImplements ==
    ASSUME DualInv, SyncInv, NEW p \in Coroutines, At(p, "save"),
           call[p] \in Call, call[p].op \in Writers,
           users'[Primary] = [users[Primary] EXCEPT
                                ![call[p].name] = Storing(call[p]).rec],
           UNCHANGED conf
    PROVE  AtomicAccounts!Next
<1> DEFINE c == call[p]
           n == call[p].name
           u == users[Primary][n]
<1>1. n \in Names /\ c.op \in Writers /\ c.chg \in Change
  BY DEF Call
<1>2. c.rec = u
  BY DEF At, SyncInv, InPrimary
<1>3. u = NoUser <=> c.op = "create"
  <2>1. ~Refuses(c.op, c.rec)
    BY DEF At, DualInv, InOrder
  <2>2. QED
    BY <1>2, <2>1 DEF Refuses
<1>4. /\ c.op # "delete" => Storing(c).rec = Written(c)
      /\ c.op = "delete" => Storing(c).rec = NoUser
  BY StoringIs DEF DualInv, At
<1>5. users'[conf'.storage] =
        [users[conf.storage] EXCEPT ![n] = Storing(c).rec]
  BY DEF Primary
<1>6. u = users[conf.storage][n]
  BY DEF Primary
<1> HIDE DEF c, n, u
<1> USE DEF AtomicAccounts!Replace
<1>7. CASE c.op = "create"
  <2>1. c.chg.pw \in Passwords
    BY <1>7 DEF At, DualInv, InOrder, c
  <2>2. Written(c) = AtomicAccounts!NewUser(c.chg.pw)
    BY <1>7 DEF Written, NewUser, AtomicAccounts!NewUser
  <2>3. AtomicAccounts!Create(n, c.chg.pw)
    BY <1>3, <1>4, <1>5, <1>6, <1>7, <2>2 DEF AtomicAccounts!Create
  <2>4. QED
    BY <1>1, <2>1, <2>3 DEF AtomicAccounts!Next
<1>8. CASE c.op = "update"
  <2>1. Written(c) = AtomicAccounts!Updated(u, c.chg)
    BY <1>2, <1>8 DEF Written, Updated, AtomicAccounts!Updated, c
  <2>2. AtomicAccounts!Update(n, c.chg)
    BY <1>3, <1>4, <1>5, <1>6, <1>8, <2>1 DEF AtomicAccounts!Update
  <2>3. c.chg \in AtomicAccounts!Change
    BY <1>1 DEF Change, AtomicAccounts!Change
  <2>4. QED
    BY <1>1, <2>2, <2>3 DEF AtomicAccounts!Next
<1>9. CASE c.op = "delete"
  <2>1. AtomicAccounts!Delete(n)
    BY <1>3, <1>4, <1>5, <1>6, <1>9 DEF AtomicAccounts!Delete
  <2>2. QED
    BY <1>1, <2>1 DEF AtomicAccounts!Next
<1>10. CASE c.op = "login"
  <2>1. Written(c) = AtomicAccounts!LoggedIn(u)
    BY <1>2, <1>10 DEF Written, LoggedIn, AtomicAccounts!LoggedIn, c
  <2>2. AtomicAccounts!RecordLogin(n)
    BY <1>3, <1>4, <1>5, <1>6, <1>10, <2>1 DEF AtomicAccounts!RecordLogin
  <2>3. QED
    BY <1>1, <2>2 DEF AtomicAccounts!Next
<1>11. CASE c.op = "fail"
  <2>1. Written(c) = AtomicAccounts!FailedOnce(u)
    BY <1>2, <1>11 DEF Written, FailedOnce, AtomicAccounts!FailedOnce, c
  <2>2. AtomicAccounts!RecordFailedLogin(n)
    BY <1>3, <1>4, <1>5, <1>6, <1>11, <2>1
       DEF AtomicAccounts!RecordFailedLogin
  <2>3. QED
    BY <1>1, <2>2 DEF AtomicAccounts!Next
<1>12. CASE c.op = "bump"
  <2>1. Written(c) = AtomicAccounts!Versioned(u)
    BY <1>2, <1>12 DEF Written, Versioned, AtomicAccounts!Versioned, c
  <2>2. AtomicAccounts!IncrementTokenVersion(n)
    BY <1>3, <1>4, <1>5, <1>6, <1>12, <2>1
       DEF AtomicAccounts!IncrementTokenVersion
  <2>3. QED
    BY <1>1, <2>2 DEF AtomicAccounts!Next
<1>13. QED
  BY <1>1, <1>7, <1>8, <1>9, <1>10, <1>11, <1>12 DEF Writers

\* The mirror's write and the reads are not seen in the primary.
LEMMA StepImplements ==
    ASSUME DualInv, SyncInv, NEW p \in Coroutines, Step(p)
    PROVE  AtomicAccounts!Next \/ UNCHANGED users[conf.storage]
<1> DEFINE c == call[p]
<1>1. /\ Busy(p) /\ c \in Call /\ InOrder(c) /\ DualTypeOK
      /\ UNCHANGED <<conf, owner>>
      /\ c.op \in {"issue", "revoke"} => c.jti \in Jtis
  BY StepCases DEF DualInv, OwnSession, Busy
<1>2. c.op \in Writers \cup SessionOps /\ Primary \in Stores /\ Mirror \in Stores
      /\ Mirror # Primary /\ Primary = conf.storage
  BY <1>1, DualAssumption DEF Call, DualTypeOK, Primary, Mirror, Stores
<1>3. CASE UNCHANGED <<users, live, rows>>
  BY <1>1, <1>3
<1>4. CASE /\ SavedAlone(p) \/ SavedFirst(p)
           /\ \E e \in Call : /\ e = Storing(c)
                              /\ e.op = c.op /\ e.name = c.name
                              /\ e.jti = c.jti /\ Write(Primary, e)
  <2>1. PICK e \in Call : /\ e = Storing(c) /\ e.op = c.op /\ e.name = c.name
                          /\ e.jti = c.jti /\ Write(Primary, e)
    BY <1>4
  <2>2. e.op \in {"issue", "revoke"} => e.jti \in Jtis
    BY <1>1, <2>1
  <2>3. /\ e.op \in Writers =>
             users'[Primary] = [users[Primary] EXCEPT ![e.name] = e.rec]
        /\ e.op \in SessionOps => users' = users
    BY <1>1, <1>2, <2>1, <2>2, WriteEffect
  <2>4. CASE c.op \in Writers
    <3>1. users'[Primary] = [users[Primary] EXCEPT ![c.name] = Storing(c).rec]
      BY <2>1, <2>3, <2>4
    <3>2. At(p, "save")
      BY <1>4 DEF SavedAlone, SavedFirst
    <3>3. QED
      BY <1>1, <2>4, <3>1, <3>2, SaveImplements
  <2>5. CASE c.op \in SessionOps
    BY <1>1, <2>1, <2>3, <2>5
  <2>6. QED
    BY <1>2, <2>4, <2>5
<1>5. CASE Mirrored(p) /\ Write(Mirror, c)
  <2>1. users'[Primary] = users[Primary]
    BY <1>1, <1>2, <1>5, WriteEffect
  <2>2. QED
    BY <1>1, <1>2, <2>1
<1>6. QED
  BY <1>3, <1>4, <1>5, StepWrites

\* A start that switches the primary finds the same accounts in both stores.
LEMMA StartImplements ==
    ASSUME DualInv, SyncInv, NEW c \in Configs, Start(c)
    PROVE  UNCHANGED users[conf.storage]
<1>1. /\ users' = users /\ conf' = c
      /\ c.storage # conf.storage => split = {}
      /\ phase \in {"down", "failed"}
  BY DEF Start, data
<1>2. CASE c.storage = conf.storage
  BY <1>1, <1>2
<1>3. CASE c.storage # conf.storage
  <2>1. \A q \in Coroutines : ~Halfway(q)
    <3>1. \A q \in Coroutines : call[q] = NoCall
      BY <1>1 DEF DualInv, Resting, Coroutines
    <3>2. QED
      BY <3>1 DEF Halfway, At, NoCall
  <2>2. \A n \in Names : users["redis"][n] = users["postgres"][n]
    BY <1>1, <1>3, <2>1 DEF SyncInv, StoresAgree, Settled, Agree
  <2>3. /\ users["redis"] \in [Names -> StoredUser \cup {NoUser}]
        /\ users["postgres"] \in [Names -> StoredUser \cup {NoUser}]
    BY DEF DualInv, DualTypeOK, Stores
  <2>4. users["redis"] = users["postgres"]
    BY <2>2, <2>3
  <2>5. c.storage \in Stores /\ conf.storage \in Stores
    BY DualAssumption DEF DualInv, DualTypeOK
  <2>6. QED
    BY <1>1, <2>4, <2>5 DEF Stores
<1>4. QED
  BY <1>2, <1>3

LEMMA DualImplements ==
    ASSUME DualInv, SyncInv, [DualNext]_vars
    PROVE  AtomicAccounts!Next \/ UNCHANGED users[conf.storage]
<1>1. ASSUME NEW p \in Procs, Serve(p)
      PROVE  UNCHANGED users[conf.storage]
  BY <1>1 DEF Serve, data
<1>2. ASSUME NEW n \in Names, BootUser(n)
      PROVE  UNCHANGED users[conf.storage]
  BY <1>2 DEF BootUser, data
<1>3. CASE Cleanup \/ BootReturns \/ Stop
  BY <1>3 DEF Cleanup, BootReturns, Stop, data
<1>4. CASE UNCHANGED vars
  BY <1>4 DEF vars, data
<1>5. QED
  BY <1>1, <1>2, <1>3, <1>4, StepImplements, StartImplements DEF DualNext

\* When the calls on one account are serial, the primary behaves as the atomic
\* table of accounts, whatever becomes of the mirror: through faults, restarts
\* and switches of the primary once the stores agree (user_service.py:143-362).
THEOREM PrimaryIsAtomic ==
    ASSUME ~Overlap
    PROVE  DualSpec => PrimaryImplementsAccounts
<1>1. DualInit => AtomicAccounts!Init
  <2> SUFFICES ASSUME DualInit
               PROVE  users[conf.storage] = [n \in Names |-> NoUser]
    BY DEF AtomicAccounts!Init
  <2>1. conf.storage \in Stores
    BY DualAssumption DEF DualInit
  <2>2. QED
    BY <2>1 DEF DualInit
<1>2. DualInv /\ SyncInv /\ [DualNext]_vars
        => [AtomicAccounts!Next]_(users[conf.storage])
  BY DualImplements
<1>3. QED
  BY <1>1, <1>2, Sync_Init, Sync_Next, Init_Inv, Next_Inv, PTL
     DEF DualSpec, PrimaryImplementsAccounts, AtomicAccounts!Spec

-----------------------------------------------------------------------------
(* Start-up *)

\* The same call, further on.
Goes(d, c) == d.op = c.op /\ d.name = c.name /\ d.chg = c.chg

Ends(d, c, res) == d.pc = "done" /\ d.name = c.name /\ d.res = res

\* Store s has the record of call c, the other store is as before.
Stored(s, c, rec) ==
    /\ users'[s] = [users[s] EXCEPT ![c.name] = rec]
    /\ \A t \in Stores \ {s} : users'[t] = users[t]

\* The steps of a call on an account that the start-up makes.
MainFetched(c, d) ==
    /\ c.pc = "get" /\ ~Refuses(c.op, users[Primary][c.name])
    /\ Goes(d, c) /\ d.pc = "save" /\ d.new = c.new
    /\ d.rec = users[Primary][c.name]
    /\ UNCHANGED users

MainSaved(c, d) ==
    /\ c.pc = "save" /\ Takes(Primary, Storing(c))
    /\ Stored(Primary, c, Storing(c).rec)
    /\ \/ ~conf.dual /\ Ends(d, c, "ok")
       \/ /\ Goes(d, c)
          /\ d.pc = IF Primary = "redis" THEN "probe" ELSE "mirror"

MainMissing(c, d) ==
    /\ c.pc = "probe" /\ Primary = "redis"
    /\ c.op = "delete" /\ users["postgres"][c.name] = NoUser
    /\ Ends(d, c, "ok")
    /\ UNCHANGED users

MainProbed(c, d) ==
    /\ c.pc = "probe" /\ Goes(d, c) /\ d.pc = "mirror"
    /\ d.new <=> users["postgres"][c.name] = NoUser
    /\ c.op = "delete" => users["postgres"][c.name] # NoUser
    /\ UNCHANGED users

MainMirrored(c, d) ==
    /\ c.pc = "mirror" /\ Ends(d, c, "ok")
    /\ Stored(Mirror, c, c.rec)

MainRefused(c, d) ==
    /\ Ends(d, c, "refused")
    /\ UNCHANGED users
    /\ \/ c.pc = "get" /\ Refuses(c.op, users[Primary][c.name])
       \/ c.pc = "save" /\ ~Takes(Primary, Storing(c))
       \/ c.pc = "mirror" /\ ~Takes(Mirror, c)

MainLost(c, d) == Ends(d, c, "lost") /\ UNCHANGED users

MainSteps(c, d) ==
    \/ MainFetched(c, d) \/ MainSaved(c, d) \/ MainMissing(c, d)
    \/ MainProbed(c, d) \/ MainMirrored(c, d) \/ MainRefused(c, d)
    \/ MainLost(c, d)

LEMMA MainStepCases ==
    ASSUME DualInv, Step(Main), call[Main].op \in Writers
    PROVE  /\ UNCHANGED <<conf, phase, todo, owner, rows>>
           /\ MainSteps(call[Main], call'[Main])
<1> DEFINE c == call[Main]
           d == call'[Main]
<1>1. /\ Busy(Main) /\ c \in Call /\ InOrder(c) /\ DualTypeOK
      /\ UNCHANGED <<conf, phase, todo, owner>> /\ Main \in Coroutines
      /\ c.op \notin {"issue", "revoke", "revokeAll"} /\ c.name \in Names
  <2>1. Main \in Coroutines
    BY DEF Coroutines
  <2>2. QED
    BY <2>1, StepCases DEF DualInv, Writers, Call
<1>2. \A x : call' = [call EXCEPT ![Main] = x] => d = x
  BY <1>1 DEF DualTypeOK
<1>3. ASSUME NEW res, d = Returned(Main, c.name, res)
      PROVE  Ends(d, c, res)
  BY <1>3 DEF Ends, Returned
<1>4. CASE Fetched(Main)
  <2>1. d = [c EXCEPT !.pc = "save", !.rec = users[Primary][c.name]]
    BY <1>2, <1>4 DEF Fetched
  <2>2. /\ c.pc = "get" /\ ~Refuses(c.op, users[Primary][c.name])
        /\ UNCHANGED users
    BY <1>4 DEF Fetched, At, data
  <2> DEFINE u == users[Primary][c.name]
  <2>3. /\ d.op = c.op /\ d.name = c.name /\ d.chg = c.chg
        /\ d.pc = "save" /\ d.new = c.new /\ d.rec = u
    <3>1. d = [c EXCEPT !.pc = "save", !.rec = u]
      BY <2>1
    <3> HIDE DEF u, d
    <3>2. QED
      BY <1>1, <3>1 DEF Call
  <2>4. MainFetched(c, d)
    BY <2>2, <2>3 DEF MainFetched, Goes
  <2>5. QED
    BY <1>1, <1>4, <2>4 DEF MainSteps, Fetched, data
<1>5. CASE SavedAlone(Main) \/ SavedFirst(Main)
  <2> DEFINE e == Storing(c)
  <2>1. /\ c.pc = "save" /\ Takes(Primary, e) /\ Write(Primary, e)
    BY <1>5 DEF SavedAlone, SavedFirst, At
  <2>2. /\ e \in Call /\ e.op = c.op /\ e.name = c.name /\ e.chg = c.chg
    BY <1>1, <2>1, StoringIs
  <2>3. Stored(Primary, c, e.rec) /\ rows' = rows
    <3>1. e.op \in {"issue", "revoke"} => e.jti \in Jtis
      BY <1>1, <2>2
    <3>2. Primary \in Stores
      BY <1>1, TwoStores
    <3>3. QED
      BY <1>1, <2>1, <2>2, <3>1, <3>2, WriteEffect DEF Stored
  <2>4. CASE SavedAlone(Main)
    <3>1. d = Returned(Main, c.name, "ok") /\ ~conf.dual
      BY <1>2, <2>2, <2>4, Zenon DEF SavedAlone, Return, Returned
    <3>2. MainSaved(c, d)
      BY <1>3, <2>1, <2>3, <3>1 DEF MainSaved
    <3>3. QED
      BY <1>1, <2>3, <3>2 DEF MainSteps
  <2>5. CASE SavedFirst(Main)
    <3>1. d = [e EXCEPT !.pc = IF Primary = "redis" /\ c.op \in Writers
                               THEN "probe" ELSE "mirror"]
      BY <1>2, <2>5 DEF SavedFirst
    <3>2. Goes(d, c) /\ d.pc = IF Primary = "redis" THEN "probe" ELSE "mirror"
      BY <2>2, <3>1 DEF Goes, Call
    <3>3. MainSaved(c, d)
      BY <2>1, <2>3, <3>2 DEF MainSaved
    <3>4. QED
      BY <1>1, <2>3, <3>3 DEF MainSteps
  <2>6. QED
    BY <1>5, <2>4, <2>5
<1>6. CASE Missing(Main)
  <2>1. d = Returned(Main, c.name, "ok")
    BY <1>1, <1>2, <1>6, EndIs DEF Missing
  <2>2. /\ UNCHANGED <<users, rows>> /\ c.pc = "probe" /\ c.op = "delete"
        /\ users["postgres"][c.name] = NoUser
    BY <1>6 DEF Missing, data, At
  <2>3. Primary = "redis"
    BY <1>1, <2>2 DEF InOrder
  <2>4. MainMissing(c, d)
    BY <1>3, <2>1, <2>2, <2>3 DEF MainMissing
  <2>5. QED
    BY <1>1, <2>2, <2>4 DEF MainSteps
<1>7. CASE Probed(Main)
  <2>1. d = [c EXCEPT !.pc = "mirror",
                      !.new = (users["postgres"][c.name] = NoUser)]
    BY <1>2, <1>7 DEF Probed
  <2>2. /\ UNCHANGED <<users, rows>> /\ c.pc = "probe"
        /\ c.op = "delete" => users["postgres"][c.name] # NoUser
    BY <1>7 DEF Probed, data, At
  <2>3. /\ Goes(d, c) /\ d.pc = "mirror"
        /\ d.new <=> users["postgres"][c.name] = NoUser
    BY <1>1, <2>1 DEF Goes, Call
  <2>4. MainProbed(c, d)
    BY <2>2, <2>3 DEF MainProbed
  <2>5. QED
    BY <1>1, <2>2, <2>4 DEF MainSteps
<1>8. CASE Mirrored(Main)
  <2>1. d = Returned(Main, c.name, "ok")
    BY <1>1, <1>2, <1>8, EndIs DEF Mirrored
  <2>2. Stored(Mirror, c, c.rec) /\ rows' = rows
    <3>1. Mirror \in Stores /\ Write(Mirror, c)
      BY <1>1, <1>8, TwoStores DEF Mirrored
    <3>2. QED
      BY <1>1, <3>1, WriteEffect DEF Stored
  <2>3. MainMirrored(c, d)
    BY <1>3, <1>8, <2>1, <2>2 DEF MainMirrored, Mirrored, At
  <2>4. QED
    BY <1>1, <2>2, <2>3 DEF MainSteps
<1>9. CASE Refused(Main)
  <2>1. d = Returned(Main, c.name, "refused") /\ UNCHANGED <<users, rows>>
    BY <1>1, <1>2, <1>9, EndIs DEF Refused
  <2>2. MainRefused(c, d)
    BY <1>3, <1>9, <2>1 DEF MainRefused, Refused, At
  <2>3. QED
    BY <1>1, <2>1, <2>2 DEF MainSteps
<1>10. CASE Lost(Main)
  <2>1. d = Returned(Main, c.name, "lost") /\ UNCHANGED <<users, rows>>
    BY <1>1, <1>2, <1>10, EndIs DEF Lost
  <2>2. MainLost(c, d)
    BY <1>3, <2>1 DEF MainLost
  <2>3. QED
    BY <1>1, <2>1, <2>2 DEF MainSteps
<1>11. QED
  BY <1>1, <1>4, <1>5, <1>6, <1>7, <1>8, <1>9, <1>10, StepCases

\* What bootstrap stores.
LEMMA BootRecord ==
    ASSUME NEW c \in Call, InOrder(c), c.pc = "save",
           c.op \in {"create", "update"}, c.chg = BootChange
    PROVE  /\ Storing(c).rec # NoUser
           /\ Storing(c).rec.pw = BootPassword
           /\ Storing(c).rec.active = TRUE
<1>1. Storing(c).rec = Written(c) /\ Written(c) \in StoredUser
  BY StoringIs DEF Writers
<1>2. /\ BootChange.pw = BootPassword /\ BootChange.active = TRUE
      /\ BootPassword # Keep /\ TRUE # Keep
  BY DualAssumption, RecordAssumption DEF BootChange
<1>3. CASE c.op = "create"
  <2>1. Written(c) = NewUser(BootPassword)
    BY <1>2, <1>3 DEF Written
  <2>2. /\ NewUser(BootPassword).pw = BootPassword
        /\ NewUser(BootPassword).active = TRUE
    BY DEF NewUser
  <2>3. QED
    BY <1>1, <2>1, <2>2, NoUserAssumption
<1>4. CASE c.op = "update"
  <2>1. c.rec \in StoredUser
    BY <1>4 DEF Call, InOrder, Refuses, Writers
  <2>2. Written(c) = Updated(c.rec, BootChange)
    BY <1>4 DEF Written
  <2>3. Updated(c.rec, BootChange) =
          [c.rec EXCEPT !.pw = BootPassword, !.active = TRUE]
    BY <1>2 DEF Updated
  <2> DEFINE w == [c.rec EXCEPT !.pw = BootPassword, !.active = TRUE]
  <2>4. w.pw = BootPassword /\ w.active = TRUE
    BY <2>1 DEF StoredUser
  <2>5. QED
    BY <1>1, <2>2, <2>3, <2>4, NoUserAssumption
<1>5. QED
  BY <1>3, <1>4

\* The settings and what depends on them alone.
LEMMA SettingsStay ==
    ASSUME UNCHANGED <<conf, owner, rows>>
    PROVE  /\ Primary' = Primary /\ Mirror' = Mirror
           /\ ReadBackend' = ReadBackend
           /\ UNCHANGED users => (Blocked' <=> Blocked)
           /\ \A n : users'[Primary][n] = users[Primary][n]
                       => (Aligned(n)' <=> Aligned(n))
           /\ \A n : UNCHANGED users => (Known(n)' <=> Known(n))
  BY DEF Primary, Mirror, ReadBackend, Blocked, Stranded, SessionsOf, Aligned,
         Known

\* Bootstrap's call keeps its promise: an account is refused only when it is
\* left in the mirror alone.
LEMMA Boot_Align ==
    ASSUME DualInv, BootInv, Step(Main), phase = "boot",
           AlignCall(call[Main])
    PROVE  /\ AlignCall(call[Main])'
           /\ \A n \in Names : n # call[Main].name =>
                users'[Primary][n] = users[Primary][n]
           /\ UNCHANGED <<conf, phase, todo, owner, rows>>
<1> DEFINE c == call[Main]
           d == call'[Main]
<1>1. /\ Busy(Main) /\ c \in Call /\ InOrder(c) /\ DualTypeOK
      /\ c.pc # "done" /\ c.name \in Names
  <2>1. Main \in Coroutines
    BY DEF Coroutines
  <2>2. QED
    BY <2>1, StepCases DEF DualInv, Call, Busy
<1>2. /\ c.op \in {"create", "update"} /\ c.op \in Writers /\ c.name \in todo
      /\ c.chg = BootChange
  BY <1>1 DEF AlignCall, Writers
<1>3. UNCHANGED <<conf, phase, todo, owner, rows>> /\ MainSteps(c, d)
  BY <1>2, MainStepCases
<1>4. /\ Primary \in Stores /\ Mirror \in Stores /\ Mirror # Primary
      /\ \A n \in Names : users[Primary][n] \in StoredUser \cup {NoUser}
  BY <1>1, TwoStores DEF DualTypeOK
<1>5. /\ Primary' = Primary
      /\ UNCHANGED users => (Blocked' <=> Blocked)
      /\ \A n : users'[Primary][n] = users[Primary][n]
                  => (Aligned(n)' <=> Aligned(n))
      /\ \A n : UNCHANGED users => (Known(n)' <=> Known(n))
  BY <1>3, SettingsStay
<1>6. c.name \in conf.boot
  BY <1>2 DEF BootInv
<1>0. PICK m \in Names : m = c.name
  BY <1>1
<1> DEFINE Kept == \A n \in Names : n # c.name =>
                     users'[Primary][n] = users[Primary][n]
<1>7. CASE MainFetched(c, d)
  <2>1. UNCHANGED users /\ c.pc = "get" /\ d.pc = "save" /\ d.new = c.new
        /\ d.op = c.op /\ d.name = c.name /\ d.chg = c.chg
        /\ d.rec = users[Primary][c.name]
    BY <1>7 DEF MainFetched, Goes
  <2>2. (c.new <=> c.op = "create") /\ (c.op = "update" <=> Known(c.name))
    BY <2>1 DEF AlignCall
  <2>3. AlignCall(c)'
    <3>1. d.op = "update" <=> Known(c.name)'
      BY <1>5, <2>1, <2>2
    <3>2. d.rec = users'[Primary'][d.name]
      BY <1>5, <2>1
    <3>3. QED
      BY <1>2, <1>3, <2>1, <2>2, <3>1, <3>2 DEF AlignCall
  <2>4. QED
    BY <1>3, <2>1, <2>3
<1>8. CASE MainSaved(c, d)
  <2>1. c.pc = "save" /\ users'[Primary] =
            [users[Primary] EXCEPT ![c.name] = Storing(c).rec]
    BY <1>8 DEF MainSaved, Stored
  <2>2. users'[Primary][c.name] = Storing(c).rec
    BY <1>1, <1>4, <2>1 DEF DualTypeOK
  <2>3. Kept
    BY <1>1, <1>4, <2>1 DEF DualTypeOK
  <2>4. Aligned(m)'
    BY <1>1, <1>2, <1>5, <1>0, <2>1, <2>2, BootRecord DEF Aligned
  <2>5. CASE Ends(d, c, "ok")
    BY <1>2, <1>3, <1>0, <2>3, <2>4, <2>5 DEF Ends, AlignCall
  <2>6. CASE /\ Goes(d, c)
             /\ d.pc = IF Primary = "redis" THEN "probe" ELSE "mirror"
    <3>1. d.pc \in {"probe", "mirror"} /\ (d.pc = "mirror" => Primary' # "redis")
      BY <1>5, <2>6
    <3>2. AlignCall(c)'
      BY <1>2, <1>3, <1>0, <2>4, <2>6, <3>1 DEF Goes, AlignCall
    <3>3. QED
      BY <1>3, <2>3, <3>2
  <2>7. QED
    BY <1>8, <2>5, <2>6 DEF MainSaved
<1>9. CASE MainMissing(c, d)
  BY <1>2, <1>9 DEF MainMissing
<1>10. CASE MainProbed(c, d)
  <2>1. Aligned(m)'
    BY <1>5, <1>10, <1>0 DEF MainProbed, AlignCall
  <2>2. AlignCall(c)'
    BY <1>2, <1>3, <1>10, <1>0, <2>1 DEF MainProbed, Goes, AlignCall
  <2>3. QED
    BY <1>3, <1>10, <2>2 DEF MainProbed
<1>11. CASE MainMirrored(c, d)
  <2>1. users'[Primary] = users[Primary]
    BY <1>4, <1>11 DEF MainMirrored, Stored
  <2>2. Aligned(m)'
    BY <1>5, <1>11, <1>0, <2>1 DEF MainMirrored, AlignCall
  <2>3. AlignCall(c)'
    BY <1>2, <1>3, <1>11, <1>0, <2>2 DEF MainMirrored, Ends, AlignCall
  <2>4. QED
    BY <1>3, <2>1, <2>3
<1>12. CASE MainLost(c, d)
  BY <1>2, <1>3, <1>12 DEF MainLost, Ends, AlignCall
<1>13. CASE MainRefused(c, d)
  <2>1. Blocked
    <3>1. CASE c.pc = "get" /\ Refuses(c.op, users[Primary][c.name])
      <4>1. Known(c.name) /\ users[Primary][c.name] = NoUser
        BY <1>2, <3>1 DEF AlignCall, Refuses, Known
      <4>2. Stranded(c.name)
        BY <4>1 DEF Known, Stranded
      <4>3. QED
        BY <1>6, <4>2 DEF Blocked
    <3>2. CASE c.pc = "save" /\ ~Takes(Primary, Storing(c))
      <4> DEFINE e == Storing(c)
      <4>1. /\ e.op = c.op /\ e.name = c.name /\ (e.new <=> c.op = "create")
            /\ Primary = "postgres" /\ ~PgTakes(e)
        <5>1. e.op = c.op /\ e.name = c.name /\ e.new = c.new
          BY <1>1, <3>2, StoringIs
        <5>2. c.new <=> c.op = "create"
          BY <1>1, <3>2 DEF AlignCall
        <5>3. QED
          BY <1>4, <3>2, <5>1, <5>2 DEF Takes, Stores
      <4>2. c.rec = users["postgres"][c.name] /\ ~Refuses(c.op, c.rec)
        BY <1>1, <1>2, <3>2, <4>1 DEF AlignCall, InOrder
      <4>3. PgTakes(e) <=> (users["postgres"][c.name] # NoUser <=> ~e.new)
        BY <1>2, <4>1 DEF PgTakes
      <4>4. QED
        BY <1>2, <4>1, <4>2, <4>3 DEF Refuses
    <3>3. CASE c.pc = "mirror" /\ ~Takes(Mirror, c)
      <4>1. Mirror = "postgres" /\ Primary = "redis" /\ ~PgTakes(c)
        BY <1>4, <3>3 DEF Takes, Stores
      <4>2. c.new <=> users["postgres"][c.name] = NoUser
        BY <3>3, <4>1 DEF AlignCall
      <4>3. PgTakes(c) <=> (users["postgres"][c.name] # NoUser <=> ~c.new)
        BY <1>2 DEF PgTakes
      <4>4. QED
        BY <4>1, <4>2, <4>3
    <3>4. QED
      BY <1>13, <3>1, <3>2, <3>3 DEF MainRefused
  <2>2. AlignCall(c)'
    BY <1>2, <1>3, <1>5, <1>13, <2>1 DEF MainRefused, Ends, AlignCall
  <2>3. QED
    BY <1>3, <1>13, <2>2 DEF MainRefused
<1>14. QED
  BY <1>3, <1>7, <1>8, <1>9, <1>10, <1>11, <1>12, <1>13 DEF MainSteps

\* So does the call that deletes the old admin.
LEMMA Boot_Cleanup ==
    ASSUME DualInv, BootInv, Step(Main), phase = "cleanup"
    PROVE  /\ CleanupCall(call[Main])'
           /\ call'[Main] # NoCall
           /\ \A n \in Names : n # Legacy =>
                users'[Primary][n] = users[Primary][n]
           /\ UNCHANGED <<conf, phase, todo, owner, rows>>
<1> DEFINE c == call[Main]
           d == call'[Main]
<1>1. /\ Busy(Main) /\ c \in Call /\ InOrder(c) /\ DualTypeOK
      /\ c.pc # "done"
  <2>1. Main \in Coroutines
    BY DEF Coroutines
  <2>2. QED
    BY <2>1, StepCases DEF DualInv, Busy
<1>2. /\ c.op = "delete" /\ c.op \in Writers /\ c.name = Legacy
      /\ CleanupCall(c)
  BY <1>1 DEF BootInv, CleanupCall, Writers
<1>3. UNCHANGED <<conf, phase, todo, owner, rows>> /\ MainSteps(c, d)
  BY <1>2, MainStepCases
<1>4. /\ Primary \in Stores /\ Mirror \in Stores /\ Mirror # Primary
      /\ Legacy \in Names
  BY <1>1, TwoStores, DualAssumption
<1>5. /\ Primary' = Primary /\ Mirror' = Mirror /\ ReadBackend' = ReadBackend
      /\ UNCHANGED users => (Blocked' <=> Blocked)
  BY <1>3, SettingsStay
<1>6. \A x : Ends(d, c, x) => /\ d.pc = "done" /\ d.name = Legacy /\ d.res = x
                              /\ d # NoCall
  BY <1>2 DEF Ends, NoCall
<1>7. CASE MainFetched(c, d)
  <2>1. UNCHANGED users /\ d.pc = "save" /\ d.op = "delete" /\ d.name = Legacy
        /\ d.rec = users[Primary][Legacy]
    BY <1>2, <1>7 DEF MainFetched, Goes
  <2>2. d # NoCall
    BY <2>1 DEF NoCall
  <2>3. CleanupCall(c)'
    BY <1>5, <2>1 DEF CleanupCall
  <2>4. QED
    BY <1>3, <2>1, <2>2, <2>3
<1>8. CASE MainSaved(c, d)
  <2>1. c.pc = "save" /\ users'[Primary] =
            [users[Primary] EXCEPT ![Legacy] = Storing(c).rec]
    BY <1>2, <1>8 DEF MainSaved, Stored
  <2>2. Storing(c).rec = NoUser
    BY <1>1, <1>2, <2>1, StoringIs
  <2>3. /\ users'[Primary][Legacy] = NoUser
        /\ \A n \in Names : n # Legacy => users'[Primary][n] = users[Primary][n]
    BY <1>1, <1>4, <2>1, <2>2 DEF DualTypeOK
  <2>4. CASE ~conf.dual /\ Ends(d, c, "ok")
    <3>1. CleanupCall(c)'
      BY <1>3, <1>5, <1>6, <2>3, <2>4 DEF CleanupCall
    <3>2. QED
      BY <1>3, <1>6, <2>3, <2>4, <3>1
  <2>5. CASE /\ Goes(d, c)
             /\ d.pc = IF Primary = "redis" THEN "probe" ELSE "mirror"
    <3>1. /\ d.pc \in {"probe", "mirror"}
          /\ d.pc = "mirror" => Primary' # "redis"
          /\ d.op = "delete" /\ d.name = Legacy
      BY <1>2, <1>5, <2>5 DEF Goes
    <3>2. CleanupCall(c)'
      BY <1>5, <2>3, <3>1 DEF CleanupCall
    <3>3. d # NoCall
      BY <3>1 DEF NoCall
    <3>4. QED
      BY <1>3, <2>3, <3>2, <3>3
  <2>6. QED
    BY <1>8, <2>4, <2>5 DEF MainSaved
<1>9. CASE MainMissing(c, d)
  <2>1. /\ UNCHANGED users /\ Ends(d, c, "ok")
        /\ users["postgres"][Legacy] = NoUser
        /\ c.pc = "probe" /\ Primary = "redis"
    BY <1>2, <1>9 DEF MainMissing
  <2>2. users[Primary][Legacy] = NoUser /\ Mirror = "postgres"
    BY <1>2, <1>4, <2>1 DEF CleanupCall, Stores
  <2>3. CleanupCall(c)'
    BY <1>5, <1>6, <2>1, <2>2 DEF CleanupCall
  <2>4. QED
    BY <1>3, <1>6, <2>1, <2>3
<1>10. CASE MainProbed(c, d)
  <2>1. /\ UNCHANGED users /\ c.pc = "probe" /\ d.pc = "mirror"
        /\ d.op = "delete" /\ d.name = Legacy
        /\ users["postgres"][Legacy] # NoUser
    BY <1>2, <1>10 DEF MainProbed, Goes
  <2>2. users[Primary][Legacy] = NoUser
    BY <1>2, <2>1 DEF CleanupCall
  <2>3. CleanupCall(c)' /\ d # NoCall
    BY <1>5, <2>1, <2>2 DEF CleanupCall, NoCall
  <2>4. QED
    BY <1>3, <2>1, <2>3
<1>11. CASE MainMirrored(c, d)
  <2>1. /\ c.pc = "mirror" /\ Ends(d, c, "ok")
        /\ users'[Mirror] = [users[Mirror] EXCEPT ![Legacy] = c.rec]
        /\ users'[Primary] = users[Primary]
    BY <1>2, <1>4, <1>11 DEF MainMirrored, Stored
  <2>2. c.rec = NoUser /\ users[Primary][Legacy] = NoUser
    BY <1>1, <1>2, <2>1 DEF InOrder, CleanupCall
  <2>3. users'[Mirror][Legacy] = NoUser
    BY <1>1, <1>4, <2>1, <2>2 DEF DualTypeOK
  <2>4. CleanupCall(c)'
    BY <1>5, <1>6, <2>1, <2>2, <2>3 DEF CleanupCall
  <2>5. QED
    BY <1>3, <1>6, <2>1, <2>4
<1>12. CASE MainLost(c, d)
  <2>1. UNCHANGED users /\ Ends(d, c, "lost")
    BY <1>12 DEF MainLost
  <2>2. CleanupCall(c)'
    BY <1>6, <2>1 DEF CleanupCall
  <2>3. QED
    BY <1>3, <1>6, <2>1, <2>2
<1>13. CASE MainRefused(c, d)
  <2>1. Blocked
    <3>1. CASE c.pc = "get" /\ Refuses(c.op, users[Primary][c.name])
      <4>1. /\ users[Primary][Legacy] = NoUser
            /\ users[ReadBackend][Legacy] # NoUser
        BY <1>2, <3>1 DEF CleanupCall, Refuses
      <4>2. Stranded(Legacy)
        <5>1. ReadBackend \in {Primary, Mirror}
          BY <1>1, TwoStores DEF ReadBackend
        <5>2. QED
          BY <4>1, <5>1 DEF Stranded
      <4>3. QED
        BY <4>2 DEF Blocked
    <3>2. CASE c.pc = "save" /\ ~Takes(Primary, Storing(c))
      <4> DEFINE e == Storing(c)
      <4>1. e.op = "delete" /\ e.name = Legacy /\ Primary = "postgres"
            /\ ~PgTakes(e)
        BY <1>1, <1>2, <1>4, <3>2, StoringIs DEF Takes, Stores
      <4>2. users["postgres"][Legacy] # NoUser
        BY <1>1, <1>2, <3>2, <4>1 DEF CleanupCall, InOrder, Refuses
      <4>3. rows \cap SessionsOf(Legacy) # {}
        BY <4>1, <4>2 DEF PgTakes
      <4>4. QED
        BY <4>3 DEF Blocked
    <3>3. CASE c.pc = "mirror" /\ ~Takes(Mirror, c)
      <4>1. Mirror = "postgres" /\ Primary = "redis" /\ ~PgTakes(c)
        BY <1>4, <3>3 DEF Takes, Stores
      <4>2. users["postgres"][Legacy] # NoUser
        BY <1>2, <3>3, <4>1 DEF CleanupCall
      <4>3. rows \cap SessionsOf(Legacy) # {}
        BY <1>2, <4>1, <4>2 DEF PgTakes
      <4>4. QED
        BY <4>3 DEF Blocked
    <3>4. QED
      BY <1>13, <3>1, <3>2, <3>3 DEF MainRefused
  <2>2. UNCHANGED users /\ Ends(d, c, "refused")
    BY <1>13 DEF MainRefused
  <2>3. CleanupCall(c)'
    BY <1>5, <1>6, <2>1, <2>2 DEF CleanupCall
  <2>4. QED
    BY <1>3, <1>6, <2>2, <2>3
<1>14. QED
  BY <1>3, <1>7, <1>8, <1>9, <1>10, <1>11, <1>12, <1>13 DEF MainSteps

\* While the process starts only the start-up itself takes steps.
LEMMA Boot_Step ==
    ASSUME DualInv, BootInv, NEW p \in Coroutines, Step(p)
    PROVE  BootInv'
<1>1. Busy(p) /\ UNCHANGED <<conf, phase, todo>>
  BY StepCases DEF DualInv
<1>2. phase # "up" => p = Main /\ phase \in {"boot", "cleanup"}
  BY <1>1 DEF DualInv, DualTypeOK, Phases, Resting, Coroutines, Busy, NoCall
<1>3. CASE phase = "up"
  BY <1>1, <1>3 DEF BootInv
<1>4. CASE phase = "boot"
  <2>1. AlignCall(call[Main])
    BY <1>1, <1>2, <1>4 DEF BootInv, Busy, NoCall
  <2>2. /\ AlignCall(call[Main])' /\ UNCHANGED <<conf, owner, rows>>
        /\ \A n \in Names : n # call[Main].name =>
             users'[Primary][n] = users[Primary][n]
    BY <1>2, <1>4, <2>1, Boot_Align
  <2>3. call[Main].name \in todo /\ conf.boot \subseteq Names
    BY <2>1, DualAssumption DEF AlignCall, DualInv, DualTypeOK
  <2>4. \A n \in conf.boot \ todo : Aligned(n)'
    BY <1>4, <2>2, <2>3, SettingsStay DEF BootInv
  <2>5. QED
    BY <1>1, <1>4, <2>2, <2>4 DEF BootInv
<1>5. CASE phase = "cleanup"
  <2>1. /\ CleanupCall(call[Main])' /\ call'[Main] # NoCall
        /\ UNCHANGED <<conf, owner, rows>>
        /\ \A n \in Names : n # Legacy =>
             users'[Primary][n] = users[Primary][n]
    BY <1>2, <1>5, Boot_Cleanup
  <2>2. conf.boot \subseteq Names
    BY DualAssumption DEF DualInv, DualTypeOK
  <2>3. \A n \in conf.boot \ todo : Aligned(n)'
    BY <1>5, <2>1, <2>2, SettingsStay DEF BootInv
  <2>4. QED
    BY <1>1, <1>5, <2>1, <2>3 DEF BootInv
<1>6. QED
  BY <1>2, <1>3, <1>4, <1>5

LEMMA Boot_Begins ==
    ASSUME DualInv, BootInv,
           \/ \E n \in Names : BootUser(n)
           \/ Cleanup /\ phase' = "cleanup"
    PROVE  BootInv'
<1> DEFINE d == call'[Main]
<1>1. ASSUME NEW n \in Names, BootUser(n)
      PROVE  BootInv'
  <2> DEFINE op == IF Known(n) THEN "update" ELSE "create"
  <2>1. /\ phase = "boot" /\ n \in todo
        /\ Begin(Main, op, n, BootChange, NoUser, {})
        /\ UNCHANGED <<conf, phase, todo, data, owner, split, ended>>
    BY <1>1 DEF BootUser, BootChange
  <2>2. call' = [call EXCEPT ![Main] = Begun(op, n, BootChange, NoUser, {})]
    BY <2>1, BootBegins
  <2>3. d = Begun(op, n, BootChange, NoUser, {})
    BY <2>2 DEF DualInv, DualTypeOK, Coroutines
  <2>4. /\ d.op = op /\ d.name = n /\ d.chg = BootChange /\ d.pc = "get"
        /\ d.new <=> op = "create"
    <3>1. op \in Writers
      BY DEF Writers
    <3> HIDE DEF op, d
    <3>2. d.op = op /\ d.name = n /\ d.chg = BootChange /\ d.pc = "get"
      BY <2>3, <3>1 DEF Begun
    <3>3. d.new = (op = "create")
      BY <2>3, Zenon DEF Begun
    <3>4. QED
      BY <3>2, <3>3
  <2>5. UNCHANGED <<conf, owner, rows, users>>
    BY <2>1 DEF data
  <2>6. /\ \A m \in conf.boot \ todo : Aligned(m)'
        /\ Known(n)' <=> Known(n)
    BY <2>1, <2>5, SettingsStay DEF BootInv
  <2>7. AlignCall(call[Main])'
    BY <2>1, <2>4, <2>6 DEF AlignCall
  <2>8. QED
    BY <2>1, <2>5, <2>6, <2>7 DEF BootInv
<1>2. ASSUME Cleanup, phase' = "cleanup"
      PROVE  BootInv'
  <2>1. /\ phase = "boot" /\ todo = {} /\ Legacy \notin conf.boot
        /\ users[ReadBackend][Legacy] # NoUser
        /\ Begin(Main, "delete", Legacy, NoChange, NoUser, {})
        /\ UNCHANGED <<conf, todo, data, owner, split, ended>>
    BY <1>2 DEF Cleanup
  <2>2. call' = [call EXCEPT ![Main] = Begun("delete", Legacy, NoChange, NoUser, {})]
    BY <1>2, <2>1, BootBegins, DualAssumption
  <2>3. d = Begun("delete", Legacy, NoChange, NoUser, {})
    BY <2>2 DEF DualInv, DualTypeOK, Coroutines
  <2>4. d.op = "delete" /\ d.name = Legacy /\ d.pc = "get" /\ d # NoCall
    BY <2>3 DEF Begun, Writers, NoCall
  <2>5. UNCHANGED <<conf, owner, rows, users>>
    BY <2>1 DEF data
  <2>6. /\ \A m \in conf.boot \ todo : Aligned(m)'
        /\ ReadBackend' = ReadBackend
    BY <2>1, <2>5, SettingsStay DEF BootInv
  <2>7. CleanupCall(call[Main])'
    BY <2>1, <2>4, <2>5, <2>6 DEF CleanupCall
  <2>8. QED
    BY <1>2, <2>1, <2>4, <2>5, <2>6, <2>7 DEF BootInv
<1>3. QED
  BY <1>1, <1>2

LEMMA Boot_Rest ==
    ASSUME DualInv, BootInv,
           \/ \E p \in Procs : Serve(p)
           \/ \E c \in Configs : Start(c)
           \/ Cleanup /\ phase' = "up"
           \/ BootReturns \/ Stop \/ UNCHANGED vars
    PROVE  BootInv'
<1>1. ASSUME NEW p \in Procs, Serve(p)
      PROVE  BootInv'
  BY <1>1 DEF Serve, BootInv
<1>2. ASSUME NEW c \in Configs, Start(c)
      PROVE  BootInv'
  <2>1. /\ phase' = "boot" /\ conf' = c /\ todo' = c.boot
        /\ call'[Main] = NoCall
    BY <1>2 DEF Start, DualInv, Resting
  <2>2. QED
    BY <2>1 DEF BootInv
<1>3. CASE Cleanup /\ phase' = "up"
  BY <1>3 DEF BootInv
<1>4. CASE BootReturns
  <2> DEFINE c == call[Main]
  <2>1. /\ c.pc = "done" /\ todo' = todo \ {c.name} /\ call'[Main] = NoCall
        /\ UNCHANGED <<conf, owner, rows, users>>
        /\ c.res = "lost" => phase' = "down"
        /\ c.res = "refused" => phase' = "failed"
        /\ c.res = "ok" => phase' = IF phase = "cleanup" THEN "up" ELSE "boot"
    BY <1>4 DEF BootReturns, At, data, DualInv, DualTypeOK, Coroutines
  <2>2. c # NoCall
    BY <2>1 DEF NoCall
  <2>3. phase \in {"boot", "cleanup"} /\ c.res \in {"ok", "refused", "lost"}
    <3>1. Main \in Coroutines
      BY DEF Coroutines
    <3>2. QED
      BY <2>1, <2>2, <3>1 DEF DualInv, DualTypeOK, Resting, Call, Outcome
  <2>4. /\ c.res = "refused" => Blocked
        /\ phase = "boot" /\ c.res = "ok" => Aligned(c.name)
    BY <2>1, <2>2, <2>3 DEF BootInv, AlignCall, CleanupCall
  <2>5. (Blocked' <=> Blocked) /\ \A n : Aligned(n)' <=> Aligned(n)
    BY <2>1, SettingsStay
  <2>6. CASE c.res = "ok" /\ phase = "boot"
    <3>1. phase' = "boot" /\ \A n \in conf.boot \ todo' : Aligned(n)
      BY <2>1, <2>4, <2>6 DEF BootInv
    <3>2. todo' \subseteq conf.boot
      BY <2>1, <2>6 DEF BootInv
    <3>3. QED
      BY <2>1, <2>5, <3>1, <3>2 DEF BootInv
  <2>7. QED
    BY <2>1, <2>3, <2>4, <2>5, <2>6 DEF BootInv
<1>5. CASE Stop
  BY <1>5 DEF Stop, BootInv
<1>6. CASE UNCHANGED vars
  <2>1. UNCHANGED <<conf, phase, todo, owner, rows, users, call>>
    BY <1>6 DEF vars, data
  <2>2. QED
    BY <2>1 DEF BootInv, AlignCall, CleanupCall, Aligned, Known, Primary, Mirror,
                ReadBackend, Blocked, Stranded, SessionsOf
<1>7. QED
  BY <1>1, <1>2, <1>3, <1>4, <1>5, <1>6

LEMMA Boot_Init == DualInit => BootInv
  BY DEF DualInit, BootInv

LEMMA Boot_Next == DualInv /\ BootInv /\ [DualNext]_vars => BootInv'
<1>1. Cleanup => phase' \in {"up", "cleanup"}
  BY DEF Cleanup
<1>2. QED
  BY <1>1, Boot_Step, Boot_Begins, Boot_Rest DEF DualNext

\* Whatever earlier processes, faults and changes of the settings have left in
\* the stores, start-up is refused only over an account that is in the mirror
\* alone, or an old admin whom session rows keep (user_service.py:110-131,
\* 372-383).
THEOREM StartRefusedOnlyThen == DualSpec => []StartFailsOnStranded
<1>1. BootInv => StartFailsOnStranded
  BY DEF BootInv, StartFailsOnStranded, Blocked
<1>2. QED
  BY <1>1, Init_Inv, Next_Inv, Boot_Init, Boot_Next, PTL DEF DualSpec

\* When PostgreSQL is read it is written, by itself or by dual write.  Then a
\* start-up that succeeds has made every configured account active with its
\* configured password in the primary, and the old admin is gone from the store
\* that is read (user_service.py:110-131, 372-383).
THEOREM BootAlignsHolds ==
    ASSUME \A c \in Configs :
             c.read = "postgres" => c.dual \/ c.storage = "postgres"
    PROVE  DualSpec => BootAligns
<1> DEFINE Up == /\ \A n \in conf.boot : /\ users'[Primary][n] # NoUser
                                         /\ users'[Primary][n].pw = BootPassword
                                         /\ users'[Primary][n].active
                 /\ Legacy \notin conf.boot =>
                      users'[ReadBackend][Legacy] = NoUser
<1>1. ASSUME DualInv, BootInv, [DualNext]_vars, phase # "up", phase' = "up"
      PROVE  Up
  <2>1. Cleanup \/ BootReturns
    <3>1. \A p \in Procs : ~Serve(p)
      BY <1>1 DEF Serve
    <3>2. \A p \in Coroutines : ~Step(p)
      BY <1>1 DEF Step
    <3>3. ~UNCHANGED vars /\ ~Stop
      BY <1>1 DEF vars, Stop
    <3>4. /\ \A c \in Configs : ~Start(c)
          /\ \A n \in Names : ~BootUser(n)
      BY <1>1 DEF Start, BootUser
    <3>5. QED
      BY <1>1, <3>1, <3>2, <3>3, <3>4 DEF DualNext
  <2>2. CASE Cleanup
    <3>1. /\ phase = "boot" /\ todo = {} /\ UNCHANGED users
          /\ Legacy \notin conf.boot => users[ReadBackend][Legacy] = NoUser
      BY <1>1, <2>2 DEF Cleanup, data
    <3>2. \A n \in conf.boot : Aligned(n)
      BY <1>1, <3>1 DEF BootInv
    <3>3. QED
      BY <3>1, <3>2 DEF Aligned
  <2>3. CASE BootReturns
    <3> DEFINE c == call[Main]
    <3>1. c.pc = "done" /\ UNCHANGED users /\ phase = "cleanup" /\ c.res = "ok"
      <4>1. Main \in Coroutines /\ c.pc = "done" /\ c # NoCall /\ UNCHANGED users
        BY <2>3 DEF BootReturns, At, data, Coroutines, NoCall
      <4>2. c.res \in {"ok", "refused", "lost"}
        BY <1>1, <4>1 DEF DualInv, DualTypeOK, Call, Outcome
      <4>3. QED
        BY <1>1, <2>3, <4>1, <4>2 DEF BootReturns
    <3>2. \A n \in conf.boot : Aligned(n)
      BY <1>1, <3>1 DEF BootInv
    <3>3. /\ users[Primary][Legacy] = NoUser
          /\ conf.dual => users[Mirror][Legacy] = NoUser
      BY <1>1, <3>1 DEF BootInv, CleanupCall
    <3>4. users[ReadBackend][Legacy] = NoUser
      <4>1. /\ conf \in Configs
            /\ conf.storage \in Stores /\ conf.read \in Stores
        BY <1>1, DualAssumption DEF DualInv, DualTypeOK
      <4>2. ReadBackend = Primary \/ (conf.dual /\ ReadBackend = Mirror)
        BY <4>1 DEF Stores, ReadBackend, Primary, Mirror
      <4>3. QED
        BY <3>3, <4>2
    <3>5. QED
      BY <3>1, <3>2, <3>4 DEF Aligned
  <2>4. QED
    BY <2>1, <2>2, <2>3
<1>2. DualInv /\ BootInv /\ [DualNext]_vars
        => [phase # "up" /\ phase' = "up" => Up]_vars
  BY <1>1
<1>3. QED
  BY <1>2, Init_Inv, Next_Inv, Boot_Init, Boot_Next, PTL
     DEF DualSpec, BootAligns
=============================================================================
