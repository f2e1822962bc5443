---------------------------- MODULE ChatSessions ----------------------------
(***************************************************************************)
(* Conversations: app/services/session_manager.py, the confirmation of     *)
(* dangerous actions in app/services/chat_service.py, and the endpoints    *)
(* that call them (chat.py, qa.py).                                        *)
(*                                                                         *)
(* A conversation is three Redis keys that no transaction holds together:  *)
(* the list of messages, the metadata (owner, message count), and the      *)
(* owner's set of conversations.  The first two have a TTL, each set by a  *)
(* command of its own.  One action is one Redis command; creq[p] is the    *)
(* request of coroutine p with its local variables.  A session id comes    *)
(* from the client, so two users may name the same one.                    *)
(*                                                                         *)
(* A turn stores a message twice: the question, then, after the model or   *)
(* the agent has answered, the answer.  Each time: LPUSH, LTRIM, EXPIRE,   *)
(* GET metadata, (SET, EXPIRE, SADD if there is none,) SET, EXPIRE, SADD.  *)
(*                                                                         *)
(* Hazards names what the environment may do: "overlap", two requests that *)
(* write one conversation at a time; "straddle", a TTL that ends while a   *)
(* request on the conversation is under way; "fault", a Redis error or a   *)
(* worker that dies between two commands.  Titles, previews, time stamps   *)
(* and the text of messages are left out; an entry that does not parse     *)
(* never occurs (only this code writes them).                              *)
(***************************************************************************)
EXTENDS Naturals, FiniteSets, Sequences

CONSTANTS
    Procs,          \* coroutines
    Users, Admins,  \* subjects of access tokens, those with role admin
    Sessions,       \* conversation ids
    Challenges,     \* confirm tokens (bound: as many can be issued)
    MaxMessages,    \* _max_messages(): messages kept per conversation
    TurnBound,      \* bound: as many turns are begun
    Hazards,
    Nothing         \* an absent key

ASSUME ChatAssumption ==
    /\ IsFiniteSet(Procs)
    /\ Admins \subseteq Users
    /\ MaxMessages \in Nat \ {0}
    /\ TurnBound \in Nat
    /\ Hazards \subseteq {"overlap", "straddle", "fault"}

Message == [by : Users, role : {"user", "assistant"}]
SessionMetadata == [owner : Users, count : Nat]

ASSUME NothingAssumption == Nothing \notin SessionMetadata \cup Challenges \cup (Users \X Sessions)

VARIABLES
    history,    \* sess:<id>:history, newest message first; <<>>: absent
    meta,       \* sess:<id>:meta, or Nothing
    timed,      \* per conversation, which of "history", "meta" have a TTL
    outlives,   \* was the TTL of the history set after that of the metadata?
    listed,     \* sess:user:<name>:all
    confirm,    \* confirm:<user>:<session>:<action>, or Nothing
    creq,       \* process -> its request
    \* History variables.
    issued,     \* challenge -> the user and conversation it was sent to
    executed,   \* challenge -> how many requests executed its action
    gone,       \* conversations deleted, and no chat begun since
    faulted,    \* conversations on which a request broke off
    turns       \* turns begun (counted for TurnBound)

cvars == <<history, meta, timed, outlives, listed, confirm, creq,
           issued, executed, gone, faulted, turns>>

NoReq == [kind |-> "none", pc |-> "idle"]

Request == [kind : {"talk", "ask", "confirm", "delete", "detail"},
            pc : {"getOwner", "set", "expireMeta", "sadd", "recent", "lpush",
                  "ltrim", "expireHistory", "challenge", "getToken",
                  "delToken", "act", "getDelete", "delHistory", "delMeta",
                  "srem", "getDetail", "done"},
            turn : {"owner", "user", "assistant"},   \* what is being stored
            user : Users, sess : Sessions,
            seen : SessionMetadata \cup {Nothing},   \* metadata to save
            fresh : BOOLEAN,                         \* is it bootstrapped?
            token : Challenges \cup {Nothing},
            page : SUBSET Users,                     \* authors read so far
            res : {"none", "ok", "forbidden", "absent", "error"}]

ChatTypeOK ==
    /\ history \in [Sessions -> Seq(Message)]
    /\ meta \in [Sessions -> SessionMetadata \cup {Nothing}]
    /\ timed \in [Sessions -> SUBSET {"history", "meta"}]
    /\ outlives \in [Sessions -> BOOLEAN]
    /\ listed \in [Users -> SUBSET Sessions]
    /\ confirm \in [Users \X Sessions -> Challenges \cup {Nothing}]
    /\ creq \in [Procs -> Request \cup {NoReq}]
    /\ issued \in [Challenges -> (Users \X Sessions) \cup {Nothing}]
    /\ executed \in [Challenges -> Nat]
    /\ gone \in SUBSET Sessions
    /\ turns \in Nat

ChatInit ==
    /\ history = [s \in Sessions |-> <<>>]
    /\ meta = [s \in Sessions |-> Nothing]
    /\ timed = [s \in Sessions |-> {}]
    /\ outlives = [s \in Sessions |-> FALSE]
    /\ listed = [u \in Users |-> {}]
    /\ confirm = [k \in Users \X Sessions |-> Nothing]
    /\ creq = [p \in Procs |-> NoReq]
    /\ issued = [ch \in Challenges |-> Nothing]
    /\ executed = [ch \in Challenges |-> 0]
    /\ gone = {} /\ faulted = {}
    /\ turns = 0

At(p, pc) == creq[p].pc = pc
Idle(p) == At(p, "idle") \/ At(p, "done")
User(p) == creq[p].user
Sess(p) == creq[p].sess

\* A request that writes conversation s is under way.
Writing(p, s) == ~Idle(p) /\ creq[p].sess = s /\ creq[p].kind # "detail"
Quiet(s) == \A p \in Procs : ~Writing(p, s)
Using(s) == \E p \in Procs : ~Idle(p) /\ creq[p].sess = s

GoTo(p, pc) == creq' = [creq EXCEPT ![p].pc = pc]
Respond(p, res) == creq' = [creq EXCEPT ![p].pc = "done", ![p].res = res]

ghosts == <<issued, executed, gone, faulted, turns>>

-----------------------------------------------------------------------------
(* The endpoints: what a request is, and where it begins *)

Begin(p, kind, u, s, token, pc) ==
    /\ Idle(p)
    /\ kind = "detail" \/ "overlap" \in Hazards \/ Quiet(s)
    /\ creq' = [creq EXCEPT ![p] =
         [kind |-> kind, pc |-> pc, turn |-> "owner", user |-> u, sess |-> s,
          seen |-> Nothing, fresh |-> FALSE, token |-> token, page |-> {},
          res |-> "none"]]
    /\ UNCHANGED <<history, meta, timed, outlives, listed, confirm,
                   issued, executed, faulted>>

Turn(p, kind, u, s, token) ==
    /\ turns < TurnBound
    /\ Begin(p, kind, u, s, token, "getOwner")
    /\ turns' = turns + 1
    /\ gone' = gone \ {s}

\* POST /chat/ without an action, and POST /chat/qa.
Talk(p, u, s) == Turn(p, "talk", u, s, Nothing)

\* POST /chat/ with a sensitive action, without and with a confirm_token.
Ask(p, u, s) ==
    /\ Cardinality({ch \in Challenges : issued[ch] = Nothing}) >
         Cardinality({q \in Procs : ~Idle(q) /\ creq[q].kind = "ask"})
    /\ Turn(p, "ask", u, s, Nothing)

Confirm(p, u, s, ch) == issued[ch] # Nothing /\ Turn(p, "confirm", u, s, ch)

\* DELETE /chat/sessions/{session_id} and GET /chat/sessions/{session_id}.
Remove(p, u, s) == Begin(p, "delete", u, s, Nothing, "getDelete")
                   /\ UNCHANGED <<gone, turns>>
Detail(p, u, s) == Begin(p, "detail", u, s, Nothing, "getDetail")
                   /\ UNCHANGED <<gone, turns>>

-----------------------------------------------------------------------------
(* ensure_session_owner and _save_session_metadata *)

Counted(m) == [m EXCEPT !.count = @ + 1]

\* chat(): a sensitive action is for administrators; the check comes after
\* the conversation has been bootstrapped.
AfterOwner(p) ==
    IF creq[p].kind \in {"ask", "confirm"} /\ User(p) \notin Admins
    THEN [creq[p] EXCEPT !.pc = "done", !.res = "forbidden"]
    ELSE [creq[p] EXCEPT !.pc = "recent"]

\* Mutant: the owner is not compared.
GetOwnerUnchecked(p) ==
    LET m == meta[Sess(p)] IN
    /\ At(p, "getOwner")
    /\ creq' = [creq EXCEPT ![p] =
         IF m = Nothing
         THEN [@ EXCEPT !.pc = "set", !.fresh = TRUE,
                        !.seen = [owner |-> User(p), count |-> 0]]
         ELSE IF creq[p].turn = "owner" THEN AfterOwner(p)
         ELSE [@ EXCEPT !.pc = "set", !.fresh = FALSE,
                        !.seen = Counted(m)]]
    /\ UNCHANGED <<history, meta, timed, outlives, listed, confirm, ghosts>>

\* GET metadata.  A conversation of somebody else: 403 from the endpoint's
\* own check, an uncaught PermissionError (500, or 502 from qa) in a turn.
GetOwner(p) ==
    LET m == meta[Sess(p)] IN
    /\ At(p, "getOwner")
    /\ creq' = [creq EXCEPT ![p] =
         IF m = Nothing
         THEN [@ EXCEPT !.pc = "set", !.fresh = TRUE,
                        !.seen = [owner |-> User(p), count |-> 0]]
         ELSE IF m.owner # User(p)
         THEN [@ EXCEPT !.pc = "done", !.res = IF creq[p].turn = "owner"
                                               THEN "forbidden" ELSE "error"]
         ELSE IF creq[p].turn = "owner" THEN AfterOwner(p)
         ELSE [@ EXCEPT !.pc = "set", !.fresh = FALSE,
                        !.seen = Counted(m)]]
    /\ UNCHANGED <<history, meta, timed, outlives, listed, confirm, ghosts>>

\* Mutant: the bootstrapped metadata is written for every message.
SetMetaReset(p) ==
    /\ At(p, "set")
    /\ meta' = [meta EXCEPT ![Sess(p)] = [creq[p].seen EXCEPT !.count = 0]]
    /\ timed' = [timed EXCEPT ![Sess(p)] = @ \ {"meta"}]
    /\ GoTo(p, "expireMeta")
    /\ UNCHANGED <<history, outlives, listed, confirm, ghosts>>

\* SET without EX: the key loses any TTL it had.
SetMeta(p) ==
    /\ At(p, "set")
    /\ meta' = [meta EXCEPT ![Sess(p)] = creq[p].seen]
    /\ timed' = [timed EXCEPT ![Sess(p)] = @ \ {"meta"}]
    /\ GoTo(p, "expireMeta")
    /\ UNCHANGED <<history, outlives, listed, confirm, ghosts>>

\* Mutant: EXPIRE is only sent for new metadata.
ExpireMetaOnce(p) ==
    /\ At(p, "expireMeta")
    /\ timed' = [timed EXCEPT ![Sess(p)] =
                    IF creq[p].fresh THEN @ \cup {"meta"} ELSE @]
    /\ outlives' = [outlives EXCEPT ![Sess(p)] = FALSE]
    /\ GoTo(p, "sadd")
    /\ UNCHANGED <<history, meta, listed, confirm, ghosts>>

\* EXPIRE does nothing to a key that is gone by now.
ExpireMeta(p) ==
    /\ At(p, "expireMeta")
    /\ timed' = [timed EXCEPT ![Sess(p)] =
                    IF meta[Sess(p)] = Nothing THEN @ ELSE @ \cup {"meta"}]
    /\ outlives' = [outlives EXCEPT ![Sess(p)] = FALSE]
    /\ GoTo(p, "sadd")
    /\ UNCHANGED <<history, meta, listed, confirm, ghosts>>

\* What follows a stored message.
AfterAppend(p) ==
    [creq[p] EXCEPT !.pc =
        IF creq[p].turn = "assistant" THEN "recent"
        ELSE CASE creq[p].kind = "ask" -> "challenge"
               [] creq[p].kind = "confirm" -> "getToken"
               [] OTHER -> "act"]

\* Mutant: a conversation that exists is not indexed.
SAddForgotten(p) ==
    /\ At(p, "sadd")
    /\ creq' = [creq EXCEPT ![p] =
         IF ~creq[p].fresh THEN AfterAppend(p)
         ELSE IF creq[p].turn = "owner" THEN AfterOwner(p)
         ELSE [@ EXCEPT !.pc = "set", !.fresh = FALSE,
                        !.seen = Counted(creq[p].seen)]]
    /\ UNCHANGED <<history, meta, timed, outlives, listed, confirm, ghosts>>

\* SADD, then on: append_message saves what it bootstrapped a second time.
SAdd(p) ==
    /\ At(p, "sadd")
    /\ listed' = [listed EXCEPT ![creq[p].seen.owner] = @ \cup {Sess(p)}]
    /\ creq' = [creq EXCEPT ![p] =
         IF ~creq[p].fresh THEN AfterAppend(p)
         ELSE IF creq[p].turn = "owner" THEN AfterOwner(p)
         ELSE [@ EXCEPT !.pc = "set", !.fresh = FALSE,
                        !.seen = Counted(creq[p].seen)]]
    /\ UNCHANGED <<history, meta, timed, outlives, confirm, ghosts>>

-----------------------------------------------------------------------------
(* append_message and get_history *)

Authors(h) == {h[i].by : i \in 1..Len(h)}

\* get_history: LRANGE before the question is stored, and for the response.
Recent(p) ==
    /\ At(p, "recent")
    /\ creq' = [creq EXCEPT ![p] =
         IF creq[p].turn = "owner"
         THEN [@ EXCEPT !.page = Authors(history[Sess(p)]),
                        !.turn = "user", !.pc = "lpush"]
         ELSE [@ EXCEPT !.page = creq[p].page \cup Authors(history[Sess(p)]),
                        !.pc = "done", !.res = "ok"]]
    /\ UNCHANGED <<history, meta, timed, outlives, listed, confirm, ghosts>>

\* Mutant: RPUSH, while everything else expects the newest first.
RPush(p) ==
    LET s == Sess(p) IN
    /\ At(p, "lpush")
    /\ history' = [history EXCEPT ![s] =
                      Append(@, [by |-> User(p), role |-> creq[p].turn])]
    /\ outlives' = [outlives EXCEPT ![s] = @ \/ history[s] = <<>>]
    /\ GoTo(p, "ltrim")
    /\ UNCHANGED <<meta, timed, listed, confirm, ghosts>>

\* LPUSH: the message is stored before anybody looks at the owner.  A key
\* that did not exist has no TTL yet, so it outlives its metadata.
LPush(p) ==
    LET s == Sess(p) IN
    /\ At(p, "lpush")
    /\ history' = [history EXCEPT ![s] =
                      <<[by |-> User(p), role |-> creq[p].turn]>> \o @]
    /\ outlives' = [outlives EXCEPT ![s] = @ \/ history[s] = <<>>]
    /\ GoTo(p, "ltrim")
    /\ UNCHANGED <<meta, timed, listed, confirm, ghosts>>

\* Mutant: LTRIM takes a length, not the index of the last element.
LTrimOffByOne(p) ==
    /\ At(p, "ltrim")
    /\ history' = [history EXCEPT ![Sess(p)] =
         IF Len(@) <= MaxMessages THEN @ ELSE SubSeq(@, 1, MaxMessages + 1)]
    /\ GoTo(p, "expireHistory")
    /\ UNCHANGED <<meta, timed, outlives, listed, confirm, ghosts>>

LTrim(p) ==
    /\ At(p, "ltrim")
    /\ history' = [history EXCEPT ![Sess(p)] =
         IF Len(@) <= MaxMessages THEN @ ELSE SubSeq(@, 1, MaxMessages)]
    /\ GoTo(p, "expireHistory")
    /\ UNCHANGED <<meta, timed, outlives, listed, confirm, ghosts>>

\* subject is never empty here, so the metadata is always saved next.
ExpireHistory(p) ==
    LET s == Sess(p) IN
    /\ At(p, "expireHistory")
    /\ timed' = [timed EXCEPT ![s] =
                    IF history[s] = <<>> THEN @ ELSE @ \cup {"history"}]
    /\ outlives' = [outlives EXCEPT ![s] = TRUE]
    /\ GoTo(p, "getOwner")
    /\ UNCHANGED <<history, meta, listed, confirm, ghosts>>

-----------------------------------------------------------------------------
(* ChatService.chat between the two messages *)

\* The answer is stored next.
Answer(p) == [creq[p] EXCEPT !.turn = "assistant", !.pc = "lpush"]

\* _issue_confirm_token: a new challenge takes the place of the previous one.
Challenge(p) ==
    LET k == <<User(p), Sess(p)>> IN
    /\ At(p, "challenge")
    /\ \E ch \in Challenges :
         /\ issued[ch] = Nothing
         /\ issued' = [issued EXCEPT ![ch] = k]
         /\ confirm' = [confirm EXCEPT ![k] = ch]
    /\ creq' = [creq EXCEPT ![p] = Answer(p)]
    /\ UNCHANGED <<history, meta, timed, outlives, listed,
                   executed, gone, faulted, turns>>

\* Mutant: any stored challenge will do.
GetTokenUnchecked(p) ==
    /\ At(p, "getToken")
    /\ creq' = [creq EXCEPT ![p] =
         IF confirm[<<User(p), Sess(p)>>] # Nothing
         THEN [@ EXCEPT !.pc = "delToken"] ELSE Answer(p)]
    /\ UNCHANGED <<history, meta, timed, outlives, listed, confirm, ghosts>>

\* _consume_confirm_token: GET and compare, then DEL.
GetToken(p) ==
    /\ At(p, "getToken")
    /\ creq' = [creq EXCEPT ![p] =
         IF confirm[<<User(p), Sess(p)>>] = creq[p].token
         THEN [@ EXCEPT !.pc = "delToken"] ELSE Answer(p)]
    /\ UNCHANGED <<history, meta, timed, outlives, listed, confirm, ghosts>>

\* Mutant: the challenge is not deleted.
KeepToken(p) ==
    /\ At(p, "delToken")
    /\ GoTo(p, "act")
    /\ UNCHANGED <<history, meta, timed, outlives, listed, confirm, ghosts>>

DelToken(p) ==
    /\ At(p, "delToken")
    /\ confirm' = [confirm EXCEPT ![<<User(p), Sess(p)>>] = Nothing]
    /\ GoTo(p, "act")
    /\ UNCHANGED <<history, meta, timed, outlives, listed, ghosts>>

\* The engine, the document agent or its model answers, or raises.
Act(p) ==
    /\ At(p, "act")
    /\ executed' = IF creq[p].kind = "confirm"
                   THEN [executed EXCEPT ![creq[p].token] = @ + 1]
                   ELSE executed
    /\ \/ creq' = [creq EXCEPT ![p] = Answer(p)]
       \/ Respond(p, "error")
    /\ UNCHANGED <<history, meta, timed, outlives, listed, confirm,
                   issued, gone, faulted, turns>>

-----------------------------------------------------------------------------
(* delete_session and the detail endpoint *)

\* Their first command, GET metadata, and their refusals.
CheckOwner(p) ==
    LET m == meta[Sess(p)] IN
    /\ \/ At(p, "getDelete") \/ At(p, "getDetail")
    /\ CASE m = Nothing -> Respond(p, "absent")
         [] m # Nothing /\ m.owner # User(p) -> Respond(p, "forbidden")
         [] OTHER -> creq' = [creq EXCEPT ![p].turn = "assistant",
              ![p].pc = IF At(p, "getDelete") THEN "delHistory" ELSE "recent"]
    /\ UNCHANGED <<history, meta, timed, outlives, listed, confirm, ghosts>>

\* Mutant: the messages are left behind.
KeepHistory(p) ==
    /\ At(p, "delHistory")
    /\ GoTo(p, "delMeta")
    /\ UNCHANGED <<history, meta, timed, outlives, listed, confirm, ghosts>>

DelHistory(p) ==
    /\ At(p, "delHistory")
    /\ history' = [history EXCEPT ![Sess(p)] = <<>>]
    /\ timed' = [timed EXCEPT ![Sess(p)] = @ \ {"history"}]
    /\ GoTo(p, "delMeta")
    /\ UNCHANGED <<meta, outlives, listed, confirm, ghosts>>

DelMeta(p) ==
    /\ At(p, "delMeta")
    /\ meta' = [meta EXCEPT ![Sess(p)] = Nothing]
    /\ timed' = [timed EXCEPT ![Sess(p)] = @ \ {"meta"}]
    /\ GoTo(p, "srem")
    /\ UNCHANGED <<history, outlives, listed, confirm, ghosts>>

SRem(p) ==
    /\ At(p, "srem")
    /\ listed' = [listed EXCEPT ![User(p)] = @ \ {Sess(p)}]
    /\ Respond(p, "ok")
    /\ gone' = gone \cup {Sess(p)}
    /\ UNCHANGED <<history, meta, timed, outlives, confirm,
                   issued, executed, faulted, turns>>

-----------------------------------------------------------------------------
(* The environment *)

\* The TTLs of a conversation end in the order in which they were last set;
\* they are equal, so the history of a conversation at rest goes first.
HistoryExpires(s) ==
    /\ "history" \in timed[s]
    /\ "straddle" \in Hazards \/ ~Using(s)
    /\ history' = [history EXCEPT ![s] = <<>>]
    /\ timed' = [timed EXCEPT ![s] = @ \ {"history"}]
    /\ UNCHANGED <<meta, outlives, listed, confirm, creq, ghosts>>

MetaExpires(s) ==
    /\ "meta" \in timed[s]
    /\ "straddle" \in Hazards \/ ~Using(s)
    /\ history[s] = <<>> \/ outlives[s]
    /\ meta' = [meta EXCEPT ![s] = Nothing]
    /\ timed' = [timed EXCEPT ![s] = @ \ {"meta"}]
    /\ UNCHANGED <<history, outlives, listed, confirm, creq, ghosts>>

ChallengeExpires(k) ==
    /\ confirm[k] # Nothing
    /\ confirm' = [confirm EXCEPT ![k] = Nothing]
    /\ UNCHANGED <<history, meta, timed, outlives, listed, creq, ghosts>>

\* A command raises, or the worker is gone: what was written stays.
Fails(p) ==
    /\ "fault" \in Hazards
    /\ ~Idle(p)
    /\ Respond(p, "error")
    /\ faulted' = faulted \cup {Sess(p)}
    /\ UNCHANGED <<history, meta, timed, outlives, listed, confirm,
                   issued, executed, gone, turns>>

ChatStep(p) ==
    \/ GetOwner(p) \/ SetMeta(p) \/ ExpireMeta(p) \/ SAdd(p)
    \/ Recent(p) \/ LPush(p) \/ LTrim(p) \/ ExpireHistory(p)
    \/ Challenge(p) \/ GetToken(p) \/ DelToken(p) \/ Act(p)
    \/ CheckOwner(p) \/ DelHistory(p) \/ DelMeta(p) \/ SRem(p)

ChatArrive(p) == \E u \in Users, s \in Sessions :
    \/ Talk(p, u, s)
    \/ Ask(p, u, s)
    \/ \E ch \in Challenges : Confirm(p, u, s, ch)
    \/ Remove(p, u, s)
    \/ Detail(p, u, s)

ChatEnvironment ==
    \/ \E s \in Sessions : HistoryExpires(s) \/ MetaExpires(s)
    \/ \E k \in Users \X Sessions : ChallengeExpires(k)
    \/ \E p \in Procs : Fails(p)

ChatNext ==
    \/ \E p \in Procs : ChatStep(p) \/ ChatArrive(p)
    \/ ChatEnvironment

ChatSpec == ChatInit /\ [][ChatNext]_cvars

-----------------------------------------------------------------------------
(* What holds whatever the environment does *)

\* A conversation never grows past its cap by more than the messages whose
\* LTRIM is still to come (append_message, LPUSH then LTRIM), unless a
\* request on it broke off: a message whose trim was lost stays until the
\* next one.
HistoryIsBounded ==
    \A s \in Sessions : s \notin faulted =>
        Len(history[s]) <= MaxMessages
            + Cardinality({p \in Procs : At(p, "ltrim") /\ Sess(p) = s})

\* No key stays for ever: metadata or messages without a TTL are about to
\* be given one, by the request that took it away or made the key (SET drops
\* the TTL, LPUSH makes a key without).  A request that breaks off between
\* the two commands leaves an immortal key, of its own conversation only.
ExpiryIsComing ==
    \A s \in Sessions : s \notin faulted =>
        /\ meta[s] # Nothing /\ "meta" \notin timed[s] =>
             \E p \in Procs : At(p, "expireMeta") /\ Sess(p) = s
        /\ history[s] # <<>> /\ "history" \notin timed[s] =>
             \E p \in Procs : (At(p, "ltrim") \/ At(p, "expireHistory"))
                              /\ Sess(p) = s

\* A sensitive action is executed only for the challenge that was sent to
\* the same user in the same conversation (_confirm_key, the comparison), by
\* an administrator, whatever else is under way and whatever fails.
OnlyConfirmedActs ==
    \A p \in Procs : creq[p].kind = "confirm" /\ creq[p].pc \in {"delToken", "act"}
        => /\ issued[creq[p].token] = <<User(p), Sess(p)>>
           /\ User(p) \in Admins

-----------------------------------------------------------------------------
(* What holds when the requests that write a conversation are serial *)

\* A challenge is good for one execution: DEL before the action, and a
\* number that is never issued twice.
ConfirmedOnce == \A ch \in Challenges : executed[ch] <= 1

\* The messages of a conversation are its owner's.
MessagesAreOwners ==
    \A s \in Sessions : meta[s] # Nothing =>
        Authors(history[s]) \subseteq {meta[s].owner}

\* What a response or the model's context was built from is the caller's own.
PageIsOwn ==
    \A p \in Procs : creq[p].pc # "idle" /\ creq[p].kind # "detail" =>
        creq[p].page \subseteq {creq[p].user}

\* The count the session list shows covers every stored message once the
\* conversation is quiet: no increment is lost, none is forgotten.
CountCoversHistory ==
    \A s \in Sessions : Quiet(s) /\ meta[s] # Nothing =>
        Len(history[s]) <= meta[s].count

\* In the stored order an answer stands right after a question of the same
\* user; a question may lack an answer (the model raised).
AnswersFollowQuestions ==
    \A s \in Sessions : \A i \in 1..(Len(history[s]) - 1) :
        history[s][i].role = "assistant" =>
            history[s][i + 1] = [by |-> history[s][i].by, role |-> "user"]

\* A conversation that exists is in its owner's list, or will be before the
\* request that writes it returns.
LiveIsListed ==
    \A s \in Sessions : Quiet(s) /\ meta[s] # Nothing =>
        s \in listed[meta[s].owner]

\* After DELETE has been answered the conversation is gone, until somebody
\* begins a new one under its id.
DeletedIsGone ==
    \A s \in gone : meta[s] = Nothing /\ history[s] = <<>>
=============================================================================
