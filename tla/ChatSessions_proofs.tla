------------------------ MODULE ChatSessions_proofs ------------------------
(***************************************************************************)
(* Theorems about ChatSessions, for any number of coroutines, users,       *)
(* conversations and confirm tokens, and whatever the environment may do.  *)
(***************************************************************************)
EXTENDS ChatSessions, FiniteSetTheorems, TLAPS

Sensitive == {"ask", "confirm"}

\* The order of the commands of request c.
InOrder(c) ==
    c.pc # "idle" =>
    /\ c.pc \in {"set", "expireMeta", "sadd"} => c.seen # Nothing
    /\ c.pc \in {"set", "expireMeta", "sadd"} /\ ~c.fresh => c.turn # "owner"
    /\ c.kind = "confirm" => c.token # Nothing
    /\ c.kind \in Sensitive /\ (c.turn # "owner" \/ c.pc = "recent")
         => c.user \in Admins
    /\ c.pc \in {"lpush", "ltrim", "expireHistory", "challenge", "getToken",
                 "delToken", "act"} => c.turn # "owner"
    /\ c.pc = "challenge" => c.kind = "ask"
    /\ c.pc \in {"getToken", "delToken"} => c.kind = "confirm"
    /\ c.pc = "act" => c.kind \in {"talk", "confirm"}
    /\ c.kind \in {"delete", "detail"} =>
         c.pc \in {"getDelete", "getDetail", "delHistory", "delMeta", "srem",
                   "recent", "done"}
         /\ (c.pc = "recent" => c.turn # "owner")
    /\ c.pc \in {"getDelete", "getDetail"} => c.kind \in {"delete", "detail"}

\* The confirm token of request c, once it was compared.
Confirmed(c) ==
    c.pc \in {"delToken", "act"} /\ c.kind = "confirm" =>
        issued[c.token] = <<c.user, c.sess>>

ChallengesMatch ==
    \A k \in Users \X Sessions : confirm[k] # Nothing => issued[confirm[k]] = k

ChatInv ==
    /\ ChatTypeOK
    /\ ChallengesMatch
    /\ \A p \in Procs : InOrder(creq[p]) /\ Confirmed(creq[p])

\* A compared confirm token is one that was sent to somebody.
LEMMA ConfirmedIsIssued ==
    ASSUME NEW c \in Request, InOrder(c), Confirmed(c),
           c.pc \in {"delToken", "act"}, c.kind = "confirm"
    PROVE  c.token \in Challenges /\ issued[c.token] # Nothing
<1>1. c.token \in Challenges
  BY DEF InOrder, Request
<1>2. <<c.user, c.sess>> \in Users \X Sessions
  BY DEF Request
<1>3. issued[c.token] = <<c.user, c.sess>>
  BY DEF Confirmed
<1>4. QED
  BY <1>1, <1>2, <1>3, NothingAssumption

LEMMA ChatInit_Inv == ChatInit => ChatInv
  BY DEF ChatInit, ChatInv, ChatTypeOK, ChallengesMatch, InOrder, Confirmed,
         NoReq

\* A step that replaces p's request by c: what is left to show.
LEMMA Replaced ==
    ASSUME ChatInv, NEW p \in Procs, NEW c \in Request,
           creq' = [creq EXCEPT ![p] = c],
           history' \in [Sessions -> Seq(Message)],
           meta' \in [Sessions -> SessionMetadata \cup {Nothing}],
           timed' \in [Sessions -> SUBSET {"history", "meta"}],
           outlives' \in [Sessions -> BOOLEAN],
           listed' \in [Users -> SUBSET Sessions],
           executed' \in [Challenges -> Nat],
           gone' \in SUBSET Sessions, turns' \in Nat,
           confirm' \in [Users \X Sessions -> Challenges \cup {Nothing}],
           issued' \in [Challenges -> (Users \X Sessions) \cup {Nothing}],
           \A ch \in Challenges : issued[ch] # Nothing => issued'[ch] = issued[ch],
           ChallengesMatch',
           InOrder(c),
           c.pc \in {"delToken", "act"} /\ c.kind = "confirm" =>
               issued[c.token] = <<c.user, c.sess>>
    PROVE  ChatInv'
<1>1. ChatTypeOK'
  BY DEF ChatInv, ChatTypeOK
<1>2. ASSUME NEW q \in Procs
      PROVE  InOrder(creq[q])' /\ Confirmed(creq[q])'
  <2>1. CASE q = p
    <3>1. creq'[q] = c
      BY <2>1 DEF ChatInv, ChatTypeOK
    <3>2. c.pc \in {"delToken", "act"} /\ c.kind = "confirm" =>
             c.token \in Challenges /\ issued[c.token] # Nothing
      BY ConfirmedIsIssued DEF Confirmed
    <3>3. QED
      BY <3>1, <3>2 DEF InOrder, Confirmed
  <2>2. CASE q # p
    <3>1. creq'[q] = creq[q] /\ InOrder(creq[q]) /\ Confirmed(creq[q])
      BY <2>2 DEF ChatInv, ChatTypeOK
    <3>2. creq[q] \in Request \cup {NoReq}
      BY DEF ChatInv, ChatTypeOK
    <3>3. creq[q].pc \in {"delToken", "act"} /\ creq[q].kind = "confirm" =>
             creq[q].token \in Challenges /\ issued[creq[q].token] # Nothing
      <4>1. creq[q].pc = "idle" \/ creq[q] \in Request
        BY <3>2 DEF NoReq
      <4>2. QED
        BY <3>1, <4>1, ConfirmedIsIssued
    <3>4. QED
      BY <3>1, <3>3 DEF InOrder, Confirmed
  <2>3. QED
    BY <2>1, <2>2
<1>3. QED
  BY <1>1, <1>2 DEF ChatInv

\* Most steps leave the confirm tokens alone.
LEMMA RequestReplaced ==
    ASSUME ChatInv, NEW p \in Procs, NEW c \in Request,
           creq' = [creq EXCEPT ![p] = c],
           history' \in [Sessions -> Seq(Message)],
           meta' \in [Sessions -> SessionMetadata \cup {Nothing}],
           timed' \in [Sessions -> SUBSET {"history", "meta"}],
           outlives' \in [Sessions -> BOOLEAN],
           listed' \in [Users -> SUBSET Sessions],
           gone' \in SUBSET Sessions, turns' \in Nat,
           UNCHANGED <<confirm, issued, executed>>,
           InOrder(c), Confirmed(c)
    PROVE  ChatInv'
<1>1. ChallengesMatch'
  BY DEF ChatInv, ChallengesMatch
<1>2. QED
  BY <1>1, Replaced DEF ChatInv, ChatTypeOK, Confirmed

-----------------------------------------------------------------------------
(* Every step preserves ChatInv *)

NewRequest(kind, u, s, token, pc) ==
    [kind |-> kind, pc |-> pc, turn |-> "owner", user |-> u, sess |-> s,
     seen |-> Nothing, fresh |-> FALSE, token |-> token, page |-> {},
     res |-> "none"]

LEMMA Arrive_Inv ==
    ASSUME ChatInv, NEW p \in Procs, ChatArrive(p)
    PROVE  ChatInv'
<1> USE DEF ChatInv, ChatTypeOK
<1> DEFINE Starts(u, s, kind, token, pc) ==
      /\ Begin(p, kind, u, s, token, pc)
      /\ kind = "confirm" => token # Nothing
      /\ kind \in {"delete", "detail"} <=> pc # "getOwner"
      /\ gone' \in SUBSET Sessions /\ turns' \in Nat
    Kinds == {"talk", "ask", "confirm", "delete", "detail"}
    Firsts == {"getOwner", "getDelete", "getDetail"}
<1>0. PICK u \in Users, s \in Sessions :
        Talk(p, u, s) \/ Ask(p, u, s) \/ Remove(p, u, s) \/ Detail(p, u, s)
        \/ \E ch \in Challenges : Confirm(p, u, s, ch)
  BY DEF ChatArrive
<1>1. \E kind \in Kinds, token \in Challenges \cup {Nothing}, pc \in Firsts :
        Starts(u, s, kind, token, pc)
  <2>1. CASE Talk(p, u, s)
    <3>1. Starts(u, s, "talk", Nothing, "getOwner")
      BY <2>1 DEF Talk, Turn
    <3>2. QED
      BY <3>1
  <2>2. CASE Ask(p, u, s)
    <3>1. Starts(u, s, "ask", Nothing, "getOwner")
      BY <2>2 DEF Ask, Turn
    <3>2. QED
      BY <3>1
  <2>3. CASE Remove(p, u, s)
    <3>1. Starts(u, s, "delete", Nothing, "getDelete")
      BY <2>3 DEF Remove
    <3>2. QED
      BY <3>1
  <2>4. CASE Detail(p, u, s)
    <3>1. Starts(u, s, "detail", Nothing, "getDetail")
      BY <2>4 DEF Detail
    <3>2. QED
      BY <3>1
  <2>5. ASSUME NEW ch \in Challenges, Confirm(p, u, s, ch)
        PROVE  \E kind \in Kinds, token \in Challenges \cup {Nothing},
                  pc \in Firsts : Starts(u, s, kind, token, pc)
    <3>1. Starts(u, s, "confirm", ch, "getOwner")
      BY <2>5, NothingAssumption DEF Confirm, Turn
    <3>2. QED
      BY <3>1
  <2>6. QED
    BY <1>0, <2>1, <2>2, <2>3, <2>4, <2>5
<1>5. PICK kind \in Kinds, token \in Challenges \cup {Nothing}, pc \in Firsts :
         Starts(u, s, kind, token, pc)
  BY <1>1
<1> DEFINE c == NewRequest(kind, u, s, token, pc)
<1>2. creq' = [creq EXCEPT ![p] = c]
      /\ UNCHANGED <<history, meta, timed, outlives, listed, confirm,
                     issued, executed>>
  BY <1>5 DEF Begin, NewRequest
<1>3. c \in Request /\ InOrder(c) /\ Confirmed(c)
  BY <1>5 DEF NewRequest, Request, InOrder, Confirmed, Sensitive
<1> HIDE DEF c
<1>4. QED
  BY <1>5, <1>2, <1>3, RequestReplaced

\* A step that only moves p on and writes typed values.
LEMMA Moved ==
    ASSUME ChatInv, NEW p \in Procs, creq[p].pc # "idle",
           NEW pc \in {"expireMeta", "sadd", "ltrim", "expireHistory",
                       "getOwner", "delMeta", "srem", "act"},
           GoTo(p, pc),
           history' \in [Sessions -> Seq(Message)],
           meta' \in [Sessions -> SessionMetadata \cup {Nothing}],
           timed' \in [Sessions -> SUBSET {"history", "meta"}],
           outlives' \in [Sessions -> BOOLEAN],
           UNCHANGED <<listed, ghosts>>,
           confirm' \in [Users \X Sessions -> Challenges \cup {Nothing}],
           \A k \in Users \X Sessions : confirm'[k] \in {confirm[k], Nothing},
           InOrder([creq[p] EXCEPT !.pc = pc]),
           Confirmed([creq[p] EXCEPT !.pc = pc])
    PROVE  ChatInv'
<1> DEFINE c == [creq[p] EXCEPT !.pc = pc]
<1>1. creq[p] \in Request
  BY DEF ChatInv, ChatTypeOK, NoReq
<1>2. c \in Request
  BY <1>1 DEF Request
<1>3. creq' = [creq EXCEPT ![p] = c]
  BY DEF GoTo
<1>4. InOrder(c) /\ Confirmed(c)
  OBVIOUS
<1>5. ChallengesMatch'
  BY DEF ChatInv, ChallengesMatch, ghosts
<1> HIDE DEF c
<1>6. QED
  BY <1>2, <1>3, <1>4, <1>5, Replaced
     DEF ChatInv, ChatTypeOK, ghosts, Confirmed

LEMMA Save_Inv ==
    ASSUME ChatInv, NEW p \in Procs, SetMeta(p) \/ ExpireMeta(p)
    PROVE  ChatInv'
<1> USE DEF ChatInv, ChatTypeOK
<1>1. creq[p] \in Request /\ InOrder(creq[p]) /\ creq[p].pc \in {"set", "expireMeta"}
  BY DEF SetMeta, ExpireMeta, At, NoReq
<1>2. Sess(p) \in Sessions /\ creq[p].seen \in SessionMetadata
  BY <1>1 DEF Request, InOrder, Sess
<1>3. CASE SetMeta(p)
  <2>1. InOrder([creq[p] EXCEPT !.pc = "expireMeta"])
        /\ Confirmed([creq[p] EXCEPT !.pc = "expireMeta"])
    BY <1>1 DEF InOrder, Confirmed, Request, Sensitive
  <2>2. QED
    BY <1>1, <1>2, <1>3, <2>1, Moved DEF SetMeta
<1>4. CASE ExpireMeta(p)
  <2>1. InOrder([creq[p] EXCEPT !.pc = "sadd"])
        /\ Confirmed([creq[p] EXCEPT !.pc = "sadd"])
    BY <1>1, <1>4 DEF InOrder, Confirmed, Request, Sensitive, ExpireMeta, At
  <2>2. QED
    BY <1>1, <1>2, <1>4, <2>1, Moved DEF ExpireMeta
<1>5. QED
  BY <1>3, <1>4

LEMMA Append_Inv ==
    ASSUME ChatInv, NEW p \in Procs, LPush(p) \/ LTrim(p) \/ ExpireHistory(p)
    PROVE  ChatInv'
<1> USE DEF ChatInv, ChatTypeOK
<1>1. /\ creq[p] \in Request /\ InOrder(creq[p])
      /\ creq[p].pc \in {"lpush", "ltrim", "expireHistory"}
  BY DEF LPush, LTrim, ExpireHistory, At, NoReq
<1>2. Sess(p) \in Sessions
      /\ [by |-> User(p), role |-> creq[p].turn] \in Message
  BY <1>1 DEF Request, InOrder, Sess, User, Message
<1>3. \A pc \in {"ltrim", "expireHistory", "getOwner"} :
        InOrder([creq[p] EXCEPT !.pc = pc]) /\ Confirmed([creq[p] EXCEPT !.pc = pc])
  BY <1>1 DEF InOrder, Confirmed, Request, Sensitive
<1>4. CASE LPush(p)
  <2>1. history' \in [Sessions -> Seq(Message)]
    BY <1>2, <1>4 DEF LPush
  <2>2. QED
    BY <1>1, <1>2, <1>3, <1>4, <2>1, Moved DEF LPush
<1>5. CASE LTrim(p)
  <2>1. history' \in [Sessions -> Seq(Message)]
    BY <1>2, <1>5, ChatAssumption DEF LTrim
  <2>2. QED
    BY <1>1, <1>3, <1>5, <2>1, Moved DEF LTrim
<1>6. CASE ExpireHistory(p)
  BY <1>1, <1>2, <1>3, <1>6, Moved DEF ExpireHistory
<1>7. QED
  BY <1>4, <1>5, <1>6

LEMMA Delete_Inv ==
    ASSUME ChatInv, NEW p \in Procs, DelHistory(p) \/ DelMeta(p) \/ DelToken(p)
    PROVE  ChatInv'
<1> USE DEF ChatInv, ChatTypeOK
<1>1. /\ creq[p] \in Request /\ InOrder(creq[p]) /\ Confirmed(creq[p])
      /\ creq[p].pc \in {"delHistory", "delMeta", "delToken"}
  BY DEF DelHistory, DelMeta, DelToken, At, NoReq
<1>2. Sess(p) \in Sessions /\ <<User(p), Sess(p)>> \in Users \X Sessions
  BY <1>1 DEF Request, InOrder, Sess, User
<1>3. CASE DelHistory(p)
  <2>1. InOrder([creq[p] EXCEPT !.pc = "delMeta"])
        /\ Confirmed([creq[p] EXCEPT !.pc = "delMeta"])
    BY <1>1 DEF InOrder, Confirmed, Request, Sensitive
  <2>2. history' \in [Sessions -> Seq(Message)]
    BY <1>2, <1>3 DEF DelHistory
  <2>3. QED
    BY <1>1, <1>2, <1>3, <2>1, <2>2, Moved DEF DelHistory
<1>4. CASE DelMeta(p)
  <2>1. InOrder([creq[p] EXCEPT !.pc = "srem"])
        /\ Confirmed([creq[p] EXCEPT !.pc = "srem"])
    BY <1>1 DEF InOrder, Confirmed, Request, Sensitive
  <2>2. QED
    BY <1>1, <1>2, <1>4, <2>1, Moved DEF DelMeta
<1>5. CASE DelToken(p)
  <2>1. InOrder([creq[p] EXCEPT !.pc = "act"])
        /\ Confirmed([creq[p] EXCEPT !.pc = "act"])
    BY <1>1, <1>5 DEF InOrder, Confirmed, Request, Sensitive, DelToken, At
  <2>2. /\ confirm' \in [Users \X Sessions -> Challenges \cup {Nothing}]
        /\ \A k \in Users \X Sessions : confirm'[k] \in {confirm[k], Nothing}
    BY <1>2, <1>5 DEF DelToken
  <2>3. QED
    BY <1>1, <1>5, <2>1, <2>2, Moved DEF DelToken
<1>6. QED
  BY <1>3, <1>4, <1>5

\* The request goes on to save metadata n.
LEMMA SaveNext ==
    ASSUME ChatInv, NEW p \in Procs, NEW n \in SessionMetadata, n # Nothing,
           NEW fresh \in BOOLEAN, creq[p].pc \in {"getOwner", "sadd"},
           fresh \/ creq[p].turn # "owner"
    PROVE  LET c == [creq[p] EXCEPT !.pc = "set", !.fresh = fresh, !.seen = n]
           IN  c \in Request /\ InOrder(c) /\ Confirmed(c)
<1>1. creq[p] \in Request /\ InOrder(creq[p])
  BY DEF ChatInv, ChatTypeOK, NoReq
<1> DEFINE c == [creq[p] EXCEPT !.pc = "set", !.fresh = fresh, !.seen = n]
<1>2. c \in Request
  BY <1>1 DEF Request
<1>3. /\ c.pc = "set" /\ c.seen = n /\ c.fresh = fresh
      /\ c.kind = creq[p].kind /\ c.turn = creq[p].turn
      /\ c.user = creq[p].user /\ c.token = creq[p].token
  BY <1>1 DEF Request
<1> HIDE DEF c
<1>4. InOrder(c)
  BY <1>1, <1>2, <1>3 DEF InOrder, Sensitive, Request
<1>5. Confirmed(c)
  BY <1>3 DEF Confirmed
<1>6. QED
  BY <1>2, <1>4, <1>5 DEF c

\* The steps that choose where to go on.
LEMMA CountedIsMetadata ==
    ASSUME NEW m \in SessionMetadata
    PROVE  Counted(m) \in SessionMetadata /\ Counted(m) # Nothing
<1>1. Counted(m) \in SessionMetadata
  BY DEF Counted, SessionMetadata
<1>2. QED
  BY <1>1, NothingAssumption

LEMMA Branch_Inv ==
    ASSUME ChatInv, NEW p \in Procs, GetOwner(p) \/ SAdd(p)
    PROVE  ChatInv'
<1> USE DEF ChatInv, ChatTypeOK
<1> DEFINE r == creq[p]
<1>1. r \in Request /\ InOrder(r) /\ r.pc \in {"getOwner", "sadd"}
  BY DEF GetOwner, SAdd, At, NoReq
<1>2. AfterOwner(p) \in Request /\ InOrder(AfterOwner(p))
      /\ Confirmed(AfterOwner(p))
  <2>1. CASE r.kind \in Sensitive /\ User(p) \notin Admins
    <3>1. AfterOwner(p) = [r EXCEPT !.pc = "done", !.res = "forbidden"]
      BY <2>1 DEF AfterOwner, Sensitive
    <3>2. QED
      BY <1>1, <3>1 DEF Request, InOrder, Confirmed, Sensitive
  <2>2. CASE ~(r.kind \in Sensitive /\ User(p) \notin Admins)
    <3>1. AfterOwner(p) = [r EXCEPT !.pc = "recent"]
      BY <2>2 DEF AfterOwner, Sensitive
    <3>2. QED
      BY <1>1, <2>2, <3>1 DEF Request, InOrder, Confirmed, Sensitive, User
  <2>3. QED
    BY <2>1, <2>2
<1>3. r.turn # "owner" => AfterAppend(p) \in Request /\ InOrder(AfterAppend(p))
                          /\ Confirmed(AfterAppend(p))
  <2>1. PICK pc \in {"recent", "challenge", "getToken", "act"} :
          /\ AfterAppend(p) = [r EXCEPT !.pc = pc]
          /\ pc = "challenge" => r.kind = "ask"
          /\ pc = "getToken" => r.kind = "confirm"
          /\ pc = "act" => r.kind \notin Sensitive
    BY DEF AfterAppend, Sensitive
  <2>2. QED
    BY <1>1, <2>1 DEF Request, InOrder, Confirmed, Sensitive
<1>4. CASE GetOwner(p)
  <2> DEFINE m == meta[Sess(p)]
  <2>1. m \in SessionMetadata \cup {Nothing} /\ User(p) \in Users
    BY <1>1 DEF Request, Sess, User
  <2>2. UNCHANGED <<history, meta, timed, outlives, listed, confirm, ghosts>>
        /\ r.pc = "getOwner"
    BY <1>4 DEF GetOwner, At
  <2>3. CASE m = Nothing
    <3> DEFINE n == [owner |-> User(p), count |-> 0]
               c == [r EXCEPT !.pc = "set", !.fresh = TRUE, !.seen = n]
    <3>1. creq' = [creq EXCEPT ![p] = c]
      BY <1>4, <2>3 DEF GetOwner
    <3>2. n \in SessionMetadata /\ n # Nothing
      BY <2>1, NothingAssumption DEF SessionMetadata
    <3> HIDE DEF n
    <3>3. c \in Request /\ InOrder(c) /\ Confirmed(c)
      BY <2>2, <3>2, SaveNext
    <3> HIDE DEF c
    <3>4. QED
      BY <2>2, <3>1, <3>3, RequestReplaced DEF ghosts
  <2>4. CASE m # Nothing /\ m.owner # User(p)
    <3> DEFINE res == IF r.turn = "owner" THEN "forbidden" ELSE "error"
               c == [r EXCEPT !.pc = "done", !.res = res]
    <3>1. creq' = [creq EXCEPT ![p] = c]
      BY <1>4, <2>4 DEF GetOwner
    <3>2. res \in {"forbidden", "error"}
      OBVIOUS
    <3> HIDE DEF res
    <3>3. c \in Request
      BY <1>1, <2>2, <3>2 DEF Request
    <3>4. InOrder(c)
      BY <1>1, <2>2, <3>2 DEF Request, InOrder, Sensitive
    <3>5. Confirmed(c)
      BY <1>1, <2>2, <3>2 DEF Request, Confirmed
    <3> HIDE DEF c
    <3>6. QED
      BY <2>2, <3>1, <3>3, <3>4, <3>5, RequestReplaced DEF ghosts
  <2>5. CASE m # Nothing /\ m.owner = User(p) /\ r.turn = "owner"
    <3>1. creq' = [creq EXCEPT ![p] = AfterOwner(p)]
      BY <1>4, <2>5 DEF GetOwner
    <3>2. QED
      BY <1>2, <2>2, <3>1, RequestReplaced DEF ghosts
  <2>6. CASE m # Nothing /\ m.owner = User(p) /\ r.turn # "owner"
    <3> DEFINE n == Counted(m)
               c == [r EXCEPT !.pc = "set", !.fresh = FALSE, !.seen = n]
    <3>1. creq' = [creq EXCEPT ![p] = c]
      BY <1>4, <2>6 DEF GetOwner
    <3>2. n \in SessionMetadata /\ n # Nothing
      BY <2>1, <2>6, CountedIsMetadata
    <3> HIDE DEF n
    <3>3. c \in Request /\ InOrder(c) /\ Confirmed(c)
      BY <2>2, <2>6, <3>2, SaveNext
    <3> HIDE DEF c
    <3>4. QED
      BY <2>2, <3>1, <3>3, RequestReplaced DEF ghosts
  <2>7. QED
    BY <2>3, <2>4, <2>5, <2>6
<1>5. CASE SAdd(p)
  <2>1. /\ UNCHANGED <<history, meta, timed, outlives, confirm, ghosts>>
        /\ r.pc = "sadd"
        /\ r.seen \in SessionMetadata
    BY <1>1, <1>5 DEF SAdd, At, InOrder, Request
  <2>2. listed' \in [Users -> SUBSET Sessions]
    BY <1>1, <1>5, <2>1 DEF SAdd, Request, Sess, SessionMetadata
  <2>3. CASE ~r.fresh
    <3>1. creq' = [creq EXCEPT ![p] = AfterAppend(p)]
      BY <1>5, <2>3 DEF SAdd
    <3>2. r.turn # "owner"
      BY <1>1, <2>1, <2>3 DEF InOrder
    <3>3. QED
      BY <1>3, <2>1, <2>2, <3>1, <3>2, RequestReplaced DEF ghosts
  <2>4. CASE r.fresh /\ r.turn = "owner"
    <3>1. creq' = [creq EXCEPT ![p] = AfterOwner(p)]
      BY <1>5, <2>4 DEF SAdd
    <3>2. QED
      BY <1>2, <2>1, <2>2, <3>1, RequestReplaced DEF ghosts
  <2>5. CASE r.fresh /\ r.turn # "owner"
    <3> DEFINE n == Counted(r.seen)
               c == [r EXCEPT !.pc = "set", !.fresh = FALSE, !.seen = n]
    <3>1. creq' = [creq EXCEPT ![p] = c]
      BY <1>5, <2>5 DEF SAdd
    <3>2. n \in SessionMetadata /\ n # Nothing
      BY <2>1, CountedIsMetadata
    <3> HIDE DEF n
    <3>3. c \in Request /\ InOrder(c) /\ Confirmed(c)
      BY <2>1, <2>5, <3>2, SaveNext
    <3> HIDE DEF c
    <3>4. QED
      BY <2>1, <2>2, <3>1, <3>3, RequestReplaced DEF ghosts
  <2>6. QED
    BY <1>1, <2>3, <2>4, <2>5 DEF Request
<1>6. QED
  BY <1>4, <1>5

\* The requests that the next lemma's steps lead to.
LEMMA DoneInOrder ==
    ASSUME NEW r \in Request, InOrder(r),
           NEW res \in {"ok", "forbidden", "absent", "error"}
    PROVE  LET c == [r EXCEPT !.pc = "done", !.res = res]
           IN  c \in Request /\ InOrder(c) /\ Confirmed(c)
<1> DEFINE c == [r EXCEPT !.pc = "done", !.res = res]
<1>1. c \in Request
  BY DEF Request
<1>2. /\ c.pc = "done" /\ c.kind = r.kind /\ c.turn = r.turn
      /\ c.user = r.user /\ c.token = r.token /\ r.pc # "idle"
  BY DEF Request
<1> HIDE DEF c
<1>3. InOrder(c) /\ Confirmed(c)
  BY <1>2 DEF InOrder, Confirmed
<1>4. QED
  BY <1>1, <1>3 DEF c

LEMMA AskedInOrder ==
    ASSUME NEW r \in Request, InOrder(r), r.pc = "recent", r.turn = "owner",
           NEW page \in SUBSET Users
    PROVE  LET c == [r EXCEPT !.page = page, !.turn = "user", !.pc = "lpush"]
           IN  c \in Request /\ InOrder(c) /\ Confirmed(c)
<1> DEFINE c == [r EXCEPT !.page = page, !.turn = "user", !.pc = "lpush"]
<1>1. c \in Request
  BY DEF Request
<1>2. /\ c.pc = "lpush" /\ c.kind = r.kind /\ c.turn = "user"
      /\ c.user = r.user /\ c.token = r.token
  BY DEF Request
<1> HIDE DEF c
<1>3. InOrder(c) /\ Confirmed(c)
  BY <1>2 DEF InOrder, Confirmed
<1>4. QED
  BY <1>1, <1>3 DEF c

LEMMA ReadInOrder ==
    ASSUME NEW r \in Request, InOrder(r), r.pc = "recent",
           NEW page \in SUBSET Users
    PROVE  LET c == [r EXCEPT !.page = page, !.pc = "done", !.res = "ok"]
           IN  c \in Request /\ InOrder(c) /\ Confirmed(c)
<1> DEFINE c == [r EXCEPT !.page = page, !.pc = "done", !.res = "ok"]
<1>1. c \in Request
  BY DEF Request
<1>2. /\ c.pc = "done" /\ c.kind = r.kind /\ c.turn = r.turn
      /\ c.user = r.user /\ c.token = r.token
  BY DEF Request
<1> HIDE DEF c
<1>3. InOrder(c) /\ Confirmed(c)
  BY <1>2 DEF InOrder, Confirmed
<1>4. QED
  BY <1>1, <1>3 DEF c

LEMMA CheckedInOrder ==
    ASSUME NEW r \in Request, InOrder(r), r.pc \in {"getDelete", "getDetail"},
           NEW pc \in {"delHistory", "recent"}
    PROVE  LET c == [r EXCEPT !.turn = "assistant", !.pc = pc]
           IN  c \in Request /\ InOrder(c) /\ Confirmed(c)
<1> DEFINE c == [r EXCEPT !.turn = "assistant", !.pc = pc]
<1>1. c \in Request
  BY DEF Request
<1>2. /\ c.pc = pc /\ c.kind = r.kind /\ c.turn = "assistant"
      /\ c.user = r.user /\ c.token = r.token
  BY DEF Request
<1>3. r.kind \in {"delete", "detail"}
  BY DEF InOrder
<1> HIDE DEF c
<1>4. InOrder(c) /\ Confirmed(c)
  BY <1>2, <1>3 DEF InOrder, Confirmed, Sensitive
<1>5. QED
  BY <1>1, <1>4 DEF c

\* get_history, the comparison of a confirm token, the engine, the checks of
\* delete and detail, and a failure: p's request changes, and no key.
LEMMA Own_Inv ==
    ASSUME ChatInv, NEW p \in Procs,
           Recent(p) \/ GetToken(p) \/ Act(p) \/ CheckOwner(p) \/ Fails(p)
    PROVE  ChatInv'
<1> USE DEF ChatInv, ChatTypeOK
<1> DEFINE r == creq[p]
<1>1. r \in Request /\ InOrder(r) /\ Confirmed(r)
  BY DEF Recent, GetToken, Act, CheckOwner, Fails, At, Idle, NoReq
<1>2. Sess(p) \in Sessions /\ User(p) \in Users
  BY <1>1 DEF Request, Sess, User
<1>3. ASSUME NEW res \in {"ok", "forbidden", "absent", "error"}
      PROVE  LET c == [r EXCEPT !.pc = "done", !.res = res]
             IN  c \in Request /\ InOrder(c) /\ Confirmed(c)
  BY <1>1, DoneInOrder
<1>4. r.pc \in {"getToken", "act"} =>
        Answer(p) \in Request /\ InOrder(Answer(p)) /\ Confirmed(Answer(p))
  BY <1>1 DEF Answer, Request, InOrder, Confirmed, Sensitive
<1>5. CASE Recent(p)
  <2> DEFINE h == Authors(history[Sess(p)])
  <2>1. h \in SUBSET Users
    <3>1. history[Sess(p)] \in Seq(Message)
      BY <1>2
    <3>2. \A i \in 1..Len(history[Sess(p)]) : history[Sess(p)][i] \in Message
      BY <3>1
    <3>3. QED
      BY <3>2 DEF Authors, Message
  <2>2. r.pc = "recent"
        /\ UNCHANGED <<history, meta, timed, outlives, listed, confirm, ghosts>>
    BY <1>5 DEF Recent, At
  <2>3. CASE r.turn = "owner"
    <3> DEFINE c == [r EXCEPT !.page = h, !.turn = "user", !.pc = "lpush"]
    <3>1. creq' = [creq EXCEPT ![p] = c]
      BY <1>5, <2>3 DEF Recent
    <3> HIDE DEF h
    <3>2. c \in Request /\ InOrder(c) /\ Confirmed(c)
      BY <1>1, <2>1, <2>2, <2>3, AskedInOrder
    <3> HIDE DEF c
    <3>3. QED
      BY <2>2, <3>1, <3>2, RequestReplaced DEF ghosts
  <2>4. CASE r.turn # "owner"
    <3> DEFINE page == r.page \cup h
               c == [r EXCEPT !.page = page, !.pc = "done", !.res = "ok"]
    <3>1. creq' = [creq EXCEPT ![p] = c]
      BY <1>5, <2>4 DEF Recent
    <3>2. page \in SUBSET Users
      BY <1>1, <2>1 DEF Request
    <3> HIDE DEF page
    <3>3. c \in Request /\ InOrder(c) /\ Confirmed(c)
      BY <1>1, <2>2, <3>2, ReadInOrder
    <3> HIDE DEF c
    <3>4. QED
      BY <2>2, <3>1, <3>3, RequestReplaced DEF ghosts
  <2>5. QED
    BY <2>3, <2>4
<1>6. CASE GetToken(p)
  <2>1. r.pc = "getToken" /\ r.kind = "confirm" /\ r.token \in Challenges
        /\ UNCHANGED <<history, meta, timed, outlives, listed, confirm, ghosts>>
    BY <1>1, <1>6 DEF GetToken, At, InOrder, Request
  <2>2. CASE confirm[<<User(p), Sess(p)>>] = r.token
    <3> DEFINE c == [r EXCEPT !.pc = "delToken"]
    <3>1. creq' = [creq EXCEPT ![p] = c]
      BY <1>6, <2>2 DEF GetToken
    <3>2. issued[r.token] = <<User(p), Sess(p)>>
      BY <1>2, <2>1, <2>2, NothingAssumption DEF ChallengesMatch
    <3>3. c \in Request /\ InOrder(c)
      BY <1>1, <2>1 DEF Request, InOrder, Sensitive
    <3>4. Confirmed(c)
      BY <1>1, <3>2 DEF Request, Confirmed, User, Sess
    <3> HIDE DEF c
    <3>5. QED
      BY <2>1, <3>1, <3>3, <3>4, RequestReplaced DEF ghosts
  <2>3. CASE confirm[<<User(p), Sess(p)>>] # r.token
    <3>1. creq' = [creq EXCEPT ![p] = Answer(p)]
      BY <1>6, <2>3 DEF GetToken
    <3>2. QED
      BY <1>4, <2>1, <3>1, RequestReplaced DEF ghosts
  <2>4. QED
    BY <2>2, <2>3
<1>7. CASE Act(p)
  <2>1. /\ r.pc = "act"
        /\ UNCHANGED <<history, meta, timed, outlives, listed, confirm, issued, gone, turns>>
    BY <1>7 DEF Act, At
  <2>2. executed' \in [Challenges -> Nat]
    BY <1>1, <1>7, <2>1 DEF Act, InOrder, Request
  <2>3. ChallengesMatch'
    BY <2>1 DEF ChallengesMatch
  <2>4. CASE creq' = [creq EXCEPT ![p] = Answer(p)]
    BY <1>4, <2>1, <2>2, <2>3, <2>4, Replaced DEF Confirmed
  <2>5. CASE Respond(p, "error")
    <3> DEFINE c == [r EXCEPT !.pc = "done", !.res = "error"]
    <3>1. creq' = [creq EXCEPT ![p] = c]
      BY <2>5 DEF Respond
    <3>2. c \in Request /\ InOrder(c) /\ Confirmed(c)
      BY <1>3
    <3> HIDE DEF c
    <3>3. QED
      BY <2>1, <2>2, <2>3, <3>1, <3>2, Replaced DEF Confirmed
  <2>6. QED
    BY <1>7, <2>4, <2>5 DEF Act
<1>8. ASSUME NEW res \in {"ok", "forbidden", "absent", "error"}, Respond(p, res),
             UNCHANGED <<history, meta, timed, outlives, listed, confirm,
                         issued, executed, gone, turns>>
      PROVE  ChatInv'
  <2> DEFINE c == [r EXCEPT !.pc = "done", !.res = res]
  <2>1. creq' = [creq EXCEPT ![p] = c]
    BY <1>8 DEF Respond
  <2>2. c \in Request /\ InOrder(c) /\ Confirmed(c)
    BY <1>3
  <2> HIDE DEF c
  <2>3. QED
    BY <1>8, <2>1, <2>2, RequestReplaced
<1>9. CASE CheckOwner(p)
  <2>1. CASE Respond(p, "absent") \/ Respond(p, "forbidden")
    BY <1>8, <1>9, <2>1 DEF CheckOwner, ghosts
  <2>2. CASE creq' = [creq EXCEPT ![p].turn = "assistant",
              ![p].pc = IF At(p, "getDelete") THEN "delHistory" ELSE "recent"]
    <3> DEFINE pc == IF At(p, "getDelete") THEN "delHistory" ELSE "recent"
               c == [r EXCEPT !.turn = "assistant", !.pc = pc]
    <3>1. creq' = [creq EXCEPT ![p] = c]
      BY <2>2
    <3>2. r.pc \in {"getDelete", "getDetail"}
      BY <1>9 DEF CheckOwner, At
    <3>3. c \in Request /\ InOrder(c) /\ Confirmed(c)
      BY <1>1, <3>2, CheckedInOrder
    <3> HIDE DEF c
    <3>4. QED
      BY <1>9, <3>1, <3>3, RequestReplaced DEF CheckOwner, ghosts
  <2>3. QED
    BY <1>9, <2>1, <2>2 DEF CheckOwner
<1>10. CASE Fails(p)
  BY <1>8, <1>10 DEF Fails
<1>11. QED
  BY <1>5, <1>6, <1>7, <1>9, <1>10

LEMMA Challenge_Inv ==
    ASSUME ChatInv, NEW p \in Procs, Challenge(p)
    PROVE  ChatInv'
<1> USE DEF ChatInv, ChatTypeOK
<1> DEFINE k == <<User(p), Sess(p)>>
           c == Answer(p)
<1>1. creq[p] \in Request /\ InOrder(creq[p]) /\ creq[p].pc = "challenge"
  BY DEF Challenge, At, NoReq
<1>2. k \in Users \X Sessions
  BY <1>1 DEF Request, User, Sess
<1>3. c \in Request /\ InOrder(c) /\ c.pc = "lpush"
  BY <1>1 DEF Answer, Request, InOrder, Sensitive
<1> HIDE DEF k, c
<1>4. PICK ch \in Challenges :
        /\ issued[ch] = Nothing
        /\ issued' = [issued EXCEPT ![ch] = k]
        /\ confirm' = [confirm EXCEPT ![k] = ch]
  BY DEF Challenge, k
<1>5. /\ issued' \in [Challenges -> (Users \X Sessions) \cup {Nothing}]
      /\ confirm' \in [Users \X Sessions -> Challenges \cup {Nothing}]
      /\ \A x \in Challenges : issued[x] # Nothing => issued'[x] = issued[x]
  BY <1>2, <1>4
<1>6. ChallengesMatch'
  <2>1. SUFFICES ASSUME NEW i \in Users \X Sessions, confirm'[i] # Nothing
                 PROVE  issued'[confirm'[i]] = i
    BY DEF ChallengesMatch
  <2>2. CASE i = k
    BY <1>2, <1>4, <2>2
  <2>3. CASE i # k
    <3>1. confirm'[i] = confirm[i] /\ confirm[i] \in Challenges
      BY <1>2, <1>4, <2>1, <2>3
    <3>2. issued[confirm[i]] = i
      BY <2>1, <3>1 DEF ChallengesMatch
    <3>3. QED
      BY <1>5, <3>1, <3>2, NothingAssumption
  <2>4. QED
    BY <2>2, <2>3
<1>7. creq' = [creq EXCEPT ![p] = c]
      /\ UNCHANGED <<history, meta, timed, outlives, listed, executed, gone, turns>>
  BY DEF Challenge, c
<1>8. QED
  BY <1>3, <1>5, <1>6, <1>7, Replaced

LEMMA SRem_Inv ==
    ASSUME ChatInv, NEW p \in Procs, SRem(p)
    PROVE  ChatInv'
<1> DEFINE c == [creq[p] EXCEPT !.pc = "done", !.res = "ok"]
<1>1. creq[p] \in Request /\ InOrder(creq[p])
  BY DEF ChatInv, ChatTypeOK, SRem, At, NoReq
<1>2. Sess(p) \in Sessions /\ User(p) \in Users
  BY <1>1 DEF Request, User, Sess
<1>3. c \in Request /\ InOrder(c) /\ Confirmed(c)
  BY <1>1, DoneInOrder
<1>4. creq' = [creq EXCEPT ![p] = c]
  BY DEF SRem, Respond
<1>5. listed' \in [Users -> SUBSET Sessions] /\ gone' \in SUBSET Sessions
  BY <1>2 DEF SRem, ChatInv, ChatTypeOK
<1> HIDE DEF c
<1>6. QED
  BY <1>3, <1>4, <1>5, RequestReplaced DEF SRem, ChatInv, ChatTypeOK

\* What expires leaves every request where it is.
LEMMA Expiry_Inv ==
    ASSUME ChatInv,
           \/ \E s \in Sessions : HistoryExpires(s) \/ MetaExpires(s)
           \/ \E k \in Users \X Sessions : ChallengeExpires(k)
    PROVE  ChatInv'
<1>1. UNCHANGED <<creq, ghosts>>
  BY DEF HistoryExpires, MetaExpires, ChallengeExpires
<1>2. \A k \in Users \X Sessions : confirm'[k] \in {confirm[k], Nothing}
  BY DEF HistoryExpires, MetaExpires, ChallengeExpires, ChatInv, ChatTypeOK
<1>3. ChatTypeOK'
  <2> USE DEF ChatInv, ChatTypeOK, ghosts
  <2>1. ASSUME NEW s \in Sessions, HistoryExpires(s)
        PROVE  ChatTypeOK'
    <3>1. history' \in [Sessions -> Seq(Message)]
      BY <2>1 DEF HistoryExpires
    <3>2. QED
      BY <2>1, <3>1 DEF HistoryExpires
  <2>2. ASSUME NEW s \in Sessions, MetaExpires(s)
        PROVE  ChatTypeOK'
    BY <2>2 DEF MetaExpires
  <2>3. ASSUME NEW k \in Users \X Sessions, ChallengeExpires(k)
        PROVE  ChatTypeOK'
    BY <2>3 DEF ChallengeExpires
  <2>4. QED
    BY <2>1, <2>2, <2>3
<1>4. QED
  BY <1>1, <1>2, <1>3 DEF ChatInv, ChallengesMatch, Confirmed, InOrder, ghosts

LEMMA Chat_Inv ==
    ASSUME ChatInv, [ChatNext]_cvars
    PROVE  ChatInv'
<1>1. CASE UNCHANGED cvars
  BY <1>1 DEF cvars, ChatInv, ChatTypeOK, ChallengesMatch, InOrder, Confirmed
<1>2. ASSUME NEW p \in Procs, ChatStep(p)
      PROVE  ChatInv'
  BY <1>2, Save_Inv, Append_Inv, Delete_Inv, Branch_Inv, Own_Inv,
     Challenge_Inv, SRem_Inv DEF ChatStep
<1>3. QED
  BY <1>1, <1>2, Arrive_Inv, Expiry_Inv, Own_Inv DEF ChatNext, ChatEnvironment

\* Every reachable state is well typed and every request is at a legal place.
THEOREM ChatTypeCorrect == ChatSpec => []ChatTypeOK
<1>1. ChatInv => ChatTypeOK
  BY DEF ChatInv
<1>2. QED
  BY ChatInit_Inv, Chat_Inv, <1>1, PTL DEF ChatSpec

\* A sensitive action is executed only for a confirm token that was sent to
\* the same administrator in the same conversation, for any interleaving of
\* any number of requests, any expiry and any failure.
THEOREM OnlyConfirmedActsHolds == ChatSpec => []OnlyConfirmedActs
<1>1. ChatInv => OnlyConfirmedActs
  <2>1. SUFFICES ASSUME ChatInv, NEW p \in Procs, creq[p].kind = "confirm",
                        creq[p].pc \in {"delToken", "act"}
                 PROVE  /\ issued[creq[p].token] = <<User(p), Sess(p)>>
                        /\ User(p) \in Admins
    BY DEF OnlyConfirmedActs
  <2>2. InOrder(creq[p]) /\ Confirmed(creq[p])
    BY <2>1 DEF ChatInv
  <2>3. creq[p].pc # "idle"
    BY <2>1
  <2>4. QED
    BY <2>1, <2>2, <2>3 DEF InOrder, Confirmed, Sensitive, User, Sess
<1>2. QED
  BY ChatInit_Inv, Chat_Inv, <1>1, PTL DEF ChatSpec

-----------------------------------------------------------------------------
(* No key stays for ever *)

\* A step is one of a single request, or none moves.
LEMMA OneMoves ==
    ASSUME ChatInv, ChatNext
    PROVE  \/ UNCHANGED creq
           \/ \E p \in Procs :
                /\ \A q \in Procs : q # p => creq'[q] = creq[q]
                /\ ChatStep(p) \/ (ChatArrive(p) /\ Idle(p)) \/ Fails(p)
<1> USE DEF ChatInv, ChatTypeOK
<1>1. ASSUME NEW p \in Procs, ChatArrive(p)
      PROVE  Idle(p) /\ \A q \in Procs : q # p => creq'[q] = creq[q]
  BY <1>1 DEF ChatArrive, Talk, Ask, Confirm, Remove, Detail, Turn, Begin
<1>2. ASSUME NEW p \in Procs, ChatStep(p)
      PROVE  \A q \in Procs : q # p => creq'[q] = creq[q]
  <2>1. CASE GetOwner(p) \/ SetMeta(p) \/ ExpireMeta(p) \/ SAdd(p)
    BY <2>1 DEF GetOwner, SetMeta, ExpireMeta, SAdd, GoTo
  <2>2. CASE Recent(p) \/ LPush(p) \/ LTrim(p) \/ ExpireHistory(p)
    BY <2>2 DEF Recent, LPush, LTrim, ExpireHistory, GoTo
  <2>3. CASE Challenge(p) \/ GetToken(p) \/ DelToken(p) \/ Act(p)
    BY <2>3 DEF Challenge, GetToken, DelToken, Act, GoTo, Respond
  <2>4. CASE CheckOwner(p) \/ DelHistory(p) \/ DelMeta(p) \/ SRem(p)
    BY <2>4 DEF CheckOwner, DelHistory, DelMeta, SRem, GoTo, Respond
  <2>5. QED
    BY <1>2, <2>1, <2>2, <2>3, <2>4 DEF ChatStep
<1>3. ASSUME NEW p \in Procs, Fails(p)
      PROVE  \A q \in Procs : q # p => creq'[q] = creq[q]
  BY <1>3 DEF Fails, Respond
<1>4. ASSUME \/ \E s \in Sessions : HistoryExpires(s) \/ MetaExpires(s)
             \/ \E k \in Users \X Sessions : ChallengeExpires(k)
      PROVE  UNCHANGED creq
  BY <1>4 DEF HistoryExpires, MetaExpires, ChallengeExpires
<1>5. QED
  BY <1>1, <1>2, <1>3, <1>4 DEF ChatNext, ChatEnvironment

\* Only LPUSH and SET make a key that has no TTL; nothing takes the TTL of
\* another key away.
LEMMA Untimed ==
    ASSUME ChatInv, ChatNext, NEW s \in Sessions
    PROVE  /\ meta'[s] # Nothing /\ "meta" \notin timed'[s] =>
                \/ meta[s] # Nothing /\ "meta" \notin timed[s]
                \/ \E p \in Procs : SetMeta(p) /\ Sess(p) = s
           /\ history'[s] # <<>> /\ "history" \notin timed'[s] =>
                \/ history[s] # <<>> /\ "history" \notin timed[s]
                \/ \E p \in Procs : LPush(p) /\ Sess(p) = s
<1> USE DEF ChatInv, ChatTypeOK
<1>1. CASE UNCHANGED <<history, meta, timed>>
  BY <1>1
<1>2. ASSUME NEW p \in Procs, SetMeta(p)
      PROVE  /\ UNCHANGED history
             /\ Sess(p) # s => meta'[s] = meta[s]
             /\ "history" \in timed'[s] <=> "history" \in timed[s]
             /\ Sess(p) # s => timed'[s] = timed[s]
  BY <1>2 DEF SetMeta
<1>3. ASSUME NEW p \in Procs, ExpireMeta(p) \/ ExpireHistory(p)
      PROVE  UNCHANGED <<history, meta>> /\ timed[s] \subseteq timed'[s]
  <2>1. PICK kept \in SUBSET {"history", "meta"} :
          /\ timed[Sess(p)] \subseteq kept
          /\ timed' = [timed EXCEPT ![Sess(p)] = kept]
    <3>1. Sess(p) \in Sessions
      BY <1>3 DEF ExpireMeta, ExpireHistory, At, Sess, Request, NoReq
    <3>2. CASE ExpireMeta(p)
      BY <3>1, <3>2 DEF ExpireMeta
    <3>3. CASE ExpireHistory(p)
      BY <3>1, <3>3 DEF ExpireHistory
    <3>4. QED
      BY <1>3, <3>2, <3>3
  <2>2. QED
    BY <1>3, <2>1 DEF ExpireMeta, ExpireHistory
<1>4. ASSUME NEW p \in Procs, LPush(p)
      PROVE  UNCHANGED <<meta, timed>> /\ (Sess(p) # s => history'[s] = history[s])
  BY <1>4 DEF LPush
<1>5. ASSUME NEW p \in Procs, LTrim(p)
      PROVE  UNCHANGED <<meta, timed>> /\ (history[s] = <<>> => history'[s] = <<>>)
  <2>1. history[s] = <<>> => Len(history[s]) <= MaxMessages
    BY ChatAssumption
  <2>2. QED
    BY <1>5, <2>1 DEF LTrim
<1>6. ASSUME \/ \E p \in Procs : DelHistory(p) \/ DelMeta(p)
             \/ \E t \in Sessions : HistoryExpires(t) \/ MetaExpires(t)
      PROVE  /\ meta'[s] # Nothing => meta'[s] = meta[s]
                  /\ ("meta" \in timed'[s] <=> "meta" \in timed[s])
             /\ history'[s] # <<>> => history'[s] = history[s]
                  /\ ("history" \in timed'[s] <=> "history" \in timed[s])
  <2>1. ASSUME NEW t \in Sessions,
               \/ UNCHANGED meta /\ history' = [history EXCEPT ![t] = <<>>]
                  /\ timed' = [timed EXCEPT ![t] = @ \ {"history"}]
               \/ UNCHANGED history /\ meta' = [meta EXCEPT ![t] = Nothing]
                  /\ timed' = [timed EXCEPT ![t] = @ \ {"meta"}]
        PROVE  /\ meta'[s] # Nothing => meta'[s] = meta[s]
                    /\ ("meta" \in timed'[s] <=> "meta" \in timed[s])
               /\ history'[s] # <<>> => history'[s] = history[s]
                    /\ ("history" \in timed'[s] <=> "history" \in timed[s])
    <3>1. CASE t = s
      BY <2>1, <3>1
    <3>2. CASE t # s
      BY <2>1, <3>2
    <3>3. QED
      BY <3>1, <3>2
  <2>2. ASSUME NEW p \in Procs, DelHistory(p) \/ DelMeta(p)
        PROVE  Sess(p) \in Sessions
    BY <2>2 DEF DelHistory, DelMeta, At, Sess, Request, NoReq
  <2>3. QED
    BY <1>6, <2>1, <2>2 DEF DelHistory, DelMeta, HistoryExpires, MetaExpires
<1>7. ASSUME NEW p \in Procs,
             ChatStep(p), ~SetMeta(p), ~ExpireMeta(p), ~LPush(p), ~LTrim(p),
             ~ExpireHistory(p), ~DelHistory(p), ~DelMeta(p)
      PROVE  UNCHANGED <<history, meta, timed>>
  BY <1>7 DEF ChatStep, GetOwner, SAdd, Recent, Challenge, GetToken, DelToken,
              Act, CheckOwner, SRem
<1>8. ASSUME NEW p \in Procs, ChatArrive(p) \/ Fails(p)
      PROVE  UNCHANGED <<history, meta, timed>>
  BY <1>8 DEF ChatArrive, Talk, Ask, Confirm, Remove, Detail, Turn, Begin, Fails
<1>9. ASSUME NEW k \in Users \X Sessions, ChallengeExpires(k)
      PROVE  UNCHANGED <<history, meta, timed>>
  BY <1>9 DEF ChallengeExpires
<1>10. ASSUME NEW p \in Procs, ChatStep(p)
       PROVE  /\ meta'[s] # Nothing /\ "meta" \notin timed'[s] =>
                   \/ meta[s] # Nothing /\ "meta" \notin timed[s]
                   \/ SetMeta(p) /\ Sess(p) = s
              /\ history'[s] # <<>> /\ "history" \notin timed'[s] =>
                   \/ history[s] # <<>> /\ "history" \notin timed[s]
                   \/ LPush(p) /\ Sess(p) = s
  <2>1. CASE SetMeta(p)
    BY <1>2, <2>1
  <2>2. CASE ExpireMeta(p) \/ ExpireHistory(p)
    BY <1>3, <2>2
  <2>3. CASE LPush(p)
    BY <1>4, <2>3
  <2>4. CASE LTrim(p)
    BY <1>5, <2>4
  <2>5. CASE DelHistory(p) \/ DelMeta(p)
    BY <1>6, <2>5
  <2>6. QED
    BY <1>7, <1>10, <2>1, <2>2, <2>3, <2>4, <2>5
<1>11. CASE \E p \in Procs : ChatStep(p)
  BY <1>10, <1>11
<1>12. CASE \E t \in Sessions : HistoryExpires(t) \/ MetaExpires(t)
  BY <1>6, <1>12
<1>13. QED
  BY <1>1, <1>8, <1>9, <1>11, <1>12 DEF ChatNext, ChatEnvironment

\* What broke off is never forgotten.
LEMMA FaultsStay ==
    ASSUME ChatNext
    PROVE  faulted \subseteq faulted'
<1>1. ASSUME NEW p \in Procs, ChatStep(p)
      PROVE  faulted' = faulted
  BY <1>1 DEF ChatStep, GetOwner, SetMeta, ExpireMeta, SAdd, Recent, LPush,
              LTrim, ExpireHistory, Challenge, GetToken, DelToken, Act,
              CheckOwner, DelHistory, DelMeta, SRem, ghosts
<1>2. ASSUME NEW p \in Procs, ChatArrive(p)
      PROVE  faulted' = faulted
  BY <1>2 DEF ChatArrive, Talk, Ask, Confirm, Remove, Detail, Turn, Begin
<1>3. ChatEnvironment => faulted \subseteq faulted'
  BY DEF ChatEnvironment, HistoryExpires, MetaExpires, ChallengeExpires, Fails,
         ghosts
<1>4. QED
  BY <1>1, <1>2, <1>3 DEF ChatNext

\* A request at one of these commands stays there until it issues it, unless
\* it breaks off.
LEMMA Stays ==
    ASSUME ChatInv, ChatNext, NEW q \in Procs, Sess(q) \notin faulted',
           creq[q].pc \in {"expireMeta", "ltrim", "expireHistory"}
    PROVE  \/ creq'[q] = creq[q]
           \/ At(q, "expireMeta") /\ ExpireMeta(q)
           \/ At(q, "ltrim") /\ LTrim(q)
           \/ At(q, "expireHistory") /\ ExpireHistory(q)
<1>1. ChatStep(q) => ExpireMeta(q) \/ LTrim(q) \/ ExpireHistory(q)
  BY DEF ChatStep, At, GetOwner, SetMeta, SAdd, Recent, LPush, Challenge,
         GetToken, DelToken, Act, CheckOwner, DelHistory, DelMeta, SRem
<1>2. ~Idle(q) /\ ~Fails(q)
  BY DEF Idle, At, Fails
<1>3. QED
  BY <1>1, <1>2, OneMoves DEF ExpireMeta, LTrim, ExpireHistory

LEMMA ExpiryIsComing_step ==
    ASSUME ChatInv, ExpiryIsComing, [ChatNext]_cvars
    PROVE  ExpiryIsComing'
<1>1. CASE UNCHANGED cvars
  BY <1>1 DEF cvars, ExpiryIsComing, At, Sess
<1>2. CASE ChatNext
  <2>1. SUFFICES ASSUME NEW s \in Sessions, s \notin faulted'
                 PROVE  /\ meta'[s] # Nothing /\ "meta" \notin timed'[s] =>
                             \E p \in Procs : (At(p, "expireMeta") /\ Sess(p) = s)'
                        /\ history'[s] # <<>> /\ "history" \notin timed'[s] =>
                             \E p \in Procs : ((At(p, "ltrim") \/ At(p, "expireHistory"))
                                              /\ Sess(p) = s)'
    BY DEF ExpiryIsComing
  <2> USE DEF ChatInv, ChatTypeOK
  <2>3. ASSUME NEW q \in Procs, Sess(q) = s, At(q, "expireMeta"),
               meta'[s] # Nothing, "meta" \notin timed'[s]
        PROVE  (At(q, "expireMeta") /\ Sess(q) = s)'
    <3>1. ~ExpireMeta(q)
      BY <2>3 DEF ExpireMeta
    <3>2. QED
      BY <1>2, <2>1, <2>3, <3>1, Stays DEF At, Sess
  <2>4. ASSUME NEW q \in Procs, Sess(q) = s,
               At(q, "ltrim") \/ At(q, "expireHistory"),
               history'[s] # <<>>, "history" \notin timed'[s]
        PROVE  ((At(q, "ltrim") \/ At(q, "expireHistory")) /\ Sess(q) = s)'
    <3>1. ~ExpireHistory(q)
      BY <2>4 DEF ExpireHistory
    <3>2. creq[q] \in Request
      BY <2>4 DEF At, NoReq
    <3>3. LTrim(q) => (At(q, "expireHistory") /\ Sess(q) = s)'
      BY <2>4, <3>2 DEF LTrim, GoTo, At, Sess, Request
    <3>4. QED
      BY <1>2, <2>1, <2>4, <3>1, <3>3, Stays DEF At, Sess
  <2>5. ASSUME NEW q \in Procs, SetMeta(q), Sess(q) = s
        PROVE  (At(q, "expireMeta") /\ Sess(q) = s)'
    BY <2>5 DEF SetMeta, GoTo, At, Sess, Request, NoReq
  <2>6. ASSUME NEW q \in Procs, LPush(q), Sess(q) = s
        PROVE  (At(q, "ltrim") /\ Sess(q) = s)'
    BY <2>6 DEF LPush, GoTo, At, Sess, Request, NoReq
  <2>7. QED
    BY <1>2, <2>1, <2>3, <2>4, <2>5, <2>6, FaultsStay, Untimed
    DEF ExpiryIsComing
<1>3. QED
  BY <1>1, <1>2

\* Unless a request on the conversation broke off, metadata and messages are
\* never without a TTL for longer than the request that wrote them takes.
THEOREM ExpiryIsComingHolds == ChatSpec => []ExpiryIsComing
<1>1. ChatInit => ExpiryIsComing
  BY DEF ChatInit, ExpiryIsComing
<1>2. QED
  BY ChatInit_Inv, Chat_Inv, <1>1, ExpiryIsComing_step, PTL DEF ChatSpec

-----------------------------------------------------------------------------
(* No conversation grows past its cap *)

Trimming(s) == {p \in Procs : At(p, "ltrim") /\ Sess(p) = s}

\* A step makes a conversation longer only by an LPUSH.
LEMMA Longer ==
    ASSUME ChatInv, ChatNext, NEW s \in Sessions
    PROVE  \/ \E p \in Procs : LPush(p) /\ Sess(p) = s
           \/ Len(history'[s]) <= Len(history[s])
<1> USE DEF ChatInv, ChatTypeOK
<1>1. Len(history[s]) \in Nat
  <2>1. history[s] \in Seq(Message)
    OBVIOUS
  <2>2. QED
    BY <2>1
<1>2. history'[s] \in {history[s], <<>>} => Len(history'[s]) <= Len(history[s])
  BY <1>1
<1>3. ASSUME NEW p \in Procs, LPush(p), Sess(p) # s
      PROVE  history'[s] = history[s]
  BY <1>3 DEF LPush
<1>4. ASSUME NEW p \in Procs, LTrim(p)
      PROVE  Len(history'[s]) <= Len(history[s])
  <2>1. CASE history'[s] = history[s]
    BY <1>1, <2>1
  <2>2. CASE ~(Len(history[s]) <= MaxMessages)
             /\ history'[s] = SubSeq(history[s], 1, MaxMessages)
    <3>1. history[s] \in Seq(Message)
      OBVIOUS
    <3>2. QED
      BY <1>1, <2>2, <3>1, ChatAssumption
  <2>3. QED
    BY <1>4, <2>1, <2>2 DEF LTrim
<1>5. ASSUME NEW p \in Procs, ChatStep(p), ~LPush(p), ~LTrim(p)
      PROVE  history'[s] \in {history[s], <<>>}
  BY <1>5 DEF ChatStep, GetOwner, SetMeta, ExpireMeta, SAdd, Recent,
              ExpireHistory, Challenge, GetToken, DelToken, Act, CheckOwner,
              DelHistory, DelMeta, SRem
<1>6. ASSUME NEW p \in Procs, ChatArrive(p) \/ Fails(p)
      PROVE  history'[s] = history[s]
  BY <1>6 DEF ChatArrive, Talk, Ask, Confirm, Remove, Detail, Turn, Begin, Fails
<1>7. ASSUME \/ \E t \in Sessions : HistoryExpires(t) \/ MetaExpires(t)
             \/ \E k \in Users \X Sessions : ChallengeExpires(k)
      PROVE  history'[s] \in {history[s], <<>>}
  BY <1>7 DEF HistoryExpires, MetaExpires, ChallengeExpires
<1>8. QED
  BY <1>2, <1>3, <1>4, <1>5, <1>6, <1>7 DEF ChatNext, ChatEnvironment

LEMMA HistoryIsBounded_step ==
    ASSUME ChatInv, HistoryIsBounded, [ChatNext]_cvars
    PROVE  HistoryIsBounded'
<1>1. CASE UNCHANGED cvars
  BY <1>1 DEF cvars, HistoryIsBounded, At, Sess
<1>2. CASE ChatNext
  <2>1. SUFFICES ASSUME NEW s \in Sessions, s \notin faulted'
                 PROVE  Len(history'[s]) <= MaxMessages + Cardinality(Trimming(s)')
    BY DEF HistoryIsBounded, Trimming
  <2>2. /\ IsFiniteSet(Trimming(s)) /\ IsFiniteSet(Trimming(s)')
        /\ Cardinality(Trimming(s)) \in Nat /\ Cardinality(Trimming(s)') \in Nat
    <3>1. Trimming(s) \subseteq Procs /\ Trimming(s)' \subseteq Procs
      BY DEF Trimming
    <3>2. QED
      BY <3>1, ChatAssumption, FS_Subset, FS_CardinalityType
  <2>3. /\ Len(history[s]) \in Nat /\ Len(history'[s]) \in Nat
        /\ Len(history[s]) <= MaxMessages + Cardinality(Trimming(s))
    <3>1. history[s] \in Seq(Message) /\ history'[s] \in Seq(Message)
      BY <1>2, Chat_Inv DEF ChatInv, ChatTypeOK
    <3>2. QED
      BY <1>2, <2>1, <3>1, FaultsStay DEF HistoryIsBounded, Trimming
  <2>4. ASSUME NEW q \in Trimming(s), q \notin Trimming(s)'
        PROVE  LTrim(q) /\ Sess(q) = s
    BY <1>2, <2>1, <2>4, Stays DEF Trimming, At, Sess
  <2>5. ASSUME NEW p \in Procs, LPush(p), Sess(p) = s
        PROVE  Len(history'[s]) <= MaxMessages + Cardinality(Trimming(s)')
    <3>1. p \notin Trimming(s)
      BY <2>5 DEF LPush, At, Trimming
    <3>2. Trimming(s) \cup {p} \subseteq Trimming(s)'
      BY <2>4, <2>5 DEF LPush, LTrim, At, Trimming, GoTo, Sess, ChatInv,
                        ChatTypeOK, Request, NoReq
    <3>3. Cardinality(Trimming(s)) + 1 <= Cardinality(Trimming(s)')
      <4>1. Cardinality(Trimming(s) \cup {p}) = Cardinality(Trimming(s)) + 1
        BY <2>2, <3>1, FS_AddElement
      <4>2. Cardinality(Trimming(s) \cup {p}) <= Cardinality(Trimming(s)')
        BY <2>2, <3>2, FS_Subset
      <4>3. QED
        BY <4>1, <4>2
    <3>4. Len(history'[s]) = Len(history[s]) + 1
      <4>1. history[s] \in Seq(Message)
        BY DEF ChatInv, ChatTypeOK
      <4>2. history'[s] = <<[by |-> User(p), role |-> creq[p].turn]>> \o history[s]
        BY <2>5 DEF LPush, ChatInv, ChatTypeOK
      <4>3. QED
        BY <4>1, <4>2
    <3>5. QED
      BY <2>2, <2>3, <3>3, <3>4, ChatAssumption
  <2>6. ASSUME NEW p \in Procs, LTrim(p), Sess(p) = s
        PROVE  Len(history'[s]) <= MaxMessages
    <3>1. history[s] \in Seq(Message)
      BY DEF ChatInv, ChatTypeOK
    <3>2. CASE Len(history[s]) <= MaxMessages
      BY <2>6, <3>2 DEF LTrim, ChatInv, ChatTypeOK
    <3>3. CASE ~(Len(history[s]) <= MaxMessages)
      <4>1. history'[s] = SubSeq(history[s], 1, MaxMessages)
        BY <2>6, <3>3 DEF LTrim, ChatInv, ChatTypeOK
      <4>2. QED
        BY <3>1, <3>3, <4>1, ChatAssumption
    <3>4. QED
      BY <3>2, <3>3
  <2>7. CASE \A p \in Procs : ~((LPush(p) \/ LTrim(p)) /\ Sess(p) = s)
    <3>1. Trimming(s) \subseteq Trimming(s)'
      BY <2>4, <2>7 DEF Trimming
    <3>2. Cardinality(Trimming(s)) <= Cardinality(Trimming(s)')
      BY <2>2, <3>1, FS_Subset
    <3>3. Len(history'[s]) <= Len(history[s])
      BY <1>2, <2>7, Longer
    <3>4. QED
      BY <2>2, <2>3, <3>2, <3>3, ChatAssumption
  <2>8. QED
    BY <2>2, <2>3, <2>5, <2>6, <2>7, ChatAssumption
<1>3. QED
  BY <1>1, <1>2

\* Unless a request on it broke off, a conversation holds at most MaxMessages
\* messages and those whose LTRIM is still to come.
THEOREM HistoryIsBoundedHolds == ChatSpec => []HistoryIsBounded
<1>1. ChatInit => HistoryIsBounded
  <2>1. ASSUME ChatInit, NEW s \in Sessions
        PROVE  Len(history[s]) <= MaxMessages
                 + Cardinality({p \in Procs : At(p, "ltrim") /\ Sess(p) = s})
    <3>1. {p \in Procs : At(p, "ltrim") /\ Sess(p) = s} = {}
      BY <2>1 DEF ChatInit, At, NoReq
    <3>2. Cardinality({p \in Procs : At(p, "ltrim") /\ Sess(p) = s}) = 0
      BY <3>1, FS_EmptySet
    <3>3. Len(history[s]) = 0
      BY <2>1 DEF ChatInit
    <3>4. QED
      BY <3>2, <3>3, ChatAssumption
  <2>2. QED
    BY <2>1 DEF HistoryIsBounded
<1>2. QED
  BY ChatInit_Inv, Chat_Inv, <1>1, HistoryIsBounded_step, PTL DEF ChatSpec

-----------------------------------------------------------------------------
(* Requests that write a conversation, one after the other *)

\* What a request keeps from its beginning to its end.
Same(c, d) ==
    c.kind = d.kind /\ c.user = d.user /\ c.sess = d.sess /\ c.token = d.token

\* What the beginning of a request is.
LEMMA Arrives ==
    ASSUME ChatInv, NEW p \in Procs, ChatArrive(p)
    PROVE  \E kind \in {"talk", "ask", "confirm", "delete", "detail"},
              u \in Users, s \in Sessions, t \in Challenges \cup {Nothing},
              pc \in {"getOwner", "getDelete", "getDetail"} :
             /\ creq' = [creq EXCEPT ![p] = NewRequest(kind, u, s, t, pc)]
             /\ kind = "detail" \/ "overlap" \in Hazards \/ Quiet(s)
             /\ UNCHANGED <<history, meta, outlives, listed, confirm, issued,
                            executed>>
             /\ pc = "getOwner" => gone' = gone \ {s}
             /\ pc # "getOwner" => gone' = gone
             /\ kind = "delete" <=> pc = "getDelete"
             /\ kind = "detail" <=> pc = "getDetail"
<1>1. PICK u \in Users, s \in Sessions :
        \/ Talk(p, u, s) \/ Ask(p, u, s)
        \/ \E ch \in Challenges : Confirm(p, u, s, ch)
        \/ Remove(p, u, s) \/ Detail(p, u, s)
  BY DEF ChatArrive
<1>2. CASE Talk(p, u, s)
  BY <1>2 DEF Talk, Turn, Begin, NewRequest
<1>3. CASE Ask(p, u, s)
  BY <1>3 DEF Ask, Turn, Begin, NewRequest
<1>4. CASE \E ch \in Challenges : Confirm(p, u, s, ch)
  BY <1>4 DEF Confirm, Turn, Begin, NewRequest
<1>5. CASE Remove(p, u, s)
  BY <1>5 DEF Remove, Begin, NewRequest
<1>6. CASE Detail(p, u, s)
  BY <1>6 DEF Detail, Begin, NewRequest
<1>7. QED
  BY <1>1, <1>2, <1>3, <1>4, <1>5, <1>6

(* Where each step leads, field by field *)

LEMMA Under ==
    ASSUME ChatInv, NEW p \in Procs, ~Idle(p)
    PROVE  creq[p] \in Request /\ InOrder(creq[p])
  BY DEF ChatInv, ChatTypeOK, Idle, At, NoReq

LEMMA ReplacedBy ==
    ASSUME ChatInv, NEW p \in Procs, NEW c, creq' = [creq EXCEPT ![p] = c]
    PROVE  creq'[p] = c
  BY DEF ChatInv, ChatTypeOK

\* What of a request may change, and where it may be afterwards.
LEMMA GetOwnerLeads ==
    ASSUME ChatInv, NEW p \in Procs, GetOwner(p)
    PROVE  LET c == creq[p]  d == creq'[p]  m == meta[Sess(p)] IN
           /\ Same(d, c) /\ d.turn = c.turn /\ d.page = c.page
           /\ \/ /\ m = Nothing /\ d.pc = "set" /\ d.fresh
                 /\ d.seen = [owner |-> c.user, count |-> 0]
              \/ /\ m # Nothing /\ m.owner # c.user /\ d.pc = "done"
              \/ /\ m # Nothing /\ m.owner = c.user /\ c.turn = "owner"
                 /\ d.pc \in {"done", "recent"}
              \/ /\ m # Nothing /\ m.owner = c.user /\ c.turn # "owner"
                 /\ d.pc = "set" /\ ~d.fresh /\ d.seen = Counted(m)
<1>1. creq[p] \in Request
  BY Under DEF GetOwner, Idle, At
<1>2. creq'[p] =
         IF meta[Sess(p)] = Nothing
         THEN [creq[p] EXCEPT !.pc = "set", !.fresh = TRUE,
                              !.seen = [owner |-> User(p), count |-> 0]]
         ELSE IF meta[Sess(p)].owner # User(p)
         THEN [creq[p] EXCEPT !.pc = "done", !.res = IF creq[p].turn = "owner"
                                               THEN "forbidden" ELSE "error"]
         ELSE IF creq[p].turn = "owner" THEN AfterOwner(p)
         ELSE [creq[p] EXCEPT !.pc = "set", !.fresh = FALSE,
                              !.seen = Counted(meta[Sess(p)])]
  BY DEF GetOwner, ChatInv, ChatTypeOK
<1>3. CASE meta[Sess(p)] = Nothing
  BY <1>1, <1>2, <1>3 DEF Request, Same, User
<1>4. CASE meta[Sess(p)] # Nothing /\ meta[Sess(p)].owner # User(p)
  BY <1>1, <1>2, <1>4 DEF Request, Same, User
<1>5. CASE meta[Sess(p)] # Nothing /\ meta[Sess(p)].owner = User(p)
           /\ creq[p].turn = "owner"
  BY <1>1, <1>2, <1>5 DEF Request, Same, User, AfterOwner
<1>6. CASE meta[Sess(p)] # Nothing /\ meta[Sess(p)].owner = User(p)
           /\ creq[p].turn # "owner"
  BY <1>1, <1>2, <1>6 DEF Request, Same, User
<1>7. QED
  BY <1>3, <1>4, <1>5, <1>6

LEMMA SAddLeads ==
    ASSUME ChatInv, NEW p \in Procs, SAdd(p)
    PROVE  LET c == creq[p]  d == creq'[p] IN
           /\ Same(d, c) /\ d.turn = c.turn /\ d.page = c.page
           /\ \/ ~c.fresh /\ c.turn = "assistant" /\ d.pc = "recent"
              \/ ~c.fresh /\ c.kind = "ask" /\ d.pc = "challenge"
              \/ ~c.fresh /\ c.kind = "confirm" /\ d.pc = "getToken"
              \/ ~c.fresh /\ c.kind \notin {"ask", "confirm"} /\ d.pc = "act"
              \/ c.fresh /\ c.turn = "owner" /\ d.pc \in {"done", "recent"}
              \/ /\ c.fresh /\ c.turn # "owner" /\ d.pc = "set" /\ ~d.fresh
                 /\ d.seen = Counted(c.seen)
           /\ ~c.fresh => (d.pc = "recent" <=> c.turn = "assistant")
<1>1. creq[p] \in Request
  BY Under DEF SAdd, Idle, At
<1>2. creq'[p] =
         IF ~creq[p].fresh THEN AfterAppend(p)
         ELSE IF creq[p].turn = "owner" THEN AfterOwner(p)
         ELSE [creq[p] EXCEPT !.pc = "set", !.fresh = FALSE,
                              !.seen = Counted(creq[p].seen)]
  BY DEF SAdd, ChatInv, ChatTypeOK
<1>3. CASE ~creq[p].fresh
  BY <1>1, <1>2, <1>3 DEF Request, Same, AfterAppend
<1>4. CASE creq[p].fresh /\ creq[p].turn = "owner"
  BY <1>1, <1>2, <1>4 DEF Request, Same, AfterOwner
<1>5. CASE creq[p].fresh /\ creq[p].turn # "owner"
  BY <1>1, <1>2, <1>5 DEF Request, Same
<1>6. QED
  BY <1>3, <1>4, <1>5

LEMMA RecentLeads ==
    ASSUME ChatInv, NEW p \in Procs, Recent(p)
    PROVE  LET c == creq[p]  d == creq'[p]  read == Authors(history[Sess(p)]) IN
           /\ Same(d, c)
           /\ \/ /\ c.turn = "owner" /\ d.turn = "user" /\ d.pc = "lpush"
                 /\ d.page = read
              \/ /\ c.turn # "owner" /\ d.turn = c.turn /\ d.pc = "done"
                 /\ d.page = c.page \cup read
<1>1. creq[p] \in Request
  BY Under DEF Recent, Idle, At
<1> DEFINE read == Authors(history[Sess(p)])
<1>2. creq'[p] =
         IF creq[p].turn = "owner"
         THEN [creq[p] EXCEPT !.page = read, !.turn = "user", !.pc = "lpush"]
         ELSE [creq[p] EXCEPT !.page = creq[p].page \cup read,
                              !.pc = "done", !.res = "ok"]
  BY DEF Recent, ChatInv, ChatTypeOK
<1> HIDE DEF read
<1>3. ASSUME creq[p].turn = "owner"
      PROVE  /\ Same(creq'[p], creq[p]) /\ creq'[p].turn = "user"
             /\ creq'[p].pc = "lpush" /\ creq'[p].page = read
  <2>1. creq'[p] = [creq[p] EXCEPT !.page = read, !.turn = "user", !.pc = "lpush"]
    BY <1>2, <1>3
  <2>2. QED
    BY <1>1, <2>1 DEF Request, Same
<1>4. ASSUME creq[p].turn # "owner"
      PROVE  /\ Same(creq'[p], creq[p]) /\ creq'[p].turn = creq[p].turn
             /\ creq'[p].pc = "done" /\ creq'[p].page = creq[p].page \cup read
  <2>1. creq'[p] = [creq[p] EXCEPT !.page = creq[p].page \cup read,
                              !.pc = "done", !.res = "ok"]
    BY <1>2, <1>4
  <2>2. QED
    BY <1>1, <2>1 DEF Request, Same
<1>5. QED
  BY <1>3, <1>4 DEF read

LEMMA AnswerLeads ==
    ASSUME ChatInv, NEW p \in Procs, Challenge(p) \/ GetToken(p) \/ Act(p)
    PROVE  LET c == creq[p]  d == creq'[p] IN
           /\ Same(d, c) /\ d.page = c.page
           /\ \/ d.turn = "assistant" /\ d.pc = "lpush"
              \/ /\ d.turn = c.turn /\ d.pc = "delToken" /\ GetToken(p)
                 /\ confirm[<<c.user, c.sess>>] = c.token
              \/ d.turn = c.turn /\ d.pc = "done" /\ Act(p)
<1>1. creq[p] \in Request
  BY Under DEF Challenge, GetToken, Act, Idle, At
<1>2. \/ creq'[p] = Answer(p)
      \/ /\ creq'[p] = [creq[p] EXCEPT !.pc = "delToken"] /\ GetToken(p)
         /\ confirm[<<User(p), Sess(p)>>] = creq[p].token
      \/ creq'[p] = [creq[p] EXCEPT !.pc = "done", !.res = "error"] /\ Act(p)
  <2>1. CASE Challenge(p)
    BY <2>1, ReplacedBy DEF Challenge
  <2>2. CASE GetToken(p)
    BY <2>2 DEF GetToken, ChatInv, ChatTypeOK
  <2>3. CASE Act(p)
    <3>1. \/ creq' = [creq EXCEPT ![p] = Answer(p)]
          \/ creq' = [creq EXCEPT ![p].pc = "done", ![p].res = "error"]
      BY <2>3 DEF Act, Respond
    <3>2. QED
      BY <2>3, <3>1 DEF ChatInv, ChatTypeOK
  <2>4. QED
    BY <2>1, <2>2, <2>3
<1>3. CASE creq'[p] = Answer(p)
  <2>1. creq'[p] = [creq[p] EXCEPT !.turn = "assistant", !.pc = "lpush"]
    BY <1>3 DEF Answer
  <2>2. /\ Same(creq'[p], creq[p]) /\ creq'[p].page = creq[p].page
        /\ creq'[p].turn = "assistant" /\ creq'[p].pc = "lpush"
    BY <1>1, <2>1 DEF Request, Same
  <2>3. QED
    BY <2>2
<1>4. ASSUME NEW pc, creq'[p] = [creq[p] EXCEPT !.pc = pc]
      PROVE  /\ Same(creq'[p], creq[p]) /\ creq'[p].page = creq[p].page
             /\ creq'[p].turn = creq[p].turn /\ creq'[p].pc = pc
  BY <1>1, <1>4 DEF Request, Same
<1>5. ASSUME creq'[p] = [creq[p] EXCEPT !.pc = "done", !.res = "error"]
      PROVE  /\ Same(creq'[p], creq[p]) /\ creq'[p].page = creq[p].page
             /\ creq'[p].turn = creq[p].turn /\ creq'[p].pc = "done"
  BY <1>1, <1>5 DEF Request, Same
<1>6. QED
  BY <1>2, <1>3, <1>4, <1>5 DEF User, Sess

LEMMA CheckOwnerLeads ==
    ASSUME ChatInv, NEW p \in Procs, CheckOwner(p)
    PROVE  LET c == creq[p]  d == creq'[p]  m == meta[Sess(p)] IN
           /\ Same(d, c) /\ d.page = c.page
           /\ \/ d.pc = "done"
              \/ /\ m # Nothing /\ m.owner = c.user
                 /\ c.pc = "getDelete" /\ d.pc = "delHistory"
              \/ /\ m # Nothing /\ m.owner = c.user
                 /\ c.pc = "getDetail" /\ d.pc = "recent"
                 /\ d.turn = "assistant"
<1>1. creq[p] \in Request /\ creq[p].pc \in {"getDelete", "getDetail"}
  BY Under DEF CheckOwner, Idle, At
<1>2. \/ creq'[p] = [creq[p] EXCEPT !.pc = "done", !.res = "absent"]
      \/ creq'[p] = [creq[p] EXCEPT !.pc = "done", !.res = "forbidden"]
      \/ /\ meta[Sess(p)] # Nothing /\ meta[Sess(p)].owner = User(p)
         /\ creq'[p] = [creq[p] EXCEPT !.turn = "assistant",
                !.pc = IF creq[p].pc = "getDelete" THEN "delHistory" ELSE "recent"]
  <2>1. \/ creq' = [creq EXCEPT ![p].pc = "done", ![p].res = "absent"]
        \/ creq' = [creq EXCEPT ![p].pc = "done", ![p].res = "forbidden"]
        \/ /\ meta[Sess(p)] # Nothing /\ meta[Sess(p)].owner = User(p)
           /\ creq' = [creq EXCEPT ![p].turn = "assistant",
                 ![p].pc = IF At(p, "getDelete") THEN "delHistory" ELSE "recent"]
    BY DEF CheckOwner, Respond
  <2>2. QED
    BY <2>1 DEF ChatInv, ChatTypeOK, At
<1>3. CASE creq'[p].pc = "done" /\ Same(creq'[p], creq[p]) /\ creq'[p].page = creq[p].page
  BY <1>3
<1>4. CASE creq'[p].pc # "done"
  BY <1>1, <1>2, <1>4 DEF Request, Same, User
<1>5. QED
  BY <1>1, <1>2, <1>3, <1>4 DEF Request, Same

\* The other steps only move a request on.
MovedTo(d, c, pc) ==
    /\ Same(d, c) /\ d.turn = c.turn /\ d.page = c.page
    /\ d.seen = c.seen /\ d.fresh = c.fresh /\ d.pc = pc

LEMMA GoToLeads ==
    ASSUME ChatInv, NEW p \in Procs, ~Idle(p), NEW pc, GoTo(p, pc)
    PROVE  MovedTo(creq'[p], creq[p], pc)
<1>1. creq[p] \in Request
  BY Under
<1>2. creq'[p] = [creq[p] EXCEPT !.pc = pc]
  BY DEF GoTo, ChatInv, ChatTypeOK
<1>3. QED
  BY <1>1, <1>2 DEF Request, MovedTo, Same

LEMMA RespondLeads ==
    ASSUME ChatInv, NEW p \in Procs, ~Idle(p), NEW res, Respond(p, res)
    PROVE  MovedTo(creq'[p], creq[p], "done")
<1>1. creq[p] \in Request
  BY Under
<1>2. creq'[p] = [creq[p] EXCEPT !.pc = "done", !.res = res]
  BY DEF Respond, ChatInv, ChatTypeOK
<1>3. QED
  BY <1>1, <1>2 DEF Request, MovedTo, Same

LEMMA MovesOn ==
    ASSUME ChatInv, NEW p \in Procs
    PROVE  LET to(pc) == MovedTo(creq'[p], creq[p], pc) IN
           /\ SetMeta(p) => to("expireMeta")
           /\ ExpireMeta(p) => to("sadd")
           /\ LPush(p) => to("ltrim")
           /\ LTrim(p) => to("expireHistory")
           /\ ExpireHistory(p) => to("getOwner")
           /\ DelToken(p) => to("act")
           /\ DelHistory(p) => to("delMeta")
           /\ DelMeta(p) => to("srem")
           /\ SRem(p) \/ Fails(p) => to("done")
<1> USE GoToLeads, RespondLeads DEF At, Idle
<1>1. SetMeta(p) => MovedTo(creq'[p], creq[p], "expireMeta")
  BY DEF SetMeta
<1>2. ExpireMeta(p) => MovedTo(creq'[p], creq[p], "sadd")
  BY DEF ExpireMeta
<1>3. LPush(p) => MovedTo(creq'[p], creq[p], "ltrim")
  BY DEF LPush
<1>4. LTrim(p) => MovedTo(creq'[p], creq[p], "expireHistory")
  BY DEF LTrim
<1>5. ExpireHistory(p) => MovedTo(creq'[p], creq[p], "getOwner")
  BY DEF ExpireHistory
<1>6. DelToken(p) => MovedTo(creq'[p], creq[p], "act")
  BY DEF DelToken
<1>7. DelHistory(p) => MovedTo(creq'[p], creq[p], "delMeta")
  BY DEF DelHistory
<1>8. DelMeta(p) => MovedTo(creq'[p], creq[p], "srem")
  BY DEF DelMeta
<1>9. SRem(p) \/ Fails(p) => MovedTo(creq'[p], creq[p], "done")
  BY DEF SRem, Fails
<1>10. QED
  BY <1>1, <1>2, <1>3, <1>4, <1>5, <1>6, <1>7, <1>8, <1>9

\* A request under way keeps what it is, and one that has ended stays ended.
LEMMA Continues ==
    ASSUME ChatInv, ChatNext, NEW q \in Procs
    PROVE  \/ creq'[q] = creq[q]
           \/ ~Idle(q) /\ creq'[q] \in Request /\ Same(creq'[q], creq[q])
           \/ Idle(q) /\ ChatArrive(q)
<1> USE DEF ChatInv, ChatTypeOK
<1>1. ASSUME ChatStep(q) \/ Fails(q)
      PROVE  ~Idle(q) /\ Same(creq'[q], creq[q])
  <2>1. ~Idle(q)
    BY <1>1 DEF ChatStep, GetOwner, SetMeta, ExpireMeta, SAdd, Recent, LPush,
                LTrim, ExpireHistory, Challenge, GetToken, DelToken, Act,
                CheckOwner, DelHistory, DelMeta, SRem, Fails, At, Idle
  <2>2. QED
    BY <1>1, <2>1, GetOwnerLeads, SAddLeads, RecentLeads, AnswerLeads,
       CheckOwnerLeads, MovesOn DEF ChatStep, MovedTo
<1>2. ~Idle(q) /\ Same(creq'[q], creq[q]) => creq'[q] \in Request
  <2>1. ChatInv'
    BY Chat_Inv
  <2>2. creq'[q] \in Request \cup {NoReq}
    BY <2>1
  <2>3. ~Idle(q) => creq[q] \in Request
    BY DEF Idle, At, NoReq
  <2>4. QED
    BY <2>2, <2>3 DEF Same, Request, NoReq
<1>3. QED
  BY <1>1, <1>2, OneMoves

Serial ==
    \A p, q \in Procs :
        /\ p # q
        /\ ~Idle(p) /\ creq[p].kind # "detail"
        /\ ~Idle(q) /\ creq[q].kind # "detail"
        => Sess(p) # Sess(q)

LEMMA Serial_step ==
    ASSUME ChatInv, Serial, ChatNext, "overlap" \notin Hazards
    PROVE  Serial'
<1>1. SUFFICES ASSUME NEW p \in Procs, NEW q \in Procs, p # q,
                      (~Idle(p) /\ creq[p].kind # "detail")',
                      (~Idle(q) /\ creq[q].kind # "detail")'
               PROVE  (Sess(p) # Sess(q))'
  BY DEF Serial
<1>2. ASSUME NEW a \in Procs, NEW b \in Procs, a # b, Idle(a), ChatArrive(a),
             (~Idle(a) /\ creq[a].kind # "detail")',
             (~Idle(b) /\ creq[b].kind # "detail")'
      PROVE  (Sess(a) # Sess(b))'
  <2>1. PICK kind \in {"talk", "ask", "confirm", "delete", "detail"},
             u \in Users, s \in Sessions, t \in Challenges \cup {Nothing},
             pc \in {"getOwner", "getDelete", "getDetail"} :
          /\ creq' = [creq EXCEPT ![a] = NewRequest(kind, u, s, t, pc)]
          /\ kind = "detail" \/ Quiet(s)
    BY <1>2, Arrives
  <2>2. creq'[a] = NewRequest(kind, u, s, t, pc) /\ creq'[b] = creq[b]
    BY <1>2, <2>1 DEF ChatInv, ChatTypeOK
  <2>3. Quiet(s) /\ Writing(b, creq[b].sess)
    BY <1>2, <2>1, <2>2 DEF NewRequest, Writing, Idle, At
  <2>4. QED
    BY <2>2, <2>3 DEF Quiet, Writing, NewRequest, Sess
<1>3. CASE Idle(p) /\ ChatArrive(p)
  BY <1>1, <1>2, <1>3
<1>4. CASE Idle(q) /\ ChatArrive(q)
  BY <1>1, <1>2, <1>4
<1>5. CASE ~(Idle(p) /\ ChatArrive(p)) /\ ~(Idle(q) /\ ChatArrive(q))
  <2>1. ASSUME NEW x \in {p, q}
        PROVE  ~Idle(x) /\ creq[x].kind # "detail" /\ creq'[x].sess = creq[x].sess
    <3>1. x \in Procs /\ (~Idle(x) /\ creq[x].kind # "detail")'
             /\ ~(Idle(x) /\ ChatArrive(x))
      BY <1>1, <1>5
    <3>2. \/ creq'[x] = creq[x]
          \/ ~Idle(x) /\ Same(creq'[x], creq[x])
      BY <3>1, Continues
    <3>3. QED
      BY <3>1, <3>2 DEF Same, Idle, At
  <2>2. QED
    BY <1>1, <2>1 DEF Serial, Sess
<1>6. QED
  BY <1>3, <1>4, <1>5

-----------------------------------------------------------------------------
(* A challenge is good for one execution *)

\* p has compared its challenge and has not acted on it yet.
Pending(p) == creq[p].kind = "confirm" /\ creq[p].pc \in {"delToken", "act"}

Stored(ch) == \E k \in Users \X Sessions : confirm[k] = ch

\* An executed challenge is neither stored nor held, and one that is acted on
\* is not stored.
OnceInv ==
    /\ \A ch \in Challenges : executed[ch] # 0 =>
         /\ executed[ch] = 1 /\ issued[ch] # Nothing /\ ~Stored(ch)
         /\ \A p \in Procs : Pending(p) => creq[p].token # ch
    /\ \A p \in Procs : Pending(p) /\ At(p, "act") => ~Stored(creq[p].token)

\* A held challenge is held by one request.
LEMMA HeldOnce ==
    ASSUME ChatInv, Serial, NEW p \in Procs, Pending(p)
    PROVE  /\ creq[p] \in Request
           /\ creq[p].token \in Challenges
           /\ issued[creq[p].token] = <<User(p), Sess(p)>>
           /\ issued[creq[p].token] # Nothing
           /\ \A q \in Procs : Pending(q) /\ q # p => creq[q].token # creq[p].token
<1>1. ASSUME NEW q \in Procs, Pending(q)
      PROVE  /\ creq[q] \in Request /\ ~Idle(q) /\ creq[q].kind # "detail"
             /\ creq[q].token \in Challenges
             /\ issued[creq[q].token] = <<User(q), Sess(q)>>
             /\ issued[creq[q].token] # Nothing
  <2>1. creq[q] \in Request /\ InOrder(creq[q]) /\ Confirmed(creq[q])
    BY <1>1 DEF ChatInv, ChatTypeOK, Pending, NoReq
  <2>2. QED
    BY <1>1, <2>1, ConfirmedIsIssued
       DEF Pending, Confirmed, User, Sess, Idle, At
<1>2. ASSUME NEW q \in Procs, Pending(q), q # p, creq[q].token = creq[p].token
      PROVE  FALSE
  <2>1. Sess(q) = Sess(p)
    BY <1>1, <1>2
  <2>2. QED
    BY <1>1, <1>2, <2>1 DEF Serial
<1>3. QED
  BY <1>1, <1>2

\* Only a comparison makes a request hold a challenge.
LEMMA PendingAgain ==
    ASSUME ChatInv, ChatNext, NEW q \in Procs, Pending(q)', ~GetToken(q)
    PROVE  /\ Pending(q) /\ creq'[q].token = creq[q].token
           /\ At(q, "act")' => At(q, "act") \/ DelToken(q)
<1> USE DEF ChatInv, ChatTypeOK
<1>1. CASE creq'[q] = creq[q]
  BY <1>1 DEF Pending, At
<1>2. CASE ChatArrive(q)
  BY <1>2, Arrives DEF NewRequest, Pending
<1>3. ASSUME ChatStep(q) \/ Fails(q)
      PROVE  /\ Pending(q) /\ creq'[q].token = creq[q].token
             /\ At(q, "act")' => At(q, "act") \/ DelToken(q)
  <2>1. ~GetOwner(q) /\ ~SAdd(q) /\ ~Recent(q)
    BY <1>3, GetOwnerLeads, SAddLeads, RecentLeads DEF Pending, Same
  <2>2. ~Challenge(q) /\ ~Act(q)
    <3>1. creq'[q].pc # "lpush" /\ creq'[q].pc # "done"
      BY DEF Pending
    <3>2. QED
      BY <3>1, AnswerLeads DEF Challenge, Act, GetToken, At
  <2>3. ~CheckOwner(q)
    BY CheckOwnerLeads DEF Pending
  <2>4. DelToken(q)
    BY <1>3, <2>1, <2>2, <2>3, MovesOn DEF ChatStep, MovedTo, Pending
  <2>5. QED
    BY <2>4, MovesOn DEF DelToken, MovedTo, Pending, At, Same
<1>4. QED
  BY <1>1, <1>2, <1>3, OneMoves

\* The steps that touch the challenges.
LEMMA ChallengesStay ==
    ASSUME ChatInv, ChatNext,
           ~\E p \in Procs : Challenge(p) \/ Act(p)
    PROVE  /\ UNCHANGED <<issued, executed>>
           /\ \A ch \in Challenges : Stored(ch)' => Stored(ch)
<1> USE DEF ChatInv, ChatTypeOK
<1>1. CASE UNCHANGED <<issued, executed, confirm>>
  BY <1>1 DEF Stored
<1>2. ASSUME NEW p \in Procs, ChatStep(p)
      PROVE  UNCHANGED <<issued, executed, confirm>> \/ DelToken(p)
  BY <1>2 DEF ChatStep, GetOwner, SetMeta, ExpireMeta, SAdd, Recent, LPush,
              LTrim, ExpireHistory, GetToken, CheckOwner, DelHistory, DelMeta,
              SRem, ghosts
<1>3. ASSUME NEW p \in Procs, ChatArrive(p) \/ Fails(p)
      PROVE  UNCHANGED <<issued, executed, confirm>>
  BY <1>3, Arrives DEF Fails
<1>4. ASSUME NEW s \in Sessions, HistoryExpires(s) \/ MetaExpires(s)
      PROVE  UNCHANGED <<issued, executed, confirm>>
  BY <1>4 DEF HistoryExpires, MetaExpires, ghosts
<1>5. ASSUME \/ \E p \in Procs : DelToken(p)
             \/ \E k \in Users \X Sessions : ChallengeExpires(k)
      PROVE  /\ UNCHANGED <<issued, executed>>
             /\ \A ch \in Challenges : Stored(ch)' => Stored(ch)
  <2>1. UNCHANGED <<issued, executed>>
    BY <1>5 DEF DelToken, ChallengeExpires, ghosts
  <2>2. PICK k : confirm' = [confirm EXCEPT ![k] = Nothing]
    BY <1>5 DEF DelToken, ChallengeExpires
  <2>3. \A ch \in Challenges : ch # Nothing
    BY NothingAssumption
  <2>4. QED
    BY <2>1, <2>2, <2>3 DEF Stored
<1>6. QED
  BY <1>1, <1>2, <1>3, <1>4, <1>5 DEF ChatNext, ChatEnvironment

LEMMA OnceInv_step ==
    ASSUME ChatInv, Serial, OnceInv, ChatNext
    PROVE  OnceInv'
<1>1. ASSUME UNCHANGED creq
      PROVE  OnceInv'
  <2>1. \A p \in Procs : ~Challenge(p) /\ ~Act(p)
    <3>1. ASSUME NEW p \in Procs, Challenge(p) \/ Act(p)
          PROVE  creq'[p].pc # creq[p].pc
      BY <3>1, AnswerLeads DEF Challenge, Act, GetToken, At
    <3>2. QED
      BY <1>1, <3>1
  <2>2. UNCHANGED <<issued, executed>> /\ \A ch \in Challenges : Stored(ch)' => Stored(ch)
    BY <2>1, ChallengesStay
  <2>3. \A p \in Procs : Pending(p) => creq[p].token \in Challenges
    BY HeldOnce
  <2>4. QED
    BY <1>1, <2>2, <2>3 DEF OnceInv, Pending, At
<1>2. ASSUME NEW p \in Procs,
             \A q \in Procs : q # p => creq'[q] = creq[q],
             ChatStep(p) \/ ChatArrive(p) \/ Fails(p)
      PROVE  OnceInv'
  <2>1. ASSUME NEW q \in Procs, q # p
        PROVE  (Pending(q)' <=> Pending(q)) /\ (At(q, "act")' <=> At(q, "act"))
               /\ creq'[q].token = creq[q].token
    BY <1>2, <2>1 DEF Pending, At
  <2>2. CASE Challenge(p)
    <3>1. PICK new \in Challenges :
            /\ issued[new] = Nothing
            /\ issued' = [issued EXCEPT ![new] = <<User(p), Sess(p)>>]
            /\ confirm' = [confirm EXCEPT ![<<User(p), Sess(p)>>] = new]
      BY <2>2 DEF Challenge
    <3>2. UNCHANGED executed /\ ~Pending(p)'
      BY <2>2, AnswerLeads DEF Challenge, Act, GetToken, At, Pending
    <3>3. \A ch \in Challenges : ch # new => (Stored(ch)' => Stored(ch))
      BY <3>1 DEF Stored, ChatInv, ChatTypeOK
    <3>4. \A q \in Procs : Pending(q) => creq[q].token # new /\ creq[q].token \in Challenges
      BY <3>1, HeldOnce
    <3>5. \A ch \in Challenges : executed[ch] # 0 => ch # new /\ issued'[ch] = issued[ch]
      BY <3>1 DEF OnceInv, ChatInv, ChatTypeOK
    <3>6. QED
      BY <2>1, <3>2, <3>3, <3>4, <3>5 DEF OnceInv
  <2>3. CASE Act(p) /\ creq[p].kind = "confirm"
    <3>1. Pending(p) /\ At(p, "act") /\ ~Pending(p)'
      BY <2>3, AnswerLeads DEF Act, GetToken, At, Pending
    <3> DEFINE ch == creq[p].token
    <3>2. ch \in Challenges /\ issued[ch] # Nothing
          /\ \A q \in Procs : Pending(q) /\ q # p => creq[q].token # ch
      BY <3>1, HeldOnce
    <3>3. executed' = [executed EXCEPT ![ch] = @ + 1] /\ UNCHANGED <<issued, confirm>>
      BY <2>3 DEF Act
    <3>4. executed[ch] = 0 /\ ~Stored(ch)
      BY <3>1, <3>2 DEF OnceInv
    <3>5. executed'[ch] = 1 /\ \A c \in Challenges : c # ch => executed'[c] = executed[c]
      BY <3>2, <3>3, <3>4 DEF ChatInv, ChatTypeOK
    <3>6. \A c \in Challenges : Stored(c)' <=> Stored(c)
      BY <3>3 DEF Stored
    <3>7. \A q \in Procs : Pending(q) => creq[q].token \in Challenges
      BY HeldOnce
    <3> HIDE DEF ch
    <3>8. QED
      BY <2>1, <3>1, <3>2, <3>3, <3>4, <3>5, <3>6, <3>7 DEF OnceInv
  <2>4. CASE GetToken(p)
    <3>1. UNCHANGED <<issued, executed, confirm>>
      BY <2>4 DEF GetToken, ghosts
    <3>2. \A c : Stored(c)' <=> Stored(c)
      BY <3>1 DEF Stored
    <3>3. CASE ~Pending(p)'
      <4>1. \A q \in Procs : Pending(q) => creq[q].token \in Challenges
        BY HeldOnce
      <4>2. QED
        BY <2>1, <3>1, <3>2, <3>3, <4>1 DEF OnceInv
    <3>4. CASE Pending(p)'
      <4>1. /\ creq'[p].pc = "delToken" /\ creq'[p].token = creq[p].token
            /\ confirm[<<creq[p].user, creq[p].sess>>] = creq[p].token
        BY <2>4, <3>4, AnswerLeads DEF Pending, Act, GetToken, At, Same
      <4>2. creq[p] \in Request
        BY <2>4, Under DEF GetToken, At, Idle
      <4>3. Stored(creq[p].token)
        BY <4>1, <4>2 DEF Stored, Request
      <4>4. ~At(p, "act")'
        BY <4>1 DEF At
      <4>5. QED
        BY <2>1, <3>1, <3>2, <4>1, <4>3, <4>4 DEF OnceInv
    <3>5. QED
      BY <3>3, <3>4
  <2>5. CASE ~Challenge(p) /\ ~GetToken(p) /\ ~(Act(p) /\ creq[p].kind = "confirm")
    <3>1. UNCHANGED <<issued, executed>> /\ \A ch \in Challenges : Stored(ch)' => Stored(ch)
      <4>1. CASE Act(p)
        BY <2>5, <4>1 DEF Act, Stored
      <4>2. CASE ~Act(p)
        <5>1. ASSUME NEW q \in Procs, q # p
              PROVE  ~Challenge(q) /\ ~Act(q)
          <6>1. creq'[q].pc = creq[q].pc
            BY <1>2, <5>1
          <6>2. QED
            BY <6>1, AnswerLeads DEF Challenge, Act, GetToken, At
        <5>2. QED
          BY <2>5, <4>2, <5>1, ChallengesStay
      <4>3. QED
        BY <4>1, <4>2
    <3>2. Pending(p)' => /\ Pending(p) /\ creq'[p].token = creq[p].token
                         /\ At(p, "act")' => At(p, "act") \/ DelToken(p)
      BY <2>5, PendingAgain
    <3>3. ASSUME DelToken(p), Pending(p), NEW k \in Users \X Sessions,
                 confirm'[k] = creq[p].token
          PROVE  FALSE
      <4>1. /\ creq[p].token \in Challenges /\ creq[p].token # Nothing
            /\ issued[creq[p].token] = <<User(p), Sess(p)>>
        BY <3>3, HeldOnce, NothingAssumption
      <4>2. confirm' = [confirm EXCEPT ![<<User(p), Sess(p)>>] = Nothing]
        BY <3>3 DEF DelToken
      <4>3. k # <<User(p), Sess(p)>> /\ confirm[k] = creq[p].token
        BY <3>3, <4>1, <4>2 DEF ChatInv, ChatTypeOK
      <4>4. issued[creq[p].token] = k
        BY <4>1, <4>3 DEF ChatInv, ChallengesMatch
      <4>5. QED
        BY <4>1, <4>3, <4>4
    <3>4. ASSUME DelToken(p), Pending(p), NEW ch, ch = creq[p].token
          PROVE  ~Stored(ch)'
      BY <3>3, <3>4 DEF Stored
    <3>5. \A q \in Procs : Pending(q) => creq[q].token \in Challenges
      BY HeldOnce
    <3>6. QED
      BY <2>1, <3>1, <3>2, <3>4, <3>5 DEF OnceInv
  <2>6. QED
    BY <2>2, <2>3, <2>4, <2>5
<1>3. QED
  BY <1>1, <1>2, OneMoves

\* When requests that write one conversation do not overlap, a confirm token is
\* good for one execution of its action, whatever expires or fails meanwhile
\* (_consume_confirm_token, chat_service.py:50-66).
THEOREM ConfirmedOnceHolds ==
    ASSUME "overlap" \notin Hazards
    PROVE  ChatSpec => []ConfirmedOnce
<1>1. ChatInit => Serial /\ OnceInv
  BY DEF ChatInit, Serial, OnceInv, Idle, At, NoReq, Pending
<1>2. ChatInv /\ Serial /\ OnceInv /\ [ChatNext]_cvars => Serial' /\ OnceInv'
  <2>1. CASE UNCHANGED cvars
    BY <2>1 DEF cvars, Serial, OnceInv, Idle, At, Sess, Pending, Stored
  <2>2. QED
    BY <2>1, Serial_step, OnceInv_step
<1>3. OnceInv => ConfirmedOnce
  BY DEF OnceInv, ConfirmedOnce
<1>4. QED
  BY ChatInit_Inv, Chat_Inv, <1>1, <1>2, <1>3, PTL DEF ChatSpec

-----------------------------------------------------------------------------
(* Who writes the keys of a conversation *)

\* The step of request p, by what it writes; nobody else writes a key of a
\* conversation but the clock.
LEMMA StepWrites ==
    ASSUME ChatInv, NEW p \in Procs, ChatStep(p), NEW s \in Sessions
    PROVE  /\ (~LPush(p) /\ ~LTrim(p) /\ ~DelHistory(p)) \/ Sess(p) # s
                => history'[s] = history[s]
           /\ (~SetMeta(p) /\ ~DelMeta(p)) \/ Sess(p) # s => meta'[s] = meta[s]
           /\ (~ExpireMeta(p) /\ ~LPush(p) /\ ~ExpireHistory(p)) \/ Sess(p) # s
                => outlives'[s] = outlives[s]
           /\ ~SRem(p) => gone' = gone
           /\ ~SAdd(p) /\ ~SRem(p) => listed' = listed
<1>1. ~SRem(p) => gone' = gone
  BY DEF ChatStep, GetOwner, SetMeta, ExpireMeta, SAdd, Recent, LPush, LTrim,
         ExpireHistory, Challenge, GetToken, DelToken, Act, CheckOwner,
         DelHistory, DelMeta, ghosts
<1>2. ~SAdd(p) /\ ~SRem(p) => listed' = listed
  BY DEF ChatStep, GetOwner, SetMeta, ExpireMeta, Recent, LPush, LTrim,
         ExpireHistory, Challenge, GetToken, DelToken, Act, CheckOwner,
         DelHistory, DelMeta
<1>3. /\ ~LPush(p) /\ ~LTrim(p) /\ ~DelHistory(p) => history' = history
      /\ ~SetMeta(p) /\ ~DelMeta(p) => meta' = meta
      /\ ~ExpireMeta(p) /\ ~LPush(p) /\ ~ExpireHistory(p) => outlives' = outlives
  BY DEF ChatStep, GetOwner, SetMeta, ExpireMeta, SAdd, Recent, LPush, LTrim,
         ExpireHistory, Challenge, GetToken, DelToken, Act, CheckOwner,
         DelHistory, DelMeta, SRem
<1>4. Sess(p) # s => /\ LPush(p) \/ LTrim(p) \/ DelHistory(p) => history'[s] = history[s]
                     /\ SetMeta(p) \/ DelMeta(p) => meta'[s] = meta[s]
                     /\ ExpireMeta(p) \/ LPush(p) \/ ExpireHistory(p)
                          => outlives'[s] = outlives[s]
  BY DEF SetMeta, ExpireMeta, LPush, LTrim, ExpireHistory, DelHistory, DelMeta,
         ChatInv, ChatTypeOK
<1>5. QED
  BY <1>1, <1>2, <1>3, <1>4

LEMMA ClockWrites ==
    ASSUME ChatInv, ChatNext, UNCHANGED creq \/ \E p \in Procs : Fails(p),
           ~\E p \in Procs : ChatStep(p) \/ ChatArrive(p),
           NEW s \in Sessions
    PROVE  /\ UNCHANGED <<outlives, listed, gone>>
           /\ history'[s] # history[s] => HistoryExpires(s) /\ history'[s] = <<>>
           /\ meta'[s] # meta[s] => MetaExpires(s) /\ meta'[s] = Nothing
<1>1. ASSUME NEW t \in Sessions, HistoryExpires(t) \/ MetaExpires(t)
      PROVE  /\ UNCHANGED <<outlives, listed, gone>>
             /\ history'[s] # history[s] => HistoryExpires(s) /\ history'[s] = <<>>
             /\ meta'[s] # meta[s] => MetaExpires(s) /\ meta'[s] = Nothing
  <2>1. CASE t = s
    BY <1>1, <2>1 DEF HistoryExpires, MetaExpires, ghosts, ChatInv, ChatTypeOK
  <2>2. CASE t # s
    BY <1>1, <2>2 DEF HistoryExpires, MetaExpires, ghosts, ChatInv, ChatTypeOK
  <2>3. QED
    BY <2>1, <2>2
<1>2. ASSUME \/ \E k \in Users \X Sessions : ChallengeExpires(k)
             \/ \E p \in Procs : Fails(p)
      PROVE  UNCHANGED <<history, meta, outlives, listed, gone>>
  BY <1>2 DEF ChallengeExpires, Fails, ghosts
<1>3. QED
  BY <1>1, <1>2 DEF ChatNext, ChatEnvironment

\* The commands of a removal, and nothing else, are at its places.
Removing(c) ==
    /\ c.pc \in {"getDelete", "delHistory", "delMeta", "srem"} => c.kind = "delete"
    /\ c.kind = "delete" => c.pc \in {"getDelete", "delHistory", "delMeta", "srem", "done"}

LEMMA Removing_step ==
    ASSUME ChatInv, ChatNext, NEW q \in Procs, Removing(creq[q])
    PROVE  Removing(creq'[q])
<1>1. CASE creq'[q] = creq[q]
  BY <1>1
<1>2. CASE ChatArrive(q)
  <2>1. PICK kind \in {"talk", "ask", "confirm", "delete", "detail"},
             u \in Users, s \in Sessions, t \in Challenges \cup {Nothing},
             pc \in {"getOwner", "getDelete", "getDetail"} :
          /\ creq' = [creq EXCEPT ![q] = NewRequest(kind, u, s, t, pc)]
          /\ kind = "delete" <=> pc = "getDelete"
    BY <1>2, Arrives
  <2>2. creq'[q] = NewRequest(kind, u, s, t, pc)
    BY <2>1, ReplacedBy
  <2>3. QED
    BY <2>1, <2>2 DEF Removing, NewRequest
<1>3. ASSUME ChatStep(q) \/ Fails(q)
      PROVE  Removing(creq'[q])
  <2>1. creq'[q].kind = creq[q].kind
    BY <1>3, GetOwnerLeads, SAddLeads, RecentLeads, AnswerLeads,
       CheckOwnerLeads, MovesOn DEF ChatStep, MovedTo, Same
  <2>2. CASE GetOwner(q) \/ SAdd(q) \/ Recent(q) \/ Challenge(q) \/ GetToken(q) \/ Act(q)
    <3>1. creq[q].kind # "delete"
      BY <2>2 DEF Removing, GetOwner, SAdd, Recent, Challenge, GetToken, Act, At
    <3>2. creq'[q].pc \notin {"getDelete", "delHistory", "delMeta", "srem"}
      BY <2>2, GetOwnerLeads, SAddLeads, RecentLeads, AnswerLeads
    <3>3. QED
      BY <2>1, <3>1, <3>2 DEF Removing
  <2>3. CASE CheckOwner(q)
    BY <2>1, <2>3, CheckOwnerLeads DEF Removing
  <2>4. CASE SetMeta(q) \/ ExpireMeta(q) \/ LPush(q) \/ LTrim(q)
             \/ ExpireHistory(q) \/ DelToken(q)
    <3>1. creq[q].kind # "delete"
      BY <2>4 DEF Removing, SetMeta, ExpireMeta, LPush, LTrim, ExpireHistory,
                  DelToken, At
    <3>2. QED
      BY <2>1, <2>4, <3>1, MovesOn DEF Removing, MovedTo
  <2>5. CASE DelHistory(q) \/ DelMeta(q) \/ SRem(q)
    <3>1. creq[q].kind = "delete"
      BY <2>5 DEF Removing, DelHistory, DelMeta, SRem, At
    <3>2. QED
      BY <2>1, <2>5, <3>1, MovesOn DEF Removing, MovedTo
  <2>6. CASE Fails(q)
    BY <2>6, MovesOn DEF Removing, MovedTo
  <2>7. QED
    BY <1>3, <2>2, <2>3, <2>4, <2>5, <2>6 DEF ChatStep
<1>4. QED
  BY <1>1, <1>2, <1>3, OneMoves

\* The requests that write keys of a conversation.
LEMMA Writers ==
    ASSUME ChatInv, NEW p \in Procs, Removing(creq[p]),
           creq[p].pc \in {"set", "expireMeta", "sadd", "lpush", "ltrim",
               "expireHistory", "delHistory", "delMeta", "srem"}
    PROVE  /\ creq[p] \in Request /\ Sess(p) \in Sessions /\ User(p) \in Users
           /\ Writing(p, Sess(p)) /\ ~Idle(p) /\ creq[p].kind # "detail"
<1>1. ~Idle(p)
  BY DEF Idle, At
<1>2. creq[p] \in Request /\ InOrder(creq[p])
  BY <1>1, Under
<1>3. creq[p].kind # "detail"
  BY <1>2 DEF InOrder, Removing
<1>4. QED
  BY <1>1, <1>2, <1>3 DEF Writing, Sess, User, Request

\* Messages and metadata are written by few steps; everything else leaves
\* them alone or takes them away.
LEMMA HistoryWrites ==
    ASSUME ChatInv, ChatNext, NEW s \in Sessions
    PROVE  \/ history'[s] \in {history[s], <<>>}
           \/ \E p \in Procs : Sess(p) = s /\ (LPush(p) \/ LTrim(p))
<1>1. CASE \E p \in Procs : ChatStep(p)
  <2>1. PICK p \in Procs : ChatStep(p)
    BY <1>1
  <2>2. CASE DelHistory(p)
    BY <2>2 DEF DelHistory, ChatInv, ChatTypeOK
  <2>3. QED
    BY <2>1, <2>2, StepWrites
<1>2. CASE \E p \in Procs : ChatArrive(p)
  BY <1>2, Arrives
<1>3. CASE ChatEnvironment
  BY <1>3 DEF ChatEnvironment, HistoryExpires, MetaExpires, ChallengeExpires,
              Fails, ChatInv, ChatTypeOK
<1>4. QED
  BY <1>1, <1>2, <1>3 DEF ChatNext

LEMMA MetaWrites ==
    ASSUME ChatInv, ChatNext, NEW s \in Sessions
    PROVE  \/ meta'[s] \in {meta[s], Nothing}
           \/ \E p \in Procs : Sess(p) = s /\ SetMeta(p)
<1>1. CASE \E p \in Procs : ChatStep(p)
  <2>1. PICK p \in Procs : ChatStep(p)
    BY <1>1
  <2>2. CASE DelMeta(p)
    BY <2>2 DEF DelMeta, ChatInv, ChatTypeOK
  <2>3. QED
    BY <2>1, <2>2, StepWrites
<1>2. CASE \E p \in Procs : ChatArrive(p)
  BY <1>2, Arrives
<1>3. CASE ChatEnvironment
  BY <1>3 DEF ChatEnvironment, HistoryExpires, MetaExpires, ChallengeExpires,
              Fails, ChatInv, ChatTypeOK
<1>4. QED
  BY <1>1, <1>2, <1>3 DEF ChatNext

\* What p writes, nobody else does.
LEMMA Alone ==
    ASSUME ChatInv, Serial, NEW p \in Procs, NEW q \in Procs, p # q,
           Removing(creq[p]), Removing(creq[q]), Sess(p) = Sess(q),
           creq[p].pc \in {"set", "expireMeta", "sadd", "lpush", "ltrim",
               "expireHistory", "delHistory", "delMeta", "srem"}
    PROVE  Idle(q) \/ creq[q].kind = "detail"
  BY Writers DEF Serial

-----------------------------------------------------------------------------
(* A deleted conversation stays gone *)

\* The commands of a removal do what the next one counts on, and nobody but
\* another removal is at work on a conversation that is gone.
Cleared(p) ==
    /\ creq[p].pc \in {"delMeta", "srem"} => history[Sess(p)] = <<>>
    /\ creq[p].pc = "srem" => meta[Sess(p)] = Nothing

StaysGone(s) ==
    /\ meta[s] = Nothing /\ history[s] = <<>>
    /\ \A q \in Procs : Writing(q, s) => At(q, "getDelete")

DeleteInv ==
    /\ \A p \in Procs : Removing(creq[p]) /\ Cleared(p)
    /\ \A s \in gone : StaysGone(s)

LEMMA Cleared_step ==
    ASSUME ChatInv, Serial, DeleteInv, ChatNext, NEW q \in Procs
    PROVE  Cleared(q)'
<1>1. SUFFICES ASSUME creq'[q].pc \in {"delMeta", "srem"}
               PROVE  /\ history'[creq'[q].sess] = <<>>
                      /\ creq'[q].pc = "srem" => meta'[creq'[q].sess] = Nothing
  BY DEF Cleared, Sess
<1>2. CASE creq'[q] = creq[q]
  <2>1. /\ Sess(q) \in Sessions /\ ~Idle(q) /\ creq[q].kind # "detail"
        /\ Cleared(q)
    BY <1>1, <1>2, Writers DEF DeleteInv
  <2>2. ASSUME NEW p \in Procs, Sess(p) = Sess(q),
               LPush(p) \/ LTrim(p) \/ SetMeta(p)
        PROVE  FALSE
    <3>1. creq[p].pc \in {"lpush", "ltrim", "set"}
      BY <2>2 DEF LPush, LTrim, SetMeta, At
    <3>2. QED
      BY <1>1, <1>2, <2>1, <2>2, <3>1, Alone DEF DeleteInv
  <2>3. QED
    BY <1>1, <1>2, <2>1, <2>2, HistoryWrites, MetaWrites DEF Cleared, Sess
<1>3. CASE ChatArrive(q)
  BY <1>1, <1>3, Arrives, ReplacedBy DEF NewRequest
<1>4. ASSUME ChatStep(q) \/ Fails(q)
      PROVE  /\ history'[creq'[q].sess] = <<>>
             /\ creq'[q].pc = "srem" => meta'[creq'[q].sess] = Nothing
  <2>1. \/ DelHistory(q) /\ creq'[q].pc = "delMeta" /\ Same(creq'[q], creq[q])
        \/ DelMeta(q) /\ creq'[q].pc = "srem" /\ Same(creq'[q], creq[q])
    <3>1. ~GetOwner(q) /\ ~SAdd(q) /\ ~Recent(q) /\ ~Challenge(q)
          /\ ~GetToken(q) /\ ~Act(q) /\ ~CheckOwner(q)
      BY <1>1, GetOwnerLeads, SAddLeads, RecentLeads, AnswerLeads, CheckOwnerLeads
    <3>2. QED
      BY <1>1, <1>4, <3>1, MovesOn DEF ChatStep, MovedTo
  <2>2. Sess(q) \in Sessions
    BY <2>1, Writers DEF DelHistory, DelMeta, At, DeleteInv
  <2>3. CASE DelHistory(q)
    BY <2>1, <2>2, <2>3 DEF DelHistory, Same, Sess, ChatInv, ChatTypeOK, DelMeta, At
  <2>4. CASE DelMeta(q)
    BY <2>1, <2>2, <2>4 DEF DelMeta, Same, Sess, At, Cleared, DeleteInv, ChatInv,
                           ChatTypeOK, DelHistory
  <2>5. QED
    BY <2>1, <2>3, <2>4
<1>5. QED
  BY <1>2, <1>3, <1>4, OneMoves

\* What a step adds to gone and takes from it.
LEMMA GoneWrites ==
    ASSUME ChatInv, ChatNext, NEW s \in gone'
    PROVE  /\ s \in Sessions
           /\ s \in gone \/ \E p \in Procs : SRem(p) /\ Sess(p) = s
<1>1. ChatInv'
  BY Chat_Inv
<1>2. CASE \E p \in Procs : ChatStep(p)
  <2>1. PICK p \in Procs : ChatStep(p)
    BY <1>2
  <2>2. CASE SRem(p)
    BY <1>1, <2>2 DEF SRem, ChatInv, ChatTypeOK
  <2>3. CASE ~SRem(p) /\ Sessions # {}
    BY <1>1, <2>1, <2>3, StepWrites DEF ChatInv, ChatTypeOK
  <2>4. QED
    BY <1>1, <2>2, <2>3 DEF ChatInv, ChatTypeOK
<1>3. CASE \E p \in Procs : ChatArrive(p)
  BY <1>1, <1>3, Arrives DEF ChatInv, ChatTypeOK
<1>4. CASE ChatEnvironment
  BY <1>1, <1>4 DEF ChatEnvironment, HistoryExpires, MetaExpires,
       ChallengeExpires, Fails, ghosts, ChatInv, ChatTypeOK
<1>5. QED
  BY <1>2, <1>3, <1>4 DEF ChatNext

LEMMA StaysGone_step ==
    ASSUME ChatInv, Serial, DeleteInv, ChatNext, NEW s \in gone'
    PROVE  StaysGone(s)'
<1>1. CASE s \in gone
  <2>1. s \in Sessions /\ StaysGone(s)
    BY <1>1 DEF DeleteInv, ChatInv, ChatTypeOK
  <2>2. ASSUME NEW p \in Procs, Sess(p) = s, LPush(p) \/ LTrim(p) \/ SetMeta(p)
        PROVE  FALSE
    <3>1. creq[p].pc \in {"lpush", "ltrim", "set"}
      BY <2>2 DEF LPush, LTrim, SetMeta, At
    <3>2. QED
      BY <2>1, <2>2, <3>1, Writers DEF DeleteInv, StaysGone, At
  <2>3. meta'[s] = Nothing /\ history'[s] = <<>>
    BY <2>1, <2>2, HistoryWrites, MetaWrites DEF StaysGone
  <2>4. ASSUME NEW q \in Procs, Writing(q, s)'
        PROVE  At(q, "getDelete")'
    <3>1. CASE creq'[q] = creq[q]
      BY <2>1, <2>4, <3>1 DEF StaysGone, Writing, Idle, At
    <3>2. CASE ChatArrive(q)
      <4>1. PICK kind \in {"talk", "ask", "confirm", "delete", "detail"},
                 u \in Users, t \in Sessions, ch \in Challenges \cup {Nothing},
                 pc \in {"getOwner", "getDelete", "getDetail"} :
              /\ creq' = [creq EXCEPT ![q] = NewRequest(kind, u, t, ch, pc)]
              /\ pc = "getOwner" => gone' = gone \ {t}
              /\ kind = "detail" <=> pc = "getDetail"
        BY <3>2, Arrives
      <4>2. creq'[q] = NewRequest(kind, u, t, ch, pc)
        BY <4>1, ReplacedBy
      <4>3. t = s /\ pc # "getDetail"
        BY <2>4, <4>1, <4>2 DEF Writing, NewRequest
      <4>4. QED
        BY <4>1, <4>2, <4>3 DEF At, NewRequest
    <3>3. CASE ~Idle(q) /\ Same(creq'[q], creq[q]) /\ (ChatStep(q) \/ Fails(q))
      <4>1. At(q, "getDelete") /\ Sess(q) = s
        BY <2>1, <2>4, <3>3 DEF StaysGone, Writing, Same, Sess
      <4>2. CheckOwner(q) \/ Fails(q)
        BY <3>3, <4>1 DEF ChatStep, GetOwner, SetMeta, ExpireMeta, SAdd, Recent,
             LPush, LTrim, ExpireHistory, Challenge, GetToken, DelToken, Act,
             DelHistory, DelMeta, SRem, At
      <4>3. creq'[q].pc = "done"
        BY <2>1, <4>1, <4>2, CheckOwnerLeads, MovesOn DEF MovedTo, StaysGone
      <4>4. QED
        BY <2>4, <4>3 DEF Writing, Idle, At
    <3>4. QED
      <4>1. \/ creq'[q] = creq[q] \/ ChatArrive(q)
            \/ ~Idle(q) /\ Same(creq'[q], creq[q])
        BY Continues
      <4>2. creq'[q] = creq[q] \/ ChatStep(q) \/ ChatArrive(q) \/ Fails(q)
        BY OneMoves
      <4>3. QED
        BY <3>1, <3>2, <3>3, <4>1, <4>2
  <2>5. QED
    BY <2>3, <2>4 DEF StaysGone
<1>2. ASSUME NEW p \in Procs, SRem(p), Sess(p) = s
      PROVE  StaysGone(s)'
  <2>1. At(p, "srem") /\ Removing(creq[p]) /\ Cleared(p)
    BY <1>2 DEF SRem, DeleteInv
  <2>2. meta'[s] = Nothing /\ history'[s] = <<>>
    BY <1>2, <2>1 DEF SRem, Cleared, At
  <2>3. ASSUME NEW q \in Procs, Writing(q, s)'
        PROVE  FALSE
    <3>1. CASE q = p
      BY <1>2, <2>3, <3>1, MovesOn DEF MovedTo, Writing, Idle, At
    <3>2. CASE q # p
      <4>1. creq'[q] = creq[q]
        BY <1>2, <3>2 DEF SRem, Respond, ChatInv, ChatTypeOK
      <4>2. Writing(q, s)
        BY <2>3, <4>1 DEF Writing, Idle, At
      <4>3. QED
        BY <1>2, <2>1, <3>2, <4>2, Alone DEF Writing, DeleteInv, At, Sess
    <3>3. QED
      BY <3>1, <3>2
  <2>4. QED
    BY <2>2, <2>3 DEF StaysGone
<1>3. QED
  BY <1>1, <1>2, GoneWrites

LEMMA DeleteInv_step ==
    ASSUME ChatInv, Serial, DeleteInv, ChatNext
    PROVE  DeleteInv'
<1>1. \A p \in Procs : Removing(creq[p])'
  <2>1. \A p \in Procs : Removing(creq[p]) => Removing(creq'[p])
    BY Removing_step
  <2>2. QED
    BY <2>1 DEF DeleteInv, Removing
<1>2. QED
  BY <1>1, Cleared_step, StaysGone_step DEF DeleteInv

\* When requests that write one conversation do not overlap, a conversation
\* whose DELETE was answered has no metadata and no messages until somebody
\* begins a new one under its id (delete_session, session_manager.py:136-144).
THEOREM DeletedIsGoneHolds ==
    ASSUME "overlap" \notin Hazards
    PROVE  ChatSpec => []DeletedIsGone
<1>1. ChatInit => Serial /\ DeleteInv
  BY DEF ChatInit, Serial, DeleteInv, Idle, At, NoReq, Removing, Cleared
<1>2. ChatInv /\ Serial /\ DeleteInv /\ [ChatNext]_cvars => Serial' /\ DeleteInv'
  <2>1. CASE UNCHANGED cvars
    BY <2>1 DEF cvars, Serial, DeleteInv, Idle, At, Sess, Removing, Cleared,
                StaysGone, Writing
  <2>2. QED
    BY <2>1, Serial_step, DeleteInv_step
<1>3. DeleteInv => DeletedIsGone
  BY DEF DeleteInv, DeletedIsGone, StaysGone
<1>4. QED
  BY ChatInit_Inv, Chat_Inv, <1>1, <1>2, <1>3, PTL DEF ChatSpec

-----------------------------------------------------------------------------
(* A conversation that exists is in its owner's list *)

Listing(p, s) ==
    /\ creq[p].pc \in {"expireMeta", "sadd"} /\ Sess(p) = s
    /\ creq[p].seen.owner = meta[s].owner

ListedInv ==
    \A s \in Sessions : meta[s] # Nothing =>
        s \in listed[meta[s].owner] \/ \E p \in Procs : Listing(p, s)

\* Only SREM takes from a list, and what it takes has no metadata.
LEMMA ListsGrow ==
    ASSUME ChatInv, DeleteInv, ChatNext, NEW s \in Sessions, meta[s] # Nothing,
           s \in listed[meta[s].owner]
    PROVE  s \in listed'[meta[s].owner]
<1> USE DEF ChatInv, ChatTypeOK
<1>1. meta[s].owner \in Users
  BY DEF SessionMetadata
<1>2. ASSUME NEW p \in Procs, SRem(p)
      PROVE  s \in listed'[meta[s].owner]
  <2>1. Sess(p) # s
    BY <1>2 DEF SRem, At, DeleteInv, Cleared
  <2>2. QED
    BY <1>1, <1>2, <2>1 DEF SRem
<1>3. ASSUME NEW p \in Procs, SAdd(p)
      PROVE  s \in listed'[meta[s].owner]
  BY <1>1, <1>3 DEF SAdd
<1>4. ASSUME NEW p \in Procs, ChatStep(p), ~SAdd(p), ~SRem(p)
      PROVE  listed' = listed
  BY <1>4, StepWrites
<1>5. ASSUME ChatEnvironment
      PROVE  listed' = listed
  BY <1>5 DEF ChatEnvironment, HistoryExpires, MetaExpires, ChallengeExpires, Fails
<1>6. QED
  BY <1>2, <1>3, <1>4, <1>5, Arrives DEF ChatNext

LEMMA ListedInv_step ==
    ASSUME ChatInv, DeleteInv, ListedInv, ChatNext, "fault" \notin Hazards
    PROVE  ListedInv'
<1> USE DEF ChatInv, ChatTypeOK
<1>1. SUFFICES ASSUME NEW s \in Sessions, meta'[s] # Nothing
               PROVE  \/ s \in listed'[meta'[s].owner]
                      \/ \E p \in Procs : Listing(p, s)'
  BY DEF ListedInv
<1>2. ASSUME NEW p \in Procs, Sess(p) = s, SetMeta(p)
      PROVE  Listing(p, s)'
  <2>1. MovedTo(creq'[p], creq[p], "expireMeta")
    BY <1>2, MovesOn
  <2>2. meta'[s] = creq[p].seen
    BY <1>2 DEF SetMeta
  <2>3. QED
    BY <1>2, <2>1, <2>2 DEF MovedTo, Same, Listing, Sess
<1>3. CASE meta'[s] = meta[s] /\ s \in listed[meta[s].owner]
  BY <1>1, <1>3, ListsGrow
<1>4. ASSUME NEW p \in Procs, meta'[s] = meta[s], Listing(p, s)
      PROVE  s \in listed'[meta'[s].owner] \/ Listing(p, s)'
  <2>1. CASE creq'[p] = creq[p]
    BY <1>4, <2>1 DEF Listing, Sess
  <2>2. CASE ExpireMeta(p)
    BY <1>4, <2>2, MovesOn DEF MovedTo, Same, Listing, Sess
  <2>3. CASE SAdd(p)
    <3>1. listed' = [listed EXCEPT ![creq[p].seen.owner] = @ \cup {Sess(p)}]
      BY <2>3 DEF SAdd
    <3>2. meta[s].owner \in Users
      BY <1>1, <1>4 DEF SessionMetadata
    <3>3. QED
      BY <1>4, <3>1, <3>2 DEF Listing
  <2>4. ~Idle(p) /\ ~Fails(p)
    BY <1>4 DEF Listing, Idle, At, Fails
  <2>5. ChatStep(p) => ExpireMeta(p) \/ SAdd(p)
    BY <1>4 DEF Listing, ChatStep, At, GetOwner, SetMeta, Recent, LPush, LTrim,
                ExpireHistory, Challenge, GetToken, DelToken, Act, CheckOwner,
                DelHistory, DelMeta, SRem
  <2>6. ~ChatArrive(p)
    BY <2>4 DEF ChatArrive, Talk, Ask, Confirm, Remove, Detail, Turn, Begin
  <2>7. QED
    BY <2>1, <2>2, <2>3, <2>4, <2>5, <2>6, OneMoves
<1>5. QED
  BY <1>1, <1>2, <1>3, <1>4, MetaWrites DEF ListedInv

\* When requests that write one conversation do not overlap and none breaks
\* off, a conversation with metadata is in its owner's list whenever nobody
\* is writing it (_save_session_metadata, session_manager.py:147-156).
THEOREM LiveIsListedHolds ==
    ASSUME "overlap" \notin Hazards, "fault" \notin Hazards
    PROVE  ChatSpec => []LiveIsListed
<1>1. ChatInit => Serial /\ DeleteInv /\ ListedInv
  BY DEF ChatInit, Serial, DeleteInv, Idle, At, NoReq, Removing, Cleared, ListedInv
<1>2. ChatInv /\ Serial /\ DeleteInv /\ ListedInv /\ [ChatNext]_cvars
        => Serial' /\ DeleteInv' /\ ListedInv'
  <2>1. CASE UNCHANGED cvars
    BY <2>1 DEF cvars, Serial, DeleteInv, Idle, At, Sess, Removing, Cleared,
                StaysGone, Writing, ListedInv, Listing
  <2>2. QED
    BY <2>1, Serial_step, DeleteInv_step, ListedInv_step
<1>3. ChatInv /\ DeleteInv /\ ListedInv => LiveIsListed
  <2>1. ASSUME ChatInv, DeleteInv, NEW s \in Sessions, NEW p \in Procs, Listing(p, s)
        PROVE  Writing(p, s)
    BY <2>1, Writers DEF Listing, DeleteInv
  <2>2. QED
    BY <2>1 DEF LiveIsListed, ListedInv, Quiet
<1>4. QED
  BY ChatInit_Inv, Chat_Inv, <1>1, <1>2, <1>3, PTL DEF ChatSpec

-----------------------------------------------------------------------------
(* The messages of a conversation are its owner's *)

\* Request c stores messages and has found, or made, a conversation that is
\* its user's.
Held(c) ==
    /\ c.kind \in {"talk", "ask", "confirm"}
    /\ c.pc \notin {"idle", "done"}
    /\ c.pc \in {"getOwner", "set"} => c.turn # "owner"

\* What request p counts on.
Keeping(p) ==
    /\ Held(creq[p]) => meta[Sess(p)] # Nothing /\ meta[Sess(p)].owner = User(p)
    /\ creq[p].pc \in {"set", "expireMeta", "sadd"} => creq[p].seen.owner = User(p)
    /\ creq[p].pc = "set" /\ creq[p].turn = "owner" => meta[Sess(p)] = Nothing
    /\ creq[p].pc # "idle" /\ creq[p].kind # "detail" => creq[p].page \subseteq {User(p)}

\* A request is about to give the metadata a TTL as late as the messages'.
Timing(p, s) ==
    /\ creq[p].pc \in {"ltrim", "expireHistory", "getOwner", "set", "expireMeta"}
    /\ creq[p].turn # "owner" /\ Sess(p) = s

Owned(s) ==
    /\ meta[s] = Nothing => history[s] = <<>>
    /\ meta[s] # Nothing => Authors(history[s]) \subseteq {meta[s].owner}
    /\ outlives[s] /\ history[s] # <<>> => \E p \in Procs : Timing(p, s)

OwnersInv ==
    /\ \A p \in Procs : Keeping(p)
    /\ \A s \in Sessions : Owned(s)

\* A request that is past its owner check is a writer.
LEMMA HeldWrites ==
    ASSUME ChatInv, NEW p \in Procs, Held(creq[p])
    PROVE  /\ creq[p] \in Request /\ InOrder(creq[p])
           /\ Sess(p) \in Sessions /\ User(p) \in Users
           /\ ~Idle(p) /\ creq[p].kind # "detail"
<1>1. ~Idle(p)
  BY DEF Held, Idle, At
<1>2. QED
  BY <1>1, Under DEF Held, Request, Sess, User

\* The commands that only a turn issues, past its owner check.
LEMMA HeldAt ==
    ASSUME ChatInv, NEW p \in Procs, Removing(creq[p]),
           creq[p].pc \notin {"idle", "done", "getDelete", "getDetail",
                              "delHistory", "delMeta", "srem"},
           creq[p].kind # "detail",
           creq[p].pc \in {"getOwner", "set"} => creq[p].turn # "owner"
    PROVE  Held(creq[p])
<1>1. creq[p] \in Request
  BY Under DEF Idle, At
<1>2. QED
  BY <1>1 DEF Held, Request, Removing

\* While a request uses a conversation, only a writer changes its metadata.
LEMMA MetaKept ==
    ASSUME ChatInv, ChatNext, "straddle" \notin Hazards,
           NEW s \in Sessions, Using(s)
    PROVE  \/ meta'[s] = meta[s]
           \/ \E p \in Procs : Sess(p) = s /\ (SetMeta(p) \/ DelMeta(p))
<1>1. CASE \E p \in Procs : ChatStep(p)
  BY <1>1, StepWrites
<1>2. CASE \E p \in Procs : ChatArrive(p)
  BY <1>2, Arrives
<1>3. CASE ChatEnvironment
  BY <1>3 DEF ChatEnvironment, HistoryExpires, MetaExpires, ChallengeExpires,
              Fails, ChatInv, ChatTypeOK
<1>4. QED
  BY <1>1, <1>2, <1>3 DEF ChatNext

\* A request that does not move keeps what it counts on.
LEMMA Keeping_rest ==
    ASSUME ChatInv, Serial, DeleteInv, OwnersInv, ChatNext,
           "straddle" \notin Hazards, NEW q \in Procs, creq'[q] = creq[q]
    PROVE  Keeping(q)'
<1>1. ASSUME Held(creq[q]) \/ creq[q].pc = "set"
      PROVE  meta'[Sess(q)] = meta[Sess(q)]
  <2>1. Sess(q) \in Sessions /\ ~Idle(q) /\ creq[q].kind # "detail"
    BY <1>1, HeldWrites, Writers DEF DeleteInv
  <2>2. Using(Sess(q))
    BY <2>1 DEF Using, Sess
  <2>3. ASSUME NEW p \in Procs, Sess(p) = Sess(q), SetMeta(p) \/ DelMeta(p)
        PROVE  FALSE
    <3>1. creq[p].pc \in {"set", "delMeta"} /\ creq'[p].pc # creq[p].pc
      BY <2>3, MovesOn DEF SetMeta, DelMeta, At, MovedTo
    <3>2. p # q
      BY <3>1
    <3>3. QED
      BY <2>1, <2>3, <3>1, <3>2, Alone DEF DeleteInv
  <2>4. QED
    BY <2>1, <2>2, <2>3, MetaKept
<1>2. QED
  BY <1>1 DEF OwnersInv, Keeping, Sess, User

LEMMA Keeping_step ==
    ASSUME ChatInv, Serial, DeleteInv, OwnersInv, ChatNext,
           "straddle" \notin Hazards, "fault" \notin Hazards, NEW q \in Procs
    PROVE  Keeping(q)'
<1> DEFINE c == creq[q]
           d == creq'[q]
           s == creq[q].sess
<1>1. CASE ChatArrive(q)
  <2>1. PICK kind \in {"talk", "ask", "confirm", "delete", "detail"},
             u \in Users, t \in Sessions, ch \in Challenges \cup {Nothing},
             pc \in {"getOwner", "getDelete", "getDetail"} :
          /\ creq' = [creq EXCEPT ![q] = NewRequest(kind, u, t, ch, pc)]
          /\ kind = "delete" <=> pc = "getDelete"
          /\ kind = "detail" <=> pc = "getDetail"
    BY <1>1, Arrives
  <2>2. d = NewRequest(kind, u, t, ch, pc)
    BY <2>1, ReplacedBy
  <2>3. QED
    BY <2>1, <2>2 DEF Keeping, Held, NewRequest
<1>2. ASSUME ChatStep(q)
      PROVE  Keeping(q)'
  <2>1. c \in Request /\ InOrder(c) /\ ~Idle(q) /\ Removing(c) /\ Keeping(q)
        /\ s \in Sessions /\ Sess(q) = s /\ User(q) = c.user
    <3>1. ~Idle(q)
      BY <1>2 DEF ChatStep, GetOwner, SetMeta, ExpireMeta, SAdd, Recent, LPush,
                  LTrim, ExpireHistory, Challenge, GetToken, DelToken, Act,
                  CheckOwner, DelHistory, DelMeta, SRem, At, Idle
    <3>2. c \in Request /\ InOrder(c)
      BY <3>1, Under
    <3>3. QED
      BY <3>1, <3>2 DEF DeleteInv, OwnersInv, Sess, User, Request
  <2>2. ~SetMeta(q) /\ ~DelMeta(q) => meta'[s] = meta[s]
    BY <1>2, <2>1, StepWrites
  <2>3. SUFFICES
          /\ Same(d, c)
          /\ Held(d) => meta'[s] # Nothing /\ meta'[s].owner = c.user
          /\ d.pc \in {"set", "expireMeta", "sadd"} => d.seen.owner = c.user
          /\ d.pc = "set" /\ d.turn = "owner" => meta'[s] = Nothing
          /\ c.kind # "detail" => d.page \subseteq {c.user}
    BY DEF Keeping, Same, Sess, User
  <2>4. CASE GetOwner(q)
    <3>1. c.pc = "getOwner" /\ c.kind \in {"talk", "ask", "confirm"}
      BY <2>1, <2>4 DEF GetOwner, At, InOrder, Request
    <3>2. c.turn # "owner" => Held(c)
      BY <3>1 DEF Held
    <3>3. ~SetMeta(q) /\ ~DelMeta(q)
      BY <3>1 DEF SetMeta, DelMeta, At
    <3>4. meta[s] # Nothing => Counted(meta[s]).owner = meta[s].owner
      BY <2>1 DEF Counted, ChatInv, ChatTypeOK, SessionMetadata
    <3>5. c.page \subseteq {c.user}
      BY <2>1, <3>1 DEF Keeping
    <3>6. c.turn # "owner" => meta[s] # Nothing /\ meta[s].owner = c.user
      BY <2>1, <3>2 DEF Keeping
    <3>7. /\ Same(d, c) /\ d.turn = c.turn /\ d.page = c.page
          /\ \/ /\ meta[s] = Nothing /\ d.pc = "set" /\ d.seen.owner = c.user
             \/ d.pc = "done"
             \/ /\ meta[s] # Nothing /\ meta[s].owner = c.user
                /\ d.pc = "recent"
             \/ /\ meta[s] # Nothing /\ meta[s].owner = c.user /\ c.turn # "owner"
                /\ d.pc = "set" /\ d.seen = Counted(meta[s])
      <4>1. /\ Same(d, c) /\ d.turn = c.turn /\ d.page = c.page
            /\ \/ /\ meta[s] = Nothing /\ d.pc = "set"
                  /\ d.seen = [owner |-> c.user, count |-> 0]
               \/ d.pc = "done"
               \/ /\ meta[s] # Nothing /\ meta[s].owner = c.user
                  /\ d.pc \in {"done", "recent"}
               \/ /\ meta[s] # Nothing /\ meta[s].owner = c.user /\ c.turn # "owner"
                  /\ d.pc = "set" /\ d.seen = Counted(meta[s])
        BY <2>4, GetOwnerLeads DEF Sess
      <4>2. QED
        BY <4>1
    <3>8. meta'[s] = meta[s]
      BY <2>2, <3>3
    <3>9. CASE meta[s] = Nothing /\ d.pc = "set" /\ d.seen.owner = c.user
      BY <3>5, <3>6, <3>7, <3>8, <3>9 DEF Held
    <3>10. CASE d.pc = "done"
      BY <3>5, <3>7, <3>10 DEF Held
    <3>11. CASE meta[s] # Nothing /\ meta[s].owner = c.user /\ d.pc = "recent"
      BY <3>5, <3>7, <3>8, <3>11
    <3>12. CASE /\ meta[s] # Nothing /\ meta[s].owner = c.user /\ c.turn # "owner"
                /\ d.pc = "set" /\ d.seen = Counted(meta[s])
      BY <3>4, <3>5, <3>7, <3>8, <3>12
    <3>13. QED
      BY <3>7, <3>9, <3>10, <3>11, <3>12
  <2>5. CASE SetMeta(q)
    <3>1. MovedTo(d, c, "expireMeta") /\ c.pc = "set" /\ meta'[s] = c.seen
          /\ c.seen # Nothing /\ c.seen.owner = c.user
      BY <2>1, <2>5, MovesOn DEF SetMeta, At, InOrder, Keeping, ChatInv, ChatTypeOK
    <3>2. QED
      BY <2>1, <3>1 DEF MovedTo, Same, Keeping, Held
  <2>6. CASE c.kind \in {"delete", "detail"}
    <3>1. CheckOwner(q) \/ DelHistory(q) \/ DelMeta(q) \/ SRem(q) \/ Recent(q)
      BY <1>2, <2>1, <2>6 DEF ChatStep, InOrder, GetOwner, SetMeta, ExpireMeta,
           SAdd, LPush, LTrim, ExpireHistory, Challenge, GetToken, DelToken, Act, At
    <3>2. c.kind = "delete" => ~Recent(q) /\ c.page \subseteq {c.user}
      BY <2>1 DEF Removing, Recent, At, Keeping, Idle
    <3>3. Same(d, c) /\ (c.kind = "delete" => d.page = c.page)
          /\ d.pc \notin {"set", "expireMeta", "sadd"}
      BY <3>1, <3>2, CheckOwnerLeads, MovesOn, RecentLeads DEF MovedTo
    <3>4. QED
      BY <2>6, <3>2, <3>3 DEF Same, Held
  <2>7. CASE c.kind \notin {"delete", "detail"} /\ ~GetOwner(q) /\ ~SetMeta(q)
    <3>1. Held(c) /\ c.pc \notin {"getOwner", "set"}
      <4>1. c.pc \notin {"getOwner", "set"}
        BY <1>2, <2>7 DEF ChatStep, At, ExpireMeta, SAdd, Recent, LPush, LTrim,
             ExpireHistory, Challenge, GetToken, DelToken, Act, CheckOwner,
             DelHistory, DelMeta, SRem
      <4>2. QED
        BY <2>1, <2>7, <4>1 DEF Held, Request, Idle, At
    <3>2. ~DelHistory(q) /\ ~DelMeta(q) /\ ~SRem(q) /\ ~CheckOwner(q)
      BY <2>1, <2>7 DEF Removing, InOrder, DelHistory, DelMeta, SRem, CheckOwner, At, Idle
    <3>3. meta'[s] = meta[s] /\ meta[s] # Nothing /\ meta[s].owner = c.user
          /\ c.page \subseteq {c.user}
      BY <2>1, <2>2, <2>7, <3>1, <3>2 DEF Keeping, Idle, At
    <3>4. Authors(history[s]) \subseteq {c.user}
      BY <2>1, <3>3 DEF OwnersInv, Owned
    <3>5. CASE SAdd(q)
      <4>1. c.seen \in SessionMetadata /\ c.seen.owner = c.user
        BY <2>1, <3>5 DEF SAdd, At, InOrder, Request, Keeping
      <4>2. Counted(c.seen).owner = c.user
        BY <4>1 DEF Counted, SessionMetadata
      <4>3. QED
        BY <3>3, <3>5, <4>2, SAddLeads
    <3>6. CASE Recent(q)
      BY <2>1, <3>3, <3>4, <3>6, RecentLeads
    <3>7. CASE Challenge(q) \/ GetToken(q) \/ Act(q)
      BY <3>3, <3>7, AnswerLeads
    <3>8. CASE ExpireMeta(q)
      BY <2>1, <3>3, <3>8, MovesOn DEF MovedTo, Keeping, ExpireMeta, At
    <3>9. CASE LPush(q) \/ LTrim(q) \/ ExpireHistory(q) \/ DelToken(q)
      <4>1. Same(d, c) /\ d.page = c.page /\ d.pc \notin {"set", "expireMeta", "sadd"}
        BY <3>9, MovesOn DEF MovedTo
      <4>2. QED
        BY <3>3, <4>1
    <3>10. QED
      BY <1>2, <2>7, <3>2, <3>5, <3>6, <3>7, <3>8, <3>9 DEF ChatStep
  <2>8. QED
    BY <2>4, <2>5, <2>6, <2>7
<1>3. QED
  BY <1>1, <1>2, Keeping_rest, OneMoves DEF Fails

LEMMA AuthorsOfMore ==
    ASSUME NEW h \in Seq(Message), NEW m \in Message
    PROVE  Authors(<<m>> \o h) \subseteq {m.by} \cup Authors(h)
<1> DEFINE more == <<m>> \o h
<1>1. Len(more) = Len(h) + 1 /\ Len(h) \in Nat
  OBVIOUS
<1>2. ASSUME NEW i \in 1..Len(more)
      PROVE  more[i].by \in {m.by} \cup Authors(h)
  <2>1. CASE i = 1
    BY <2>1
  <2>2. CASE i # 1
    <3>1. i - 1 \in 1..Len(h) /\ more[i] = h[i - 1]
      BY <1>1, <2>2
    <3>2. QED
      BY <3>1 DEF Authors
  <2>3. QED
    BY <2>1, <2>2
<1> HIDE DEF more
<1>3. Authors(more) \subseteq {m.by} \cup Authors(h)
  BY <1>2 DEF Authors
<1>4. QED
  BY <1>3 DEF more

LEMMA AuthorsOfPart ==
    ASSUME NEW h \in Seq(Message), NEW n \in Nat, n <= Len(h)
    PROVE  Authors(SubSeq(h, 1, n)) \subseteq Authors(h)
<1>1. /\ Len(SubSeq(h, 1, n)) = n /\ Len(h) \in Nat
      /\ \A i \in 1..n : SubSeq(h, 1, n)[i] = h[i]
  OBVIOUS
<1>2. QED
  BY <1>1 DEF Authors

\* Every message that is pushed, and every conversation that is trimmed, is
\* its owner's.
LEMMA PushedByOwner ==
    ASSUME ChatInv, DeleteInv, OwnersInv, NEW p \in Procs,
           creq[p].pc \in {"lpush", "ltrim", "expireHistory", "expireMeta"}
    PROVE  /\ Held(creq[p]) /\ Sess(p) \in Sessions
           /\ meta[Sess(p)] # Nothing /\ meta[Sess(p)].owner = User(p)
<1>1. creq[p].kind # "detail"
  BY Writers DEF DeleteInv
<1>2. Held(creq[p])
  BY <1>1, HeldAt DEF DeleteInv
<1>3. QED
  BY <1>2, HeldWrites DEF OwnersInv, Keeping

LEMMA OwnersMessages ==
    ASSUME ChatInv, DeleteInv, OwnersInv, ChatNext, NEW s \in Sessions,
           meta'[s] # Nothing
    PROVE  Authors(history'[s]) \subseteq {meta'[s].owner}
<1> USE DEF ChatInv, ChatTypeOK
<1>1. ASSUME NEW p \in Procs, SetMeta(p), Sess(p) = s
      PROVE  Authors(history'[s]) \subseteq {meta'[s].owner}
  <2>1. /\ creq[p].pc = "set" /\ meta'[s] = creq[p].seen /\ history' = history
        /\ creq[p].seen.owner = User(p) /\ creq[p].kind # "detail"
    BY <1>1, Writers DEF SetMeta, At, DeleteInv, OwnersInv, Keeping
  <2>2. CASE creq[p].turn = "owner"
    <3>1. history[s] = <<>>
      BY <1>1, <2>1, <2>2 DEF OwnersInv, Keeping, Owned
    <3>2. Authors(history[s]) = {}
      BY <3>1 DEF Authors
    <3>3. QED
      BY <2>1, <3>2
  <2>3. CASE creq[p].turn # "owner"
    <3>1. Held(creq[p])
      BY <2>1, <2>3, HeldAt DEF DeleteInv
    <3>2. meta[s] # Nothing /\ meta[s].owner = User(p)
      BY <1>1, <3>1 DEF OwnersInv, Keeping
    <3>3. QED
      BY <2>1, <3>2 DEF OwnersInv, Owned
  <2>4. QED
    BY <2>2, <2>3
<1>2. ASSUME NEW p \in Procs, LPush(p) \/ LTrim(p), Sess(p) = s
      PROVE  Authors(history'[s]) \subseteq {meta'[s].owner}
  <2>1. /\ meta[s] # Nothing /\ meta[s].owner = User(p) /\ meta' = meta
        /\ creq[p] \in Request /\ InOrder(creq[p])
    BY <1>2, PushedByOwner, HeldWrites DEF LPush, LTrim, At
  <2>2. history[s] \in Seq(Message) /\ Authors(history[s]) \subseteq {User(p)}
    BY <2>1 DEF OwnersInv, Owned
  <2>3. CASE LPush(p)
    <3> DEFINE m == [by |-> User(p), role |-> creq[p].turn]
    <3>1. m \in Message /\ m.by = User(p)
      BY <2>1, <2>3 DEF LPush, At, InOrder, Request, Message, User
    <3>2. history'[s] = <<m>> \o history[s]
      BY <1>2, <2>3 DEF LPush
    <3> HIDE DEF m
    <3>3. Authors(<<m>> \o history[s]) \subseteq {m.by} \cup Authors(history[s])
      BY <2>2, <3>1, AuthorsOfMore
    <3>4. QED
      BY <2>1, <2>2, <3>1, <3>2, <3>3
  <2>4. CASE LTrim(p)
    <3>1. Len(history[s]) \in Nat /\ MaxMessages \in Nat
      BY <2>2, ChatAssumption
    <3>2. \/ history'[s] = history[s]
          \/ /\ MaxMessages <= Len(history[s])
             /\ history'[s] = SubSeq(history[s], 1, MaxMessages)
      BY <1>2, <2>4, <3>1 DEF LTrim
    <3>3. Authors(history'[s]) \subseteq Authors(history[s])
      BY <2>2, <3>1, <3>2, AuthorsOfPart
    <3>4. QED
      BY <2>1, <2>2, <3>3
  <2>5. QED
    BY <1>2, <2>3, <2>4
<1>3. CASE /\ \A p \in Procs : ~(Sess(p) = s /\ (LPush(p) \/ LTrim(p) \/ SetMeta(p)))
  <2>1. meta'[s] = meta[s] /\ history'[s] \in {history[s], <<>>}
    BY <1>3, HistoryWrites, MetaWrites
  <2>2. Authors(<<>>) = {}
    BY DEF Authors
  <2>3. QED
    BY <2>1, <2>2 DEF OwnersInv, Owned
<1>4. QED
  BY <1>1, <1>2, <1>3

LEMMA NobodysMessages ==
    ASSUME ChatInv, DeleteInv, OwnersInv, ChatNext, "straddle" \notin Hazards,
           NEW s \in Sessions, meta'[s] = Nothing
    PROVE  history'[s] = <<>>
<1>1. CASE meta[s] = Nothing
  <2>1. history[s] = <<>>
    BY <1>1 DEF OwnersInv, Owned
  <2>2. ASSUME NEW p \in Procs, Sess(p) = s, LPush(p) \/ LTrim(p)
        PROVE  FALSE
    BY <1>1, <2>2, PushedByOwner DEF LPush, LTrim, At
  <2>3. QED
    BY <2>1, <2>2, HistoryWrites
<1>2. CASE meta[s] # Nothing
  <2>1. CASE \E p \in Procs : ChatStep(p)
    <3>1. PICK p \in Procs : ChatStep(p)
      BY <2>1
    <3>2. SetMeta(p) => meta'[s] # Nothing
      <4>1. SetMeta(p) => creq[p].seen # Nothing
        BY Writers DEF SetMeta, At, DeleteInv, ChatInv, InOrder
      <4>2. QED
        BY <1>2, <4>1 DEF SetMeta, ChatInv, ChatTypeOK
    <3>3. DelMeta(p) /\ Sess(p) = s
      BY <1>2, <3>1, <3>2, StepWrites
    <3>4. history[s] = <<>> /\ history' = history
      BY <3>3 DEF DelMeta, At, DeleteInv, Cleared
    <3>5. QED
      BY <3>4
  <2>2. CASE ChatEnvironment
    <3>1. MetaExpires(s)
      BY <1>2, <2>2 DEF ChatEnvironment, HistoryExpires, MetaExpires,
         ChallengeExpires, Fails, ChatInv, ChatTypeOK
    <3>2. ~Using(s) /\ history' = history /\ (history[s] = <<>> \/ outlives[s])
      BY <3>1 DEF MetaExpires
    <3>3. \A p \in Procs : ~Timing(p, s)
      BY <3>2 DEF Using, Timing, Idle, At, Sess
    <3>4. QED
      BY <3>2, <3>3 DEF OwnersInv, Owned
  <2>3. QED
    BY <1>2, <2>1, <2>2, Arrives DEF ChatNext
<1>3. QED
  BY <1>1, <1>2

LEMMA TimingGoesOn ==
    ASSUME ChatInv, DeleteInv, OwnersInv, ChatNext, "fault" \notin Hazards,
           NEW s \in Sessions, NEW p \in Procs, Timing(p, s), outlives'[s]
    PROVE  Timing(p, s)'
<1>1. /\ creq[p].pc \in {"ltrim", "expireHistory", "getOwner", "set", "expireMeta"}
      /\ creq[p].turn # "owner" /\ Sess(p) = s
      /\ ~Fails(p) /\ ~Idle(p)
  BY DEF Timing, Fails, Idle, At
<1>2. ChatStep(p) => \/ GetOwner(p) \/ SetMeta(p) \/ ExpireMeta(p)
                     \/ LTrim(p) \/ ExpireHistory(p)
  BY <1>1 DEF ChatStep, At, SAdd, Recent, LPush, Challenge, GetToken, DelToken,
              Act, CheckOwner, DelHistory, DelMeta, SRem
<1>3. ~ExpireMeta(p)
  BY <1>1 DEF ExpireMeta, ChatInv, ChatTypeOK
<1>4. CASE GetOwner(p)
  <2>1. creq[p] \in Request /\ InOrder(creq[p])
    BY <1>1, Under
  <2>2. Held(creq[p])
    BY <1>1, <1>4, <2>1 DEF GetOwner, At, InOrder, Held, Request
  <2>3. meta[s] # Nothing /\ meta[s].owner = User(p)
    BY <1>1, <2>2 DEF OwnersInv, Keeping
  <2>4. creq'[p].pc = "set" /\ creq'[p].turn = creq[p].turn /\ Same(creq'[p], creq[p])
    BY <1>1, <1>4, <2>3, GetOwnerLeads DEF User
  <2>5. QED
    BY <1>1, <2>4 DEF Timing, Same, Sess
<1>5. CASE SetMeta(p) \/ LTrim(p) \/ ExpireHistory(p)
  <2>1. /\ creq'[p].pc \in {"expireMeta", "expireHistory", "getOwner"}
        /\ creq'[p].turn = creq[p].turn /\ Same(creq'[p], creq[p])
    BY <1>5, MovesOn DEF MovedTo
  <2>2. QED
    BY <1>1, <2>1 DEF Timing, Same, Sess
<1>6. CASE creq'[p] = creq[p]
  BY <1>6 DEF Timing, Sess
<1>7. ~ChatArrive(p)
  BY <1>1 DEF ChatArrive, Talk, Ask, Confirm, Remove, Detail, Turn, Begin
<1>8. QED
  BY <1>1, <1>2, <1>3, <1>4, <1>5, <1>6, <1>7, OneMoves

LEMMA OutlivesForNow ==
    ASSUME ChatInv, DeleteInv, OwnersInv, ChatNext, "fault" \notin Hazards,
           NEW s \in Sessions, outlives'[s], history'[s] # <<>>
    PROVE  \E p \in Procs : Timing(p, s)'
<1>1. ASSUME NEW p \in Procs, LPush(p) \/ ExpireHistory(p), Sess(p) = s
      PROVE  Timing(p, s)'
  <2>1. creq[p].turn # "owner"
    BY <1>1, Writers DEF LPush, ExpireHistory, At, DeleteInv, ChatInv, InOrder
  <2>2. /\ creq'[p].pc \in {"ltrim", "getOwner"}
        /\ creq'[p].turn = creq[p].turn /\ Same(creq'[p], creq[p])
    BY <1>1, MovesOn DEF MovedTo
  <2>3. QED
    BY <1>1, <2>1, <2>2 DEF Timing, Same, Sess
<1>2. CASE \A p \in Procs : ~(Sess(p) = s /\ (LPush(p) \/ ExpireHistory(p)))
  <2>1. outlives[s]
    <3>1. ASSUME NEW p \in Procs, ChatStep(p)
          PROVE  outlives[s]
      <4>1. ExpireMeta(p) /\ Sess(p) = s => ~outlives'[s]
        BY DEF ExpireMeta, ChatInv, ChatTypeOK
      <4>2. QED
        BY <1>2, <3>1, <4>1, StepWrites
    <3>2. ChatEnvironment => outlives' = outlives
      BY DEF ChatEnvironment, HistoryExpires, MetaExpires, ChallengeExpires, Fails
    <3>3. QED
      BY <3>1, <3>2, Arrives DEF ChatNext
  <2>2. history[s] # <<>>
    <3>1. ASSUME NEW p \in Procs, LTrim(p), Sess(p) = s, history[s] = <<>>
          PROVE  history'[s] = <<>>
      <4>1. Len(history[s]) <= MaxMessages
        BY <3>1, ChatAssumption
      <4>2. QED
        BY <3>1, <4>1 DEF LTrim, ChatInv, ChatTypeOK
    <3>2. QED
      BY <1>2, <3>1, HistoryWrites
  <2>3. QED
    BY <2>1, <2>2, TimingGoesOn DEF OwnersInv, Owned
<1>3. QED
  BY <1>1, <1>2

LEMMA OwnersInv_step ==
    ASSUME ChatInv, Serial, DeleteInv, OwnersInv, ChatNext,
           "straddle" \notin Hazards, "fault" \notin Hazards
    PROVE  OwnersInv'
<1>1. \A p \in Procs : Keeping(p)'
  BY Keeping_step
<1>2. \A s \in Sessions : Owned(s)'
  BY OwnersMessages, NobodysMessages, OutlivesForNow DEF Owned
<1>3. QED
  BY <1>1, <1>2 DEF OwnersInv

\* What the requests of a run without overlaps, straddling TTLs and faults
\* keep true of every conversation.
LEMMA SerialRuns ==
    ASSUME Hazards = {}
    PROVE  ChatSpec => [](ChatInv /\ Serial /\ DeleteInv /\ OwnersInv)
<1>1. ChatInit => Serial /\ DeleteInv /\ OwnersInv
  BY DEF ChatInit, Serial, DeleteInv, Idle, At, NoReq, Removing, Cleared,
         OwnersInv, Keeping, Held, Owned, Authors
<1>2. ChatInv /\ Serial /\ DeleteInv /\ OwnersInv /\ [ChatNext]_cvars
        => Serial' /\ DeleteInv' /\ OwnersInv'
  <2>1. CASE UNCHANGED cvars
    <3>1. ASSUME NEW p \in Procs
          PROVE  (Keeping(p)' <=> Keeping(p)) /\ (Removing(creq[p])' <=> Removing(creq[p]))
                 /\ (Cleared(p)' <=> Cleared(p))
                 /\ \A s \in Sessions : (Timing(p, s)' <=> Timing(p, s))
                                     /\ (Writing(p, s)' <=> Writing(p, s))
      BY <2>1 DEF cvars, Keeping, Removing, Cleared, Timing, Writing, Sess, User,
                  Idle, At
    <3>2. ASSUME NEW s \in Sessions
          PROVE  Owned(s)' <=> Owned(s)
      BY <2>1, <3>1 DEF cvars, Owned
    <3>3. QED
      BY <2>1, <3>1, <3>2 DEF cvars, Serial, DeleteInv, OwnersInv, StaysGone,
         Idle, At, Sess, Writing
  <2>2. QED
    BY <2>1, Serial_step, DeleteInv_step, OwnersInv_step
<1>3. QED
  BY ChatInit_Inv, Chat_Inv, <1>1, <1>2, PTL DEF ChatSpec

\* When requests that write one conversation do not overlap, no TTL ends under
\* a request and none breaks off, the messages of a conversation are its
\* owner's (ensure_session_owner before append_message, session_manager.py:51-101).
THEOREM MessagesAreOwnersHolds ==
    ASSUME Hazards = {}
    PROVE  ChatSpec => []MessagesAreOwners
<1>1. OwnersInv => MessagesAreOwners
  BY DEF OwnersInv, Owned, MessagesAreOwners
<1>2. QED
  BY <1>1, SerialRuns, PTL

\* Under the same conditions no response and no prompt is built from somebody
\* else's messages (get_history in ChatService.chat, session_manager.py:104-113).
THEOREM PageIsOwnHolds ==
    ASSUME Hazards = {}
    PROVE  ChatSpec => []PageIsOwn
<1>1. OwnersInv => PageIsOwn
  BY DEF OwnersInv, Keeping, PageIsOwn, User
<1>2. QED
  BY <1>1, SerialRuns, PTL

-----------------------------------------------------------------------------
(* The count covers the messages *)

\* A stored message of p is not in the count yet.
Uncounted(p, s) ==
    /\ creq[p].pc \in {"ltrim", "expireHistory", "getOwner", "set"}
    /\ creq[p].turn # "owner" /\ Sess(p) = s

\* What p is about to save counts the message it has stored.
Counting(p) ==
    creq[p].pc = "set" /\ creq[p].turn # "owner" => creq[p].seen = Counted(meta[Sess(p)])

CountInv ==
    /\ \A p \in Procs : Counting(p)
    /\ \A p \in Procs : creq[p].pc \in {"set", "expireMeta", "sadd"} /\ creq[p].fresh
                           => creq[p].turn = "owner"
    /\ \A s \in Sessions : meta[s] # Nothing =>
         \/ Len(history[s]) <= meta[s].count
         \/ /\ Len(history[s]) <= meta[s].count + 1
            /\ \E p \in Procs : Uncounted(p, s)

\* A request that saves metadata has found them by then.
LEMMA FreshIsFirst ==
    ASSUME ChatInv, DeleteInv, OwnersInv, CountInv, ChatNext, NEW q \in Procs,
           creq'[q].pc \in {"set", "expireMeta", "sadd"}, creq'[q].fresh
    PROVE  creq'[q].turn = "owner"
<1>1. CASE creq'[q] = creq[q]
  BY <1>1 DEF CountInv
<1>2. CASE ChatArrive(q)
  BY <1>2, Arrives, ReplacedBy DEF NewRequest
<1>3. ASSUME ChatStep(q) \/ Fails(q)
      PROVE  creq'[q].turn = "owner"
  <2>1. CASE GetOwner(q)
    <3>1. creq[q] \in Request /\ InOrder(creq[q]) /\ creq[q].pc = "getOwner"
      BY <2>1, Under DEF GetOwner, Idle, At
    <3>2. creq[q].turn # "owner" => Held(creq[q])
      BY <3>1 DEF Held, InOrder, Request
    <3>3. creq[q].turn # "owner" => meta[Sess(q)] # Nothing
      BY <3>2 DEF OwnersInv, Keeping
    <3>4. QED
      BY <1>3, <2>1, <3>3, GetOwnerLeads
  <2>2. CASE SAdd(q)
    BY <2>2, SAddLeads
  <2>3. ~Recent(q) /\ ~Challenge(q) /\ ~GetToken(q) /\ ~Act(q) /\ ~CheckOwner(q)
    BY RecentLeads, AnswerLeads, CheckOwnerLeads
  <2>4. CASE SetMeta(q) \/ ExpireMeta(q)
    BY <2>4, MovesOn DEF MovedTo, SetMeta, ExpireMeta, At, CountInv
  <2>5. QED
    BY <1>3, <2>1, <2>2, <2>3, <2>4, MovesOn DEF ChatStep, MovedTo
<1>4. QED
  BY <1>1, <1>2, <1>3, OneMoves

LEMMA Counting_step ==
    ASSUME ChatInv, Serial, DeleteInv, OwnersInv, CountInv, ChatNext,
           "straddle" \notin Hazards, NEW q \in Procs
    PROVE  Counting(q)'
<1>1. SUFFICES ASSUME creq'[q].pc = "set", creq'[q].turn # "owner"
               PROVE  creq'[q].seen = Counted(meta'[creq'[q].sess])
  BY DEF Counting, Sess
<1>2. CASE creq'[q] = creq[q]
  <2>1. Sess(q) \in Sessions /\ ~Idle(q) /\ creq[q].kind # "detail"
    BY <1>1, <1>2, Writers DEF DeleteInv
  <2>2. Using(Sess(q))
    BY <2>1 DEF Using, Sess
  <2>3. ASSUME NEW p \in Procs, Sess(p) = Sess(q), SetMeta(p) \/ DelMeta(p)
        PROVE  FALSE
    <3>1. creq[p].pc \in {"set", "delMeta"} /\ creq'[p].pc # creq[p].pc
      BY <2>3, MovesOn DEF SetMeta, DelMeta, At, MovedTo
    <3>2. p # q
      BY <1>2, <3>1
    <3>3. QED
      BY <2>1, <2>3, <3>1, <3>2, Alone DEF DeleteInv
  <2>4. meta'[Sess(q)] = meta[Sess(q)]
    BY <2>1, <2>2, <2>3, MetaKept
  <2>5. QED
    BY <1>1, <1>2, <2>4 DEF CountInv, Counting, Sess
<1>3. CASE ChatArrive(q)
  BY <1>1, <1>3, Arrives, ReplacedBy DEF NewRequest
<1>4. ASSUME ChatStep(q) \/ Fails(q)
      PROVE  creq'[q].seen = Counted(meta'[creq'[q].sess])
  <2>1. ~Recent(q) /\ ~Challenge(q) /\ ~GetToken(q) /\ ~Act(q) /\ ~CheckOwner(q)
    BY <1>1, RecentLeads, AnswerLeads, CheckOwnerLeads
  <2>2. ~SAdd(q)
    <3>1. SAdd(q) => creq[q].fresh /\ creq[q].turn # "owner" /\ creq[q].pc = "sadd"
      BY <1>1, SAddLeads DEF SAdd, At
    <3>2. QED
      BY <3>1 DEF CountInv
  <2>3. GetOwner(q)
    BY <1>1, <1>4, <2>1, <2>2, MovesOn DEF ChatStep, MovedTo
  <2>4. creq[q] \in Request /\ InOrder(creq[q]) /\ creq[q].pc = "getOwner"
    BY <2>3, Under DEF GetOwner, Idle, At
  <2>5. creq[q].turn # "owner"
    BY <1>1, <2>3, GetOwnerLeads
  <2>6. Held(creq[q])
    BY <2>4, <2>5 DEF Held, InOrder, Request
  <2>7. meta[Sess(q)] # Nothing
    BY <2>6 DEF OwnersInv, Keeping
  <2>8. creq'[q].seen = Counted(meta[Sess(q)]) /\ Same(creq'[q], creq[q])
    BY <1>1, <2>3, <2>5, <2>7, GetOwnerLeads
  <2>9. UNCHANGED meta
    BY <2>3 DEF GetOwner
  <2>10. QED
    BY <2>8, <2>9 DEF Same, Sess
<1>5. QED
  BY <1>2, <1>3, <1>4, OneMoves

\* A message stays uncounted until its request saves the metadata.
LEMMA UncountedGoesOn ==
    ASSUME ChatInv, DeleteInv, OwnersInv, ChatNext, "fault" \notin Hazards,
           NEW s \in Sessions, NEW p \in Procs, Uncounted(p, s), ~SetMeta(p)
    PROVE  Uncounted(p, s)'
<1>1. /\ creq[p].pc \in {"ltrim", "expireHistory", "getOwner", "set"}
      /\ creq[p].turn # "owner" /\ Sess(p) = s /\ ~Fails(p) /\ ~Idle(p)
  BY DEF Uncounted, Fails, Idle, At
<1>2. ChatStep(p) => GetOwner(p) \/ LTrim(p) \/ ExpireHistory(p)
  BY <1>1 DEF ChatStep, At, ExpireMeta, SAdd, Recent, LPush, Challenge, GetToken,
              DelToken, Act, CheckOwner, DelHistory, DelMeta, SRem
<1>3. CASE GetOwner(p)
  <2>1. creq[p] \in Request /\ InOrder(creq[p])
    BY <1>1, Under
  <2>2. Held(creq[p])
    BY <1>1, <1>3, <2>1 DEF GetOwner, At, InOrder, Held, Request
  <2>3. meta[s] # Nothing /\ meta[s].owner = User(p)
    BY <1>1, <2>2 DEF OwnersInv, Keeping
  <2>4. creq'[p].pc = "set" /\ creq'[p].turn = creq[p].turn /\ Same(creq'[p], creq[p])
    BY <1>1, <1>3, <2>3, GetOwnerLeads DEF User
  <2>5. QED
    BY <1>1, <2>4 DEF Uncounted, Same, Sess
<1>4. CASE LTrim(p) \/ ExpireHistory(p)
  <2>1. /\ creq'[p].pc \in {"expireHistory", "getOwner"}
        /\ creq'[p].turn = creq[p].turn /\ Same(creq'[p], creq[p])
    BY <1>4, MovesOn DEF MovedTo
  <2>2. QED
    BY <1>1, <2>1 DEF Uncounted, Same, Sess
<1>5. CASE creq'[p] = creq[p]
  BY <1>5 DEF Uncounted, Sess
<1>6. ~ChatArrive(p)
  BY <1>1 DEF ChatArrive, Talk, Ask, Confirm, Remove, Detail, Turn, Begin
<1>7. QED
  BY <1>1, <1>2, <1>3, <1>4, <1>5, <1>6, OneMoves

LEMMA CountInv_step ==
    ASSUME ChatInv, Serial, DeleteInv, OwnersInv, CountInv, ChatNext, Hazards = {}
    PROVE  CountInv'
<1> USE DEF ChatInv, ChatTypeOK
<1>1. ASSUME NEW s \in Sessions, meta'[s] # Nothing
      PROVE  \/ Len(history'[s]) <= meta'[s].count
             \/ /\ Len(history'[s]) <= meta'[s].count + 1
                /\ \E p \in Procs : Uncounted(p, s)'
  <2>1. /\ history[s] \in Seq(Message) /\ history'[s] \in Seq(Message)
        /\ Len(history[s]) \in Nat /\ Len(history'[s]) \in Nat
        /\ meta'[s].count \in Nat /\ (meta[s] # Nothing => meta[s].count \in Nat)
    <3>1. ChatInv'
      BY Chat_Inv
    <3>2. history'[s] \in Seq(Message) /\ meta'[s] \in SessionMetadata
      BY <1>1, <3>1
    <3>3. history[s] \in Seq(Message) /\ meta[s] \in SessionMetadata \cup {Nothing}
      OBVIOUS
    <3>4. QED
      BY <3>2, <3>3 DEF SessionMetadata
  <2>2. CASE \E p \in Procs : Sess(p) = s /\ LPush(p)
    <3>1. PICK p \in Procs : Sess(p) = s /\ LPush(p)
      BY <2>2
    <3>2. creq[p].pc = "lpush" /\ UNCHANGED meta /\ creq[p].turn # "owner"
      BY <3>1, Writers DEF LPush, At, DeleteInv, InOrder
    <3>3. ASSUME NEW q \in Procs, Uncounted(q, s)
          PROVE  FALSE
      <4>1. ~Idle(q) /\ q # p
        BY <3>2, <3>3 DEF Uncounted, Idle, At
      <4>2. creq[q] \in Request /\ InOrder(creq[q])
        BY <4>1, Under
      <4>3. creq[q].kind # "detail"
        BY <3>3, <4>2 DEF Uncounted, InOrder
      <4>4. QED
        BY <3>1, <3>2, <3>3, <4>1, <4>3, Alone DEF Uncounted, DeleteInv
    <3>4. Len(history[s]) <= meta[s].count /\ meta[s].count \in Nat
      BY <1>1, <2>1, <3>2, <3>3 DEF CountInv
    <3>5. Len(history'[s]) = Len(history[s]) + 1
      <4>1. history'[s] = <<[by |-> User(p), role |-> creq[p].turn]>> \o history[s]
        BY <3>1 DEF LPush
      <4>2. QED
        BY <2>1, <4>1
    <3>6. Uncounted(p, s)'
      <4>1. MovedTo(creq'[p], creq[p], "ltrim")
        BY <3>1, MovesOn
      <4>2. QED
        BY <3>1, <3>2, <4>1 DEF MovedTo, Same, Uncounted, Sess
    <3>7. QED
      BY <2>1, <3>2, <3>4, <3>5, <3>6
  <2>3. CASE \E p \in Procs : Sess(p) = s /\ SetMeta(p)
    <3>1. PICK p \in Procs : Sess(p) = s /\ SetMeta(p)
      BY <2>3
    <3>2. creq[p].pc = "set" /\ UNCHANGED history /\ meta'[s] = creq[p].seen
          /\ creq[p].kind # "detail"
      BY <3>1, Writers DEF SetMeta, At, DeleteInv
    <3>3. CASE creq[p].turn = "owner"
      <4>1. history[s] = <<>>
        BY <3>1, <3>2, <3>3 DEF OwnersInv, Keeping, Owned
      <4>2. QED
        BY <2>1, <3>2, <4>1
    <3>4. CASE creq[p].turn # "owner"
      <4>1. meta[s] # Nothing
        BY <3>1, <3>2, <3>4, HeldAt DEF DeleteInv, OwnersInv, Keeping
      <4>2. meta'[s].count = meta[s].count + 1
        <5>1. meta'[s] = Counted(meta[s]) /\ meta[s] \in SessionMetadata
          BY <3>1, <3>2, <3>4, <4>1 DEF CountInv, Counting
        <5>2. QED
          BY <5>1 DEF Counted, SessionMetadata
      <4>3. Len(history[s]) <= meta[s].count + 1
        BY <2>1, <4>1 DEF CountInv
      <4>4. QED
        BY <2>1, <3>2, <4>2, <4>3
    <3>5. QED
      BY <3>3, <3>4
  <2>4. CASE \A p \in Procs : Sess(p) = s => ~LPush(p) /\ ~SetMeta(p)
    <3>1. meta'[s] = meta[s]
      BY <1>1, <2>4, MetaWrites
    <3>2. Len(history'[s]) <= Len(history[s])
      BY <2>4, Longer
    <3>3. ASSUME NEW p \in Procs, Uncounted(p, s)
          PROVE  Uncounted(p, s)'
      <4>1. ~SetMeta(p)
        BY <2>4, <3>3 DEF Uncounted
      <4>2. "fault" \notin Hazards
        OBVIOUS
      <4>3. QED
        BY <3>3, <4>1, <4>2, UncountedGoesOn
    <3>4. CASE Len(history[s]) <= meta[s].count
      BY <1>1, <2>1, <3>1, <3>2, <3>4
    <3>5. CASE Len(history[s]) <= meta[s].count + 1 /\ \E p \in Procs : Uncounted(p, s)
      BY <1>1, <2>1, <3>1, <3>2, <3>3, <3>5
    <3>6. QED
      BY <1>1, <3>1, <3>4, <3>5 DEF CountInv
  <2>5. QED
    BY <2>2, <2>3, <2>4
<1>2. \A p \in Procs : Counting(p)'
  <2>1. "straddle" \notin Hazards
    OBVIOUS
  <2>2. QED
    BY <2>1, Counting_step
<1>3. QED
  BY <1>1, <1>2, FreshIsFirst DEF CountInv

\* Without overlaps, straddling TTLs and faults, the message count of a
\* conversation that nobody is writing covers every stored message: no
\* increment is lost (append_message, session_manager.py:78-101).
THEOREM CountCoversHistoryHolds ==
    ASSUME Hazards = {}
    PROVE  ChatSpec => []CountCoversHistory
<1> DEFINE Known == ChatInv /\ Serial /\ DeleteInv /\ OwnersInv
<1>1. ChatInit => CountInv
  BY DEF ChatInit, NoReq, CountInv, Counting
<1>2. Known /\ CountInv /\ [ChatNext]_cvars => CountInv'
  <2>1. CASE UNCHANGED cvars
    BY <2>1 DEF cvars, CountInv, Counting, Uncounted, Sess
  <2>2. QED
    BY <2>1, CountInv_step
<1>3. Known /\ CountInv => CountCoversHistory
  <2>1. ASSUME Known, CountInv, NEW s \in Sessions, NEW p \in Procs, Uncounted(p, s)
        PROVE  Writing(p, s)
    <3>1. ~Idle(p)
      BY <2>1 DEF Uncounted, Idle, At
    <3>2. InOrder(creq[p])
      BY <2>1, <3>1, Under
    <3>3. QED
      BY <2>1, <3>1, <3>2 DEF Uncounted, InOrder, Writing, Sess
  <2>2. QED
    BY <2>1 DEF CountCoversHistory, CountInv, Quiet
<1> HIDE DEF Known
<1>4. ChatSpec => []Known
  BY SerialRuns DEF Known
<1>5. QED
  BY <1>1, <1>2, <1>3, <1>4, PTL DEF ChatSpec

-----------------------------------------------------------------------------
(* An answer stands on its question *)

Question(u) == [by |-> u, role |-> "user"]

\* Request c has stored its question and not its answer.
Asked(c) ==
    \/ c.turn = "user" /\ c.pc \in {"ltrim", "expireHistory", "getOwner", "set",
          "expireMeta", "sadd", "challenge", "getToken", "delToken", "act"}
    \/ c.turn = "assistant" /\ c.pc = "lpush"

\* Nothing lies on the question of p, unless everything is gone.
OnTop(p) ==
    Asked(creq[p]) => \/ history[Sess(p)] = <<>>
                      \/ history[Sess(p)][1] = Question(User(p))

Answered(h) ==
    \A i \in 1..(Len(h) - 1) :
        h[i].role = "assistant" => h[i + 1] = Question(h[i].by)

AnswersInv ==
    /\ \A p \in Procs :
         /\ creq[p].pc \in {"challenge", "getToken", "delToken", "act"}
               => creq[p].turn = "user"
         /\ OnTop(p)
    /\ \A s \in Sessions : Answered(history[s])

LEMMA AskedWrites ==
    ASSUME ChatInv, NEW q \in Procs, Asked(creq[q])
    PROVE  /\ creq[q] \in Request /\ ~Idle(q) /\ creq[q].kind # "detail"
           /\ Sess(q) \in Sessions
<1>1. ~Idle(q)
  BY DEF Asked, Idle, At
<1>2. creq[q] \in Request /\ InOrder(creq[q])
  BY <1>1, Under
<1>3. creq[q].kind # "detail"
  BY <1>2 DEF Asked, InOrder
<1>4. QED
  BY <1>1, <1>2, <1>3 DEF Request, Sess

\* Between a question and its answer nothing is stored.
LEMMA AskedBefore ==
    ASSUME ChatInv, AnswersInv, ChatNext, NEW q \in Procs, Asked(creq'[q]),
           ~LPush(q)
    PROVE  Asked(creq[q]) /\ Same(creq'[q], creq[q])
<1>1. CASE creq'[q] = creq[q]
  BY <1>1 DEF Same
<1>2. CASE ChatArrive(q)
  BY <1>2, Arrives, ReplacedBy DEF NewRequest, Asked
<1>3. ASSUME ChatStep(q) \/ Fails(q)
      PROVE  Asked(creq[q]) /\ Same(creq'[q], creq[q])
  <2>1. CASE GetOwner(q)
    BY <2>1, GetOwnerLeads DEF Asked, GetOwner, At
  <2>2. CASE SAdd(q)
    BY <2>2, SAddLeads DEF Asked, SAdd, At
  <2>3. CASE Challenge(q) \/ GetToken(q) \/ Act(q)
    <3>1. creq[q].pc \in {"challenge", "getToken", "act"} /\ creq[q].turn = "user"
      BY <2>3 DEF Challenge, GetToken, Act, At, AnswersInv
    <3>2. QED
      BY <2>3, <3>1, AnswerLeads DEF Asked
  <2>4. ~Recent(q) /\ ~CheckOwner(q)
    BY RecentLeads, CheckOwnerLeads DEF Asked
  <2>5. CASE SetMeta(q) \/ ExpireMeta(q) \/ LTrim(q) \/ ExpireHistory(q) \/ DelToken(q)
    BY <2>5, MovesOn DEF MovedTo, Asked, SetMeta, ExpireMeta, LTrim,
                         ExpireHistory, DelToken, At
  <2>6. ~DelHistory(q) /\ ~DelMeta(q) /\ ~SRem(q) /\ ~Fails(q)
    BY MovesOn DEF MovedTo, Asked
  <2>7. QED
    BY <1>3, <2>1, <2>2, <2>3, <2>4, <2>5, <2>6 DEF ChatStep
<1>4. QED
  BY <1>1, <1>2, <1>3, OneMoves

LEMMA OnTop_step ==
    ASSUME ChatInv, Serial, DeleteInv, AnswersInv, ChatNext, NEW q \in Procs
    PROVE  OnTop(q)'
<1> USE DEF ChatInv, ChatTypeOK
<1> DEFINE s == Sess(q)
<1>1. SUFFICES ASSUME Asked(creq'[q])
               PROVE  \/ history'[creq'[q].sess] = <<>>
                      \/ history'[creq'[q].sess][1] = Question(creq'[q].user)
  BY DEF OnTop, Sess, User
<1>2. CASE LPush(q)
  <2>1. MovedTo(creq'[q], creq[q], "ltrim") /\ creq[q].pc = "lpush"
    BY <1>2, MovesOn DEF LPush, At
  <2>2. creq[q].turn = "user" /\ Same(creq'[q], creq[q])
    BY <1>1, <2>1 DEF MovedTo, Asked
  <2>3. s \in Sessions /\ history[s] \in Seq(Message)
    BY <2>1, Writers DEF DeleteInv
  <2>4. history'[s] = <<Question(User(q))>> \o history[s]
    BY <1>2, <2>2, <2>3 DEF LPush, Question
  <2>5. history'[s][1] = Question(User(q))
    BY <2>3, <2>4
  <2>6. QED
    BY <2>2, <2>5 DEF Same, Sess, User
<1>3. CASE ~LPush(q)
  <2>1. Asked(creq[q]) /\ Same(creq'[q], creq[q])
    BY <1>1, <1>3, AskedBefore
  <2>2. /\ s \in Sessions /\ ~Idle(q) /\ creq[q].kind # "detail"
        /\ history[s] = <<>> \/ history[s][1] = Question(User(q))
    BY <2>1, AskedWrites DEF AnswersInv, OnTop
  <2>3. ASSUME NEW p \in Procs, p # q, Sess(p) = s, LPush(p) \/ LTrim(p)
        PROVE  FALSE
    <3>1. creq[p].pc \in {"lpush", "ltrim"}
      BY <2>3 DEF LPush, LTrim, At
    <3>2. QED
      BY <2>2, <2>3, <3>1, Alone DEF DeleteInv
  <2>4. \/ history'[s] \in {history[s], <<>>}
        \/ history'[s] = SubSeq(history[s], 1, MaxMessages)
    <3>1. LTrim(q) => \/ history'[s] = history[s]
                      \/ history'[s] = SubSeq(history[s], 1, MaxMessages)
      BY <2>2 DEF LTrim
    <3>2. QED
      BY <1>3, <2>2, <2>3, <3>1, HistoryWrites
  <2>5. history[s] \in Seq(Message)
    BY <2>2
  <2>6. ASSUME NEW h \in Seq(Message), h # <<>>
        PROVE  SubSeq(h, 1, MaxMessages)[1] = h[1]
    BY <2>6, ChatAssumption
  <2>7. history'[s] = <<>> \/ history'[s][1] = Question(User(q))
    <3>1. CASE history[s] = <<>>
      <4>1. \A p \in Procs : Sess(p) = s => ~LPush(p)
        BY <1>3, <2>3
      <4>2. Len(history'[s]) <= Len(history[s])
        BY <2>2, <4>1, Longer
      <4>3. history'[s] \in Seq(Message)
        <5>1. ChatInv'
          BY Chat_Inv
        <5>2. QED
          BY <2>2, <5>1
      <4>4. QED
        BY <3>1, <4>2, <4>3
    <3>2. CASE history[s] # <<>>
      BY <2>2, <2>4, <2>5, <2>6, <3>2
    <3>3. QED
      BY <3>1, <3>2
  <2>8. QED
    BY <2>1, <2>7 DEF Same, Sess, User
<1>4. QED
  BY <1>2, <1>3

LEMMA AnsweredMore ==
    ASSUME NEW h \in Seq(Message), NEW m \in Message, Answered(h),
           m.role = "assistant" => h = <<>> \/ h[1] = Question(m.by)
    PROVE  Answered(<<m>> \o h)
<1> DEFINE more == <<m>> \o h
<1>1. /\ Len(more) = Len(h) + 1 /\ Len(h) \in Nat /\ more[1] = m
      /\ \A i \in 1..Len(h) : more[i + 1] = h[i]
  OBVIOUS
<1> HIDE DEF more
<1>2. ASSUME NEW i \in 1..(Len(more) - 1), more[i].role = "assistant"
      PROVE  more[i + 1] = Question(more[i].by)
  <2>1. i \in 1..Len(h) /\ Len(h) \in Nat /\ more[i + 1] = h[i]
    BY <1>1
  <2>2. CASE i = 1
    <3>1. h # <<>>
      BY <2>1
    <3>2. QED
      BY <1>1, <1>2, <2>1, <2>2, <3>1
  <2>3. CASE i # 1
    <3>1. i - 1 \in 1..(Len(h) - 1) /\ i - 1 \in 1..Len(h) /\ (i - 1) + 1 = i
      BY <2>1, <2>3
    <3>2. more[i] = h[i - 1]
      BY <1>1, <3>1
    <3>3. h[i - 1].role = "assistant" => h[i] = Question(h[i - 1].by)
      BY <3>1 DEF Answered
    <3>4. QED
      BY <1>2, <2>1, <3>2, <3>3
  <2>4. QED
    BY <2>2, <2>3
<1>3. QED
  BY <1>2 DEF Answered, more

LEMMA AnsweredPart ==
    ASSUME NEW h \in Seq(Message), NEW n \in Nat, n <= Len(h), Answered(h)
    PROVE  Answered(SubSeq(h, 1, n))
<1>1. /\ Len(SubSeq(h, 1, n)) = n /\ Len(h) \in Nat
      /\ \A i \in 1..n : SubSeq(h, 1, n)[i] = h[i]
  OBVIOUS
<1>2. ASSUME NEW i \in 1..(n - 1)
      PROVE  /\ SubSeq(h, 1, n)[i] = h[i] /\ SubSeq(h, 1, n)[i + 1] = h[i + 1]
             /\ i \in 1..(Len(h) - 1)
  BY <1>1
<1>3. QED
  BY <1>1, <1>2 DEF Answered

LEMMA Answered_step ==
    ASSUME ChatInv, DeleteInv, AnswersInv, ChatNext, NEW s \in Sessions
    PROVE  Answered(history'[s])
<1> USE DEF ChatInv, ChatTypeOK
<1>1. history[s] \in Seq(Message) /\ Answered(history[s])
  BY DEF AnswersInv
<1>2. ASSUME NEW p \in Procs, Sess(p) = s, LPush(p)
      PROVE  Answered(history'[s])
  <2> DEFINE m == [by |-> User(p), role |-> creq[p].turn]
  <2>1. creq[p] \in Request /\ InOrder(creq[p]) /\ creq[p].pc = "lpush"
    BY <1>2, Writers DEF LPush, At, DeleteInv
  <2>2. m \in Message /\ m.by = User(p) /\ m.role = creq[p].turn
    BY <2>1 DEF InOrder, Request, Message, User
  <2>3. m.role = "assistant" => history[s] = <<>> \/ history[s][1] = Question(m.by)
    BY <1>2, <2>1, <2>2 DEF AnswersInv, OnTop, Asked
  <2>4. history'[s] = <<m>> \o history[s]
    BY <1>2 DEF LPush
  <2> HIDE DEF m
  <2>5. QED
    BY <1>1, <2>2, <2>3, <2>4, AnsweredMore
<1>3. ASSUME NEW p \in Procs, Sess(p) = s, LTrim(p)
      PROVE  Answered(history'[s])
  <2>1. Len(history[s]) \in Nat /\ MaxMessages \in Nat
    BY <1>1, ChatAssumption
  <2>2. \/ history'[s] = history[s]
        \/ /\ MaxMessages <= Len(history[s])
           /\ history'[s] = SubSeq(history[s], 1, MaxMessages)
    BY <1>3, <2>1 DEF LTrim
  <2>3. QED
    BY <1>1, <2>1, <2>2, AnsweredPart
<1>4. Answered(<<>>)
  BY DEF Answered
<1>5. QED
  BY <1>1, <1>2, <1>3, <1>4, HistoryWrites

LEMMA AnswersInv_step ==
    ASSUME ChatInv, Serial, DeleteInv, AnswersInv, ChatNext
    PROVE  AnswersInv'
<1>1. ASSUME NEW q \in Procs,
             creq'[q].pc \in {"challenge", "getToken", "delToken", "act"}
      PROVE  creq'[q].turn = "user"
  <2>1. CASE creq'[q] = creq[q]
    BY <1>1, <2>1 DEF AnswersInv
  <2>2. CASE ChatArrive(q)
    BY <1>1, <2>2, Arrives, ReplacedBy DEF NewRequest
  <2>3. ASSUME ChatStep(q) \/ Fails(q)
        PROVE  creq'[q].turn = "user"
    <3>1. ~GetOwner(q) /\ ~Recent(q) /\ ~CheckOwner(q)
      BY <1>1, GetOwnerLeads, RecentLeads, CheckOwnerLeads
    <3>2. CASE SAdd(q)
      <4>1. creq[q] \in Request /\ InOrder(creq[q]) /\ creq[q].pc = "sadd"
        BY <3>2, Under DEF SAdd, Idle, At
      <4>2. creq[q].turn \in {"owner", "user", "assistant"}
            /\ (~creq[q].fresh => creq[q].turn # "owner")
        BY <4>1 DEF Request, InOrder
      <4>3. ~creq[q].fresh /\ creq[q].turn # "assistant" /\ creq'[q].turn = creq[q].turn
        BY <1>1, <3>2, SAddLeads
      <4>4. QED
        BY <4>2, <4>3
    <3>3. CASE Challenge(q) \/ GetToken(q) \/ Act(q)
      <4>1. creq[q].turn = "user"
        BY <3>3 DEF AnswersInv, Challenge, GetToken, Act, At
      <4>2. QED
        BY <1>1, <3>3, <4>1, AnswerLeads
    <3>4. CASE DelToken(q)
      BY <3>4, MovesOn DEF MovedTo, AnswersInv, DelToken, At
    <3>5. QED
      BY <1>1, <2>3, <3>1, <3>2, <3>3, <3>4, MovesOn DEF ChatStep, MovedTo
  <2>4. QED
    BY <2>1, <2>2, <2>3, OneMoves
<1>2. \A q \in Procs : OnTop(q)'
  BY OnTop_step
<1>3. \A s \in Sessions : Answered(history[s])'
  BY Answered_step DEF Answered
<1>4. QED
  BY <1>1, <1>2, <1>3 DEF AnswersInv

\* When requests that write one conversation do not overlap, an answer is
\* stored right after a question of its user, whatever expires or fails
\* meanwhile (ChatService.chat appends twice, chat_service.py:84-134).
THEOREM AnswersFollowQuestionsHolds ==
    ASSUME "overlap" \notin Hazards
    PROVE  ChatSpec => []AnswersFollowQuestions
<1>1. ChatInit => Serial /\ DeleteInv /\ AnswersInv
  BY DEF ChatInit, Serial, DeleteInv, Idle, At, NoReq, Removing, Cleared,
         AnswersInv, OnTop, Asked, Answered
<1>2. ChatInv /\ Serial /\ DeleteInv /\ AnswersInv /\ [ChatNext]_cvars
        => Serial' /\ DeleteInv' /\ AnswersInv'
  <2>1. CASE UNCHANGED cvars
    <3>1. ASSUME NEW p \in Procs
          PROVE  /\ (OnTop(p)' <=> OnTop(p)) /\ (Cleared(p)' <=> Cleared(p))
                 /\ (Removing(creq[p])' <=> Removing(creq[p]))
      BY <2>1 DEF cvars, OnTop, Asked, Cleared, Removing, Sess, User
    <3>2. QED
      BY <2>1, <3>1 DEF cvars, Serial, DeleteInv, StaysGone, Writing, Idle, At,
         Sess, AnswersInv, Answered
  <2>2. QED
    BY <2>1, Serial_step, DeleteInv_step, AnswersInv_step
<1>3. AnswersInv => AnswersFollowQuestions
  BY DEF AnswersInv, Answered, Question, AnswersFollowQuestions
<1>4. QED
  BY ChatInit_Inv, Chat_Inv, <1>1, <1>2, <1>3, PTL DEF ChatSpec
=============================================================================
