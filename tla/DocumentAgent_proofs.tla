------------------------ MODULE DocumentAgent_proofs ------------------------
(***************************************************************************)
(* Theorems about VectorStore, for any number of clients, documents and    *)
(* chunks, about Summaries, for any document, groups and time limits, and  *)
(* about DocumentAgent, for any documents, editions, questions and limits, *)
(* and any number of clients that index meanwhile.                         *)
(***************************************************************************)
EXTENDS DocumentAgent, Lists_proofs

-----------------------------------------------------------------------------
(* The vector store: any number of clients, documents and chunks *)

\* The part of StoreTypeOK that indexing changes.
WritesTypeOK ==
    /\ chunks \in [Keys -> Editions \cup {Nothing}]
    /\ chunkIndex \subseteq Keys
    /\ docMeta \in [Docs -> Editions \cup {Nothing}]
    /\ icall \in [Indexers -> IndexRequest]
    /\ requests \in 0..IndexBound

\* The chunks of x's request that the pipeline has written so far: those
\* before at, and all of them when it is through.
Piped(x, i) ==
    \/ icall[x].pc \in {"set", "sadd"} /\ i < icall[x].at
    \/ icall[x].pc \in {"meta", "ok"}

\* How far the request of x is.
Progress(x) ==
    icall[x].pc # "idle" =>
    /\ icall[x].doc \in Docs /\ icall[x].ed \in Editions
    /\ icall[x].at <= Len(ChunkLengths[icall[x].ed])
    /\ icall[x].pc = "embed" => icall[x].at = 1
    /\ icall[x].pc = "sadd" =>
         /\ chunks[KeyOf(x)] # Nothing
         /\ (\A y \in Indexers : y = x) => chunks[KeyOf(x)] = icall[x].ed
    /\ \A i \in 1..Len(ChunkLengths[icall[x].ed]) : Piped(x, i) =>
         /\ <<icall[x].doc, i>> \in chunkIndex
         /\ (\A y \in Indexers : y = x) => chunks[<<icall[x].doc, i>>] = icall[x].ed

StoreInv ==
    /\ WritesTypeOK
    /\ ListedIsStored
    /\ \A x \in Indexers : Progress(x)

(* An edition has at least one chunk, and at most MaxOrder. *)
LEMMA EditionLength ==
  ASSUME NEW e \in Editions
  PROVE  /\ Len(ChunkLengths[e]) \in Nat \ {0}
         /\ Len(ChunkLengths[e]) <= MaxOrder
         /\ \A i \in 1..Len(ChunkLengths[e]) : i \in 1..MaxOrder
  BY StoreAssumption

LEMMA StoreInitInv == StoreInit => StoreInv
  BY StoreAssumption
     DEF StoreInit, StoreInv, WritesTypeOK, ListedIsStored, Progress,
         IndexRequest, Piped

(* A step of x that leaves the chunks and only adds to the index disturbs no
   other request. *)
LEMMA OthersKeep ==
  ASSUME StoreInv, NEW x \in Indexers, NEW y \in Indexers, y # x,
         icall'[y] = icall[y],
         chunkIndex \subseteq chunkIndex',
         \A k \in Keys : chunks[k] # Nothing => chunks'[k] # Nothing
  PROVE  Progress(y)'
<1>1. icall[y] \in IndexRequest BY DEF StoreInv, WritesTypeOK
<1>2. ~(\A z \in Indexers : z = y) OBVIOUS
<1>3. Progress(y) BY DEF StoreInv
<1>4. icall[y].pc # "idle" => KeyOf(y) \in Keys
  BY <1>1, <1>3 DEF Progress, KeyOf, Keys, IndexRequest
<1>5. KeyOf(y)' = KeyOf(y) BY DEF KeyOf
<1>6. icall[y].pc = "sadd" => chunks'[KeyOf(y)] # Nothing
  BY <1>3, <1>4 DEF Progress
<1>7. \A i : Piped(y, i)' <=> Piped(y, i) BY DEF Piped
<1> QED BY <1>2, <1>3, <1>5, <1>6, <1>7 DEF Progress

LEMMA StartKeeps == ASSUME StoreInv, NEW x \in Indexers, IndexStart(x) PROVE StoreInv'
<1>1. PICK d \in Docs, e \in Editions :
        icall' = [icall EXCEPT ![x] = [pc |-> "embed", doc |-> d, ed |-> e, at |-> 1]]
  BY DEF IndexStart
<1>2. UNCHANGED <<chunks, chunkIndex, docMeta>> /\ requests' \in 0..IndexBound
  <2>1. requests \in 0..IndexBound BY DEF StoreInv, WritesTypeOK
  <2>2. UNCHANGED <<chunks, chunkIndex, docMeta>>
        /\ requests < IndexBound /\ requests' = requests + 1
    BY DEF IndexStart
  <2> QED BY <2>1, <2>2, StoreAssumption
<1>3. icall \in [Indexers -> IndexRequest] BY DEF StoreInv, WritesTypeOK
<1>4. icall' \in [Indexers -> IndexRequest]
  BY <1>1, <1>3, StoreAssumption DEF IndexRequest
<1>5. icall'[x] = [pc |-> "embed", doc |-> d, ed |-> e, at |-> 1]
  BY <1>1, <1>3
<1>6. Progress(x)' BY <1>5, EditionLength DEF Progress, Piped
<1>7. \A y \in Indexers \ {x} : Progress(y)'
  BY <1>1, <1>2, <1>3, OthersKeep
<1> QED BY <1>2, <1>4, <1>6, <1>7 DEF StoreInv, WritesTypeOK, ListedIsStored

LEMMA PcKeeps ==
  ASSUME StoreInv, NEW x \in Indexers,
         Embedded(x) \/ SetDocMeta(x) \/ IndexFails(x)
  PROVE  StoreInv'
<1>1. PICK q \in {"set", "ok", "error"} : icall' = [icall EXCEPT ![x].pc = q]
  BY DEF Embedded, SetDocMeta, IndexFails
<1>2. UNCHANGED <<chunks, chunkIndex, requests>>
  BY DEF Embedded, SetDocMeta, IndexFails
<1>3. icall \in [Indexers -> IndexRequest] BY DEF StoreInv, WritesTypeOK
<1>4. icall' \in [Indexers -> IndexRequest] BY <1>1, <1>3 DEF IndexRequest
<1>5. /\ icall'[x].pc = q /\ icall'[x].doc = icall[x].doc
      /\ icall'[x].ed = icall[x].ed /\ icall'[x].at = icall[x].at
  BY <1>1, <1>3 DEF IndexRequest
<1>6. Progress(x) /\ icall[x].pc # "idle"
  BY DEF StoreInv, Embedded, SetDocMeta, IndexFails, Resting
<1>7. q = "set" => icall[x].pc = "embed"
  BY <1>3, <1>5 DEF Embedded, SetDocMeta, IndexFails, IndexRequest
<1>8. q = "ok" => icall[x].pc = "meta"
  BY <1>3, <1>5 DEF Embedded, SetDocMeta, IndexFails, IndexRequest
<1>9. Progress(x)'
  BY <1>2, <1>5, <1>6, <1>7, <1>8 DEF Progress, Piped
<1>10. \A y \in Indexers \ {x} : Progress(y)'
  BY <1>1, <1>2, <1>3, OthersKeep
<1>11. docMeta' \in [Docs -> Editions \cup {Nothing}]
  BY <1>3, <1>6 DEF StoreInv, WritesTypeOK, Embedded, SetDocMeta, IndexFails, Progress
<1> QED BY <1>2, <1>4, <1>9, <1>10, <1>11 DEF StoreInv, WritesTypeOK, ListedIsStored

LEMMA SetKeeps == ASSUME StoreInv, NEW x \in Indexers, SetChunk(x) PROVE StoreInv'
<1>1. /\ chunks' = [chunks EXCEPT ![KeyOf(x)] = icall[x].ed]
      /\ icall' = [icall EXCEPT ![x].pc = "sadd"]
      /\ UNCHANGED <<chunkIndex, docMeta, requests>> /\ icall[x].pc = "set"
  BY DEF SetChunk
<1>2. icall \in [Indexers -> IndexRequest] BY DEF StoreInv, WritesTypeOK
<1>3. icall' \in [Indexers -> IndexRequest] BY <1>1, <1>2 DEF IndexRequest
<1>4. /\ icall'[x].pc = "sadd" /\ icall'[x].doc = icall[x].doc
      /\ icall'[x].ed = icall[x].ed /\ icall'[x].at = icall[x].at
  BY <1>1, <1>2 DEF IndexRequest
<1>5. Progress(x) /\ icall[x].doc \in Docs /\ icall[x].ed \in Editions
      /\ icall[x].at \in 1..MaxOrder
  BY <1>1, <1>2 DEF StoreInv, Progress, IndexRequest
<1>6. KeyOf(x) \in Keys BY <1>5 DEF KeyOf, Keys
<1>7. chunks \in [Keys -> Editions \cup {Nothing}] BY DEF StoreInv, WritesTypeOK
<1>8. chunks' \in [Keys -> Editions \cup {Nothing}] BY <1>1, <1>5, <1>7
<1>9. chunks'[KeyOf(x)] = icall[x].ed /\ icall[x].ed # Nothing
      /\ \A k \in Keys : k # KeyOf(x) => chunks'[k] = chunks[k]
  BY <1>1, <1>5, <1>6, <1>7, StoreAssumption
<1>10. ListedIsStored'
  BY <1>1, <1>9 DEF StoreInv, WritesTypeOK, ListedIsStored
<1>11. Progress(x)'
  <2>1. \A i \in 1..Len(ChunkLengths[icall[x].ed]) :
          <<icall[x].doc, i>> \in Keys
    BY <1>5, EditionLength DEF Keys
  <2>2. KeyOf(x)' = KeyOf(x) BY <1>4 DEF KeyOf
  <2>3. \A i \in 1..Len(ChunkLengths[icall[x].ed]) :
          i < icall[x].at => <<icall[x].doc, i>> # KeyOf(x)
    BY <1>5 DEF KeyOf
  <2> QED BY <1>1, <1>4, <1>5, <1>9, <2>1, <2>2, <2>3 DEF Progress, Piped
<1>12. \A y \in Indexers \ {x} : Progress(y)'
  BY <1>1, <1>2, <1>9, OthersKeep
<1> QED BY <1>1, <1>3, <1>8, <1>10, <1>11, <1>12 DEF StoreInv, WritesTypeOK

LEMMA SAddKeeps == ASSUME StoreInv, NEW x \in Indexers, SAddChunk(x) PROVE StoreInv'
<1>1. /\ chunkIndex' = chunkIndex \cup {KeyOf(x)} /\ icall' = NextChunk(x)
      /\ UNCHANGED <<chunks, docMeta, requests>> /\ icall[x].pc = "sadd"
  BY DEF SAddChunk
<1>2. icall \in [Indexers -> IndexRequest] BY DEF StoreInv, WritesTypeOK
<1>3. Progress(x) /\ icall[x].doc \in Docs /\ icall[x].ed \in Editions
      /\ icall[x].at \in 1..MaxOrder
      /\ icall[x].at <= Len(ChunkLengths[icall[x].ed])
  BY <1>1, <1>2 DEF StoreInv, Progress, IndexRequest
<1> DEFINE n == Len(ChunkLengths[icall[x].ed])
<1>4. n \in Nat \ {0} /\ n <= MaxOrder BY <1>3, EditionLength
<1>5. KeyOf(x) \in Keys BY <1>3 DEF KeyOf, Keys
<1>6. ListedIsStored'
  BY <1>1, <1>3 DEF StoreInv, ListedIsStored, Progress
<1>7. CASE icall[x].at < n
  <2>1. icall' = [icall EXCEPT ![x].pc = "set", ![x].at = icall[x].at + 1]
    BY <1>1, <1>7 DEF NextChunk
  <2>2. icall' \in [Indexers -> IndexRequest]
    BY <1>2, <1>3, <1>4, <1>7, <2>1, StoreAssumption DEF IndexRequest
  <2>3. /\ icall'[x].pc = "set" /\ icall'[x].doc = icall[x].doc
        /\ icall'[x].ed = icall[x].ed /\ icall'[x].at = icall[x].at + 1
    BY <1>2, <2>1 DEF IndexRequest
  <2>4. Progress(x)'
    BY <1>1, <1>3, <1>4, <1>7, <2>3 DEF Progress, Piped, KeyOf
  <2>5. \A y \in Indexers \ {x} : Progress(y)'
    BY <1>1, <1>2, <2>1, OthersKeep
  <2> QED BY <1>1, <1>5, <1>6, <2>2, <2>4, <2>5 DEF StoreInv, WritesTypeOK
<1>8. CASE ~(icall[x].at < n)
  <2>1. icall' = [icall EXCEPT ![x].pc = "meta"]
    BY <1>1, <1>8 DEF NextChunk
  <2>2. icall' \in [Indexers -> IndexRequest]
    BY <1>2, <2>1 DEF IndexRequest
  <2>3. /\ icall'[x].pc = "meta" /\ icall'[x].doc = icall[x].doc
        /\ icall'[x].ed = icall[x].ed /\ icall'[x].at = icall[x].at
    BY <1>2, <2>1 DEF IndexRequest
  <2>4. Progress(x)'
    BY <1>1, <1>3, <1>4, <1>8, <2>3 DEF Progress, Piped, KeyOf
  <2>5. \A y \in Indexers \ {x} : Progress(y)'
    BY <1>1, <1>2, <2>1, OthersKeep
  <2> QED BY <1>1, <1>5, <1>6, <2>2, <2>4, <2>5 DEF StoreInv, WritesTypeOK
<1> QED BY <1>7, <1>8

LEMMA IndexKeeps == StoreInv /\ [IndexStep]_cvars => StoreInv'
<1> SUFFICES ASSUME StoreInv, [IndexStep]_cvars PROVE StoreInv' OBVIOUS
<1>1. CASE UNCHANGED cvars
  BY <1>1 DEF cvars, StoreInv, WritesTypeOK, ListedIsStored, Progress, Piped, KeyOf
<1>2. ASSUME NEW x \in Indexers,
             IndexStart(x) \/ Embedded(x) \/ SetChunk(x) \/ SAddChunk(x)
             \/ SetDocMeta(x) \/ IndexFails(x)
      PROVE  StoreInv'
  BY <1>2, StartKeeps, PcKeeps, SetKeeps, SAddKeeps
<1> QED BY <1>1, <1>2 DEF IndexStep

(* Indexing keeps the invariant behind the two theorems below
   (vector_store.py:45-82). *)
THEOREM StoreInvHolds == StoreSpec => []StoreInv
  BY StoreInitInv, IndexKeeps, PTL DEF StoreSpec

(* A reader finds every key that the index lists, for any number of clients
   indexing documents, and wherever their requests fail. *)
THEOREM ListedIsStoredHolds == StoreSpec => []ListedIsStored
  BY StoreInvHolds, PTL DEF StoreInv

(* What an indexing request has confirmed is completely listed, and in the
   confirmed edition when nobody else indexes documents. *)
THEOREM ConfirmedIsCompleteHolds == StoreSpec => []ConfirmedIsComplete
<1>1. StoreInv => ConfirmedIsComplete
  BY DEF StoreInv, Progress, Piped, ConfirmedIsComplete
<1> QED BY <1>1, StoreInvHolds, PTL

-----------------------------------------------------------------------------
(* The summary service: every document, number of groups, limit of parallel *)
(* calls and time limit *)

Active == phase \in {"single", "map", "reduce"}

\* There is no answer before summarize returns.
AnsweredWhenDone == answer # "none" => phase = "done"

\* A call is not waited for longer than its time limit, nor the whole longer
\* than the overall limit.
CallsInTime ==
    /\ Active => begun <= now /\ now <= Deadline
    /\ phase \in {"single", "reduce"} =>
         reduceAt <= now /\ now <= reduceAt + Timeout
    /\ phase = "single" => reduceAt = begun
    /\ phase = "map" =>
         \A i \in Running : group[i].at <= now /\ now <= group[i].at + Timeout

\* Every group with text has a task, which is done only with a draft; the
\* reduction begins when all are.
GroupsKept ==
    /\ phase \in {"map", "reduce"} =>
         /\ group \in [1..GroupCount(doc) -> Task]
         /\ \A i \in 1..GroupCount(doc) :
              HasText(doc, i) /\ group[i].st = "done" => group[i].by # "none"
    /\ phase = "reduce" => Running = {} /\ Waiting = {}

\* When all groups fit into the limiter, all calls begin at once.
OneWave ==
    phase = "map" /\ GroupCount(doc) <= Parallelism =>
        /\ Waiting # {} => now = begun
        /\ \A i \in Running : group[i].at = begun
        /\ now <= begun + Timeout

\* No more calls than the limiter allows.
AtMostParallel == Cardinality(Running) <= Parallelism

IdleIsFresh ==
    phase = "idle" => answer = "none" /\ cut = "none" /\ group = <<>>

SumInv ==
    /\ SumTypeOK
    /\ IdleIsFresh
    /\ AnsweredWhenDone
    /\ CallsInTime
    /\ FallbackMeansDeadline
    /\ AtMostParallel
    /\ GroupsKept
    /\ OneWave
    /\ OneWaveIsNotCut

LEMMA DivNat == ASSUME NEW x \in Nat, NEW y \in Nat \ {0} PROVE x \div y \in Nat
  BY Z3

(* The number of groups is a natural number. *)
LEMMA GroupCountNat == ASSUME NEW d \in Seq(Nat) PROVE GroupCount(d) \in Nat
<1>1. GroupSize \in Nat \ {0} BY SummaryAssumption
<1>2. Len(d) + GroupSize - 1 \in Nat BY <1>1
<1> QED BY <1>1, <1>2, DivNat DEF GroupCount

(* The tasks are finitely many. *)
LEMMA TasksFinite ==
  ASSUME SumTypeOK
  PROVE  /\ GroupCount(doc) \in Nat
         /\ DOMAIN group \subseteq 1..GroupCount(doc)
         /\ Running \subseteq 1..GroupCount(doc)
         /\ IsFiniteSet(Running)
         /\ IsFiniteSet(1..GroupCount(doc))
         /\ Cardinality(1..GroupCount(doc)) = GroupCount(doc)
<1>1. GroupCount(doc) \in Nat BY GroupCountNat DEF SumTypeOK
<1>2. DOMAIN group \subseteq 1..GroupCount(doc)
  <2>1. CASE group \in [1..GroupCount(doc) -> Task] BY <2>1
  <2>2. CASE group = <<>> BY <2>2
  <2> QED BY <2>1, <2>2 DEF SumTypeOK
<1>3. IsFiniteSet(1..GroupCount(doc)) /\ Cardinality(1..GroupCount(doc)) = GroupCount(doc)
  BY <1>1, FS_Interval
<1>4. Running \subseteq 1..GroupCount(doc) BY <1>2 DEF Running
<1> QED BY <1>1, <1>2, <1>3, <1>4, FS_Subset

LEMMA InitSumInv == SumInit => SumInv
<1> SUFFICES ASSUME SumInit PROVE SumInv OBVIOUS
<1>1. SumTypeOK
  BY DEF SumInit, SumTypeOK
<1>2. Running = {} BY DEF SumInit, Running
<1>3. AtMostParallel
  BY <1>2, FS_EmptySet, SummaryAssumption DEF AtMostParallel
<1> QED
  BY <1>1, <1>3 DEF SumInit, SumInv, IdleIsFresh, AnsweredWhenDone, CallsInTime, Active, FallbackMeansDeadline,
     GroupsKept, OneWave, OneWaveIsNotCut

-----------------------------------------------------------------------------
(* Every step keeps the invariant. *)

LEMMA TimeTyped ==
  /\ Timeout \in Nat \ {0} /\ Grace \in Nat \ {0}
  /\ Parallelism \in Nat \ {0} /\ MaxChunks \in Nat \ {0}
  BY SummaryAssumption

(* What is left of the document has chunks of the document only. *)
LEMMA LimitedTyped ==
  ASSUME NEW T, NEW w \in Seq(T), NEW d \in Limited(w) PROVE d \in Seq(T)
<1>1. CASE Len(w) <= MaxChunks BY <1>1 DEF Limited
<1>2. CASE ~(Len(w) <= MaxChunks)
  <2>1. PICK f \in [1..MaxChunks -> 1..Len(w)] : d = [i \in 1..MaxChunks |-> w[f[i]]]
    BY <1>2 DEF Limited
  <2>2. d \in [1..MaxChunks -> T] BY <2>1
  <2> QED BY <2>2, TimeTyped, SeqDef
<1> QED BY <1>1, <1>2

(* A summary of any chunks begins. *)
LEMMA SummarizeKeeps ==
  ASSUME SumInv, NEW w \in Seq(Nat), NEW d \in Seq(Nat), Summarize(w, d)
  PROVE  SumInv'
<1>4. phase = "idle" /\ begun' = now /\ now' = now /\ whole' = w /\ doc' = d /\ cut' = cut
  BY DEF Summarize
<1>5. /\ now \in Nat /\ reduceAt \in Nat /\ begun \in Nat
      /\ answer = "none" /\ cut = "none"
      /\ group = <<>>
  BY <1>4 DEF SumInv, SumTypeOK, IdleIsFresh
<1>6. Deadline' = now' + Timeout + Grace /\ now' <= Deadline'
  BY <1>4, <1>5, TimeTyped DEF Deadline
<1>7. CASE phase' = "done" /\ answer' \in {"empty", "extract"}
           /\ group' = group /\ reduceAt' = reduceAt
  <2>1. SumTypeOK' BY <1>4, <1>5, <1>7 DEF SumTypeOK
  <2>2. Running' = {} BY <1>5, <1>7 DEF Running
  <2> QED BY <1>4, <1>5, <1>7, <2>1, <2>2, FS_EmptySet, TimeTyped
      DEF SumInv, IdleIsFresh, AnsweredWhenDone, CallsInTime, Active, FallbackMeansDeadline,
          AtMostParallel, GroupsKept, OneWave, OneWaveIsNotCut
<1>8. CASE phase' = "single" /\ reduceAt' = now
           /\ group' = group /\ answer' = answer
  <2>1. SumTypeOK' BY <1>4, <1>5, <1>8 DEF SumTypeOK
  <2>2. Running' = {} BY <1>5, <1>8 DEF Running
  <2>3. CallsInTime' BY <1>4, <1>5, <1>6, <1>8, TimeTyped DEF CallsInTime, Active
  <2> QED BY <1>4, <1>5, <1>8, <2>1, <2>2, <2>3, FS_EmptySet, TimeTyped
      DEF SumInv, IdleIsFresh, AnsweredWhenDone, FallbackMeansDeadline,
          AtMostParallel, GroupsKept, OneWave, OneWaveIsNotCut
<1>9. CASE /\ phase' = "map" /\ reduceAt' = reduceAt /\ answer' = answer
           /\ group' = [i \in 1..GroupCount(d) |->
                 [st |-> IF HasText(d, i) THEN "waiting" ELSE "done",
                  at |-> 0, by |-> "none"]]
  <2>1. group' \in [1..GroupCount(doc') -> Task] BY <1>4, <1>9 DEF Task
  <2>2. SumTypeOK' BY <1>4, <1>5, <1>9, <2>1 DEF SumTypeOK
  <2>3. Running' = {} BY <1>9 DEF Running
  <2>4. CallsInTime'
    BY <1>4, <1>5, <1>6, <1>9, <2>3, TimeTyped DEF CallsInTime, Active
  <2>5. GroupsKept'
    BY <1>4, <1>9, <2>1 DEF GroupsKept
  <2> QED BY <1>4, <1>5, <1>9, <2>2, <2>3, <2>4, <2>5, FS_EmptySet, TimeTyped
      DEF SumInv, IdleIsFresh, AnsweredWhenDone, FallbackMeansDeadline,
          AtMostParallel, OneWave, OneWaveIsNotCut
<1> QED BY <1>7, <1>8, <1>9 DEF Summarize

LEMMA BeginKeeps == ASSUME SumInv, Begin PROVE SumInv'
<1>1. PICK w \in Documents : \E d \in Limited(w) : Summarize(w, d) BY DEF Begin
<1>2. PICK d \in Limited(w) : Summarize(w, d) BY <1>1
<1>3. w \in Seq(Nat) BY SummaryAssumption
<1>4. d \in Seq(Nat) BY <1>3, LimitedTyped
<1> QED BY <1>2, <1>3, <1>4, SummarizeKeeps

LEMMA AcquireKeeps ==
  ASSUME SumInv, NEW i \in DOMAIN group, Acquire(i) PROVE SumInv'
<1>1. phase = "map" /\ i \in Waiting /\ Cardinality(Running) < Parallelism
      /\ group' = [group EXCEPT ![i].st = "running", ![i].at = now]
  BY DEF Acquire
<1>2. UNCHANGED <<now, phase, whole, doc, reduceAt, begun, answer, cut>> BY DEF Acquire
<1>3. group \in [1..GroupCount(doc) -> Task] /\ i \in 1..GroupCount(doc) /\ now \in Nat
      /\ begun \in Nat
  BY <1>1 DEF SumInv, GroupsKept, SumTypeOK
<1>4. group' \in [1..GroupCount(doc) -> Task] BY <1>1, <1>3 DEF Task
<1>5. group'[i].st = "running" /\ group'[i].at = now
      /\ \A j \in 1..GroupCount(doc) : j # i => group'[j] = group[j]
  BY <1>1, <1>3 DEF Task
<1>6. Running' = Running \cup {i} /\ Waiting' = Waiting \ {i}
  BY <1>3, <1>4, <1>5 DEF Running, Waiting
<1>7. SumTypeOK' BY <1>2, <1>4 DEF SumInv, SumTypeOK
<1>8. CallsInTime'
  BY <1>1, <1>2, <1>3, <1>5, <1>6, TasksFinite, TimeTyped
     DEF SumInv, CallsInTime, Active, Deadline
<1>9. AtMostParallel'
  <2>1. IsFiniteSet(Running) BY TasksFinite DEF SumInv
  <2>2. Cardinality(Running) \in Nat BY <2>1, FS_CardinalityType
  <2>3. \/ Cardinality(Running \cup {i}) = Cardinality(Running)
        \/ Cardinality(Running \cup {i}) = Cardinality(Running) + 1
    BY <2>1, FS_AddElement
  <2>4. Cardinality(Running \cup {i}) <= Parallelism
    BY <1>1, <2>2, <2>3, TimeTyped
  <2> QED BY <1>6, <2>4 DEF AtMostParallel
<1>10. GroupsKept'
  BY <1>1, <1>2, <1>3, <1>4, <1>5 DEF SumInv, GroupsKept, HasText
<1>11. OneWave'
  BY <1>1, <1>2, <1>3, <1>5, <1>6, TasksFinite DEF SumInv, OneWave
<1> QED BY <1>1, <1>2, <1>7, <1>8, <1>9, <1>10, <1>11
    DEF SumInv, IdleIsFresh, AnsweredWhenDone, FallbackMeansDeadline, OneWaveIsNotCut, Deadline

LEMMA FinishKeeps ==
  ASSUME SumInv, phase = "map", NEW i \in Running, NEW by \in Writers, Finish(i, by)
  PROVE  SumInv'
<1>2. UNCHANGED <<now, phase, whole, doc, reduceAt, begun, answer, cut>> BY DEF Finish
<1>3. group \in [1..GroupCount(doc) -> Task] /\ i \in 1..GroupCount(doc) /\ now \in Nat
      /\ begun \in Nat
  BY DEF SumInv, GroupsKept, SumTypeOK, Running
<1>4. group' \in [1..GroupCount(doc) -> Task] BY <1>3 DEF Task, Finish
<1>5. group'[i].st = "done" /\ group'[i].by = by /\ group'[i].at = group[i].at
      /\ \A j \in 1..GroupCount(doc) : j # i => group'[j] = group[j]
  BY <1>3 DEF Task, Finish
<1>6. Running' = Running \ {i} /\ Waiting' = Waiting
  BY <1>3, <1>4, <1>5 DEF Running, Waiting
<1>7. SumTypeOK' BY <1>2, <1>4 DEF SumInv, SumTypeOK
<1>8. CallsInTime'
  BY <1>2, <1>3, <1>5, <1>6, TasksFinite, TimeTyped
     DEF SumInv, CallsInTime, Active, Deadline
<1>9. AtMostParallel'
  <2>1. IsFiniteSet(Running) BY TasksFinite DEF SumInv
  <2>2. Cardinality(Running) \in Nat BY <2>1, FS_CardinalityType
  <2>3. Cardinality(Running') \in Nat /\ Cardinality(Running') <= Cardinality(Running)
    BY <1>6, <2>1, FS_Subset, FS_CardinalityType
  <2> QED BY <2>2, <2>3, TimeTyped DEF AtMostParallel, SumInv
<1>10. GroupsKept'
  BY <1>2, <1>3, <1>4, <1>5 DEF SumInv, GroupsKept, HasText, Writers
<1>11. OneWave'
  BY <1>2, <1>3, <1>5, <1>6, TasksFinite DEF SumInv, OneWave
<1> QED BY <1>2, <1>7, <1>8, <1>9, <1>10, <1>11
    DEF SumInv, IdleIsFresh, AnsweredWhenDone, FallbackMeansDeadline, OneWaveIsNotCut, Deadline

(* A step that answers, or goes on to the reduction, and leaves the tasks. *)
LEMMA PhaseKeeps ==
  ASSUME SumInv,
         UNCHANGED <<now, whole, doc, group, begun, cut>>,
         \/ /\ phase' = "done" /\ answer' \in {"model", "extract"}
            /\ UNCHANGED reduceAt
         \/ /\ phase = "map" /\ Running = {} /\ Waiting = {}
            /\ phase' = "reduce" /\ reduceAt' = now /\ UNCHANGED answer
  PROVE  SumInv'
<1>1. SumTypeOK' BY DEF SumInv, SumTypeOK
<1>2. Running' = Running /\ Waiting' = Waiting BY DEF Running, Waiting
<1>3. CallsInTime'
  BY <1>2, TimeTyped DEF SumInv, SumTypeOK, CallsInTime, Active, Deadline
<1>4. GroupsKept' BY <1>2 DEF SumInv, GroupsKept, HasText
<1> QED BY <1>1, <1>2, <1>3, <1>4
    DEF SumInv, IdleIsFresh, AnsweredWhenDone, FallbackMeansDeadline, AtMostParallel, OneWave,
        OneWaveIsNotCut, Deadline

LEMMA OverrunKeeps == ASSUME SumInv, Overrun PROVE SumInv'
<1>1. SumTypeOK' BY DEF SumInv, SumTypeOK, Overrun, Done
<1>2. Running' = Running /\ UNCHANGED <<now, whole, doc, group, reduceAt, begun>>
      /\ phase' = "done" /\ answer' = "fallback" /\ cut' = phase /\ now = Deadline
      /\ Deadline' = Deadline /\ phase \in {"single", "map", "reduce"}
  BY DEF Running, Overrun, Done, Deadline
<1>3. now \in Nat /\ begun \in Nat /\ reduceAt \in Nat BY DEF SumInv, SumTypeOK
<1>4. OneWaveIsNotCut'
  <2>1. phase # "single"
    BY <1>2, <1>3, TimeTyped DEF SumInv, CallsInTime, Deadline
  <2>2. ASSUME phase = "map" PROVE GroupCount(doc) > Parallelism
    <3>1. ~(GroupCount(doc) <= Parallelism)
      BY <1>2, <1>3, <2>2, TimeTyped DEF SumInv, OneWave, Deadline
    <3> QED BY <3>1, TasksFinite, TimeTyped DEF SumInv
  <2> QED BY <1>2, <2>1, <2>2 DEF OneWaveIsNotCut
<1> QED BY <1>1, <1>2, <1>4
    DEF SumInv, IdleIsFresh, AnsweredWhenDone, FallbackMeansDeadline, AtMostParallel, OneWave,
        CallsInTime, Active, GroupsKept

(* Groups that all fit into the limiter: when nothing is due, none waits and
   one runs. *)
LEMMA WaveRuns ==
  ASSUME SumInv, phase = "map", GroupCount(doc) <= Parallelism, ~Due
  PROVE  Waiting = {} /\ Running # {}
<1>1. Waiting = {}
  <2> SUFFICES ASSUME NEW w \in Waiting PROVE FALSE OBVIOUS
  <2> DEFINE All == 1..GroupCount(doc)
  <2>1. w \in All /\ w \notin Running /\ Running \subseteq All
    BY TasksFinite DEF SumInv, Waiting, Running
  <2>2. IsFiniteSet(All) /\ Cardinality(All) = GroupCount(doc) /\ GroupCount(doc) \in Nat
    BY TasksFinite DEF SumInv
  <2>3. Running \subseteq All \ {w} BY <2>1
  <2>4. Cardinality(All \ {w}) = GroupCount(doc) - 1 /\ IsFiniteSet(All \ {w})
    BY <2>1, <2>2, FS_RemoveElement
  <2>5. Cardinality(Running) <= GroupCount(doc) - 1 /\ Cardinality(Running) \in Nat
    <3> HIDE DEF All
    <3>1. Cardinality(Running) <= Cardinality(All \ {w}) /\ IsFiniteSet(Running)
      BY <2>3, <2>4, FS_Subset
    <3> QED BY <2>4, <3>1, FS_CardinalityType
  <2>6. Cardinality(Running) < Parallelism BY <2>2, <2>5, TimeTyped
  <2> QED BY <2>6 DEF Due
<1> QED BY <1>1 DEF Due

LEMMA TickKeeps == ASSUME SumInv, Tick PROVE SumInv'
<1>1. /\ phase \in {"single", "map", "reduce"} /\ ~Due /\ now' = now + 1
      /\ UNCHANGED <<phase, whole, doc, group, reduceAt, begun, answer, cut>>
  BY DEF Tick
<1>2. now \in Nat /\ begun \in Nat /\ reduceAt \in Nat BY DEF SumInv, SumTypeOK
<1>3. SumTypeOK' BY <1>1, <1>2 DEF SumInv, SumTypeOK
<1>4. Running' = Running /\ Waiting' = Waiting /\ Deadline' = Deadline
      /\ Deadline \in Nat
  BY <1>1, <1>2, TimeTyped DEF Running, Waiting, Deadline
<1>5. now # Deadline /\ (phase \in {"single", "reduce"} => now # reduceAt + Timeout)
      /\ (phase = "map" => \A i \in Running : now # group[i].at + Timeout)
  BY <1>1 DEF Due
<1>6. \A i \in Running : phase = "map" => group[i].at \in Nat
  BY DEF SumInv, GroupsKept, Task, Running
<1>7. CallsInTime'
  BY <1>1, <1>2, <1>4, <1>5, <1>6, TimeTyped DEF SumInv, CallsInTime, Active
<1>8. GroupsKept' BY <1>1, <1>4 DEF SumInv, GroupsKept, HasText
<1>9. OneWave'
  <2> SUFFICES ASSUME phase = "map", GroupCount(doc) <= Parallelism
               PROVE  /\ Waiting = {}
                      /\ \A i \in Running : group[i].at = begun
                      /\ now + 1 <= begun + Timeout
    BY <1>1, <1>4 DEF OneWave
  <2>1. Waiting = {} /\ Running # {} BY <1>1, WaveRuns
  <2>2. \A i \in Running : group[i].at = begun BY DEF SumInv, OneWave
  <2>3. PICK i \in Running : TRUE BY <2>1
  <2>4. now <= begun + Timeout /\ now # begun + Timeout
    BY <1>5, <2>2, <2>3 DEF SumInv, OneWave
  <2> QED BY <1>2, <2>1, <2>2, <2>4, TimeTyped
<1>10. FallbackMeansDeadline'
  BY <1>1 DEF SumInv, AnsweredWhenDone, FallbackMeansDeadline
<1> QED BY <1>1, <1>3, <1>4, <1>7, <1>8, <1>9, <1>10
    DEF SumInv, IdleIsFresh, AnsweredWhenDone, AtMostParallel, OneWaveIsNotCut

LEMMA NextKeeps == SumInv /\ [SumNext]_svars => SumInv'
<1> SUFFICES ASSUME SumInv, [SumNext]_svars PROVE SumInv' OBVIOUS
<1>1. ASSUME NEW i \in DOMAIN group, Acquire(i) PROVE SumInv'
  BY <1>1, AcquireKeeps
<1>2. ASSUME NEW i \in DOMAIN group, Drafted(i) PROVE SumInv'
  BY <1>2, FinishKeeps DEF Drafted
<1>3. ASSUME NEW i \in DOMAIN group, DraftTimesOut(i) PROVE SumInv'
  BY <1>3, FinishKeeps DEF DraftTimesOut, Writers
<1>4. CASE Mapped
  <2>1. ASSUME NEW by, Normalized(by)
        PROVE  phase' = "done" /\ answer' \in {"model", "extract"}
    BY <2>1 DEF Normalized, Done
  <2> QED BY <1>4, <2>1, PhaseKeeps DEF Mapped, Done, Normalized
<1>5. CASE Written
  BY <1>5, PhaseKeeps DEF Written, Normalized, Done
<1>6. CASE CallTimesOut
  BY <1>6, PhaseKeeps DEF CallTimesOut, Done
<1>7. CASE Overrun BY <1>7, OverrunKeeps
<1>8. CASE Tick BY <1>8, TickKeeps
<1>9. CASE Begin BY <1>9, BeginKeeps
<1>10. CASE UNCHANGED svars
  BY <1>10 DEF svars, SumInv, SumTypeOK, IdleIsFresh, AnsweredWhenDone, CallsInTime,
     Active, FallbackMeansDeadline, AtMostParallel, GroupsKept, OneWave,
     OneWaveIsNotCut, Deadline, Running, Waiting, HasText
<1> QED BY <1>1, <1>2, <1>3, <1>4, <1>5, <1>6, <1>7, <1>8, <1>9, <1>10
    DEF SumNext, SumStep

\* The strengthening holds of every run of SummaryService (summary_service.py:
\* the deadline, the batches of parallel calls and the fallback).
THEOREM SumInvHolds == SumSpec => []SumInv
  BY InitSumInv, NextKeeps, PTL DEF SumSpec

-----------------------------------------------------------------------------

(* The variables keep their types (summary_service.py). *)
THEOREM SumTypeCorrect == SumSpec => []SumTypeOK
  BY SumInvHolds, PTL DEF SumInv

(* The overall limit is that of the calls. *)
LEMMA SumIsInTime == SumInv => InTime
  BY DEF SumInv, CallsInTime, Active, InTime

(* A summary is never awaited beyond the overall limit of
   _summarize_document, whatever the groups and their calls do. *)
THEOREM InTimeHolds == SumSpec => []InTime
  BY SumIsInTime, SumInvHolds, PTL

(* Only the overall limit makes the agent fall back on the service without a
   model: what a call raises never gets out of summary_service.py. *)
THEOREM FallbackMeansDeadlineHolds == SumSpec => []FallbackMeansDeadline
  BY SumInvHolds, PTL DEF SumInv

(* The limiter of _summarize_groups is respected. *)
THEOREM AtMostParallelHolds == SumSpec => []AtMostParallel
  BY SumInvHolds, PTL DEF SumInv

(* The reduction begins when every task is done. *)
LEMMA SumIsWhole == SumInv => NoGroupIsDropped
<1> SUFFICES ASSUME SumInv, phase = "reduce", NEW i \in 1..GroupCount(doc),
                    HasText(doc, i)
             PROVE  group[i].st = "done" /\ group[i].by # "none"
  BY DEF NoGroupIsDropped
<1>1. group \in [1..GroupCount(doc) -> Task] /\ i \notin Running /\ i \notin Waiting
  BY DEF SumInv, GroupsKept
<1>2. group[i].st = "done" BY <1>1 DEF Running, Waiting, Task
<1> QED BY <1>2 DEF SumInv, GroupsKept

(* The reduction has a draft of every group with text. *)
THEOREM NoGroupIsDroppedHolds == SumSpec => []NoGroupIsDropped
  BY SumIsWhole, SumInvHolds, PTL

(* When the groups all fit into the limiter, the overall limit interrupts
   nothing but the reduction, whatever the time limits. *)
THEOREM OneWaveIsNotCutHolds == SumSpec => []OneWaveIsNotCut
  BY SumInvHolds, PTL DEF SumInv

-----------------------------------------------------------------------------
(* The agent *)

Matching(f) == \A k \in DOMAIN f : Matches(k, f[k])

\* A question for an answer (not a summary) never lists documents, and all
\* it has collected so far matches its filters.
FilterInv ==
    /\ ask \in Questions
    /\ read = [pc |-> read.pc, left |-> read.left, found |-> read.found]
    /\ ask.task = "qa" =>
         /\ node \notin {"collect", "gather", "summarize"}
         /\ Matching(read.found)
         /\ Matching(candidates)
         /\ Matching(evidence)
         /\ \A c \in cites : Matches(c[1], c[2])

\* Until the answer is written, the citations are those of the evidence.
CitedInv ==
    /\ node \notin {"summarize"} \cup Ended => cites = Chunks(evidence)
    /\ node \in {"summarize", "done"} => cites \subseteq used

\* A round of retrieval begins only when one is left.
RoundsInv ==
    /\ ask \in Questions
    /\ loops \in 0..MaxLoops
    /\ node = "retrieve" => loops < MaxLoops
    /\ node = "idle" => loops = 0
    /\ node = "plan" => ask.task = "qa"

-----------------------------------------------------------------------------
(* Functions from keys to editions *)

LEMMA NothingMatches == Matching(<<>>) BY DEF Matching

(* One more chunk that matches. *)
LEMMA WithMatches ==
  ASSUME NEW f, Matching(f), NEW k, NEW e, Matches(k, e)
  PROVE  Matching(With(f, k, e))
  BY DEF Matching, With

(* The best chunks of f are chunks of f. *)
LEMMA BestMatches ==
  ASSUME NEW f, Matching(f), NEW n, NEW g \in Best(f, n) PROVE Matching(g)
<1>1. PICK K \in SUBSET DOMAIN f : g = Restrict(f, K)
  BY DEF Best, kSubset
<1> QED BY <1>1 DEF Restrict, Matching

LEMMA CombineMatches ==
  ASSUME NEW f, NEW g, Matching(f), Matching(g), NEW h \in Combine(f, g)
  PROVE  Matching(h)
<1>1. \A k \in DOMAIN h : \/ k \in DOMAIN f /\ h[k] = f[k]
                          \/ k \in DOMAIN g /\ h[k] = g[k]
  BY DEF Combine
<1> QED BY <1>1 DEF Matching

LEMMA ChunksMatch ==
  ASSUME NEW f, Matching(f) PROVE \A c \in Chunks(f) : Matches(c[1], c[2])
  BY DEF Chunks, Matching

-----------------------------------------------------------------------------
(* FilterInv *)

(* What one call of GetChunk does to the search. *)
LEMMA GetIsWith ==
  ASSUME FilterInv, SearchGet
  PROVE  \E k \in read.left :
           /\ read' = [pc |-> "get", left |-> read.left \ {k},
                       found |-> IF chunks[k] # Nothing /\ Matches(k, chunks[k])
                                 THEN With(read.found, k, chunks[k])
                                 ELSE read.found]
<1>1. read = [pc |-> read.pc, left |-> read.left, found |-> read.found]
  BY DEF FilterInv
<1>2. read.pc = "get" BY DEF SearchGet, GetChunk
<1>3. PICK k \in read.left :
        read' = [read EXCEPT !.left = @ \ {k},
                  !.found = IF chunks[k] # Nothing /\ Matches(k, chunks[k])
                            THEN With(@, k, chunks[k]) ELSE @]
  BY DEF SearchGet, GetChunk
<1>4. read' = [pc |-> "get", left |-> read.left \ {k},
               found |-> IF chunks[k] # Nothing /\ Matches(k, chunks[k])
                         THEN With(read.found, k, chunks[k]) ELSE read.found]
  BY <1>1, <1>2, <1>3
<1> QED BY <1>4

(* A step that leaves what was collected keeps FilterInv. *)
LEMMA FilterUntouched ==
  ASSUME FilterInv, UNCHANGED <<ask, read, candidates, evidence, cites>>,
         ask.task = "qa" => node' \notin {"collect", "gather", "summarize"}
  PROVE  FilterInv'
<1>1. \A k, e : Matches(k, e)' <=> Matches(k, e) BY DEF Matches
<1> QED BY <1>1 DEF FilterInv, Matching

LEMMA SearchKeepsFilter ==
  ASSUME FilterInv, Search \/ SearchGet \/ SearchReturns PROVE FilterInv'
<1>0. UNCHANGED <<ask, node, evidence, cites>>
  BY DEF Search, SearchGet, SearchReturns, avars
<1>1. \A k, e : Matches(k, e)' <=> Matches(k, e) BY <1>0 DEF Matches
<1>2. \A f : Matching(f) => Matching(f)' BY <1>1 DEF Matching
<1>3. CASE Search
  <2>1. read' = [pc |-> "get", left |-> chunkIndex, found |-> <<>>]
        /\ UNCHANGED candidates
    BY <1>3 DEF Search, SMembersChunks, avars
  <2>2. Matching(<<>>)' BY <1>2, NothingMatches
  <2> QED BY <1>0, <1>1, <2>1, <2>2 DEF FilterInv, Matching
<1>4. CASE SearchGet
  <2>1. PICK k \in read.left :
          read' = [pc |-> "get", left |-> read.left \ {k},
                   found |-> IF chunks[k] # Nothing /\ Matches(k, chunks[k])
                             THEN With(read.found, k, chunks[k])
                             ELSE read.found]
    BY <1>4, GetIsWith
  <2>2. ask.task = "qa" => Matching(read'.found)
    BY <2>1, WithMatches DEF FilterInv
  <2>3. UNCHANGED candidates BY <1>4 DEF SearchGet, avars
  <2>4. read' = [pc |-> read'.pc, left |-> read'.left, found |-> read'.found]
    BY <2>1
  <2> QED BY <1>0, <1>1, <2>2, <2>3, <2>4 DEF FilterInv, Matching
<1>5. CASE SearchReturns
  <2>1. PICK hits \in Best(read.found, Wide * Multiplier) :
          candidates' \in Combine(candidates, hits)
    BY <1>5 DEF SearchReturns
  <2>2. ask.task = "qa" => Matching(candidates')
    BY <2>1, BestMatches, CombineMatches DEF FilterInv
  <2>3. read' = [pc |-> "idle", left |-> {}, found |-> <<>>]
    BY <1>5 DEF SearchReturns, NoRead
  <2>4. Matching(<<>>)' BY <1>2, NothingMatches
  <2> QED BY <1>0, <1>1, <2>2, <2>3, <2>4 DEF FilterInv, Matching
<1> QED BY <1>3, <1>4, <1>5

LEMMA RerankKeepsFilter == ASSUME FilterInv, Rerank PROVE FilterInv'
<1>0. UNCHANGED <<ask, read>> BY DEF Rerank
<1>1. \A k, e : Matches(k, e)' <=> Matches(k, e) BY <1>0 DEF Matches
<1>2. ask.task = "qa" => Matching(evidence')
  BY BestMatches DEF Rerank, FilterInv
<1>3. cites' = Chunks(evidence') /\ candidates' = <<>> BY DEF Rerank
<1>4. ask.task = "qa" => \A c \in cites' : Matches(c[1], c[2])
  BY <1>2, <1>3, ChunksMatch
<1>5. ask.task = "qa" => Matching(candidates')
  BY <1>3, NothingMatches
<1>6. ask.task = "qa" => node' = "plan" BY DEF Rerank, AfterRerank
<1> QED BY <1>0, <1>1, <1>2, <1>4, <1>5, <1>6 DEF FilterInv, Matching

(* Listing documents is for summaries. *)
LEMMA ListKeepsFilter ==
  ASSUME FilterInv, List \/ ListGet \/ ListReturns PROVE FilterInv'
<1>1. ask' = ask BY DEF List, ListGet, ListReturns, avars
<1>2. ask.task # "qa"
  BY DEF List, ListGet, ListReturns, FilterInv
<1>3. read' = [pc |-> read'.pc, left |-> read'.left, found |-> read'.found]
  <2>1. CASE List BY <2>1 DEF List, SMembersChunks
  <2>2. CASE ListReturns BY <2>2 DEF ListReturns, NoRead
  <2>3. CASE ListGet
    <3>1. read = [pc |-> read.pc, left |-> read.left, found |-> read.found]
      BY DEF FilterInv
    <3>2. PICK l, f : read' = [read EXCEPT !.left = l, !.found = f]
      BY <2>3 DEF ListGet, GetChunk
    <3> QED BY <3>1, <3>2
  <2> QED BY <2>1, <2>2, <2>3
<1> QED BY <1>1, <1>2, <1>3 DEF FilterInv

LEMMA NextKeepsFilter == FilterInv /\ [AgentNext]_vars => FilterInv'
<1> SUFFICES ASSUME FilterInv, [AgentNext]_vars PROVE FilterInv'
  OBVIOUS
<1>1. CASE Search \/ SearchGet \/ SearchReturns BY <1>1, SearchKeepsFilter
<1>2. CASE Rerank BY <1>2, RerankKeepsFilter
<1>3. CASE List \/ ListGet \/ ListReturns BY <1>3, ListKeepsFilter
<1>4. CASE Answer \/ PlanNextStep \/ Retrieved \/ GenerateAnswer
  BY <1>4, FilterUntouched DEF Answer, PlanNextStep, Retrieved, GenerateAnswer
<1>5. CASE CollectFound \/ SummarizeDocument \/ Summarized
  <2>1. ask.task # "qa" /\ UNCHANGED <<ask, read>>
    BY <1>5 DEF CollectFound, SummarizeDocument, Summarized, FilterInv
  <2> QED BY <2>1 DEF FilterInv
<1>6. CASE StoreFails
  <2>1. UNCHANGED <<ask, candidates, evidence, cites>> /\ node' = "failed"
        /\ read' = [pc |-> "idle", left |-> {}, found |-> <<>>]
    BY <1>6 DEF StoreFails, NoRead
  <2>2. \A k, e : Matches(k, e)' <=> Matches(k, e) BY <2>1 DEF Matches
  <2>3. Matching(<<>>)' BY <2>2, NothingMatches DEF Matching
  <2> QED BY <2>1, <2>2, <2>3 DEF FilterInv, Matching
<1>7. CASE ServiceStep \/ (IndexStep /\ UNCHANGED <<read, svars, avars>>)
  BY <1>7, FilterUntouched DEF ServiceStep, avars, FilterInv
<1>8. CASE UNCHANGED vars
  BY <1>8, FilterUntouched DEF vars, avars, FilterInv
<1> QED
  BY <1>1, <1>2, <1>3, <1>4, <1>5, <1>6, <1>7, <1>8 DEF AgentNext, AgentStep

LEMMA InitFilter == AgentInit => FilterInv
  BY NothingMatches DEF AgentInit, StoreInit, NoRead, FilterInv

(* An answer to a question about one document, or with filters, only cites *)
(* chunks that match, whatever is indexed during the search                *)
(* (document_agent_service.py:474-591, vector_store.py:93-147).            *)
THEOREM FilterIsKeptHolds == AgentSpec => []FilterIsKept
<1>1. FilterInv => FilterIsKept BY DEF FilterInv, FilterIsKept, Matches
<1> QED BY <1>1, InitFilter, NextKeepsFilter, PTL DEF AgentSpec

-----------------------------------------------------------------------------
(* CitedInv *)

LEMMA InitCited == AgentInit => CitedInv
  BY DEF AgentInit, CitedInv, Chunks, Ended

LEMMA NextKeepsCited == CitedInv /\ [AgentNext]_vars => CitedInv'
<1> SUFFICES ASSUME CitedInv, [AgentNext]_vars PROVE CitedInv'
  OBVIOUS
<1>1. CASE Answer \/ PlanNextStep \/ Retrieved \/ SearchReturns
           \/ CollectFound \/ ListReturns \/ StoreFails
  BY <1>1 DEF Answer, PlanNextStep, Retrieved, SearchReturns, CollectFound,
              ListReturns, StoreFails, CitedInv, Chunks, Ended
<1>2. CASE Search \/ SearchGet \/ List \/ ListGet
  BY <1>2 DEF Search, SearchGet, List, ListGet, avars, CitedInv, Chunks
<1>3. CASE Rerank
  <2>1. cites' = Chunks(evidence') /\ node' \in {"collect", "plan"}
    BY <1>3 DEF Rerank, AfterRerank
  <2> QED BY <2>1 DEF CitedInv, Chunks
<1>4. CASE GenerateAnswer
  BY <1>4 DEF GenerateAnswer, CitedInv, Chunks, Ended
<1>5. CASE SummarizeDocument
  <2>1. PICK sel : /\ used' = ToSet(sel)
                   /\ cites' = {sel[i] : i \in {j \in DOMAIN sel : j <= CiteLimit}}
    BY <1>5 DEF SummarizeDocument
  <2>2. cites' \subseteq used' BY <2>1 DEF ToSet
  <2>3. node' = "summarize" BY <1>5 DEF SummarizeDocument
  <2> QED BY <2>2, <2>3 DEF CitedInv
<1>6. CASE Summarized
  BY <1>6 DEF Summarized, CitedInv, Chunks, Ended
<1>7. CASE ServiceStep \/ (IndexStep /\ UNCHANGED <<read, svars, avars>>)
  BY <1>7 DEF ServiceStep, avars, CitedInv, Chunks
<1>8. CASE UNCHANGED vars
  BY <1>8 DEF vars, avars, CitedInv, Chunks
<1> QED
  BY <1>1, <1>2, <1>3, <1>4, <1>5, <1>6, <1>7, <1>8 DEF AgentNext, AgentStep

(* Whatever rounds of retrieval came before, an answer cites only chunks   *)
(* it was written from (document_agent_service.py:536-591, 616, 661-680).  *)
THEOREM CitedIsUsedHolds == AgentSpec => []CitedIsUsed
<1>1. CitedInv => CitedIsUsed BY DEF CitedInv, CitedIsUsed
<1> QED BY <1>1, InitCited, NextKeepsCited, PTL DEF AgentSpec

-----------------------------------------------------------------------------
(* RoundsInv *)

LEMMA InitRounds == AgentInit => RoundsInv
  BY AgentAssumption DEF AgentInit, RoundsInv

LEMMA NextKeepsRounds == RoundsInv /\ [AgentNext]_vars => RoundsInv'
<1> SUFFICES ASSUME RoundsInv, [AgentNext]_vars PROVE RoundsInv'
  OBVIOUS
<1>1. MaxLoops \in Nat \ {0} BY AgentAssumption
<1>2. ask.task \in {"qa", "summary"} BY AgentAssumption DEF RoundsInv
<1>3. CASE Answer
  BY <1>1, <1>3 DEF Answer, RoundsInv
<1>4. CASE PlanNextStep
  BY <1>1, <1>4 DEF PlanNextStep, RoundsInv
<1>5. CASE Retrieved
  BY <1>1, <1>5 DEF Retrieved, RoundsInv
<1>6. CASE Rerank
  BY <1>1, <1>2, <1>6 DEF Rerank, AfterRerank, RoundsInv
<1>7. CASE GenerateAnswer \/ CollectFound \/ ListReturns \/ SummarizeDocument
           \/ Summarized \/ StoreFails
  BY <1>1, <1>7 DEF GenerateAnswer, CollectFound, ListReturns,
                    SummarizeDocument, Summarized, StoreFails, RoundsInv
<1>8. CASE SearchReturns
  BY <1>8 DEF SearchReturns, RoundsInv
<1>9. CASE Search \/ SearchGet \/ List \/ ListGet
  BY <1>9 DEF Search, SearchGet, List, ListGet, avars, RoundsInv
<1>10. CASE ServiceStep \/ (IndexStep /\ UNCHANGED <<read, svars, avars>>)
  BY <1>10 DEF ServiceStep, avars, RoundsInv
<1>11. CASE UNCHANGED vars
  BY <1>11 DEF vars, avars, RoundsInv
<1> QED
  BY <1>3, <1>4, <1>5, <1>6, <1>7, <1>8, <1>9, <1>10, <1>11
     DEF AgentNext, AgentStep

(* Whatever the planner decides, a question has at most max_loops rounds of *)
(* retrieval (document_agent_service.py:429-472, 486-534).                  *)
THEOREM RoundsAreBounded == AgentSpec => [](loops <= MaxLoops)
<1>1. RoundsInv => loops <= MaxLoops
  BY AgentAssumption DEF RoundsInv
<1> QED BY <1>1, InitRounds, NextKeepsRounds, PTL DEF AgentSpec

-----------------------------------------------------------------------------
(* The store under the agent *)

(* What the agent does leaves the store alone. *)
LEMMA LeavesStore == ASSUME AgentStep \/ ServiceStep PROVE UNCHANGED cvars
<1>1. CASE AgentStep
  BY <1>1 DEF AgentStep, Answer, PlanNextStep, Search, SearchGet,
              SearchReturns, Retrieved, Rerank, GenerateAnswer, CollectFound,
              List, ListGet, ListReturns, SummarizeDocument, Summarized,
              StoreFails
<1>2. CASE ServiceStep BY <1>2 DEF ServiceStep
<1> QED BY <1>1, <1>2

(* The agent only reads the store: while questions are answered it is the  *)
(* store of VectorStore, and what that module promises holds               *)
(* (docs.py:32-67, document_agent_service.py:837-862, 682-715).            *)
THEOREM AgentReadsStore == AgentSpec => StoreSpec
<1>1. AgentInit => StoreInit BY DEF AgentInit
<1>2. [AgentNext]_vars => [IndexStep]_cvars
  BY LeavesStore DEF AgentNext, vars
<1> QED BY <1>1, <1>2, PTL DEF AgentSpec, StoreSpec

(* A document whose indexing was confirmed is complete for every question  *)
(* that is asked meanwhile (docs.py:52-59).                                *)
THEOREM ConfirmedForQuestions == AgentSpec => []ConfirmedIsComplete
BY AgentReadsStore, ConfirmedIsCompleteHolds, PTL

-----------------------------------------------------------------------------
(* What the agent holds *)

\* A chunk that an edition has.
RealChunk == {c \in Chunk : c[1][2] <= Len(ChunkLengths[c[2]])}

\* A key holds an edition that is long enough to have it.
Sized == \A k \in Keys : chunks[k] # Nothing => k[2] <= Len(ChunkLengths[chunks[k]])

ShelfInv == StoreInv /\ Sized /\ IsFiniteSet(chunkIndex)

\* f gives some of the keys I editions that have them.
Held(I, f) ==
    /\ IsFiniteSet(DOMAIN f) /\ DOMAIN f \subseteq I
    /\ Chunks(f) \subseteq RealChunk

HeldInv ==
    /\ read.left \subseteq chunkIndex
    /\ Held(chunkIndex, read.found)
    /\ Held(chunkIndex, candidates) /\ Held(chunkIndex, evidence)
    /\ cites \cup used \subseteq RealChunk
    /\ listing \in Seq(Docs) /\ pages \in Seq(RealChunk)
    /\ known \subseteq chunkIndex

\* Where in the graph the store is read, and the summary service is at work.
NodeInv ==
    /\ node \in {"idle", "plan", "retrieve", "rerank", "collect", "gather",
                 "summarize", "generate"} \cup Ended
    /\ queries \in 0..MaxQueries
    /\ read.pc \in {"idle", "get"}
    /\ read.pc = "get" =>
         \/ node = "retrieve" /\ queries > 0
         \/ node = "collect" /\ ask.doc # Nothing
         \/ node = "gather" /\ listing # <<>>
    /\ phase # "idle" => node \in {"summarize", "done"}

AgentInv == ShelfInv /\ FilterInv /\ RoundsInv /\ SumInv /\ HeldInv /\ NodeInv

(* Finitely many elements have finitely many images. *)
LEMMA FiniteImage ==
  ASSUME NEW S, IsFiniteSet(S), NEW g
  PROVE  IsFiniteSet({g[x] : x \in S})
<1>1. PICK T : T = {g[x] : x \in S}
  OBVIOUS
<1>2. PICK h : h = [x \in S |-> g[x]]
  OBVIOUS
<1>3. h \in [S -> T] /\ \A t \in T : \E x \in S : h[x] = t
  BY <1>1, <1>2
<1>4. h \in Surjection(S, T)
  BY <1>3 DEF Surjection
<1>5. IsFiniteSet(T)
  BY <1>4, FS_Surjection
<1> QED BY <1>1, <1>5

(* The chunks of finitely many keys, and their documents, are finitely many. *)
LEMMA FiniteChunks ==
  ASSUME NEW f, IsFiniteSet(DOMAIN f)
  PROVE  IsFiniteSet(Chunks(f)) /\ IsFiniteSet(DocsOf(f))
<1> DEFINE g == [k \in DOMAIN f |-> <<k, f[k]>>]
           d == [k \in DOMAIN f |-> k[1]]
<1>1. IsFiniteSet({g[k] : k \in DOMAIN f}) /\ IsFiniteSet({d[k] : k \in DOMAIN f})
  <2> HIDE DEF g, d
  <2> QED BY FiniteImage
<1>2. Chunks(f) = {g[k] : k \in DOMAIN f}
  BY DEF Chunks
<1>3. DocsOf(f) = {d[k] : k \in DOMAIN f}
  BY DEF DocsOf
<1> HIDE DEF g, d
<1> QED BY <1>1, <1>2, <1>3

(* What a chunk is. *)
LEMMA ChunkFacts ==
  ASSUME NEW c \in RealChunk
  PROVE  /\ c[1][1] \in Nat /\ c[1][1] \in Docs /\ c[1][2] \in 1..MaxOrder
         /\ c[2] \in Editions /\ c \in Chunk
         /\ c[1][2] \in 1..Len(ChunkLengths[c[2]])
         /\ c = <<<<c[1][1], c[1][2]>>, c[2]>>
<1>1. c \in Chunk /\ c[1] \in Docs \X (1..MaxOrder) /\ c[2] \in Editions
      /\ c[1][2] <= Len(ChunkLengths[c[2]]) /\ c = <<c[1], c[2]>>
  BY DEF RealChunk, Chunk, Keys
<1>2. c[1][1] \in Docs /\ c[1][2] \in 1..MaxOrder /\ c[1] = <<c[1][1], c[1][2]>>
  BY <1>1
<1>3. Len(ChunkLengths[c[2]]) \in Nat /\ MaxOrder \in Nat
  BY <1>1, EditionLength, StoreAssumption
<1>4. c[1][2] \in 1..Len(ChunkLengths[c[2]])
  BY <1>1, <1>2, <1>3
<1> QED BY <1>1, <1>2, <1>4, AgentAssumption

(* Chunks of one choice of editions, in the order of list_chunks
   (vector_store.py:192-199). *)
LEMMA InOrderFacts ==
  ASSUME NEW I, NEW f, Held(I, f)
  PROVE  /\ InOrder(f) \in Seq(RealChunk)
         /\ ToSet(InOrder(f)) = Chunks(f)
<1> DEFINE S == Chunks(f)
           R == {z \in S \X S : Before(z[1], z[2])}
           n == Cardinality(S)
<1>1. IsFiniteSet(S) /\ S \subseteq RealChunk
  BY FiniteChunks DEF Held
<1>2. \A x, y \in S : <<x, y>> \in R <=> Before(x, y)
  OBVIOUS
<1>3. \A x \in S : x[1][1] \in Nat /\ x[1][2] \in Nat
  <2>1. \A x \in S : x[1][1] \in Nat /\ x[1][2] \in 1..MaxOrder
    BY <1>1, ChunkFacts
  <2> QED BY <2>1
<1>4. IsOrder(R, S)
  <2> HIDE DEF R
  <2>1. \A x \in S : ~Before(x, x)
    BY <1>3 DEF Before
  <2>2. ASSUME NEW x \in S, NEW y \in S, x # y PROVE Before(x, y) \/ Before(y, x)
    <3>1. PICK k \in DOMAIN f, l \in DOMAIN f : x = <<k, f[k]>> /\ y = <<l, f[l]>>
      BY DEF Chunks
    <3>2. k # l /\ x[1] = k /\ y[1] = l
      BY <2>2, <3>1
    <3>3. x[1] = <<x[1][1], x[1][2]>> /\ y[1] = <<y[1][1], y[1][2]>>
      <4>1. \A c \in RealChunk : c[1] = <<c[1][1], c[1][2]>>
        BY DEF RealChunk, Chunk, Keys
      <4> HIDE DEF S
      <4> QED BY <1>1, <4>1
    <3>4. x[1][1] # y[1][1] \/ x[1][2] # y[1][2]
      BY <3>2, <3>3
    <3> HIDE DEF S
    <3> QED BY <1>3, <3>4 DEF Before
  <2>3. \A x, y, z \in S : Before(x, y) /\ Before(y, z) => Before(x, z)
    <3> HIDE DEF S
    <3> QED BY <1>3 DEF Before
  <2> QED BY <1>2, <2>1, <2>2, <2>3 DEF IsOrder
<1>5. \A x \in S : Cardinality({y \in S : Before(y, x)}) = Rank(R, S, x)
  <2> SUFFICES ASSUME NEW x \in S PROVE {y \in S : Before(y, x)} = Below(R, S, x)
    BY DEF Rank
  <2> HIDE DEF R
  <2> QED BY <1>2 DEF Below
<1>6. InOrder(f) = ListedBy(R, S)
  <2> DEFINE A == {<<x, Cardinality({y \in S : Before(y, x)})>> : x \in S}
             B == {<<x, Rank(R, S, x)>> : x \in S}
             g(T) == [i \in 1..n |-> (CHOOSE p \in T : p[2] = i - 1)[1]]
  <2>1. A = B
    BY <1>5
  <2>2. InOrder(f) = g(A)
    BY DEF Sorted, InOrder
  <2>3. ListedBy(R, S) = g(B)
    BY DEF ListedBy
  <2> HIDE DEF A, B, g
  <2> QED BY <2>1, <2>2, <2>3
<1>7. PICK s : s = InOrder(f)
  OBVIOUS
<1>8. s \in Seq(S) /\ Len(s) = n /\ \A x \in S : \E i \in 1..Len(s) : s[i] = x
  <2> HIDE DEF R, S
  <2> QED BY <1>1, <1>4, <1>6, <1>7, SortedLists DEF Lists
<1> HIDE DEF S, R
<1>9. s \in Seq(RealChunk)
  BY <1>1, <1>8
<1>10. ToSet(s) = S
  BY <1>8 DEF ToSet
<1> QED BY <1>7, <1>9, <1>10 DEF S

(* What sorted makes of a list of chunks (document_agent_service.py:720-727). *)
LEMMA ArrangedType ==
  ASSUME NEW w \in Seq(RealChunk)
  PROVE  Arranged(w, Before) \in Seq(RealChunk)
<1>1. PICK n \in Nat : n = Len(w)
  OBVIOUS
<1> DEFINE D == 1..n
           Ahead(i, j) == Before(w[i], w[j]) \/ (~Before(w[j], w[i]) /\ i < j)
           R == {z \in D \X D : Ahead(z[1], z[2])}
<1>2. DOMAIN w = D /\ \A i \in D : w[i] \in RealChunk
  BY <1>1
<1>3. \A i, j \in D : <<i, j>> \in R <=> Ahead(i, j)
  OBVIOUS
<1>4. \A i \in D : w[i][1][1] \in Nat /\ w[i][1][2] \in Nat
  <2>1. \A i \in D : w[i][1][1] \in Nat /\ w[i][1][2] \in 1..MaxOrder
    BY <1>2, ChunkFacts
  <2> QED BY <2>1
<1>5. IsOrder(R, D)
  <2> HIDE DEF R
  <2>1. \A i \in D : ~Ahead(i, i)
    BY <1>4 DEF Before
  <2>2. \A i, j \in D : i # j => Ahead(i, j) \/ Ahead(j, i)
    BY <1>4 DEF Before
  <2>3. ASSUME NEW i \in D, NEW j \in D, NEW k \in D, Ahead(i, j), Ahead(j, k)
        PROVE  Ahead(i, k)
    <3>1. PICK ai \in Nat, aj \in Nat, ak \in Nat, bi \in Nat, bj \in Nat, bk \in Nat :
            /\ ai = w[i][1][1] /\ aj = w[j][1][1] /\ ak = w[k][1][1]
            /\ bi = w[i][1][2] /\ bj = w[j][1][2] /\ bk = w[k][1][2]
      <4>1. w[i][1][1] \in Nat /\ w[j][1][1] \in Nat /\ w[k][1][1] \in Nat
            /\ w[i][1][2] \in Nat /\ w[j][1][2] \in Nat /\ w[k][1][2] \in Nat
        BY <1>4
      <4> QED BY <4>1, Zenon
    <3>2. /\ (ai < aj \/ (ai = aj /\ bi < bj)) <=> Before(w[i], w[j])
          /\ (aj < ai \/ (ai = aj /\ bj < bi)) <=> Before(w[j], w[i])
          /\ (aj < ak \/ (aj = ak /\ bj < bk)) <=> Before(w[j], w[k])
          /\ (ak < aj \/ (aj = ak /\ bk < bj)) <=> Before(w[k], w[j])
      BY <3>1 DEF Before
    <3>3. \/ ai < aj \/ (ai = aj /\ bi < bj)
          \/ ai = aj /\ bi = bj /\ i < j
      <4>1. Before(w[i], w[j]) \/ (~Before(w[j], w[i]) /\ i < j)
        BY <2>3
      <4> HIDE DEF Ahead, D
      <4> QED BY <3>2, <4>1
    <3>4. \/ aj < ak \/ (aj = ak /\ bj < bk)
          \/ aj = ak /\ bj = bk /\ j < k
      <4>1. Before(w[j], w[k]) \/ (~Before(w[k], w[j]) /\ j < k)
        BY <2>3
      <4> HIDE DEF Ahead, D
      <4> QED BY <3>2, <4>1
    <3>5. i \in Nat /\ j \in Nat /\ k \in Nat
      OBVIOUS
    <3>6. \/ ai < ak \/ (ai = ak /\ bi < bk)
          \/ ai = ak /\ bi = bk /\ i < k
      <4>1. i < j /\ j < k => i < k
        BY <3>5
      <4>2. /\ ai < aj /\ aj < ak => ai < ak
            /\ bi < bj /\ bj < bk => bi < bk
        OBVIOUS
      <4> HIDE DEF Ahead, D
      <4> QED BY <3>3, <3>4, <4>1, <4>2
    <3>7. (ai < ak \/ (ai = ak /\ bi < bk)) <=> Before(w[i], w[k])
      BY <3>1 DEF Before
    <3>8. (ak < ai \/ (ai = ak /\ bk < bi)) <=> Before(w[k], w[i])
      BY <3>1 DEF Before
    <3> QED BY <3>1, <3>6, <3>7, <3>8
  <2> HIDE DEF Ahead
  <2> QED BY <1>3, <2>1, <2>2, <2>3 DEF IsOrder
<1>6. IsFiniteSet(D) /\ Cardinality(D) = n
  BY FS_Interval
<1>7. \A x \in D : Cardinality({y \in D : Ahead(y, x)}) = Rank(R, D, x)
  <2> SUFFICES ASSUME NEW x \in D PROVE {y \in D : Ahead(y, x)} = Below(R, D, x)
    BY DEF Rank
  <2> HIDE DEF R, Ahead
  <2> QED BY <1>3 DEF Below
<1>8. PICK at : at = ListedBy(R, D)
  OBVIOUS
<1>9. Arranged(w, Before) = [k \in D |-> w[at[k]]]
  <2> DEFINE A == {<<x, Cardinality({y \in D : Ahead(y, x)})>> : x \in D}
             B == {<<x, Rank(R, D, x)>> : x \in D}
             g(T) == [i \in 1..Cardinality(D) |-> (CHOOSE p \in T : p[2] = i - 1)[1]]
  <2>1. A = B
    BY <1>7
  <2>2. Arranged(w, Before) = [k \in D |-> w[g(A)[k]]]
    BY <1>2 DEF Sorted, Arranged
  <2>3. at = g(B)
    BY <1>8 DEF ListedBy
  <2> HIDE DEF A, B, g
  <2> QED BY <2>1, <2>2, <2>3
<1>10. at \in Seq(D) /\ Len(at) = n
  <2> HIDE DEF R, D
  <2> QED BY <1>5, <1>6, <1>8, SortedLists DEF Lists
<1>11. \A k \in D : w[at[k]] \in RealChunk
  <2>1. \A k \in D : at[k] \in D
    BY <1>10
  <2> QED BY <1>2, <2>1
<1> HIDE DEF R
<1>12. [k \in D |-> w[at[k]]] \in Seq(RealChunk)
  BY <1>11
<1> HIDE DEF D
<1> QED BY <1>9, <1>12

-----------------------------------------------------------------------------
(* Choices of editions *)

LEMMA HeldGrows ==
  ASSUME NEW I, NEW J, I \subseteq J, NEW f, Held(I, f) PROVE Held(J, f)
  BY DEF Held

LEMMA HeldNothing == ASSUME NEW I PROVE Held(I, <<>>)
  BY FS_EmptySet DEF Held, Chunks

(* One chunk more. *)
LEMMA HeldWith ==
  ASSUME NEW I, NEW f, Held(I, f), NEW k \in I, NEW e, <<k, e>> \in RealChunk
  PROVE  Held(I, With(f, k, e))
<1> DEFINE h == With(f, k, e)
<1>1. DOMAIN h = DOMAIN f \cup {k} /\ h[k] = e
      /\ \A j \in DOMAIN f : j # k => h[j] = f[j]
  BY DEF With
<1> HIDE DEF h
<1>2. IsFiniteSet(DOMAIN h)
  BY <1>1, FS_AddElement DEF Held
<1>3. ASSUME NEW j \in DOMAIN h PROVE <<j, h[j]>> \in RealChunk
  <2>1. CASE j = k BY <1>1, <2>1
  <2>2. CASE j # k BY <1>1, <2>2 DEF Held, Chunks
  <2> QED BY <2>1, <2>2
<1>4. DOMAIN h \subseteq I
  BY <1>1 DEF Held
<1>5. Chunks(h) \subseteq RealChunk
  BY <1>3 DEF Chunks
<1>6. Held(I, h)
  BY <1>2, <1>4, <1>5 DEF Held
<1> QED BY <1>6 DEF h

(* The best of them. *)
LEMMA HeldBest ==
  ASSUME NEW I, NEW f, Held(I, f), NEW n, NEW g \in Best(f, n)
  PROVE  Held(I, g)
<1>1. PICK K \in SUBSET DOMAIN f : g = [x \in K |-> f[x]]
  BY DEF Best, kSubset, Restrict
<1>2. IsFiniteSet(K)
  BY FS_Subset DEF Held
<1>3. DOMAIN g = K /\ \A k \in K : g[k] = f[k]
  BY <1>1
<1> QED BY <1>2, <1>3 DEF Held, Chunks

(* What two queries find together. *)
LEMMA HeldCombine ==
  ASSUME NEW I, NEW f, NEW g, Held(I, f), Held(I, g), NEW h \in Combine(f, g)
  PROVE  Held(I, h)
<1>1. DOMAIN h = DOMAIN f \cup DOMAIN g
      /\ \A k \in DOMAIN h : \/ k \in DOMAIN f /\ h[k] = f[k]
                             \/ k \in DOMAIN g /\ h[k] = g[k]
  BY DEF Combine
<1>2. IsFiniteSet(DOMAIN h)
  BY <1>1, FS_Union DEF Held
<1> QED BY <1>1, <1>2 DEF Held, Chunks

(* The documents whose chunks are listed for a summary without a document. *)
LEMMA FoundDocsFacts ==
  ASSUME NEW I, I \subseteq Keys, Held(I, evidence), NEW l \in FoundDocs
  PROVE  /\ l \in Seq(Docs) /\ ToSet(l) \subseteq DocsOf(evidence)
         /\ DOMAIN evidence # {} => l # <<>>
<1> DEFINE D == DocsOf(evidence)
           m == Least(DocLimit, Cardinality(D))
<1>1. IsFiniteSet(D) /\ D \subseteq Docs
  <2>1. \A k \in DOMAIN evidence : k[1] \in Docs
    BY DEF Held, Keys
  <2> QED BY <2>1, FiniteChunks DEF Held, DocsOf
<1>2. Cardinality(D) \in Nat /\ (D # {} => Cardinality(D) # 0)
  BY <1>1, FS_CardinalityType, FS_EmptySet
<1>3. m \in Nat /\ (D # {} => m # 0)
  BY <1>2, AgentAssumption DEF Least
<1>4. PICK E \in SUBSET D : Cardinality(E) = m /\ l \in SetToSeqs(E)
  <2> HIDE DEF D
  <2> QED BY DEF FoundDocs, kSubset, D
<1>5. l \in [1..m -> E]
  BY <1>4 DEF SetToSeqs
<1> HIDE DEF m, D
<1>6. l \in Seq(E) /\ Len(l) = m /\ DOMAIN l = 1..m
  BY <1>3, <1>5
<1>7. l \in Seq(Docs)
  BY <1>1, <1>4, <1>6
<1>8. ToSet(l) \subseteq D
  BY <1>4, <1>5, <1>6 DEF ToSet
<1>9. D # {} => l # <<>>
  BY <1>3, <1>6
<1>10. DOMAIN evidence # {} => D # {}
  BY DEF D, DocsOf
<1> QED BY <1>7, <1>8, <1>9, <1>10 DEF D

(* The chunks that a summary begins with. *)
LEMMA CollectedType ==
  ASSUME NEW I, Held(I, evidence), pages \in Seq(RealChunk)
  PROVE  Collected \in Seq(RealChunk)
<1>1. PICK w \in Seq(RealChunk) : w = IF pages # <<>> THEN pages ELSE InOrder(evidence)
  BY InOrderFacts
<1>2. Arranged(w, Before) \in Seq(RealChunk)
  BY ArrangedType
<1>3. Collected = IF Len(w) <= MaxChunks THEN w ELSE Arranged(w, Before)
  BY <1>1 DEF Collected
<1> QED BY <1>2, <1>3

LEMMA LengthsType ==
  ASSUME NEW w \in Seq(RealChunk) PROVE Lengths(w) \in Seq(Nat)
<1>1. PICK n \in Nat : n = Len(w)
  OBVIOUS
<1>2. ASSUME NEW i \in 1..n PROVE ChunkLengths[w[i][2]][w[i][1][2]] \in Nat
  <2>1. PICK c \in RealChunk : c = w[i]
    BY <1>1
  <2>2. c[2] \in Editions /\ c[1][2] \in 1..Len(ChunkLengths[c[2]])
    BY ChunkFacts
  <2>3. PICK s \in Seq(Nat) : s = ChunkLengths[c[2]]
    BY <2>2, StoreAssumption
  <2>4. s[c[1][2]] \in Nat
    BY <2>2, <2>3
  <2> QED BY <2>1, <2>3, <2>4
<1> QED BY <1>1, <1>2 DEF Lengths

-----------------------------------------------------------------------------
(* The store *)

(* A chunk is written where its edition has one. *)
LEMMA ShelfStep ==
  ASSUME ShelfInv, [IndexStep]_cvars
  PROVE  ShelfInv' /\ chunkIndex \subseteq chunkIndex'
<1>1. StoreInv'
  BY IndexKeeps DEF ShelfInv
<1>2. CASE UNCHANGED cvars
  <2>1. chunks' = chunks /\ chunkIndex' = chunkIndex
    BY <1>2 DEF cvars
  <2> QED BY <1>1, <2>1 DEF ShelfInv, Sized
<1>3. ASSUME NEW x \in Indexers, SetChunk(x)
      PROVE  ShelfInv' /\ chunkIndex \subseteq chunkIndex'
  <2>1. chunks' = [chunks EXCEPT ![KeyOf(x)] = icall[x].ed] /\ chunkIndex' = chunkIndex
        /\ icall[x].pc = "set"
    BY <1>3 DEF SetChunk
  <2>2. chunks \in [Keys -> Editions \cup {Nothing}] /\ Progress(x)
        /\ icall[x].at \in 1..MaxOrder
    BY DEF ShelfInv, StoreInv, WritesTypeOK, IndexRequest
  <2>3. KeyOf(x) = <<icall[x].doc, icall[x].at>> /\ KeyOf(x) \in Keys
        /\ icall[x].at <= Len(ChunkLengths[icall[x].ed])
    BY <2>1, <2>2 DEF Progress, KeyOf, Keys
  <2>4. ASSUME NEW k \in Keys, chunks'[k] # Nothing
        PROVE  k[2] <= Len(ChunkLengths[chunks'[k]])
    <3>1. CASE k = KeyOf(x) BY <2>1, <2>2, <2>3, <3>1
    <3>2. CASE k # KeyOf(x) BY <2>1, <2>2, <2>4, <3>2 DEF ShelfInv, Sized
    <3> QED BY <3>1, <3>2
  <2> QED BY <1>1, <2>1, <2>4 DEF ShelfInv, Sized
<1>4. ASSUME NEW x \in Indexers,
             IndexStart(x) \/ Embedded(x) \/ SAddChunk(x) \/ SetDocMeta(x) \/ IndexFails(x)
      PROVE  ShelfInv' /\ chunkIndex \subseteq chunkIndex'
  <2>1. chunks' = chunks /\ chunkIndex' \in {chunkIndex, chunkIndex \cup {KeyOf(x)}}
    BY <1>4 DEF IndexStart, Embedded, SAddChunk, SetDocMeta, IndexFails
  <2>2. IsFiniteSet(chunkIndex')
    BY <2>1, FS_AddElement DEF ShelfInv
  <2> QED BY <1>1, <2>1, <2>2 DEF ShelfInv, Sized
<1> QED BY <1>2, <1>3, <1>4 DEF IndexStep

(* A listed key holds a chunk of its edition. *)
LEMMA StoredIsReal ==
  ASSUME ShelfInv, NEW k \in chunkIndex
  PROVE  chunks[k] # Nothing /\ <<k, chunks[k]>> \in RealChunk
<1>1. k \in Keys /\ chunks[k] \in Editions \cup {Nothing} /\ chunks[k] # Nothing
  BY DEF ShelfInv, StoreInv, WritesTypeOK, ListedIsStored
<1>2. k[2] <= Len(ChunkLengths[chunks[k]])
  BY <1>1 DEF ShelfInv, Sized
<1> QED BY <1>1, <1>2 DEF RealChunk, Chunk

(* What was confirmed is listed. *)
LEMMA KnownIsListed ==
  ASSUME ShelfInv, Answer PROVE known' \subseteq chunkIndex
<1> SUFFICES ASSUME NEW k \in known' PROVE k \in chunkIndex
  OBVIOUS
<1>1. PICK x \in Indexers :
        k \in Keys /\ icall[x].pc = "ok" /\ icall[x].doc = k[1]
        /\ k[2] <= Len(ChunkLengths[icall[x].ed])
  BY DEF Answer
<1>2. Progress(x)
  BY DEF ShelfInv, StoreInv
<1>3. icall[x].ed \in Editions
  BY <1>1, <1>2 DEF Progress
<1>4. Len(ChunkLengths[icall[x].ed]) \in Nat
  BY <1>3, EditionLength
<1>5. k[2] \in 1..Len(ChunkLengths[icall[x].ed]) /\ k = <<k[1], k[2]>>
  BY <1>1, <1>4, StoreAssumption DEF Keys
<1>6. <<icall[x].doc, k[2]>> \in chunkIndex
  BY <1>1, <1>2, <1>5 DEF Progress, Piped
<1> QED BY <1>1, <1>5, <1>6

-----------------------------------------------------------------------------
(* HeldInv *)

(* What GetChunk does to a listing. *)
LEMMA ListGetIs ==
  ASSUME FilterInv, ListGet
  PROVE  \E k \in read.left :
           read' = [pc |-> "get", left |-> read.left \ {k},
                    found |-> IF chunks[k] # Nothing /\ k[1] = Listed
                              THEN With(read.found, k, chunks[k])
                              ELSE read.found]
<1>1. read = [pc |-> read.pc, left |-> read.left, found |-> read.found]
  BY DEF FilterInv
<1>2. read.pc = "get" BY DEF ListGet, GetChunk
<1>3. PICK k \in read.left :
        read' = [read EXCEPT !.left = @ \ {k},
                  !.found = IF chunks[k] # Nothing /\ k[1] = Listed
                            THEN With(@, k, chunks[k]) ELSE @]
  BY DEF ListGet, GetChunk
<1>4. read' = [pc |-> "get", left |-> read.left \ {k},
               found |-> IF chunks[k] # Nothing /\ k[1] = Listed
                         THEN With(read.found, k, chunks[k]) ELSE read.found]
  BY <1>1, <1>2, <1>3
<1> QED BY <1>4

(* A step that reads no chunk. *)
LEMMA HeldStays ==
  ASSUME HeldInv, chunkIndex \subseteq chunkIndex',
         UNCHANGED <<candidates, evidence, listing, pages>>,
         read' = read \/ read' = NoRead,
         cites' \cup used' \subseteq RealChunk, known' \subseteq chunkIndex'
  PROVE  HeldInv'
<1>1. Held(chunkIndex', candidates) /\ Held(chunkIndex', evidence)
      /\ Held(chunkIndex', read.found) /\ Held(chunkIndex', <<>>)
  BY HeldGrows, HeldNothing DEF HeldInv
<1>2. read'.left \subseteq chunkIndex' /\ Held(chunkIndex', read'.found)
  BY <1>1 DEF HeldInv, NoRead
<1> QED BY <1>1, <1>2 DEF HeldInv

(* The chunks of a search or listing. *)
LEMMA HeldGet ==
  ASSUME AgentInv, SearchGet \/ ListGet PROVE HeldInv'
<1>1. UNCHANGED <<cvars, avars>> BY DEF SearchGet, ListGet
<1>2. PICK k \in read.left :
        \/ read' = [pc |-> "get", left |-> read.left \ {k},
                    found |-> With(read.found, k, chunks[k])]
        \/ read' = [pc |-> "get", left |-> read.left \ {k}, found |-> read.found]
  BY GetIsWith, ListGetIs DEF AgentInv
<1>3. k \in chunkIndex /\ read.left \subseteq chunkIndex /\ Held(chunkIndex, read.found)
  BY DEF AgentInv, HeldInv
<1>4. <<k, chunks[k]>> \in RealChunk
  BY <1>3, StoredIsReal DEF AgentInv
<1>5. Held(chunkIndex, With(read.found, k, chunks[k]))
  BY <1>3, <1>4, HeldWith
<1>6. Held(chunkIndex, read'.found) /\ read'.left \subseteq chunkIndex
  BY <1>2, <1>3, <1>5
<1> QED BY <1>1, <1>6 DEF AgentInv, HeldInv, cvars, avars

LEMMA HeldSearchReturns ==
  ASSUME AgentInv, SearchReturns PROVE HeldInv'
<1>1. PICK hits \in Best(read.found, Wide * Multiplier) :
        candidates' \in Combine(candidates, hits)
  BY DEF SearchReturns
<1>2. Held(chunkIndex, candidates) /\ Held(chunkIndex, read.found)
  BY DEF AgentInv, HeldInv
<1>3. Held(chunkIndex, hits)
  BY <1>2, HeldBest
<1>4. Held(chunkIndex, candidates')
  BY <1>1, <1>2, <1>3, HeldCombine
<1>5. read'.left = {} /\ read'.found = <<>> /\ UNCHANGED cvars
      /\ UNCHANGED <<evidence, cites, listing, pages, used, known>>
  BY DEF SearchReturns, NoRead
<1> QED BY <1>4, <1>5, HeldNothing DEF AgentInv, HeldInv, cvars

LEMMA HeldRerank ==
  ASSUME AgentInv, Rerank PROVE HeldInv'
<1>1. Held(chunkIndex, evidence')
  BY HeldBest DEF AgentInv, HeldInv, Rerank
<1>2. cites' \subseteq RealChunk
  BY <1>1 DEF Rerank, Held, Chunks
<1>3. candidates' = <<>> /\ UNCHANGED <<cvars, read, listing, pages, used, known>>
  BY DEF Rerank
<1> QED BY <1>1, <1>2, <1>3, HeldNothing DEF AgentInv, HeldInv, cvars

LEMMA HeldCollects ==
  ASSUME AgentInv, CollectFound \/ ListReturns PROVE HeldInv'
<1>1. UNCHANGED <<cvars, candidates, evidence, cites, used, known>>
  BY DEF CollectFound, ListReturns
<1>2. chunkIndex \subseteq Keys /\ Held(chunkIndex, evidence) /\ Held(chunkIndex, read.found)
      /\ listing \in Seq(Docs) /\ pages \in Seq(RealChunk)
  BY DEF AgentInv, HeldInv, ShelfInv, StoreInv, WritesTypeOK
<1>3. \A l \in FoundDocs : l \in Seq(Docs)
  BY <1>2, FoundDocsFacts
<1>4. listing' \in Seq(Docs)
  <2>1. CASE listing' \in FoundDocs \/ listing' = <<>>
    <3>1. <<>> \in Seq(Docs)
      OBVIOUS
    <3> QED BY <1>3, <2>1, <3>1
  <2>2. CASE ListReturns /\ node = "gather" /\ listing' = Tail(listing)
    <3>1. listing # <<>>
      BY <2>2 DEF AgentInv, NodeInv, ListReturns, Returned
    <3> QED BY <1>2, <2>2, <3>1
  <2> QED BY <2>1, <2>2 DEF CollectFound, ListReturns
<1>5. pages' \in Seq(RealChunk)
  <2>1. PICK w \in Seq(RealChunk) : w = InOrder(read.found)
    BY <1>2, InOrderFacts
  <2>2. PICK p \in Seq(RealChunk) : p = pages
    BY <1>2
  <2>3. pages' = p \/ pages' = p \o w
    BY <2>1, <2>2 DEF CollectFound, ListReturns
  <2>4. p \o w \in Seq(RealChunk)
    OBVIOUS
  <2> QED BY <2>3, <2>4
<1>6. read' = read \/ read' = NoRead
  BY DEF CollectFound, ListReturns
<1>7. read'.left \subseteq chunkIndex /\ Held(chunkIndex, read'.found)
  BY <1>6, HeldNothing DEF AgentInv, HeldInv, NoRead
<1> QED BY <1>1, <1>4, <1>5, <1>7 DEF AgentInv, HeldInv, cvars

(* The chunks of the summary. *)
LEMMA HeldSummarize ==
  ASSUME AgentInv, SummarizeDocument
  PROVE  HeldInv' /\ SumInv'
<1>1. PICK w : w = Collected
  OBVIOUS
<1>2. w \in Seq(RealChunk)
  BY <1>1, CollectedType DEF AgentInv, HeldInv
<1>3. PICK sel \in Limited(w) :
        /\ Summarize(Lengths(w), Lengths(sel))
        /\ used' = ToSet(sel)
        /\ cites' = {sel[i] : i \in {j \in DOMAIN sel : j <= CiteLimit}}
  BY <1>1 DEF SummarizeDocument
<1>4. sel \in Seq(RealChunk)
  BY <1>2, LimitedTyped
<1>5. SumInv'
  BY <1>2, <1>3, <1>4, LengthsType, SummarizeKeeps DEF AgentInv
<1>6. \A i \in DOMAIN sel : sel[i] \in RealChunk
  BY <1>4
<1>7. cites' \cup used' \subseteq RealChunk
  BY <1>3, <1>6 DEF ToSet
<1>8. UNCHANGED <<cvars, read, candidates, evidence, listing, pages, known>>
  BY DEF SummarizeDocument
<1>9. HeldInv'
  BY <1>7, <1>8 DEF AgentInv, HeldInv, cvars
<1> QED BY <1>5, <1>9

LEMMA NextKeepsHeld == ASSUME AgentInv, [AgentNext]_vars PROVE HeldInv'
<1>1. chunkIndex \subseteq chunkIndex'
  <2>1. [IndexStep]_cvars
    BY LeavesStore DEF AgentNext, vars
  <2> QED BY <2>1, ShelfStep DEF AgentInv
<1>2. known \subseteq chunkIndex' /\ cites \cup used \subseteq RealChunk
  BY <1>1 DEF AgentInv, HeldInv
<1>3. CASE Answer
  <2>1. known' \subseteq chunkIndex'
    BY <1>1, <1>3, KnownIsListed DEF AgentInv
  <2> QED BY <1>1, <1>2, <1>3, <2>1, HeldStays DEF Answer, AgentInv
<1>4. CASE Search \/ List
  <2>1. read'.left = chunkIndex /\ read'.found = <<>> /\ UNCHANGED <<cvars, avars>>
    BY <1>4 DEF Search, List, SMembersChunks
  <2> QED BY <2>1, HeldNothing DEF AgentInv, HeldInv, cvars, avars
<1>5. CASE SearchGet \/ ListGet BY <1>5, HeldGet
<1>6. CASE SearchReturns BY <1>6, HeldSearchReturns
<1>7. CASE Rerank BY <1>7, HeldRerank
<1>8. CASE CollectFound \/ ListReturns BY <1>8, HeldCollects
<1>9. CASE SummarizeDocument BY <1>9, HeldSummarize
<1>10. CASE GenerateAnswer
  <2>1. cites' \cup used' \subseteq RealChunk
    BY <1>2, <1>10 DEF GenerateAnswer, AgentInv, HeldInv, Held
  <2> QED BY <1>1, <1>2, <1>10, <2>1, HeldStays DEF GenerateAnswer, AgentInv
<1>11. CASE PlanNextStep \/ Retrieved \/ Summarized \/ StoreFails
  BY <1>1, <1>2, <1>11, HeldStays
     DEF PlanNextStep, Retrieved, Summarized, StoreFails, AgentInv
<1>12. CASE ServiceStep \/ (IndexStep /\ UNCHANGED <<read, svars, avars>>)
  BY <1>1, <1>2, <1>12, HeldStays DEF ServiceStep, avars, AgentInv
<1>13. CASE UNCHANGED vars
  BY <1>1, <1>2, <1>13, HeldStays DEF vars, avars, AgentInv
<1> QED
  BY <1>3, <1>4, <1>5, <1>6, <1>7, <1>8, <1>9, <1>10, <1>11, <1>12, <1>13
     DEF AgentNext, AgentStep

-----------------------------------------------------------------------------
(* NodeInv and SumInv *)

(* Only a summary that has begun goes on. *)
LEMMA ServiceIsBusy == ASSUME ServiceStep PROVE phase # "idle"
  BY DEF ServiceStep, SumStep, Tick, Acquire, Drafted, DraftTimesOut, Mapped,
         Written, CallTimesOut, Overrun

LEMMA NextKeepsNode == ASSUME AgentInv, [AgentNext]_vars PROVE NodeInv'
<1>0. NodeInv /\ MaxQueries \in Nat
  BY AgentAssumption DEF AgentInv
<1>1. CASE Answer \/ PlanNextStep
  <2>1. queries' \in 0..MaxQueries
    <3>1. 1 \in 0..MaxQueries
      BY AgentAssumption
    <3> QED BY <1>0, <1>1, <3>1 DEF Answer, PlanNextStep, NodeInv
  <2>2. node \in {"idle", "plan"} /\ UNCHANGED <<read, phase>>
        /\ node' \in {"plan", "retrieve", "generate", "failed"}
    BY <1>1 DEF Answer, PlanNextStep, svars
  <2>3. read.pc = "idle" /\ phase = "idle"
    BY <1>0, <2>2 DEF NodeInv
  <2> QED BY <2>1, <2>2, <2>3 DEF NodeInv, Ended
<1>2. CASE Search \/ List
  <2>1. read'.pc = "get" /\ UNCHANGED <<svars, avars>>
    BY <1>2 DEF Search, List, SMembersChunks
  <2>2. \/ node = "retrieve" /\ queries > 0
        \/ node = "collect" /\ ask.doc # Nothing
        \/ node = "gather" /\ listing # <<>>
    BY <1>2 DEF Search, List
  <2> QED BY <1>0, <2>1, <2>2 DEF NodeInv, svars, avars
<1>3. CASE SearchGet \/ ListGet
  <2>1. UNCHANGED <<svars, avars>> /\ read.pc = "get"
    BY <1>3 DEF SearchGet, ListGet, GetChunk
  <2>2. read'.pc = "get"
    BY <1>3, GetIsWith, ListGetIs DEF AgentInv
  <2> QED BY <1>0, <2>1, <2>2 DEF NodeInv, svars, avars
<1>4. CASE SearchReturns
  <2>1. queries > 0 /\ queries' = queries - 1 /\ UNCHANGED <<svars, node>>
        /\ read'.pc = "idle"
    BY <1>0, <1>4 DEF SearchReturns, Returned, NoRead, NodeInv
  <2>2. queries' \in 0..MaxQueries
    BY <1>0, <2>1 DEF NodeInv
  <2> QED BY <1>0, <2>1, <2>2 DEF NodeInv, svars
<1>5. CASE Retrieved \/ Rerank \/ GenerateAnswer
  BY <1>0, <1>5
     DEF Retrieved, Rerank, AfterRerank, GenerateAnswer, NodeInv, svars, Ended
<1>6. CASE CollectFound \/ Summarized
  BY <1>0, <1>6 DEF CollectFound, Summarized, NodeInv, svars, Ended
<1>7. CASE SummarizeDocument
  BY <1>0, <1>7 DEF SummarizeDocument, NodeInv
<1>8. CASE ListReturns \/ StoreFails
  BY <1>0, <1>8 DEF ListReturns, StoreFails, NoRead, NodeInv, svars, Ended
<1>9. CASE ServiceStep
  <2>1. phase # "idle" /\ UNCHANGED <<read, avars>>
    BY <1>9, ServiceIsBusy DEF ServiceStep
  <2> QED BY <1>0, <2>1 DEF NodeInv, avars
<1>10. CASE (IndexStep /\ UNCHANGED <<read, svars, avars>>) \/ UNCHANGED vars
  BY <1>0, <1>10 DEF NodeInv, vars, svars, avars
<1> QED
  BY <1>1, <1>2, <1>3, <1>4, <1>5, <1>6, <1>7, <1>8, <1>9, <1>10
     DEF AgentNext, AgentStep

LEMMA NextKeepsSum == ASSUME AgentInv, [AgentNext]_vars PROVE SumInv'
<1>1. CASE SummarizeDocument BY <1>1, HeldSummarize
<1>2. CASE ServiceStep
  BY <1>2, NextKeeps DEF ServiceStep, SumNext, AgentInv
<1>3. CASE UNCHANGED svars
  BY <1>3, NextKeeps DEF AgentInv
<1>4. AgentStep => SummarizeDocument \/ UNCHANGED svars
  BY DEF AgentStep, Answer, PlanNextStep, Search, SearchGet, SearchReturns,
         Retrieved, Rerank, GenerateAnswer, CollectFound, List, ListGet,
         ListReturns, Summarized, StoreFails
<1>5. UNCHANGED vars => UNCHANGED svars
  BY DEF vars
<1> QED BY <1>1, <1>2, <1>3, <1>4, <1>5 DEF AgentNext

LEMMA NextKeepsAgent == AgentInv /\ [AgentNext]_vars => AgentInv'
<1> SUFFICES ASSUME AgentInv, [AgentNext]_vars PROVE AgentInv'
  OBVIOUS
<1>1. [IndexStep]_cvars
  BY LeavesStore DEF AgentNext, vars
<1>2. ShelfInv'
  BY <1>1, ShelfStep DEF AgentInv
<1>3. FilterInv' /\ RoundsInv'
  BY NextKeepsFilter, NextKeepsRounds DEF AgentInv
<1> QED BY <1>2, <1>3, NextKeepsHeld, NextKeepsNode, NextKeepsSum DEF AgentInv

LEMMA InitAgent == AgentInit => AgentInv
<1> SUFFICES ASSUME AgentInit PROVE AgentInv
  OBVIOUS
<1>1. ShelfInv
  BY StoreInitInv, FS_EmptySet DEF AgentInit, ShelfInv, Sized, StoreInit
<1>2. HeldInv
  BY HeldNothing DEF AgentInit, StoreInit, NoRead, HeldInv
<1>3. NodeInv
  BY AgentAssumption DEF AgentInit, StoreInit, NoRead, SumInit, NodeInv
<1> QED BY <1>1, <1>2, <1>3, InitFilter, InitRounds, InitSumInv
        DEF AgentInit, AgentInv

\* The strengthening holds of every question (document_agent_service.py:
\* 335-735).
THEOREM AgentInvHolds == AgentSpec => []AgentInv
  BY InitAgent, NextKeepsAgent, PTL DEF AgentSpec

(* What an answer cites, or is written from, are chunks that their editions
   have, also when a shorter edition replaces a longer one during the
   question (vector_store.py:93-200). *)
THEOREM CitedChunksExist == AgentSpec => [](cites \cup used \subseteq RealChunk)
<1>1. AgentInv => cites \cup used \subseteq RealChunk
  BY DEF AgentInv, HeldInv
<1> QED BY <1>1, AgentInvHolds, PTL

(* The variables of the agent keep their types: what it holds are keys with
   an edition, the graph is in one of its nodes, and searches, listings and
   summaries only run in the nodes that await them
   (document_agent_service.py:335-735). *)
THEOREM AgentTypeCorrect == AgentSpec => []AgentTypeOK
<1>1. AgentInv => AgentTypeOK
  <2> SUFFICES ASSUME AgentInv PROVE AgentTypeOK
    OBVIOUS
  <2>1. RealChunk \subseteq Chunk
    BY DEF RealChunk
  <2>2. chunkIndex \subseteq Keys
    BY DEF AgentInv, ShelfInv, StoreInv, WritesTypeOK
  <2>3. StoreTypeOK
    <3>1. \A k \in DOMAIN read.found : read.found[k] \in Editions
      <4> SUFFICES ASSUME NEW k \in DOMAIN read.found PROVE read.found[k] \in Editions
        OBVIOUS
      <4>1. <<k, read.found[k]>> \in Chunk
        BY <2>1 DEF AgentInv, HeldInv, Held, Chunks
      <4> QED BY <4>1 DEF Chunk
    <3> QED BY <2>2, <3>1 DEF AgentInv, ShelfInv, StoreInv, WritesTypeOK, StoreTypeOK,
                              HeldInv, Held, NodeInv
  <2>4. Chunks(candidates) \cup Chunks(evidence) \cup cites \cup used \subseteq Chunk
    BY <2>1 DEF AgentInv, HeldInv, Held
  <2>5. listing \in Seq(Docs) /\ pages \in Seq(Chunk) /\ known \subseteq Keys
    BY <2>1, <2>2 DEF AgentInv, HeldInv
  <2>6. SumTypeOK /\ ask \in Questions /\ loops \in 0..MaxLoops
    BY DEF AgentInv, SumInv, FilterInv, RoundsInv
  <2> QED BY <2>3, <2>4, <2>5, <2>6 DEF AgentInv, NodeInv, AgentTypeOK
<1> QED BY <1>1, AgentInvHolds, PTL

-----------------------------------------------------------------------------
(* CollectInv *)

\* The keys that a summary of their documents may not miss.
Needed == known \cup DOMAIN evidence

DocsIn(w) == {c[1][1] : c \in ToSet(w)}

Has(w, k) == \E e \in Editions : <<k, e>> \in ToSet(w)

\* A listing that is under way misses no needed key of its document; the
\* chunks collected so far are those of whole documents, and where there is
\* evidence a document is listed.
CollectInv ==
    /\ node \notin {"gather", "summarize"} \cup Ended => pages = <<>>
    /\ read.pc = "get" /\ node \in {"collect", "gather"} =>
         /\ \A k \in DOMAIN read.found : k[1] = Listed
         /\ \A k \in Needed : k[1] = Listed => k \in read.left \cup DOMAIN read.found
    /\ node = "gather" =>
         /\ ToSet(listing) \subseteq DocsOf(evidence)
         /\ DOMAIN evidence # {} => pages # <<>> \/ listing # <<>>
         /\ \A k \in Needed : k[1] = ask.doc \/ k[1] \in DocsIn(pages) => Has(pages, k)
    /\ KnownIsSummarized

LEMMA InitCollect == AgentInit => CollectInv
  BY DEF AgentInit, StoreInit, NoRead, CollectInv, KnownIsSummarized, Ended

(* A step of a node that collects nothing. *)
LEMMA CollectElsewhere ==
  ASSUME CollectInv, pages' = pages,
         node \notin {"gather", "summarize"} \cup Ended \/ node' \in Ended,
         node' \notin {"gather", "summarize"},
         read'.pc = "get" => node' \notin {"collect", "gather"}
  PROVE  CollectInv'
  BY DEF CollectInv, KnownIsSummarized, Ended

(* A step that leaves the agent alone. *)
LEMMA CollectSame ==
  ASSUME CollectInv, UNCHANGED <<read, avars>> PROVE CollectInv'
  BY DEF CollectInv, Listed, Needed, Has, DocsIn, DocsOf, KnownIsSummarized, avars

(* SMEMBERS: the needed keys are listed. *)
LEMMA CollectSearch ==
  ASSUME AgentInv, CollectInv, Search \/ List PROVE CollectInv'
<1>1. read'.left = chunkIndex /\ read'.found = <<>> /\ UNCHANGED avars
  BY DEF Search, List, SMembersChunks
<1>2. Needed \subseteq chunkIndex
  BY DEF Needed, AgentInv, HeldInv, Held
<1>3. Listed' = Listed /\ Needed' = Needed
  BY <1>1 DEF Listed, Needed, avars
<1>4. \A k \in Needed : k \in read'.left \cup DOMAIN read'.found
  BY <1>1, <1>2
<1>5. DOMAIN read'.found = {}
  BY <1>1
<1> QED BY <1>1, <1>3, <1>4, <1>5
        DEF CollectInv, Has, DocsIn, DocsOf, KnownIsSummarized, avars

(* GET: a needed key of the document is found. *)
LEMMA CollectGet ==
  ASSUME AgentInv, CollectInv, ListGet PROVE CollectInv'
<1>1. PICK k \in read.left :
        read' = [pc |-> "get", left |-> read.left \ {k},
                 found |-> IF chunks[k] # Nothing /\ k[1] = Listed
                           THEN With(read.found, k, chunks[k])
                           ELSE read.found]
  BY ListGetIs DEF AgentInv
<1>2. UNCHANGED avars /\ read.pc = "get" /\ node \in {"collect", "gather"}
  BY DEF ListGet, GetChunk
<1>3. Listed' = Listed /\ Needed' = Needed
  BY <1>2 DEF Listed, Needed, avars
<1>4. chunks[k] # Nothing
  BY StoredIsReal DEF AgentInv, HeldInv
<1>5. /\ read'.left = read.left \ {k}
      /\ DOMAIN read'.found = IF k[1] = Listed THEN DOMAIN read.found \cup {k}
                              ELSE DOMAIN read.found
  BY <1>1, <1>4 DEF With
<1>6. \A j \in DOMAIN read'.found : j[1] = Listed
  BY <1>2, <1>5 DEF CollectInv
<1>7. \A j \in Needed : j[1] = Listed => j \in read'.left \cup DOMAIN read'.found
  BY <1>2, <1>5 DEF CollectInv
<1> QED BY <1>2, <1>3, <1>6, <1>7
        DEF CollectInv, Has, DocsIn, DocsOf, KnownIsSummarized, avars

LEMMA CollectSearchGet ==
  ASSUME CollectInv, SearchGet PROVE CollectInv'
<1>1. node = "retrieve" /\ UNCHANGED avars
  BY DEF SearchGet
<1> QED BY <1>1, CollectElsewhere DEF Ended, avars

(* The chunks that a listing adds to the pages. *)
LEMMA ListedPages ==
  ASSUME AgentInv, CollectInv, ListReturns
  PROVE  /\ ToSet(pages') = ToSet(pages) \cup Chunks(read.found)
         /\ pages' = <<>> => pages = <<>> /\ DOMAIN read.found = {}
<1>1. PICK w \in Seq(RealChunk) : w = InOrder(read.found) /\ ToSet(w) = Chunks(read.found)
  BY InOrderFacts DEF AgentInv, HeldInv
<1>2. PICK p \in Seq(RealChunk) : p = pages
  BY DEF AgentInv, HeldInv
<1>3. pages' = p \o w
  BY <1>1, <1>2 DEF ListReturns
<1>4. ToSet(p \o w) = ToSet(p) \cup ToSet(w)
  <2>1. ASSUME NEW i \in 1..Len(p) PROVE p[i] \in ToSet(p \o w)
    <3>1. i \in 1..Len(p \o w) /\ (p \o w)[i] = p[i]
      OBVIOUS
    <3> QED BY <3>1 DEF ToSet
  <2>2. ASSUME NEW i \in 1..Len(w) PROVE w[i] \in ToSet(p \o w)
    <3>1. Len(p) + i \in 1..Len(p \o w) /\ (p \o w)[Len(p) + i] = w[i]
      OBVIOUS
    <3> QED BY <3>1 DEF ToSet
  <2>3. ASSUME NEW i \in 1..Len(p \o w) PROVE (p \o w)[i] \in ToSet(p) \cup ToSet(w)
    <3>1. CASE i <= Len(p)
      <4>1. i \in 1..Len(p) /\ (p \o w)[i] = p[i]
        BY <3>1
      <4> QED BY <4>1 DEF ToSet
    <3>2. CASE ~(i <= Len(p))
      <4>1. i - Len(p) \in 1..Len(w) /\ (p \o w)[i] = w[i - Len(p)]
        BY <3>2
      <4> QED BY <4>1 DEF ToSet
    <3> QED BY <3>1, <3>2
  <2>4. DOMAIN p = 1..Len(p) /\ DOMAIN w = 1..Len(w) /\ DOMAIN (p \o w) = 1..Len(p \o w)
    OBVIOUS
  <2> QED BY <2>1, <2>2, <2>3, <2>4 DEF ToSet
<1>5. p \o w = <<>> => p = <<>> /\ w = <<>>
  OBVIOUS
<1>6. w = <<>> => DOMAIN read.found = {}
  <2>1. ToSet(<<>>) = {}
    BY DEF ToSet
  <2>2. Chunks(read.found) = {} => DOMAIN read.found = {}
    BY DEF Chunks
  <2> QED BY <1>1, <2>1, <2>2
<1> QED BY <1>1, <1>2, <1>3, <1>4, <1>5, <1>6

LEMMA CollectListReturns ==
  ASSUME AgentInv, CollectInv, ListReturns PROVE CollectInv'
<1>1. /\ read.pc = "get" /\ read.left = {} /\ node \in {"collect", "gather"}
      /\ node' = "gather" /\ UNCHANGED <<ask, evidence, used, known>>
      /\ read'.pc = "idle"
  BY DEF ListReturns, Returned, NoRead
<1>2. Needed' = Needed /\ DocsOf(evidence)' = DocsOf(evidence)
  BY <1>1 DEF Needed, DocsOf
<1>3. /\ ToSet(pages') = ToSet(pages) \cup Chunks(read.found)
      /\ pages' = <<>> => pages = <<>> /\ DOMAIN read.found = {}
  BY ListedPages
<1>4. /\ \A k \in DOMAIN read.found : k[1] = Listed
      /\ \A k \in Needed : k[1] = Listed => k \in DOMAIN read.found
  BY <1>1 DEF CollectInv
<1>5. ASSUME NEW k \in DOMAIN read.found PROVE Has(pages', k)
  <2>1. <<k, read.found[k]>> \in RealChunk
    BY DEF AgentInv, HeldInv, Held, Chunks
  <2>2. read.found[k] \in Editions
    BY <2>1 DEF RealChunk, Chunk
  <2>3. <<k, read.found[k]>> \in ToSet(pages')
    BY <1>3 DEF Chunks
  <2> QED BY <2>2, <2>3 DEF Has
<1>6. \A k : Has(pages, k) => Has(pages', k)
  BY <1>3 DEF Has
<1>7. \A d \in DocsIn(pages') : d = Listed \/ d \in DocsIn(pages)
  BY <1>3, <1>4 DEF DocsIn, Chunks
<1>8. \A k \in Needed : k[1] = Listed => Has(pages', k)
  BY <1>4, <1>5
<1>9. chunkIndex \subseteq Keys /\ Held(chunkIndex, evidence)
  BY DEF AgentInv, HeldInv, ShelfInv, StoreInv, WritesTypeOK
<1>10. CASE node = "collect"
  <2>1. Listed = ask.doc /\ pages = <<>>
    BY <1>10 DEF Listed, CollectInv, Ended
  <2>2. DocsIn(pages) = {}
    BY <2>1 DEF DocsIn, ToSet
  <2>3. \A k \in Needed : k[1] = ask.doc \/ k[1] \in DocsIn(pages') => Has(pages', k)
    BY <1>7, <1>8, <2>1, <2>2
  <2>4. \A l \in FoundDocs : /\ ToSet(l) \subseteq DocsOf(evidence)
                             /\ DOMAIN evidence # {} => l # <<>>
    BY <1>9, FoundDocsFacts
  <2>5. \/ pages' # <<>> /\ listing' = <<>>
        \/ pages' = <<>> /\ listing' \in FoundDocs
    BY <1>10 DEF ListReturns
  <2>6. ToSet(listing') \subseteq DocsOf(evidence)
        /\ (DOMAIN evidence # {} => pages' # <<>> \/ listing' # <<>>)
    BY <2>4, <2>5 DEF ToSet
  <2> QED BY <1>1, <1>2, <2>3, <2>6
          DEF CollectInv, Has, DocsIn, KnownIsSummarized, Ended
<1>11. CASE node = "gather"
  <2>1. listing' = Tail(listing) /\ listing # <<>> /\ Listed = Head(listing)
    BY <1>1, <1>11 DEF ListReturns, Listed, AgentInv, NodeInv
  <2>2. PICK l \in Seq(Docs) : l = listing
    BY DEF AgentInv, HeldInv
  <2>3. ToSet(listing) \subseteq DocsOf(evidence)
    BY <1>11 DEF CollectInv
  <2>4. Head(l) \in ToSet(l) /\ ToSet(Tail(l)) \subseteq ToSet(l)
    <3>1. DOMAIN l = 1..Len(l) /\ 1 \in 1..Len(l) /\ Head(l) = l[1]
          /\ DOMAIN Tail(l) = 1..(Len(l) - 1)
          /\ \A i \in 1..(Len(l) - 1) : Tail(l)[i] = l[i + 1] /\ i + 1 \in 1..Len(l)
      BY <2>1, <2>2
    <3> QED BY <3>1 DEF ToSet
  <2>5. PICK k \in DOMAIN evidence : k[1] = Listed
    BY <2>1, <2>2, <2>3, <2>4 DEF DocsOf
  <2>6. k \in DOMAIN read.found
    BY <1>4, <2>5 DEF Needed
  <2>7. pages' # <<>>
    BY <1>3, <2>6
  <2>8. \A j \in Needed : j[1] = ask.doc \/ j[1] \in DocsIn(pages) => Has(pages, j)
    BY <1>11 DEF CollectInv
  <2>9. \A j \in Needed : j[1] = ask.doc \/ j[1] \in DocsIn(pages') => Has(pages', j)
    BY <1>6, <1>7, <1>8, <2>8
  <2>10. ToSet(listing') \subseteq DocsOf(evidence)
    BY <2>1, <2>2, <2>3, <2>4
  <2> QED BY <1>1, <1>2, <2>7, <2>9, <2>10
          DEF CollectInv, Has, DocsIn, KnownIsSummarized, Ended
<1> QED BY <1>1, <1>10, <1>11

LEMMA CollectFoundDocs ==
  ASSUME AgentInv, CollectInv, CollectFound PROVE CollectInv'
<1>1. /\ node = "collect" /\ ask.doc = Nothing /\ node' = "gather" /\ listing' \in FoundDocs
      /\ UNCHANGED <<read, ask, evidence, pages, used, known>>
  BY DEF CollectFound
<1>2. read.pc # "get" /\ pages = <<>>
  BY <1>1 DEF AgentInv, NodeInv, CollectInv, Ended
<1>3. Needed' = Needed /\ DocsOf(evidence)' = DocsOf(evidence)
  BY <1>1 DEF Needed, DocsOf
<1>4. Needed \subseteq Keys /\ chunkIndex \subseteq Keys /\ Held(chunkIndex, evidence)
  BY DEF Needed, AgentInv, HeldInv, Held, ShelfInv, StoreInv, WritesTypeOK
<1>5. /\ ToSet(listing') \subseteq DocsOf(evidence)
      /\ DOMAIN evidence # {} => listing' # <<>>
  BY <1>1, <1>4, FoundDocsFacts
<1>6. DocsIn(pages) = {}
  BY <1>2 DEF DocsIn, ToSet
<1>7. \A k \in Needed : k[1] # ask.doc
  BY <1>1, <1>4, StoreAssumption DEF Keys
<1> QED BY <1>1, <1>2, <1>3, <1>5, <1>6, <1>7
        DEF CollectInv, Has, DocsIn, KnownIsSummarized, Ended

(* The summary is made of all pages, unless the document is cut. *)
LEMMA CollectSummarize ==
  ASSUME AgentInv, CollectInv, SummarizeDocument PROVE CollectInv'
<1>1. /\ node = "gather" /\ listing = <<>> /\ node' = "summarize"
      /\ UNCHANGED <<read, ask, evidence, pages, known>>
  BY DEF SummarizeDocument
<1>2. read.pc # "get"
  BY <1>1 DEF AgentInv, NodeInv
<1>3. ASSUME Len(pages) <= MaxChunks PROVE used' = ToSet(pages)
  <2>1. PICK sel \in Limited(Collected) : used' = ToSet(sel)
    BY DEF SummarizeDocument
  <2>2. CASE pages # <<>>
    <3>1. Collected = pages
      BY <1>3, <2>2 DEF Collected
    <3>2. Limited(Collected) = {pages}
      BY <1>3, <3>1 DEF Limited
    <3> QED BY <2>1, <3>2
  <2>3. CASE pages = <<>>
    <3>1. DOMAIN evidence = {}
      BY <1>1, <2>3 DEF CollectInv
    <3>2. PICK w \in Seq(RealChunk) : w = InOrder(evidence) /\ ToSet(w) = Chunks(evidence)
      BY InOrderFacts DEF AgentInv, HeldInv
    <3>3. ToSet(w) = {}
      BY <3>1, <3>2 DEF Chunks
    <3>4. w = <<>>
      <4> SUFFICES ASSUME w # <<>> PROVE FALSE
        OBVIOUS
      <4>1. 1 \in DOMAIN w
        OBVIOUS
      <4> QED BY <3>3, <4>1 DEF ToSet
    <3>5. Len(w) <= MaxChunks
      BY <1>3, <2>3, <3>4
    <3>6. Collected = w
      BY <2>3, <3>2, <3>5 DEF Collected
    <3>7. Limited(Collected) = {w}
      BY <3>5, <3>6 DEF Limited
    <3> QED BY <2>1, <2>3, <3>4, <3>7
  <2> QED BY <2>2, <2>3
<1>4. \A k \in Needed : k[1] = ask.doc \/ k[1] \in DocsIn(pages) => Has(pages, k)
  BY <1>1 DEF CollectInv
<1>5. KnownIsSummarized'
  <2> SUFFICES ASSUME Len(pages') <= MaxChunks, NEW k \in known',
                      k[1] = ask'.doc \/ \E c \in used' : c[1][1] = k[1]
               PROVE  \E e \in Editions : <<k, e>> \in used'
    BY DEF KnownIsSummarized
  <2>1. used' = ToSet(pages) /\ k \in Needed
    BY <1>1, <1>3 DEF Needed
  <2>2. k[1] = ask.doc \/ k[1] \in DocsIn(pages)
    BY <1>1, <2>1 DEF DocsIn
  <2> QED BY <1>4, <2>1, <2>2 DEF Has
<1> QED BY <1>1, <1>2, <1>5 DEF CollectInv, Ended

LEMMA NextKeepsCollect ==
  ASSUME AgentInv, CollectInv, [AgentNext]_vars PROVE CollectInv'
<1>1. CASE Answer \/ PlanNextStep \/ SearchReturns \/ Retrieved \/ Rerank
  <2>1. /\ node \notin {"gather", "summarize"} \cup Ended
        /\ node' \notin {"gather", "summarize"}
        /\ pages' = pages
    BY <1>1 DEF Answer, PlanNextStep, SearchReturns, Retrieved, Rerank, AfterRerank, Ended
  <2>2. read'.pc = "get" => node' \notin {"collect", "gather"}
    BY <1>1 DEF Answer, PlanNextStep, SearchReturns, Retrieved, Rerank, NoRead,
                AgentInv, NodeInv
  <2> QED BY <2>1, <2>2, CollectElsewhere
<1>2. CASE GenerateAnswer \/ StoreFails \/ Summarized
  <2>1. node' \in Ended /\ node' \notin {"gather", "summarize", "collect"} /\ pages' = pages
    BY <1>2 DEF GenerateAnswer, StoreFails, Summarized, Ended
  <2> QED BY <2>1, CollectElsewhere
<1>3. CASE Search \/ List BY <1>3, CollectSearch
<1>4. CASE SearchGet BY <1>4, CollectSearchGet
<1>5. CASE ListGet BY <1>5, CollectGet
<1>6. CASE ListReturns BY <1>6, CollectListReturns
<1>7. CASE CollectFound BY <1>7, CollectFoundDocs
<1>8. CASE SummarizeDocument BY <1>8, CollectSummarize
<1>9. CASE ServiceStep \/ (IndexStep /\ UNCHANGED <<read, svars, avars>>) \/ UNCHANGED vars
  BY <1>9, CollectSame DEF ServiceStep, vars
<1> QED BY <1>1, <1>2, <1>3, <1>4, <1>5, <1>6, <1>7, <1>8, <1>9
        DEF AgentNext, AgentStep

(* Whatever clients index while the documents are listed, and in whatever
   order the chunks are got, a summary that is not cut has every chunk that
   was confirmed before the question of the documents it is about
   (document_agent_service.py:682-715, vector_store.py:149-200). *)
THEOREM KnownIsSummarizedHolds == AgentSpec => []KnownIsSummarized
<1>1. CollectInv => KnownIsSummarized
  BY DEF CollectInv
<1>2. AgentInv /\ CollectInv /\ [AgentNext]_vars => CollectInv'
  BY NextKeepsCollect
<1>3. AgentSpec => []CollectInv
  BY <1>2, InitCollect, AgentInvHolds, PTL DEF AgentSpec
<1> QED BY <1>1, <1>3, PTL

(* The summary service keeps its promises for the questions of the agent,
   whose documents have any number of chunks of any length: an answer in time,
   the fallback to the overall limit alone, no group dropped, no more calls at
   once than allowed, and one wave of calls not cut
   (document_agent_service.py:598-616, summary_service.py). *)
THEOREM SummariesForQuestions ==
  AgentSpec => [](/\ InTime /\ FallbackMeansDeadline /\ NoGroupIsDropped
                  /\ AtMostParallel /\ OneWaveIsNotCut)
<1>1. AgentInv => /\ InTime /\ FallbackMeansDeadline /\ NoGroupIsDropped
                  /\ AtMostParallel /\ OneWaveIsNotCut
  BY SumIsInTime, SumIsWhole DEF AgentInv, SumInv
<1> QED BY <1>1, AgentInvHolds, PTL
=============================================================================
