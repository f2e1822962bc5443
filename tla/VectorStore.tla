---------------------------- MODULE VectorStore ----------------------------
(***************************************************************************)
(* The documents: RedisVectorStore (app/core/vector_store.py) and the      *)
(* endpoints that index a document (app/api/v1/endpoints/docs.py), command *)
(* by command.                                                             *)
(*                                                                         *)
(* Indexing a document writes its chunks in a pipeline that is not a       *)
(* transaction: a reader sees it chunk by chunk.  Nothing is ever deleted: *)
(* a document that is indexed again overwrites the chunks that have the    *)
(* same order, and keeps the others.                                       *)
(*                                                                         *)
(* An edition stands for a text and the metadata it was indexed with; a    *)
(* chunk of it is known by its edition and its order, and what matters of  *)
(* its text is the length.                                                 *)
(***************************************************************************)
EXTENDS Naturals, Sequences, FiniteSets

CONSTANTS
    Docs,           \* document ids
    Editions,       \* texts with metadata
    ChunkLengths,   \* edition -> lengths of the chunks it is split into
    MaxOrder,       \* the most chunks of an edition
    Indexers,       \* clients that index documents, one request at a time
    IndexBound,     \* bound: number of indexing requests
    Nothing         \* no chunk, no document

ASSUME StoreAssumption ==
    /\ ChunkLengths \in [Editions -> Seq(Nat) \ {<<>>}]
    /\ Nothing \notin Editions /\ Nothing \notin Docs
    /\ MaxOrder \in Nat \ {0}
    /\ \A e \in Editions : Len(ChunkLengths[e]) \in 1..MaxOrder
    /\ IndexBound \in Nat

VARIABLES
    chunks,     \* vs:<doc>:<chunk>: key -> edition
    chunkIndex, \* vs:index: the keys of all chunks
    docMeta,    \* vs:docmeta:<doc>: edition whose metadata it is
    icall,      \* indexer -> its request
    requests,   \* number of requests so far
    read        \* the search or listing that is under way

cvars == <<chunks, chunkIndex, docMeta, icall, requests>>

\* A chunk's key: its document and its order.
Keys == Docs \X (1..MaxOrder)

IndexRequest ==
    [pc : {"idle", "embed", "set", "sadd", "meta", "ok", "error"},
     doc : Docs \cup {Nothing}, ed : Editions \cup {Nothing}, at : 1..MaxOrder]

\* left: the keys still to be got; found: what the others hold.
NoRead == [pc |-> "idle", left |-> {}, found |-> <<>>]

StoreTypeOK ==
    /\ chunks \in [Keys -> Editions \cup {Nothing}]
    /\ chunkIndex \subseteq Keys
    /\ docMeta \in [Docs -> Editions \cup {Nothing}]
    /\ icall \in [Indexers -> IndexRequest]
    /\ requests \in 0..IndexBound
    /\ read.pc \in {"idle", "get"}
    /\ read.left \subseteq Keys
    /\ DOMAIN read.found \subseteq Keys
    /\ \A k \in DOMAIN read.found : read.found[k] \in Editions

StoreInit ==
    /\ chunks = [k \in Keys |-> Nothing]
    /\ chunkIndex = {}
    /\ docMeta = [d \in Docs |-> Nothing]
    /\ icall = [x \in Indexers |->
         [pc |-> "idle", doc |-> Nothing, ed |-> Nothing, at |-> 1]]
    /\ requests = 0
    /\ read = NoRead

-----------------------------------------------------------------------------
(* _index_text *)

Resting == {"idle", "ok", "error"}

\* The text is split into chunks; now their embeddings are awaited.
IndexStart(x) ==
    /\ icall[x].pc \in Resting /\ requests < IndexBound
    /\ \E d \in Docs, e \in Editions :
         icall' = [icall EXCEPT ![x] =
                     [pc |-> "embed", doc |-> d, ed |-> e, at |-> 1]]
    /\ requests' = requests + 1
    /\ UNCHANGED <<chunks, chunkIndex, docMeta>>

Embedded(x) ==
    /\ icall[x].pc = "embed"
    /\ icall' = [icall EXCEPT ![x].pc = "set"]
    /\ UNCHANGED <<chunks, chunkIndex, docMeta, requests>>

KeyOf(x) == <<icall[x].doc, icall[x].at>>

SetChunk(x) ==
    /\ icall[x].pc = "set"
    /\ chunks' = [chunks EXCEPT ![KeyOf(x)] = icall[x].ed]
    /\ icall' = [icall EXCEPT ![x].pc = "sadd"]
    /\ UNCHANGED <<chunkIndex, docMeta, requests>>

\* Where the pipeline goes on after a chunk was listed.
NextChunk(x) ==
    IF icall[x].at < Len(ChunkLengths[icall[x].ed])
    THEN [icall EXCEPT ![x].pc = "set", ![x].at = icall[x].at + 1]
    ELSE [icall EXCEPT ![x].pc = "meta"]

\* Mutant: only the first chunk of a document is listed.
SAddChunkFirst(x) ==
    /\ icall[x].pc = "sadd"
    /\ chunkIndex' = IF icall[x].at = 1 THEN chunkIndex \cup {KeyOf(x)}
                     ELSE chunkIndex
    /\ icall' = NextChunk(x)
    /\ UNCHANGED <<chunks, docMeta, requests>>

SAddChunk(x) ==
    /\ icall[x].pc = "sadd"
    /\ chunkIndex' = chunkIndex \cup {KeyOf(x)}
    /\ icall' = NextChunk(x)
    /\ UNCHANGED <<chunks, docMeta, requests>>

SetDocMeta(x) ==
    /\ icall[x].pc = "meta"
    /\ docMeta' = [docMeta EXCEPT ![icall[x].doc] = icall[x].ed]
    /\ icall' = [icall EXCEPT ![x].pc = "ok"]
    /\ UNCHANGED <<chunks, chunkIndex, requests>>

\* The embeddings or Redis fail: 502, what was written stays.
IndexFails(x) ==
    /\ icall[x].pc \notin Resting
    /\ icall' = [icall EXCEPT ![x].pc = "error"]
    /\ UNCHANGED <<chunks, chunkIndex, docMeta, requests>>

IndexStep ==
    \E x \in Indexers :
        IndexStart(x) \/ Embedded(x) \/ SetChunk(x) \/ SAddChunk(x)
        \/ SetDocMeta(x) \/ IndexFails(x)

StoreSpec == StoreInit /\ [][IndexStep]_cvars

-----------------------------------------------------------------------------
(* similarity_search and list_chunks: SMEMBERS, then a GET per key, in the *)
(* arbitrary order of a set                                                *)

SMembersChunks ==
    /\ read.pc = "idle"
    /\ read' = [pc |-> "get", left |-> chunkIndex, found |-> <<>>]

\* What was found, and the edition e under the key k.
With(found, k, e) ==
    [j \in DOMAIN found \cup {k} |-> IF j = k THEN e ELSE found[j]]

\* Wanted: what the caller's document id or filters say of a key and the
\* edition found there.
GetChunk(Wanted(_, _)) ==
    /\ read.pc = "get"
    /\ \E k \in read.left :
         read' = [read EXCEPT !.left = @ \ {k},
                   !.found = IF chunks[k] # Nothing /\ Wanted(k, chunks[k])
                             THEN With(@, k, chunks[k]) ELSE @]

\* The call returns what it has found.
Returned == read.pc = "get" /\ read.left = {}

-----------------------------------------------------------------------------
(* Properties *)

\* A key that the index lists is there: a reader that has SMEMBERS' answer
\* finds every chunk of it, however the pipeline of an indexing request is
\* interleaved or interrupted (vector_store.py:61-62).
ListedIsStored == \A k \in chunkIndex : chunks[k] # Nothing

\* A confirmed document is complete: all its chunks are listed and, when no
\* other client indexes it, in the confirmed edition (docs.py:52-59).
ConfirmedIsComplete ==
    \A x \in Indexers : icall[x].pc = "ok" =>
        \A i \in 1..Len(ChunkLengths[icall[x].ed]) :
            LET k == <<icall[x].doc, i>> IN
            /\ k \in chunkIndex
            /\ (\A y \in Indexers : y = x) => chunks[k] = icall[x].ed
=============================================================================
