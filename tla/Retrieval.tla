----------------------------- MODULE Retrieval -----------------------------
(***************************************************************************)
(* What becomes of the chunks of a document (Chunking) when it is searched *)
(* and summarised: they are reranked (app/services/reranker.py), merged    *)
(* (app/services/retrieval_postprocess.py), and, for a summary, the chunks *)
(* of the documents that were found are cut to MaxChunks                   *)
(* (_limit_summary_chunks in app/services/document_agent_service.py).      *)
(*                                                                         *)
(* One text is chunked, and indexed under every id of Docs.  A candidate   *)
(* is a chunk of a document with the score it was found with, a number of  *)
(* 1200ths, which makes relevance exact.  The order the fallback scores    *)
(* give is any order, and the model's answer any sequence of ids.          *)
(*                                                                         *)
(* The rewriting of a question into queries (QueryRewrite) reads nothing   *)
(* of all that, and is a branch of its own at the beginning: a candidate   *)
(* may have been found with any query.                                     *)
(*                                                                         *)
(* Candidates have different (doc_id, chunk_id), so _dedupe_chunks finds   *)
(* nothing to remove: RerankIsComplete says that none comes twice.         *)
(***************************************************************************)
EXTENDS Chunking, QueryRewrite

CONSTANTS
    Docs,           \* document ids, as they sort
    DocLimit,       \* documents of a summary (3 in _collect_summary_chunks)
    Scores,         \* what similarity_search may score a chunk with
    MaxCandidates,  \* bound: candidates of a search
    MaxIds,         \* bound: ids in the answer of the reranking model
    TopK,           \* top_k
    RerankMax,      \* rerank_max_candidates
    MergeLength,    \* characters of a merged pair (2400 in _can_merge)
    MaxChunks       \* summary_max_chunks

ASSUME RetrievalAssumption ==
    /\ Docs \subseteq Nat /\ IsFiniteSet(Docs)
    /\ Scores \subseteq 0..1200
    /\ {DocLimit, TopK, RerankMax, MaxChunks} \subseteq Nat \ {0}
    /\ {MaxCandidates, MaxIds, MergeLength} \subseteq Nat

VARIABLES
    stored,     \* metadata and length of the chunks that are indexed
    candidates, \* what the search has found: document, order and score
    reranked,   \* what the reranker has left, in its order
    results,    \* retrieved_chunks; from..to are the orders of the chunks
                \* that were merged into one
    selected    \* the chunks that the summary is made from: <<doc, order>>

rvars == <<stored, candidates, reranked, results, selected>>
vars == <<kvars, rvars, qvars>>

RetrievalInit ==
    /\ ChunkInit /\ RewriteInit
    /\ stored = <<>> /\ candidates = {}
    /\ reranked = <<>> /\ results = <<>> /\ selected = <<>>

RewriteQuestion ==
    /\ stage = "scan" /\ lines = 0
    /\ stage' = "rewritten"
    /\ AskQuestion
    /\ UNCHANGED <<scanned, next, pending, chunks, rvars>>

\* The chunks are indexed; of the text nothing else is kept.
Index ==
    /\ stage = "ready" /\ chunks # <<>>
    /\ stage' = "stored"
    /\ stored' = [k \in DOMAIN chunks |->
         [len |-> chunks[k].len, kind |-> chunks[k].kind,
          page |-> chunks[k].page, path |-> chunks[k].path]]
    /\ lines' = 0 /\ texts' = <<>> /\ page' = 1 /\ headings' = <<>>
    /\ blocks' = <<>> /\ next' = 1 /\ chunks' = <<>>
    /\ UNCHANGED <<paragraph, pending, candidates, reranked, results, selected, qvars>>

Orders == 0..(Len(stored) - 1)
At(order) == stored[order + 1]

\* The searches of all queries, combined: a chunk once, with one score.
Recall ==
    /\ stage = "stored"
    /\ stage' = "recalled"
    /\ \E n \in 0..Min({MaxCandidates, Cardinality(Docs) * Len(stored)}) :
         \E found \in kSubset(n, Docs \X Orders) :
         \E score \in [found -> Scores] :
           candidates' = {[doc |-> c[1], order |-> c[2], score |-> score[c]] : c \in found}
    /\ UNCHANGED <<scanned, next, pending, chunks, stored, reranked, results,
                   selected, qvars>>

-----------------------------------------------------------------------------
(* Reranker.rerank *)

\* How many chunks the model is shown.
Shown(ranked) == Min({Len(ranked), Max({TopK, RerankMax})})

\* Mutant: an id that the model repeats counts again.
NamedTwice(ids, n) == Pick(ids, {i \in DOMAIN ids : ids[i] <= n})

\* The candidates that the model's answer names, each where it comes first.
Named(ids, n) == Pick(ids, {i \in NewAt(ids) : ids[i] <= n})

\* _llm_rerank: those first, then the other candidates, then the chunks that
\* the model was not shown.
Reordered(ranked, ids) ==
    LET first == Named(ids, Shown(ranked))
        order == first \o Ascending(DOMAIN ranked \ ToSet(first))
    IN [k \in DOMAIN order |-> ranked[order[k]]]

\* No answer, an answer without a valid id and a time-out leave the order as
\* it is, as does reranking by score alone (rerank_enabled = False).
Rerank ==
    /\ stage = "recalled"
    /\ stage' = "reranked"
    /\ \E ranked \in SetToSeqs(candidates) :
         \E ids \in IF Len(ranked) <= 1 THEN {<<>>}
                   ELSE BoundedSeq(1..(Shown(ranked) + 1), MaxIds) :
           reranked' = First(Reordered(ranked, ids), TopK)
    /\ UNCHANGED <<scanned, next, pending, chunks, stored, candidates, results,
                   selected, qvars>>

-----------------------------------------------------------------------------
(* postprocess_retrieved_chunks *)

SameSection(l, r) ==
    l.path # <<>> /\ r.path # <<>> /\ Last(l.path) = Last(r.path)
SamePath(l, r) == l.path # <<>> /\ l.path = r.path
SamePage(l, r) == l.page = r.page
SameKind(l, r) == l.kind = r.kind
NoSection(l, r) == l.path = <<>> \/ r.path = <<>>

\* What _can_merge says of two neighbours.
Fit(l, r) ==
    /\ l.len + r.len <= MergeLength
    /\ IF "table" \in {l.kind, r.kind}
       THEN SameKind(l, r) /\ (SamePath(l, r) \/ SamePage(l, r) \/ SameSection(l, r))
       ELSE \/ SameSection(l, r) \/ SamePath(l, r)
            \/ SamePage(l, r) /\ SameKind(l, r)
            \/ NoSection(l, r) /\ SameKind(l, r)

\* Mutant: the document is not compared.
CanMergeAnyDoc(l, r) == r.from = l.from + 1 /\ Fit(l, r)

\* The order of a merged pair is that of its first chunk, and it is with this
\* one that the order of the next chunk is compared.
CanMerge(l, r) == l.doc = r.doc /\ r.from = l.from + 1 /\ Fit(l, r)

MergePair(l, r) ==
    [l EXCEPT !.to = r.to, !.score = Max({l.score, r.score}),
              !.len = l.len + 2 + r.len,
              !.path = IF l.path = <<>> THEN r.path ELSE l.path]

ResultOf(c) ==
    LET s == At(c.order) IN
    [doc |-> c.doc, from |-> c.order, to |-> c.order, score |-> c.score,
     len |-> s.len, kind |-> s.kind, page |-> s.page, path |-> s.path]

InDocument(a, b) == a.doc < b.doc \/ (a.doc = b.doc /\ a.from < b.from)

\* One more result, merged with the last one if that can be.
Add(done, r) ==
    IF done # <<>> /\ CanMerge(Last(done), r)
    THEN Append(Front(done), MergePair(Last(done), r))
    ELSE Append(done, r)

\* _merge_adjacent_chunks
Merged ==
    LET ordered == Sorted({ResultOf(c) : c \in ToSet(reranked)}, InDocument)
        merged[k \in 0..Len(ordered)] ==
          IF k = 0 THEN <<>> ELSE Add(merged[k - 1], ordered[k])
    IN merged[Len(ordered)]

Better(a, b) == a.score > b.score \/ (a.score = b.score /\ InDocument(a, b))

Postprocess ==
    /\ stage = "reranked"
    /\ stage' = "retrieved"
    /\ results' = First(Sorted(ToSet(Merged), Better), TopK)
    /\ UNCHANGED <<scanned, next, pending, chunks, stored, candidates, reranked,
                   selected, qvars>>

-----------------------------------------------------------------------------
(* _collect_summary_chunks and _limit_summary_chunks *)

\* A chunk's relevance, by its distance to a result, and whether it is one.
\* A merged result has a chunk id of its own, which is no chunk's.
Relevance(c) ==
    LET near(r) ==
          LET d == IF c[2] < r.from THEN r.from - c[2] ELSE c[2] - r.from IN
          r.score \div (1 + d)
          + (IF r.from = c[2] /\ r.to = c[2] THEN 1200 ELSE 0)
          + (IF SameSection(At(c[2]), r) THEN 60 ELSE 0)
    IN Max({0} \cup {near(r) : r \in {x \in ToSet(results) : x.doc = c[1]}})

Earlier(a, b) == a[1] < b[1] \/ (a[1] = b[1] /\ a[2] < b[2])

\* Of chunks with their relevance, which comes first.
MoreRelevant(a, b) == a[2] > b[2] \/ (a[2] = b[2] /\ Earlier(a[1], b[1]))

\* _rank_summary_chunks_by_relevance: the chunks of w that have any, best
\* first; without results, all of them.
Ranked(w) ==
    LET rated == {<<c, Relevance(c)>> : c \in ToSet(w)}
        order == Sorted({x \in rated : x[2] > 0}, MoreRelevant)
    IN IF results = <<>> THEN w ELSE [k \in DOMAIN order |-> order[k][1]]

Share == Max({1, (6 * MaxChunks + 5) \div 10})

\* Python's round of a/b: a half goes to the even number.
Round(a, b) ==
    LET q == a \div b  r == a % b IN
    IF 2 * r < b THEN q ELSE IF 2 * r > b THEN q + 1 ELSE q + (q % 2)

\* _coverage_sample_chunks of more chunks than MaxChunks.
Coverage(w) ==
    IF MaxChunks = 1 THEN <<w[1]>>
    ELSE [k \in 1..MaxChunks |->
            w[1 + Round((k - 1) * (Len(w) - 1), MaxChunks - 1)]]

\* Mutant: a chunk that was selected already is selected again.
SelectAgain(s) == ToSet(First(s, MaxChunks))

\* The first MaxChunks different chunks of s.
Select(s) == ToSet(First(Pick(s, NewAt(s)), MaxChunks))

\* w: the chunks, ordered.
Limit(w) ==
    Sorted(Select(First(Ranked(w), Share) \o Coverage(w) \o w), Earlier)

\* The documents of the results.
Found ==
    LET ds == [i \in DOMAIN results |-> results[i].doc]
    IN First(Pick(ds, NewAt(ds)), DocLimit)

\* A question about one document has results from it only.
Asked == {<<d>> : d \in {x \in Docs : \A i \in DOMAIN results : results[i].doc = x}}

\* The chunks of these documents, one document after the other.
ListChunks(ds) ==
    LET n == Len(stored)
    IN [k \in 1..(Len(ds) * n) |-> <<ds[(k - 1) \div n + 1], (k - 1) % n>>]

CollectSummary ==
    /\ stage = "retrieved"
    /\ stage' = "selected"
    /\ \E ds \in {Found} \cup Asked :
         LET w == ListChunks(ds) IN
         selected' = IF Len(w) <= MaxChunks THEN w
                     ELSE Limit(Sorted(ToSet(w), Earlier))
    /\ UNCHANGED <<scanned, next, pending, chunks, stored, candidates, reranked,
                   results, qvars>>

RetrievalNext ==
    \/ RewriteQuestion
    \/ ChunkNext /\ UNCHANGED <<rvars, qvars>>
    \/ Index \/ Recall \/ Rerank \/ Postprocess \/ CollectSummary

RetrievalSpec == RetrievalInit /\ [][RetrievalNext]_vars

-----------------------------------------------------------------------------
(* Properties *)

\* Whatever the model answers (ids twice, ids of no candidate, some ids only),
\* reranking leaves as many different candidates as there are or top_k allows
\* (reranker.py:72-95).
RerankIsComplete ==
    stage = "reranked" =>
        /\ ToSet(reranked) \subseteq candidates
        /\ Cardinality(ToSet(reranked)) = Len(reranked)
        /\ Len(reranked) = Min({TopK, Cardinality(candidates)})

\* Merging keeps every chunk that the reranker has left, in one result, which
\* is a run of chunks of one document, has the best score of them and is no
\* longer than the model's context was planned for; the best result comes
\* first (retrieval_postprocess.py:10-27, 43-128).
ResultsAreWhole ==
    stage = "retrieved" =>
        /\ \A c \in ToSet(reranked) :
             Cardinality({i \in DOMAIN results :
                 results[i].doc = c.doc /\ c.order \in results[i].from..results[i].to}) = 1
        /\ \A r \in ToSet(results) :
             LET run == {c \in ToSet(reranked) :
                           c.doc = r.doc /\ c.order \in r.from..r.to} IN
             /\ Cardinality(run) = r.to - r.from + 1
             /\ r.score = Max({c.score : c \in run})
             /\ r.from < r.to => r.len <= MergeLength + 2
        /\ \A i \in 1..(Len(results) - 1) : results[i].score >= results[i + 1].score

\* The chunks of a summary: as many as allowed and no more, none twice, those
\* of one document together and in order; and, as long as the share for
\* relevant chunks has room for all results, every chunk that is a result
\* itself, of the documents that are read (document_agent_service.py:717-835).
SelectionIsSound ==
    stage = "selected" =>
        LET docs == {c[1] : c \in ToSet(selected)}
            all == docs \X Orders
        IN
        /\ Cardinality(ToSet(selected)) = Len(selected)
        /\ Len(selected) <= MaxChunks
        /\ selected # <<>> => Len(selected) >= Min({MaxChunks, Cardinality(all)})
        /\ results # <<>> => selected # <<>>
        /\ \A i, j \in DOMAIN selected : i < j /\ selected[i][1] = selected[j][1] =>
             /\ selected[i][2] < selected[j][2]
             /\ \A k \in i..j : selected[k][1] = selected[i][1]
        /\ Len(results) <= Share => \A r \in ToSet(results) :
             r.from = r.to /\ r.doc \in ToSet(Found) => <<r.doc, r.from>> \in ToSet(selected)
=============================================================================
