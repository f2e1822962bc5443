--------------------------- MODULE DocumentAgent ---------------------------
(***************************************************************************)
(* One question to the document agent (app/services/                       *)
(* document_agent_service.py): the nodes of its graph and the edges        *)
(* between them, over a vector store that is indexed meanwhile             *)
(* (VectorStore) and, for a summary, the summary service (Summaries).      *)
(*                                                                         *)
(* The models decide: the planner retrieves or responds, query rewriting   *)
(* returns some queries, the reranker some order, and any of them may      *)
(* raise.  What raises in a node that does not catch it ends the question  *)
(* with an error.  Scores are abstracted: any chunks may be the best.      *)
(***************************************************************************)
EXTENDS VectorStore, Summaries, Lists, FiniteSetsExt, SequencesExt

CONSTANTS
    Questions,      \* task, doc_id of doc_filters, editions that match the rest
    Tagged,         \* editions whose metadata name their document as doc_id
    TopK,           \* top_k of the request
    SummaryTopK,    \* 8 in _retrieve_documents
    Multiplier,     \* retrieval_candidate_multiplier
    MaxQueries,     \* multi_query_count
    MaxLoops,       \* max_loops
    CiteLimit,      \* 8 in _summarize_document
    DocLimit        \* 3 in _collect_summary_chunks

ASSUME AgentAssumption ==
    /\ Docs \subseteq Nat
    /\ Questions \subseteq [task : {"qa", "summary"}, doc : Docs \cup {Nothing},
                       match : SUBSET Editions]
    /\ Tagged \subseteq Editions
    /\ {TopK, SummaryTopK, Multiplier, MaxQueries, MaxLoops, CiteLimit, DocLimit}
         \subseteq Nat \ {0}

VARIABLES
    node,       \* node of the graph
    ask,        \* the question
    loops,      \* loop_count
    queries,    \* queries still to be searched for
    candidates, \* retrieval_candidates: key -> edition
    evidence,   \* retrieved_chunks: key -> edition
    cites,      \* citations: chunks
    listing,    \* documents still to be listed for the summary
    pages,      \* chunks collected for the summary, in order
    used,       \* history: the chunks the answer was written from
    known       \* history: keys confirmed before the question was asked

avars == <<node, ask, loops, queries, candidates, evidence, cites, listing,
           pages, used, known>>

vars == <<cvars, read, svars, avars>>

Chunk == Keys \X Editions

\* The chunks of a function from keys to editions.
Chunks(f) == {<<k, f[k]>> : k \in DOMAIN f}

Ended == {"done", "failed"}

AgentTypeOK ==
    /\ StoreTypeOK /\ SumTypeOK
    /\ node \in {"idle", "plan", "retrieve", "rerank", "collect", "gather",
                 "summarize", "generate"} \cup Ended
    /\ ask \in Questions
    /\ loops \in 0..MaxLoops
    /\ queries \in 0..MaxQueries
    /\ Chunks(candidates) \cup Chunks(evidence) \cup cites \cup used
         \subseteq Chunk
    /\ listing \in Seq(Docs) /\ pages \in Seq(Chunk)
    /\ known \subseteq Keys
    /\ read.pc = "get" => node \in {"retrieve", "collect", "gather"}
    /\ phase # "idle" => node \in {"summarize", "done"}

AgentInit ==
    /\ StoreInit /\ SumInit
    /\ node = "idle"
    /\ ask \in Questions
    /\ loops = 0 /\ queries = 0
    /\ candidates = <<>> /\ evidence = <<>>
    /\ cites = {} /\ used = {}
    /\ listing = <<>> /\ pages = <<>>
    /\ known = {}

-----------------------------------------------------------------------------
(* prepare_context, classify_task, plan_next_step *)

\* Which task it is, is read off the words of the question.
Answer ==
    /\ node = "idle"
    /\ known' = {k \in Keys : \E x \in Indexers :
                   icall[x].pc = "ok" /\ icall[x].doc = k[1]
                   /\ k[2] <= Len(ChunkLengths[icall[x].ed])}
    /\ \/ ask.task = "summary" /\ node' = "retrieve" /\ queries' = 1
       \/ ask.task = "qa" /\ node' = "plan" /\ UNCHANGED queries
    /\ UNCHANGED <<cvars, read, svars, ask, loops, candidates, evidence, cites,
                   listing, pages, used>>

\* Mutant: the planner is asked without a bound.
PlanUnbounded ==
    /\ node = "plan"
    /\ \/ node' = "retrieve" /\ queries' \in 0..MaxQueries
       \/ node' \in {"generate", "failed"} /\ UNCHANGED queries
    /\ UNCHANGED <<cvars, read, svars, ask, loops, candidates, evidence, cites,
                   listing, pages, used, known>>

\* A decision of the planner; no more retrieval after MaxLoops rounds.  The
\* rewriting of the query gives some queries (none if it is blank).
PlanNextStep ==
    /\ node = "plan"
    /\ \/ /\ loops < MaxLoops
          /\ node' = "retrieve" /\ queries' \in 0..MaxQueries
       \/ node' = "generate" /\ UNCHANGED queries
       \/ /\ loops < MaxLoops
          /\ node' = "failed" /\ UNCHANGED queries
    /\ UNCHANGED <<cvars, read, svars, ask, loops, candidates, evidence, cites,
                   listing, pages, used, known>>

-----------------------------------------------------------------------------
(* retrieve_documents: one search per query *)

Wide == IF ask.task = "summary" /\ TopK < SummaryTopK THEN SummaryTopK ELSE TopK

\* Mutant: only the document id is compared.
MatchesDocOnly(k, e) ==
    ask.doc = Nothing \/ (e \in Tagged /\ k[1] = ask.doc)

\* The filters are compared with the metadata of the chunk.
Matches(k, e) ==
    /\ ask.doc = Nothing \/ (e \in Tagged /\ k[1] = ask.doc)
    /\ e \in ask.match

Search ==
    /\ node = "retrieve" /\ queries > 0
    /\ SMembersChunks
    /\ UNCHANGED <<cvars, svars, avars>>

SearchGet ==
    /\ node = "retrieve"
    /\ GetChunk(Matches)
    /\ UNCHANGED <<cvars, svars, avars>>

Least(m, n) == IF m < n THEN m ELSE n

\* The best n of the chunks in f.
Best(f, n) ==
    {Restrict(f, K) : K \in kSubset(Least(n, Cardinality(DOMAIN f)), DOMAIN f)}

\* A chunk that two queries find counts once, with its better score; the
\* searches may have seen different editions of it.
Combine(f, g) ==
    {h \in [DOMAIN f \cup DOMAIN g -> Editions] :
        \A k \in DOMAIN h : \/ k \in DOMAIN f /\ h[k] = f[k]
                            \/ k \in DOMAIN g /\ h[k] = g[k]}

SearchReturns ==
    /\ node = "retrieve" /\ Returned
    /\ read' = NoRead
    /\ \E hits \in Best(read.found, Wide * Multiplier) :
         candidates' \in Combine(candidates, hits)
    /\ queries' = queries - 1
    /\ UNCHANGED <<cvars, svars, node, ask, loops, evidence, cites, listing,
                   pages, used, known>>

\* Mutant: the round is not counted.
RetrievedUncounted ==
    /\ node = "retrieve" /\ queries = 0
    /\ node' = "rerank"
    /\ UNCHANGED <<cvars, read, svars, ask, loops, queries, candidates,
                   evidence, cites, listing, pages, used, known>>

Retrieved ==
    /\ node = "retrieve" /\ queries = 0
    /\ loops' = loops + 1
    /\ node' = "rerank"
    /\ UNCHANGED <<cvars, read, svars, ask, queries, candidates, evidence,
                   cites, listing, pages, used, known>>

-----------------------------------------------------------------------------
(* rerank_results *)

AfterRerank == IF ask.task = "summary" THEN "collect" ELSE "plan"

\* Mutant: the citations of an earlier round are kept.
RerankAndAdd ==
    /\ node = "rerank"
    /\ evidence' \in Best(candidates, Wide)
    /\ cites' = cites \cup Chunks(evidence')
    /\ candidates' = <<>>
    /\ node' = AfterRerank
    /\ UNCHANGED <<cvars, read, svars, ask, loops, queries, listing, pages,
                   used, known>>

\* An error of the reranking model is caught.  Chunks that are merged with
\* their neighbours afterwards stay, in one citation.
Rerank ==
    /\ node = "rerank"
    /\ evidence' \in Best(candidates, Wide)
    /\ cites' = Chunks(evidence')
    /\ candidates' = <<>>
    /\ node' = AfterRerank
    /\ UNCHANGED <<cvars, read, svars, ask, loops, queries, listing, pages,
                   used, known>>

-----------------------------------------------------------------------------
(* generate_answer *)

GenerateAnswer ==
    /\ node = "generate"
    /\ \/ node' = "done" /\ used' = Chunks(evidence)
       \/ node' = "failed" /\ UNCHANGED used
    /\ UNCHANGED <<cvars, read, svars, ask, loops, queries, candidates,
                   evidence, cites, listing, pages, known>>

-----------------------------------------------------------------------------
(* summarize_document *)

DocsOf(f) == {k[1] : k \in DOMAIN f}

\* The documents that were found, at most DocLimit, in some order.
FoundDocs ==
    UNION {SetToSeqs(D) : D \in kSubset(Least(DocLimit, Cardinality(DocsOf(evidence))),
                                        DocsOf(evidence))}

\* Without a document id: the documents of the evidence.
CollectFound ==
    /\ node = "collect" /\ ask.doc = Nothing
    /\ node' = "gather" /\ listing' \in FoundDocs
    /\ UNCHANGED <<cvars, read, svars, ask, loops, queries, candidates,
                   evidence, cites, pages, used, known>>

Before(a, b) ==
    \/ a[1][1] < b[1][1]
    \/ a[1][1] = b[1][1] /\ a[1][2] < b[1][2]

InOrder(f) == Sorted(Chunks(f), Before)

\* list_chunks of the document of the filter, or of the next one found.
Listed == IF node = "collect" THEN ask.doc ELSE Head(listing)

List ==
    /\ \/ node = "collect" /\ ask.doc # Nothing
       \/ node = "gather" /\ listing # <<>>
    /\ SMembersChunks
    /\ UNCHANGED <<cvars, svars, avars>>

ListGet ==
    /\ node \in {"collect", "gather"}
    /\ GetChunk(LAMBDA k, e : k[1] = Listed)
    /\ UNCHANGED <<cvars, svars, avars>>

ListReturns ==
    /\ node \in {"collect", "gather"} /\ Returned
    /\ read' = NoRead
    /\ pages' = pages \o InOrder(read.found)
    /\ \/ node = "collect" /\ pages' # <<>> /\ listing' = <<>>
       \/ node = "collect" /\ pages' = <<>> /\ listing' \in FoundDocs
       \/ node = "gather" /\ listing' = Tail(listing)
    /\ node' = "gather"
    /\ UNCHANGED <<cvars, svars, ask, loops, queries, candidates, evidence,
                   cites, used, known>>

\* All chunks collected; those that _limit_summary_chunks orders and cuts.
Collected ==
    LET w == IF pages # <<>> THEN pages ELSE InOrder(evidence) IN
    IF Len(w) <= MaxChunks THEN w ELSE Arranged(w, Before)

Lengths(w) == [i \in 1..Len(w) |-> ChunkLengths[w[i][2]][w[i][1][2]]]

SummarizeDocument ==
    /\ node = "gather" /\ listing = <<>>
    /\ \E sel \in Limited(Collected) :
         /\ Summarize(Lengths(Collected), Lengths(sel))
         /\ used' = ToSet(sel)
         /\ cites' = {sel[i] : i \in {j \in DOMAIN sel : j <= CiteLimit}}
    /\ node' = "summarize"
    /\ UNCHANGED <<cvars, read, ask, loops, queries, candidates, evidence,
                   listing, pages, known>>

Summarized ==
    /\ node = "summarize" /\ phase = "done"
    /\ node' = "done"
    /\ UNCHANGED <<cvars, read, svars, ask, loops, queries, candidates,
                   evidence, cites, listing, pages, used, known>>

\* The embeddings or Redis fail.
StoreFails ==
    /\ node \in {"retrieve", "collect", "gather"}
    /\ node' = "failed" /\ read' = NoRead
    /\ UNCHANGED <<cvars, svars, ask, loops, queries, candidates, evidence,
                   cites, listing, pages, used, known>>

-----------------------------------------------------------------------------

AgentStep ==
    \/ Answer \/ PlanNextStep
    \/ Search \/ SearchGet \/ SearchReturns \/ Retrieved \/ Rerank
    \/ GenerateAnswer
    \/ CollectFound \/ List \/ ListGet \/ ListReturns
    \/ SummarizeDocument \/ Summarized
    \/ StoreFails

ServiceStep ==
    /\ SumStep \/ Tick
    /\ UNCHANGED <<cvars, read, avars>>

AgentNext ==
    \/ AgentStep
    \/ ServiceStep
    \/ IndexStep /\ UNCHANGED <<read, svars, avars>>

AgentSpec == AgentInit /\ [][AgentNext]_vars

\* The event loop runs the question's coroutine, and time goes on.
AgentFairSpec == AgentSpec /\ WF_vars(AgentStep) /\ WF_vars(ServiceStep)

-----------------------------------------------------------------------------
(* Properties *)

\* Whatever the planner wants, the graph comes to an end (max_loops in
\* _plan_next_step and _route_after_plan): an answer or an error.
QuestionEnds == <>(node \in Ended)

\* Every citation of an answer is a chunk that the model was given: none is
\* left from an earlier round of retrieval (document_agent_service.py:536-591,
\* 616, 661-680).
CitedIsUsed == node = "done" => cites \subseteq used

\* A question about one document, or with filters, is answered from chunks
\* that match, also when the document is indexed again during the search.
FilterIsKept ==
    ask.task = "qa" /\ node = "done" =>
        \A c \in cites : /\ c[2] \in ask.match
                         /\ ask.doc # Nothing => c[1][1] = ask.doc

\* What was indexed before the question is in the summary of its document,
\* in this or a later edition, unless the document is cut: a document that
\* is indexed again during the listing is never read with a gap.
KnownIsSummarized ==
    ask.task = "summary" /\ node = "summarize" /\ Len(pages) <= MaxChunks =>
        \A k \in known :
            k[1] = ask.doc \/ (\E c \in used : c[1][1] = k[1])
            => \E e \in Editions : <<k, e>> \in used
=============================================================================
