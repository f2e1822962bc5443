----------------------------- MODULE Summaries -----------------------------
(***************************************************************************)
(* The summary of a document: SummaryService (app/services/                *)
(* summary_service.py) under the overall time limit that the document      *)
(* agent puts on it (document_agent_service.py, _summarize_document).      *)
(*                                                                         *)
(* A short document is summarised by one call of the model.  A long one is *)
(* split into groups: a call per group (at most Parallelism at a time,     *)
(* anyio.CapacityLimiter), then a call that reduces the drafts to one      *)
(* text.  Every call has a time limit of its own, and a call that fails or *)
(* times out is replaced by an extractive summary of the same text.  When  *)
(* the overall limit passes, everything is cancelled and an extractive     *)
(* summary is made without the model.                                      *)
(*                                                                         *)
(* Time is discrete.  The event loop serves what is due before time goes   *)
(* on, in any order: at the instant of a deadline an answer may still come *)
(* first.  A text is abstracted to its length (0: only blanks) and to who  *)
(* wrote it.                                                               *)
(***************************************************************************)
EXTENDS Naturals, Sequences, FiniteSets

CONSTANTS
    Documents,      \* documents in the vector store: lengths of their chunks
    HasModel,       \* is a model configured?
    MaxChunks,      \* summary_max_chunks
    SinglePass,     \* summary_single_pass_chars
    PerChunk,       \* 1000 in summarize
    GroupSize,      \* summary_group_size
    Parallelism,    \* summary_max_parallelism
    Timeout,        \* summary_timeout_seconds
    Grace           \* 5 in _summarize_document

ASSUME SummaryAssumption ==
    /\ Documents \subseteq Seq(Nat)
    /\ HasModel \in BOOLEAN
    /\ {MaxChunks, GroupSize, Parallelism, Timeout, Grace} \subseteq Nat \ {0}
    /\ {SinglePass, PerChunk} \subseteq Nat

VARIABLES
    now,        \* the clock
    phase,      \* what summarize awaits
    whole,      \* the document that was asked about
    doc,        \* the chunks of it that are summarised
    group,      \* group -> its task
    reduceAt,   \* when the call of phase single or reduce was begun
    begun,      \* when the overall limit began to run
    answer,     \* who wrote the summary
    cut         \* history: the phase that the overall limit interrupted

svars == <<now, phase, whole, doc, group, reduceAt, begun, answer, cut>>

Writers == {"model", "blank", "extract"}

\* st: the task; at: when its call began; by: who wrote the draft.
Task == [st : {"waiting", "running", "done"}, at : Nat,
         by : Writers \cup {"none"}]

GroupCount(d) == (Len(d) + GroupSize - 1) \div GroupSize

SumTypeOK ==
    /\ now \in Nat
    /\ phase \in {"idle", "single", "map", "reduce", "done"}
    /\ whole \in Seq(Nat) /\ doc \in Seq(Nat)
    /\ group \in [1..GroupCount(doc) -> Task] \cup {<<>>}
    /\ reduceAt \in Nat
    /\ begun \in Nat
    /\ answer \in {"none", "empty", "model", "extract", "fallback"}
    /\ cut \in {"none", "single", "map", "reduce"}

SumInit ==
    /\ now = 0
    /\ phase = "idle"
    /\ whole = <<>> /\ doc = <<>>
    /\ group = <<>>
    /\ reduceAt = 0
    /\ begun = 0
    /\ answer = "none"
    /\ cut = "none"

-----------------------------------------------------------------------------
(* summarize: one pass, or groups? *)

\* Length of the chunks that have text, joined by two newlines.
Combined(d) ==
    LET upTo[i \in 0..Len(d)] ==
          IF i = 0 THEN 0
          ELSE IF d[i] = 0 THEN upTo[i - 1]
          ELSE upTo[i - 1] + d[i] + (IF upTo[i - 1] = 0 THEN 0 ELSE 2)
    IN upTo[Len(d)]

Budget == IF SinglePass > MaxChunks * PerChunk
          THEN SinglePass ELSE MaxChunks * PerChunk

OnePass(d) ==
    /\ Combined(d) > 0
    /\ Len(d) <= MaxChunks
    /\ Combined(d) <= Budget

\* Does group i of d have text?
HasText(d, i) ==
    \E k \in 1..Len(d) : d[k] > 0 /\ (k - 1) \div GroupSize = i - 1

\* _limit_summary_chunks: what can become of d (Retrieval says which of them).
Limited(d) ==
    IF Len(d) <= MaxChunks THEN {d}
    ELSE {[i \in 1..MaxChunks |-> d[f[i]]] : f \in
            {g \in [1..MaxChunks -> 1..Len(d)] :
                \A i, j \in 1..MaxChunks : i < j => g[i] < g[j]}}

Summarize(w, d) ==
    /\ phase = "idle"
    /\ whole' = w /\ doc' = d
    /\ begun' = now
    /\ IF d = <<>> \/ ~HasModel
       THEN /\ phase' = "done"
            /\ answer' = IF d = <<>> THEN "empty" ELSE "extract"
            /\ UNCHANGED <<group, reduceAt>>
       ELSE IF OnePass(d)
       THEN /\ phase' = "single"
            /\ reduceAt' = now
            /\ UNCHANGED <<group, answer>>
       ELSE /\ phase' = "map"
            /\ group' = [i \in 1..GroupCount(d) |->
                 [st |-> IF HasText(d, i) THEN "waiting" ELSE "done",
                  at |-> 0, by |-> "none"]]
            /\ UNCHANGED <<reduceAt, answer>>
    /\ UNCHANGED <<now, cut>>

\* A request for the summary of a document (of none: <<>>).
Begin == \E w \in Documents : \E d \in Limited(w) : Summarize(w, d)

-----------------------------------------------------------------------------
(* _summarize_groups and _summarize_group *)

Running == {i \in DOMAIN group : group[i].st = "running"}
Waiting == {i \in DOMAIN group : group[i].st = "waiting"}

\* The limiter serves tasks in the order in which they came.
Acquire(i) ==
    /\ phase = "map"
    /\ i \in Waiting /\ \A j \in Waiting : i <= j
    /\ Cardinality(Running) < Parallelism
    /\ group' = [group EXCEPT ![i].st = "running", ![i].at = now]
    /\ UNCHANGED <<now, phase, whole, doc, reduceAt, begun, answer, cut>>

Finish(i, by) ==
    /\ group' = [group EXCEPT ![i].st = "done", ![i].by = by]
    /\ UNCHANGED <<now, phase, whole, doc, reduceAt, begun, answer, cut>>

\* The model answers, perhaps with nothing, or raises: the except branch
\* extracts a summary from the text of the group.
Drafted(i) ==
    /\ phase = "map" /\ i \in Running
    /\ \E by \in Writers : Finish(i, by)

\* Mutant: only errors of the model are caught, not its time limit.
DraftUncaught(i) ==
    /\ phase = "map" /\ i \in Running
    /\ now = group[i].at + Timeout
    /\ phase' = "done" /\ answer' = "fallback" /\ cut' = phase
    /\ UNCHANGED <<now, whole, doc, group, reduceAt, begun>>

DraftTimesOut(i) ==
    /\ phase = "map" /\ i \in Running
    /\ now = group[i].at + Timeout
    /\ Finish(i, "extract")

\* Drafts that are kept, in the order of their groups.
Drafts == {i \in DOMAIN group : group[i].by \in {"model", "extract"}}

Done(by) == phase' = "done" /\ answer' = by

\* _normalize_summary_output: a text without the four headings is replaced.
Normalized(by) ==
    \/ by = "model" /\ Done("model")
    \/ Done("extract")

\* Mutant: the first draft that is there is reduced, the others are not
\* waited for.
MappedEarly ==
    /\ phase = "map"
    /\ Drafts # {}
    /\ phase' = "reduce" /\ reduceAt' = now /\ UNCHANGED answer
    /\ UNCHANGED <<now, whole, doc, group, begun, cut>>

\* The task group is done.
Mapped ==
    /\ phase = "map"
    /\ Running = {} /\ Waiting = {}
    /\ CASE Drafts = {} -> Done("extract") /\ UNCHANGED reduceAt
         [] Cardinality(Drafts) = 1 ->
              /\ \E i \in Drafts : Normalized(group[i].by)
              /\ UNCHANGED reduceAt
         [] OTHER ->
              phase' = "reduce" /\ reduceAt' = now /\ UNCHANGED answer
    /\ UNCHANGED <<now, whole, doc, group, begun, cut>>

-----------------------------------------------------------------------------
(* _summarize_single_pass and _reduce_summaries: one call *)

Written ==
    /\ phase \in {"single", "reduce"}
    /\ \E by \in Writers : Normalized(by)
    /\ UNCHANGED <<now, whole, doc, group, reduceAt, begun, cut>>

CallTimesOut ==
    /\ phase \in {"single", "reduce"}
    /\ now = reduceAt + Timeout
    /\ Done("extract")
    /\ UNCHANGED <<now, whole, doc, group, reduceAt, begun, cut>>

-----------------------------------------------------------------------------
(* _summarize_document: the overall limit *)

\* Mutant: the overall limit is that of one call.
DeadlineOfCall == begun + Timeout

Deadline == begun + Timeout + Grace

\* fail_after cancels the calls and the task group; the service without a
\* model answers.
Overrun ==
    /\ phase \in {"single", "map", "reduce"}
    /\ now = Deadline
    /\ Done("fallback")
    /\ cut' = phase
    /\ UNCHANGED <<now, whole, doc, group, reduceAt, begun>>

\* Something happens before time goes on.
Due ==
    \/ phase \in {"single", "map", "reduce"} /\ now = Deadline
    \/ phase \in {"single", "reduce"} /\ now = reduceAt + Timeout
    \/ phase = "map" /\ \/ \E i \in Running : now = group[i].at + Timeout
                        \/ Waiting # {} /\ Cardinality(Running) < Parallelism
                        \/ Running = {} /\ Waiting = {}

Tick ==
    /\ phase \in {"single", "map", "reduce"}
    /\ ~Due
    /\ now' = now + 1
    /\ UNCHANGED <<phase, whole, doc, group, reduceAt, begun, answer, cut>>

SumStep ==
    \/ \E i \in DOMAIN group : Acquire(i) \/ Drafted(i) \/ DraftTimesOut(i)
    \/ Mapped \/ Written \/ CallTimesOut \/ Overrun

SumNext == SumStep \/ Tick \/ Begin

SumSpec == SumInit /\ [][SumNext]_svars

-----------------------------------------------------------------------------
(* Properties *)

\* The summary is there when the overall limit has passed, however many
\* groups there are and however their calls end (fail_after around all of
\* summarize, document_agent_service.py:603).
InTime == phase \in {"single", "map", "reduce"} => now <= Deadline

\* The fallback without the model is the answer to nothing but the overall
\* limit: whatever a call of the model raises, and the time limit of each
\* call, is dealt with where it happens (the except branches of
\* summary_service.py).
FallbackMeansDeadline == answer = "fallback" => now = Deadline

\* The reduction sees a draft of every group that has text, unless the model
\* answered with nothing: no group is dropped for an error or a time-out,
\* and none is still being written (summary_service.py:117-161).
NoGroupIsDropped ==
    phase = "reduce" =>
        \A i \in 1..GroupCount(doc) : HasText(doc, i) =>
            group[i].st = "done" /\ group[i].by # "none"

\* As long as all groups fit into the limiter at once, the overall limit
\* interrupts nothing but the reduction: one pass and one wave of calls are
\* over before.  With more groups than that, drafts that were written are
\* lost with those that were not.
OneWaveIsNotCut ==
    /\ cut # "single"
    /\ cut = "map" => GroupCount(doc) > Parallelism
=============================================================================
