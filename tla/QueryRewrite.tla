---------------------------- MODULE QueryRewrite ----------------------------
(***************************************************************************)
(* The queries that a question is searched with (QueryRewriteService in    *)
(* app/services/query_rewrite_service.py).                                 *)
(*                                                                         *)
(* A text is a sequence of symbols.  Space and Mark are the separators:    *)
(* white space, and the punctuation of _SPLIT_RE; Polite is a polite       *)
(* phrase, which counts as such only at the beginning; a word is any other *)
(* run of characters.  What the model answers is any of Answers: the JSON  *)
(* around them is left out, and entries are stripped and not blank.        *)
(***************************************************************************)
EXTENDS Lists, SequencesExt, FiniteSetsExt

CONSTANTS
    Space, Mark, Polite, Words,     \* symbols
    Questions,      \* texts that the planner may search for
    Answers,        \* texts that the model may propose
    MaxAnswers,     \* bound: texts in an answer of the model
    Limits,         \* values of multi_query_count
    HeadTokens,     \* tokens of the keyword query (6 in _fallback_rewrites)
    TailTokens      \* tokens of the focus (3 in _fallback_rewrites)

ASSUME RewriteAssumption ==
    /\ Cardinality({Space, Mark, Polite}) = 3
    /\ {Space, Mark, Polite} \cap Words = {}
    /\ \A t \in Questions \cup Answers :
         t \in Seq({Space, Mark, Polite} \cup Words)
    /\ Limits \cup {HeadTokens, TailTokens} \subseteq Nat \ {0}
    /\ MaxAnswers \in Nat

VARIABLES
    question,       \* the text, without blanks around it
    limit,          \* max_queries
    queries         \* the queries to search with

qvars == <<question, limit, queries>>

RewriteInit == question = <<>> /\ limit = 0 /\ queries = <<>>

-----------------------------------------------------------------------------

\* str.strip
Strip(text) ==
    LET solid == {i \in DOMAIN text : text[i] # Space} IN
    IF solid = {} THEN <<>> ELSE SubSeq(text, Min(solid), Max(solid))

\* " ".join(item.split()): of every run of blanks between other symbols one
\* stays, the others go.
Normal(text) ==
    LET gap(i) == /\ i - 1 \in DOMAIN text /\ text[i - 1] # Space
                  /\ \E j \in DOMAIN text : j > i /\ text[j] # Space
    IN Pick(text, {i \in DOMAIN text : text[i] # Space \/ gap(i)})

\* Where the tokens of _SPLIT_RE begin.
Tokens(text) ==
    {i \in DOMAIN text : text[i] \notin {Space, Mark}
                        /\ (i = 1 \/ text[i - 1] \in {Space, Mark})}

\* " ".join of the tokens.
JoinedTokens(text) ==
    Normal([i \in DOMAIN text |-> IF text[i] = Mark THEN Space ELSE text[i]])

\* The first n tokens, and the last n.
FirstTokens(text, n) ==
    LET at == Ascending(Tokens(text)) IN
    JoinedTokens(IF Len(at) <= n THEN text ELSE SubSeq(text, 1, at[n + 1] - 1))
LastTokens(text, n) ==
    LET at == Ascending(Tokens(text)) IN
    JoinedTokens(IF Len(at) <= n THEN text
                 ELSE SubSeq(text, at[Len(at) - n + 1], Len(text)))

\* The text without the polite phrases it begins with.
Plain(text) ==
    LET n == Max({0} \cup {k \in DOMAIN text : \A i \in 1..k : text[i] = Polite})
    IN Strip(SubSeq(text, n + 1, Len(text)))

\* _fallback_rewrites: the plain question, its first and its last tokens.
Fallbacks(text) ==
    LET plain == Plain(text)
        head == FirstTokens(plain, HeadTokens)
        tail == LastTokens(plain, TailTokens)
        when(c, t) == IF c /\ t # <<>> THEN <<t>> ELSE <<>>
    IN when(plain # text, plain)
       \o when(head \notin {text, plain}, head)
       \o when(tail \notin {text, plain, head}, tail)

Normals(texts) == [i \in DOMAIN texts |-> Normal(texts[i])]

\* Mutant: texts are compared as they are, and normalised afterwards.
DedupedRaw(texts, n) ==
    First(Pick(Normals(texts), {i \in NewAt(texts) : texts[i] # <<>>}), n)

\* _dedupe_queries
Deduped(texts, n) ==
    LET normal == Normals(texts) IN
    First(Pick(normal, {i \in NewAt(normal) : normal[i] # <<>>}), n)

\* rewrite.  The model is not asked for the only query there may be, and
\* when it fails, or its answer is of no use, it has proposed nothing.
Rewrite(text, answer, n) ==
    IF text = <<>> THEN <<>>
    ELSE Deduped(<<text>> \o (IF n <= 1 THEN <<>> ELSE answer) \o Fallbacks(text), n)

AskQuestion ==
    \E text \in Questions, n \in Limits, answer \in BoundedSeq(Answers, MaxAnswers) :
        /\ question' = Strip(text)
        /\ limit' = n
        /\ queries' = Rewrite(Strip(text), answer, n)

-----------------------------------------------------------------------------
(* Properties *)

\* Whatever the model proposes - nothing, the question again with other
\* blanks, more than is asked for -, the question itself is searched first,
\* no query is searched twice, there are no more than configured; and a
\* question that begins with a polite phrase, or has more tokens than the
\* focus, is searched in another form as well when more than one query is
\* allowed (query_rewrite_service.py:31-43, 74-101).
QueriesAreSound ==
    LET varied == \/ Plain(question) \notin {<<>>, question}
                  \/ Cardinality(Tokens(Plain(question))) > TailTokens
    IN
    /\ Len(queries) <= limit
    /\ Cardinality({Normal(q) : q \in ToSet(queries)}) = Len(queries)
    /\ question # <<>> => queries # <<>> /\ queries[1] = Normal(question)
    /\ varied /\ limit > 1 => Len(queries) > 1
=============================================================================
