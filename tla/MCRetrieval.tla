---------------------------- MODULE MCRetrieval ----------------------------
(* Retrieval for TLC: titles are interchangeable, words are not. *)
EXTENDS Retrieval

CONSTANTS w1, w2, QuestionLength     \* words; bound: symbols of a question

MCQuestions == BoundedSeq({Space, Mark, Polite, w1, w2}, QuestionLength)

\* The first word; a question with other blanks; a text of its own.
MCAnswers == {<<w1>>, <<w1, Space, w2>>, <<w1, Space, Space, w2>>, <<w2, w1>>}

MCSymmetry == Permutations(Titles)
=============================================================================
