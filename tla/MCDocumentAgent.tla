-------------------------- MODULE MCDocumentAgent --------------------------
(* DocumentAgent for TLC.  Lengths are to PerChunk = 10 as characters to 1000;
   the chunks of the edition "old" are longer than a default chunk, so that
   a document of two of them exceeds the budget of a single pass. *)
EXTENDS DocumentAgent

MCDocs == {1, 2}
MCEditions == {"old", "new"}
MCChunkLengths == [e \in MCEditions |-> IF e = "old" THEN <<14, 14>> ELSE <<8>>]
MCQuestion(t, d, m) == [task |-> t, doc |-> d, match |-> m]
MCQuestions ==
    {MCQuestion("qa", Nothing, {"new"}), MCQuestion("qa", 1, MCEditions),
     MCQuestion("summary", Nothing, MCEditions),
     MCQuestion("summary", 1, {"new"})}
MCTagged == {"new"}
=============================================================================
