------------------------------ MODULE Chunking ------------------------------
(***************************************************************************)
(* make_chunks_from_text (app/core/chunking.py): the lines of a text become *)
(* blocks (paragraphs, lists, tables, each under its headings), and the    *)
(* blocks become chunks of at most ChunkSize characters.                   *)
(*                                                                         *)
(* Of a line only the kind and the length matter, of a chunk which         *)
(* characters of which block it has: a piece is the characters of a block  *)
(* after from up to to.  A chunk's order is its index, less one.  Lines    *)
(* without blanks inside stand for all: no snippet of them is empty.       *)
(***************************************************************************)
EXTENDS Lists, SequencesExt

CONSTANTS
    Titles,         \* titles of headings
    Levels,         \* levels of headings
    LineLengths,    \* lengths of the other lines
    MaxLines,       \* bound: lines of the text
    ChunkSize,      \* chunk_size
    ChunkOverlap    \* chunk_overlap

ASSUME ChunkAssumption ==
    /\ Levels \subseteq Nat \ {0}
    /\ LineLengths \subseteq Nat \ {0}
    /\ MaxLines \in Nat
    /\ ChunkSize \in Nat \ {0}
    /\ ChunkOverlap \in Nat

VARIABLES
    stage,      \* what the program is doing
    lines,      \* number of lines read (counted for MaxLines)
    texts,      \* history: the lines that are neither blank nor headings
    page,       \* page_number
    headings,   \* heading_stack
    paragraph,  \* paragraph_lines
    blocks,     \* the blocks made so far: [rows, page, path]
    next,       \* index of the block to be taken next
    pending,    \* pending_blocks: indices of blocks
    chunks      \* the chunks made so far: [pieces, len, kind, page, path],
                \* a piece being [block, from, to]

kvars == <<stage, lines, texts, page, headings, paragraph, blocks, next,
           pending, chunks>>

scanned == <<lines, texts, page, headings, paragraph, blocks>>

\* is: which of _is_list_item and _is_table_row hold.
Line == [is : SUBSET {"list", "table"}, len : LineLengths]

ChunkInit ==
    /\ stage = "scan"
    /\ lines = 0 /\ texts = <<>>
    /\ page = 1 /\ headings = <<>>
    /\ paragraph = <<>> /\ blocks = <<>>
    /\ next = 1 /\ pending = <<>> /\ chunks = <<>>

-----------------------------------------------------------------------------
(* _split_into_blocks *)

\* _infer_kind
KindOf(rows) ==
    IF \A i \in DOMAIN rows : "table" \in rows[i].is THEN "table"
    ELSE IF \A i \in DOMAIN rows : "list" \in rows[i].is THEN "list"
    ELSE "paragraph"

\* Length of texts, joined by gap newlines each.
Joined(lengths, gap) ==
    Total(lengths) + gap * (Len(lengths) - 1)

\* Length of the lines.
LengthOf(rows) == Joined([k \in DOMAIN rows |-> rows[k].len], 1)

\* The blocks, with the paragraph that has ended.
EndParagraph ==
    IF paragraph = <<>> THEN blocks
    ELSE Append(blocks, [rows |-> paragraph, page |-> page, path |-> headings])

ReadLine ==
    /\ stage = "scan" /\ lines < MaxLines
    /\ lines' = lines + 1
    /\ UNCHANGED <<stage, next, pending, chunks>>

\* heading_stack[: level - 1], and the title.
Under(level, title) ==
    Append(SubSeq(headings, 1, Min({level - 1, Len(headings)})), title)

\* Mutant: a heading does not end the paragraph before it.
ReadHeadingOnly ==
    /\ ReadLine
    /\ \E level \in Levels, title \in Titles : headings' = Under(level, title)
    /\ paragraph' = <<>>
    /\ UNCHANGED <<texts, page, blocks>>

\* A heading ends the paragraph, which is not under it yet.
ReadHeading ==
    /\ ReadLine
    /\ \E level \in Levels, title \in Titles : headings' = Under(level, title)
    /\ blocks' = EndParagraph /\ paragraph' = <<>>
    /\ UNCHANGED <<texts, page>>

\* A blank line.
ReadBlank ==
    /\ ReadLine
    /\ blocks' = EndParagraph /\ paragraph' = <<>>
    /\ UNCHANGED <<texts, page, headings>>

\* A form feed: headings go on over pages.
ReadPageBreak ==
    /\ ReadLine
    /\ page' = page + 1
    /\ blocks' = EndParagraph /\ paragraph' = <<>>
    /\ UNCHANGED <<texts, headings>>

\* A list item or table row ends a paragraph of another kind; any other line
\* goes on with what there is.
ReadText ==
    /\ ReadLine
    /\ \E line \in Line :
         /\ texts' = Append(texts, line)
         /\ IF line.is # {} /\ paragraph # <<>>
               /\ KindOf(paragraph) # KindOf(<<line>>)
            THEN blocks' = EndParagraph /\ paragraph' = <<line>>
            ELSE paragraph' = Append(paragraph, line) /\ UNCHANGED blocks
    /\ UNCHANGED <<page, headings>>

EndOfText ==
    /\ stage = "scan"
    /\ stage' = "chunk"
    /\ blocks' = EndParagraph /\ paragraph' = <<>>
    /\ UNCHANGED <<lines, texts, page, headings, next, pending, chunks>>

-----------------------------------------------------------------------------
(* make_chunks_from_text *)

Size(i) == LengthOf(blocks[i].rows)

\* Length of the blocks of p.
GroupSize(p) == Joined([k \in DOMAIN p |-> Size(p[k])], 2)

ChunkOf(i, pieces, len) ==
    [pieces |-> pieces, len |-> len, kind |-> KindOf(blocks[i].rows),
     page |-> blocks[i].page, path |-> blocks[i].path]

\* _build_chunk_group: the chunks cs, and one of the blocks of p.
WithGroup(cs, p) ==
    IF p = <<>> THEN cs
    ELSE LET whole(k) == [block |-> p[k], from |-> 0, to |-> Size(p[k])] IN
         Append(cs, ChunkOf(p[1], [k \in 1..Len(p) |-> whole(k)], GroupSize(p)))

\* Mutant: the next snippet begins after the overlap.
StrideAfterOverlap == ChunkSize + ChunkOverlap

\* From the beginning of a snippet to that of the next.
Stride == IF ChunkOverlap < ChunkSize THEN ChunkSize - ChunkOverlap ELSE 1

\* The snippets of n characters: the first that reaches the end is the last.
Snippets(n) == Min({k \in 1..n : (k - 1) * Stride + ChunkSize >= n})

\* _split_oversized_block
Split(i) ==
    LET n == Size(i)
        snippet(s) == [block |-> i, from |-> s, to |-> Min({n, s + ChunkSize})]
    IN [k \in 1..Snippets(n) |->
          LET x == snippet((k - 1) * Stride) IN ChunkOf(i, <<x>>, x.to - x.from)]

\* _should_flush_before_append
Differs(a, b) ==
    \/ a.page # b.page
    \/ a.path # b.path
    \/ KindOf(a.rows) # KindOf(b.rows)

MustFlush(i) == pending # <<>> /\ Differs(blocks[Last(pending)], blocks[i])

\* What is pending, and the chunks, when this has been seen to.
StillPending(i) == IF MustFlush(i) THEN <<>> ELSE pending
Flushed(i) == IF MustFlush(i) THEN WithGroup(chunks, pending) ELSE chunks

Take(i) == stage = "chunk" /\ i = next /\ i <= Len(blocks) /\ next' = next + 1

TakeOversized(i) ==
    /\ Take(i) /\ Size(i) > ChunkSize
    /\ chunks' = WithGroup(Flushed(i), StillPending(i)) \o Split(i)
    /\ pending' = <<>>
    /\ UNCHANGED <<stage, scanned>>

\* Mutant: the two newlines between blocks are not counted.
ExceedsUnjoined(p, i) == p # <<>> /\ GroupSize(p) + Size(i) > ChunkSize
Exceeds(p, i) == p # <<>> /\ GroupSize(p) + 2 + Size(i) > ChunkSize

TakeBlock(i) ==
    /\ Take(i) /\ Size(i) <= ChunkSize
    /\ LET p == StillPending(i) IN
       IF Exceeds(p, i)
       THEN chunks' = WithGroup(Flushed(i), p) /\ pending' = <<i>>
       ELSE chunks' = Flushed(i) /\ pending' = Append(p, i)
    /\ UNCHANGED <<stage, scanned>>

EndOfBlocks ==
    /\ stage = "chunk" /\ next > Len(blocks)
    /\ stage' = "ready"
    /\ chunks' = WithGroup(chunks, pending) /\ pending' = <<>>
    /\ UNCHANGED <<scanned, next>>

ChunkNext ==
    \/ ReadHeading \/ ReadBlank \/ ReadPageBreak \/ ReadText \/ EndOfText
    \/ \E i \in 1..Len(blocks) : TakeOversized(i) \/ TakeBlock(i)
    \/ EndOfBlocks

ChunkSpec == ChunkInit /\ [][ChunkNext]_kvars

-----------------------------------------------------------------------------
(* Properties *)

\* No chunk is longer than chunk_size, and none mixes pages, sections, or
\* lists and tables with other text (chunking.py:50-106, 198-205): what its
\* metadata say of its first block is so for all of it.
ChunksFit ==
    \A k \in DOMAIN chunks :
        /\ chunks[k].len <= ChunkSize
        /\ \A j \in DOMAIN chunks[k].pieces :
             LET b == blocks[chunks[k].pieces[j].block] IN
             /\ b.page = chunks[k].page /\ b.path = chunks[k].path
             /\ KindOf(b.rows) = chunks[k].kind

AllPieces == FlattenSeq([k \in DOMAIN chunks |-> chunks[k].pieces])

\* No line is lost and none read twice: the blocks have the lines of the
\* text, and the chunks, in order, every character of every block; nothing
\* but the overlap of an oversized block is in two chunks
\* (chunking.py:111-148, 237-275).
NothingIsLost ==
    stage = "ready" =>
        /\ FlattenSeq([i \in DOMAIN blocks |-> blocks[i].rows]) = texts
        /\ \A i \in DOMAIN blocks : \A c \in 1..Size(i) :
             \E x \in ToSet(AllPieces) : x.block = i /\ x.from < c /\ c <= x.to
        /\ \A j \in 1..(Len(AllPieces) - 1) :
             LET x == AllPieces[j]  y == AllPieces[j + 1] IN
             \/ y.block = x.block + 1 /\ x.to = Size(x.block) /\ y.from = 0
             \/ y.block = x.block /\ x.from < y.from
=============================================================================
