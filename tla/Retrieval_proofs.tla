-------------------------- MODULE Retrieval_proofs --------------------------
(***************************************************************************)
(* Theorems about the retrieval pipeline (QueryRewrite, Chunking and       *)
(* Retrieval), for questions and texts of any length, any sizes of chunks  *)
(* and any answers of the models.                                          *)
(*                                                                         *)
(* In the order of the pipeline: chunking (FitInv, LostInv), reranking     *)
(* (RerankInv), merging (ResultsInv), the selection for a summary (Sound), *)
(* and the rewriting of the question (RewriteInv).                         *)
(***************************************************************************)
EXTENDS Retrieval, Lists_proofs

-----------------------------------------------------------------------------
(* The chunks of a text: types *)

Kinds == {"table", "list", "paragraph"}
Block == [rows : Seq(Line), page : Nat, path : Seq(Titles)]
Piece == [block : Nat, from : Int, to : Int]
Chunk == [pieces : Seq(Piece), len : Int, kind : Kinds, page : Nat, path : Seq(Titles)]

ChunkTypeOK ==
    /\ lines \in Nat /\ texts \in Seq(Line)
    /\ page \in Nat /\ headings \in Seq(Titles)
    /\ paragraph \in Seq(Line) /\ blocks \in Seq(Block)
    /\ next \in 1..(Len(blocks) + 1)
    /\ pending \in Seq(1..Len(blocks)) /\ chunks \in Seq(Chunk)
    /\ stage = "scan" => pending = <<>> /\ chunks = <<>> /\ next = 1
    /\ stage \in {"chunk", "ready"} => paragraph = <<>>
    /\ stage = "ready" => pending = <<>> /\ next = Len(blocks) + 1

Lengths(rows) == [k \in DOMAIN rows |-> rows[k].len]
Sizes(p) == [k \in DOMAIN p |-> Size(p[k])]

\* The kind of a block is one of the three.
LEMMA KindsAre == \A rows : KindOf(rows) \in Kinds
BY DEF KindOf, Kinds

\* No line is empty.
LEMMA LineFacts == \A line \in Line : line.len \in Nat \ {0}
BY ChunkAssumption DEF Line

\* A block has a length.
LEMMA SizeType ==
    ASSUME blocks \in Seq(Block), NEW i \in 1..Len(blocks)
    PROVE  Size(i) \in Int
<1> DEFINE rows == blocks[i].rows
<1>1. blocks[i] \in Block
  OBVIOUS
<1>2. rows \in Seq(Line)
  BY <1>1 DEF Block
<1>3. Lengths(rows) \in Seq(Int) /\ Len(Lengths(rows)) = Len(rows)
  <2>1. \A k \in DOMAIN rows : rows[k].len \in Int
    BY <1>2, LineFacts
  <2> HIDE DEF rows
  <2> QED BY <1>2, <2>1 DEF Lengths
<1>4. Size(i) = Total(Lengths(rows)) + 1 * (Len(Lengths(rows)) - 1)
  BY DEF Size, LengthOf, Joined, Lengths
<1>5. Total(Lengths(rows)) \in Int
  BY <1>3, TotalFacts
<1>6. Len(Lengths(rows)) \in Int
  BY <1>3
<1> HIDE DEF rows
<1> QED BY <1>4, <1>5, <1>6

\* The length of a group, block by block (chunking.py:219-233).
LEMMA GroupSizes ==
    ASSUME blocks \in Seq(Block), NEW p \in Seq(1..Len(blocks)),
           NEW i \in 1..Len(blocks)
    PROVE  /\ GroupSize(<<i>>) = Size(i)
           /\ GroupSize(p) \in Int
           /\ GroupSize(Append(p, i)) = GroupSize(p) + 2 + Size(i)
<1>1. \A q : GroupSize(q) = Total(Sizes(q)) + 2 * (Len(Sizes(q)) - 1)
  BY DEF GroupSize, Joined, Sizes
<1>2. \A q \in Seq(1..Len(blocks)) : Sizes(q) \in Seq(Int) /\ Len(Sizes(q)) = Len(q)
  <2> SUFFICES ASSUME NEW q \in Seq(1..Len(blocks))
               PROVE  Sizes(q) \in Seq(Int) /\ Len(Sizes(q)) = Len(q)
    OBVIOUS
  <2>1. \A k \in DOMAIN q : Size(q[k]) \in Int
    BY SizeType
  <2>2. PICK n \in Nat : n = Len(q) /\ DOMAIN q = 1..n
    OBVIOUS
  <2>3. Sizes(q) \in [1..n -> Int]
    BY <2>1, <2>2 DEF Sizes
  <2>4. PICK z \in [1..n -> Int] : z = Sizes(q)
    BY <2>3
  <2>5. z \in Seq(Int) /\ Len(z) = n
    OBVIOUS
  <2> QED BY <2>2, <2>4, <2>5
<1>3. Size(i) \in Int
  BY SizeType
<1>4. \A q \in Seq(1..Len(blocks)) : Sizes(Append(q, i)) = Append(Sizes(q), Size(i))
  <2> SUFFICES ASSUME NEW q \in Seq(1..Len(blocks))
               PROVE  Sizes(Append(q, i)) = Append(Sizes(q), Size(i))
    OBVIOUS
  <2>1. /\ Append(q, i) \in Seq(1..Len(blocks)) /\ Len(Append(q, i)) = Len(q) + 1
        /\ Len(q) \in Nat
    OBVIOUS
  <2>2. Sizes(Append(q, i)) \in Seq(Int) /\ Len(Sizes(Append(q, i))) = Len(q) + 1
    BY <1>2, <2>1
  <2>3. Append(Sizes(q), Size(i)) \in Seq(Int)
        /\ Len(Append(Sizes(q), Size(i))) = Len(q) + 1
    BY <1>2, <1>3
  <2>4. ASSUME NEW k \in 1..(Len(q) + 1)
        PROVE  Sizes(Append(q, i))[k] = Append(Sizes(q), Size(i))[k]
    <3>1. Sizes(Append(q, i))[k] = Size(Append(q, i)[k])
      BY <2>1 DEF Sizes
    <3>2. CASE k = Len(q) + 1
      BY <1>2, <1>3, <3>1, <3>2
    <3>3. CASE k \in 1..Len(q)
      <4>1. Append(q, i)[k] = q[k] /\ Append(Sizes(q), Size(i))[k] = Sizes(q)[k]
        BY <1>2, <1>3, <3>3
      <4>2. Sizes(q)[k] = Size(q[k])
        BY <3>3 DEF Sizes
      <4> QED BY <3>1, <4>1, <4>2
    <3>4. k = Len(q) + 1 \/ k \in 1..Len(q)
      BY <2>1
    <3> QED BY <3>2, <3>3, <3>4
  <2> QED BY <2>2, <2>3, <2>4, SeqEqual
<1>5. \A q \in Seq(1..Len(blocks)) :
        GroupSize(Append(q, i)) = Total(Sizes(q)) + Size(i) + 2 * Len(q)
  <2> SUFFICES ASSUME NEW q \in Seq(1..Len(blocks))
               PROVE  GroupSize(Append(q, i)) = Total(Sizes(q)) + Size(i) + 2 * Len(q)
    OBVIOUS
  <2>1. Total(Sizes(Append(q, i))) = Total(Sizes(q)) + Size(i)
    BY <1>2, <1>3, <1>4, TotalFacts
  <2>2. Len(Sizes(Append(q, i))) = Len(q) + 1
    BY <1>2, <1>3, <1>4
  <2>3. Len(q) \in Nat /\ 2 * ((Len(q) + 1) - 1) = 2 * Len(q)
    OBVIOUS
  <2> QED BY <1>1, <2>1, <2>2, <2>3
<1>6. Total(Sizes(p)) \in Int /\ Len(p) \in Nat
  BY <1>2, TotalFacts
<1>7. GroupSize(p) = Total(Sizes(p)) + 2 * (Len(p) - 1)
  BY <1>1, <1>2
<1>8. GroupSize(<<i>>) = Size(i)
  <2>1. <<>> \in Seq(1..Len(blocks)) /\ Append(<<>>, i) = <<i>> /\ Len(<<>>) = 0
    OBVIOUS
  <2>2. Sizes(<<>>) = <<>>
    BY DEF Sizes
  <2>3. Total(Sizes(<<>>)) = 0
    BY <2>2, TotalFacts
  <2>4. GroupSize(Append(<<>>, i)) = Total(Sizes(<<>>)) + Size(i) + 2 * Len(<<>>)
    BY <1>5, <2>1
  <2> QED BY <1>3, <2>1, <2>3, <2>4
<1> QED BY <1>3, <1>5, <1>6, <1>7, <1>8

-----------------------------------------------------------------------------
(* The chunks of a text: groups and snippets *)

Alike(a, b) == a.page = b.page /\ a.path = b.path /\ KindOf(a.rows) = KindOf(b.rows)

\* What may be pending.
IsGroup(p) ==
    /\ p \in Seq(1..Len(blocks))
    /\ p # <<>> => GroupSize(p) <= ChunkSize
    /\ \A j \in 1..Len(p) : Alike(blocks[p[1]], blocks[p[j]])

Fit1(c) ==
    /\ c \in Chunk /\ c.len <= ChunkSize
    /\ \A j \in DOMAIN c.pieces :
         /\ c.pieces[j].block \in 1..Len(blocks)
         /\ LET b == blocks[c.pieces[j].block] IN
            b.page = c.page /\ b.path = c.path /\ KindOf(b.rows) = c.kind

AllFit(cs) == cs \in Seq(Chunk) /\ \A k \in 1..Len(cs) : Fit1(cs[k])

\* The pieces of a group.
Whole(p) == [k \in 1..Len(p) |-> [block |-> p[k], from |-> 0, to |-> Size(p[k])]]

\* A group becomes a chunk that fits and is alike throughout.
LEMMA GroupFits ==
    ASSUME blocks \in Seq(Block), NEW p, IsGroup(p), p # <<>>
    PROVE  Fit1(ChunkOf(p[1], Whole(p), GroupSize(p)))
<1> DEFINE c == ChunkOf(p[1], Whole(p), GroupSize(p))
<1>1. p \in Seq(1..Len(blocks)) /\ Len(p) \in Nat /\ \A k \in 1..Len(p) : p[k] \in 1..Len(blocks)
  BY DEF IsGroup
<1>2. p[1] \in 1..Len(blocks) /\ 1 \in 1..Len(p)
  BY <1>1, EmptySeq
<1>3. blocks[p[1]] \in Block
  BY <1>2
<1>4. Whole(p) \in Seq(Piece) /\ DOMAIN Whole(p) = 1..Len(p)
  <2>1. \A k \in 1..Len(p) : [block |-> p[k], from |-> 0, to |-> Size(p[k])] \in Piece
    BY <1>1, SizeType DEF Piece
  <2> QED BY <1>1, <2>1 DEF Whole
<1>5. GroupSize(p) \in Int /\ GroupSize(p) <= ChunkSize
  BY <1>1, <1>2, GroupSizes DEF IsGroup
<1>6. c = [pieces |-> Whole(p), len |-> GroupSize(p), kind |-> KindOf(blocks[p[1]].rows),
           page |-> blocks[p[1]].page, path |-> blocks[p[1]].path]
  BY DEF ChunkOf
<1>7. c \in Chunk
  <2>1. blocks[p[1]].page \in Nat /\ blocks[p[1]].path \in Seq(Titles)
    BY <1>3 DEF Block
  <2> QED BY <1>4, <1>5, <1>6, <2>1, KindsAre DEF Chunk
<1>8. ASSUME NEW j \in 1..Len(p)
      PROVE  /\ Whole(p)[j].block = p[j]
             /\ Alike(blocks[p[1]], blocks[p[j]])
  BY DEF Whole, IsGroup
<1>9. Fit1(c)
  <2>1. /\ c.pieces = Whole(p) /\ c.len = GroupSize(p)
        /\ c.kind = KindOf(blocks[p[1]].rows)
        /\ c.page = blocks[p[1]].page /\ c.path = blocks[p[1]].path
    BY <1>6
  <2> HIDE DEF c
  <2> QED BY <1>1, <1>4, <1>5, <1>7, <1>8, <2>1 DEF Fit1, Alike
<1> QED BY <1>9

\* Adding the chunk of a group keeps the chunks as they should be.
LEMMA GroupIsAdded ==
    ASSUME blocks \in Seq(Block), NEW p, IsGroup(p), NEW cs, AllFit(cs)
    PROVE  AllFit(WithGroup(cs, p))
<1>1. CASE p = <<>>
  BY <1>1 DEF WithGroup
<1>2. CASE p # <<>>
  <2> DEFINE c == ChunkOf(p[1], Whole(p), GroupSize(p))
  <2>1. WithGroup(cs, p) = Append(cs, c)
    BY <1>2 DEF WithGroup, Whole
  <2>2. Fit1(c) /\ c \in Chunk
    BY <1>2, GroupFits DEF Fit1
  <2> HIDE DEF c
  <2> QED BY <2>1, <2>2 DEF AllFit
<1> QED BY <1>1, <1>2

\* The windows of an oversized block advance.
LEMMA StrideFacts == Stride \in 1..ChunkSize
BY ChunkAssumption DEF Stride

\* The first character after the k-th snippet, if the text is long enough.
Offset(k) == (k - 1) * Stride
Reach(k) == Offset(k) + ChunkSize

\* What follows one window from another.
LEMMA ReachFacts ==
    /\ \A k \in Int : Reach(k) \in Int /\ Offset(k) \in Int
    /\ \A k \in Int : Offset(k + 1) = Offset(k) + Stride
    /\ Offset(1) = 0
    /\ \A k \in Nat \ {0} : Reach(k) >= k
<1> DEFINE s == Stride
<1>1. s \in Nat \ {0} /\ s <= ChunkSize /\ ChunkSize \in Nat
  BY StrideFacts, ChunkAssumption
<1> HIDE DEF s
<1>2. \A k \in Int : (k - 1) * s + ChunkSize \in Int /\ (k - 1) * s \in Int
  BY <1>1
<1>3. ASSUME NEW k \in Int
      PROVE  ((k + 1) - 1) * s = (k - 1) * s + s
  BY <1>1
<1>4. \A k \in Nat \ {0} : (k - 1) * s + ChunkSize >= k
  <2> SUFFICES ASSUME NEW k \in Nat \ {0} PROVE (k - 1) * s + ChunkSize >= k
    OBVIOUS
  <2>1. k - 1 \in Nat
    OBVIOUS
  <2>2. \A a \in Nat : a * s >= a
    BY <1>1
  <2>3. (k - 1) * s >= k - 1 /\ (k - 1) * s \in Int
    BY <1>1, <2>1, <2>2
  <2> QED BY <1>1, <2>3
<1>5. (1 - 1) * s = 0
  BY <1>1
<1> QED BY <1>2, <1>3, <1>4, <1>5 DEF Reach, Offset, s

\* The windows reach the end of the block, the last one first.
LEMMA SnippetFacts ==
    ASSUME NEW n \in Nat \ {0}
    PROVE  /\ Snippets(n) \in 1..n
           /\ Reach(Snippets(n)) >= n
           /\ \A k \in 1..n : Reach(k) >= n => Snippets(n) <= k
<1> DEFINE S == {k \in 1..n : Reach(k) >= n}
<1>1. Snippets(n) = Min(S)
  BY DEF Snippets, Reach, Offset
<1>2. S \subseteq Nat /\ n \in S
  BY ReachFacts
<1>3. Min(S) \in S /\ \A k \in S : Min(S) <= k
  <2> HIDE DEF S
  <2> QED BY <1>2, MinFacts
<1> QED BY <1>1, <1>3


Snippet(i, k) ==
    [block |-> i, from |-> Offset(k), to |-> Min({Size(i), Reach(k)})]

\* An oversized block becomes chunks that fit (chunking.py:237-275).
LEMMA SplitFacts ==
    ASSUME blocks \in Seq(Block), NEW i \in 1..Len(blocks), Size(i) > ChunkSize
    PROVE  /\ AllFit(Split(i)) /\ Len(Split(i)) = Snippets(Size(i))
           /\ \A k \in 1..Snippets(Size(i)) :
                Split(i)[k].pieces = <<Snippet(i, k)>>
<1>1. Size(i) \in Nat \ {0} /\ ChunkSize \in Nat
  BY SizeType, ChunkAssumption
<1>2. PICK n \in Nat : n = Snippets(Size(i))
  BY <1>1, SnippetFacts
<1> DEFINE x(k) == Snippet(i, k)
           c(k) == ChunkOf(i, <<x(k)>>, x(k).to - x(k).from)
<1>3. Split(i) = [k \in 1..n |-> c(k)]
  BY <1>2 DEF Split, Snippet, Reach, Offset
<1>4. ASSUME NEW k \in 1..n
      PROVE  c(k).pieces = <<x(k)>> /\ Fit1(c(k))
  <2>1. Offset(k) \in Int /\ Reach(k) \in Int /\ Reach(k) = Offset(k) + ChunkSize
    <3>1. \A m \in Int : Offset(m) \in Int /\ Reach(m) \in Int
      BY ReachFacts
    <3>2. Reach(k) = Offset(k) + ChunkSize
      BY DEF Reach
    <3>3. k \in Int
      OBVIOUS
    <3> QED BY <3>1, <3>2, <3>3
  <2>2. /\ Min({Size(i), Reach(k)}) \in Int
        /\ Min({Size(i), Reach(k)}) <= Reach(k)
    BY <1>1, <2>1, MinMaxOfTwo
  <2>3. x(k) \in Piece /\ x(k).block = i /\ x(k).to - x(k).from <= ChunkSize
        /\ x(k).to - x(k).from \in Int
    BY <1>1, <2>1, <2>2 DEF Piece, Snippet
  <2>4. blocks[i] \in Block
    OBVIOUS
  <2>5. blocks[i].page \in Nat /\ blocks[i].path \in Seq(Titles)
    BY <2>4 DEF Block
  <2> DEFINE y == x(k)
  <2> HIDE DEF x
  <2>6. c(k) = [pieces |-> <<x(k)>>, len |-> x(k).to - x(k).from,
                kind |-> KindOf(blocks[i].rows),
                page |-> blocks[i].page, path |-> blocks[i].path]
    BY DEF ChunkOf
  <2>7. c(k) \in Chunk
    <3>1. <<x(k)>> \in Seq(Piece)
      BY <2>3
    <3> HIDE DEF c
    <3> QED BY <2>3, <2>5, <2>6, <3>1, KindsAre DEF Chunk
  <2>8. c(k).pieces = <<x(k)>> /\ c(k).len = x(k).to - x(k).from
        /\ c(k).kind = KindOf(blocks[i].rows)
        /\ c(k).page = blocks[i].page /\ c(k).path = blocks[i].path
    BY <2>6
  <2> HIDE DEF c
  <2> QED BY <2>3, <2>7, <2>8 DEF Fit1
<1>5. \A k \in 1..n : c(k) \in Chunk
  BY <1>4 DEF Fit1
<1> HIDE DEF c
<1>6. Split(i) \in Seq(Chunk) /\ Len(Split(i)) = n
  BY <1>3, <1>5
<1>7. \A k \in 1..n : Split(i)[k] = c(k)
  BY <1>3
<1> QED BY <1>2, <1>4, <1>6, <1>7 DEF AllFit

\* Chunks as they should be, and more of them.
LEMMA FitConcat ==
    ASSUME NEW cs, AllFit(cs), NEW ds, AllFit(ds)
    PROVE  AllFit(cs \o ds)
<1>1. cs \in Seq(Chunk) /\ ds \in Seq(Chunk)
  BY DEF AllFit
<1>2. cs \o ds \in Seq(Chunk) /\ Len(cs \o ds) = Len(cs) + Len(ds)
  BY <1>1
<1>3. ASSUME NEW k \in 1..Len(cs \o ds) PROVE Fit1((cs \o ds)[k])
  <2>1. Len(cs) \in Nat /\ Len(ds) \in Nat
    BY <1>1
  <2>2. CASE k <= Len(cs)
    <3>1. k \in 1..Len(cs) /\ (cs \o ds)[k] = cs[k]
      BY <1>1, <1>2, <2>1, <2>2
    <3> QED BY <3>1 DEF AllFit
  <2>3. CASE k > Len(cs)
    <3>1. k - Len(cs) \in 1..Len(ds) /\ (cs \o ds)[k] = ds[k - Len(cs)]
      BY <1>1, <1>2, <2>1, <2>3
    <3> QED BY <3>1 DEF AllFit
  <2> QED BY <1>2, <2>1, <2>2, <2>3
<1> QED BY <1>2, <1>3 DEF AllFit


-----------------------------------------------------------------------------
(* ChunksFit *)

\* Every chunk so far fits and is alike throughout, and so is what is pending.
FitInv ==
    /\ ChunkTypeOK
    /\ IsGroup(pending)
    /\ AllFit(chunks)

\* The lesser of two natural numbers.
LEMMA MinInNat == \A a, b \in Nat : Min({a, b}) \in 0..a /\ Min({a, b}) \in 0..b
BY MinMaxOfTwo

\* The heading path below a new heading.
LEMMA UnderType ==
    ASSUME headings \in Seq(Titles), NEW level \in Levels, NEW title \in Titles
    PROVE  Under(level, title) \in Seq(Titles)
<1> DEFINE n == Min({level - 1, Len(headings)})
<1>1. n \in 0..Len(headings)
  <2>1. level - 1 \in Nat /\ Len(headings) \in Nat
    BY ChunkAssumption
  <2> QED BY <2>1, MinInNat
<1>2. SubSeq(headings, 1, n) \in Seq(Titles)
  <2> HIDE DEF n
  <2> QED BY <1>1
<1>3. Append(SubSeq(headings, 1, n), title) \in Seq(Titles)
  <2> HIDE DEF n
  <2> QED BY <1>2
<1> QED BY <1>3 DEF Under

\* Ending a paragraph adds at most one block.
LEMMA EndParagraphType ==
    ASSUME ChunkTypeOK
    PROVE  /\ EndParagraph \in Seq(Block)
           /\ Len(blocks) <= Len(EndParagraph)
           /\ \A i \in 1..Len(blocks) : EndParagraph[i] = blocks[i]
<1> DEFINE b == [rows |-> paragraph, page |-> page, path |-> headings]
<1>1. b \in Block
  BY DEF ChunkTypeOK, Block
<1>2. blocks \in Seq(Block)
  BY DEF ChunkTypeOK
<1> HIDE DEF b
<1>3. Append(blocks, b) \in Seq(Block) /\ Len(Append(blocks, b)) = Len(blocks) + 1
      /\ \A i \in 1..Len(blocks) : Append(blocks, b)[i] = blocks[i]
  BY <1>1, <1>2
<1>4. Len(blocks) \in Nat
  BY <1>2
<1> QED BY <1>2, <1>3, <1>4 DEF EndParagraph, b


\* Reading a line touches no chunk.
LEMMA FitText ==
    ASSUME FitInv, stage = "scan", stage' \in {"scan", "chunk"}, lines' \in Nat,
           texts' \in Seq(Line), page' \in Nat, headings' \in Seq(Titles),
           paragraph' \in Seq(Line), stage' = "chunk" => paragraph' = <<>>,
           blocks' \in Seq(Block),
           UNCHANGED <<next, pending, chunks>>
    PROVE  FitInv'
<1>1. pending' = <<>> /\ chunks' = <<>> /\ next' = 1
  BY DEF FitInv, ChunkTypeOK
<1>2. ChunkTypeOK'
  <2>1. next' \in 1..(Len(blocks') + 1)
    BY <1>1
  <2>2. pending' \in Seq(1..Len(blocks')) /\ chunks' \in Seq(Chunk)
    BY <1>1
  <2> QED BY <1>1, <2>1, <2>2 DEF ChunkTypeOK
<1>3. IsGroup(pending)'
  BY <1>1, <1>2 DEF IsGroup, ChunkTypeOK
<1>4. AllFit(chunks)'
  BY <1>1, <1>2 DEF AllFit, ChunkTypeOK
<1> QED BY <1>2, <1>3, <1>4 DEF FitInv

\* A step that leaves the blocks alone leaves their sizes and groups.
LEMMA SameBlocks ==
    ASSUME blocks' = blocks
    PROVE  /\ \A p : IsGroup(p)' <=> IsGroup(p)
           /\ \A cs : AllFit(cs)' <=> AllFit(cs)
           /\ \A i : Size(i)' = Size(i)
<1>1. \A i : Size(i)' = Size(i)
  BY DEF Size
<1>2. \A p : GroupSize(p)' = GroupSize(p)
  BY DEF GroupSize, Size
<1>3. \A p : IsGroup(p)' <=> IsGroup(p)
  BY <1>2 DEF IsGroup
<1>4. \A cs : AllFit(cs)' <=> AllFit(cs)
  BY DEF AllFit, Fit1
<1> QED BY <1>1, <1>3, <1>4

\* The group of one block, or with one more.
LEMMA GroupGrows ==
    ASSUME blocks \in Seq(Block), NEW i \in 1..Len(blocks), Size(i) <= ChunkSize,
           NEW p, IsGroup(p), p # <<>> => Alike(blocks[Last(p)], blocks[i])
    PROVE  /\ IsGroup(<<i>>)
           /\ ~Exceeds(p, i) => IsGroup(Append(p, i))
<1>1. p \in Seq(1..Len(blocks))
  BY DEF IsGroup
<1>2. GroupSize(<<i>>) = Size(i)
  BY <1>1, GroupSizes
<1>3. IsGroup(<<i>>)
  <2>1. <<i>> \in Seq(1..Len(blocks)) /\ Len(<<i>>) = 1 /\ <<i>>[1] = i
    OBVIOUS
  <2> QED BY <1>2, <2>1 DEF IsGroup, Alike
<1>4. ASSUME ~Exceeds(p, i) PROVE IsGroup(Append(p, i))
  <2>1. CASE p = <<>>
    <3>1. Append(p, i) = <<i>>
      BY <2>1
    <3> QED BY <1>3, <3>1
  <2>2. CASE p # <<>>
    <3> DEFINE q == Append(p, i)
    <3>1. /\ q \in Seq(1..Len(blocks)) /\ Len(q) = Len(p) + 1 /\ Len(p) \in Nat \ {0}
          /\ q[1] = p[1] /\ q[Len(p) + 1] = i
          /\ \A j \in 1..Len(p) : q[j] = p[j]
      BY <1>1, <2>2
    <3>2. GroupSize(q) <= ChunkSize
      <4>1. GroupSize(q) = GroupSize(p) + 2 + Size(i) /\ GroupSize(p) \in Int
            /\ Size(i) \in Int
        BY <1>1, GroupSizes, SizeType
      <4>2. ~(GroupSize(p) + 2 + Size(i) > ChunkSize)
        BY <1>4, <2>2 DEF Exceeds
      <4>3. ChunkSize \in Int
        BY ChunkAssumption
      <4> HIDE DEF q
      <4> QED BY <4>1, <4>2, <4>3
    <3> HIDE DEF q
    <3>3. \A j \in 1..Len(p) : Alike(blocks[q[1]], blocks[q[j]])
      BY <3>1 DEF IsGroup
    <3>4. Alike(blocks[q[1]], blocks[q[Len(p) + 1]])
      <4>1. Alike(blocks[p[1]], blocks[Last(p)])
        BY <3>1 DEF IsGroup, Last
      <4> QED BY <2>2, <3>1, <4>1 DEF Alike
    <3>5. \A j \in 1..(Len(p) + 1) : j = Len(p) + 1 \/ j \in 1..Len(p)
      BY <3>1
    <3>6. IsGroup(q)
      BY <3>1, <3>2, <3>3, <3>4, <3>5 DEF IsGroup
    <3> QED BY <3>6 DEF q
  <2> QED BY <2>1, <2>2
<1> QED BY <1>3, <1>4


\* What becomes of the pending group before a block is taken.
LEMMA FlushFits ==
    ASSUME FitInv, NEW i \in 1..Len(blocks)
    PROVE  /\ IsGroup(StillPending(i)) /\ AllFit(Flushed(i))
           /\ StillPending(i) # <<>> => Alike(blocks[Last(StillPending(i))], blocks[i])
<1>1. blocks \in Seq(Block) /\ IsGroup(pending) /\ AllFit(chunks)
  BY DEF FitInv, ChunkTypeOK
<1>2. IsGroup(<<>>)
  BY DEF IsGroup
<1>3. AllFit(WithGroup(chunks, pending))
  BY <1>1, GroupIsAdded
<1>4. CASE MustFlush(i)
  BY <1>2, <1>3, <1>4 DEF StillPending, Flushed
<1>5. CASE ~MustFlush(i)
  BY <1>1, <1>5 DEF StillPending, Flushed, MustFlush, Differs, Alike
<1> QED BY <1>4, <1>5

\* The chunks that a step makes of the blocks: it leaves everything else.
LEMMA FitChunks ==
    ASSUME FitInv, stage = "chunk", stage' \in {"chunk", "ready"},
           UNCHANGED scanned, next' \in 1..(Len(blocks) + 1),
           NEW p, IsGroup(p), pending' = p, NEW cs, AllFit(cs), chunks' = cs,
           stage' = "ready" => p = <<>> /\ next' = Len(blocks) + 1
    PROVE  FitInv'
<1>0. blocks' = blocks /\ paragraph' = paragraph
  BY DEF scanned
<1>1. IsGroup(p)' /\ AllFit(cs)'
  BY <1>0, SameBlocks
<1>2. p \in Seq(1..Len(blocks)) /\ cs \in Seq(Chunk)
  BY DEF IsGroup, AllFit
<1>3. ChunkTypeOK'
  BY <1>0, <1>2 DEF FitInv, ChunkTypeOK, scanned
<1> QED BY <1>1, <1>3 DEF FitInv

\* Taking a block keeps FitInv.
LEMMA FitTake ==
    ASSUME FitInv, NEW i \in 1..Len(blocks), TakeOversized(i) \/ TakeBlock(i)
    PROVE  FitInv'
<1>1. /\ stage = "chunk" /\ stage' = stage /\ UNCHANGED scanned
      /\ i = next /\ next' = next + 1
  BY DEF TakeOversized, TakeBlock, Take
<1>2. blocks \in Seq(Block) /\ next' \in 1..(Len(blocks) + 1)
  BY <1>1 DEF FitInv, ChunkTypeOK
<1> DEFINE p == StillPending(i)
           cs == Flushed(i)
<1>3. IsGroup(p) /\ AllFit(cs) /\ (p # <<>> => Alike(blocks[Last(p)], blocks[i]))
  BY FlushFits
<1>4. IsGroup(<<>>)
  BY DEF IsGroup
<1>5. Size(i) \in Int /\ ChunkSize \in Int
  BY <1>2, SizeType, ChunkAssumption
<1>6. AllFit(WithGroup(cs, p))
  <2> HIDE DEF cs, p
  <2> QED BY <1>2, <1>3, GroupIsAdded
<1>7. CASE TakeOversized(i)
  <2>1. Size(i) > ChunkSize /\ chunks' = WithGroup(cs, p) \o Split(i) /\ pending' = <<>>
    BY <1>7 DEF TakeOversized
  <2>2. AllFit(Split(i))
    BY <1>2, <2>1, SplitFacts
  <2> HIDE DEF cs, p
  <2>3. AllFit(WithGroup(cs, p) \o Split(i))
    BY <1>6, <2>2, FitConcat
  <2> QED BY <1>1, <1>2, <1>4, <2>1, <2>3, FitChunks
<1>8. CASE TakeBlock(i)
  <2>1. /\ Size(i) <= ChunkSize
        /\ IF Exceeds(p, i) THEN chunks' = WithGroup(cs, p) /\ pending' = <<i>>
           ELSE chunks' = cs /\ pending' = Append(p, i)
    BY <1>8 DEF TakeBlock
  <2> HIDE DEF cs, p
  <2>2. IsGroup(<<i>>) /\ (~Exceeds(p, i) => IsGroup(Append(p, i)))
    BY <1>2, <1>3, <2>1, GroupGrows
  <2> QED BY <1>1, <1>2, <1>3, <1>6, <2>1, <2>2, FitChunks
<1> QED BY <1>7, <1>8

\* The end of the blocks keeps FitInv.
LEMMA FitEnd == ASSUME FitInv, EndOfBlocks PROVE FitInv'
<1>1. /\ stage = "chunk" /\ stage' = "ready" /\ UNCHANGED scanned
      /\ next' = next
      /\ chunks' = WithGroup(chunks, pending) /\ pending' = <<>>
  BY DEF EndOfBlocks
<1>2. blocks \in Seq(Block) /\ next' \in 1..(Len(blocks) + 1)
      /\ IsGroup(pending) /\ AllFit(chunks)
  BY <1>1 DEF FitInv, ChunkTypeOK
<1>4. next' = Len(blocks) + 1
  BY <1>1, <1>2 DEF EndOfBlocks
<1>3. AllFit(WithGroup(chunks, pending)) /\ IsGroup(<<>>)
  BY <1>2, GroupIsAdded DEF IsGroup
<1> QED BY <1>1, <1>2, <1>3, <1>4, FitChunks

\* Every line of the text keeps FitInv.
LEMMA FitRead ==
    ASSUME FitInv, ReadHeading \/ ReadBlank \/ ReadPageBreak \/ ReadText \/ EndOfText
    PROVE  FitInv'
<1> USE DEF ReadLine
<1>0. ChunkTypeOK
  BY DEF FitInv
<1>1. stage = "scan" /\ EndParagraph \in Seq(Block)
  BY <1>0, EndParagraphType DEF ReadHeading, ReadBlank, ReadPageBreak, ReadText, EndOfText
<1>2. /\ lines \in Nat /\ texts \in Seq(Line) /\ page \in Nat
      /\ headings \in Seq(Titles) /\ paragraph \in Seq(Line) /\ blocks \in Seq(Block)
  BY <1>0 DEF ChunkTypeOK
<1>3. CASE ReadHeading
  <2>1. headings' \in Seq(Titles)
    BY <1>2, <1>3, UnderType DEF ReadHeading
  <2> QED BY <1>1, <1>2, <1>3, <2>1, FitText DEF ReadHeading
<1>4. CASE ReadBlank
  BY <1>1, <1>2, <1>4, FitText DEF ReadBlank
<1>5. CASE ReadPageBreak
  BY <1>1, <1>2, <1>5, FitText DEF ReadPageBreak
<1>6. CASE ReadText
  <2>1. texts' \in Seq(Line) /\ paragraph' \in Seq(Line) /\ blocks' \in Seq(Block)
    <3>1. PICK line \in Line :
            /\ texts' = Append(texts, line)
            /\ \/ blocks' = EndParagraph /\ paragraph' = <<line>>
               \/ paragraph' = Append(paragraph, line) /\ blocks' = blocks
      BY <1>6 DEF ReadText
    <3>2. Append(texts, line) \in Seq(Line) /\ <<line>> \in Seq(Line)
          /\ Append(paragraph, line) \in Seq(Line)
      BY <1>2
    <3> QED BY <1>1, <1>2, <3>1, <3>2
  <2> QED BY <1>1, <1>2, <1>6, <2>1, FitText DEF ReadText
<1>7. CASE EndOfText
  BY <1>1, <1>2, <1>7, FitText DEF EndOfText
<1> QED BY <1>3, <1>4, <1>5, <1>6, <1>7

\* Indexing the chunks keeps FitInv.
LEMMA FitIndex == ASSUME FitInv, Index PROVE FitInv'
<1>1. /\ chunks' = <<>> /\ blocks' = <<>> /\ next' = 1 /\ pending' = pending
      /\ lines' = 0 /\ texts' = <<>> /\ page' = 1 /\ headings' = <<>>
      /\ paragraph' = paragraph /\ stage = "ready" /\ stage' = "stored"
  BY DEF Index
<1>2. pending' = <<>> /\ paragraph' = <<>>
  BY <1>1 DEF FitInv, ChunkTypeOK
<1>3. ChunkTypeOK'
  BY <1>1, <1>2 DEF ChunkTypeOK
<1>4. IsGroup(pending)' /\ AllFit(chunks)'
  BY <1>1, <1>2 DEF IsGroup, AllFit
<1> QED BY <1>3, <1>4 DEF FitInv

\* The other steps leave the text alone.
LEMMA FitOther ==
    ASSUME FitInv, UNCHANGED <<scanned, next, pending, chunks>>,
           stage' \notin {"scan", "chunk", "ready"} \/ stage' = stage
    PROVE  FitInv'
<1>1. /\ blocks' = blocks /\ lines' = lines /\ texts' = texts /\ page' = page
      /\ headings' = headings /\ paragraph' = paragraph
      /\ next' = next /\ pending' = pending /\ chunks' = chunks
  BY DEF scanned
<1>2. ChunkTypeOK'
  BY <1>1 DEF ChunkTypeOK, FitInv
<1>3. IsGroup(pending)' /\ AllFit(chunks)'
  BY <1>1 DEF FitInv, IsGroup, AllFit, Fit1, GroupSize, Size
<1> QED BY <1>2, <1>3 DEF FitInv

\* Every step keeps FitInv.
LEMMA FitStep == FitInv /\ [RetrievalNext]_vars => FitInv'
<1> SUFFICES ASSUME FitInv, [RetrievalNext]_vars PROVE FitInv'
  OBVIOUS
<1>1. CASE RewriteQuestion
  BY <1>1, FitOther DEF RewriteQuestion
<1>2. CASE ChunkNext /\ UNCHANGED <<rvars, qvars>>
  BY <1>2, FitRead, FitTake, FitEnd DEF ChunkNext
<1>3. CASE Index
  BY <1>3, FitIndex
<1>4. CASE Recall
  BY <1>4, FitOther DEF Recall
<1>5. CASE Rerank
  BY <1>5, FitOther DEF Rerank
<1>6. CASE Postprocess
  BY <1>6, FitOther DEF Postprocess
<1>7. CASE CollectSummary
  BY <1>7, FitOther DEF CollectSummary
<1>8. CASE UNCHANGED vars
  BY <1>8, FitOther DEF vars, kvars, scanned
<1> QED BY <1>1, <1>2, <1>3, <1>4, <1>5, <1>6, <1>7, <1>8 DEF RetrievalNext

\* FitInv holds of the empty text.
LEMMA FitInit == RetrievalInit => FitInv
<1> SUFFICES ASSUME RetrievalInit PROVE FitInv
  OBVIOUS
<1>1. ChunkTypeOK
  BY DEF RetrievalInit, ChunkInit, ChunkTypeOK
<1>2. IsGroup(pending) /\ AllFit(chunks)
  BY <1>1 DEF RetrievalInit, ChunkInit, IsGroup, AllFit
<1> QED BY <1>1, <1>2 DEF FitInv

\* FitInv holds of every run of the pipeline (chunking.py:50-108).
LEMMA FitInvHolds == RetrievalSpec => []FitInv
BY FitInit, FitStep, PTL DEF RetrievalSpec

\* No chunk is longer than chunk_size, and what a chunk says of itself holds of
\* each of its blocks, in every reachable state and for every text
\* (make_chunks_from_text, chunking.py:50-108).
THEOREM ChunksFitHolds == RetrievalSpec => []ChunksFit
<1>1. FitInv => ChunksFit
  <2> SUFFICES ASSUME FitInv PROVE ChunksFit
    OBVIOUS
  <2>1. AllFit(chunks) /\ DOMAIN chunks = 1..Len(chunks)
    BY DEF FitInv, AllFit
  <2> QED BY <2>1 DEF AllFit, Fit1, ChunksFit
<1> QED BY <1>1, FitInvHolds, PTL

-----------------------------------------------------------------------------
(* NothingIsLost *)

RowsOf(bs) == FlattenSeq([i \in DOMAIN bs |-> bs[i].rows])
PiecesOf(cs) == FlattenSeq([k \in DOMAIN cs |-> cs[k].pieces])

\* There is a block.
LEMMA ABlock == [rows |-> <<>>, page |-> 1, path |-> <<>>] \in Block
BY DEF Block

\* The rows of the blocks, with one more block.
LEMMA RowsOfAppend ==
    ASSUME NEW bs \in Seq(Block), NEW b \in Block
    PROVE  /\ RowsOf(bs) \in Seq(Line)
           /\ RowsOf(Append(bs, b)) = RowsOf(bs) \o b.rows
<1> DEFINE g == [x \in Block |-> x.rows]
<1>1. \A x \in Block : g[x] = x.rows /\ g[x] \in Seq(Line)
  BY DEF Block
<1>0. Maps(g, Block, Seq(Line))
  BY <1>1 DEF Maps
<1>2. ASSUME NEW s \in Seq(Block) PROVE RowsOf(s) = FlattenSeq(MappedBy(g, s))
  <2>1. \A i \in DOMAIN s : s[i] \in Block
    OBVIOUS
  <2>2. [i \in DOMAIN s |-> s[i].rows] = MappedBy(g, s)
    <3> HIDE DEF g
    <3> QED BY <1>1, <2>1 DEF MappedBy
  <2> HIDE DEF g
  <2> QED BY <2>2 DEF RowsOf
<1> HIDE DEF g
<1>3. MappedBy(g, bs) \in Seq(Seq(Line))
  BY <1>0, MappedType
<1>4. MappedBy(g, Append(bs, b)) = Append(MappedBy(g, bs), g[b])
  <2>1. <<>> \in Seq(Block)
    OBVIOUS
  <2> QED BY <1>0, <2>1, MappedFacts
<1>5. Append(bs, b) \in Seq(Block)
  OBVIOUS
<1>6. RowsOf(bs) = FlattenSeq(MappedBy(g, bs))
      /\ RowsOf(Append(bs, b)) = FlattenSeq(Append(MappedBy(g, bs), g[b]))
  BY <1>2, <1>4, <1>5
<1>7. g[b] = b.rows /\ g[b] \in Seq(Line)
  BY <1>1
<1> QED BY <1>3, <1>6, <1>7, FlattenFacts

\* The pieces of chunks, in two parts or with one more chunk.
LEMMA PiecesOfSeq ==
    ASSUME NEW cs \in Seq(Chunk), NEW ds \in Seq(Chunk)
    PROVE  /\ PiecesOf(cs) \in Seq(Piece)
           /\ PiecesOf(cs \o ds) = PiecesOf(cs) \o PiecesOf(ds)
           /\ \A c \in Chunk : PiecesOf(Append(cs, c)) = PiecesOf(cs) \o c.pieces
<1> DEFINE g == [x \in Chunk |-> x.pieces]
<1>1. \A x \in Chunk : g[x] = x.pieces /\ g[x] \in Seq(Piece)
  BY DEF Chunk
<1>0. Maps(g, Chunk, Seq(Piece))
  BY <1>1 DEF Maps
<1>2. ASSUME NEW s \in Seq(Chunk) PROVE PiecesOf(s) = FlattenSeq(MappedBy(g, s))
  <2>1. \A i \in DOMAIN s : s[i] \in Chunk
    OBVIOUS
  <2>2. [i \in DOMAIN s |-> s[i].pieces] = MappedBy(g, s)
    <3> HIDE DEF g
    <3> QED BY <1>1, <2>1 DEF MappedBy
  <2> HIDE DEF g
  <2> QED BY <2>2 DEF PiecesOf
<1> HIDE DEF g
<1>3. MappedBy(g, cs) \in Seq(Seq(Piece)) /\ MappedBy(g, ds) \in Seq(Seq(Piece))
  BY <1>0, MappedType
<1>4. /\ MappedBy(g, cs \o ds) = MappedBy(g, cs) \o MappedBy(g, ds)
      /\ \A x \in Chunk : MappedBy(g, Append(cs, x)) = Append(MappedBy(g, cs), g[x])
  BY <1>0, MappedFacts
<1>5. cs \o ds \in Seq(Chunk)
  OBVIOUS
<1>6. PiecesOf(cs) = FlattenSeq(MappedBy(g, cs)) /\ PiecesOf(ds) = FlattenSeq(MappedBy(g, ds))
  BY <1>2
<1>7. PiecesOf(cs \o ds) = PiecesOf(cs) \o PiecesOf(ds)
  <2>1. PiecesOf(cs \o ds) = FlattenSeq(MappedBy(g, cs) \o MappedBy(g, ds))
    BY <1>2, <1>4, <1>5
  <2>2. FlattenSeq(MappedBy(g, cs) \o MappedBy(g, ds))
        = FlattenSeq(MappedBy(g, cs)) \o FlattenSeq(MappedBy(g, ds))
    BY <1>3, FlattenConcat
  <2> QED BY <1>6, <2>1, <2>2
<1>8. ASSUME NEW c \in Chunk PROVE PiecesOf(Append(cs, c)) = PiecesOf(cs) \o c.pieces
  <2>1. Append(cs, c) \in Seq(Chunk)
    OBVIOUS
  <2>2. PiecesOf(Append(cs, c)) = FlattenSeq(Append(MappedBy(g, cs), g[c]))
    BY <1>2, <1>4, <2>1
  <2>3. g[c] = c.pieces /\ g[c] \in Seq(Piece)
    BY <1>1
  <2> QED BY <1>3, <1>6, <2>2, <2>3, FlattenFacts
<1>9. PiecesOf(cs) \in Seq(Piece)
  BY <1>3, <1>6, FlattenFacts
<1> QED BY <1>7, <1>8, <1>9

Adjacent(x, y) ==
    \/ y.block = x.block + 1 /\ x.to = Size(x.block) /\ y.from = 0
    \/ y.block = x.block /\ x.from < y.from

\* Character c of block i is in piece x.
In(i, c, x) == x.block = i /\ x.from < c /\ c <= x.to

\* The pieces x have the blocks up to m.
Cover(x, m) ==
    /\ \A i \in 1..m : \A c \in 1..Size(i) : \E j \in 1..Len(x) : In(i, c, x[j])
    /\ \A j \in 1..(Len(x) - 1) : Adjacent(x[j], x[j + 1])
    /\ m = 0 => x = <<>>
    /\ m # 0 => x # <<>> /\ x[Len(x)].block = m /\ x[Len(x)].to = Size(m)

\* The pieces y have the blocks after m, up to n.
GoesOn(y, m, n) ==
    /\ y # <<>>
    /\ \A i \in (m + 1)..n : \A c \in 1..Size(i) : \E j \in 1..Len(y) : In(i, c, y[j])
    /\ \A j \in 1..(Len(y) - 1) : Adjacent(y[j], y[j + 1])
    /\ y[1].block = m + 1 /\ y[1].from = 0
    /\ y[Len(y)].block = n /\ y[Len(y)].to = Size(n)

\* Pieces that cover m blocks and pieces that go on from there cover more.
LEMMA CoverConcat ==
    ASSUME NEW x \in Seq(Piece), NEW y \in Seq(Piece), NEW m \in Nat, NEW n \in Nat,
           m < n, Cover(x, m), GoesOn(y, m, n)
    PROVE  Cover(x \o y, n)
<1>1. PICK k \in Nat, l \in Nat : k = Len(x) /\ l = Len(y)
  OBVIOUS
<1> DEFINE z == x \o y
<1>2. l # 0
  BY <1>1, EmptySeq DEF GoesOn
<1>3. /\ z \in Seq(Piece) /\ Len(z) = k + l
      /\ \A j \in 1..(k + l) : z[j] = IF j <= k THEN x[j] ELSE y[j - k]
  BY <1>1, ConcatProperties
<1> HIDE DEF z
<1>4. \A j \in 1..l : z[k + j] = y[j]
  <2> SUFFICES ASSUME NEW j \in 1..l PROVE z[k + j] = y[j]
    OBVIOUS
  <2>1. k + j \in 1..(k + l) /\ ~(k + j <= k) /\ (k + j) - k = j
    OBVIOUS
  <2> QED BY <1>3, <2>1
<1>5. \A j \in 1..k : z[j] = x[j]
  BY <1>3
<1>6. ASSUME NEW i \in 1..n, NEW c \in 1..Size(i)
      PROVE  \E j \in 1..Len(z) : In(i, c, z[j])
  <2>1. CASE i <= m
    <3>1. PICK j \in 1..k : In(i, c, x[j])
      BY <1>1, <2>1 DEF Cover
    <3>2. j \in 1..(k + l)
      OBVIOUS
    <3> QED BY <1>3, <1>5, <3>1, <3>2
  <2>2. CASE ~(i <= m)
    <3>1. PICK j \in 1..l : In(i, c, y[j])
      BY <1>1, <2>2 DEF GoesOn
    <3>2. k + j \in 1..(k + l)
      OBVIOUS
    <3> QED BY <1>3, <1>4, <3>1, <3>2
  <2> QED BY <2>1, <2>2
<1>7. ASSUME NEW j \in 1..(k + l - 1) PROVE Adjacent(z[j], z[j + 1])
  <2>1. CASE j < k
    <3>1. j \in 1..(k - 1) /\ j \in 1..k /\ j + 1 \in 1..k
      BY <2>1
    <3>2. Adjacent(x[j], x[j + 1])
      BY <1>1, <3>1 DEF Cover
    <3> QED BY <1>5, <3>1, <3>2
  <2>2. CASE j = k
    <3>1. m # 0 /\ k \in 1..k
      <4>1. x # <<>>
        BY <1>1, <2>2
      <4> QED BY <1>1, <4>1 DEF Cover
    <3>2. z[j] = x[k] /\ z[j + 1] = y[1]
      <4>1. 1 \in 1..l /\ j + 1 = k + 1
        BY <1>2, <2>2
      <4> QED BY <1>4, <1>5, <2>2, <3>1, <4>1
    <3>3. x[k].block = m /\ x[k].to = Size(m) /\ y[1].block = m + 1 /\ y[1].from = 0
      BY <1>1, <3>1 DEF Cover, GoesOn
    <3> QED BY <3>2, <3>3 DEF Adjacent
  <2>3. CASE j > k
    <3>1. j - k \in 1..(l - 1) /\ j - k \in 1..l /\ (j - k) + 1 \in 1..l
          /\ k + (j - k) = j /\ k + ((j - k) + 1) = j + 1
      BY <2>3
    <3>2. Adjacent(y[j - k], y[(j - k) + 1])
      BY <1>1, <3>1 DEF GoesOn
    <3>3. z[k + (j - k)] = y[j - k] /\ z[k + ((j - k) + 1)] = y[(j - k) + 1]
      BY <1>4, <3>1
    <3> QED BY <3>1, <3>2, <3>3
  <2> QED BY <2>1, <2>2, <2>3
<1>8. z # <<>> /\ z[Len(z)] = y[l]
  <2>1. l \in 1..l /\ k + l # 0
    BY <1>2
  <2> QED BY <1>3, <1>4, <2>1
<1>9. z[Len(z)].block = n /\ z[Len(z)].to = Size(n)
  BY <1>1, <1>8 DEF GoesOn
<1>11. n # 0 /\ Len(z) - 1 = k + l - 1
  BY <1>3
<1>10. Cover(z, n)
  BY <1>6, <1>7, <1>8, <1>9, <1>11 DEF Cover
<1> QED BY <1>10 DEF z

\* p has the blocks after m.
After(p, m) == \A j \in 1..Len(p) : p[j] = m + j

\* The pieces of a group are its blocks, one after the other.
LEMMA GroupGoesOn ==
    ASSUME blocks \in Seq(Block), NEW p \in Seq(1..Len(blocks)), p # <<>>,
           NEW m \in Nat, After(p, m)
    PROVE  Whole(p) \in Seq(Piece) /\ GoesOn(Whole(p), m, m + Len(p))
<1>1. PICK n \in Nat \ {0} : n = Len(p)
  <2>1. Len(p) \in Nat /\ Len(p) # 0
    BY EmptySeq
  <2> QED BY <2>1
<1> DEFINE w == Whole(p)
<1>2. \A k \in 1..n : p[k] \in 1..Len(blocks) /\ p[k] = m + k
  BY <1>1 DEF After
<1>3. \A k \in 1..n : [block |-> p[k], from |-> 0, to |-> Size(p[k])] \in Piece
  BY <1>2, SizeType DEF Piece
<1>4. w \in Seq(Piece) /\ Len(w) = n
      /\ \A k \in 1..n : w[k] = [block |-> p[k], from |-> 0, to |-> Size(p[k])]
  BY <1>1, <1>3 DEF Whole
<1> HIDE DEF w
<1>5. \A k \in 1..n : w[k].block = m + k /\ w[k].from = 0 /\ w[k].to = Size(m + k)
  <2> SUFFICES ASSUME NEW k \in 1..n
               PROVE  w[k].block = m + k /\ w[k].from = 0 /\ w[k].to = Size(m + k)
    OBVIOUS
  <2>1. w[k].block = p[k] /\ w[k].from = 0 /\ w[k].to = Size(p[k])
    BY <1>4
  <2>2. p[k] = m + k
    BY <1>2
  <2> QED BY <2>1, <2>2
<1>6. ASSUME NEW i \in (m + 1)..(m + n), NEW c \in 1..Size(i)
      PROVE  \E j \in 1..Len(w) : In(i, c, w[j])
  <2>1. i - m \in 1..n /\ m + (i - m) = i
    OBVIOUS
  <2>2. w[i - m].block = i /\ w[i - m].from = 0 /\ w[i - m].to = Size(i)
    BY <1>5, <2>1
  <2>3. m + (i - m) \in 1..Len(blocks)
    BY <1>2, <2>1
  <2>4. Size(i) \in Int
    BY <2>1, <2>3, SizeType
  <2>5. In(i, c, w[i - m])
    BY <2>2, <2>4 DEF In
  <2> QED BY <1>4, <2>1, <2>5
<1>7. ASSUME NEW j \in 1..(n - 1) PROVE Adjacent(w[j], w[j + 1])
  <2>1. j \in 1..n /\ j + 1 \in 1..n /\ (m + j) + 1 = m + (j + 1)
    OBVIOUS
  <2> QED BY <1>5, <2>1 DEF Adjacent
<1>8. 1 \in 1..n /\ n \in 1..n
  OBVIOUS
<1>9. w # <<>>
  BY <1>4, <1>8
<1>10. GoesOn(w, m, m + n)
  BY <1>4, <1>5, <1>6, <1>7, <1>8, <1>9 DEF GoesOn
<1> QED BY <1>1, <1>4, <1>10 DEF w

Snips(i) == [k \in 1..Snippets(Size(i)) |-> Snippet(i, k)]

\* The windows of an oversized block leave out none of its characters.
LEMMA SplitGoesOn ==
    ASSUME blocks \in Seq(Block), NEW i \in 1..Len(blocks), Size(i) > ChunkSize
    PROVE  /\ Snips(i) \in Seq(Piece) /\ PiecesOf(Split(i)) = Snips(i)
           /\ GoesOn(Snips(i), i - 1, i)
<1>1. Size(i) \in Nat \ {0} /\ ChunkSize \in Nat \ {0} /\ Stride \in 1..ChunkSize
  BY SizeType, ChunkAssumption, StrideFacts
<1>2. PICK n \in Nat \ {0} : n = Snippets(Size(i))
  BY <1>1, SnippetFacts
<1>3. Reach(n) >= Size(i)
  BY <1>1, <1>2, SnippetFacts
<1>4. \A k \in Int : Reach(k) \in Int /\ Offset(k) \in Int /\ Reach(k) = Offset(k) + ChunkSize
  <2>1. \A k \in Int : Reach(k) \in Int /\ Offset(k) \in Int
    BY ReachFacts
  <2>2. \A k \in Int : Reach(k) = Offset(k) + ChunkSize
    BY DEF Reach
  <2> QED BY <2>1, <2>2
<1>5. \A k \in 1..n : Snippet(i, k) \in Piece
  <2> SUFFICES ASSUME NEW k \in 1..n PROVE Snippet(i, k) \in Piece
    OBVIOUS
  <2>1. k \in Int
    OBVIOUS
  <2>2. Min({Size(i), Reach(k)}) \in Int
    <3>1. \A a, b \in Int : Min({a, b}) \in Int
      BY MinMaxOfTwo
    <3>2. Size(i) \in Int /\ Reach(k) \in Int
      BY <1>1, <1>4, <2>1
    <3> QED BY <3>1, <3>2
  <2>3. i \in Nat
    OBVIOUS
  <2> QED BY <1>4, <2>1, <2>2, <2>3 DEF Snippet, Piece
<1> DEFINE w == Snips(i)
<1>6. w \in Seq(Piece) /\ Len(w) = n /\ DOMAIN w = 1..n
      /\ \A k \in 1..n : w[k] = Snippet(i, k)
  BY <1>2, <1>5 DEF Snips
<1>7. PiecesOf(Split(i)) = w
  <2>1. Len(Split(i)) = n /\ \A k \in 1..n : Split(i)[k].pieces = <<Snippet(i, k)>>
    BY <1>2, SplitFacts
  <2>2. Split(i) \in Seq(Chunk)
    BY SplitFacts DEF AllFit
  <2>3. DOMAIN Split(i) = 1..n
    BY <2>1, <2>2
  <2> HIDE DEF w
  <2>4. [k \in DOMAIN Split(i) |-> Split(i)[k].pieces] = [k \in DOMAIN w |-> <<w[k]>>]
    BY <1>6, <2>1, <2>3
  <2>5. FlattenSeq([k \in DOMAIN w |-> <<w[k]>>]) = w
    BY <1>6, FlattenSingles
  <2> QED BY <2>4, <2>5 DEF PiecesOf
<1> HIDE DEF w
<1>8. \A k \in 1..n : /\ w[k].block = i /\ w[k].from = Offset(k)
                      /\ w[k].to = Min({Size(i), Reach(k)})
  <2> SUFFICES ASSUME NEW k \in 1..n
               PROVE  /\ w[k].block = i /\ w[k].from = Offset(k)
                      /\ w[k].to = Min({Size(i), Reach(k)})
    OBVIOUS
  <2>1. w[k] = Snippet(i, k)
    BY <1>6
  <2>2. /\ Snippet(i, k).block = i /\ Snippet(i, k).from = Offset(k)
        /\ Snippet(i, k).to = Min({Size(i), Reach(k)})
    BY DEF Snippet
  <2> QED BY <2>1, <2>2
<1>9. ASSUME NEW c \in 1..Size(i)
      PROVE  \E j \in 1..Len(w) : In(i, c, w[j])
  <2> DEFINE K == {k \in 1..n : Reach(k) >= c}
  <2>1. K \subseteq Nat /\ n \in K
    <3>0. n \in Int /\ c \in Int /\ c <= Size(i)
      BY <1>1
    <3>2. Reach(n) \in Int
      BY <1>4, <3>0
    <3>1. Reach(n) \in Int /\ Reach(n) >= c
      BY <1>1, <1>3, <3>0, <3>2
    <3> QED BY <3>1
  <2>2. PICK k \in K : \A x \in K : k <= x
    <3> HIDE DEF K
    <3> QED BY <2>1, MinFacts
  <2>3. Offset(k) < c
    <3>1. CASE k = 1
      <4>1. Offset(1) = 0
        BY ReachFacts
      <4> QED BY <3>1, <4>1
    <3>2. CASE k # 1
      <4>1. k - 1 \in 1..n /\ k - 1 \in Int /\ (k - 1) + 1 = k /\ ~(k <= k - 1)
        BY <3>2
      <4>2. ~(Reach(k - 1) >= c)
        BY <2>2, <4>1
      <4>3. Offset(k) = Offset(k - 1) + Stride
        <5>1. \A a \in Int : Offset(a + 1) = Offset(a) + Stride
          BY ReachFacts
        <5> QED BY <4>1, <5>1
      <4>4. Reach(k - 1) = Offset(k - 1) + ChunkSize /\ Offset(k - 1) \in Int
        BY <1>4, <4>1
      <4> QED BY <1>1, <4>2, <4>3, <4>4
    <3> QED BY <3>1, <3>2
  <2>4. Reach(k) >= c /\ Reach(k) \in Int /\ k \in 1..n
    BY <1>4
  <2>5. c <= Min({Size(i), Reach(k)})
    <3>1. \A a, b \in Int : Min({a, b}) \in {a, b}
      BY MinMaxOfTwo
    <3>2. Min({Size(i), Reach(k)}) \in {Size(i), Reach(k)}
      BY <1>1, <2>4, <3>1
    <3> QED BY <1>1, <2>4, <3>2
  <2>6. In(i, c, w[k])
    BY <1>8, <2>3, <2>4, <2>5 DEF In
  <2> QED BY <1>6, <2>4, <2>6
<1>10. ASSUME NEW j \in 1..(n - 1) PROVE Adjacent(w[j], w[j + 1])
  <2>1. j \in 1..n /\ j + 1 \in 1..n /\ j \in Int
    OBVIOUS
  <2>2. Offset(j + 1) = Offset(j) + Stride /\ Offset(j) \in Int
    <3>1. \A a \in Int : Offset(a + 1) = Offset(a) + Stride
      BY ReachFacts
    <3> QED BY <1>4, <2>1, <3>1
  <2>3. w[j].block = i /\ w[j].from = Offset(j)
    BY <1>8, <2>1
  <2>4. w[j + 1].block = i /\ w[j + 1].from = Offset(j + 1)
    BY <1>8, <2>1
  <2>5. Offset(j) < Offset(j + 1)
    BY <1>1, <2>2
  <2> QED BY <2>3, <2>4, <2>5 DEF Adjacent
<1>11. w[1].block = i /\ w[1].from = 0 /\ w[n].block = i /\ w[n].to = Size(i)
  <2>1. Offset(1) = 0 /\ 1 \in 1..n /\ n \in 1..n /\ n \in Int
    BY ReachFacts
  <2>2. Min({Size(i), Reach(n)}) = Size(i)
    <3>1. \A a, b \in Int : /\ Min({a, b}) \in {a, b}
                             /\ Min({a, b}) <= a /\ Min({a, b}) <= b
      BY MinMaxOfTwo
    <3>2. Reach(n) \in Int /\ Size(i) \in Int
      BY <1>1, <1>4, <2>1
    <3>3. /\ Min({Size(i), Reach(n)}) \in {Size(i), Reach(n)}
          /\ Min({Size(i), Reach(n)}) <= Size(i)
      BY <3>1, <3>2
    <3> QED BY <1>3, <3>2, <3>3
  <2> QED BY <1>8, <2>1, <2>2
<1>12. w # <<>>
  BY <1>6
<1>13. (i - 1) + 1 = i /\ \A x \in ((i - 1) + 1)..i : x = i
  OBVIOUS
<1>14. GoesOn(w, i - 1, i)
  BY <1>6, <1>9, <1>10, <1>11, <1>12, <1>13 DEF GoesOn
<1> QED BY <1>6, <1>7, <1>14 DEF w

\* With the chunk of the pending group, the chunks cover its blocks too.
LEMMA GroupCovers ==
    ASSUME blocks \in Seq(Block), NEW p, IsGroup(p), NEW cs, AllFit(cs),
           NEW m \in Nat, After(p, m), Cover(PiecesOf(cs), m)
    PROVE  Cover(PiecesOf(WithGroup(cs, p)), m + Len(p))
<1>1. p \in Seq(1..Len(blocks)) /\ cs \in Seq(Chunk) /\ Len(p) \in Nat
  BY DEF IsGroup, AllFit
<1>2. CASE p = <<>>
  <2>1. Len(p) = 0 /\ m + 0 = m
    BY <1>2
  <2> QED BY <1>2, <2>1 DEF WithGroup
<1>3. CASE p # <<>>
  <2> DEFINE c == ChunkOf(p[1], Whole(p), GroupSize(p))
  <2>1. WithGroup(cs, p) = Append(cs, c)
    BY <1>3 DEF WithGroup, Whole
  <2>2. c \in Chunk /\ c.pieces = Whole(p)
    BY <1>3, GroupFits DEF Fit1, ChunkOf
  <2> HIDE DEF c
  <2>3. PiecesOf(WithGroup(cs, p)) = PiecesOf(cs) \o Whole(p)
    BY <1>1, <2>1, <2>2, PiecesOfSeq
  <2>4. PiecesOf(cs) \in Seq(Piece)
    BY <1>1, PiecesOfSeq
  <2>5. Whole(p) \in Seq(Piece) /\ GoesOn(Whole(p), m, m + Len(p))
    BY <1>1, <1>3, GroupGoesOn
  <2>6. m < m + Len(p) /\ m + Len(p) \in Nat
    BY <1>1, <1>3, EmptySeq
  <2> QED BY <2>3, <2>4, <2>5, <2>6, CoverConcat
<1> QED BY <1>2, <1>3

\* The chunks cs have the blocks before those of p, which end with the block n.
Taken(cs, p, n) ==
    /\ n - Len(p) \in Nat
    /\ After(p, n - Len(p))
    /\ Cover(PiecesOf(cs), n - Len(p))

\* The blocks have all rows that were read, and the chunks and what is pending
\* all pieces of the blocks that were taken.
LostInv ==
    /\ FitInv
    /\ RowsOf(blocks) \o paragraph = texts
    /\ Taken(chunks, pending, next - 1)

\* Before the first block, nothing is covered.
LEMMA NothingTaken == Taken(<<>>, <<>>, 0) /\ RowsOf(<<>>) = <<>>
<1>1. Len(<<>>) = 0 /\ 0 - 0 = 0 /\ <<>> \in Seq(Piece)
  OBVIOUS
<1>2. PiecesOf(<<>>) = <<>> /\ RowsOf(<<>>) = <<>>
  <2>1. [i \in DOMAIN <<>> |-> <<>>[i].pieces] = <<>>
    OBVIOUS
  <2>2. [i \in DOMAIN <<>> |-> <<>>[i].rows] = <<>>
    OBVIOUS
  <2> QED BY <2>1, <2>2, FlattenFacts DEF PiecesOf, RowsOf
<1>3. Cover(<<>>, 0)
  BY <1>1 DEF Cover
<1>4. After(<<>>, 0)
  BY DEF After
<1> QED BY <1>1, <1>2, <1>3, <1>4 DEF Taken

\* Closing the pending group moves its blocks to the chunks.
LEMMA GroupTaken ==
    ASSUME blocks \in Seq(Block), NEW p, IsGroup(p), NEW cs, AllFit(cs),
           NEW n \in Nat, Taken(cs, p, n)
    PROVE  Taken(WithGroup(cs, p), <<>>, n)
<1>1. Len(p) \in Nat /\ Len(<<>>) = 0
  BY DEF IsGroup
<1>2. PICK m \in Nat : m = n - Len(p)
  BY DEF Taken
<1>3. m + Len(p) = n /\ n - 0 = n
  BY <1>1, <1>2
<1>4. Cover(PiecesOf(WithGroup(cs, p)), n)
  BY <1>2, <1>3, GroupCovers DEF Taken
<1>5. After(<<>>, n)
  BY <1>1 DEF After
<1> QED BY <1>1, <1>3, <1>4, <1>5 DEF Taken

\* So does flushing it before the next block.
LEMMA FlushTaken ==
    ASSUME LostInv, NEW i \in 1..Len(blocks)
    PROVE  Taken(Flushed(i), StillPending(i), next - 1)
<1>1. blocks \in Seq(Block) /\ IsGroup(pending) /\ AllFit(chunks) /\ next - 1 \in Nat
  BY DEF LostInv, FitInv, ChunkTypeOK
<1>2. Taken(WithGroup(chunks, pending), <<>>, next - 1)
  BY <1>1, GroupTaken DEF LostInv
<1> QED BY <1>2 DEF StillPending, Flushed, LostInv

\* Only the blocks matter.
LEMMA SameTaken ==
    ASSUME blocks' = blocks
    PROVE  \A cs, p, n : Taken(cs, p, n)' <=> Taken(cs, p, n)
<1>1. \A i : Size(i)' = Size(i)
  BY SameBlocks
<1>2. \A x, m : Cover(x, m)' <=> Cover(x, m)
  BY <1>1 DEF Cover, In, Adjacent
<1> QED BY <1>2 DEF Taken

\* Taking a block keeps LostInv.
LEMMA LostTake ==
    ASSUME LostInv, NEW i \in 1..Len(blocks), TakeOversized(i) \/ TakeBlock(i)
    PROVE  LostInv'
<1>1. FitInv /\ FitInv'
  BY FitTake DEF LostInv
<1>2. /\ UNCHANGED scanned /\ i = next /\ next' = next + 1
      /\ blocks' = blocks /\ paragraph' = paragraph /\ texts' = texts
  BY DEF TakeOversized, TakeBlock, Take, scanned
<1>3. blocks \in Seq(Block) /\ i \in Nat /\ next - 1 = i - 1 /\ i - 1 \in Nat
      /\ next' - 1 = i
  BY <1>1, <1>2 DEF FitInv, ChunkTypeOK
<1> DEFINE p == StillPending(i)
           cs == Flushed(i)
<1>4. IsGroup(p) /\ AllFit(cs)
  BY <1>1, FlushFits
<1>5. Taken(cs, p, i - 1)
  BY <1>3, FlushTaken
<1>6. Taken(WithGroup(cs, p), <<>>, i - 1) /\ AllFit(WithGroup(cs, p))
  <2> HIDE DEF cs, p
  <2> QED BY <1>3, <1>4, <1>5, GroupTaken, GroupIsAdded
<1>7. \E qs, q : chunks' = qs /\ pending' = q /\ Taken(qs, q, i)
  <2>1. CASE TakeOversized(i)
    <3>1. Size(i) > ChunkSize /\ chunks' = WithGroup(cs, p) \o Split(i) /\ pending' = <<>>
      BY <2>1 DEF TakeOversized
    <3>2. AllFit(Split(i)) /\ Snips(i) \in Seq(Piece) /\ PiecesOf(Split(i)) = Snips(i)
          /\ GoesOn(Snips(i), i - 1, i)
      BY <1>3, <3>1, SplitFacts, SplitGoesOn
    <3> DEFINE g == WithGroup(cs, p)
    <3>3. AllFit(g) /\ Taken(g, <<>>, i - 1)
      BY <1>6
    <3> HIDE DEF g
    <3>4. g \in Seq(Chunk) /\ Split(i) \in Seq(Chunk)
      BY <3>2, <3>3 DEF AllFit
    <3>5. PiecesOf(g \o Split(i)) = PiecesOf(g) \o Snips(i) /\ PiecesOf(g) \in Seq(Piece)
      BY <3>2, <3>4, PiecesOfSeq
    <3>6. Len(<<>>) = 0 /\ (i - 1) - 0 = i - 1 /\ i - 0 = i /\ i - 1 < i
      BY <1>3
    <3>7. Cover(PiecesOf(g), i - 1)
      BY <3>3, <3>6 DEF Taken
    <3>8. Cover(PiecesOf(g \o Split(i)), i)
      BY <1>3, <3>2, <3>5, <3>6, <3>7, CoverConcat
    <3>9. Taken(g \o Split(i), <<>>, i)
      BY <1>3, <3>6, <3>8 DEF Taken, After
    <3> QED BY <3>1, <3>9 DEF g
  <2>2. CASE TakeBlock(i)
    <3>1. IF Exceeds(p, i) THEN chunks' = WithGroup(cs, p) /\ pending' = <<i>>
          ELSE chunks' = cs /\ pending' = Append(p, i)
      BY <2>2 DEF TakeBlock
    <3> HIDE DEF cs, p
    <3>2. Taken(WithGroup(cs, p), <<i>>, i)
      <4>1. Len(<<>>) = 0 /\ (i - 1) - 0 = i - 1 /\ Len(<<i>>) = 1 /\ <<i>>[1] = i
            /\ (i - 1) + 1 = i
        BY <1>3
      <4> QED BY <1>3, <1>6, <4>1 DEF Taken, After
    <3>3. Taken(cs, Append(p, i), i)
      <4>1. p \in Seq(1..Len(blocks)) /\ Len(p) \in Nat
        BY <1>4 DEF IsGroup
      <4>2. PICK m \in Nat : m = (i - 1) - Len(p) /\ After(p, m) /\ Cover(PiecesOf(cs), m)
        BY <1>5 DEF Taken
      <4>3. Len(Append(p, i)) = Len(p) + 1 /\ i - (Len(p) + 1) = m
        BY <1>3, <4>1, <4>2
      <4>4. \A j \in 1..(Len(p) + 1) : Append(p, i)[j] = m + j
        <5> SUFFICES ASSUME NEW j \in 1..(Len(p) + 1) PROVE Append(p, i)[j] = m + j
          OBVIOUS
        <5>1. CASE j \in 1..Len(p)
          <6>1. Append(p, i)[j] = p[j]
            BY <4>1, <5>1
          <6> QED BY <4>2, <5>1, <6>1 DEF After
        <5>2. CASE j = Len(p) + 1
          <6>1. Append(p, i)[j] = i
            BY <4>1, <5>2
          <6> QED BY <1>3, <4>1, <4>2, <5>2, <6>1
        <5> QED BY <4>1, <5>1, <5>2
      <4>5. After(Append(p, i), m)
        BY <4>3, <4>4 DEF After
      <4> QED BY <4>2, <4>3, <4>5 DEF Taken
    <3> QED BY <3>1, <3>2, <3>3
  <2> QED BY <2>1, <2>2
<1>8. Taken(chunks, pending, next - 1)'
  BY <1>2, <1>3, <1>7, SameTaken
<1> QED BY <1>1, <1>2, <1>8 DEF LostInv

\* The end of the blocks keeps LostInv.
LEMMA LostEnd == ASSUME LostInv, EndOfBlocks PROVE LostInv'
<1>1. FitInv /\ FitInv'
  BY FitEnd DEF LostInv
<1>2. /\ blocks' = blocks /\ paragraph' = paragraph /\ texts' = texts /\ next' = next
      /\ chunks' = WithGroup(chunks, pending) /\ pending' = <<>>
  BY DEF EndOfBlocks, scanned
<1>3. blocks \in Seq(Block) /\ IsGroup(pending) /\ AllFit(chunks) /\ next - 1 \in Nat
  BY <1>1 DEF FitInv, ChunkTypeOK
<1>4. Taken(WithGroup(chunks, pending), <<>>, next - 1)
  BY <1>3, GroupTaken DEF LostInv
<1>5. Taken(chunks, pending, next - 1)'
  BY <1>2, <1>4, SameTaken
<1> QED BY <1>1, <1>2, <1>5 DEF LostInv

\* The lines of the text, when a paragraph ends.
LEMMA EndParagraphRows ==
    ASSUME LostInv
    PROVE  /\ RowsOf(EndParagraph) = texts /\ texts \in Seq(Line)
           /\ RowsOf(EndParagraph) \o <<>> = texts
<1> DEFINE b == [rows |-> paragraph, page |-> page, path |-> headings]
<1>1. blocks \in Seq(Block) /\ texts \in Seq(Line) /\ paragraph \in Seq(Line)
  BY DEF LostInv, FitInv, ChunkTypeOK
<1>2. b \in Block /\ b.rows = paragraph
  BY DEF LostInv, FitInv, ChunkTypeOK, Block
<1> HIDE DEF b
<1>3. RowsOf(blocks) \in Seq(Line) /\ RowsOf(Append(blocks, b)) = RowsOf(blocks) \o paragraph
  BY <1>1, <1>2, RowsOfAppend
<1>4. RowsOf(blocks) \o <<>> = RowsOf(blocks) /\ texts \o <<>> = texts
  BY <1>1, <1>3, EmptySeq
<1>5. CASE paragraph = <<>>
  <2>1. EndParagraph = blocks
    BY <1>5 DEF EndParagraph
  <2>2. RowsOf(blocks) \o <<>> = texts
    BY <1>5 DEF LostInv
  <2> QED BY <1>1, <1>4, <2>1, <2>2
<1>6. CASE paragraph # <<>>
  BY <1>1, <1>3, <1>4, <1>6 DEF EndParagraph, LostInv, b
<1> QED BY <1>5, <1>6

\* A step of the scan keeps LostInv if the rows it reads are those of the
\* text.
LEMMA LostText ==
    ASSUME LostInv, FitInv', stage = "scan", UNCHANGED <<next, pending, chunks>>,
           RowsOf(blocks') \o paragraph' = texts'
    PROVE  LostInv'
<1>1. pending' = <<>> /\ chunks' = <<>> /\ next' - 1 = 0
  BY DEF LostInv, FitInv, ChunkTypeOK
<1>2. Taken(<<>>, <<>>, 0)'
  BY NothingTaken, PTL
<1> QED BY <1>1, <1>2 DEF LostInv

\* Every line of the text keeps LostInv.
LEMMA LostRead ==
    ASSUME LostInv, ReadHeading \/ ReadBlank \/ ReadPageBreak \/ ReadText \/ EndOfText
    PROVE  LostInv'
<1>1. FitInv'
  BY FitRead DEF LostInv
<1>2. stage = "scan" /\ UNCHANGED <<next, pending, chunks>>
  BY DEF ReadLine, ReadHeading, ReadBlank, ReadPageBreak, ReadText, EndOfText
<1>3. RowsOf(EndParagraph) \o <<>> = texts /\ RowsOf(EndParagraph) = texts
  BY EndParagraphRows
<1>4. RowsOf(blocks') \o paragraph' = texts'
  <2>1. CASE ReadText
    <3>1. PICK line \in Line :
            /\ texts' = Append(texts, line)
            /\ \/ blocks' = EndParagraph /\ paragraph' = <<line>>
               \/ paragraph' = Append(paragraph, line) /\ blocks' = blocks
      BY <2>1 DEF ReadText
    <3>2. texts \in Seq(Line) /\ paragraph \in Seq(Line) /\ blocks \in Seq(Block)
      BY DEF LostInv, FitInv, ChunkTypeOK
    <3>3. RowsOf(blocks) \in Seq(Line)
      BY <3>2, RowsOfAppend, ABlock
    <3>4. texts \o <<line>> = Append(texts, line)
      BY <3>2
    <3>5. RowsOf(blocks) \o Append(paragraph, line)
          = Append(RowsOf(blocks) \o paragraph, line)
      <4>1. Append(paragraph, line) = paragraph \o <<line>> /\ <<line>> \in Seq(Line)
        BY <3>2, AppendIsConcat
      <4>2. RowsOf(blocks) \o paragraph \in Seq(Line)
        BY <3>2, <3>3
      <4>3. Append(RowsOf(blocks) \o paragraph, line)
            = (RowsOf(blocks) \o paragraph) \o <<line>>
        BY <4>2, AppendIsConcat
      <4>4. (RowsOf(blocks) \o paragraph) \o <<line>>
            = RowsOf(blocks) \o (paragraph \o <<line>>)
        BY <3>2, <3>3, <4>1, ConcatAssociative
      <4> QED BY <4>1, <4>3, <4>4
    <3> QED BY <1>3, <3>1, <3>4, <3>5 DEF LostInv
  <2>2. CASE ~ReadText
    <3>1. blocks' = EndParagraph /\ paragraph' = <<>> /\ texts' = texts
      BY <2>2 DEF ReadHeading, ReadBlank, ReadPageBreak, EndOfText
    <3> QED BY <1>3, <3>1
  <2> QED BY <2>1, <2>2
<1> QED BY <1>1, <1>2, <1>4, LostText

\* A step that leaves the blocks and the chunks keeps LostInv.
LEMMA LostOther ==
    ASSUME LostInv, FitInv', UNCHANGED <<scanned, next, pending, chunks>>
    PROVE  LostInv'
<1>1. /\ blocks' = blocks /\ texts' = texts /\ paragraph' = paragraph
      /\ next' = next /\ pending' = pending /\ chunks' = chunks
  BY DEF scanned
<1>2. Taken(chunks, pending, next - 1)'
  BY <1>1, SameTaken DEF LostInv
<1> QED BY <1>1, <1>2 DEF LostInv

\* Indexing the chunks keeps LostInv.
LEMMA LostIndex == ASSUME LostInv, Index PROVE LostInv'
<1>1. FitInv'
  BY FitIndex DEF LostInv
<1>2. /\ chunks' = <<>> /\ blocks' = <<>> /\ next' = 1 /\ texts' = <<>>
      /\ pending' = pending /\ paragraph' = paragraph /\ stage = "ready"
  BY DEF Index
<1>3. pending' = <<>> /\ paragraph' = <<>>
  BY <1>2 DEF LostInv, FitInv, ChunkTypeOK
<1>4. Taken(<<>>, <<>>, 0)'
  BY NothingTaken, PTL
<1>5. RowsOf(<<>>) \o <<>> = <<>>
  <2>1. <<>> \in Seq({}) /\ <<>> \o <<>> = <<>>
    OBVIOUS
  <2> QED BY <2>1, NothingTaken
<1> QED BY <1>1, <1>2, <1>3, <1>4, <1>5 DEF LostInv

\* Every step keeps LostInv.
LEMMA LostStep == LostInv /\ [RetrievalNext]_vars => LostInv'
<1> SUFFICES ASSUME LostInv, [RetrievalNext]_vars PROVE LostInv'
  OBVIOUS
<1>0. FitInv'
  BY FitStep DEF LostInv
<1>1. CASE ChunkNext /\ UNCHANGED <<rvars, qvars>>
  BY <1>1, LostRead, LostTake, LostEnd DEF ChunkNext
<1>2. CASE Index
  BY <1>2, LostIndex
<1>3. CASE UNCHANGED vars
  BY <1>0, <1>3, LostOther DEF vars, kvars, scanned
<1>4. CASE RewriteQuestion \/ Recall \/ Rerank \/ Postprocess \/ CollectSummary
  <2>1. UNCHANGED <<scanned, next, pending, chunks>>
    BY <1>4 DEF RewriteQuestion, Recall, Rerank, Postprocess, CollectSummary
  <2> QED BY <1>0, <2>1, LostOther
<1> QED BY <1>1, <1>2, <1>3, <1>4 DEF RetrievalNext

\* LostInv holds of the empty text.
LEMMA LostInit == RetrievalInit => LostInv
<1> SUFFICES ASSUME RetrievalInit PROVE LostInv
  OBVIOUS
<1>1. blocks = <<>> /\ paragraph = <<>> /\ texts = <<>> /\ chunks = <<>>
      /\ pending = <<>> /\ next - 1 = 0
  BY DEF RetrievalInit, ChunkInit
<1> QED BY <1>1, FitInit, NothingTaken DEF LostInv

\* Whatever the text, the blocks have its lines and the chunks, in order, all
\* characters of the blocks (chunking.py:111-148, 237-275).
THEOREM NothingIsLostHolds == RetrievalSpec => []NothingIsLost
<1>1. LostInv => NothingIsLost
  <2> SUFFICES ASSUME LostInv, stage = "ready"
               PROVE  /\ FlattenSeq([i \in DOMAIN blocks |-> blocks[i].rows]) = texts
                      /\ \A i \in DOMAIN blocks : \A c \in 1..Size(i) :
                           \E x \in ToSet(AllPieces) : x.block = i /\ x.from < c /\ c <= x.to
                      /\ \A j \in 1..(Len(AllPieces) - 1) :
                           Adjacent(AllPieces[j], AllPieces[j + 1])
    BY DEF NothingIsLost, Adjacent
  <2>1. /\ blocks \in Seq(Block) /\ chunks \in Seq(Chunk)
        /\ paragraph = <<>> /\ pending = <<>> /\ next = Len(blocks) + 1
    BY DEF LostInv, FitInv, ChunkTypeOK
  <2>2. RowsOf(blocks) = texts
    <3>1. RowsOf(blocks) \in Seq(Line)
      BY <2>1, RowsOfAppend, ABlock
    <3> QED BY <2>1, <3>1, EmptySeq DEF LostInv
  <2>3. AllPieces = PiecesOf(chunks) /\ AllPieces \in Seq(Piece)
    BY <2>1, PiecesOfSeq DEF AllPieces, PiecesOf
  <2>4. Cover(AllPieces, Len(blocks))
    <3>1. Len(<<>>) = 0 /\ Len(blocks) \in Nat /\ ((Len(blocks) + 1) - 1) - 0 = Len(blocks)
      BY <2>1
    <3> QED BY <2>1, <2>3, <3>1 DEF LostInv, Taken
  <2>5. DOMAIN blocks = 1..Len(blocks) /\ DOMAIN AllPieces = 1..Len(AllPieces)
    BY <2>1, <2>3
  <2>6. ToSet(AllPieces) = {AllPieces[j] : j \in 1..Len(AllPieces)}
    BY <2>5 DEF ToSet
  <2> QED BY <2>2, <2>4, <2>5, <2>6 DEF Cover, In, RowsOf
<1>2. RetrievalSpec => []LostInv
  BY LostInit, LostStep, PTL DEF RetrievalSpec
<1> QED BY <1>1, <1>2, PTL

-----------------------------------------------------------------------------
(* What the search finds *)

Indexed == [len : Int, kind : Kinds, page : Nat, path : Seq(Titles)]
Candidate == [doc : Docs, order : Orders, score : Scores]

\* Of a chunk there is one candidate.
FoundOK ==
    /\ stored \in Seq(Indexed)
    /\ IsFiniteSet(candidates) /\ candidates \subseteq Candidate
    /\ \A a, b \in candidates : a.doc = b.doc /\ a.order = b.order => a = b

\* What the reranker leaves.
RerankInv ==
    /\ stage \in {"reranked", "retrieved", "selected"} =>
         /\ reranked \in Seq(candidates) /\ Distinct(reranked)
         /\ Len(reranked) = Min({TopK, Cardinality(candidates)})
    /\ stage \in {"scan", "chunk", "ready", "stored"} => candidates = {}
    /\ FoundOK
    /\ FitInv

\* What is stored of a chunk.
LEMMA ToIndexed ==
    ASSUME FitInv, Index
    PROVE  stored' \in Seq(Indexed)
<1>1. chunks \in Seq(Chunk)
  BY DEF FitInv, ChunkTypeOK
<1>2. PICK n \in Nat : n = Len(chunks)
  BY <1>1
<1>3. DOMAIN chunks = 1..n /\ \A k \in 1..n : chunks[k] \in Chunk
  BY <1>1, <1>2, ElementOfSeq
<1> DEFINE r(k) == [len |-> chunks[k].len, kind |-> chunks[k].kind,
                    page |-> chunks[k].page, path |-> chunks[k].path]
<1>4. stored' = [k \in 1..n |-> r(k)]
  BY <1>3 DEF Index
<1>5. \A k \in 1..n : r(k) \in Indexed
  BY <1>3 DEF Chunk, Indexed
<1> HIDE DEF r
<1> QED BY <1>4, <1>5

\* A search finds every chunk at most once.
LEMMA RecallFinds ==
    ASSUME FoundOK, Recall
    PROVE  FoundOK'
<1>1. stored' = stored /\ stored \in Seq(Indexed) /\ Orders' = Orders
  BY DEF FoundOK, Recall, Orders
<1>2. PICK n \in 0..Min({MaxCandidates, Cardinality(Docs) * Len(stored)}) :
        \E found \in kSubset(n, Docs \X Orders) : \E score \in [found -> Scores] :
           candidates' = {[doc |-> c[1], order |-> c[2], score |-> score[c]] : c \in found}
  BY DEF Recall
<1>3. PICK found \in kSubset(n, Docs \X Orders) : \E score \in [found -> Scores] :
           candidates' = {[doc |-> c[1], order |-> c[2], score |-> score[c]] : c \in found}
  BY <1>2
<1>4. PICK score \in [found -> Scores] :
           candidates' = {[doc |-> c[1], order |-> c[2], score |-> score[c]] : c \in found}
  BY <1>3
<1> DEFINE r(c) == [doc |-> c[1], order |-> c[2], score |-> score[c]]
           f == [c \in found |-> r(c)]
<1>5. found \in SUBSET (Docs \X Orders)
  BY <1>3 DEF kSubset
<1>6. IsFiniteSet(found)
  <2>1. Len(stored) - 1 \in Int
    BY <1>1
  <2>2. IsFiniteSet(Orders)
    BY <2>1, FS_Interval DEF Orders
  <2>3. IsFiniteSet(Docs \X Orders)
    BY <2>2, FS_Product, RetrievalAssumption
  <2> QED BY <1>5, <2>3, FS_Subset
<1>7. candidates' = {f[c] : c \in found}
  BY <1>4
<1>8. f \in Surjection(found, candidates')
  BY <1>7 DEF Surjection
<1>9. IsFiniteSet(candidates')
  <2> HIDE DEF f
  <2> QED BY <1>6, <1>8, FS_Surjection
<1>10. \A c \in found : /\ c[1] \in Docs /\ c[2] \in Orders /\ c = <<c[1], c[2]>>
                        /\ score[c] \in Scores
  BY <1>5
<1>11. \A c \in found : r(c) \in Candidate /\ r(c).doc = c[1] /\ r(c).order = c[2]
  BY <1>10 DEF Candidate
<1>12. candidates' = {r(c) : c \in found}
  BY <1>4
<1> HIDE DEF r
<1>13. candidates' \subseteq Candidate
  BY <1>11, <1>12
<1>14. \A a, b \in candidates' : a.doc = b.doc /\ a.order = b.order => a = b
  <2> SUFFICES ASSUME NEW a \in candidates', NEW b \in candidates',
                      a.doc = b.doc, a.order = b.order
               PROVE  a = b
    OBVIOUS
  <2>1. PICK c \in found : a = r(c)
    BY <1>12
  <2>2. PICK d \in found : b = r(d)
    BY <1>12
  <2>3. c[1] = d[1] /\ c[2] = d[2]
    BY <1>11, <2>1, <2>2
  <2>4. c = d
    BY <1>10, <2>3
  <2> QED BY <2>1, <2>2, <2>4
<1>15. Candidate' = Candidate
  BY <1>1 DEF Candidate
<1> QED BY <1>1, <1>9, <1>13, <1>14, <1>15 DEF FoundOK

-----------------------------------------------------------------------------
(* RerankIsComplete *)

\* The model is shown a beginning of the candidates.
LEMMA ShownFacts ==
    ASSUME NEW ranked, Len(ranked) \in Nat
    PROVE  Shown(ranked) \in 0..Len(ranked)
<1>1. TopK \in Nat /\ RerankMax \in Nat
  BY RetrievalAssumption
<1>2. Max({TopK, RerankMax}) \in Nat
  <2>1. \A a, b \in Int : Max({a, b}) \in {a, b}
    BY MinMaxOfTwo
  <2>2. Max({TopK, RerankMax}) \in {TopK, RerankMax}
    BY <1>1, <2>1
  <2> QED BY <1>1, <2>2
<1> DEFINE n == Max({TopK, RerankMax})
<1>3. n \in Nat
  BY <1>2
<1> HIDE DEF n
<1>4. Min({Len(ranked), n}) \in 0..Len(ranked)
  BY <1>3, MinInNat
<1> QED BY <1>4 DEF Shown, n

\* Whatever the answer, the candidates are reordered: each stays, once.
LEMMA ReorderedFacts ==
    ASSUME NEW S, NEW ranked \in Seq(S), Distinct(ranked),
           NEW ids \in Seq(Nat \ {0})
    PROVE  /\ Reordered(ranked, ids) \in Seq(S)
           /\ Len(Reordered(ranked, ids)) = Len(ranked)
           /\ Distinct(Reordered(ranked, ids))
<1>1. PICK n \in Nat : n = Len(ranked)
  OBVIOUS
<1>2. DOMAIN ranked = 1..n
  BY <1>1
<1> DEFINE m == Shown(ranked)
           I == {i \in NewAt(ids) : ids[i] <= m}
           first == Named(ids, m)
           order == first \o Ascending((1..n) \ ToSet(first))
<1>3. m \in 0..n
  BY <1>1, ShownFacts
<1> HIDE DEF m
<1>4. first = Pick(ids, I)
  BY DEF Named
<1>5. I \in SUBSET NewAt(ids)
  OBVIOUS
<1>6. first \in Seq(Nat \ {0}) /\ Distinct(first)
      /\ \A x \in ToSet(first) : \E i \in I : ids[i] = x
  <2> HIDE DEF I
  <2> QED BY <1>4, <1>5, DistinctPick
<1> HIDE DEF first
<1>7. \A i \in 1..Len(first) : first[i] \in 1..n
  <2> SUFFICES ASSUME NEW i \in 1..Len(first) PROVE first[i] \in 1..n
    OBVIOUS
  <2>1. first[i] \in ToSet(first) /\ first[i] \in Nat \ {0}
    BY <1>6 DEF ToSet
  <2>2. PICK j \in I : ids[j] = first[i]
    BY <1>6, <2>1
  <2>3. first[i] <= m
    BY <2>2
  <2> QED BY <1>3, <2>1, <2>3
<1>8. first \in Seq(1..n)
  <2>1. PICK l \in Nat : l = Len(first) /\ DOMAIN first = 1..l
    BY <1>6
  <2>2. first \in [1..l -> 1..n]
    BY <1>6, <1>7, <2>1, LenProperties
  <2> QED BY <2>2
<1>9. order \in Seq(1..n) /\ Len(order) = n /\ Distinct(order)
  BY <1>6, <1>8, CompletedFacts
<1>10. Reordered(ranked, ids) = [k \in DOMAIN order |-> ranked[order[k]]]
  BY <1>2 DEF Reordered, first, m
<1> HIDE DEF order
<1>11. DOMAIN order = 1..n /\ \A k \in 1..n : order[k] \in 1..n
  BY <1>9
<1> DEFINE r == Reordered(ranked, ids)
<1>12. \A k \in 1..n : ranked[order[k]] \in S
  BY <1>1, <1>11, ElementOfSeq
<1>13. r \in Seq(S) /\ Len(r) = n /\ \A k \in 1..n : r[k] = ranked[order[k]]
  BY <1>10, <1>11, <1>12
<1> HIDE DEF r
<1>14. Distinct(r)
  <2> SUFFICES ASSUME NEW i \in 1..n, NEW j \in 1..n, r[i] = r[j] PROVE i = j
    BY <1>13 DEF Distinct
  <2>1. order[i] = order[j]
    BY <1>1, <1>11, <1>13 DEF Distinct
  <2> QED BY <1>9, <2>1 DEF Distinct
<1> QED BY <1>1, <1>13, <1>14 DEF r

\* Whatever the model names, reranking leaves candidates, each once, as many
\* as there should be.
LEMMA RerankKeeps ==
    ASSUME RerankInv, Rerank
    PROVE  /\ reranked' \in Seq(candidates) /\ Distinct(reranked')
           /\ Len(reranked') = Min({TopK, Cardinality(candidates)})
<1>1. IsFiniteSet(candidates) /\ Cardinality(candidates) \in Nat /\ TopK \in Nat
  BY FS_CardinalityType, RetrievalAssumption DEF RerankInv, FoundOK
<1>2. PICK ranked \in SetToSeqs(candidates) :
         \E ids \in IF Len(ranked) <= 1 THEN {<<>>}
                   ELSE BoundedSeq(1..(Shown(ranked) + 1), MaxIds) :
           reranked' = First(Reordered(ranked, ids), TopK)
  BY DEF Rerank
<1>3. PICK ids \in IF Len(ranked) <= 1 THEN {<<>>}
                   ELSE BoundedSeq(1..(Shown(ranked) + 1), MaxIds) :
           reranked' = First(Reordered(ranked, ids), TopK)
  BY <1>2
<1>4. PICK n \in Nat : n = Cardinality(candidates)
  BY <1>1
<1>5. ranked \in [1..n -> candidates]
      /\ \A i, j \in 1..n : i # j => ranked[i] # ranked[j]
  BY <1>4 DEF SetToSeqs
<1>6. ranked \in Seq(candidates) /\ Len(ranked) = n
  BY <1>5
<1>7. Distinct(ranked)
  BY <1>5, <1>6 DEF Distinct
<1>8. ids \in Seq(Nat \ {0})
  <2>1. CASE Len(ranked) <= 1
    <3>1. <<>> \in Seq(Nat \ {0})
      OBVIOUS
    <3> QED BY <1>3, <2>1, <3>1
  <2>2. CASE ~(Len(ranked) <= 1)
    <3>1. PICK l \in 0..MaxIds : ids \in [1..l -> 1..(Shown(ranked) + 1)]
      BY <1>3, <2>2 DEF BoundedSeq, SeqOf
    <3>2. \A x \in 1..(Shown(ranked) + 1) : x \in Nat \ {0}
      OBVIOUS
    <3>3. ids \in [1..l -> Nat \ {0}] /\ l \in Nat
      BY <3>1, <3>2
    <3> QED BY <3>3
  <2> QED BY <2>1, <2>2
<1> DEFINE r == Reordered(ranked, ids)
<1>9. r \in Seq(candidates) /\ Len(r) = n /\ Distinct(r)
  BY <1>6, <1>7, <1>8, ReorderedFacts
<1> HIDE DEF r
<1>10. reranked' = First(r, TopK)
  BY <1>3 DEF r
<1>11. /\ First(r, TopK) \in Seq(candidates)
       /\ Len(First(r, TopK)) = IF n <= TopK THEN n ELSE TopK
       /\ \A i \in 1..Len(First(r, TopK)) : i \in 1..n /\ First(r, TopK)[i] = r[i]
  BY <1>1, <1>9, FirstFacts
<1>12. Min({TopK, n}) = IF TopK <= n THEN TopK ELSE n
  BY <1>1, MinMaxOfTwo
<1>13. Len(First(r, TopK)) = Min({TopK, n})
  BY <1>1, <1>11, <1>12
<1>14. Distinct(First(r, TopK))
  BY <1>9, <1>11 DEF Distinct
<1> QED BY <1>4, <1>10, <1>11, <1>13, <1>14

\* The steps of other stages keep RerankInv.
LEMMA RerankOther ==
    ASSUME RerankInv, FitInv', UNCHANGED <<stored, candidates, reranked>>,
           stage' \in {"reranked", "retrieved", "selected"} =>
             stage \in {"reranked", "retrieved", "selected"},
           stage' \in {"scan", "chunk", "ready", "stored"} =>
             stage \in {"scan", "chunk", "ready", "stored"}
    PROVE  RerankInv'
BY DEF RerankInv, FoundOK, Candidate, Orders, Indexed

\* Every step keeps RerankInv.
LEMMA RerankStep == RerankInv /\ [RetrievalNext]_vars => RerankInv'
<1> SUFFICES ASSUME RerankInv, [RetrievalNext]_vars PROVE RerankInv'
  OBVIOUS
<1>0. FitInv /\ FitInv' /\ FoundOK
  BY FitStep DEF RerankInv
<1>1. CASE RewriteQuestion
  BY <1>0, <1>1, RerankOther DEF RewriteQuestion, rvars
<1>2. CASE ChunkNext /\ UNCHANGED <<rvars, qvars>>
  <2>1. stage \in {"scan", "chunk", "ready"}
        /\ stage' \notin {"reranked", "retrieved", "selected"}
    BY <1>2 DEF ChunkNext, ReadHeading, ReadBlank, ReadPageBreak, ReadText, ReadLine,
         EndOfText, TakeOversized, TakeBlock, Take, EndOfBlocks
  <2> QED BY <1>0, <1>2, <2>1, RerankOther DEF rvars
<1>3. CASE Index
  <2>1. stage' = "stored" /\ candidates' = candidates /\ stage = "ready"
    BY <1>3 DEF Index
  <2>2. candidates = {}
    BY <2>1 DEF RerankInv
  <2>3. stored' \in Seq(Indexed)
    BY <1>0, <1>3, ToIndexed
  <2>4. FoundOK'
    BY <1>0, <2>1, <2>2, <2>3 DEF FoundOK
  <2> QED BY <1>0, <2>1, <2>4 DEF RerankInv
<1>4. CASE Recall
  <2>1. FoundOK' /\ stage' = "recalled"
    BY <1>0, <1>4, RecallFinds DEF Recall
  <2> QED BY <1>0, <2>1 DEF RerankInv
<1>5. CASE Rerank
  <2>1. /\ reranked' \in Seq(candidates) /\ Distinct(reranked')
        /\ Len(reranked') = Min({TopK, Cardinality(candidates)})
    BY <1>5, RerankKeeps
  <2>2. candidates' = candidates /\ stored' = stored /\ stage' = "reranked"
    BY <1>5 DEF Rerank
  <2>3. FoundOK'
    BY <1>0, <2>2 DEF FoundOK, Candidate, Orders, Indexed
  <2> QED BY <1>0, <2>1, <2>2, <2>3 DEF RerankInv
<1>6. CASE Postprocess
  BY <1>0, <1>6, RerankOther DEF Postprocess
<1>7. CASE CollectSummary
  BY <1>0, <1>7, RerankOther DEF CollectSummary
<1>8. CASE UNCHANGED vars
  BY <1>0, <1>8, RerankOther DEF vars, rvars, kvars
<1> QED BY <1>1, <1>2, <1>3, <1>4, <1>5, <1>6, <1>7, <1>8 DEF RetrievalNext

\* RerankInv holds in the beginning.
LEMMA RerankInit == RetrievalInit => RerankInv
<1> SUFFICES ASSUME RetrievalInit PROVE RerankInv
  OBVIOUS
<1>1. stage = "scan" /\ stored = <<>> /\ candidates = {}
  BY DEF RetrievalInit, ChunkInit
<1>2. FoundOK
  BY <1>1, FS_EmptySet DEF FoundOK
<1> QED BY <1>1, <1>2, FitInit DEF RerankInv

\* RerankInv holds of every run of the pipeline (reranker.py:30-167).
LEMMA RerankInvHolds == RetrievalSpec => []RerankInv
BY RerankInit, RerankStep, PTL DEF RetrievalSpec

\* Whatever the model answers, reranking leaves as many different candidates as
\* there are or top_k allows (reranker.py:72-95).
THEOREM RerankIsCompleteHolds == RetrievalSpec => []RerankIsComplete
<1>1. RerankInv => RerankIsComplete
  <2> SUFFICES ASSUME RerankInv, stage = "reranked"
               PROVE  /\ ToSet(reranked) \subseteq candidates
                      /\ Cardinality(ToSet(reranked)) = Len(reranked)
                      /\ Len(reranked) = Min({TopK, Cardinality(candidates)})
    BY DEF RerankIsComplete
  <2> QED BY DistinctFacts DEF RerankInv
<1> QED BY <1>1, RerankInvHolds, PTL

-----------------------------------------------------------------------------
(* Merging *)

Result == [doc : Docs, from : Orders, to : Orders, score : Scores, len : Int,
           kind : Kinds, page : Nat, path : Seq(Titles)]

\* The numbers of a result.
LEMMA ResultNumbers ==
    \A d \in Result : /\ d.doc \in Nat /\ d.from \in Nat /\ d.to \in Nat
                      /\ d.score \in Nat /\ d.len \in Int
<1> SUFFICES ASSUME NEW d \in Result
             PROVE  /\ d.doc \in Nat /\ d.from \in Nat /\ d.to \in Nat
                    /\ d.score \in Nat /\ d.len \in Int
  OBVIOUS
<1>1. d.doc \in Docs /\ d.from \in Orders /\ d.to \in Orders /\ d.score \in Scores
      /\ d.len \in Int
  BY DEF Result
<1>2. \A x \in Orders : x \in Nat
  BY DEF Orders
<1>3. \A x \in Scores : x \in Nat
  BY RetrievalAssumption
<1>4. \A x \in Docs : x \in Nat
  BY RetrievalAssumption
<1> QED BY <1>1, <1>2, <1>3, <1>4

\* A candidate as a result is that one chunk.
LEMMA ResultOfFacts ==
    ASSUME FoundOK, NEW c \in candidates
    PROVE  /\ ResultOf(c) \in Result
           /\ ResultOf(c).doc = c.doc /\ ResultOf(c).score = c.score
           /\ ResultOf(c).from = c.order /\ ResultOf(c).to = c.order
<1>1. c.doc \in Docs /\ c.order \in Orders /\ c.score \in Scores
  BY DEF FoundOK, Candidate
<1>2. At(c.order) \in Indexed
  <2>1. stored \in Seq(Indexed) /\ c.order + 1 \in 1..Len(stored)
    BY <1>1 DEF FoundOK, Orders
  <2> QED BY <2>1, ElementOfSeq DEF At
<1> QED BY <1>1, <1>2 DEF ResultOf, Result, Indexed

\* Two results merged run from the first of the one to the last of the other.
LEMMA MergePairFacts ==
    ASSUME NEW l \in Result, NEW r \in Result
    PROVE  /\ MergePair(l, r) \in Result
           /\ MergePair(l, r).doc = l.doc /\ MergePair(l, r).from = l.from
           /\ MergePair(l, r).to = r.to
           /\ MergePair(l, r).score = Max({l.score, r.score})
           /\ MergePair(l, r).len = l.len + 2 + r.len
<1>1. /\ l.doc \in Docs /\ l.from \in Orders /\ r.to \in Orders /\ l.len \in Int
      /\ l.kind \in Kinds /\ l.page \in Nat /\ l.path \in Seq(Titles)
      /\ r.path \in Seq(Titles) /\ r.len \in Int
      /\ l.score \in Scores /\ r.score \in Scores
  BY DEF Result
<1>2. Max({l.score, r.score}) \in Scores
  <2>1. \A a, b \in Int : Max({a, b}) \in {a, b}
    BY MinMaxOfTwo
  <2>2. Max({l.score, r.score}) \in {l.score, r.score}
    BY <2>1, ResultNumbers
  <2> QED BY <1>1, <2>2
<1> DEFINE x == Max({l.score, r.score})
           p == IF l.path = <<>> THEN r.path ELSE l.path
<1>3. MergePair(l, r) = [l EXCEPT !.to = r.to, !.score = x, !.len = l.len + 2 + r.len,
                                  !.path = p]
  BY DEF MergePair
<1>4. x \in Scores /\ p \in Seq(Titles) /\ l.len + 2 + r.len \in Int
  BY <1>1, <1>2
<1> HIDE DEF x, p
<1>5. MergePair(l, r) =
        [doc |-> l.doc, from |-> l.from, to |-> r.to, score |-> x,
         len |-> l.len + 2 + r.len, kind |-> l.kind, page |-> l.page, path |-> p]
  BY <1>3 DEF Result
<1> QED BY <1>1, <1>4, <1>5 DEF Result, x

\* t is done with r at its end, or with r merged into the last result.
Appended(t, done, r, n) ==
    /\ ~(n # 0 /\ CanMerge(done[n], r))
    /\ t \in Seq(Result) /\ Len(t) = n + 1
    /\ \A i \in 1..n : t[i] = done[i]
    /\ t[n + 1] = r
Paired(t, done, r, n) ==
    /\ n # 0 /\ CanMerge(done[n], r)
    /\ t \in Seq(Result) /\ Len(t) = n
    /\ \A i \in 1..(n - 1) : t[i] = done[i]
    /\ t[n] = MergePair(done[n], r)

\* A result is appended, or merged with the last one.
LEMMA AddFacts ==
    ASSUME NEW done \in Seq(Result), NEW r \in Result, NEW n \in Nat, n = Len(done)
    PROVE  Appended(Add(done, r), done, r, n) \/ Paired(Add(done, r), done, r, n)
<1>1. done # <<>> <=> n # 0
  BY EmptySeq
<1>2. Last(done) = done[n]
  BY DEF Last
<1>3. CASE n # 0 /\ CanMerge(done[n], r)
  <2>1. n \in 1..n /\ done[n] \in Result
    BY <1>3
  <2> DEFINE m == MergePair(done[n], r)
             f == Front(done)
  <2>2. m \in Result
    BY <2>1, MergePairFacts
  <2>3. f = SubSeq(done, 1, n - 1)
    BY DEF Front
  <2> HIDE DEF m, f
  <2>4. f \in Seq(Result) /\ Len(f) = n - 1 /\ \A i \in 1..(n - 1) : f[i] = done[i]
    BY <1>3, <2>3
  <2>5. Add(done, r) = Append(f, m)
    BY <1>1, <1>2, <1>3 DEF Add, f, m
  <2>6. /\ Append(f, m) \in Seq(Result) /\ Len(Append(f, m)) = n
        /\ \A i \in 1..(n - 1) : Append(f, m)[i] = f[i]
        /\ Append(f, m)[n] = m
    <3>1. (n - 1) + 1 = n
      OBVIOUS
    <3> QED BY <2>2, <2>4, <3>1, AppendProperties
  <2> QED BY <1>3, <2>4, <2>5, <2>6 DEF m, Paired
<1>4. CASE ~(n # 0 /\ CanMerge(done[n], r))
  <2>1. Add(done, r) = Append(done, r)
    BY <1>1, <1>2, <1>4 DEF Add
  <2> QED BY <1>4, <2>1, AppendProperties DEF Appended
<1> QED BY <1>3, <1>4

\* The results of s, merged one after the other.
AllMerged(s) ==
    LET merged[k \in 0..Len(s)] == IF k = 0 THEN <<>> ELSE Add(merged[k - 1], s[k])
    IN merged[Len(s)]

MergesTo(s, f) ==
    /\ f \in [0..Len(s) -> Seq(Result)]
    /\ f[0] = <<>>
    /\ \A k \in 1..Len(s) : f[k] = Add(f[k - 1], s[k])
    /\ AllMerged(s) = f[Len(s)]

\* The recursion of the merging defines a function.
LEMMA MergesExist ==
    ASSUME NEW s \in Seq(Result)
    PROVE  \E f : MergesTo(s, f)
<1>1. PICK n \in Nat : n = Len(s)
  OBVIOUS
<1> DEFINE T == Seq(Result)
           step == [p \in (1..n) \X T |-> Add(p[2], s[p[1]])]
           F(f) == [k \in 0..n |-> IF k = 0 THEN <<>> ELSE Add(f[k - 1], s[k])]
           merged == CHOOSE f : f = F(f)
<1>2. \A k \in 1..n : s[k] \in Result
  BY <1>1
<1>3. \A d \in T, r \in Result : Add(d, r) \in T
  <2> SUFFICES ASSUME NEW d \in T, NEW r \in Result PROVE Add(d, r) \in T
    OBVIOUS
  <2>1. PICK l \in Nat : l = Len(d)
    OBVIOUS
  <2> QED BY <2>1, AddFacts DEF Appended, Paired
<1>4. Steps(n, T, <<>>, step)
  <2>1. step \in [(1..n) \X T -> T]
    <3> HIDE DEF T
    <3> QED BY <1>2, <1>3
  <2>2. <<>> \in T
    OBVIOUS
  <2> QED BY <2>1, <2>2 DEF Steps
<1>5. PICK f : Goes(n, T, <<>>, step, f)
  <2> HIDE DEF step, T
  <2> QED BY <1>4, Recursion
<1>6. f \in [0..n -> T] /\ f[0] = <<>> /\ \A k \in 1..n : f[k] = Add(f[k - 1], s[k])
  <2>1. f \in [0..n -> T] /\ f[0] = <<>> /\ \A k \in 1..n : f[k] = step[<<k, f[k - 1]>>]
    <3> HIDE DEF step, T
    <3> QED BY <1>5 DEF Goes
  <2>2. ASSUME NEW k \in 1..n PROVE f[k] = Add(f[k - 1], s[k])
    <3>1. k - 1 \in 0..n
      OBVIOUS
    <3>2. f[k - 1] \in T
      <4> HIDE DEF T
      <4> QED BY <2>1, <3>1
    <3>3. step[<<k, f[k - 1]>>] = Add(f[k - 1], s[k])
      <4> HIDE DEF T
      <4> QED BY <3>2
    <3> QED BY <2>1, <3>3
  <2> QED BY <2>1, <2>2
<1> HIDE DEF step, T
<1>7. f = F(f)
  <2>1. ASSUME NEW k \in 0..n
        PROVE  f[k] = IF k = 0 THEN <<>> ELSE Add(f[k - 1], s[k])
    <3>1. k = 0 \/ k \in 1..n
      OBVIOUS
    <3> QED BY <1>6, <3>1
  <2>2. f = [k \in 0..n |-> f[k]]
    BY <1>6
  <2> QED BY <2>1, <2>2
<1>8. merged = F(merged)
  <2> HIDE DEF F
  <2> QED BY <1>7
<1>9. merged[0] = f[0] /\ \A k \in 1..n : merged[k - 1] = f[k - 1] => merged[k] = f[k]
  <2> HIDE DEF merged
  <2>1. merged[0] = <<>>
    BY <1>8
  <2>2. ASSUME NEW k \in 1..n PROVE merged[k] = Add(merged[k - 1], s[k])
    <3>1. k \in 0..n /\ k # 0
      OBVIOUS
    <3> QED BY <1>8, <3>1
  <2> QED BY <1>6, <2>1, <2>2
<1>10. \A k \in 0..n : merged[k] = f[k]
  <2> HIDE DEF merged
  <2>1. PICK g : g = merged
    OBVIOUS
  <2>2. StepAlike(n, g, f)
    BY <1>9, <2>1 DEF StepAlike
  <2>3. \A k \in 0..n : g[k] = f[k]
    BY <2>2, SameSteps
  <2> QED BY <2>1, <2>3
<1>11. AllMerged(s) = merged[n]
  BY <1>1 DEF AllMerged
<1>12. AllMerged(s) = f[n]
  <2> HIDE DEF merged
  <2> QED BY <1>10, <1>11
<1> QED BY <1>1, <1>6, <1>12 DEF MergesTo, T

-----------------------------------------------------------------------------
(* What is merged of the results s *)

InOrder(s) ==
    /\ s \in Seq(Result)
    /\ \A i \in 1..Len(s) : s[i].to = s[i].from
    /\ \A i, j \in 1..Len(s) : i < j => InDocument(s[i], s[j])

\* d is made from a and b, which may be the same.
MadeOf(d, a, b) ==
    /\ a.doc = d.doc /\ a.from = d.from /\ b.doc = d.doc /\ b.from = d.to
    /\ d.score = Max({a.score, b.score})
    /\ d.to = d.from \/ d.to = d.from + 1
    /\ d.from < d.to => d.len <= MergeLength + 2

Covers(d, a) == d.doc = a.doc /\ d.from <= a.from /\ a.from <= d.to

Before(d, e) == d.doc < e.doc \/ (d.doc = e.doc /\ d.to < e.from)

\* done is what is merged of the first k results of s.
MergedOf(s, k, done) ==
    /\ done \in Seq(Result) /\ Len(done) <= k
    /\ \A i \in 1..Len(done) : \E a, b \in 1..k : MadeOf(done[i], s[a], s[b])
    /\ \A j \in 1..k : \E i \in 1..Len(done) : Covers(done[i], s[j])
    /\ \A i, j \in 1..Len(done) : i < j => Before(done[i], done[j])
    /\ k # 0 => /\ Len(done) # 0
                /\ done[Len(done)].doc = s[k].doc /\ done[Len(done)].to = s[k].from

\* Before is transitive.
LEMMA BeforeGoesOn ==
    ASSUME NEW d \in Result, NEW e \in Result, NEW f \in Result,
           Before(d, e), e.from <= e.to, Before(e, f)
    PROVE  Before(d, f)
<1>1. /\ d.doc \in Nat /\ e.doc \in Nat /\ f.doc \in Nat
      /\ d.to \in Nat /\ e.from \in Nat /\ e.to \in Nat /\ f.from \in Nat
  BY ResultNumbers
<1> QED BY <1>1 DEF Before

\* A result, and the next one merged with it.
LEMMA PairFacts ==
    ASSUME NEW l \in Result, NEW r \in Result, NEW a \in Result, NEW b \in Result,
           r.to = r.from, CanMerge(l, r), Before(l, r), MadeOf(l, a, b)
    PROVE  LET d == MergePair(l, r) IN
           /\ l.to = l.from /\ d.from = l.from /\ d.doc = l.doc
           /\ d.doc = r.doc /\ d.to = r.from
           /\ MadeOf(d, a, r) \/ MadeOf(d, b, r)
           /\ Covers(d, r)
           /\ \A x \in Result : Covers(l, x) => Covers(d, x)
<1>1. PICK d : d = MergePair(l, r)
  OBVIOUS
<1>2. /\ d.doc = l.doc /\ d.from = l.from /\ d.to = r.to
      /\ d.score = Max({l.score, r.score}) /\ d.len = l.len + 2 + r.len
  BY <1>1, MergePairFacts
<1>3. /\ l.doc \in Nat /\ l.from \in Nat /\ l.to \in Nat /\ l.len \in Int
      /\ r.doc \in Nat /\ r.from \in Nat /\ r.len \in Int
      /\ a.score \in Nat /\ b.score \in Nat
      /\ MergeLength \in Int
  BY ResultNumbers, RetrievalAssumption
<1>4. l.doc = r.doc /\ r.from = l.from + 1 /\ l.len + r.len <= MergeLength
  BY DEF CanMerge, Fit
<1>5. l.to = l.from
  BY <1>3, <1>4 DEF Before, MadeOf
<1>6. l.score = a.score \/ l.score = b.score
  <2>1. \A x, y \in Int : Max({x, y}) \in {x, y}
    BY MinMaxOfTwo
  <2>2. Max({a.score, b.score}) \in {a.score, b.score}
    BY <1>3, <2>1
  <2> QED BY <2>2 DEF MadeOf
<1>7. /\ a.doc = d.doc /\ b.doc = d.doc /\ a.from = d.from /\ b.from = d.from
      /\ r.doc = d.doc /\ r.from = d.to /\ d.to = d.from + 1
      /\ d.len <= MergeLength + 2
  BY <1>2, <1>3, <1>4, <1>5 DEF MadeOf
<1>8. MadeOf(d, a, r) \/ MadeOf(d, b, r)
  BY <1>2, <1>6, <1>7 DEF MadeOf
<1>9. Covers(d, r)
  BY <1>2, <1>3, <1>7 DEF Covers
<1>10. ASSUME NEW x \in Result, Covers(l, x) PROVE Covers(d, x)
  <2>1. x.from \in Nat
    BY ResultNumbers
  <2> QED BY <1>2, <1>3, <1>5, <1>7, <1>10, <2>1 DEF Covers
<1> QED BY <1>1, <1>2, <1>5, <1>7, <1>8, <1>9, <1>10

\* One result more keeps the merged results as they should be.
LEMMA MergedOfStep ==
    ASSUME NEW s, InOrder(s), NEW k \in 1..Len(s), NEW done, MergedOf(s, k - 1, done)
    PROVE  MergedOf(s, k, Add(done, s[k]))
<1>1. PICK m \in Nat : m = Len(s)
  BY DEF InOrder
<1>2. PICK n \in Nat : n = Len(done)
  BY DEF MergedOf
<1>0. PICK r, t : r = s[k] /\ t = Add(done, r)
  OBVIOUS
<1> SUFFICES MergedOf(s, k, t)
  BY <1>0
<1>3. r \in Result /\ r.to = r.from /\ \A j \in 1..m : s[j] \in Result
  BY <1>0, <1>1 DEF InOrder
<1>4. done \in Seq(Result) /\ n <= k - 1 /\ k \in 1..m /\ \A i \in 1..n : done[i] \in Result
  BY <1>1, <1>2, ElementOfSeq DEF MergedOf
<1>5. \A i \in 1..n : \E a, b \in 1..(k - 1) : MadeOf(done[i], s[a], s[b])
  BY <1>2 DEF MergedOf
<1>6. \A j \in 1..(k - 1) : \E i \in 1..n : Covers(done[i], s[j])
  BY <1>2 DEF MergedOf
<1>7. \A i, j \in 1..n : i < j => Before(done[i], done[j])
  BY <1>2 DEF MergedOf
<1>8. n # 0 => k - 1 # 0
  BY <1>4
<1>9. n # 0 => Before(done[n], r)
  <2> SUFFICES ASSUME n # 0 PROVE Before(done[n], r)
    OBVIOUS
  <2>1. k - 1 \in 1..m /\ k - 1 < k
    BY <1>4, <1>8
  <2>2. InDocument(s[k - 1], r)
    BY <1>0, <1>1, <1>4, <2>1 DEF InOrder
  <2>3. done[n].doc = s[k - 1].doc /\ done[n].to = s[k - 1].from
    BY <1>2, <1>8 DEF MergedOf
  <2> QED BY <2>2, <2>3 DEF InDocument, Before
<1>10. \A i \in 1..n : Before(done[i], r)
  <2> SUFFICES ASSUME NEW i \in 1..n PROVE Before(done[i], r)
    OBVIOUS
  <2>1. i = n \/ (i < n /\ n \in 1..n)
    OBVIOUS
  <2>2. CASE i = n
    BY <1>9, <2>2
  <2>3. CASE i < n /\ n \in 1..n
    <3>1. Before(done[i], done[n]) /\ Before(done[n], r)
      BY <1>7, <1>9, <2>3
    <3>2. done[i] \in Result /\ done[n] \in Result
      BY <1>4, <2>3
    <3>4. done[n].from <= done[n].to
      <4>1. PICK a \in 1..(k - 1), b \in 1..(k - 1) : MadeOf(done[n], s[a], s[b])
        BY <1>5, <2>3
      <4>2. done[n].from \in Nat
        BY <3>2, ResultNumbers
      <4> QED BY <4>1, <4>2 DEF MadeOf
    <3> QED BY <1>3, <3>1, <3>2, <3>4, BeforeGoesOn
  <2> QED BY <2>1, <2>2, <2>3
<1>11. \A a, b \in 1..(k - 1) : a \in 1..k /\ b \in 1..k
  BY <1>4
<1>12. CASE Appended(t, done, r, n)
  <2> USE <1>12 DEF Appended
  <2>1. \A i \in 1..(n + 1) : i = n + 1 \/ i \in 1..n
    OBVIOUS
  <2>2. MadeOf(r, r, r)
    <3>1. Max({r.score, r.score}) = r.score
      <4>1. \A x, y \in Int : Max({x, y}) \in {x, y}
        BY MinMaxOfTwo
      <4>2. r.score \in Int
        BY <1>3, ResultNumbers
      <4> QED BY <4>1, <4>2
    <3>2. r.from \in Nat
      BY <1>3, ResultNumbers
    <3> QED BY <1>3, <3>1, <3>2 DEF MadeOf
  <2>3. ASSUME NEW i \in 1..(n + 1)
        PROVE  \E a, b \in 1..k : MadeOf(t[i], s[a], s[b])
    <3>1. CASE i = n + 1
      <4>1. k \in 1..k
        BY <1>4
      <4> QED BY <1>0, <1>12, <2>2, <3>1, <4>1
    <3>2. CASE i \in 1..n
      BY <1>5, <1>11, <1>12, <3>2
    <3> QED BY <2>1, <3>1, <3>2
  <2>4. ASSUME NEW j \in 1..k PROVE \E i \in 1..(n + 1) : Covers(t[i], s[j])
    <3>1. CASE j = k
      <4>1. Covers(r, r) /\ n + 1 \in 1..(n + 1)
        BY <1>3, ResultNumbers DEF Covers
      <4> QED BY <1>0, <1>12, <3>1, <4>1
    <3>2. CASE j \in 1..(k - 1)
      <4>1. PICK i \in 1..n : Covers(done[i], s[j])
        BY <1>6, <3>2
      <4>2. i \in 1..(n + 1) /\ t[i] = done[i]
        BY <1>12
      <4> QED BY <4>1, <4>2
    <3> QED BY <1>4, <3>1, <3>2
  <2>5. ASSUME NEW i \in 1..(n + 1), NEW j \in 1..(n + 1), i < j
        PROVE  Before(t[i], t[j])
    <3>1. i \in 1..n /\ t[i] = done[i]
      BY <1>12, <2>5
    <3>2. CASE j = n + 1
      BY <1>10, <1>12, <3>1, <3>2
    <3>3. CASE j \in 1..n
      BY <1>7, <1>12, <2>5, <3>1, <3>3
    <3> QED BY <2>1, <3>2, <3>3
  <2>6. n + 1 <= k /\ n + 1 # 0
    BY <1>4
  <2>7. t[n + 1].doc = s[k].doc /\ t[n + 1].to = s[k].from
    BY <1>0, <1>3, <1>12
  <2> QED BY <1>12, <2>3, <2>4, <2>5, <2>6, <2>7 DEF MergedOf
<1>13. CASE Paired(t, done, r, n)
  <2> USE <1>13 DEF Paired
  <2>1. PICK l, d : l = done[n] /\ d = t[n]
    OBVIOUS
  <2>2. l \in Result /\ n \in 1..n
    BY <1>4, <1>13, <2>1
  <2>3. PICK a \in 1..(k - 1), b \in 1..(k - 1) : MadeOf(l, s[a], s[b])
    BY <1>5, <2>1, <2>2
  <2>4. s[a] \in Result /\ s[b] \in Result
    BY <1>1, <1>3, <1>4
  <2>5. Before(l, r) /\ CanMerge(l, r) /\ d = MergePair(l, r)
    BY <1>9, <1>13, <2>1
  <2>6. /\ d.from = l.from /\ d.doc = l.doc /\ d.doc = r.doc /\ d.to = r.from
        /\ MadeOf(d, s[a], r) \/ MadeOf(d, s[b], r)
        /\ Covers(d, r)
        /\ \A x \in Result : Covers(l, x) => Covers(d, x)
    BY <1>3, <2>2, <2>3, <2>4, <2>5, PairFacts
  <2>11. \A i \in 1..n : i = n \/ i \in 1..(n - 1)
    OBVIOUS
  <2>12. ASSUME NEW i \in 1..n
         PROVE  \E x, y \in 1..k : MadeOf(t[i], s[x], s[y])
    <3>1. CASE i = n
      <4>1. k \in 1..k /\ a \in 1..k /\ b \in 1..k
        BY <1>4
      <4> QED BY <1>0, <2>1, <2>6, <3>1, <4>1
    <3>2. CASE i \in 1..(n - 1)
      BY <1>5, <1>11, <1>13, <3>2
    <3> QED BY <2>11, <3>1, <3>2
  <2>13. ASSUME NEW j \in 1..k PROVE \E i \in 1..n : Covers(t[i], s[j])
    <3>1. CASE j = k
      BY <1>0, <2>1, <2>2, <2>6, <3>1
    <3>2. CASE j \in 1..(k - 1)
      <4>1. PICK i \in 1..n : Covers(done[i], s[j])
        BY <1>6, <3>2
      <4>2. CASE i = n
        <5>1. Covers(l, s[j])
          BY <2>1, <4>1, <4>2
        <5>2. s[j] \in Result
          BY <1>1, <1>3, <1>4
        <5> QED BY <2>1, <2>2, <2>6, <5>1, <5>2
      <4>3. CASE i \in 1..(n - 1)
        BY <1>13, <4>1, <4>3
      <4> QED BY <2>11, <4>2, <4>3
    <3> QED BY <1>4, <3>1, <3>2
  <2>14. ASSUME NEW i \in 1..n, NEW j \in 1..n, i < j PROVE Before(t[i], t[j])
    <3>1. i \in 1..(n - 1) /\ t[i] = done[i]
      BY <1>13, <2>14
    <3>2. CASE j = n
      <4>1. Before(done[i], l)
        BY <1>7, <2>1, <2>14, <3>2
      <4>2. Before(done[i], d)
        BY <2>6, <4>1 DEF Before
      <4> QED BY <2>1, <3>1, <3>2, <4>2
    <3>3. CASE j \in 1..(n - 1)
      BY <1>7, <1>13, <2>14, <3>1, <3>3
    <3> QED BY <2>11, <3>2, <3>3
  <2>15. n <= k /\ t[n].doc = s[k].doc /\ t[n].to = s[k].from
    BY <1>0, <1>4, <2>1, <2>6
  <2> QED BY <1>13, <2>12, <2>13, <2>14, <2>15 DEF MergedOf
<1>14. Appended(t, done, r, n) \/ Paired(t, done, r, n)
  BY <1>0, <1>2, <1>3, <1>4, AddFacts
<1> QED BY <1>12, <1>13, <1>14

\* So they are in the end (retrieval_postprocess.py:43-65).
LEMMA AllMergedFacts ==
    ASSUME NEW s, InOrder(s)
    PROVE  MergedOf(s, Len(s), AllMerged(s))
<1>1. PICK n \in Nat : n = Len(s)
  BY DEF InOrder
<1>2. PICK f : MergesTo(s, f)
  BY MergesExist DEF InOrder
<1> DEFINE S == {k \in 0..n : MergedOf(s, k, f[k])}
<1>3. 0 \in S
  <2>1. f[0] = <<>>
    BY <1>2 DEF MergesTo
  <2>2. MergedOf(s, 0, <<>>)
    BY DEF MergedOf
  <2> QED BY <2>1, <2>2
<1>4. ASSUME NEW k \in 1..n, k - 1 \in S PROVE k \in S
  <2>1. f[k] = Add(f[k - 1], s[k])
    BY <1>1, <1>2 DEF MergesTo
  <2> QED BY <1>1, <1>4, <2>1, MergedOfStep
<1>5. n \in S
  <2> HIDE DEF S
  <2> QED BY <1>3, <1>4, SetInductionTo
<1> QED BY <1>1, <1>2, <1>5 DEF MergesTo

-----------------------------------------------------------------------------
(* The results, sorted *)

\* The order of the chunks in their documents, and by score.
ByPlace(S) == {z \in S \X S : InDocument(z[1], z[2])}
ByScore(S) == {z \in S \X S : Better(z[1], z[2])}

Placed(S) ==
    /\ IsFiniteSet(S) /\ S \subseteq Result
    /\ \A x, y \in S : x.doc = y.doc /\ x.from = y.from => x = y

\* The results sorted by their place in the documents.
LEMMA InPlace ==
    ASSUME NEW S, Placed(S)
    PROVE  Lists(Sorted(S, InDocument), ByPlace(S), S)
<1> DEFINE R == ByPlace(S)
           n == Cardinality(S)
<1>1. \A x, y \in S : <<x, y>> \in R <=> InDocument(x, y)
  BY DEF ByPlace
<1>2. \A x \in S : x.doc \in Nat /\ x.from \in Nat
  BY ResultNumbers DEF Placed
<1>3. IsOrder(R, S)
  <2> HIDE DEF R
  <2>1. \A x \in S : ~InDocument(x, x)
    BY <1>2 DEF InDocument
  <2>2. \A x, y \in S : x # y => InDocument(x, y) \/ InDocument(y, x)
    BY <1>2 DEF InDocument, Placed
  <2>3. \A x, y, z \in S : InDocument(x, y) /\ InDocument(y, z) => InDocument(x, z)
    BY <1>2 DEF InDocument
  <2> QED BY <1>1, <2>1, <2>2, <2>3 DEF IsOrder
<1>4. \A x \in S : Cardinality({y \in S : InDocument(y, x)}) = Rank(R, S, x)
  <2> SUFFICES ASSUME NEW x \in S PROVE {y \in S : InDocument(y, x)} = Below(R, S, x)
    BY DEF Rank
  <2> HIDE DEF R
  <2> QED BY <1>1 DEF Below
<1>5. Sorted(S, InDocument) = ListedBy(R, S)
  <2> DEFINE A == {<<x, Cardinality({y \in S : InDocument(y, x)})>> : x \in S}
             B == {<<x, Rank(R, S, x)>> : x \in S}
             g(T) == [i \in 1..n |-> (CHOOSE p \in T : p[2] = i - 1)[1]]
  <2>1. A = B
    BY <1>4
  <2>2. Sorted(S, InDocument) = g(A)
    BY DEF Sorted
  <2>3. ListedBy(R, S) = g(B)
    BY DEF ListedBy
  <2> HIDE DEF A, B, g
  <2> QED BY <2>1, <2>2, <2>3
<1> HIDE DEF R
<1> QED BY <1>3, <1>5, SortedLists DEF Placed, R

\* The results sorted by score.
LEMMA BestFirst ==
    ASSUME NEW S, Placed(S)
    PROVE  Lists(Sorted(S, Better), ByScore(S), S)
<1> DEFINE R == ByScore(S)
           n == Cardinality(S)
<1>1. \A x, y \in S : <<x, y>> \in R <=> Better(x, y)
  BY DEF ByScore
<1>2. \A x \in S : x.doc \in Nat /\ x.from \in Nat /\ x.score \in Nat
  BY ResultNumbers DEF Placed
<1>3. IsOrder(R, S)
  <2> HIDE DEF R
  <2>1. \A x \in S : ~Better(x, x)
    BY <1>2 DEF InDocument, Better
  <2>2. \A x, y \in S : x # y => Better(x, y) \/ Better(y, x)
    BY <1>2 DEF InDocument, Placed, Better
  <2>3. \A x, y, z \in S : Better(x, y) /\ Better(y, z) => Better(x, z)
    BY <1>2 DEF InDocument, Better
  <2> QED BY <1>1, <2>1, <2>2, <2>3 DEF IsOrder
<1>4. \A x \in S : Cardinality({y \in S : Better(y, x)}) = Rank(R, S, x)
  <2> SUFFICES ASSUME NEW x \in S PROVE {y \in S : Better(y, x)} = Below(R, S, x)
    BY DEF Rank
  <2> HIDE DEF R
  <2> QED BY <1>1 DEF Below
<1>5. Sorted(S, Better) = ListedBy(R, S)
  <2> DEFINE A == {<<x, Cardinality({y \in S : Better(y, x)})>> : x \in S}
             B == {<<x, Rank(R, S, x)>> : x \in S}
             g(T) == [i \in 1..n |-> (CHOOSE p \in T : p[2] = i - 1)[1]]
  <2>1. A = B
    BY <1>4
  <2>2. Sorted(S, Better) = g(A)
    BY DEF Sorted
  <2>3. ListedBy(R, S) = g(B)
    BY DEF ListedBy
  <2> HIDE DEF A, B, g
  <2> QED BY <2>1, <2>2, <2>3
<1> HIDE DEF R
<1> QED BY <1>3, <1>5, SortedLists DEF Placed, R

-----------------------------------------------------------------------------
(* ResultsAreWhole *)

Sources == {ResultOf(c) : c \in ToSet(reranked)}

\* What is known of the results.
ResultsOK ==
    /\ results \in Seq(Result) /\ Len(results) <= TopK
    /\ \A i \in 1..Len(results) : \E a, b \in Sources : MadeOf(results[i], a, b)
    /\ \A a \in Sources : \E i \in 1..Len(results) : Covers(results[i], a)
    /\ \A i, j \in 1..Len(results) : i # j =>
         Before(results[i], results[j]) \/ Before(results[j], results[i])
    /\ \A i \in 1..(Len(results) - 1) : results[i].score >= results[i + 1].score

ResultsInv ==
    /\ stage \in {"retrieved", "selected"} => ResultsOK
    /\ RerankInv

\* The candidates as results, before any are merged.
LEMMA SourceFacts ==
    ASSUME FoundOK, reranked \in Seq(candidates), Distinct(reranked)
    PROVE  /\ Placed(Sources) /\ Cardinality(Sources) <= Len(reranked)
           /\ \A a \in Sources : a \in Result /\ a.to = a.from
<1> DEFINE C == ToSet(reranked)
           f == [c \in C |-> ResultOf(c)]
<1>1. IsFiniteSet(C) /\ Cardinality(C) = Len(reranked) /\ C \subseteq candidates
  BY DistinctFacts
<1> HIDE DEF C
<1>2. Sources = {f[c] : c \in C}
  BY DEF Sources, C
<1>3. f \in Surjection(C, Sources)
  BY <1>2 DEF Surjection
<1>4. IsFiniteSet(Sources) /\ Cardinality(Sources) <= Len(reranked)
  <2> HIDE DEF f
  <2> QED BY <1>1, <1>3, FS_Surjection
<1>5. \A c \in C : /\ ResultOf(c) \in Result
                   /\ ResultOf(c).doc = c.doc
                   /\ ResultOf(c).from = c.order /\ ResultOf(c).to = c.order
  BY <1>1, ResultOfFacts
<1>6. Sources = {ResultOf(c) : c \in C}
  BY DEF Sources, C
<1>7. ASSUME NEW x \in Sources, NEW y \in Sources, x.doc = y.doc, x.from = y.from
      PROVE  x = y
  <2>1. PICK c \in C : x = ResultOf(c)
    BY <1>6
  <2>2. PICK d \in C : y = ResultOf(d)
    BY <1>6
  <2>3. c.doc = d.doc /\ c.order = d.order
    BY <1>5, <1>7, <2>1, <2>2
  <2>4. c = d
    BY <1>1, <2>3 DEF FoundOK
  <2> QED BY <2>1, <2>2, <2>4
<1> QED BY <1>4, <1>5, <1>6, <1>7 DEF Placed

\* What postprocess_retrieved_chunks returns.
LEMMA PostprocessFacts ==
    ASSUME RerankInv, Postprocess
    PROVE  ResultsOK'
<1>1. FoundOK /\ reranked \in Seq(candidates) /\ Distinct(reranked)
      /\ Len(reranked) \in Nat /\ TopK \in Nat /\ Len(reranked) <= TopK
  <2>1. /\ reranked \in Seq(candidates) /\ Distinct(reranked) /\ FoundOK
        /\ Len(reranked) = Min({TopK, Cardinality(candidates)})
    BY DEF RerankInv, Postprocess
  <2>2. TopK \in Nat /\ Cardinality(candidates) \in Nat
    BY <2>1, RetrievalAssumption, FS_CardinalityType DEF FoundOK
  <2>3. \A a, b \in Nat : Min({a, b}) \in 0..a
    BY MinInNat
  <2>4. Min({TopK, Cardinality(candidates)}) \in 0..TopK
    BY <2>2, <2>3
  <2> QED BY <2>1, <2>2, <2>4
<1>2. PICK s : s = Sorted(Sources, InDocument)
  OBVIOUS
<1>3. Lists(s, ByPlace(Sources), Sources)
  BY <1>1, <1>2, SourceFacts, InPlace
<1>4. s \in Seq(Sources) /\ Len(s) <= TopK /\ Len(s) \in Nat
      /\ \A i \in 1..Len(s) : s[i] \in Sources
  <2>1. s \in Seq(Sources) /\ Len(s) = Cardinality(Sources)
    BY <1>3 DEF Lists
  <2>2. Cardinality(Sources) <= Len(reranked) /\ Len(s) \in Nat
    BY <1>1, <2>1, SourceFacts
  <2>3. \A i \in 1..Len(s) : s[i] \in Sources
    BY <2>1, ElementOfSeq
  <2> QED BY <1>1, <2>1, <2>2, <2>3
<1>5. InOrder(s)
  <2>1. s \in Seq(Result)
    <3>1. Sources \subseteq Result
      BY <1>1, SourceFacts
    <3> QED BY <1>4, <3>1, SeqMonotonic
  <2>2. \A i \in 1..Len(s) : s[i].to = s[i].from
    BY <1>1, <1>4, SourceFacts
  <2>3. \A i, j \in 1..Len(s) : i < j => InDocument(s[i], s[j])
    BY <1>3, <1>4 DEF Lists, ByPlace
  <2> QED BY <2>1, <2>2, <2>3 DEF InOrder
<1>0. PICK ms \in Seq(Result) : ms = AllMerged(s)
  BY <1>5, AllMergedFacts DEF MergedOf
<1>6. PICK n \in Nat : n = Len(ms) /\ ms = AllMerged(s) /\ ms \in Seq(Result)
  BY <1>0
<1>7. MergedOf(s, Len(s), ms)
  BY <1>5, <1>6, AllMergedFacts
<1>8. Merged = ms
  <2>1. Merged = AllMerged(Sorted(Sources, InDocument))
    BY DEF Merged, AllMerged, Sources
  <2> QED BY <1>2, <1>6, <2>1
<1>9. /\ n <= Len(s)
      /\ \A i \in 1..n : \E a, b \in Sources : MadeOf(ms[i], a, b)
      /\ \A a \in Sources : \E i \in 1..n : Covers(ms[i], a)
      /\ \A i, j \in 1..n : i < j => Before(ms[i], ms[j])
  <2>1. \A a \in Sources : \E j \in 1..Len(s) : s[j] = a
    BY <1>3 DEF Lists
  <2> QED BY <1>4, <1>6, <1>7, <2>1 DEF MergedOf
<1>10. \A i \in 1..n : /\ ms[i] \in Result
                       /\ ms[i].doc \in Nat /\ ms[i].from \in Nat /\ ms[i].to \in Nat
                       /\ ms[i].from <= ms[i].to
  <2> SUFFICES ASSUME NEW i \in 1..n
               PROVE  /\ ms[i] \in Result
                      /\ ms[i].doc \in Nat /\ ms[i].from \in Nat /\ ms[i].to \in Nat
                      /\ ms[i].from <= ms[i].to
    OBVIOUS
  <2>1. ms[i] \in Result
    BY <1>6, ElementOfSeq
  <2>2. ms[i].doc \in Nat /\ ms[i].from \in Nat /\ ms[i].to \in Nat
    BY <2>1, ResultNumbers
  <2>3. ms[i].to = ms[i].from \/ ms[i].to = ms[i].from + 1
    BY <1>9 DEF MadeOf
  <2> QED BY <2>1, <2>2, <2>3
<1>11. ASSUME NEW i \in 1..n, NEW j \in 1..n, i # j
       PROVE  /\ ~(ms[i].doc = ms[j].doc /\ ms[i].from = ms[j].from)
              /\ Before(ms[i], ms[j]) \/ Before(ms[j], ms[i])
  <2>1. Before(ms[i], ms[j]) \/ Before(ms[j], ms[i])
    <3>1. i < j \/ j < i
      BY <1>11
    <3> QED BY <1>9, <3>1
  <2> QED BY <1>10, <2>1 DEF Before
<1> DEFINE S == ToSet(ms)
<1>12. S = {ms[i] : i \in 1..n}
  BY <1>6 DEF ToSet
<1>13. Distinct(ms)
  BY <1>6, <1>11 DEF Distinct
<1>14. Placed(S) /\ Cardinality(S) = n
  <2>1. IsFiniteSet(S) /\ Cardinality(S) = n /\ S \subseteq Result
    BY <1>6, <1>13, DistinctFacts
  <2>2. ASSUME NEW x \in S, NEW y \in S, x.doc = y.doc, x.from = y.from
        PROVE  x = y
    <3>1. PICK i \in 1..n : x = ms[i]
      BY <1>12
    <3>2. PICK j \in 1..n : y = ms[j]
      BY <1>12
    <3> QED BY <1>11, <2>2, <3>1, <3>2
  <2> QED BY <2>1, <2>2 DEF Placed
<1> HIDE DEF S
<1>15. PICK rs : rs = Sorted(S, Better)
  OBVIOUS
<1>16. Lists(rs, ByScore(S), S)
  BY <1>14, <1>15, BestFirst
<1>17. rs \in Seq(S) /\ Len(rs) = n /\ \A i \in 1..n : rs[i] \in S
  <2>1. rs \in Seq(S) /\ Len(rs) = n
    BY <1>14, <1>16 DEF Lists
  <2> QED BY <2>1, ElementOfSeq
<1>18. results' = rs
  <2>1. results' = First(rs, TopK)
    BY <1>8, <1>15 DEF Postprocess, S
  <2>2. /\ First(rs, TopK) \in Seq(S) /\ Len(First(rs, TopK)) = n
        /\ \A i \in 1..Len(First(rs, TopK)) : First(rs, TopK)[i] = rs[i]
    <3>1. n <= TopK
      BY <1>1, <1>4, <1>9
    <3> QED BY <1>1, <1>17, <3>1, FirstFacts
  <2>3. First(rs, TopK) = rs
    BY <1>17, <2>2, SeqEqual
  <2> QED BY <2>1, <2>3
<1>19. rs \in Seq(Result) /\ n <= TopK
  <2>1. S \subseteq Result
    BY <1>14 DEF Placed
  <2> QED BY <1>1, <1>4, <1>9, <1>17, <2>1, SeqMonotonic
<1>20. \A i \in 1..n : \E a, b \in Sources : MadeOf(rs[i], a, b)
  BY <1>9, <1>12, <1>17
<1>21. ASSUME NEW a \in Sources PROVE \E i \in 1..n : Covers(rs[i], a)
  <2>1. PICK j \in 1..n : Covers(ms[j], a)
    BY <1>9
  <2>2. ms[j] \in S
    BY <1>12
  <2>3. PICK i \in 1..n : rs[i] = ms[j]
    BY <1>16, <1>17, <2>2 DEF Lists
  <2> QED BY <2>1, <2>3
<1>22. ASSUME NEW i \in 1..n, NEW j \in 1..n
       PROVE  i < j => Better(rs[i], rs[j])
  BY <1>16, <1>17 DEF Lists, ByScore
<1>23. ASSUME NEW i \in 1..n, NEW j \in 1..n, i # j
       PROVE  Before(rs[i], rs[j]) \/ Before(rs[j], rs[i])
  <2>1. PICK k \in 1..n : rs[i] = ms[k]
    BY <1>12, <1>17
  <2>2. PICK l \in 1..n : rs[j] = ms[l]
    BY <1>12, <1>17
  <2>3. k # l
    <3> SUFFICES ASSUME k = l PROVE FALSE
      OBVIOUS
    <3>1. rs[i] = rs[j] /\ rs[i] \in Result
      BY <1>10, <2>1, <2>2
    <3>2. rs[i].doc \in Nat /\ rs[i].from \in Nat /\ rs[i].score \in Nat
      BY <3>1, ResultNumbers
    <3>3. ~Better(rs[i], rs[j]) /\ ~Better(rs[j], rs[i])
      BY <3>1, <3>2 DEF Better, InDocument
    <3>4. i < j \/ j < i
      BY <1>23
    <3> QED BY <1>22, <3>3, <3>4
  <2> QED BY <1>11, <2>1, <2>2, <2>3
<1>24. ASSUME NEW i \in 1..(n - 1) PROVE rs[i].score >= rs[i + 1].score
  <2>1. i \in 1..n /\ i + 1 \in 1..n /\ i < i + 1
    OBVIOUS
  <2>2. Better(rs[i], rs[i + 1])
    BY <1>22, <2>1
  <2>3. rs[i] \in Result /\ rs[i + 1] \in Result
    BY <1>17, <1>19, <2>1, ElementOfSeq
  <2>4. rs[i].score \in Nat /\ rs[i + 1].score \in Nat
    BY <2>3, ResultNumbers
  <2> QED BY <2>2, <2>4 DEF Better
<1>25. Sources' = Sources /\ Result' = Result
  BY DEF Postprocess, Sources, ResultOf, At, Result, Orders
<1>26. /\ results' \in Seq(Result') /\ Len(results') <= TopK
       /\ \A i \in 1..Len(results') : \E a, b \in Sources' : MadeOf(results'[i], a, b)
       /\ \A a \in Sources' : \E i \in 1..Len(results') : Covers(results'[i], a)
       /\ \A i, j \in 1..Len(results') : i # j =>
            Before(results'[i], results'[j]) \/ Before(results'[j], results'[i])
       /\ \A i \in 1..(Len(results') - 1) : results'[i].score >= results'[i + 1].score
  BY <1>17, <1>18, <1>19, <1>20, <1>21, <1>23, <1>24, <1>25
<1> QED BY <1>26 DEF ResultsOK, MadeOf, Covers, Before

\* The steps of other stages keep ResultsInv.
LEMMA ResultsOther ==
    ASSUME ResultsInv, RerankInv', UNCHANGED <<stored, reranked, results>>,
           stage' \in {"retrieved", "selected"} => stage \in {"retrieved", "selected"}
    PROVE  ResultsInv'
<1>1. Sources' = Sources /\ Result' = Result
  BY DEF Sources, ResultOf, At, Result, Orders
<1>2. ASSUME ResultsOK PROVE ResultsOK'
  <2>1. /\ results' \in Seq(Result') /\ Len(results') <= TopK
        /\ \A i \in 1..Len(results') : \E a, b \in Sources' : MadeOf(results'[i], a, b)
        /\ \A a \in Sources' : \E i \in 1..Len(results') : Covers(results'[i], a)
        /\ \A i, j \in 1..Len(results') : i # j =>
             Before(results'[i], results'[j]) \/ Before(results'[j], results'[i])
        /\ \A i \in 1..(Len(results') - 1) : results'[i].score >= results'[i + 1].score
    <3>1. results' = results
      OBVIOUS
    <3> QED BY <1>1, <1>2, <3>1 DEF ResultsOK
  <2> QED BY <2>1 DEF ResultsOK, MadeOf, Covers, Before
<1> QED BY <1>2 DEF ResultsInv

\* Every step keeps ResultsInv.
LEMMA ResultsStep == ResultsInv /\ [RetrievalNext]_vars => ResultsInv'
<1> SUFFICES ASSUME ResultsInv, [RetrievalNext]_vars PROVE ResultsInv'
  OBVIOUS
<1>0. RerankInv /\ RerankInv'
  BY RerankStep DEF ResultsInv
<1>1. CASE RewriteQuestion
  BY <1>0, <1>1 DEF RewriteQuestion, ResultsInv
<1>2. CASE ChunkNext /\ UNCHANGED <<rvars, qvars>>
  <2>1. stage' \notin {"retrieved", "selected"}
    BY <1>2 DEF ChunkNext, ReadHeading, ReadBlank, ReadPageBreak, ReadText, ReadLine,
         EndOfText, TakeOversized, TakeBlock, Take, EndOfBlocks
  <2> QED BY <1>0, <2>1 DEF ResultsInv
<1>3. CASE Index \/ Recall \/ Rerank
  <2>1. stage' \notin {"retrieved", "selected"}
    BY <1>3 DEF Index, Recall, Rerank
  <2> QED BY <1>0, <2>1 DEF ResultsInv
<1>4. CASE Postprocess
  BY <1>0, <1>4, PostprocessFacts DEF ResultsInv
<1>5. CASE CollectSummary
  BY <1>0, <1>5, ResultsOther DEF CollectSummary
<1>6. CASE UNCHANGED vars
  BY <1>0, <1>6, ResultsOther DEF vars, rvars, kvars
<1> QED BY <1>1, <1>2, <1>3, <1>4, <1>5, <1>6 DEF RetrievalNext

\* ResultsInv holds of every run of the pipeline.
LEMMA ResultsInvHolds == RetrievalSpec => []ResultsInv
<1>1. RetrievalInit => ResultsInv
  BY RerankInit DEF RetrievalInit, ChunkInit, ResultsInv
<1> QED BY <1>1, ResultsStep, PTL DEF RetrievalSpec

\* Merging keeps every chunk, in one result, which is a run of chunks of one
\* document with the best score of them, and the best result comes first
\* (retrieval_postprocess.py:10-27, 43-128).
THEOREM ResultsAreWholeHolds == RetrievalSpec => []ResultsAreWhole
<1>1. ResultsInv => ResultsAreWhole
  <2> DEFINE C == ToSet(reranked)
             run(r) == {c \in C : c.doc = r.doc /\ c.order \in r.from..r.to}
             holds(c) == {i \in DOMAIN results :
                 results[i].doc = c.doc /\ c.order \in results[i].from..results[i].to}
  <2> SUFFICES ASSUME ResultsInv, stage = "retrieved"
               PROVE  /\ \A c \in C : Cardinality(holds(c)) = 1
                      /\ \A r \in ToSet(results) :
                           /\ Cardinality(run(r)) = r.to - r.from + 1
                           /\ r.score = Max({c.score : c \in run(r)})
                           /\ r.from < r.to => r.len <= MergeLength + 2
                      /\ \A i \in 1..(Len(results) - 1) :
                           results[i].score >= results[i + 1].score
    BY DEF ResultsAreWhole
  <2>1. ResultsOK /\ FoundOK /\ reranked \in Seq(candidates) /\ Distinct(reranked)
    BY DEF ResultsInv, RerankInv
  <2>2. C \subseteq candidates /\ Sources = {ResultOf(c) : c \in C}
    BY <2>1, DistinctFacts DEF Sources
  <2>3. PICK n \in Nat : n = Len(results) /\ DOMAIN results = 1..n
                         /\ ToSet(results) = {results[i] : i \in 1..n}
    <3>1. results \in Seq(Result)
      BY <2>1 DEF ResultsOK
    <3>2. Len(results) \in Nat /\ DOMAIN results = 1..Len(results)
      BY <3>1
    <3> QED BY <3>2 DEF ToSet
  <2> HIDE DEF C
  <2>4. \A c \in C : /\ ResultOf(c) \in Result /\ ResultOf(c).score = c.score
                     /\ ResultOf(c).doc = c.doc /\ ResultOf(c).from = c.order
                     /\ c.order \in Nat /\ c.score \in Nat
    <3> SUFFICES ASSUME NEW c \in C
                 PROVE  /\ ResultOf(c) \in Result /\ ResultOf(c).score = c.score
                        /\ ResultOf(c).doc = c.doc /\ ResultOf(c).from = c.order
                        /\ c.order \in Nat /\ c.score \in Nat
      OBVIOUS
    <3>1. /\ ResultOf(c) \in Result /\ ResultOf(c).score = c.score
          /\ ResultOf(c).doc = c.doc /\ ResultOf(c).from = c.order
      BY <2>1, <2>2, ResultOfFacts
    <3> QED BY <3>1, ResultNumbers
  <2>5. \A i \in 1..n : /\ results[i] \in Result
                        /\ results[i].from \in Nat /\ results[i].to \in Nat
                        /\ results[i].score \in Nat
    BY <2>1, <2>3, ElementOfSeq, ResultNumbers DEF ResultsOK
  <2>6. ASSUME NEW c \in C PROVE Cardinality(holds(c)) = 1
    <3>1. PICK i \in 1..n : Covers(results[i], ResultOf(c))
      BY <2>1, <2>2, <2>3 DEF ResultsOK
    <3>2. \A j \in 1..n : j \in holds(c) <=> Covers(results[j], ResultOf(c))
      <4> SUFFICES ASSUME NEW j \in 1..n
                   PROVE  j \in holds(c) <=> Covers(results[j], ResultOf(c))
        OBVIOUS
      <4>1. results[j].from \in Nat /\ results[j].to \in Nat
        BY <2>5
      <4>2. ResultOf(c).doc = c.doc /\ ResultOf(c).from = c.order /\ c.order \in Nat
        BY <2>4
      <4> QED BY <2>3, <4>1, <4>2 DEF Covers
    <3>3. holds(c) \subseteq 1..n
      BY <2>3
    <3> HIDE DEF holds
    <3>4. ASSUME NEW j \in 1..n, Covers(results[j], ResultOf(c)), i # j PROVE FALSE
      <4>1. Before(results[i], results[j]) \/ Before(results[j], results[i])
        BY <2>1, <2>3, <3>4 DEF ResultsOK
      <4>2. ResultOf(c) \in Result /\ results[i] \in Result /\ results[j] \in Result
        BY <2>4, <2>5
      <4>3. \A d, e, x \in Result : Before(d, e) => ~(Covers(d, x) /\ Covers(e, x))
        <5> SUFFICES ASSUME NEW d \in Result, NEW e \in Result, NEW x \in Result,
                            Before(d, e), Covers(d, x), Covers(e, x)
                     PROVE  FALSE
          OBVIOUS
        <5>1. /\ d.doc \in Nat /\ e.doc \in Nat /\ d.to \in Nat
              /\ e.from \in Nat /\ x.from \in Nat
          BY ResultNumbers
        <5> QED BY <5>1 DEF Before, Covers
      <4> QED BY <3>1, <3>4, <4>1, <4>2, <4>3
    <3>5. holds(c) = {i}
      BY <3>1, <3>2, <3>3, <3>4
    <3> QED BY <3>5, FS_Singleton
  <2>7. ASSUME NEW r \in ToSet(results)
        PROVE  /\ Cardinality(run(r)) = r.to - r.from + 1
               /\ r.score = Max({c.score : c \in run(r)})
               /\ r.from < r.to => r.len <= MergeLength + 2
    <3>1. PICK i \in 1..n : r = results[i]
      BY <2>3
    <3>2. PICK x \in Sources, y \in Sources : MadeOf(r, x, y)
      BY <2>1, <2>3, <3>1 DEF ResultsOK
    <3>3. PICK a \in C, b \in C : x = ResultOf(a) /\ y = ResultOf(b)
      BY <2>2
    <3>4. /\ a.doc = r.doc /\ b.doc = r.doc /\ a.order = r.from /\ b.order = r.to
          /\ r.score = Max({a.score, b.score})
          /\ r.to = r.from \/ r.to = r.from + 1
          /\ r.from < r.to => r.len <= MergeLength + 2
      BY <2>4, <3>2, <3>3 DEF MadeOf
    <3>5. r.from \in Nat /\ r.to \in Nat /\ a.score \in Nat /\ b.score \in Nat
      BY <2>4, <2>5, <3>1
    <3>6. \A o \in r.from..r.to : o = r.from \/ o = r.to
      BY <3>4, <3>5
    <3>7. \A c, d \in C : c.doc = d.doc /\ c.order = d.order => c = d
      BY <2>1, <2>2 DEF FoundOK
    <3>8. run(r) = {a, b}
      <4>1. r.from \in r.from..r.to /\ r.to \in r.from..r.to
        BY <3>4, <3>5
      <4>2. \A c \in run(r) : c = a \/ c = b
        BY <3>4, <3>6, <3>7
      <4>3. a \in run(r) /\ b \in run(r)
        BY <3>4, <4>1
      <4> HIDE DEF run
      <4> QED BY <4>2, <4>3
    <3> HIDE DEF run
    <3>9. Cardinality(run(r)) = r.to - r.from + 1
      <4>1. CASE r.to = r.from
        <5>1. a = b
          BY <3>4, <3>7, <4>1
        <5>2. run(r) = {a}
          BY <3>8, <5>1
        <5>3. Cardinality(run(r)) = 1
          BY <5>2, FS_Singleton
        <5> QED BY <3>5, <4>1, <5>3
      <4>2. CASE r.to = r.from + 1
        <5>1. a # b
          BY <3>4, <3>5, <4>2
        <5>2. IsFiniteSet({a}) /\ Cardinality({a}) = 1
          BY FS_Singleton
        <5>3. Cardinality({a} \cup {b}) = Cardinality({a}) + 1
          <6>1. b \notin {a}
            BY <5>1
          <6> QED BY <5>2, <6>1, FS_AddElement
        <5>5. {a} \cup {b} = {a, b}
          OBVIOUS
        <5>4. Cardinality(run(r)) = 2
          BY <3>8, <5>2, <5>3, <5>5
        <5> QED BY <3>5, <4>2, <5>4
      <4> QED BY <3>4, <4>1, <4>2
    <3>10. {c.score : c \in run(r)} = {a.score, b.score}
      BY <3>8
    <3> QED BY <3>4, <3>9, <3>10
  <2>8. \A i \in 1..(Len(results) - 1) : results[i].score >= results[i + 1].score
    BY <2>1 DEF ResultsOK
  <2> HIDE DEF run, holds
  <2> QED BY <2>6, <2>7, <2>8
<1> QED BY <1>1, ResultsInvHolds, PTL

-----------------------------------------------------------------------------
(* Division *)

\* A product with a larger number is no smaller.
LEMMA Products ==
    \A a, b, c \in Nat : a <= b => c * a \in Nat /\ c * b \in Nat /\ c * a <= c * b
<1> SUFFICES ASSUME NEW a \in Nat, NEW b \in Nat, NEW c \in Nat, a <= b
             PROVE  c * a \in Nat /\ c * b \in Nat /\ c * a <= c * b
  OBVIOUS
<1>1. c * a \in Nat /\ c * b \in Nat /\ c * (b - a) \in Nat
  BY SMT
<1>2. c * b = c * a + c * (b - a)
  BY SMT
<1> QED BY <1>1, <1>2

\* Quotient and remainder.
LEMMA DivMod ==
    \A a \in Nat, b \in Nat \ {0} :
       /\ a \div b \in Nat /\ a % b \in 0..(b - 1)
       /\ a = b * (a \div b) + (a % b)
  BY SMT

\* A number is divided in one way.
LEMMA DivUnique ==
    ASSUME NEW b \in Nat \ {0}, NEW q \in Nat, NEW r \in 0..(b - 1)
    PROVE  (b * q + r) \div b = q /\ (b * q + r) % b = r
<1> DEFINE a == b * q + r
<1>1. b * q \in Nat
  BY Products
<1>2. PICK p \in Nat, t \in 0..(b - 1) : a \div b = p /\ a % b = t /\ a = b * p + t
  BY <1>1, DivMod
<1>3. ~(p + 1 <= q)
  <2>1. p + 1 <= q => b * (p + 1) <= b * q
    BY Products
  <2>2. b * (p + 1) = b * p + b /\ b * p \in Nat
    BY SMT
  <2> QED BY <1>1, <1>2, <2>1, <2>2
<1>4. ~(q + 1 <= p)
  <2>1. q + 1 <= p => b * (q + 1) <= b * p
    BY Products
  <2>2. b * (q + 1) = b * q + b /\ b * p \in Nat
    BY SMT
  <2> QED BY <1>1, <1>2, <2>1, <2>2
<1>5. p = q
  BY <1>3, <1>4
<1> QED BY <1>1, <1>2, <1>5

\* Rounding a/b does not exceed n when a/b does not.
LEMMA RoundFacts ==
    ASSUME NEW b \in Nat \ {0}, NEW n \in Nat, NEW a \in Nat, a <= b * n
    PROVE  Round(a, b) \in 0..n
<1>1. PICK q \in Nat, r \in 0..(b - 1) : a \div b = q /\ a % b = r /\ a = b * q + r
  BY DivMod
<1>2. b * n \in Nat /\ b * q \in Nat
  BY Products
<1>3. q <= n
  <2>1. n + 1 <= q => b * (n + 1) <= b * q
    BY Products
  <2>2. b * (n + 1) = b * n + b
    BY SMT
  <2> QED BY <1>1, <1>2, <2>1, <2>2
<1>4. q = n => r = 0
  BY <1>1, <1>2
<1>5. q % 2 \in {0, 1}
  BY SMT
<1> QED BY <1>1, <1>3, <1>4, <1>5 DEF Round

\* The share of the relevance that a distance leaves.
LEMMA Quotients ==
    ASSUME NEW a \in Nat, a <= 1200, NEW b \in Nat \ {0}
    PROVE  /\ a \div b \in Nat /\ a \div b <= 1200
           /\ b = 1 => a \div b = a
           /\ b # 1 => a \div b <= 600
<1>1. PICK q \in Nat, r \in 0..(b - 1) : a \div b = q /\ a = b * q + r
  BY DivMod
<1>2. b * q <= 1200 /\ b * q \in Nat
  BY <1>1, Products
<1>3. q <= b * q
  <2>1. q * 1 <= q * b
    BY Products
  <2> QED BY <2>1
<1>4. b # 1 => 2 * q <= b * q
  <2>1. b # 1 => q * 2 <= q * b
    BY Products
  <2>2. q * b = b * q /\ q * 2 = 2 * q
    BY SMT
  <2> QED BY <2>1, <2>2
<1>5. b = 1 => r = 0 /\ b * q = q
  BY <1>1
<1> QED BY <1>1, <1>2, <1>3, <1>4, <1>5


-----------------------------------------------------------------------------
(* The chunks of documents, in their order *)

\* Chunks of documents: <<doc, order>>.
Places == Docs \X Orders

\* A place is two numbers.
LEMMA PlaceNumbers ==
    \A c \in Places : c = <<c[1], c[2]>> /\ c[1] \in Nat /\ c[2] \in Nat
<1> SUFFICES ASSUME NEW c \in Places
             PROVE  c = <<c[1], c[2]>> /\ c[1] \in Nat /\ c[2] \in Nat
  OBVIOUS
<1>1. c \in Docs \X Orders
  BY DEF Places
<1>2. c = <<c[1], c[2]>> /\ c[1] \in Docs /\ c[2] \in Orders
  BY <1>1
<1>3. \A x \in Docs : x \in Nat
  BY RetrievalAssumption
<1>4. \A o \in Orders : o \in Nat
  BY DEF Orders
<1> QED BY <1>2, <1>3, <1>4

\* There are finitely many places.
LEMMA PlacesFinite ==
    ASSUME Len(stored) \in Nat
    PROVE  IsFiniteSet(Places)
<1>1. Len(stored) - 1 \in Int
  OBVIOUS
<1>2. IsFiniteSet(Orders)
  BY <1>1, FS_Interval DEF Orders
<1> QED BY <1>2, FS_Product, RetrievalAssumption DEF Places

\* Documents one after the other, and each one's chunks in their order.
Grouped(s) ==
    \A i, j \in 1..Len(s) : i < j /\ s[i][1] = s[j][1] =>
       /\ s[i][2] < s[j][2]
       /\ \A k \in i..j : s[k][1] = s[i][1]

ByEarlier(S) == {z \in S \X S : Earlier(z[1], z[2])}

\* The places sorted as _limit_summary_chunks sorts them.
LEMMA EarlierFirst ==
    ASSUME NEW S \in SUBSET Places, IsFiniteSet(S)
    PROVE  Lists(Sorted(S, Earlier), ByEarlier(S), S)
<1> DEFINE R == ByEarlier(S)
           n == Cardinality(S)
<1>1. \A x, y \in S : <<x, y>> \in R <=> Earlier(x, y)
  BY DEF ByEarlier
<1>2. \A x \in S : x = <<x[1], x[2]>> /\ x[1] \in Nat /\ x[2] \in Nat
  BY PlaceNumbers
<1>3. IsOrder(R, S)
  <2> HIDE DEF R
  <2>1. \A x \in S : ~Earlier(x, x)
    BY <1>2 DEF Earlier
  <2>2. \A x, y \in S : x # y => Earlier(x, y) \/ Earlier(y, x)
    <3> SUFFICES ASSUME NEW x \in S, NEW y \in S, x # y
                 PROVE  Earlier(x, y) \/ Earlier(y, x)
      OBVIOUS
    <3>1. x[1] # y[1] \/ x[2] # y[2]
      BY <1>2
    <3> QED BY <1>2, <3>1 DEF Earlier
  <2>3. \A x, y, z \in S : Earlier(x, y) /\ Earlier(y, z) => Earlier(x, z)
    BY <1>2 DEF Earlier
  <2> QED BY <1>1, <2>1, <2>2, <2>3 DEF IsOrder
<1>4. \A x \in S : Cardinality({y \in S : Earlier(y, x)}) = Rank(R, S, x)
  <2> SUFFICES ASSUME NEW x \in S PROVE {y \in S : Earlier(y, x)} = Below(R, S, x)
    BY DEF Rank
  <2> HIDE DEF R
  <2> QED BY <1>1 DEF Below
<1>5. Sorted(S, Earlier) = ListedBy(R, S)
  <2> DEFINE A == {<<x, Cardinality({y \in S : Earlier(y, x)})>> : x \in S}
             B == {<<x, Rank(R, S, x)>> : x \in S}
             g(T) == [i \in 1..n |-> (CHOOSE p \in T : p[2] = i - 1)[1]]
  <2>1. A = B
    BY <1>4
  <2>2. Sorted(S, Earlier) = g(A)
    BY DEF Sorted
  <2>3. ListedBy(R, S) = g(B)
    BY DEF ListedBy
  <2> HIDE DEF A, B, g
  <2> QED BY <2>1, <2>2, <2>3
<1> HIDE DEF R
<1> QED BY <1>3, <1>5, SortedLists DEF R

\* Sorted places are all there, once, document after document.
LEMMA SortedPlaces ==
    ASSUME NEW S \in SUBSET Places, IsFiniteSet(S)
    PROVE  LET s == Sorted(S, Earlier) IN
           /\ s \in Seq(Places) /\ Len(s) = Cardinality(S)
           /\ ToSet(s) = S /\ Distinct(s) /\ Grouped(s)
<1>1. PICK s : s = Sorted(S, Earlier)
  OBVIOUS
<1>2. Lists(s, ByEarlier(S), S)
  BY <1>1, EarlierFirst
<1>3. PICK n \in Nat : n = Len(s)
  BY <1>2 DEF Lists
<1>4. s \in Seq(S) /\ n = Cardinality(S)
      /\ (\A i, j \in 1..n : i < j <=> <<s[i], s[j]>> \in ByEarlier(S))
      /\ \A x \in S : \E i \in 1..n : s[i] = x
  BY <1>2, <1>3 DEF Lists
<1>5. DOMAIN s = 1..n /\ \A i \in 1..n : s[i] \in S
  <2>1. s \in Seq(S)
    BY <1>4
  <2>2. s \in [1..n -> S]
    BY <1>3, <2>1, LenProperties
  <2> QED BY <2>2
<1>6. \A i, j \in 1..n : i < j <=> Earlier(s[i], s[j])
  BY <1>4, <1>5 DEF ByEarlier
<1>7. \A i \in 1..n : s[i][1] \in Nat /\ s[i][2] \in Nat
  BY <1>5, PlaceNumbers
<1>8. s \in Seq(Places)
  BY <1>4
<1>9. ToSet(s) = S
  BY <1>4, <1>5 DEF ToSet
<1>10. Distinct(s)
  <2> SUFFICES ASSUME NEW i \in 1..n, NEW j \in 1..n, s[i] = s[j] PROVE i = j
    BY <1>3 DEF Distinct
  <2>1. ~(i < j) /\ ~(j < i)
    BY <1>6, <1>7 DEF Earlier
  <2> QED BY <2>1
<1>11. Grouped(s)
  <2> SUFFICES ASSUME NEW i \in 1..n, NEW j \in 1..n, i < j, s[i][1] = s[j][1]
               PROVE  s[i][2] < s[j][2] /\ \A k \in i..j : s[k][1] = s[i][1]
    BY <1>3 DEF Grouped
  <2>1. s[i][2] < s[j][2]
    BY <1>6, <1>7 DEF Earlier
  <2>2. ASSUME NEW k \in i..j PROVE s[k][1] = s[i][1]
    <3>1. k \in 1..n
      OBVIOUS
    <3>2. k = i \/ Earlier(s[i], s[k])
      BY <1>6, <3>1
    <3>3. k = j \/ Earlier(s[k], s[j])
      BY <1>6, <3>1
    <3> QED BY <1>7, <3>1, <3>2, <3>3 DEF Earlier
  <2> QED BY <2>1, <2>2
<1> QED BY <1>1, <1>3, <1>4, <1>8, <1>9, <1>10, <1>11


\* The chunks of some documents are all there, once, document after document.
LEMMA ListChunksFacts ==
    ASSUME NEW ds \in Seq(Docs), Distinct(ds), Len(stored) \in Nat
    PROVE  LET w == ListChunks(ds) IN
           /\ w \in Seq(Places) /\ Distinct(w) /\ Grouped(w)
           /\ ToSet(w) = ToSet(ds) \X Orders
<1>1. PICK m \in Nat : m = Len(ds)
  OBVIOUS
<1>2. PICK n \in Nat : n = Len(stored)
  OBVIOUS
<1>3. PICK l \in Nat : l = m * n
  BY Products
<1>4. DOMAIN ds = 1..m /\ \A i \in 1..m : ds[i] \in Docs
  BY <1>1, ElementOfSeq
<1>5. Orders = 0..(n - 1)
  BY <1>2 DEF Orders
<1> DEFINE at(k) == (k - 1) \div n + 1
           of(k) == (k - 1) % n
<1>6. PICK w : w = ListChunks(ds)
  OBVIOUS
<1>7. w = [k \in 1..l |-> <<ds[at(k)], of(k)>>]
  BY <1>1, <1>2, <1>3, <1>6 DEF ListChunks
<1>8. ASSUME NEW k \in 1..l
      PROVE  \E q \in 0..(m - 1), r \in 0..(n - 1) :
                at(k) = q + 1 /\ of(k) = r /\ k - 1 = n * q + r
  <2>1. n \in Nat \ {0}
    BY <1>3
  <2>2. PICK j \in Nat : j = k - 1
    OBVIOUS
  <2>3. PICK q \in Nat, r \in 0..(n - 1) : j \div n = q /\ j % n = r /\ j = n * q + r
    <3>1. /\ j \div n \in Nat /\ j % n \in 0..(n - 1)
          /\ j = n * (j \div n) + (j % n)
      BY <2>1, <2>2, DivMod
    <3> QED BY <3>1, Zenon
  <2>4. ~(m <= q)
    <3>1. m <= q => n * m <= n * q /\ n * m \in Nat /\ n * q \in Nat
      BY Products
    <3>2. n * m = l
      BY <1>3
    <3> QED BY <2>2, <2>3, <3>1, <3>2
  <2>5. at(k) = q + 1 /\ of(k) = r
    BY <2>2, <2>3
  <2> HIDE DEF at, of
  <2> QED BY <2>2, <2>3, <2>4, <2>5
<1>9. ASSUME NEW i \in 1..m, NEW r \in 0..(n - 1)
      PROVE  \E k \in 1..l : at(k) = i /\ of(k) = r
  <2>1. PICK q \in Nat : q = i - 1
    OBVIOUS
  <2>2. n \in Nat \ {0}
    OBVIOUS
  <2>3. (n * q + r) \div n = q /\ (n * q + r) % n = r /\ n * q \in Nat
    BY <2>2, DivUnique, Products
  <2>4. PICK k \in Nat : k = n * q + r + 1
    BY <2>3
  <2>5. k - 1 = n * q + r
    BY <2>3, <2>4
  <2>6. at(k) = i /\ of(k) = r
    BY <2>1, <2>3, <2>5
  <2>7. k <= l
    <3>1. n * (q + 1) = n * q + n /\ n * m = l
      BY <1>3, SMT
    <3>2. q + 1 \in Nat /\ q + 1 <= m
      BY <2>1
    <3>3. n * (q + 1) <= n * m
      BY <3>2, Products
    <3> QED BY <2>3, <2>4, <3>1, <3>3
  <2> HIDE DEF at, of
  <2> QED BY <2>3, <2>4, <2>6, <2>7
<1>10. \A k \in 1..l : w[k] = <<ds[at(k)], of(k)>>
  BY <1>7
<1>19. \A k \in 1..l : at(k) \in 1..m /\ of(k) \in 0..(n - 1)
  <2> SUFFICES ASSUME NEW k \in 1..l PROVE at(k) \in 1..m /\ of(k) \in 0..(n - 1)
    OBVIOUS
  <2>1. PICK q \in 0..(m - 1), r \in 0..(n - 1) : at(k) = q + 1 /\ of(k) = r
    BY <1>8
  <2> HIDE DEF at, of
  <2> QED BY <2>1
<1> HIDE DEF at, of
<1>11. \A k \in 1..l : w[k] \in ToSet(ds) \X Orders /\ w[k] \in Places
  <2> SUFFICES ASSUME NEW k \in 1..l
               PROVE  w[k] \in ToSet(ds) \X Orders /\ w[k] \in Places
    OBVIOUS
  <2>1. at(k) \in 1..m /\ of(k) \in Orders
    BY <1>5, <1>19
  <2>2. ds[at(k)] \in ToSet(ds) /\ ds[at(k)] \in Docs
    BY <1>4, <2>1 DEF ToSet
  <2>3. PICK x, y : x = ds[at(k)] /\ y = of(k)
    OBVIOUS
  <2>4. w[k] = <<x, y>>
    BY <1>10, <2>3
  <2>5. x \in ToSet(ds) /\ x \in Docs /\ y \in Orders
    BY <2>1, <2>2, <2>3
  <2> QED BY <2>4, <2>5 DEF Places
<1>12. w \in Seq(Places) /\ Len(w) = l /\ DOMAIN w = 1..l
  <2>1. DOMAIN w = 1..l
    BY <1>7
  <2>2. w \in [1..l -> Places]
    BY <1>7, <1>11
  <2> QED BY <2>1, <2>2
<1>13. ToSet(w) = ToSet(ds) \X Orders
  <2>1. ASSUME NEW c \in ToSet(ds) \X Orders PROVE c \in ToSet(w)
    <3>1. PICK i \in 1..m : c[1] = ds[i]
      BY <1>4 DEF ToSet
    <3>2. c[2] \in 0..(n - 1) /\ c = <<c[1], c[2]>>
      BY <1>5
    <3>3. PICK k \in 1..l : at(k) = i /\ of(k) = c[2]
      BY <1>9, <3>2
    <3>4. w[k] = c
      BY <1>10, <3>1, <3>2, <3>3
    <3> QED BY <1>12, <3>4 DEF ToSet
  <2>2. \A c \in ToSet(w) : c \in ToSet(ds) \X Orders
    BY <1>11, <1>12 DEF ToSet
  <2> QED BY <2>1, <2>2
<1>14. ASSUME NEW k \in 1..l, NEW j \in 1..l, k <= j PROVE at(k) <= at(j)
  <2>1. PICK p \in 0..(m - 1), r \in 0..(n - 1) :
           at(k) = p + 1 /\ of(k) = r /\ k - 1 = n * p + r
    BY <1>8
  <2>2. PICK q \in 0..(m - 1), t \in 0..(n - 1) :
           at(j) = q + 1 /\ of(j) = t /\ j - 1 = n * q + t
    BY <1>8
  <2>3. p \in Nat /\ q \in Nat /\ q + 1 \in Nat
    OBVIOUS
  <2>4. q + 1 <= p => n * (q + 1) <= n * p
    BY <2>3, Products
  <2>5. n * (q + 1) = n * q + n
    BY <2>3, SMT
  <2>6. n * q \in Nat /\ n * p \in Nat
    BY <2>3, Products
  <2>7. ~(q + 1 <= p)
    <3> SUFFICES ASSUME q + 1 <= p PROVE FALSE
      OBVIOUS
    <3>1. PICK a \in Nat, b \in Nat : a = n * q /\ b = n * p
      BY <2>6
    <3>2. a + n <= b
      BY <2>4, <2>5, <3>1
    <3>3. k - 1 = b + r /\ j - 1 = a + t
      BY <2>1, <2>2, <3>1
    <3> QED BY <1>14, <3>2, <3>3
  <2> QED BY <2>1, <2>2, <2>7
<1>15. ASSUME NEW k \in 1..l, NEW j \in 1..l, ds[at(k)] = ds[at(j)] PROVE at(k) = at(j)
  BY <1>1, <1>15, <1>19 DEF Distinct
<1>16. \A k \in 1..l : w[k][1] = ds[at(k)] /\ w[k][2] = of(k)
  BY <1>10
<1>17. Distinct(w)
  <2> SUFFICES ASSUME NEW k \in 1..l, NEW j \in 1..l, w[k] = w[j] PROVE k = j
    BY <1>12 DEF Distinct
  <2>1. at(k) = at(j) /\ of(k) = of(j)
    BY <1>15, <1>16
  <2>2. k - 1 = j - 1
    <3>1. PICK q \in 0..(m - 1), r \in 0..(n - 1) :
             at(k) = q + 1 /\ of(k) = r /\ k - 1 = n * q + r
      BY <1>8
    <3>2. PICK p \in 0..(m - 1), t \in 0..(n - 1) :
             at(j) = p + 1 /\ of(j) = t /\ j - 1 = n * p + t
      BY <1>8
    <3>4. q + 1 = p + 1 /\ r = t
      BY <2>1, <3>1, <3>2, Zenon
    <3>3. p = q /\ r = t
      BY <3>4
    <3> QED BY <3>1, <3>2, <3>3
  <2> QED BY <2>2
<1>18. Grouped(w)
  <2> SUFFICES ASSUME NEW k \in 1..l, NEW j \in 1..l, k < j, w[k][1] = w[j][1]
               PROVE  w[k][2] < w[j][2] /\ \A p \in k..j : w[p][1] = w[k][1]
    BY <1>12 DEF Grouped
  <2>1. at(k) = at(j)
    BY <1>15, <1>16
  <2>2. of(k) < of(j)
    <3>1. PICK q \in 0..(m - 1), r \in 0..(n - 1) :
             at(k) = q + 1 /\ of(k) = r /\ k - 1 = n * q + r
      BY <1>8
    <3>2. PICK p \in 0..(m - 1), t \in 0..(n - 1) :
             at(j) = p + 1 /\ of(j) = t /\ j - 1 = n * p + t
      BY <1>8
    <3>7. q + 1 = p + 1
      BY <2>1, <3>1, <3>2, Zenon
    <3>3. p = q
      BY <3>7
    <3>4. PICK a \in Nat : a = n * q
      BY Products
    <3>5. k - 1 = a + r /\ j - 1 = a + t
      BY <3>1, <3>2, <3>3, <3>4
    <3>6. r < t
      BY <3>5
    <3> QED BY <3>1, <3>2, <3>6
  <2>3. ASSUME NEW p \in k..j PROVE w[p][1] = w[k][1]
    <3>1. p \in 1..l
      OBVIOUS
    <3>2. at(k) <= at(p) /\ at(p) <= at(j)
      BY <1>14, <3>1
    <3>4. at(k) \in Int /\ at(p) \in Int
      BY <1>19, <3>1
    <3>3. at(p) = at(k)
      BY <2>1, <3>2, <3>4
    <3> QED BY <1>16, <3>1, <3>3
  <2> QED BY <1>16, <2>2, <2>3
<1> QED BY <1>6, <1>12, <1>13, <1>17, <1>18


-----------------------------------------------------------------------------
(* What is read for a summary *)

\* The documents that are read are some, each once.
LEMMA FoundFacts ==
    ASSUME ResultsOK, NEW ds \in {Found} \cup Asked
    PROVE  /\ ds \in Seq(Docs) /\ Distinct(ds)
           /\ results # <<>> => ds # <<>>
           /\ \A r \in ToSet(results) : r.doc \in ToSet(Found) => r.doc \in ToSet(ds)
<1>1. PICK n \in Nat : n = Len(results)
  BY DEF ResultsOK
<1>2. DOMAIN results = 1..n /\ \A i \in 1..n : results[i] \in Result
  BY <1>1, ElementOfSeq DEF ResultsOK
<1>3. \A i \in 1..n : results[i].doc \in Docs
  BY <1>2 DEF Result
<1>4. CASE ds \in Asked
  <2>1. PICK d \in Docs : ds = <<d>> /\ \A i \in 1..n : results[i].doc = d
    BY <1>2, <1>4 DEF Asked
  <2>2. ds \in Seq(Docs) /\ Len(ds) = 1 /\ ds[1] = d /\ ds # <<>>
    BY <2>1
  <2>3. Distinct(ds)
    BY <2>2 DEF Distinct
  <2>4. \A r \in ToSet(results) : r.doc = d
    BY <1>2, <2>1 DEF ToSet
  <2>5. d \in ToSet(ds)
    BY <2>2 DEF ToSet
  <2> QED BY <2>2, <2>3, <2>4, <2>5
<1>5. CASE ds = Found
  <2>1. PICK dd : dd = [i \in 1..n |-> results[i].doc]
    OBVIOUS
  <2>2. dd \in Seq(Docs) /\ Len(dd) = n
    BY <1>3, <2>1
  <2>3. PICK q : q = Pick(dd, NewAt(dd))
    OBVIOUS
  <2>4. Found = First(q, DocLimit)
    BY <1>2, <2>1, <2>3 DEF Found
  <2>5. q \in Seq(Docs) /\ Distinct(q)
    <3>1. NewAt(dd) \in SUBSET NewAt(dd)
      OBVIOUS
    <3> QED BY <2>2, <2>3, <3>1, DistinctPick
  <2>6. DocLimit \in Nat /\ DocLimit >= 1
    BY RetrievalAssumption
  <2>7. PICK k \in Nat : k = Len(q)
    BY <2>5
  <2>8. /\ Found \in Seq(Docs) /\ Len(Found) = IF k <= DocLimit THEN k ELSE DocLimit
        /\ \A i \in 1..Len(Found) : i \in 1..k /\ Found[i] = q[i]
    BY <2>4, <2>5, <2>6, <2>7, FirstFacts
  <2>9. Distinct(Found)
    BY <2>5, <2>7, <2>8 DEF Distinct
  <2>10. results # <<>> => Found # <<>>
    <3>1. results # <<>> => 1 \in 1..n
      BY <1>1 DEF ResultsOK
    <3>2. \A p \in 1..n : p <= DocLimit => dd[p] \in ToSet(Found)
      BY <2>2, <2>3, <2>4, <2>6, FirstNew
    <3>3. \A x \in ToSet(<<>>) : FALSE
      BY DEF ToSet
    <3> QED BY <2>6, <3>1, <3>2, <3>3
  <2> QED BY <1>5, <2>8, <2>9, <2>10
<1> QED BY <1>4, <1>5

-----------------------------------------------------------------------------
(* Relevance *)

\* What Relevance says of a result.
Near(c, r) ==
    LET d == IF c[2] < r.from THEN r.from - c[2] ELSE c[2] - r.from IN
    r.score \div (1 + d)
    + (IF r.from = c[2] /\ r.to = c[2] THEN 1200 ELSE 0)
    + (IF SameSection(At(c[2]), r) THEN 60 ELSE 0)

\* What one result says of the relevance of a place: all of it only where it
\* begins.
LEMMA NearFacts ==
    ASSUME NEW c \in Places, NEW r \in Result
    PROVE  /\ Near(c, r) \in Nat /\ Near(c, r) <= 2460
           /\ Near(c, r) >= 1200 => r.from = c[2]
           /\ r.from = c[2] /\ r.to = c[2] => Near(c, r) >= 1200
<1>1. c[2] \in Nat /\ r.from \in Nat /\ r.to \in Nat
  BY PlaceNumbers, ResultNumbers
<1>2. r.score \in Nat /\ r.score <= 1200
  <2>1. r.score \in Scores
    BY DEF Result
  <2>2. \A x \in Scores : x \in Nat /\ x <= 1200
    BY RetrievalAssumption
  <2> QED BY <2>1, <2>2
<1>3. PICK d \in Nat : /\ d = IF c[2] < r.from THEN r.from - c[2] ELSE c[2] - r.from
                       /\ d = 0 <=> r.from = c[2]
  <2> DEFINE d == IF c[2] < r.from THEN r.from - c[2] ELSE c[2] - r.from
  <2>1. d \in Nat /\ (d = 0 <=> r.from = c[2])
    BY <1>1
  <2> QED BY <2>1
<1>4. PICK q : q = r.score \div (1 + d)
  OBVIOUS
<1>5. q \in Nat /\ q <= 1200 /\ (d # 0 => q <= 600)
  <2>1. PICK b \in Nat \ {0} : b = 1 + d
    OBVIOUS
  <2>2. d # 0 => b # 1
    BY <2>1
  <2>3. PICK a \in Nat : a = r.score /\ a <= 1200
    BY <1>2
  <2>4. q = a \div b
    BY <1>4, <2>1, <2>3
  <2>5. a \div b \in Nat /\ a \div b <= 1200 /\ (b # 1 => a \div b <= 600)
    BY <2>3, Quotients
  <2> QED BY <2>2, <2>4, <2>5
<1>6. PICK s \in {0, 60} : s = IF SameSection(At(c[2]), r) THEN 60 ELSE 0
  OBVIOUS
<1>7. PICK e \in {0, 1200} : /\ e = IF r.from = c[2] /\ r.to = c[2] THEN 1200 ELSE 0
                             /\ e = 1200 <=> r.from = c[2] /\ r.to = c[2]
  OBVIOUS
<1>8. Near(c, r) = q + e + s
  <2> DEFINE D == IF c[2] < r.from THEN r.from - c[2] ELSE c[2] - r.from
             E == IF r.from = c[2] /\ r.to = c[2] THEN 1200 ELSE 0
             S == IF SameSection(At(c[2]), r) THEN 60 ELSE 0
  <2>1. Near(c, r) = r.score \div (1 + D) + E + S
    BY DEF Near
  <2>2. D = d /\ E = e /\ S = s
    BY <1>3, <1>6, <1>7
  <2> HIDE DEF D, E, S
  <2> QED BY <1>4, <2>1, <2>2
<1>10. e = 1200 <=> r.from = c[2] /\ r.to = c[2]
  BY <1>7
<1>11. d = 0 <=> r.from = c[2]
  BY <1>3
<1>9. q + e + s \in Nat /\ q + e + s <= 2460 /\ (q + e + s >= 1200 => d = 0)
      /\ (e = 1200 => q + e + s >= 1200)
  <2>1. d # 0 => e = 0
    BY <1>10, <1>11
  <2> QED BY <1>5, <2>1
<1>12. PICK v \in Int : v = Near(c, r)
  BY <1>5, <1>8
<1>13. v \in Nat /\ v <= 2460 /\ (v >= 1200 => d = 0) /\ (e = 1200 => v >= 1200)
  BY <1>8, <1>9, <1>12
<1> QED BY <1>10, <1>11, <1>12, <1>13

\* A place has the full relevance exactly where a result begins.
LEMMA RelevanceFacts ==
    ASSUME ResultsOK, NEW c \in Places
    PROVE  /\ Relevance(c) \in Nat
           /\ Relevance(c) >= 1200 =>
                \E r \in ToSet(results) : c = <<r.doc, r.from>>
           /\ \A r \in ToSet(results) :
                c = <<r.doc, r.from>> /\ r.to = r.from => Relevance(c) >= 1200
<1> DEFINE T == {0} \cup {Near(c, r) : r \in {x \in ToSet(results) : x.doc = c[1]}}
<1>1. \A r \in ToSet(results) : r \in Result
  <2>1. DOMAIN results = 1..Len(results) /\ \A i \in 1..Len(results) : results[i] \in Result
    BY ElementOfSeq DEF ResultsOK
  <2> QED BY <2>1 DEF ToSet
<1>8. PICK n \in Nat : n = 2460
  OBVIOUS
<1>2. T \subseteq 0..n /\ T # {}
  <2>1. \A r \in ToSet(results) : Near(c, r) \in Nat /\ Near(c, r) <= n
    BY <1>1, <1>8, NearFacts
  <2> QED BY <2>1
<1>3. Relevance(c) = Max(T)
  BY DEF Relevance, Near
<1>4. Relevance(c) \in T /\ \A x \in T : x <= Relevance(c)
  <2> HIDE DEF T
  <2>1. Max(T) \in T /\ \A x \in T : x <= Max(T)
    BY <1>2, MaxFacts
  <2> QED BY <1>3, <2>1
<1>5. PICK v \in Nat : v = Relevance(c)
  BY <1>2, <1>4
<1>6. ASSUME v >= 1200 PROVE \E r \in ToSet(results) : c = <<r.doc, r.from>>
  <2>1. v # 0
    BY <1>6
  <2>2. PICK r \in ToSet(results) : r.doc = c[1] /\ v = Near(c, r)
    BY <1>4, <1>5, <2>1
  <2>3. r.from = c[2]
    BY <1>1, <1>6, <2>2, NearFacts
  <2> QED BY <2>2, <2>3, PlaceNumbers
<1>7. ASSUME NEW r \in ToSet(results), c = <<r.doc, r.from>>, r.to = r.from
      PROVE  v >= 1200
  <2>1. c[1] = r.doc /\ c[2] = r.from
    BY <1>7
  <2>2. Near(c, r) \in T
    BY <2>1
  <2>3. Near(c, r) >= 1200 /\ Near(c, r) \in Nat /\ Near(c, r) <= 2460
    BY <1>1, <1>7, <2>1, NearFacts
  <2> HIDE DEF T
  <2>4. Near(c, r) <= v
    BY <1>4, <1>5, <2>2
  <2> QED BY <2>3, <2>4
<1> HIDE DEF T
<1> QED BY <1>5, <1>6, <1>7

\* Chunks of documents with a number each, the highest number first.
Rated == Places \X Nat
ByRelevance(S) == {z \in S \X S : MoreRelevant(z[1], z[2])}

\* The places sorted by relevance.
LEMMA RelevantFirst ==
    ASSUME NEW S \in SUBSET Rated, IsFiniteSet(S)
    PROVE  Lists(Sorted(S, MoreRelevant), ByRelevance(S), S)
<1> DEFINE R == ByRelevance(S)
           n == Cardinality(S)
<1>1. \A x, y \in S : <<x, y>> \in R <=> MoreRelevant(x, y)
  BY DEF ByRelevance
<1>2. \A x \in S : /\ x = <<x[1], x[2]>> /\ x[2] \in Nat
                   /\ x[1] = <<x[1][1], x[1][2]>> /\ x[1][1] \in Nat /\ x[1][2] \in Nat
  <2> SUFFICES ASSUME NEW x \in S
               PROVE  /\ x = <<x[1], x[2]>> /\ x[2] \in Nat
                      /\ x[1] = <<x[1][1], x[1][2]>>
                      /\ x[1][1] \in Nat /\ x[1][2] \in Nat
    OBVIOUS
  <2>1. x \in Places \X Nat
    BY DEF Rated
  <2>2. x = <<x[1], x[2]>> /\ x[1] \in Places /\ x[2] \in Nat
    BY <2>1
  <2> QED BY <2>2, PlaceNumbers
<1>3. IsOrder(R, S)
  <2> HIDE DEF R
  <2>1. \A x \in S : ~MoreRelevant(x, x)
    BY <1>2 DEF Earlier, MoreRelevant
  <2>2. \A x, y \in S : x # y => MoreRelevant(x, y) \/ MoreRelevant(y, x)
    <3> SUFFICES ASSUME NEW x \in S, NEW y \in S, x # y
                 PROVE  MoreRelevant(x, y) \/ MoreRelevant(y, x)
      OBVIOUS
    <3>1. x[2] # y[2] \/ x[1] # y[1]
      BY <1>2
    <3>2. x[1] # y[1] => x[1][1] # y[1][1] \/ x[1][2] # y[1][2]
      BY <1>2
    <3>3. x[1] # y[1] => Earlier(x[1], y[1]) \/ Earlier(y[1], x[1])
      BY <1>2, <3>2 DEF Earlier
    <3> QED BY <1>2, <3>1, <3>3 DEF MoreRelevant
  <2>3. \A x, y, z \in S : MoreRelevant(x, y) /\ MoreRelevant(y, z) => MoreRelevant(x, z)
    <3> SUFFICES ASSUME NEW x \in S, NEW y \in S, NEW z \in S,
                        MoreRelevant(x, y), MoreRelevant(y, z)
                 PROVE  MoreRelevant(x, z)
      OBVIOUS
    <3>1. Earlier(x[1], y[1]) /\ Earlier(y[1], z[1]) => Earlier(x[1], z[1])
      BY <1>2 DEF Earlier
    <3>2. x[2] \in Nat /\ y[2] \in Nat /\ z[2] \in Nat
      BY <1>2
    <3> QED BY <3>1, <3>2 DEF MoreRelevant
  <2> QED BY <1>1, <2>1, <2>2, <2>3 DEF IsOrder
<1>4. \A x \in S : Cardinality({y \in S : MoreRelevant(y, x)}) = Rank(R, S, x)
  <2> SUFFICES ASSUME NEW x \in S PROVE {y \in S : MoreRelevant(y, x)} = Below(R, S, x)
    BY DEF Rank
  <2> HIDE DEF R
  <2> QED BY <1>1 DEF Below
<1>5. Sorted(S, MoreRelevant) = ListedBy(R, S)
  <2> DEFINE A == {<<x, Cardinality({y \in S : MoreRelevant(y, x)})>> : x \in S}
             B == {<<x, Rank(R, S, x)>> : x \in S}
             g(T) == [i \in 1..n |-> (CHOOSE p \in T : p[2] = i - 1)[1]]
  <2>1. A = B
    BY <1>4
  <2>2. Sorted(S, MoreRelevant) = g(A)
    BY DEF Sorted
  <2>3. ListedBy(R, S) = g(B)
    BY DEF ListedBy
  <2> HIDE DEF A, B, g
  <2> QED BY <2>1, <2>2, <2>3
<1> HIDE DEF R
<1> QED BY <1>3, <1>5, SortedLists DEF R

\* The places of the results: no more than there are results.
Marked == {<<r.doc, r.from>> : r \in ToSet(results)}

\* Results begin in no more places than there are results.
LEMMA MarkedFacts ==
    ASSUME ResultsOK
    PROVE  IsFiniteSet(Marked) /\ Cardinality(Marked) <= Len(results)
<1>1. PICK n \in Nat : n = Len(results)
  BY DEF ResultsOK
<1>2. DOMAIN results = 1..n
  BY <1>1 DEF ResultsOK
<1> DEFINE h == [i \in 1..n |-> <<results[i].doc, results[i].from>>]
<1>3. Marked = {h[i] : i \in 1..n}
  <2>1. ToSet(results) = {results[i] : i \in 1..n}
    BY <1>2 DEF ToSet
  <2> QED BY <2>1 DEF Marked
<1>4. h \in Surjection(1..n, Marked)
  BY <1>3 DEF Surjection
<1>5. IsFiniteSet(1..n) /\ Cardinality(1..n) = n
  BY FS_Interval
<1> HIDE DEF h
<1> QED BY <1>1, <1>4, <1>5, FS_Surjection

\* A chunk that is a result comes among the first of those that are ranked:
\* what comes before it are places of results, too.
LEMMA RankedFacts ==
    ASSUME ResultsOK, results # <<>>, NEW w \in Seq(Places), IsFiniteSet(ToSet(w))
    PROVE  /\ Ranked(w) \in Seq(Places)
           /\ \A x \in ToSet(Ranked(w)) : x \in ToSet(w)
           /\ \A r \in ToSet(results) :
                r.to = r.from /\ <<r.doc, r.from>> \in ToSet(w) =>
                \E p \in 1..Len(Ranked(w)) :
                   p <= Len(results) /\ Ranked(w)[p] = <<r.doc, r.from>>
<1> DEFINE rated == {<<c, Relevance(c)>> : c \in ToSet(w)}
           X == {x \in rated : x[2] > 0}
<1>1. DOMAIN w = 1..Len(w) /\ \A i \in 1..Len(w) : w[i] \in Places
  BY ElementOfSeq
<1>2. \A c \in ToSet(w) : c \in Places /\ Relevance(c) \in Nat
  <2>1. \A c \in ToSet(w) : c \in Places
    BY <1>1 DEF ToSet
  <2> QED BY <2>1, RelevanceFacts
<1>3. X \in SUBSET Rated /\ IsFiniteSet(X)
  <2> DEFINE f == [c \in ToSet(w) |-> <<c, Relevance(c)>>]
  <2>1. f \in Surjection(ToSet(w), rated)
    BY DEF Surjection
  <2>2. rated \in SUBSET Rated
    BY <1>2 DEF Rated
  <2>3. X \in SUBSET rated
    OBVIOUS
  <2> HIDE DEF f, rated, X
  <2>4. IsFiniteSet(rated)
    BY <2>1, FS_Surjection
  <2> QED BY <2>2, <2>3, <2>4, FS_Subset
<1>4. PICK order : order = Sorted(X, MoreRelevant)
  OBVIOUS
<1>5. Lists(order, ByRelevance(X), X)
  <2> HIDE DEF X
  <2> QED BY <1>3, <1>4, RelevantFirst
<1>6. PICK m \in Nat : m = Len(order)
  <2> HIDE DEF X
  <2>1. order \in Seq(X)
    BY <1>5 DEF Lists
  <2> QED BY <2>1
<1>7. order \in Seq(X) /\ (\A i, j \in 1..m : i < j <=> <<order[i], order[j]>> \in ByRelevance(X))
      /\ \A x \in X : \E i \in 1..m : order[i] = x
  BY <1>5, <1>6 DEF Lists
<1>8. DOMAIN order = 1..m /\ \A i \in 1..m : order[i] \in X
  <2> HIDE DEF X
  <2>1. order \in Seq(X)
    BY <1>7
  <2>2. order \in [1..m -> X]
    BY <1>6, <2>1, LenProperties
  <2> QED BY <2>2
<1>9. \A i \in 1..m : /\ order[i][1] \in ToSet(w)
                      /\ order[i] = <<order[i][1], Relevance(order[i][1])>>
                      /\ order[i][2] = Relevance(order[i][1])
  <2> SUFFICES ASSUME NEW i \in 1..m
               PROVE  /\ order[i][1] \in ToSet(w)
                      /\ order[i] = <<order[i][1], Relevance(order[i][1])>>
                      /\ order[i][2] = Relevance(order[i][1])
    OBVIOUS
  <2>1. PICK c \in ToSet(w) : order[i] = <<c, Relevance(c)>>
    BY <1>8
  <2> QED BY <2>1
<1>10. PICK s : s = Ranked(w)
  OBVIOUS
<1>11. s = [k \in 1..m |-> order[k][1]]
  BY <1>4, <1>8, <1>10 DEF Ranked
<1>12. s \in Seq(Places) /\ Len(s) = m /\ DOMAIN s = 1..m
       /\ \A i \in 1..m : s[i] = order[i][1]
  <2>1. \A i \in 1..m : order[i][1] \in Places
    BY <1>2, <1>9
  <2> QED BY <1>11, <2>1
<1>13. \A x \in ToSet(s) : x \in ToSet(w)
  <2>1. \A i \in 1..m : s[i] \in ToSet(w)
    BY <1>9, <1>12
  <2> QED BY <1>12, <2>1 DEF ToSet
<1>14. \A i, j \in 1..m : i < j => MoreRelevant(order[i], order[j])
  BY <1>7, <1>8 DEF ByRelevance
<1>15. ASSUME NEW r \in ToSet(results), r.to = r.from, <<r.doc, r.from>> \in ToSet(w)
       PROVE  \E p \in 1..m : p <= Len(results) /\ s[p] = <<r.doc, r.from>>
  <2>1. PICK c \in ToSet(w) : c = <<r.doc, r.from>>
    BY <1>15
  <2>2. Relevance(c) >= 1200 /\ Relevance(c) \in Nat
    BY <1>2, <1>15, <2>1, RelevanceFacts
  <2>3. <<c, Relevance(c)>> \in X
    BY <2>2
  <2> HIDE DEF X
  <2>4. PICK p \in 1..m : order[p] = <<c, Relevance(c)>>
    BY <1>7, <2>3
  <2>5. \A i \in 1..p : i \in 1..m /\ Relevance(order[i][1]) >= 1200
    <3> SUFFICES ASSUME NEW i \in 1..p PROVE i \in 1..m /\ Relevance(order[i][1]) >= 1200
      OBVIOUS
    <3>1. i \in 1..m /\ order[i][2] = Relevance(order[i][1])
      BY <1>9
    <3>2. order[p][2] = Relevance(c)
      BY <2>4
    <3>3. i = p \/ MoreRelevant(order[i], order[p])
      BY <1>14, <3>1
    <3>4. i = p \/ order[i][2] >= order[p][2]
      <4>1. order[i][2] \in Nat /\ order[p][2] \in Nat
        BY <1>2, <1>9, <3>1
      <4> QED BY <3>3, <4>1 DEF MoreRelevant
    <3>5. order[i][2] \in Nat
      BY <1>2, <1>9, <3>1
    <3> QED BY <2>2, <3>1, <3>2, <3>4, <3>5
  <2> DEFINE g == [i \in 1..p |-> s[i]]
  <2>6. g \in Seq(Places) /\ Len(g) = p /\ DOMAIN g = 1..p
        /\ \A i \in 1..p : g[i] = order[i][1] /\ g[i] = s[i]
    <3>1. p \in Nat
      OBVIOUS
    <3>2. \A i \in 1..p : i \in 1..m /\ s[i] \in Places
      BY <1>12, ElementOfSeq
    <3> QED BY <1>12, <3>1, <3>2
  <2> HIDE DEF g
  <2>7. Distinct(g)
    <3> SUFFICES ASSUME NEW i \in 1..p, NEW j \in 1..p, g[i] = g[j] PROVE i = j
      BY <2>6 DEF Distinct
    <3>1. i \in 1..m /\ j \in 1..m
      OBVIOUS
    <3>6. order[i][1] = order[j][1]
      BY <2>6
    <3>7. order[i] = <<order[i][1], Relevance(order[i][1])>>
          /\ order[j] = <<order[j][1], Relevance(order[j][1])>>
      BY <1>9, <3>1
    <3>2. order[i] = order[j]
      BY <3>6, <3>7, Zenon
    <3>3. order[i][2] \in Nat /\ order[i][1] \in Places
      BY <1>2, <1>9, <3>1
    <3>4. ~MoreRelevant(order[i], order[i])
      BY <3>3, PlaceNumbers DEF MoreRelevant, Earlier
    <3>5. ~(i < j) /\ ~(j < i)
      BY <1>14, <3>1, <3>2, <3>4
    <3> QED BY <3>5
  <2>8. ToSet(g) \in SUBSET Marked
    <3>1. ASSUME NEW i \in 1..p PROVE g[i] \in Marked
      <4>1. i \in 1..m /\ g[i] = order[i][1] /\ Relevance(g[i]) >= 1200
        BY <2>5, <2>6
      <4>2. g[i] \in Places
        BY <1>2, <1>9, <4>1
      <4>4. PICK d \in Places : d = g[i]
        BY <4>2
      <4>5. Relevance(d) >= 1200 => \E x \in ToSet(results) : d = <<x.doc, x.from>>
        BY RelevanceFacts
      <4>3. PICK x \in ToSet(results) : g[i] = <<x.doc, x.from>>
        BY <4>1, <4>4, <4>5
      <4> QED BY <4>3 DEF Marked
    <3> QED BY <2>6, <3>1 DEF ToSet
  <2>9. Cardinality(ToSet(g)) = p
    BY <2>6, <2>7, DistinctFacts
  <2>10. p <= Cardinality(Marked) /\ Cardinality(Marked) \in Nat
    BY <2>8, <2>9, MarkedFacts, FS_Subset, FS_CardinalityType
  <2>11. Cardinality(Marked) <= Len(results) /\ Len(results) \in Nat
    BY MarkedFacts DEF ResultsOK
  <2>12. p <= Len(results)
    BY <2>10, <2>11
  <2>13. s[p] = c
    BY <1>12, <2>4
  <2> QED BY <2>1, <2>12, <2>13
<1> HIDE DEF X, rated
<1> QED BY <1>10, <1>12, <1>13, <1>15

-----------------------------------------------------------------------------
(* The cut *)

\* The share of the relevant chunks is a part of max_chunks.
LEMMA ShareFacts == MaxChunks \in Nat \ {0} /\ Share \in Nat /\ Share <= MaxChunks
<1>1. MaxChunks \in Nat \ {0}
  BY RetrievalAssumption
<1>2. PICK q \in Int : q = (6 * MaxChunks + 5) \div 10 /\ q >= 0 /\ q <= MaxChunks
  BY <1>1
<1>3. Max({1, q}) = IF 1 <= q THEN q ELSE 1
  <2>1. \A x, y \in Int : Max({x, y}) = IF x <= y THEN y ELSE x
    BY MinMaxOfTwo
  <2>2. 1 \in Int
    OBVIOUS
  <2> QED BY <1>2, <2>1, <2>2
<1> QED BY <1>1, <1>2, <1>3 DEF Share

\* The sample is taken from the chunks.
LEMMA CoverageFacts ==
    ASSUME NEW w \in Seq(Places), Len(w) > MaxChunks
    PROVE  Coverage(w) \in Seq(Places) /\ \A x \in ToSet(Coverage(w)) : x \in ToSet(w)
<1>1. PICK l \in Nat : l = Len(w)
  OBVIOUS
<1>2. DOMAIN w = 1..l /\ \A i \in 1..l : w[i] \in Places
  BY <1>1, ElementOfSeq
<1>3. PICK m \in Nat \ {0} : m = MaxChunks
  BY RetrievalAssumption
<1>4. CASE m = 1
  <2>1. Coverage(w) = <<w[1]>>
    BY <1>3, <1>4 DEF Coverage
  <2>2. w[1] \in Places /\ w[1] \in ToSet(w)
    BY <1>1, <1>2, <1>3 DEF ToSet
  <2> QED BY <2>1, <2>2 DEF ToSet
<1>5. CASE m # 1
  <2> DEFINE at(k) == 1 + Round((k - 1) * (l - 1), m - 1)
  <2>1. Coverage(w) = [k \in 1..m |-> w[at(k)]]
    BY <1>1, <1>3, <1>5 DEF Coverage
  <2>2. ASSUME NEW k \in 1..m PROVE at(k) \in 1..l
    <3>1. PICK a \in Nat, b \in Nat \ {0}, c \in Nat :
             a = k - 1 /\ b = m - 1 /\ c = l - 1 /\ a <= b
      <4>1. k - 1 \in Nat /\ m - 1 \in Nat \ {0} /\ k - 1 <= m - 1
        BY <1>5
      <4>2. l - 1 \in Nat
        BY <1>1, <1>3
      <4> QED BY <4>1, <4>2
    <3>2. a * c \in Nat /\ a * c <= b * c
      <4>1. c * a <= c * b /\ c * a \in Nat
        BY <3>1, Products
      <4>2. c * a = a * c /\ c * b = b * c
        BY SMT
      <4> QED BY <4>1, <4>2
    <3>3. Round(a * c, b) \in 0..c
      BY <3>2, RoundFacts
    <3>4. at(k) = 1 + Round(a * c, b)
      BY <3>1
    <3> HIDE DEF at
    <3> QED BY <3>1, <3>3, <3>4
  <2> HIDE DEF at
  <2>3. \A k \in 1..m : w[at(k)] \in Places /\ w[at(k)] \in ToSet(w)
    BY <1>2, <2>2 DEF ToSet
  <2> QED BY <2>1, <2>3 DEF ToSet
<1> QED BY <1>4, <1>5

\* What is left of more chunks than are allowed: so many, those of one
\* document together and in order, and all that are results, when the share
\* for relevant chunks is as large as the results are many.
LEMMA LimitFacts ==
    ASSUME ResultsOK, NEW w \in Seq(Places), IsFiniteSet(ToSet(w)),
           Cardinality(ToSet(w)) > MaxChunks, Distinct(w)
    PROVE  /\ Limit(w) \in Seq(Places) /\ Len(Limit(w)) = MaxChunks
           /\ Distinct(Limit(w)) /\ Grouped(Limit(w))
           /\ Len(results) <= Share => \A r \in ToSet(results) :
                r.to = r.from /\ <<r.doc, r.from>> \in ToSet(w) =>
                <<r.doc, r.from>> \in ToSet(Limit(w))
<1>1. MaxChunks \in Nat \ {0} /\ Share \in Nat /\ Share <= MaxChunks
  BY ShareFacts
<1>2. Len(w) > MaxChunks
  BY DistinctFacts
<1>3. PICK v : v = Coverage(w)
  OBVIOUS
<1>4. v \in Seq(Places) /\ \A x \in ToSet(v) : x \in ToSet(w)
  BY <1>2, <1>3, CoverageFacts
<1>5. PICK k : k = Ranked(w)
  OBVIOUS
<1>6. k \in Seq(Places) /\ \A x \in ToSet(k) : x \in ToSet(w)
  <2>1. CASE results = <<>>
    BY <1>5, <2>1 DEF Ranked
  <2>2. CASE results # <<>>
    BY <1>5, <2>2, RankedFacts
  <2> QED BY <2>1, <2>2
<1>7. PICK n \in Nat : n = Len(k)
  BY <1>6
<1>8. PICK f : f = First(k, Share)
  OBVIOUS
<1>9. /\ f \in Seq(Places) /\ Len(f) = IF n <= Share THEN n ELSE Share
      /\ \A i \in 1..Len(f) : i \in 1..n /\ f[i] = k[i]
  BY <1>1, <1>6, <1>7, <1>8, FirstFacts
<1>10. PICK a : a = f \o v
  OBVIOUS
<1>11. PICK s : s = a \o w
  OBVIOUS
<1>14. PICK lf \in Nat, lv \in Nat, lw \in Nat :
          lf = Len(f) /\ lv = Len(v) /\ lw = Len(w)
  BY <1>4, <1>9
<1>12. a \in Seq(Places) /\ Len(a) = lf + lv
       /\ \A i \in 1..(lf + lv) : a[i] = IF i <= lf THEN f[i] ELSE v[i - lf]
  <2>1. f \in Seq(Places) /\ v \in Seq(Places)
    BY <1>4, <1>9
  <2>2. a \in Seq(Places) /\ Len(a) = Len(f) + Len(v)
        /\ \A i \in 1..(Len(f) + Len(v)) :
             a[i] = IF i <= Len(f) THEN f[i] ELSE v[i - Len(f)]
    BY <1>10, <2>1, ConcatProperties, Zenon
  <2> QED BY <1>14, <2>2
<1>13. s \in Seq(Places) /\ Len(s) = lf + lv + lw
       /\ \A i \in 1..(lf + lv + lw) :
            s[i] = IF i <= lf + lv THEN a[i] ELSE w[i - (lf + lv)]
  <2>1. PICK la \in Nat : la = lf + lv
    OBVIOUS
  <2>3. a \in Seq(Places) /\ Len(a) = la /\ Len(w) = lw
    BY <1>12, <1>14, <2>1
  <2>2. s \in Seq(Places) /\ Len(s) = la + lw
        /\ \A i \in 1..(la + lw) : s[i] = IF i <= la THEN a[i] ELSE w[i - la]
    BY <1>11, <2>3, ConcatProperties
  <2> QED BY <2>1, <2>2
<1>25. (\A i \in 1..lf : i \in 1..n /\ f[i] = k[i]) /\ lf = IF n <= Share THEN n ELSE Share
  BY <1>9, <1>14
<1>26. ASSUME NEW i \in 1..lf
       PROVE  i \in 1..n /\ i \in 1..(lf + lv + lw) /\ s[i] = k[i]
  <2>1. i \in 1..(lf + lv) /\ i <= lf + lv /\ i \in 1..(lf + lv + lw)
    OBVIOUS
  <2> QED BY <1>12, <1>13, <1>25, <2>1
<1>15. DOMAIN f = 1..lf /\ DOMAIN v = 1..lv /\ DOMAIN w = 1..lw /\ DOMAIN k = 1..n
       /\ DOMAIN s = 1..(lf + lv + lw) /\ DOMAIN a = 1..(lf + lv)
  BY <1>4, <1>6, <1>7, <1>9, <1>12, <1>13, <1>14
<1>16. ToSet(s) = ToSet(w)
  <2>1. ASSUME NEW i \in 1..(lf + lv + lw) PROVE s[i] \in ToSet(w)
    <3>1. CASE i <= lf
      <4>1. i \in 1..n /\ s[i] = k[i]
        BY <1>26, <3>1
      <4>2. k[i] \in ToSet(k)
        BY <1>15, <4>1 DEF ToSet
      <4> QED BY <1>6, <4>1, <4>2
    <3>2. CASE ~(i <= lf) /\ i <= lf + lv
      <4>1. i - lf \in 1..lv /\ s[i] = v[i - lf]
        BY <1>12, <1>13, <1>14, <3>2
      <4>2. v[i - lf] \in ToSet(v)
        BY <1>15, <4>1 DEF ToSet
      <4> QED BY <1>4, <4>1, <4>2
    <3>3. CASE ~(i <= lf + lv)
      <4>1. i - (lf + lv) \in 1..lw /\ s[i] = w[i - (lf + lv)]
        BY <1>12, <1>13, <1>14, <3>3
      <4> QED BY <1>15, <4>1 DEF ToSet
    <3> QED BY <3>1, <3>2, <3>3
  <2>2. ASSUME NEW i \in 1..lw PROVE w[i] \in ToSet(s)
    <3>1. PICK j \in 1..(lf + lv + lw) : j = i + lf + lv
      OBVIOUS
    <3>3. ~(j <= lf + lv) /\ j - (lf + lv) = i
      BY <3>1
    <3>2. s[j] = w[i]
      BY <1>13, <3>3
    <3> QED BY <1>15, <3>2 DEF ToSet
  <2>3. \A x \in ToSet(s) : x \in ToSet(w)
    BY <1>15, <2>1 DEF ToSet
  <2>4. \A x \in ToSet(w) : x \in ToSet(s)
    <3> SUFFICES ASSUME NEW x \in ToSet(w) PROVE x \in ToSet(s)
      OBVIOUS
    <3>1. PICK i \in 1..lw : x = w[i]
      BY <1>15 DEF ToSet
    <3> QED BY <2>2, <3>1
  <2> QED BY <2>3, <2>4
<1>17. PICK S : S = Select(s)
  OBVIOUS
<1>18. Limit(w) = Sorted(S, Earlier)
  <2>1. s = f \o v \o w
    BY <1>10, <1>11
  <2> QED BY <1>3, <1>5, <1>8, <1>17, <2>1 DEF Limit
<1>19. /\ S \subseteq ToSet(s) /\ IsFiniteSet(S)
       /\ \A p \in 1..Len(s) : p <= MaxChunks => s[p] \in S
       /\ Cardinality(S) = IF Cardinality(ToSet(s)) <= MaxChunks
                           THEN Cardinality(ToSet(s)) ELSE MaxChunks
  BY <1>1, <1>13, <1>17, FirstNew DEF Select
<1>20. Cardinality(S) = MaxChunks
  <2>1. Cardinality(ToSet(w)) \in Nat
    BY FS_CardinalityType
  <2>2. ~(Cardinality(ToSet(w)) <= MaxChunks)
    BY <1>1, <2>1
  <2> QED BY <1>16, <1>19, <2>2
<1>21. S \in SUBSET Places
  <2>1. \A i \in 1..lw : w[i] \in Places
    BY <1>14, ElementOfSeq
  <2>2. \A x \in ToSet(w) : x \in Places
    BY <1>15, <2>1 DEF ToSet
  <2> QED BY <1>16, <1>19, <2>2
<1>22. PICK t : t = Sorted(S, Earlier)
  OBVIOUS
<1>23. /\ t \in Seq(Places) /\ Len(t) = Cardinality(S)
       /\ ToSet(t) = S /\ Distinct(t) /\ Grouped(t)
  BY <1>19, <1>21, <1>22, SortedPlaces
<1>24. ASSUME Len(results) <= Share, NEW r \in ToSet(results), r.to = r.from,
              <<r.doc, r.from>> \in ToSet(w)
       PROVE  <<r.doc, r.from>> \in S
  <2>1. results # <<>>
    BY DEF ToSet
  <2>2. PICK p \in 1..n : p <= Len(results) /\ k[p] = <<r.doc, r.from>>
    BY <1>5, <1>7, <1>24, <2>1, RankedFacts
  <2>3. p <= Share /\ p <= MaxChunks
    <3>1. Len(results) \in Nat
      BY DEF ResultsOK
    <3> QED BY <1>1, <1>24, <2>2, <3>1
  <2>4. p \in 1..lf
    BY <1>1, <1>25, <2>3
  <2>5. s[p] = k[p] /\ p \in 1..Len(s)
    BY <1>13, <1>26, <2>4
  <2> QED BY <1>19, <2>2, <2>3, <2>5
<1> QED BY <1>18, <1>20, <1>22, <1>23, <1>24

-----------------------------------------------------------------------------
(* SelectionIsSound *)

\* What SelectionIsSound says, of any selection.
Sound(s) ==
    LET docs == {c[1] : c \in ToSet(s)}
        all == docs \X Orders
    IN
    /\ Cardinality(ToSet(s)) = Len(s)
    /\ Len(s) <= MaxChunks
    /\ s # <<>> => Len(s) >= Min({MaxChunks, Cardinality(all)})
    /\ results # <<>> => s # <<>>
    /\ Grouped(s)
    /\ Len(results) <= Share => \A r \in ToSet(results) :
         r.from = r.to /\ r.doc \in ToSet(Found) => <<r.doc, r.from>> \in ToSet(s)

\* A selection of the chunks w, of which there are more, or which it is.
LEMMA SoundWhen ==
    ASSUME NEW s \in Seq(Places), Distinct(s), Grouped(s), Len(stored) \in Nat,
           \/ Len(s) = MaxChunks
           \/ /\ Len(s) <= MaxChunks
              /\ \E D : ToSet(s) = D \X Orders,
           results # <<>> => s # <<>>,
           Len(results) <= Share => \A r \in ToSet(results) :
             r.from = r.to /\ r.doc \in ToSet(Found) => <<r.doc, r.from>> \in ToSet(s)
    PROVE  Sound(s)
<1> DEFINE docs == {c[1] : c \in ToSet(s)}
           all == docs \X Orders
<1>1. MaxChunks \in Nat \ {0} /\ Len(s) \in Nat
  BY ShareFacts
<1>2. IsFiniteSet(ToSet(s)) /\ Cardinality(ToSet(s)) = Len(s)
  BY DistinctFacts
<1>3. \A c \in ToSet(s) : c \in Places
  <2>1. \A i \in 1..Len(s) : s[i] \in Places
    BY ElementOfSeq
  <2> QED BY <2>1 DEF ToSet
<1>4. IsFiniteSet(all) /\ Cardinality(all) \in Nat
  <2>1. all \in SUBSET Places
    BY <1>3 DEF Places
  <2> HIDE DEF all
  <2> QED BY <2>1, PlacesFinite, FS_Subset, FS_CardinalityType
<1>5. ASSUME s # <<>> PROVE Len(s) >= Min({MaxChunks, Cardinality(all)})
  <2>1. \A a, b \in Int : Min({a, b}) = IF a <= b THEN a ELSE b
    BY MinMaxOfTwo
  <2>2. PICK k \in Nat, m \in Nat : k = Cardinality(all) /\ m = MaxChunks
    BY <1>1, <1>4
  <2>3. Min({m, k}) = IF m <= k THEN m ELSE k
    BY <2>1
  <2>4. CASE Len(s) = m
    BY <2>2, <2>3, <2>4
  <2>5. CASE Len(s) # m
    <3>1. PICK D : ToSet(s) = D \X Orders
      BY <2>2, <2>5
    <3>2. all = ToSet(s)
      <4>1. \A c \in D \X Orders : c[1] \in D /\ c[2] \in Orders /\ c = <<c[1], c[2]>>
        OBVIOUS
      <4>2. ASSUME NEW x \in all PROVE x \in ToSet(s)
        <5>1. x[1] \in docs /\ x[2] \in Orders /\ x = <<x[1], x[2]>>
          OBVIOUS
        <5>2. PICK c \in ToSet(s) : c[1] = x[1]
          BY <5>1
        <5>3. x[1] \in D
          BY <3>1, <4>1, <5>2
        <5> QED BY <3>1, <5>1, <5>3
      <4>3. ASSUME NEW x \in ToSet(s) PROVE x \in all
        BY <3>1, <4>1
      <4> HIDE DEF all
      <4> QED BY <4>2, <4>3
    <3>3. k = Len(s)
      BY <1>2, <2>2, <3>2
    <3> QED BY <1>1, <2>2, <2>3, <3>3
  <2> QED BY <2>4, <2>5
<1>6. Len(s) <= MaxChunks
  BY <1>1
<1> QED BY <1>2, <1>5, <1>6 DEF Sound

\* What is collected from these documents is sound
\* (document_agent_service.py:717-783).
LEMMA SelectionFacts ==
    ASSUME ResultsOK, FoundOK, NEW ds \in {Found} \cup Asked
    PROVE  LET w == ListChunks(ds) IN
           Sound(IF Len(w) <= MaxChunks THEN w ELSE Limit(Sorted(ToSet(w), Earlier)))
<1>1. Len(stored) \in Nat
  BY DEF FoundOK
<1>2. /\ ds \in Seq(Docs) /\ Distinct(ds)
      /\ results # <<>> => ds # <<>>
      /\ \A r \in ToSet(results) : r.doc \in ToSet(Found) => r.doc \in ToSet(ds)
  BY FoundFacts
<1>3. PICK w : w = ListChunks(ds)
  OBVIOUS
<1>4. /\ w \in Seq(Places) /\ Distinct(w) /\ Grouped(w)
      /\ ToSet(w) = ToSet(ds) \X Orders
  BY <1>1, <1>2, <1>3, ListChunksFacts
<1>5. IsFiniteSet(ToSet(w)) /\ Cardinality(ToSet(w)) = Len(w) /\ ToSet(w) \in SUBSET Places
  BY <1>4, DistinctFacts
<1>6. \A r \in ToSet(results) : r \in Result
  <2>1. DOMAIN results = 1..Len(results) /\ \A i \in 1..Len(results) : results[i] \in Result
    BY ElementOfSeq DEF ResultsOK
  <2> QED BY <2>1 DEF ToSet
<1>7. \A r \in ToSet(results) : r.doc \in ToSet(Found) => <<r.doc, r.from>> \in ToSet(w)
  BY <1>2, <1>4, <1>6 DEF Result
<1>8. MaxChunks \in Nat \ {0} /\ Len(w) \in Nat
  BY <1>4, ShareFacts
<1>9. CASE Len(w) <= MaxChunks
  <2>1. results # <<>> => w # <<>>
    <3> SUFFICES ASSUME results # <<>> PROVE w # <<>>
      OBVIOUS
    <3>1. PICK d : d \in ToSet(ds)
      <4>1. 1 \in DOMAIN ds
        BY <1>2
      <4> QED BY <4>1 DEF ToSet
    <3>2. PICK o : o \in Orders
      <4>1. 1 \in DOMAIN results
        BY DEF ResultsOK
      <4>2. results[1] \in ToSet(results)
        BY <4>1 DEF ToSet
      <4> QED BY <1>6, <4>2 DEF Result
    <3>3. <<d, o>> \in ToSet(w)
      BY <1>4, <3>1, <3>2
    <3> QED BY <3>3 DEF ToSet
  <2>2. Sound(w)
    BY <1>1, <1>4, <1>7, <1>9, <2>1, SoundWhen
  <2> QED BY <1>3, <1>9, <2>2
<1>10. CASE ~(Len(w) <= MaxChunks)
  <2>1. PICK v : v = Sorted(ToSet(w), Earlier)
    OBVIOUS
  <2>2. /\ v \in Seq(Places) /\ Len(v) = Len(w)
        /\ ToSet(v) = ToSet(w) /\ Distinct(v)
    BY <1>5, <2>1, SortedPlaces
  <2>3. PICK s : s = Limit(v)
    OBVIOUS
  <2>4. Cardinality(ToSet(v)) > MaxChunks /\ IsFiniteSet(ToSet(v))
    BY <1>5, <1>8, <1>10, <2>2
  <2>5. /\ s \in Seq(Places) /\ Len(s) = MaxChunks
        /\ Distinct(s) /\ Grouped(s)
        /\ Len(results) <= Share => \A r \in ToSet(results) :
             r.to = r.from /\ <<r.doc, r.from>> \in ToSet(v) =>
             <<r.doc, r.from>> \in ToSet(s)
    BY <2>2, <2>3, <2>4, LimitFacts
  <2>6. s # <<>>
    BY <1>8, <2>5
  <2>7. Len(results) <= Share => \A r \in ToSet(results) :
          r.from = r.to /\ r.doc \in ToSet(Found) => <<r.doc, r.from>> \in ToSet(s)
    BY <1>7, <2>2, <2>5
  <2>8. Sound(s)
    BY <1>1, <2>5, <2>6, <2>7, SoundWhen
  <2> QED BY <1>3, <1>10, <2>1, <2>3, <2>8
<1> QED BY <1>9, <1>10

\* The rewriting of a question and the stages before the last one select
\* nothing.
LEMMA SelectionStep ==
    ASSUME ResultsInv, RetrievalNext, stage' = "selected"
    PROVE  CollectSummary
<1>1. ~RewriteQuestion /\ ~Index /\ ~Recall /\ ~Rerank /\ ~Postprocess
  BY DEF RewriteQuestion, Index, Recall, Rerank, Postprocess
<1>2. ~ChunkNext
  BY DEF ChunkNext, ReadHeading, ReadBlank, ReadPageBreak, ReadText, ReadLine,
         EndOfText, TakeOversized, TakeBlock, Take, EndOfBlocks
<1> QED BY <1>1, <1>2 DEF RetrievalNext

\* _collect_summary_chunks selects soundly.
LEMMA CollectSelects ==
    ASSUME ResultsInv, CollectSummary
    PROVE  Sound(selected)'
<1>1. ResultsOK /\ FoundOK
  BY DEF ResultsInv, RerankInv, CollectSummary
<1>2. PICK ds \in {Found} \cup Asked : LET w == ListChunks(ds) IN
         selected' = IF Len(w) <= MaxChunks THEN w
                     ELSE Limit(Sorted(ToSet(w), Earlier))
  BY DEF CollectSummary
<1>3. Sound(selected')
  BY <1>1, <1>2, SelectionFacts
<1>4. results' = results /\ stored' = stored
  BY DEF CollectSummary
<1> QED BY <1>3, <1>4 DEF Sound, Grouped, Orders, Found

\* The chunks of a summary are as many as allowed, each once, those of one
\* document together and in order, and the results are among them
\* (document_agent_service.py:717-835).
THEOREM SelectionIsSoundHolds == RetrievalSpec => []SelectionIsSound
<1>1. RetrievalInit => (stage = "selected" => Sound(selected))
  BY DEF RetrievalInit, ChunkInit
<1>2. /\ (stage = "selected" => Sound(selected)) /\ ResultsInv /\ [RetrievalNext]_vars
      => (stage = "selected" => Sound(selected))'
  <2> SUFFICES ASSUME stage = "selected" => Sound(selected), ResultsInv,
                      [RetrievalNext]_vars, stage' = "selected"
               PROVE  Sound(selected)'
    OBVIOUS
  <2>1. CASE RetrievalNext
    BY <2>1, SelectionStep, CollectSelects
  <2>2. CASE UNCHANGED vars
    <3>1. stage' = stage /\ selected' = selected /\ results' = results /\ stored' = stored
      BY <2>2 DEF vars, kvars, rvars
    <3> QED BY <3>1 DEF Sound, Grouped, Orders, Found
  <2> QED BY <2>1, <2>2
<1>3. (stage = "selected" => Sound(selected)) => SelectionIsSound
  <2> SUFFICES ASSUME stage = "selected", Sound(selected) PROVE SelectionIsSound
    BY DEF SelectionIsSound
  <2> QED BY DEF SelectionIsSound, Sound, Grouped
<1> QED BY <1>1, <1>2, <1>3, ResultsInvHolds, PTL DEF RetrievalSpec

-----------------------------------------------------------------------------
(* Picking everything *)

\* Numbers that go up without leaving 1..n are all of them.
LEMMA GoingUpInside ==
    ASSUME NEW n \in Nat, NEW f \in [1..n -> 1..n],
           \A i, j \in 1..n : i < j => f[i] < f[j]
    PROVE  \A i \in 1..n : f[i] = i
<1>1. \A i \in 1..n : f[i] \in 1..n
  OBVIOUS
<1>2. \A i \in 1..n : i <= f[i]
  <2>1. \A i \in 1..n : f[i] \in Nat \ {0}
    BY <1>1
  <2> QED BY <2>1, GoingUp
<1> DEFINE g == [i \in 1..n |-> n + 1 - f[n + 1 - i]]
<1>3. \A i \in 1..n : n + 1 - i \in 1..n /\ g[i] = n + 1 - f[n + 1 - i]
                      /\ g[i] \in Nat \ {0}
  <2> SUFFICES ASSUME NEW i \in 1..n
               PROVE  n + 1 - i \in 1..n /\ g[i] = n + 1 - f[n + 1 - i]
                      /\ g[i] \in Nat \ {0}
    OBVIOUS
  <2>1. PICK j \in 1..n : j = n + 1 - i
    OBVIOUS
  <2>2. g[i] = n + 1 - f[j] /\ f[j] \in 1..n
    BY <1>1, <2>1
  <2> QED BY <2>1, <2>2
<1>4. \A i, j \in 1..n : i < j => g[i] < g[j]
  <2> SUFFICES ASSUME NEW i \in 1..n, NEW j \in 1..n, i < j PROVE g[i] < g[j]
    OBVIOUS
  <2>1. PICK k \in 1..n, l \in 1..n : k = n + 1 - i /\ l = n + 1 - j
    BY <1>3
  <2>2. f[l] < f[k]
    BY <2>1
  <2>3. g[i] = n + 1 - f[k] /\ g[j] = n + 1 - f[l]
    BY <1>3, <2>1
  <2> QED BY <1>1, <2>2, <2>3
<1> HIDE DEF g
<1>5. \A i \in 1..n : i <= g[i]
  BY <1>3, <1>4, GoingUp
<1>6. ASSUME NEW i \in 1..n PROVE f[i] <= i
  <2>1. PICK k \in 1..n : k = n + 1 - i /\ n + 1 - k = i
    BY <1>3
  <2>2. k <= n + 1 - f[i]
    BY <1>3, <1>5, <2>1
  <2> QED BY <1>1, <2>1, <2>2
<1> QED BY <1>1, <1>2, <1>6

\* Picking every position gives the sequence.
LEMMA PickAll ==
    ASSUME NEW T, NEW s \in Seq(T)
    PROVE  Pick(s, 1..Len(s)) = s
<1>1. PICK n \in Nat : n = Len(s)
  OBVIOUS
<1>2. PICK I : I = 1..n
  OBVIOUS
<1>10. I \in SUBSET (1..Len(s))
  BY <1>1, <1>2
<1>3. PICK m \in Nat : m = Cardinality(I)
  BY <1>10, PickFacts
<1>11. m = n
  <2>1. Cardinality(1..n) = n
    BY FS_Interval
  <2> QED BY <1>2, <1>3, <2>1
<1>4. PICK p : p = Pick(s, I)
  OBVIOUS
<1>5. p \in Seq(T) /\ Len(p) = n
  BY <1>3, <1>4, <1>10, <1>11, PickFacts
<1>6. PICK f :
         /\ f \in [1..m -> I]
         /\ \A i, j \in 1..m : i < j <=> f[i] < f[j]
         /\ \A x \in I : \E i \in 1..m : f[i] = x
         /\ \A i \in 1..m : p[i] = s[f[i]]
  <2>1. PICK f : Picked(f, p, s, I, m)
    BY <1>3, <1>4, <1>10, PickFacts
  <2> QED BY <2>1 DEF Picked
<1>7. \A i \in 1..n : f[i] = i
  <2>1. f \in [1..n -> 1..n]
    BY <1>2, <1>6, <1>11
  <2>2. \A i, j \in 1..n : i < j => f[i] < f[j]
    BY <1>6, <1>11
  <2> QED BY <2>1, <2>2, GoingUpInside
<1>8. \A i \in 1..n : p[i] = s[i]
  BY <1>11, <1>6, <1>7
<1>9. p = s
  BY <1>1, <1>5, <1>8, SeqEqual
<1> QED BY <1>1, <1>2, <1>4, <1>9

-----------------------------------------------------------------------------
(* Normal *)

\* The symbols that Normal keeps.
Kept(t) == {i \in DOMAIN t :
              \/ t[i] # Space
              \/ /\ i - 1 \in DOMAIN t /\ t[i - 1] # Space
                 /\ \E j \in DOMAIN t : j > i /\ t[j] # Space}

\* The symbols that are no separators, and their number.
SolidAt(t) == {i \in DOMAIN t : t[i] \notin {Space, Mark}}
Solid(t) == Cardinality(SolidAt(t))

\* Normal keeps some of the symbols, in their order.
LEMMA NormalKeeps ==
    ASSUME NEW T, NEW t \in Seq(T)
    PROVE  Normal(t) = Pick(t, Kept(t)) /\ Kept(t) \in SUBSET (1..Len(t))
<1>1. DOMAIN t = 1..Len(t)
  OBVIOUS
<1> QED BY <1>1 DEF Normal, Kept

\* The symbols of a text that are no blanks.
LEMMA SolidFinite ==
    ASSUME NEW T, NEW t \in Seq(T)
    PROVE  /\ SolidAt(t) \in SUBSET (1..Len(t)) /\ IsFiniteSet(SolidAt(t))
           /\ Solid(t) \in Nat
<1>1. DOMAIN t = 1..Len(t) /\ Len(t) \in Nat
  OBVIOUS
<1>2. SolidAt(t) \in SUBSET (1..Len(t))
  BY <1>1 DEF SolidAt
<1>3. IsFiniteSet(1..Len(t))
  BY <1>1, FS_Interval
<1> QED BY <1>2, <1>3, FS_Subset, FS_CardinalityType DEF Solid

\* Normalising twice is normalising once, and loses no solid symbol.
LEMMA NormalFacts ==
    ASSUME NEW T, NEW t \in Seq(T)
    PROVE  /\ Normal(t) \in Seq(T)
           /\ Normal(Normal(t)) = Normal(t)
           /\ Solid(Normal(t)) = Solid(t)
           /\ \A i \in 1..Len(t) : t[i] # Space => Normal(t) # <<>>
<1>1. PICK l \in Nat : l = Len(t)
  OBVIOUS
<1>2. DOMAIN t = 1..l
  BY <1>1
<1>3. PICK I : I = Kept(t)
  OBVIOUS
<1>4. I \in SUBSET (1..Len(t)) /\ Normal(t) = Pick(t, I)
  BY <1>3, NormalKeeps
<1>5. PICK n \in Nat : n = Cardinality(I)
  BY <1>4, PickFacts
<1>6. PICK u : u = Pick(t, I)
  OBVIOUS
<1>7. u \in Seq(T) /\ Len(u) = n
  BY <1>4, <1>5, <1>6, PickFacts
<1>8. PICK f :
         /\ f \in [1..n -> I]
         /\ \A i, j \in 1..n : i < j <=> f[i] < f[j]
         /\ \A x \in I : \E i \in 1..n : f[i] = x
         /\ \A i \in 1..n : u[i] = t[f[i]]
  <2>1. PICK f : Picked(f, u, t, I, n)
    BY <1>4, <1>5, <1>6, PickFacts
  <2> QED BY <2>1 DEF Picked
<1>9. DOMAIN u = 1..n
  BY <1>7
<1>10. \A x \in I : x \in 1..l
  BY <1>1, <1>4
<1>11. \A i \in 1..n : f[i] \in I /\ f[i] \in 1..l
  BY <1>8, <1>10
<1>12. \A x \in 1..l : t[x] # Space => x \in I
  BY <1>2, <1>3 DEF Kept
<1>13. ASSUME NEW i \in 1..n, u[i] = Space
       PROVE  i - 1 \in 1..n /\ u[i - 1] # Space /\ \E j \in 1..n : j > i /\ u[j] # Space
  <2>1. PICK x \in 1..l : x = f[i] /\ x \in I /\ t[x] = Space
    BY <1>8, <1>11, <1>13
  <2>2. /\ x - 1 \in 1..l /\ t[x - 1] # Space
        /\ \E j \in 1..l : j > x /\ t[j] # Space
    BY <1>2, <1>3, <2>1 DEF Kept
  <2>3. PICK y \in 1..l : y = x - 1 /\ y \in I /\ t[y] # Space
    BY <1>12, <2>2
  <2>4. PICK z \in 1..l : z > x /\ z \in I /\ t[z] # Space
    BY <1>12, <2>2
  <2>5. PICK a \in 1..n : f[a] = y
    BY <1>8, <2>3
  <2>6. PICK b \in 1..n : f[b] = z
    BY <1>8, <2>4
  <2>7. a < i /\ i < b
    BY <1>8, <2>1, <2>3, <2>4, <2>5, <2>6
  <2>8. a = i - 1
    <3> SUFFICES ASSUME a # i - 1 PROVE FALSE
      OBVIOUS
    <3>1. a + 1 \in 1..n /\ a < a + 1 /\ a + 1 < i
      BY <2>7
    <3>2. f[a] < f[a + 1] /\ f[a + 1] < f[i] /\ f[a + 1] \in Int
      BY <1>8, <1>11, <3>1
    <3> QED BY <2>1, <2>3, <2>5, <3>2
  <2>9. u[a] = t[y] /\ u[b] = t[z]
    BY <1>8, <2>5, <2>6
  <2> QED BY <2>3, <2>4, <2>7, <2>8, <2>9
<1>14. Normal(u) = u
  <2>1. Kept(u) = 1..n
    <3>1. \A i \in 1..n : i \in Kept(u)
      BY <1>9, <1>13 DEF Kept
    <3>2. \A i \in Kept(u) : i \in 1..n
      BY <1>9 DEF Kept
    <3> QED BY <3>1, <3>2
  <2>2. Normal(u) = Pick(u, 1..Len(u))
    BY <1>7, <2>1, NormalKeeps
  <2> QED BY <1>7, <2>2, PickAll
<1>15. Solid(u) = Solid(t)
  <2>1. SolidAt(t) \in SUBSET (1..l) /\ IsFiniteSet(SolidAt(t))
        /\ SolidAt(u) \in SUBSET (1..n) /\ IsFiniteSet(SolidAt(u))
    BY <1>1, <1>7, SolidFinite
  <2> DEFINE g == [i \in SolidAt(u) |-> f[i]]
  <2>2. \A i \in SolidAt(u) : i \in 1..n /\ f[i] \in SolidAt(t)
    <3> SUFFICES ASSUME NEW i \in SolidAt(u) PROVE i \in 1..n /\ f[i] \in SolidAt(t)
      OBVIOUS
    <3>1. i \in 1..n /\ u[i] \notin {Space, Mark}
      BY <1>9 DEF SolidAt
    <3>2. f[i] \in 1..l /\ u[i] = t[f[i]]
      BY <1>8, <1>11, <3>1
    <3> QED BY <1>2, <3>1, <3>2 DEF SolidAt
  <2>3. \A i, j \in SolidAt(u) : f[i] = f[j] => i = j
    <3> SUFFICES ASSUME NEW i \in SolidAt(u), NEW j \in SolidAt(u), f[i] = f[j]
                 PROVE  i = j
      OBVIOUS
    <3>1. i \in 1..n /\ j \in 1..n /\ f[i] \in Int
      BY <1>11, <2>2
    <3>2. ~(i < j) /\ ~(j < i)
      BY <1>8, <3>1
    <3> QED BY <3>1, <3>2
  <2>4. \A x \in SolidAt(t) : \E i \in SolidAt(u) : f[i] = x
    <3> SUFFICES ASSUME NEW x \in SolidAt(t) PROVE \E i \in SolidAt(u) : f[i] = x
      OBVIOUS
    <3>1. x \in 1..l /\ t[x] \notin {Space, Mark}
      BY <1>2 DEF SolidAt
    <3>2. PICK i \in 1..n : f[i] = x
      BY <1>8, <1>12, <3>1
    <3>3. u[i] = t[x]
      BY <1>8, <3>2
    <3> QED BY <1>9, <3>1, <3>2, <3>3 DEF SolidAt
  <2>5. g \in Bijection(SolidAt(u), SolidAt(t))
    <3>1. g \in [SolidAt(u) -> SolidAt(t)]
      BY <2>2
    <3>2. IsInjective(g)
      BY <2>3 DEF IsInjective
    <3>3. \A x \in SolidAt(t) : \E i \in SolidAt(u) : g[i] = x
      BY <2>4
    <3> QED BY <3>1, <3>2, <3>3 DEF Bijection, Injection, Surjection
  <2>6. ExistsBijection(SolidAt(u), SolidAt(t))
    BY <2>5 DEF ExistsBijection
  <2> QED BY <2>1, <2>6, FS_Bijection DEF Solid
<1>16. \A i \in 1..l : t[i] # Space => u # <<>>
  <2> SUFFICES ASSUME NEW i \in 1..l, t[i] # Space PROVE u # <<>>
    OBVIOUS
  <2>1. PICK k \in 1..n : f[k] = i
    BY <1>8, <1>12
  <2> QED BY <1>7, <2>1
<1> QED BY <1>1, <1>4, <1>6, <1>7, <1>14, <1>15, <1>16

-----------------------------------------------------------------------------
(* Parts of texts *)

Symbols == {Space, Mark, Polite} \cup Words
Text == Seq(Symbols)

\* u is what follows the first a symbols of t, or the beginning of that.
Part(u, t, a) ==
    /\ u \in Text /\ t \in Text /\ a \in Nat
    /\ \A i \in 1..Len(u) : a + i \in 1..Len(t) /\ u[i] = t[a + i]

\* A part of a part is a part.
LEMMA PartOfPart ==
    ASSUME NEW u, NEW v, NEW t, NEW a, NEW b, Part(u, t, a), Part(v, u, b)
    PROVE  Part(v, t, a + b)
<1>1. a \in Nat /\ b \in Nat /\ a + b \in Nat /\ v \in Text /\ t \in Text
  BY DEF Part
<1>2. ASSUME NEW i \in 1..Len(v) PROVE (a + b) + i \in 1..Len(t) /\ v[i] = t[(a + b) + i]
  <2>1. PICK k \in 1..Len(u) : k = b + i /\ v[i] = u[k]
    BY DEF Part
  <2>2. a + k \in 1..Len(t) /\ u[k] = t[a + k]
    BY DEF Part
  <2>3. a + k = (a + b) + i
    BY <1>1, <2>1
  <2> QED BY <2>1, <2>2, <2>3
<1> QED BY <1>1, <1>2 DEF Part

\* A slice of a text is a part of it.
LEMMA SubPart ==
    ASSUME NEW t \in Text, NEW m \in Nat \ {0}, NEW n \in Nat, n <= Len(t)
    PROVE  /\ Part(SubSeq(t, m, n), t, m - 1)
           /\ Len(SubSeq(t, m, n)) = IF m <= n THEN n - m + 1 ELSE 0
<1>1. \A i \in m..n : t[i] \in Symbols /\ i \in 1..Len(t)
  BY ElementOfSeq DEF Text
<1>2. m \in Int /\ n \in Int
  OBVIOUS
<1>3. PICK u : u = SubSeq(t, m, n)
  OBVIOUS
<1>4. /\ u \in Text /\ Len(u) = IF m <= n THEN n - m + 1 ELSE 0
      /\ \A i \in 1..(n - m + 1) : u[i] = t[m + i - 1]
  BY <1>1, <1>2, <1>3, SubSeqProperties DEF Text
<1>5. \A i \in 1..Len(u) : (m - 1) + i \in 1..Len(t) /\ u[i] = t[(m - 1) + i]
  <2> SUFFICES ASSUME NEW i \in 1..Len(u)
               PROVE  (m - 1) + i \in 1..Len(t) /\ u[i] = t[(m - 1) + i]
    OBVIOUS
  <2>1. i \in 1..(n - m + 1) /\ m + i - 1 \in m..n /\ (m - 1) + i = m + i - 1
    BY <1>4
  <2> QED BY <1>1, <1>4, <2>1
<1> QED BY <1>3, <1>4, <1>5 DEF Part

\* A part has no more symbols that are no separators, and fewer when one of
\* those comes before it.
LEMMA SolidPart ==
    ASSUME NEW u, NEW t, NEW a, Part(u, t, a)
    PROVE  /\ Solid(u) <= Solid(t) /\ Solid(u) \in Nat /\ Solid(t) \in Nat
           /\ \A p \in SolidAt(t) : p <= a => Solid(u) < Solid(t)
<1>1. u \in Seq(Symbols) /\ t \in Seq(Symbols) /\ a \in Nat
      /\ \A i \in 1..Len(u) : a + i \in 1..Len(t) /\ u[i] = t[a + i]
  BY DEF Part, Text
<1>2. DOMAIN u = 1..Len(u) /\ DOMAIN t = 1..Len(t)
  BY <1>1
<1>3. /\ SolidAt(u) \in SUBSET (1..Len(u)) /\ IsFiniteSet(SolidAt(u)) /\ Solid(u) \in Nat
      /\ SolidAt(t) \in SUBSET (1..Len(t)) /\ IsFiniteSet(SolidAt(t)) /\ Solid(t) \in Nat
  BY <1>1, SolidFinite
<1>4. \A i \in SolidAt(u) : i \in Nat \ {0} /\ a + i \in SolidAt(t)
  BY <1>1, <1>2 DEF SolidAt
<1> DEFINE g == [i \in SolidAt(u) |-> a + i]
<1>5. ASSUME NEW S \in SUBSET SolidAt(t), \A i \in SolidAt(u) : a + i \in S
      PROVE  Solid(u) <= Cardinality(S)
  <2>1. g \in [SolidAt(u) -> S]
    BY <1>5
  <2>2. IsInjective(g)
    BY <1>1, <1>4 DEF IsInjective
  <2>3. g \in Injection(SolidAt(u), S)
    BY <2>1, <2>2 DEF Injection
  <2>4. IsFiniteSet(S)
    BY <1>3, FS_Subset
  <2> HIDE DEF g
  <2> QED BY <2>3, <2>4, FS_Injection DEF Solid
<1>6. Solid(u) <= Solid(t)
  BY <1>4, <1>5 DEF Solid
<1>7. ASSUME NEW p \in SolidAt(t), p <= a PROVE Solid(u) < Solid(t)
  <2>1. Solid(u) <= Cardinality(SolidAt(t) \ {p})
    <3>1. \A i \in SolidAt(u) : a + i # p
      <4>1. p \in Int
        BY <1>3
      <4> QED BY <1>1, <1>4, <1>7, <4>1
    <3> QED BY <1>4, <1>5, <3>1
  <2>2. Cardinality(SolidAt(t) \ {p}) = Solid(t) - 1
    BY <1>3, FS_RemoveElement DEF Solid
  <2> QED BY <1>3, <2>1, <2>2
<1> QED BY <1>3, <1>6, <1>7

-----------------------------------------------------------------------------
(* Strip *)

\* There are no blanks around t.
Stripped(t) == t # <<>> => t[1] # Space /\ t[Len(t)] # Space

\* Stripping leaves a part without blanks or marks at its ends.
LEMMA StripFacts ==
    ASSUME NEW t \in Text
    PROVE  /\ Strip(t) \in Text /\ Stripped(Strip(t))
           /\ \E a \in Nat : Part(Strip(t), t, a)
           /\ Stripped(t) => Strip(t) = t
<1> DEFINE solid == {i \in DOMAIN t : t[i] # Space}
<1>1. PICK n \in Nat : n = Len(t)
  BY DEF Text
<1>2. DOMAIN t = 1..n
  BY <1>1 DEF Text
<1>3. PICK s : s = Strip(t)
  OBVIOUS
<1>4. CASE solid = {}
  <2>1. s = <<>>
    BY <1>3, <1>4 DEF Strip
  <2>2. s \in Text /\ Stripped(s) /\ Part(s, t, 0)
    <3>1. s \in Text /\ Len(s) = 0
      BY <2>1 DEF Text
    <3> QED BY <2>1, <3>1 DEF Part, Stripped
  <2>3. Stripped(t) => t = <<>>
    <3> SUFFICES ASSUME Stripped(t), t # <<>> PROVE FALSE
      OBVIOUS
    <3>1. n # 0
      BY <1>1 DEF Text
    <3>2. 1 \in solid
      BY <1>2, <3>1 DEF Stripped
    <3> QED BY <1>4, <3>2
  <2> QED BY <1>3, <2>1, <2>2, <2>3
<1>5. CASE solid # {}
  <2>1. solid \subseteq 1..n
    BY <1>2
  <2>2. \A x \in solid : t[x] # Space
    OBVIOUS
  <2>3. s = SubSeq(t, Min(solid), Max(solid))
    BY <1>3, <1>5 DEF Strip
  <2>4. \A x \in 1..n : t[x] # Space => x \in solid
    BY <1>2
  <2> HIDE DEF solid
  <2>5. Min(solid) \in solid /\ \A x \in solid : Min(solid) <= x
    <3>1. solid \subseteq Nat
      BY <2>1
    <3> QED BY <1>5, <3>1, MinFacts
  <2>6. Max(solid) \in solid /\ \A x \in solid : x <= Max(solid)
    <3>1. solid \subseteq 0..n
      BY <2>1
    <3> QED BY <1>5, <3>1, MaxFacts
  <2>7. PICK a \in 1..n, b \in 1..n : a = Min(solid) /\ b = Max(solid) /\ a <= b
    BY <2>1, <2>5, <2>6
  <2>8. Part(s, t, a - 1) /\ Len(s) = b - a + 1
    BY <1>1, <2>3, <2>7, SubPart
  <2>9. s \in Text /\ \A i \in 1..Len(s) : s[i] = t[(a - 1) + i]
    BY <2>8 DEF Part
  <2>14. PICK m \in Nat : m = b - a + 1 /\ m = Len(s)
    <3>1. b - a + 1 \in Nat
      BY <2>7
    <3> QED BY <2>8, <3>1
  <2>10. s[1] = t[a] /\ s[m] = t[b]
    <3>1. 1 \in 1..m /\ (a - 1) + 1 = a /\ m \in 1..m /\ (a - 1) + m = b
      BY <2>7, <2>14, SMTT(30)
    <3>2. s[1] = t[(a - 1) + 1] /\ s[m] = t[(a - 1) + m]
      BY <2>9, <2>14, <3>1
    <3> QED BY <3>1, <3>2
  <2>11. Stripped(s)
    BY <2>2, <2>5, <2>6, <2>7, <2>14, <2>10 DEF Stripped
  <2>12. a - 1 \in Nat
    BY <2>7
  <2>13. ASSUME Stripped(t) PROVE s = t
    <3>1. n # 0 /\ t # <<>>
      BY <1>1, <2>7
    <3>2. 1 \in solid /\ n \in solid
      BY <1>1, <2>4, <2>13, <3>1 DEF Stripped
    <3>3. a <= 1 /\ n <= b
      BY <2>5, <2>6, <2>7, <3>2
    <3>4. a = 1 /\ b = n
      BY <2>7, <3>3
    <3>5. Len(s) = n /\ \A i \in 1..n : s[i] = t[i]
      BY <2>8, <2>9, <3>4
    <3> QED BY <1>1, <2>9, <3>5, SeqEqual DEF Text
  <2> QED BY <1>3, <2>8, <2>9, <2>11, <2>12, <2>13
<1> QED BY <1>4, <1>5

-----------------------------------------------------------------------------
(* The other forms of a question *)

\* A polite word is no blank.
LEMMA PoliteIsSolid == Polite \notin {Space, Mark}
<1>1. ASSUME NEW a, NEW b PROVE Cardinality({a, b}) <= 2
  <2>1. IsFiniteSet({a}) /\ Cardinality({a}) = 1
    BY FS_Singleton
  <2>2. Cardinality({a} \cup {b}) = IF b \in {a} THEN 1 ELSE 2
    BY <2>1, FS_AddElement
  <2>3. {a} \cup {b} = {a, b}
    OBVIOUS
  <2> QED BY <2>2, <2>3
<1>2. Cardinality({Space, Mark}) <= 2
  BY <1>1
<1>3. Polite \in {Space, Mark} => {Space, Mark, Polite} = {Space, Mark}
  OBVIOUS
<1>4. Cardinality({Space, Mark, Polite}) = 3
  BY RewriteAssumption
<1> QED BY <1>2, <1>3, <1>4

\* Without its polite words a question is a shorter part of itself, or itself.
LEMMA PlainFacts ==
    ASSUME NEW t \in Text, Stripped(t)
    PROVE  /\ Stripped(Plain(t))
           /\ \E a \in Nat : Part(Plain(t), t, a)
           /\ Plain(t) # t => Solid(Plain(t)) < Solid(t)
<1>1. PICK l \in Nat : l = Len(t)
  BY DEF Text
<1>2. DOMAIN t = 1..l
  BY <1>1 DEF Text
<1> DEFINE K == {0} \cup {k \in DOMAIN t : \A i \in 1..k : t[i] = Polite}
<1>3. K \subseteq 0..l /\ K # {} /\ \A k \in K : k # 0 => t[1] = Polite /\ 1 \in 1..l
  <2>1. \A k \in K : k \in 0..l
    BY <1>2
  <2>2. \A k \in K : k # 0 => 1 \in 1..k /\ t[1] = Polite
    BY <1>2
  <2>3. K # {}
    OBVIOUS
  <2> HIDE DEF K
  <2> QED BY <2>1, <2>2, <2>3
<1>4. PICK n : n = Max(K)
  OBVIOUS
<1>5. Plain(t) = Strip(SubSeq(t, n + 1, Len(t)))
  BY <1>4 DEF Plain
<1> HIDE DEF K
<1>6. n \in K
  BY <1>3, <1>4, MaxFacts
<1>7. n \in 0..l
  BY <1>3, <1>6
<1>8. PICK u : u = SubSeq(t, n + 1, Len(t))
  OBVIOUS
<1>9. Part(u, t, n)
  <2>1. n + 1 \in Nat \ {0} /\ (n + 1) - 1 = n /\ Len(t) \in Nat /\ Len(t) <= Len(t)
    BY <1>1, <1>7
  <2> QED BY <1>8, <2>1, SubPart
<1>10. u \in Text
  BY <1>9 DEF Part
<1>11. PICK p : p = Strip(u)
  OBVIOUS
<1>12. Stripped(p) /\ \E a \in Nat : Part(p, u, a)
  BY <1>10, <1>11, StripFacts
<1>13. PICK a \in Nat : Part(p, u, a)
  BY <1>12
<1>14. Part(p, t, n + a) /\ n + a \in Nat /\ n <= n + a
  BY <1>7, <1>9, <1>13, PartOfPart
<1>15. ASSUME p # t PROVE Solid(p) < Solid(t)
  <2>1. n # 0
    <3> SUFFICES ASSUME n = 0 PROVE FALSE
      OBVIOUS
    <3>1. u = t
      <4>1. Len(u) = l
        <5>1. Len(SubSeq(t, 1, l)) = IF 1 <= l THEN l - 1 + 1 ELSE 0
          BY <1>1, SubPart
        <5> QED BY <1>1, <1>8, <5>1
      <4>2. \A i \in 1..l : u[i] = t[i]
        <5>1. \A i \in 1..Len(u) : u[i] = t[0 + i]
          BY <1>9 DEF Part
        <5> QED BY <4>1, <5>1
      <4> QED BY <1>1, <1>10, <4>1, <4>2, SeqEqual DEF Text
    <3> QED BY <1>11, <1>15, <3>1, StripFacts
  <2>2. t[1] = Polite /\ 1 \in 1..l
    BY <1>3, <1>6, <2>1
  <2>3. 1 \in SolidAt(t)
    BY <1>2, <2>2, PoliteIsSolid DEF SolidAt
  <2>4. 1 <= n + a
    BY <1>7, <2>1
  <2> QED BY <1>14, <2>3, <2>4, SolidPart
<1> QED BY <1>5, <1>8, <1>11, <1>12, <1>14, <1>15

\* The tokens, joined, have the solid symbols of the text.
LEMMA JoinedTokensFacts ==
    ASSUME NEW t \in Text
    PROVE  /\ JoinedTokens(t) \in Text /\ Solid(JoinedTokens(t)) = Solid(t)
<1>1. PICK l \in Nat : l = Len(t)
  BY DEF Text
<1>2. DOMAIN t = 1..l /\ \A i \in 1..l : t[i] \in Symbols
  BY <1>1, ElementOfSeq DEF Text
<1>3. PICK u : u = [i \in DOMAIN t |-> IF t[i] = Mark THEN Space ELSE t[i]]
  OBVIOUS
<1>4. Space \in Symbols
  BY DEF Symbols
<1>5. u \in Seq(Symbols) /\ DOMAIN u = DOMAIN t
  BY <1>2, <1>3, <1>4
<1>6. SolidAt(u) = SolidAt(t)
  <2>1. \A i \in DOMAIN t : u[i] \notin {Space, Mark} <=> t[i] \notin {Space, Mark}
    BY <1>3
  <2> QED BY <1>5, <2>1 DEF SolidAt
<1>7. JoinedTokens(t) = Normal(u)
  BY <1>3 DEF JoinedTokens
<1>8. Normal(u) \in Seq(Symbols) /\ Solid(Normal(u)) = Solid(u)
  BY <1>5, NormalFacts
<1> QED BY <1>6, <1>7, <1>8 DEF Text, Solid

\* The first and the last tokens are parts; the last of many are fewer, and
\* some.
LEMMA TokensFacts ==
    ASSUME NEW t \in Text, NEW n \in Nat \ {0}
    PROVE  /\ FirstTokens(t, n) \in Text /\ LastTokens(t, n) \in Text
           /\ Cardinality(Tokens(t)) > n =>
                Solid(LastTokens(t, n)) > 0 /\ Solid(LastTokens(t, n)) < Solid(t)
<1>1. PICK l \in Nat : l = Len(t)
  BY DEF Text
<1>2. DOMAIN t = 1..l
  BY <1>1 DEF Text
<1>3. PICK I : I = Tokens(t)
  OBVIOUS
<1>4. I \in SUBSET (1..l) /\ I \in SUBSET SolidAt(t)
  BY <1>2, <1>3 DEF Tokens, SolidAt
<1>5. PICK c \in Nat : c = Cardinality(I)
  BY <1>4, NumbersInOrder
<1>6. PICK at : at = Ascending(I)
  OBVIOUS
<1>7. at \in [1..c -> I] /\ \A i, j \in 1..c : i < j <=> at[i] < at[j]
  BY <1>4, <1>5, <1>6, NumbersInOrder
<1>8. Len(at) = c
  BY <1>7
<1>9. \A i \in 1..c : at[i] \in 1..l /\ at[i] \in SolidAt(t)
  BY <1>4, <1>7
<1>10. PICK h : h = IF c <= n THEN t ELSE SubSeq(t, 1, at[n + 1] - 1)
  OBVIOUS
<1>11. PICK v : v = IF c <= n THEN t ELSE SubSeq(t, at[c - n + 1], Len(t))
  OBVIOUS
<1>12. FirstTokens(t, n) = JoinedTokens(h)
  BY <1>3, <1>6, <1>8, <1>10 DEF FirstTokens
<1>13. LastTokens(t, n) = JoinedTokens(v)
  BY <1>3, <1>6, <1>8, <1>11 DEF LastTokens
<1>14. h \in Text
  <2>1. CASE c <= n
    BY <1>10, <2>1
  <2>2. CASE ~(c <= n)
    <3>1. n + 1 \in 1..c
      BY <2>2
    <3>2. PICK e \in Nat : e = at[n + 1] - 1 /\ e <= Len(t)
      BY <1>1, <1>9, <3>1
    <3>3. Part(SubSeq(t, 1, e), t, 1 - 1)
      BY <3>2, SubPart
    <3> QED BY <1>10, <2>2, <3>2, <3>3 DEF Part
  <2> QED BY <2>1, <2>2
<1>15. ASSUME ~(c <= n)
       PROVE  v \in Text /\ Solid(v) < Solid(t) /\ Solid(v) > 0 /\ Solid(v) \in Nat
  <2>1. c - n + 1 \in 1..c /\ 1 \in 1..c /\ 1 < c - n + 1
    BY <1>15
  <2>2. PICK b \in 1..l : b = at[c - n + 1] /\ b \in SolidAt(t)
    BY <1>9, <2>1
  <2>3. PICK a \in 1..l : a = at[1] /\ a \in SolidAt(t) /\ a < b
    BY <1>7, <1>9, <2>1, <2>2
  <2>4. v = SubSeq(t, b, l) /\ b \in Nat \ {0} /\ l <= Len(t) /\ b <= l
    <3>1. v = SubSeq(t, b, l)
      BY <1>1, <1>11, <1>15, <2>2
    <3> QED BY <1>1, <3>1
  <2>5. Part(v, t, b - 1) /\ Len(v) = l - b + 1
    BY <2>4, SubPart
  <2>6. a <= b - 1
    BY <2>3
  <2>7. Solid(v) < Solid(t) /\ Solid(v) \in Nat
    BY <2>3, <2>5, <2>6, SolidPart
  <2>8. 1 \in SolidAt(v)
    <3>1. 1 \in 1..Len(v) /\ (b - 1) + 1 = b
      BY <2>4, <2>5
    <3>2. v[1] = t[b] /\ v \in Seq(Symbols)
      BY <2>5, <3>1 DEF Part, Text
    <3>3. DOMAIN v = 1..Len(v) /\ t[b] \notin {Space, Mark}
      BY <2>2, <3>2 DEF SolidAt
    <3> QED BY <3>1, <3>2, <3>3 DEF SolidAt
  <2>9. v \in Seq(Symbols)
    BY <2>5 DEF Part, Text
  <2>10. Solid(v) # 0
    <3>1. IsFiniteSet(SolidAt(v))
      BY <2>9, SolidFinite
    <3> QED BY <2>8, <3>1, FS_EmptySet DEF Solid
  <2> QED BY <2>7, <2>9, <2>10 DEF Text
<1>16. v \in Text
  <2>1. CASE c <= n
    BY <1>11, <2>1
  <2> QED BY <1>15, <2>1
<1>17. /\ FirstTokens(t, n) \in Text /\ LastTokens(t, n) \in Text
       /\ Solid(LastTokens(t, n)) = Solid(v)
  BY <1>12, <1>13, <1>14, <1>16, JoinedTokensFacts
<1> QED BY <1>3, <1>5, <1>15, <1>17

-----------------------------------------------------------------------------
(* QueriesAreSound *)

Varied(t) == \/ Plain(t) \notin {<<>>, t}
             \/ Cardinality(Tokens(Plain(t))) > TailTokens

\* One of the fallbacks of a varied question is another text.
LEMMA FallbacksFacts ==
    ASSUME NEW t \in Text, Stripped(t)
    PROVE  /\ Fallbacks(t) \in Seq(Text)
           /\ Varied(t) => \E i \in 1..Len(Fallbacks(t)) :
                /\ Solid(Fallbacks(t)[i]) < Solid(t)
                /\ \E k \in 1..Len(Fallbacks(t)[i]) : Fallbacks(t)[i][k] # Space
<1>1. PICK p : p = Plain(t)
  OBVIOUS
<1>2. Stripped(p) /\ (\E a \in Nat : Part(p, t, a)) /\ (p # t => Solid(p) < Solid(t))
  BY <1>1, PlainFacts
<1>3. PICK a \in Nat : Part(p, t, a)
  BY <1>2
<1>4. p \in Text /\ Solid(p) <= Solid(t) /\ Solid(p) \in Nat /\ Solid(t) \in Nat
  <2>1. p \in Text
    BY <1>3 DEF Part
  <2>2. Solid(p) <= Solid(t) /\ Solid(p) \in Nat /\ Solid(t) \in Nat
    BY <1>3, SolidPart
  <2> QED BY <2>1, <2>2
<1>5. PICK h, e : h = FirstTokens(p, HeadTokens) /\ e = LastTokens(p, TailTokens)
  OBVIOUS
<1>6. HeadTokens \in Nat \ {0} /\ TailTokens \in Nat \ {0}
  BY RewriteAssumption
<1>7. /\ h \in Text /\ e \in Text
      /\ Cardinality(Tokens(p)) > TailTokens => Solid(e) > 0 /\ Solid(e) < Solid(p)
  BY <1>4, <1>5, <1>6, TokensFacts
<1>8. PICK x : x = IF p # t /\ p # <<>> THEN <<p>> ELSE <<>>
  OBVIOUS
<1>9. PICK y : y = IF h \notin {t, p} /\ h # <<>> THEN <<h>> ELSE <<>>
  OBVIOUS
<1>10. PICK z : z = IF e \notin {t, p, h} /\ e # <<>> THEN <<e>> ELSE <<>>
  OBVIOUS
<1>11. PICK w : w = x \o y
  OBVIOUS
<1>12. PICK s : s = w \o z
  OBVIOUS
<1>13. Fallbacks(t) = s
  BY <1>1, <1>5, <1>8, <1>9, <1>10, <1>11, <1>12 DEF Fallbacks
<1>14. x \in Seq(Text) /\ y \in Seq(Text) /\ z \in Seq(Text)
  <2>1. x \in Seq(Text)
    BY <1>4, <1>8
  <2>2. y \in Seq(Text)
    BY <1>7, <1>9
  <2>3. z \in Seq(Text)
    BY <1>7, <1>10
  <2> QED BY <2>1, <2>2, <2>3
<1>15. PICK lx \in Nat, ly \in Nat, lz \in Nat : lx = Len(x) /\ ly = Len(y) /\ lz = Len(z)
  BY <1>14
<1>16. w \in Seq(Text) /\ Len(w) = lx + ly
       /\ \A i \in 1..(lx + ly) : w[i] = IF i <= lx THEN x[i] ELSE y[i - lx]
  BY <1>11, <1>14, <1>15, ConcatProperties
<1>17. PICK lw \in Nat : lw = lx + ly
  OBVIOUS
<1>18. s \in Seq(Text) /\ Len(s) = lw + lz
       /\ \A i \in 1..(lw + lz) : s[i] = IF i <= lw THEN w[i] ELSE z[i - lw]
  <2>1. w \in Seq(Text) /\ Len(w) = lw
    BY <1>16, <1>17
  <2> QED BY <1>12, <1>14, <1>15, <2>1, ConcatProperties
<1>19. (x = <<p>> => \E i \in 1..(lw + lz) : s[i] = p)
       /\ (y = <<h>> => \E i \in 1..(lw + lz) : s[i] = h)
       /\ (z = <<e>> => \E i \in 1..(lw + lz) : s[i] = e)
  <2>1. ASSUME x = <<p>> PROVE \E i \in 1..(lw + lz) : s[i] = p
    <3>1. lx = 1 /\ x[1] = p
      BY <1>15, <2>1
    <3>2. 1 \in 1..(lw + lz) /\ 1 <= lw /\ 1 \in 1..(lx + ly)
      BY <1>17, <3>1
    <3> QED BY <1>16, <1>18, <3>1, <3>2
  <2>2. ASSUME y = <<h>> PROVE \E i \in 1..(lw + lz) : s[i] = h
    <3>1. ly = 1 /\ y[1] = h
      BY <1>15, <2>2
    <3>2. lw \in 1..(lw + lz) /\ lw \in 1..(lx + ly) /\ ~(lw <= lx) /\ lw - lx = 1
      BY <1>17, <3>1
    <3> QED BY <1>16, <1>18, <3>1, <3>2
  <2>3. ASSUME z = <<e>> PROVE \E i \in 1..(lw + lz) : s[i] = e
    <3>1. lz = 1 /\ z[1] = e
      BY <1>15, <2>3
    <3>2. lw + 1 \in 1..(lw + lz) /\ ~(lw + 1 <= lw) /\ (lw + 1) - lw = 1
      BY <3>1
    <3> QED BY <1>18, <3>1, <3>2
  <2> QED BY <2>1, <2>2, <2>3
<1> DEFINE Other(q) == Solid(q) < Solid(t) /\ \E k \in 1..Len(q) : q[k] # Space
<1>20. ASSUME p \notin {<<>>, t} PROVE \E i \in 1..(lw + lz) : Other(s[i])
  <2>1. x = <<p>>
    BY <1>8, <1>20
  <2>2. 1 \in 1..Len(p) /\ p[1] # Space
    BY <1>2, <1>4, <1>20 DEF Stripped, Text
  <2>3. Other(p)
    BY <1>2, <1>20, <2>2
  <2> HIDE DEF Other
  <2> QED BY <1>19, <2>1, <2>3
<1>21. ASSUME Cardinality(Tokens(p)) > TailTokens
       PROVE  \E i \in 1..(lw + lz) : Other(s[i])
  <2>1. Solid(e) > 0 /\ Solid(e) < Solid(p) /\ Solid(e) \in Nat
    <3>1. Solid(e) \in Nat
      BY <1>7, SolidFinite DEF Text
    <3> QED BY <1>7, <1>21, <3>1
  <2>2. Solid(e) < Solid(t) /\ e # t /\ e # p
    BY <1>4, <2>1
  <2>3. PICK k \in 1..Len(e) : e[k] # Space
    <3>1. e \in Seq(Symbols) /\ DOMAIN e = 1..Len(e)
      BY <1>7 DEF Text
    <3>2. SolidAt(e) # {}
      <4>1. SolidAt(e) = {} => Solid(e) = 0
        BY FS_EmptySet DEF Solid
      <4> QED BY <2>1, <4>1
    <3> QED BY <3>1, <3>2 DEF SolidAt
  <2>4. e # <<>>
    BY <2>3
  <2>5. Other(e)
    BY <2>2, <2>3
  <2>6. (y = <<h>> /\ h = e) \/ z = <<e>>
    BY <1>9, <1>10, <2>2, <2>4
  <2> HIDE DEF Other
  <2> QED BY <1>19, <2>5, <2>6
<1>22. Varied(t) => \E i \in 1..(lw + lz) : Other(s[i])
  <2> HIDE DEF Other
  <2> QED BY <1>1, <1>20, <1>21 DEF Varied
<1> QED BY <1>13, <1>18, <1>22

\* What is left of some texts.
LEMMA DedupedFacts ==
    ASSUME NEW ts \in Seq(Text), NEW n \in Nat \ {0}, ts # <<>>,
           \E k \in 1..Len(ts[1]) : ts[1][k] # Space
    PROVE  LET d == Deduped(ts, n) IN
           /\ d \in Seq(Text) /\ Len(d) <= n /\ d # <<>> /\ d[1] = Normal(ts[1])
           /\ Cardinality({Normal(q) : q \in ToSet(d)}) = Len(d)
           /\ /\ n > 1
              /\ \E i \in 1..Len(ts) :
                   /\ Solid(ts[i]) # Solid(ts[1])
                   /\ \E k \in 1..Len(ts[i]) : ts[i][k] # Space
              => Len(d) > 1
<1>1. PICK l \in Nat \ {0} : l = Len(ts)
  <2>1. Len(ts) \in Nat /\ Len(ts) # 0
    OBVIOUS
  <2> QED BY <2>1
<1>2. DOMAIN ts = 1..l /\ \A i \in 1..l : ts[i] \in Text /\ ts[i] \in Seq(Symbols)
  BY <1>1, ElementOfSeq DEF Text
<1>3. PICK s : s = Normals(ts)
  OBVIOUS
<1>4. \A i \in 1..l : s[i] = Normal(ts[i])
  BY <1>2, <1>3 DEF Normals
<1>5. \A i \in 1..l : /\ s[i] \in Text /\ Normal(s[i]) = s[i]
                       /\ Solid(s[i]) = Solid(ts[i])
                       /\ \A k \in 1..Len(ts[i]) : ts[i][k] # Space => s[i] # <<>>
  <2> SUFFICES ASSUME NEW i \in 1..l
               PROVE  /\ s[i] \in Text /\ Normal(s[i]) = s[i]
                      /\ Solid(s[i]) = Solid(ts[i])
                      /\ \A k \in 1..Len(ts[i]) : ts[i][k] # Space => s[i] # <<>>
    OBVIOUS
  <2>1. PICK t \in Seq(Symbols) : t = ts[i]
    BY <1>2
  <2>2. s[i] = Normal(t)
    BY <1>4, <2>1
  <2> QED BY <2>1, <2>2, NormalFacts DEF Text
<1>6. s \in Seq(Text) /\ Len(s) = l /\ DOMAIN s = 1..l
  <2>1. s = [i \in 1..l |-> s[i]]
    BY <1>2, <1>3 DEF Normals
  <2>2. \A i \in 1..l : s[i] \in Text
    BY <1>5
  <2>3. l \in Nat
    BY <1>2
  <2> QED BY <2>1, <2>2, <2>3, SMTT(30)
<1>7. PICK I : I = {i \in NewAt(s) : s[i] # <<>>}
  OBVIOUS
<1>8. I \in SUBSET NewAt(s) /\ I \in SUBSET (1..Len(s))
  BY <1>6, <1>7 DEF NewAt
<1>9. PICK p : p = Pick(s, I)
  OBVIOUS
<1>10. p \in Seq(Text) /\ Distinct(p) /\ \A x \in ToSet(p) : \E i \in I : s[i] = x
  BY <1>6, <1>8, <1>9, DistinctPick
<1>25. s \in Seq(Text)
  BY <1>6
<1>26. I \in SUBSET (1..Len(s))
  BY <1>8
<1>28. Cardinality(I) \in Nat
  BY <1>25, <1>26, PickFacts
<1>11. PICK m \in Nat : m = Cardinality(I)
  BY <1>28
<1>12. Len(p) = m
  BY <1>9, <1>11, <1>25, <1>26, PickFacts
<1>27. PICK f : Picked(f, p, s, I, m)
  BY <1>9, <1>11, <1>25, <1>26, PickFacts
<1>13. /\ f \in [1..m -> I]
       /\ \A i, j \in 1..m : i < j <=> f[i] < f[j]
       /\ \A x \in I : \E i \in 1..m : f[i] = x
       /\ \A i \in 1..m : p[i] = s[f[i]]
  BY <1>27 DEF Picked
<1>14. PICK d : d = Deduped(ts, n)
  OBVIOUS
<1>15. d = First(p, n)
  BY <1>3, <1>7, <1>9, <1>14 DEF Deduped
<1>16. /\ d \in Seq(Text) /\ Len(d) = IF m <= n THEN m ELSE n
       /\ \A i \in 1..Len(d) : i \in 1..m /\ d[i] = p[i]
  BY <1>10, <1>12, <1>15, FirstFacts
<1>17. \A x \in I : x \in 1..l
  BY <1>6, <1>8
<1>18. 1 \in I
  <2>1. 1 \in DOMAIN s /\ s[1] # <<>>
    BY <1>1, <1>5, <1>6
  <2> QED BY <1>7, <2>1 DEF NewAt
<1>19. PICK o \in 1..m : f[o] = 1
  BY <1>13, <1>18
<1>20. o = 1
  <2> SUFFICES ASSUME o # 1 PROVE FALSE
    OBVIOUS
  <2>1. 1 \in 1..m /\ 1 < o
    OBVIOUS
  <2>2. f[1] < 1 /\ f[1] \in I
    BY <1>13, <1>19, <2>1
  <2> QED BY <1>17, <2>2
<1>21. Len(d) >= 1 /\ Len(d) \in Nat /\ d # <<>> /\ d[1] = Normal(ts[1])
  <2>1. Len(d) >= 1 /\ Len(d) \in Nat
    BY <1>16, <1>19
  <2>2. d[1] = s[1]
    BY <1>13, <1>16, <1>19, <1>20, <2>1
  <2> QED BY <1>1, <1>4, <1>16, <2>1, <2>2
<1>22. Cardinality({Normal(q) : q \in ToSet(d)}) = Len(d)
  <2>1. Distinct(d)
    BY <1>10, <1>12, <1>16 DEF Distinct
  <2>2. Cardinality(ToSet(d)) = Len(d)
    BY <1>16, <2>1, DistinctFacts
  <2>3. \A q \in ToSet(d) : Normal(q) = q
    <3>1. \A i \in 1..Len(d) : d[i] \in ToSet(p)
      <4>1. DOMAIN p = 1..m
        BY <1>10, <1>12
      <4> QED BY <1>16, <4>1 DEF ToSet
    <3>2. \A q \in ToSet(d) : q \in ToSet(p)
      BY <1>16, <3>1 DEF ToSet
    <3> QED BY <1>5, <1>10, <1>17, <3>2
  <2>4. {Normal(q) : q \in ToSet(d)} = ToSet(d)
    BY <2>3
  <2> QED BY <2>2, <2>4
<1>23. ASSUME n > 1, NEW i \in 1..l, Solid(ts[i]) # Solid(ts[1]),
              NEW k \in 1..Len(ts[i]), ts[i][k] # Space
       PROVE  Len(d) > 1
  <2>1. s[i] # <<>> /\ s[i] # s[1]
    BY <1>1, <1>5, <1>23
  <2> DEFINE K == {j \in 1..l : s[j] = s[i]}
  <2>2. K \subseteq Nat /\ i \in K
    OBVIOUS
  <2>3. PICK j \in K : \A x \in K : j <= x
    <3> HIDE DEF K
    <3> QED BY <2>2, MinFacts
  <2>4. j \in 1..l /\ s[j] = s[i]
    OBVIOUS
  <2>5. \A x \in 1..(j - 1) : s[x] # s[j]
    <3> SUFFICES ASSUME NEW x \in 1..(j - 1), s[x] = s[j] PROVE FALSE
      OBVIOUS
    <3>1. x \in K /\ ~(j <= x)
      BY <2>4
    <3> QED BY <2>3, <3>1
  <2>6. j \in I
    BY <1>6, <1>7, <2>1, <2>4, <2>5 DEF NewAt
  <2>7. PICK b \in 1..m : f[b] = j
    BY <1>13, <2>6
  <2>8. b # o
    BY <1>19, <2>1, <2>4, <2>7
  <2>9. m > 1
    BY <1>20, <2>8
  <2> QED BY <1>16, <1>23, <2>9
<1>24. Len(d) <= n
  BY <1>16
<1> QED BY <1>1, <1>14, <1>16, <1>21, <1>22, <1>23, <1>24

\* The queries are distinct, at most as many as allowed, and begin with the
\* question.
RewriteInv ==
    /\ question \in Text /\ Stripped(question)
    /\ limit \in Nat
    /\ Len(queries) <= limit
    /\ Cardinality({Normal(q) : q \in ToSet(queries)}) = Len(queries)
    /\ question # <<>> => queries # <<>> /\ queries[1] = Normal(question)
    /\ Varied(question) /\ limit > 1 => Len(queries) > 1

\* The answer to a question keeps RewriteInv.
LEMMA AskedQueries ==
    ASSUME AskQuestion
    PROVE  RewriteInv'
<1>1. PICK text \in Questions, n \in Limits, answer \in BoundedSeq(Answers, MaxAnswers) :
         question' = Strip(text) /\ limit' = n /\ queries' = Rewrite(Strip(text), answer, n)
  BY DEF AskQuestion
<1>2. Questions \subseteq Text /\ Answers \subseteq Text
  BY RewriteAssumption DEF Text, Symbols
<1>3. PICK t : t = Strip(text)
  OBVIOUS
<1>4. t \in Text /\ Stripped(t)
  BY <1>1, <1>2, <1>3, StripFacts
<1>5. n \in Nat \ {0}
  BY RewriteAssumption
<1>6. PICK d : d = Rewrite(t, answer, n)
  OBVIOUS
<1>7. question' = t /\ limit' = n /\ queries' = d
  BY <1>1, <1>3, <1>6
<1>8. CASE t = <<>>
  <2>1. d = <<>> /\ Len(d) = 0
    BY <1>6, <1>8 DEF Rewrite
  <2>2. Cardinality({Normal(q) : q \in ToSet(d)}) = 0
    <3>1. ToSet(d) = {}
      BY <2>1 DEF ToSet
    <3>2. {Normal(q) : q \in ToSet(d)} = {}
      BY <3>1
    <3> QED BY <3>2, FS_EmptySet
  <2>3. ~Varied(t)
    <3>1. Plain(t) = <<>> /\ Tokens(Plain(t)) = {}
      <4>1. PICK p : p = Plain(t)
        OBVIOUS
      <4>2. PICK a \in Nat : Part(p, t, a)
        BY <1>4, <4>1, PlainFacts
      <4>3. Len(t) = 0
        BY <1>8
      <4>4. \A i \in 1..Len(p) : FALSE
        BY <4>2, <4>3 DEF Part
      <4>5. p \in Seq(Symbols)
        BY <4>2 DEF Part, Text
      <4>6. p = <<>>
        BY <4>4, <4>5
      <4>7. Tokens(p) = {}
        BY <4>6 DEF Tokens
      <4> QED BY <4>1, <4>6, <4>7
    <3>2. TailTokens \in Nat /\ Cardinality(Tokens(Plain(t))) = 0
      BY <3>1, FS_EmptySet, RewriteAssumption
    <3> QED BY <3>1, <3>2 DEF Varied
  <2> QED BY <1>4, <1>5, <1>7, <1>8, <2>1, <2>2, <2>3
          DEF RewriteInv, Varied, Stripped
<1>9. CASE t # <<>>
  <2>1. PICK x : x = IF n <= 1 THEN <<>> ELSE answer
    OBVIOUS
  <2>2. x \in Seq(Text)
    <3>1. answer \in Seq(Answers)
      BY DEF BoundedSeq, SeqOf
    <3>2. answer \in Seq(Text)
      BY <1>2, <3>1
    <3> QED BY <2>1, <3>2
  <2>3. PICK w, s, f : w = <<t>> \o x /\ s = w \o f /\ f = Fallbacks(t)
    OBVIOUS
  <2>4. d = Deduped(s, n)
    BY <1>6, <1>9, <2>1, <2>3 DEF Rewrite
  <2>5. f \in Seq(Text)
        /\ (Varied(t) => \E i \in 1..Len(f) :
                /\ Solid(f[i]) < Solid(t)
                /\ \E k \in 1..Len(f[i]) : f[i][k] # Space)
    BY <1>4, <2>3, FallbacksFacts
  <2>6. PICK lx \in Nat, lf \in Nat : lx = Len(x) /\ lf = Len(f)
    BY <2>2, <2>5
  <2>7. <<t>> \in Seq(Text) /\ Len(<<t>>) = 1 /\ <<t>>[1] = t
    BY <1>4
  <2>8. w \in Seq(Text) /\ Len(w) = 1 + lx
        /\ \A i \in 1..(1 + lx) : w[i] = IF i <= 1 THEN <<t>>[i] ELSE x[i - 1]
    BY <2>2, <2>3, <2>6, <2>7, ConcatProperties
  <2>9. PICK lw \in Nat : lw = 1 + lx
    OBVIOUS
  <2>10. w \in Seq(Text) /\ Len(w) = lw
    BY <2>8, <2>9
  <2>11. s \in Seq(Text) /\ Len(s) = lw + lf
         /\ \A i \in 1..(lw + lf) : s[i] = IF i <= lw THEN w[i] ELSE f[i - lw]
    <3>1. f \in Seq(Text) /\ Len(f) = lf
      BY <2>5, <2>6
    <3>2. s = w \o f
      BY <2>3
    <3>3. w \in Seq(Text) /\ Len(w) = lw
      BY <2>10
    <3> QED BY <3>1, <3>2, <3>3, ConcatProperties
  <2>12. s # <<>> /\ s[1] = t
    <3>1. 1 \in 1..(lw + lf) /\ 1 <= lw /\ 1 \in 1..(1 + lx) /\ 1 <= 1
      BY <2>9
    <3> QED BY <2>7, <2>8, <2>11, <3>1
  <2>13. \E k \in 1..Len(t) : t[k] # Space
    <3>1. 1 \in 1..Len(t)
      BY <1>4, <1>9 DEF Text
    <3> QED BY <1>4, <1>9, <3>1 DEF Stripped
  <2>14. /\ d \in Seq(Text) /\ Len(d) <= n /\ d # <<>> /\ d[1] = Normal(t)
         /\ Cardinality({Normal(q) : q \in ToSet(d)}) = Len(d)
         /\ /\ n > 1
            /\ \E i \in 1..Len(s) :
                 /\ Solid(s[i]) # Solid(t)
                 /\ \E k \in 1..Len(s[i]) : s[i][k] # Space
            => Len(d) > 1
    BY <1>5, <2>4, <2>11, <2>12, <2>13, DedupedFacts
  <2>15. ASSUME Varied(t), n > 1 PROVE Len(d) > 1
    <3>1. PICK i \in 1..lf : /\ Solid(f[i]) < Solid(t)
                             /\ \E k \in 1..Len(f[i]) : f[i][k] # Space
      BY <2>5, <2>6, <2>15
    <3>2. PICK j \in 1..(lw + lf) : j = lw + i
      OBVIOUS
    <3>3. ~(j <= lw) /\ j - lw = i
      BY <3>2
    <3>4. s[j] = f[i]
      BY <2>11, <3>3
    <3>5. Solid(f[i]) # Solid(t)
      <4>1. f[i] \in Text /\ t \in Text
        BY <1>4, <2>5, <2>6, ElementOfSeq
      <4>2. Solid(f[i]) \in Nat /\ Solid(t) \in Nat
        BY <4>1, SolidFinite DEF Text
      <4> QED BY <3>1, <4>2
    <3>6. j \in 1..Len(s) /\ Solid(s[j]) # Solid(t)
          /\ \E k \in 1..Len(s[j]) : s[j][k] # Space
      BY <2>11, <3>1, <3>4, <3>5
    <3> QED BY <2>14, <2>15, <3>6
  <2> QED BY <1>4, <1>5, <1>7, <2>14, <2>15 DEF RewriteInv, Varied
<1> QED BY <1>8, <1>9

\* RewriteInv holds before the first question.
LEMMA NoQueriesYet ==
    ASSUME RewriteInit
    PROVE  RewriteInv
<1>1. question = <<>> /\ limit = 0 /\ queries = <<>>
  BY DEF RewriteInit
<1>2. ToSet(queries) = {}
  BY <1>1 DEF ToSet
<1>3. {Normal(q) : q \in ToSet(queries)} = {}
  BY <1>2
<1>4. Cardinality({Normal(q) : q \in ToSet(queries)}) = 0
  BY <1>3, FS_EmptySet
<1>5. question \in Text /\ Stripped(question) /\ Len(queries) = 0
  BY <1>1 DEF Text, Stripped
<1> QED BY <1>1, <1>4, <1>5 DEF RewriteInv

\* The question itself is searched first, no query twice, none too many, and
\* a varied question in another form as well (query_rewrite_service.py:31-43,
\* 74-101).
THEOREM QueriesAreSoundHolds == RetrievalSpec => []QueriesAreSound
<1>1. RetrievalInit => RewriteInv
  BY NoQueriesYet DEF RetrievalInit
<1>2. RewriteInv /\ [RetrievalNext]_vars => RewriteInv'
  <2> SUFFICES ASSUME RewriteInv, [RetrievalNext]_vars PROVE RewriteInv'
    OBVIOUS
  <2>1. CASE RewriteQuestion
    BY <2>1, AskedQueries DEF RewriteQuestion
  <2>2. CASE UNCHANGED qvars
    BY <2>2 DEF qvars, RewriteInv, Varied, Stripped
  <2>3. RetrievalNext => RewriteQuestion \/ UNCHANGED qvars
    BY DEF RetrievalNext, Index, Recall, Rerank, Postprocess, CollectSummary, qvars
  <2>4. UNCHANGED vars => UNCHANGED qvars
    BY DEF vars
  <2> QED BY <2>1, <2>2, <2>3, <2>4
<1>3. RewriteInv => QueriesAreSound
  BY DEF RewriteInv, Varied, QueriesAreSound
<1> QED BY <1>1, <1>2, <1>3, PTL DEF RetrievalSpec
=============================================================================
