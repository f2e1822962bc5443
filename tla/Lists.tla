------------------------------- MODULE Lists -------------------------------
(***************************************************************************)
(* What the program does with Python's lists: sorting, filtering and       *)
(* cutting them.                                                           *)
(***************************************************************************)
EXTENDS Integers, FiniteSets, Sequences

\* sorted: the elements of a finite set, in order.
Sorted(S, Before(_, _)) ==
    LET ranked == {<<x, Cardinality({y \in S : Before(y, x)})>> : x \in S}
    IN [i \in 1..Cardinality(S) |-> (CHOOSE p \in ranked : p[2] = i - 1)[1]]

\* list.sort: the elements of s in order, those that are equal in the order
\* in which they were.
Arranged(s, Before(_, _)) ==
    LET Ahead(i, j) == Before(s[i], s[j]) \/ (~Before(s[j], s[i]) /\ i < j)
        at == Sorted(DOMAIN s, Ahead)
    IN [k \in DOMAIN s |-> s[at[k]]]

\* The numbers of I, in order.
Ascending(I) == Sorted(I, LAMBDA i, j : i < j)

\* The elements of s at the positions I, in their order.
Pick(s, I) == LET at == Ascending(I) IN [k \in 1..Cardinality(I) |-> s[at[k]]]

\* The positions in s of what was not seen before.
NewAt(s) == {i \in DOMAIN s : \A j \in 1..(i - 1) : s[j] # s[i]}

\* sum
Total(ns) ==
    LET sum[k \in 0..Len(ns)] == IF k = 0 THEN 0 ELSE sum[k - 1] + ns[k]
    IN sum[Len(ns)]

\* s[:n]
First(s, n) == SubSeq(s, 1, IF Len(s) <= n THEN Len(s) ELSE n)
=============================================================================
