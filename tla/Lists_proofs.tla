---------------------------- MODULE Lists_proofs ----------------------------
(***************************************************************************)
(* What the operators of Lists return, for lists of any length, and what   *)
(* the proofs about the retrieval pipeline and the agent need to know of   *)
(* sequences: induction, least and greatest numbers, mapping, flattening.  *)
(*                                                                         *)
(* The library's induction theorems take an operator as a parameter, which *)
(* the installed provers cannot instantiate.  SetInduction states the same *)
(* of a set of numbers; it follows from the theorem that a well-founded    *)
(* relation has minimal elements.                                          *)
(***************************************************************************)
EXTENDS Lists, SequencesExt, FiniteSetTheorems, SequenceTheorems,
        WellFoundedInduction, TLAPS

-----------------------------------------------------------------------------
(* Induction *)

\* A set of numbers that has 0 and with every number the next has all of them.
LEMMA SetInduction ==
    ASSUME NEW S, 0 \in S, \A n \in Nat : n \in S => n + 1 \in S
    PROVE  \A n \in Nat : n \in S
<1> SUFFICES ASSUME NEW m \in Nat, m \notin S PROVE FALSE
  OBVIOUS
<1> DEFINE R == OpToRel(<, Nat)
           T == Nat \ S
<1>1. IsWellFoundedOn(R, Nat)
  BY NatLessThanWellFounded
<1>2. PICK n \in T : \A k \in T : ~(<<k, n>> \in R)
  <2>1. T \subseteq Nat /\ T # {}
    OBVIOUS
  <2> HIDE DEF R, T
  <2> QED BY <1>1, <2>1, WFMin
<1>3. n # 0 /\ n - 1 \in Nat
  OBVIOUS
<1>4. n - 1 \notin S
  BY <1>3
<1>5. <<n - 1, n>> \in R
  BY <1>3 DEF OpToRel
<1> QED BY <1>2, <1>3, <1>4, <1>5

\* The same, up to a bound.
LEMMA SetInductionTo ==
    ASSUME NEW S, NEW m \in Nat, 0 \in S,
           \A n \in 1..m : n - 1 \in S => n \in S
    PROVE  \A n \in 0..m : n \in S
<1> DEFINE T == {n \in Nat : n <= m => n \in S}
<1>1. 0 \in T
  OBVIOUS
<1>2. \A n \in Nat : n \in T => n + 1 \in T
  <2> SUFFICES ASSUME NEW n \in Nat, n \in T, n + 1 <= m PROVE n + 1 \in S
    OBVIOUS
  <2>1. n \in S /\ n + 1 \in 1..m /\ (n + 1) - 1 = n
    OBVIOUS
  <2> QED BY <2>1
<1>3. \A n \in Nat : n \in T
  <2> HIDE DEF T
  <2> QED BY <1>1, <1>2, SetInduction
<1> QED BY <1>3

-----------------------------------------------------------------------------
(* Least and greatest numbers *)

\* The least of some natural numbers.
LEMMA MinFacts ==
    ASSUME NEW S, S \subseteq Nat, S # {}
    PROVE  Min(S) \in S /\ \A x \in S : Min(S) <= x
<1> DEFINE R == OpToRel(<, Nat)
<1>1. PICK m \in S : \A k \in S : ~(<<k, m>> \in R)
  <2>1. IsWellFoundedOn(R, Nat)
    BY NatLessThanWellFounded
  <2> HIDE DEF R
  <2> QED BY <2>1, WFMin
<1>2. \A k \in S : m <= k
  <2> SUFFICES ASSUME NEW k \in S, k < m PROVE FALSE
    OBVIOUS
  <2>1. <<k, m>> \in R
    BY DEF OpToRel
  <2> QED BY <1>1, <2>1
<1> QED BY <1>2 DEF Min

\* The greatest of some numbers with a bound.
LEMMA MaxFacts ==
    ASSUME NEW S, NEW n \in Nat, S \subseteq 0..n, S # {}
    PROVE  Max(S) \in S /\ \A x \in S : x <= Max(S)
<1> DEFINE T == {n - x : x \in S}
<1>1. T \subseteq Nat /\ T # {}
  <2>1. PICK x \in S : TRUE
    OBVIOUS
  <2>2. n - x \in T
    BY <2>1
  <2>3. \A y \in S : y \in 0..n /\ n - y \in Nat
    OBVIOUS
  <2> QED BY <2>2, <2>3
<1>2. Min(T) \in T /\ \A y \in T : Min(T) <= y
  <2> HIDE DEF T
  <2> QED BY <1>1, MinFacts
<1>3. PICK m \in S : Min(T) = n - m
  BY <1>2
<1>4. \A x \in S : x <= m
  <2> SUFFICES ASSUME NEW x \in S PROVE x <= m
    OBVIOUS
  <2>1. n - x \in T
    OBVIOUS
  <2>2. n - m <= n - x
    BY <1>2, <1>3, <2>1
  <2> QED BY <2>2
<1> QED BY <1>4 DEF Max

\* Min and Max of two numbers are the comparison of the two.
LEMMA MinMaxOfTwo ==
    ASSUME NEW a \in Int, NEW b \in Int
    PROVE  /\ Min({a, b}) = IF a <= b THEN a ELSE b
           /\ Max({a, b}) = IF a <= b THEN b ELSE a
<1>1. \E x \in {a, b} : \A y \in {a, b} : x <= y
  OBVIOUS
<1>2. \E x \in {a, b} : \A y \in {a, b} : y <= x
  OBVIOUS
<1>3. Min({a, b}) \in {a, b} /\ \A y \in {a, b} : Min({a, b}) <= y
  BY <1>1 DEF Min
<1>4. Max({a, b}) \in {a, b} /\ \A y \in {a, b} : y <= Max({a, b})
  BY <1>2 DEF Max
<1> QED BY <1>3, <1>4

-----------------------------------------------------------------------------
(* Recursive functions *)

\* f is the function on 0..n that begins with b and goes on with step.
Steps(n, T, b, step) ==
    n \in Nat /\ b \in T /\ step \in [(1..n) \X T -> T]
Goes(n, T, b, step, f) ==
    /\ f \in [0..n -> T]
    /\ f[0] = b
    /\ \A k \in 1..n : f[k] = step[<<k, f[k - 1]>>]

\* There is such a function.
LEMMA Recursion ==
    ASSUME NEW n, NEW T, NEW b, NEW step, Steps(n, T, b, step)
    PROVE  \E f : Goes(n, T, b, step, f)
<1> USE DEF Steps
<1> DEFINE Good(m, f) == Goes(m, T, b, step, f)
           S == {m \in 0..n : \E f : Good(m, f)}
<1>1. 0 \in S
  <2> DEFINE f == [k \in 0..0 |-> b]
  <2>1. Good(0, f)
    BY DEF Goes
  <2> HIDE DEF f, Good
  <2> QED BY <2>1
<1>2. ASSUME NEW m \in 1..n, m - 1 \in S PROVE m \in S
  <2>1. PICK f : Good(m - 1, f)
    BY <1>2
  <2> DEFINE g == [k \in 0..m |-> IF k = m THEN step[<<m, f[m - 1]>>] ELSE f[k]]
  <2>2. step[<<m, f[m - 1]>>] \in T
    BY <2>1 DEF Goes
  <2>3. g \in [0..m -> T]
    BY <2>1, <2>2 DEF Goes
  <2>4. g[0] = b
    BY <2>1 DEF Goes
  <2>5. ASSUME NEW k \in 1..m PROVE g[k] = step[<<k, g[k - 1]>>]
    <3>1. CASE k = m
      <4>1. m \in 0..m /\ m - 1 \in 0..m /\ m - 1 # m
        OBVIOUS
      <4>2. g[m] = step[<<m, f[m - 1]>>] /\ g[m - 1] = f[m - 1]
        BY <4>1
      <4> HIDE DEF g
      <4> QED BY <3>1, <4>2
    <3>2. CASE k # m
      <4>1. k \in 1..(m - 1) /\ k - 1 \in 0..(m - 1) /\ k \in 0..m /\ k - 1 # m
            /\ k - 1 \in 0..m
        BY <3>2
      <4>2. g[k] = f[k] /\ g[k - 1] = f[k - 1]
        BY <4>1, <3>2
      <4>3. f[k] = step[<<k, f[k - 1]>>]
        BY <2>1, <4>1 DEF Goes
      <4> QED BY <4>2, <4>3
    <3> QED BY <3>1, <3>2
  <2>6. Good(m, g)
    BY <2>3, <2>4, <2>5 DEF Goes
  <2> HIDE DEF g, Good
  <2> QED BY <2>6
<1>3. n \in S
  <2> HIDE DEF S
  <2> QED BY <1>1, <1>2, SetInductionTo
<1> QED BY <1>3

\* Two functions with the same first value and the same steps are the same.
StepAlike(n, f, g) ==
    f[0] = g[0] /\ \A k \in 1..n : f[k - 1] = g[k - 1] => f[k] = g[k]

LEMMA SameSteps ==
    ASSUME NEW n \in Nat, NEW f, NEW g, StepAlike(n, f, g)
    PROVE  \A k \in 0..n : f[k] = g[k]
<1> DEFINE S == {k \in 0..n : f[k] = g[k]}
<1>1. 0 \in S /\ \A k \in 1..n : k - 1 \in S => k \in S
  BY DEF StepAlike
<1>2. \A k \in 0..n : k \in S
  <2> HIDE DEF S
  <2> QED BY <1>1, SetInductionTo
<1> QED BY <1>2

-----------------------------------------------------------------------------
(* Sequences made element by element *)

Maps(g, T, U) == \A x \in T : g[x] \in U
MappedBy(g, s) == [i \in DOMAIN s |-> g[s[i]]]

\* What a function makes of a sequence, element by element.
LEMMA MappedType ==
    ASSUME NEW T, NEW U, NEW g, Maps(g, T, U), NEW s \in Seq(T)
    PROVE  /\ MappedBy(g, s) \in Seq(U) /\ Len(MappedBy(g, s)) = Len(s)
           /\ \A i \in 1..Len(s) : MappedBy(g, s)[i] = g[s[i]]
<1>1. PICK n \in Nat : n = Len(s) /\ DOMAIN s = 1..n
  OBVIOUS
<1>2. \A i \in 1..n : g[s[i]] \in U
  BY <1>1 DEF Maps
<1> QED BY <1>1, <1>2 DEF MappedBy

\* It may be taken of two parts, or of the last element, apart.
LEMMA MappedFacts ==
    ASSUME NEW T, NEW U, NEW g, Maps(g, T, U),
           NEW s \in Seq(T), NEW t \in Seq(T)
    PROVE  /\ MappedBy(g, s \o t) = MappedBy(g, s) \o MappedBy(g, t)
           /\ \A x \in T : MappedBy(g, Append(s, x)) = Append(MappedBy(g, s), g[x])
<1> DEFINE f(r) == MappedBy(g, r)
<1>1. \A r \in Seq(T) : /\ f(r) \in Seq(U) /\ Len(f(r)) = Len(r)
                         /\ \A i \in 1..Len(r) : f(r)[i] = g[r[i]]
  BY MappedType
<1>2. PICK m \in Nat, n \in Nat : m = Len(s) /\ n = Len(t)
  OBVIOUS
<1> HIDE DEF f
<1>3. ASSUME NEW u \in Seq(T), NEW v \in Seq(U), Len(u) = Len(v),
             \A i \in 1..Len(u) : v[i] = g[u[i]]
      PROVE  f(u) = v
  <2>1. f(u) \in Seq(U) /\ Len(f(u)) = Len(v) /\ \A i \in 1..Len(v) : f(u)[i] = v[i]
    BY <1>1, <1>3
  <2> QED BY <2>1, SeqEqual
<1>4. f(s \o t) = f(s) \o f(t)
  <2>1. s \o t \in Seq(T) /\ Len(s \o t) = m + n
        /\ \A i \in 1..(m + n) : (s \o t)[i] = IF i <= m THEN s[i] ELSE t[i - m]
    BY <1>2
  <2>2. f(s) \in Seq(U) /\ f(t) \in Seq(U) /\ Len(f(s)) = m /\ Len(f(t)) = n
    BY <1>1, <1>2
  <2>3. f(s) \o f(t) \in Seq(U) /\ Len(f(s) \o f(t)) = m + n
        /\ \A i \in 1..(m + n) : (f(s) \o f(t))[i] = IF i <= m THEN f(s)[i] ELSE f(t)[i - m]
    BY <2>2, ConcatProperties
  <2>4. ASSUME NEW i \in 1..(m + n) PROVE (f(s) \o f(t))[i] = g[(s \o t)[i]]
    <3>1. CASE i <= m
      <4>1. i \in 1..m
        BY <3>1
      <4>2. f(s)[i] = g[s[i]]
        BY <1>1, <1>2, <4>1
      <4> QED BY <2>1, <2>3, <3>1, <4>2
    <3>2. CASE ~(i <= m)
      <4>1. i - m \in 1..n
        BY <3>2
      <4>2. f(t)[i - m] = g[t[i - m]]
        BY <1>1, <1>2, <4>1
      <4> QED BY <2>1, <2>3, <3>2, <4>2
    <3> QED BY <3>1, <3>2
  <2> QED BY <1>3, <2>1, <2>3, <2>4
<1>5. ASSUME NEW x \in T PROVE f(Append(s, x)) = Append(f(s), g[x])
  <2>1. Append(s, x) \in Seq(T) /\ Len(Append(s, x)) = m + 1
        /\ \A i \in 1..(m + 1) : Append(s, x)[i] = IF i <= m THEN s[i] ELSE x
    BY <1>2
  <2>2. f(s) \in Seq(U) /\ Len(f(s)) = m /\ g[x] \in U
    BY <1>1, <1>2 DEF Maps
  <2>3. Append(f(s), g[x]) \in Seq(U) /\ Len(Append(f(s), g[x])) = m + 1
        /\ \A i \in 1..(m + 1) : Append(f(s), g[x])[i] = IF i <= m THEN f(s)[i] ELSE g[x]
    BY <2>2
  <2>4. ASSUME NEW i \in 1..(m + 1) PROVE Append(f(s), g[x])[i] = g[Append(s, x)[i]]
    <3>1. i <= m => i \in 1..m
      OBVIOUS
    <3>2. i <= m => f(s)[i] = g[s[i]]
      BY <1>1, <1>2, <3>1
    <3> QED BY <2>1, <2>3, <3>2
  <2> QED BY <1>3, <2>1, <2>3, <2>4
<1> QED BY <1>4, <1>5 DEF f

-----------------------------------------------------------------------------
(* Sums *)

SumOf(s, f) == [k \in 0..Len(s) |-> IF k = 0 THEN 0 ELSE f[k - 1] + s[k]]

\* The recursion of Total defines a function.
LEMMA SumExists ==
    ASSUME NEW s \in Seq(Int)
    PROVE  \E f \in [0..Len(s) -> Int] : f = SumOf(s, f) /\ Total(s) = f[Len(s)]
<1>1. PICK n \in Nat : n = Len(s)
  OBVIOUS
<1> DEFINE step == [p \in (1..n) \X Int |-> p[2] + s[p[1]]]
           F(f) == [k \in 0..n |-> IF k = 0 THEN 0 ELSE f[k - 1] + s[k]]
           sum == CHOOSE f : f = F(f)
<1>2. \A k \in 1..n : s[k] \in Int
  BY <1>1
<1>3. step \in [(1..n) \X Int -> Int]
  BY <1>2
<1>4. PICK f :
        /\ f \in [0..n -> Int]
        /\ f[0] = 0 /\ \A k \in 1..n : f[k] = step[<<k, f[k - 1]>>]
  <2>1. Steps(n, Int, 0, step)
    BY <1>3 DEF Steps
  <2>2. PICK f : Goes(n, Int, 0, step, f)
    <3> HIDE DEF step
    <3> QED BY <2>1, Recursion
  <2> QED BY <2>2 DEF Goes
<1>5. f = F(f)
  <2>1. ASSUME NEW k \in 0..n PROVE f[k] = IF k = 0 THEN 0 ELSE f[k - 1] + s[k]
    <3>1. f[0] = 0 /\ (k # 0 => f[k] = step[<<k, f[k - 1]>>])
      <4> HIDE DEF step
      <4> QED BY <1>4
    <3>2. k # 0 => k \in 1..n /\ k - 1 \in 0..n
      BY <1>1
    <3>3. k # 0 => f[k - 1] \in Int
      BY <1>4, <3>2
    <3>4. k # 0 => step[<<k, f[k - 1]>>] = f[k - 1] + s[k]
      BY <3>2, <3>3
    <3> HIDE DEF step
    <3> QED BY <3>1, <3>4
  <2>2. f = [k \in 0..n |-> f[k]]
    BY <1>4
  <2> QED BY <2>1, <2>2
<1>6. sum = F(sum)
  <2> HIDE DEF F
  <2> QED BY <1>5
<1>7. sum[0] = f[0] /\ \A k \in 1..n : sum[k - 1] = f[k - 1] => sum[k] = f[k]
  <2> HIDE DEF sum, step
  <2>1. sum[0] = 0 /\ f[0] = 0
    BY <1>1, <1>5, <1>6
  <2>2. ASSUME NEW k \in 1..n
        PROVE  sum[k] = sum[k - 1] + s[k] /\ f[k] = f[k - 1] + s[k]
    <3>1. k \in 0..n /\ k # 0
      BY <1>1
    <3> QED BY <1>5, <1>6, <3>1
  <2> QED BY <2>1, <2>2
<1>8. \A k \in 0..n : sum[k] = f[k]
  <2> HIDE DEF sum
  <2>1. StepAlike(n, sum, f)
    BY <1>7 DEF StepAlike
  <2> QED BY <2>1, SameSteps
<1>9. Total(s) = sum[n]
  BY <1>1 DEF Total
<1> QED BY <1>1, <1>4, <1>5, <1>8, <1>9 DEF SumOf

\* Total adds up.
LEMMA TotalFacts ==
    /\ Total(<<>>) = 0
    /\ \A s \in Seq(Int) : Total(s) \in Int
    /\ \A s \in Seq(Int), x \in Int : Total(Append(s, x)) = Total(s) + x
<1>1. Total(<<>>) = 0
  <2>1. <<>> \in Seq(Int) /\ Len(<<>>) = 0
    OBVIOUS
  <2>2. PICK f \in [0..0 -> Int] : f = SumOf(<<>>, f) /\ Total(<<>>) = f[0]
    BY <2>1, SumExists
  <2> QED BY <2>1, <2>2 DEF SumOf
<1>2. ASSUME NEW s \in Seq(Int) PROVE Total(s) \in Int
  BY SumExists
<1>3. ASSUME NEW s \in Seq(Int), NEW x \in Int
      PROVE  Total(Append(s, x)) = Total(s) + x
  <2>0. PICK n \in Nat : n = Len(s)
    OBVIOUS
  <2> DEFINE t == Append(s, x)
  <2>1. t \in Seq(Int) /\ Len(t) = n + 1 /\ t[n + 1] = x
        /\ \A k \in 1..n : t[k] = s[k]
    BY <2>0
  <2>2. PICK f : f \in [0..n -> Int] /\ f = SumOf(s, f) /\ Total(s) = f[n]
    BY <2>0, SumExists
  <2>3. PICK g : /\ g \in [0..(n + 1) -> Int]
                 /\ g = SumOf(t, g) /\ Total(t) = g[n + 1]
    BY <2>1, SumExists
  <2> HIDE DEF t
  <2>4. f[0] = 0 /\ g[0] = 0
    BY <2>0, <2>1, <2>2, <2>3 DEF SumOf
  <2>5. ASSUME NEW k \in 1..n
        PROVE  f[k] = f[k - 1] + s[k] /\ g[k] = g[k - 1] + s[k]
    <3>1. k \in 0..n /\ k # 0 /\ k \in 0..(n + 1) /\ t[k] = s[k]
      BY <2>1
    <3>2. f[k] = f[k - 1] + s[k]
      BY <2>0, <2>2, <3>1 DEF SumOf
    <3>3. g[k] = g[k - 1] + t[k]
      BY <2>1, <2>3, <3>1 DEF SumOf
    <3> QED BY <3>1, <3>2, <3>3
  <2>6. \A k \in 0..n : f[k] = g[k]
    <3>1. StepAlike(n, f, g)
      BY <2>4, <2>5 DEF StepAlike
    <3> QED BY <3>1, SameSteps
  <2>7. g[n + 1] = g[n] + x
    BY <2>1, <2>3 DEF SumOf
  <2> QED BY <2>1, <2>2, <2>3, <2>6, <2>7 DEF t
<1> QED BY <1>1, <1>2, <1>3

-----------------------------------------------------------------------------
(* FlattenSeq *)

\* f flattens ss, step by step.
Flattens(T, ss, f) ==
    /\ f \in [1..Len(ss) -> Seq(T)]
    /\ f[1] = ss[1]
    /\ \A k \in 2..Len(ss) : f[k] = f[k - 1] \o ss[k]
    /\ FlattenSeq(ss) = f[Len(ss)]

\* The recursion of FlattenSeq defines a function.
LEMMA FlattenExists ==
    ASSUME NEW T, NEW ss \in Seq(Seq(T)), ss # <<>>
    PROVE  \E f : Flattens(T, ss, f)
<1>1. PICK n \in Nat \ {0} : n = Len(ss)
  OBVIOUS
<1> DEFINE step == [p \in (1..(n - 1)) \X Seq(T) |-> p[2] \o ss[p[1] + 1]]
           F(f) == [i \in 1..n |-> IF i = 1 THEN ss[i] ELSE f[i - 1] \o ss[i]]
           flatten == CHOOSE f : f = F(f)
<1>2. \A k \in 1..n : ss[k] \in Seq(T)
  BY <1>1
<1>3. Steps(n - 1, Seq(T), ss[1], step)
  <2>1. \A p \in (1..(n - 1)) \X Seq(T) : p[2] \o ss[p[1] + 1] \in Seq(T)
    BY <1>2
  <2>2. n - 1 \in Nat /\ ss[1] \in Seq(T)
    BY <1>2
  <2>3. step \in [(1..(n - 1)) \X Seq(T) -> Seq(T)]
    BY <2>1
  <2> HIDE DEF step
  <2> QED BY <2>2, <2>3 DEF Steps
<1>4. PICK g : Goes(n - 1, Seq(T), ss[1], step, g)
  <2> HIDE DEF step
  <2> QED BY <1>3, Recursion
<1> DEFINE f == [i \in 1..n |-> g[i - 1]]
<1>5. f \in [1..n -> Seq(T)] /\ f[1] = ss[1]
  BY <1>4 DEF Goes
<1>6. ASSUME NEW k \in 2..n PROVE f[k] = f[k - 1] \o ss[k]
  <2>1. k - 1 \in 1..(n - 1) /\ k - 2 \in 0..(n - 1) /\ k \in 1..n /\ k - 1 \in 1..n
        /\ (k - 1) - 1 = k - 2 /\ (k - 1) + 1 = k
    OBVIOUS
  <2>2. f[k] = g[k - 1] /\ f[k - 1] = g[k - 2]
    BY <2>1
  <2>3. g[k - 2] \in Seq(T) /\ g[k - 1] = step[<<k - 1, g[k - 2]>>]
    <3> HIDE DEF step
    <3> QED BY <1>4, <2>1 DEF Goes
  <2>4. step[<<k - 1, g[k - 2]>>] = g[k - 2] \o ss[k]
    BY <2>1, <2>3
  <2> HIDE DEF f, step
  <2> QED BY <2>2, <2>3, <2>4
<1>7. f = F(f)
  <2>1. ASSUME NEW i \in 1..n
        PROVE  f[i] = IF i = 1 THEN ss[i] ELSE f[i - 1] \o ss[i]
    <3> HIDE DEF f
    <3>1. i # 1 => i \in 2..n
      OBVIOUS
    <3> QED BY <1>5, <1>6, <3>1
  <2>2. f = [i \in 1..n |-> f[i]]
    OBVIOUS
  <2> HIDE DEF f
  <2> QED BY <2>1, <2>2
<1>8. flatten = F(flatten)
  <2> HIDE DEF F, f
  <2> QED BY <1>7
<1>9. /\ flatten \in [1..n -> Seq(T)]
      /\ flatten[1] = ss[1]
      /\ \A k \in 2..n : flatten[k] = flatten[k - 1] \o ss[k]
  <2>1. \A i \in 1..n :
          flatten[i] = IF i = 1 THEN ss[i] ELSE flatten[i - 1] \o ss[i]
    <3> HIDE DEF flatten
    <3> QED BY <1>8
  <2> DEFINE S == {k \in 0..(n - 1) : flatten[k + 1] = f[k + 1]}
  <2>2. 0 \in S
    <3> HIDE DEF flatten, f
    <3> QED BY <1>5, <2>1
  <2>3. ASSUME NEW k \in 1..(n - 1), k - 1 \in S PROVE k \in S
    <3>1. k + 1 \in 2..n /\ (k + 1) - 1 = k /\ (k - 1) + 1 = k /\ k + 1 # 1
          /\ k + 1 \in 1..n
      OBVIOUS
    <3> HIDE DEF flatten, f
    <3>2. flatten[k] = f[k]
      BY <2>3, <3>1
    <3>3. flatten[k + 1] = flatten[k] \o ss[k + 1]
      BY <2>1, <3>1
    <3>4. f[k + 1] = f[k] \o ss[k + 1]
      BY <1>6, <3>1
    <3>5. flatten[k + 1] = f[k + 1]
      BY <3>2, <3>3, <3>4
    <3> QED BY <3>5
  <2>4. \A k \in 0..(n - 1) : k \in S
    <3>1. n - 1 \in Nat
      OBVIOUS
    <3> HIDE DEF S
    <3> QED BY <2>2, <2>3, <3>1, SetInductionTo
  <2>5. \A k \in 1..n : flatten[k] = f[k]
    <3> HIDE DEF flatten, f
    <3> SUFFICES ASSUME NEW k \in 1..n PROVE flatten[k] = f[k]
      OBVIOUS
    <3>1. k - 1 \in 0..(n - 1) /\ (k - 1) + 1 = k
      OBVIOUS
    <3> QED BY <2>4, <3>1
  <2>6. flatten = [k \in 1..n |-> flatten[k]]
    <3> HIDE DEF flatten
    <3> QED BY <1>8
  <2>7. \A k \in 2..n : k \in 1..n /\ k - 1 \in 1..n
    OBVIOUS
  <2> HIDE DEF flatten, f
  <2> QED BY <1>5, <1>6, <2>5, <2>6, <2>7
<1>10. FlattenSeq(ss) = flatten[n]
  BY <1>1 DEF FlattenSeq
<1> HIDE DEF flatten
<1> QED BY <1>1, <1>9, <1>10 DEF Flattens

\* FlattenSeq concatenates the sequences one after the other.
LEMMA FlattenFacts ==
    ASSUME NEW T
    PROVE  /\ FlattenSeq(<<>>) = <<>>
           /\ \A ss \in Seq(Seq(T)) : FlattenSeq(ss) \in Seq(T)
           /\ \A ss \in Seq(Seq(T)), s \in Seq(T) :
                FlattenSeq(Append(ss, s)) = FlattenSeq(ss) \o s
<1>1. FlattenSeq(<<>>) = <<>>
  BY DEF FlattenSeq
<1>2. ASSUME NEW ss \in Seq(Seq(T)) PROVE FlattenSeq(ss) \in Seq(T)
  <2>1. CASE ss = <<>>
    <3>1. <<>> \in Seq(T)
      OBVIOUS
    <3> QED BY <1>1, <2>1, <3>1
  <2>2. CASE ss # <<>>
    <3>1. PICK f : Flattens(T, ss, f)
      BY <2>2, FlattenExists
    <3>2. Len(ss) \in 1..Len(ss)
      BY <2>2
    <3> QED BY <3>1, <3>2 DEF Flattens
  <2> QED BY <2>1, <2>2
<1>3. ASSUME NEW ss \in Seq(Seq(T)), NEW s \in Seq(T)
      PROVE  FlattenSeq(Append(ss, s)) = FlattenSeq(ss) \o s
  <2>0. PICK n \in Nat : n = Len(ss)
    OBVIOUS
  <2> DEFINE tt == Append(ss, s)
  <2>1. tt \in Seq(Seq(T)) /\ Len(tt) = n + 1 /\ tt[n + 1] = s /\ tt # <<>>
        /\ \A k \in 1..n : tt[k] = ss[k]
    BY <2>0
  <2> HIDE DEF tt
  <2>2. PICK g : /\ g \in [1..(n + 1) -> Seq(T)]
                 /\ g[1] = tt[1]
                 /\ \A k \in 2..(n + 1) : g[k] = g[k - 1] \o tt[k]
                 /\ FlattenSeq(tt) = g[n + 1]
    <3>1. PICK g : Flattens(T, tt, g)
      BY <2>1, FlattenExists
    <3> QED BY <2>1, <3>1 DEF Flattens
  <2>3. CASE n = 0
    <3>1. ss = <<>>
      BY <2>0, <2>3, EmptySeq
    <3>2. FlattenSeq(tt) = s
      BY <2>1, <2>2, <2>3
    <3> QED BY <1>1, <3>1, <3>2 DEF tt
  <2>4. CASE n # 0
    <3>1. PICK f : /\ f \in [1..n -> Seq(T)]
                   /\ f[1] = ss[1]
                   /\ \A k \in 2..n : f[k] = f[k - 1] \o ss[k]
                   /\ FlattenSeq(ss) = f[n]
      <4>1. ss # <<>>
        BY <2>0, <2>4
      <4>2. PICK f : Flattens(T, ss, f)
        BY <4>1, FlattenExists
      <4> QED BY <2>0, <4>2 DEF Flattens
    <3> DEFINE S == {k \in 0..(n - 1) : g[k + 1] = f[k + 1]}
    <3>2. 0 \in S
      BY <2>1, <2>2, <2>4, <3>1
    <3>3. ASSUME NEW k \in 1..(n - 1), k - 1 \in S PROVE k \in S
      <4>1. k + 1 \in 2..n /\ (k + 1) - 1 = k /\ (k - 1) + 1 = k
            /\ k + 1 \in 2..(n + 1) /\ k + 1 \in 1..n
        OBVIOUS
      <4>2. g[k] = f[k]
        BY <3>3, <4>1
      <4>3. f[k + 1] = f[k] \o ss[k + 1]
        BY <3>1, <4>1
      <4>4. g[k + 1] = g[k] \o tt[k + 1]
        BY <2>2, <4>1
      <4>5. tt[k + 1] = ss[k + 1]
        BY <2>1, <4>1
      <4>6. g[k + 1] = f[k + 1]
        BY <4>2, <4>3, <4>4, <4>5
      <4> QED BY <4>6
    <3>4. n - 1 \in S
      <4>1. n - 1 \in Nat
        BY <2>4
      <4>2. \A k \in 0..(n - 1) : k \in S
        <5> HIDE DEF S
        <5> QED BY <3>2, <3>3, <4>1, SetInductionTo
      <4> HIDE DEF S
      <4> QED BY <4>1, <4>2
    <3>5. g[n] = f[n]
      <4>1. (n - 1) + 1 = n
        OBVIOUS
      <4> QED BY <3>4, <4>1
    <3>6. g[n + 1] = g[n] \o s
      <4>1. n + 1 \in 2..(n + 1) /\ (n + 1) - 1 = n
        BY <2>4
      <4> QED BY <2>1, <2>2, <4>1
    <3> QED BY <2>2, <3>1, <3>5, <3>6 DEF tt
  <2> QED BY <2>3, <2>4
<1> QED BY <1>1, <1>2, <1>3

\* A list with an element more, after another list.
LEMMA ConcatAppend ==
    ASSUME NEW U, NEW a \in Seq(U), NEW b \in Seq(U), NEW x \in U
    PROVE  a \o Append(b, x) = Append(a \o b, x) /\ a \o b \in Seq(U)
OBVIOUS

\* Two lists of sequences may be flattened apart, if they may be without the
\* last sequence.
LEMMA FlattenOneMore ==
    ASSUME NEW T, NEW ss \in Seq(Seq(T)), NEW u \in Seq(Seq(T)), NEW x \in Seq(T),
           FlattenSeq(ss \o u) = FlattenSeq(ss) \o FlattenSeq(u)
    PROVE  FlattenSeq(ss \o Append(u, x)) = FlattenSeq(ss) \o FlattenSeq(Append(u, x))
<1>1. ss \o Append(u, x) = Append(ss \o u, x) /\ ss \o u \in Seq(Seq(T))
  BY ConcatAppend
<1>2. PICK f, g : f = FlattenSeq(ss) /\ g = FlattenSeq(u)
  OBVIOUS
<1>3. f \in Seq(T) /\ g \in Seq(T)
  BY <1>2, FlattenFacts
<1>4. FlattenSeq(Append(ss \o u, x)) = FlattenSeq(ss \o u) \o x
  BY <1>1, FlattenFacts
<1>5. FlattenSeq(Append(u, x)) = g \o x
  BY <1>2, FlattenFacts
<1>6. (f \o g) \o x = f \o (g \o x)
  <2>1. \A a, b, c \in Seq(T) : (a \o b) \o c = a \o (b \o c)
    BY ConcatAssociative, SMTT(30)
  <2> QED BY <1>3, <2>1, SMTT(30)
<1> QED BY <1>1, <1>2, <1>4, <1>5, <1>6

\* Two lists of sequences may be flattened apart.
LEMMA FlattenConcat ==
    ASSUME NEW T, NEW ss \in Seq(Seq(T)), NEW tt \in Seq(Seq(T))
    PROVE  FlattenSeq(ss \o tt) = FlattenSeq(ss) \o FlattenSeq(tt)
<1>0. PICK n \in Nat : n = Len(tt)
  OBVIOUS
<1> DEFINE t(k) == SubSeq(tt, 1, k)
           S == {k \in 0..n : FlattenSeq(ss \o t(k)) = FlattenSeq(ss) \o FlattenSeq(t(k))}
<1>1. \A k \in 0..n : t(k) \in Seq(Seq(T)) /\ Len(t(k)) = k
  BY <1>0
<1>2. FlattenSeq(ss) \in Seq(T)
  BY FlattenFacts
<1>3. 0 \in S
  <2>1. t(0) = <<>> /\ ss \o <<>> = ss /\ FlattenSeq(ss) \o <<>> = FlattenSeq(ss)
    BY <1>1, <1>2
  <2>2. FlattenSeq(<<>>) = <<>>
    BY FlattenFacts
  <2> HIDE DEF t
  <2>3. FlattenSeq(ss \o t(0)) = FlattenSeq(ss) \o FlattenSeq(t(0))
    BY <2>1, <2>2
  <2> QED BY <2>3
<1>4. ASSUME NEW k \in 1..n, k - 1 \in S PROVE k \in S
  <2> DEFINE u == t(k - 1)
  <2>1. u \in Seq(Seq(T)) /\ tt[k] \in Seq(T) /\ t(k) = Append(u, tt[k])
    BY <1>0
  <2> HIDE DEF u, t
  <2>2. FlattenSeq(ss \o u) = FlattenSeq(ss) \o FlattenSeq(u)
    BY <1>4 DEF u
  <2>7. FlattenSeq(ss \o t(k)) = FlattenSeq(ss) \o FlattenSeq(t(k))
    <3>1. PICK v \in Seq(Seq(T)) : v = u
      BY <2>1
    <3>2. PICK x \in Seq(T) : x = tt[k]
      BY <2>1
    <3>3. FlattenSeq(ss \o v) = FlattenSeq(ss) \o FlattenSeq(v)
      BY <2>2, <3>1
    <3>4. FlattenSeq(ss \o Append(v, x)) = FlattenSeq(ss) \o FlattenSeq(Append(v, x))
      BY <3>3, FlattenOneMore
    <3> QED BY <2>1, <3>1, <3>2, <3>4
  <2> QED BY <2>7
<1>5. n \in S
  <2> HIDE DEF S
  <2>1. \A k \in 0..n : k \in S
    BY <1>3, <1>4, SetInductionTo
  <2> QED BY <2>1
<1>6. t(n) = tt
  BY <1>0
<1> HIDE DEF t
<1> QED BY <1>5, <1>6

\* Flattening sequences of one element gives the elements.
LEMMA FlattenSingles ==
    ASSUME NEW T, NEW s \in Seq(T)
    PROVE  FlattenSeq([k \in DOMAIN s |-> <<s[k]>>]) = s
<1>0. PICK n \in Nat : n = Len(s)
  OBVIOUS
<1> DEFINE t(m) == SubSeq(s, 1, m)
           u(m) == [k \in 1..m |-> <<s[k]>>]
           S == {m \in 0..n : FlattenSeq(u(m)) = t(m)}
<1>1. 0 \in S
  <2>1. u(0) = <<>> /\ t(0) = <<>>
    OBVIOUS
  <2> HIDE DEF u, t
  <2>2. FlattenSeq(u(0)) = t(0)
    BY <2>1, FlattenFacts
  <2> QED BY <2>2
<1>2. ASSUME NEW m \in 1..n, m - 1 \in S PROVE m \in S
  <2>1. s[m] \in T /\ <<s[m]>> \in Seq(T)
    BY <1>0
  <2>2. u(m - 1) \in Seq(Seq(T)) /\ u(m) = Append(u(m - 1), <<s[m]>>)
    <3>1. \A k \in 1..n : <<s[k]>> \in Seq(T)
      BY <1>0
    <3>2. u(m - 1) \in Seq(Seq(T)) /\ Len(u(m - 1)) = m - 1
      BY <3>1
    <3>3. u(m) \in Seq(Seq(T)) /\ Len(u(m)) = m
      BY <3>1
    <3> QED BY <2>1, <3>2, <3>3
  <2>3. t(m) = t(m - 1) \o <<s[m]>>
    BY <1>0
  <2>4. FlattenSeq(u(m - 1)) = t(m - 1)
    BY <1>2
  <2> HIDE DEF u, t
  <2>5. FlattenSeq(u(m)) = FlattenSeq(u(m - 1)) \o <<s[m]>>
    BY <2>1, <2>2, FlattenFacts
  <2>6. FlattenSeq(u(m)) = t(m)
    BY <2>3, <2>4, <2>5
  <2> QED BY <2>6
<1>3. n \in S
  <2> HIDE DEF S
  <2>1. \A m \in 0..n : m \in S
    BY <1>1, <1>2, SetInductionTo
  <2> QED BY <2>1
<1>4. u(n) = [k \in DOMAIN s |-> <<s[k]>>] /\ t(n) = s
  BY <1>0
<1> HIDE DEF u, t
<1> QED BY <1>3, <1>4

-----------------------------------------------------------------------------
(* Sorting *)

\* R orders S.
IsOrder(R, S) ==
    /\ \A x \in S : <<x, x>> \notin R
    /\ \A x, y \in S : x # y => <<x, y>> \in R \/ <<y, x>> \in R
    /\ \A x, y, z \in S : <<x, y>> \in R /\ <<y, z>> \in R => <<x, z>> \in R

Below(R, S, x) == {y \in S : <<y, x>> \in R}
Rank(R, S, x) == Cardinality(Below(R, S, x))

\* What comes before an element in a strict order has a smaller rank.
LEMMA RankOrders ==
    ASSUME NEW S, IsFiniteSet(S), NEW R, IsOrder(R, S), NEW x \in S
    PROVE  /\ Rank(R, S, x) \in 0..(Cardinality(S) - 1)
           /\ \A y \in S : <<x, y>> \in R => Rank(R, S, x) < Rank(R, S, y)
<1>1. \A y \in S : Below(R, S, y) \subseteq S /\ IsFiniteSet(Below(R, S, y))
  BY FS_Subset DEF Below
<1>2. \A y \in S : Rank(R, S, y) \in Nat
  BY <1>1, FS_CardinalityType DEF Rank
<1>3. Cardinality(S) \in Nat
  BY FS_CardinalityType
<1>4. Below(R, S, x) # S
  BY DEF Below, IsOrder
<1>5. Rank(R, S, x) <= Cardinality(S) /\ Rank(R, S, x) # Cardinality(S)
  BY <1>1, <1>4, FS_Subset DEF Rank
<1>6. ASSUME NEW y \in S, <<x, y>> \in R
      PROVE  Rank(R, S, x) < Rank(R, S, y)
  <2>1. Below(R, S, x) \in SUBSET Below(R, S, y)
    BY <1>6 DEF Below, IsOrder
  <2>2. x \in Below(R, S, y) /\ x \notin Below(R, S, x)
    BY <1>6 DEF Below, IsOrder
  <2>3. Rank(R, S, x) <= Rank(R, S, y) /\ Rank(R, S, x) # Rank(R, S, y)
    BY <1>1, <2>1, <2>2, FS_Subset DEF Rank
  <2> QED BY <1>2, <2>3
<1> QED BY <1>2, <1>3, <1>5, <1>6

\* Every rank below the size of the set is that of an element.
LEMMA RankReaches ==
    ASSUME NEW S, IsFiniteSet(S), NEW R, IsOrder(R, S),
           NEW i \in 1..Cardinality(S)
    PROVE  \E x \in S : Rank(R, S, x) = i - 1
<1> DEFINE n == Cardinality(S)
           T == 1..n
           f == [x \in S |-> Rank(R, S, x) + 1]
<1>1. n \in Nat
  BY FS_CardinalityType
<1>2. f \in [S -> T]
  BY <1>1, RankOrders
<1>3. \A x, y \in S : f[x] = f[y] => x = y
  <2> SUFFICES ASSUME NEW x \in S, NEW y \in S, f[x] = f[y], x # y PROVE FALSE
    OBVIOUS
  <2>1. <<x, y>> \in R \/ <<y, x>> \in R
    BY DEF IsOrder
  <2>2. Rank(R, S, x) \in Int /\ Rank(R, S, y) \in Int
        /\ (Rank(R, S, x) < Rank(R, S, y) \/ Rank(R, S, y) < Rank(R, S, x))
    BY <1>1, <2>1, RankOrders
  <2> QED BY <2>2
<1>4. IsFiniteSet(T) /\ Cardinality(T) = n
  BY <1>1, FS_Interval
<1>5. f \in Injection(S, T)
  BY <1>2, <1>3 DEF Injection, IsInjective
<1>6. f \in Surjection(S, T)
  <2> HIDE DEF f, T
  <2> QED BY <1>4, <1>5, FS_Injection
<1>7. PICK x \in S : f[x] = i
  BY <1>6 DEF Surjection
<1>8. Rank(R, S, x) \in Int
  BY <1>1, RankOrders
<1> QED BY <1>7, <1>8

\* s lists S in the order R.
Lists(s, R, S) ==
    /\ s \in Seq(S) /\ Len(s) = Cardinality(S)
    /\ \A i, j \in 1..Len(s) : i < j <=> <<s[i], s[j]>> \in R
    /\ \A x \in S : \E i \in 1..Len(s) : s[i] = x

\* A list with every element at its rank lists the set in order.
LEMMA RankedLists ==
    ASSUME NEW S, IsFiniteSet(S), NEW R, IsOrder(R, S),
           NEW s, s \in [1..Cardinality(S) -> S],
           \A i \in 1..Cardinality(S) : Rank(R, S, s[i]) = i - 1
    PROVE  Lists(s, R, S)
<1> DEFINE n == Cardinality(S)
<1>1. n \in Nat
  BY FS_CardinalityType
<1>2. s \in Seq(S) /\ Len(s) = n
  BY <1>1
<1>3. ASSUME NEW i \in 1..n, NEW j \in 1..n
      PROVE  i < j <=> <<s[i], s[j]>> \in R
  <2>1. s[i] \in S /\ s[j] \in S
    OBVIOUS
  <2>2. Rank(R, S, s[i]) = i - 1 /\ Rank(R, S, s[j]) = j - 1
    OBVIOUS
  <2>3. <<s[i], s[j]>> \in R => i - 1 < j - 1
    BY <2>1, <2>2, RankOrders
  <2>4. <<s[j], s[i]>> \in R => j - 1 < i - 1
    BY <2>1, <2>2, RankOrders
  <2>5. s[i] = s[j] => i = j
    BY <2>2
  <2>6. s[i] # s[j] => <<s[i], s[j]>> \in R \/ <<s[j], s[i]>> \in R
    BY <2>1 DEF IsOrder
  <2> QED BY <1>1, <2>3, <2>4, <2>5, <2>6
<1>4. ASSUME NEW x \in S PROVE \E i \in 1..n : s[i] = x
  <2> DEFINE i == Rank(R, S, x) + 1
  <2>1. i \in 1..n
    BY <1>1, RankOrders
  <2>2. s[i] \in S /\ Rank(R, S, s[i]) = Rank(R, S, x)
    BY <1>1, <2>1, RankOrders
  <2>3. Rank(R, S, x) \in Int
    BY <1>1, RankOrders
  <2>4. ~(<<s[i], x>> \in R) /\ ~(<<x, s[i]>> \in R)
    <3>1. <<s[i], x>> \in R => Rank(R, S, s[i]) < Rank(R, S, x)
      BY <2>2, RankOrders
    <3>2. <<x, s[i]>> \in R => Rank(R, S, x) < Rank(R, S, s[i])
      BY <2>2, RankOrders
    <3> HIDE DEF i
    <3> QED BY <2>2, <2>3, <3>1, <3>2
  <2>5. s[i] = x
    BY <2>2, <2>4 DEF IsOrder
  <2> QED BY <2>1, <2>5
<1> QED BY <1>2, <1>3, <1>4 DEF Lists

\* What Sorted makes of S when R is the order.
ListedBy(R, S) ==
    LET ranked == {<<x, Rank(R, S, x)>> : x \in S}
    IN [i \in 1..Cardinality(S) |-> (CHOOSE p \in ranked : p[2] = i - 1)[1]]

\* So does what Sorted returns.
LEMMA SortedLists ==
    ASSUME NEW S, IsFiniteSet(S), NEW R, IsOrder(R, S)
    PROVE  Lists(ListedBy(R, S), R, S)
<1> DEFINE ranked == {<<x, Rank(R, S, x)>> : x \in S}
           s == ListedBy(R, S)
<1>1. s = [i \in 1..Cardinality(S) |-> (CHOOSE p \in ranked : p[2] = i - 1)[1]]
  BY DEF ListedBy
<1>2. ASSUME NEW i \in 1..Cardinality(S)
      PROVE  s[i] \in S /\ Rank(R, S, s[i]) = i - 1
  <2> DEFINE q == CHOOSE p \in ranked : p[2] = i - 1
  <2>1. PICK x \in S : Rank(R, S, x) = i - 1
    BY RankReaches
  <2>2. <<x, Rank(R, S, x)>> \in ranked /\ <<x, Rank(R, S, x)>>[2] = Rank(R, S, x)
    OBVIOUS
  <2>3. q \in ranked /\ q[2] = i - 1
    <3> HIDE DEF ranked
    <3> QED BY <2>1, <2>2
  <2>4. \E y \in S : q = <<y, Rank(R, S, y)>>
    BY <2>3
  <2>5. s[i] = q[1]
    BY <1>1
  <2> HIDE DEF q, s
  <2> QED BY <2>3, <2>4, <2>5
<1>3. s \in [1..Cardinality(S) -> S]
  <2>1. s = [i \in 1..Cardinality(S) |-> s[i]]
    BY <1>1
  <2> HIDE DEF s
  <2> QED BY <1>2, <2>1
<1>4. Lists(s, R, S)
  <2> HIDE DEF s
  <2> QED BY <1>2, <1>3, RankedLists
<1> QED BY <1>4

-----------------------------------------------------------------------------
(* Pick *)

\* The numbers of a finite set in their order.
LEMMA NumbersInOrder ==
    ASSUME NEW n \in Nat, NEW I \in SUBSET (1..n)
    PROVE  LET f == Ascending(I) IN
           /\ Cardinality(I) \in 0..n
           /\ f \in [1..Cardinality(I) -> I]
           /\ \A i, j \in 1..Cardinality(I) : i < j <=> f[i] < f[j]
           /\ \A x \in I : \E i \in 1..Cardinality(I) : f[i] = x
<1> DEFINE R == {z \in I \X I : z[1] < z[2]}
           f == Ascending(I)
           m == Cardinality(I)
<1>1. IsFiniteSet(I) /\ m \in 0..n
  <2>1. IsFiniteSet(1..n) /\ Cardinality(1..n) = n
    BY FS_Interval
  <2>2. IsFiniteSet(I) /\ m <= n
    BY <2>1, FS_Subset
  <2> QED BY <2>2, FS_CardinalityType
<1>2. \A x, y \in I : <<x, y>> \in R <=> x < y
  OBVIOUS
<1>3. IsOrder(R, I)
  BY <1>2 DEF IsOrder
<1>4. \A x \in I : Cardinality({y \in I : y < x}) = Rank(R, I, x)
  <2> SUFFICES ASSUME NEW x \in I PROVE {y \in I : y < x} = Below(R, I, x)
    BY DEF Rank
  <2> QED BY <1>2 DEF Below
<1>5. f = ListedBy(R, I)
  <2> DEFINE A == {<<x, Cardinality({y \in I : y < x})>> : x \in I}
             B == {<<x, Rank(R, I, x)>> : x \in I}
             g(T) == [i \in 1..m |-> (CHOOSE p \in T : p[2] = i - 1)[1]]
  <2>1. A = B
    BY <1>4
  <2>2. f = g(A)
    BY DEF Sorted, Ascending
  <2>3. ListedBy(R, I) = g(B)
    BY DEF ListedBy
  <2> HIDE DEF A, B, g
  <2> QED BY <2>1, <2>2, <2>3
<1>6. Lists(f, R, I)
  <2> HIDE DEF f, R
  <2> QED BY <1>1, <1>3, <1>5, SortedLists
<1>7. Len(f) = m /\ f \in [1..m -> I]
  BY <1>1, <1>6, LenProperties DEF Lists
<1>8. ASSUME NEW i \in 1..m, NEW j \in 1..m PROVE i < j <=> f[i] < f[j]
  <2>1. f[i] \in I /\ f[j] \in I
    BY <1>7
  <2>2. i < j <=> <<f[i], f[j]>> \in R
    BY <1>6, <1>7 DEF Lists
  <2> HIDE DEF f, R
  <2> QED BY <1>2, <2>1, <2>2
<1>9. \A x \in I : \E i \in 1..m : f[i] = x
  BY <1>6, <1>7 DEF Lists
<1> QED BY <1>1, <1>7, <1>8, <1>9

\* p has the elements of s at the m positions I, in their order; f says where
\* each was.
Picked(f, p, s, I, m) ==
    /\ f \in [1..m -> I]
    /\ \A i, j \in 1..m : i < j <=> f[i] < f[j]
    /\ \A x \in I : \E i \in 1..m : f[i] = x
    /\ \A i \in 1..m : p[i] = s[f[i]]

\* What Pick takes from a sequence, and where it was.
LEMMA PickFacts ==
    ASSUME NEW T, NEW s \in Seq(T), NEW I \in SUBSET (1..Len(s))
    PROVE  /\ Pick(s, I) \in Seq(T)
           /\ Cardinality(I) \in Nat /\ Len(Pick(s, I)) = Cardinality(I)
           /\ \E f : Picked(f, Pick(s, I), s, I, Cardinality(I))
<1> DEFINE f == Ascending(I)
           m == Cardinality(I)
<1>0. Len(s) \in Nat
  OBVIOUS
<1>1. /\ m \in 0..Len(s) /\ f \in [1..m -> I]
      /\ \A i, j \in 1..m : i < j <=> f[i] < f[j]
      /\ \A x \in I : \E i \in 1..m : f[i] = x
  BY <1>0, NumbersInOrder
<1>2. Pick(s, I) = [k \in 1..m |-> s[f[k]]]
  BY DEF Pick
<1> HIDE DEF f
<1>3. \A k \in 1..m : f[k] \in 1..Len(s) /\ s[f[k]] \in T
  <2>1. \A k \in 1..m : f[k] \in 1..Len(s)
    BY <1>1
  <2> QED BY <2>1, ElementOfSeq
<1>4. Pick(s, I) \in Seq(T) /\ Len(Pick(s, I)) = m
  BY <1>1, <1>2, <1>3
<1>5. Picked(f, Pick(s, I), s, I, m)
  BY <1>1, <1>2 DEF Picked
<1>6. m \in Nat
  BY <1>0, <1>1
<1> HIDE DEF m
<1> QED BY <1>4, <1>5, <1>6 DEF m

-----------------------------------------------------------------------------
(* First, and sequences without repetitions *)

\* s[:n] has the first elements of s, n of them if there are so many.
LEMMA FirstFacts ==
    ASSUME NEW T, NEW s \in Seq(T), NEW n \in Nat
    PROVE  /\ First(s, n) \in Seq(T)
           /\ Len(First(s, n)) = IF Len(s) <= n THEN Len(s) ELSE n
           /\ \A i \in 1..Len(First(s, n)) : i \in 1..Len(s) /\ First(s, n)[i] = s[i]
<1> DEFINE m == IF Len(s) <= n THEN Len(s) ELSE n
<1>1. PICK k \in Nat : k = Len(s)
  OBVIOUS
<1>2. m \in 0..k
  BY <1>1
<1>3. First(s, n) = SubSeq(s, 1, m)
  BY DEF First
<1> HIDE DEF m
<1>4. \A i \in 1..m : i \in 1..k /\ s[i] \in T
  BY <1>1, <1>2, ElementOfSeq
<1>5. m \in Int /\ 1 \in Int /\ m - 1 + 1 = m /\ (IF 1 <= m THEN m ELSE 0) = m
      /\ \A i \in 1..m : 1 + i - 1 = i
  BY <1>2
<1>6. SubSeq(s, 1, m) \in Seq(T) /\ Len(SubSeq(s, 1, m)) = m
  BY <1>4, <1>5, SubSeqProperties
<1>7. \A i \in 1..m : SubSeq(s, 1, m)[i] = s[i]
  BY <1>4, <1>5, SubSeqProperties
<1> QED BY <1>1, <1>3, <1>4, <1>6, <1>7 DEF m

Distinct(s) == \A i, j \in 1..Len(s) : s[i] = s[j] => i = j

\* A sequence without repetitions has as many elements as it is long.
LEMMA DistinctFacts ==
    ASSUME NEW T, NEW s \in Seq(T), Distinct(s)
    PROVE  /\ IsFiniteSet(ToSet(s)) /\ Cardinality(ToSet(s)) = Len(s)
           /\ ToSet(s) \subseteq T
<1>1. PICK n \in Nat : n = Len(s)
  OBVIOUS
<1>2. DOMAIN s = 1..n /\ s \in [1..n -> T]
  BY <1>1, LenProperties
<1>3. ToSet(s) = {s[i] : i \in 1..n}
  BY <1>2 DEF ToSet
<1>4. s \in Bijection(1..n, ToSet(s))
  <2>1. s \in [1..n -> ToSet(s)]
    BY <1>2, <1>3
  <2>2. IsInjective(s)
    BY <1>1, <1>2 DEF IsInjective, Distinct
  <2>3. \A x \in ToSet(s) : \E i \in 1..n : s[i] = x
    BY <1>3
  <2> QED BY <2>1, <2>2, <2>3 DEF Bijection, Injection, Surjection
<1>5. IsFiniteSet(1..n) /\ Cardinality(1..n) = n
  BY FS_Interval
<1>6. ExistsBijection(1..n, ToSet(s))
  BY <1>4 DEF ExistsBijection
<1>7. IsFiniteSet(ToSet(s)) /\ Cardinality(ToSet(s)) = n
  BY <1>5, <1>6, FS_Bijection
<1> QED BY <1>1, <1>2, <1>3, <1>7

\* Picking first occurrences only repeats nothing, and picking all of them
\* leaves nothing out.
LEMMA DistinctPick ==
    ASSUME NEW T, NEW s \in Seq(T), NEW I \in SUBSET NewAt(s)
    PROVE  /\ Pick(s, I) \in Seq(T) /\ Distinct(Pick(s, I))
           /\ \A x \in ToSet(Pick(s, I)) : \E i \in I : s[i] = x
           /\ I = NewAt(s) => ToSet(Pick(s, I)) = ToSet(s)
<1> DEFINE p == Pick(s, I)
<1>1. DOMAIN s = 1..Len(s) /\ Len(s) \in Nat
  OBVIOUS
<1>2. I \in SUBSET (1..Len(s))
  BY <1>1 DEF NewAt
<1>3. PICK n \in Nat : n = Cardinality(I)
  BY <1>2, PickFacts
<1>4. p \in Seq(T) /\ Len(p) = n
  BY <1>2, <1>3, PickFacts
<1>5. PICK f :
         /\ f \in [1..n -> I]
         /\ \A i, j \in 1..n : i < j <=> f[i] < f[j]
         /\ \A x \in I : \E i \in 1..n : f[i] = x
         /\ \A i \in 1..n : p[i] = s[f[i]]
  <2>1. PICK f : Picked(f, p, s, I, n)
    BY <1>2, <1>3, PickFacts
  <2> QED BY <2>1 DEF Picked
<1> HIDE DEF p
<1>6. ASSUME NEW i \in I, NEW j \in I, s[i] = s[j] PROVE i = j
  <2>1. i \in 1..Len(s) /\ j \in 1..Len(s)
    BY <1>2
  <2>2. (\A k \in 1..(i - 1) : s[k] # s[i]) /\ (\A k \in 1..(j - 1) : s[k] # s[j])
    BY DEF NewAt
  <2>3. ~(i < j) /\ ~(j < i)
    BY <1>6, <2>1, <2>2
  <2> QED BY <2>1, <2>3
<1>7. Distinct(p)
  <2> SUFFICES ASSUME NEW i \in 1..n, NEW j \in 1..n, p[i] = p[j] PROVE i = j
    BY <1>4 DEF Distinct
  <2>1. f[i] \in I /\ f[j] \in I /\ s[f[i]] = s[f[j]]
    BY <1>5
  <2>2. f[i] = f[j]
    BY <1>6, <2>1
  <2>3. f[i] \in Int
    <3>1. \A x \in I : x \in Int
      BY <1>2
    <3> QED BY <2>1, <3>1
  <2>4. ~(i < j) /\ ~(j < i)
    BY <1>5, <2>2, <2>3
  <2> QED BY <2>4
<1>8. ToSet(p) = {p[i] : i \in 1..n}
  BY <1>4 DEF ToSet
<1>9. \A x \in ToSet(p) : \E i \in I : s[i] = x
  BY <1>5, <1>8
<1>10. ASSUME I = NewAt(s), NEW x \in ToSet(s) PROVE x \in ToSet(p)
  <2> DEFINE K == {k \in 1..Len(s) : s[k] = x}
  <2>1. K \subseteq Nat /\ K # {}
    BY <1>1 DEF ToSet
  <2>2. PICK k \in K : \A l \in K : k <= l
    <3> HIDE DEF K
    <3> QED BY <2>1, MinFacts
  <2>3. k \in 1..Len(s) /\ s[k] = x
    OBVIOUS
  <2>4. \A j \in 1..(k - 1) : s[j] # s[k]
    <3> SUFFICES ASSUME NEW j \in 1..(k - 1), s[j] = s[k] PROVE FALSE
      OBVIOUS
    <3>1. j \in K /\ ~(k <= j)
      BY <1>1, <2>3
    <3> QED BY <2>2, <3>1
  <2>5. k \in I
    BY <1>1, <1>10, <2>3, <2>4 DEF NewAt
  <2>6. PICK i \in 1..n : f[i] = k
    BY <1>5, <2>5
  <2> QED BY <1>5, <1>8, <2>3, <2>6
<1>11. I = NewAt(s) => ToSet(p) = ToSet(s)
  <2>1. \A x \in ToSet(p) : x \in ToSet(s)
    <3> SUFFICES ASSUME NEW x \in ToSet(p) PROVE x \in ToSet(s)
      OBVIOUS
    <3>1. PICK i \in I : s[i] = x
      BY <1>9
    <3> QED BY <1>1, <1>2, <3>1 DEF ToSet
  <2> QED BY <1>10, <2>1
<1> QED BY <1>4, <1>7, <1>9, <1>11 DEF p

\* Some numbers up to n, and after them the others in order: each once.
LEMMA CompletedFacts ==
    ASSUME NEW n \in Nat, NEW s \in Seq(1..n), Distinct(s)
    PROVE  LET t == s \o Ascending((1..n) \ ToSet(s)) IN
           t \in Seq(1..n) /\ Len(t) = n /\ Distinct(t)
<1> DEFINE I == (1..n) \ ToSet(s)
           a == Ascending(I)
           t == s \o a
<1>1. PICK k \in Nat : k = Len(s)
  OBVIOUS
<1>2. ToSet(s) \subseteq 1..n /\ Cardinality(ToSet(s)) = k /\ IsFiniteSet(ToSet(s))
  BY <1>1, DistinctFacts
<1>3. Cardinality(I) = n - k
  <2>1. IsFiniteSet(1..n) /\ Cardinality(1..n) = n
    BY FS_Interval
  <2>2. Cardinality(I) = Cardinality(1..n) - Cardinality((1..n) \cap ToSet(s))
    BY <2>1, FS_Difference
  <2>3. (1..n) \cap ToSet(s) = ToSet(s)
    BY <1>2
  <2> QED BY <1>2, <2>1, <2>2, <2>3
<1>4. I \in SUBSET (1..n)
  OBVIOUS
<1>5. PICK l \in Nat : l = Cardinality(I)
  <2> HIDE DEF I
  <2> QED BY <1>4, NumbersInOrder
<1>6. a \in [1..l -> I] /\ \A i, j \in 1..l : i < j <=> a[i] < a[j]
  <2> HIDE DEF I
  <2> QED BY <1>4, <1>5, NumbersInOrder
<1>7. a \in Seq(1..n) /\ Len(a) = l
  <2>1. a \in [1..l -> 1..n]
    BY <1>4, <1>6
  <2> HIDE DEF a
  <2> QED BY <2>1
<1>8. \A i \in 1..l : a[i] \in I
  BY <1>6
<1> HIDE DEF a
<1>9. t \in Seq(1..n) /\ Len(t) = k + l /\ k + l = n
  BY <1>1, <1>3, <1>5, <1>7, ConcatProperties
<1>10. \A i \in 1..(k + l) : t[i] = IF i <= k THEN s[i] ELSE a[i - k]
  BY <1>1, <1>7, ConcatProperties
<1> HIDE DEF t
<1>11. \A i \in 1..k : s[i] \in ToSet(s)
  BY <1>1 DEF ToSet
<1>12. ASSUME NEW i \in 1..(k + l), NEW j \in 1..(k + l), i < j PROVE t[i] # t[j]
  <2>1. CASE j <= k
    <3>1. i \in 1..k /\ j \in 1..k /\ t[i] = s[i] /\ t[j] = s[j]
      BY <1>10, <1>12, <2>1
    <3> QED BY <1>1, <1>12, <3>1 DEF Distinct
  <2>2. CASE i <= k /\ ~(j <= k)
    <3>1. i \in 1..k /\ j - k \in 1..l /\ t[i] = s[i] /\ t[j] = a[j - k]
      BY <1>10, <2>2
    <3>2. s[i] \in ToSet(s) /\ a[j - k] \notin ToSet(s)
      BY <1>8, <1>11, <3>1
    <3> QED BY <3>1, <3>2
  <2>3. CASE ~(i <= k)
    <3>1. i - k \in 1..l /\ j - k \in 1..l /\ i - k < j - k
          /\ t[i] = a[i - k] /\ t[j] = a[j - k]
      BY <1>10, <1>12, <2>3
    <3>2. a[i - k] < a[j - k]
      BY <1>6, <3>1
    <3>3. a[i - k] \in Int
      BY <1>8, <3>1
    <3> QED BY <3>1, <3>2, <3>3
  <2> QED BY <2>1, <2>2, <2>3
<1>13. Distinct(t)
  <2> SUFFICES ASSUME NEW i \in 1..(k + l), NEW j \in 1..(k + l), t[i] = t[j] PROVE i = j
    BY <1>9 DEF Distinct
  <2>1. ~(i < j) /\ ~(j < i)
    BY <1>12
  <2> QED BY <2>1
<1> QED BY <1>9, <1>13 DEF t, a

-----------------------------------------------------------------------------
(* Numbers that go up, and first occurrences *)

\* Numbers that go up from 1 at least are no smaller than their places.
LEMMA GoingUp ==
    ASSUME NEW n \in Nat, NEW f, \A i \in 1..n : f[i] \in Nat \ {0},
           \A i, j \in 1..n : i < j => f[i] < f[j]
    PROVE  \A i \in 1..n : i <= f[i]
<1> DEFINE S == {i \in 0..n : i # 0 => i <= f[i]}
<1>1. 0 \in S
  OBVIOUS
<1>2. ASSUME NEW i \in 1..n, i - 1 \in S PROVE i \in S
  <2>1. CASE i = 1
    BY <2>1
  <2>2. CASE i # 1
    <3>1. i - 1 \in 1..n /\ i - 1 < i
      BY <2>2
    <3>2. f[i - 1] < f[i] /\ i - 1 <= f[i - 1] /\ f[i - 1] \in Nat /\ f[i] \in Nat
      BY <1>2, <3>1
    <3> QED BY <3>2
  <2> QED BY <2>1, <2>2
<1>3. \A i \in 0..n : i \in S
  <2> HIDE DEF S
  <2> QED BY <1>1, <1>2, SetInductionTo
<1> QED BY <1>3

\* Of the different elements of s, those among the first n are not left out by
\* a cut to n; and the cut leaves as many as there may be.
LEMMA FirstNew ==
    ASSUME NEW T, NEW s \in Seq(T), NEW n \in Nat
    PROVE  LET S == ToSet(First(Pick(s, NewAt(s)), n)) IN
           /\ S \subseteq ToSet(s) /\ IsFiniteSet(S)
           /\ \A p \in 1..Len(s) : p <= n => s[p] \in S
           /\ IsFiniteSet(ToSet(s))
           /\ Cardinality(S) = IF Cardinality(ToSet(s)) <= n
                               THEN Cardinality(ToSet(s)) ELSE n
<1>0. PICK I : I = NewAt(s)
  OBVIOUS
<1> DEFINE q == Pick(s, I)
           t == First(q, n)
<1>1. DOMAIN s = 1..Len(s) /\ Len(s) \in Nat
  OBVIOUS
<1>2. I \in SUBSET (1..Len(s))
  BY <1>0, <1>1 DEF NewAt
<1>3. q \in Seq(T) /\ Distinct(q) /\ ToSet(q) = ToSet(s)
  <2>1. I \in SUBSET NewAt(s)
    BY <1>0
  <2> QED BY <1>0, <2>1, DistinctPick
<1>12. PICK m \in Nat : m = Cardinality(I)
  BY <1>2, PickFacts
<1>4. m = Len(q)
  BY <1>12, <1>2, PickFacts
<1>5. PICK f :
         /\ f \in [1..m -> I]
         /\ \A i, j \in 1..m : i < j <=> f[i] < f[j]
         /\ \A x \in I : \E i \in 1..m : f[i] = x
         /\ \A i \in 1..m : q[i] = s[f[i]]
  <2>1. PICK f : Picked(f, q, s, I, m)
    BY <1>12, <1>2, PickFacts
  <2> QED BY <2>1 DEF Picked
<1> HIDE DEF q
<1>6. IsFiniteSet(ToSet(s)) /\ Cardinality(ToSet(s)) = m
  BY <1>3, <1>4, DistinctFacts
<1>7. /\ t \in Seq(T) /\ Len(t) = IF m <= n THEN m ELSE n
      /\ \A i \in 1..Len(t) : i \in 1..m /\ t[i] = q[i]
  BY <1>3, <1>4, FirstFacts
<1>8. Distinct(t)
  BY <1>3, <1>4, <1>7 DEF Distinct
<1> HIDE DEF t
<1>9. IsFiniteSet(ToSet(t)) /\ Cardinality(ToSet(t)) = Len(t)
  BY <1>7, <1>8, DistinctFacts
<1>10. ToSet(t) \subseteq ToSet(s)
  <2>1. ToSet(t) \subseteq ToSet(q)
    <3>1. DOMAIN t = 1..Len(t) /\ DOMAIN q = 1..m
      BY <1>3, <1>4, <1>7
    <3> QED BY <1>7, <3>1 DEF ToSet
  <2> QED BY <1>3, <2>1
<1>11. ASSUME NEW p \in 1..Len(s), p <= n PROVE s[p] \in ToSet(t)
  <2> DEFINE K == {k \in 1..Len(s) : s[k] = s[p]}
  <2>1. K \subseteq Nat /\ p \in K
    OBVIOUS
  <2>2. PICK k \in K : \A l \in K : k <= l
    <3> HIDE DEF K
    <3> QED BY <2>1, MinFacts
  <2>3. k \in 1..Len(s) /\ s[k] = s[p] /\ k <= p
    BY <2>1, <2>2
  <2>4. \A j \in 1..(k - 1) : s[j] # s[k]
    <3> SUFFICES ASSUME NEW j \in 1..(k - 1), s[j] = s[k] PROVE FALSE
      OBVIOUS
    <3>1. j \in K /\ ~(k <= j)
      BY <1>1, <2>3
    <3> QED BY <2>2, <3>1
  <2>5. k \in I
    BY <1>0, <1>1, <2>3, <2>4 DEF NewAt
  <2>6. PICK i \in 1..m : f[i] = k
    BY <1>5, <2>5
  <2>7. \A x \in I : x \in Nat \ {0}
    BY <1>2
  <2>8. \A j \in 1..m : f[j] \in Nat \ {0}
    BY <1>5, <2>7
  <2>9. i <= k
    <3>1. \A a, b \in 1..m : a < b => f[a] < f[b]
      BY <1>5
    <3> QED BY <2>6, <2>8, <3>1, GoingUp
  <2>10. i \in 1..Len(t)
    BY <1>7, <1>11, <2>3, <2>9
  <2>11. t[i] = s[p]
    BY <1>5, <1>7, <2>3, <2>6, <2>10
  <2> QED BY <1>7, <2>10, <2>11 DEF ToSet
<1> QED BY <1>0, <1>6, <1>7, <1>9, <1>10, <1>11 DEF t, q
=============================================================================
