----------------------------- MODULE ListProofs -----------------------------
(***************************************************************************)
(* Facts about the operators of Lists, and about the sums over finite sets *)
(* of the community modules.  Induction is used in its set forms: a set    *)
(* that contains 0 and is closed under successor contains every natural    *)
(* number (NatInductionSet), and a set that contains {} and is closed      *)
(* under one more element contains every finite set (AddOneInduction).     *)
(***************************************************************************)
EXTENDS Lists, FiniteSetTheorems, SequenceTheorems, WellFoundedInduction, TLAPS

\* Every nonempty set of natural numbers has a least element.
LEMMA LeastElement ==
    ASSUME NEW T, T \subseteq Nat, T # {}
    PROVE  \E x \in T : \A y \in T : x <= y
<1>1. IsWellFoundedOn(OpToRel(<, Nat), Nat)
  BY NatLessThanWellFounded
<1>2. PICK x \in T : \A y \in T : ~(<<y, x>> \in OpToRel(<, Nat))
  BY <1>1, WFMin
<1>3. \A y \in T : ~(y < x)
  BY <1>2 DEF OpToRel
<1> QED
  BY <1>3

\* Induction, for a property given as the set of the numbers that have it.
LEMMA NatInductionSet ==
    ASSUME NEW S, 0 \in S, \A n \in Nat : n \in S => n + 1 \in S
    PROVE  Nat \subseteq S
<1> DEFINE T == Nat \ S
<1>1. SUFFICES ASSUME T # {} PROVE FALSE
  OBVIOUS
<1>2. PICK x \in T : \A y \in T : x <= y
  BY <1>1, LeastElement
<1>3. x # 0 /\ x - 1 \in Nat /\ ~(x - 1 \in T)
  BY <1>2
<1> QED
  BY <1>3

-----------------------------------------------------------------------------
(* SumOf.                                                                  *)

\* The partial sums of a sequence exist: SumOf is the last of them.
LEMMA PartialSums ==
    ASSUME NEW s \in Seq(Nat)
    PROVE  \E f \in [0..Len(s) -> Nat] :
               /\ f = [n \in 0..Len(s) |-> IF n = 0 THEN 0 ELSE f[n - 1] + s[n]]
               /\ SumOf(s) = f[Len(s)]
<1> DEFINE Sums(g, m) == /\ g \in [0..m -> Nat]
                         /\ g[0] = 0
                         /\ \A n \in 1..m : g[n] = g[n - 1] + s[n]
           Defined(m) == m <= Len(s) => \E g : Sums(g, m)
           IsUpTo(g) == g = [n \in 0..Len(s) |->
                                IF n = 0 THEN 0 ELSE g[n - 1] + s[n]]
           upTo == CHOOSE g : IsUpTo(g)
<1>1. \A m \in Nat : Defined(m)
  <2>1. Defined(0)
    <3>1. Sums([n \in 0..0 |-> 0], 0)
      OBVIOUS
    <3> QED
      BY <3>1
  <2>2. ASSUME NEW m \in Nat, Defined(m)
        PROVE  Defined(m + 1)
    <3>1. SUFFICES ASSUME m + 1 <= Len(s)
                   PROVE  \E g : Sums(g, m + 1)
      OBVIOUS
    <3>2. PICK g : Sums(g, m)
      <4> HIDE DEF Sums
      <4>1. m <= Len(s)
        BY <3>1
      <4> QED
        BY <2>2, <4>1
    <3> DEFINE h == [n \in 0..(m + 1) |-> IF n = m + 1 THEN g[m] + s[m + 1]
                                                       ELSE g[n]]
    <3>3. s[m + 1] \in Nat /\ g[m] \in Nat
      BY <3>1, <3>2
    <3>4. h \in [0..(m + 1) -> Nat]
      BY <3>2, <3>3
    <3>5. h[0] = 0 /\ h[m + 1] = h[m] + s[m + 1]
      BY <3>2
    <3>6. ASSUME NEW n \in 1..m
          PROVE  h[n] = h[n - 1] + s[n]
      BY <3>2
    <3>7. \A n \in 1..(m + 1) : h[n] = h[n - 1] + s[n]
      <4> HIDE DEF h
      <4> QED
        BY <3>5, <3>6
    <3> QED
      BY <3>4, <3>5, <3>7
  <2> HIDE DEF Defined
  <2> DEFINE Has == {m \in Nat : Defined(m)}
  <2>3. 0 \in Has /\ \A m \in Nat : m \in Has => m + 1 \in Has
    BY <2>1, <2>2
  <2>4. Nat \subseteq Has
    <3> HIDE DEF Has
    <3> QED
      BY <2>3, NatInductionSet
  <2> QED
    BY <2>4
<1>2. PICK g : Sums(g, Len(s))
  BY <1>1
<1>3. IsUpTo(g)
  BY <1>2
<1>4. IsUpTo(upTo)
  BY <1>3
<1> HIDE DEF upTo
<1>5. \A m \in 0..Len(s) : upTo[m] \in Nat
  <2> DEFINE Typed == {m \in Nat : m <= Len(s) => upTo[m] \in Nat}
  <2>1. 0 \in Typed
    BY <1>4
  <2>2. ASSUME NEW m \in Nat, m \in Typed
        PROVE  m + 1 \in Typed
    <3>1. SUFFICES ASSUME m + 1 <= Len(s) PROVE upTo[m + 1] \in Nat
      OBVIOUS
    <3>2. upTo[m + 1] = upTo[m] + s[m + 1]
      BY <1>4, <3>1
    <3>3. upTo[m] \in Nat /\ s[m + 1] \in Nat
      BY <2>2, <3>1
    <3> QED
      BY <3>2, <3>3
  <2>3. Nat \subseteq Typed
    <3> HIDE DEF Typed
    <3> QED
      BY <2>1, <2>2, NatInductionSet
  <2> QED
    BY <2>3
<1>6. SumOf(s) = upTo[Len(s)]
  BY DEF SumOf, upTo
<1>7. upTo \in [0..Len(s) -> Nat]
  BY <1>4, <1>5
<1> QED
  BY <1>4, <1>6, <1>7

\* A sum of natural numbers is a natural number.
LEMMA SumOfType ==
    ASSUME NEW s \in Seq(Nat)
    PROVE  SumOf(s) \in Nat
<1>1. PICK f \in [0..Len(s) -> Nat] : SumOf(s) = f[Len(s)]
  BY PartialSums
<1> QED
  BY <1>1

-----------------------------------------------------------------------------
(* Ascending.                                                              *)

\* Every finite set of natural numbers has an increasing enumeration.
LEMMA AscendingExists ==
    ASSUME NEW S \in SUBSET Nat, IsFiniteSet(S)
    PROVE  \E s \in [1..Cardinality(S) -> S] :
               \A i, j \in 1..Cardinality(S) : i < j => s[i] < s[j]
<1> DEFINE Inc(T, n) == \E s \in [1..n -> T] :
                            \A i, j \in 1..n : i < j => s[i] < s[j]
           Good(n) == \A T \in SUBSET Nat :
                          IsFiniteSet(T) /\ Cardinality(T) = n => Inc(T, n)
           Has == {n \in Nat : Good(n)}
<1>1. Good(0)
  <2>1. SUFFICES ASSUME NEW T \in SUBSET Nat
                 PROVE  Inc(T, 0)
    OBVIOUS
  <2> DEFINE s == [i \in 1..0 |-> 0]
  <2>2. s \in [1..0 -> T] /\ \A i, j \in 1..0 : i < j => s[i] < s[j]
    OBVIOUS
  <2> HIDE DEF s
  <2> QED
    BY <2>2
<1>2. ASSUME NEW n \in Nat, Good(n)
      PROVE  Good(n + 1)
  <2>1. SUFFICES ASSUME NEW T \in SUBSET Nat, IsFiniteSet(T),
                        Cardinality(T) = n + 1
                 PROVE  Inc(T, n + 1)
    OBVIOUS
  <2>2. T # {}
    BY <2>1, FS_EmptySet
  <2>3. PICK x \in T : \A y \in T : x <= y
    BY <2>2, LeastElement
  <2>4. IsFiniteSet(T \ {x}) /\ Cardinality(T \ {x}) = n
    <3>1. /\ IsFiniteSet(T \ {x})
          /\ Cardinality(T \ {x}) = Cardinality(T) - 1
      BY <2>1, FS_RemoveElement
    <3> QED
      BY <2>1, <3>1
  <2>5. PICK s \in [1..n -> T \ {x}] :
                 \A i, j \in 1..n : i < j => s[i] < s[j]
    BY <1>2, <2>4
  <2> DEFINE t == [i \in 1..(n + 1) |-> IF i = 1 THEN x ELSE s[i - 1]]
  <2>6. t \in [1..(n + 1) -> T]
    BY <2>5
  <2>7. ASSUME NEW i \in 1..(n + 1), NEW j \in 1..(n + 1), i < j
        PROVE  t[i] < t[j]
    <3>1. j - 1 \in 1..n /\ t[j] = s[j - 1]
      BY <2>7
    <3>2. s[j - 1] \in Nat /\ s[j - 1] # x /\ x <= s[j - 1]
      BY <2>3, <2>5, <3>1
    <3>3. CASE i = 1
      BY <2>3, <3>1, <3>2, <3>3
    <3>4. CASE i # 1
      <4>1. i - 1 \in 1..n /\ t[i] = s[i - 1] /\ i - 1 < j - 1
        BY <2>7, <3>4
      <4> QED
        BY <2>5, <3>1, <4>1
    <3> QED
      BY <3>3, <3>4
  <2> QED
    BY <2>6, <2>7
<1> HIDE DEF Good
<1>3. 0 \in Has /\ \A n \in Nat : n \in Has => n + 1 \in Has
  BY <1>1, <1>2
<1>4. Nat \subseteq Has
  <2> HIDE DEF Has
  <2> QED
    BY <1>3, NatInductionSet
<1>5. Cardinality(S) \in Nat
  BY FS_CardinalityType
<1>6. Good(Cardinality(S))
  BY <1>4, <1>5
<1> QED
  BY <1>6 DEF Good

\* Ascending(S) is a sequence of the elements of S, each of them once.
LEMMA AscendingProperties ==
    ASSUME NEW S \in SUBSET Nat, IsFiniteSet(S)
    PROVE  /\ Ascending(S) \in Seq(S)
           /\ \A i, j \in 1..Len(Ascending(S)) :
                  Ascending(S)[i] = Ascending(S)[j] => i = j
           /\ Range(Ascending(S)) = S
           /\ \A x \in S : \E i \in 1..Len(Ascending(S)) : Ascending(S)[i] = x
<1> DEFINE n == Cardinality(S)
           s == Ascending(S)
<1>1. n \in Nat
  BY FS_CardinalityType
<1>2. /\ s \in [1..n -> S]
      /\ \A i, j \in 1..n : i < j => s[i] < s[j]
  BY AscendingExists DEF Ascending
<1> HIDE DEF s
<1>3. s \in Seq(S) /\ Len(s) = n
  BY <1>1, <1>2, SeqDef
<1>4. \A i, j \in 1..n : s[i] = s[j] => i = j
  <2>1. \A i \in 1..n : s[i] \in Nat
    BY <1>2
  <2> QED
    BY <1>1, <1>2, <2>1
<1>5. s \in Surjection(1..n, S)
  <2>1. s \in Injection(1..n, S)
    BY <1>2, <1>4 DEF Injection, IsInjective
  <2>2. Cardinality(1..n) = n
    BY <1>1, FS_Interval
  <2> QED
    BY <2>1, <2>2, FS_Injection
<1>6. \A x \in S : \E i \in 1..n : s[i] = x
  BY <1>5 DEF Surjection
<1>7. Range(s) = S
  BY <1>2, <1>6 DEF Range
<1> QED
  BY <1>3, <1>4, <1>6, <1>7 DEF s

-----------------------------------------------------------------------------
(* RemoveId.                                                               *)

\* Removing an id from a duplicate-free list that holds it takes that id off
\* the list and nothing else.
LEMMA RemoveIdProperties ==
    ASSUME NEW S, NEW ids \in Seq(S), NEW x \in Range(ids),
           \A j, k \in 1..Len(ids) : ids[j] = ids[k] => j = k
    PROVE  /\ RemoveId(ids, x) \in Seq(S)
           /\ Len(RemoveId(ids, x)) = Len(ids) - 1
           /\ \A j, k \in 1..Len(RemoveId(ids, x)) :
                  RemoveId(ids, x)[j] = RemoveId(ids, x)[k] => j = k
           /\ Range(RemoveId(ids, x)) = Range(ids) \ {x}
<1> DEFINE pos == PositionOf(ids, x)
           n == Len(ids)
           rest == RemoveId(ids, x)
<1>1. n \in Nat /\ DOMAIN ids = 1..n /\ \A k \in 1..n : ids[k] \in S
  BY LenProperties, ElementOfSeq
<1>2. pos \in 1..n /\ ids[pos] = x
  <2>1. PICK k \in 1..n : ids[k] = x
    BY <1>1 DEF Range
  <2>2. \A j \in 1..(k - 1) : ids[j] # x
    BY <1>1, <2>1
  <2> QED
    BY <1>1, <2>1, <2>2 DEF PositionOf
<1> HIDE DEF pos
<1>3. rest = [k \in 1..(n - 1) |-> IF k < pos THEN ids[k] ELSE ids[k + 1]]
  BY DEF RemoveId, pos
<1> HIDE DEF rest
<1>4. rest \in [1..(n - 1) -> S]
  BY <1>1, <1>2, <1>3
<1>5. rest \in Seq(S) /\ Len(rest) = n - 1
  <2>1. n - 1 \in Nat
    BY <1>1, <1>2
  <2> QED
    BY <1>4, <2>1, SeqDef
<1>6. \A j, k \in 1..(n - 1) : rest[j] = rest[k] => j = k
  BY <1>1, <1>2, <1>3
<1>7. Range(rest) = Range(ids) \ {x}
  <2>1. Range(rest) = {rest[k] : k \in 1..(n - 1)}
    BY <1>4 DEF Range
  <2>2. Range(ids) = {ids[k] : k \in 1..n}
    BY <1>1 DEF Range
  <2>3. ASSUME NEW k \in 1..(n - 1)
        PROVE  rest[k] \in Range(ids) \ {x}
    BY <1>1, <1>2, <1>3, <2>2
  <2>4. ASSUME NEW k \in 1..n, k # pos
        PROVE  ids[k] \in Range(rest)
    <3>1. CASE k < pos
      BY <1>1, <1>2, <1>3, <2>1, <3>1
    <3>2. CASE k > pos
      <4>1. k - 1 \in 1..(n - 1) /\ rest[k - 1] = ids[k]
        BY <1>1, <1>2, <1>3, <3>2
      <4> QED
        BY <2>1, <4>1
    <3> QED
      BY <1>2, <2>4, <3>1, <3>2
  <2>5. Range(rest) \subseteq Range(ids) \ {x}
    BY <2>1, <2>3
  <2>6. Range(ids) \ {x} \subseteq Range(rest)
    BY <1>2, <2>2, <2>4
  <2> QED
    BY <2>5, <2>6
<1> QED
  BY <1>5, <1>6, <1>7 DEF rest

-----------------------------------------------------------------------------
(* SumFunctionOnSet, the sum of the values of a function over a finite set. *)

\* Induction over the subsets of a finite set, for a property given as the set
\* of the sets that have it.
LEMMA SubsetInduction ==
    ASSUME NEW S, IsFiniteSet(S), NEW Good,
           \A T \in SUBSET S :
               (\A U \in SUBSET T : U # T => U \in Good) => T \in Good
    PROVE  SUBSET S \subseteq Good
<1> DEFINE Bad == (SUBSET S) \ Good
<1>1. SUFFICES ASSUME Bad # {} PROVE FALSE
  OBVIOUS
<1>2. IsWellFoundedOn(StrictSubsetOrdering(S), FiniteSubsetsOf(S))
  BY FS_StrictSubsetOrderingWellFounded
<1>3. Bad \subseteq FiniteSubsetsOf(S)
  BY FS_Subset DEF FiniteSubsetsOf
<1>4. PICK T \in Bad : \A U \in Bad : ~(<<U, T>> \in StrictSubsetOrdering(S))
  <2> HIDE DEF Bad
  <2> QED
    BY <1>1, <1>2, <1>3, WFMin
<1>5. \A U \in SUBSET T : U # T => U \in Good
  BY <1>4 DEF StrictSubsetOrdering
<1> QED
  BY <1>4, <1>5

\* The element a fold takes off a set, and what it defines on the subsets of T.
Picked(s) == CHOOSE x \in s : TRUE

IsFold(g, f, T) ==
    g = [s \in SUBSET T |->
            IF s = {} THEN 0 ELSE f[Picked(s)] + g[s \ {Picked(s)}]]

\* A fold does not depend on the set whose subsets it is defined on.
LEMMA FoldUnique ==
    ASSUME NEW T, IsFiniteSet(T), NEW U, NEW f, NEW g, NEW h,
           IsFold(g, f, T), IsFold(h, f, U), NEW s \in SUBSET (T \cap U)
    PROVE  g[s] = h[s]
<1> DEFINE Same == {r \in SUBSET s : g[r] = h[r]}
<1>1. IsFiniteSet(s)
  BY FS_Subset
<1>2. ASSUME NEW r \in SUBSET s, \A q \in SUBSET r : q # r => q \in Same
      PROVE  r \in Same
  <2>1. CASE r = {}
    BY <2>1 DEF IsFold
  <2>2. CASE r # {}
    <3>1. Picked(r) \in r
      BY <2>2 DEF Picked
    <3>2. r \ {Picked(r)} \in Same
      BY <1>2, <3>1
    <3>3. g[r] = f[Picked(r)] + g[r \ {Picked(r)}]
      BY <2>2 DEF IsFold
    <3>4. h[r] = f[Picked(r)] + h[r \ {Picked(r)}]
      BY <2>2 DEF IsFold
    <3> QED
      BY <3>2, <3>3, <3>4
  <2> QED
    BY <2>1, <2>2
<1>3. SUBSET s \subseteq Same
  <2> HIDE DEF Same
  <2> QED
    BY <1>1, <1>2, SubsetInduction
<1> QED
  BY <1>3

\* There is a fold over the subsets of every finite set.
LEMMA FoldExists ==
    ASSUME NEW S, IsFiniteSet(S), NEW f
    PROVE  \E g : IsFold(g, f, S)
<1> DEFINE Has == {T \in SUBSET S : \E g : IsFold(g, f, T)}
           H(T) == CHOOSE h : IsFold(h, f, T)
<1>1. ASSUME NEW T \in SUBSET S, \A U \in SUBSET T : U # T => U \in Has
      PROVE  T \in Has
  <2> DEFINE g == [s \in SUBSET T |->
                      IF s = {} THEN 0
                      ELSE f[Picked(s)] + H(s \ {Picked(s)})[s \ {Picked(s)}]]
  <2>1. ASSUME NEW s \in SUBSET T, s # {}
        PROVE  H(s \ {Picked(s)})[s \ {Picked(s)}] = g[s \ {Picked(s)}]
    <3> DEFINE w == s \ {Picked(s)}
    <3>1. w \in SUBSET T /\ w # T /\ Picked(s) \in s
      BY <2>1 DEF Picked
    <3>2. IsFold(H(w), f, w)
      BY <1>1, <3>1
    <3>3. CASE w = {}
      BY <3>1, <3>2, <3>3 DEF IsFold
    <3>4. CASE w # {}
      <4> DEFINE q == w \ {Picked(w)}
      <4>1. Picked(w) \in w /\ q \in SUBSET T /\ q # T
        BY <3>1, <3>4 DEF Picked
      <4>2. IsFold(H(q), f, q)
        BY <1>1, <4>1
      <4>3. IsFiniteSet(w)
        BY <3>1, FS_Subset
      <4>4. H(w)[q] = H(q)[q]
        <5> HIDE DEF H
        <5> QED
          BY <3>2, <4>2, <4>3, FoldUnique
      <4>5. H(w)[w] = f[Picked(w)] + H(w)[q]
        BY <3>2, <3>4 DEF IsFold
      <4>6. g[w] = f[Picked(w)] + H(q)[q]
        BY <3>1, <3>4
      <4> QED
        BY <4>4, <4>5, <4>6
    <3> QED
      BY <3>3, <3>4
  <2>2. g = [s \in SUBSET T |->
                IF s = {} THEN 0 ELSE f[Picked(s)] + g[s \ {Picked(s)}]]
    <3> HIDE DEF H
    <3>1. \A s \in SUBSET T :
              g[s] = IF s = {} THEN 0 ELSE f[Picked(s)] + g[s \ {Picked(s)}]
      BY <2>1
    <3>2. g = [s \in SUBSET T |-> g[s]]
      OBVIOUS
    <3> HIDE DEF g
    <3> QED
      BY <3>1, <3>2
  <2> QED
    BY <2>2 DEF IsFold
<1>2. SUBSET S \subseteq Has
  <2> HIDE DEF Has
  <2> QED
    BY <1>1, SubsetInduction
<1> QED
  BY <1>2

\* The sum is the fold over its own set; so it has the same equation.
LEMMA SumIsFold ==
    ASSUME NEW S, IsFiniteSet(S), NEW f
    PROVE  \E g : IsFold(g, f, S) /\ SumFunctionOnSet(f, S) = g[S]
<1> DEFINE it == CHOOSE g : IsFold(g, f, S)
<1>1. IsFold(it, f, S)
  BY FoldExists
<1>2. SumFunctionOnSet(f, S) = it[S]
  BY DEF SumFunctionOnSet, FoldFunctionOnSet, MapThenFoldSet, IsFold, Picked
<1> QED
  BY <1>1, <1>2

\* Nothing adds up to 0.
LEMMA SumEmpty ==
    ASSUME NEW f
    PROVE  SumFunctionOnSet(f, {}) = 0
<1>1. PICK g : IsFold(g, f, {}) /\ SumFunctionOnSet(f, {}) = g[{}]
  BY SumIsFold, FS_EmptySet
<1> QED
  BY <1>1 DEF IsFold

\* The element the fold takes off first, and the rest.
LEMMA SumPick ==
    ASSUME NEW S, IsFiniteSet(S), S # {}, NEW f
    PROVE  SumFunctionOnSet(f, S)
               = f[Picked(S)] + SumFunctionOnSet(f, S \ {Picked(S)})
<1> DEFINE T == S \ {Picked(S)}
<1>1. PICK g : IsFold(g, f, S) /\ SumFunctionOnSet(f, S) = g[S]
  BY SumIsFold
<1>2. IsFiniteSet(T)
  BY FS_Subset
<1>3. PICK h : IsFold(h, f, T) /\ SumFunctionOnSet(f, T) = h[T]
  BY <1>2, SumIsFold
<1>4. g[T] = h[T]
  BY <1>1, <1>3, FoldUnique
<1>5. g[S] = f[Picked(S)] + g[T]
  BY <1>1 DEF IsFold
<1> QED
  BY <1>1, <1>3, <1>4, <1>5

\* Any element may be taken off first.
LEMMA SumTake ==
    ASSUME NEW S, IsFiniteSet(S), NEW f, \A y \in S : f[y] \in Int, NEW x \in S
    PROVE  /\ SumFunctionOnSet(f, S) = f[x] + SumFunctionOnSet(f, S \ {x})
           /\ SumFunctionOnSet(f, S) \in Int
           /\ SumFunctionOnSet(f, S \ {x}) \in Int
<1> DEFINE Taken(T) == SumFunctionOnSet(f, T) \in Int
                       /\ \A y \in T : SumFunctionOnSet(f, T)
                                           = f[y] + SumFunctionOnSet(f, T \ {y})
           Good == {T \in SUBSET S : Taken(T)}
<1>1. ASSUME NEW T \in SUBSET S, \A U \in SUBSET T : U # T => U \in Good
      PROVE  T \in Good
  <2>1. CASE T = {}
    BY <2>1, SumEmpty
  <2>2. CASE T # {}
    <3> DEFINE p == Picked(T)
               U == T \ {p}
    <3>1. p \in T /\ IsFiniteSet(T) /\ U \in Good
      BY <1>1, <2>2, FS_Subset DEF Picked
    <3>2. SumFunctionOnSet(f, T) = f[p] + SumFunctionOnSet(f, U)
      BY <2>2, <3>1, SumPick
    <3>3. SumFunctionOnSet(f, U) \in Int /\ f[p] \in Int
      BY <3>1
    <3>4. ASSUME NEW y \in T, y # p
          PROVE  SumFunctionOnSet(f, T) = f[y] + SumFunctionOnSet(f, T \ {y})
      <4> DEFINE V == U \ {y}
      <4>1. SumFunctionOnSet(f, U) = f[y] + SumFunctionOnSet(f, V)
        BY <3>1, <3>4
      <4>2. T \ {y} \in Good /\ p \in T \ {y} /\ V \in Good
        BY <1>1, <3>1, <3>4
      <4>3. SumFunctionOnSet(f, T \ {y}) = f[p] + SumFunctionOnSet(f, (T \ {y}) \ {p})
        BY <4>2
      <4>4. SumFunctionOnSet(f, (T \ {y}) \ {p}) = SumFunctionOnSet(f, V)
        <5>1. (T \ {y}) \ {p} = V
          OBVIOUS
        <5> QED
          BY <5>1, Zenon
      <4>5. SumFunctionOnSet(f, V) \in Int /\ f[y] \in Int
        BY <4>2
      <4> HIDE DEF U, V
      <4> QED
        BY <3>2, <3>3, <4>1, <4>3, <4>4, <4>5
    <3> HIDE DEF p
    <3>5. Taken(T)
      <4> HIDE DEF U
      <4>1. SumFunctionOnSet(f, T) \in Int
        BY <3>2, <3>3
      <4> QED
        BY <3>2, <3>4, <4>1 DEF U
    <3> QED
      BY <3>5
  <2> QED
    BY <2>1, <2>2
<1>2. SUBSET S \subseteq Good
  <2> HIDE DEF Good
  <2> QED
    BY <1>1, SubsetInduction
<1> QED
  BY <1>2

\* A sum of integers is an integer.
LEMMA SumType ==
    ASSUME NEW S, IsFiniteSet(S), NEW f, \A x \in S : f[x] \in Int
    PROVE  SumFunctionOnSet(f, S) \in Int
<1>1. CASE S = {}
  BY <1>1, SumEmpty
<1>2. CASE S # {}
  BY <1>2, SumTake
<1> QED
  BY <1>1, <1>2

\* Induction over the subsets of a finite set, one element at a time.
LEMMA AddOneInduction ==
    ASSUME NEW S, IsFiniteSet(S), NEW Good, {} \in Good,
           \A T \in SUBSET S : \A x \in S \ T : T \in Good => T \cup {x} \in Good
    PROVE  S \in Good
<1>1. ASSUME NEW T \in SUBSET S, \A U \in SUBSET T : U # T => U \in Good
      PROVE  T \in Good
  <2>1. SUFFICES ASSUME NEW x \in T PROVE T \in Good
    OBVIOUS
  <2>2. T \ {x} \in Good /\ (T \ {x}) \cup {x} = T
    BY <1>1, <2>1
  <2>3. T \ {x} \in SUBSET S /\ x \in S \ (T \ {x})
    OBVIOUS
  <2> QED
    BY <2>2, <2>3
<1> QED
  BY <1>1, SubsetInduction

\* A sum grows by the value at the element that is added.
LEMMA SumAdd ==
    ASSUME NEW S, IsFiniteSet(S), NEW f, NEW x, x \notin S,
           f[x] \in Int, \A y \in S : f[y] \in Int
    PROVE  SumFunctionOnSet(f, S \cup {x}) = SumFunctionOnSet(f, S) + f[x]
<1> DEFINE T == S \cup {x}
<1>1. IsFiniteSet(T) /\ T \ {x} = S /\ x \in T /\ \A y \in T : f[y] \in Int
  BY FS_AddElement
<1> HIDE DEF T
<1>2. /\ SumFunctionOnSet(f, T) = f[x] + SumFunctionOnSet(f, T \ {x})
      /\ SumFunctionOnSet(f, T \ {x}) \in Int
  BY <1>1, SumTake
<1>3. SumFunctionOnSet(f, T \ {x}) = SumFunctionOnSet(f, S)
  BY <1>1, Zenon
<1> QED
  BY <1>2, <1>3 DEF T

\* The sum depends on the values in the set only.
LEMMA SumSame ==
    ASSUME NEW S, IsFiniteSet(S), NEW f, NEW g,
           \A x \in S : f[x] \in Int /\ g[x] = f[x]
    PROVE  SumFunctionOnSet(g, S) = SumFunctionOnSet(f, S)
<1> DEFINE Good == {T \in SUBSET S : SumFunctionOnSet(g, T) = SumFunctionOnSet(f, T)}
<1>1. {} \in Good
  BY SumEmpty
<1>2. ASSUME NEW T \in SUBSET S, NEW x \in S \ T, T \in Good
      PROVE  T \cup {x} \in Good
  <2>1. /\ IsFiniteSet(T) /\ x \notin T
        /\ f[x] \in Int /\ \A y \in T : f[y] \in Int
        /\ g[x] \in Int /\ \A y \in T : g[y] \in Int
    BY FS_Subset
  <2>2. SumFunctionOnSet(f, T \cup {x}) = SumFunctionOnSet(f, T) + f[x]
    BY ONLY <2>1, SumAdd
  <2>3. SumFunctionOnSet(g, T \cup {x}) = SumFunctionOnSet(g, T) + g[x]
    BY ONLY <2>1, SumAdd
  <2> QED
    BY <1>2, <2>2, <2>3
<1>3. S \in Good
  <2> HIDE DEF Good
  <2> QED
    BY <1>1, <1>2, AddOneInduction
<1> QED
  BY <1>3

\* A sum of sums of two terms is the sum of their sums.
LEMMA SumPlus ==
    ASSUME NEW S, IsFiniteSet(S), NEW f, NEW g, NEW h,
           \A x \in S : f[x] \in Int /\ g[x] \in Int /\ h[x] = f[x] + g[x]
    PROVE  SumFunctionOnSet(h, S) = SumFunctionOnSet(f, S) + SumFunctionOnSet(g, S)
<1> DEFINE Good == {T \in SUBSET S : SumFunctionOnSet(h, T)
                        = SumFunctionOnSet(f, T) + SumFunctionOnSet(g, T)}
<1>1. {} \in Good
  BY SumEmpty
<1>2. ASSUME NEW T \in SUBSET S, NEW x \in S \ T, T \in Good
      PROVE  T \cup {x} \in Good
  <2>1. /\ IsFiniteSet(T) /\ x \notin T
        /\ f[x] \in Int /\ \A y \in T : f[y] \in Int
        /\ g[x] \in Int /\ \A y \in T : g[y] \in Int
        /\ h[x] \in Int /\ \A y \in T : h[y] \in Int
    BY FS_Subset
  <2>2. /\ SumFunctionOnSet(f, T \cup {x}) = SumFunctionOnSet(f, T) + f[x]
        /\ SumFunctionOnSet(g, T \cup {x}) = SumFunctionOnSet(g, T) + g[x]
        /\ SumFunctionOnSet(h, T \cup {x}) = SumFunctionOnSet(h, T) + h[x]
    <3>1. SumFunctionOnSet(f, T \cup {x}) = SumFunctionOnSet(f, T) + f[x]
      BY ONLY <2>1, SumAdd
    <3>2. SumFunctionOnSet(g, T \cup {x}) = SumFunctionOnSet(g, T) + g[x]
      BY ONLY <2>1, SumAdd
    <3>3. SumFunctionOnSet(h, T \cup {x}) = SumFunctionOnSet(h, T) + h[x]
      BY ONLY <2>1, SumAdd
    <3> QED
      BY <3>1, <3>2, <3>3
  <2>3. SumFunctionOnSet(f, T) \in Int /\ SumFunctionOnSet(g, T) \in Int
    BY <2>1, SumType
  <2>4. SumFunctionOnSet(h, T) = SumFunctionOnSet(f, T) + SumFunctionOnSet(g, T)
    BY <1>2
  <2>5. f[x] \in Int /\ g[x] \in Int /\ h[x] = f[x] + g[x]
    OBVIOUS
  <2> HIDE DEF Good
  <2>6. SumFunctionOnSet(h, T \cup {x}) =
            SumFunctionOnSet(f, T \cup {x}) + SumFunctionOnSet(g, T \cup {x})
    BY <2>2, <2>3, <2>4, <2>5
  <2> QED
    BY <2>6 DEF Good
<1>3. S \in Good
  <2> HIDE DEF Good
  <2> QED
    BY <1>1, <1>2, AddOneInduction
<1> QED
  BY <1>3

\* The sum over two disjoint sets.
LEMMA SumUnion ==
    ASSUME NEW S, IsFiniteSet(S), NEW T, IsFiniteSet(T), S \cap T = {}, NEW f,
           \A x \in S \cup T : f[x] \in Int
    PROVE  SumFunctionOnSet(f, S \cup T)
               = SumFunctionOnSet(f, S) + SumFunctionOnSet(f, T)
<1> DEFINE Good == {U \in SUBSET T : SumFunctionOnSet(f, S \cup U)
                        = SumFunctionOnSet(f, S) + SumFunctionOnSet(f, U)}
<1>1. {} \in Good
  <2>1. S \cup {} = S /\ SumFunctionOnSet(f, S) \in Int
    BY SumType
  <2> QED
    BY <2>1, SumEmpty
<1>2. ASSUME NEW U \in SUBSET T, NEW x \in T \ U, U \in Good
      PROVE  U \cup {x} \in Good
  <2>1. /\ IsFiniteSet(U) /\ IsFiniteSet(S \cup U)
        /\ x \notin U /\ x \notin S \cup U /\ f[x] \in Int
        /\ \A y \in U : f[y] \in Int
        /\ \A y \in S \cup U : f[y] \in Int
    BY FS_Subset, FS_Union
  <2>2. SumFunctionOnSet(f, U \cup {x}) = SumFunctionOnSet(f, U) + f[x]
    BY ONLY <2>1, SumAdd
  <2>3. SumFunctionOnSet(f, (S \cup U) \cup {x}) = SumFunctionOnSet(f, S \cup U) + f[x]
    BY ONLY <2>1, SumAdd
  <2>4. SumFunctionOnSet(f, (S \cup U) \cup {x})
            = SumFunctionOnSet(f, S \cup (U \cup {x}))
    <3>1. (S \cup U) \cup {x} = S \cup (U \cup {x})
      OBVIOUS
    <3> QED
      BY <3>1, Zenon
  <2>5. /\ SumFunctionOnSet(f, S) \in Int /\ SumFunctionOnSet(f, U) \in Int
        /\ f[x] \in Int
    BY <2>1, SumType
  <2>6. SumFunctionOnSet(f, S \cup U) = SumFunctionOnSet(f, S) + SumFunctionOnSet(f, U)
    BY <1>2
  <2> HIDE DEF Good
  <2>7. SumFunctionOnSet(f, S \cup (U \cup {x})) =
            SumFunctionOnSet(f, S) + SumFunctionOnSet(f, U \cup {x})
    BY <2>2, <2>3, <2>4, <2>5, <2>6
  <2> QED
    BY <2>7 DEF Good
<1>3. T \in Good
  <2> HIDE DEF Good
  <2> QED
    BY <1>1, <1>2, AddOneInduction
<1> QED
  BY <1>3

\* A sum can be taken over another set that a bijection m relates to the first.
LEMMA SumRename ==
    ASSUME NEW S, IsFiniteSet(S), NEW f, NEW g, NEW m,
           \A x \in S : f[x] \in Int /\ g[m[x]] = f[x],
           \A x, y \in S : m[x] = m[y] => x = y
    PROVE  /\ IsFiniteSet({m[x] : x \in S})
           /\ SumFunctionOnSet(g, {m[x] : x \in S}) = SumFunctionOnSet(f, S)
<1> DEFINE Image(T) == {m[x] : x \in T}
           Good == {T \in SUBSET S :
                       /\ IsFiniteSet(Image(T))
                       /\ SumFunctionOnSet(g, Image(T)) = SumFunctionOnSet(f, T)}
<1>1. {} \in Good
  <2>1. Image({}) = {}
    OBVIOUS
  <2> QED
    BY <2>1, SumEmpty, FS_EmptySet
<1>2. ASSUME NEW T \in SUBSET S, NEW x \in S \ T, T \in Good
      PROVE  T \cup {x} \in Good
  <2>1. /\ IsFiniteSet(T)
        /\ IsFiniteSet(Image(T))
        /\ Image(T \cup {x}) = Image(T) \cup {m[x]}
        /\ m[x] \notin Image(T)
    BY <1>2, FS_Subset
  <2>2. SumFunctionOnSet(f, T \cup {x}) = SumFunctionOnSet(f, T) + f[x]
    <3>1. x \notin T /\ f[x] \in Int /\ \A y \in T : f[y] \in Int
      OBVIOUS
    <3> QED
      BY ONLY <2>1, <3>1, SumAdd
  <2>3. /\ IsFiniteSet(Image(T) \cup {m[x]})
        /\ g[m[x]] \in Int
        /\ \A y \in Image(T) : g[y] \in Int
    BY <2>1, FS_AddElement
  <2>4. SumFunctionOnSet(g, Image(T) \cup {m[x]}) = SumFunctionOnSet(g, Image(T)) + g[m[x]]
    <3> HIDE DEF Good, Image
    <3> QED
      BY ONLY <2>1, <2>3, SumAdd
  <2>5. g[m[x]] = f[x] /\ SumFunctionOnSet(g, Image(T)) = SumFunctionOnSet(f, T)
    BY <1>2
  <2> HIDE DEF Image
  <2> QED
    BY <2>1, <2>2, <2>3, <2>4, <2>5
<1>3. S \in Good
  <2> HIDE DEF Good
  <2> QED
    BY <1>1, <1>2, AddOneInduction
<1> QED
  BY <1>3

\* Zeroes add up to 0.
LEMMA SumZero ==
    ASSUME NEW S, IsFiniteSet(S), NEW f, \A x \in S : f[x] = 0
    PROVE  SumFunctionOnSet(f, S) = 0
<1> DEFINE Good == {T \in SUBSET S : SumFunctionOnSet(f, T) = 0}
<1>1. {} \in Good
  BY SumEmpty
<1>2. ASSUME NEW T \in SUBSET S, NEW x \in S \ T, T \in Good
      PROVE  T \cup {x} \in Good
  <2>1. /\ IsFiniteSet(T) /\ x \notin T
        /\ f[x] \in Int /\ \A y \in T : f[y] \in Int
    BY FS_Subset
  <2>2. SumFunctionOnSet(f, T \cup {x}) = SumFunctionOnSet(f, T) + f[x]
    BY ONLY <2>1, SumAdd
  <2> QED
    BY <1>2, <2>2
<1>3. S \in Good
  <2> HIDE DEF Good
  <2> QED
    BY <1>1, <1>2, AddOneInduction
<1> QED
  BY <1>3

\* A sum of terms of which only those in T are not 0.
LEMMA SumFilter ==
    ASSUME NEW S, IsFiniteSet(S), NEW T \in SUBSET S, NEW f, NEW g,
           \A x \in T : f[x] \in Int /\ g[x] = f[x],
           \A x \in S \ T : g[x] = 0
    PROVE  SumFunctionOnSet(g, S) = SumFunctionOnSet(f, T)
<1>1. /\ IsFiniteSet(T) /\ IsFiniteSet(S \ T) /\ T \cap (S \ T) = {}
      /\ T \cup (S \ T) = S
      /\ \A x \in T \cup (S \ T) : g[x] \in Int
  BY FS_Subset
<1>2. SumFunctionOnSet(g, T \cup (S \ T))
          = SumFunctionOnSet(g, T) + SumFunctionOnSet(g, S \ T)
  BY ONLY <1>1, SumUnion
<1>3. SumFunctionOnSet(g, T \cup (S \ T)) = SumFunctionOnSet(g, S)
  BY <1>1, Zenon
<1>4. SumFunctionOnSet(g, S \ T) = 0
  BY <1>1, SumZero
<1>5. SumFunctionOnSet(g, T) = SumFunctionOnSet(f, T)
  BY <1>1, SumSame
<1>6. SumFunctionOnSet(f, T) \in Int
  BY <1>1, SumType
<1> QED
  BY <1>2, <1>3, <1>4, <1>5, <1>6

\* What a change at one element makes of a sum.
LEMMA SumChange ==
    ASSUME NEW S, IsFiniteSet(S), NEW x \in S, NEW f, NEW g,
           f[x] \in Int, g[x] \in Int,
           \A y \in S : y # x => f[y] \in Int /\ g[y] = f[y]
    PROVE  /\ SumFunctionOnSet(f, S) \in Int
           /\ SumFunctionOnSet(g, S) = SumFunctionOnSet(f, S) + (g[x] - f[x])
<1> DEFINE T == S \ {x}
<1>1. /\ IsFiniteSet(T)
      /\ \A y \in S : f[y] \in Int
      /\ \A y \in S : g[y] \in Int
      /\ \A y \in T : f[y] \in Int /\ g[y] = f[y]
  BY FS_Subset
<1>2. /\ SumFunctionOnSet(f, S) = f[x] + SumFunctionOnSet(f, T)
      /\ SumFunctionOnSet(f, S) \in Int
      /\ SumFunctionOnSet(f, T) \in Int
  BY <1>1, SumTake
<1>3. SumFunctionOnSet(g, S) = g[x] + SumFunctionOnSet(g, T)
  BY <1>1, SumTake
<1>4. SumFunctionOnSet(g, T) = SumFunctionOnSet(f, T)
  <2> HIDE DEF T
  <2> QED
    BY <1>1, SumSame
<1> QED
  BY <1>2, <1>3, <1>4

\* A sum of natural numbers is a natural number.
LEMMA SumNat ==
    ASSUME NEW S, IsFiniteSet(S), NEW f, \A x \in S : f[x] \in Nat
    PROVE  SumFunctionOnSet(f, S) \in Nat
<1> DEFINE Good == {T \in SUBSET S : SumFunctionOnSet(f, T) \in Nat}
<1>1. {} \in Good
  BY SumEmpty
<1>2. ASSUME NEW T \in SUBSET S, NEW x \in S \ T, T \in Good
      PROVE  T \cup {x} \in Good
  <2>1. /\ IsFiniteSet(T) /\ x \notin T
        /\ f[x] \in Int /\ \A y \in T : f[y] \in Int
    BY FS_Subset
  <2>2. SumFunctionOnSet(f, T \cup {x}) = SumFunctionOnSet(f, T) + f[x]
    BY ONLY <2>1, SumAdd
  <2> QED
    BY <1>2, <2>2
<1>3. S \in Good
  <2> HIDE DEF Good
  <2> QED
    BY <1>1, <1>2, AddOneInduction
<1> QED
  BY <1>3

\* The same number at every element.
LEMMA SumConstant ==
    ASSUME NEW S, IsFiniteSet(S), NEW k \in Int, NEW f, \A x \in S : f[x] = k
    PROVE  SumFunctionOnSet(f, S) = k * Cardinality(S)
<1> DEFINE Good == {T \in SUBSET S : SumFunctionOnSet(f, T) = k * Cardinality(T)}
<1>1. {} \in Good
  BY SumEmpty, FS_EmptySet
<1>2. ASSUME NEW T \in SUBSET S, NEW x \in S \ T, T \in Good
      PROVE  T \cup {x} \in Good
  <2>1. /\ IsFiniteSet(T) /\ x \notin T
        /\ f[x] \in Int /\ \A y \in T : f[y] \in Int
    BY FS_Subset
  <2>2. SumFunctionOnSet(f, T \cup {x}) = SumFunctionOnSet(f, T) + f[x]
    BY ONLY <2>1, SumAdd
  <2>3. Cardinality(T \cup {x}) = Cardinality(T) + 1 /\ Cardinality(T) \in Nat
    BY <2>1, FS_AddElement, FS_CardinalityType
  <2>4. SumFunctionOnSet(f, T) = k * Cardinality(T) /\ f[x] = k
    BY <1>2
  <2>5. \A n \in Nat : k * (n + 1) = k * n + k
    OBVIOUS
  <2>6. k * Cardinality(T \cup {x}) = k * Cardinality(T) + k
    BY <2>3, <2>5
  <2>7. SumFunctionOnSet(f, T \cup {x}) = k * Cardinality(T \cup {x})
    BY <2>2, <2>4, <2>6
  <2> HIDE DEF Good
  <2> QED
    BY <2>7 DEF Good
<1>3. S \in Good
  <2> HIDE DEF Good
  <2> QED
    BY <1>1, <1>2, AddOneInduction
<1> QED
  BY <1>3

\* A sum of a function that is 0 but at one point is the number there.
LEMMA SumPoint ==
    ASSUME NEW S, IsFiniteSet(S), NEW x \in S, NEW c \in Int,
           NEW f, \A y \in S : f[y] = IF y = x THEN c ELSE 0
    PROVE  SumFunctionOnSet(f, S) = c
<1> DEFINE zero == [y \in S |-> 0]
<1>1. SumFunctionOnSet(zero, S) = 0
  BY SumZero
<1>2. /\ zero[x] = 0 /\ f[x] = c
      /\ \A y \in S : y # x => zero[y] \in Int /\ f[y] = zero[y]
  OBVIOUS
<1> HIDE DEF zero
<1>3. SumFunctionOnSet(f, S) = SumFunctionOnSet(zero, S) + (f[x] - zero[x])
  BY <1>2, SumChange
<1> QED
  BY <1>1, <1>2, <1>3

\* A sum of a function that is changed at three points, which may coincide.
LEMMA SumThreePoints ==
    ASSUME NEW S, IsFiniteSet(S), NEW x \in S, NEW y \in S, NEW z \in S,
           NEW c \in Int, NEW d \in Int, NEW e \in Int,
           NEW f, NEW g,
           \A s \in S : /\ f[s] \in Int
                        /\ g[s] = f[s] + (IF s = x THEN c ELSE 0)
                                       + (IF s = y THEN d ELSE 0)
                                       + (IF s = z THEN e ELSE 0)
    PROVE  /\ SumFunctionOnSet(f, S) \in Int
           /\ SumFunctionOnSet(g, S) = SumFunctionOnSet(f, S) + c + d + e
<1> DEFINE cs == [s \in S |-> IF s = x THEN c ELSE 0]
           ds == [s \in S |-> IF s = y THEN d ELSE 0]
           es == [s \in S |-> IF s = z THEN e ELSE 0]
           fc == [s \in S |-> f[s] + cs[s]]
           fd == [s \in S |-> fc[s] + ds[s]]
<1>1. /\ \A s \in S : cs[s] = IF s = x THEN c ELSE 0
      /\ \A s \in S : ds[s] = IF s = y THEN d ELSE 0
      /\ \A s \in S : es[s] = IF s = z THEN e ELSE 0
  OBVIOUS
<1>2. /\ \A s \in S : f[s] \in Int /\ cs[s] \in Int /\ fc[s] = f[s] + cs[s]
      /\ \A s \in S : fc[s] \in Int /\ ds[s] \in Int /\ fd[s] = fc[s] + ds[s]
      /\ \A s \in S : fd[s] \in Int /\ es[s] \in Int /\ g[s] = fd[s] + es[s]
  OBVIOUS
<1> HIDE DEF cs, ds, es, fc, fd
<1>3. /\ SumFunctionOnSet(cs, S) = c
      /\ SumFunctionOnSet(ds, S) = d
      /\ SumFunctionOnSet(es, S) = e
  BY <1>1, SumPoint
<1>4. SumFunctionOnSet(f, S) \in Int
  BY <1>2, SumType
<1>5. SumFunctionOnSet(fc, S) = SumFunctionOnSet(f, S) + SumFunctionOnSet(cs, S)
  BY <1>2, SumPlus
<1>6. SumFunctionOnSet(fd, S) = SumFunctionOnSet(fc, S) + SumFunctionOnSet(ds, S)
  BY <1>2, SumPlus
<1>7. SumFunctionOnSet(g, S) = SumFunctionOnSet(fd, S) + SumFunctionOnSet(es, S)
  BY <1>2, SumPlus
<1> QED
  BY <1>3, <1>4, <1>5, <1>6, <1>7

\* The sum of a sequence is the sum over its domain.
LEMMA SumOfIsSum ==
    ASSUME NEW s \in Seq(Nat)
    PROVE  SumOf(s) = SumFunctionOnSet(s, 1..Len(s))
<1>1. PICK f \in [0..Len(s) -> Nat] :
          /\ f = [n \in 0..Len(s) |-> IF n = 0 THEN 0 ELSE f[n - 1] + s[n]]
          /\ SumOf(s) = f[Len(s)]
  BY PartialSums
<1> DEFINE Good == {n \in Nat : n <= Len(s) => f[n] = SumFunctionOnSet(s, 1..n)}
<1>2. 0 \in Good
  <2>1. 1..0 = {}
    OBVIOUS
  <2>2. SumFunctionOnSet(s, 1..0) = 0
    BY <2>1, SumEmpty, Zenon
  <2> QED
    BY <1>1, <2>2
<1>3. ASSUME NEW n \in Nat, n \in Good
      PROVE  n + 1 \in Good
  <2>1. SUFFICES ASSUME n + 1 <= Len(s)
                 PROVE  f[n + 1] = SumFunctionOnSet(s, 1..(n + 1))
    OBVIOUS
  <2>2. f[n + 1] = f[n] + s[n + 1] /\ f[n] = SumFunctionOnSet(s, 1..n)
    BY <1>1, <1>3, <2>1
  <2>3. IsFiniteSet(1..n)
    BY FS_Interval
  <2>4. /\ n + 1 \notin 1..n
        /\ s[n + 1] \in Int /\ \A i \in 1..n : s[i] \in Int
    BY <2>1
  <2>5. 1..(n + 1) = (1..n) \cup {n + 1}
    OBVIOUS
  <2> DEFINE U == 1..n
             m == n + 1
  <2>6. SumFunctionOnSet(s, U \cup {m}) = SumFunctionOnSet(s, U) + s[m]
    <3>1. /\ IsFiniteSet(U) /\ m \notin U
          /\ s[m] \in Int /\ \A i \in U : s[i] \in Int
      BY <2>3, <2>4
    <3> HIDE DEF U, m
    <3> QED
      BY ONLY <3>1, SumAdd
  <2> HIDE DEF U, m
  <2>7. SumFunctionOnSet(s, 1..m) = SumFunctionOnSet(s, U \cup {m})
    BY <2>5, Zenon DEF U, m
  <2> QED
    BY <2>2, <2>6, <2>7 DEF U, m
<1>4. Nat \subseteq Good
  <2> HIDE DEF Good
  <2> QED
    BY <1>2, <1>3, NatInductionSet
<1>5. Len(s) \in Nat
  BY LenProperties
<1>6. Len(s) \in Good
  <2> HIDE DEF Good
  <2> QED
    BY <1>4, <1>5
<1> QED
  BY <1>1, <1>5, <1>6

\* outer[c] is the sum of row c, and f has the numbers of all the rows.
SumsOfRows(C, D, inner, outer, f, pairs) ==
    /\ IsFiniteSet(C)
    /\ \A c \in C : IsFiniteSet(D[c])
    /\ \A c \in C : \A o \in D[c] : inner[c][o] \in Int /\ f[<<c, o>>] = inner[c][o]
    /\ \A c \in C : outer[c] = SumFunctionOnSet(inner[c], D[c])
    /\ \A p : p \in pairs <=> \E c, o : c \in C /\ o \in D[c] /\ p = <<c, o>>

\* A function of numbers on 1..n is a sequence of them.
LEMMA ListOfNumbers ==
    ASSUME NEW n \in Nat, NEW f \in [1..n -> Nat]
    PROVE  f \in Seq(Nat) /\ Len(f) = n
BY SeqDef

\* A sum of natural numbers grows with its terms.
LEMMA SumOfWithin ==
    ASSUME NEW n \in Nat, NEW f \in [1..n -> Nat], NEW g \in [1..n -> Nat],
           \A i \in 1..n : f[i] <= g[i]
    PROVE  SumOf(f) <= SumOf(g)
<1> DEFINE d == [i \in 1..n |-> g[i] - f[i]]
<1>1. d \in [1..n -> Nat]
  OBVIOUS
<1>2. \A i \in 1..n : f[i] \in Int /\ d[i] \in Int /\ g[i] = f[i] + d[i]
  OBVIOUS
<1>3. f \in Seq(Nat) /\ g \in Seq(Nat) /\ Len(f) = n /\ Len(g) = n
  BY SeqDef
<1>4. IsFiniteSet(1..n)
  BY FS_Interval
<1> HIDE DEF d
<1>5. SumFunctionOnSet(g, 1..n) = SumFunctionOnSet(f, 1..n) + SumFunctionOnSet(d, 1..n)
  BY <1>2, <1>4, SumPlus
<1>6. SumFunctionOnSet(d, 1..n) \in Nat /\ SumFunctionOnSet(f, 1..n) \in Nat
  BY <1>1, <1>4, SumNat
<1> QED
  BY <1>3, <1>5, <1>6, SumOfIsSum

\* One more term raises a sum by that term.
LEMMA SumOfOneMore ==
    ASSUME NEW s \in Seq(Nat), NEW r \in Seq(Nat), Len(r) = Len(s) + 1,
           \A i \in 1..Len(s) : r[i] = s[i]
    PROVE  SumOf(s) \in Nat /\ SumOf(r) = SumOf(s) + r[Len(s) + 1]
<1>0. PICK n : n = Len(s)
  OBVIOUS
<1> DEFINE T == 1..n
<1>1. n \in Nat
  BY <1>0, LenProperties
<1>2. \A i \in T : s[i] \in Nat
  BY <1>0, ElementOfSeq
<1>3. r[n + 1] \in Nat
  BY <1>0, <1>1, ElementOfSeq
<1>4. /\ IsFiniteSet(T) /\ n + 1 \notin T
      /\ r[n + 1] \in Int /\ \A i \in T : r[i] \in Int
      /\ \A i \in T : s[i] \in Int /\ r[i] = s[i]
      /\ T \cup {n + 1} = 1..Len(r)
  <2>1. IsFiniteSet(T)
    BY <1>1, FS_Interval
  <2>2. n + 1 \notin T /\ T \cup {n + 1} = 1..(n + 1)
    BY <1>1
  <2>3. \A i \in T : r[i] = s[i]
    BY <1>0
  <2> HIDE DEF T
  <2> QED
    BY <1>0, <1>2, <1>3, <2>1, <2>2, <2>3
<1>5. /\ SumOf(s) = SumFunctionOnSet(s, T)
      /\ SumOf(r) = SumFunctionOnSet(r, 1..Len(r))
      /\ SumOf(s) \in Nat
  BY <1>0, SumOfIsSum, SumOfType
<1> HIDE DEF T
<1>6. SumFunctionOnSet(r, T \cup {n + 1}) = SumFunctionOnSet(r, T) + r[n + 1]
  BY ONLY <1>4, SumAdd
<1>7. SumFunctionOnSet(r, T \cup {n + 1}) = SumFunctionOnSet(r, 1..Len(r))
  BY <1>4, Zenon
<1>8. SumFunctionOnSet(r, T) = SumFunctionOnSet(s, T)
  BY ONLY <1>4, SumSame
<1> QED
  BY <1>0, <1>5, <1>6, <1>7, <1>8

\* The sum of nothing.
LEMMA SumOfNothing ==
    ASSUME NEW f \in [1..0 -> Nat]
    PROVE  SumOf(f) = 0
<1>1. f \in Seq(Nat) /\ Len(f) = 0 /\ 1..0 = {}
  BY SeqDef
<1> QED
  BY <1>1, SumOfIsSum, SumEmpty

\* A sum of sums is a sum over pairs.
LEMMA SumPairs ==
    ASSUME NEW C, NEW D, NEW inner, NEW outer, NEW f, NEW pairs,
           SumsOfRows(C, D, inner, outer, f, pairs)
    PROVE  /\ IsFiniteSet(pairs)
           /\ SumFunctionOnSet(outer, C) = SumFunctionOnSet(f, pairs)
<1> DEFINE Row(c) == {<<c, o>> : o \in D[c]}
           Pairs(E) == UNION {Row(c) : c \in E}
           Good == {E \in SUBSET C :
                       /\ IsFiniteSet(Pairs(E))
                       /\ SumFunctionOnSet(outer, E) = SumFunctionOnSet(f, Pairs(E))}
<1> USE DEF SumsOfRows
<1>1. ASSUME NEW c \in C
      PROVE  /\ IsFiniteSet(Row(c))
             /\ SumFunctionOnSet(f, Row(c)) = outer[c]
             /\ outer[c] \in Int
  <2> DEFINE m == [o \in D[c] |-> <<c, o>>]
  <2>1. /\ IsFiniteSet(D[c])
        /\ \A o \in D[c] : inner[c][o] \in Int /\ f[m[o]] = inner[c][o]
        /\ \A o, p \in D[c] : m[o] = m[p] => o = p
    OBVIOUS
  <2>2. {m[o] : o \in D[c]} = Row(c)
    OBVIOUS
  <2> HIDE DEF m
  <2>3. /\ IsFiniteSet({m[o] : o \in D[c]})
        /\ SumFunctionOnSet(f, {m[o] : o \in D[c]}) = SumFunctionOnSet(inner[c], D[c])
    <3> DEFINE i == inner[c]
               d == D[c]
    <3>1. /\ IsFiniteSet(d)
          /\ \A o \in d : i[o] \in Int /\ f[m[o]] = i[o]
          /\ \A o, p \in d : m[o] = m[p] => o = p
      BY <2>1
    <3> HIDE DEF i, d
    <3>2. /\ IsFiniteSet({m[o] : o \in d})
          /\ SumFunctionOnSet(f, {m[o] : o \in d}) = SumFunctionOnSet(i, d)
      BY ONLY <3>1, SumRename
    <3> QED
      BY <3>2 DEF i, d
  <2>4. SumFunctionOnSet(inner[c], D[c]) \in Int
    BY <2>1, SumType
  <2> HIDE DEF Row
  <2> QED
    BY <2>2, <2>3, <2>4
<1>2. {} \in Good
  <2>1. Pairs({}) = {}
    OBVIOUS
  <2> QED
    BY <2>1, SumEmpty, FS_EmptySet
<1>3. ASSUME NEW E \in SUBSET C, NEW c \in C \ E, E \in Good
      PROVE  E \cup {c} \in Good
  <2>1. Pairs(E \cup {c}) = Pairs(E) \cup Row(c) /\ Pairs(E) \cap Row(c) = {}
    OBVIOUS
  <2>2. \A p \in Pairs(E) \cup Row(c) : f[p] \in Int
    OBVIOUS
  <2>3. /\ IsFiniteSet(E) /\ c \notin E
        /\ outer[c] \in Int /\ \A e \in E : outer[e] \in Int
    BY <1>1, FS_Subset
  <2>4. SumFunctionOnSet(outer, E \cup {c}) = SumFunctionOnSet(outer, E) + outer[c]
    BY ONLY <2>3, SumAdd
  <2>5. /\ IsFiniteSet(Pairs(E)) /\ IsFiniteSet(Row(c))
        /\ SumFunctionOnSet(outer, E) = SumFunctionOnSet(f, Pairs(E))
        /\ SumFunctionOnSet(f, Row(c)) = outer[c]
    BY <1>1, <1>3
  <2> HIDE DEF Good, Pairs, Row
  <2>6. SumFunctionOnSet(f, Pairs(E) \cup Row(c))
            = SumFunctionOnSet(f, Pairs(E)) + SumFunctionOnSet(f, Row(c))
    BY ONLY <2>1, <2>2, <2>5, SumUnion
  <2>7. IsFiniteSet(Pairs(E) \cup Row(c))
    BY <2>5, FS_Union
  <2>8. /\ IsFiniteSet(Pairs(E \cup {c}))
        /\ SumFunctionOnSet(outer, E \cup {c}) = SumFunctionOnSet(f, Pairs(E \cup {c}))
    BY <2>1, <2>4, <2>5, <2>6, <2>7
  <2> QED
    BY <2>8 DEF Good
<1>4. C \in Good
  <2> HIDE DEF Good
  <2> QED
    BY <1>2, <1>3, AddOneInduction
<1>5. Pairs(C) = pairs
  OBVIOUS
<1>6. /\ IsFiniteSet(Pairs(C))
      /\ SumFunctionOnSet(outer, C) = SumFunctionOnSet(f, Pairs(C))
  BY <1>4
<1> HIDE DEF Pairs
<1> QED
  BY <1>5, <1>6, Zenon
=============================================================================
