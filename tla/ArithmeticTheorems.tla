------------------------- MODULE ArithmeticTheorems -------------------------
(***************************************************************************)
(* The arithmetic the proofs share.                                        *)
(*   - SumFunctionOnSet, the sum of the values of a function over a finite *)
(*     set, which the models of the flow control and of the client and     *)
(*     worker loops count messages, slots and operations with.  Induction  *)
(*     is over sets of numbers and sets of sets: a property is the set of  *)
(*     the things that have it.                                            *)
(*   - The clocks of module Timestamps: the order is total, and the        *)
(*     comparisons made on locked items decide it.                         *)
(***************************************************************************)
EXTENDS Timestamps, Integers, FiniteSets, Functions, FiniteSetTheorems, NaturalsInduction,
        WellFoundedInduction, TLAPS

\* A nonempty set of naturals has a least element.
LEMMA LeastElement ==
  ASSUME NEW T, T \subseteq Nat, T # {}
  PROVE  \E n \in T : \A m \in T : n <= m
<1> DEFINE R == {ss \in Nat \X Nat : ss[1] < ss[2]}
<1>1. IsWellFoundedOn(R, Nat)
  BY NatLessThanWellFounded DEF OpToRel
<1> HIDE DEF R
<1>2. PICK x \in T : \A y \in T : ~ (<<y, x>> \in R)
  BY <1>1, WFMin
<1>3. ASSUME NEW y \in T
      PROVE  x <= y
  <2>1. ~ (<<y, x>> \in {ss \in Nat \X Nat : ss[1] < ss[2]})
    BY <1>2 DEF R
  <2>2. <<y, x>> \in Nat \X Nat
    OBVIOUS
  <2>3. ~ (y < x)
    BY <2>1, <2>2
  <2> QED BY <2>3
<1> QED BY <1>3

\* Induction over the naturals.
LEMMA CountingUp ==
  ASSUME NEW T, 0 \in T, \A n \in Nat : n \in T => n + 1 \in T
  PROVE  Nat \subseteq T
<1> SUFFICES ASSUME ~(Nat \subseteq T)
             PROVE  FALSE
  OBVIOUS
<1> DEFINE U == Nat \ T
<1>1. U \subseteq Nat /\ U # {}
  OBVIOUS
<1> HIDE DEF U
<1>2. PICK n \in U : \A m \in U : n <= m
  BY <1>1, LeastElement
<1>3. n \in Nat /\ n \notin T /\ n # 0
  BY <1>2 DEF U
<1>4. n - 1 \in Nat /\ ~(n <= n - 1) /\ (n - 1) + 1 = n
  BY <1>3
<1>5. n - 1 \in T
  BY <1>2, <1>4 DEF U
<1> QED BY <1>3, <1>4, <1>5

\* A proper part of a set with at most n + 1 elements has at most n.
LEMMA SmallerPart ==
  ASSUME NEW S, IsFiniteSet(S), NEW T \in SUBSET S, T # S,
         NEW n \in Nat, Cardinality(S) <= n + 1
  PROVE  Cardinality(T) <= n
<1>1. Cardinality(T) <= Cardinality(S) /\ Cardinality(T) # Cardinality(S)
  BY FS_Subset
<1>2. Cardinality(S) \in Nat /\ Cardinality(T) \in Nat
  BY FS_CardinalityType, FS_Subset
<1> QED BY <1>1, <1>2

\* Induction over the parts of a finite set, smaller ones first.
LEMMA SmallerSetsFirst ==
  ASSUME NEW S, IsFiniteSet(S), NEW G,
         \A T \in SUBSET S : (\A U \in SUBSET T : U # T => U \in G) => T \in G
  PROVE  SUBSET S \subseteq G
<1> DEFINE N == {n \in Nat : \A T \in SUBSET S : Cardinality(T) <= n => T \in G}
<1>0. \A T \in SUBSET S : IsFiniteSet(T) /\ Cardinality(T) \in Nat
  BY FS_Subset, FS_CardinalityType
<1>1. 0 \in N
  <2> SUFFICES ASSUME NEW T \in SUBSET S, Cardinality(T) <= 0
               PROVE  T \in G
    OBVIOUS
  <2>1. Cardinality(T) = 0
    BY <1>0
  <2>2. T = {}
    BY <1>0, <2>1, FS_EmptySet
  <2> QED BY <2>2
<1>2. ASSUME NEW n \in Nat, n \in N
      PROVE  n + 1 \in N
  <2> SUFFICES ASSUME NEW T \in SUBSET S, Cardinality(T) <= n + 1
               PROVE  T \in G
    OBVIOUS
  <2>1. ASSUME NEW U \in SUBSET T, U # T
        PROVE  U \in G
    <3>1. Cardinality(U) <= n
      BY <1>0, <2>1, SmallerPart
    <3> QED BY <1>2, <3>1
  <2> QED BY <2>1
<1>3. Nat \subseteq N
  BY ZenonT(120), <1>1, <1>2, CountingUp
<1> QED
  <2> SUFFICES ASSUME NEW T \in SUBSET S
               PROVE  T \in G
    OBVIOUS
  <2>1. Cardinality(T) \in N /\ Cardinality(T) <= Cardinality(T)
    BY <1>0, <1>3
  <2> QED BY <2>1

-----------------------------------------------------------------------------

\* The element of s that the fold takes next, what it makes of s, and the fold.
Picked(s) == CHOOSE x \in s : TRUE

Term(f, s, g) == IF s = {} THEN 0 ELSE f[Picked(s)] + g[s \ {Picked(s)}]

Iter(f, S) == CHOOSE iter : iter = [s \in SUBSET S |-> Term(f, s, iter)]

\* SumFunctionOnSet is the fold that Iter spells out.
LEMMA SumIsIter ==
  ASSUME NEW f, NEW S
  PROVE  SumFunctionOnSet(f, S) = Iter(f, S)[S]
BY DEF SumFunctionOnSet, FoldFunctionOnSet, MapThenFoldSet, Iter, Term, Picked

\* The element that the fold picks is one of the set.
LEMMA PickedIn == ASSUME NEW s, s # {} PROVE Picked(s) \in s
BY DEF Picked

\* The recursion that defines the fold has a solution: it is built up to every size
\* of set in turn.
LEMMA IterExists ==
  ASSUME NEW f, NEW S, IsFiniteSet(S)
  PROVE  \E g : g = [s \in SUBSET S |-> Term(f, s, g)]
<1> DEFINE Sub(n) == {s \in SUBSET S : Cardinality(s) <= n}
           N == {n \in Nat : \E g : g = [s \in Sub(n) |-> Term(f, s, g)]}
<1>0. \A s \in SUBSET S : IsFiniteSet(s) /\ Cardinality(s) \in Nat /\ Cardinality(s) <= Cardinality(S)
  BY FS_Subset, FS_CardinalityType
<1>1. 0 \in N
  <2>1. \A s \in Sub(0) : s = {}
    BY <1>0, FS_EmptySet
  <2> DEFINE g == [s \in Sub(0) |-> 0]
  <2>2. g = [s \in Sub(0) |-> Term(f, s, g)]
    BY <2>1 DEF Term
  <2> QED BY <2>2
<1>2. ASSUME NEW n \in Nat, n \in N
      PROVE  n + 1 \in N
  <2>1. PICK h : h = [s \in Sub(n) |-> Term(f, s, h)]
    BY <1>2
  <2> DEFINE g == [s \in Sub(n + 1) |-> Term(f, s, h)]
  <2> HIDE DEF Sub
  <2>2. ASSUME NEW s \in Sub(n)
        PROVE  s \in Sub(n + 1) /\ g[s] = h[s]
    <3>1. s \in Sub(n + 1)
      BY <1>0 DEF Sub
    <3>2. g[s] = Term(f, s, h) /\ h[s] = Term(f, s, h)
      BY <3>1, <2>1
    <3> QED BY <3>1, <3>2
  <2>3. ASSUME NEW s \in Sub(n + 1)
        PROVE  Term(f, s, h) = Term(f, s, g)
    <3>1. CASE s = {}
      BY <3>1 DEF Term
    <3>2. CASE s # {}
      <4>1. s \ {Picked(s)} \in Sub(n)
        BY <1>0, <3>2, PickedIn, SmallerPart DEF Sub
      <4> QED BY <4>1, <2>2, <3>2 DEF Term
    <3> QED BY <3>1, <3>2
  <2>4. g = [s \in Sub(n + 1) |-> Term(f, s, g)]
    BY <2>3
  <2>5. \E k : k = [s \in Sub(n + 1) |-> Term(f, s, k)]
    <3> HIDE DEF g
    <3> WITNESS g
    <3> QED BY <2>4
  <2>6. n + 1 \in Nat
    OBVIOUS
  <2> QED BY <2>5, <2>6
<1>3. Nat \subseteq N
  BY <1>1, <1>2, CountingUp
<1>4. Sub(Cardinality(S)) = SUBSET S
  BY <1>0
<1>5. Cardinality(S) \in N
  BY <1>0, <1>3
<1> QED BY <1>4, <1>5

\* The fold satisfies its recursion.
LEMMA IterUnfolds ==
  ASSUME NEW f, NEW S, IsFiniteSet(S)
  PROVE  \A s \in SUBSET S : Iter(f, S)[s] = Term(f, s, Iter(f, S))
<1>1. Iter(f, S) = [s \in SUBSET S |-> Term(f, s, Iter(f, S))]
  BY IterExists DEF Iter
<1> QED BY <1>1

\* The fold over a set gives for a part of it what the fold over the part gives.
LEMMA IterOfPart ==
  ASSUME NEW f, NEW S, IsFiniteSet(S), NEW T \in SUBSET S
  PROVE  Iter(f, S)[T] = Iter(f, T)[T]
<1> DEFINE G == {s \in SUBSET T : Iter(f, S)[s] = Iter(f, T)[s]}
<1>0. IsFiniteSet(T) /\ \A s \in SUBSET T : IsFiniteSet(s)
  BY FS_Subset
<1>1. \A s \in SUBSET T : /\ Iter(f, S)[s] = Term(f, s, Iter(f, S))
                          /\ Iter(f, T)[s] = Term(f, s, Iter(f, T))
  BY <1>0, IterUnfolds
<1>2. ASSUME NEW s \in SUBSET T, \A u \in SUBSET s : u # s => u \in G
      PROVE  s \in G
  <2>1. CASE s = {}
    BY <1>1, <2>1 DEF Term
  <2>2. CASE s # {}
    <3>1. Picked(s) \in s
      BY <2>2, PickedIn
    <3>2. s \ {Picked(s)} \in G
      BY <1>2, <3>1
    <3>3. Iter(f, S)[s \ {Picked(s)}] = Iter(f, T)[s \ {Picked(s)}]
      BY <3>2
    <3> QED BY <1>1, <2>2, <3>3 DEF Term
  <2> QED BY <2>1, <2>2
<1>3. SUBSET T \subseteq G
  <2> HIDE DEF G
  <2> QED BY <1>0, <1>2, SmallerSetsFirst
<1> QED BY <1>3

\* The sum over the empty set is 0, over another one the picked value and the sum of
\* the rest.
LEMMA SumUnfolds ==
  ASSUME NEW f, NEW S, IsFiniteSet(S)
  PROVE  /\ S = {} => SumFunctionOnSet(f, S) = 0
         /\ S # {} => SumFunctionOnSet(f, S)
                        = f[Picked(S)] + SumFunctionOnSet(f, S \ {Picked(S)})
<1>1. Iter(f, S)[S] = Term(f, S, Iter(f, S))
  BY IterUnfolds
<1>2. S # {} => Iter(f, S)[S \ {Picked(S)}] = Iter(f, S \ {Picked(S)})[S \ {Picked(S)}]
  BY IterOfPart
<1> QED BY <1>1, <1>2, SumIsIter DEF Term

-----------------------------------------------------------------------------

\* A sum of naturals is a natural, and any term can be taken out of it.
LEMMA SumSplit ==
  ASSUME NEW f, NEW S, IsFiniteSet(S), \A x \in S : f[x] \in Nat
  PROVE  /\ SumFunctionOnSet(f, S) \in Nat
         /\ \A x \in S : SumFunctionOnSet(f, S) = f[x] + SumFunctionOnSet(f, S \ {x})
<1> DEFINE Sum(T) == SumFunctionOnSet(f, T)
           G == {T \in SUBSET S : /\ Sum(T) \in Nat
                                  /\ \A x \in T : Sum(T) = f[x] + Sum(T \ {x})}
<1>1. \A T \in SUBSET S : IsFiniteSet(T)
  BY FS_Subset
<1>2. ASSUME NEW T \in SUBSET S, \A U \in SUBSET T : U # T => U \in G
      PROVE  T \in G
  <2>1. CASE T = {}
    <3>1. Sum(T) = 0
      BY <1>1, <2>1, SumUnfolds
    <3> HIDE DEF Sum
    <3> QED BY <2>1, <3>1
  <2>2. CASE T # {}
    <3> DEFINE p == Picked(T)
    <3>1. p \in T
      BY <2>2, PickedIn
    <3>2. Sum(T) = f[p] + Sum(T \ {p})
      BY <1>1, <2>2, SumUnfolds
    <3> HIDE DEF p
    <3>3. Sum(T \ {p}) \in Nat /\ f[p] \in Nat
      BY <1>2, <3>1
    <3>4. Sum(T) \in Nat
      <4> HIDE DEF Sum
      <4> QED BY <3>2, <3>3
    <3>5. ASSUME NEW x \in T, x # p
          PROVE  Sum(T) = f[x] + Sum(T \ {x})
      <4>1. Sum(T \ {p}) = f[x] + Sum((T \ {p}) \ {x})
        BY <1>2, <3>1, <3>5
      <4>2. Sum(T \ {x}) = f[p] + Sum((T \ {x}) \ {p})
        BY <1>2, <3>1, <3>5
      <4>3. (T \ {p}) \ {x} = (T \ {x}) \ {p}
        OBVIOUS
      <4>4. f[x] \in Nat /\ Sum(T \ {x}) \in Nat /\ Sum((T \ {x}) \ {p}) \in Nat
        BY <1>2, <3>5
      <4> HIDE DEF Sum
      <4> QED BY <3>2, <3>3, <4>1, <4>2, <4>3, <4>4
    <3> QED BY <3>2, <3>4, <3>5
  <2> QED BY <2>1, <2>2
<1>3. SUBSET S \subseteq G
  <2> HIDE DEF G
  <2> QED BY <1>2, SmallerSetsFirst
<1> QED BY <1>3

\* A sum depends only on the values it adds up.
LEMMA SumEqual ==
  ASSUME NEW f, NEW g, NEW S, IsFiniteSet(S), \A x \in S : f[x] = g[x]
  PROVE  SumFunctionOnSet(f, S) = SumFunctionOnSet(g, S)
<1> DEFINE G == {T \in SUBSET S : SumFunctionOnSet(f, T) = SumFunctionOnSet(g, T)}
<1>1. ASSUME NEW T \in SUBSET S, \A U \in SUBSET T : U # T => U \in G
      PROVE  T \in G
  <2>1. IsFiniteSet(T)
    BY FS_Subset
  <2>2. CASE T = {}
    BY <2>1, <2>2, SumUnfolds
  <2>3. CASE T # {}
    <3>1. Picked(T) \in T
      BY <2>3, PickedIn
    <3>2. T \ {Picked(T)} \in G
      BY <1>1, <3>1
    <3>3. SumFunctionOnSet(f, T \ {Picked(T)}) = SumFunctionOnSet(g, T \ {Picked(T)})
      BY <3>2
    <3>4. f[Picked(T)] = g[Picked(T)]
      BY <3>1
    <3> QED BY <2>1, <2>3, <3>3, <3>4, SumUnfolds
  <2> QED BY <2>2, <2>3
<1>2. SUBSET S \subseteq G
  <2> HIDE DEF G
  <2> QED BY SMTT(120), <1>1, SmallerSetsFirst
<1> QED BY <1>2

\* When one term changes, the sum changes as the term does.
LEMMA SumChange ==
  ASSUME NEW f, NEW g, NEW S, IsFiniteSet(S), NEW x \in S,
         \A y \in S : f[y] \in Nat /\ g[y] \in Nat,
         \A y \in S \ {x} : f[y] = g[y]
  PROVE  SumFunctionOnSet(g, S) + f[x] = SumFunctionOnSet(f, S) + g[x]
<1>1. /\ SumFunctionOnSet(f, S) = f[x] + SumFunctionOnSet(f, S \ {x})
      /\ SumFunctionOnSet(g, S) = g[x] + SumFunctionOnSet(g, S \ {x})
  BY SumSplit
<1>2. IsFiniteSet(S \ {x})
  BY FS_RemoveElement
<1>3. SumFunctionOnSet(f, S \ {x}) = SumFunctionOnSet(g, S \ {x})
  BY <1>2, SumEqual
<1>4. SumFunctionOnSet(f, S \ {x}) \in Nat /\ f[x] \in Nat /\ g[x] \in Nat
  BY <1>2, SumSplit
<1> QED BY <1>1, <1>3, <1>4

\* The sum of term-wise sums.
LEMMA SumPlus ==
  ASSUME NEW f, NEW g, NEW h, NEW S, IsFiniteSet(S),
         \A x \in S : f[x] \in Nat /\ g[x] \in Nat /\ h[x] = f[x] + g[x]
  PROVE  SumFunctionOnSet(h, S) = SumFunctionOnSet(f, S) + SumFunctionOnSet(g, S)
<1> DEFINE G == {T \in SUBSET S :
                  SumFunctionOnSet(h, T) = SumFunctionOnSet(f, T) + SumFunctionOnSet(g, T)}
<1>1. ASSUME NEW T \in SUBSET S, \A U \in SUBSET T : U # T => U \in G
      PROVE  T \in G
  <2>1. IsFiniteSet(T)
    BY FS_Subset
  <2>2. CASE T = {}
    <3>1. SumFunctionOnSet(h, T) = 0 /\ SumFunctionOnSet(f, T) = 0 /\ SumFunctionOnSet(g, T) = 0
      BY <2>1, <2>2, SumUnfolds
    <3> QED BY <3>1
  <2>3. CASE T # {}
    <3>1. PICK p \in T : p = Picked(T)
      BY <2>3, PickedIn
    <3>2. T \ {p} \in G /\ IsFiniteSet(T \ {p})
      BY <1>1, <2>1, FS_RemoveElement
    <3>3. SumFunctionOnSet(h, T \ {p})
            = SumFunctionOnSet(f, T \ {p}) + SumFunctionOnSet(g, T \ {p})
      BY <3>2
    <3>4. SumFunctionOnSet(f, T \ {p}) \in Nat /\ SumFunctionOnSet(g, T \ {p}) \in Nat
      BY <3>2, SumSplit
    <3>5. f[p] \in Nat /\ g[p] \in Nat /\ h[p] = f[p] + g[p]
      OBVIOUS
    <3>6. /\ SumFunctionOnSet(h, T) = h[p] + SumFunctionOnSet(h, T \ {p})
          /\ SumFunctionOnSet(f, T) = f[p] + SumFunctionOnSet(f, T \ {p})
          /\ SumFunctionOnSet(g, T) = g[p] + SumFunctionOnSet(g, T \ {p})
      BY <2>1, <2>3, <3>1, SumUnfolds
    <3>7. SumFunctionOnSet(h, T) = SumFunctionOnSet(f, T) + SumFunctionOnSet(g, T)
      BY <3>3, <3>4, <3>5, <3>6
    <3> QED BY <3>7
  <2> QED BY <2>2, <2>3
<1>2. SUBSET S \subseteq G
  <2> HIDE DEF G
  <2> QED BY <1>1, SmallerSetsFirst
<1> QED BY <1>2

\* Larger terms have a larger sum.
LEMMA SumMonotone ==
  ASSUME NEW f, NEW g, NEW S, IsFiniteSet(S),
         \A x \in S : f[x] \in Nat /\ g[x] \in Nat /\ f[x] <= g[x]
  PROVE  SumFunctionOnSet(f, S) <= SumFunctionOnSet(g, S)
<1> DEFINE d == [x \in S |-> g[x] - f[x]]
<1>1. \A x \in S : f[x] \in Nat /\ d[x] \in Nat /\ g[x] = f[x] + d[x]
  OBVIOUS
<1> HIDE DEF d
<1>2. SumFunctionOnSet(g, S) = SumFunctionOnSet(f, S) + SumFunctionOnSet(d, S)
  BY <1>1, SumPlus
<1>3. SumFunctionOnSet(f, S) \in Nat /\ SumFunctionOnSet(d, S) \in Nat
  BY <1>1, SumSplit
<1> QED BY <1>2, <1>3

\* Multiplication distributes over addition.
LEMMA Distribute ==
  ASSUME NEW c \in Nat, NEW a \in Nat, NEW b \in Nat
  PROVE  c * (a + b) = c * a + c * b
OBVIOUS

\* A common factor can be taken out of a sum.
LEMMA SumScaled ==
  ASSUME NEW f, NEW h, NEW c \in Nat, NEW S, IsFiniteSet(S),
         \A x \in S : f[x] \in Nat /\ h[x] = c * f[x]
  PROVE  SumFunctionOnSet(h, S) = c * SumFunctionOnSet(f, S)
<1> DEFINE G == {T \in SUBSET S : SumFunctionOnSet(h, T) = c * SumFunctionOnSet(f, T)}
<1>1. ASSUME NEW T \in SUBSET S, \A U \in SUBSET T : U # T => U \in G
      PROVE  T \in G
  <2>1. IsFiniteSet(T)
    BY FS_Subset
  <2>2. CASE T = {}
    <3>1. SumFunctionOnSet(h, T) = 0 /\ SumFunctionOnSet(f, T) = 0
      BY <2>1, <2>2, SumUnfolds
    <3> QED BY <3>1
  <2>3. CASE T # {}
    <3>1. PICK p \in T : p = Picked(T)
      BY <2>3, PickedIn
    <3>2. T \ {p} \in G /\ IsFiniteSet(T \ {p})
      BY <1>1, <2>1, FS_RemoveElement
    <3>3. SumFunctionOnSet(h, T \ {p}) = c * SumFunctionOnSet(f, T \ {p})
      BY <3>2
    <3>4. SumFunctionOnSet(f, T \ {p}) \in Nat
      BY <3>2, SumSplit
    <3>5. f[p] \in Nat /\ h[p] = c * f[p]
      OBVIOUS
    <3>6. /\ SumFunctionOnSet(h, T) = h[p] + SumFunctionOnSet(h, T \ {p})
          /\ SumFunctionOnSet(f, T) = f[p] + SumFunctionOnSet(f, T \ {p})
      BY <2>1, <2>3, <3>1, SumUnfolds
    <3>7. SumFunctionOnSet(h, T) = c * SumFunctionOnSet(f, T)
      BY <3>3, <3>4, <3>5, <3>6, Distribute
    <3> QED BY <3>7
  <2> QED BY <2>2, <2>3
<1>2. SUBSET S \subseteq G
  <2> HIDE DEF G
  <2> QED BY <1>1, SmallerSetsFirst
<1> QED BY <1>2

\* A sum of ones counts the set.
LEMMA SumOnes ==
  ASSUME NEW f, NEW S, IsFiniteSet(S), \A x \in S : f[x] = 1
  PROVE  SumFunctionOnSet(f, S) = Cardinality(S)
<1> DEFINE G == {T \in SUBSET S : SumFunctionOnSet(f, T) = Cardinality(T)}
<1>1. ASSUME NEW T \in SUBSET S, \A U \in SUBSET T : U # T => U \in G
      PROVE  T \in G
  <2>1. IsFiniteSet(T)
    BY FS_Subset
  <2>2. CASE T = {}
    BY <2>1, <2>2, SumUnfolds, FS_EmptySet
  <2>3. CASE T # {}
    <3>1. PICK p \in T : p = Picked(T)
      BY <2>3, PickedIn
    <3>2. T \ {p} \in G
      BY <1>1
    <3>3. SumFunctionOnSet(f, T \ {p}) = Cardinality(T \ {p})
      BY <3>2
    <3>4. Cardinality(T \ {p}) = Cardinality(T) - 1 /\ Cardinality(T) \in Nat
      BY <2>1, FS_RemoveElement, FS_CardinalityType
    <3>5. SumFunctionOnSet(f, T) = f[p] + SumFunctionOnSet(f, T \ {p}) /\ f[p] = 1
      BY <2>1, <2>3, <3>1, SumUnfolds
    <3>6. SumFunctionOnSet(f, T) = Cardinality(T)
      BY <3>3, <3>4, <3>5
    <3> QED BY <3>6
  <2> QED BY <2>2, <2>3
<1>2. SUBSET S \subseteq G
  <2> HIDE DEF G
  <2> QED BY SMTT(120), <1>1, SmallerSetsFirst
<1> QED BY <1>2

\* A sum of equal terms.
LEMMA SumConstant ==
  ASSUME NEW f, NEW c \in Nat, NEW S, IsFiniteSet(S), \A x \in S : f[x] = c
  PROVE  SumFunctionOnSet(f, S) = c * Cardinality(S)
<1> DEFINE one == [x \in S |-> 1]
<1>1. \A x \in S : one[x] = 1
  OBVIOUS
<1> HIDE DEF one
<1>2. \A x \in S : one[x] \in Nat /\ f[x] = c * one[x]
  BY <1>1
<1>3. SumFunctionOnSet(f, S) = c * SumFunctionOnSet(one, S)
  BY <1>2, SumScaled
<1> QED BY <1>1, <1>3, SumOnes

\* No term exceeds the sum, and the sum is 0 exactly when all terms are.
LEMMA SumZero ==
  ASSUME NEW f, NEW S, IsFiniteSet(S), \A x \in S : f[x] \in Nat
  PROVE  /\ \A x \in S : f[x] <= SumFunctionOnSet(f, S)
         /\ SumFunctionOnSet(f, S) = 0 <=> \A x \in S : f[x] = 0
<1>1. ASSUME NEW x \in S
      PROVE  f[x] <= SumFunctionOnSet(f, S)
  <2>1. SumFunctionOnSet(f, S \ {x}) \in Nat
    BY FS_RemoveElement, SumSplit
  <2>2. SumFunctionOnSet(f, S) = f[x] + SumFunctionOnSet(f, S \ {x})
    BY SumSplit
  <2> QED BY <2>1, <2>2
<1>2. ASSUME \A x \in S : f[x] = 0
      PROVE  SumFunctionOnSet(f, S) = 0
  <2>1. SumFunctionOnSet(f, S) = 0 * Cardinality(S)
    BY <1>2, SumConstant
  <2> QED BY <2>1, FS_CardinalityType
<1>3. ASSUME SumFunctionOnSet(f, S) = 0, NEW x \in S
      PROVE  f[x] = 0
  BY <1>1, <1>3
<1> QED BY <1>1, <1>2, <1>3

\* The sum over a set is the sum over a part of it plus the sum over the rest.
LEMMA SumUnion ==
  ASSUME NEW f, NEW S, IsFiniteSet(S), \A x \in S : f[x] \in Nat, NEW P \in SUBSET S
  PROVE  SumFunctionOnSet(f, S) = SumFunctionOnSet(f, P) + SumFunctionOnSet(f, S \ P)
<1> DEFINE Sum(T) == SumFunctionOnSet(f, T)
           G == {T \in SUBSET S : Sum(S) = Sum(T) + Sum(S \ T)}
<1>1. \A T \in SUBSET S : IsFiniteSet(T) /\ Sum(T) \in Nat
  BY FS_Subset, SumSplit
<1>2. ASSUME NEW T \in SUBSET S, \A U \in SUBSET T : U # T => U \in G
      PROVE  T \in G
  <2>1. CASE T = {}
    <3>1. S \ T = S
      BY <2>1
    <3>2. Sum(T) = 0
      BY SMTT(120), <1>1, <2>1, SumUnfolds
    <3> HIDE DEF Sum
    <3>3. Sum(S) = Sum(T) + Sum(S \ T)
      BY <1>1, <3>1, <3>2
    <3> QED BY <3>3
  <2>2. CASE T # {}
    <3>1. PICK p \in T : TRUE
      BY <2>2
    <3>2. T \ {p} \in G
      BY <1>2
    <3>3. (S \ (T \ {p})) \ {p} = S \ T
      BY <3>1
    <3>4. Sum(S) = Sum(T \ {p}) + Sum(S \ (T \ {p}))
      BY <3>2
    <3>5. Sum(T) = f[p] + Sum(T \ {p})
      BY <1>1, SumSplit
    <3>6. Sum(S \ (T \ {p})) = f[p] + Sum(S \ T)
      <4>1. S \ (T \ {p}) \in SUBSET S /\ p \in S \ (T \ {p})
        OBVIOUS
      <4> QED BY <1>1, <3>3, <4>1, SumSplit
    <3>7. f[p] \in Nat /\ Sum(T \ {p}) \in Nat /\ Sum(S \ T) \in Nat
      BY <1>1
    <3>8. Sum(S) = Sum(T) + Sum(S \ T)
      <4> DEFINE a == Sum(T \ {p})
                 b == Sum(S \ T)
                 c == Sum(S \ (T \ {p}))
                 e == f[p]
      <4>1. Sum(S) = a + c /\ Sum(T) = e + a /\ c = e + b
        BY <3>4, <3>5, <3>6
      <4>2. a \in Nat /\ b \in Nat /\ e \in Nat
        BY <3>7
      <4> HIDE DEF Sum, a, b, c, e
      <4>3. Sum(S) = Sum(T) + b
        BY <4>1, <4>2
      <4> QED BY <4>3 DEF b
    <3> QED BY <3>8
  <2> QED BY <2>1, <2>2
<1>3. SUBSET S \subseteq G
  <2> HIDE DEF G
  <2> QED BY <1>2, SmallerSetsFirst
<1> QED BY <1>3

\* Setting terms that were 0 to 1 adds their number to the sum.
LEMMA SumSetBits ==
  ASSUME NEW f, NEW g, NEW S, IsFiniteSet(S), NEW P \in SUBSET S,
         \A x \in S : f[x] \in Nat,
         \A x \in P : f[x] = 0 /\ g[x] = 1,
         \A x \in S \ P : g[x] = f[x]
  PROVE  SumFunctionOnSet(g, S) = SumFunctionOnSet(f, S) + Cardinality(P)
<1>1. IsFiniteSet(P) /\ IsFiniteSet(S \ P) /\ S \ P \in SUBSET S
  BY FS_Subset
<1>2. \A x \in S : g[x] \in Nat
  OBVIOUS
<1>3. /\ SumFunctionOnSet(f, S) = SumFunctionOnSet(f, P) + SumFunctionOnSet(f, S \ P)
      /\ SumFunctionOnSet(g, S) = SumFunctionOnSet(g, P) + SumFunctionOnSet(g, S \ P)
  BY <1>2, SumUnion
<1>4. SumFunctionOnSet(f, P) = 0
  BY <1>1, SumZero
<1>5. SumFunctionOnSet(g, P) = Cardinality(P) /\ Cardinality(P) \in Nat
  BY <1>1, SumOnes, FS_CardinalityType
<1>6. SumFunctionOnSet(g, S \ P) = SumFunctionOnSet(f, S \ P)
  BY <1>1, SumEqual
<1>7. SumFunctionOnSet(f, S \ P) \in Nat
  BY <1>1, SumSplit
<1> QED BY <1>3, <1>4, <1>5, <1>6, <1>7

-----------------------------------------------------------------------------
(* Clocks.                                                                 *)

\* A write raises an even version to the next even one (optik_lock, then
\* optik_unlock_write).
LEMMA WriteVersion ==
    ASSUME NEW v \in Even
    PROVE  /\ optik_unlock_write(Locked(v)) = v + 2
           /\ v + 2 \in Even
BY DEF optik_unlock_write, Locked, Even

\* Versions are naturals.
LEMMA EvenIsNat == Even \subseteq Nat
BY DEF Even

\* On an unlocked item's clock (v, c), optik_is_greater_version holds of
\* exactly the newer clocks: the version it compares with is odd, so no even
\* version lies in between.
LEMMA GreaterVersion ==
    ASSUME NEW v \in Even, NEW w \in Even, NEW c \in Nat, NEW d \in Nat
    PROVE  optik_is_greater_version(Locked(v), c, w, d) <=> Less(<<v, c>>, <<w, d>>)
<1>1. v + 1 < w <=> v < w
  BY DEF Even
<1>2. QED
  BY <1>1, EvenIsNat DEF optik_is_greater_version, Locked, Less

\* optik_is_same_version_plus_one is equality of clocks.
LEMMA SameVersion ==
    ASSUME NEW v \in Even, NEW w \in Even, NEW c, NEW d
    PROVE  optik_is_same_version_plus_one(Locked(v), c, w, d) <=> v = w /\ c = d
BY EvenIsNat DEF optik_is_same_version_plus_one, Locked

\* The order of timestamps is strict and total.
LEMMA LessTotal ==
    ASSUME NEW a \in Nat \X Nat, NEW b \in Nat \X Nat
    PROVE  /\ ~Less(a, b) <=> LessEq(b, a)
           /\ LessEq(a, a)
           /\ ~Less(a, a)
           /\ LessEq(a, b) /\ LessEq(b, a) => a = b
           /\ Less(a, b) => LessEq(a, b) /\ a # b
           /\ LessEq(a, b) /\ a # b => Less(a, b)
BY DEF Less, LessEq

\* The order of timestamps is transitive.
LEMMA LessTransitive ==
    ASSUME NEW a \in Nat \X Nat, NEW b \in Nat \X Nat, NEW c \in Nat \X Nat
    PROVE  /\ LessEq(a, b) /\ LessEq(b, c) => LessEq(a, c)
           /\ LessEq(a, b) /\ Less(b, c) => Less(a, c)
           /\ Less(a, b) /\ LessEq(b, c) => Less(a, c)
           /\ Less(a, b) /\ Less(b, c) => Less(a, c)
BY DEF Less, LessEq

=============================================================================
