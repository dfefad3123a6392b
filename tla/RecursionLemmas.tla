--------------------------- MODULE RecursionLemmas ---------------------------
(***************************************************************************)
(* What the proofs need to know of definitions by recursion.  Over the     *)
(* numbers up to a bound: that a function each of whose values follows     *)
(* from the one before exists.  Over the subsets of a finite set: that the *)
(* folds of the community modules, which pick one element and add its      *)
(* value to the sum of the others, are such functions, that it does not    *)
(* matter which element is picked, and that larger sets have larger sums.  *)
(* All is induction stated for sets rather than for operators.             *)
(***************************************************************************)
EXTENDS Integers, FiniteSets, FiniteSetTheorems, TLAPS

\* A set of naturals has a least element.
LEMMA LeastNatural ==
  ASSUME NEW S \in SUBSET Nat, S # {}
  PROVE  \E x \in S : \A y \in S : x <= y
<1> DEFINE R == {ss \in Nat \X Nat : ss[1] < ss[2]}
<1>1. IsWellFoundedOn(R, Nat)
  BY NatLessThanWellFounded DEF OpToRel
<1>2. \E x \in S : \A y \in S : ~(<<y, x>> \in R)
  <2> HIDE DEF R
  <2> QED
    BY <1>1, WFMin
<1>3. PICK x \in S : \A y \in S : ~(y < x)
  BY <1>2
<1>4. \A y \in S : x <= y
  BY <1>3
<1> QED
  BY <1>4

\* A set of naturals that has 0 and every successor has them all.
LEMMA NatSetInduction ==
  ASSUME NEW S, 0 \in S, \A n \in Nat : n \in S => n + 1 \in S
  PROVE  Nat \subseteq S
<1> SUFFICES ASSUME Nat \ S # {} PROVE FALSE
  OBVIOUS
<1>1. PICK x \in Nat \ S : \A y \in Nat \ S : x <= y
  BY LeastNatural
<1>2. x # 0 /\ x - 1 \in Nat
  BY <1>1
<1>3. x - 1 \in S
  BY <1>1, <1>2
<1> QED
  BY <1>1, <1>2, <1>3

\* The functions on 0 .. top that begin with first and go on as step says.
Runs(top, T, first, step) ==
  {f \in [0 .. top -> T] : \A n \in 0 .. top : f[n] = IF n = 0 THEN first ELSE step[<<n, f[n - 1]>>]}

\* There is one.
LEMMA RunsExist ==
  ASSUME NEW top \in Nat, NEW T, NEW first \in T, NEW step \in [(1 .. top) \X T -> T]
  PROVE  Runs(top, T, first, step) # {}
<1> DEFINE Upto(k) == Runs(k, T, first, step)
           N == {k \in Nat : k <= top => Upto(k) # {}}
<1>1. 0 \in N
  <2> DEFINE f == [n \in 0 .. 0 |-> first]
  <2>1. f \in [0 .. 0 -> T] /\ \A n \in 0 .. 0 : n = 0 /\ f[n] = first
    BY SMT
  <2> HIDE DEF f
  <2>2. f \in Upto(0)
    BY <2>1 DEF Runs
  <2> QED
    BY <2>2
<1>2. ASSUME NEW k \in Nat, k \in N PROVE k + 1 \in N
  <2> HIDE DEF Upto
  <2> SUFFICES ASSUME k + 1 <= top PROVE Upto(k + 1) # {}
    OBVIOUS
  <2>1. PICK f : f \in Upto(k)
    BY <1>2
  <2> USE DEF Upto, Runs
  <2> DEFINE more == [n \in 0 .. k + 1 |-> IF n = k + 1 THEN step[<<k + 1, f[k]>>] ELSE f[n]]
  <2>2. f \in [0 .. k -> T] /\ f[k] \in T
    BY <2>1
  <2>3. k + 1 \in 1 .. top
    OBVIOUS
  <2>4. <<k + 1, f[k]>> \in (1 .. top) \X T
    BY <2>2, <2>3
  <2>5. step[<<k + 1, f[k]>>] \in T
    BY <2>4
  <2>6. more \in [0 .. k + 1 -> T]
    BY <2>2, <2>5
  <2>7. ASSUME NEW n \in 0 .. k + 1
        PROVE  more[n] = IF n = 0 THEN first ELSE step[<<n, more[n - 1]>>]
    <3>1. CASE n = k + 1
      <4>1. n # 0 /\ n - 1 = k /\ more[n - 1] = f[k] /\ more[n] = step[<<k + 1, f[k]>>]
        BY <3>1, SMT
      <4> QED
        BY <3>1, <4>1
    <3>2. CASE n # k + 1
      <4>1. n \in 0 .. k /\ more[n] = f[n] /\ (n # 0 => more[n - 1] = f[n - 1])
        BY <3>2, SMT
      <4>2. f[n] = IF n = 0 THEN first ELSE step[<<n, f[n - 1]>>]
        BY <2>1, <4>1
      <4> QED
        BY <4>1, <4>2
    <3> QED
      BY <3>1, <3>2
  <2> HIDE DEF more
  <2>8. more \in Upto(k + 1)
    BY <2>6, <2>7
  <2> QED
    BY <2>8
<1> HIDE DEF N
<1>3. top \in N
  BY <1>1, <1>2, NatSetInduction
<1> USE DEF N
<1> QED
  BY <1>3

\* What holds of a set when it holds of its proper subsets holds of all of them.
LEMMA SubsetInduction ==
  ASSUME NEW S, IsFiniteSet(S), NEW Q,
         \A T \in SUBSET S : (\A U \in SUBSET T : U # T => U \in Q) => T \in Q
  PROVE  \A T \in SUBSET S : T \in Q
<1> SUFFICES ASSUME NEW A \in SUBSET S, A \notin Q PROVE FALSE
  OBVIOUS
<1> DEFINE R == StrictSubsetOrdering(S)
           B == (SUBSET S) \ Q
<1>1. IsWellFoundedOn(R, FiniteSubsetsOf(S)) /\ FiniteSubsetsOf(S) = SUBSET S
  BY FS_StrictSubsetOrderingWellFounded, FS_FiniteSubsetsOfFinite
<1>2. B \subseteq SUBSET S /\ B # {}
  OBVIOUS
<1>3. \E T \in B : \A U \in B : ~ (<<U, T>> \in R)
  <2> HIDE DEF R, B
  <2> QED
    BY <1>1, <1>2, WFMin
<1>4. PICK T \in SUBSET S : T \notin Q /\ \A U \in SUBSET T : U # T => U \in Q
  BY <1>3 DEF StrictSubsetOrdering
<1> QED
  BY <1>4

Picked(T) == CHOOSE x \in T : TRUE

\* g adds up f over the subsets in D, one element at a time.
Adds(g, f, D) == \A T \in D : g[T] = IF T = {} THEN 0 ELSE f[Picked(T)] + g[T \ {Picked(T)}]

\* The recursion has a solution: one for the subsets of up to n elements
\* extends to those of n + 1.
LEMMA SumExists ==
  ASSUME NEW S, IsFiniteSet(S), NEW f \in [S -> Nat]
  PROVE  \E g \in [SUBSET S -> Nat] : Adds(g, f, SUBSET S)
<1> DEFINE Upto(n) == {T \in SUBSET S : Cardinality(T) <= n}
           N == {n \in Nat : \E g \in [Upto(n) -> Nat] : Adds(g, f, Upto(n))}
<1>0. ASSUME NEW T \in SUBSET S
      PROVE  /\ IsFiniteSet(T) /\ Cardinality(T) \in Nat /\ (Cardinality(T) = 0 <=> T = {})
             /\ T # {} => /\ Picked(T) \in T /\ Picked(T) \in S
                         /\ T \ {Picked(T)} \in SUBSET S
                         /\ Cardinality(T \ {Picked(T)}) = Cardinality(T) - 1
  <2>1. IsFiniteSet(T)
    BY FS_Subset
  <2>2. T # {} => Picked(T) \in T
    BY DEF Picked
  <2> QED
    BY <2>1, <2>2, FS_CardinalityType, FS_EmptySet, FS_RemoveElement
<1>1. 0 \in N
  <2> DEFINE g == [T \in Upto(0) |-> 0]
  <2>1. g \in [Upto(0) -> Nat] /\ Adds(g, f, Upto(0))
    BY <1>0 DEF Adds
  <2> QED
    BY <2>1
<1>2. ASSUME NEW n \in Nat, n \in N PROVE n + 1 \in N
  <2>1. PICK g \in [Upto(n) -> Nat] : Adds(g, f, Upto(n))
    BY <1>2
  <2> DEFINE h == [T \in Upto(n + 1) |-> IF T = {} THEN 0 ELSE f[Picked(T)] + g[T \ {Picked(T)}]]
  <2>2. ASSUME NEW T \in Upto(n + 1), T # {} PROVE T \ {Picked(T)} \in Upto(n) /\ Picked(T) \in S
    BY <1>0, <2>2
  <2>3. h \in [Upto(n + 1) -> Nat]
    <3> SUFFICES ASSUME NEW T \in Upto(n + 1), T # {} PROVE f[Picked(T)] + g[T \ {Picked(T)}] \in Nat
      OBVIOUS
    <3>1. f[Picked(T)] \in Nat /\ g[T \ {Picked(T)}] \in Nat
      BY <2>1, <2>2
    <3> QED
      BY <3>1
  <2>4. \A T \in Upto(n) : h[T] = g[T]
    <3> SUFFICES ASSUME NEW T \in Upto(n) PROVE h[T] = g[T]
      OBVIOUS
    <3>1. Cardinality(T) \in Nat
      BY <1>0
    <3>2. T \in Upto(n + 1)
      BY <3>1
    <3> QED
      BY <2>1, <3>2 DEF Adds
  <2>5. Adds(h, f, Upto(n + 1))
    BY <2>2, <2>4 DEF Adds
  <2> HIDE DEF h, Upto
  <2>6. \E k \in [Upto(n + 1) -> Nat] : Adds(k, f, Upto(n + 1))
    BY <2>3, <2>5
  <2> QED
    BY <2>6
<1>3. Cardinality(S) \in N
  <2>1. Cardinality(S) \in Nat
    BY <1>0
  <2> HIDE DEF N
  <2> QED
    BY <1>1, <1>2, <2>1, NatSetInduction
<1>4. Upto(Cardinality(S)) = SUBSET S
  BY FS_Subset
<1> QED
  BY <1>3, <1>4

\* Whichever element is taken out, the sum is less by its value.
LEMMA SumWithout ==
  ASSUME NEW S, IsFiniteSet(S), NEW f \in [S -> Nat],
         NEW g \in [SUBSET S -> Nat], Adds(g, f, SUBSET S),
         NEW A \in SUBSET S, NEW a \in A
  PROVE  g[A] = f[a] + g[A \ {a}]
<1> DEFINE Q == {T \in SUBSET S : \A x \in T : g[T] = f[x] + g[T \ {x}]}
<1>1. ASSUME NEW T \in SUBSET S, \A U \in SUBSET T : U # T => U \in Q PROVE T \in Q
  <2> SUFFICES ASSUME NEW x \in T PROVE g[T] = f[x] + g[T \ {x}]
    OBVIOUS
  <2> DEFINE y == Picked(T)
             R == (T \ {x}) \ {y}
  <2>1. y \in T /\ g[T] = f[y] + g[T \ {y}]
    BY DEF Adds, Picked
  <2>2. CASE x # y
    <3>1. T \ {y} \in Q /\ T \ {x} \in Q
      BY <1>1, <2>1
    <3>2. x \in T \ {y} /\ y \in T \ {x} /\ (T \ {y}) \ {x} = R
      BY <2>1, <2>2
    <3>3. g[T \ {y}] = f[x] + g[R] /\ g[T \ {x}] = f[y] + g[R]
      BY <3>1, <3>2
    <3>4. f[x] \in Nat /\ f[y] \in Nat /\ g[R] \in Nat
      BY <2>1
    <3> HIDE DEF R, y
    <3> QED
      BY <2>1, <3>3, <3>4
  <2> QED
    BY <2>1, <2>2
<1> HIDE DEF Q
<1>2. \A T \in SUBSET S : T \in Q
  BY <1>1, SubsetInduction
<1> QED
  BY <1>2 DEF Q

\* A larger set has no smaller sum.
LEMMA SumGrows ==
  ASSUME NEW S, IsFiniteSet(S), NEW f \in [S -> Nat],
         NEW g \in [SUBSET S -> Nat], Adds(g, f, SUBSET S),
         NEW A \in SUBSET S, NEW B \in SUBSET A
  PROVE  g[B] <= g[A]
<1> DEFINE Q == {T \in SUBSET S : \A U \in SUBSET T : g[U] <= g[T]}
<1>1. ASSUME NEW T \in SUBSET S, \A U \in SUBSET T : U # T => U \in Q PROVE T \in Q
  <2> SUFFICES ASSUME NEW U \in SUBSET T PROVE g[U] <= g[T]
    OBVIOUS
  <2>1. CASE U = T
    <3>1. g[T] \in Nat
      OBVIOUS
    <3> QED
      BY <2>1, <3>1
  <2>2. CASE U # T
    <3>1. PICK x \in T : x \notin U
      BY <2>2
    <3>2. g[U] <= g[T \ {x}]
      <4>1. T \ {x} \in Q /\ U \in SUBSET (T \ {x})
        BY <1>1, <3>1
      <4> QED
        BY <4>1
    <3>3. g[T] = f[x] + g[T \ {x}]
      BY SumWithout
    <3>4. f[x] \in Nat /\ g[U] \in Nat /\ g[T \ {x}] \in Nat
      OBVIOUS
    <3> QED
      BY <3>2, <3>3, <3>4
  <2> QED
    BY <2>1, <2>2
<1> HIDE DEF Q
<1>2. \A T \in SUBSET S : T \in Q
  BY <1>1, SubsetInduction
<1> QED
  BY <1>2 DEF Q
=============================================================================
