--------------------------- MODULE Algorithms_proofs ---------------------------
(***************************************************************************)
(* What the algorithms without state compute, for every input: the score   *)
(* of a submission, the lanes a list of processors is cut into, the        *)
(* comparison of an output that arrives in pieces, and a source stripped   *)
(* of its comments and literals.  All of them go over their data one       *)
(* element at a time, and the proofs go with them: a fact about numbers    *)
(* holds of all of them because a set of numbers that were an exception    *)
(* would have a least one.                                                 *)
(***************************************************************************)
EXTENDS MCRules, WellFoundedInduction, FiniteSetTheorems,
        SequenceTheorems, TLAPS

-----------------------------------------------------------------------------
(* Induction, as facts about sets of numbers.                              *)

\* A set of natural numbers that is not empty has a least element.
LEMMA Least ==
  ASSUME NEW S \in SUBSET Nat, S # {}
  PROVE  \E m \in S : \A k \in S : m <= k
<1>1. \A x, y \in Nat : <<x, y>> \in OpToRel(<, Nat) <=> x < y
  BY DEF OpToRel
<1>2. \E below : /\ IsWellFoundedOn(below, Nat)
                 /\ \A x, y \in Nat : <<x, y>> \in below <=> x < y
  BY <1>1, NatLessThanWellFounded
<1>3. PICK below : /\ IsWellFoundedOn(below, Nat)
                   /\ \A x, y \in Nat : <<x, y>> \in below <=> x < y
  BY <1>2
<1>4. IsWellFoundedOn(below, Nat) /\ S \subseteq Nat
  BY <1>3
<1>5. \E x \in S : \A y \in S : ~(<<y, x>> \in below)
  BY <1>4, WFMin
<1>6. PICK x \in S : \A y \in S : ~(<<y, x>> \in below)
  BY <1>5
<1>7. \A y \in S : ~(y < x)
  BY <1>3, <1>6
<1>8. QED
  BY <1>7

\* What holds of zero, and of the next number with each, holds of all.
LEMMA AllNumbers ==
  ASSUME NEW S \in SUBSET Nat, 0 \in S, \A n \in S : n + 1 \in S
  PROVE  S = Nat
<1>1. SUFFICES ASSUME Nat \ S # {} PROVE FALSE
  OBVIOUS
<1>2. PICK m \in Nat \ S : \A k \in Nat \ S : m <= k
  BY <1>1, Least
<1>3. m # 0 /\ m - 1 \in Nat /\ m - 1 \notin Nat \ S
  BY <1>2
<1>4. QED
  BY <1>2, <1>3

\* What holds of nothing, and of one element more with each set, holds of a
\* finite set.
LEMMA AllFinite ==
  ASSUME NEW S, IsFiniteSet(S), NEW F \in SUBSET SUBSET S, {} \in F,
         \A T \in F : \A x \in S \ T : T \cup {x} \in F
  PROVE  S \in F
<1> DEFINE Good == {n \in Nat : \A T \in SUBSET S : Cardinality(T) = n => T \in F}
<1>1. \A T \in SUBSET S :
        /\ IsFiniteSet(T) /\ Cardinality(T) \in Nat /\ (Cardinality(T) = 0 <=> T = {})
        /\ \A x \in T : Cardinality(T \ {x}) = Cardinality(T) - 1
  BY FS_Subset, FS_EmptySet, FS_CardinalityType, FS_RemoveElement
<1>2. 0 \in Good
  BY <1>1
<1>3. ASSUME NEW n \in Good PROVE n + 1 \in Good
  <2>1. ASSUME NEW T \in SUBSET S, Cardinality(T) = n + 1 PROVE T \in F
    <3>1. PICK x \in T : TRUE
      BY <1>1, <2>1
    <3>2. T \ {x} \in F /\ x \in S \ (T \ {x}) /\ T = (T \ {x}) \cup {x}
      BY <1>1, <2>1
    <3>3. QED
      BY <3>2
  <2>2. QED
    BY <2>1
<1>4. Good = Nat
  <2> HIDE DEF Good
  <2>1. Good \in SUBSET Nat
    BY DEF Good
  <2>2. QED
    BY <1>2, <1>3, <2>1, AllNumbers
<1>5. S \in SUBSET S /\ Cardinality(S) \in Good
  BY <1>1, <1>4
<1>6. QED
  BY <1>5

-----------------------------------------------------------------------------
(* Folds.  A fold over a finite set is the value at that set of a function *)
(* on its subsets that takes out one element at a time.                    *)

\* Which element is taken out, and what is done with it.
Takes(S, pick) ==
  pick \in [(SUBSET S) \ {{}} -> S] /\ \A T \in (SUBSET S) \ {{}} : pick[T] \in T
Folds(S, base, pick, step, g) ==
  \A T \in SUBSET S :
    g[T] = IF T = {} THEN base ELSE step[<<pick[T], g[T \ {pick[T]}]>>]

\* There is such a function, and its values are of the type of the step's.
LEMMA FoldExists ==
  ASSUME NEW S, IsFiniteSet(S), NEW V, NEW base \in V, NEW step \in [S \X V -> V],
         NEW pick, Takes(S, pick)
  PROVE  \E g \in [SUBSET S -> V] : Folds(S, base, pick, step, g)
<1> DEFINE Small(n) == {T \in SUBSET S : Cardinality(T) <= n}
           OnSmall(n, g) == \A T \in Small(n) :
             g[T] = IF T = {} THEN base ELSE step[<<pick[T], g[T \ {pick[T]}]>>]
           Good == {n \in Nat : \E g \in [Small(n) -> V] : OnSmall(n, g)}
<1>1. \A T \in SUBSET S : /\ IsFiniteSet(T) /\ Cardinality(T) \in Nat
                          /\ Cardinality(T) <= Cardinality(S)
                          /\ Cardinality(T) = 0 <=> T = {}
  BY FS_Subset, FS_EmptySet, FS_CardinalityType
<1>2. \A T \in (SUBSET S) \ {{}} :
        /\ pick[T] \in T /\ pick[T] \in S /\ T \ {pick[T]} \in SUBSET S
        /\ Cardinality(T \ {pick[T]}) = Cardinality(T) - 1
  BY <1>1, FS_RemoveElement DEF Takes
<1>3. 0 \in Good
  <2>1. Small(0) = {{}}
    BY <1>1
  <2>2. OnSmall(0, [T \in Small(0) |-> base])
    BY <2>1
  <2>3. [T \in Small(0) |-> base] \in [Small(0) -> V]
    OBVIOUS
  <2>4. QED
    BY <2>2, <2>3
<1>4. ASSUME NEW n \in Good PROVE n + 1 \in Good
  <2>1. PICK g \in [Small(n) -> V] : OnSmall(n, g)
    OBVIOUS
  <2> DEFINE h == [T \in Small(n + 1) |->
                     IF T = {} THEN base ELSE step[<<pick[T], g[T \ {pick[T]}]>>]]
  <2>2. \A T \in Small(n + 1) : T # {} => T \ {pick[T]} \in Small(n)
    BY <1>1, <1>2
  <2>3. \A T \in Small(n + 1) : T # {} => g[T \ {pick[T]}] \in V
    BY <2>1, <2>2
  <2>4. h \in [Small(n + 1) -> V]
    BY <2>3, <1>2
  <2>5. \A T \in Small(n) : T \in Small(n + 1) /\ h[T] = g[T]
    BY <2>1, <1>1
  <2>6. OnSmall(n + 1, h)
    BY <2>2, <2>5
  <2>7. n + 1 \in Nat
    OBVIOUS
  <2> HIDE DEF h, OnSmall, Small
  <2>8. QED
    BY <2>4, <2>6, <2>7
<1>5. Good = Nat
  <2> HIDE DEF Good
  <2>1. Good \in SUBSET Nat
    BY DEF Good
  <2>2. QED
    BY <1>3, <1>4, <2>1, AllNumbers
<1>6. Cardinality(S) \in Good /\ Small(Cardinality(S)) = SUBSET S
  BY <1>1, <1>5
<1>7. QED
  BY <1>6 DEF Folds

\* There is only one, whatever set it is a fold of.
LEMMA FoldUnique ==
  ASSUME NEW S, IsFiniteSet(S), NEW U \in SUBSET S, NEW base, NEW step,
         NEW pick, Takes(S, pick), NEW g, Folds(S, base, pick, step, g),
         NEW h, Folds(U, base, pick, step, h)
  PROVE  \A T \in SUBSET U : h[T] = g[T]
<1> DEFINE Same == {n \in Nat : \A T \in SUBSET U : Cardinality(T) = n => h[T] = g[T]}
<1>1. \A T \in SUBSET U : /\ T \in SUBSET S /\ IsFiniteSet(T) /\ Cardinality(T) \in Nat
                          /\ Cardinality(T) = 0 <=> T = {}
  BY FS_Subset, FS_EmptySet, FS_CardinalityType
<1>2. \A T \in (SUBSET U) \ {{}} :
        /\ T \ {pick[T]} \in SUBSET U
        /\ Cardinality(T \ {pick[T]}) = Cardinality(T) - 1
  BY <1>1, FS_RemoveElement DEF Takes
<1>3. 0 \in Same
  BY <1>1 DEF Folds
<1>4. ASSUME NEW n \in Same PROVE n + 1 \in Same
  <2>1. ASSUME NEW T \in SUBSET U, Cardinality(T) = n + 1 PROVE h[T] = g[T]
    <3>1. T # {} /\ T \in SUBSET S
      BY <1>1, <2>1
    <3>2. h[T \ {pick[T]}] = g[T \ {pick[T]}]
      BY <1>2, <2>1, <3>1
    <3>3. QED
      BY <3>1, <3>2 DEF Folds
  <2>2. QED
    BY <2>1
<1>5. Same = Nat
  <2> HIDE DEF Same
  <2>1. Same \in SUBSET Nat
    BY DEF Same
  <2>2. QED
    BY <1>3, <1>4, <2>1, AllNumbers
<1>6. QED
  BY <1>1, <1>5

-----------------------------------------------------------------------------
(* Sums over a finite set, of the values of a function.                    *)

Sum(p, S) == MapThenSumSet(LAMBDA i : p[i], S)

\* A sum takes its elements in the order of a CHOOSE, and adds.
SumPick(S) == [T \in (SUBSET S) \ {{}} |-> CHOOSE x \in T : TRUE]
SumStep(p, S) == [t \in S \X Int |-> p[t[1]] + t[2]]
SumFold(p, S, g) == Folds(S, 0, SumPick(S), SumStep(p, S), g)

\* The function a sum is defined by.
LEMMA SumIsFold ==
  ASSUME NEW S, IsFiniteSet(S), NEW p, \A i \in S : p[i] \in Int
  PROVE  \E g \in [SUBSET S -> Int] : SumFold(p, S, g) /\ Sum(p, S) = g[S]
<1> DEFINE body(g) == [T \in SUBSET S |->
                         IF T = {} THEN 0
                         ELSE LET x == CHOOSE x \in T : TRUE IN p[x] + g[T \ {x}]]
           iter == CHOOSE g : g = body(g)
<1> HIDE DEF body, iter
<1>1. Takes(S, SumPick(S))
  BY DEF Takes, SumPick
<1>2. SumStep(p, S) \in [S \X Int -> Int] /\ 0 \in Int
  BY DEF SumStep
<1>3. PICK g \in [SUBSET S -> Int] : SumFold(p, S, g)
  <2>1. \E g \in [SUBSET S -> Int] : Folds(S, 0, SumPick(S), SumStep(p, S), g)
    BY <1>1, <1>2, FoldExists
  <2>2. QED
    BY <2>1 DEF SumFold
<1>4. \A T \in (SUBSET S) \ {{}} :
        SumStep(p, S)[<<SumPick(S)[T], g[T \ {SumPick(S)[T]}]>>]
          = p[SumPick(S)[T]] + g[T \ {SumPick(S)[T]}]
  BY <1>1 DEF Takes, SumStep
<1>5. g = body(g)
  <2>1. g = [T \in SUBSET S |-> g[T]]
    OBVIOUS
  <2>2. \A T \in SUBSET S :
          g[T] = IF T = {} THEN 0 ELSE p[SumPick(S)[T]] + g[T \ {SumPick(S)[T]}]
    BY <1>3, <1>4 DEF SumFold, Folds
  <2>3. \A T \in SUBSET S :
          g[T] = IF T = {} THEN 0
                 ELSE LET x == CHOOSE x \in T : TRUE IN p[x] + g[T \ {x}]
    BY <2>2 DEF SumPick
  <2>4. QED
    BY <2>1, <2>3 DEF body
<1>6. iter = body(iter)
  BY <1>5 DEF iter
<1>7. iter = g
  <2> DEFINE wide == [t \in S \X (Int \cup {iter[T] : T \in SUBSET S}) |-> p[t[1]] + t[2]]
  <2>1. \A T \in (SUBSET S) \ {{}} : SumPick(S)[T] \in S /\ T \ {SumPick(S)[T]} \in SUBSET S
    BY <1>1 DEF Takes
  <2>2. \A T \in (SUBSET S) \ {{}} :
          wide[<<SumPick(S)[T], iter[T \ {SumPick(S)[T]}]>>]
            = p[SumPick(S)[T]] + iter[T \ {SumPick(S)[T]}]
    BY <2>1
  <2>3. \A T \in (SUBSET S) \ {{}} :
          wide[<<SumPick(S)[T], g[T \ {SumPick(S)[T]}]>>]
            = p[SumPick(S)[T]] + g[T \ {SumPick(S)[T]}]
    BY <2>1
  <2> HIDE DEF wide
  <2>4. Folds(S, 0, SumPick(S), wide, iter)
    <3>1. \A T \in SUBSET S :
            iter[T] = IF T = {} THEN 0
                      ELSE LET x == CHOOSE x \in T : TRUE IN p[x] + iter[T \ {x}]
      BY <1>6 DEF body
    <3>2. \A T \in SUBSET S :
            iter[T] = IF T = {} THEN 0
                      ELSE p[SumPick(S)[T]] + iter[T \ {SumPick(S)[T]}]
      BY <3>1 DEF SumPick
    <3>3. QED
      BY ONLY <2>2, <3>2 DEF Folds
  <2>5. Folds(S, 0, SumPick(S), wide, g)
    <3>1. \A T \in SUBSET S :
            g[T] = IF T = {} THEN 0 ELSE p[SumPick(S)[T]] + g[T \ {SumPick(S)[T]}]
      BY <1>3, <1>4 DEF SumFold, Folds
    <3>2. QED
      BY ONLY <2>3, <3>1 DEF Folds
  <2>6. \A T \in SUBSET S : iter[T] = g[T]
    BY <1>1, <2>4, <2>5, FoldUnique
  <2>7. QED
    BY <2>6, <1>6 DEF body
<1>8. Sum(p, S) = iter[S]
  BY DEF Sum, iter, body, MapThenSumSet, MapThenFoldSet
<1>9. QED
  BY <1>3, <1>7, <1>8

\* Nothing adds up to nothing; and of anything else some element is taken.
LEMMA SumTakes ==
  ASSUME NEW S, IsFiniteSet(S), NEW p, \A i \in S : p[i] \in Int
  PROVE  /\ Sum(p, S) \in Int
         /\ S = {} => Sum(p, S) = 0
         /\ S # {} => \E x \in S : Sum(p, S) = p[x] + Sum(p, S \ {x})
<1>1. PICK g \in [SUBSET S -> Int] : SumFold(p, S, g) /\ Sum(p, S) = g[S]
  BY SumIsFold
<1>2. S = {} => Sum(p, S) = 0
  BY <1>1 DEF SumFold, Folds
<1>3. ASSUME S # {} PROVE \E x \in S : Sum(p, S) = p[x] + Sum(p, S \ {x})
  <2> DEFINE x == SumPick(S)[S]
             U == S \ {x}
  <2>1. Takes(S, SumPick(S)) /\ x \in S /\ U \in SUBSET S
    BY <1>3 DEF Takes, SumPick
  <2> HIDE DEF x
  <2>2. IsFiniteSet(U)
    BY <2>1, FS_Subset
  <2>3. PICK h \in [SUBSET U -> Int] : SumFold(p, U, h) /\ Sum(p, U) = h[U]
    BY <2>2, SumIsFold
  <2>4. \A T \in (SUBSET U) \ {{}} :
          /\ SumPick(U)[T] = SumPick(S)[T] /\ SumPick(U)[T] \in T
          /\ SumStep(p, U)[<<SumPick(U)[T], h[T \ {SumPick(U)[T]}]>>]
               = SumStep(p, S)[<<SumPick(S)[T], h[T \ {SumPick(S)[T]}]>>]
    <3>1. \A T \in (SUBSET U) \ {{}} : SumPick(U)[T] = SumPick(S)[T] /\ SumPick(U)[T] \in T
      BY <2>1 DEF SumPick
    <3>2. \A T \in (SUBSET U) \ {{}} : h[T \ {SumPick(S)[T]}] \in Int
      OBVIOUS
    <3>3. QED
      BY <3>1, <3>2 DEF SumStep
  <2>5. Folds(U, 0, SumPick(S), SumStep(p, S), h)
    BY <2>3, <2>4 DEF SumFold, Folds
  <2>6. h[U] = g[U]
    BY <2>1, <2>5, <1>1, FoldUnique DEF SumFold
  <2>7. g[S] = SumStep(p, S)[<<x, g[U]>>] /\ g[U] \in Int
    BY <1>1, <1>3 DEF SumFold, Folds, x
  <2>8. g[S] = p[x] + g[U]
    BY <2>1, <2>7 DEF SumStep
  <2>9. QED
    BY <2>1, <2>3, <2>6, <2>8, <1>1
<1>4. QED
  BY <1>1, <1>2, <1>3

\* It does not matter which.
LEMMA SumOne ==
  ASSUME NEW S, IsFiniteSet(S), NEW p, \A i \in S : p[i] \in Int
  PROVE  \A x \in S : Sum(p, S) = p[x] + Sum(p, S \ {x})
<1> DEFINE Any(T) == \A x \in T : Sum(p, T) = p[x] + Sum(p, T \ {x})
           Good == {n \in Nat : \A T \in SUBSET S : Cardinality(T) = n => Any(T)}
<1>1. \A T \in SUBSET S :
        /\ IsFiniteSet(T) /\ Cardinality(T) \in Nat /\ (Cardinality(T) = 0 <=> T = {})
        /\ \A x \in T : Cardinality(T \ {x}) = Cardinality(T) - 1
        /\ \A i \in T : p[i] \in Int
  BY FS_Subset, FS_EmptySet, FS_CardinalityType, FS_RemoveElement
<1>2. \A T \in SUBSET S :
        Sum(p, T) \in Int /\ (T # {} => \E x \in T : Sum(p, T) = p[x] + Sum(p, T \ {x}))
  <2>1. ASSUME NEW T \in SUBSET S
        PROVE  Sum(p, T) \in Int /\ (T # {} => \E x \in T : Sum(p, T) = p[x] + Sum(p, T \ {x}))
    <3>1. IsFiniteSet(T) /\ \A i \in T : p[i] \in Int
      BY <1>1
    <3>2. QED
      BY <3>1, SumTakes
  <2>2. QED
    BY <2>1
<1>3. 0 \in Good
  <2>1. \A T \in SUBSET S : Cardinality(T) = 0 => T = {}
    BY <1>1
  <2>2. QED
    BY <2>1
<1>4. ASSUME NEW n \in Good PROVE n + 1 \in Good
  <2>1. ASSUME NEW T \in SUBSET S, Cardinality(T) = n + 1, NEW x \in T
        PROVE  Sum(p, T) = p[x] + Sum(p, T \ {x})
    <3>1. PICK y \in T : Sum(p, T) = p[y] + Sum(p, T \ {y})
      BY <1>2
    <3>2. CASE x = y
      BY <3>1, <3>2
    <3>3. CASE x # y
      <4>1. /\ T \ {x} \in SUBSET S /\ T \ {y} \in SUBSET S
            /\ Cardinality(T \ {x}) = n /\ Cardinality(T \ {y}) = n
        BY <1>1, <2>1
      <4>2. Any(T \ {x}) /\ Any(T \ {y})
        BY <4>1
      <4>3. Sum(p, T \ {y}) = p[x] + Sum(p, (T \ {y}) \ {x})
        BY <3>3, <4>2
      <4>4. Sum(p, T \ {x}) = p[y] + Sum(p, (T \ {x}) \ {y})
        BY <3>3, <4>2
      <4>5. (T \ {y}) \ {x} = (T \ {x}) \ {y}
        OBVIOUS
      <4>6. /\ Sum(p, (T \ {y}) \ {x}) \in Int /\ p[x] \in Int /\ p[y] \in Int
        BY <1>1, <1>2
      <4>7. QED
        <5> DEFINE rest == Sum(p, (T \ {x}) \ {y})
        <5> HIDE DEF rest
        <5>1. Sum(p, T \ {y}) = p[x] + rest /\ Sum(p, T \ {x}) = p[y] + rest /\ rest \in Int
          BY <4>3, <4>4, <4>5, <4>6 DEF rest
        <5>2. p[y] + (p[x] + rest) = p[x] + (p[y] + rest)
          BY <4>6, <5>1
        <5>3. QED
          BY <3>1, <5>1, <5>2
    <3>4. QED
      BY <3>2, <3>3
  <2>2. QED
    BY <2>1
<1>5. Good = Nat
  <2> HIDE DEF Good
  <2>1. Good \in SUBSET Nat
    BY DEF Good
  <2>2. QED
    BY <1>3, <1>4, <2>1, AllNumbers
<1>6. S \in SUBSET S /\ Cardinality(S) \in Good
  BY <1>1, <1>5
<1>7. QED
  BY <1>6

\* One element more.
LEMMA SumMore ==
  ASSUME NEW T, IsFiniteSet(T), NEW x, x \notin T, NEW p,
         \A i \in T \cup {x} : p[i] \in Int
  PROVE  /\ Sum(p, T \cup {x}) = p[x] + Sum(p, T)
         /\ Sum(p, T) \in Int
<1>1. IsFiniteSet(T \cup {x}) /\ (T \cup {x}) \ {x} = T /\ x \in T \cup {x}
  BY FS_AddElement
<1>2. Sum(p, T \cup {x}) = p[x] + Sum(p, (T \cup {x}) \ {x})
  BY <1>1, SumOne
<1>3. Sum(p, T) \in Int
  BY SumTakes
<1>4. QED
  BY <1>1, <1>2, <1>3

\* A sum does not decrease with what it is of.
LEMMA SumMonotonic ==
  ASSUME NEW S, IsFiniteSet(S), NEW p, NEW q,
         \A i \in S : p[i] \in Int /\ q[i] \in Int /\ p[i] <= q[i]
  PROVE  Sum(p, S) <= Sum(q, S)
<1> DEFINE F == {T \in SUBSET S : Sum(p, T) <= Sum(q, T)}
<1>1. {} \in F
  <2>1. Sum(p, {}) = 0 /\ Sum(q, {}) = 0
    BY SumTakes, FS_EmptySet
  <2>2. QED
    BY <2>1
<1>2. ASSUME NEW T \in F, NEW x \in S \ T PROVE T \cup {x} \in F
  <2>1. IsFiniteSet(T) /\ T \cup {x} \in SUBSET S
    BY FS_Subset
  <2>2. /\ Sum(p, T \cup {x}) = p[x] + Sum(p, T) /\ Sum(p, T) \in Int
        /\ Sum(q, T \cup {x}) = q[x] + Sum(q, T) /\ Sum(q, T) \in Int
    BY <2>1, SumMore
  <2>3. Sum(p, T) <= Sum(q, T) /\ p[x] <= q[x] /\ p[x] \in Int /\ q[x] \in Int
    OBVIOUS
  <2>4. QED
    BY <2>1, <2>2, <2>3
<1>3. S \in F
  <2> HIDE DEF F
  <2>1. F \in SUBSET SUBSET S
    BY DEF F
  <2>2. QED
    BY <1>1, <1>2, <2>1, AllFinite
<1>4. QED
  BY <1>3

\* So two sums are equal only where they are of the same.
LEMMA SumEqual ==
  ASSUME NEW S, IsFiniteSet(S), NEW p, NEW q,
         \A i \in S : p[i] \in Int /\ q[i] \in Int /\ p[i] <= q[i],
         Sum(q, S) <= Sum(p, S)
  PROVE  \A i \in S : p[i] = q[i]
<1> SUFFICES ASSUME NEW x \in S PROVE p[x] = q[x]
  OBVIOUS
<1>1. IsFiniteSet(S \ {x})
  BY FS_RemoveElement
<1>2. /\ Sum(p, S \ {x}) <= Sum(q, S \ {x})
      /\ Sum(p, S \ {x}) \in Int /\ Sum(q, S \ {x}) \in Int
  BY <1>1, SumMonotonic, SumTakes
<1>3. Sum(p, S) = p[x] + Sum(p, S \ {x}) /\ Sum(q, S) = q[x] + Sum(q, S \ {x})
  BY SumOne
<1>4. p[x] \in Int /\ q[x] \in Int /\ p[x] <= q[x]
  OBVIOUS
<1>5. QED
  BY <1>2, <1>3, <1>4

\* Two that make up the same with each other, for every element.
LEMMA SumAgainst ==
  ASSUME NEW S, IsFiniteSet(S), NEW p, NEW q, NEW c \in Int,
         \A i \in S : p[i] \in Int /\ q[i] \in Int /\ p[i] + q[i] = c
  PROVE  Sum(p, S) + Sum(q, S) = c * Cardinality(S)
<1> DEFINE F == {T \in SUBSET S : Sum(p, T) + Sum(q, T) = c * Cardinality(T)}
<1>1. {} \in F
  <2>1. Sum(p, {}) = 0 /\ Sum(q, {}) = 0 /\ Cardinality({}) = 0
    BY SumTakes, FS_EmptySet
  <2>2. QED
    BY <2>1
<1>2. ASSUME NEW T \in F, NEW x \in S \ T PROVE T \cup {x} \in F
  <2>1. IsFiniteSet(T) /\ T \cup {x} \in SUBSET S
    BY FS_Subset
  <2>2. /\ Sum(p, T \cup {x}) = p[x] + Sum(p, T) /\ Sum(p, T) \in Int
        /\ Sum(q, T \cup {x}) = q[x] + Sum(q, T) /\ Sum(q, T) \in Int
    BY <2>1, SumMore
  <2>3. Cardinality(T \cup {x}) = Cardinality(T) + 1 /\ Cardinality(T) \in Nat
    BY <2>1, FS_AddElement, FS_CardinalityType
  <2>4. /\ Sum(p, T) + Sum(q, T) = c * Cardinality(T)
        /\ p[x] + q[x] = c /\ p[x] \in Int /\ q[x] \in Int
    OBVIOUS
  <2>5. c * (Cardinality(T) + 1) = c * Cardinality(T) + c
    BY <2>3
  <2>6. QED
    BY <2>1, <2>2, <2>3, <2>4, <2>5
<1>3. S \in F
  <2> HIDE DEF F
  <2>1. F \in SUBSET SUBSET S
    BY DEF F
  <2>2. QED
    BY <1>1, <1>2, <2>1, AllFinite
<1>4. QED
  BY <1>3

\* The same for every element.
LEMMA SumConstant ==
  ASSUME NEW S, IsFiniteSet(S), NEW p, NEW c \in Int, \A i \in S : p[i] = c
  PROVE  Sum(p, S) = c * Cardinality(S)
<1> DEFINE zero == [i \in S |-> 0]
<1>1. \A i \in S : /\ zero[i] \in Int /\ p[i] \in Int
                    /\ zero[i] + zero[i] = 0 /\ p[i] + zero[i] = c
  OBVIOUS
<1>2. \A i \in S : zero[i] \in Int
  BY <1>1
<1> HIDE DEF zero
<1>3. Sum(zero, S) + Sum(zero, S) = 0 * Cardinality(S)
  BY <1>1, SumAgainst
<1>4. Sum(p, S) + Sum(zero, S) = c * Cardinality(S)
  BY <1>1, SumAgainst
<1>5. Sum(zero, S) \in Int /\ Sum(p, S) \in Int /\ Cardinality(S) \in Nat
  BY <1>1, SumTakes, FS_CardinalityType
<1>6. QED
  BY <1>3, <1>4, <1>5

-----------------------------------------------------------------------------
(* Points.                                                                 *)

LEMMA Distributes ==
  \A a, b, c \in Int : a * b \in Int /\ a * (b + c) = a * b + a * c
OBVIOUS

\* A rounded quotient is within a half of it.
LEMMA Rounded ==
  ASSUME NEW a \in Int, NEW c \in Nat \ {0}
  PROVE  /\ Scored!Round(a, c) \in Int
         /\ 2 * (c * Scored!Round(a, c)) <= 2 * a + c
         /\ 2 * a < 2 * (c * Scored!Round(a, c)) + c
<1>1. 2 * a + c \in Int /\ 2 * c \in Nat \ {0}
  OBVIOUS
<1>2. \A x \in Int, y \in Nat \ {0} :
        x \div y \in Int /\ y * (x \div y) <= x /\ x < y * (x \div y) + y
  OBVIOUS
<1>3. PICK r \in Int : Scored!Round(a, c) = r /\ (2 * c) * r <= 2 * a + c /\ 2 * a + c < (2 * c) * r + 2 * c
  BY <1>1, <1>2 DEF Scored!Round
<1>4. (2 * c) * r = 2 * (c * r)
  OBVIOUS
<1>5. QED
  BY <1>3, <1>4

\* A product is above another only where its factor is.
LEMMA Cancelled ==
  ASSUME NEW c \in Nat \ {0}, NEW x \in Int, NEW y \in Int
  PROVE  2 * (c * x) <= 2 * (c * y) + c => x <= y
<1> SUFFICES ASSUME x >= y + 1 PROVE 2 * (c * x) > 2 * (c * y) + c
  OBVIOUS
<1>1. c * x >= c * (y + 1) /\ c * (y + 1) = c * y + c
  OBVIOUS
<1>2. QED
  BY <1>1

\* What is a whole number of times its divisor is that many, and what is less
\* than it is no more.
LEMMA RoundedWithin ==
  ASSUME NEW a \in Int, NEW c \in Nat \ {0}, NEW m \in Int
  PROVE  /\ a >= 0 => Scored!Round(a, c) >= 0
         /\ a <= c * m => Scored!Round(a, c) <= m
         /\ a = c * m => Scored!Round(a, c) = m
<1>1. PICK r \in Int : r = Scored!Round(a, c) /\ 2 * (c * r) <= 2 * a + c /\ 2 * a < 2 * (c * r) + c
  BY Rounded
<1>2. a <= c * m => r <= m
  BY <1>1, Cancelled
<1>3. a >= c * m => m <= r
  <2>1. a >= c * m => 2 * (c * m) <= 2 * (c * r) + c
    BY <1>1
  <2>2. QED
    BY <2>1, Cancelled
<1>4. a >= 0 => r >= 0
  <2>1. a >= 0 => 2 * (c * 0) <= 2 * (c * r) + c
    BY <1>1
  <2>2. QED
    BY <2>1, Cancelled
<1>5. QED
  BY <1>1, <1>2, <1>3, <1>4

\* Shares rounded one at a time miss their sum by no more than half each.
LEMMA SumRounded ==
  ASSUME NEW S, IsFiniteSet(S), NEW w \in Int, NEW c \in Nat \ {0}, NEW p, NEW r,
         \A i \in S : p[i] \in Int /\ r[i] = Scored!Round(w * p[i], c)
  PROVE  /\ 2 * (c * Sum(r, S)) <= 2 * (w * Sum(p, S)) + c * Cardinality(S)
         /\ 2 * (w * Sum(p, S)) <= 2 * (c * Sum(r, S)) + c * Cardinality(S)
<1> DEFINE Near(T) == /\ 2 * (c * Sum(r, T)) <= 2 * (w * Sum(p, T)) + c * Cardinality(T)
                      /\ 2 * (w * Sum(p, T)) <= 2 * (c * Sum(r, T)) + c * Cardinality(T)
           F == {T \in SUBSET S : Near(T)}
<1>1. \A i \in S : /\ p[i] \in Int /\ r[i] \in Int /\ w * p[i] \in Int
                    /\ 2 * (c * r[i]) <= 2 * (w * p[i]) + c
                    /\ 2 * (w * p[i]) <= 2 * (c * r[i]) + c
  <2> SUFFICES ASSUME NEW i \in S
               PROVE  /\ p[i] \in Int /\ r[i] \in Int /\ w * p[i] \in Int
                      /\ 2 * (c * r[i]) <= 2 * (w * p[i]) + c
                      /\ 2 * (w * p[i]) <= 2 * (c * r[i]) + c
    OBVIOUS
  <2>1. p[i] \in Int /\ w * p[i] \in Int
    BY Distributes
  <2>2. PICK a : a = w * p[i]
    OBVIOUS
  <2>3. a \in Int /\ r[i] = Scored!Round(a, c)
    BY <2>1, <2>2
  <2>4. r[i] \in Int /\ 2 * (c * r[i]) <= 2 * a + c /\ 2 * a <= 2 * (c * r[i]) + c
    <3>1. PICK b \in Int : b = r[i] /\ 2 * (c * b) <= 2 * a + c /\ 2 * a < 2 * (c * b) + c
      BY <2>3, Rounded
    <3>2. c * b \in Int
      BY Distributes
    <3>3. QED
      BY <2>3, <3>1, <3>2
  <2>5. QED
    BY <2>1, <2>2, <2>4
<1>2. {} \in F
  <2>1. Sum(p, {}) = 0 /\ Sum(r, {}) = 0 /\ Cardinality({}) = 0
    BY SumTakes, FS_EmptySet
  <2>2. QED
    BY <2>1
<1>3. ASSUME NEW T \in F, NEW x \in S \ T PROVE T \cup {x} \in F
  <2>1. IsFiniteSet(T) /\ T \cup {x} \in SUBSET S
    BY FS_Subset
  <2>2. /\ Sum(p, T \cup {x}) = p[x] + Sum(p, T) /\ Sum(p, T) \in Int
        /\ Sum(r, T \cup {x}) = r[x] + Sum(r, T) /\ Sum(r, T) \in Int
    BY <1>1, <2>1, SumMore
  <2>3. Cardinality(T \cup {x}) = Cardinality(T) + 1 /\ Cardinality(T) \in Nat
    BY <2>1, FS_AddElement, FS_CardinalityType
  <2>4. /\ w * (p[x] + Sum(p, T)) = w * p[x] + w * Sum(p, T)
        /\ c * (r[x] + Sum(r, T)) = c * r[x] + c * Sum(r, T)
        /\ c * (Cardinality(T) + 1) = c * Cardinality(T) + c
        /\ w * p[x] \in Int /\ w * Sum(p, T) \in Int /\ c * r[x] \in Int
        /\ c * Sum(r, T) \in Int /\ c * Cardinality(T) \in Int
    <3>1. /\ p[x] \in Int /\ r[x] \in Int /\ Sum(p, T) \in Int /\ Sum(r, T) \in Int
          /\ Cardinality(T) \in Int /\ 1 \in Int /\ c \in Int /\ c * 1 = c
      BY <1>1, <2>2, <2>3
    <3> HIDE DEF F
    <3>2. QED
      BY <3>1, Distributes
  <2>5. Near(T \cup {x})
    <3> HIDE DEF F
    <3>1. Near(T)
      BY DEF F
    <3>2. QED
      BY <1>1, <2>2, <2>3, <2>4, <3>1
  <2>6. QED
    BY <2>1, <2>5
<1>4. S \in F
  <2> HIDE DEF F
  <2>1. F \in SUBSET SUBSET S
    BY DEF F
  <2>2. QED
    BY <1>2, <1>3, <2>1, AllFinite
<1>5. QED
  BY <1>4

\* An answer a judge could give.  The status of a judge is its verdict on itself:
\* no test is worth anything for another.
Usable(answer) ==
  answer.exit = 0 /\ answer.word \in {"OK", "WRONG"} /\ answer.stated # Scored!Junk

\* A test as it reaches the score: its program was stopped, or its checker gave
\* an answer that can be used; and what is made of it.
TestsOf(groups, words) ==
  {t \in [group : groups, ended : Scored!Stopped \cup {"by itself"},
          said : [exit : Int, word : words, stated : Scored!Absent .. Scored!Junk]] :
     t.ended \in Scored!Stopped \/ Usable(t.said)}
OutcomesOf(groups) ==
  [group : groups, passed : BOOLEAN, percentage : 0 .. 100,
   reason : Scored!Stopped \cup {"WrongAnswer", "none"}]

\* A test that failed is worth nothing, and says why.
Honest(outcome) ==
  ~outcome.passed => outcome.percentage = 0 /\ outcome.reason # "Accepted"

LEMMA OutcomeIsHonest ==
  ASSUME NEW groups, NEW words, NEW t \in TestsOf(groups, words)
  PROVE  /\ Scored!Outcome(t) \in OutcomesOf(groups)
         /\ Honest(Scored!Outcome(t))
<1>1. /\ t.group \in groups /\ t.ended \in Scored!Stopped \cup {"by itself"}
      /\ t.said.word \in words /\ t.said.stated \in -1 .. 101
      /\ t.ended \in Scored!Stopped \/ t.said.stated # 101
  BY DEF TestsOf, Usable, Scored!Absent, Scored!Junk
<1>2. CASE t.ended \in Scored!Stopped
  <2>1. Scored!Outcome(t) = [group |-> t.group, passed |-> FALSE, percentage |-> 0, reason |-> t.ended]
    BY <1>2 DEF Scored!Outcome
  <2>2. t.ended # "Accepted"
    BY <1>2 DEF Scored!Stopped
  <2>3. ASSUME NEW o,
               o = [group |-> t.group, passed |-> FALSE, percentage |-> 0, reason |-> t.ended]
        PROVE  o \in OutcomesOf(groups) /\ Honest(o)
    <3>1. o.percentage = 0 /\ o.reason = t.ended
      BY <2>3
    <3>2. \A no \in BOOLEAN, none \in 0 .. 100 : \A why \in Scored!Stopped :
            [group |-> t.group, passed |-> no, percentage |-> none, reason |-> why]
              \in OutcomesOf(groups)
      BY <1>1 DEF OutcomesOf
    <3>3. FALSE \in BOOLEAN /\ 0 \in 0 .. 100
      OBVIOUS
    <3>4. o \in OutcomesOf(groups)
      BY <1>2, <2>3, <3>2, <3>3
    <3>5. QED
      BY <3>1, <3>4, <2>2 DEF Honest
  <2>4. QED
    BY <2>1, <2>3
<1>3. CASE t.ended \notin Scored!Stopped
  <2> DEFINE part == Scored!Percentage(t.said)
  <2>1. part \in 0 .. 100
    <3>1. PICK stated \in -1 .. 101 : stated = t.said.stated /\ stated # 101
      BY <1>1, <1>3
    <3>2. stated = -1 \/ stated \in 0 .. 100
      BY <3>1
    <3>3. QED
      BY <3>1, <3>2 DEF Scored!Percentage, Scored!Absent
  <2>2. t.said.word # "OK" => part = 0
    BY DEF Scored!Percentage
  <2>3. Scored!Outcome(t) = [group |-> t.group, passed |-> t.said.word = "OK", percentage |-> part,
                             reason |-> IF t.said.word = "OK" THEN "none" ELSE "WrongAnswer"]
    BY <1>3 DEF Scored!Outcome
  <2> HIDE DEF part
  <2>4. PICK ok \in BOOLEAN : ok = (t.said.word = "OK")
    OBVIOUS
  <2>5. Scored!Outcome(t) = [group |-> t.group, passed |-> ok, percentage |-> part,
                             reason |-> IF ok THEN "none" ELSE "WrongAnswer"]
    BY <2>3, <2>4
  <2>6. ASSUME NEW o, o = [group |-> t.group, passed |-> ok, percentage |-> part,
                           reason |-> IF ok THEN "none" ELSE "WrongAnswer"]
        PROVE  o \in OutcomesOf(groups) /\ Honest(o)
    <3>1. o.percentage = part /\ o.passed = ok
          /\ o.reason = IF ok THEN "none" ELSE "WrongAnswer"
      BY <2>6
    <3>2. o \in OutcomesOf(groups)
      BY <1>1, <2>1, <2>6 DEF OutcomesOf
    <3>3. QED
      BY <3>1, <3>2, <2>2, <2>4 DEF Honest
  <2>7. QED
    BY <2>5, <2>6
<1>4. QED
  BY <1>2, <1>3

\* What is awarded goes by the percentages of the tests, and by how many there are.
Percentages(outcomes) == [i \in DOMAIN outcomes |-> outcomes[i].percentage]
Missing(outcomes) == [i \in DOMAIN outcomes |-> 100 - outcomes[i].percentage]
Shown(points, outcomes) == [i \in DOMAIN outcomes |-> Scored!TestScore(points, outcomes, i)]
Awarded(points, outcomes) == [g \in DOMAIN points |-> Scored!GroupPoints(points, outcomes, g)]
Full(points) == [g \in DOMAIN points |-> 100 * points[g]]

LEMMA SumsOfScoring ==
  ASSUME NEW points, NEW outcomes, NEW S \in SUBSET DOMAIN outcomes
  PROVE  /\ Scored!MapThenSumSet(LAMBDA i : outcomes[i].percentage, S)
              = Sum(Percentages(outcomes), S)
         /\ Scored!MapThenSumSet(LAMBDA i : 100 - outcomes[i].percentage, S)
              = Sum(Missing(outcomes), S)
         /\ Scored!MapThenSumSet(LAMBDA i : Scored!TestScore(points, outcomes, i), S)
              = Sum(Shown(points, outcomes), S)
<1> USE DEF Sum, MapThenSumSet, MapThenFoldSet, Scored!MapThenSumSet, Scored!MapThenFoldSet
<1>1. Scored!MapThenSumSet(LAMBDA i : outcomes[i].percentage, S)
        = Sum(Percentages(outcomes), S)
  <2> DEFINE x(T) == CHOOSE x \in T : TRUE
             one(f) == [T \in SUBSET S |->
                IF T = {} THEN 0 ELSE outcomes[x(T)].percentage + f[T \ {x(T)}]]
             other(f) == [T \in SUBSET S |->
                IF T = {} THEN 0 ELSE Percentages(outcomes)[x(T)] + f[T \ {x(T)}]]
  <2>1. \A T \in SUBSET S : T # {} =>
          outcomes[x(T)].percentage = Percentages(outcomes)[x(T)]
    BY DEF Percentages
  <2>2. \A f : one(f) = other(f)
    BY <2>1
  <2> HIDE DEF one, other
  <2>3. (CHOOSE f : f = one(f)) = (CHOOSE f : f = other(f))
    BY <2>2
  <2>4. QED
    BY <2>3 DEF one, other
<1>2. Scored!MapThenSumSet(LAMBDA i : 100 - outcomes[i].percentage, S)
        = Sum(Missing(outcomes), S)
  <2> DEFINE x(T) == CHOOSE x \in T : TRUE
             one(f) == [T \in SUBSET S |->
                IF T = {} THEN 0 ELSE (100 - outcomes[x(T)].percentage) + f[T \ {x(T)}]]
             other(f) == [T \in SUBSET S |->
                IF T = {} THEN 0 ELSE Missing(outcomes)[x(T)] + f[T \ {x(T)}]]
  <2>1. \A T \in SUBSET S : T # {} =>
          100 - outcomes[x(T)].percentage = Missing(outcomes)[x(T)]
    BY DEF Missing
  <2>2. \A f : one(f) = other(f)
    BY <2>1
  <2> HIDE DEF one, other
  <2>3. (CHOOSE f : f = one(f)) = (CHOOSE f : f = other(f))
    BY <2>2
  <2>4. QED
    BY <2>3 DEF one, other
<1>3. Scored!MapThenSumSet(LAMBDA i : Scored!TestScore(points, outcomes, i), S)
        = Sum(Shown(points, outcomes), S)
  <2> DEFINE x(T) == CHOOSE x \in T : TRUE
             one(f) == [T \in SUBSET S |->
                IF T = {} THEN 0
                ELSE Scored!TestScore(points, outcomes, x(T)) + f[T \ {x(T)}]]
             other(f) == [T \in SUBSET S |->
                IF T = {} THEN 0 ELSE Shown(points, outcomes)[x(T)] + f[T \ {x(T)}]]
  <2>1. \A T \in SUBSET S : T # {} =>
          Scored!TestScore(points, outcomes, x(T)) = Shown(points, outcomes)[x(T)]
    BY DEF Shown
  <2>2. \A f : one(f) = other(f)
    BY <2>1
  <2> HIDE DEF one, other
  <2>3. (CHOOSE f : f = one(f)) = (CHOOSE f : f = other(f))
    BY <2>2
  <2>4. QED
    BY <2>3 DEF one, other
<1>4. QED
  BY <1>1, <1>2, <1>3

LEMMA ScoreIsSum ==
  ASSUME NEW points, NEW outcomes
  PROVE  /\ Scored!Score(points, outcomes) = Sum(Awarded(points, outcomes), DOMAIN points)
         /\ Scored!MaxScore(points) = Sum(Full(points), DOMAIN points)
<1> USE DEF Sum, MapThenSumSet, MapThenFoldSet, Scored!MapThenSumSet, Scored!MapThenFoldSet
<1>1. Scored!Score(points, outcomes) = Sum(Awarded(points, outcomes), DOMAIN points)
  <2> DEFINE D == DOMAIN points
             x(T) == CHOOSE x \in T : TRUE
             one(f) == [T \in SUBSET D |->
                IF T = {} THEN 0
                ELSE Scored!GroupPoints(points, outcomes, x(T)) + f[T \ {x(T)}]]
             other(f) == [T \in SUBSET D |->
                IF T = {} THEN 0 ELSE Awarded(points, outcomes)[x(T)] + f[T \ {x(T)}]]
  <2>1. \A T \in SUBSET D : T # {} =>
          Scored!GroupPoints(points, outcomes, x(T)) = Awarded(points, outcomes)[x(T)]
    BY DEF Awarded
  <2>2. \A f : one(f) = other(f)
    BY <2>1
  <2> HIDE DEF one, other
  <2>3. (CHOOSE f : f = one(f)) = (CHOOSE f : f = other(f))
    BY <2>2
  <2>4. QED
    BY <2>3 DEF one, other, Scored!Score
<1>2. Scored!MaxScore(points) = Sum(Full(points), DOMAIN points)
  <2> DEFINE D == DOMAIN points
             x(T) == CHOOSE x \in T : TRUE
             one(f) == [T \in SUBSET D |->
                IF T = {} THEN 0 ELSE 100 * points[x(T)] + f[T \ {x(T)}]]
             other(f) == [T \in SUBSET D |->
                IF T = {} THEN 0 ELSE Full(points)[x(T)] + f[T \ {x(T)}]]
  <2>1. \A T \in SUBSET D : T # {} => 100 * points[x(T)] = Full(points)[x(T)]
    BY DEF Full
  <2>2. \A f : one(f) = other(f)
    BY <2>1
  <2> HIDE DEF one, other
  <2>3. (CHOOSE f : f = one(f)) = (CHOOSE f : f = other(f))
    BY <2>2
  <2>4. QED
    BY <2>3 DEF one, other, Scored!MaxScore
<1>3. QED
  BY <1>1, <1>2

LEMMA SameSize == \A S : Scored!Cardinality(S) = Cardinality(S)
  BY DEF Cardinality, Scored!Cardinality

\* How many tests a group has.
LEMMA MineAreCounted ==
  ASSUME NEW n \in Nat, NEW groups, NEW outcomes \in [1 .. n -> OutcomesOf(groups)], NEW g
  PROVE  /\ Scored!Mine(outcomes, g) \in SUBSET (1 .. n)
         /\ IsFiniteSet(Scored!Mine(outcomes, g))
         /\ Scored!Count(outcomes, g) \in Nat \ {0}
         /\ Cardinality(Scored!Mine(outcomes, g)) \in Nat
         /\ Cardinality(Scored!Mine(outcomes, g)) <= Scored!Count(outcomes, g)
         /\ Scored!Mine(outcomes, g) # {} =>
              Scored!Count(outcomes, g) = Cardinality(Scored!Mine(outcomes, g))
         /\ Scored!Mine(outcomes, g) = {} => Scored!Count(outcomes, g) = 1
<1> DEFINE members == Scored!Mine(outcomes, g)
           k == Cardinality(members)
<1>1. members \in SUBSET (1 .. n)
  BY DEF Scored!Mine
<1>2. IsFiniteSet(members)
  BY <1>1, FS_Interval, FS_Subset
<1> HIDE DEF members
<1>3. k \in Nat /\ (k = 0 <=> members = {})
  BY <1>2, FS_CardinalityType, FS_EmptySet
<1>4. Scored!Count(outcomes, g) = IF k = 0 THEN 1 ELSE k
  <2>1. PICK m : m = (IF k = 0 THEN 1 ELSE k)
    OBVIOUS
  <2>2. m \in {1, k} /\ \A y \in {1, k} : y <= m
    BY <1>3, <2>1
  <2>3. \A x \in {1, k} : (\A y \in {1, k} : y <= x) => x = m
    BY <1>3, <2>1
  <2>4. (CHOOSE x \in {1, k} : \A y \in {1, k} : x >= y) = m
    <3>1. \E x : x \in {1, k} /\ \A y \in {1, k} : x >= y
      BY <2>2, <1>3, <2>1
    <3>2. QED
      BY <3>1, <2>3, <1>3
  <2>5. QED
    BY <2>1, <2>4, SameSize DEF Scored!Count, Scored!Max, members
<1>5. QED
  BY <1>1, <1>2, <1>3, <1>4 DEF members

\* A submission whose n tests have come to these outcomes.
Reported(points, outcomes, n) ==
  /\ n \in Nat /\ outcomes \in [1 .. n -> OutcomesOf(DOMAIN points)]
  /\ IsFiniteSet(DOMAIN points) /\ points \in [DOMAIN points -> Nat]

\* The percentages of a group's tests, and what they come to.
LEMMA GroupSums ==
  ASSUME NEW points, NEW outcomes, NEW n, Reported(points, outcomes, n), NEW g
  PROVE  /\ \A i \in 1 .. n : Percentages(outcomes)[i] \in 0 .. 100
         /\ Sum(Percentages(outcomes), Scored!Mine(outcomes, g)) \in Nat
         /\ Sum(Percentages(outcomes), Scored!Mine(outcomes, g))
              <= 100 * Scored!Count(outcomes, g)
<1> DEFINE members == Scored!Mine(outcomes, g)
           full == [i \in 1 .. n |-> 100]
           none == [i \in 1 .. n |-> 0]
           per == Percentages(outcomes)
<1>1. /\ members \in SUBSET (1 .. n) /\ IsFiniteSet(members) /\ Cardinality(members) \in Nat
      /\ Cardinality(members) <= Scored!Count(outcomes, g) /\ Scored!Count(outcomes, g) \in Nat
  BY MineAreCounted DEF Reported
<1>2. \A i \in 1 .. n : per[i] \in 0 .. 100
  BY DEF Reported, OutcomesOf, Percentages
<1>3. \A i \in 1 .. n : full[i] = 100 /\ none[i] = 0
  OBVIOUS
<1> HIDE DEF members, full, none, per
<1>8. \A i \in members : /\ per[i] \in Int /\ full[i] \in Int /\ none[i] \in Int
                       /\ none[i] <= per[i] /\ per[i] <= full[i]
                       /\ full[i] = 100 /\ none[i] = 0
  BY <1>1, <1>2, <1>3
<1>4. Sum(none, members) <= Sum(per, members) /\ Sum(per, members) <= Sum(full, members)
  BY <1>1, <1>8, SumMonotonic
<1>5. Sum(none, members) = 0 * Cardinality(members) /\ Sum(full, members) = 100 * Cardinality(members)
  <2>1. IsFiniteSet(members) /\ 0 \in Int /\ 100 \in Int
    BY <1>1
  <2>2. \A i \in members : none[i] = 0
    BY <1>8
  <2>3. \A i \in members : full[i] = 100
    BY <1>8
  <2>4. Sum(none, members) = 0 * Cardinality(members)
    BY ONLY <2>1, <2>2, SumConstant
  <2>5. Sum(full, members) = 100 * Cardinality(members)
    BY ONLY <2>1, <2>3, SumConstant
  <2>6. QED
    BY <2>4, <2>5
<1>6. Sum(per, members) \in Int
  BY <1>1, <1>8, SumTakes
<1>7. QED
  BY <1>1, <1>2, <1>4, <1>5, <1>6 DEF members, per

\* What a group is awarded.
LEMMA GroupIsWorth ==
  ASSUME NEW points, NEW outcomes, NEW n, Reported(points, outcomes, n),
         NEW g \in DOMAIN points
  PROVE  /\ Scored!GroupPoints(points, outcomes, g) \in 0 .. 100 * points[g]
         /\ Scored!GroupPoints(points, outcomes, g) =
              IF Scored!AllPassed(outcomes, g)
              THEN Scored!Round(points[g] * Sum(Percentages(outcomes), Scored!Mine(outcomes, g)),
                                Scored!Count(outcomes, g))
              ELSE 0
<1> DEFINE c == Scored!Count(outcomes, g)
           w == points[g]
           sum == Sum(Percentages(outcomes), Scored!Mine(outcomes, g))
<1>1. c \in Nat \ {0} /\ w \in Nat /\ Scored!Mine(outcomes, g) \in SUBSET (DOMAIN outcomes)
  BY MineAreCounted DEF Reported
<1>2. sum \in Nat /\ sum <= 100 * c
  BY GroupSums
<1>3. Scored!GroupPoints(points, outcomes, g) =
        IF Scored!AllPassed(outcomes, g) THEN Scored!Round(w * sum, c) ELSE 0
  BY <1>1, SumsOfScoring DEF Scored!GroupPoints
<1> HIDE DEF c, w, sum
<1>4. w * sum \in Int /\ w * sum >= 0
  BY <1>1, <1>2
<1>5. w * sum <= c * (100 * w)
  <2>1. w * sum <= w * (100 * c)
    BY <1>1, <1>2
  <2>2. w * (100 * c) = c * (100 * w)
    BY <1>1
  <2>3. QED
    BY <2>1, <2>2
<1>6. Scored!Round(w * sum, c) \in 0 .. 100 * w
  <2>1. PICK a \in Int : a = w * sum /\ a >= 0 /\ a <= c * (100 * w)
    BY <1>4, <1>5
  <2>2. 100 * w \in Int
    BY <1>1
  <2>3. Scored!Round(a, c) >= 0 /\ Scored!Round(a, c) <= 100 * w /\ Scored!Round(a, c) \in Int
    BY <1>1, <2>1, <2>2, Rounded, RoundedWithin
  <2>4. QED
    BY <2>1, <2>2, <2>3
<1>7. 0 \in 0 .. 100 * w
  BY <1>1
<1>8. QED
  BY <1>3, <1>6, <1>7 DEF c, w, sum

\* Nothing is worth more for tests that fail.
LEMMA WorseIsNoGain ==
  ASSUME NEW points, NEW n,
         NEW outcomes, Reported(points, outcomes, n), NEW worse, Reported(points, worse, n),
         \A i \in 1 .. n : /\ worse[i].group = outcomes[i].group
                            /\ worse[i].percentage = outcomes[i].percentage
                            /\ (worse[i].passed => outcomes[i].passed)
  PROVE  Scored!Score(points, worse) <= Scored!Score(points, outcomes)
<1>1. DOMAIN worse = 1 .. n /\ DOMAIN outcomes = 1 .. n
  BY DEF Reported
<1>2. Percentages(worse) = Percentages(outcomes)
  BY <1>1 DEF Percentages
<1>3. \A g : Scored!Mine(worse, g) = Scored!Mine(outcomes, g)
  BY <1>1 DEF Scored!Mine
<1>4. \A g : Scored!Count(worse, g) = Scored!Count(outcomes, g)
  BY <1>3 DEF Scored!Count
<1>5. \A g : Scored!AllPassed(worse, g) => Scored!AllPassed(outcomes, g)
  <2>1. \A g : Scored!Mine(outcomes, g) \subseteq 1 .. n
    BY <1>1 DEF Scored!Mine
  <2>2. QED
    BY <1>3, <2>1 DEF Scored!AllPassed
<1>6. ASSUME NEW g \in DOMAIN points
      PROVE  /\ Awarded(points, worse)[g] \in Int /\ Awarded(points, outcomes)[g] \in Int
             /\ Awarded(points, worse)[g] <= Awarded(points, outcomes)[g]
  <2>1. Scored!GroupPoints(points, outcomes, g) \in 0 .. 100 * points[g]
    BY GroupIsWorth
  <2>2. Scored!GroupPoints(points, worse, g) \in {0, Scored!GroupPoints(points, outcomes, g)}
    BY <1>2, <1>3, <1>4, <1>5, GroupIsWorth
  <2>3. points[g] \in Nat
    BY DEF Reported
  <2>4. QED
    BY <2>1, <2>2, <2>3 DEF Awarded
<1>7. Sum(Awarded(points, worse), DOMAIN points) <= Sum(Awarded(points, outcomes), DOMAIN points)
  BY <1>6, SumMonotonic DEF Reported
<1>8. QED
  BY <1>7, ScoreIsSum

Failing(outcomes, k) ==
  [outcomes EXCEPT ![k].passed = FALSE, ![k].reason = "WrongAnswer"]

LEMMA FailingIsNoGain ==
  ASSUME NEW points, NEW outcomes, NEW n, Reported(points, outcomes, n), NEW k \in 1 .. n
  PROVE  Scored!Score(points, Failing(outcomes, k)) <= Scored!Score(points, outcomes)
<1>1. PICK worse : worse = Failing(outcomes, k)
  OBVIOUS
<1>2. Reported(points, worse, n)
  <2>1. /\ n \in Nat /\ outcomes \in [1 .. n -> OutcomesOf(DOMAIN points)]
        /\ IsFiniteSet(DOMAIN points) /\ points \in [DOMAIN points -> Nat]
    BY DEF Reported
  <2>2. outcomes[k] \in OutcomesOf(DOMAIN points)
    BY <2>1
  <2>3. PICK spoilt : spoilt = [outcomes[k] EXCEPT !.passed = FALSE, !.reason = "WrongAnswer"]
    OBVIOUS
  <2>4. spoilt \in OutcomesOf(DOMAIN points)
    BY ONLY <2>2, <2>3 DEF OutcomesOf
  <2>5. worse = [outcomes EXCEPT ![k] = spoilt]
    BY <1>1, <2>3 DEF Failing
  <2>6. worse \in [1 .. n -> OutcomesOf(DOMAIN points)]
    BY ONLY <2>1, <2>4, <2>5
  <2>7. QED
    BY ONLY <2>1, <2>6 DEF Reported
<1>3. \A i \in 1 .. n : /\ worse[i].group = outcomes[i].group
                         /\ worse[i].percentage = outcomes[i].percentage
                         /\ (worse[i].passed => outcomes[i].passed)
  BY <1>1 DEF Reported, OutcomesOf, Failing
<1>4. QED
  BY <1>1, <1>2, <1>3, WorseIsNoGain

\* The score is within what there is to have.
LEMMA ScoreIsWithin ==
  ASSUME NEW points, NEW outcomes, NEW n, Reported(points, outcomes, n)
  PROVE  Scored!Score(points, outcomes) \in 0 .. Scored!MaxScore(points)
<1> DEFINE G == DOMAIN points
           none == [g \in G |-> 0]
<1>1. IsFiniteSet(G)
  BY DEF Reported
<1>2. \A g \in G : /\ none[g] \in Int /\ Awarded(points, outcomes)[g] \in Int
                    /\ Full(points)[g] \in Int /\ none[g] <= Awarded(points, outcomes)[g]
                    /\ Awarded(points, outcomes)[g] <= Full(points)[g] /\ none[g] = 0
  <2> SUFFICES ASSUME NEW g \in G
               PROVE  /\ none[g] \in Int /\ Awarded(points, outcomes)[g] \in Int
                      /\ Full(points)[g] \in Int /\ none[g] <= Awarded(points, outcomes)[g]
                      /\ Awarded(points, outcomes)[g] <= Full(points)[g] /\ none[g] = 0
    OBVIOUS
  <2>1. Awarded(points, outcomes)[g] \in 0 .. 100 * points[g]
    BY GroupIsWorth DEF Awarded
  <2>2. Full(points)[g] = 100 * points[g] /\ points[g] \in Nat
    BY DEF Full, Reported
  <2>3. none[g] = 0
    OBVIOUS
  <2> HIDE DEF none
  <2>4. QED
    BY <2>1, <2>2, <2>3
<1> HIDE DEF none, G
<1>3. /\ Sum(none, G) <= Sum(Awarded(points, outcomes), G)
      /\ Sum(Awarded(points, outcomes), G) <= Sum(Full(points), G)
  BY <1>1, <1>2, SumMonotonic
<1>4. Sum(none, G) = 0 * Cardinality(G) /\ Cardinality(G) \in Nat
  BY <1>1, <1>2, SumConstant, FS_CardinalityType
<1>5. Sum(Awarded(points, outcomes), G) \in Int /\ Sum(Full(points), G) \in Int
  BY <1>1, <1>2, SumTakes
<1>6. QED
  BY <1>3, <1>4, <1>5, ScoreIsSum DEF G

\* A test that failed takes its group's points, and those of the group's tests.
LEMMA FailureTakesAll ==
  ASSUME NEW points, NEW outcomes, NEW n, Reported(points, outcomes, n),
         NEW i \in 1 .. n, ~outcomes[i].passed, Honest(outcomes[i])
  PROVE  /\ outcomes[i].percentage = 0
         /\ Scored!GroupPoints(points, outcomes, outcomes[i].group) = 0
         /\ \A j \in Scored!Mine(outcomes, outcomes[i].group) :
              Scored!TestScore(points, outcomes, j) = 0
<1>1. i \in Scored!Mine(outcomes, outcomes[i].group)
  BY DEF Scored!Mine, Reported
<1>2. ~Scored!AllPassed(outcomes, outcomes[i].group)
  BY <1>1 DEF Scored!AllPassed
<1>3. \A j \in Scored!Mine(outcomes, outcomes[i].group) : outcomes[j].group = outcomes[i].group
  BY DEF Scored!Mine
<1>4. QED
  BY <1>2, <1>3 DEF Honest, Scored!GroupPoints, Scored!TestScore

\* A submission with a failed test is told what the first of them was.
LEMMA VerdictIs ==
  ASSUME NEW points, NEW outcomes, NEW n, Reported(points, outcomes, n),
         DOMAIN points \in SUBSET Nat, \A i \in 1 .. n : Honest(outcomes[i])
  PROVE  /\ (\E i \in 1 .. n : ~outcomes[i].passed) => Scored!Verdict(points, outcomes) # "Accepted"
         /\ (\A i \in 1 .. n : outcomes[i].passed) =>
              Scored!Verdict(points, outcomes) =
                IF Scored!Score(points, outcomes) >= Scored!MaxScore(points)
                THEN "Accepted" ELSE "Partial"
<1> DEFINE failed == {i \in DOMAIN outcomes : ~outcomes[i].passed}
           IsFirst(i) == \A j \in failed :
                    \/ outcomes[i].group < outcomes[j].group
                    \/ outcomes[i].group = outcomes[j].group /\ i <= j
           first == CHOOSE i \in failed : IsFirst(i)
<1>1. DOMAIN outcomes = 1 .. n /\ \A i \in 1 .. n : outcomes[i].group \in Nat
  BY DEF Reported, OutcomesOf
<1>2. Scored!Verdict(points, outcomes) =
        IF failed # {} THEN outcomes[first].reason
        ELSE IF Scored!Score(points, outcomes) >= Scored!MaxScore(points)
             THEN "Accepted" ELSE "Partial"
  BY DEF Scored!Verdict
<1>3. ASSUME failed # {} PROVE first \in failed
  <2> DEFINE groups == {outcomes[i].group : i \in failed}
  <2>1. groups \in SUBSET Nat /\ groups # {}
    BY <1>1, <1>3
  <2>2. PICK g \in groups : \A k \in groups : g <= k
    BY <2>1, Least
  <2> DEFINE its == {i \in failed : outcomes[i].group = g}
  <2>3. its \in SUBSET Nat /\ its # {}
    BY <1>1, <2>2, Reported(points, outcomes, n) DEF Reported
  <2>4. PICK i \in its : \A k \in its : i <= k
    BY <2>3, Least
  <2>5. IsFirst(i)
    <3> SUFFICES ASSUME NEW j \in failed
                 PROVE  \/ outcomes[i].group < outcomes[j].group
                        \/ outcomes[i].group = outcomes[j].group /\ i <= j
      OBVIOUS
    <3>1. outcomes[i].group = g /\ outcomes[j].group \in groups /\ outcomes[j].group >= g
      BY <2>2
    <3>2. outcomes[j].group = g => i <= j
      BY <2>4
    <3>3. g \in Nat /\ outcomes[j].group \in Nat
      BY <2>1, <2>2
    <3>4. QED
      BY <3>1, <3>2, <3>3
  <2>6. \E x \in failed : IsFirst(x)
    BY <2>4, <2>5
  <2> HIDE DEF failed, IsFirst
  <2>7. QED
    BY <2>6
<1>4. ASSUME failed # {} PROVE outcomes[first].reason # "Accepted"
  BY <1>1, <1>3, <1>4 DEF Honest
<1>5. (\E i \in 1 .. n : ~outcomes[i].passed) <=> failed # {}
  BY <1>1
<1> HIDE DEF failed, first
<1>6. QED
  BY <1>2, <1>4, <1>5

\* Accepted is for what lacks no more than rounding hides, and for all of it.
LEMMA AcceptedIsFull ==
  ASSUME NEW points, NEW outcomes, NEW n, Reported(points, outcomes, n),
         Scored!Score(points, outcomes) >= Scored!MaxScore(points), NEW g \in DOMAIN points
  PROVE  2 * points[g] * Sum(Missing(outcomes), Scored!Mine(outcomes, g))
           <= Scored!Count(outcomes, g)
<1> DEFINE members == Scored!Mine(outcomes, g)
           c == Scored!Count(outcomes, g)
           k == Cardinality(members)
           w == points[g]
           sum == Sum(Percentages(outcomes), members)
           lack == Sum(Missing(outcomes), members)
<1>1. /\ members \in SUBSET (1 .. n) /\ IsFiniteSet(members) /\ c \in Nat \ {0} /\ k \in Nat
      /\ (members # {} => c = k) /\ (members = {} => k = 0)
  BY MineAreCounted, FS_EmptySet DEF Reported
<1>2. w \in Nat
  BY DEF Reported
<1>3. sum \in Nat /\ lack \in Int /\ sum + lack = 100 * k
  <2>1. \A i \in members : /\ Percentages(outcomes)[i] \in Int /\ Missing(outcomes)[i] \in Int
                         /\ Percentages(outcomes)[i] + Missing(outcomes)[i] = 100
    <3>1. DOMAIN outcomes = 1 .. n
      BY DEF Reported
    <3>2. \A i \in members : i \in DOMAIN outcomes
      BY <1>1, <3>1
    <3>3. \A i \in DOMAIN outcomes : Percentages(outcomes)[i] \in Int
      <4>1. \A i \in 1 .. n : Percentages(outcomes)[i] \in 0 .. 100
        BY GroupSums
      <4>2. SUFFICES ASSUME NEW i \in DOMAIN outcomes PROVE Percentages(outcomes)[i] \in Int
        OBVIOUS
      <4>3. i \in 1 .. n
        BY <3>1
      <4>4. Percentages(outcomes)[i] \in 0 .. 100
        BY <4>1, <4>3
      <4>5. QED
        BY <4>4
    <3>4. \A i \in DOMAIN outcomes :
            Percentages(outcomes)[i] = outcomes[i].percentage
              /\ Missing(outcomes)[i] = 100 - outcomes[i].percentage
      BY DEF Percentages, Missing
    <3> HIDE DEF members
    <3>5. QED
      BY <3>2, <3>3, <3>4
  <2>2. sum \in Nat
    BY GroupSums
  <2> HIDE DEF members
  <2>3. lack \in Int
    BY <1>1, <2>1, SumTakes
  <2>4. sum + lack = 100 * k
    <3>1. /\ IsFiniteSet(members) /\ 100 \in Int
          /\ \A i \in members : /\ Percentages(outcomes)[i] \in Int
                               /\ Missing(outcomes)[i] \in Int
                               /\ Percentages(outcomes)[i] + Missing(outcomes)[i] = 100
      BY <1>1, <2>1
    <3>2. Sum(Percentages(outcomes), members) + Sum(Missing(outcomes), members)
            = 100 * Cardinality(members)
      BY ONLY <3>1, SumAgainst
    <3>3. QED
      BY <3>2
  <2>5. QED
    BY <2>2, <2>3, <2>4
<1>4. Scored!GroupPoints(points, outcomes, g) = 100 * w
  <2>1. \A h \in DOMAIN points :
          /\ Awarded(points, outcomes)[h] \in Int /\ Full(points)[h] \in Int
          /\ Awarded(points, outcomes)[h] <= Full(points)[h]
    <3> SUFFICES ASSUME NEW h \in DOMAIN points
                 PROVE  /\ Awarded(points, outcomes)[h] \in Int /\ Full(points)[h] \in Int
                        /\ Awarded(points, outcomes)[h] <= Full(points)[h]
      OBVIOUS
    <3>1. Awarded(points, outcomes)[h] \in 0 .. 100 * points[h]
      BY GroupIsWorth DEF Awarded
    <3>2. Full(points)[h] = 100 * points[h] /\ points[h] \in Nat
      BY DEF Full, Reported
    <3>3. QED
      BY <3>1, <3>2
  <2>2. Sum(Full(points), DOMAIN points) <= Sum(Awarded(points, outcomes), DOMAIN points)
    <3>1. Scored!Score(points, outcomes) \in Int /\ Scored!MaxScore(points) \in Int
      <4>1. IsFiniteSet(DOMAIN points)
        BY DEF Reported
      <4>2. QED
        BY <4>1, <2>1, SumTakes, ScoreIsSum
    <3>2. QED
      BY <3>1, ScoreIsSum
  <2>3. IsFiniteSet(DOMAIN points)
    BY DEF Reported
  <2>4. Awarded(points, outcomes)[g] = Full(points)[g]
    BY <2>1, <2>2, <2>3, SumEqual
  <2>5. QED
    BY <2>4 DEF Awarded, Full
<1>5. CASE w = 0
  BY <1>1, <1>3, <1>5
<1>6. CASE w # 0
  <2>1. Scored!AllPassed(outcomes, g) /\ Scored!Round(w * sum, c) = 100 * w
    BY <1>2, <1>4, <1>6, GroupIsWorth
  <2>2. members # {} /\ c = k
    BY <2>1, <1>1 DEF Scored!AllPassed
  <2> HIDE DEF members, c, k, w, sum, lack
  <2>3. PICK a \in Int : a = w * sum
    BY <1>2, <1>3
  <2>4. 2 * (c * (100 * w)) <= 2 * a + c
    BY <2>1, <2>3, <1>1, Rounded
  <2>5. c * (100 * w) = w * (sum + lack)
    BY <1>1, <1>2, <1>3, <2>2
  <2>6. w * (sum + lack) = a + w * lack /\ w * lack \in Int
    BY <1>2, <1>3, <2>3, Distributes
  <2>7. 2 * (w * lack) <= c
    BY <2>3, <2>4, <2>5, <2>6, <1>1
  <2>8. 2 * w * lack = 2 * (w * lack)
    BY <1>2, <1>3
  <2>9. QED
    BY <2>7, <2>8 DEF members, c, w, lack
<1>7. QED
  BY <1>5, <1>6

\* Full marks for every test are full marks, where every group has one.
LEMMA FullIsAccepted ==
  ASSUME NEW points, NEW outcomes, NEW n, Reported(points, outcomes, n),
         \A i \in 1 .. n : outcomes[i].passed /\ outcomes[i].percentage = 100,
         \A g \in DOMAIN points : Scored!Mine(outcomes, g) # {}
  PROVE  Scored!Score(points, outcomes) >= Scored!MaxScore(points)
<1>1. ASSUME NEW g \in DOMAIN points
      PROVE  Awarded(points, outcomes)[g] = Full(points)[g] /\ Full(points)[g] \in Int
  <2> DEFINE members == Scored!Mine(outcomes, g)
             c == Scored!Count(outcomes, g)
             w == points[g]
  <2>1. /\ members \in SUBSET (1 .. n) /\ IsFiniteSet(members) /\ members # {} /\ w \in Nat
        /\ c \in Nat \ {0} /\ c = Cardinality(members)
    BY MineAreCounted DEF Reported
  <2>2. DOMAIN outcomes = 1 .. n
    BY DEF Reported
  <2>3. \A i \in members : Percentages(outcomes)[i] = 100
    BY <2>1, <2>2 DEF Percentages
  <2>4. Scored!AllPassed(outcomes, g)
    BY <2>1 DEF Scored!AllPassed
  <2>5. Scored!GroupPoints(points, outcomes, g)
          = Scored!Round(w * Sum(Percentages(outcomes), members), c)
    BY <2>4, GroupIsWorth
  <2> HIDE DEF members, c, w
  <2>6. Sum(Percentages(outcomes), members) = 100 * c
    <3>1. IsFiniteSet(members) /\ 100 \in Int /\ \A i \in members : Percentages(outcomes)[i] = 100
      BY <2>1, <2>3
    <3>2. Sum(Percentages(outcomes), members) = 100 * Cardinality(members)
      BY ONLY <3>1, SumConstant
    <3>3. QED
      BY <2>1, <3>2
  <2>7. w * (100 * c) = c * (100 * w) /\ w * (100 * c) \in Int /\ 100 * w \in Int
    BY <2>1
  <2>8. Scored!Round(w * (100 * c), c) = 100 * w
    <3>1. PICK a \in Int : a = w * (100 * c) /\ a = c * (100 * w)
      BY <2>7
    <3>2. Scored!Round(a, c) = 100 * w
      BY <2>1, <2>7, <3>1, RoundedWithin
    <3>3. QED
      BY <3>1, <3>2
  <2>9. QED
    BY <2>5, <2>6, <2>7, <2>8 DEF Awarded, Full, w
<1>2. IsFiniteSet(DOMAIN points)
  BY DEF Reported
<1>3. /\ Sum(Full(points), DOMAIN points) <= Sum(Awarded(points, outcomes), DOMAIN points)
      /\ Sum(Full(points), DOMAIN points) \in Int
      /\ Sum(Awarded(points, outcomes), DOMAIN points) \in Int
  <2>1. \A g \in DOMAIN points :
          /\ Full(points)[g] \in Int /\ Awarded(points, outcomes)[g] \in Int
          /\ Full(points)[g] <= Awarded(points, outcomes)[g]
    BY <1>1
  <2>2. QED
    BY <1>2, <2>1, SumMonotonic, SumTakes
<1>4. QED
  BY <1>3, ScoreIsSum

\* What is shown of the tests adds up to what is shown of their group, but for
\* the rounding of each.
LEMMA ShownAddsUp ==
  ASSUME NEW points, NEW outcomes, NEW n, Reported(points, outcomes, n),
         NEW g \in DOMAIN points
  PROVE  /\ Sum(Shown(points, outcomes), Scored!Mine(outcomes, g)) \in Int
         /\ 2 * (Sum(Shown(points, outcomes), Scored!Mine(outcomes, g))
                   - Scored!GroupPoints(points, outcomes, g)) <= Scored!Count(outcomes, g) + 1
         /\ 2 * (Scored!GroupPoints(points, outcomes, g)
                   - Sum(Shown(points, outcomes), Scored!Mine(outcomes, g)))
              <= Scored!Count(outcomes, g) + 1
<1> DEFINE members == Scored!Mine(outcomes, g)
           c == Scored!Count(outcomes, g)
           k == Cardinality(members)
           w == points[g]
           sum == Sum(Percentages(outcomes), members)
           shown == Sum(Shown(points, outcomes), members)
           worth == Scored!GroupPoints(points, outcomes, g)
<1>1. /\ members \in SUBSET (1 .. n) /\ IsFiniteSet(members) /\ c \in Nat \ {0} /\ k \in Nat
      /\ (members # {} => c = k)
  BY MineAreCounted DEF Reported
<1>2. w \in Nat /\ sum \in Nat
  BY GroupSums DEF Reported
<1>3. DOMAIN outcomes = 1 .. n /\ \A i \in members : outcomes[i].group = g
  BY DEF Reported, Scored!Mine
<1>4. \A i \in members :
        /\ Percentages(outcomes)[i] = outcomes[i].percentage
        /\ Percentages(outcomes)[i] \in Int
        /\ Shown(points, outcomes)[i] =
             IF Scored!AllPassed(outcomes, g)
             THEN Scored!Round(w * Percentages(outcomes)[i], c) ELSE 0
  <2>1. \A i \in 1 .. n : Percentages(outcomes)[i] \in 0 .. 100
    BY GroupSums
  <2>2. \A i \in 1 .. n : /\ Percentages(outcomes)[i] = outcomes[i].percentage
                           /\ Shown(points, outcomes)[i] = Scored!TestScore(points, outcomes, i)
    BY <1>3 DEF Percentages, Shown
  <2>3. \A i \in members : Scored!TestScore(points, outcomes, i) =
          IF Scored!AllPassed(outcomes, g)
          THEN Scored!Round(w * outcomes[i].percentage, c) ELSE 0
    BY <1>3 DEF Scored!TestScore
  <2>4. ASSUME NEW i \in members
        PROVE  /\ Percentages(outcomes)[i] = outcomes[i].percentage
               /\ Percentages(outcomes)[i] \in Int
               /\ Shown(points, outcomes)[i] =
                    IF Scored!AllPassed(outcomes, g)
                    THEN Scored!Round(w * Percentages(outcomes)[i], c) ELSE 0
    <3> HIDE DEF members, c, w
    <3>1. i \in 1 .. n
      BY <1>1
    <3>2. Percentages(outcomes)[i] = outcomes[i].percentage /\ Percentages(outcomes)[i] \in Int
      BY <2>1, <2>2, <3>1
    <3>3. Shown(points, outcomes)[i] = Scored!TestScore(points, outcomes, i)
      BY <2>2, <3>1
    <3>4. Scored!TestScore(points, outcomes, i) =
            IF Scored!AllPassed(outcomes, g)
            THEN Scored!Round(w * outcomes[i].percentage, c) ELSE 0
      BY <2>3
    <3>5. QED
      BY <3>2, <3>3, <3>4
  <2>5. QED
    BY <2>4
<1>5. CASE ~Scored!AllPassed(outcomes, g)
  <2>1. worth = 0
    BY <1>5, GroupIsWorth
  <2>2. \A i \in members : Shown(points, outcomes)[i] = 0
    BY <1>4, <1>5
  <2> HIDE DEF members
  <2>3. shown = 0 * k
    <3>1. PICK p : p = Shown(points, outcomes)
      OBVIOUS
    <3>2. IsFiniteSet(members) /\ 0 \in Int /\ \A i \in members : p[i] = 0
      BY <1>1, <2>2, <3>1
    <3>3. Sum(p, members) = 0 * Cardinality(members)
      BY <3>2, SumConstant
    <3>4. QED
      BY <3>1, <3>3
  <2>4. QED
    BY <1>1, <2>1, <2>3 DEF members
<1>6. CASE Scored!AllPassed(outcomes, g)
  <2>1. c = k
    BY <1>1, <1>6 DEF Scored!AllPassed
  <2>2. worth = Scored!Round(w * sum, c)
    BY <1>6, GroupIsWorth
  <2> HIDE DEF members, c, k, w, sum
  <2>3. /\ 2 * (c * shown) <= 2 * (w * sum) + c * k
        /\ 2 * (w * sum) <= 2 * (c * shown) + c * k
    <3>1. \A i \in members :
            /\ Percentages(outcomes)[i] \in Int
            /\ Shown(points, outcomes)[i] = Scored!Round(w * Percentages(outcomes)[i], c)
      BY <1>4, <1>6
    <3>2. IsFiniteSet(members) /\ w \in Int /\ c \in Nat \ {0}
      BY <1>1, <1>2
    <3>3. QED
      BY ONLY <3>1, <3>2, SumRounded DEF k, sum, shown
  <2>4. shown \in Int
    <3>1. \A i \in members : Shown(points, outcomes)[i] \in Int
      <4> SUFFICES ASSUME NEW i \in members PROVE Shown(points, outcomes)[i] \in Int
        OBVIOUS
      <4>1. PICK a \in Int : a = w * Percentages(outcomes)[i]
        BY <1>2, <1>4
      <4>2. QED
        BY <4>1, <1>1, <1>4, <1>6, Rounded
    <3>2. QED
      BY <1>1, <3>1, SumTakes
  <2> HIDE DEF shown
  <2>5. PICK a \in Int : a = w * sum
    BY <1>2
  <2>6. /\ worth \in Int /\ 2 * (c * worth) <= 2 * a + c /\ 2 * a < 2 * (c * worth) + c
    BY <1>1, <2>2, <2>5, Rounded
  <2> HIDE DEF worth
  <2>7. /\ c * (2 * (shown - worth)) = 2 * (c * shown) - 2 * (c * worth)
        /\ c * (2 * (worth - shown)) = 2 * (c * worth) - 2 * (c * shown)
        /\ c * (c + 1) = c * c + c /\ c * shown \in Int /\ c * worth \in Int /\ c * c \in Int
    BY <1>1, <2>4, <2>6
  <2>8. /\ c * (2 * (shown - worth)) <= c * (c + 1)
        /\ c * (2 * (worth - shown)) <= c * (c + 1)
    BY <1>1, <2>1, <2>3, <2>5, <2>6, <2>7
  <2>9. \A x, y \in Int : c * x <= c * y => x <= y
    <3>1. ASSUME NEW x \in Int, NEW y \in Int, c * x <= c * y PROVE x <= y
      <4>1. 2 * (c * x) <= 2 * (c * y) + c
        BY <1>1, <3>1, Distributes
      <4>2. QED
        BY <1>1, <3>1, <4>1, Cancelled
    <3>2. QED
      BY <3>1
  <2>10. QED
    BY <1>1, <2>4, <2>6, <2>8, <2>9 DEF shown, members, worth, c
<1>7. QED
  BY <1>5, <1>6

LEMMA EveryScoreIsEarned ==
  ASSUME NEW groups \in SUBSET Nat, IsFiniteSet(groups), NEW points \in [groups -> Nat],
         NEW words, NEW tests \in Seq(TestsOf(groups, words))
  PROVE  Scored!Earned(points, tests)
<1>1. PICK n \in Nat : tests \in [1 .. n -> TestsOf(groups, words)]
  OBVIOUS
<1> DEFINE outcomes == [i \in DOMAIN tests |-> Scored!Outcome(tests[i])]
<1>2. outcomes = [i \in DOMAIN tests |-> Scored!Outcome(tests[i])]
  OBVIOUS
<1> HIDE DEF outcomes
<1>3. /\ DOMAIN tests = 1 .. n /\ DOMAIN points = groups
      /\ DOMAIN outcomes = 1 .. n
      /\ \A i \in 1 .. n : outcomes[i] \in OutcomesOf(groups) /\ Honest(outcomes[i])
  BY <1>1, <1>2, OutcomeIsHonest
<1>4. Reported(points, outcomes, n)
  <2>1. outcomes = [i \in 1 .. n |-> outcomes[i]]
    BY <1>2, <1>3
  <2>2. outcomes \in [1 .. n -> OutcomesOf(groups)]
    BY <2>1, <1>3
  <2>3. QED
    BY <2>2, <1>3 DEF Reported
<1>5. \A k \in DOMAIN tests :
        Scored!Score(points, Failing(outcomes, k)) <= Scored!Score(points, outcomes)
  BY <1>3, <1>4, FailingIsNoGain
<1>6. Scored!Score(points, outcomes) \in 0 .. Scored!MaxScore(points)
  BY <1>4, ScoreIsWithin
<1>7. \A i \in DOMAIN tests :
        ~outcomes[i].passed =>
          /\ outcomes[i].percentage = 0
          /\ Scored!GroupPoints(points, outcomes, outcomes[i].group) = 0
          /\ \A j \in Scored!Mine(outcomes, outcomes[i].group) :
               Scored!TestScore(points, outcomes, j) = 0
  BY <1>3, <1>4, FailureTakesAll
<1>8. /\ (\E i \in 1 .. n : ~outcomes[i].passed) => Scored!Verdict(points, outcomes) # "Accepted"
      /\ (\A i \in 1 .. n : outcomes[i].passed) =>
           Scored!Verdict(points, outcomes) =
             IF Scored!Score(points, outcomes) >= Scored!MaxScore(points)
             THEN "Accepted" ELSE "Partial"
  BY <1>3, <1>4, VerdictIs
<1>9. (\A i \in DOMAIN tests : outcomes[i].percentage = 100)
        => \/ Scored!Verdict(points, outcomes) = "Accepted"
           \/ \E g \in DOMAIN points : Scored!Mine(outcomes, g) = {}
  <2> SUFFICES ASSUME \A i \in 1 .. n : outcomes[i].percentage = 100,
                      \A g \in DOMAIN points : Scored!Mine(outcomes, g) # {}
               PROVE  Scored!Verdict(points, outcomes) = "Accepted"
    <3>1. DOMAIN tests = 1 .. n
      BY ONLY <1>3
    <3>2. QED
      BY <3>1
  <2>1. \A i \in 1 .. n : outcomes[i].passed
    BY <1>3, <1>7
  <2>2. Scored!Score(points, outcomes) >= Scored!MaxScore(points)
    BY <1>4, <2>1, FullIsAccepted
  <2>3. QED
    BY <1>8, <2>1, <2>2
<1>10. Scored!Verdict(points, outcomes) = "Accepted" =>
         /\ \A i \in DOMAIN tests : outcomes[i].passed
         /\ \A g \in DOMAIN points :
              2 * points[g] * Scored!MapThenSumSet(LAMBDA i : 100 - outcomes[i].percentage,
                                                   Scored!Mine(outcomes, g))
                <= Scored!Count(outcomes, g)
  <2> SUFFICES ASSUME Scored!Verdict(points, outcomes) = "Accepted"
               PROVE  /\ \A i \in DOMAIN tests : outcomes[i].passed
                      /\ \A g \in DOMAIN points :
                           2 * points[g]
                             * Scored!MapThenSumSet(LAMBDA i : 100 - outcomes[i].percentage,
                                                    Scored!Mine(outcomes, g))
                             <= Scored!Count(outcomes, g)
    OBVIOUS
  <2>1. \A i \in 1 .. n : outcomes[i].passed
    BY <1>8
  <2>2. Scored!Score(points, outcomes) >= Scored!MaxScore(points)
    BY <1>8, <2>1
  <2>3. ASSUME NEW g \in DOMAIN points
        PROVE  2 * points[g]
                 * Scored!MapThenSumSet(LAMBDA i : 100 - outcomes[i].percentage,
                                        Scored!Mine(outcomes, g))
                 <= Scored!Count(outcomes, g)
    <3>1. Scored!Mine(outcomes, g) \in SUBSET DOMAIN outcomes
      BY DEF Scored!Mine
    <3>2. Scored!MapThenSumSet(LAMBDA i : 100 - outcomes[i].percentage, Scored!Mine(outcomes, g))
            = Sum(Missing(outcomes), Scored!Mine(outcomes, g))
      BY <3>1, SumsOfScoring
    <3>3. 2 * points[g] * Sum(Missing(outcomes), Scored!Mine(outcomes, g))
            <= Scored!Count(outcomes, g)
      BY <1>4, <2>2, AcceptedIsFull
    <3>4. QED
      BY <3>2, <3>3
  <2>4. QED
    BY <1>3, <2>1, <2>3
<1>11. \A g \in DOMAIN points :
         LET shown == Scored!MapThenSumSet(LAMBDA i : Scored!TestScore(points, outcomes, i),
                                           Scored!Mine(outcomes, g))
             gap == shown - Scored!GroupPoints(points, outcomes, g)
         IN 2 * (IF gap < 0 THEN -gap ELSE gap) <= Scored!Count(outcomes, g) + 1
  <2> SUFFICES ASSUME NEW g \in DOMAIN points
      PROVE  LET shown == Scored!MapThenSumSet(LAMBDA i : Scored!TestScore(points, outcomes, i),
                                               Scored!Mine(outcomes, g))
                 gap == shown - Scored!GroupPoints(points, outcomes, g)
             IN 2 * (IF gap < 0 THEN -gap ELSE gap) <= Scored!Count(outcomes, g) + 1
    OBVIOUS
  <2>1. Scored!Mine(outcomes, g) \in SUBSET DOMAIN outcomes
    BY DEF Scored!Mine
  <2>2. PICK shown : shown = Sum(Shown(points, outcomes), Scored!Mine(outcomes, g))
    OBVIOUS
  <2>3. Scored!MapThenSumSet(LAMBDA i : Scored!TestScore(points, outcomes, i),
                             Scored!Mine(outcomes, g)) = shown
    BY <2>1, <2>2, SumsOfScoring
  <2>4. PICK worth : worth = Scored!GroupPoints(points, outcomes, g)
    OBVIOUS
  <2>5. points[g] \in Nat
    BY <1>3
  <2>6. worth \in Int
    BY <1>4, <2>4, <2>5, GroupIsWorth
  <2>7. /\ shown \in Int
        /\ 2 * (shown - worth) <= Scored!Count(outcomes, g) + 1
        /\ 2 * (worth - shown) <= Scored!Count(outcomes, g) + 1
    BY <1>4, <2>2, <2>4, ShownAddsUp
  <2>8. 2 * (IF shown - worth < 0 THEN -(shown - worth) ELSE shown - worth)
          <= Scored!Count(outcomes, g) + 1
    BY <2>6, <2>7
  <2>9. QED
    BY <2>3, <2>4, <2>8
<1>12. QED
  BY <1>5, <1>6, <1>7, <1>9, <1>10, <1>11, Zenon DEF Scored!Earned, Failing, outcomes

-----------------------------------------------------------------------------
(* The cases of the run are some of these.                                 *)

CaseChosen ==
  /\ rule = "score" => case \in Submissions
  /\ rule = "compare" => case \in References \X Chunked
  /\ rule = "strip" => \E python \in BOOLEAN :
       case \in {python} \X SeqUpTo(Characters(python), LongestSource(python))
  /\ rule = "lanes" => case \in Ranges \X (0 .. 4) \X BOOLEAN

LEMMA CasesChosen == RulesSpec => []CaseChosen
<1>1. RulesInit => CaseChosen
  BY DEF RulesInit, Cases, CaseChosen
<1>2. CaseChosen /\ [RulesNext]_<<rule, case, vars, reaperVars, startVars>> => CaseChosen'
  BY DEF RulesNext, CaseChosen
<1>3. QED
  BY <1>1, <1>2, PTL DEF RulesSpec

LEMMA SubmissionsAreSome ==
  \E words : \A submission \in Submissions :
    submission.points \in [1 .. 2 -> Nat] /\ submission.tests \in Seq(TestsOf(1 .. 2, words))
<1>1. PICK words : words = {"OK", "WRONG", "none"}
  OBVIOUS
<1>2. "OK" \in words /\ "WRONG" \in words /\ "none" \in words
  BY ONLY <1>1
<1>3. ASSUME NEW s \in Said
      PROVE  s \in [exit : Int, word : words, stated : -1 .. 101] /\ Usable(s)
  BY <1>2 DEF Said, Scored!Absent, Usable, Scored!Junk
<1>4. [exit : {0}, word : {"none"}, stated : {0}] \subseteq [exit : Int, word : words, stated : -1 .. 101]
  BY <1>2
<1>5. TestsJudged \subseteq TestsOf(1 .. 2, words)
  BY <1>3, <1>4 DEF TestsJudged, TestsOf, Scored!Stopped, Scored!Absent, Scored!Junk
<1>6. ASSUME NEW submission \in Submissions
      PROVE  submission.points \in [1 .. 2 -> Nat] /\ submission.tests \in Seq(TestsOf(1 .. 2, words))
  <2>1. PICK k \in 0 .. 3 : submission.tests \in [1 .. k -> TestsJudged]
    BY DEF Submissions, SeqUpTo
  <2>2. submission.tests \in [1 .. k -> TestsOf(1 .. 2, words)]
    BY <1>5, <2>1
  <2>3. submission.tests \in Seq(TestsOf(1 .. 2, words))
    BY <2>2
  <2>4. QED
    BY <2>3 DEF Submissions
<1>7. QED
  BY <1>6

\* Whatever the groups are worth, however many tests there are and whatever is
\* said of each: no test earns by failing, a group with a failed test is worth
\* nothing, the score is within its maximum, a full score and the verdict agree,
\* and the tests add up to their group but for rounding; which holds of the
\* cases of the run (score.rs, judge).
THEOREM ScoresAreEarned ==
  /\ \A words : \A groups \in SUBSET Nat : IsFiniteSet(groups) =>
       \A points \in [groups -> Nat], tests \in Seq(TestsOf(groups, words)) :
         Scored!Earned(points, tests)
  /\ RulesSpec => []ScoreIsEarned
<1>1. ASSUME NEW groups \in SUBSET Nat, IsFiniteSet(groups),
             NEW points \in [groups -> Nat], NEW words, NEW tests \in Seq(TestsOf(groups, words))
      PROVE  Scored!Earned(points, tests)
  BY <1>1, EveryScoreIsEarned
<1>2. \A words : \A groups \in SUBSET Nat : IsFiniteSet(groups) =>
        \A points \in [groups -> Nat], tests \in Seq(TestsOf(groups, words)) :
          Scored!Earned(points, tests)
  BY <1>1
<1>3. CaseChosen => ScoreIsEarned
  <2>1. SUFFICES ASSUME case \in Submissions PROVE Scored!Earned(case.points, case.tests)
    BY DEF CaseChosen, ScoreIsEarned
  <2>2. 1 .. 2 \in SUBSET Nat /\ IsFiniteSet(1 .. 2)
    <3>1. 1 \in Int /\ 2 \in Int
      OBVIOUS
    <3>2. IsFiniteSet(1 .. 2)
      BY <3>1, FS_Interval
    <3>3. QED
      BY <3>2
  <2>0. PICK words : \A submission \in Submissions :
          submission.points \in [1 .. 2 -> Nat] /\ submission.tests \in Seq(TestsOf(1 .. 2, words))
    BY SubmissionsAreSome
  <2>3. case.points \in [1 .. 2 -> Nat] /\ case.tests \in Seq(TestsOf(1 .. 2, words))
    BY <2>0, <2>1
  <2>4. QED
    BY <1>1, <2>2, <2>3
<1>4. QED
  BY <1>2, <1>3, CasesChosen, PTL


-----------------------------------------------------------------------------
(* Sequences, gone over from the left.  The state before each element, and  *)
(* after the last, is a function on the numbers up to its length.          *)

\* The greatest of some positions, which is taken out first.
Last(T) == CHOOSE x \in T : \A y \in T : x >= y

LEMMA LastIs ==
  ASSUME NEW n \in Nat
  PROVE  /\ \A T \in (SUBSET (1 .. n)) \ {{}} : Last(T) \in T
         /\ \A k \in 0 .. n - 1 : Last(1 .. k + 1) = k + 1 /\ (1 .. k + 1) \ {k + 1} = 1 .. k
<1>1. ASSUME NEW T \in (SUBSET (1 .. n)) \ {{}} PROVE Last(T) \in T
  <2> DEFINE below == {n - x : x \in T}
  <2>1. below \in SUBSET Nat /\ below # {}
    OBVIOUS
  <2>2. PICK m \in below : \A k \in below : m <= k
    BY <2>1, Least
  <2>3. PICK x \in T : m = n - x
    OBVIOUS
  <2>4. \A y \in T : x >= y
    <3>1. ASSUME NEW y \in T PROVE x >= y
      <4>1. m <= n - y
        BY <2>2
      <4>2. QED
        BY <4>1, <2>3
    <3>2. QED
      BY <3>1
  <2>5. QED
    BY <2>4 DEF Last
<1>2. ASSUME NEW k \in 0 .. n - 1 PROVE Last(1 .. k + 1) = k + 1 /\ (1 .. k + 1) \ {k + 1} = 1 .. k
  BY DEF Last
<1>3. QED
  BY <1>1, <1>2

\* A function on the sets of positions that takes the last one out each time,
\* wherever what it has left is a state; and the states on the way.
Peels(n, V, base, step, f) ==
  /\ f[{}] = base
  /\ \A T \in (SUBSET (1 .. n)) \ {{}} :
       f[T \ {Last(T)}] \in V => f[T] = step[<<Last(T), f[T \ {Last(T)}]>>]
Walks(n, base, step, h, end) ==
  h[0] = base /\ h[n] = end /\ \A k \in 0 .. n - 1 : h[k + 1] = step[<<k + 1, h[k]>>]

\* There is such a function, of the states only.
LEMMA Walk ==
  ASSUME NEW n \in Nat, NEW V, NEW base \in V, NEW step \in [(1 .. n) \X V -> V]
  PROVE  \E g \in [SUBSET (1 .. n) -> V] : Peels(n, V, base, step, g)
<1> DEFINE pick == [T \in (SUBSET (1 .. n)) \ {{}} |-> Last(T)]
<1>1. Takes(1 .. n, pick)
  BY LastIs DEF Takes
<1>2. IsFiniteSet(1 .. n)
  BY FS_Interval
<1>3. \E g \in [SUBSET (1 .. n) -> V] : Folds(1 .. n, base, pick, step, g)
  <2> HIDE DEF pick
  <2>1. QED
    BY <1>1, <1>2, FoldExists
<1>4. ASSUME NEW g \in [SUBSET (1 .. n) -> V], Folds(1 .. n, base, pick, step, g)
      PROVE  Peels(n, V, base, step, g)
  BY <1>4 DEF Folds, Peels
<1> HIDE DEF pick
<1>5. QED
  BY <1>3, <1>4

\* What holds before the first and after each holds after the last.
LEMMA Along ==
  ASSUME NEW n \in Nat, NEW S, 0 \in S, \A k \in 0 .. n - 1 : k \in S => k + 1 \in S
  PROVE  \A k \in 0 .. n : k \in S
<1> DEFINE Good == {k \in Nat : k <= n => k \in S}
<1>1. 0 \in Good
  OBVIOUS
<1>2. \A k \in Good : k + 1 \in Good
  OBVIOUS
<1>3. Good \in SUBSET Nat
  OBVIOUS
<1> HIDE DEF Good
<1>4. Good = Nat
  BY <1>1, <1>2, <1>3, AllNumbers
<1>5. QED
  BY <1>4 DEF Good

\* Whatever does that goes through those states.
LEMMA Walked ==
  ASSUME NEW n \in Nat, NEW V, NEW base \in V, NEW step \in [(1 .. n) \X V -> V],
         NEW iter, Peels(n, V, base, step, iter)
  PROVE  \E h \in [0 .. n -> V] : Walks(n, base, step, h, iter[1 .. n])
<1>0. /\ iter[{}] = base
      /\ \A T \in (SUBSET (1 .. n)) \ {{}} :
           iter[T \ {Last(T)}] \in V => iter[T] = step[<<Last(T), iter[T \ {Last(T)}]>>]
  BY DEF Peels
<1> DEFINE S == {k \in 0 .. n : iter[1 .. k] \in V}
           h == [k \in 0 .. n |-> iter[1 .. k]]
<1>1. ASSUME NEW k \in 0 .. n - 1, iter[1 .. k] \in V
      PROVE  iter[1 .. k + 1] = step[<<k + 1, iter[1 .. k]>>] /\ iter[1 .. k + 1] \in V
  <2>1. 1 .. k + 1 \in SUBSET (1 .. n) /\ 1 .. k + 1 # {} /\ k + 1 \in 1 .. n
    OBVIOUS
  <2>2. Last(1 .. k + 1) = k + 1 /\ (1 .. k + 1) \ {k + 1} = 1 .. k
    BY LastIs
  <2>3. iter[1 .. k + 1] = step[<<k + 1, iter[1 .. k]>>]
    BY <1>0, <1>1, <2>1, <2>2
  <2>4. QED
    BY <1>1, <2>1, <2>3
<1>2. 1 .. 0 = {}
  OBVIOUS
<1>3. \A k \in 0 .. n : k \in S
  <2>1. 0 \in S
    BY <1>0, <1>2
  <2>2. ASSUME NEW k \in 0 .. n - 1, k \in S PROVE k + 1 \in S
    <3>1. iter[1 .. k + 1] \in V
      BY <1>1, <2>2
    <3>2. k + 1 \in 0 .. n
      OBVIOUS
    <3>3. QED
      BY <3>1, <3>2
  <2> HIDE DEF S
  <2>3. QED
    BY <2>1, <2>2, Along
<1>4. \A k \in 0 .. n : h[k] = iter[1 .. k] /\ h[k] \in V
  BY <1>3
<1>5. h \in [0 .. n -> V]
  BY <1>4
<1>6. \A k \in 0 .. n - 1 : h[k + 1] = step[<<k + 1, h[k]>>]
  <2> SUFFICES ASSUME NEW k \in 0 .. n - 1 PROVE h[k + 1] = step[<<k + 1, h[k]>>]
    OBVIOUS
  <2>1. k \in 0 .. n /\ k + 1 \in 0 .. n
    OBVIOUS
  <2>2. /\ h[k] = iter[1 .. k] /\ h[k] \in V
        /\ h[k + 1] = iter[1 .. k + 1]
    BY <1>4, <2>1
  <2> HIDE DEF h
  <2>3. QED
    BY <1>1, <2>2
<1>7. h[0] = base /\ h[n] = iter[1 .. n]
  BY <1>0, <1>2, <1>4
<1> HIDE DEF h
<1>8. Walks(n, base, step, h, iter[1 .. n])
  BY <1>6, <1>7 DEF Walks
<1>9. QED
  BY <1>5, <1>7, <1>8

-----------------------------------------------------------------------------
(* Lanes.                                                                  *)

\* The widths before a lane, one after the other.
Laid(found, lanes, lane, h) ==
  /\ h[0] = 0
  /\ \A k \in 0 .. lane - 2 : h[k + 1] = h[k] + Cores!WidthOf(k + 1, found, lanes)
  /\ Cores!StartOf(lane, found, lanes) = h[lane - 1]

LEMMA StartWalks ==
  ASSUME NEW found, NEW lanes, NEW lane \in Nat \ {0},
         \A k \in 1 .. lane - 1 : Cores!WidthOf(k, found, lanes) \in Int
  PROVE  \E h \in [0 .. lane - 1 -> Int] : Laid(found, lanes, lane, h)
<1> DEFINE n == lane - 1
           V == Int
           step == [t \in (1 .. n) \X V |-> t[2] + Cores!WidthOf(t[1], found, lanes)]
           body(g) == [T \in SUBSET (1 .. n) |->
                         IF T = {} THEN 0
                         ELSE LET x == Last(T)
                              IN g[T \ {x}] + Cores!WidthOf([k \in 1 .. n |-> k][x], found, lanes)]
           iter == CHOOSE g : g = body(g)
<1>1. n \in Nat /\ 0 \in V /\ step \in [(1 .. n) \X V -> V]
  OBVIOUS
<1> HIDE DEF n, V, step, body, iter
<1>2. PICK g \in [SUBSET (1 .. n) -> V] : Peels(n, V, 0, step, g)
  BY <1>1, Walk
<1>3. \A T \in (SUBSET (1 .. n)) \ {{}} : Last(T) \in T
  BY <1>1, LastIs
<1>4. g = body(g)
  <2>1. \A T \in (SUBSET (1 .. n)) \ {{}} :
          step[<<Last(T), g[T \ {Last(T)}]>>]
            = g[T \ {Last(T)}] + Cores!WidthOf([k \in 1 .. n |-> k][Last(T)], found, lanes)
    BY <1>3 DEF step
  <2>2. g = [T \in SUBSET (1 .. n) |-> g[T]]
    OBVIOUS
  <2>3. QED
    BY <1>2, <1>3, <2>1, <2>2 DEF body, Peels
<1>5. iter = body(iter)
  BY <1>4 DEF iter
<1>6. Peels(n, V, 0, step, iter)
  BY <1>1, <1>3, <1>5 DEF body, step, Peels
<1>7. PICK h \in [0 .. n -> V] : Walks(n, 0, step, h, iter[1 .. n])
  BY <1>1, <1>6, Walked
<1>8. Cores!StartOf(lane, found, lanes) = iter[1 .. n]
  <2>1. DOMAIN [k \in 1 .. n |-> k] = 1 .. n
    OBVIOUS
  <2>2. QED
    BY <2>1 DEF Cores!StartOf, Cores!FoldLeft, Cores!MapThenFoldSet, Cores!Max, Last, iter, body, n
<1>9. \A k \in 0 .. n - 1 : h[k + 1] = h[k] + Cores!WidthOf(k + 1, found, lanes)
  <2> SUFFICES ASSUME NEW k \in 0 .. n - 1
      PROVE h[k + 1] = h[k] + Cores!WidthOf(k + 1, found, lanes)
    OBVIOUS
  <2>1. k + 1 \in 1 .. n /\ h[k] \in V
    BY <1>1
  <2>2. h[k + 1] = step[<<k + 1, h[k]>>]
    BY <1>7 DEF Walks
  <2>3. QED
    BY <2>1, <2>2 DEF step
<1>10. n - 1 = lane - 2 /\ n = lane - 1
  BY DEF n
<1>11. QED
  BY <1>7, <1>8, <1>9, <1>10 DEF V, Walks, Laid

\* Division of whole numbers, as it is used.
LEMMA Divided ==
  ASSUME NEW n \in Nat, NEW m \in Nat \ {0}
  PROVE  /\ n \div m \in Nat /\ n % m \in 0 .. m - 1
         /\ n = m * (n \div m) + (n % m)
         /\ n >= m => n \div m >= 1
<1>1. n \div m \in Nat /\ n % m \in 0 .. m - 1 /\ n = m * (n \div m) + (n % m)
  OBVIOUS
<1>2. n \div m = 0 => n < m
  BY <1>1
<1>3. QED
  BY <1>1, <1>2

LEMMA Grows ==
  ASSUME NEW q \in Nat, NEW i \in Nat, NEW j \in Nat, i <= j
  PROVE  i * q <= j * q /\ i * q \in Nat
<1>1. PICK d \in Nat : j = i + d
  <2>1. j - i \in Nat /\ j = i + (j - i)
    OBVIOUS
  <2>2. QED
    BY <2>1
<1>2. d * q \in Nat /\ i * q \in Nat
  OBVIOUS
<1>3. q * (i + d) = q * i + q * d /\ q * i = i * q /\ q * d = d * q /\ q * (i + d) = (i + d) * q
  BY Distributes
<1>4. QED
  BY <1>1, <1>2, <1>3

\* Where a lane starts: the whole part for each before it, and one more for each
\* of those while the remainder lasts.
LEMMA StartIs ==
  ASSUME NEW found, NEW n \in Nat, Len(found) = n, NEW lanes \in Nat \ {0},
         NEW lane \in 1 .. lanes + 1
  PROVE  Cores!StartOf(lane, found, lanes)
           = (lane - 1) * (n \div lanes) + (IF lane - 1 <= n % lanes THEN lane - 1 ELSE n % lanes)
<1>1. PICK q \in Nat, r \in Nat : q = n \div lanes /\ r = n % lanes
  <2>1. n \div lanes \in Nat /\ n % lanes \in Nat
    OBVIOUS
  <2>2. QED
    BY ONLY <2>1
<1>2. \A k \in Nat : Cores!WidthOf(k, found, lanes) = q + (IF k <= r THEN 1 ELSE 0)
  BY <1>1 DEF Cores!WidthOf
<1>3. \A k \in 1 .. lane - 1 : Cores!WidthOf(k, found, lanes) \in Int
  BY <1>2
<1>4. PICK h \in [0 .. lane - 1 -> Int] : Laid(found, lanes, lane, h)
  <2>1. lane \in Nat \ {0}
    OBVIOUS
  <2>2. QED
    BY <1>3, <2>1, StartWalks
<1> DEFINE least(k) == IF k <= r THEN k ELSE r
           S == {k \in 0 .. lane - 1 : h[k] = k * q + least(k)}
<1>5. 0 \in S
  BY <1>4 DEF Laid
<1>6. ASSUME NEW k \in 0 .. lane - 2, k \in S PROVE k + 1 \in S
  <2>1. h[k] = k * q + least(k) /\ h[k + 1] = h[k] + Cores!WidthOf(k + 1, found, lanes)
    BY <1>4, <1>6 DEF Laid
  <2>2. Cores!WidthOf(k + 1, found, lanes) = q + (IF k + 1 <= r THEN 1 ELSE 0)
    BY <1>2
  <2>3. least(k + 1) = least(k) + (IF k + 1 <= r THEN 1 ELSE 0)
    OBVIOUS
  <2>4. (k + 1) * q = k * q + q /\ k * q \in Int
    OBVIOUS
  <2>5. least(k) \in Int /\ least(k + 1) \in Int
    OBVIOUS
  <2>6. h[k + 1] = (k + 1) * q + least(k + 1)
    <3> HIDE DEF least, S
    <3>1. PICK a \in Int : a = k * q
      BY <2>4
    <3>2. PICK w \in Int : w = IF k + 1 <= r THEN 1 ELSE 0
      OBVIOUS
    <3>3. PICK b \in Int : b = (k + 1) * q
      BY <2>4
    <3>4. h[k + 1] = (a + least(k)) + (q + w) /\ b = a + q /\ least(k + 1) = least(k) + w
      BY <2>1, <2>2, <2>3, <2>4, <3>1, <3>2, <3>3
    <3>5. h[k + 1] = b + least(k + 1)
      BY <3>4, <2>5
    <3>6. QED
      BY ONLY <3>3, <3>5
  <2>7. QED
    BY <2>6
<1>7. \A k \in 0 .. lane - 1 : k \in S
  <2> HIDE DEF S
  <2>1. lane - 1 \in Nat /\ (lane - 1) - 1 = lane - 2
    OBVIOUS
  <2>2. \A k \in 0 .. (lane - 1) - 1 : k \in S => k + 1 \in S
    BY <1>6, <2>1
  <2>3. QED
    BY ONLY <1>5, <2>1, <2>2, Along
<1>8. lane - 1 \in S
  BY <1>7
<1>9. QED
  BY <1>1, <1>4, <1>8 DEF Laid

\* The pieces of n processors follow one another, leave none over, and none is
\* wider than another by more than one.
Following(found, n, lanes) ==
  /\ \A i \in 1 .. lanes :
       /\ Cores!StartOf(i, found, lanes) \in 0 .. n
       /\ Cores!WidthOf(i, found, lanes) \in Nat \ {0}
       /\ Cores!StartOf(i, found, lanes) + Cores!WidthOf(i, found, lanes) <= n
       /\ i < lanes => Cores!StartOf(i + 1, found, lanes)
                         = Cores!StartOf(i, found, lanes) + Cores!WidthOf(i, found, lanes)
  /\ Cores!StartOf(1, found, lanes) = 0
  /\ Cores!StartOf(lanes, found, lanes) + Cores!WidthOf(lanes, found, lanes) = n
  /\ \A i, j \in 1 .. lanes :
       /\ Cores!WidthOf(i, found, lanes) - Cores!WidthOf(j, found, lanes) \in -1 .. 1
       /\ i < j => Cores!StartOf(i, found, lanes) + Cores!WidthOf(i, found, lanes)
                     <= Cores!StartOf(j, found, lanes)

LEMMA PiecesFollow ==
  ASSUME NEW found, NEW n \in Nat, Len(found) = n, NEW lanes \in Nat \ {0}, lanes <= n
  PROVE  Following(found, n, lanes)
<1>1. PICK q \in Nat, r \in Nat : q = n \div lanes /\ r = n % lanes
  <2>1. n \div lanes \in Nat /\ n % lanes \in Nat
    OBVIOUS
  <2>2. QED
    BY ONLY <2>1
<1>2. n = lanes * q + r /\ r < lanes /\ q >= 1
  BY <1>1, Divided
<1> DEFINE least(k) == IF k <= r THEN k ELSE r
<1>3. \A i \in 1 .. lanes + 1 : Cores!StartOf(i, found, lanes) = (i - 1) * q + least(i - 1)
  BY <1>1, StartIs
<1>4. \A i \in 1 .. lanes : Cores!WidthOf(i, found, lanes) = q + (IF i <= r THEN 1 ELSE 0)
  BY <1>1 DEF Cores!WidthOf
<1>5. \A i \in 1 .. lanes :
        Cores!StartOf(i + 1, found, lanes)
          = Cores!StartOf(i, found, lanes) + Cores!WidthOf(i, found, lanes)
  <2> SUFFICES ASSUME NEW i \in 1 .. lanes
      PROVE Cores!StartOf(i + 1, found, lanes)
              = Cores!StartOf(i, found, lanes) + Cores!WidthOf(i, found, lanes)
    OBVIOUS
  <2>1. Cores!StartOf(i + 1, found, lanes) = i * q + least(i)
    BY <1>3
  <2>2. Cores!StartOf(i, found, lanes) = (i - 1) * q + least(i - 1)
    BY <1>3
  <2>3. least(i) = least(i - 1) + (IF i <= r THEN 1 ELSE 0)
    OBVIOUS
  <2>4. i * q = (i - 1) * q + q /\ (i - 1) * q \in Int
    OBVIOUS
  <2>5. least(i) \in Int /\ least(i - 1) \in Int
    OBVIOUS
  <2> HIDE DEF least
  <2>6. QED
    BY <1>4, <2>1, <2>2, <2>3, <2>4, <2>5
<1>6. \A i, j \in 1 .. lanes + 1 :
        i <= j => Cores!StartOf(i, found, lanes) <= Cores!StartOf(j, found, lanes)
  <2> SUFFICES ASSUME NEW i \in 1 .. lanes + 1, NEW j \in 1 .. lanes + 1, i <= j
      PROVE Cores!StartOf(i, found, lanes) <= Cores!StartOf(j, found, lanes)
    OBVIOUS
  <2>1. i - 1 \in Nat /\ j - 1 \in Nat /\ i - 1 <= j - 1
    OBVIOUS
  <2>2. (i - 1) * q <= (j - 1) * q /\ (i - 1) * q \in Int /\ (j - 1) * q \in Int
    BY <2>1, Grows
  <2>3. least(i - 1) <= least(j - 1) /\ least(i - 1) \in Int /\ least(j - 1) \in Int
    BY <2>1
  <2>4. /\ Cores!StartOf(i, found, lanes) = (i - 1) * q + least(i - 1)
        /\ Cores!StartOf(j, found, lanes) = (j - 1) * q + least(j - 1)
    BY <1>3
  <2> HIDE DEF least
  <2>5. PICK a \in Int, b \in Int : a = (i - 1) * q /\ b = (j - 1) * q
    BY <2>2
  <2>6. /\ a <= b
        /\ Cores!StartOf(i, found, lanes) = a + least(i - 1)
        /\ Cores!StartOf(j, found, lanes) = b + least(j - 1)
    BY <2>2, <2>4, <2>5
  <2>7. QED
    BY <2>3, <2>6
<1>7. Cores!StartOf(1, found, lanes) = 0 /\ Cores!StartOf(lanes + 1, found, lanes) = n
  <2>1. Cores!StartOf(1, found, lanes) = 0
    BY <1>3
  <2>2. Cores!StartOf(lanes + 1, found, lanes) = lanes * q + r
    <3>1. Cores!StartOf(lanes + 1, found, lanes) = (lanes + 1 - 1) * q + least(lanes + 1 - 1)
      BY <1>3
    <3>2. lanes + 1 - 1 = lanes /\ least(lanes) = r
      BY <1>2
    <3> HIDE DEF least
    <3>3. QED
      BY <3>1, <3>2
  <2>3. QED
    BY <1>2, <2>1, <2>2
<1>8. \A i \in 1 .. lanes + 1 : Cores!StartOf(i, found, lanes) \in Int
  <2> SUFFICES ASSUME NEW i \in 1 .. lanes + 1 PROVE Cores!StartOf(i, found, lanes) \in Int
    OBVIOUS
  <2>1. (i - 1) * q \in Int /\ least(i - 1) \in Int
    OBVIOUS
  <2> HIDE DEF least
  <2>2. QED
    BY <1>3, <2>1
<1> HIDE DEF least
<1>9. \A i \in 1 .. lanes :
        /\ Cores!WidthOf(i, found, lanes) \in {q, q + 1}
        /\ Cores!StartOf(i, found, lanes) \in 0 .. n
        /\ Cores!StartOf(i + 1, found, lanes) <= n
  <2> SUFFICES ASSUME NEW i \in 1 .. lanes
      PROVE /\ Cores!WidthOf(i, found, lanes) \in {q, q + 1}
            /\ Cores!StartOf(i, found, lanes) \in 0 .. n
            /\ Cores!StartOf(i + 1, found, lanes) <= n
    OBVIOUS
  <2>1. /\ i \in 1 .. lanes + 1 /\ i + 1 \in 1 .. lanes + 1 /\ 1 \in 1 .. lanes + 1
        /\ lanes + 1 \in 1 .. lanes + 1 /\ 1 <= i /\ i <= lanes + 1 /\ i + 1 <= lanes + 1
    OBVIOUS
  <2>2. QED
    BY <2>1, <1>4, <1>6, <1>7, <1>8
<1>10. \A i, j \in 1 .. lanes :
         i < j => Cores!StartOf(i, found, lanes) + Cores!WidthOf(i, found, lanes)
                    <= Cores!StartOf(j, found, lanes)
  <2> SUFFICES ASSUME NEW i \in 1 .. lanes, NEW j \in 1 .. lanes, i < j
      PROVE  Cores!StartOf(i, found, lanes) + Cores!WidthOf(i, found, lanes)
               <= Cores!StartOf(j, found, lanes)
    OBVIOUS
  <2>1. i + 1 \in 1 .. lanes + 1 /\ j \in 1 .. lanes + 1 /\ i + 1 <= j
    OBVIOUS
  <2>2. Cores!StartOf(i + 1, found, lanes) <= Cores!StartOf(j, found, lanes)
    BY <1>6, <2>1
  <2>3. QED
    BY <1>5, <2>2
<1>11. \A i \in 1 .. lanes :
         /\ Cores!StartOf(i, found, lanes) \in 0 .. n
         /\ Cores!WidthOf(i, found, lanes) \in Nat \ {0}
         /\ Cores!StartOf(i, found, lanes) + Cores!WidthOf(i, found, lanes) <= n
  <2> SUFFICES ASSUME NEW i \in 1 .. lanes
      PROVE  /\ Cores!StartOf(i, found, lanes) \in 0 .. n
             /\ Cores!WidthOf(i, found, lanes) \in Nat \ {0}
             /\ Cores!StartOf(i, found, lanes) + Cores!WidthOf(i, found, lanes) <= n
    OBVIOUS
  <2>1. /\ Cores!WidthOf(i, found, lanes) \in {q, q + 1}
        /\ Cores!StartOf(i, found, lanes) \in 0 .. n
        /\ Cores!StartOf(i + 1, found, lanes) <= n
    BY ONLY <1>9
  <2>2. Cores!WidthOf(i, found, lanes) \in Nat \ {0}
    BY <1>2, <2>1
  <2>3. Cores!StartOf(i + 1, found, lanes)
          = Cores!StartOf(i, found, lanes) + Cores!WidthOf(i, found, lanes)
    BY <1>5
  <2>4. QED
    BY ONLY <2>1, <2>2, <2>3
<1>12. Cores!StartOf(lanes, found, lanes) + Cores!WidthOf(lanes, found, lanes) = n
  <2>1. lanes \in 1 .. lanes
    OBVIOUS
  <2>2. QED
    BY <2>1, <1>5, <1>7
<1>13. \A i, j \in 1 .. lanes :
         Cores!WidthOf(i, found, lanes) - Cores!WidthOf(j, found, lanes) \in -1 .. 1
  <2> SUFFICES ASSUME NEW i \in 1 .. lanes, NEW j \in 1 .. lanes
      PROVE Cores!WidthOf(i, found, lanes) - Cores!WidthOf(j, found, lanes) \in -1 .. 1
    OBVIOUS
  <2>1. PICK a \in {q, q + 1}, b \in {q, q + 1} :
          a = Cores!WidthOf(i, found, lanes) /\ b = Cores!WidthOf(j, found, lanes)
    BY <1>9
  <2>2. a - b \in -1 .. 1
    OBVIOUS
  <2>3. QED
    BY <2>1, <2>2
<1>14. QED
  BY <1>5, <1>7, <1>10, <1>11, <1>12, <1>13 DEF Following

\* Sequences put one after the other, so many of them.
Joined(n, seqs, f) ==
  f[1] = seqs[1] /\ \A i \in 1 .. n - 1 : f[i + 1] = f[i] \o seqs[i + 1]

LEMMA Flattened ==
  ASSUME NEW E, NEW n \in Nat \ {0}, NEW seqs, seqs \in [1 .. n -> Seq(E)]
  PROVE  \E f \in [1 .. n -> Seq(E)] : Joined(n, seqs, f) /\ Cores!FlattenSeq(seqs) = f[n]
<1> DEFINE V == Seq(E)
           step == [t \in (1 .. n) \X V |-> IF t[1] = 1 THEN seqs[1] ELSE t[2] \o seqs[t[1]]]
           body(g) == [i \in 1 .. n |-> IF i = 1 THEN seqs[i] ELSE g[i - 1] \o seqs[i]]
           iter == CHOOSE g : g = body(g)
<1>1. n \in Nat /\ n # 0 /\ Len(seqs) = n
  OBVIOUS
<1>2. <<>> \in V /\ step \in [(1 .. n) \X V -> V]
  OBVIOUS
<1> HIDE DEF V, step, body, iter
<1>3. PICK g \in [SUBSET (1 .. n) -> V] : Peels(n, V, <<>>, step, g)
  <2>1. PICK base \in V : base = <<>>
    BY <1>2
  <2>2. \E g \in [SUBSET (1 .. n) -> V] : Peels(n, V, base, step, g)
    BY <1>1, <1>2, Walk
  <2>3. QED
    BY <2>1, <2>2
<1>4. PICK h \in [0 .. n -> V] : Walks(n, <<>>, step, h, g[1 .. n])
  <2>1. PICK base \in V : base = <<>>
    BY <1>2
  <2>2. Peels(n, V, base, step, g)
    BY <1>3, <2>1
  <2>3. \E h \in [0 .. n -> V] : Walks(n, base, step, h, g[1 .. n])
    BY <1>1, <1>2, <2>2, Walked
  <2>4. QED
    BY <2>1, <2>3
<1>5. \A k \in 0 .. n - 1 :
        h[k + 1] = IF k + 1 = 1 THEN seqs[1] ELSE h[k] \o seqs[k + 1]
  <2> SUFFICES ASSUME NEW k \in 0 .. n - 1
      PROVE h[k + 1] = IF k + 1 = 1 THEN seqs[1] ELSE h[k] \o seqs[k + 1]
    OBVIOUS
  <2>1. k + 1 \in 1 .. n /\ h[k] \in V
    BY <1>1
  <2>2. h[k + 1] = step[<<k + 1, h[k]>>]
    BY <1>4 DEF Walks
  <2>3. QED
    BY <2>1, <2>2 DEF step
<1> DEFINE f == [i \in 1 .. n |-> h[i]]
<1>6. f \in [1 .. n -> V]
  OBVIOUS
<1>7. \A i \in 1 .. n : f[i] = IF i = 1 THEN seqs[i] ELSE f[i - 1] \o seqs[i]
  <2> SUFFICES ASSUME NEW i \in 1 .. n
      PROVE f[i] = IF i = 1 THEN seqs[i] ELSE f[i - 1] \o seqs[i]
    OBVIOUS
  <2>1. i - 1 \in 0 .. n - 1 /\ (i - 1) + 1 = i
    BY <1>1
  <2>2. h[i] = IF i = 1 THEN seqs[1] ELSE h[i - 1] \o seqs[i]
    BY <1>5, <2>1
  <2>3. i # 1 => f[i - 1] = h[i - 1]
    BY <2>1
  <2>4. f[i] = h[i]
    OBVIOUS
  <2> HIDE DEF f
  <2>5. QED
    BY <2>2, <2>3, <2>4
<1> HIDE DEF f
<1>8. f = body(f)
  <2>1. f = [i \in 1 .. n |-> f[i]]
    BY <1>6
  <2>2. QED
    BY <1>7, <2>1 DEF body
<1>9. iter = body(iter)
  BY <1>8 DEF iter
<1>10. \A k \in 0 .. n : k > 0 => iter[k] = f[k]
  <2> DEFINE S == {k \in 0 .. n : k > 0 => iter[k] = f[k]}
  <2>1. 0 \in S
    BY <1>1
  <2>2. ASSUME NEW k \in 0 .. n - 1, k \in S PROVE k + 1 \in S
    <3>1. k + 1 \in 1 .. n /\ (k + 1) - 1 = k /\ (k + 1 = 1 <=> k = 0)
      OBVIOUS
    <3>2. iter[k + 1] = IF k = 0 THEN seqs[k + 1] ELSE iter[k] \o seqs[k + 1]
      BY <1>9, <3>1 DEF body
    <3>3. f[k + 1] = IF k = 0 THEN seqs[k + 1] ELSE f[k] \o seqs[k + 1]
      BY <1>7, <3>1
    <3>4. k # 0 => iter[k] = f[k]
      BY <2>2
    <3>5. QED
      BY <3>1, <3>2, <3>3, <3>4
  <2> HIDE DEF S
  <2>3. \A k \in 0 .. n : k \in S
    BY <1>1, <2>1, <2>2, Along
  <2>4. QED
    BY <2>3 DEF S
<1>11. Cores!FlattenSeq(seqs) = iter[n]
  BY <1>1 DEF Cores!FlattenSeq, iter, body
<1>12. Joined(n, seqs, f)
  <2>1. f[1] = seqs[1]
    BY <1>1, <1>7
  <2>2. ASSUME NEW i \in 1 .. n - 1 PROVE f[i + 1] = f[i] \o seqs[i + 1]
    <3>1. i + 1 \in 1 .. n /\ (i + 1) - 1 = i /\ i + 1 # 1
      OBVIOUS
    <3>2. QED
      BY <1>7, <3>1
  <2>3. QED
    BY <2>1, <2>2 DEF Joined
<1>13. Cores!FlattenSeq(seqs) = f[n]
  BY <1>1, <1>10, <1>11
<1>14. QED
  BY <1>6, <1>12, <1>13 DEF V

LEMMA NoneFlattened == Cores!FlattenSeq(<<>>) = <<>>
BY DEF Cores!FlattenSeq

-----------------------------------------------------------------------------
(* A list of processors, in order.                                         *)

Climbs(s) == \A i, j \in 1 .. Len(s) : i < j => s[i] < s[j]

\* A list that climbs names as many as it is long.
LEMMA ClimbingIsCounted ==
  ASSUME NEW s \in Seq(Nat), Climbs(s)
  PROVE  /\ \A i, j \in 1 .. Len(s) : s[i] = s[j] => i = j
         /\ IsFiniteSet(Cores!ToSet(s)) /\ Cardinality(Cores!ToSet(s)) = Len(s)
<1>1. PICK n \in Nat : n = Len(s)
  OBVIOUS
<1>2. \A i, j \in 1 .. Len(s) : s[i] = s[j] => i = j
  <2> SUFFICES ASSUME NEW i \in 1 .. Len(s), NEW j \in 1 .. Len(s), s[i] = s[j] PROVE i = j
    OBVIOUS
  <2>1. s[i] \in Nat /\ ~(s[i] < s[j]) /\ ~(s[j] < s[i])
    OBVIOUS
  <2>2. QED
    BY <2>1 DEF Climbs
<1>3. s \in Bijection(1 .. n, Cores!ToSet(s))
  <2> DEFINE T == Cores!ToSet(s)
  <2>1. T = {s[i] : i \in 1 .. n}
    BY <1>1 DEF Cores!ToSet
  <2>2. s \in [1 .. n -> T]
    <3>1. DOMAIN s = 1 .. n /\ s = [i \in 1 .. n |-> s[i]]
      BY <1>1
    <3>2. \A i \in 1 .. n : s[i] \in T
      BY <2>1
    <3> HIDE DEF T
    <3>3. QED
      BY <3>1, <3>2
  <2>3. \A t \in T : \E i \in 1 .. n : s[i] = t
    BY <2>1
  <2> HIDE DEF T
  <2>4. s \in Injection(1 .. n, T)
    BY <1>1, <1>2, <2>2 DEF Injection, IsInjective
  <2>5. s \in Surjection(1 .. n, T)
    BY <2>2, <2>3 DEF Surjection
  <2>6. QED
    BY <2>4, <2>5 DEF T, Bijection
<1>4. IsFiniteSet(1 .. n) /\ Cardinality(1 .. n) = n
  BY FS_Interval
<1>5. ExistsBijection(1 .. n, Cores!ToSet(s))
  BY <1>3 DEF ExistsBijection
<1>6. QED
  BY <1>1, <1>2, <1>4, <1>5, FS_Bijection
\* Two sequences, one after the other.
LEMMA Concatenated ==
  ASSUME NEW E, NEW s \in Seq(E), NEW t \in Seq(E)
  PROVE  /\ s \o t \in Seq(E) /\ Len(s) \in Nat /\ Len(t) \in Nat
         /\ Len(s \o t) = Len(s) + Len(t)
         /\ \A i \in 1 .. Len(s) : (s \o t)[i] = s[i]
         /\ \A i \in Len(s) + 1 .. Len(s) + Len(t) : (s \o t)[i] = t[i - Len(s)]
OBVIOUS

\* A list that climbs, and goes from one number to another at most.
Between(s, low, high) ==
  Climbs(s) /\ \A i \in 1 .. Len(s) : low <= s[i] /\ s[i] <= high

LEMMA ClimbsOn ==
  ASSUME NEW s \in Seq(Nat), NEW t \in Seq(Nat),
         NEW low \in Nat, NEW m \in Nat, NEW a \in Nat, NEW high \in Nat,
         Between(s, low, m), Between(t, a, high), m < a, low <= a, m <= high
  PROVE  s \o t \in Seq(Nat) /\ Between(s \o t, low, high)
<1>1. PICK x \in Nat, y \in Nat : x = Len(s) /\ y = Len(t)
  OBVIOUS
<1>2. PICK u : u = s \o t
  OBVIOUS
<1>3. /\ Len(u) = x + y
      /\ \A i \in 1 .. x : u[i] = s[i]
      /\ \A i \in x + 1 .. x + y : u[i] = t[i - x]
  BY <1>1, <1>2, Concatenated
<1>4. /\ \A i, j \in 1 .. x : i < j => s[i] < s[j]
      /\ \A i \in 1 .. x : s[i] \in Nat /\ low <= s[i] /\ s[i] <= m
  BY <1>1 DEF Between, Climbs
<1>5. /\ \A i, j \in 1 .. y : i < j => t[i] < t[j]
      /\ \A i \in 1 .. y : t[i] \in Nat /\ a <= t[i] /\ t[i] <= high
  BY <1>1 DEF Between, Climbs
<1>6. \A i \in x + 1 .. x + y : i - x \in 1 .. y
  BY <1>1
<1>7. \A i \in x + 1 .. x + y : u[i] \in Nat /\ a <= u[i] /\ u[i] <= high
  BY <1>3, <1>5, <1>6
<1>8. \A i \in 1 .. x : u[i] \in Nat /\ low <= u[i] /\ u[i] <= m
  BY <1>3, <1>4
<1>9. ASSUME NEW i \in 1 .. x + y, NEW j \in 1 .. x + y, i < j PROVE u[i] < u[j]
  <2>1. CASE j <= x
    <3>1. i \in 1 .. x /\ j \in 1 .. x
      BY <1>9, <2>1
    <3>2. QED
      BY <1>3, <1>4, <1>9, <3>1
  <2>2. CASE i > x
    <3>1. i \in x + 1 .. x + y /\ j \in x + 1 .. x + y /\ i - x < j - x
      BY <1>9, <2>2
    <3>2. QED
      BY <1>3, <1>5, <1>6, <3>1
  <2>3. CASE i <= x /\ j > x
    <3>1. i \in 1 .. x /\ j \in x + 1 .. x + y
      BY <2>3
    <3>2. QED
      BY <1>7, <1>8, <3>1
  <2>4. QED
    BY <2>1, <2>2, <2>3
<1>10. ASSUME NEW i \in 1 .. x + y PROVE low <= u[i] /\ u[i] <= high
  <2>1. CASE i <= x
    BY <1>8, <2>1
  <2>2. CASE i > x
    BY <1>7, <2>2
  <2>3. QED
    BY <2>1, <2>2
<1>11. s \o t \in Seq(Nat)
  BY Concatenated
<1>12. QED
  BY <1>2, <1>3, <1>9, <1>10, <1>11 DEF Between, Climbs

LEMMA Widens ==
  ASSUME NEW s \in Seq(Nat), NEW a \in Nat, NEW b \in Nat, Between(s, a, b)
  PROVE  Between(s, 0, b)
BY DEF Between

\* One range.
LEMMA RangeClimbs ==
  ASSUME NEW a \in Nat, NEW b \in Nat, a <= b, NEW t, t = [k \in 1 .. b - a + 1 |-> a + k - 1]
  PROVE  t \in Seq(Nat) /\ Between(t, a, b)
<1>1. PICK n \in Nat : n = b - a + 1
  <2>1. b - a + 1 \in Nat
    OBVIOUS
  <2>2. QED
    BY <2>1
<1>2. \A k \in 1 .. n : a + k - 1 \in Nat /\ a <= a + k - 1 /\ a + k - 1 <= b
  BY <1>1
<1>3. t = [k \in 1 .. n |-> a + k - 1]
  BY <1>1
<1>4. t \in [1 .. n -> Nat] /\ \A k \in 1 .. n : t[k] = a + k - 1
  BY <1>2, <1>3
<1>5. t \in Seq(Nat) /\ Len(t) = n
  BY <1>4
<1>6. QED
  BY <1>2, <1>4, <1>5 DEF Between, Climbs

\* As the kernel prints a set: each range after the one before.
Lists ==
  {ranges \in Seq(Nat \X Nat) : \A i \in 2 .. Len(ranges) : ranges[i - 1][2] < ranges[i][1]}

LEMMA ParsedClimbs ==
  ASSUME NEW ranges \in Lists
  PROVE  Cores!Parse(ranges) \in Seq(Nat) /\ Climbs(Cores!Parse(ranges))
<1>1. PICK n \in Nat : n = Len(ranges) /\ ranges \in [1 .. n -> Nat \X Nat] /\ DOMAIN ranges = 1 .. n
  <2>1. PICK E : E = Nat \X Nat
    OBVIOUS
  <2>2. ranges \in Seq(E)
    BY <2>1 DEF Lists
  <2>3. PICK n \in Nat : n = Len(ranges)
    BY ONLY <2>2
  <2>4. ranges \in [1 .. n -> E] /\ DOMAIN ranges = 1 .. n
    BY ONLY <2>2, <2>3
  <2>5. QED
    BY ONLY <2>1, <2>3, <2>4
<1>2. CASE \E i \in DOMAIN ranges : Cores!Refused(ranges[i])
  <2>1. Cores!Parse(ranges) = <<>>
    BY <1>2 DEF Cores!Parse, Cores!Unpinned
  <2>2. QED
    BY <2>1 DEF Climbs
<1>3. CASE ~\E i \in DOMAIN ranges : Cores!Refused(ranges[i])
  <2> DEFINE pieces == [i \in DOMAIN ranges |->
                          [k \in 1 .. ranges[i][2] - ranges[i][1] + 1 |-> ranges[i][1] + k - 1]]
  <2>1. Cores!Parse(ranges) = Cores!FlattenSeq(pieces)
    BY <1>3 DEF Cores!Parse
  <2>2. \A i \in 1 .. n :
          /\ ranges[i][1] \in Nat /\ ranges[i][2] \in Nat /\ ranges[i][1] <= ranges[i][2]
          /\ i > 1 => ranges[i - 1][2] < ranges[i][1]
    <3>1. \A i \in 1 .. n : ranges[i][1] \in Nat /\ ranges[i][2] \in Nat
      BY <1>1
    <3>2. \A i \in 1 .. n : ranges[i][1] <= ranges[i][2]
      BY <1>1, <1>3, <3>1 DEF Cores!Refused
    <3>3. \A i \in 1 .. n : i > 1 => ranges[i - 1][2] < ranges[i][1]
      BY <1>1 DEF Lists
    <3>4. QED
      BY <3>1, <3>2, <3>3
  <2>3. \A i \in 1 .. n : pieces[i] \in Seq(Nat) /\ Between(pieces[i], ranges[i][1], ranges[i][2])
    <3> SUFFICES ASSUME NEW i \in 1 .. n
        PROVE pieces[i] \in Seq(Nat) /\ Between(pieces[i], ranges[i][1], ranges[i][2])
      OBVIOUS
    <3>1. PICK a \in Nat, b \in Nat : a = ranges[i][1] /\ b = ranges[i][2] /\ a <= b
      BY <2>2
    <3>2. pieces[i] = [k \in 1 .. b - a + 1 |-> a + k - 1]
      BY <1>1, <3>1
    <3> HIDE DEF pieces
    <3>3. pieces[i] \in Seq(Nat) /\ Between(pieces[i], a, b)
      BY <3>1, <3>2, RangeClimbs
    <3>4. QED
      BY <3>1, <3>3
  <2>4. pieces \in [1 .. n -> Seq(Nat)] /\ Len(pieces) = n
    <3>1. pieces = [i \in 1 .. n |-> pieces[i]]
      BY <1>1
    <3> HIDE DEF pieces
    <3>2. QED
      BY <2>3, <3>1
  <2> HIDE DEF pieces
  <2>5. CASE n = 0
    <3>1. pieces = <<>>
      BY <2>4, <2>5
    <3>2. Cores!Parse(ranges) = <<>>
      BY <2>1, <3>1, NoneFlattened
    <3>3. QED
      BY <3>2 DEF Climbs
  <2>6. CASE n # 0
    <3>1. n \in Nat \ {0}
      BY <2>6
    <3>2. PICK f \in [1 .. n -> Seq(Nat)] :
            Joined(n, pieces, f) /\ Cores!FlattenSeq(pieces) = f[n]
      BY <2>4, <3>1, Flattened
    <3> DEFINE S == {k \in 0 .. n : k > 0 => Between(f[k], 0, ranges[k][2])}
    <3>3. 0 \in S
      BY <3>1
    <3> HIDE DEF S
    <3>4. ASSUME NEW k \in 0 .. n - 1, k \in S PROVE k + 1 \in S
      <4>1. k + 1 \in 0 .. n /\ k + 1 \in 1 .. n
        OBVIOUS
      <4>2. PICK a \in Nat, b \in Nat : a = ranges[k + 1][1] /\ b = ranges[k + 1][2] /\ a <= b
        BY <2>2, <4>1
      <4>3. PICK t \in Seq(Nat) : t = pieces[k + 1] /\ Between(t, a, b)
        BY <2>3, <4>1, <4>2
      <4>4. CASE k = 0
        <5>1. f[k + 1] = t
          BY <3>2, <4>3, <4>4 DEF Joined
        <5>2. Between(t, 0, b)
          BY <4>3, Widens
        <5>3. QED
          BY <4>1, <4>2, <5>1, <5>2 DEF S
      <4>5. CASE k # 0
        <5>1. k \in 1 .. n - 1 /\ k \in 1 .. n /\ (k + 1) - 1 = k /\ k + 1 > 1
          BY <4>5
        <5>2. f[k] \in Seq(Nat) /\ Between(f[k], 0, ranges[k][2])
          BY <3>4, <5>1 DEF S
        <5>3. ranges[k][2] \in Nat /\ ranges[(k + 1) - 1][2] < ranges[k + 1][1]
          BY <2>2, <4>1, <5>1
        <5>4. PICK s \in Seq(Nat), m \in Nat : s = f[k] /\ m = ranges[k][2]
          BY <5>2, <5>3
        <5>5. Between(s, 0, m) /\ m < a
          BY <4>2, <5>1, <5>2, <5>3, <5>4
        <5>6. f[k + 1] = s \o t
          BY <3>2, <4>3, <5>1, <5>4 DEF Joined
        <5>7. m <= b /\ 0 <= a
          <6>1. m < a
            BY <5>5
          <6>2. a <= b
            BY <4>2
          <6>3. QED
            BY <6>1, <6>2
        <5>8. Between(s \o t, 0, b)
          BY <4>3, <5>5, <5>7, ClimbsOn
        <5>9. Between(f[k + 1], 0, ranges[k + 1][2])
          BY <4>2, <5>6, <5>8
        <5>10. QED
          BY <4>1, <5>9 DEF S
      <4>6. QED
        BY <4>4, <4>5
    <3>5. n \in S
      <4>1. \A k \in 0 .. n - 1 : k \in S => k + 1 \in S
        BY <3>4
      <4>2. \A k \in 0 .. n : k \in S
        BY <3>3, <4>1, Along
      <4>3. QED
        BY <4>2
    <3>6. Climbs(f[n]) /\ f[n] \in Seq(Nat)
      BY <3>1, <3>5 DEF Between, S
    <3>7. QED
      BY <2>1, <3>2, <3>6
  <2>7. QED
    BY <2>5, <2>6
<1>4. QED
  BY <1>2, <1>3

\* A sequence is what is before a place and what is after it, up to another.
CutsAt(E, s, i, j) ==
  /\ SubSeq(s, 1, i) \in Seq(E) /\ Len(SubSeq(s, 1, i)) = i
  /\ SubSeq(s, i + 1, j) \in Seq(E) /\ Len(SubSeq(s, i + 1, j)) = j - i
  /\ \A k \in 1 .. i : SubSeq(s, 1, i)[k] = s[k]
  /\ \A k \in 1 .. j - i : SubSeq(s, i + 1, j)[k] = s[i + k]
  /\ SubSeq(s, 1, i) \o SubSeq(s, i + 1, j) = SubSeq(s, 1, j)

LEMMA CutAt ==
  ASSUME NEW E, NEW s \in Seq(E), NEW i \in Nat, NEW j \in Nat, i <= j, j <= Len(s)
  PROVE  CutsAt(E, s, i, j)
<1>1. PICK n \in Nat : n = Len(s)
  OBVIOUS
<1>2. \A k \in 1 .. n : s[k] \in E
  BY <1>1
<1>3. PICK a : a = SubSeq(s, 1, i)
  OBVIOUS
<1>4. PICK b : b = SubSeq(s, i + 1, j)
  OBVIOUS
<1>5. PICK c : c = SubSeq(s, 1, j)
  OBVIOUS
<1>6. a \in Seq(E) /\ Len(a) = i /\ \A k \in 1 .. i : a[k] = s[k]
  BY <1>1, <1>2, <1>3
<1>7. b \in Seq(E) /\ Len(b) = j - i /\ \A k \in 1 .. j - i : b[k] = s[i + k]
  BY <1>1, <1>2, <1>4
<1>8. c \in Seq(E) /\ Len(c) = j /\ \A k \in 1 .. j : c[k] = s[k]
  BY <1>1, <1>2, <1>5
<1>9. PICK d : d = a \o b
  OBVIOUS
<1>10. /\ d \in Seq(E) /\ Len(d) = j
       /\ \A k \in 1 .. i : d[k] = a[k]
       /\ \A k \in i + 1 .. j : d[k] = b[k - i]
  <2>1. a \in Seq(E) /\ b \in Seq(E)
    BY <1>6, <1>7
  <2>2. /\ a \o b \in Seq(E) /\ Len(a \o b) = Len(a) + Len(b)
        /\ \A k \in 1 .. Len(a) : (a \o b)[k] = a[k]
        /\ \A k \in Len(a) + 1 .. Len(a) + Len(b) : (a \o b)[k] = b[k - Len(a)]
    BY ONLY <2>1, Concatenated
  <2>3. Len(a) = i /\ Len(b) = j - i /\ i + (j - i) = j
    BY <1>6, <1>7
  <2>4. QED
    BY ONLY <1>9, <2>2, <2>3
<1>11. \A k \in 1 .. j : d[k] = c[k]
  <2> SUFFICES ASSUME NEW k \in 1 .. j PROVE d[k] = c[k]
    OBVIOUS
  <2>1. CASE k <= i
    BY <1>6, <1>8, <1>10, <2>1
  <2>2. CASE k > i
    <3>1. k \in i + 1 .. j /\ k - i \in 1 .. j - i /\ i + (k - i) = k
      BY <2>2
    <3>2. d[k] = s[i + (k - i)]
      BY <1>7, <1>10, <3>1
    <3>3. QED
      BY <1>8, <3>1, <3>2
  <2>3. QED
    BY <2>1, <2>2
<1>12. d = c
  BY <1>8, <1>10, <1>11, SeqEqual
<1>13. QED
  BY <1>3, <1>4, <1>5, <1>6, <1>7, <1>9, <1>12 DEF CutsAt

\* A list cut at every lane's start; put together again it is itself.
Pieces(list, lanes) ==
  [lane \in 1 .. lanes |->
     SubSeq(list, Cores!StartOf(lane, list, lanes) + 1,
            Cores!StartOf(lane, list, lanes) + Cores!WidthOf(lane, list, lanes))]

Filled(list, lanes, cut) ==
  /\ cut \in [1 .. lanes -> Seq(Nat)]
  /\ \A i \in 1 .. lanes :
       /\ Len(cut[i]) = Cores!WidthOf(i, list, lanes)
       /\ \A k \in 1 .. Len(cut[i]) : cut[i][k] = list[Cores!StartOf(i, list, lanes) + k]

LEMMA CutIsWhole ==
  ASSUME NEW list \in Seq(Nat), NEW lanes \in Nat \ {0}, lanes <= Len(list),
         NEW cut, cut = Pieces(list, lanes)
  PROVE  Filled(list, lanes, cut) /\ Cores!FlattenSeq(cut) = list
<1>1. PICK n \in Nat : n = Len(list)
  OBVIOUS
<1> DEFINE St(i) == Cores!StartOf(i, list, lanes)
           Wd(i) == Cores!WidthOf(i, list, lanes)
<1>2. /\ \A i \in 1 .. lanes : /\ St(i) \in 0 .. n /\ Wd(i) \in Nat \ {0} /\ St(i) + Wd(i) <= n
                               /\ i < lanes => St(i + 1) = St(i) + Wd(i)
      /\ St(1) = 0 /\ St(lanes) + Wd(lanes) = n
  <2>1. Len(list) = n /\ lanes <= n
    BY <1>1
  <2>2. /\ \A i \in 1 .. lanes :
             /\ Cores!StartOf(i, list, lanes) \in 0 .. n
             /\ Cores!WidthOf(i, list, lanes) \in Nat \ {0}
             /\ Cores!StartOf(i, list, lanes) + Cores!WidthOf(i, list, lanes) <= n
             /\ i < lanes => Cores!StartOf(i + 1, list, lanes)
                               = Cores!StartOf(i, list, lanes) + Cores!WidthOf(i, list, lanes)
        /\ Cores!StartOf(1, list, lanes) = 0
        /\ Cores!StartOf(lanes, list, lanes) + Cores!WidthOf(lanes, list, lanes) = n
    <3>1. Following(list, n, lanes)
      BY <2>1, PiecesFollow
    <3>2. QED
      BY <3>1 DEF Following
  <2>3. QED
    BY <2>2
<1>3. cut = [i \in 1 .. lanes |-> SubSeq(list, St(i) + 1, St(i) + Wd(i))]
  BY DEF Pieces
<1> HIDE DEF St, Wd
<1>4. \A i \in 1 .. lanes :
        /\ cut[i] \in Seq(Nat) /\ Len(cut[i]) = Wd(i)
        /\ \A k \in 1 .. Wd(i) : cut[i][k] = list[St(i) + k]
        /\ SubSeq(list, 1, St(i)) \o cut[i] = SubSeq(list, 1, St(i) + Wd(i))
  <2> SUFFICES ASSUME NEW i \in 1 .. lanes
      PROVE /\ cut[i] \in Seq(Nat) /\ Len(cut[i]) = Wd(i)
            /\ \A k \in 1 .. Wd(i) : cut[i][k] = list[St(i) + k]
            /\ SubSeq(list, 1, St(i)) \o cut[i] = SubSeq(list, 1, St(i) + Wd(i))
    OBVIOUS
  <2>1. PICK a \in Nat, w \in Nat : a = St(i) /\ w = Wd(i)
    <3>1. St(i) \in Nat /\ Wd(i) \in Nat
      BY <1>2
    <3>2. QED
      BY ONLY <3>1
  <2>0. PICK b \in Nat : b = a + w
    OBVIOUS
  <2>2. a <= b /\ b <= Len(list) /\ b - a = w /\ b = St(i) + Wd(i)
    <3>1. b = St(i) + Wd(i)
      BY ONLY <2>0, <2>1
    <3>2. St(i) + Wd(i) <= n
      BY <1>2
    <3>3. b <= n
      BY ONLY <3>1, <3>2
    <3>4. a <= b /\ b - a = w
      BY <2>0
    <3>5. QED
      BY <1>1, <3>1, <3>3, <3>4
  <2>3. cut[i] = SubSeq(list, a + 1, b)
    BY <1>3, <2>1, <2>2
  <2>4. /\ SubSeq(list, a + 1, b) \in Seq(Nat) /\ Len(SubSeq(list, a + 1, b)) = b - a
        /\ \A k \in 1 .. b - a : SubSeq(list, a + 1, b)[k] = list[a + k]
        /\ SubSeq(list, 1, a) \o SubSeq(list, a + 1, b) = SubSeq(list, 1, b)
    <3>1. CutsAt(Nat, list, a, b)
      BY <2>2, CutAt
    <3>2. QED
      BY <3>1 DEF CutsAt
  <2>5. QED
    BY <2>1, <2>2, <2>3, <2>4
<1>5. cut \in [1 .. lanes -> Seq(Nat)]
  BY <1>3, <1>4
<1>6. PICK f \in [1 .. lanes -> Seq(Nat)] :
        Joined(lanes, cut, f) /\ Cores!FlattenSeq(cut) = f[lanes]
  BY <1>5, Flattened
<1> DEFINE S == {k \in 0 .. lanes : k > 0 => f[k] = SubSeq(list, 1, St(k) + Wd(k))}
<1>7. 0 \in S
  OBVIOUS
<1>8. ASSUME NEW k \in 0 .. lanes - 1, k \in S PROVE k + 1 \in S
  <2>1. k + 1 \in 0 .. lanes /\ k + 1 \in 1 .. lanes
    OBVIOUS
  <2>2. CASE k = 0
    <3>1. f[1] = cut[1] /\ St(1) = 0
      BY <1>2, <1>6 DEF Joined
    <3>2. /\ SubSeq(list, 1, 0) \o cut[1] = SubSeq(list, 1, 0 + Wd(1)) /\ cut[1] \in Seq(Nat)
          /\ k + 1 = 1 /\ Wd(1) \in Nat
      <4>1. 1 \in 1 .. lanes /\ k + 1 = 1
        BY <2>1, <2>2
      <4>2. /\ SubSeq(list, 1, St(1)) \o cut[1] = SubSeq(list, 1, St(1) + Wd(1))
            /\ cut[1] \in Seq(Nat)
        BY <1>4, <4>1
      <4>3. Wd(1) \in Nat
        BY <1>2, <4>1
      <4>4. QED
        BY <3>1, <4>1, <4>2, <4>3
    <3>3. SubSeq(list, 1, 0) = <<>>
      BY SubSeqEmpty
    <3>4. <<>> \o cut[1] = cut[1]
      BY <3>2, ConcatEmptySeq
    <3>5. f[k + 1] = SubSeq(list, 1, St(k + 1) + Wd(k + 1))
      BY <3>1, <3>2, <3>3, <3>4
    <3>6. QED
      BY <2>1, <3>5
  <2>3. CASE k # 0
    <3>1. k \in 1 .. lanes - 1 /\ k \in 1 .. lanes /\ k < lanes
      BY <2>3
    <3>2. f[k + 1] = f[k] \o cut[k + 1]
      BY <1>6, <3>1 DEF Joined
    <3>3. f[k] = SubSeq(list, 1, St(k + 1))
      BY <1>2, <1>8, <3>1
    <3>4. f[k + 1] = SubSeq(list, 1, St(k + 1) + Wd(k + 1))
      BY <1>4, <2>1, <3>2, <3>3
    <3>5. QED
      BY <2>1, <3>4
  <2>4. QED
    BY <2>2, <2>3
<1>9. lanes \in S
  <2> HIDE DEF S
  <2>1. lanes \in Nat /\ \A k \in 0 .. lanes - 1 : k \in S => k + 1 \in S
    BY <1>8
  <2>2. \A k \in 0 .. lanes : k \in S
    BY <1>7, <2>1, Along
  <2>3. QED
    BY <2>2
<1>10. f[lanes] = SubSeq(list, 1, n)
  <2>1. lanes > 0 => f[lanes] = SubSeq(list, 1, St(lanes) + Wd(lanes))
    BY <1>9
  <2>2. lanes > 0
    OBVIOUS
  <2>3. St(lanes) + Wd(lanes) = n
    BY ONLY <1>2
  <2>4. QED
    BY ONLY <2>1, <2>2, <2>3
<1>11. SubSeq(list, 1, n) = list
  <2>1. n <= n /\ n <= Len(list)
    BY <1>1
  <2>2. /\ SubSeq(list, 1, n) \in Seq(Nat) /\ Len(SubSeq(list, 1, n)) = n
        /\ \A k \in 1 .. n : SubSeq(list, 1, n)[k] = list[k]
    BY <2>1, CutAt DEF CutsAt
  <2>3. QED
    BY <1>1, <2>2, SeqEqual
<1>12. Filled(list, lanes, cut)
  <2>1. \A i \in 1 .. lanes :
          /\ Len(cut[i]) = Wd(i)
          /\ \A k \in 1 .. Len(cut[i]) : cut[i][k] = list[St(i) + k]
    BY <1>4
  <2>2. QED
    BY <1>5, <2>1 DEF Filled, St, Wd
<1>13. QED
  BY <1>6, <1>10, <1>11, <1>12

\* What is left of a list once the whole machine is taken for none.
LEMMA RestrictedIs ==
  ASSUME NEW ranges \in Lists, NEW online \in Lists,
         NEW list, list = Cores!Restricted(Cores!Parse(ranges), Cores!Parse(online))
  PROVE  /\ list \in Seq(Nat) /\ Climbs(list)
         /\ Cores!ToSet(Cores!Parse(ranges)) = Cores!ToSet(Cores!Parse(online))
              => list = <<>>
<1>1. PICK given : given = Cores!Parse(ranges)
  OBVIOUS
<1>2. PICK all : all = Cores!Parse(online)
  OBVIOUS
<1>3. /\ given \in Seq(Nat) /\ Climbs(given) /\ all \in Seq(Nat) /\ Climbs(all)
  BY <1>1, <1>2, ParsedClimbs
<1>4. list = IF given = <<>> \/ all = <<>> \/ Len(given) >= Len(all) THEN <<>> ELSE given
  BY <1>1, <1>2 DEF Cores!Restricted, Cores!Unpinned
<1>5. <<>> \in Seq(Nat) /\ Climbs(<<>>)
  BY DEF Climbs
<1>6. list \in Seq(Nat) /\ Climbs(list)
  BY <1>3, <1>4, <1>5
<1>7. ASSUME Cores!ToSet(given) = Cores!ToSet(all) PROVE list = <<>>
  <2>1. Cardinality(Cores!ToSet(given)) = Len(given) /\ Cardinality(Cores!ToSet(all)) = Len(all)
    BY <1>3, ClimbingIsCounted
  <2>2. Len(given) = Len(all) /\ Len(given) \in Nat
    BY <1>3, <1>7, <2>1
  <2>3. QED
    BY <1>4, <2>2
<1>8. QED
  BY <1>1, <1>2, <1>6, <1>7

\* No processor is in two pieces.
LEMMA PiecesAreApart ==
  ASSUME NEW list \in Seq(Nat), Climbs(list), NEW lanes \in Nat \ {0}, lanes <= Len(list),
         NEW cut, cut = Pieces(list, lanes), NEW i \in 1 .. lanes, NEW j \in 1 .. lanes
  PROVE  /\ cut[i] # <<>>
         /\ i # j => Cores!ToSet(cut[i]) \cap Cores!ToSet(cut[j]) = {}
         /\ Len(cut[i]) - Len(cut[j]) \in -1 .. 1
<1>1. PICK n \in Nat : n = Len(list)
  OBVIOUS
<1> DEFINE St(k) == Cores!StartOf(k, list, lanes)
           Wd(k) == Cores!WidthOf(k, list, lanes)
<1>2. /\ \A k \in 1 .. lanes : St(k) \in 0 .. n /\ Wd(k) \in Nat \ {0} /\ St(k) + Wd(k) <= n
      /\ \A k, m \in 1 .. lanes : /\ Wd(k) - Wd(m) \in -1 .. 1
                                  /\ k < m => St(k) + Wd(k) <= St(m)
  <2>1. Len(list) = n /\ lanes <= n
    BY <1>1
  <2>2. /\ \A k \in 1 .. lanes :
             /\ Cores!StartOf(k, list, lanes) \in 0 .. n
             /\ Cores!WidthOf(k, list, lanes) \in Nat \ {0}
             /\ Cores!StartOf(k, list, lanes) + Cores!WidthOf(k, list, lanes) <= n
        /\ \A k, m \in 1 .. lanes :
              /\ Cores!WidthOf(k, list, lanes) - Cores!WidthOf(m, list, lanes) \in -1 .. 1
              /\ k < m => Cores!StartOf(k, list, lanes) + Cores!WidthOf(k, list, lanes)
                            <= Cores!StartOf(m, list, lanes)
    <3>1. Following(list, n, lanes)
      BY <2>1, PiecesFollow
    <3>2. QED
      BY <3>1 DEF Following
  <2>3. QED
    BY <2>2
<1>3. \A k \in 1 .. lanes :
        /\ cut[k] \in Seq(Nat) /\ Len(cut[k]) = Wd(k)
        /\ \A m \in 1 .. Len(cut[k]) : cut[k][m] = list[St(k) + m]
  <2>1. Filled(list, lanes, cut)
    BY CutIsWhole
  <2>2. QED
    BY ONLY <2>1 DEF Filled
<1> HIDE DEF St, Wd
<1>9. ASSUME NEW k \in 1 .. lanes, NEW cpu \in Cores!ToSet(cut[k])
      PROVE  \E x \in 1 .. Wd(k) : cpu = list[St(k) + x]
  <2>1. PICK s \in Seq(Nat) : s = cut[k] /\ Len(s) = Wd(k)
    BY <1>3
  <2>2. DOMAIN s = 1 .. Wd(k)
    BY <2>1
  <2>3. PICK x \in 1 .. Wd(k) : cpu = s[x]
    BY <2>1, <2>2 DEF Cores!ToSet
  <2>4. cut[k][x] = list[St(k) + x]
    BY <1>3, <2>1
  <2>5. QED
    BY <2>1, <2>3, <2>4
<1>4. ASSUME NEW k \in 1 .. lanes, NEW m \in 1 .. lanes, k < m,
             NEW cpu \in Cores!ToSet(cut[k]), cpu \in Cores!ToSet(cut[m])
      PROVE  FALSE
  <2>3. PICK a \in Nat, v \in Nat, b \in Nat, w \in Nat :
          /\ a = St(k) /\ v = Wd(k) /\ b = St(m) /\ w = Wd(m)
          /\ a + v <= b /\ b + w <= n
    <3>1. St(k) \in Nat /\ Wd(k) \in Nat /\ St(m) \in Nat /\ Wd(m) \in Nat
      <4>1. k \in 1 .. lanes /\ m \in 1 .. lanes
        OBVIOUS
      <4>2. \A x \in 1 .. lanes : St(x) \in Nat /\ Wd(x) \in Nat
        BY ONLY <1>2
      <4>3. QED
        BY ONLY <4>1, <4>2
    <3>2. St(k) + Wd(k) <= St(m) /\ St(m) + Wd(m) <= n
      BY <1>2, <1>4
    <3>3. QED
      BY <3>1, <3>2
  <2>4. PICK x \in 1 .. v : cpu = list[a + x]
    <3>1. v = Wd(k) /\ a = St(k)
      BY <2>3
    <3>2. \E x \in 1 .. Wd(k) : cpu = list[St(k) + x]
      BY <1>9
    <3>3. QED
      BY ONLY <3>1, <3>2
  <2>5. PICK y \in 1 .. w : cpu = list[b + y]
    <3>1. w = Wd(m) /\ b = St(m)
      BY <2>3
    <3>2. \E y \in 1 .. Wd(m) : cpu = list[St(m) + y]
      BY <1>4, <1>9
    <3>3. QED
      BY ONLY <3>1, <3>2
  <2>6. PICK c \in Nat, d \in Nat : c = a + x /\ d = b + y
    <3>1. a + x \in Nat /\ b + y \in Nat
      OBVIOUS
    <3>2. QED
      BY ONLY <3>1
  <2>7. a + v <= b /\ b + w <= n
    BY <2>3
  <2>8. c \in 1 .. n /\ d \in 1 .. n /\ c < d
    BY <2>6, <2>7
  <2>9. list[c] < list[d] /\ list[c] \in Nat
    BY <1>1, <2>8 DEF Climbs
  <2>10. list[c] = list[d]
    BY <2>4, <2>5, <2>6
  <2>11. QED
    BY <2>9, <2>10
<1>5. i # j => Cores!ToSet(cut[i]) \cap Cores!ToSet(cut[j]) = {}
  <2>1. CASE i < j
    BY <1>4, <2>1
  <2>2. CASE j < i
    BY <1>4, <2>2
  <2>3. QED
    BY <2>1, <2>2
<1>6. cut[i] # <<>>
  BY <1>2, <1>3
<1>7. Len(cut[i]) - Len(cut[j]) \in -1 .. 1
  BY <1>2, <1>3
<1>8. QED
  BY <1>5, <1>6, <1>7

\* A core that is cut is one whose processors are not all in a lane.
LEMMA ThinIs ==
  ASSUME NEW cut, NEW siblings, \A lane \in DOMAIN cut : cut[lane] \in Seq(Nat)
  PROVE  Cores!Thin(cut, siblings) = {} <=>
           \A lane \in DOMAIN cut : \A cpu \in Cores!ToSet(cut[lane]) :
             cpu \in DOMAIN siblings =>
               siblings[cpu] \cap DOMAIN siblings \subseteq Cores!ToSet(cut[lane])
<1>1. \A lane \in DOMAIN cut : \A cpu :
        Cores!Contains(cut[lane], cpu) <=> cpu \in Cores!ToSet(cut[lane])
  BY DEF Cores!Contains, Cores!ToSet
<1>2. \A t : t \in Cores!Thin(cut, siblings) <=>
        /\ t \in (DOMAIN cut) \X (DOMAIN siblings) \X (DOMAIN siblings)
        /\ t[2] \in Cores!ToSet(cut[t[1]]) /\ t[3] \notin Cores!ToSet(cut[t[1]])
        /\ t[3] \in siblings[t[2]] \ {t[2]}
  <2> SUFFICES ASSUME NEW t
      PROVE t \in Cores!Thin(cut, siblings) <=>
              /\ t \in (DOMAIN cut) \X (DOMAIN siblings) \X (DOMAIN siblings)
              /\ t[2] \in Cores!ToSet(cut[t[1]]) /\ t[3] \notin Cores!ToSet(cut[t[1]])
              /\ t[3] \in siblings[t[2]] \ {t[2]}
    OBVIOUS
  <2>1. t \in Cores!Thin(cut, siblings) <=>
          /\ t \in (DOMAIN cut) \X (DOMAIN siblings) \X (DOMAIN siblings)
          /\ Cores!Contains(cut[t[1]], t[2]) /\ ~Cores!Contains(cut[t[1]], t[3])
          /\ t[3] \in siblings[t[2]] \ {t[2]}
    BY DEF Cores!Thin
  <2>2. t \in (DOMAIN cut) \X (DOMAIN siblings) \X (DOMAIN siblings) => t[1] \in DOMAIN cut
    OBVIOUS
  <2>3. QED
    BY <1>1, <2>1, <2>2
<1>3. ASSUME NEW lane \in DOMAIN cut, NEW cpu \in Cores!ToSet(cut[lane]), cpu \in DOMAIN siblings,
             NEW kin \in siblings[cpu] \cap DOMAIN siblings, kin \notin Cores!ToSet(cut[lane])
      PROVE  <<lane, cpu, kin>> \in Cores!Thin(cut, siblings)
  BY <1>2, <1>3
<1>4. ASSUME Cores!Thin(cut, siblings) = {},
             NEW lane \in DOMAIN cut, NEW cpu \in Cores!ToSet(cut[lane]), cpu \in DOMAIN siblings
      PROVE  siblings[cpu] \cap DOMAIN siblings \subseteq Cores!ToSet(cut[lane])
  BY <1>3, <1>4
<1>5. ASSUME \A lane \in DOMAIN cut : \A cpu \in Cores!ToSet(cut[lane]) :
               cpu \in DOMAIN siblings =>
                 siblings[cpu] \cap DOMAIN siblings \subseteq Cores!ToSet(cut[lane]),
             NEW t \in Cores!Thin(cut, siblings)
      PROVE  FALSE
  <2>1. /\ t \in (DOMAIN cut) \X (DOMAIN siblings) \X (DOMAIN siblings)
        /\ t[2] \in Cores!ToSet(cut[t[1]]) /\ t[3] \notin Cores!ToSet(cut[t[1]])
        /\ t[3] \in siblings[t[2]] \ {t[2]}
    BY <1>2
  <2>2. t[1] \in DOMAIN cut /\ t[2] \in DOMAIN siblings /\ t[3] \in DOMAIN siblings
    BY <2>1
  <2>3. QED
    BY <1>5, <2>1, <2>2
<1>6. QED
  BY <1>4, <1>5

\* The pieces of a list long enough, and the same list where it is not.
Fitted(list, lanes, cut) ==
  /\ DOMAIN cut = 1 .. (IF lanes = 0 THEN 1 ELSE lanes)
  /\ Len(cut) = IF lanes = 0 THEN 1 ELSE lanes
  /\ \A lane \in DOMAIN cut : cut[lane] \in Seq(Nat)
  /\ list = <<>> => \A lane \in DOMAIN cut : cut[lane] = <<>>
  /\ list # <<>> /\ ~(Len(list) < lanes) =>
       /\ Cores!FlattenSeq(cut) = list
       /\ \A i, j \in DOMAIN cut :
            /\ cut[i] # <<>>
            /\ i # j => Cores!ToSet(cut[i]) \cap Cores!ToSet(cut[j]) = {}
            /\ Len(cut[i]) - Len(cut[j]) \in -1 .. 1
  /\ Len(list) < lanes => \A lane \in DOMAIN cut : cut[lane] = list

LEMMA SplitFits ==
  ASSUME NEW list \in Seq(Nat), Climbs(list), NEW lanes \in Nat,
         NEW cut, cut = Cores!Split(list, lanes)
  PROVE  Fitted(list, lanes, cut)
<1>1. PICK n \in Nat : n = Len(list) /\ (n = 0 <=> list = <<>>)
  OBVIOUS
<1>2. CASE lanes <= 1
  <2>1. cut = <<list>>
    BY <1>2 DEF Cores!Split
  <2>2. DOMAIN cut = 1 .. 1 /\ Len(cut) = 1 /\ cut[1] = list
    BY <2>1
  <2>3. (IF lanes = 0 THEN 1 ELSE lanes) = 1
    BY <1>2
  <2>4. \A i \in 1 .. 1 : i = 1
    OBVIOUS
  <2>5. Cores!FlattenSeq(cut) = list
    <3>1. PICK one \in Nat \ {0} : one = 1
      OBVIOUS
    <3>2. cut \in [1 .. one -> Seq(Nat)]
      BY <2>1, <3>1
    <3>3. PICK f \in [1 .. one -> Seq(Nat)] : Joined(one, cut, f) /\ Cores!FlattenSeq(cut) = f[one]
      BY ONLY <3>2, Flattened
    <3>4. QED
      BY <2>2, <3>1, <3>3 DEF Joined
  <2>6. Len(cut[1]) - Len(cut[1]) \in -1 .. 1
    BY <2>2
  <2>7. Len(list) < lanes => list = <<>>
    BY <1>1, <1>2
  <2>8. QED
    BY <1>1, <2>2, <2>3, <2>4, <2>5, <2>6, <2>7 DEF Fitted
<1>3. CASE lanes > 1 /\ (list = <<>> \/ n < lanes)
  <2>1. cut = [lane \in 1 .. lanes |-> list]
    BY <1>1, <1>3 DEF Cores!Split, Cores!Unpinned
  <2>2. DOMAIN cut = 1 .. lanes /\ Len(cut) = lanes /\ \A i \in 1 .. lanes : cut[i] = list
    BY <2>1
  <2>3. (IF lanes = 0 THEN 1 ELSE lanes) = lanes
    BY <1>3
  <2>4. list = <<>> \/ Len(list) < lanes
    BY <1>1, <1>3
  <2>5. QED
    BY <2>2, <2>3, <2>4 DEF Fitted
<1>4. CASE lanes > 1 /\ list # <<>> /\ ~(n < lanes)
  <2>1. lanes \in Nat \ {0} /\ lanes <= Len(list)
    BY <1>1, <1>4
  <2>2. cut = Pieces(list, lanes)
    BY <1>1, <1>4 DEF Cores!Split, Cores!Unpinned, Pieces
  <2>3. cut \in [1 .. lanes -> Seq(Nat)] /\ Cores!FlattenSeq(cut) = list
    <3>1. Filled(list, lanes, cut) /\ Cores!FlattenSeq(cut) = list
      BY <2>1, <2>2, CutIsWhole
    <3>2. QED
      BY ONLY <3>1 DEF Filled
  <2>4. \A i, j \in 1 .. lanes :
          /\ cut[i] # <<>>
          /\ i # j => Cores!ToSet(cut[i]) \cap Cores!ToSet(cut[j]) = {}
          /\ Len(cut[i]) - Len(cut[j]) \in -1 .. 1
    BY <2>1, <2>2, PiecesAreApart
  <2>5. DOMAIN cut = 1 .. lanes /\ Len(cut) = lanes
    BY <2>3
  <2>6. (IF lanes = 0 THEN 1 ELSE lanes) = lanes /\ ~(Len(list) < lanes)
    BY <1>1, <1>4
  <2>7. \A lane \in DOMAIN cut : cut[lane] \in Seq(Nat)
    BY <2>3, <2>5
  <2>8. QED
    BY <1>4, <2>3, <2>4, <2>5, <2>6, <2>7 DEF Fitted
<1>5. QED
  BY <1>2, <1>3, <1>4

LEMMA EveryCutFits ==
  ASSUME NEW ranges \in Lists, NEW online \in Lists, NEW lanes \in Nat, NEW siblings
  PROVE  Cores!LanesFit(ranges, online, lanes, siblings)
<1>1. PICK list : list = Cores!Restricted(Cores!Parse(ranges), Cores!Parse(online))
  OBVIOUS
<1>2. PICK cut : cut = Cores!Split(list, lanes)
  OBVIOUS
<1>3. /\ list \in Seq(Nat) /\ Climbs(list)
      /\ Cores!ToSet(Cores!Parse(ranges)) = Cores!ToSet(Cores!Parse(online)) => list = <<>>
  BY <1>1, RestrictedIs
<1>4. /\ Len(cut) = IF lanes = 0 THEN 1 ELSE lanes
      /\ \A lane \in DOMAIN cut : cut[lane] \in Seq(Nat)
      /\ list = <<>> => \A lane \in DOMAIN cut : cut[lane] = <<>>
      /\ list # <<>> /\ ~(Len(list) < lanes) =>
           /\ Cores!FlattenSeq(cut) = list
           /\ \A i, j \in DOMAIN cut :
                /\ cut[i] # <<>>
                /\ i # j => Cores!ToSet(cut[i]) \cap Cores!ToSet(cut[j]) = {}
                /\ Len(cut[i]) - Len(cut[j]) \in -1 .. 1
      /\ Len(list) < lanes => \A lane \in DOMAIN cut : cut[lane] = list
  <2>1. list \in Seq(Nat) /\ Climbs(list)
    BY ONLY <1>3
  <2>2. cut = Cores!Split(list, lanes)
    BY ONLY <1>2
  <2>3. Fitted(list, lanes, cut)
    BY <2>1, <2>2, SplitFits
  <2>4. QED
    BY ONLY <2>3 DEF Fitted
<1>5. Cores!Thin(cut, siblings) = {} <=>
        \A lane \in DOMAIN cut : \A cpu \in Cores!ToSet(cut[lane]) :
          cpu \in DOMAIN siblings =>
            siblings[cpu] \cap DOMAIN siblings \subseteq Cores!ToSet(cut[lane])
  BY <1>4, ThinIs
<1>6. QED
  BY <1>1, <1>2, <1>3, <1>4, <1>5 DEF Cores!LanesFit, Cores!Unpinned

LEMMA RangesAreLists == Ranges \subseteq Lists /\ Online \in Lists
<1>1. ASSUME NEW s \in Ranges PROVE s \in Lists
  <2>1. PICK k \in 0 .. 3 :
          s \in [1 .. k -> {<<0, 0>>, <<0, 2>>, <<0, 6>>, <<2, 3>>, <<3, 2>>, <<4, 4>>,
                        <<5, 6>>, <<4, 4101>>}]
    BY DEF Ranges, SeqUpTo
  <2>2. s \in [1 .. k -> Nat \X Nat]
    BY <2>1
  <2>3. s \in Seq(Nat \X Nat) /\ Len(s) = k /\ DOMAIN s = 1 .. k
    BY <2>2
  <2>4. ASSUME NEW i \in 2 .. k PROVE s[i - 1][2] < s[i][1]
    <3>1. s[i - 1][2] + 1 < s[i][1]
      <4>1. \A j \in DOMAIN s : j > 1 => s[j - 1][2] + 1 < s[j][1]
        BY ONLY s \in Ranges DEF Ranges
      <4>2. i \in DOMAIN s /\ i > 1
        BY <2>3
      <4>3. QED
        BY ONLY <4>1, <4>2
    <3>2. i \in 1 .. k /\ i - 1 \in 1 .. k
      OBVIOUS
    <3>3. s[i - 1][2] \in Nat /\ s[i][1] \in Nat
      BY <2>2, <3>2
    <3>4. QED
      BY <3>1, <3>3
  <2>5. QED
    BY <2>3, <2>4 DEF Lists
<1>2. Online \in Lists
  BY DEF Online, Lists
<1>3. QED
  BY <1>1, <1>2

\* Whatever processors the kernel names and whatever machine they are of, however
\* many lanes there are and whichever processors share a core: the lanes are the
\* Runner's own list, cut, whole and not shared, none much wider than another;
\* which holds of the cases of the run (affinity.rs, split).
THEOREM LanesAreItsOwn ==
  /\ \A ranges, online \in Lists : \A lanes \in Nat : \A siblings :
       Cores!LanesFit(ranges, online, lanes, siblings)
  /\ RulesSpec => []LanesAreCut
<1>1. \A ranges, online \in Lists : \A lanes \in Nat : \A siblings :
        Cores!LanesFit(ranges, online, lanes, siblings)
  BY EveryCutFits
<1>2. CaseChosen => LanesAreCut
  <2>1. SUFFICES ASSUME case \in Ranges \X (0 .. 4) \X BOOLEAN
        PROVE Cores!LanesFit(case[1], Online, case[2], Kin(case[3]))
    BY DEF CaseChosen, LanesAreCut
  <2>2. case[1] \in Lists /\ case[2] \in Nat /\ Online \in Lists
    BY <2>1, RangesAreLists
  <2>3. QED
    BY <1>1, <2>2
<1>3. QED
  BY <1>1, <1>2, CasesChosen, PTL


-----------------------------------------------------------------------------
(* Comparing.                                                              *)

\* What bytes decode to, and the words between the spaces.
Octets == {"a", "space", "lead", "tail", "lost"}
Chars == {"a", "space", "lost"}
Words == Seq(Chars) \ {<<>>}
Splits == [whole : Seq(Words), run : Seq(Chars)]
Nothing == [whole |-> <<>>, run |-> <<>>]
Closed(split) == IF split.run = <<>> THEN split.whole ELSE Append(split.whole, split.run)
Read(split, char) ==
  IF char = "space" THEN [whole |-> Closed(split), run |-> <<>>]
  ELSE [split EXCEPT !.run = Append(@, char)]

\* The splits on the way through what was decoded.
Splitting(n, d, h) ==
  h[0] = Nothing /\ \A k \in 0 .. n - 1 : h[k + 1] = Read(h[k], d[k + 1])

LEMMA BytesAre == Compared!Bytes \cup {Compared!Replacement} = Octets
  BY DEF Octets, Compared!Replacement, Compared!Bytes, Compared!Letter, Compared!AsciiSpace,
     Compared!First, Compared!Second

LEMMA DecodedIs ==
  ASSUME NEW bytes \in Seq(Octets)
  PROVE  Compared!Decoded(bytes) \in Seq(Chars) /\ Len(Compared!Decoded(bytes)) = Len(bytes)
<1>1. PICK n \in Nat : n = Len(bytes) /\ DOMAIN bytes = 1 .. n
  OBVIOUS
<1>2. \A i \in 1 .. n : bytes[i] \in {"a", "space", "lead", "tail", "lost"}
  BY <1>1 DEF Octets
<1>3. Compared!Decoded(bytes) \in [1 .. n -> Chars]
  BY <1>1, <1>2 DEF Compared!Decoded, Chars, Compared!AsciiSpace, Compared!First,
     Compared!Second, Compared!Replacement
<1>4. QED
  BY <1>1, <1>3

LEMMA SplitIs ==
  ASSUME NEW split \in Splits
  PROVE  \E w \in Seq(Words), r \in Seq(Chars) : split = [whole |-> w, run |-> r]
<1>1. split.whole \in Seq(Words) /\ split.run \in Seq(Chars)
      /\ split = [whole |-> split.whole, run |-> split.run]
  BY DEF Splits
<1>2. QED
  BY <1>1

ClosesTo(w, r) == Closed([whole |-> w, run |-> r]) = IF r = <<>> THEN w ELSE Append(w, r)
ReadsTo(w, r, char) ==
  Read([whole |-> w, run |-> r], char) =
    IF char = "space" THEN [whole |-> IF r = <<>> THEN w ELSE Append(w, r), run |-> <<>>]
    ELSE [whole |-> w, run |-> Append(r, char)]

LEMMA ReadOf ==
  ASSUME NEW w \in Seq(Words), NEW r \in Seq(Chars), NEW char \in Chars
  PROVE  [whole |-> w, run |-> r] \in Splits /\ ClosesTo(w, r) /\ ReadsTo(w, r, char)
<1>1. PICK split \in Splits : split = [whole |-> w, run |-> r]
  BY DEF Splits
<1>2. split.whole = w /\ split.run = r
  BY <1>1
<1>3. Closed(split) = IF r = <<>> THEN w ELSE Append(w, r)
  BY <1>2 DEF Closed
<1>4. [split EXCEPT !.run = Append(@, char)] = [whole |-> w, run |-> Append(r, char)]
  <2>0. Append(r, char) \in Seq(Chars)
    OBVIOUS
  <2>1. PICK v \in Seq(Chars) : v = Append(r, char)
    BY <2>0
  <2>2. v = Append(split.run, char)
    BY <1>2, <2>1
  <2>3. [split EXCEPT !.run = Append(@, char)] = [split EXCEPT !.run = v]
    BY ONLY <2>2, Zenon
  <2>4. [split EXCEPT !.run = v] = [whole |-> w, run |-> v]
    BY <1>1
  <2>5. QED
    BY <2>1, <2>3, <2>4
<1>5. Read(split, char) = IF char = "space" THEN [whole |-> Closed(split), run |-> <<>>]
                          ELSE [whole |-> w, run |-> Append(r, char)]
  BY <1>4 DEF Read
<1>6. QED
  BY <1>1, <1>3, <1>5 DEF ClosesTo, ReadsTo

LEMMA ReadIs ==
  ASSUME NEW split \in Splits, NEW char \in Chars
  PROVE  Read(split, char) \in Splits /\ Closed(split) \in Seq(Words)
<1>1. PICK w \in Seq(Words), r \in Seq(Chars) : split = [whole |-> w, run |-> r]
  BY SplitIs
<1>2. ClosesTo(w, r) /\ ReadsTo(w, r, char)
  BY ReadOf
<1>3. PICK v \in Seq(Words) : v = IF r = <<>> THEN w ELSE Append(w, r)
  <2>1. r # <<>> => r \in Words
    BY DEF Words
  <2>2. (IF r = <<>> THEN w ELSE Append(w, r)) \in Seq(Words)
    BY <2>1
  <2>3. QED
    BY ONLY <2>2
<1>4. PICK longer \in Seq(Chars) : longer = Append(r, char)
  <2>1. Append(r, char) \in Seq(Chars)
    OBVIOUS
  <2>2. QED
    BY ONLY <2>1
<1>5. Closed(split) = v
  BY ONLY <1>1, <1>2, <1>3 DEF ClosesTo
<1>6. Read(split, char) = IF char = "space" THEN [whole |-> v, run |-> <<>>]
                          ELSE [whole |-> w, run |-> longer]
  BY ONLY <1>1, <1>2, <1>3, <1>4 DEF ReadsTo
<1>7. [whole |-> v, run |-> <<>>] \in Splits /\ [whole |-> w, run |-> longer] \in Splits
  BY DEF Splits
<1>8. QED
  BY <1>5, <1>6, <1>7

LEMMA TokensAreRead ==
  ASSUME NEW bytes \in Seq(Octets), NEW n \in Nat, n = Len(bytes)
  PROVE  \E h \in [0 .. n -> Splits] :
           Splitting(n, Compared!Decoded(bytes), h) /\ Compared!Tokens(bytes) = Closed(h[n])
<1>1. PICK d \in Seq(Chars) : d = Compared!Decoded(bytes) /\ Len(d) = n
  BY DecodedIs
<1> DEFINE step == [t \in (1 .. n) \X Splits |-> Read(t[2], d[t[1]])]
           body(g) == [T \in SUBSET (DOMAIN d) |->
                         IF T = {} THEN Nothing
                         ELSE LET x == Last(T)
                              IN Read(g[T \ {x}], d[x])]
           iter == CHOOSE g : g = body(g)
<1>2. DOMAIN d = 1 .. n /\ \A i \in 1 .. n : d[i] \in Chars
  BY <1>1
<1>3. Nothing \in Splits
  BY DEF Nothing, Splits
<1>4. step \in [(1 .. n) \X Splits -> Splits]
  <2>1. \A t \in (1 .. n) \X Splits : Read(t[2], d[t[1]]) \in Splits
    BY <1>2, ReadIs
  <2>2. QED
    BY <2>1
<1>5. \A t \in (1 .. n) \X Splits : step[t] = Read(t[2], d[t[1]])
  OBVIOUS
<1> HIDE DEF step, body, iter
<1>6. PICK base \in Splits : base = Nothing
  BY <1>3
<1>7. PICK g \in [SUBSET (1 .. n) -> Splits] : Peels(n, Splits, base, step, g)
  BY <1>4, Walk
<1>8. \A T \in (SUBSET (1 .. n)) \ {{}} : Last(T) \in T
  BY LastIs
<1>9. g = body(g)
  <2>1. \A T \in (SUBSET (1 .. n)) \ {{}} : g[T] = Read(g[T \ {Last(T)}], d[Last(T)])
    <3>1. ASSUME NEW T \in (SUBSET (1 .. n)) \ {{}}
          PROVE  g[T] = Read(g[T \ {Last(T)}], d[Last(T)])
      <4>1. PICK x \in 1 .. n : x = Last(T)
        BY <1>8
      <4>2. PICK v \in Splits : v = g[T \ {x}]
        OBVIOUS
      <4>3. g[T] = step[<<x, v>>]
        BY <1>7, <4>1, <4>2 DEF Peels
      <4>4. QED
        BY <1>5, <4>1, <4>2, <4>3
    <3>2. QED
      BY <3>1
  <2>2. g = [T \in SUBSET (1 .. n) |-> g[T]] /\ g[{}] = Nothing
    BY <1>6, <1>7 DEF Peels
  <2>3. QED
    BY <1>2, <2>1, <2>2 DEF body
<1>10. iter = body(iter)
  BY <1>9 DEF iter
<1>11. Peels(n, Splits, base, step, iter)
  <2>1. iter[{}] = base
    BY <1>6, <1>10 DEF body
  <2>2. ASSUME NEW T \in (SUBSET (1 .. n)) \ {{}}, iter[T \ {Last(T)}] \in Splits
        PROVE  iter[T] = step[<<Last(T), iter[T \ {Last(T)}]>>]
    <3>1. iter[T] = Read(iter[T \ {Last(T)}], d[Last(T)])
      BY <1>2, <1>10 DEF body
    <3>2. PICK x \in 1 .. n : x = Last(T)
      BY <1>8
    <3>3. PICK v \in Splits : v = iter[T \ {x}]
      BY <2>2, <3>2
    <3>4. QED
      BY <1>5, <3>1, <3>2, <3>3
  <2>3. QED
    BY <2>1, <2>2 DEF Peels
<1>12. PICK h \in [0 .. n -> Splits] : Walks(n, base, step, h, iter[1 .. n])
  BY <1>4, <1>11, Walked
<1>13. Compared!Tokens(bytes) = Closed(iter[1 .. n])
  <2>1. Compared!Tokens(bytes) = Closed(iter[DOMAIN d])
    BY <1>1 DEF Compared!Tokens, Compared!FoldLeft, Compared!MapThenFoldSet, Compared!Max,
       Compared!AsciiSpace, Last, iter, body, Closed, Read, Nothing
  <2>2. QED
    BY <1>2, <2>1
<1>14. \A k \in 0 .. n - 1 : h[k + 1] = Read(h[k], d[k + 1])
  <2> SUFFICES ASSUME NEW k \in 0 .. n - 1 PROVE h[k + 1] = Read(h[k], d[k + 1])
    OBVIOUS
  <2>1. k + 1 \in 1 .. n /\ k \in 0 .. n
    OBVIOUS
  <2>2. PICK v \in Splits : v = h[k]
    BY <2>1
  <2>3. h[k + 1] = step[<<k + 1, v>>]
    BY <1>12, <2>2 DEF Walks
  <2>4. QED
    BY <1>5, <2>1, <2>2, <2>3
<1>15. h[0] = Nothing /\ h[n] = iter[1 .. n]
  BY <1>6, <1>12 DEF Walks
<1>16. QED
  BY <1>1, <1>13, <1>14, <1>15 DEF Splitting

\* Bytes after which a token cannot go on.
Ends(bytes) == bytes = <<>> \/ bytes[Len(bytes)] = "space"

\* A space ends what is before it, also of a character of two bytes.
LEMMA DecodedApart ==
  ASSUME NEW x \in Seq(Octets), NEW y \in Seq(Octets), Ends(x)
  PROVE  /\ Compared!Decoded(x \o y) = Compared!Decoded(x) \o Compared!Decoded(y)
         /\ x # <<>> => Compared!Decoded(x)[Len(x)] = "space"
<1>1. PICK n \in Nat : n = Len(x) /\ DOMAIN x = 1 .. n /\ (n = 0 <=> x = <<>>)
  OBVIOUS
<1>2. PICK m \in Nat : m = Len(y) /\ DOMAIN y = 1 .. m
  OBVIOUS
<1>0. x \o y \in Seq(Octets)
  OBVIOUS
<1>3. PICK z \in Seq(Octets) : z = x \o y
  BY <1>0
<1>4. /\ Len(z) = n + m /\ DOMAIN z = 1 .. n + m
      /\ \A i \in 1 .. n : z[i] = x[i]
      /\ \A i \in 1 .. m : z[n + i] = y[i]
  BY <1>1, <1>2, <1>3, ConcatProperties
<1>5. /\ \A i \in 1 .. n : x[i] \in {"a", "space", "lead", "tail", "lost"}
      /\ \A i \in 1 .. m : y[i] \in {"a", "space", "lead", "tail", "lost"}
  BY <1>1, <1>2 DEF Octets
<1>6. n > 0 => x[n] = "space"
  BY <1>1 DEF Ends
<1>7. PICK dx \in Seq(Chars) : dx = Compared!Decoded(x) /\ Len(dx) = n
  BY <1>1, DecodedIs
<1>8. PICK dy \in Seq(Chars) : dy = Compared!Decoded(y) /\ Len(dy) = m
  BY <1>2, DecodedIs
<1>9. PICK dz \in Seq(Chars) : dz = Compared!Decoded(z) /\ Len(dz) = n + m
  BY <1>4, DecodedIs
<1> DEFINE at_(b, k, i) == IF \/ b[i] = "lead" /\ i < k /\ b[i + 1] = "tail"
                              \/ b[i] = "tail" /\ i > 1 /\ b[i - 1] = "lead"
                           THEN "space" ELSE IF b[i] \in {"lead", "tail"} THEN "lost" ELSE b[i]
<1>10. /\ \A i \in 1 .. n : dx[i] = at_(x, n, i)
       /\ \A i \in 1 .. m : dy[i] = at_(y, m, i)
       /\ \A i \in 1 .. n + m : dz[i] = at_(z, n + m, i)
  BY <1>1, <1>2, <1>4, <1>7, <1>8, <1>9 DEF Compared!Decoded, Compared!AsciiSpace, Compared!First,
     Compared!Second, Compared!Replacement
<1>11. \A i \in 1 .. n : dz[i] = dx[i]
  <2>1. ASSUME NEW i \in 1 .. n PROVE dz[i] = dx[i]
    <3>1. z[i] = x[i] /\ (i > 1 => z[i - 1] = x[i - 1]) /\ (i < n => z[i + 1] = x[i + 1])
      <4>1. (i > 1 => i - 1 \in 1 .. n) /\ (i < n => i + 1 \in 1 .. n)
        OBVIOUS
      <4>2. QED
        BY <1>4, <4>1
    <3>2. i \in 1 .. n + m /\ (i < n => i < n + m)
      OBVIOUS
    <3>3. i = n => z[i] = "space" /\ x[i] = "space"
      BY <1>6, <3>1
    <3>4. dz[i] = at_(z, n + m, i) /\ dx[i] = at_(x, n, i)
      BY <1>10, <3>2
    <3>5. QED
      BY <3>1, <3>2, <3>3, <3>4
  <2>2. QED
    BY <2>1
<1>12. \A i \in 1 .. m : dz[n + i] = dy[i]
  <2>1. ASSUME NEW i \in 1 .. m PROVE dz[n + i] = dy[i]
    <3>1. z[n + i] = y[i]
      BY <1>4
    <3>2. n + i \in 1 .. n + m /\ (n + i < n + m <=> i < m)
      OBVIOUS
    <3>3. i > 1 => n + i > 1 /\ z[n + i - 1] = y[i - 1]
      <4>1. SUFFICES ASSUME i > 1 PROVE n + i > 1 /\ z[n + i - 1] = y[i - 1]
        OBVIOUS
      <4>2. i - 1 \in 1 .. m /\ n + (i - 1) = n + i - 1
        BY <4>1
      <4>3. QED
        BY <1>4, <4>1, <4>2
    <3>4. i < m => z[n + i + 1] = y[i + 1]
      <4>1. SUFFICES ASSUME i < m PROVE z[n + i + 1] = y[i + 1]
        OBVIOUS
      <4>2. i + 1 \in 1 .. m /\ n + (i + 1) = n + i + 1
        BY <4>1
      <4>3. QED
        BY <1>4, <4>2
    <3>5. i = 1 => n + i - 1 = n /\ (n + i > 1 => z[n + i - 1] = "space")
      <4>1. SUFFICES ASSUME i = 1 PROVE n + i - 1 = n /\ (n + i > 1 => z[n + i - 1] = "space")
        OBVIOUS
      <4>2. n + i - 1 = n /\ (n + i > 1 => n > 0 /\ n \in 1 .. n)
        BY <4>1
      <4>3. QED
        BY <1>4, <1>6, <4>2
    <3>6. dz[n + i] = at_(z, n + m, n + i) /\ dy[i] = at_(y, m, i)
      BY <1>10, <3>2
    <3>7. (n + i > 1 /\ z[n + i - 1] = "lead") <=> (i > 1 /\ y[i - 1] = "lead")
      <4>1. CASE i = 1
        BY <3>5, <4>1
      <4>2. CASE i > 1
        BY <3>3, <4>2
      <4>3. i = 1 \/ i > 1
        OBVIOUS
      <4>4. QED
        BY <4>1, <4>2, <4>3
    <3>8. (n + i < n + m /\ z[n + i + 1] = "tail") <=> (i < m /\ y[i + 1] = "tail")
      BY <3>2, <3>4
    <3>9. QED
      BY <3>1, <3>6, <3>7, <3>8
  <2>2. QED
    BY <2>1
<1>12a. n > 0 => dx[n] = "space"
  <2>1. SUFFICES ASSUME n > 0 PROVE dx[n] = "space"
    OBVIOUS
  <2>2. n \in 1 .. n /\ x[n] = "space"
    BY <1>6, <2>1
  <2>3. dx[n] = at_(x, n, n)
    BY <1>10, <2>2
  <2>4. QED
    BY <2>2, <2>3
<1> HIDE DEF at_
<1>13. dz = dx \o dy
  <2>1. dx \o dy \in Seq(Chars) /\ Len(dx \o dy) = n + m
    BY <1>7, <1>8, ConcatProperties
  <2>2. ASSUME NEW i \in 1 .. n + m PROVE dz[i] = (dx \o dy)[i]
    <3>1. (dx \o dy)[i] = IF i <= n THEN dx[i] ELSE dy[i - n]
      BY <1>7, <1>8, ConcatProperties
    <3>2. i > n => i - n \in 1 .. m /\ n + (i - n) = i
      OBVIOUS
    <3>3. QED
      BY <1>11, <1>12, <3>1, <3>2
  <2>3. QED
    BY <1>9, <2>1, <2>2, SeqEqual
<1>14. QED
  BY <1>1, <1>3, <1>7, <1>8, <1>9, <1>12a, <1>13

LEMMA ClosedIs == \A split \in Splits : Closed(split) \in Seq(Words)
<1>1. "a" \in Chars
  BY DEF Chars
<1>2. QED
  BY <1>1, ReadIs

LEMMA AppendedAfter ==
  \A front, back \in Seq(Words) : \A final \in Words :
    front \o Append(back, final) = Append(front \o back, final)
<1>1. \A front, back, more \in Seq(Words) : (front \o back) \o more = front \o (back \o more)
  BY ConcatAssociative
<1>2. SUFFICES ASSUME NEW front \in Seq(Words), NEW back \in Seq(Words), NEW final \in Words
      PROVE  front \o Append(back, final) = Append(front \o back, final)
  OBVIOUS
<1>3a. <<final>> \in Seq(Words)
  OBVIOUS
<1>3. PICK tip \in Seq(Words) : tip = <<final>>
  BY <1>3a
<1>4. front \o back \in Seq(Words)
  OBVIOUS
<1>5. Append(back, final) = back \o tip /\ Append(front \o back, final) = (front \o back) \o tip
  BY <1>3, <1>4
<1>6. (front \o back) \o tip = front \o (back \o tip)
  BY <1>1
<1>7. QED
  BY <1>5, <1>6

\* The tokens of what is before a space and of what is after it are those of both.
LEMMA TokensApart ==
  ASSUME NEW x \in Seq(Octets), NEW y \in Seq(Octets), Ends(x)
  PROVE  /\ Compared!Tokens(x) \in Seq(Words) /\ Compared!Tokens(y) \in Seq(Words)
         /\ Compared!Tokens(x \o y) = Compared!Tokens(x) \o Compared!Tokens(y)
<1>1. PICK n \in Nat : n = Len(x) /\ (n = 0 <=> x = <<>>)
  OBVIOUS
<1>2. PICK m \in Nat : m = Len(y)
  OBVIOUS
<1>0. x \o y \in Seq(Octets) /\ Len(x \o y) = n + m
  BY <1>1, <1>2, ConcatProperties
<1>3. PICK z \in Seq(Octets) : z = x \o y /\ Len(z) = n + m
  BY <1>0
<1>4. PICK dx \in Seq(Chars) : dx = Compared!Decoded(x) /\ Len(dx) = n
  BY <1>1, DecodedIs
<1>5. PICK dy \in Seq(Chars) : dy = Compared!Decoded(y) /\ Len(dy) = m
  BY <1>2, DecodedIs
<1>6. PICK dz \in Seq(Chars) : dz = Compared!Decoded(z) /\ Len(dz) = n + m /\ dz = dx \o dy
  BY <1>3, <1>4, <1>5, DecodedIs, DecodedApart
<1>7. n > 0 => dx[n] = "space"
  BY <1>1, <1>4, DecodedApart
<1>8. /\ \A i \in 1 .. n : dz[i] = dx[i] /\ dx[i] \in Chars
      /\ \A i \in 1 .. m : dz[n + i] = dy[i] /\ dy[i] \in Chars
  <2>1. /\ \A i \in 1 .. Len(dx) : (dx \o dy)[i] = dx[i]
        /\ \A i \in Len(dx) + 1 .. Len(dx) + Len(dy) : (dx \o dy)[i] = dy[i - Len(dx)]
    BY ONLY ConcatProperties, dx \in Seq(Chars), dy \in Seq(Chars)
  <2>2. \A i \in 1 .. n : dx[i] \in Chars
    BY <1>4
  <2>3. \A i \in 1 .. m : dy[i] \in Chars
    BY <1>5
  <2>4. ASSUME NEW i \in 1 .. m PROVE dz[n + i] = dy[i]
    <3>1. n + i \in n + 1 .. n + m /\ (n + i) - n = i
      OBVIOUS
    <3>2. (dx \o dy)[n + i] = dy[(n + i) - n]
      BY <1>4, <1>5, <2>1, <3>1
    <3>3. QED
      BY ONLY <1>6, <3>1, <3>2
  <2>5. \A i \in 1 .. n : dz[i] = dx[i]
    BY ONLY <1>4, <1>6, <2>1
  <2>6. QED
    BY ONLY <2>2, <2>3, <2>4, <2>5
<1>9. PICK hx \in [0 .. n -> Splits] : Splitting(n, dx, hx) /\ Compared!Tokens(x) = Closed(hx[n])
  BY <1>1, <1>4, TokensAreRead
<1>10. PICK hy \in [0 .. m -> Splits] : Splitting(m, dy, hy) /\ Compared!Tokens(y) = Closed(hy[m])
  BY <1>2, <1>5, TokensAreRead
<1>11. PICK s \in Nat : s = n + m
  OBVIOUS
<1>12. PICK hz \in [0 .. s -> Splits] : Splitting(s, dz, hz) /\ Compared!Tokens(z) = Closed(hz[s])
  BY <1>3, <1>6, <1>11, TokensAreRead
<1>13. PICK whole \in Seq(Words) : whole = Compared!Tokens(x)
  <2>1. Closed(hx[n]) \in Seq(Words)
    BY ClosedIs
  <2>2. QED
    BY <1>9, <2>1
<1>14. Compared!Tokens(y) \in Seq(Words)
  <2>1. Closed(hy[m]) \in Seq(Words)
    BY ClosedIs
  <2>2. QED
    BY <1>10, <2>1
<1>15. hz[n] = hx[n]
  <2> DEFINE S == {k \in 0 .. n : hz[k] = hx[k]}
  <2>1. 0 \in S
    BY <1>9, <1>12 DEF Splitting
  <2>2. ASSUME NEW k \in 0 .. n - 1, k \in S PROVE k + 1 \in S
    <3>1. k + 1 \in 1 .. n /\ k \in 0 .. s - 1
      BY <1>11
    <3>2. hz[k + 1] = Read(hz[k], dz[k + 1]) /\ hx[k + 1] = Read(hx[k], dx[k + 1])
      BY <1>9, <1>12, <3>1 DEF Splitting
    <3>3. QED
      BY <1>8, <2>2, <3>1, <3>2
  <2> HIDE DEF S
  <2>3. \A k \in 0 .. n : k \in S
    BY <2>1, <2>2, Along
  <2>4. QED
    BY <2>3 DEF S
<1>15a. <<>> \in Seq(Words) /\ <<>> \in Seq(Chars)
  OBVIOUS
<1>15b. "space" \in Chars
  BY DEF Chars
<1>16. hx[n] = [whole |-> whole, run |-> <<>>]
  <2>1. CASE n = 0
    <3>1. hx[n] = Nothing
      BY <1>9, <2>1 DEF Splitting
    <3>2. QED
      BY <1>9, <1>13, <3>1 DEF Closed, Nothing
  <2>2. CASE n > 0
    <3>1. n - 1 \in 0 .. n - 1 /\ (n - 1) + 1 = n
      BY <2>2
    <3>2. hx[n] = Read(hx[n - 1], "space")
      BY <1>7, <1>9, <2>2, <3>1 DEF Splitting
    <3>3. n - 1 \in 0 .. n
      BY <2>2
    <3>4. PICK w \in Seq(Words), r \in Seq(Chars) : hx[n - 1] = [whole |-> w, run |-> r]
      BY <3>3, SplitIs
    <3>5. PICK v \in Seq(Words) : v = IF r = <<>> THEN w ELSE Append(w, r)
      <4>1. r # <<>> => r \in Words
        BY DEF Words
      <4>2. (IF r = <<>> THEN w ELSE Append(w, r)) \in Seq(Words)
        BY <4>1
      <4>3. QED
        BY <4>2
    <3>5a. Read([whole |-> w, run |-> r], "space")
             = [whole |-> IF r = <<>> THEN w ELSE Append(w, r), run |-> <<>>]
      <4>1. ReadsTo(w, r, "space")
        BY <1>15b, ReadOf
      <4>2. QED
        BY ONLY <4>1 DEF ReadsTo
    <3>6. hx[n] = [whole |-> v, run |-> <<>>]
      BY <3>2, <3>4, <3>5, <3>5a
    <3>7. Closed(hx[n]) = v
      <4>1. ClosesTo(v, <<>>)
        BY <1>15a, <1>15b, ReadOf
      <4>2. QED
        BY ONLY <3>6, <4>1 DEF ClosesTo
    <3>8. QED
      BY <1>9, <1>13, <3>6, <3>7
  <2>3. QED
    BY <2>1, <2>2
<1> DEFINE S == {k \in 0 .. m : hz[n + k] = [whole |-> whole \o hy[k].whole, run |-> hy[k].run]}
<1>17. \A k \in 0 .. m : k \in S
  <2>1. 0 \in S
    <3>1. hy[0] = Nothing /\ n + 0 = n
      BY <1>10 DEF Splitting
    <3>2. whole \o <<>> = whole
      BY ConcatEmptySeq
    <3>3. hy[0].whole = <<>> /\ hy[0].run = <<>>
      BY <3>1 DEF Nothing
    <3>4. hz[n + 0] = [whole |-> whole \o hy[0].whole, run |-> hy[0].run]
      BY <1>15, <1>16, <3>1, <3>2, <3>3
    <3>5. QED
      BY <3>4
  <2>2. ASSUME NEW k \in 0 .. m - 1, k \in S PROVE k + 1 \in S
    <3>1. k + 1 \in 1 .. m /\ n + k \in 0 .. s - 1 /\ (n + k) + 1 = n + (k + 1)
      BY <1>11
    <3>2. hz[n + (k + 1)] = Read(hz[n + k], dy[k + 1]) /\ hy[k + 1] = Read(hy[k], dy[k + 1])
      BY <1>8, <1>10, <1>12, <3>1 DEF Splitting
    <3>3a. k \in 0 .. m
      OBVIOUS
    <3>3b. PICK w \in Seq(Words), r \in Seq(Chars) : hy[k] = [whole |-> w, run |-> r]
      BY <3>3a, SplitIs
    <3>3c. PICK c \in Chars : c = dy[k + 1]
      BY <1>8, <3>1
    <3>3. hy[k] = [whole |-> w, run |-> r] /\ c = dy[k + 1]
      BY <3>3b, <3>3c
    <3>4a. hy[k].whole = w /\ hy[k].run = r
      BY <3>3
    <3>4. hz[n + k] = [whole |-> whole \o w, run |-> r]
      BY <2>2, <3>4a
    <3>4b. whole \o w \in Seq(Words)
      OBVIOUS
    <3>5. /\ hy[k + 1] = Read([whole |-> w, run |-> r], c)
          /\ hz[n + (k + 1)] = Read([whole |-> whole \o w, run |-> r], c)
      BY <3>2, <3>3, <3>4
    <3>6. r # <<>> => whole \o Append(w, r) = Append(whole \o w, r)
      <4>1. SUFFICES ASSUME r # <<>> PROVE whole \o Append(w, r) = Append(whole \o w, r)
        OBVIOUS
      <4>2. PICK e \in Words : e = r
        BY <4>1 DEF Words
      <4>3. whole \in Seq(Words) /\ w \in Seq(Words) /\ e \in Words
        OBVIOUS
      <4>4. whole \o Append(w, e) = Append(whole \o w, e)
        BY ONLY <4>3, AppendedAfter
      <4>5. QED
        BY <4>2, <4>4
    <3>7. hz[n + (k + 1)] = [whole |-> whole \o hy[k + 1].whole, run |-> hy[k + 1].run]
      <4>1. CASE c = "space"
        <5>1. /\ hy[k + 1] = [whole |-> IF r = <<>> THEN w ELSE Append(w, r), run |-> <<>>]
              /\ hz[n + (k + 1)] = [whole |-> IF r = <<>> THEN whole \o w ELSE Append(whole \o w, r),
                                    run |-> <<>>]
          <6>1. ReadsTo(w, r, c) /\ ReadsTo(whole \o w, r, c)
            BY <3>4b, ReadOf
          <6>2. QED
            BY ONLY <3>5, <4>1, <6>1 DEF ReadsTo
        <5>2. hy[k + 1].whole = (IF r = <<>> THEN w ELSE Append(w, r)) /\ hy[k + 1].run = <<>>
          BY <5>1
        <5>3. QED
          BY <3>6, <5>1, <5>2
      <4>2. CASE c # "space"
        <5>1. /\ hy[k + 1] = [whole |-> w, run |-> Append(r, c)]
              /\ hz[n + (k + 1)] = [whole |-> whole \o w, run |-> Append(r, c)]
          <6>1. ReadsTo(w, r, c) /\ ReadsTo(whole \o w, r, c)
            BY <3>4b, ReadOf
          <6>2. QED
            BY ONLY <3>5, <4>2, <6>1 DEF ReadsTo
        <5>2. hy[k + 1].whole = w /\ hy[k + 1].run = Append(r, c)
          BY <5>1
        <5>3. QED
          BY <5>1, <5>2
      <4>3. QED
        BY <4>1, <4>2
    <3>8. QED
      <4>1. k + 1 \in 0 .. m
        BY <3>1
      <4>2. QED
        BY ONLY <3>7, <4>1
  <2> HIDE DEF S
  <2>3. QED
    BY <2>1, <2>2, Along
<1> HIDE DEF S
<1>18. Compared!Tokens(z) = whole \o Compared!Tokens(y)
  <2>1. PICK w \in Seq(Words), r \in Seq(Chars) : hy[m] = [whole |-> w, run |-> r]
    BY SplitIs
  <2>2. m \in S /\ hy[m].whole = w /\ hy[m].run = r
    BY <1>17, <2>1
  <2>3. hz[s] = [whole |-> whole \o w, run |-> r] /\ whole \o w \in Seq(Words)
    <3>1. hz[n + m] = [whole |-> whole \o hy[m].whole, run |-> hy[m].run]
      BY ONLY <2>2 DEF S
    <3>2. whole \o w \in Seq(Words)
      OBVIOUS
    <3>3. QED
      BY <1>11, <2>2, <3>1, <3>2
  <2>4. r # <<>> => whole \o Append(w, r) = Append(whole \o w, r)
    <3>1. SUFFICES ASSUME r # <<>> PROVE whole \o Append(w, r) = Append(whole \o w, r)
      OBVIOUS
    <3>2. PICK e \in Words : e = r
      BY <3>1 DEF Words
    <3>3. whole \in Seq(Words) /\ w \in Seq(Words) /\ e \in Words
      OBVIOUS
    <3>4. whole \o Append(w, e) = Append(whole \o w, e)
      BY ONLY <3>3, AppendedAfter
    <3>5. QED
      BY <3>2, <3>4
  <2>5. /\ Closed(hz[s]) = IF r = <<>> THEN whole \o w ELSE Append(whole \o w, r)
        /\ Closed(hy[m]) = IF r = <<>> THEN w ELSE Append(w, r)
    <3>1. ClosesTo(whole \o w, r) /\ ClosesTo(w, r)
      BY <1>15b, <2>1, <2>3, ReadOf
    <3>2. QED
      BY <2>1, <2>3, <3>1 DEF ClosesTo
  <2>6. QED
    BY <1>10, <1>12, <2>4, <2>5
<1>19. QED
  BY <1>3, <1>13, <1>14, <1>18

\* A comparison on its way, and the rest of the tokens settled.
Comparisons == [ours : Seq(Words), holding : Seq(Octets), index : Nat, decided : Nat]
Settling(c, theirs) == Compared!FoldLeft(Compared!Settle, c, theirs)

\* What settling one token does, or the end of theirs.
SettledAs(c, got, s) ==
  /\ s \in Comparisons /\ s.ours = c.ours /\ s.holding = c.holding
  /\ c.decided # 0 => s = c
  /\ c.decided = 0 =>
       /\ s.decided = IF Compared!Want(c) = got THEN 0 ELSE c.index + 1
       /\ got # <<>> => s.index = c.index + 1

LEMMA SettleIs ==
  ASSUME NEW c \in Comparisons, NEW got
  PROVE  SettledAs(c, got, Compared!Settle(c, got))
<1>1. /\ c.ours \in Seq(Words) /\ c.holding \in Seq(Octets) /\ c.index \in Nat /\ c.decided \in Nat
      /\ c = [ours |-> c.ours, holding |-> c.holding, index |-> c.index, decided |-> c.decided]
  BY DEF Comparisons
<1>2. PICK i \in Nat : i = c.index + 1
  BY <1>1
<1>3. PICK v \in Nat : v = IF Compared!Want(c) = got THEN 0 ELSE c.index + 1
  BY <1>1
<1>4. PICK s : s = [c EXCEPT !.index = i, !.decided = v]
  OBVIOUS
<1>5. s = [ours |-> c.ours, holding |-> c.holding, index |-> i, decided |-> v]
  BY <1>1, <1>4
<1>6. s \in Comparisons /\ s.ours = c.ours /\ s.holding = c.holding /\ s.index = i /\ s.decided = v
  BY <1>1, <1>5 DEF Comparisons
<1>7. [c EXCEPT !.index = @ + 1,
                !.decided = IF Compared!Want(c) = got THEN 0 ELSE c.index + 1] = s
  BY ONLY <1>2, <1>3, <1>4, Zenon
<1>8. Compared!Settle(c, got) =
        IF c.decided # 0 \/ (Compared!Want(c) = <<>> /\ got = <<>>) THEN c
        ELSE [c EXCEPT !.index = @ + 1,
                       !.decided = IF Compared!Want(c) = got THEN 0 ELSE c.index + 1]
  BY ONLY Zenon DEF Compared!Settle, Compared!Undecided, Compared!Exhausted
<1>9. Compared!Settle(c, got) = IF c.decided # 0 \/ (Compared!Want(c) = <<>> /\ got = <<>>) THEN c ELSE s
  BY ONLY <1>7, <1>8, Zenon
<1>10. QED
  BY <1>1, <1>2, <1>3, <1>6, <1>9 DEF SettledAs

\* So far two rows of tokens agree, and there they differ first.
Agree(ours, theirs, k) ==
  \A i \in 1 .. k : i <= Len(ours) /\ i <= Len(theirs) /\ ours[i] = theirs[i]
Differ(ours, theirs, j) ==
  /\ j \in 1 .. Len(theirs) /\ Agree(ours, theirs, j - 1)
  /\ j > Len(ours) \/ ours[j] # theirs[j]

\* A comparison that has settled those tokens, and no other.
Kept(c, ours, theirs) ==
  /\ c.ours = ours
  /\ c.decided = 0 => c.index = Len(theirs) /\ Agree(ours, theirs, Len(theirs))
  /\ c.decided # 0 => Differ(ours, theirs, c.decided)

\* What they differ in first does not change with what comes after.
LEMMA DiffersFirst ==
  ASSUME NEW ours \in Seq(Words), NEW theirs \in Seq(Words), NEW more \in Seq(Words),
         NEW j \in Nat, Differ(ours, theirs, j)
  PROVE  Differ(ours, theirs \o more, j)
<1>1. /\ Len(theirs \o more) = Len(theirs) + Len(more) /\ Len(theirs) \in Nat /\ Len(more) \in Nat
      /\ \A i \in 1 .. Len(theirs) : (theirs \o more)[i] = theirs[i]
  BY ConcatProperties
<1>2. j \in 1 .. Len(theirs) /\ j \in 1 .. Len(theirs \o more)
  BY <1>1 DEF Differ
<1>3. Agree(ours, theirs \o more, j - 1)
  <2>1. \A i \in 1 .. j - 1 : i \in 1 .. Len(theirs) /\ i <= Len(theirs \o more)
    BY <1>1, <1>2
  <2>2. QED
    BY <1>1, <2>1 DEF Agree, Differ
<1>4. QED
  BY <1>1, <1>2, <1>3 DEF Differ

LEMMA OneSettled ==
  ASSUME NEW c \in Comparisons, NEW ours \in Seq(Words), NEW theirs \in Seq(Words),
         NEW got \in Words, Kept(c, ours, theirs)
  PROVE  Kept(Compared!Settle(c, got), ours, Append(theirs, got))
<1>1. PICK s : s = Compared!Settle(c, got)
  OBVIOUS
<1>2. SettledAs(c, got, s)
  BY <1>1, SettleIs
<1>3. got # <<>> /\ got \in Seq(Chars)
  BY DEF Words
<1>4. c.index \in Nat /\ c.decided \in Nat /\ c.ours = ours
  BY DEF Comparisons, Kept
<1>5. PICK all \in Seq(Words) : all = Append(theirs, got)
  <2>1. Append(theirs, got) \in Seq(Words)
    OBVIOUS
  <2>2. QED
    BY <2>1
<1>6. PICK n \in Nat : n = Len(theirs)
  OBVIOUS
<1>7. Len(all) = n + 1 /\ all[n + 1] = got /\ \A i \in 1 .. n : all[i] = theirs[i]
  BY <1>5, <1>6
<1>8. CASE c.decided # 0
  <2>1. <<got>> \in Seq(Words) /\ all = theirs \o <<got>>
    BY <1>5
  <2>2. Differ(ours, theirs, c.decided)
    BY <1>8 DEF Kept
  <2>3. Differ(ours, all, c.decided)
    BY <1>4, <2>1, <2>2, DiffersFirst
  <2>4. s = c
    BY <1>2, <1>8 DEF SettledAs
  <2>5. Kept(s, ours, all)
    BY <1>4, <1>8, <2>3, <2>4 DEF Kept
  <2>6. QED
    BY <1>1, <1>5, <2>5
<1>9. CASE c.decided = 0
  <2>1. c.index = n /\ Agree(ours, theirs, n)
    BY <1>6, <1>9 DEF Kept
  <2>2. /\ s.ours = ours /\ s.index = n + 1
        /\ s.decided = IF Compared!Want(c) = got THEN 0 ELSE n + 1
    BY <1>2, <1>3, <1>4, <1>9, <2>1 DEF SettledAs
  <2>3. Compared!Want(c) = IF n < Len(ours) THEN ours[n + 1] ELSE <<>>
    BY <1>4, <2>1 DEF Compared!Want, Compared!Exhausted
  <2>4. Agree(ours, all, n)
    <3>1. \A i \in 1 .. n : i <= Len(ours) /\ ours[i] = theirs[i]
      BY <2>1 DEF Agree
    <3>2. QED
      BY <1>7, <3>1 DEF Agree
  <2>5. CASE Compared!Want(c) = got
    <3>1. n + 1 <= Len(ours) /\ ours[n + 1] = got
      BY <1>3, <2>3, <2>5
    <3>2. \A i \in 1 .. n + 1 : i \in 1 .. n \/ i = n + 1
      OBVIOUS
    <3>3. Agree(ours, all, n + 1)
      BY <1>7, <2>4, <3>1, <3>2 DEF Agree
    <3>4. s.decided = 0
      BY <2>2, <2>5
    <3>5. Kept(s, ours, all)
      BY <1>7, <2>2, <3>3, <3>4 DEF Kept
    <3>6. QED
      BY <1>1, <1>5, <3>5
  <2>6. CASE Compared!Want(c) # got
    <3>1. n + 1 > Len(ours) \/ ours[n + 1] # all[n + 1]
      BY <1>7, <2>3, <2>6
    <3>2. s.decided = n + 1 /\ n + 1 # 0 /\ (n + 1) - 1 = n /\ n + 1 \in 1 .. Len(all)
      BY <1>7, <2>2, <2>6
    <3>3. Differ(ours, all, n + 1)
      BY <2>4, <3>1, <3>2 DEF Differ
    <3>4. Kept(s, ours, all)
      BY <2>2, <3>2, <3>3 DEF Kept
    <3>5. QED
      BY <1>1, <1>5, <3>4
  <2>7. QED
    BY <2>5, <2>6
<1>10. QED
  BY <1>8, <1>9

\* The comparisons on the way through some tokens.
Settles(n, c, theirs, h) ==
  /\ h[0] = c /\ Settling(c, theirs) = h[n]
  /\ \A k \in 0 .. n - 1 : h[k + 1] = Compared!Settle(h[k], theirs[k + 1])

LEMMA SettlingWalks ==
  ASSUME NEW c \in Comparisons, NEW theirs \in Seq(Words), NEW n \in Nat, n = Len(theirs)
  PROVE  \E h \in [0 .. n -> Comparisons] : Settles(n, c, theirs, h)
<1> DEFINE step == [t \in (1 .. n) \X Comparisons |-> Compared!Settle(t[2], theirs[t[1]])]
           body(g) == [T \in SUBSET (DOMAIN theirs) |->
                         IF T = {} THEN c
                         ELSE LET x == Last(T)
                              IN Compared!Settle(g[T \ {x}], theirs[x])]
           iter == CHOOSE g : g = body(g)
<1>1. DOMAIN theirs = 1 .. n
  OBVIOUS
<1>2. step \in [(1 .. n) \X Comparisons -> Comparisons]
  <2>1. \A t \in (1 .. n) \X Comparisons : Compared!Settle(t[2], theirs[t[1]]) \in Comparisons
    BY SettleIs DEF SettledAs
  <2>2. QED
    BY <2>1
<1>3. \A t \in (1 .. n) \X Comparisons : step[t] = Compared!Settle(t[2], theirs[t[1]])
  OBVIOUS
<1> HIDE DEF step, body, iter
<1>4. PICK g \in [SUBSET (1 .. n) -> Comparisons] : Peels(n, Comparisons, c, step, g)
  BY <1>2, Walk
<1>5. \A T \in (SUBSET (1 .. n)) \ {{}} : Last(T) \in T
  BY LastIs
<1>6. g = body(g)
  <2>1. \A T \in (SUBSET (1 .. n)) \ {{}} :
          g[T] = Compared!Settle(g[T \ {Last(T)}], theirs[Last(T)])
    <3>1. ASSUME NEW T \in (SUBSET (1 .. n)) \ {{}}
          PROVE  g[T] = Compared!Settle(g[T \ {Last(T)}], theirs[Last(T)])
      <4>1. PICK x \in 1 .. n : x = Last(T)
        BY <1>5
      <4>2. PICK v \in Comparisons : v = g[T \ {x}]
        OBVIOUS
      <4>3. g[T] = step[<<x, v>>]
        BY <1>4, <4>1, <4>2 DEF Peels
      <4>4. QED
        BY <1>3, <4>1, <4>2, <4>3
    <3>2. QED
      BY <3>1
  <2>2. g = [T \in SUBSET (1 .. n) |-> g[T]] /\ g[{}] = c
    BY <1>4 DEF Peels
  <2>3. QED
    BY <1>1, <2>1, <2>2 DEF body
<1>7. iter = body(iter)
  BY <1>6 DEF iter
<1>8. Peels(n, Comparisons, c, step, iter)
  <2>1. iter[{}] = c
    BY <1>7 DEF body
  <2>2. ASSUME NEW T \in (SUBSET (1 .. n)) \ {{}}, iter[T \ {Last(T)}] \in Comparisons
        PROVE  iter[T] = step[<<Last(T), iter[T \ {Last(T)}]>>]
    <3>1. iter[T] = Compared!Settle(iter[T \ {Last(T)}], theirs[Last(T)])
      BY <1>1, <1>7 DEF body
    <3>2. PICK x \in 1 .. n : x = Last(T)
      BY <1>5
    <3>3. PICK v \in Comparisons : v = iter[T \ {x}]
      BY <2>2, <3>2
    <3>4. QED
      BY <1>3, <3>1, <3>2, <3>3
  <2>3. QED
    BY <2>1, <2>2 DEF Peels
<1>9. PICK h \in [0 .. n -> Comparisons] : Walks(n, c, step, h, iter[1 .. n])
  BY <1>2, <1>8, Walked
<1>10. Settling(c, theirs) = iter[1 .. n]
  <2>1. Settling(c, theirs) = iter[DOMAIN theirs]
    BY DEF Settling, Compared!FoldLeft, Compared!MapThenFoldSet, Compared!Max, Last, iter, body
  <2>2. QED
    BY <1>1, <2>1
<1>11. \A k \in 0 .. n - 1 : h[k + 1] = Compared!Settle(h[k], theirs[k + 1])
  <2> SUFFICES ASSUME NEW k \in 0 .. n - 1 PROVE h[k + 1] = Compared!Settle(h[k], theirs[k + 1])
    OBVIOUS
  <2>1. k + 1 \in 1 .. n /\ k \in 0 .. n
    OBVIOUS
  <2>2. PICK v \in Comparisons : v = h[k]
    BY <2>1
  <2>3. h[k + 1] = step[<<k + 1, v>>]
    BY <1>9, <2>2 DEF Walks
  <2>4. QED
    BY <1>3, <2>1, <2>2, <2>3
<1>12. h[0] = c /\ h[n] = iter[1 .. n]
  BY <1>9 DEF Walks
<1>13. QED
  BY <1>10, <1>11, <1>12 DEF Settles

\* What settling all of them does.
AllSettled(c, s, ours, before, theirs) ==
  /\ s \in Comparisons /\ s.holding = c.holding
  /\ Kept(c, ours, before) => Kept(s, ours, before \o theirs)
  /\ c.decided # 0 => s = c

LEMMA SettlingIs ==
  ASSUME NEW c \in Comparisons, NEW ours \in Seq(Words), NEW before \in Seq(Words),
         NEW theirs \in Seq(Words)
  PROVE  AllSettled(c, Settling(c, theirs), ours, before, theirs)
<1>1. PICK n \in Nat : n = Len(theirs)
  OBVIOUS
<1>2. PICK h \in [0 .. n -> Comparisons] : Settles(n, c, theirs, h)
  BY <1>1, SettlingWalks
<1> DEFINE S == {k \in 0 .. n : AllSettled(c, h[k], ours, before, SubSeq(theirs, 1, k))}
<1>3. \A k \in 0 .. n : k \in S
  <2>1. 0 \in S
    <3>1. h[0] = c /\ before \o <<>> = before
      BY <1>2, ConcatEmptySeq DEF Settles
    <3>2. SubSeq(theirs, 1, 0) = <<>>
      BY SubSeqEmpty
    <3>3. AllSettled(c, h[0], ours, before, SubSeq(theirs, 1, 0))
      BY <3>1, <3>2 DEF AllSettled
    <3>4. QED
      BY <3>3
  <2>2. ASSUME NEW k \in 0 .. n - 1, k \in S PROVE k + 1 \in S
    <3>1. k + 1 \in 1 .. n /\ k \in 0 .. n /\ k + 1 \in 0 .. n
      OBVIOUS
    <3>2. PICK v \in Comparisons : v = h[k]
      BY <3>1
    <3>3. PICK got \in Words : got = theirs[k + 1]
      BY <1>1, <3>1
    <3>4. PICK s : s = Compared!Settle(v, got)
      OBVIOUS
    <3>5. h[k + 1] = s
      BY <1>2, <3>2, <3>3, <3>4 DEF Settles
    <3>6. SettledAs(v, got, s)
      BY <3>4, SettleIs
    <3>7. PICK seen \in Seq(Words) : seen = SubSeq(theirs, 1, k)
      <4>1. SubSeq(theirs, 1, k) \in Seq(Words)
        BY <1>1, SubSeqProperties
      <4>2. QED
        BY <4>1
    <3>8. SubSeq(theirs, 1, k + 1) = Append(seen, got)
      <4>1. SubSeq(theirs, 1, k + 1) = SubSeq(theirs, 1, (k + 1) - 1) \o <<theirs[k + 1]>>
        BY <1>1, <3>1, SubSeqRecursiveSecond
      <4>2. (k + 1) - 1 = k
        OBVIOUS
      <4>3. seen \o <<got>> = Append(seen, got)
        OBVIOUS
      <4>4. QED
        BY <3>3, <3>7, <4>1, <4>2, <4>3
    <3>9. AllSettled(c, v, ours, before, seen)
      BY <2>2, <3>2, <3>7
    <3>10. PICK t \in Seq(Words) : t = before \o seen
      <4>1. before \o seen \in Seq(Words)
        BY ConcatProperties
      <4>2. QED
        BY <4>1
    <3>11. before \o Append(seen, got) = Append(t, got)
      BY <3>10, AppendedAfter
    <3>12. Kept(c, ours, before) => Kept(s, ours, Append(t, got))
      <4>1. SUFFICES ASSUME Kept(c, ours, before) PROVE Kept(s, ours, Append(t, got))
        OBVIOUS
      <4>2. Kept(v, ours, t)
        BY <3>9, <3>10, <4>1 DEF AllSettled
      <4>3. QED
        BY <3>4, <4>2, OneSettled
    <3>13. AllSettled(c, s, ours, before, Append(seen, got))
      BY <3>6, <3>9, <3>11, <3>12 DEF AllSettled, SettledAs
    <3>14. QED
      BY <3>1, <3>5, <3>8, <3>13
  <2> HIDE DEF S
  <2>3. QED
    BY <2>1, <2>2, Along
<1>4. SubSeq(theirs, 1, n) = theirs
  BY <1>1, SubSeqFull
<1>5. n \in S
  BY <1>3
<1>6. QED
  BY <1>2, <1>4, <1>5 DEF Settles

\* What feeding a chunk does while nothing is settled: what is before a space is
\* split and settled, and the rest is held.
FedAs(c, chunk, s) ==
  \E z, w \in Seq(Octets), d \in Comparisons :
    /\ c.holding \o chunk = z \o w /\ Ends(z)
    /\ d.ours = c.ours /\ d.index = c.index /\ d.decided = 0 /\ d.holding = w
    /\ s = Settling(d, Compared!Tokens(z))

LEMMA CutIs ==
  ASSUME NEW held \in Seq(Octets), NEW chunk \in Seq(Octets), NEW all \in Seq(Octets),
         all = held \o chunk
  PROVE  LET cut == Compared!Cut(Len(held), chunk)
         IN cut \in 0 .. Len(all) /\ (cut # 0 => all[cut] = "space")
<1>1. PICK n \in Nat : n = Len(chunk) /\ DOMAIN chunk = 1 .. n
  OBVIOUS
<1>2. PICK m \in Nat : m = Len(held)
  OBVIOUS
<1>3. Len(all) = m + n /\ \A i \in 1 .. n : all[m + i] = chunk[i]
  BY <1>1, <1>2, ConcatProperties
<1>4. PICK spaces \in SUBSET (1 .. n) : spaces = {i \in 1 .. n : chunk[i] = "space"}
  OBVIOUS
<1>5. Compared!Cut(m, chunk) = IF spaces = {} THEN 0 ELSE m + Last(spaces)
  BY <1>1, <1>4 DEF Compared!Cut, Compared!AsciiSpace, Compared!Max, Last
<1>6. CASE spaces = {}
  BY <1>2, <1>3, <1>5, <1>6
<1>7. CASE spaces # {}
  <2>1. PICK x \in 1 .. n : x = Last(spaces) /\ x \in spaces
    <3>1. Last(spaces) \in spaces
      BY <1>7, LastIs
    <3>2. QED
      BY <3>1
  <2>2. Compared!Cut(m, chunk) = m + x /\ all[m + x] = "space"
    BY <1>3, <1>4, <1>5, <1>7, <2>1
  <2>3. QED
    BY <1>2, <1>3, <2>2
<1>8. QED
  BY <1>6, <1>7

LEMMA FeedIs ==
  ASSUME NEW c \in Comparisons, NEW chunk \in Seq(Octets)
  PROVE  /\ c.decided # 0 => Compared!Feed(c, chunk) = c
         /\ c.decided = 0 => FedAs(c, chunk, Compared!Feed(c, chunk))
<1>1. /\ c.ours \in Seq(Words) /\ c.holding \in Seq(Octets) /\ c.index \in Nat
      /\ c = [ours |-> c.ours, holding |-> c.holding, index |-> c.index, decided |-> c.decided]
  BY DEF Comparisons
<1> DEFINE all == c.holding \o chunk
           cut == Compared!Cut(Len(c.holding), chunk)
           w == SubSeq(all, cut + 1, Len(all))
           z == SubSeq(all, 1, cut)
           d == [c EXCEPT !.holding = w]
<1>2. c.decided # 0 => Compared!Feed(c, chunk) = c
  BY DEF Compared!Feed, Compared!Undecided
<1>3. c.decided = 0 => Compared!Feed(c, chunk) = Settling(d, Compared!Tokens(z))
  BY DEF Compared!Feed, Compared!Undecided, Settling
<1>4. all \in Seq(Octets)
  BY <1>1, ConcatProperties
<1> HIDE DEF all
<1>5. cut \in 0 .. Len(all) /\ (cut # 0 => all[cut] = "space")
  BY <1>1, <1>4, CutIs DEF all
<1> HIDE DEF cut
<1>6. PICK n \in Nat : n = Len(all)
  BY <1>4
<1>7. /\ z \in Seq(Octets) /\ w \in Seq(Octets) /\ Len(z) = cut
      /\ cut # 0 => z[cut] = all[cut]
  <2>1. z \in Seq(Octets) /\ Len(z) = cut /\ \A i \in 1 .. cut : z[i] = all[i]
    BY <1>4, <1>5, <1>6, CutAt DEF CutsAt
  <2>2. w \in Seq(Octets)
    BY <1>4, <1>5, <1>6, CutAt DEF CutsAt
  <2>3. QED
    BY <1>5, <1>6, <2>1, <2>2
<1>8. all = z \o w
  <2>1. SubSeq(all, 1, cut) \o SubSeq(all, cut + 1, n) = SubSeq(all, 1, n)
    <3>1. PICK one \in 1 .. Len(all) + 1 : one = 1
      BY <1>6
    <3>2. cut \in one - 1 .. Len(all) /\ n \in cut .. Len(all)
      BY <1>5, <1>6, <3>1
    <3>3. SubSeq(all, one, cut) \o SubSeq(all, cut + 1, n) = SubSeq(all, one, n)
      BY <1>4, <3>2, ConcatAdjacentSubSeq
    <3>4. QED
      BY <3>1, <3>3
  <2>2. SubSeq(all, 1, n) = all
    BY <1>4, <1>6, SubSeqFull
  <2>3. QED
    BY <1>6, <2>1, <2>2
<1> HIDE DEF z, w
<1>9. Ends(z)
  BY <1>5, <1>7 DEF Ends
<1>10. ASSUME c.decided = 0 PROVE FedAs(c, chunk, Compared!Feed(c, chunk))
  <2>1. d = [ours |-> c.ours, holding |-> w, index |-> c.index, decided |-> 0]
    <3>1. PICK v : v = w
      OBVIOUS
    <3>2. PICK e : e = [c EXCEPT !.holding = v]
      OBVIOUS
    <3>3. e = [ours |-> c.ours, holding |-> v, index |-> c.index, decided |-> c.decided]
      BY <1>1, <3>2
    <3>4. QED
      BY <1>10, <3>1, <3>2, <3>3
  <2>2. d \in Comparisons /\ d.ours = c.ours /\ d.index = c.index /\ d.decided = 0 /\ d.holding = w
    BY <1>1, <1>7, <2>1 DEF Comparisons
  <2>3. Compared!Feed(c, chunk) = Settling(d, Compared!Tokens(z))
    BY <1>3, <1>10
  <2> HIDE DEF d
  <2>4. c.holding \o chunk = z \o w
    BY <1>8 DEF all
  <2>5. QED
    BY <1>7, <1>9, <2>2, <2>3, <2>4 DEF FedAs
<1>11. QED
  BY <1>2, <1>10

Associate(a, b, e) == (a \o b) \o e = a \o (b \o e)

LEMMA OctetsFollow == \A a, b, e \in Seq(Octets) : Associate(a, b, e)
  BY ConcatAssociative DEF Associate

\* A comparison that is on its way through some bytes: it has settled the tokens
\* of some that end in a space, and holds the rest until something is decided.
Follows(c, ours, bytes) ==
  \E x, y \in Seq(Octets) :
    /\ bytes = x \o y /\ Ends(x) /\ Kept(c, ours, Compared!Tokens(x))
    /\ c.decided = 0 => c.holding = y

LEMMA Followed ==
  ASSUME NEW c \in Comparisons, NEW ours \in Seq(Words), NEW bytes \in Seq(Octets),
         NEW chunk \in Seq(Octets), Follows(c, ours, bytes)
  PROVE  /\ Compared!Feed(c, chunk) \in Comparisons
         /\ Follows(Compared!Feed(c, chunk), ours, bytes \o chunk)
<1>1. PICK x \in Seq(Octets), y \in Seq(Octets) :
        /\ bytes = x \o y /\ Ends(x) /\ Kept(c, ours, Compared!Tokens(x))
        /\ c.decided = 0 => c.holding = y
  BY DEF Follows
<1>2. PICK s : s = Compared!Feed(c, chunk)
  OBVIOUS
<1>3. bytes \o chunk = x \o (y \o chunk) /\ y \o chunk \in Seq(Octets)
  BY <1>1, ConcatAssociative, ConcatProperties
<1>4. c.decided \in Nat
  BY DEF Comparisons
<1>5. CASE c.decided # 0
  <2>1. s = c
    BY <1>2, <1>5, FeedIs
  <2>2. Follows(s, ours, bytes \o chunk)
    BY <1>1, <1>3, <1>5, <2>1 DEF Follows
  <2>3. QED
    BY <1>2, <2>1, <2>2
<1>6. CASE c.decided = 0
  <2>1. FedAs(c, chunk, s)
    BY <1>2, <1>6, FeedIs
  <2>2. PICK z \in Seq(Octets), w \in Seq(Octets), d \in Comparisons :
          /\ c.holding \o chunk = z \o w /\ Ends(z)
          /\ d.ours = c.ours /\ d.index = c.index /\ d.decided = 0 /\ d.holding = w
          /\ s = Settling(d, Compared!Tokens(z))
    BY <2>1 DEF FedAs
  <2>3. PICK before \in Seq(Words), more \in Seq(Words) :
          /\ before = Compared!Tokens(x) /\ more = Compared!Tokens(z)
          /\ Compared!Tokens(x \o z) = before \o more
    <3>1. Ends(x)
      BY ONLY <1>1
    <3>2. /\ Compared!Tokens(x) \in Seq(Words) /\ Compared!Tokens(z) \in Seq(Words)
          /\ Compared!Tokens(x \o z) = Compared!Tokens(x) \o Compared!Tokens(z)
      BY <3>1, TokensApart
    <3>3. QED
      BY ONLY <3>2
  <2>4. Kept(d, ours, before)
    BY <1>1, <1>6, <2>2, <2>3 DEF Kept
  <2>5. AllSettled(d, s, ours, before, more)
    BY <2>2, <2>3, SettlingIs
  <2>6. s \in Comparisons /\ s.holding = w /\ Kept(s, ours, Compared!Tokens(x \o z))
    BY <2>2, <2>3, <2>4, <2>5 DEF AllSettled
  <2>7. x \o z \in Seq(Octets) /\ bytes \o chunk = (x \o z) \o w
    <3>1. y \o chunk = z \o w
      BY <1>1, <1>6, <2>2
    <3>2. (x \o z) \o w = x \o (z \o w)
      <4>1. Associate(x, z, w)
        BY OctetsFollow
      <4>2. QED
        BY ONLY <4>1 DEF Associate
    <3>3. QED
      BY <1>3, <3>1, <3>2, ConcatProperties
  <2>8. Ends(x \o z)
    <3>1. CASE z = <<>>
      BY <1>1, <3>1, ConcatEmptySeq
    <3>2. CASE z # <<>>
      <4>1. /\ Len(x \o z) = Len(x) + Len(z) /\ Len(x) \in Nat /\ Len(z) \in Nat /\ Len(z) > 0
            /\ \A i \in 1 .. Len(x) + Len(z) :
                 (x \o z)[i] = IF i <= Len(x) THEN x[i] ELSE z[i - Len(x)]
        BY <3>2, ConcatProperties
      <4>2. PICK i \in 1 .. Len(x) + Len(z) : i = Len(x) + Len(z) /\ i - Len(x) = Len(z)
        BY <4>1
      <4>3. (x \o z)[i] = z[Len(z)]
        BY <4>1, <4>2
      <4>4. QED
        BY <2>2, <3>2, <4>1, <4>2, <4>3 DEF Ends
    <3>3. QED
      BY <3>1, <3>2
  <2>9. Follows(s, ours, bytes \o chunk)
    BY <2>6, <2>7, <2>8 DEF Follows
  <2>10. QED
    BY <1>2, <2>6, <2>9
<1>7. QED
  BY <1>5, <1>6

\* What the answer to both sides as a whole is.
LEMMA MostIs ==
  ASSUME NEW a \in Nat, NEW b \in Nat, NEW m, m = Compared!Max({a, b} \cup {1})
  PROVE  m \in Nat /\ m >= a /\ m >= b /\ m >= 1
<1>1. \E x \in {a, b} \cup {1} : \A y \in {a, b} \cup {1} : x >= y
  <2>1. CASE a >= b /\ a >= 1
    BY <2>1
  <2>2. CASE b >= a /\ b >= 1
    BY <2>2
  <2>3. CASE 1 >= a /\ 1 >= b
    BY <2>3
  <2>4. QED
    BY <2>1, <2>2, <2>3
<1>2. m \in {a, b} \cup {1} /\ \A y \in {a, b} \cup {1} : m >= y
  BY <1>1 DEF Compared!Max
<1>3. QED
  BY <1>2

LEMMA FirstIs ==
  ASSUME NEW S \in SUBSET Nat, NEW j \in S, \A i \in S : j <= i
  PROVE  Compared!Min(S) = j
<1>1. Compared!Min(S) \in S /\ \A i \in S : Compared!Min(S) <= i
  BY DEF Compared!Min
<1>2. Compared!Min(S) \in Nat /\ j \in Nat /\ Compared!Min(S) <= j /\ j <= Compared!Min(S)
  BY <1>1
<1>3. PICK x \in Nat : x = Compared!Min(S)
  BY <1>2
<1>4. QED
  BY <1>2, <1>3

LEMMA MeaningIs ==
  ASSUME NEW expected, NEW actual, NEW ours \in Seq(Words), NEW theirs \in Seq(Words),
         ours = Compared!Tokens(expected), theirs = Compared!Tokens(actual)
  PROVE  /\ \A j \in Nat : Differ(ours, theirs, j) => Compared!Meaning(expected, actual) = j
         /\ Agree(ours, theirs, Len(theirs)) =>
              Compared!Meaning(expected, actual) =
                IF Len(ours) = Len(theirs) THEN Compared!Equal ELSE Len(theirs) + 1
<1>1. PICK n \in Nat : n = Len(ours)
  OBVIOUS
<1>2. PICK k \in Nat : k = Len(theirs)
  OBVIOUS
<1>3. PICK m \in Nat : m = Compared!Max({n, k} \cup {1}) /\ m >= n /\ m >= k
  <2>1. PICK m : m = Compared!Max({n, k} \cup {1})
    OBVIOUS
  <2>2. m \in Nat /\ m >= n /\ m >= k
    BY <2>1, MostIs
  <2>3. QED
    BY <2>1, <2>2
<1> DEFINE apart(i) == \/ (i <= n) # (i <= k)
                       \/ i <= n /\ i <= k /\ ours[i] # theirs[i]
<1>4. PICK D \in SUBSET (1 .. m) : D = {i \in 1 .. m : apart(i)}
  OBVIOUS
<1>5. Compared!Meaning(expected, actual) = IF D = {} THEN Compared!Equal ELSE Compared!Min(D)
  BY <1>1, <1>2, <1>3, <1>4 DEF Compared!Meaning
<1>6. D \in SUBSET Nat
  BY <1>4
<1>7. ASSUME NEW j \in Nat, Differ(ours, theirs, j)
      PROVE  Compared!Meaning(expected, actual) = j
  <2>1. j \in 1 .. k /\ j \in 1 .. m /\ (j > n \/ ours[j] # theirs[j])
    <3>1. j \in 1 .. k /\ (j > n \/ ours[j] # theirs[j])
      BY <1>1, <1>2, <1>7 DEF Differ
    <3>2. QED
      BY <1>3, <3>1
  <2>2. j \in D
    BY <1>4, <2>1
  <2>3. \A i \in 1 .. j - 1 : i <= n /\ i <= k /\ ours[i] = theirs[i]
    BY <1>1, <1>2, <1>7 DEF Differ, Agree
  <2>4. \A i \in D : j <= i
    <3>1. ASSUME NEW i \in D, i < j PROVE FALSE
      <4>1. i \in 1 .. j - 1 /\ apart(i)
        BY <1>4, <2>1, <3>1
      <4>2. QED
        BY <2>3, <4>1
    <3>2. \A i \in D : i \in Nat
      BY <1>6
    <3>3. QED
      BY <3>1, <3>2
  <2>5. Compared!Min(D) = j
    BY <1>6, <2>2, <2>4, FirstIs
  <2>6. QED
    BY <1>5, <2>2, <2>5
<1>8. ASSUME Agree(ours, theirs, k)
      PROVE  Compared!Meaning(expected, actual) = IF n = k THEN Compared!Equal ELSE k + 1
  <2>1. \A i \in 1 .. k : i <= n /\ ours[i] = theirs[i]
    BY <1>1, <1>8 DEF Agree
  <2>2. k <= n
    <3>1. CASE k = 0
      BY <3>1
    <3>2. CASE k # 0
      <4>1. k \in 1 .. k
        BY <3>2
      <4>2. QED
        BY <2>1, <4>1
    <3>3. QED
      BY <3>1, <3>2
  <2>3. ASSUME NEW i \in 1 .. k PROVE ~apart(i)
    <3>1. i <= n /\ i <= k /\ ours[i] = theirs[i]
      BY <2>1
    <3>2. QED
      BY <3>1
  <2>4. \A i \in D : i > k
    <3>1. ASSUME NEW i \in D, ~(i > k) PROVE FALSE
      <4>1. i \in 1 .. k /\ apart(i)
        BY <1>4, <3>1
      <4>2. QED
        BY <2>3, <4>1
    <3>2. QED
      BY <3>1
  <2>5. CASE n = k
    <3>1. \A i \in D : i <= k
      <4>1. ASSUME NEW i \in D, ~(i <= k) PROVE FALSE
        <5>1. i \in 1 .. m /\ apart(i)
          BY <1>4
        <5>2. QED
          BY <2>5, <4>1, <5>1
      <4>2. QED
        BY <4>1
    <3>2. \A i \in D : i \in Nat
      BY <1>6
    <3>3. D = {}
      BY <2>4, <3>1, <3>2
    <3>4. QED
      BY <1>5, <2>5, <3>3
  <2>6. CASE n # k
    <3>1. k + 1 \in 1 .. m /\ k + 1 <= n /\ ~(k + 1 <= k)
      BY <1>3, <2>2, <2>6
    <3>2. PICK j \in Nat : j = k + 1
      OBVIOUS
    <3>3. j \in D
      BY <1>4, <3>1, <3>2
    <3>4. \A i \in D : j <= i
      BY <1>6, <2>4, <3>2
    <3>5. Compared!Min(D) = j
      BY <1>6, <3>3, <3>4, FirstIs
    <3>6. QED
      BY <1>5, <2>6, <3>2, <3>3, <3>5
  <2>7. QED
    BY <2>5, <2>6
<1>9. QED
  BY <1>1, <1>2, <1>7, <1>8

LEMMA TokensAre == \A bytes \in Seq(Octets) : Compared!Tokens(bytes) \in Seq(Words)
<1>1. <<>> \in Seq(Octets) /\ Ends(<<>>)
  BY DEF Ends
<1>2. QED
  BY <1>1, TokensApart

\* What is decided is the answer, whatever still comes; and the end decides.
LEMMA AnswersRight ==
  ASSUME NEW c \in Comparisons, NEW expected \in Seq(Octets), NEW bytes \in Seq(Octets),
         Follows(c, Compared!Tokens(expected), bytes)
  PROVE  /\ \A rest \in Seq(Octets) :
              c.decided # 0 => Compared!Meaning(expected, bytes \o rest) = c.decided
         /\ Compared!Finish(c) = Compared!Meaning(expected, bytes)
<1>1. PICK ours \in Seq(Words) : ours = Compared!Tokens(expected)
  BY TokensAre
<1>2. PICK x \in Seq(Octets), y \in Seq(Octets) :
        /\ bytes = x \o y /\ Ends(x) /\ Kept(c, ours, Compared!Tokens(x))
        /\ c.decided = 0 => c.holding = y
  BY <1>1 DEF Follows
<1>3. c.decided \in Nat /\ c.holding \in Seq(Octets)
  BY DEF Comparisons
<1>4. ASSUME NEW rest \in Seq(Octets), c.decided # 0
      PROVE  Compared!Meaning(expected, bytes \o rest) = c.decided
  <2>1. PICK more \in Seq(Octets) : more = y \o rest
    <3>1. y \o rest \in Seq(Octets)
      BY ConcatProperties
    <3>2. QED
      BY <3>1
  <2>2. bytes \o rest = x \o more
    <3>1. (x \o y) \o rest = x \o (y \o rest)
      <4>1. Associate(x, y, rest)
        BY OctetsFollow
      <4>2. QED
        BY ONLY <4>1 DEF Associate
    <3>2. QED
      BY <1>2, <2>1, <3>1
  <2>3. PICK before \in Seq(Words), after \in Seq(Words) :
          /\ before = Compared!Tokens(x)
          /\ Compared!Tokens(x \o more) = before \o after
    <3>1. Ends(x)
      BY ONLY <1>2
    <3>2. /\ Compared!Tokens(x) \in Seq(Words) /\ Compared!Tokens(more) \in Seq(Words)
          /\ Compared!Tokens(x \o more) = Compared!Tokens(x) \o Compared!Tokens(more)
      BY <3>1, TokensApart
    <3>3. QED
      BY ONLY <3>2
  <2>4. Differ(ours, before, c.decided)
    BY <1>2, <1>4, <2>3 DEF Kept
  <2>5. PICK theirs \in Seq(Words) : theirs = before \o after
    <3>1. before \o after \in Seq(Words)
      BY ConcatProperties
    <3>2. QED
      BY <3>1
  <2>6. Differ(ours, theirs, c.decided)
    BY <1>3, <2>4, <2>5, DiffersFirst
  <2>7. theirs = Compared!Tokens(bytes \o rest)
    BY <2>2, <2>3, <2>5
  <2>8. QED
    BY <1>1, <1>3, <2>6, <2>7, MeaningIs
<1>5. PICK held \in Seq(Words) : held = Compared!Tokens(c.holding)
  BY <1>3, TokensAre
<1>6. PICK before \in Seq(Words) : before = Compared!Tokens(x)
  BY TokensAre
<1>7. PICK s \in Comparisons : s = Settling(c, held) /\ AllSettled(c, s, ours, before, held)
  <2>1. AllSettled(c, Settling(c, held), ours, before, held)
    BY SettlingIs
  <2>2. Settling(c, held) \in Comparisons
    BY <2>1 DEF AllSettled
  <2>3. QED
    BY <2>1, <2>2
<1>8. PICK last : last = Compared!Settle(s, <<>>)
  OBVIOUS
<1>9. SettledAs(s, <<>>, last)
  BY <1>8, SettleIs
<1>10. Compared!Finish(c) = IF last.decided = 0 THEN Compared!Equal ELSE last.decided
  <2>1. Compared!Finish(c) =
          IF Compared!Settle(Settling(c, Compared!Tokens(c.holding)), <<>>).decided = 0
          THEN Compared!Equal
          ELSE Compared!Settle(Settling(c, Compared!Tokens(c.holding)), <<>>).decided
    BY DEF Compared!Finish, Compared!Undecided, Compared!Exhausted, Settling
  <2>2. QED
    BY <1>5, <1>7, <1>8, <2>1
<1>11. CASE c.decided # 0
  <2>1. s = c /\ last = s
    BY <1>7, <1>9, <1>11 DEF AllSettled, SettledAs
  <2>2. Compared!Finish(c) = c.decided
    BY <1>10, <1>11, <2>1
  <2>3. <<>> \in Seq(Octets) /\ bytes \o <<>> = bytes
    BY ConcatEmptySeq
  <2>4. Compared!Meaning(expected, bytes) = c.decided
    BY <1>4, <1>11, <2>3
  <2>5. QED
    BY <1>4, <2>2, <2>4
<1>12. CASE c.decided = 0
  <2>1. PICK theirs \in Seq(Words) : theirs = before \o held
    <3>1. before \o held \in Seq(Words)
      BY ConcatProperties
    <3>2. QED
      BY <3>1
  <2>2. Kept(s, ours, theirs)
    BY <1>2, <1>6, <1>7, <2>1 DEF AllSettled
  <2>3. theirs = Compared!Tokens(bytes)
    BY <1>2, <1>5, <1>6, <1>12, <2>1, TokensApart
  <2>4. s.decided \in Nat /\ s.index \in Nat /\ s.ours = ours
    BY <2>2 DEF Comparisons, Kept
  <2>5. CASE s.decided # 0
    <3>1. last = s /\ Differ(ours, theirs, s.decided)
      BY <1>9, <2>2, <2>5 DEF SettledAs, Kept
    <3>2. Compared!Meaning(expected, bytes) = s.decided
      BY <1>1, <2>3, <2>4, <3>1, MeaningIs
    <3>3. QED
      BY <1>4, <1>10, <2>5, <3>1, <3>2
  <2>6. CASE s.decided = 0
    <3>1. PICK k \in Nat : k = Len(theirs)
      OBVIOUS
    <3>2. PICK n \in Nat : n = Len(ours)
      OBVIOUS
    <3>3. s.index = k /\ Agree(ours, theirs, k)
      BY <2>2, <2>6, <3>1 DEF Kept
    <3>4. last.decided = IF Compared!Want(s) = <<>> THEN 0 ELSE k + 1
      BY <1>9, <2>6, <3>3 DEF SettledAs
    <3>5. Compared!Want(s) = IF k < n THEN ours[k + 1] ELSE <<>>
      BY <2>4, <3>2, <3>3 DEF Compared!Want, Compared!Exhausted
    <3>6. k < n => ours[k + 1] # <<>>
      <4>1. k < n => k + 1 \in 1 .. Len(ours)
        BY <3>2
      <4>2. QED
        BY <4>1 DEF Words
    <3>7. k <= n
      <4>1. CASE k = 0
        BY <4>1
      <4>2. CASE k # 0
        <5>1. k \in 1 .. k
          BY <4>2
        <5>2. QED
          BY <3>2, <3>3, <5>1 DEF Agree
      <4>3. QED
        BY <4>1, <4>2
    <3>8. Compared!Meaning(expected, bytes) = IF n = k THEN Compared!Equal ELSE k + 1
      BY <1>1, <2>3, <3>1, <3>2, <3>3, MeaningIs
    <3>9. Compared!Finish(c) = IF n = k THEN Compared!Equal ELSE k + 1
      <4>1. CASE n = k
        BY <1>10, <3>4, <3>5, <4>1
      <4>2. CASE n # k
        <5>1. k < n /\ k + 1 # 0
          BY <3>7, <4>2
        <5>2. last.decided = k + 1
          BY <3>4, <3>5, <3>6, <5>1
        <5>3. QED
          BY <1>10, <4>2, <5>1, <5>2
      <4>3. QED
        BY <4>1, <4>2
    <3>10. QED
      BY <1>4, <3>8, <3>9
  <2>7. QED
    BY <2>5, <2>6
<1>13. QED
  BY <1>11, <1>12

\* An output that arrives in chunks.
Feeding(c, chunks) == Compared!FoldLeft(Compared!Feed, c, chunks)
Feeds(n, c, chunks, h) ==
  /\ h[0] = c /\ Feeding(c, chunks) = h[n]
  /\ \A k \in 0 .. n - 1 : h[k + 1] = Compared!Feed(h[k], chunks[k + 1])

LEMMA FeedStays ==
  ASSUME NEW c \in Comparisons, NEW chunk \in Seq(Octets)
  PROVE  Compared!Feed(c, chunk) \in Comparisons
<1>1. CASE c.decided # 0
  BY <1>1, FeedIs
<1>2. CASE c.decided = 0
  <2>1. FedAs(c, chunk, Compared!Feed(c, chunk))
    BY <1>2, FeedIs
  <2>2. PICK z \in Seq(Octets), d \in Comparisons :
          Compared!Feed(c, chunk) = Settling(d, Compared!Tokens(z))
    BY <2>1 DEF FedAs
  <2>3. PICK theirs \in Seq(Words) : theirs = Compared!Tokens(z)
    BY TokensAre
  <2>4. AllSettled(d, Settling(d, theirs), theirs, theirs, theirs)
    BY SettlingIs
  <2>5. QED
    BY <2>2, <2>3, <2>4 DEF AllSettled
<1>3. QED
  BY <1>1, <1>2

LEMMA FeedingWalks ==
  ASSUME NEW c \in Comparisons, NEW chunks \in Seq(Seq(Octets)), NEW n \in Nat, n = Len(chunks)
  PROVE  \E h \in [0 .. n -> Comparisons] : Feeds(n, c, chunks, h)
<1> DEFINE step == [t \in (1 .. n) \X Comparisons |-> Compared!Feed(t[2], chunks[t[1]])]
           body(g) == [T \in SUBSET (DOMAIN chunks) |->
                         IF T = {} THEN c
                         ELSE LET x == Last(T)
                              IN Compared!Feed(g[T \ {x}], chunks[x])]
           iter == CHOOSE g : g = body(g)
<1>1. DOMAIN chunks = 1 .. n /\ \A i \in 1 .. n : chunks[i] \in Seq(Octets)
  OBVIOUS
<1>2. step \in [(1 .. n) \X Comparisons -> Comparisons]
  <2>1. \A t \in (1 .. n) \X Comparisons : Compared!Feed(t[2], chunks[t[1]]) \in Comparisons
    BY <1>1, FeedStays
  <2>2. QED
    BY <2>1
<1>3. \A t \in (1 .. n) \X Comparisons : step[t] = Compared!Feed(t[2], chunks[t[1]])
  OBVIOUS
<1> HIDE DEF step, body, iter
<1>4. PICK g \in [SUBSET (1 .. n) -> Comparisons] : Peels(n, Comparisons, c, step, g)
  BY <1>2, Walk
<1>5. \A T \in (SUBSET (1 .. n)) \ {{}} : Last(T) \in T
  BY LastIs
<1>6. g = body(g)
  <2>1. \A T \in (SUBSET (1 .. n)) \ {{}} :
          g[T] = Compared!Feed(g[T \ {Last(T)}], chunks[Last(T)])
    <3>1. ASSUME NEW T \in (SUBSET (1 .. n)) \ {{}}
          PROVE  g[T] = Compared!Feed(g[T \ {Last(T)}], chunks[Last(T)])
      <4>1. PICK x \in 1 .. n : x = Last(T)
        BY <1>5
      <4>2. PICK v \in Comparisons : v = g[T \ {x}]
        OBVIOUS
      <4>3. g[T] = step[<<x, v>>]
        BY <1>4, <4>1, <4>2 DEF Peels
      <4>4. QED
        BY <1>3, <4>1, <4>2, <4>3
    <3>2. QED
      BY <3>1
  <2>2. g = [T \in SUBSET (1 .. n) |-> g[T]] /\ g[{}] = c
    BY <1>4 DEF Peels
  <2>3. QED
    BY <1>1, <2>1, <2>2 DEF body
<1>7. iter = body(iter)
  BY <1>6 DEF iter
<1>8. Peels(n, Comparisons, c, step, iter)
  <2>1. iter[{}] = c
    BY <1>7 DEF body
  <2>2. ASSUME NEW T \in (SUBSET (1 .. n)) \ {{}}, iter[T \ {Last(T)}] \in Comparisons
        PROVE  iter[T] = step[<<Last(T), iter[T \ {Last(T)}]>>]
    <3>1. iter[T] = Compared!Feed(iter[T \ {Last(T)}], chunks[Last(T)])
      BY <1>1, <1>7 DEF body
    <3>2. PICK x \in 1 .. n : x = Last(T)
      BY <1>5
    <3>3. PICK v \in Comparisons : v = iter[T \ {x}]
      BY <2>2, <3>2
    <3>4. QED
      BY <1>3, <3>1, <3>2, <3>3
  <2>3. QED
    BY <2>1, <2>2 DEF Peels
<1>9. PICK h \in [0 .. n -> Comparisons] : Walks(n, c, step, h, iter[1 .. n])
  BY <1>2, <1>8, Walked
<1>10. Feeding(c, chunks) = iter[1 .. n]
  <2>1. Feeding(c, chunks) = iter[DOMAIN chunks]
    BY DEF Feeding, Compared!FoldLeft, Compared!MapThenFoldSet, Compared!Max, Last, iter, body
  <2>2. QED
    BY <1>1, <2>1
<1>11. \A k \in 0 .. n - 1 : h[k + 1] = Compared!Feed(h[k], chunks[k + 1])
  <2> SUFFICES ASSUME NEW k \in 0 .. n - 1 PROVE h[k + 1] = Compared!Feed(h[k], chunks[k + 1])
    OBVIOUS
  <2>1. k + 1 \in 1 .. n /\ k \in 0 .. n
    OBVIOUS
  <2>2. PICK v \in Comparisons : v = h[k]
    BY <2>1
  <2>3. h[k + 1] = step[<<k + 1, v>>]
    BY <1>9, <2>2 DEF Walks
  <2>4. QED
    BY <1>3, <2>1, <2>2, <2>3
<1>12. h[0] = c /\ h[n] = iter[1 .. n]
  BY <1>9 DEF Walks
<1>13. QED
  BY <1>10, <1>11, <1>12 DEF Feeds

\* What has arrived after each chunk.
Arrives(n, chunks, g) ==
  /\ g[0] = <<>> /\ Compared!FlattenSeq(chunks) = g[n]
  /\ \A k \in 0 .. n - 1 : g[k + 1] = g[k] \o chunks[k + 1]

LEMMA Arriving ==
  ASSUME NEW chunks \in Seq(Seq(Octets)), NEW n \in Nat, n = Len(chunks)
  PROVE  \E g \in [0 .. n -> Seq(Octets)] : Arrives(n, chunks, g)
<1>1. Compared!FlattenSeq(chunks) = Cores!FlattenSeq(chunks)
  BY DEF Compared!FlattenSeq, Cores!FlattenSeq
<1>2. CASE n = 0
  <2>1. chunks = <<>>
    <3>1. PICK E : E = Seq(Octets)
      OBVIOUS
    <3>2. chunks \in Seq(E)
      BY <3>1
    <3>3. QED
      BY <1>2, <3>2, EmptySeq
  <2>2. Compared!FlattenSeq(chunks) = <<>>
    BY <1>1, <2>1, NoneFlattened
  <2>3. PICK g : g = [i \in 0 .. n |-> <<>>]
    OBVIOUS
  <2>4. g \in [0 .. n -> Seq(Octets)] /\ g[0] = <<>> /\ g[n] = <<>>
    BY <1>2, <2>3
  <2>5. \A k \in 0 .. n - 1 : FALSE
    BY <1>2
  <2>6. Arrives(n, chunks, g)
    BY <2>2, <2>4, <2>5 DEF Arrives
  <2>7. QED
    BY <2>4, <2>6
<1>3. CASE n # 0
  <2>1. PICK m \in Nat \ {0} : m = n
    BY <1>3
  <2>2. chunks \in [1 .. m -> Seq(Octets)]
    BY <2>1
  <2>3. PICK f \in [1 .. m -> Seq(Octets)] : Joined(m, chunks, f) /\ Cores!FlattenSeq(chunks) = f[m]
    BY ONLY <2>2, Flattened
  <2>4. PICK g : g = [i \in 0 .. n |-> IF i = 0 THEN <<>> ELSE f[i]]
    OBVIOUS
  <2>5. \A i \in 0 .. n : i # 0 => i \in 1 .. m
    BY <2>1
  <2>6. g \in [0 .. n -> Seq(Octets)]
    BY <2>4, <2>5
  <2>7. g[0] = <<>> /\ g[n] = f[m] /\ \A i \in 1 .. n : g[i] = f[i]
    BY <1>3, <2>1, <2>4
  <2>8. ASSUME NEW k \in 0 .. n - 1 PROVE g[k + 1] = g[k] \o chunks[k + 1]
    <3>1. k + 1 \in 1 .. n /\ chunks[k + 1] \in Seq(Octets)
      BY <2>1, <2>2
    <3>2. CASE k = 0
      <4>1. g[k] = <<>> /\ g[k + 1] = f[1] /\ f[1] = chunks[1] /\ chunks[k + 1] = chunks[1]
        BY <2>3, <2>7, <3>1, <3>2 DEF Joined
      <4>2. <<>> \o chunks[k + 1] = chunks[k + 1]
        BY <3>1, ConcatEmptySeq
      <4>3. QED
        BY <4>1, <4>2
    <3>3. CASE k # 0
      <4>1. k \in 1 .. m - 1 /\ k \in 1 .. n
        BY <2>1, <3>3
      <4>2. f[k + 1] = f[k] \o chunks[k + 1]
        BY <2>3, <4>1 DEF Joined
      <4>3. QED
        BY <2>7, <3>1, <4>1, <4>2
    <3>4. QED
      BY <3>2, <3>3
  <2>9. Arrives(n, chunks, g)
    BY <1>1, <2>3, <2>7, <2>8 DEF Arrives
  <2>10. QED
    BY <2>6, <2>9
<1>4. QED
  BY <1>2, <1>3

\* However many of the chunks have come, more octets follow.
LEMMA MoreFollows ==
  ASSUME NEW chunks \in Seq(Seq(Octets)), NEW k \in 0 .. Len(chunks)
  PROVE  /\ SubSeq(chunks, 1, k) \in Seq(Seq(Octets))
         /\ Compared!FlattenSeq(SubSeq(chunks, 1, k)) \in Seq(Octets)
         /\ \E rest \in Seq(Octets) :
              Compared!FlattenSeq(chunks) = Compared!FlattenSeq(SubSeq(chunks, 1, k)) \o rest
<1>1. PICK n \in Nat : n = Len(chunks)
  OBVIOUS
<1>2. PICK m \in Nat : m = k /\ m <= n
  BY <1>1
<1>3. PICK part : part = SubSeq(chunks, 1, m)
  OBVIOUS
<1>4. part \in Seq(Seq(Octets)) /\ Len(part) = m /\ \A i \in 1 .. m : part[i] = chunks[i]
  <2>1. PICK E : E = Seq(Octets)
    OBVIOUS
  <2>2. chunks \in Seq(E)
    BY <2>1
  <2>3. CutsAt(E, chunks, m, n)
    BY <1>1, <1>2, <2>2, CutAt
  <2>4. QED
    BY <1>3, <2>1, <2>3 DEF CutsAt
<1>5. PICK g \in [0 .. n -> Seq(Octets)] : Arrives(n, chunks, g)
  BY <1>1, Arriving
<1>6. PICK f \in [0 .. m -> Seq(Octets)] : Arrives(m, part, f)
  BY <1>4, Arriving
<1>7. \A i \in 0 .. m : f[i] = g[i]
  <2> DEFINE S == {i \in 0 .. m : f[i] = g[i]}
  <2>1. 0 \in S
    BY <1>5, <1>6 DEF Arrives
  <2>2. ASSUME NEW i \in 0 .. m - 1, i \in S PROVE i + 1 \in S
    <3>1. i + 1 \in 1 .. m /\ i \in 0 .. n - 1
      BY <1>2
    <3>2. f[i + 1] = f[i] \o part[i + 1] /\ g[i + 1] = g[i] \o chunks[i + 1]
      BY <1>5, <1>6, <3>1 DEF Arrives
    <3>3. f[i] = g[i] /\ part[i + 1] = chunks[i + 1] /\ i + 1 \in 0 .. m
      <4>1. f[i] = g[i]
        BY ONLY <2>2
      <4>2. part[i + 1] = chunks[i + 1]
        BY ONLY <1>4, <3>1
      <4>3. i + 1 \in 0 .. m
        BY ONLY <3>1
      <4>4. QED
        BY ONLY <4>1, <4>2, <4>3
    <3>4. f[i + 1] = g[i + 1]
      BY <3>2, <3>3
    <3>5. QED
      BY <3>3, <3>4
  <2> HIDE DEF S
  <2>3. \A i \in 0 .. m : i \in S
    BY <2>1, <2>2, Along
  <2>4. QED
    BY <2>3 DEF S
<1>8. PICK l \in Nat : l = n - m /\ m + l = n
  BY <1>2
<1> DEFINE S == {i \in 0 .. l : \E rest \in Seq(Octets) : g[m + i] = g[m] \o rest}
<1>9. \A i \in 0 .. l : i \in S
  <2>1. 0 \in S
    <3>1. g[m] \in Seq(Octets) /\ m + 0 = m
      BY <1>2
    <3>2. g[m] = g[m] \o <<>> /\ <<>> \in Seq(Octets)
      BY <3>1, ConcatEmptySeq
    <3>3. g[m + 0] = g[m] \o <<>> /\ 0 \in 0 .. l
      BY <3>1, <3>2
    <3>4. \E rest \in Seq(Octets) : g[m + 0] = g[m] \o rest
      BY <3>2, <3>3
    <3>5. QED
      BY <3>3, <3>4
  <2>2. ASSUME NEW i \in 0 .. l - 1, i \in S PROVE i + 1 \in S
    <3>1. m + i \in 0 .. n - 1 /\ (m + i) + 1 = m + (i + 1) /\ i + 1 \in 0 .. l
          /\ m + i + 1 \in 1 .. n
      BY <1>8
    <3>2. PICK rest \in Seq(Octets) : g[m + i] = g[m] \o rest
      BY <2>2
    <3>3. PICK p \in Seq(Octets) : p = g[m]
      BY <1>2
    <3>4. PICK chunk \in Seq(Octets) : chunk = chunks[(m + i) + 1]
      BY <1>1, <3>1
    <3>5. g[m + (i + 1)] = (p \o rest) \o chunk
      BY <1>5, <3>1, <3>2, <3>3, <3>4 DEF Arrives
    <3>6. (p \o rest) \o chunk = p \o (rest \o chunk)
      <4>1. Associate(p, rest, chunk)
        BY OctetsFollow
      <4>2. QED
        BY ONLY <4>1 DEF Associate
    <3>7. rest \o chunk \in Seq(Octets)
      BY ConcatProperties
    <3>8. QED
      BY <3>1, <3>3, <3>5, <3>6, <3>7
  <2> HIDE DEF S
  <2>3. QED
    BY <2>1, <2>2, Along
<1>10. PICK rest \in Seq(Octets) : g[n] = g[m] \o rest
  <2>1. l \in 0 .. l
    OBVIOUS
  <2>2. l \in S
    BY <1>9, <2>1
  <2>3. QED
    BY <1>8, <2>2
<1>11. Compared!FlattenSeq(chunks) = g[n] /\ Compared!FlattenSeq(part) = g[m]
  BY <1>5, <1>6, <1>7 DEF Arrives
<1>12. g[m] \in Seq(Octets)
  BY <1>2
<1>13. QED
  BY <1>2, <1>3, <1>4, <1>10, <1>11, <1>12

LEMMA Beginning ==
  ASSUME NEW expected \in Seq(Octets), NEW ours \in Seq(Words), ours = Compared!Tokens(expected)
  PROVE  Compared!Against(expected) \in Comparisons /\ Follows(Compared!Against(expected), ours, <<>>)
<1>1. <<>> \in Seq(Octets) /\ <<>> \in Seq(Words) /\ Ends(<<>>) /\ Len(<<>>) = 0
  BY DEF Ends
<1>2. PICK none \in Seq(Octets) : none = <<>> /\ Len(none) = 0
  BY <1>1
<1>3. Compared!Tokens(none) = <<>>
  <2>1. PICK n \in Nat : n = 0 /\ n = Len(none)
    BY <1>2
  <2>2. PICK h \in [0 .. n -> Splits] :
          Splitting(n, Compared!Decoded(none), h) /\ Compared!Tokens(none) = Closed(h[n])
    BY <2>1, TokensAreRead
  <2>3. h[n] = Nothing
    BY <2>1, <2>2 DEF Splitting
  <2>4. QED
    BY <2>2, <2>3 DEF Closed, Nothing
<1>4. PICK c : c = [ours |-> ours, holding |-> <<>>, index |-> 0, decided |-> 0]
  OBVIOUS
<1>5. c = Compared!Against(expected)
  BY <1>4 DEF Compared!Against, Compared!Undecided
<1>6. c \in Comparisons
  BY <1>1, <1>4 DEF Comparisons
<1>7. c.ours = ours /\ c.holding = none /\ c.index = 0 /\ c.decided = 0
  BY <1>2, <1>4
<1>8. Agree(ours, <<>>, 0)
  <2>1. \A i \in 1 .. 0 : FALSE
    OBVIOUS
  <2>2. QED
    BY <2>1 DEF Agree
<1>9. Kept(c, ours, Compared!Tokens(none))
  BY <1>1, <1>3, <1>7, <1>8 DEF Kept
<1>10. none \o none = none
  BY <1>2, ConcatEmptySeq
<1>11. Follows(c, ours, none)
  BY <1>1, <1>2, <1>7, <1>9, <1>10 DEF Follows
<1>12. QED
  BY <1>2, <1>5, <1>6, <1>11

LEMMA AllFollowed ==
  ASSUME NEW expected \in Seq(Octets), NEW chunks \in Seq(Seq(Octets))
  PROVE  /\ Feeding(Compared!Against(expected), chunks) \in Comparisons
         /\ Follows(Feeding(Compared!Against(expected), chunks), Compared!Tokens(expected),
                    Compared!FlattenSeq(chunks))
<1>1. PICK n \in Nat : n = Len(chunks)
  OBVIOUS
<1>2. PICK ours \in Seq(Words) : ours = Compared!Tokens(expected)
  BY TokensAre
<1>3. PICK c \in Comparisons : c = Compared!Against(expected) /\ Follows(c, ours, <<>>)
  BY <1>2, Beginning
<1>4. PICK h \in [0 .. n -> Comparisons] : Feeds(n, c, chunks, h)
  BY <1>1, FeedingWalks
<1>5. PICK g \in [0 .. n -> Seq(Octets)] : Arrives(n, chunks, g)
  BY <1>1, Arriving
<1> DEFINE S == {k \in 0 .. n : Follows(h[k], ours, g[k])}
<1>6. \A k \in 0 .. n : k \in S
  <2>1. 0 \in S
    BY <1>3, <1>4, <1>5 DEF Feeds, Arrives
  <2>2. ASSUME NEW k \in 0 .. n - 1, k \in S PROVE k + 1 \in S
    <3>1. k \in 0 .. n /\ k + 1 \in 0 .. n /\ k + 1 \in 1 .. n
      OBVIOUS
    <3>2. PICK v \in Comparisons, bytes \in Seq(Octets), chunk \in Seq(Octets) :
            v = h[k] /\ bytes = g[k] /\ chunk = chunks[k + 1]
      <4>1. h[k] \in Comparisons
        BY ONLY <1>4, <3>1
      <4>2. g[k] \in Seq(Octets)
        BY ONLY <1>5, <3>1
      <4>3. chunks[k + 1] \in Seq(Octets)
        <5>1. k + 1 \in DOMAIN chunks
          BY <1>1, <3>1
        <5>2. \A i \in DOMAIN chunks : chunks[i] \in Seq(Octets)
          OBVIOUS
        <5>3. QED
          BY ONLY <5>1, <5>2
      <4>4. QED
        BY ONLY <4>1, <4>2, <4>3
    <3>3. h[k + 1] = Compared!Feed(v, chunk) /\ g[k + 1] = bytes \o chunk
      BY <1>4, <1>5, <3>2 DEF Feeds, Arrives
    <3>4. Follows(v, ours, bytes)
      BY <2>2, <3>2
    <3>5. Follows(Compared!Feed(v, chunk), ours, bytes \o chunk)
      BY <3>4, Followed
    <3>6. QED
      BY <3>1, <3>3, <3>5
  <2> HIDE DEF S
  <2>3. QED
    BY <2>1, <2>2, Along
<1>7. n \in S
  BY <1>6
<1>8. Feeding(c, chunks) = h[n] /\ Compared!FlattenSeq(chunks) = g[n]
  BY <1>4, <1>5 DEF Feeds, Arrives
<1>9. QED
  BY <1>2, <1>3, <1>7, <1>8

LEMMA EveryChunkingAgrees ==
  ASSUME NEW expected \in Seq(Octets), NEW chunks \in Seq(Seq(Octets))
  PROVE  Compared!AsWhole(expected, chunks)
<1>1. PICK start \in Comparisons :
        /\ start = Compared!Against(expected)
        /\ Follows(start, Compared!Tokens(expected), <<>>)
  BY TokensAre, Beginning
<1>2. PICK whole \in Seq(Octets) : whole = Compared!FlattenSeq(chunks)
  <2>1. PICK n \in Nat : n = Len(chunks)
    OBVIOUS
  <2>2. PICK g \in [0 .. n -> Seq(Octets)] : Arrives(n, chunks, g)
    BY <2>1, Arriving
  <2>3. g[n] \in Seq(Octets)
    OBVIOUS
  <2>4. QED
    BY <2>2, <2>3 DEF Arrives
<1>3. PICK answer : answer = Compared!Meaning(expected, whole)
  OBVIOUS
<1>4. Compared!Finish(Feeding(start, SubSeq(chunks, 1, Len(chunks)))) = answer
  <2>1. SubSeq(chunks, 1, Len(chunks)) = chunks
    <3>1. PICK E : E = Seq(Octets)
      OBVIOUS
    <3>2. chunks \in Seq(E)
      BY <3>1
    <3>3. QED
      BY <3>2, SubSeqFull
  <2>2. PICK c \in Comparisons :
          c = Feeding(start, chunks) /\ Follows(c, Compared!Tokens(expected), whole)
    BY <1>1, <1>2, AllFollowed
  <2>3. Compared!Finish(c) = answer
    BY <1>3, <2>2, AnswersRight
  <2>4. QED
    BY <2>1, <2>2, <2>3
<1>5. Compared!Compare(expected, whole) = answer
  <2>1. PICK c \in Comparisons :
          c = Compared!Feed(start, whole) /\ Follows(c, Compared!Tokens(expected), whole)
    <3>1. <<>> \in Seq(Octets) /\ <<>> \o whole = whole
      BY ConcatEmptySeq
    <3>2. PICK ours \in Seq(Words) : ours = Compared!Tokens(expected)
      BY TokensAre
    <3>3. /\ Compared!Feed(start, whole) \in Comparisons
          /\ Follows(Compared!Feed(start, whole), ours, <<>> \o whole)
      BY <1>1, <3>1, <3>2, Followed
    <3>4. QED
      BY <3>1, <3>2, <3>3
  <2>2. Compared!Finish(c) = answer
    BY <1>3, <2>1, AnswersRight
  <2>3. QED
    BY <1>1, <2>1, <2>2 DEF Compared!Compare
<1>6. ASSUME NEW k \in 0 .. Len(chunks)
      PROVE  Feeding(start, SubSeq(chunks, 1, k)).decided \in {0, answer}
  <2>1. PICK part \in Seq(Seq(Octets)) : part = SubSeq(chunks, 1, k)
    BY MoreFollows
  <2>2. PICK so, rest \in Seq(Octets) :
          so = Compared!FlattenSeq(part) /\ whole = so \o rest
    BY <1>2, <2>1, MoreFollows
  <2>3. PICK c \in Comparisons :
          c = Feeding(start, part) /\ Follows(c, Compared!Tokens(expected), so)
    BY <1>1, <2>2, AllFollowed
  <2>4. c.decided # 0 => Compared!Meaning(expected, so \o rest) = c.decided
    BY <2>3, AnswersRight
  <2>5. QED
    BY <1>3, <2>1, <2>2, <2>3, <2>4
<1>7. QED
  BY <1>1, <1>2, <1>3, <1>4, <1>5, <1>6 DEF Compared!AsWhole, Feeding, Compared!Undecided

\* However an output is cut into chunks, also in the middle of a character, the
\* comparison says of every reference what comparing both as a whole says, and
\* what it has settled before the end stays; which holds of the cases of the run
\* (compare.rs, Comparing::feed and Comparing::finish).
THEOREM ComparesAsWhole ==
  /\ \A expected \in Seq(Octets) : \A chunks \in Seq(Seq(Octets)) :
       Compared!AsWhole(expected, chunks)
  /\ RulesSpec => []ComparedAsWhole
<1>1. \A expected \in Seq(Octets) : \A chunks \in Seq(Seq(Octets)) :
        Compared!AsWhole(expected, chunks)
  BY EveryChunkingAgrees
<1>2. CaseChosen => ComparedAsWhole
  <2>1. SUFFICES ASSUME case \in References \X Chunked
        PROVE Compared!AsWhole(case[1], case[2])
    BY DEF CaseChosen, ComparedAsWhole
  <2>2. case[1] \in References /\ case[2] \in Chunked
    BY <2>1
  <2>3. case[1] \in Seq(Octets)
    <3>1. "a" \in Octets /\ "space" \in Octets /\ "lost" \in Octets
      BY DEF Octets
    <3>2. /\ <<>> \in Seq(Octets) /\ <<"a">> \in Seq(Octets) /\ <<"a", "a">> \in Seq(Octets)
          /\ <<"a", "space", "a">> \in Seq(Octets) /\ <<"lost">> \in Seq(Octets)
      BY <3>1
    <3>3. QED
      BY <2>2, <3>2 DEF References
  <2>4. case[2] \in Seq(Seq(Octets))
    <3>1. PICK k \in 0 .. 3 : case[2] \in [1 .. k -> SeqUpTo(Compared!Bytes, 2)]
      BY <2>2 DEF Chunked, SeqUpTo
    <3>2. SeqUpTo(Compared!Bytes, 2) \subseteq Seq(Octets)
      <4>1. Compared!Bytes \subseteq Octets
        BY BytesAre
      <4>2. ASSUME NEW chunk \in SeqUpTo(Compared!Bytes, 2) PROVE chunk \in Seq(Octets)
        <5>1. PICK n \in 0 .. 2 : chunk \in [1 .. n -> Compared!Bytes]
          BY DEF SeqUpTo
        <5>2. chunk \in [1 .. n -> Octets]
          BY <4>1, <5>1
        <5>3. QED
          BY <5>2
      <4>3. QED
        BY <4>2
    <3>3. case[2] \in [1 .. k -> Seq(Octets)]
      BY <3>1, <3>2
    <3>4. QED
      BY <3>3
  <2>5. QED
    BY <1>1, <2>3, <2>4
<1>3. RulesSpec => []ComparedAsWhole
  BY <1>2, CasesChosen, PTL
<1>4. QED
  BY <1>1, <1>3

-----------------------------------------------------------------------------
(* Stripping.                                                              *)

LEMMA GlyphsAre ==
  /\ Scanned!Newline = "n" /\ Scanned!Blank = "blank"
  /\ Scanned!Backslash = "b" /\ Scanned!Slash = "slash" /\ Scanned!Star = "star"
  /\ Scanned!Hash = "hash" /\ Scanned!Quotes = {"q", "a"}
  /\ Scanned!Thrice["q"] = "qqq" /\ Scanned!Thrice["a"] = "aaa"
  BY DEF Scanned!Newline, Scanned!Blank, Scanned!Quotes, Scanned!Backslash, Scanned!Slash,
     Scanned!Star, Scanned!Hash, Scanned!Thrice

\* The literals, by what closes them, and the quote a triple is of.
Triples == {"qqq", "aaa"}
QuoteOf(triple) == IF triple = "qqq" THEN "q" ELSE "a"
Thrice(source, i, quote) ==
  /\ Scanned!At(source, i, quote) /\ Scanned!At(source, i + 1, quote)
  /\ Scanned!At(source, i + 2, quote)

LEMMA AtIs ==
  ASSUME NEW chars, NEW source \in Seq(chars), NEW n \in Nat, n = Len(source)
  PROVE  /\ \A j, c : Scanned!At(source, j, c) <=> j \in 1 .. n /\ source[j] = c
         /\ \A j \in Int : \A c : Scanned!Triple(source, j, c) <=> Thrice(source, j, c)
<1>1. \A j, c : Scanned!At(source, j, c) <=> j \in 1 .. n /\ source[j] = c
  BY DEF Scanned!At
<1>2. ASSUME NEW j \in Int, NEW c
      PROVE Scanned!Triple(source, j, c) <=> Thrice(source, j, c)
  <2>1. j + 0 = j /\ 0 .. 2 = {0, 1, 2}
    OBVIOUS
  <2>2. QED
    BY <2>1 DEF Scanned!Triple, Thrice
<1>3. QED
  BY <1>1, <1>2

\* Where a comment or a literal begins; and what is neither of one nor the end of one.
Begins(python, source, i) ==
  \/ Scanned!StartsLineComment(python, source, i)
  \/ Scanned!StartsBlockComment(python, source, i)
  \/ Scanned!At(source, i, "q") \/ Scanned!At(source, i, "a")
Keeps(python, source, in, skip, i) ==
  /\ skip = 0
  /\ \/ in = "code" /\ ~Begins(python, source, i)
     \/ in = "line" /\ Scanned!At(source, i, "n")

\* What the scan is in after a character, and how many more it skips.
InAfter(python, source, in, i) ==
  IF in = "code"
  THEN IF Scanned!StartsLineComment(python, source, i) THEN "line"
       ELSE IF Scanned!StartsBlockComment(python, source, i) THEN "block"
       ELSE IF python /\ Thrice(source, i, "q") THEN "qqq"
       ELSE IF python /\ Thrice(source, i, "a") THEN "aaa"
       ELSE IF Scanned!At(source, i, "q") THEN "q"
       ELSE IF Scanned!At(source, i, "a") THEN "a" ELSE "code"
  ELSE IF in = "line" THEN IF Scanned!At(source, i, "n") THEN "code" ELSE "line"
  ELSE IF in = "block" THEN IF Scanned!EndsBlockComment(source, i) THEN "code" ELSE "block"
  ELSE IF Scanned!At(source, i, "b") THEN in
  ELSE IF in \in Triples THEN IF Thrice(source, i, QuoteOf(in)) THEN "code" ELSE in
  ELSE IF Scanned!At(source, i, in) THEN "code" ELSE in
SkipAfter(python, source, in, i) ==
  IF in = "code"
  THEN IF Scanned!StartsLineComment(python, source, i) THEN 0
       ELSE IF Scanned!StartsBlockComment(python, source, i) THEN 0
       ELSE IF python /\ (Thrice(source, i, "q") \/ Thrice(source, i, "a")) THEN 2 ELSE 0
  ELSE IF in = "line" THEN 0
  ELSE IF in = "block" THEN IF Scanned!EndsBlockComment(source, i) THEN 1 ELSE 0
  ELSE IF Scanned!At(source, i, "b") THEN 1
  ELSE IF in \in Triples /\ Thrice(source, i, QuoteOf(in)) THEN 2 ELSE 0

Modes == {"code", "line", "block", "q", "a", "qqq", "aaa"}
ScansOf(chars) == [in : Modes, skip : 0 .. 2, out : Seq(chars)]

\* What one character does to a scan.
Stepped(python, source, s, i, r) ==
  /\ r.out = Append(s.out, IF Keeps(python, source, s.in, s.skip, i) THEN source[i]
                           ELSE Scanned!Blanked(source[i]))
  /\ r.in = IF s.skip > 0 THEN s.in ELSE InAfter(python, source, s.in, i)
  /\ r.skip = IF s.skip > 0 THEN s.skip - 1 ELSE SkipAfter(python, source, s.in, i)

LEMMA StepIs ==
  ASSUME NEW python \in BOOLEAN, NEW chars, "blank" \in chars, NEW source \in Seq(chars),
         NEW s \in ScansOf(chars), NEW i \in 1 .. Len(source)
  PROVE  /\ Scanned!Step(python, source, s, i) \in ScansOf(chars)
         /\ Stepped(python, source, s, i, Scanned!Step(python, source, s, i))
<1>1. /\ s.in \in Modes /\ s.skip \in 0 .. 2 /\ s.out \in Seq(chars)
      /\ s = [in |-> s.in, skip |-> s.skip, out |-> s.out]
  BY DEF ScansOf
<1>2. source[i] \in chars
  OBVIOUS
<1>3. PICK hid \in chars : hid = Scanned!Blanked(source[i])
  BY <1>2, GlyphsAre DEF Scanned!Blanked
<1> DEFINE keep == [s EXCEPT !.out = Append(@, source[i])]
           turned == [keep EXCEPT !.in = "code"]
           blank(in, skip) ==
             [in |-> in, skip |-> skip, out |-> Append(s.out, Scanned!Blanked(source[i]))]
<1>4. Scanned!Step(python, source, s, i) =
        IF s.skip > 0 THEN blank(s.in, s.skip - 1)
        ELSE CASE s.in = "code" ->
               IF Scanned!StartsLineComment(python, source, i) THEN blank("line", 0)
               ELSE IF Scanned!StartsBlockComment(python, source, i) THEN blank("block", 0)
               ELSE IF Scanned!StartsTriple(python, source, i)
               THEN blank(Scanned!Thrice[source[i]], 2)
               ELSE IF source[i] \in Scanned!Quotes THEN blank(source[i], 0)
               ELSE keep
          [] s.in = "line" ->
               IF Scanned!At(source, i, Scanned!Newline) THEN turned ELSE blank("line", 0)
          [] s.in = "block" ->
               IF Scanned!EndsBlockComment(source, i) THEN blank("code", 1) ELSE blank("block", 0)
          [] s.in \in Scanned!Modes \ {"code", "line", "block"} ->
               IF Scanned!At(source, i, Scanned!Backslash) THEN blank(s.in, 1)
               ELSE IF Scanned!ClosesTriple(source, s.in, i) THEN blank("code", 2)
               ELSE IF Scanned!Closes(source, s.in, i) THEN blank("code", 0)
               ELSE blank(s.in, 0)
  BY DEF Scanned!Step
<1>quotes. /\ \A c : Scanned!At(source, i, c) <=> source[i] = c
           /\ source[i] \in Scanned!Quotes
                <=> Scanned!At(source, i, "q") \/ Scanned!At(source, i, "a")
           /\ Scanned!StartsTriple(python, source, i)
                <=> python /\ (Thrice(source, i, "q") \/ Thrice(source, i, "a"))
           /\ \A c : Scanned!Triple(source, i, c) <=> Thrice(source, i, c)
  <2>1. /\ \A c : Scanned!At(source, i, c) <=> source[i] = c
        /\ \A c : Scanned!Triple(source, i, c) <=> Thrice(source, i, c)
    <3>1. Len(source) \in Nat /\ i \in Int
      OBVIOUS
    <3>2. QED
      BY <3>1, AtIs
  <2>2. QED
    BY <2>1, GlyphsAre DEF Scanned!StartsTriple, Thrice
<1>5. PICK longer \in Seq(chars) : longer = Append(s.out, source[i])
  <2>1. Append(s.out, source[i]) \in Seq(chars)
    BY <1>1, <1>2
  <2>2. QED
    BY <2>1
<1>6. keep = [in |-> s.in, skip |-> s.skip, out |-> longer]
  <2>1. PICK k : k = [s EXCEPT !.out = longer]
    OBVIOUS
  <2>2. k = [in |-> s.in, skip |-> s.skip, out |-> longer]
    BY <1>1, <2>1
  <2>3. keep = k
    BY ONLY <1>5, <2>1, Zenon
  <2>4. QED
    BY <2>2, <2>3
<1>7. turned = [in |-> "code", skip |-> s.skip, out |-> longer]
  <2>1. PICK k : k = keep
    OBVIOUS
  <2>2. k = [in |-> s.in, skip |-> s.skip, out |-> longer]
    BY <1>6, <2>1
  <2>3. PICK t : t = [k EXCEPT !.in = "code"]
    OBVIOUS
  <2>4. t = [in |-> "code", skip |-> s.skip, out |-> longer]
    BY <2>2, <2>3
  <2>5. turned = t
    BY ONLY <2>1, <2>3, Zenon
  <2>6. QED
    BY <2>4, <2>5
<1>8. PICK dark \in Seq(chars) : dark = Append(s.out, hid)
  <2>1. Append(s.out, hid) \in Seq(chars)
    BY <1>1
  <2>2. QED
    BY <2>1
<1>9. \A in, skip : blank(in, skip) = [in |-> in, skip |-> skip, out |-> dark]
  BY <1>3, <1>8
<1> HIDE DEF keep, turned, blank
<1>10. PICK r : r = Scanned!Step(python, source, s, i)
  OBVIOUS
<1>11. CASE s.skip > 0
  <2>1. r = blank(s.in, s.skip - 1)
    BY <1>4, <1>10, <1>11
  <2>2. r = [in |-> s.in, skip |-> s.skip - 1, out |-> dark]
    BY <1>9, <2>1
  <2>3. r \in ScansOf(chars) /\ r.in = s.in /\ r.skip = s.skip - 1 /\ r.out = dark
    BY <1>1, <1>11, <2>2 DEF ScansOf
  <2>4. ~Keeps(python, source, s.in, s.skip, i)
    BY <1>1, <1>11 DEF Keeps
  <2>5. QED
    BY <1>3, <1>8, <1>10, <1>11, <2>3, <2>4 DEF Stepped
<1>12. CASE s.skip = 0 /\ Keeps(python, source, s.in, s.skip, i)
  <2>1. CASE s.in = "code"
    <3>1. /\ ~Scanned!StartsLineComment(python, source, i)
          /\ ~Scanned!StartsBlockComment(python, source, i)
          /\ ~Scanned!At(source, i, "q") /\ ~Scanned!At(source, i, "a")
          /\ ~Thrice(source, i, "q") /\ ~Thrice(source, i, "a")
      BY <1>12, <2>1 DEF Keeps, Begins, Thrice
    <3>2. r = keep
      <4>1. source[i] \notin Scanned!Quotes /\ ~Scanned!StartsTriple(python, source, i)
        BY <1>quotes, <3>1
      <4>2. QED
        BY <1>4, <1>10, <1>12, <2>1, <3>1, <4>1
    <3>3. r \in ScansOf(chars) /\ r.in = "code" /\ r.skip = 0 /\ r.out = longer
      BY <1>1, <1>6, <1>12, <2>1, <3>2 DEF ScansOf
    <3>4. QED
      BY <1>5, <1>10, <1>12, <2>1, <3>1, <3>3 DEF Stepped, InAfter, SkipAfter
  <2>2. CASE s.in = "line"
    <3>1. Scanned!At(source, i, "n")
      BY <1>12, <2>2 DEF Keeps
    <3>2. r = turned
      BY <1>4, <1>10, <1>12, <2>2, <3>1, GlyphsAre
    <3>3. r \in ScansOf(chars) /\ r.in = "code" /\ r.skip = 0 /\ r.out = longer
      BY <1>1, <1>7, <1>12, <3>2 DEF ScansOf, Modes
    <3>4. QED
      BY <1>5, <1>10, <1>12, <2>2, <3>1, <3>3 DEF Stepped, InAfter, SkipAfter
  <2>3. QED
    BY <1>12, <2>1, <2>2 DEF Keeps
<1>13. CASE s.skip = 0 /\ ~Keeps(python, source, s.in, s.skip, i)
  <2>1. r = blank(InAfter(python, source, s.in, i), SkipAfter(python, source, s.in, i))
    <3>1. CASE s.in = "code"
      <4>1. Begins(python, source, i)
        BY <1>13, <3>1 DEF Keeps
      <4>2. CASE Scanned!StartsLineComment(python, source, i)
                 \/ Scanned!StartsBlockComment(python, source, i)
        BY <1>4, <1>10, <1>13, <3>1, <4>2 DEF InAfter, SkipAfter
      <4>3. CASE /\ ~Scanned!StartsLineComment(python, source, i)
                 /\ ~Scanned!StartsBlockComment(python, source, i)
                 /\ Scanned!StartsTriple(python, source, i)
        <5>1. r = blank(Scanned!Thrice[source[i]], 2)
          BY <1>4, <1>10, <1>13, <3>1, <4>3
        <5>2. python /\ (Thrice(source, i, "q") \/ Thrice(source, i, "a"))
          BY <1>quotes, <4>3
        <5>3. Thrice(source, i, "q") => source[i] = "q"
          BY <1>quotes DEF Thrice
        <5>4. Thrice(source, i, "a") => source[i] = "a"
          BY <1>quotes DEF Thrice
        <5>5. QED
          BY <3>1, <4>3, <5>1, <5>2, <5>3, <5>4, GlyphsAre DEF InAfter, SkipAfter
      <4>4. CASE /\ ~Scanned!StartsLineComment(python, source, i)
                 /\ ~Scanned!StartsBlockComment(python, source, i)
                 /\ ~Scanned!StartsTriple(python, source, i)
        <5>1. source[i] \in Scanned!Quotes
          BY <1>quotes, <4>1, <4>4 DEF Begins
        <5>2. r = blank(source[i], 0)
          BY <1>4, <1>10, <1>13, <3>1, <4>4, <5>1
        <5>3. ~(python /\ (Thrice(source, i, "q") \/ Thrice(source, i, "a")))
          BY <1>quotes, <4>4
        <5>4. source[i] = "q" \/ source[i] = "a"
          BY <5>1, GlyphsAre
        <5>5. QED
          BY <1>quotes, <3>1, <4>4, <5>2, <5>3, <5>4 DEF InAfter, SkipAfter
      <4>5. QED
        BY <4>2, <4>3, <4>4
    <3>2. CASE s.in = "line" \/ s.in = "block"
      BY <1>4, <1>10, <1>13, <3>2, GlyphsAre DEF Keeps, InAfter, SkipAfter
    <3>3. CASE s.in \in {"q", "a", "qqq", "aaa"}
      <4>1. r = IF Scanned!At(source, i, "b") THEN blank(s.in, 1)
                ELSE IF Scanned!ClosesTriple(source, s.in, i) THEN blank("code", 2)
                ELSE IF Scanned!Closes(source, s.in, i) THEN blank("code", 0)
                ELSE blank(s.in, 0)
        <5>1. s.in \in Scanned!Modes \ {"code", "line", "block"}
          BY <3>3 DEF Scanned!Modes
        <5>2. s.in \notin {"code", "line", "block"}
          BY <3>3
        <5>3. QED
          BY <1>4, <1>10, <1>13, <5>1, <5>2, GlyphsAre
      <4>2. Scanned!Closes(source, s.in, i) <=> s.in \in {"q", "a"} /\ Scanned!At(source, i, s.in)
        BY <1>quotes, GlyphsAre DEF Scanned!Closes
      <4>3. Scanned!ClosesTriple(source, s.in, i)
              <=> s.in \in Triples /\ Thrice(source, i, QuoteOf(s.in))
        BY <1>quotes, <3>3, GlyphsAre DEF Scanned!ClosesTriple, Triples, QuoteOf
      <4>4. s.in \notin {"code", "line", "block"} /\ (s.in \in Triples <=> s.in \notin {"q", "a"})
        BY <3>3 DEF Triples
      <4>5. QED
        BY <4>1, <4>2, <4>3, <4>4 DEF InAfter, SkipAfter
    <3>4. QED
      BY <1>1, <3>1, <3>2, <3>3 DEF Modes
  <2>2. r = [in |-> InAfter(python, source, s.in, i), skip |-> SkipAfter(python, source, s.in, i),
             out |-> dark]
    BY <1>9, <2>1
  <2>3. InAfter(python, source, s.in, i) \in Modes /\ SkipAfter(python, source, s.in, i) \in 0 .. 2
    BY <1>1 DEF InAfter, SkipAfter, Modes, Triples
  <2>4. /\ r \in ScansOf(chars) /\ r.out = dark
        /\ r.in = InAfter(python, source, s.in, i) /\ r.skip = SkipAfter(python, source, s.in, i)
    BY <2>2, <2>3 DEF ScansOf
  <2>5. QED
    BY <1>3, <1>8, <1>10, <1>13, <2>4 DEF Stepped
<1>14. QED
  BY <1>1, <1>11, <1>12, <1>13

\* The scans on the way through a source.
Rest == [in |-> "code", skip |-> 0, out |-> <<>>]
Scans(python, source, n, h) ==
  /\ h[0] = Rest /\ Scanned!Strip(python, source) = h[n].out
  /\ \A k \in 0 .. n - 1 : Stepped(python, source, h[k], k + 1, h[k + 1])

LEMMA StrippingWalks ==
  ASSUME NEW python \in BOOLEAN, NEW chars, "blank" \in chars, NEW source \in Seq(chars),
         NEW n \in Nat, n = Len(source)
  PROVE  \E h \in [0 .. n -> ScansOf(chars)] : Scans(python, source, n, h)
<1> DEFINE V == ScansOf(chars)
           step == [t \in (1 .. n) \X V |-> Scanned!Step(python, source, t[2], t[1])]
           body(g) == [T \in SUBSET (DOMAIN [i \in DOMAIN source |-> i]) |->
                         IF T = {} THEN Rest
                         ELSE LET x == Last(T)
                              IN Scanned!Step(python, source, g[T \ {x}],
                                              [i \in DOMAIN source |-> i][x])]
           iter == CHOOSE g : g = body(g)
<1>1. /\ DOMAIN source = 1 .. n /\ DOMAIN [i \in DOMAIN source |-> i] = 1 .. n
      /\ \A x \in 1 .. n : [i \in DOMAIN source |-> i][x] = x
  OBVIOUS
<1>2. Rest \in V
  BY DEF Rest, ScansOf, Modes
<1>3. step \in [(1 .. n) \X V -> V]
  <2>1. \A t \in (1 .. n) \X V : Scanned!Step(python, source, t[2], t[1]) \in V
    BY StepIs
  <2>2. QED
    BY <2>1
<1>4. \A t \in (1 .. n) \X V : step[t] = Scanned!Step(python, source, t[2], t[1])
  OBVIOUS
<1> HIDE DEF V, step, body, iter
<1>5. PICK base \in V : base = Rest
  BY <1>2
<1>6. PICK g \in [SUBSET (1 .. n) -> V] : Peels(n, V, base, step, g)
  BY <1>3, Walk
<1>7. \A T \in (SUBSET (1 .. n)) \ {{}} : Last(T) \in T
  BY LastIs
<1>8. g = body(g)
  <2>1. \A T \in (SUBSET (1 .. n)) \ {{}} :
          g[T] = Scanned!Step(python, source, g[T \ {Last(T)}], [i \in DOMAIN source |-> i][Last(T)])
    <3>1. ASSUME NEW T \in (SUBSET (1 .. n)) \ {{}}
          PROVE  g[T] = Scanned!Step(python, source, g[T \ {Last(T)}],
                                     [i \in DOMAIN source |-> i][Last(T)])
      <4>1. PICK x \in 1 .. n : x = Last(T) /\ [i \in DOMAIN source |-> i][x] = x
        BY <1>1, <1>7
      <4>2. PICK v \in V : v = g[T \ {x}]
        OBVIOUS
      <4>3. g[T] = step[<<x, v>>]
        BY <1>6, <4>1, <4>2 DEF Peels
      <4>4. step[<<x, v>>] = Scanned!Step(python, source, v, x)
        BY <1>4
      <4>5. QED
        BY <4>1, <4>2, <4>3, <4>4
    <3>2. QED
      BY <3>1
  <2>2. g = [T \in SUBSET (1 .. n) |-> g[T]] /\ g[{}] = Rest
    BY <1>5, <1>6 DEF Peels
  <2>3. QED
    BY <1>1, <2>1, <2>2 DEF body
<1>9. iter = body(iter)
  BY <1>8 DEF iter
<1>10. Peels(n, V, base, step, iter)
  <2>1. iter[{}] = base
    BY <1>5, <1>9 DEF body
  <2>2. ASSUME NEW T \in (SUBSET (1 .. n)) \ {{}}, iter[T \ {Last(T)}] \in V
        PROVE  iter[T] = step[<<Last(T), iter[T \ {Last(T)}]>>]
    <3>1. iter[T] = Scanned!Step(python, source, iter[T \ {Last(T)}],
                                 [i \in DOMAIN source |-> i][Last(T)])
      BY <1>1, <1>9 DEF body
    <3>2. PICK x \in 1 .. n : x = Last(T) /\ [i \in DOMAIN source |-> i][x] = x
      BY <1>1, <1>7
    <3>3. PICK v \in V : v = iter[T \ {x}]
      BY <2>2, <3>2
    <3>4. step[<<x, v>>] = Scanned!Step(python, source, v, x)
      BY <1>4
    <3>5. QED
      BY <3>1, <3>2, <3>3, <3>4
  <2>3. QED
    BY <2>1, <2>2 DEF Peels
<1>11. PICK h \in [0 .. n -> V] : Walks(n, base, step, h, iter[1 .. n])
  BY <1>3, <1>10, Walked
<1>12. Scanned!Strip(python, source) = iter[1 .. n].out
  <2>1. Scanned!Strip(python, source) = iter[DOMAIN [i \in DOMAIN source |-> i]].out
    BY DEF Scanned!Strip, Scanned!FoldLeft, Scanned!MapThenFoldSet, Scanned!Max, Last, iter, body, Rest
  <2>2. QED
    BY <1>1, <2>1
<1>13. ASSUME NEW k \in 0 .. n - 1 PROVE Stepped(python, source, h[k], k + 1, h[k + 1])
  <2>1. k + 1 \in 1 .. n /\ k \in 0 .. n /\ k + 1 \in 1 .. Len(source)
    OBVIOUS
  <2>2. PICK v \in V : v = h[k]
    BY <2>1
  <2>3. h[k + 1] = step[<<k + 1, v>>]
    BY <1>11, <2>2 DEF Walks
  <2>4. step[<<k + 1, v>>] = Scanned!Step(python, source, v, k + 1)
    BY <1>4, <2>1
  <2>5. Stepped(python, source, v, k + 1, Scanned!Step(python, source, v, k + 1))
    BY <2>1, StepIs DEF V
  <2>6. QED
    BY <2>2, <2>3, <2>4, <2>5
<1>14. h[0] = Rest /\ h[n] = iter[1 .. n]
  BY <1>5, <1>11 DEF Walks
<1>15. QED
  BY <1>12, <1>13, <1>14 DEF Scans, V

\* What is kept is shown where it was, and the rest is blank.
Bare(python, source, n, h, text) ==
  /\ Len(text) = n
  /\ \A i \in 1 .. n :
       text[i] = IF Keeps(python, source, h[i - 1].in, h[i - 1].skip, i) THEN source[i]
                 ELSE Scanned!Blanked(source[i])

LEMMA ShownIs ==
  ASSUME NEW python \in BOOLEAN, NEW chars, NEW source \in Seq(chars),
         NEW n \in Nat, n = Len(source), NEW h \in [0 .. n -> ScansOf(chars)],
         Scans(python, source, n, h)
  PROVE  Bare(python, source, n, h, Scanned!Strip(python, source))
<1> DEFINE show(i) == IF Keeps(python, source, h[i - 1].in, h[i - 1].skip, i) THEN source[i]
                      ELSE Scanned!Blanked(source[i])
           S == {k \in 0 .. n : Len(h[k].out) = k /\ \A i \in 1 .. k : h[k].out[i] = show(i)}
<1>1. 0 \in S
  <2>1. h[0].out = <<>>
    BY DEF Scans, Rest
  <2>2. \A i \in 1 .. 0 : FALSE
    OBVIOUS
  <2>3. QED
    BY <2>1, <2>2
<1>2. ASSUME NEW k \in 0 .. n - 1, k \in S PROVE k + 1 \in S
  <2>1. k \in 0 .. n /\ k + 1 \in 0 .. n
    OBVIOUS
  <2>2. Stepped(python, source, h[k], k + 1, h[k + 1])
    BY DEF Scans
  <2>3. PICK c : c = show(k + 1)
    OBVIOUS
  <2>4. (k + 1) - 1 = k
    OBVIOUS
  <2>5. h[k + 1].out = Append(h[k].out, c)
    BY <2>2, <2>3, <2>4 DEF Stepped
  <2>6. PICK before \in Seq(chars) : before = h[k].out /\ Len(before) = k
    <3>1. h[k].out \in Seq(chars)
      BY <2>1 DEF ScansOf
    <3>2. QED
      BY <1>2, <3>1
  <2>7. \A i \in 1 .. k : before[i] = show(i)
    BY <1>2, <2>6
  <2> HIDE DEF show
  <2>8. PICK after : after = Append(before, c)
    OBVIOUS
  <2>9. Len(after) = k + 1 /\ after[k + 1] = c /\ \A i \in 1 .. k : after[i] = before[i]
    BY <2>6, <2>8
  <2>10. \A i \in 1 .. k + 1 : i \in 1 .. k \/ i = k + 1
    OBVIOUS
  <2>11. \A i \in 1 .. k + 1 : after[i] = show(i)
    BY <2>3, <2>7, <2>9, <2>10
  <2>12. QED
    BY <2>1, <2>5, <2>6, <2>8, <2>9, <2>11
<1> HIDE DEF S
<1>3. \A k \in 0 .. n : k \in S
  BY <1>1, <1>2, Along
<1>4. n \in S
  BY <1>3
<1>5. QED
  BY <1>4 DEF S, Scans, Bare

\* What is shown keeps its line breaks.
LEMMA ShownOnItsLine ==
  ASSUME NEW python \in BOOLEAN, NEW source, NEW n \in Nat, NEW h, NEW text,
         Bare(python, source, n, h, text)
  PROVE  \A i \in 1 .. n : Scanned!LineOf(text, i) = Scanned!LineOf(source, i)
<1>1. ASSUME NEW q \in 1 .. n PROVE text[q] = "n" <=> source[q] = "n"
  <2>1. Scanned!Blanked(source[q]) = IF source[q] = "n" THEN "n" ELSE "blank"
    BY GlyphsAre DEF Scanned!Blanked
  <2>2. QED
    BY <2>1 DEF Bare
<1>2. ASSUME NEW i \in 1 .. n
      PROVE  {q \in 1 .. i - 1 : text[q] = Scanned!Newline}
               = {q \in 1 .. i - 1 : source[q] = Scanned!Newline}
  BY <1>1, GlyphsAre
<1>3. QED
  BY <1>2 DEF Scanned!LineOf

\* What begins in what is shown begins in the source, and is kept there.
LEMMA NothingBegins ==
  ASSUME NEW python \in BOOLEAN, NEW chars, NEW source \in Seq(chars), NEW n \in Nat,
         n = Len(source), NEW h, NEW text \in Seq(chars),
         Bare(python, source, n, h, text), NEW i \in 1 .. n
  PROVE  ~Begins(python, text, i)
<1>1. DOMAIN source = 1 .. n /\ DOMAIN text = 1 .. n
  BY DEF Bare
<1>2. ASSUME NEW j, NEW c, c \notin {"n", "blank"}, Scanned!At(text, j, c)
      PROVE  Scanned!At(source, j, c) /\ Keeps(python, source, h[j - 1].in, h[j - 1].skip, j)
  <2>1. j \in 1 .. n /\ text[j] = c
    BY <1>1, <1>2 DEF Scanned!At
  <2>2. Scanned!Blanked(source[j]) \in {"n", "blank"}
    BY GlyphsAre DEF Scanned!Blanked
  <2>3. Keeps(python, source, h[j - 1].in, h[j - 1].skip, j) /\ source[j] = c
    BY <1>2, <2>1, <2>2 DEF Bare
  <2>4. QED
    BY <1>1, <2>1, <2>3 DEF Scanned!At
<1>3. \A j, c : c \in {"hash", "slash", "star", "q", "a"} /\ Scanned!At(text, j, c) =>
        /\ Scanned!At(source, j, c)
        /\ Keeps(python, source, h[j - 1].in, h[j - 1].skip, j)
  BY <1>2
<1>4. SUFFICES ASSUME Begins(python, text, i) PROVE FALSE
  OBVIOUS
<1>5. Begins(python, source, i) /\ Keeps(python, source, h[i - 1].in, h[i - 1].skip, i)
      /\ ~Scanned!At(source, i, "n")
  <2>1. CASE Scanned!At(text, i, "q") \/ Scanned!At(text, i, "a")
    BY <1>3, <2>1 DEF Begins, Scanned!At
  <2>2. CASE Scanned!StartsBlockComment(python, text, i)
    <3>1. ~python /\ Scanned!At(text, i, "slash") /\ Scanned!At(text, i + 1, "star")
      BY <2>2, GlyphsAre DEF Scanned!StartsBlockComment
    <3>2. Scanned!At(source, i, "slash") /\ Scanned!At(source, i + 1, "star")
          /\ Keeps(python, source, h[i - 1].in, h[i - 1].skip, i)
      BY <1>3, <3>1
    <3>3. Scanned!StartsBlockComment(python, source, i)
      BY <3>1, <3>2, GlyphsAre DEF Scanned!StartsBlockComment
    <3>4. QED
      BY <3>2, <3>3 DEF Begins, Scanned!At
  <2>3. CASE Scanned!StartsLineComment(python, text, i)
    <3>1. CASE python
      <4>1. Scanned!At(text, i, "hash")
        BY <2>3, <3>1, GlyphsAre DEF Scanned!StartsLineComment
      <4>2. Scanned!At(source, i, "hash")
            /\ Keeps(python, source, h[i - 1].in, h[i - 1].skip, i)
        BY <1>3, <4>1
      <4>3. Scanned!StartsLineComment(python, source, i)
        BY <3>1, <4>2, GlyphsAre DEF Scanned!StartsLineComment
      <4>4. QED
        BY <4>2, <4>3 DEF Begins, Scanned!At
    <3>2. CASE ~python
      <4>1. Scanned!At(text, i, "slash") /\ Scanned!At(text, i + 1, "slash")
        BY <2>3, <3>2, GlyphsAre DEF Scanned!StartsLineComment
      <4>2. Scanned!At(source, i, "slash") /\ Scanned!At(source, i + 1, "slash")
            /\ Keeps(python, source, h[i - 1].in, h[i - 1].skip, i)
        BY <1>3, <4>1
      <4>3. Scanned!StartsLineComment(python, source, i)
        BY <3>2, <4>2, GlyphsAre DEF Scanned!StartsLineComment
      <4>4. QED
        BY <4>2, <4>3 DEF Begins, Scanned!At
    <3>3. QED
      BY <3>1, <3>2
  <2>4. QED
    BY <1>4, <2>1, <2>2, <2>3 DEF Begins
<1>6. QED
  BY <1>5 DEF Keeps

\* What has been stripped is stripped to itself.
LEMMA StrippedOnce ==
  ASSUME NEW python \in BOOLEAN, NEW chars, "blank" \in chars, NEW text \in Seq(chars),
         NEW n \in Nat, n = Len(text), \A i \in 1 .. n : ~Begins(python, text, i)
  PROVE  Scanned!Strip(python, text) = text
<1>1. PICK h \in [0 .. n -> ScansOf(chars)] : Scans(python, text, n, h)
  BY StrippingWalks
<1>2. Bare(python, text, n, h, Scanned!Strip(python, text))
  BY <1>1, ShownIs
<1> DEFINE S == {k \in 0 .. n : h[k].in = "code" /\ h[k].skip = 0}
<1>3. 0 \in S
  BY <1>1 DEF Scans, Rest
<1>4. ASSUME NEW k \in 0 .. n - 1, k \in S PROVE k + 1 \in S
  <2>1. k + 1 \in 1 .. n /\ k + 1 \in 0 .. n
    OBVIOUS
  <2>2. Stepped(python, text, h[k], k + 1, h[k + 1])
    BY <1>1 DEF Scans
  <2>3. ~Begins(python, text, k + 1)
    BY <2>1
  <2>4. \A c : Thrice(text, k + 1, c) => Scanned!At(text, k + 1, c)
    BY DEF Thrice
  <2>5. InAfter(python, text, "code", k + 1) = "code" /\ SkipAfter(python, text, "code", k + 1) = 0
    BY <2>3, <2>4 DEF Begins, InAfter, SkipAfter
  <2>6. h[k + 1].in = "code" /\ h[k + 1].skip = 0
    BY <1>4, <2>2, <2>5 DEF Stepped
  <2>7. QED
    BY <2>1, <2>6
<1> HIDE DEF S
<1>5. \A k \in 0 .. n : k \in S
  BY <1>3, <1>4, Along
<1>6. ASSUME NEW i \in 1 .. n PROVE Scanned!Strip(python, text)[i] = text[i]
  <2>1. i - 1 \in S
    BY <1>5
  <2>2. Keeps(python, text, h[i - 1].in, h[i - 1].skip, i)
    BY <2>1 DEF S, Keeps
  <2>3. QED
    BY <1>2, <2>2 DEF Bare
<1>7. PICK again \in Seq(chars) : again = Scanned!Strip(python, text)
  <2>1. h[n].out \in Seq(chars)
    BY DEF ScansOf
  <2>2. QED
    BY <1>1, <2>1 DEF Scans
<1>8. Len(again) = Len(text) /\ \A i \in 1 .. Len(text) : again[i] = text[i]
  BY <1>2, <1>6, <1>7 DEF Bare
<1>9. again = text
  BY <1>8, SeqEqual
<1>10. QED
  BY <1>7, <1>9

\* Whether the character at j is escaped, in what begins at i.
Escape(source, i, j) ==
  \E from \in i + 1 .. j - 1 :
    /\ \A k \in from .. j - 1 : source[k] = "b"
    /\ ~Scanned!At(source, from - 1, "b")
    /\ (j - from) % 2 = 1

LEMMA EscapeStep ==
  ASSUME NEW chars, NEW source \in Seq(chars), NEW n \in Nat, n = Len(source),
         NEW i \in 1 .. n, source[i] # "b"
  PROVE  /\ ~Escape(source, i, i + 1)
         /\ \A j \in i + 1 .. n :
              Escape(source, i, j + 1) <=> source[j] = "b" /\ ~Escape(source, i, j)
<1>1. ~Escape(source, i, i + 1)
  BY DEF Escape
<1>2. ASSUME NEW j \in i + 1 .. n, source[j] # "b" PROVE ~Escape(source, i, j + 1)
  <2>1. (j + 1) - 1 = j /\ \A from \in i + 1 .. j : j \in from .. j
    OBVIOUS
  <2>2. QED
    BY <1>2, <2>1 DEF Escape
<1>3. ASSUME NEW j \in i + 1 .. n, source[j] = "b"
      PROVE  Escape(source, i, j + 1) <=> ~Escape(source, i, j)
  <2> DEFINE F == {f \in i + 1 .. j : \A k \in f .. j : source[k] = "b"}
  <2>1. F \in SUBSET Nat /\ j \in F
    BY <1>3
  <2>2. PICK f \in F : \A g \in F : f <= g
    BY <2>1, Least
  <2>3. f \in i + 1 .. j /\ \A k \in f .. j : source[k] = "b"
    BY <2>2
  <2>4. ~Scanned!At(source, f - 1, "b")
    <3>1. CASE f = i + 1
      BY <3>1 DEF Scanned!At
    <3>2. CASE f > i + 1
      <4>1. f - 1 \in i + 1 .. j /\ f - 1 \notin F
        BY <2>1, <2>2, <2>3, <3>2
      <4>2. \A k \in f - 1 .. j : k = f - 1 \/ k \in f .. j
        BY <2>3
      <4>3. source[f - 1] # "b"
        BY <2>3, <4>1, <4>2
      <4>4. QED
        BY <4>3 DEF Scanned!At
    <3>3. QED
      BY <2>3, <3>1, <3>2
  <2>5. ASSUME NEW from \in i + 1 .. j, \A k \in from .. j : source[k] = "b",
               ~Scanned!At(source, from - 1, "b")
        PROVE  from = f
    <3>1. from \in F /\ f <= from
      BY <2>2, <2>5
    <3>2. CASE f < from
      <4>1. from - 1 \in f .. j /\ from - 1 \in 1 .. n
        BY <2>3, <3>2
      <4>2. source[from - 1] = "b"
        BY <2>3, <4>1
      <4>3. QED
        BY <2>5, <4>1, <4>2 DEF Scanned!At
    <3>3. QED
      BY <2>3, <3>1, <3>2
  <2> HIDE DEF F
  <2>6. Escape(source, i, j + 1) <=> ((j + 1) - f) % 2 = 1
    <3>1. (j + 1) - 1 = j
      OBVIOUS
    <3>2. ASSUME Escape(source, i, j + 1) PROVE ((j + 1) - f) % 2 = 1
      <4>1. PICK from \in i + 1 .. j :
               /\ \A k \in from .. j : source[k] = "b"
               /\ ~Scanned!At(source, from - 1, "b")
               /\ ((j + 1) - from) % 2 = 1
        BY <3>1, <3>2 DEF Escape
      <4>2. from = f
        BY <2>5, <4>1
      <4>3. QED
        BY <4>1, <4>2
    <3>3. ASSUME ((j + 1) - f) % 2 = 1 PROVE Escape(source, i, j + 1)
      BY <2>3, <2>4, <3>1, <3>3 DEF Escape
    <3>4. QED
      BY <3>2, <3>3
  <2>7. Escape(source, i, j) <=> f <= j - 1 /\ (j - f) % 2 = 1
    <3>1. ASSUME Escape(source, i, j) PROVE f <= j - 1 /\ (j - f) % 2 = 1
      <4>1. PICK from \in i + 1 .. j - 1 :
               /\ \A k \in from .. j - 1 : source[k] = "b"
               /\ ~Scanned!At(source, from - 1, "b")
               /\ (j - from) % 2 = 1
        BY <3>1 DEF Escape
      <4>2. \A k \in from .. j : k = j \/ k \in from .. j - 1
        OBVIOUS
      <4>3. from = f
        BY <1>3, <2>5, <4>1, <4>2
      <4>4. QED
        BY <4>1, <4>3
    <3>2. ASSUME f <= j - 1, (j - f) % 2 = 1 PROVE Escape(source, i, j)
      <4>1. f \in i + 1 .. j - 1 /\ \A k \in f .. j - 1 : k \in f .. j
        BY <2>3, <3>2
      <4>2. QED
        BY <2>3, <2>4, <3>2, <4>1 DEF Escape
    <3>3. QED
      BY <3>1, <3>2
  <2>8. ((j + 1) - f) % 2 = 1 <=> ~(f <= j - 1 /\ (j - f) % 2 = 1)
    <3>1. PICK d \in Nat : d = j - f
      BY <2>3
    <3>2. (j + 1) - f = d + 1 /\ (f <= j - 1 <=> d >= 1)
      BY <2>3, <3>1
    <3>3. (d + 1) % 2 = 1 <=> d % 2 = 0
      OBVIOUS
    <3>4. d % 2 \in {0, 1} /\ (d = 0 => d % 2 = 0)
      OBVIOUS
    <3>5. QED
      BY <3>1, <3>2, <3>3, <3>4
  <2>9. QED
    BY <2>6, <2>7, <2>8
<1>4. QED
  BY <1>1, <1>2, <1>3

LEMMA UpToNext == \A k \in Nat : 1 .. k + 1 = (1 .. k) \cup {k + 1}
  OBVIOUS

LEMMA NotLater == \A a, b \in Nat : a <= b => a <= b + 1
OBVIOUS

LEMMA NotYet == \A k, e \in Nat : k < e => k + 1 = e \/ k + 1 < e
  OBVIOUS

\* A way through the positions in pieces, one beginning where the last one ended: those
\* met so far, with the next one ready to begin or the last one not at its end; and what
\* they tell of the positions so far.
Met(opens, k) == {p \in opens : p \in 1 .. k}
PieceBegins(opens, E, free, k) ==
  /\ k + 1 \in opens /\ k + 1 \in free
  /\ \A q \in opens : q <= k + 1
  /\ \A q \in Met(opens, k) : E[q] <= k
InPiece(opens, E, hides, inner, k, p) ==
  /\ p \in hides /\ <<p, k>> \in inner /\ k < E[p] /\ E[p] + 1 \in opens
  /\ \A q \in opens : q <= k \/ q = E[p] + 1
  /\ \A q \in Met(opens, k) : q = p \/ E[q] <= k
Told(opens, E, keeps, hides, k) ==
  /\ \A i \in 1 .. k : \E p \in Met(opens, k) : i \in p .. E[p]
  /\ \A p \in Met(opens, k) : \A i \in p .. E[p] : i <= k => (i \in keeps <=> p \notin hides)
TiledSo(opens, E, keeps, hides, free, inner, k) ==
  /\ Told(opens, E, keeps, hides, k)
  /\ \/ PieceBegins(opens, E, free, k)
     \/ \E p \in Met(opens, k) : InPiece(opens, E, hides, inner, k, p)

\* What a piece is to its first character, and to each that follows.
Enters(E, keeps, hides, free, inner, p) ==
  /\ E[p] >= p /\ (p \in keeps <=> p \notin hides)
  /\ E[p] = p => p + 1 \in free
  /\ E[p] > p => p \in hides /\ <<p, p>> \in inner
GoesOn(E, keeps, free, inner, p, k) ==
  /\ k + 1 \notin keeps
  /\ k + 1 = E[p] => k + 2 \in free
  /\ k + 1 < E[p] => <<p, k + 1>> \in inner

\* One position further, where a piece begins.
LEMMA TileBegins ==
  ASSUME NEW n \in Nat, NEW E \in [1 .. n -> 1 .. n], NEW k \in 0 .. n - 1,
         NEW keeps, NEW hides, NEW free, NEW inner, NEW W \in SUBSET Nat,
         Told(W, E, keeps, hides, k), PieceBegins(W, E, free, k),
         Enters(E, keeps, hides, free, inner, k + 1)
  PROVE  TiledSo(W \cup {E[k + 1] + 1}, E, keeps, hides, free, inner, k + 1)
<1>1. PICK j \in 1 .. n : j = k + 1
  OBVIOUS
<1>2. PICK e \in 1 .. n : e = E[j]
  OBVIOUS
<1>3. PICK Y \in SUBSET Nat : Y = W \cup {e + 1}
  <2>1. W \cup {e + 1} \in SUBSET Nat
    OBVIOUS
  <2>2. QED
    BY <2>1
<1>4. \A q \in 1 .. n : E[q] \in 1 .. n
  OBVIOUS
<1>5. j \in W /\ j \in free /\ (\A q \in W : q <= j) /\ \A q \in Met(W, k) : E[q] <= k
  BY <1>1 DEF PieceBegins
<1>6. e >= j /\ (j \in keeps <=> j \notin hides) /\ (e = j => j + 1 \in free)
      /\ (e > j => j \in hides /\ <<j, j>> \in inner)
  BY <1>1, <1>2 DEF Enters
<1>7. Met(Y, j) = Met(W, k) \cup {j}
  <2>1. 1 .. j = (1 .. k) \cup {j}
    BY <1>1, UpToNext
  <2>2. e + 1 \notin 1 .. j
    BY <1>1, <1>2, <1>6
  <2>3. QED
    BY <1>3, <1>5, <2>1, <2>2 DEF Met
<1>8. \A q \in Met(W, k) : q \in 1 .. n /\ q <= k /\ E[q] \in 1 .. n
  BY <1>1, <1>4 DEF Met
<1>9. Told(Y, E, keeps, hides, j)
  <2>1. ASSUME NEW i \in 1 .. j PROVE \E p \in Met(Y, j) : i \in p .. E[p]
    <3>1. CASE i = j
      <4>1. i \in j .. E[j]
        BY <1>2, <1>6, <3>1
      <4>2. QED
        BY <1>7, <4>1
    <3>2. CASE i \in 1 .. k
      BY <1>7, <3>2 DEF Told
    <3>3. QED
      BY <1>1, <3>1, <3>2
  <2>2. ASSUME NEW p \in Met(Y, j), NEW i \in p .. E[p], i <= j
        PROVE  i \in keeps <=> p \notin hides
    <3>1. CASE p = j
      <4>1. i = j
        BY <1>2, <2>2, <3>1
      <4>2. QED
        BY <1>6, <3>1, <4>1
    <3>2. CASE p \in Met(W, k)
      <4>1. i <= k
        BY <1>5, <1>8, <3>2
      <4>2. QED
        BY <3>2, <4>1 DEF Told
    <3>3. QED
      BY <1>7, <2>2, <3>1, <3>2
  <2>3. QED
    BY <2>1, <2>2 DEF Told
<1>10. CASE e = j
  <2>1. j + 1 \in Y /\ j + 1 \in free /\ \A q \in Y : q <= j + 1
    <3>1. j + 1 \in Y /\ j + 1 \in free
      BY <1>3, <1>6, <1>10
    <3>2. ASSUME NEW q \in Y PROVE q <= j + 1
      <4>1. CASE q \in W
        <5>1. q \in Nat /\ q <= j
          BY <1>5, <4>1
        <5>2. QED
          BY <5>1
      <4>2. CASE q = e + 1
        BY <1>10, <4>2
      <4>3. QED
        BY <1>3, <4>1, <4>2
    <3>3. QED
      BY <3>1, <3>2
  <2>2. ASSUME NEW q \in Met(Y, j) PROVE E[q] <= j
    <3>1. CASE q = j
      <4>1. E[q] = j
        BY <1>2, <1>10, <3>1
      <4>2. j <= j
        OBVIOUS
      <4>3. QED
        BY ONLY <4>1, <4>2
    <3>2. CASE q \in Met(W, k)
      <4>1. E[q] <= k /\ E[q] \in 1 .. n
        BY <1>5, <1>8, <3>2
      <4>2. QED
        <5>1. PICK z \in Nat : z = E[q]
          BY ONLY <4>1
        <5>2. z <= k /\ j = k + 1 /\ k \in Nat
          BY <1>1, <4>1, <5>1
        <5>3. z <= j
          <6>1. z <= k + 1
            BY <5>1, <5>2, NotLater
          <6>2. QED
            BY ONLY <5>2, <6>1
        <5>4. QED
          BY ONLY <5>1, <5>3
    <3>3. QED
      BY <1>7, <3>1, <3>2
  <2>3. PieceBegins(Y, E, free, j)
    BY <2>1, <2>2 DEF PieceBegins
  <2>4. QED
    BY <1>1, <1>2, <1>3, <1>9, <2>3 DEF TiledSo
<1>11. CASE e > j
  <2>1. j \in hides /\ <<j, j>> \in inner /\ j < E[j] /\ E[j] + 1 \in Y
    BY <1>2, <1>3, <1>6, <1>11
  <2>2. \A q \in Y : q <= j \/ q = E[j] + 1
    BY <1>2, <1>3, <1>5
  <2>3. \A q \in Met(Y, j) : q = j \/ E[q] <= j
    BY <1>1, <1>5, <1>7, <1>8
  <2>4. InPiece(Y, E, hides, inner, j, j) /\ j \in Met(Y, j)
    BY <1>7, <2>1, <2>2, <2>3 DEF InPiece
  <2>5. QED
    BY <1>1, <1>2, <1>3, <1>9, <2>4 DEF TiledSo
<1>12. QED
  BY <1>6, <1>10, <1>11

\* And where one goes on.
LEMMA TileGoesOn ==
  ASSUME NEW n \in Nat, NEW E \in [1 .. n -> 1 .. n], NEW k \in 0 .. n - 1,
         NEW keeps, NEW hides, NEW free, NEW inner, NEW W \in SUBSET Nat,
         Told(W, E, keeps, hides, k),
         NEW p \in Met(W, k), InPiece(W, E, hides, inner, k, p),
         GoesOn(E, keeps, free, inner, p, k)
  PROVE  k + 1 \notin W /\ TiledSo(W, E, keeps, hides, free, inner, k + 1)
<1>1. PICK j \in 1 .. n : j = k + 1 /\ j + 1 = k + 2
  OBVIOUS
<1>2. PICK e \in 1 .. n : e = E[p] /\ p \in 1 .. n /\ p <= k
  BY DEF Met
<1>4. \A q \in Met(W, k) : q \in 1 .. n /\ q <= k /\ E[q] \in 1 .. n
  BY DEF Met
<1>5. /\ p \in hides /\ k < e /\ e + 1 \in W
      /\ \A q \in W : q <= k \/ q = e + 1
      /\ \A q \in Met(W, k) : q = p \/ E[q] <= k
  BY <1>2 DEF InPiece
<1>6. j \notin keeps /\ (j = e => j + 1 \in free) /\ (j < e => <<p, j>> \in inner)
  BY <1>1, <1>2 DEF GoesOn
<1>7. j \notin W
  BY <1>1, <1>2, <1>5
<1>8. Met(W, j) = Met(W, k)
  <2>1. 1 .. j = (1 .. k) \cup {j}
    BY <1>1, UpToNext
  <2>2. QED
    BY <1>7, <2>1 DEF Met
<1>9. Told(W, E, keeps, hides, j)
  <2>1. ASSUME NEW i \in 1 .. j PROVE \E q \in Met(W, j) : i \in q .. E[q]
    <3>1. CASE i = j
      BY <1>1, <1>2, <1>5, <1>8, <3>1
    <3>2. CASE i \in 1 .. k
      BY <1>8, <3>2 DEF Told
    <3>3. QED
      BY <1>1, <3>1, <3>2
  <2>2. ASSUME NEW q \in Met(W, j), NEW i \in q .. E[q], i <= j
        PROVE  i \in keeps <=> q \notin hides
    <3>1. q \in Met(W, k) /\ q \in 1 .. n /\ E[q] \in 1 .. n
      BY <1>4, <1>8
    <3>2. CASE i <= k
      BY <3>1, <3>2 DEF Told
    <3>3. CASE i = j
      <4>1. q = p
        BY <1>1, <1>5, <3>1, <3>3
      <4>2. QED
        BY <1>5, <1>6, <3>3, <4>1
    <3>4. QED
      BY <1>1, <2>2, <3>1, <3>2, <3>3
  <2>3. QED
    BY <2>1, <2>2 DEF Told
<1>10. CASE j = e
  <2>1. j + 1 \in W /\ j + 1 \in free /\ \A q \in W : q <= j + 1
    <3>1. j + 1 \in W
      BY ONLY <1>5, <1>10
    <3>2. j + 1 \in free
      BY <1>6, <1>10
    <3>3. ASSUME NEW q \in W PROVE q <= j + 1
      <4>1. q \in Nat /\ (q <= k \/ q = e + 1)
        BY <1>5, <3>3
      <4>2. CASE q <= k
        <5>1. k \in Nat /\ j = k + 1
          BY <1>1
        <5>2. QED
          BY ONLY <4>1, <4>2, <5>1
      <4>3. CASE q = e + 1
        <5>1. q = j + 1 /\ j \in Nat
          BY <1>10, <4>3
        <5>2. QED
          BY ONLY <5>1
      <4>4. QED
        BY <4>1, <4>2, <4>3
    <3>4. QED
      BY <3>1, <3>2, <3>3
  <2>2. ASSUME NEW q \in Met(W, j) PROVE E[q] <= j
    <3>1. q \in Met(W, k) /\ E[q] \in 1 .. n
      BY <1>4, <1>8
    <3>2. CASE q = p
      BY <1>2, <1>10, <3>2
    <3>3. CASE E[q] <= k
      <4>1. PICK z \in Nat : z = E[q]
        BY ONLY <3>1
      <4>2. z <= k /\ j = k + 1 /\ k \in Nat
        BY <1>1, <3>3, <4>1
      <4>3. z <= j
        <5>1. z <= k + 1
          BY <4>1, <4>2, NotLater
        <5>2. QED
          BY ONLY <4>2, <5>1
      <4>4. QED
        BY ONLY <4>1, <4>3
    <3>4. QED
      BY <1>5, <3>1, <3>2, <3>3
  <2>3. PieceBegins(W, E, free, j)
    BY <2>1, <2>2 DEF PieceBegins
  <2>4. QED
    BY <1>1, <1>7, <1>9, <2>3 DEF TiledSo
<1>11. CASE j < e
  <2>1. p \in hides /\ <<p, j>> \in inner /\ j < E[p] /\ E[p] + 1 \in W
    BY <1>2, <1>5, <1>6, <1>11
  <2>2. \A q \in W : q <= j \/ q = E[p] + 1
    BY <1>1, <1>2, <1>5
  <2>3. \A q \in Met(W, j) : q = p \/ E[q] <= j
    BY <1>1, <1>4, <1>5, <1>8
  <2>4. InPiece(W, E, hides, inner, j, p) /\ p \in Met(W, j)
    BY <1>8, <2>1, <2>2, <2>3 DEF InPiece
  <2>5. QED
    BY <1>1, <1>7, <1>9, <2>4 DEF TiledSo
<1>12. j = e \/ j < e
  <2>1. k \in Nat /\ e \in Nat /\ k < e
    BY <1>5
  <2>2. k + 1 = e \/ k + 1 < e
    BY ONLY <2>1, NotYet
  <2>3. QED
    BY ONLY <1>1, <2>2
<1>13. QED
  BY <1>1, <1>7, <1>10, <1>11, <1>12

\* The way as a whole: where the pieces begin, that each enters and goes on as it should,
\* and that it is told by where each begins.
Tiling(n, E, w) ==
  /\ w[0] = {1}
  /\ \A k \in 0 .. n - 1 :
       w[k + 1] = IF k + 1 \in w[k] THEN w[k] \cup {E[k + 1] + 1} ELSE w[k]
AllEnter(n, E, keeps, hides, free, inner) ==
  \A p \in 1 .. n : p \in free => Enters(E, keeps, hides, free, inner, p)
AllGoOn(n, E, keeps, free, inner) ==
  \A p \in 1 .. n, k \in 1 .. n :
    <<p, k>> \in inner /\ p <= k /\ k < E[p] => GoesOn(E, keeps, free, inner, p, k)
TellsAll(n, E, keeps, hides, opens) ==
  \A i \in 1 .. n :
    i \notin keeps <=> \E p \in opens : p \in 1 .. n /\ p \in hides /\ i \in p .. E[p]

LEMMA Tiled ==
  ASSUME NEW n \in Nat, NEW E \in [1 .. n -> 1 .. n],
         NEW keeps, NEW hides, NEW free, NEW inner, NEW w \in [0 .. n -> SUBSET Nat],
         Tiling(n, E, w), 1 \in free,
         AllEnter(n, E, keeps, hides, free, inner), AllGoOn(n, E, keeps, free, inner)
  PROVE  TellsAll(n, E, keeps, hides, w[n])
<1> DEFINE S == {k \in 0 .. n : TiledSo(w[k], E, keeps, hides, free, inner, k)}
<1>1. 0 \in S
  <2>1. PICK W : W = w[0] /\ W = {1}
    BY DEF Tiling
  <2>2. Met(W, 0) = {}
    BY DEF Met
  <2>3. Told(W, E, keeps, hides, 0)
    BY <2>2 DEF Told
  <2>4. PieceBegins(W, E, free, 0)
    BY <2>1, <2>2 DEF PieceBegins
  <2>5. TiledSo(w[0], E, keeps, hides, free, inner, 0)
    BY <2>1, <2>3, <2>4 DEF TiledSo
  <2>6. 0 \in 0 .. n
    OBVIOUS
  <2>7. QED
    BY <2>5, <2>6
<1>2. ASSUME NEW k \in 0 .. n - 1, k \in S PROVE k + 1 \in S
  <2>1. k \in 0 .. n /\ k + 1 \in 1 .. n /\ k + 1 \in 0 .. n
    OBVIOUS
  <2>2. PICK W \in SUBSET Nat : W = w[k]
    BY <2>1
  <2>3. TiledSo(W, E, keeps, hides, free, inner, k)
    BY <1>2, <2>2
  <2>4. w[k + 1] = IF k + 1 \in W THEN W \cup {E[k + 1] + 1} ELSE W
    BY <2>2 DEF Tiling
  <2> HIDE DEF S
  <2>5. CASE PieceBegins(W, E, free, k)
    <3>1. k + 1 \in W /\ k + 1 \in free
      BY <2>5 DEF PieceBegins
    <3>2. Enters(E, keeps, hides, free, inner, k + 1)
      BY <2>1, <3>1 DEF AllEnter
    <3>3. Told(W, E, keeps, hides, k)
      BY <2>3 DEF TiledSo
    <3>4. TiledSo(W \cup {E[k + 1] + 1}, E, keeps, hides, free, inner, k + 1)
      BY <2>5, <3>2, <3>3, TileBegins
    <3>5. QED
      BY <2>1, <2>4, <3>1, <3>4 DEF S
  <2>6. ASSUME NEW p \in Met(W, k), InPiece(W, E, hides, inner, k, p) PROVE k + 1 \in S
    <3>1. /\ <<p, k>> \in inner /\ k < E[p]
          /\ p \in 1 .. n /\ p <= k /\ k \in 1 .. n
      BY <2>1, <2>6 DEF InPiece, Met
    <3>2. GoesOn(E, keeps, free, inner, p, k)
      BY <3>1 DEF AllGoOn
    <3>3. Told(W, E, keeps, hides, k)
      BY <2>3 DEF TiledSo
    <3>4. k + 1 \notin W /\ TiledSo(W, E, keeps, hides, free, inner, k + 1)
      BY <2>6, <3>2, <3>3, TileGoesOn
    <3>5. QED
      BY <2>1, <2>4, <3>4 DEF S
  <2>7. QED
    BY <2>3, <2>5, <2>6 DEF TiledSo
<1>3. n \in S
  <2> HIDE DEF S
  <2>1. \A k \in 0 .. n : k \in S
    BY <1>1, <1>2, Along
  <2>2. QED
    BY <2>1
<1>4. PICK W \in SUBSET Nat : W = w[n]
  OBVIOUS
<1>5. Told(W, E, keeps, hides, n)
  BY <1>3, <1>4 DEF TiledSo
<1>6. ASSUME NEW i \in 1 .. n
      PROVE  i \notin keeps <=> \E p \in W : p \in 1 .. n /\ p \in hides /\ i \in p .. E[p]
  <2>1. PICK p \in Met(W, n) : i \in p .. E[p]
    BY <1>5 DEF Told
  <2>2. i \in keeps <=> p \notin hides
    BY <1>5, <2>1 DEF Told
  <2>3. p \in W /\ p \in 1 .. n
    BY <2>1 DEF Met
  <2>4. ASSUME NEW q \in W, q \in 1 .. n, q \in hides, i \in q .. E[q] PROVE i \notin keeps
    <3>1. q \in Met(W, n)
      BY <2>4 DEF Met
    <3>2. QED
      BY <1>5, <2>4, <3>1 DEF Told
  <2>5. QED
    BY <2>1, <2>2, <2>3, <2>4
<1>7. QED
  BY <1>4, <1>6 DEF TellsAll

\* Where what begins at i may end: the line, the block comment, the literals.
EndsOf(kind, source, n, i) ==
  IF kind = "line" THEN {j \in i .. n - 1 : source[j + 1] = "n"}
  ELSE IF kind = "block" THEN {j \in i + 3 .. n : Scanned!EndsBlockComment(source, j - 1)}
  ELSE IF kind \in Triples
  THEN {j \in i + 5 .. n : Thrice(source, j - 2, QuoteOf(kind)) /\ ~Escape(source, i, j - 2)}
  ELSE {j \in i + 1 .. n : source[j] = kind /\ ~Escape(source, i, j)}

\* The first of them, or the end of the source.
EndsAt(kind, source, n, i, e) ==
  IF kind = "code" THEN e = i
  ELSE /\ e \in i .. n /\ (e < n => e \in EndsOf(kind, source, n, i))
       /\ \A j \in EndsOf(kind, source, n, i) : e <= j

LEMMA FirstEnd ==
  ASSUME NEW n \in Nat, NEW i \in 1 .. n, NEW S \in SUBSET (i .. n), NEW e,
         e = Scanned!Min(S \cup {n})
  PROVE  e \in i .. n /\ (e < n => e \in S) /\ \A j \in S : e <= j
<1>1. S \cup {n} \in SUBSET Nat /\ S \cup {n} # {}
  OBVIOUS
<1>2. PICK m \in S \cup {n} : \A k \in S \cup {n} : m <= k
  BY <1>1, Least
<1>3. e \in S \cup {n} /\ \A k \in S \cup {n} : e <= k
  BY <1>2 DEF Scanned!Min
<1>4. QED
  BY <1>3

LEMMA EndIs ==
  ASSUME NEW python \in BOOLEAN, NEW chars, NEW source \in Seq(chars),
         NEW n \in Nat, n = Len(source), NEW i \in 1 .. n,
         NEW kind, kind = InAfter(python, source, "code", i)
  PROVE  EndsAt(kind, source, n, i, Scanned!EndOf(python, source, i))
<1> DEFINE escaped(j) == \E from \in i + 1 .. j - 1 :
             /\ \A k \in from .. j - 1 : source[k] = Scanned!Backslash
             /\ ~Scanned!At(source, from - 1, Scanned!Backslash)
             /\ (j - from) % 2 = 1
           first(S) == Scanned!Min(S \cup {n})
           lines == {j \in i .. n - 1 : source[j + 1] = Scanned!Newline}
           blocks == {j \in i + 3 .. n : Scanned!EndsBlockComment(source, j - 1)}
           triples(c) == {m \in i + 3 .. n - 2 : Scanned!Triple(source, m, c) /\ ~escaped(m)}
           thirds(c) == {m + 2 : m \in triples(c)}
           literals(c) == {j \in i + 1 .. n : source[j] = c /\ ~escaped(j)}
<1>1. Scanned!EndOf(python, source, i) =
        IF Scanned!StartsLineComment(python, source, i) THEN first(lines)
        ELSE IF Scanned!StartsBlockComment(python, source, i) THEN first(blocks)
        ELSE IF Scanned!StartsTriple(python, source, i) THEN first(thirds(source[i]))
        ELSE IF source[i] \in Scanned!Quotes THEN first(literals(source[i]))
        ELSE i
  BY DEF Scanned!EndOf
<1>2. \A j : escaped(j) <=> Escape(source, i, j)
  BY GlyphsAre DEF Escape
<1>3. lines = EndsOf("line", source, n, i)
  BY GlyphsAre DEF EndsOf
<1>4. blocks = EndsOf("block", source, n, i)
  BY DEF EndsOf
<1>5. ASSUME NEW triple \in Triples PROVE thirds(QuoteOf(triple)) = EndsOf(triple, source, n, i)
  <2> HIDE DEF escaped
  <2>1. PICK c : c = QuoteOf(triple)
    OBVIOUS
  <2>2. \A m \in Int : Scanned!Triple(source, m, c) <=> Thrice(source, m, c)
    BY AtIs
  <2>3. \A m : m \in EndsOf(triple, source, n, i)
                 <=> m \in i + 5 .. n /\ Thrice(source, m - 2, c) /\ ~Escape(source, i, m - 2)
    BY <2>1 DEF EndsOf, Triples
  <2>4. ASSUME NEW m \in triples(c) PROVE m + 2 \in EndsOf(triple, source, n, i)
    <3>1. PICK x \in i + 5 .. n : x = m + 2 /\ x - 2 = m
      OBVIOUS
    <3>2. Thrice(source, x - 2, c) /\ ~Escape(source, i, x - 2)
      BY <1>2, <2>2, <3>1
    <3>3. QED
      BY <2>3, <3>1, <3>2
  <2>5. ASSUME NEW m \in EndsOf(triple, source, n, i) PROVE m \in thirds(c)
    <3>1. m \in i + 5 .. n /\ Thrice(source, m - 2, c) /\ ~Escape(source, i, m - 2)
      BY <2>3
    <3>2. PICK x \in i + 3 .. n - 2 : x = m - 2 /\ x + 2 = m
      BY <3>1
    <3>3. x \in triples(c)
      BY <1>2, <2>2, <3>1, <3>2
    <3>4. QED
      BY <3>2, <3>3
  <2> HIDE DEF triples
  <2>6. thirds(c) = EndsOf(triple, source, n, i)
    BY <2>4, <2>5
  <2>7. QED
    BY <2>1, <2>6
<1>6. ASSUME NEW c \in {"q", "a"} PROVE literals(c) = EndsOf(c, source, n, i)
  <2> HIDE DEF escaped
  <2>1. QED
    BY <1>2 DEF EndsOf, Triples
<1>7. \A x : EndsOf(x, source, n, i) \in SUBSET (i .. n)
  BY DEF EndsOf
<1>quotes. /\ \A c : Scanned!At(source, i, c) <=> source[i] = c
           /\ Scanned!StartsTriple(python, source, i)
                <=> python /\ (Thrice(source, i, "q") \/ Thrice(source, i, "a"))
  <2>1. /\ \A c : Scanned!At(source, i, c) <=> source[i] = c
        /\ \A c : Scanned!Triple(source, i, c) <=> Thrice(source, i, c)
    <3>1. i \in Int
      OBVIOUS
    <3>2. QED
      BY <3>1, AtIs
  <2>2. QED
    BY <2>1, GlyphsAre DEF Scanned!StartsTriple, Thrice
<1>8. kind \in Modes \ {"code"}
        => Scanned!EndOf(python, source, i) = first(EndsOf(kind, source, n, i))
  <2> HIDE DEF first, lines, blocks, thirds, triples, literals
  <2>1. CASE Scanned!StartsLineComment(python, source, i)
             \/ Scanned!StartsBlockComment(python, source, i)
    BY <1>1, <1>3, <1>4, <2>1 DEF InAfter
  <2>2. CASE /\ ~Scanned!StartsLineComment(python, source, i)
             /\ ~Scanned!StartsBlockComment(python, source, i)
             /\ Scanned!StartsTriple(python, source, i)
    <3>1. Scanned!EndOf(python, source, i) = first(thirds(source[i]))
      BY <1>1, <2>2
    <3>2. \A c : Thrice(source, i, c) => source[i] = c
      BY <1>quotes DEF Thrice
    <3>3. kind \in Triples /\ source[i] = QuoteOf(kind)
      BY <1>quotes, <2>2, <3>2 DEF InAfter, Triples, QuoteOf
    <3>4. QED
      BY <1>5, <3>1, <3>3
  <2>3. CASE /\ ~Scanned!StartsLineComment(python, source, i)
             /\ ~Scanned!StartsBlockComment(python, source, i)
             /\ ~Scanned!StartsTriple(python, source, i)
    <3>1. ASSUME kind # "code" PROVE kind \in {"q", "a"} /\ source[i] = kind
      BY <1>quotes, <2>3, <3>1 DEF InAfter
    <3>2. ASSUME kind # "code"
          PROVE  Scanned!EndOf(python, source, i) = first(literals(kind))
      BY <1>1, <2>3, <3>1, <3>2, GlyphsAre
    <3>3. QED
      BY <1>6, <3>1, <3>2
  <2>4. QED
    BY <2>1, <2>2, <2>3
<1>9. kind \in Modes
  BY DEF InAfter, Modes
<1>10. CASE kind = "code"
  <2> HIDE DEF first, lines, blocks, thirds, triples, literals
  <2>1. Scanned!EndOf(python, source, i) = i
    <3>1. /\ ~Scanned!StartsLineComment(python, source, i)
          /\ ~Scanned!StartsBlockComment(python, source, i)
          /\ ~Scanned!StartsTriple(python, source, i)
          /\ source[i] # "q" /\ source[i] # "a"
      BY <1>quotes, <1>10 DEF InAfter
    <3>2. QED
      BY <1>1, <3>1, GlyphsAre
  <2>2. QED
    BY <1>10, <2>1 DEF EndsAt
<1>11. CASE kind # "code"
  <2>1. PICK S \in SUBSET (i .. n) : S = EndsOf(kind, source, n, i)
    BY <1>7
  <2>2. PICK e : e = Scanned!EndOf(python, source, i)
    OBVIOUS
  <2>3. e = Scanned!Min(S \cup {n})
    BY <1>8, <1>9, <1>11, <2>1, <2>2
  <2>4. e \in i .. n /\ (e < n => e \in S) /\ \A j \in S : e <= j
    BY ONLY <2>3, FirstEnd, n \in Nat, i \in 1 .. n, S \in SUBSET (i .. n)
  <2>5. QED
    BY <1>11, <2>1, <2>2, <2>4 DEF EndsAt
<1>12. QED
  BY <1>10, <1>11

\* What the scan is where something may begin; and at the k-th character of what began
\* at p and ends at e.
Clear(source, p, in, skip) ==
  skip = 0 /\ (in = "code" \/ (in = "line" /\ Scanned!At(source, p, "n")))
Amid(kind, source, n, p, e, k, in, skip) ==
  LET escaping == IF Escape(source, p, k + 1) THEN 1 ELSE 0
  IN IF kind = "line" THEN in = "line" /\ skip = 0
     ELSE IF kind = "block"
     THEN IF k = e - 1 /\ e \in EndsOf("block", source, n, p)
          THEN in = "code" /\ skip = 1 ELSE in = "block" /\ skip = 0
     ELSE IF kind \in Triples
     THEN IF k <= p + 1 THEN in = kind /\ skip = (p + 2) - k
          ELSE IF e \in EndsOf(kind, source, n, p) /\ k >= e - 2
          THEN in = "code" /\ skip = e - k
          ELSE in = kind /\ skip = escaping
     ELSE in = kind /\ skip = escaping

\* One character from one state to the next.
Turns(python, source, i, in, skip, then, more) ==
  /\ then = IF skip > 0 THEN in ELSE InAfter(python, source, in, i)
  /\ more = IF skip > 0 THEN skip - 1 ELSE SkipAfter(python, source, in, i)

\* One character further in what began at p.
Further(kind, python, source, n, p, e, k, in, skip, then, more) ==
  /\ ~Keeps(python, source, in, skip, k + 1)
  /\ k + 1 = e /\ k + 1 < n => Clear(source, k + 2, then, more)
  /\ k + 1 < e => Amid(kind, source, n, p, e, k + 1, then, more)

LEMMA LineGoesOn ==
  ASSUME NEW python \in BOOLEAN, NEW chars, NEW source \in Seq(chars),
         NEW n \in Nat, n = Len(source), NEW p \in 1 .. n, NEW e, NEW k \in p .. n,
         EndsAt("line", source, n, p, e), k < e,
         NEW in, NEW skip, NEW then, NEW more,
         Amid("line", source, n, p, e, k, in, skip),
         Turns(python, source, k + 1, in, skip, then, more)
  PROVE  Further("line", python, source, n, p, e, k, in, skip, then, more)
<1>1. /\ e \in p .. n /\ (e < n => e \in EndsOf("line", source, n, p))
      /\ \A j \in EndsOf("line", source, n, p) : e <= j
  BY DEF EndsAt
<1>2. in = "line" /\ skip = 0
  BY DEF Amid
<1>3. source[k + 1] # "n"
  <2>1. k \in p .. n - 1 /\ k \notin EndsOf("line", source, n, p)
    BY <1>1
  <2>2. QED
    BY <2>1 DEF EndsOf
<1>4. ~Scanned!At(source, k + 1, "n")
  BY <1>3, AtIs
<1>5. then = "line" /\ more = 0
  BY <1>2, <1>4 DEF Turns, InAfter, SkipAfter
<1>6. ~Keeps(python, source, in, skip, k + 1)
  BY <1>2, <1>4 DEF Keeps
<1>7. ASSUME k + 1 = e, k + 1 < n PROVE Clear(source, k + 2, then, more)
  <2>1. e \in EndsOf("line", source, n, p) /\ e + 1 = k + 2 /\ k + 2 \in 1 .. n
    BY <1>1, <1>7
  <2>2. source[k + 2] = "n"
    BY <2>1 DEF EndsOf
  <2>3. QED
    BY <1>5, <2>1, <2>2, AtIs DEF Clear
<1>8. k + 1 < e => Amid("line", source, n, p, e, k + 1, then, more)
  BY <1>5 DEF Amid
<1>9. QED
  BY <1>6, <1>7, <1>8 DEF Further

LEMMA BlockGoesOn ==
  ASSUME NEW python \in BOOLEAN, NEW chars, NEW source \in Seq(chars),
         NEW n \in Nat, n = Len(source), NEW p \in 1 .. n, NEW e, NEW k \in p .. n,
         EndsAt("block", source, n, p, e), k < e,
         ~Scanned!At(source, p + 2, "slash"),
         NEW in, NEW skip, NEW then, NEW more,
         Amid("block", source, n, p, e, k, in, skip),
         Turns(python, source, k + 1, in, skip, then, more)
  PROVE  Further("block", python, source, n, p, e, k, in, skip, then, more)
<1>1. /\ e \in p .. n /\ (e < n => e \in EndsOf("block", source, n, p))
      /\ \A j \in EndsOf("block", source, n, p) : e <= j
  BY DEF EndsAt
<1>2. \A j \in p + 3 .. n :
        j \in EndsOf("block", source, n, p) <=> Scanned!EndsBlockComment(source, j - 1)
  BY DEF EndsOf
<1>3. CASE k = e - 1 /\ e \in EndsOf("block", source, n, p)
  <2>1. in = "code" /\ skip = 1
    BY <1>3 DEF Amid
  <2>2. then = "code" /\ more = 0
    BY <2>1 DEF Turns
  <2>3. ~Keeps(python, source, in, skip, k + 1)
    BY <2>1 DEF Keeps
  <2>4. Clear(source, k + 2, then, more) /\ ~(k + 1 < e)
    BY <1>1, <1>3, <2>2 DEF Clear
  <2>5. QED
    BY <2>3, <2>4 DEF Further
<1>4. CASE ~(k = e - 1 /\ e \in EndsOf("block", source, n, p))
  <2>1. in = "block" /\ skip = 0
    BY <1>4 DEF Amid
  <2>2. ~Keeps(python, source, in, skip, k + 1)
    BY <2>1 DEF Keeps
  <2>3. CASE Scanned!EndsBlockComment(source, k + 1)
    <3>1. Scanned!At(source, k + 2, "slash") /\ k + 2 \in 1 .. n /\ (k + 2) - 1 = k + 1
      <4>1. Scanned!At(source, (k + 1) + 1, "slash") /\ (k + 1) + 1 = k + 2
        BY <2>3, GlyphsAre DEF Scanned!EndsBlockComment
      <4>2. QED
        BY <4>1, AtIs
    <3>2. k # p
      BY <3>1
    <3>3. k + 2 \in p + 3 .. n
      BY <3>1, <3>2
    <3>4. k + 2 \in EndsOf("block", source, n, p)
      BY <1>2, <2>3, <3>1, <3>3
    <3>5. e = k + 2
      BY <1>1, <1>4, <3>3, <3>4
    <3>6. then = "code" /\ more = 1
      BY <2>1, <2>3 DEF Turns, InAfter, SkipAfter
    <3>7. Amid("block", source, n, p, e, k + 1, then, more)
      BY <3>4, <3>5, <3>6 DEF Amid
    <3>8. k + 1 # e
      BY <3>5
    <3>9. QED
      BY <2>2, <3>7, <3>8 DEF Further
  <2>4. CASE ~Scanned!EndsBlockComment(source, k + 1)
    <3>1. then = "block" /\ more = 0
      BY <2>1, <2>4 DEF Turns, InAfter, SkipAfter
    <3>2. ~(k + 1 = e /\ k + 1 < n)
      BY <1>1, <1>4
    <3>3. ~(k + 1 = e - 1 /\ e \in EndsOf("block", source, n, p))
      <4>1. ASSUME k + 1 = e - 1, e \in EndsOf("block", source, n, p) PROVE FALSE
        <5>1. e \in p + 3 .. n /\ Scanned!EndsBlockComment(source, e - 1)
          BY <4>1 DEF EndsOf
        <5>2. QED
          BY <2>4, <4>1, <5>1
      <4>2. QED
        BY <4>1
    <3>4. Amid("block", source, n, p, e, k + 1, then, more)
      BY <3>1, <3>3 DEF Amid
    <3>5. QED
      BY <2>2, <3>2, <3>4 DEF Further
  <2>5. QED
    BY <2>3, <2>4
<1>5. QED
  BY <1>3, <1>4

\* What is skipped because of a backslash, and what is not.
Escapes(python, source, p, k, in, skip, then, more) ==
  /\ ~Keeps(python, source, in, skip, k + 1)
  /\ Escape(source, p, k + 1) \/ source[k + 1] = "b" =>
       then = in /\ more = IF Escape(source, p, k + 2) THEN 1 ELSE 0
  /\ ~Escape(source, p, k + 1) /\ source[k + 1] # "b" =>
       /\ ~Escape(source, p, k + 2)
       /\ then = InAfter(python, source, in, k + 1)
       /\ more = SkipAfter(python, source, in, k + 1)

LEMMA EscapeTurns ==
  ASSUME NEW python \in BOOLEAN, NEW chars, NEW source \in Seq(chars),
         NEW n \in Nat, n = Len(source), NEW p \in 1 .. n, source[p] # "b",
         NEW k \in p .. n - 1, NEW in \in {"q", "a", "qqq", "aaa"}, NEW skip, NEW then, NEW more,
         skip = IF Escape(source, p, k + 1) THEN 1 ELSE 0,
         Turns(python, source, k + 1, in, skip, then, more)
  PROVE  Escapes(python, source, p, k, in, skip, then, more)
<1>1. source[p] # "b"
  OBVIOUS
<1>2. k + 1 \in p + 1 .. n /\ k + 1 \in 1 .. n /\ (k + 1) + 1 = k + 2
  OBVIOUS
<1>3. \A j \in p + 1 .. n : Escape(source, p, j + 1) <=> source[j] = "b" /\ ~Escape(source, p, j)
  BY <1>1, EscapeStep
<1>4. Escape(source, p, k + 2) <=> source[k + 1] = "b" /\ ~Escape(source, p, k + 1)
  BY <1>2, <1>3
<1>5. ~Keeps(python, source, in, skip, k + 1)
  BY DEF Keeps
<1>6. CASE Escape(source, p, k + 1)
  <2>1. skip = 1 /\ ~Escape(source, p, k + 2)
    BY <1>4, <1>6
  <2>2. then = in /\ more = 0
    BY <2>1 DEF Turns
  <2>3. QED
    BY <1>5, <1>6, <2>1, <2>2 DEF Escapes
<1>7. CASE ~Escape(source, p, k + 1)
  <2>1. skip = 0
    BY <1>7
  <2>2. then = InAfter(python, source, in, k + 1) /\ more = SkipAfter(python, source, in, k + 1)
    BY <2>1 DEF Turns
  <2>3. CASE source[k + 1] = "b"
    <3>1. Scanned!At(source, k + 1, "b")
      BY <1>2, <2>3, AtIs
    <3>2. then = in /\ more = 1
      BY <2>2, <3>1 DEF InAfter, SkipAfter
    <3>3. QED
      BY <1>4, <1>5, <1>7, <2>3, <3>2 DEF Escapes
  <2>4. QED
    BY <1>4, <1>5, <1>7, <2>2, <2>3 DEF Escapes
<1>8. QED
  BY <1>6, <1>7

LEMMA LiteralGoesOn ==
  ASSUME NEW python \in BOOLEAN, NEW chars, NEW source \in Seq(chars),
         NEW n \in Nat, n = Len(source), NEW p \in 1 .. n, NEW kind \in {"q", "a"}, source[p] = kind,
         NEW e, NEW k \in p .. n,
         EndsAt(kind, source, n, p, e), k < e,
         NEW in, NEW skip, NEW then, NEW more,
         Amid(kind, source, n, p, e, k, in, skip),
         Turns(python, source, k + 1, in, skip, then, more)
  PROVE  Further(kind, python, source, n, p, e, k, in, skip, then, more)
<1>1. /\ e \in p .. n /\ (e < n => e \in EndsOf(kind, source, n, p))
      /\ \A j \in EndsOf(kind, source, n, p) : e <= j
  BY DEF EndsAt
<1>2. \A j \in p + 1 .. n :
        j \in EndsOf(kind, source, n, p) <=> source[j] = kind /\ ~Escape(source, p, j)
  BY DEF EndsOf, Triples
<1>3. in = kind /\ skip = IF Escape(source, p, k + 1) THEN 1 ELSE 0
  BY DEF Amid, Triples
<1>4. k \in p .. n - 1 /\ k + 1 \in p + 1 .. n /\ k + 1 \in 1 .. n /\ (k + 1) + 1 = k + 2
  BY <1>1
<1>5. /\ ~Keeps(python, source, in, skip, k + 1)
      /\ Escape(source, p, k + 1) \/ source[k + 1] = "b" =>
           then = in /\ more = IF Escape(source, p, k + 2) THEN 1 ELSE 0
      /\ ~Escape(source, p, k + 1) /\ source[k + 1] # "b" =>
           /\ ~Escape(source, p, k + 2)
           /\ then = InAfter(python, source, in, k + 1)
           /\ more = SkipAfter(python, source, in, k + 1)
  <2>1. in \in {"q", "a", "qqq", "aaa"} /\ source[p] # "b"
    BY <1>3
  <2>2. Escapes(python, source, p, k, in, skip, then, more)
    BY <1>3, <1>4, <2>1, EscapeTurns
  <2>3. QED
    BY <2>2 DEF Escapes
<1>6. CASE k + 1 \in EndsOf(kind, source, n, p)
  <2>1. source[k + 1] = kind /\ ~Escape(source, p, k + 1) /\ e = k + 1
    BY <1>1, <1>2, <1>4, <1>6
  <2>2. Scanned!At(source, k + 1, kind) /\ ~Scanned!At(source, k + 1, "b")
    BY <1>4, <2>1, AtIs
  <2>3. then = "code" /\ more = 0
    BY <1>3, <1>5, <2>1, <2>2 DEF InAfter, SkipAfter, Triples
  <2>4. Clear(source, k + 2, then, more)
    BY <2>3 DEF Clear
  <2>5. QED
    BY <1>4, <1>5, <2>1, <2>4 DEF Further
<1>7. CASE k + 1 \notin EndsOf(kind, source, n, p)
  <2>1. ~(k + 1 = e /\ k + 1 < n)
    BY <1>1, <1>7
  <2>2. then = kind /\ more = IF Escape(source, p, k + 2) THEN 1 ELSE 0
    <3>1. CASE Escape(source, p, k + 1) \/ source[k + 1] = "b"
      BY <1>3, <1>5, <3>1
    <3>2. CASE ~Escape(source, p, k + 1) /\ source[k + 1] # "b"
      <4>1. source[k + 1] # kind
        BY <1>2, <1>4, <1>7, <3>2
      <4>2. ~Scanned!At(source, k + 1, kind) /\ ~Scanned!At(source, k + 1, "b")
        BY <3>2, <4>1, AtIs
      <4>3. QED
        BY <1>3, <1>5, <3>2, <4>2 DEF InAfter, SkipAfter, Triples
    <3>3. QED
      BY <3>1, <3>2
  <2>3. Amid(kind, source, n, p, e, k + 1, then, more)
    BY <1>4, <2>2 DEF Amid, Triples
  <2>4. QED
    BY <1>5, <2>1, <2>3 DEF Further
<1>8. QED
  BY <1>6, <1>7

LEMMA TripleGoesOn ==
  ASSUME NEW python \in BOOLEAN, NEW chars, NEW source \in Seq(chars),
         NEW n \in Nat, n = Len(source), NEW p \in 1 .. n, p + 2 <= n,
         NEW kind \in Triples, Thrice(source, p, QuoteOf(kind)),
         NEW e, NEW k \in p .. n,
         EndsAt(kind, source, n, p, e), k < e,
         NEW in, NEW skip, NEW then, NEW more,
         Amid(kind, source, n, p, e, k, in, skip),
         Turns(python, source, k + 1, in, skip, then, more)
  PROVE  Further(kind, python, source, n, p, e, k, in, skip, then, more)
<1> DEFINE S == EndsOf(kind, source, n, p)
<1>kind. PICK c \in {"q", "a"} : c = QuoteOf(kind)
  BY DEF QuoteOf
<1>at. source[p] # "b" /\ source[p + 2] # "b"
  <2>1. Scanned!At(source, p, c) /\ Scanned!At(source, p + 2, c)
    BY <1>kind DEF Thrice
  <2>2. QED
    BY <1>kind, <2>1, AtIs
<1>1. e \in p .. n /\ (e < n => e \in S) /\ \A j \in S : e <= j
  BY DEF EndsAt
<1>2. /\ \A j \in p + 5 .. n :
           j \in S <=> Thrice(source, j - 2, c) /\ ~Escape(source, p, j - 2)
      /\ e \in S => e >= p + 5
  BY <1>1, <1>kind DEF EndsOf, Triples
<1>3. k \in p .. n - 1 /\ k + 1 \in p + 1 .. n /\ k + 1 \in 1 .. n /\ (k + 1) + 1 = k + 2
  BY <1>1
<1>4. CASE k <= p + 1
  <2>1. in = kind /\ skip = (p + 2) - k
    BY <1>4 DEF Amid, Triples
  <2>2. ~Keeps(python, source, in, skip, k + 1)
    BY <2>1 DEF Keeps, Triples
  <2>3. then = kind /\ more = (p + 2) - (k + 1)
    BY <1>4, <2>1 DEF Turns
  <2>4. ~(k + 1 = e /\ k + 1 < n)
    BY <1>1, <1>2, <1>4
  <2>5. Amid(kind, source, n, p, e, k + 1, then, more)
    <3>1. CASE k = p
      BY <2>3, <3>1 DEF Amid, Triples
    <3>2. CASE k = p + 1
      <4>1. ~Escape(source, p, p + 3)
        <5>1. p + 2 \in p + 1 .. n /\ (p + 2) + 1 = p + 3 /\ source[p] # "b" /\ source[p + 2] # "b"
          BY <1>at
        <5>2. Escape(source, p, (p + 2) + 1) <=> source[p + 2] = "b" /\ ~Escape(source, p, p + 2)
          BY <5>1, EscapeStep
        <5>3. QED
          BY <5>1, <5>2
      <4>2. k + 1 = p + 2 /\ (k + 1) + 1 = p + 3 /\ ~(k + 1 <= p + 1) /\ more = 0
        BY <2>3, <3>2
      <4>3. ~(e \in S /\ k + 1 >= e - 2)
        BY <1>1, <1>2, <4>2
      <4>4. QED
        BY <2>3, <4>1, <4>2, <4>3 DEF Amid, Triples
    <3>3. QED
      BY <1>4, <3>1, <3>2
  <2>6. QED
    BY <2>2, <2>4, <2>5 DEF Further
<1>5. CASE k > p + 1 /\ e \in S /\ k >= e - 2
  <2>1. in = "code" /\ skip = e - k /\ skip \in 1 .. 2
    <3>1. ~(k <= p + 1)
      BY <1>5
    <3>2. in = "code" /\ skip = e - k
      BY <1>5, <3>1 DEF Amid, Triples
    <3>3. QED
      BY <1>1, <1>5, <3>2
  <2>2. ~Keeps(python, source, in, skip, k + 1)
    BY <2>1 DEF Keeps
  <2>3. then = "code" /\ more = e - (k + 1)
    BY <1>1, <2>1 DEF Turns
  <2>4. k + 1 = e => Clear(source, k + 2, then, more)
    BY <1>3, <2>3 DEF Clear
  <2>5. Amid(kind, source, n, p, e, k + 1, then, more)
    <3>1. ~(k + 1 <= p + 1) /\ k + 1 >= e - 2
      BY <1>1, <1>5
    <3>2. QED
      BY <1>5, <2>3, <3>1 DEF Amid, Triples
  <2>6. QED
    BY <2>2, <2>4, <2>5 DEF Further
<1>6. CASE k > p + 1 /\ ~(e \in S /\ k >= e - 2)
  <2>0. ~(k <= p + 1) /\ ~(k + 1 <= p + 1)
    BY <1>6
  <2>1. in = kind /\ skip = IF Escape(source, p, k + 1) THEN 1 ELSE 0
    BY <1>6, <2>0 DEF Amid, Triples
  <2>2. Escapes(python, source, p, k, in, skip, then, more)
    <3>1. in \in {"q", "a", "qqq", "aaa"}
      BY <2>1 DEF Triples
    <3>2. QED
      BY <1>3, <1>at, <2>1, <3>1, EscapeTurns
  <2>3. /\ ~Keeps(python, source, in, skip, k + 1)
        /\ Escape(source, p, k + 1) \/ source[k + 1] = "b" =>
             then = in /\ more = IF Escape(source, p, k + 2) THEN 1 ELSE 0
        /\ ~Escape(source, p, k + 1) /\ source[k + 1] # "b" =>
             /\ ~Escape(source, p, k + 2)
             /\ then = InAfter(python, source, in, k + 1)
             /\ more = SkipAfter(python, source, in, k + 1)
    BY <2>2 DEF Escapes
  <2>4. ~(k + 1 = e /\ k + 1 < n)
    BY <1>1, <1>6
  <2>5. CASE Thrice(source, k + 1, c) /\ ~Escape(source, p, k + 1)
    <3>1. /\ Scanned!At(source, k + 1, c) /\ k + 3 \in 1 .. n /\ (k + 3) - 2 = k + 1
          /\ ~Scanned!At(source, k + 1, "b") /\ source[k + 1] # "b"
      <4>1. Scanned!At(source, k + 1, c) /\ Scanned!At(source, (k + 1) + 2, c)
        BY <2>5 DEF Thrice
      <4>2. (k + 1) + 2 = k + 3 /\ (k + 3) - 2 = k + 1
        BY <1>3
      <4>3. QED
        BY <1>kind, <4>1, <4>2, AtIs
    <3>2. k + 3 \in p + 5 .. n
      BY <1>6, <3>1
    <3>3. k + 3 \in S
      BY <1>2, <2>5, <3>1, <3>2
    <3>4. e = k + 3 /\ e \in S
      <4>1. e <= k + 3
        BY <1>1, <3>3
      <4>2. CASE e < k + 3
        <5>1. e < n
          BY <1>1, <3>2, <4>2
        <5>2. QED
          BY <1>1, <1>3, <1>6, <4>2, <5>1
      <4>3. QED
        BY <1>1, <3>2, <3>3, <4>1, <4>2
    <3>5. then = "code" /\ more = 2
      BY <1>kind, <2>1, <2>3, <2>5, <3>1 DEF InAfter, SkipAfter, Triples
    <3>6. k + 1 >= e - 2 /\ more = e - (k + 1)
      BY <1>3, <3>4, <3>5
    <3>7. Amid(kind, source, n, p, e, k + 1, then, more)
      BY <2>0, <3>4, <3>5, <3>6 DEF Amid, Triples
    <3>8. QED
      BY <2>3, <2>4, <3>7 DEF Further
  <2>6. CASE ~(Thrice(source, k + 1, c) /\ ~Escape(source, p, k + 1))
    <3>1. then = kind /\ more = IF Escape(source, p, k + 2) THEN 1 ELSE 0
      <4>1. CASE Escape(source, p, k + 1) \/ source[k + 1] = "b"
        BY <2>1, <2>3, <4>1
      <4>2. CASE ~Escape(source, p, k + 1) /\ source[k + 1] # "b"
        <5>1. ~Scanned!At(source, k + 1, "b") /\ ~Thrice(source, k + 1, c)
          BY <2>6, <4>2, AtIs
        <5>2. QED
          BY <1>kind, <2>1, <2>3, <4>2, <5>1 DEF InAfter, SkipAfter, Triples
      <4>3. QED
        BY <4>1, <4>2
    <3>2. ASSUME k + 1 < e PROVE Amid(kind, source, n, p, e, k + 1, then, more)
      <4>1. ASSUME e \in S, k + 1 >= e - 2 PROVE FALSE
        <5>1. e - 2 = k + 1 /\ e \in p + 5 .. n
          BY <1>1, <1>2, <1>3, <1>6, <4>1
        <5>2. Thrice(source, e - 2, c) /\ ~Escape(source, p, e - 2)
          BY <1>2, <4>1, <5>1
        <5>3. QED
          BY <2>6, <5>1, <5>2
      <4>2. QED
        BY <1>3, <2>0, <3>1, <4>1 DEF Amid, Triples
    <3>3. QED
      BY <2>3, <2>4, <3>2 DEF Further
  <2>7. QED
    BY <2>5, <2>6
<1>7. QED
  BY <1>4, <1>5, <1>6

\* Whatever it is.
LEMMA PieceGoesOn ==
  ASSUME NEW python \in BOOLEAN, NEW chars, NEW source \in Seq(chars),
         NEW n \in Nat, n = Len(source), NEW p \in 1 .. n,
         ~(Scanned!StartsBlockComment(python, source, p) /\ Scanned!At(source, p + 2, "slash")),
         NEW kind, kind = InAfter(python, source, "code", p), kind # "code",
         NEW e, NEW k \in p .. n, EndsAt(kind, source, n, p, e), k < e,
         NEW in, NEW skip, NEW then, NEW more,
         Amid(kind, source, n, p, e, k, in, skip),
         Turns(python, source, k + 1, in, skip, then, more)
  PROVE  Further(kind, python, source, n, p, e, k, in, skip, then, more)
<1>1. CASE kind = "line"
  BY <1>1, LineGoesOn
<1>2. CASE kind = "block"
  <2>1. ~Scanned!At(source, p + 2, "slash")
    BY <1>2 DEF InAfter
  <2>2. QED
    BY <1>2, <2>1, BlockGoesOn
<1>3. CASE kind \in Triples
  <2>1. Thrice(source, p, QuoteOf(kind))
    BY <1>3 DEF InAfter, Triples, QuoteOf
  <2>2. p + 2 <= n
    BY <2>1, AtIs DEF Thrice
  <2>3. QED
    BY <1>3, <2>1, <2>2, TripleGoesOn
<1>4. CASE kind \in {"q", "a"}
  <2>1. Scanned!At(source, p, kind)
    BY <1>4 DEF InAfter
  <2>2. source[p] = kind
    BY <2>1, AtIs
  <2>3. QED
    BY <1>4, <2>2, LiteralGoesOn
<1>5. QED
  BY <1>1, <1>2, <1>3, <1>4 DEF InAfter, Triples

\* What begins at p, for the scan that comes to it.
Opened(kind, python, source, n, p, e, in, skip, then, more) ==
  /\ e >= p /\ (Keeps(python, source, in, skip, p) <=> ~Begins(python, source, p))
  /\ e = p /\ p < n => Clear(source, p + 1, then, more)
  /\ e > p => Begins(python, source, p) /\ Amid(kind, source, n, p, e, p, then, more)

LEMMA KindIs ==
  ASSUME NEW python \in BOOLEAN, NEW chars, NEW source \in Seq(chars),
         NEW n \in Nat, n = Len(source), NEW p \in 1 .. n,
         NEW kind, kind = InAfter(python, source, "code", p)
  PROVE  /\ kind = "code" <=> ~Begins(python, source, p)
         /\ kind = "code" => SkipAfter(python, source, "code", p) = 0
         /\ Scanned!At(source, p, "n") => kind = "code"
<1>1. \A c : Thrice(source, p, c) => Scanned!At(source, p, c)
  BY DEF Thrice
<1>2. (kind = "code" <=> ~Begins(python, source, p))
      /\ (kind = "code" => SkipAfter(python, source, "code", p) = 0)
  BY <1>1 DEF InAfter, SkipAfter, Begins
<1>3. Scanned!StartsLineComment(python, source, p) \/ Scanned!StartsBlockComment(python, source, p)
        => Scanned!At(source, p, "hash") \/ Scanned!At(source, p, "slash")
  BY GlyphsAre DEF Scanned!StartsLineComment, Scanned!StartsBlockComment
<1>4. ASSUME Scanned!At(source, p, "n") PROVE ~Begins(python, source, p)
  <2>1. source[p] = "n"
    BY <1>4, AtIs
  <2>2. /\ ~Scanned!At(source, p, "hash") /\ ~Scanned!At(source, p, "slash")
        /\ ~Scanned!At(source, p, "q") /\ ~Scanned!At(source, p, "a")
    BY <2>1, AtIs
  <2>3. QED
    BY <1>3, <2>2 DEF Begins
<1>5. QED
  BY <1>2, <1>4

LEMMA PieceOpens ==
  ASSUME NEW python \in BOOLEAN, NEW chars, NEW source \in Seq(chars),
         NEW n \in Nat, n = Len(source), NEW p \in 1 .. n,
         NEW kind, kind = InAfter(python, source, "code", p),
         NEW e, EndsAt(kind, source, n, p, e),
         NEW in, NEW skip, NEW then, NEW more,
         Clear(source, p, in, skip),
         Turns(python, source, p, in, skip, then, more)
  PROVE  Opened(kind, python, source, n, p, e, in, skip, then, more)
<1>1. /\ kind = "code" <=> ~Begins(python, source, p)
      /\ kind = "code" => SkipAfter(python, source, "code", p) = 0
      /\ Scanned!At(source, p, "n") => kind = "code"
  BY KindIs
<1>2. skip = 0 /\ (in = "code" \/ (in = "line" /\ Scanned!At(source, p, "n")))
  BY DEF Clear
<1>3. then = InAfter(python, source, in, p) /\ more = SkipAfter(python, source, in, p)
  BY <1>2 DEF Turns
<1>4. Keeps(python, source, in, skip, p) <=> ~Begins(python, source, p)
  BY <1>1, <1>2 DEF Keeps
<1>5. CASE kind = "code"
  <2>1. then = "code" /\ more = 0
    <3>1. CASE in = "code"
      BY <1>1, <1>3, <1>5, <3>1
    <3>2. CASE in = "line" /\ Scanned!At(source, p, "n")
      BY <1>3, <3>2 DEF InAfter, SkipAfter
    <3>3. QED
      BY <1>2, <3>1, <3>2
  <2>2. e = p
    BY <1>5 DEF EndsAt
  <2>3. Clear(source, p + 1, then, more)
    BY <2>1 DEF Clear
  <2>4. QED
    BY <1>4, <2>2, <2>3 DEF Opened
<1>6. CASE kind # "code"
  <2>1. in = "code" /\ Begins(python, source, p)
    BY <1>1, <1>2, <1>6
  <2>2. then = kind /\ more = SkipAfter(python, source, "code", p)
    BY <1>3, <2>1
  <2>3. e \in p .. n /\ (e < n => e \in EndsOf(kind, source, n, p))
    BY <1>6 DEF EndsAt
  <2>4. CASE kind = "line"
    <3>1. then = "line" /\ more = 0
      BY <2>2, <2>4 DEF InAfter, SkipAfter
    <3>2. ASSUME e = p, p < n PROVE Clear(source, p + 1, then, more)
      <4>1. source[p + 1] = "n" /\ p + 1 \in 1 .. n
        BY <2>3, <2>4, <3>2 DEF EndsOf
      <4>2. QED
        BY <3>1, <4>1, AtIs DEF Clear
    <3>3. Amid(kind, source, n, p, e, p, then, more)
      BY <2>4, <3>1 DEF Amid
    <3>4. QED
      BY <1>4, <2>1, <2>3, <3>2, <3>3 DEF Opened
  <2>5. CASE kind = "block"
    <3>1. then = "block" /\ more = 0
      BY <2>2, <2>5 DEF InAfter, SkipAfter
    <3>2. p + 1 \in 1 .. n
      <4>1. Scanned!At(source, p + 1, "star")
        BY <2>5, GlyphsAre DEF InAfter, Scanned!StartsBlockComment
      <4>2. QED
        BY <4>1, AtIs
    <3>3. e \in EndsOf("block", source, n, p) => e >= p + 3
      BY DEF EndsOf
    <3>4. e # p
      BY <2>3, <2>5, <3>2, <3>3
    <3>5. ~(p = e - 1 /\ e \in EndsOf("block", source, n, p))
      BY <2>3, <3>3
    <3>6. Amid(kind, source, n, p, e, p, then, more)
      BY <2>5, <3>1, <3>5 DEF Amid
    <3>7. QED
      BY <1>4, <2>1, <2>3, <3>4, <3>6 DEF Opened
  <2>6. CASE kind \in Triples
    <3>1. then = kind /\ more = 2
      BY <2>2, <2>6 DEF InAfter, SkipAfter, Triples
    <3>2. p + 2 \in 1 .. n
      <4>1. \E c : Thrice(source, p, c)
        BY <2>6 DEF InAfter, Triples
      <4>2. QED
        BY <4>1, AtIs DEF Thrice
    <3>3. e \in EndsOf(kind, source, n, p) => e >= p + 5
      BY <2>6 DEF EndsOf, Triples
    <3>4. e # p
      BY <2>3, <2>6, <3>2, <3>3
    <3>5. p <= p + 1 /\ (p + 2) - p = 2
      OBVIOUS
    <3>6. Amid(kind, source, n, p, e, p, then, more)
      BY <2>6, <3>1, <3>5 DEF Amid, Triples
    <3>7. QED
      BY <1>4, <2>1, <2>3, <3>4, <3>6 DEF Opened
  <2>7. CASE kind \in {"q", "a"}
    <3>1. then = kind /\ more = 0
      BY <2>2, <2>7 DEF InAfter, SkipAfter, Triples
    <3>2. e \in EndsOf(kind, source, n, p) => e >= p + 1
      BY <2>7 DEF EndsOf, Triples
    <3>3. ~(e = p /\ p < n)
      BY <2>3, <2>7, <3>2
    <3>4. source[p] # "b"
      <4>1. Scanned!At(source, p, kind)
        BY <2>7 DEF InAfter
      <4>2. QED
        BY <2>7, <4>1, AtIs
    <3>5. ~Escape(source, p, p + 1)
      BY <3>4, EscapeStep
    <3>6. Amid(kind, source, n, p, e, p, then, more)
      BY <2>7, <3>1, <3>5 DEF Amid, Triples
    <3>7. QED
      BY <1>4, <2>1, <2>3, <3>3, <3>6 DEF Opened
  <2>8. QED
    BY <1>6, <2>4, <2>5, <2>6, <2>7 DEF InAfter, Triples
<1>7. QED
  BY <1>5, <1>6

\* Where a comment, a literal or a character of neither begins, as InPlace has it.
Ending(python, source, n) == [i \in 1 .. n |-> Scanned!EndOf(python, source, i)]
Starts(python, source) ==
  Scanned!FoldLeft(LAMBDA S, i : IF i \in S THEN S \cup {Scanned!EndOf(python, source, i) + 1} ELSE S,
                   {1}, [i \in 1 .. Len(source) |-> i])

EndsWhereItShould(python, source, n) ==
  /\ Ending(python, source, n) \in [1 .. n -> 1 .. n]
  /\ \A i \in 1 .. n :
       /\ Ending(python, source, n)[i] = Scanned!EndOf(python, source, i)
       /\ Scanned!EndOf(python, source, i) \in 1 .. n
       /\ EndsAt(InAfter(python, source, "code", i), source, n, i, Ending(python, source, n)[i])

LEMMA EndingIs ==
  ASSUME NEW python \in BOOLEAN, NEW chars, NEW source \in Seq(chars),
         NEW n \in Nat, n = Len(source)
  PROVE  EndsWhereItShould(python, source, n)
<1>1. ASSUME NEW i \in 1 .. n
      PROVE  /\ EndsAt(InAfter(python, source, "code", i), source, n, i, Scanned!EndOf(python, source, i))
             /\ Scanned!EndOf(python, source, i) \in 1 .. n
  <2>1. PICK kind : kind = InAfter(python, source, "code", i)
    OBVIOUS
  <2>2. PICK e : e = Scanned!EndOf(python, source, i)
    OBVIOUS
  <2>3. EndsAt(kind, source, n, i, e)
    BY <2>1, <2>2, EndIs
  <2>4. e \in 1 .. n
    BY <2>3 DEF EndsAt
  <2>5. QED
    BY <2>1, <2>2, <2>3, <2>4
<1>2. \A i \in 1 .. n : Ending(python, source, n)[i] = Scanned!EndOf(python, source, i)
  BY DEF Ending
<1>3. Ending(python, source, n) \in [1 .. n -> 1 .. n]
  BY <1>1 DEF Ending
<1>4. QED
  BY <1>1, <1>2, <1>3 DEF EndsWhereItShould

LEMMA StartsWalk ==
  ASSUME NEW python \in BOOLEAN, NEW chars, NEW source \in Seq(chars),
         NEW n \in Nat, n = Len(source), NEW E, E = Ending(python, source, n)
  PROVE  \E w \in [0 .. n -> SUBSET Nat] : Tiling(n, E, w) /\ w[n] = Starts(python, source)
<1> DEFINE V == SUBSET Nat
           more(S, i) == IF i \in S THEN S \cup {Scanned!EndOf(python, source, i) + 1} ELSE S
           step == [t \in (1 .. n) \X V |-> more(t[2], t[1])]
           body(g) == [T \in SUBSET (DOMAIN [i \in 1 .. Len(source) |-> i]) |->
                         IF T = {} THEN {1}
                         ELSE LET x == Last(T)
                              IN more(g[T \ {x}], [i \in 1 .. Len(source) |-> i][x])]
           iter == CHOOSE g : g = body(g)
<1>1. /\ DOMAIN [i \in 1 .. Len(source) |-> i] = 1 .. n
      /\ \A x \in 1 .. n : [i \in 1 .. Len(source) |-> i][x] = x
  OBVIOUS
<1>2. {1} \in V
  OBVIOUS
<1>3. step \in [(1 .. n) \X V -> V]
  <2>1. \A i \in 1 .. n : Scanned!EndOf(python, source, i) + 1 \in Nat
    <3>1. \A i \in 1 .. n : Scanned!EndOf(python, source, i) \in 1 .. n
      BY EndingIs DEF EndsWhereItShould
    <3>2. QED
      BY <3>1
  <2>2. \A S \in V, i \in 1 .. n : more(S, i) \in V
    BY <2>1
  <2> HIDE DEF more
  <2>3. \A t \in (1 .. n) \X V : more(t[2], t[1]) \in V
    BY <2>2
  <2>4. QED
    BY <2>3
<1>4. \A t \in (1 .. n) \X V : step[t] = more(t[2], t[1])
  OBVIOUS
<1>5. iter = CHOOSE g : g = body(g)
  OBVIOUS
<1>12. Starts(python, source) = iter[1 .. n]
  <2>1. Starts(python, source) = iter[DOMAIN [i \in 1 .. Len(source) |-> i]]
    BY DEF Starts, Scanned!FoldLeft, Scanned!MapThenFoldSet, Scanned!Max, Last, iter, body
  <2>2. QED
    BY <1>1, <2>1
<1> HIDE DEF V, step, more, body, iter
<1>6. PICK base \in V : base = {1}
  BY <1>2
<1>7. PICK g \in [SUBSET (1 .. n) -> V] : Peels(n, V, base, step, g)
  BY <1>3, Walk
<1>8. \A T \in (SUBSET (1 .. n)) \ {{}} : Last(T) \in T
  BY LastIs
<1>9. g = body(g)
  <2>1. \A T \in (SUBSET (1 .. n)) \ {{}} :
          g[T] = more(g[T \ {Last(T)}], [i \in 1 .. Len(source) |-> i][Last(T)])
    <3>1. ASSUME NEW T \in (SUBSET (1 .. n)) \ {{}}
          PROVE  g[T] = more(g[T \ {Last(T)}], [i \in 1 .. Len(source) |-> i][Last(T)])
      <4>1. PICK x \in 1 .. n : x = Last(T) /\ [i \in 1 .. Len(source) |-> i][x] = x
        BY <1>1, <1>8
      <4>2. PICK v \in V : v = g[T \ {x}]
        OBVIOUS
      <4>3. g[T] = step[<<x, v>>]
        BY <1>7, <4>1, <4>2 DEF Peels
      <4>4. step[<<x, v>>] = more(v, x)
        BY <1>4
      <4>5. QED
        BY <4>1, <4>2, <4>3, <4>4
    <3>2. QED
      BY <3>1
  <2>2. g = [T \in SUBSET (1 .. n) |-> g[T]] /\ g[{}] = {1}
    BY <1>6, <1>7 DEF Peels
  <2>3. QED
    BY <1>1, <2>1, <2>2 DEF body
<1>10. iter = body(iter)
  BY <1>5, <1>9
<1>11. Peels(n, V, base, step, iter)
  <2>1. iter[{}] = base
    BY <1>6, <1>10 DEF body
  <2>2. ASSUME NEW T \in (SUBSET (1 .. n)) \ {{}}, iter[T \ {Last(T)}] \in V
        PROVE  iter[T] = step[<<Last(T), iter[T \ {Last(T)}]>>]
    <3>1. iter[T] = more(iter[T \ {Last(T)}], [i \in 1 .. Len(source) |-> i][Last(T)])
      BY <1>1, <1>10 DEF body
    <3>2. PICK x \in 1 .. n : x = Last(T) /\ [i \in 1 .. Len(source) |-> i][x] = x
      BY <1>1, <1>8
    <3>3. PICK v \in V : v = iter[T \ {x}]
      BY <2>2, <3>2
    <3>4. step[<<x, v>>] = more(v, x)
      BY <1>4
    <3>5. QED
      BY <3>1, <3>2, <3>3, <3>4
  <2>3. QED
    BY <2>1, <2>2 DEF Peels
<1>13. PICK w \in [0 .. n -> V] : Walks(n, base, step, w, iter[1 .. n])
  BY <1>3, <1>11, Walked
<1>14. ASSUME NEW k \in 0 .. n - 1
       PROVE  w[k + 1] = IF k + 1 \in w[k] THEN w[k] \cup {E[k + 1] + 1} ELSE w[k]
  <2>1. k + 1 \in 1 .. n /\ k \in 0 .. n
    OBVIOUS
  <2>2. PICK v \in V : v = w[k]
    BY <2>1
  <2>3. w[k + 1] = step[<<k + 1, v>>]
    BY <1>13, <2>2 DEF Walks
  <2>4. step[<<k + 1, v>>] = more(v, k + 1)
    <3>1. PICK x \in 1 .. n : x = k + 1
      BY ONLY <2>1
    <3>2. step[<<x, v>>] = more(v, x)
      BY <1>4
    <3>3. QED
      BY ONLY <3>1, <3>2
  <2>5. E[k + 1] = Scanned!EndOf(python, source, k + 1)
    BY <2>1 DEF Ending
  <2>6. QED
    BY <2>2, <2>3, <2>4, <2>5 DEF more
<1>15. w[0] = {1} /\ w[n] = Starts(python, source)
  BY <1>6, <1>12, <1>13 DEF Walks
<1>16. QED
  BY <1>14, <1>15 DEF V, Tiling

\* What is not kept is in what begins and hides, and the other way round.
LEMMA HiddenIs ==
  ASSUME NEW python \in BOOLEAN, NEW chars, NEW source \in Seq(chars),
         NEW n \in Nat, n = Len(source), NEW h \in [0 .. n -> ScansOf(chars)],
         Scans(python, source, n, h),
         \A p \in 1 .. n :
           ~(Scanned!StartsBlockComment(python, source, p) /\ Scanned!At(source, p + 2, "slash"))
  PROVE  \A i \in 1 .. n :
           ~Keeps(python, source, h[i - 1].in, h[i - 1].skip, i)
             <=> \E p \in Starts(python, source) :
                   p \in 1 .. n /\ Begins(python, source, p) /\ i \in p .. Scanned!EndOf(python, source, p)
<1>1. PICK E \in [1 .. n -> 1 .. n] : E = Ending(python, source, n)
  <2>1. Ending(python, source, n) \in [1 .. n -> 1 .. n]
    BY EndingIs DEF EndsWhereItShould
  <2>2. QED
    BY <2>1
<1>2. \A i \in 1 .. n : /\ E[i] = Scanned!EndOf(python, source, i)
                        /\ EndsAt(InAfter(python, source, "code", i), source, n, i, E[i])
  <2>1. \A i \in 1 .. n :
          /\ Ending(python, source, n)[i] = Scanned!EndOf(python, source, i)
          /\ EndsAt(InAfter(python, source, "code", i), source, n, i, Ending(python, source, n)[i])
    <3>1. EndsWhereItShould(python, source, n)
      BY EndingIs
    <3>2. QED
      BY ONLY <3>1 DEF EndsWhereItShould
  <2>2. E = Ending(python, source, n)
    BY ONLY <1>1
  <2>3. QED
    BY ONLY <2>1, <2>2
<1>3. PICK w \in [0 .. n -> SUBSET Nat] : Tiling(n, E, w) /\ w[n] = Starts(python, source)
  <2>1. E = Ending(python, source, n)
    BY ONLY <1>1
  <2>2. \E w \in [0 .. n -> SUBSET Nat] : Tiling(n, E, w) /\ w[n] = Starts(python, source)
    BY <2>1, StartsWalk
  <2>3. QED
    BY ONLY <2>2
<1> DEFINE kind(p) == InAfter(python, source, "code", p)
           keeps == {i \in 1 .. n : Keeps(python, source, h[i - 1].in, h[i - 1].skip, i)}
           hides == {i \in 1 .. n : Begins(python, source, i)}
           free == {p \in 1 .. n + 1 : p <= n => Clear(source, p, h[p - 1].in, h[p - 1].skip)}
           inner == {t \in (1 .. n) \X (1 .. n) :
                       /\ kind(t[1]) # "code"
                       /\ Amid(kind(t[1]), source, n, t[1], E[t[1]], t[2], h[t[2]].in, h[t[2]].skip)}
<1>4. \A i \in 1 .. n :
        Turns(python, source, i, h[i - 1].in, h[i - 1].skip, h[i].in, h[i].skip)
  <2>1. ASSUME NEW i \in 1 .. n
        PROVE  Turns(python, source, i, h[i - 1].in, h[i - 1].skip, h[i].in, h[i].skip)
    <3>1. i - 1 \in 0 .. n - 1 /\ (i - 1) + 1 = i
      OBVIOUS
    <3>2. Stepped(python, source, h[i - 1], i, h[i])
      BY <3>1 DEF Scans
    <3>3. QED
      BY <3>2 DEF Stepped, Turns
  <2>2. QED
    BY <2>1
<1>5. 1 \in free
  <2>1. h[0].in = "code" /\ h[0].skip = 0 /\ 1 - 1 = 0
    BY DEF Scans, Rest
  <2>2. Clear(source, 1, h[1 - 1].in, h[1 - 1].skip)
    BY <2>1 DEF Clear
  <2>3. QED
    BY <2>2
<1>6. AllEnter(n, E, keeps, hides, free, inner)
  <2>1. ASSUME NEW p \in 1 .. n, p \in free PROVE Enters(E, keeps, hides, free, inner, p)
    <3>1. PICK x : x = kind(p)
      OBVIOUS
    <3>2. PICK e \in 1 .. n : e = E[p]
      OBVIOUS
    <3>3. EndsAt(x, source, n, p, e)
      BY <1>2, <3>1, <3>2
    <3>4. Clear(source, p, h[p - 1].in, h[p - 1].skip)
      BY <2>1
    <3>5. Turns(python, source, p, h[p - 1].in, h[p - 1].skip, h[p].in, h[p].skip)
      BY <1>4
    <3>6. Opened(x, python, source, n, p, e, h[p - 1].in, h[p - 1].skip, h[p].in, h[p].skip)
      BY <3>1, <3>3, <3>4, <3>5, PieceOpens
    <3>7. /\ e >= p /\ (Keeps(python, source, h[p - 1].in, h[p - 1].skip, p)
                          <=> ~Begins(python, source, p))
          /\ e = p /\ p < n => Clear(source, p + 1, h[p].in, h[p].skip)
          /\ e > p => /\ Begins(python, source, p)
                      /\ Amid(x, source, n, p, e, p, h[p].in, h[p].skip)
      BY <3>6 DEF Opened
    <3>8. p \in keeps <=> p \notin hides
      BY <3>7
    <3>9. e = p => p + 1 \in free
      <4>1. p + 1 \in 1 .. n + 1 /\ (p + 1) - 1 = p /\ (p + 1 <= n => p < n)
        OBVIOUS
      <4>2. QED
        BY <3>7, <4>1
    <3>10. e > p => p \in hides /\ <<p, p>> \in inner
      <4>1. Begins(python, source, p) => x # "code"
        BY <3>1, KindIs
      <4>2. QED
        BY <3>1, <3>2, <3>7, <4>1
    <3>11. QED
      BY <3>2, <3>7, <3>8, <3>9, <3>10 DEF Enters
  <2> HIDE DEF keeps, hides, free, inner
  <2>2. QED
    BY <2>1 DEF AllEnter
<1>7. AllGoOn(n, E, keeps, free, inner)
  <2>1. ASSUME NEW p \in 1 .. n, NEW k \in 1 .. n, <<p, k>> \in inner, p <= k, k < E[p]
        PROVE  GoesOn(E, keeps, free, inner, p, k)
    <3>1. PICK x : x = kind(p)
      OBVIOUS
    <3>2. PICK e \in 1 .. n : e = E[p]
      OBVIOUS
    <3>3. EndsAt(x, source, n, p, e) /\ k < e /\ k \in p .. n
      BY <1>2, <2>1, <3>1, <3>2
    <3>4. x # "code" /\ Amid(x, source, n, p, e, k, h[k].in, h[k].skip)
      BY <2>1, <3>1, <3>2
    <3>5. k + 1 \in 1 .. n /\ (k + 1) - 1 = k /\ (k + 1) + 1 = k + 2
      BY <3>3
    <3>6. Turns(python, source, k + 1, h[k].in, h[k].skip, h[k + 1].in, h[k + 1].skip)
      <4>1. Turns(python, source, k + 1, h[(k + 1) - 1].in, h[(k + 1) - 1].skip,
                  h[k + 1].in, h[k + 1].skip)
        BY <1>4, <3>5
      <4>2. QED
        BY <3>5, <4>1
    <3>7. ~(Scanned!StartsBlockComment(python, source, p) /\ Scanned!At(source, p + 2, "slash"))
      OBVIOUS
    <3>8. Further(x, python, source, n, p, e, k, h[k].in, h[k].skip, h[k + 1].in, h[k + 1].skip)
      BY <3>1, <3>3, <3>4, <3>6, <3>7, PieceGoesOn
    <3>9. /\ ~Keeps(python, source, h[k].in, h[k].skip, k + 1)
          /\ k + 1 = e /\ k + 1 < n => Clear(source, k + 2, h[k + 1].in, h[k + 1].skip)
          /\ k + 1 < e => Amid(x, source, n, p, e, k + 1, h[k + 1].in, h[k + 1].skip)
      BY <3>8 DEF Further
    <3>10. k + 1 \notin keeps
      BY <3>5, <3>9
    <3>11. k + 1 = e => k + 2 \in free
      <4>1. k + 2 \in 1 .. n + 1 /\ (k + 2) - 1 = k + 1 /\ (k + 2 <= n => k + 1 < n)
        BY <3>5
      <4>2. QED
        BY <3>9, <4>1
    <3>12. k + 1 < e => <<p, k + 1>> \in inner
      BY <3>1, <3>2, <3>4, <3>5, <3>9
    <3>13. QED
      BY <3>2, <3>10, <3>11, <3>12 DEF GoesOn
  <2> HIDE DEF keeps, free, inner
  <2>2. QED
    BY <2>1 DEF AllGoOn
<1>8. TellsAll(n, E, keeps, hides, w[n])
  <2> HIDE DEF keeps, hides, free, inner
  <2>1. QED
    BY <1>3, <1>5, <1>6, <1>7, Tiled
<1>9. ASSUME NEW i \in 1 .. n
      PROVE  ~Keeps(python, source, h[i - 1].in, h[i - 1].skip, i)
               <=> \E p \in Starts(python, source) :
                     p \in 1 .. n /\ Begins(python, source, p)
                       /\ i \in p .. Scanned!EndOf(python, source, p)
  <2>1. i \notin keeps <=> \E p \in Starts(python, source) :
                              p \in 1 .. n /\ p \in hides /\ i \in p .. E[p]
    <3> HIDE DEF keeps, hides
    <3>1. QED
      BY <1>3, <1>8 DEF TellsAll
  <2>2. i \in keeps <=> Keeps(python, source, h[i - 1].in, h[i - 1].skip, i)
    OBVIOUS
  <2>3. \A p \in 1 .. n : /\ p \in hides <=> Begins(python, source, p)
                          /\ E[p] = Scanned!EndOf(python, source, p)
    BY <1>2
  <2>4. PICK St : St = Starts(python, source)
    OBVIOUS
  <2> HIDE DEF keeps, hides, free, inner, kind
  <2>5. ASSUME i \notin keeps
        PROVE  \E p \in St : p \in 1 .. n /\ Begins(python, source, p)
                               /\ i \in p .. Scanned!EndOf(python, source, p)
    <3>1. PICK p \in St : p \in 1 .. n /\ p \in hides /\ i \in p .. E[p]
      BY <2>1, <2>4, <2>5
    <3>2. QED
      BY <2>3, <3>1
  <2>6. ASSUME NEW p \in St, p \in 1 .. n, Begins(python, source, p),
               i \in p .. Scanned!EndOf(python, source, p)
        PROVE  i \notin keeps
    <3>1. p \in hides /\ E[p] = Scanned!EndOf(python, source, p)
      BY <2>3, <2>6
    <3>2. \E x \in St : x \in 1 .. n /\ x \in hides /\ i \in x .. E[x]
      BY <2>6, <3>1
    <3>3. QED
      BY <2>1, <2>4, <3>2
  <2>7. QED
    BY <2>2, <2>4, <2>5, <2>6
<1>10. QED
  BY <1>9

\* Stripping leaves everything where it is, whatever the source.
LEMMA EverySourceInPlace ==
  ASSUME NEW python \in BOOLEAN, NEW chars, "blank" \in chars, NEW source \in Seq(chars)
  PROVE  Scanned!InPlace(python, source)
<1>1. PICK n \in Nat : n = Len(source)
  OBVIOUS
<1> DEFINE text == Scanned!Strip(python, source)
           legal == \A i \in 1 .. Len(source) :
                      ~(Scanned!StartsBlockComment(python, source, i)
                          /\ Scanned!At(source, i + 2, Scanned!Slash))
           begin == {j \in Starts(python, source) :
                       j <= Len(source) /\ \/ Scanned!StartsLineComment(python, source, j)
                                           \/ Scanned!StartsBlockComment(python, source, j)
                                           \/ \E quote \in Scanned!Quotes : Scanned!At(source, j, quote)}
           hidden == UNION {i .. Scanned!EndOf(python, source, i) : i \in begin}
<1>2. Scanned!InPlace(python, source) <=>
        /\ Len(text) = Len(source)
        /\ \A i \in 1 .. Len(source) : Scanned!LineOf(text, i) = Scanned!LineOf(source, i)
        /\ Scanned!Strip(python, text) = text
        /\ legal => \A i \in 1 .. Len(source) :
             text[i] = IF i \in hidden THEN Scanned!Blanked(source[i]) ELSE source[i]
  BY DEF Scanned!InPlace, Starts
<1>3. PICK h \in [0 .. n -> ScansOf(chars)] : Scans(python, source, n, h)
  BY <1>1, StrippingWalks
<1>4. Bare(python, source, n, h, text)
  BY <1>1, <1>3, ShownIs
<1>5. PICK t \in Seq(chars) : t = text
  <2>1. h[n].out \in Seq(chars)
    BY DEF ScansOf
  <2>2. text \in Seq(chars)
    BY <1>3, <2>1 DEF Scans
  <2>3. QED
    BY <2>2
<1> HIDE DEF text
<1>6. Bare(python, source, n, h, t)
  BY <1>4, <1>5
<1>7. Len(t) = n /\ \A i \in 1 .. n : Scanned!LineOf(t, i) = Scanned!LineOf(source, i)
  <2>1. \A i \in 1 .. n : Scanned!LineOf(t, i) = Scanned!LineOf(source, i)
    BY <1>6, ShownOnItsLine
  <2>2. QED
    BY <1>6, <2>1 DEF Bare
<1>8. Scanned!Strip(python, t) = t
  <2>1. \A i \in 1 .. n : ~Begins(python, t, i)
    BY <1>1, <1>6, NothingBegins
  <2>2. QED
    BY <1>7, <2>1, StrippedOnce
<1>9. ASSUME legal, NEW i \in 1 .. n
      PROVE  t[i] = IF i \in hidden THEN Scanned!Blanked(source[i]) ELSE source[i]
  <2>1. \A p \in 1 .. n :
          ~(Scanned!StartsBlockComment(python, source, p) /\ Scanned!At(source, p + 2, "slash"))
    BY <1>1, <1>9, GlyphsAre
  <2>2. ~Keeps(python, source, h[i - 1].in, h[i - 1].skip, i)
          <=> \E p \in Starts(python, source) :
                p \in 1 .. n /\ Begins(python, source, p) /\ i \in p .. Scanned!EndOf(python, source, p)
    BY <1>1, <1>3, <2>1, HiddenIs
  <2>3. \A p : p \in begin <=>
          p \in Starts(python, source) /\ p \in 1 .. n /\ Begins(python, source, p)
    <3>1. \A p : Begins(python, source, p) => p \in 1 .. n
      <4>1. \A p, c : Scanned!At(source, p, c) => p \in 1 .. n
        BY <1>1, AtIs
      <4>2. QED
        BY <4>1 DEF Begins, Scanned!StartsLineComment, Scanned!StartsBlockComment
    <3>2. QED
      BY <1>1, <3>1, GlyphsAre DEF Begins
  <2>4. i \in hidden <=> \E p \in begin : i \in p .. Scanned!EndOf(python, source, p)
    OBVIOUS
  <2> HIDE DEF begin, hidden
  <2>5. i \in hidden <=> ~Keeps(python, source, h[i - 1].in, h[i - 1].skip, i)
    BY <2>2, <2>3, <2>4
  <2>6. QED
    BY <1>6, <2>5 DEF Bare
<1>10. QED
  <2> HIDE DEF hidden, legal
  <2>1. QED
    BY <1>1, <1>2, <1>5, <1>7, <1>8, <1>9

LEMMA SourcesAreSome ==
  \A python \in BOOLEAN : \A source \in SeqUpTo(Characters(python), LongestSource(python)) :
    \E chars : "blank" \in chars /\ source \in Seq(chars)
<1>1. ASSUME NEW python \in BOOLEAN, NEW source \in SeqUpTo(Characters(python), LongestSource(python))
      PROVE  \E chars : "blank" \in chars /\ source \in Seq(chars)
  <2>1. PICK k \in 0 .. LongestSource(python) : source \in [1 .. k -> Characters(python)]
    BY DEF SeqUpTo
  <2>2. k \in Nat
    BY <2>1
  <2>3. PICK chars : chars = Characters(python) \cup {"blank"}
    OBVIOUS
  <2>4. source \in [1 .. k -> chars]
    BY <2>1, <2>3
  <2>5. source \in Seq(chars)
    BY <2>2, <2>4
  <2>6. QED
    BY <2>3, <2>5
<1>2. QED
  BY <1>1

\* Stripping a source of its comments and literals moves nothing, however long the
\* source and whatever is in it: each line stays where it was, and stripping again
\* changes nothing; and, but for a block comment that its own second character would
\* end, what is blanked is the comments and the literals that begin outside one another,
\* each to its own end; which holds of the cases of the run (policy.rs, strip).
THEOREM StripsInPlace ==
  /\ \A python \in BOOLEAN : \A chars : \A source \in Seq(chars) :
       "blank" \in chars => Scanned!InPlace(python, source)
  /\ RulesSpec => []StrippedInPlace
<1>1. ASSUME NEW python \in BOOLEAN, NEW chars, NEW source \in Seq(chars), "blank" \in chars
      PROVE  Scanned!InPlace(python, source)
  BY <1>1, EverySourceInPlace
<1>2. CaseChosen => StrippedInPlace
  <2>1. SUFFICES ASSUME CaseChosen, rule = "strip" PROVE Scanned!InPlace(case[1], case[2])
    BY DEF StrippedInPlace
  <2>2. PICK python \in BOOLEAN : case \in {python} \X SeqUpTo(Characters(python), LongestSource(python))
    BY <2>1 DEF CaseChosen
  <2>3. PICK source \in SeqUpTo(Characters(python), LongestSource(python)) : case = <<python, source>>
    BY <2>2
  <2>4. case[1] = python /\ case[2] = source
    BY <2>3
  <2>5. PICK chars : "blank" \in chars /\ source \in Seq(chars)
    BY SourcesAreSome
  <2>6. Scanned!InPlace(python, source)
    BY <1>1, <2>5
  <2>7. QED
    BY <2>4, <2>6
<1>3. \A python \in BOOLEAN : \A chars : \A source \in Seq(chars) :
        "blank" \in chars => Scanned!InPlace(python, source)
  BY <1>1
<1>4. RulesSpec => []StrippedInPlace
  BY <1>2, CasesChosen, PTL
<1>5. QED
  BY <1>3, <1>4

================================================================================
