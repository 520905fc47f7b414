------------------------- MODULE Collections_proofs -------------------------
(***************************************************************************)
(* Lemmas about finite sets that the proofs of several components need:    *)
(* induction, sums of a function over a set, and sorted sequences.         *)
(*                                                                         *)
(* Induction is stated with a set in place of a predicate: WFMin of        *)
(* WellFoundedInduction has no operator for a parameter, so that it can be *)
(* instantiated where FS_Induction and NatInduction cannot.                *)
(***************************************************************************)
EXTENDS Sorting, SequencesExt, FiniteSetTheorems, SequenceTheorems, TLAPS

----------------------------------------------------------------------------
(* Induction *)

\* What holds of the empty set, and of a set with one element more, holds of every
\* subset of a finite set.
LEMMA FiniteInduction ==
    ASSUME NEW S, IsFiniteSet(S), NEW Q, {} \in Q,
           \A T \in SUBSET S, x \in S : T \in Q => T \cup {x} \in Q
    PROVE  \A T \in SUBSET S : T \in Q
<1> DEFINE bad == {T \in SUBSET S : T \notin Q}
<1> SUFFICES ASSUME bad # {} PROVE FALSE
  OBVIOUS
<1>1. bad \subseteq FiniteSubsetsOf(S)
  BY FS_FiniteSubsetsOfFinite
<1>2. PICK T \in bad : \A U \in bad : <<U, T>> \notin StrictSubsetOrdering(S)
  <2> HIDE DEF bad
  <2> QED
    BY <1>1, FS_StrictSubsetOrderingWellFounded, WFMin
<1>3. PICK x \in T : TRUE
  BY <1>2
<1>4. T \ {x} \in SUBSET S /\ T \ {x} # T /\ T \ {x} \subseteq T
  BY <1>2, <1>3
<1>5. <<T \ {x}, T>> \in StrictSubsetOrdering(S)
  BY <1>2, <1>4 DEF StrictSubsetOrdering
<1>6. T \ {x} \in Q
  BY <1>2, <1>4, <1>5
<1>7. (T \ {x}) \cup {x} = T
  BY <1>3
<1> QED
  BY <1>2, <1>3, <1>4, <1>6, <1>7

\* The same of the natural numbers: they are cardinalities.
LEMMA CountingInduction ==
    ASSUME NEW Q, 0 \in Q, \A n \in Nat : n \in Q => n + 1 \in Q
    PROVE  Nat \subseteq Q
<1> SUFFICES ASSUME NEW N \in Nat PROVE N \in Q
  OBVIOUS
<1> DEFINE R == {T \in SUBSET (1..N) : Cardinality(T) \in Q}
<1>1. IsFiniteSet(1..N) /\ Cardinality(1..N) = N
  BY FS_Interval
<1>2. {} \in R
  BY FS_EmptySet
<1>3. ASSUME NEW T \in SUBSET (1..N), NEW x \in 1..N, T \in R PROVE T \cup {x} \in R
  <2>1. IsFiniteSet(T) /\ Cardinality(T) \in Nat
    BY <1>1, FS_Subset, FS_CardinalityType
  <2>2. Cardinality(T \cup {x}) \in {Cardinality(T), Cardinality(T) + 1}
    BY <2>1, FS_AddElement
  <2> QED
    BY <1>3, <2>1, <2>2
<1>4. \A T \in SUBSET (1..N) : T \in R
  <2> HIDE DEF R
  <2> QED
    BY <1>1, <1>2, <1>3, FiniteInduction
<1> QED
  BY <1>1, <1>4

\* What is in two disjoint sets.
LEMMA DisjointUnion ==
    ASSUME NEW S, IsFiniteSet(S), NEW T, IsFiniteSet(T), S \cap T = {}
    PROVE  /\ IsFiniteSet(S \cup T)
           /\ Cardinality(S \cup T) = Cardinality(S) + Cardinality(T)
<1>1. /\ IsFiniteSet(S \cup T)
      /\ Cardinality(S \cup T) = Cardinality(S) + Cardinality(T) - Cardinality(S \cap T)
  BY FS_Union
<1>2. Cardinality(S \cap T) = 0
  BY FS_EmptySet
<1>3. Cardinality(S) \in Nat /\ Cardinality(T) \in Nat
  BY FS_CardinalityType
<1> QED
  BY <1>1, <1>2, <1>3

----------------------------------------------------------------------------
(* Sums *)

\* The recursion of the fold, with the element it takes out.
Taken(s) == CHOOSE x \in s : TRUE
SumStep(f, g, s) == IF s = {} THEN 0 ELSE f[Taken(s)] + g[s \ {Taken(s)}]
IsSum(f, g, S) == g = [s \in SUBSET S |-> SumStep(f, g, s)]

LEMMA TakenIsElement == ASSUME NEW s, s # {} PROVE Taken(s) \in s
BY DEF Taken

\* An element less.
LEMMA OneLess ==
    ASSUME NEW s, IsFiniteSet(s), NEW x \in s
    PROVE  /\ Cardinality(s) \in Nat /\ Cardinality(s \ {x}) \in Nat
           /\ Cardinality(s) = Cardinality(s \ {x}) + 1 /\ IsFiniteSet(s \ {x})
BY FS_RemoveElement, FS_CardinalityType

\* There is a function that satisfies the recursion: it is found for small sets first.
LEMMA SumExists ==
    ASSUME NEW S, IsFiniteSet(S), NEW f, \A z \in S : f[z] \in Nat
    PROVE  \E g \in [SUBSET S -> Nat] : IsSum(f, g, S)
<1> DEFINE Q == {n \in Nat : \E g \in [SUBSET S -> Nat] :
                    \A s \in SUBSET S : Cardinality(s) <= n => g[s] = SumStep(f, g, s)}
<1>1. \A s \in SUBSET S : IsFiniteSet(s) /\ Cardinality(s) \in Nat
  BY FS_Subset, FS_CardinalityType
<1>2. 0 \in Q
  <2> DEFINE g == [s \in SUBSET S |-> 0]
  <2>1. \A s \in SUBSET S : Cardinality(s) <= 0 => s = {}
    BY <1>1, FS_EmptySet
  <2>2. \A s \in SUBSET S : Cardinality(s) <= 0 => g[s] = SumStep(f, g, s)
    BY <2>1 DEF SumStep
  <2>3. g \in [SUBSET S -> Nat]
    OBVIOUS
  <2> QED
    BY <2>2, <2>3
<1>3. ASSUME NEW n \in Nat, n \in Q PROVE n + 1 \in Q
  <2>1. PICK g \in [SUBSET S -> Nat] :
            \A s \in SUBSET S : Cardinality(s) <= n => g[s] = SumStep(f, g, s)
    BY <1>3
  <2> DEFINE h == [s \in SUBSET S |-> SumStep(f, g, s)]
  <2>2. \A s \in SUBSET S : s # {} => /\ Taken(s) \in S /\ s \ {Taken(s)} \in SUBSET S
                                      /\ Cardinality(s \ {Taken(s)}) = Cardinality(s) - 1
    BY <1>1, TakenIsElement, OneLess
  <2>3. h \in [SUBSET S -> Nat]
    BY <2>2 DEF SumStep
  <2>4. \A s \in SUBSET S : Cardinality(s) <= n => h[s] = g[s]
    BY <2>1
  <2>5. ASSUME NEW s \in SUBSET S, Cardinality(s) <= n + 1 PROVE h[s] = SumStep(f, h, s)
    <3>1. CASE s = {}
      BY <3>1 DEF SumStep
    <3>2. CASE s # {}
      <4>1. Cardinality(s \ {Taken(s)}) <= n /\ s \ {Taken(s)} \in SUBSET S
        BY <1>1, <2>2, <2>5, <3>2
      <4>2. h[s \ {Taken(s)}] = g[s \ {Taken(s)}]
        BY <2>4, <4>1
      <4> QED
        BY <3>2, <4>2 DEF SumStep
    <3> QED
      BY <3>1, <3>2
  <2> HIDE DEF h
  <2> QED
    BY <2>3, <2>5
<1>4. Cardinality(S) \in Q
  <2> HIDE DEF Q
  <2> QED
    BY <1>1, <1>2, <1>3, CountingInduction
<1>5. PICK g \in [SUBSET S -> Nat] :
            \A s \in SUBSET S : Cardinality(s) <= Cardinality(S) => g[s] = SumStep(f, g, s)
  BY <1>4
<1>6. \A s \in SUBSET S : Cardinality(s) <= Cardinality(S)
  BY FS_Subset
<1>7. \A s \in SUBSET S : g[s] = SumStep(f, g, s)
  BY <1>5, <1>6
<1> QED
  BY <1>7 DEF IsSum

\* And one only, also for the subsets of another set.
LEMMA SumUnique ==
    ASSUME NEW S, IsFiniteSet(S), NEW f, \A z \in S : f[z] \in Nat,
           NEW T \in SUBSET S, NEW g, IsSum(f, g, S), NEW h, IsSum(f, h, T)
    PROVE  g[T] = h[T]
<1> DEFINE Q == {s \in SUBSET T : g[s] = h[s]}
            R == {n \in Nat : \A s \in SUBSET T : Cardinality(s) = n => g[s] = h[s]}
<1>1. \A s \in SUBSET T : /\ IsFiniteSet(s) /\ Cardinality(s) \in Nat
                          /\ g[s] = SumStep(f, g, s) /\ h[s] = SumStep(f, h, s)
  BY FS_Subset, FS_CardinalityType DEF IsSum
<1>2. 0 \in R
  <2>1. \A s \in SUBSET T : Cardinality(s) = 0 => s = {}
    BY <1>1, FS_EmptySet
  <2> QED
    BY <1>1, <2>1 DEF SumStep
<1>3. ASSUME NEW n \in Nat, n \in R PROVE n + 1 \in R
  <2> SUFFICES ASSUME NEW s \in SUBSET T, Cardinality(s) = n + 1 PROVE g[s] = h[s]
    OBVIOUS
  <2>1. s # {}
    BY FS_EmptySet
  <2>2. Cardinality(s \ {Taken(s)}) = n
    BY <1>1, <2>1, TakenIsElement, OneLess
  <2>3. g[s \ {Taken(s)}] = h[s \ {Taken(s)}]
    BY <1>3, <2>2
  <2> QED
    BY <1>1, <2>1, <2>3 DEF SumStep
<1>4. Cardinality(T) \in R
  <2> HIDE DEF R
  <2> QED
    BY <1>1, <1>2, <1>3, CountingInduction
<1> QED
  BY <1>4

LEMMA SumIsSum ==
    ASSUME NEW S, IsFiniteSet(S), NEW f, \A z \in S : f[z] \in Nat
    PROVE  \E g \in [SUBSET S -> Nat] : IsSum(f, g, S) /\ SumFunctionOnSet(f, S) = g[S]
<1>1. PICK g \in [SUBSET S -> Nat] : IsSum(f, g, S)
  BY SumExists
<1>2. PICK h : IsSum(f, h, S) /\ SumFunctionOnSet(f, S) = h[S]
  <2> DEFINE k == CHOOSE k : IsSum(f, k, S)
  <2>1. IsSum(f, k, S)
    BY <1>1
  <2>2. SumFunctionOnSet(f, S) = k[S]
    BY DEF SumFunctionOnSet, FoldFunctionOnSet, MapThenFoldSet, IsSum, SumStep, Taken
  <2> HIDE DEF k
  <2> QED
    BY <2>1, <2>2
<1>3. S \in SUBSET S
  OBVIOUS
<1>4. g[S] = h[S]
  BY <1>1, <1>2, <1>3, SumUnique
<1> QED
  BY <1>1, <1>2, <1>4

LEMMA SumEmpty == ASSUME NEW f PROVE SumFunctionOnSet(f, {}) = 0
<1>1. IsFiniteSet({}) /\ \A z \in {} : f[z] \in Nat
  BY FS_EmptySet
<1>2. PICK g : IsSum(f, g, {}) /\ SumFunctionOnSet(f, {}) = g[{}]
  BY <1>1, SumIsSum
<1> QED
  BY <1>2 DEF IsSum, SumStep

\* A sum is the element that the fold takes out and the sum of the rest.
LEMMA SumTaken ==
    ASSUME NEW S, IsFiniteSet(S), NEW f, \A z \in S : f[z] \in Nat
    PROVE  /\ SumFunctionOnSet(f, S) \in Nat
           /\ S # {} => SumFunctionOnSet(f, S) =
                            f[Taken(S)] + SumFunctionOnSet(f, S \ {Taken(S)})
<1>1. PICK g \in [SUBSET S -> Nat] : IsSum(f, g, S) /\ SumFunctionOnSet(f, S) = g[S]
  BY SumIsSum
<1>2. SumFunctionOnSet(f, S) \in Nat
  BY <1>1
<1>3. ASSUME S # {} PROVE SumFunctionOnSet(f, S) =
                            f[Taken(S)] + SumFunctionOnSet(f, S \ {Taken(S)})
  <2> DEFINE T == S \ {Taken(S)}
  <2>1. T \in SUBSET S /\ IsFiniteSet(T) /\ \A z \in T : f[z] \in Nat
    BY FS_Subset
  <2>2. PICK h : IsSum(f, h, T) /\ SumFunctionOnSet(f, T) = h[T]
    BY <2>1, SumIsSum
  <2>3. g[T] = h[T]
    <3> HIDE DEF T
    <3> QED
      BY <1>1, <2>1, <2>2, SumUnique
  <2>4. g[S] = f[Taken(S)] + g[T]
    BY <1>1, <1>3 DEF IsSum, SumStep
  <2> QED
    BY <1>1, <2>2, <2>3, <2>4
<1> QED
  BY <1>2, <1>3

LEMMA SumType ==
    ASSUME NEW S, IsFiniteSet(S), NEW f, \A z \in S : f[z] \in Nat
    PROVE  SumFunctionOnSet(f, S) \in Nat
BY SumTaken

\* It does not matter which element is taken out.
LEMMA SumLess ==
    ASSUME NEW S, IsFiniteSet(S), NEW f, \A z \in S : f[z] \in Nat, NEW x \in S
    PROVE  SumFunctionOnSet(f, S) = f[x] + SumFunctionOnSet(f, S \ {x})
<1> DEFINE sum(T) == SumFunctionOnSet(f, T)
           Q == {n \in Nat : \A T \in SUBSET S : Cardinality(T) = n =>
                    \A y \in T : sum(T) = f[y] + sum(T \ {y})}
<1>1. \A T \in SUBSET S : /\ IsFiniteSet(T) /\ Cardinality(T) \in Nat
                          /\ sum(T) \in Nat
                          /\ T # {} => sum(T) = f[Taken(T)] + sum(T \ {Taken(T)})
  BY FS_Subset, FS_CardinalityType, SumTaken
<1>2. 0 \in Q
  BY <1>1, FS_EmptySet
<1>3. ASSUME NEW n \in Nat, n \in Q PROVE n + 1 \in Q
  <2> SUFFICES ASSUME NEW T \in SUBSET S, Cardinality(T) = n + 1, NEW y \in T
               PROVE  sum(T) = f[y] + sum(T \ {y})
    OBVIOUS
  <2> DEFINE t == Taken(T)
  <2>1. t \in T
    BY TakenIsElement
  <2>2. CASE t = y
    BY <1>1, <2>2
  <2>3. CASE t # y
    <3> HIDE DEF t
    <3>0. \A z \in T : /\ Cardinality(T \ {z}) \in Nat
                       /\ Cardinality(T) = Cardinality(T \ {z}) + 1
      BY <1>1, OneLess
    <3>1. Cardinality(T \ {y}) = n /\ Cardinality(T \ {t}) = n
      BY <2>1, <3>0
    <3>2. T \ {t} \in SUBSET S /\ T \ {y} \in SUBSET S /\ y \in T \ {t} /\ t \in T \ {y}
      BY <2>1, <2>3
    <3>3. /\ sum(T \ {t}) = f[y] + sum((T \ {t}) \ {y})
          /\ sum(T \ {y}) = f[t] + sum((T \ {y}) \ {t})
      BY <1>3, <3>1, <3>2
    <3> DEFINE rest == T \ {t, y}
    <3>4. (T \ {t}) \ {y} = rest /\ (T \ {y}) \ {t} = rest
      OBVIOUS
    <3>5. sum(T) = f[t] + sum(T \ {t})
      BY <1>1 DEF t
    <3>6. f[t] \in Nat /\ f[y] \in Nat /\ sum(rest) \in Nat
      BY <1>1, <2>1
    <3>7. sum(T \ {t}) = f[y] + sum(rest) /\ sum(T \ {y}) = f[t] + sum(rest)
      BY <3>3, <3>4
    <3> HIDE DEF sum, t, rest
    <3> QED
      BY ONLY <3>5, <3>6, <3>7
  <2> QED
    BY <2>2, <2>3
<1>4. Cardinality(S) \in Q
  <2> HIDE DEF Q
  <2>1. Cardinality(S) \in Nat
    BY <1>1
  <2> QED
    BY <2>1, <1>2, <1>3, CountingInduction
<1> QED
  BY <1>4

\* An element more.
LEMMA SumMore ==
    ASSUME NEW S, IsFiniteSet(S), NEW f, \A z \in S : f[z] \in Nat,
           NEW x, x \notin S, f[x] \in Nat
    PROVE  SumFunctionOnSet(f, S \cup {x}) = SumFunctionOnSet(f, S) + f[x]
<1>1. (\A z \in S \cup {x} : f[z] \in Nat) /\ IsFiniteSet(S \cup {x}) /\ x \in S \cup {x}
  BY FS_AddElement
<1>2. (S \cup {x}) \ {x} = S
  OBVIOUS
<1>3. SumFunctionOnSet(f, S) \in Nat /\ f[x] \in Nat
  BY SumTaken
<1>4. SumFunctionOnSet(f, S \cup {x}) = f[x] + SumFunctionOnSet(f, (S \cup {x}) \ {x})
  BY <1>1, SumLess
<1>5. SumFunctionOnSet(f, (S \cup {x}) \ {x}) = SumFunctionOnSet(f, S)
  BY ONLY <1>2
<1> QED
  BY ONLY <1>3, <1>4, <1>5

\* A part is not more than the whole.
LEMMA SumOfPart ==
    ASSUME NEW S, IsFiniteSet(S), NEW f, \A z \in S : f[z] \in Nat, NEW T \in SUBSET S
    PROVE  SumFunctionOnSet(f, T) <= SumFunctionOnSet(f, S)
<1> DEFINE sum(U) == SumFunctionOnSet(f, U)
           Q == {U \in SUBSET S : sum(T) <= sum(T \cup U)}
<1>1. \A U \in SUBSET S : IsFiniteSet(U) /\ sum(U) \in Nat
  BY FS_Subset, SumTaken
<1>2. {} \in Q
  BY <1>1
<1>3. ASSUME NEW U \in SUBSET S, NEW x \in S, U \in Q PROVE U \cup {x} \in Q
  <2>1. CASE x \in T \cup U
    <3>1. T \cup (U \cup {x}) = T \cup U
      BY <2>1
    <3> QED
      BY <1>3, <3>1
  <2>2. CASE x \notin T \cup U
    <3>1. T \cup (U \cup {x}) = (T \cup U) \cup {x}
      OBVIOUS
    <3>2. T \cup U \in SUBSET S /\ (T \cup U) \cup {x} \in SUBSET S
      OBVIOUS
    <3>3. x \notin T \cup U /\ f[x] \in Nat
      BY <2>2
    <3>4. sum((T \cup U) \cup {x}) = sum(T \cup U) + f[x]
      BY <1>1, <3>2, <3>3, SumMore
    <3>5. f[x] \in Nat /\ sum(T \cup U) \in Nat /\ sum(T) \in Nat
      BY <1>1, <3>2
    <3> QED
      BY <1>3, <3>1, <3>4, <3>5
  <2> QED
    BY <2>1, <2>2
<1>4. \A U \in SUBSET S : U \in Q
  <2> HIDE DEF Q
  <2> QED
    BY <1>2, <1>3, FiniteInduction
<1>5. T \cup S = S
  OBVIOUS
<1> QED
  BY <1>4, <1>5

\* Functions that agree on a set have one sum over it.
LEMMA SumAgrees ==
    ASSUME NEW S, IsFiniteSet(S), NEW f, NEW h,
           \A z \in S : f[z] \in Nat /\ f[z] = h[z]
    PROVE  SumFunctionOnSet(f, S) = SumFunctionOnSet(h, S)
<1> DEFINE Q == {U \in SUBSET S : SumFunctionOnSet(f, U) = SumFunctionOnSet(h, U)}
<1>1. \A U \in SUBSET S : IsFiniteSet(U)
  BY FS_Subset
<1>2. {} \in Q
  BY SumEmpty
<1>3. ASSUME NEW U \in SUBSET S, NEW x \in S, U \in Q PROVE U \cup {x} \in Q
  <2>1. CASE x \in U
    <3>1. U \cup {x} = U
      BY <2>1
    <3> QED
      BY <1>3, <3>1
  <2>2. CASE x \notin U
    <3>1. SumFunctionOnSet(f, U \cup {x}) = SumFunctionOnSet(f, U) + f[x]
      BY <1>1, <2>2, SumMore
    <3>2. SumFunctionOnSet(h, U \cup {x}) = SumFunctionOnSet(h, U) + h[x]
      BY <1>1, <2>2, SumMore
    <3> QED
      BY <1>3, <3>1, <3>2
  <2> QED
    BY <2>1, <2>2
<1>4. \A U \in SUBSET S : U \in Q
  <2> HIDE DEF Q
  <2> QED
    BY <1>2, <1>3, FiniteInduction
<1> QED
  BY <1>4

----------------------------------------------------------------------------
(* Sequences in an order *)

StrictOrder(S, R) ==
    /\ \A x \in S : <<x, x>> \notin R
    /\ \A x, y, z \in S : <<x, y>> \in R /\ <<y, z>> \in R => <<x, z>> \in R
    /\ \A x, y \in S : x = y \/ <<x, y>> \in R \/ <<y, x>> \in R

\* What comes before an element grows along the order.
LEMMA RankGrows ==
    ASSUME NEW S, IsFiniteSet(S), NEW R, StrictOrder(S, R),
           NEW x \in S, NEW y \in S, <<x, y>> \in R
    PROVE  Cardinality(Before(S, R, x)) < Cardinality(Before(S, R, y))
<1> DEFINE P == Before(S, R, x)
           T == Before(S, R, y)
<1>1. P \subseteq T /\ x \in T /\ x \notin P
  BY DEF Before, StrictOrder
<1>2. IsFiniteSet(T)
  BY FS_Subset DEF Before
<1>3. IsFiniteSet(P) /\ Cardinality(P) <= Cardinality(T)
      /\ (Cardinality(P) = Cardinality(T) => P = T)
  <2> HIDE DEF P, T
  <2> QED
    BY <1>1, <1>2, FS_Subset
<1>4. Cardinality(P) \in Nat /\ Cardinality(T) \in Nat
  BY <1>2, <1>3, FS_CardinalityType
<1> QED
  BY <1>1, <1>3, <1>4

\* Each position is that of one element.
LEMMA RankIsPosition ==
    ASSUME NEW S, IsFiniteSet(S), NEW R, StrictOrder(S, R)
    PROVE  /\ \A x \in S : Cardinality(Before(S, R, x)) \in 0..(Cardinality(S) - 1)
           /\ \A x, y \in S :
                Cardinality(Before(S, R, x)) = Cardinality(Before(S, R, y)) => x = y
           /\ \A n \in 0..(Cardinality(S) - 1) :
                \E x \in S : Cardinality(Before(S, R, x)) = n
<1> DEFINE rank == [x \in S |-> Cardinality(Before(S, R, x))]
           T == 0..(Cardinality(S) - 1)
<1>1. Cardinality(S) \in Nat
  BY FS_CardinalityType
<1>2. ASSUME NEW x \in S PROVE Cardinality(Before(S, R, x)) \in T
  <2> DEFINE P == Before(S, R, x)
  <2>1. P \subseteq S \ {x}
    BY DEF Before, StrictOrder
  <2>2. Cardinality(S \ {x}) = Cardinality(S) - 1 /\ IsFiniteSet(S \ {x})
    BY FS_RemoveElement
  <2>3. Cardinality(P) <= Cardinality(S \ {x}) /\ IsFiniteSet(P)
    <3> HIDE DEF P
    <3> QED
      BY <2>1, <2>2, FS_Subset
  <2>4. Cardinality(P) \in Nat
    BY <2>3, FS_CardinalityType
  <2> QED
    BY <1>1, <2>2, <2>3, <2>4
<1>3. ASSUME NEW x \in S, NEW y \in S,
             Cardinality(Before(S, R, x)) = Cardinality(Before(S, R, y))
      PROVE  x = y
  <2>1. Cardinality(Before(S, R, x)) \in Nat
    BY <1>1, <1>2
  <2>2. ~(Cardinality(Before(S, R, x)) < Cardinality(Before(S, R, y)))
        /\ ~(Cardinality(Before(S, R, y)) < Cardinality(Before(S, R, x)))
    BY <1>3, <2>1
  <2>3. <<x, y>> \notin R /\ <<y, x>> \notin R
    BY <2>2, RankGrows
  <2> QED
    BY <2>3 DEF StrictOrder
<1>4. rank \in Injection(S, T)
  <2> HIDE DEF T
  <2>1. rank \in [S -> T]
    BY <1>2
  <2>2. \A x, y \in S : rank[x] = rank[y] => x = y
    BY <1>3
  <2> QED
    BY <2>1, <2>2 DEF Injection, IsInjective
<1>5. IsFiniteSet(T) /\ Cardinality(T) = Cardinality(S)
  BY <1>1, FS_Interval
<1>6. rank \in Surjection(S, T)
  <2> HIDE DEF rank, T
  <2> QED
    BY <1>4, <1>5, FS_Injection
<1>7. \A n \in T : \E x \in S : rank[x] = n
  <2> HIDE DEF rank, T
  <2> QED
    BY <1>6 DEF Surjection
<1> QED
  BY <1>2, <1>3, <1>7

\* Sorted has each element once, in the order.
LEMMA SortedIsSorted ==
    ASSUME NEW S, IsFiniteSet(S), NEW R, StrictOrder(S, R)
    PROVE  /\ Cardinality(S) \in Nat
           /\ DOMAIN Sorted(S, R) = 1..Cardinality(S)
           /\ Sorted(S, R) \in [1..Cardinality(S) -> S]
           /\ \A x \in S : \E n \in 1..Cardinality(S) : Sorted(S, R)[n] = x
           /\ \A n, m \in 1..Cardinality(S) :
                n < m <=> <<Sorted(S, R)[n], Sorted(S, R)[m]>> \in R
           /\ \A n, m \in 1..Cardinality(S) : Sorted(S, R)[n] = Sorted(S, R)[m] => n = m
<1> DEFINE rank(x) == Cardinality(Before(S, R, x))
           q == Sorted(S, R)
           N == Cardinality(S)
<1>1. N \in Nat
  BY FS_CardinalityType
<1>2. \A n \in 1..N : q[n] = CHOOSE x \in S : rank(x) = n - 1
  BY DEF Sorted
<1>3. \A n \in 1..N : q[n] \in S /\ rank(q[n]) = n - 1
  <2> SUFFICES ASSUME NEW n \in 1..N PROVE q[n] \in S /\ rank(q[n]) = n - 1
    OBVIOUS
  <2>1. n - 1 \in 0..(N - 1)
    BY <1>1
  <2>2. \E x \in S : rank(x) = n - 1
    BY <2>1, RankIsPosition
  <2> HIDE DEF q, rank, N
  <2> QED
    BY <1>2, <2>2
<1>4. DOMAIN q = 1..N /\ q \in [1..N -> S]
  <2>1. q = [n \in 1..N |-> q[n]]
    BY DEF Sorted
  <2> HIDE DEF q, rank, N
  <2> QED
    BY <1>3, <2>1
<1>5. \A x \in S : \E n \in 1..N : q[n] = x
  <2> SUFFICES ASSUME NEW x \in S PROVE \E n \in 1..N : q[n] = x
    OBVIOUS
  <2>1. rank(x) \in 0..(N - 1)
    BY RankIsPosition
  <2>2. rank(x) + 1 \in 1..N
    BY <1>1, <2>1
  <2>3. q[rank(x) + 1] \in S /\ rank(q[rank(x) + 1]) = rank(x)
    <3> HIDE DEF q, rank, N
    <3> QED
      BY <1>1, <1>3, <2>1, <2>2
  <2>4. q[rank(x) + 1] = x
    BY <2>3, RankIsPosition
  <2> QED
    BY <2>2, <2>4
<1>6. \A n, m \in 1..N : q[n] = q[m] => n = m
  <2> HIDE DEF q, rank, N
  <2> QED
    BY <1>1, <1>3
<1>7. \A n, m \in 1..N : n < m <=> <<q[n], q[m]>> \in R
  <2> SUFFICES ASSUME NEW n \in 1..N, NEW m \in 1..N PROVE n < m <=> <<q[n], q[m]>> \in R
    OBVIOUS
  <2>1. /\ q[n] \in S /\ q[m] \in S /\ n \in Int /\ m \in Int
        /\ rank(q[n]) = n - 1 /\ rank(q[m]) = m - 1
    BY <1>1, <1>3
  <2>2. /\ <<q[n], q[m]>> \in R => rank(q[n]) < rank(q[m])
        /\ <<q[m], q[n]>> \in R => rank(q[m]) < rank(q[n])
    BY <2>1, RankGrows
  <2>3. \/ q[n] = q[m] \/ <<q[n], q[m]>> \in R \/ <<q[m], q[n]>> \in R
    BY <2>1 DEF StrictOrder
  <2> HIDE DEF q, rank, N
  <2> QED
    BY <2>1, <2>2, <2>3
<1> QED
  BY <1>1, <1>4, <1>5, <1>6, <1>7

LEMMA AscendingIsStrict == ASSUME NEW K \in SUBSET Int PROVE StrictOrder(K, Ascending(K))
BY DEF StrictOrder, Ascending

\* What is kept of a sequence is a sequence of elements from the places, in their order.
LEMMA KeptIsPart ==
    ASSUME NEW D, NEW s \in Seq(D), NEW K \in SUBSET (1..Len(s))
    PROVE  /\ IsFiniteSet(K) /\ Cardinality(K) \in Nat
           /\ Kept(s, K) \in Seq(D) /\ Len(Kept(s, K)) = Cardinality(K)
           /\ \E places \in [1..Cardinality(K) -> K] :
                /\ \A n \in 1..Cardinality(K) : Kept(s, K)[n] = s[places[n]]
                /\ \A n, m \in 1..Cardinality(K) : n < m <=> places[n] < places[m]
                /\ \A k \in K : \E n \in 1..Cardinality(K) : places[n] = k
<1> DEFINE places == Sorted(K, Ascending(K))
           N == Cardinality(K)
           q == Kept(s, K)
<1>1. IsFiniteSet(K) /\ StrictOrder(K, Ascending(K)) /\ Len(s) \in Nat
  <2>1. Len(s) \in Nat
    BY LenProperties
  <2>2. IsFiniteSet(1..Len(s))
    BY <2>1, FS_Interval
  <2>3. IsFiniteSet(K)
    BY <2>2, FS_Subset
  <2>4. StrictOrder(K, Ascending(K))
    BY AscendingIsStrict
  <2> QED
    BY <2>1, <2>3, <2>4
<1>2. /\ N \in Nat /\ places \in [1..N -> K]
      /\ \A n, m \in 1..N : n < m <=> <<places[n], places[m]>> \in Ascending(K)
      /\ \A k \in K : \E n \in 1..N : places[n] = k
  BY <1>1, SortedIsSorted
<1>3. q = [n \in 1..N |-> s[places[n]]]
  BY DEF Kept
<1> HIDE DEF places, N, q
<1>4. \A n \in 1..N : q[n] = s[places[n]] /\ q[n] \in D
  <2>1. \A n \in 1..N : places[n] \in 1..Len(s)
    BY <1>2
  <2>2. \A k \in 1..Len(s) : s[k] \in D
    BY ElementOfSeq
  <2> QED
    BY <1>3, <2>1, <2>2
<1>5. q \in Seq(D) /\ Len(q) = N
  BY <1>2, <1>3, <1>4, IsASeq
<1>6. \A n, m \in 1..N : n < m <=> places[n] < places[m]
  BY <1>2 DEF Ascending
<1> QED
  BY <1>1, <1>2, <1>4, <1>5, <1>6 DEF N, q

\* The first elements of a sequence.
LEMMA FirstOfIsPrefix ==
    ASSUME NEW D, NEW s \in Seq(D), NEW n \in Nat
    PROVE  /\ FirstOf(s, n) \in Seq(D)
           /\ Len(FirstOf(s, n)) \in 0..n /\ Len(FirstOf(s, n)) <= Len(s)
           /\ \A k \in 1..Len(FirstOf(s, n)) : FirstOf(s, n)[k] = s[k]
           /\ Len(FirstOf(s, n)) = Len(s) \/ Len(FirstOf(s, n)) = n
<1> DEFINE m == IF Len(s) < n THEN Len(s) ELSE n
<1>1. Len(s) \in Nat /\ m \in 0..n /\ m <= Len(s) /\ (m = Len(s) \/ m = n) /\ m \in Nat
  BY LenProperties
<1>2. /\ SubSeq(s, 1, m) \in Seq(D) /\ Len(SubSeq(s, 1, m)) = m
      /\ \A k \in 1..m : SubSeq(s, 1, m)[k] = s[k]
  <2> HIDE DEF m
  <2>1. \A k \in 1..m : k \in 1..Len(s)
    BY <1>1
  <2> QED
    BY <1>1, <2>1, SubSeqProperties
<1>3. FirstOf(s, n) = SubSeq(s, 1, m)
  BY DEF FirstOf
<1> HIDE DEF m
<1> QED
  BY <1>1, <1>2, <1>3

\* A finite set has a listing.
LEMMA ListingIsOfSet ==
    ASSUME NEW S, IsFiniteSet(S)
    PROVE  /\ Cardinality(S) \in Nat
           /\ SetToSeq(S) \in Seq(S) /\ Len(SetToSeq(S)) = Cardinality(S)
<1>1. Cardinality(S) \in Nat /\ ExistsBijection(1..Cardinality(S), S)
  BY FS_CardinalityType
<1>2. \E f \in [1..Cardinality(S) -> S] : IsInjective(f)
  BY <1>1 DEF ExistsBijection, Bijection, Injection, IsInjective
<1>3. SetToSeq(S) \in [1..Cardinality(S) -> S]
  BY <1>2 DEF SetToSeq
<1>4. SetToSeq(S) = [k \in 1..Cardinality(S) |-> SetToSeq(S)[k]]
  BY <1>3
<1> QED
  BY <1>1, <1>3, <1>4

\* A sequence without one of its elements.
LEMMA RemoveAtIsRest ==
    ASSUME NEW D, NEW s \in Seq(D), NEW k \in 1..Len(s)
    PROVE  /\ RemoveAt(s, k) \in Seq(D) /\ Len(RemoveAt(s, k)) = Len(s) - 1
           /\ \A n \in 1..(Len(s) - 1) : RemoveAt(s, k)[n] = s[IF n < k THEN n ELSE n + 1]
<1> DEFINE a == SubSeq(s, 1, k - 1)
           b == SubSeq(s, k + 1, Len(s))
<1>1. Len(s) \in Nat /\ k \in Nat
  BY LenProperties
<1>2. /\ a \in Seq(D) /\ Len(a) = k - 1
      /\ \A n \in 1..(k - 1) : a[n] = s[n]
  <2>1. \A n \in 1..(k - 1) : n \in 1..Len(s)
    BY <1>1
  <2> QED
    BY <1>1, <2>1, SubSeqProperties
<1>3. /\ b \in Seq(D) /\ Len(b) = Len(s) - k
      /\ \A n \in 1..(Len(s) - k) : b[n] = s[k + n]
  <2>1. \A n \in (k + 1)..Len(s) : n \in 1..Len(s)
    BY <1>1
  <2> QED
    BY <1>1, <2>1, SubSeqProperties
<1> HIDE DEF a, b
<1>4. /\ a \o b \in Seq(D) /\ Len(a \o b) = Len(s) - 1
      /\ \A n \in 1..(Len(s) - 1) : (a \o b)[n] = IF n < k THEN a[n] ELSE b[n - (k - 1)]
  <2>1. /\ a \o b \in Seq(D) /\ Len(a \o b) = Len(a) + Len(b)
        /\ \A n \in 1..(Len(a) + Len(b)) :
                (a \o b)[n] = IF n <= Len(a) THEN a[n] ELSE b[n - Len(a)]
    BY <1>2, <1>3, ConcatProperties
  <2>2. Len(a) + Len(b) = Len(s) - 1 /\ Len(a) = k - 1
    BY <1>1, <1>2, <1>3
  <2>3. \A n \in 1..(Len(s) - 1) : n <= k - 1 <=> n < k
    BY <1>1
  <2> QED
    BY <2>1, <2>2, <2>3
<1>5. \A n \in 1..(Len(s) - 1) : (a \o b)[n] = s[IF n < k THEN n ELSE n + 1]
  BY <1>1, <1>2, <1>3, <1>4
<1>6. RemoveAt(s, k) = a \o b
  BY DEF RemoveAt, a, b
<1> QED
  BY <1>4, <1>5, <1>6

=============================================================================
