----------------------------- MODULE SumProofs ------------------------------
(***************************************************************************)
(* Facts about the sum of a function over a finite set, the operator       *)
(* SumFunctionOnSet of the module Functions.  The sum is a recursive       *)
(* function over the subsets of the set that removes chosen elements; the  *)
(* facts below are what the proofs need of it: a sum can be split at any   *)
(* element, and depends on the values of the function only.  Each is an    *)
(* induction over the finite subsets, stated as the choice of a minimal    *)
(* counterexample.                                                         *)
(***************************************************************************)
EXTENDS Integers, FiniteSets, Functions, FiniteSetTheorems, WellFoundedInduction, TLAPS

\* the element that a fold removes first
Chosen(T) == CHOOSE x \in T : TRUE

\* g is the function over the subsets of S that the sum of f over S defines
SumRec(f, S, g) ==
    g = [T \in SUBSET S |-> IF T = {} THEN 0 ELSE f[Chosen(T)] + g[T \ {Chosen(T)}]]

\* Every nonempty collection of subsets of a finite set has a minimal member.
LEMMA MinimalSubset ==
    ASSUME NEW S, IsFiniteSet(S), NEW B, B \subseteq SUBSET S, B # {}
    PROVE  \E T \in B : IsFiniteSet(T) /\ \A U \in B : ~(U \subseteq T /\ U # T)
<1>1. B \subseteq FiniteSubsetsOf(S)
    BY FS_Subset DEF FiniteSubsetsOf
<1>2. PICK T \in B : \A U \in B : ~(<<U, T>> \in StrictSubsetOrdering(S))
    BY <1>1, FS_StrictSubsetOrderingWellFounded, WFMin
<1> QED
    BY <1>1, <1>2, FS_Subset DEF StrictSubsetOrdering, FiniteSubsetsOf

\* The sum is the value at S of a function that satisfies the recursion.
LEMMA SumIsChoice ==
    ASSUME NEW f, NEW S
    PROVE  SumFunctionOnSet(f, S) = (CHOOSE g : SumRec(f, S, g))[S]
    BY DEF SumFunctionOnSet, FoldFunctionOnSet, MapThenFoldSet, SumRec, Chosen

\* At most one function satisfies the recursion.
LEMMA SumRecUnique ==
    ASSUME NEW f, NEW S, IsFiniteSet(S), NEW g, NEW h, SumRec(f, S, g), SumRec(f, S, h)
    PROVE  g = h
<1> DEFINE B == {T \in SUBSET S : g[T] # h[T]}
<1>1. SUFFICES B = {}
    BY DEF SumRec
<1>2. SUFFICES ASSUME B # {} PROVE FALSE
    OBVIOUS
<1>3. PICK T \in B : \A U \in B : ~(U \subseteq T /\ U # T)
    <2>1. B \subseteq SUBSET S
        OBVIOUS
    <2> HIDE DEF B
    <2> QED
        BY <1>2, <2>1, MinimalSubset
<1>4. T # {}
    BY <1>3 DEF SumRec
<1>5. Chosen(T) \in T
    BY <1>4 DEF Chosen
<1>6. g[T \ {Chosen(T)}] = h[T \ {Chosen(T)}]
    BY <1>3, <1>5
<1> QED
    BY <1>3, <1>4, <1>6 DEF SumRec

\* A function that satisfies the recursion for S does so, restricted, for its subsets.
LEMMA SumRecRestrict ==
    ASSUME NEW f, NEW S, NEW g, SumRec(f, S, g), NEW R \in SUBSET S
    PROVE  SumRec(f, R, [T \in SUBSET R |-> g[T]])
<1> DEFINE h == [T \in SUBSET R |-> g[T]]
<1>1. ASSUME NEW T \in SUBSET R
      PROVE  h[T] = IF T = {} THEN 0 ELSE f[Chosen(T)] + h[T \ {Chosen(T)}]
    BY DEF SumRec
<1> HIDE DEF h
<1>2. h = [T \in SUBSET R |-> IF T = {} THEN 0 ELSE f[Chosen(T)] + h[T \ {Chosen(T)}]]
    BY <1>1 DEF h
<1> QED
    BY <1>2 DEF SumRec, h

\* Some function satisfies the recursion.
LEMMA SumRecExists ==
    ASSUME NEW f, NEW S, IsFiniteSet(S)
    PROVE  \E g : SumRec(f, S, g)
<1> DEFINE B == {T \in SUBSET S : ~\E g : SumRec(f, T, g)}
<1>1. SUFFICES ASSUME B # {} PROVE FALSE
    OBVIOUS
<1>2. PICK T \in B : IsFiniteSet(T) /\ \A U \in B : ~(U \subseteq T /\ U # T)
    <2>1. B \subseteq SUBSET S
        OBVIOUS
    <2> HIDE DEF B
    <2> QED
        BY <1>1, <2>1, MinimalSubset
<1> DEFINE At(U) == CHOOSE g : SumRec(f, U, g)
           h == [U \in SUBSET T |-> IF U = {} THEN 0
                                    ELSE f[Chosen(U)] + At(U \ {Chosen(U)})[U \ {Chosen(U)}]]
<1>3. ASSUME NEW U \in SUBSET T, U # T
      PROVE  SumRec(f, U, At(U)) /\ IsFiniteSet(U)
    <2>1. \E g : SumRec(f, U, g)
        BY <1>2, <1>3
    <2> QED
        BY <1>2, <2>1, FS_Subset
<1>4. ASSUME NEW U \in SUBSET T, U # {}
      PROVE  Chosen(U) \in U /\ U \ {Chosen(U)} \in SUBSET T /\ U \ {Chosen(U)} # T
    BY <1>4 DEF Chosen
<1> HIDE DEF At
<1>5. ASSUME NEW U \in SUBSET T, U # T
      PROVE  At(U)[U] = h[U]
    <2>1. CASE U = {}
        BY <1>3, <1>5, <2>1 DEF SumRec
    <2>2. CASE U # {}
        <3> DEFINE V == U \ {Chosen(U)}
        <3>1. V \in SUBSET U /\ V # T /\ V \in SUBSET T
            BY <1>4, <2>2
        <3>2. SumRec(f, V, [W \in SUBSET V |-> At(U)[W]])
            BY <1>3, <1>5, <3>1, SumRecRestrict
        <3>3. At(V) = [W \in SUBSET V |-> At(U)[W]]
            BY <1>3, <3>1, <3>2, SumRecUnique
        <3>4. At(V)[V] = At(U)[V]
            BY <3>3
        <3>5. At(U)[U] = f[Chosen(U)] + At(U)[V]
            BY <1>3, <1>5, <2>2 DEF SumRec
        <3> QED
            BY <2>2, <3>4, <3>5
    <2> QED
        BY <2>1, <2>2
<1>6. ASSUME NEW U \in SUBSET T
      PROVE  h[U] = IF U = {} THEN 0 ELSE f[Chosen(U)] + h[U \ {Chosen(U)}]
    <2>1. CASE U = {}
        BY <2>1
    <2>2. CASE U # {}
        BY <1>4, <1>5, <2>2
    <2> QED
        BY <2>1, <2>2
<1> HIDE DEF h
<1>7. h = [U \in SUBSET T |-> IF U = {} THEN 0 ELSE f[Chosen(U)] + h[U \ {Chosen(U)}]]
    BY <1>6 DEF h
<1> QED
    BY <1>2, <1>7 DEF SumRec

\* The recursion of the sum, from a set to the set without its chosen element.
LEMMA SumStep ==
    ASSUME NEW f, NEW S, IsFiniteSet(S)
    PROVE  /\ S = {} => SumFunctionOnSet(f, S) = 0
           /\ S # {} => SumFunctionOnSet(f, S)
                          = f[Chosen(S)] + SumFunctionOnSet(f, S \ {Chosen(S)})
<1> DEFINE g == CHOOSE g : SumRec(f, S, g)
           R == S \ {Chosen(S)}
           h == CHOOSE h : SumRec(f, R, h)
<1>1. SumRec(f, S, g)
    BY SumRecExists
<1>2. IsFiniteSet(R)
    BY FS_Subset
<1>3. SumRec(f, R, h)
    BY <1>2, SumRecExists
<1>4. SumFunctionOnSet(f, S) = g[S] /\ SumFunctionOnSet(f, R) = h[R]
    BY SumIsChoice
<1> HIDE DEF g, h
<1>5. SumRec(f, R, [T \in SUBSET R |-> g[T]])
    BY <1>1, SumRecRestrict
<1>6. h = [T \in SUBSET R |-> g[T]]
    BY <1>2, <1>3, <1>5, SumRecUnique
<1>7. h[R] = g[R]
    BY <1>6
<1>8. g[S] = IF S = {} THEN 0 ELSE f[Chosen(S)] + g[R]
    BY <1>1 DEF SumRec
<1> QED
    BY <1>4, <1>7, <1>8

-----------------------------------------------------------------------------
(***************************************************************************)
(* What the proofs use.                                                    *)
(***************************************************************************)

\* The sum over no elements.
LEMMA SumEmpty == ASSUME NEW f PROVE SumFunctionOnSet(f, {}) = 0
    BY SumStep, FS_EmptySet

\* A sum of integers is an integer, and can be split at any element.
LEMMA SumSplit ==
    ASSUME NEW S, IsFiniteSet(S), NEW f, \A x \in S : f[x] \in Int
    PROVE  /\ SumFunctionOnSet(f, S) \in Int
           /\ \A x \in S : SumFunctionOnSet(f, S) = f[x] + SumFunctionOnSet(f, S \ {x})
<1> DEFINE Good(T) ==
        /\ SumFunctionOnSet(f, T) \in Int
        /\ \A x \in T : SumFunctionOnSet(f, T) = f[x] + SumFunctionOnSet(f, T \ {x})
           B == {T \in SUBSET S : ~Good(T)}
<1>1. SUFFICES ASSUME B # {} PROVE FALSE
    OBVIOUS
<1>2. PICK T \in B : IsFiniteSet(T) /\ \A U \in B : ~(U \subseteq T /\ U # T)
    <2>1. B \subseteq SUBSET S
        OBVIOUS
    <2> HIDE DEF B
    <2> QED
        BY <1>1, <2>1, MinimalSubset
<1>3. ASSUME NEW U \in SUBSET T, U # T PROVE Good(U)
    BY <1>2, <1>3
<1> DEFINE c == Chosen(T)
<1>4. T \subseteq S
    BY <1>2
<1>5. T # {}
    <2>1. Good({})
        BY SumEmpty
    <2> QED
        BY <1>2, <2>1
<1>6. c \in T
    BY <1>5 DEF Chosen
<1>7. SumFunctionOnSet(f, T) = f[c] + SumFunctionOnSet(f, T \ {c})
    BY <1>2, <1>5, SumStep
<1> HIDE DEF c
<1>8. SumFunctionOnSet(f, T \ {c}) \in Int /\ f[c] \in Int
    BY <1>3, <1>4, <1>6
<1>9. ASSUME NEW x \in T, x # c
      PROVE  SumFunctionOnSet(f, T) = f[x] + SumFunctionOnSet(f, T \ {x})
    <2>1. Good(T \ {c}) /\ Good(T \ {x}) /\ Good((T \ {c}) \ {x})
        BY <1>3, <1>6
    <2>2. SumFunctionOnSet(f, T \ {c}) = f[x] + SumFunctionOnSet(f, (T \ {c}) \ {x})
        BY <1>9, <2>1
    <2>3. (T \ {x}) \ {c} = (T \ {c}) \ {x}
        OBVIOUS
    <2>4. SumFunctionOnSet(f, T \ {x}) = f[c] + SumFunctionOnSet(f, (T \ {c}) \ {x})
        BY <1>6, <1>9, <2>1, <2>3
    <2>5. f[x] \in Int /\ SumFunctionOnSet(f, (T \ {c}) \ {x}) \in Int
        BY <1>4, <2>1
    <2> HIDE DEF Good
    <2> QED
        BY <1>7, <1>8, <2>2, <2>4, <2>5
<1>10. Good(T)
    <2>1. SumFunctionOnSet(f, T) \in Int
        BY <1>7, <1>8
    <2>2. \A x \in T : SumFunctionOnSet(f, T) = f[x] + SumFunctionOnSet(f, T \ {x})
        BY <1>7, <1>9
    <2> QED
        BY <2>1, <2>2
<1> QED
    BY <1>2, <1>10

\* The sum depends on the values of the function only.
LEMMA SumSame ==
    ASSUME NEW S, IsFiniteSet(S), NEW f, NEW g, \A x \in S : f[x] = g[x]
    PROVE  SumFunctionOnSet(f, S) = SumFunctionOnSet(g, S)
<1> DEFINE B == {T \in SUBSET S : SumFunctionOnSet(f, T) # SumFunctionOnSet(g, T)}
<1>1. SUFFICES ASSUME B # {} PROVE FALSE
    OBVIOUS
<1>2. PICK T \in B : IsFiniteSet(T) /\ \A U \in B : ~(U \subseteq T /\ U # T)
    <2>1. B \subseteq SUBSET S
        OBVIOUS
    <2> HIDE DEF B
    <2> QED
        BY <1>1, <2>1, MinimalSubset
<1>3. T # {} /\ T \subseteq S
    BY <1>2, SumEmpty
<1>4. Chosen(T) \in T
    BY <1>3 DEF Chosen
<1>5. SumFunctionOnSet(f, T \ {Chosen(T)}) = SumFunctionOnSet(g, T \ {Chosen(T)})
    BY <1>2, <1>4
<1>6. f[Chosen(T)] = g[Chosen(T)]
    BY <1>3, <1>4
<1> QED
    BY <1>2, <1>3, <1>5, <1>6, SumStep

\* Changing the function at one element changes the sum by the difference.
LEMMA SumUpdate ==
    ASSUME NEW S, IsFiniteSet(S), NEW f, NEW g, NEW x \in S,
           \A y \in S : f[y] \in Int /\ g[y] \in Int,
           \A y \in S \ {x} : g[y] = f[y]
    PROVE  SumFunctionOnSet(g, S) = SumFunctionOnSet(f, S) + (g[x] - f[x])
<1>1. IsFiniteSet(S \ {x})
    BY FS_RemoveElement
<1>2. SumFunctionOnSet(g, S \ {x}) = SumFunctionOnSet(f, S \ {x})
    BY <1>1, SumSame
<1>3. SumFunctionOnSet(f, S \ {x}) \in Int
    BY <1>1, SumSplit
<1>4. /\ SumFunctionOnSet(f, S) = f[x] + SumFunctionOnSet(f, S \ {x})
      /\ SumFunctionOnSet(g, S) = g[x] + SumFunctionOnSet(g, S \ {x})
    BY SumSplit
<1> QED
    BY <1>2, <1>3, <1>4

\* A sum of naturals is a natural, and no summand exceeds it.
LEMMA SumNat ==
    ASSUME NEW S, IsFiniteSet(S), NEW f, \A x \in S : f[x] \in Nat
    PROVE  /\ SumFunctionOnSet(f, S) \in Nat
           /\ \A x \in S : f[x] <= SumFunctionOnSet(f, S)
<1>1. ASSUME NEW R \in SUBSET S PROVE SumFunctionOnSet(f, R) \in Nat
    <2> DEFINE B == {T \in SUBSET S : SumFunctionOnSet(f, T) \notin Nat}
    <2>1. SUFFICES ASSUME B # {} PROVE FALSE
        OBVIOUS
    <2>2. PICK T \in B : IsFiniteSet(T) /\ \A U \in B : ~(U \subseteq T /\ U # T)
        <3>1. B \subseteq SUBSET S
            OBVIOUS
        <3> HIDE DEF B
        <3> QED
            BY <2>1, <3>1, MinimalSubset
    <2>3. T # {} /\ T \subseteq S
        <3>1. SumFunctionOnSet(f, {}) \in Nat
            BY SumEmpty
        <3> QED
            BY <2>2, <3>1
    <2>4. Chosen(T) \in T
        BY <2>3 DEF Chosen
    <2>5. SumFunctionOnSet(f, T \ {Chosen(T)}) \in Nat
        BY <2>2, <2>4
    <2>6. f[Chosen(T)] \in Nat
        BY <2>3, <2>4
    <2> QED
        BY <2>2, <2>3, <2>5, <2>6, SumStep
<1>2. ASSUME NEW x \in S PROVE f[x] <= SumFunctionOnSet(f, S)
    <2>1. SumFunctionOnSet(f, S \ {x}) \in Nat
        BY <1>1
    <2>2. SumFunctionOnSet(f, S) = f[x] + SumFunctionOnSet(f, S \ {x})
        BY SumSplit
    <2> QED
        BY <2>1, <2>2
<1> QED
    BY <1>1, <1>2

-----------------------------------------------------------------------------
(***************************************************************************)
(* Sums of related functions.                                              *)
(***************************************************************************)

\* Induction over the subsets of a finite set, for a property that is a set of subsets.
LEMMA SubsetInduction ==
    ASSUME NEW S, IsFiniteSet(S), NEW P, {} \in P,
           \A T \in SUBSET S : \A x \in S \ T : T \in P => T \cup {x} \in P
    PROVE  S \in P
<1> DEFINE B == {T \in SUBSET S : T \notin P}
<1>1. SUFFICES ASSUME B # {} PROVE FALSE
    OBVIOUS
<1>2. PICK T \in B : IsFiniteSet(T) /\ \A U \in B : ~(U \subseteq T /\ U # T)
    <2>1. B \subseteq SUBSET S
        OBVIOUS
    <2> HIDE DEF B
    <2> QED
        BY <1>1, <2>1, MinimalSubset
<1>3. PICK x \in T : TRUE
    BY <1>2
<1>4. T \ {x} \in SUBSET S /\ x \in S \ (T \ {x}) /\ (T \ {x}) \cup {x} = T
    BY <1>2, <1>3
<1>5. T \ {x} \in P
    BY <1>2, <1>3, <1>4
<1> QED
    BY <1>2, <1>4, <1>5

\* f has integer values on S
IntValued(f, S) == \A x \in S : f[x] \in Int

\* Adding an element to a set adds its value to the sum.
LEMMA SumAddElement ==
    ASSUME NEW S, IsFiniteSet(S), NEW f, IntValued(f, S),
           NEW T \in SUBSET S, NEW x \in S \ T
    PROVE  /\ SumFunctionOnSet(f, T) \in Int
           /\ SumFunctionOnSet(f, T \cup {x}) = f[x] + SumFunctionOnSet(f, T)
<1>1. IsFiniteSet(T) /\ IsFiniteSet(T \cup {x})
    BY FS_Subset
<1>2. (T \cup {x}) \ {x} = T
    OBVIOUS
<1> QED
    BY <1>1, <1>2, SumSplit DEF IntValued

\* A sum is the sum over a subset and the sum over the rest.
LEMMA SumUnion ==
    ASSUME NEW S, IsFiniteSet(S), NEW R \in SUBSET S, NEW f, \A x \in S : f[x] \in Int
    PROVE  SumFunctionOnSet(f, S) = SumFunctionOnSet(f, R) + SumFunctionOnSet(f, S \ R)
<1> DEFINE P == {T \in SUBSET S : SumFunctionOnSet(f, T)
                    = SumFunctionOnSet(f, T \cap R) + SumFunctionOnSet(f, T \ R)}
<1>f. IntValued(f, S)
    BY DEF IntValued
<1>1. {} \in P
    <2>1. {} \cap R = {} /\ {} \ R = {}
        OBVIOUS
    <2> QED
        BY <2>1, SumEmpty
<1>2. ASSUME NEW T \in SUBSET S, NEW x \in S \ T, T \in P PROVE T \cup {x} \in P
    <2>1. /\ SumFunctionOnSet(f, T) \in Int
          /\ SumFunctionOnSet(f, T \cup {x}) = f[x] + SumFunctionOnSet(f, T)
        BY <1>f, SumAddElement
    <2>2. /\ T \cap R \in SUBSET S /\ x \in S \ (T \cap R)
          /\ T \ R \in SUBSET S /\ x \in S \ (T \ R)
        OBVIOUS
    <2>3. /\ SumFunctionOnSet(f, T \cap R) \in Int
          /\ SumFunctionOnSet(f, (T \cap R) \cup {x}) = f[x] + SumFunctionOnSet(f, T \cap R)
        BY <1>f, <2>2, SumAddElement
    <2>4. /\ SumFunctionOnSet(f, T \ R) \in Int
          /\ SumFunctionOnSet(f, (T \ R) \cup {x}) = f[x] + SumFunctionOnSet(f, T \ R)
        BY <1>f, <2>2, SumAddElement
    <2>5. f[x] \in Int /\ T \cup {x} \in SUBSET S
        OBVIOUS
    <2>6. SumFunctionOnSet(f, T) = SumFunctionOnSet(f, T \cap R) + SumFunctionOnSet(f, T \ R)
        BY <1>2
    <2> DEFINE A == SumFunctionOnSet(f, T \cap R)
               B == SumFunctionOnSet(f, T \ R)
               C == SumFunctionOnSet(f, (T \cup {x}) \cap R)
               D == SumFunctionOnSet(f, (T \cup {x}) \ R)
    <2>7. A \in Int /\ B \in Int /\ SumFunctionOnSet(f, T) = A + B
        BY <2>3, <2>4, <2>6, Zenon
    <2>8. \/ C = f[x] + A /\ D = B
          \/ C = A /\ D = f[x] + B
        <3>1. CASE x \in R
            <4>1. (T \cup {x}) \cap R = (T \cap R) \cup {x} /\ (T \cup {x}) \ R = T \ R
                BY <3>1
            <4> QED
                BY <2>3, <4>1, Zenon
        <3>2. CASE x \notin R
            <4>1. (T \cup {x}) \cap R = T \cap R /\ (T \cup {x}) \ R = (T \ R) \cup {x}
                BY <3>2
            <4> QED
                BY <2>4, <4>1, Zenon
        <3> QED
            BY <3>1, <3>2
    <2> HIDE DEF A, B, C, D
    <2>9. SumFunctionOnSet(f, T \cup {x}) = C + D
        BY <2>1, <2>5, <2>7, <2>8
    <2> QED
        BY <2>5, <2>9 DEF C, D
<1>3. S \in P
    <2> HIDE DEF P
    <2> QED
        BY <1>1, <1>2, SubsetInduction
<1>4. S \cap R = R
    OBVIOUS
<1> QED
    BY <1>3, <1>4

\* h is the sum of f and g, integer functions on S
IsSum(h, f, g, S) == \A x \in S : f[x] \in Int /\ g[x] \in Int /\ h[x] = f[x] + g[x]

\* The sum of a sum of two functions.
LEMMA SumPlus ==
    ASSUME NEW S, IsFiniteSet(S), NEW f, NEW g, NEW h, IsSum(h, f, g, S)
    PROVE  SumFunctionOnSet(h, S) = SumFunctionOnSet(f, S) + SumFunctionOnSet(g, S)
<1> DEFINE P == {T \in SUBSET S : SumFunctionOnSet(h, T)
                    = SumFunctionOnSet(f, T) + SumFunctionOnSet(g, T)}
<1> HIDE DEF P
<1>f. IntValued(f, S)
    BY DEF IntValued, IsSum
<1>g. IntValued(g, S)
    BY DEF IntValued, IsSum
<1>h. IntValued(h, S)
    BY DEF IntValued, IsSum
<1>1. {} \in P
    BY SumEmpty DEF P
<1>2. ASSUME NEW T \in SUBSET S, NEW x \in S \ T, T \in P PROVE T \cup {x} \in P
    <2>1. /\ SumFunctionOnSet(f, T) \in Int
          /\ SumFunctionOnSet(f, T \cup {x}) = f[x] + SumFunctionOnSet(f, T)
        BY <1>f, SumAddElement
    <2>2. /\ SumFunctionOnSet(g, T) \in Int
          /\ SumFunctionOnSet(g, T \cup {x}) = g[x] + SumFunctionOnSet(g, T)
        BY <1>g, SumAddElement
    <2>3. /\ SumFunctionOnSet(h, T) \in Int
          /\ SumFunctionOnSet(h, T \cup {x}) = h[x] + SumFunctionOnSet(h, T)
        BY <1>h, SumAddElement
    <2>4. f[x] \in Int /\ g[x] \in Int /\ h[x] = f[x] + g[x] /\ T \cup {x} \in SUBSET S
        BY DEF IsSum
    <2>5. SumFunctionOnSet(h, T) = SumFunctionOnSet(f, T) + SumFunctionOnSet(g, T)
        BY <1>2 DEF P
    <2> QED
        BY <2>1, <2>2, <2>3, <2>4, <2>5 DEF P
<1>3. S \in P
    BY <1>1, <1>2, SubsetInduction
<1> QED
    BY <1>3 DEF P

\* a times f is at most b times g, natural functions on S
IsScaled(f, a, g, b, S) == \A x \in S : f[x] \in Nat /\ g[x] \in Nat /\ f[x] * a <= g[x] * b

\* A bound in proportion on every summand bounds the sum.
LEMMA SumScale ==
    ASSUME NEW S, IsFiniteSet(S), NEW a \in Nat, NEW b \in Nat, NEW f, NEW g, IsScaled(f, a, g, b, S)
    PROVE  SumFunctionOnSet(f, S) * a <= SumFunctionOnSet(g, S) * b
<1> DEFINE P == {T \in SUBSET S : SumFunctionOnSet(f, T) * a <= SumFunctionOnSet(g, T) * b}
<1> HIDE DEF P
<1>f. IntValued(f, S)
    BY DEF IntValued, IsScaled
<1>g. IntValued(g, S)
    BY DEF IntValued, IsScaled
<1>1. {} \in P
    BY SumEmpty DEF P
<1>2. ASSUME NEW T \in SUBSET S, NEW x \in S \ T, T \in P PROVE T \cup {x} \in P
    <2> DEFINE F == SumFunctionOnSet(f, T)
               G == SumFunctionOnSet(g, T)
    <2>1. F \in Int /\ SumFunctionOnSet(f, T \cup {x}) = f[x] + F
        BY <1>f, SumAddElement
    <2>2. G \in Int /\ SumFunctionOnSet(g, T \cup {x}) = g[x] + G
        BY <1>g, SumAddElement
    <2>3. f[x] \in Nat /\ g[x] \in Nat /\ f[x] * a <= g[x] * b /\ T \cup {x} \in SUBSET S
        BY DEF IsScaled
    <2>4. F * a <= G * b
        BY <1>2 DEF P
    <2> HIDE DEF F, G
    <2>5. (f[x] + F) * a = f[x] * a + F * a /\ (g[x] + G) * b = g[x] * b + G * b
        BY <2>1, <2>2, <2>3
    <2>6. f[x] * a \in Int /\ F * a \in Int /\ g[x] * b \in Int /\ G * b \in Int
        BY <2>1, <2>2, <2>3
    <2>7. (f[x] + F) * a <= (g[x] + G) * b
        BY <2>3, <2>4, <2>5, <2>6
    <2> QED
        BY <2>1, <2>2, <2>3, <2>7 DEF P
<1>3. S \in P
    BY <1>1, <1>2, SubsetInduction
<1> QED
    BY <1>3 DEF P

\* A sum of zeros.
LEMMA SumZero ==
    ASSUME NEW S, IsFiniteSet(S), NEW f, \A x \in S : f[x] = 0
    PROVE  SumFunctionOnSet(f, S) = 0
<1>1. IsScaled(f, 1, f, 0, S)
    BY DEF IsScaled
<1>2. SumFunctionOnSet(f, S) * 1 <= SumFunctionOnSet(f, S) * 0
    BY <1>1, SumScale
<1>3. SumFunctionOnSet(f, S) \in Nat
    BY SumNat
<1> QED
    BY <1>2, <1>3

\* h maps S into R one to one, g takes the values of e there and is zero elsewhere
Reindexes(e, S, g, R, h) ==
    /\ \A x \in S : h[x] \in R /\ e[x] \in Int /\ g[h[x]] = e[x]
    /\ \A x, y \in S : h[x] = h[y] => x = y
    /\ \A y \in R : g[y] \in Int /\ ((\A x \in S : h[x] # y) => g[y] = 0)

\* The sum of a function does not change when its arguments are renamed.
LEMMA SumReindex ==
    ASSUME NEW S, IsFiniteSet(S), NEW R, IsFiniteSet(R), NEW e, NEW g, NEW h,
           Reindexes(e, S, g, R, h)
    PROVE  SumFunctionOnSet(e, S) = SumFunctionOnSet(g, R)
<1> DEFINE Image(T) == {h[x] : x \in T}
           P == {T \in SUBSET S : SumFunctionOnSet(e, T) = SumFunctionOnSet(g, Image(T))}
<1>e. IntValued(e, S)
    BY DEF IntValued, Reindexes
<1>g. IntValued(g, R)
    BY DEF IntValued, Reindexes
<1>1. {} \in P
    <2>1. Image({}) = {}
        OBVIOUS
    <2> QED
        BY <2>1, SumEmpty
<1>2. ASSUME NEW T \in SUBSET S, NEW x \in S \ T, T \in P PROVE T \cup {x} \in P
    <2>1. Image(T) \in SUBSET R /\ h[x] \in R \ Image(T) /\ e[x] = g[h[x]]
        BY DEF Reindexes
    <2>2. Image(T \cup {x}) = Image(T) \cup {h[x]}
        OBVIOUS
    <2>3. SumFunctionOnSet(e, T) = SumFunctionOnSet(g, Image(T)) /\ T \cup {x} \in SUBSET S
        BY <1>2
    <2> HIDE DEF Image, P
    <2>4. SumFunctionOnSet(e, T \cup {x}) = e[x] + SumFunctionOnSet(e, T)
        BY <1>e, SumAddElement
    <2>5. SumFunctionOnSet(g, Image(T) \cup {h[x]}) = g[h[x]] + SumFunctionOnSet(g, Image(T))
        BY <1>g, <2>1, SumAddElement
    <2> QED
        BY <2>1, <2>2, <2>3, <2>4, <2>5 DEF P
<1>3. S \in P
    <2> HIDE DEF P
    <2> QED
        BY <1>1, <1>2, SubsetInduction
<1>4. Image(S) \in SUBSET R /\ \A y \in R \ Image(S) : g[y] = 0
    BY DEF Reindexes
<1>5. SumFunctionOnSet(e, S) = SumFunctionOnSet(g, Image(S))
    BY <1>3
<1> HIDE DEF Image, P
<1>6. IsFiniteSet(Image(S)) /\ IsFiniteSet(R \ Image(S))
    BY <1>4, FS_Subset
<1>7. SumFunctionOnSet(g, R) = SumFunctionOnSet(g, Image(S)) + SumFunctionOnSet(g, R \ Image(S))
    BY <1>4, <1>g, SumUnion DEF IntValued
<1>8. SumFunctionOnSet(g, R \ Image(S)) = 0
    BY <1>4, <1>6, SumZero
<1>9. SumFunctionOnSet(g, Image(S)) \in Int
    BY <1>4, <1>6, <1>g, SumSplit DEF IntValued
<1> QED
    BY <1>5, <1>7, <1>8, <1>9

\* Counting the arguments of g value by value counts all of them.
LEMMA SumCount ==
    ASSUME NEW D, IsFiniteSet(D), NEW S, IsFiniteSet(S), NEW g, \A d \in D : g[d] \in S
    PROVE  SumFunctionOnSet([i \in S |-> Cardinality({d \in D : g[d] = i})], S) = Cardinality(D)
<1> DEFINE Count(T) == [i \in S |-> Cardinality({d \in T : g[d] = i})]
           P == {T \in SUBSET D : SumFunctionOnSet(Count(T), S) = Cardinality(T)}
<1>1. {} \in P
    <2>1. \A i \in S : Count({})[i] = 0
        <3>1. \A i \in S : {d \in {} : g[d] = i} = {}
            OBVIOUS
        <3> QED
            BY <3>1, FS_EmptySet
    <2> HIDE DEF Count
    <2>2. SumFunctionOnSet(Count({}), S) = 0
        BY <2>1, SumZero
    <2> QED
        BY <2>2, FS_EmptySet
<1>2. ASSUME NEW T \in SUBSET D, NEW x \in D \ T, T \in P PROVE T \cup {x} \in P
    <2>1. IsFiniteSet(T) /\ g[x] \in S /\ T \cup {x} \in SUBSET D
        BY FS_Subset
    <2>2. ASSUME NEW i \in S
          PROVE  /\ Count(T)[i] \in Int
                 /\ Count(T \cup {x})[i] = Count(T)[i] + (IF i = g[x] THEN 1 ELSE 0)
        <3> DEFINE A == {d \in T : g[d] = i}
        <3>1. IsFiniteSet(A) /\ x \notin A
            BY <2>1, FS_Subset
        <3>2. {d \in T \cup {x} : g[d] = i} = IF i = g[x] THEN A \cup {x} ELSE A
            OBVIOUS
        <3>3. Count(T)[i] = Cardinality(A)
            OBVIOUS
        <3>4. Count(T \cup {x})[i] = Cardinality(IF i = g[x] THEN A \cup {x} ELSE A)
            BY <3>2
        <3> HIDE DEF A, Count
        <3>5. Cardinality(A) \in Nat
            BY <3>1, FS_CardinalityType
        <3>6. Cardinality(A \cup {x}) = Cardinality(A) + 1
            BY <3>1, FS_AddElement
        <3> QED
            BY <3>3, <3>4, <3>5, <3>6
    <2>3. SumFunctionOnSet(Count(T), S) = Cardinality(T)
        BY <1>2
    <2> HIDE DEF Count, P
    <2>4. SumFunctionOnSet(Count(T \cup {x}), S) = SumFunctionOnSet(Count(T), S) + 1
        <3> DEFINE c == Count(T)
                   d == Count(T \cup {x})
        <3>1. \A y \in S : c[y] \in Int /\ d[y] = c[y] + (IF y = g[x] THEN 1 ELSE 0)
            BY <2>2
        <3> HIDE DEF c, d
        <3> DEFINE z == g[x]
        <3>2. \A y \in S : c[y] \in Int /\ d[y] \in Int
            BY <3>1
        <3>3. \A y \in S \ {z} : d[y] = c[y]
            BY <3>1
        <3>4. z \in S /\ d[z] - c[z] = 1
            BY <2>1, <3>1
        <3> HIDE DEF z
        <3>5. SumFunctionOnSet(d, S) = SumFunctionOnSet(c, S) + (d[z] - c[z])
            BY <3>2, <3>3, <3>4, SumUpdate, SMTT(20)
        <3> QED
            BY <3>4, <3>5 DEF c, d
    <2>5. Cardinality(T \cup {x}) = Cardinality(T) + 1
        BY <2>1, FS_AddElement
    <2> QED
        BY <2>1, <2>3, <2>4, <2>5 DEF P
<1>3. D \in P
    <2> HIDE DEF P
    <2> QED
        BY <1>1, <1>2, SubsetInduction
<1> QED
    BY <1>3
=============================================================================
