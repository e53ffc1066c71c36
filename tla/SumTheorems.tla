---------------------------- MODULE SumTheorems ----------------------------
(***************************************************************************)
(* What SumFunctionOnSet of the community modules computes, for every      *)
(* finite set: the byte budget of the pipeline and the limiters are sums   *)
(* over the holders of reservations.                                       *)
(*                                                                         *)
(* The operator is a recursive function over the subsets of its set.  An   *)
(* induction over those is carried out by least counterexample, which      *)
(* needs no theorem about an arbitrary predicate: every non-empty          *)
(* collection of subsets of a finite set has a minimal member.             *)
(***************************************************************************)
EXTENDS Functions, FiniteSetTheorems, TLAPS

\* A counterexample among the subsets of a finite set can be taken least.
LEMMA LeastSubset ==
  ASSUME NEW S, IsFiniteSet(S), NEW C, C \subseteq SUBSET S, C # {}
  PROVE  \E T \in C : \A U \in C : U \subseteq T => U = T
<1>1. C \subseteq FiniteSubsetsOf(S)
  BY FS_FiniteSubsetsOfFinite
<1>2. \E T \in C : \A U \in C : ~ (<<U, T>> \in StrictSubsetOrdering(S))
  BY <1>1, FS_StrictSubsetOrderingWellFounded, WFMin, Zenon
<1> QED
  BY <1>2 DEF StrictSubsetOrdering

\* And so can one among the natural numbers.
LEMMA LeastNatural ==
  ASSUME NEW C, C \subseteq Nat, C # {}
  PROVE  \E n \in C : \A m \in C : n <= m
<1>1. PICK n \in C : \A m \in C : ~ (<<m, n>> \in OpToRel(<, Nat))
  BY WFMin, NatLessThanWellFounded, Zenon
<1>2. \A m \in C : ~ (m < n)
  BY <1>1 DEF OpToRel
<1> QED
  BY <1>2

\* The element with which the fold starts.
First(s) == CHOOSE x \in s : TRUE

\* h is the fold's recursive function on the collection D of sets.
Sums(F, D, h) ==
    h = [s \in D |-> IF s = {} THEN 0 ELSE F[First(s)] + h[s \ {First(s)}]]

\* The fold starts with one of the set's elements.
LEMMA FirstIn ==
  ASSUME NEW s, s # {}
  PROVE  First(s) \in s
  BY DEF First

\* There is such a function on the subsets of S of at most n elements: one for
\* n - 1 is extended by one step.
LEMMA SumsUpTo ==
  ASSUME NEW S, IsFiniteSet(S), NEW F, NEW n \in Nat
  PROVE  \E h : Sums(F, {s \in SUBSET S : Cardinality(s) <= n}, h)
<1> DEFINE D(k) == {s \in SUBSET S : Cardinality(s) <= k}
           Bad == {k \in Nat : ~ \E h : Sums(F, D(k), h)}
<1>1. ASSUME NEW s \in SUBSET S, s # {}
      PROVE  /\ s \ {First(s)} \in SUBSET S
             /\ Cardinality(s) \in Nat
             /\ Cardinality(s \ {First(s)}) = Cardinality(s) - 1
  BY <1>1, FirstIn, FS_Subset, FS_RemoveElement, FS_CardinalityType
<1>2. SUFFICES ASSUME Bad # {} PROVE FALSE
  OBVIOUS
<1>3. PICK k \in Bad : \A j \in Bad : k <= j
  <2> HIDE DEF Bad
  <2>1. Bad \subseteq Nat
    BY DEF Bad
  <2> QED
    BY <1>2, <2>1, LeastNatural
<1>4. CASE k = 0
  <2>1. D(0) = {{}}
    <3>1. ASSUME NEW s \in D(0) PROVE s = {}
      BY <3>1, FS_Subset, FS_EmptySet, FS_CardinalityType
    <3>2. {} \in D(0)
      BY FS_EmptySet
    <3> QED
      BY <3>1, <3>2
  <2>2. Sums(F, D(0), [s \in D(0) |-> 0])
    BY <2>1 DEF Sums
  <2> QED
    BY <1>3, <1>4, <2>2
<1>5. CASE k # 0
  <2>1. k - 1 \in Nat /\ k - 1 \notin Bad
    <3>1. Bad \subseteq Nat
      OBVIOUS
    <3> HIDE DEF Bad
    <3>2. k \in Nat /\ k - 1 \in Nat /\ ~(k <= k - 1)
      BY <1>5, <3>1
    <3> QED
      BY <1>3, <3>2
  <2>2. PICK g : Sums(F, D(k-1), g)
    BY <2>1
  <2> DEFINE h == [s \in D(k) |->
                     IF s = {} THEN 0 ELSE F[First(s)] + g[s \ {First(s)}]]
  <2>3. ASSUME NEW s \in D(k), s # {}
        PROVE  h[s \ {First(s)}] = g[s \ {First(s)}]
    <3> DEFINE t == s \ {First(s)}
    <3>1. t \in D(k-1) /\ t \in D(k)
      BY <1>1, <2>3
    <3>2. g[t] = IF t = {} THEN 0 ELSE F[First(t)] + g[t \ {First(t)}]
      BY <2>2, <3>1 DEF Sums
    <3> QED
      BY <3>1, <3>2
  <2>4. Sums(F, D(k), h)
    BY <2>3 DEF Sums
  <2> QED
    BY <1>3, <2>4
<1> QED
  BY <1>4, <1>5

\* So there is one on all the subsets of S.
LEMMA SumsExists ==
  ASSUME NEW S, IsFiniteSet(S), NEW F
  PROVE  \E h : Sums(F, SUBSET S, h)
<1> DEFINE D == {s \in SUBSET S : Cardinality(s) <= Cardinality(S)}
<1>1. D = SUBSET S
  BY FS_Subset
<1>2. \E h : Sums(F, D, h)
  BY FS_CardinalityType, SumsUpTo
<1> QED
  BY <1>1, <1>2, Zenon

\* Two of them agree where both are defined.
LEMMA SumsAgree ==
  ASSUME NEW T, IsFiniteSet(T), NEW F, NEW D, SUBSET T \subseteq D,
         NEW g, NEW h, Sums(F, D, g), Sums(F, SUBSET T, h)
  PROVE  g[T] = h[T]
<1> DEFINE Bad == {s \in SUBSET T : g[s] # h[s]}
<1>1. SUFFICES ASSUME Bad # {} PROVE FALSE
  OBVIOUS
<1>2. PICK s \in Bad : \A t \in Bad : t \subseteq s => t = s
  <2> HIDE DEF Bad
  <2>1. Bad \subseteq SUBSET T
    BY DEF Bad
  <2> QED
    BY <1>1, <2>1, LeastSubset
<1>3. s \in D /\ s # {}
  BY <1>2 DEF Sums
<1>4. s \ {First(s)} \in D /\ s \ {First(s)} \notin Bad
  BY <1>2, <1>3, FirstIn
<1>5. g[s \ {First(s)}] = h[s \ {First(s)}]
  BY <1>2, <1>4
<1>6. g[s] = F[First(s)] + g[s \ {First(s)}]
  BY <1>3 DEF Sums
<1>7. h[s] = F[First(s)] + h[s \ {First(s)}]
  BY <1>2, <1>3 DEF Sums
<1> QED
  BY <1>2, <1>5, <1>6, <1>7

\* The sum over a set is what the recursive function gives for it.
LEMMA SumUnfolded ==
  ASSUME NEW S, IsFiniteSet(S), NEW F
  PROVE  \E h : Sums(F, SUBSET S, h) /\ SumFunctionOnSet(F, S) = h[S]
<1> DEFINE h == CHOOSE g : Sums(F, SUBSET S, g)
<1>1. Sums(F, SUBSET S, h)
  BY SumsExists
<1>2. SumFunctionOnSet(F, S) = h[S]
  BY DEF SumFunctionOnSet, FoldFunctionOnSet, MapThenFoldSet, Sums, First
<1> QED
  BY <1>1, <1>2

\* The recursion, without the function: a sum is the sum of what is left when
\* some one element is taken out, and that element's value.
LEMMA SumFirst ==
  ASSUME NEW S, IsFiniteSet(S), NEW F
  PROVE  SumFunctionOnSet(F, S) =
            IF S = {} THEN 0
            ELSE F[First(S)] + SumFunctionOnSet(F, S \ {First(S)})
<1> DEFINE T == S \ {First(S)}
<1>1. PICK g : Sums(F, SUBSET S, g) /\ SumFunctionOnSet(F, S) = g[S]
  BY SumUnfolded
<1>2. IsFiniteSet(T) /\ T \in SUBSET S
  BY FS_Subset
<1>3. PICK h : Sums(F, SUBSET T, h) /\ SumFunctionOnSet(F, T) = h[T]
  BY <1>2, SumUnfolded
<1>4. g[T] = h[T]
  <2>1. SUBSET T \subseteq SUBSET S
    OBVIOUS
  <2> HIDE DEF T
  <2> QED
    BY <1>1, <1>2, <1>3, <2>1, SumsAgree, SMT
<1>5. g[S] = IF S = {} THEN 0 ELSE F[First(S)] + g[T]
  BY <1>1 DEF Sums
<1> QED
  BY <1>1, <1>3, <1>4, <1>5, Zenon

\* A sum of integers is an integer.
LEMMA SumType ==
  ASSUME NEW S, IsFiniteSet(S), NEW F, \A x \in S : F[x] \in Int
  PROVE  SumFunctionOnSet(F, S) \in Int
<1> DEFINE Bad == {s \in SUBSET S : SumFunctionOnSet(F, s) \notin Int}
<1>1. SUFFICES ASSUME Bad # {} PROVE FALSE
  OBVIOUS
<1>2. PICK s \in Bad : \A t \in Bad : t \subseteq s => t = s
  <2> HIDE DEF Bad
  <2>1. Bad \subseteq SUBSET S
    BY DEF Bad
  <2> QED
    BY <1>1, <2>1, LeastSubset
<1>3. IsFiniteSet(s)
  BY <1>2, FS_Subset
<1>4. SumFunctionOnSet(F, s) =
         IF s = {} THEN 0 ELSE F[First(s)] + SumFunctionOnSet(F, s \ {First(s)})
  BY <1>3, SumFirst
<1>5. s # {}
  BY <1>2, <1>4
<1>6. s \ {First(s)} \notin Bad /\ First(s) \in S
  BY <1>2, <1>5, FirstIn
<1>7. SumFunctionOnSet(F, s \ {First(s)}) \in Int /\ F[First(s)] \in Int
  BY <1>2, <1>6
<1> QED
  BY <1>2, <1>4, <1>5, <1>7

\* It does not matter which element is taken out.
THEOREM SumRemove ==
  ASSUME NEW S, IsFiniteSet(S), NEW F, \A x \in S : F[x] \in Int,
         NEW x \in S
  PROVE  SumFunctionOnSet(F, S) = F[x] + SumFunctionOnSet(F, S \ {x})
<1> DEFINE Total(s) == SumFunctionOnSet(F, s)
           Bad == {s \in SUBSET S :
                      \E y \in s : Total(s) # F[y] + Total(s \ {y})}
<1>1. SUFFICES ASSUME Bad # {} PROVE FALSE
  OBVIOUS
<1>2. PICK s \in Bad : \A t \in Bad : t \subseteq s => t = s
  <2> HIDE DEF Bad
  <2>1. Bad \subseteq SUBSET S
    BY DEF Bad
  <2> QED
    BY <1>1, <2>1, LeastSubset
<1>3. PICK y \in s : Total(s) # F[y] + Total(s \ {y})
  BY <1>2
<1> DEFINE c == First(s)
           u == (s \ {c}) \ {y}
<1>4. c \in s /\ s \in SUBSET S
  BY <1>2, <1>3, FirstIn
<1>5. ASSUME NEW t \in SUBSET s PROVE IsFiniteSet(t) /\ Total(t) \in Int
  <2>1. IsFiniteSet(t) /\ \A z \in t : F[z] \in Int
    BY <1>4, <1>5, FS_Subset
  <2> QED
    BY <2>1, SumType
<1>6. Total(s) = F[c] + Total(s \ {c})
  BY <1>3, <1>5, SumFirst
<1>7. c # y
  BY <1>3, <1>6
\* What is left without one of the two is smaller, so no counterexample.
<1>8. s \ {c} \notin Bad /\ s \ {y} \notin Bad
  BY <1>2, <1>3, <1>4
<1>9. Total(s \ {c}) = F[y] + Total(u)
  BY <1>3, <1>4, <1>7, <1>8
<1>10. Total(s \ {y}) = F[c] + Total(u)
  <2>1. u = (s \ {y}) \ {c}
    OBVIOUS
  <2> QED
    BY <1>3, <1>4, <1>7, <1>8, <2>1
<1>11. F[c] \in Int /\ F[y] \in Int /\ Total(u) \in Int
  BY <1>3, <1>4, <1>5
<1> HIDE DEF Total, c, u
<1> QED
  BY <1>3, <1>6, <1>9, <1>10, <1>11

\* Putting one in adds its value.
THEOREM SumAdd ==
  ASSUME NEW S, IsFiniteSet(S), NEW F, NEW x, x \notin S,
         \A y \in S \cup {x} : F[y] \in Int
  PROVE  SumFunctionOnSet(F, S \cup {x}) = F[x] + SumFunctionOnSet(F, S)
<1>1. IsFiniteSet(S \cup {x})
  BY FS_AddElement
<1>2. (S \cup {x}) \ {x} = S
  OBVIOUS
<1> QED
  BY <1>1, <1>2, SumRemove

\* The sum over no elements.
THEOREM SumEmpty == \A F : SumFunctionOnSet(F, {}) = 0
  BY FS_EmptySet, SumFirst

\* The sum depends on the values of the elements alone.
THEOREM SumSame ==
  ASSUME NEW S, IsFiniteSet(S), NEW F, NEW G, \A x \in S : F[x] = G[x]
  PROVE  SumFunctionOnSet(F, S) = SumFunctionOnSet(G, S)
<1> DEFINE Bad == {s \in SUBSET S :
                      SumFunctionOnSet(F, s) # SumFunctionOnSet(G, s)}
<1>1. SUFFICES ASSUME Bad # {} PROVE FALSE
  OBVIOUS
<1>2. PICK s \in Bad : \A t \in Bad : t \subseteq s => t = s
  <2> HIDE DEF Bad
  <2>1. Bad \subseteq SUBSET S
    BY DEF Bad
  <2> QED
    BY <1>1, <2>1, LeastSubset
<1>3. IsFiniteSet(s)
  BY <1>2, FS_Subset
<1>4. s # {}
  BY <1>2, <1>3, SumFirst
<1>5. s \ {First(s)} \notin Bad /\ First(s) \in S
  BY <1>2, <1>4, FirstIn
<1>6. /\ F[First(s)] = G[First(s)]
      /\ SumFunctionOnSet(F, s \ {First(s)})
           = SumFunctionOnSet(G, s \ {First(s)})
  BY <1>2, <1>5
<1> QED
  BY <1>2, <1>3, <1>4, <1>6, SumFirst

\* A sum of natural numbers is none of its terms' less.
THEOREM SumNat ==
  ASSUME NEW S, IsFiniteSet(S), NEW F, \A x \in S : F[x] \in Nat
  PROVE  /\ SumFunctionOnSet(F, S) \in Nat
         /\ \A x \in S : F[x] <= SumFunctionOnSet(F, S)
<1> DEFINE Bad == {s \in SUBSET S : SumFunctionOnSet(F, s) \notin Nat}
<1>0. Bad = {}
  <2>1. SUFFICES ASSUME Bad # {} PROVE FALSE
    OBVIOUS
  <2>2. PICK s \in Bad : \A t \in Bad : t \subseteq s => t = s
    <3> HIDE DEF Bad
    <3>1. Bad \subseteq SUBSET S
      BY DEF Bad
    <3> QED
      BY <2>1, <3>1, LeastSubset
  <2>3. IsFiniteSet(s)
    BY <2>2, FS_Subset
  <2>4. SumFunctionOnSet(F, s) =
           IF s = {} THEN 0
           ELSE F[First(s)] + SumFunctionOnSet(F, s \ {First(s)})
    BY <2>3, SumFirst
  <2>5. s # {}
    BY <2>2, <2>4
  <2>6. s \ {First(s)} \notin Bad /\ First(s) \in S
    BY <2>2, <2>5, FirstIn
  <2>7. SumFunctionOnSet(F, s \ {First(s)}) \in Nat /\ F[First(s)] \in Nat
    BY <2>2, <2>6
  <2> QED
    BY <2>2, <2>4, <2>5, <2>7
<1>1. ASSUME NEW x \in S PROVE F[x] <= SumFunctionOnSet(F, S)
  <2>1. SumFunctionOnSet(F, S) = F[x] + SumFunctionOnSet(F, S \ {x})
    BY SumRemove
  <2>2. S \ {x} \notin Bad
    BY <1>0
  <2>3. SumFunctionOnSet(F, S \ {x}) \in Nat
    BY <2>2
  <2> QED
    BY <2>1, <2>3
<1> QED
  BY <1>0, <1>1

\* The sum over two sets that have no element in common.
THEOREM SumUnion ==
  ASSUME NEW S, IsFiniteSet(S), NEW T, IsFiniteSet(T), S \cap T = {},
         NEW F, \A x \in S \cup T : F[x] \in Int
  PROVE  SumFunctionOnSet(F, S \cup T)
            = SumFunctionOnSet(F, S) + SumFunctionOnSet(F, T)
<1> DEFINE Total(s) == SumFunctionOnSet(F, s)
           Bad == {t \in SUBSET T : Total(S \cup t) # Total(S) + Total(t)}
<1>1. SUFFICES ASSUME Bad # {} PROVE FALSE
  OBVIOUS
<1>2. PICK t \in Bad : \A u \in Bad : u \subseteq t => u = t
  <2> HIDE DEF Bad
  <2>1. Bad \subseteq SUBSET T
    BY DEF Bad
  <2> QED
    BY <1>1, <2>1, LeastSubset
<1>3. Total(S) \in Int
  BY SumType
<1>4. t # {}
  <2>1. Total({}) = 0 /\ S \cup {} = S
    BY SumEmpty
  <2>2. Total(S \cup t) # Total(S) + Total(t)
    BY <1>2
  <2> HIDE DEF Total, Bad
  <2> QED
    BY <1>3, <2>1, <2>2
<1>5. PICK x \in t : TRUE
  BY <1>4
<1> DEFINE u == t \ {x}
<1>6. u \in SUBSET T /\ u \notin Bad
  BY <1>2, <1>5
<1>7. Total(S \cup u) = Total(S) + Total(u)
  BY <1>6
<1>8. IsFiniteSet(t) /\ IsFiniteSet(u) /\ IsFiniteSet(S \cup t)
  BY <1>2, <1>6, FS_Subset, FS_Union
<1>9. Total(t) = F[x] + Total(u)
  <2>1. \A y \in t : F[y] \in Int
    BY <1>2
  <2> QED
    BY <1>5, <1>8, <2>1, SumRemove
<1>10. Total(S \cup t) = F[x] + Total(S \cup u)
  <2>1. x \in S \cup t /\ (S \cup t) \ {x} = S \cup u
    BY <1>2, <1>5
  <2>2. \A y \in S \cup t : F[y] \in Int
    BY <1>2
  <2> QED
    BY <1>8, <2>1, <2>2, SumRemove
<1>11. F[x] \in Int /\ Total(u) \in Int
  <2>1. \A y \in u : F[y] \in Int
    BY <1>6
  <2> QED
    BY <1>2, <1>5, <1>8, <2>1, SumType
<1>12. Total(S \cup t) # Total(S) + Total(t)
  BY <1>2
<1> HIDE DEF Total, u
<1> QED
  BY <1>3, <1>7, <1>9, <1>10, <1>11, <1>12

\* Fewer natural numbers have no larger sum.
THEOREM SumWithin ==
  ASSUME NEW S, IsFiniteSet(S), NEW T \in SUBSET S,
         NEW F, \A x \in S : F[x] \in Nat
  PROVE  SumFunctionOnSet(F, T) <= SumFunctionOnSet(F, S)
<1>1. IsFiniteSet(T) /\ IsFiniteSet(S \ T) /\ T \cap (S \ T) = {}
  BY FS_Subset
<1>2. T \cup (S \ T) = S
  OBVIOUS
<1>3. SumFunctionOnSet(F, S)
         = SumFunctionOnSet(F, T) + SumFunctionOnSet(F, S \ T)
  <2>1. SumFunctionOnSet(F, T \cup (S \ T))
           = SumFunctionOnSet(F, T) + SumFunctionOnSet(F, S \ T)
    BY <1>1, SumUnion
  <2> QED
    BY <1>2, <2>1
<1>4. SumFunctionOnSet(F, T) \in Nat /\ SumFunctionOnSet(F, S \ T) \in Nat
  BY <1>1, SumNat
<1> QED
  BY <1>3, <1>4

\* A sum of ones and zeros is at most as large as there are terms.
THEOREM SumCount ==
  ASSUME NEW S, IsFiniteSet(S), NEW F, \A x \in S : F[x] \in 0..1
  PROVE  SumFunctionOnSet(F, S) <= Cardinality(S)
<1> DEFINE Total(s) == SumFunctionOnSet(F, s)
           Bad == {s \in SUBSET S : ~ (Total(s) <= Cardinality(s))}
<1>1. SUFFICES ASSUME Bad # {} PROVE FALSE
  OBVIOUS
<1>2. PICK s \in Bad : \A t \in Bad : t \subseteq s => t = s
  <2> HIDE DEF Bad
  <2>1. Bad \subseteq SUBSET S
    BY DEF Bad
  <2> QED
    BY <1>1, <2>1, LeastSubset
<1>3. IsFiniteSet(s)
  BY <1>2, FS_Subset
<1>4. s # {}
  <2>1. Total({}) = 0 /\ Cardinality({}) = 0
    BY SumEmpty, FS_EmptySet
  <2>2. ~ (Total(s) <= Cardinality(s))
    BY <1>2
  <2> HIDE DEF Total, Bad
  <2> QED
    BY <2>1, <2>2
<1>5. PICK x \in s : TRUE
  BY <1>4
<1>6. s \ {x} \notin Bad /\ F[x] \in 0..1
  BY <1>2, <1>5
<1>7. /\ Total(s) = F[x] + Total(s \ {x}) /\ Total(s \ {x}) \in Int
      /\ IsFiniteSet(s \ {x})
  <2>1. (\A y \in s : F[y] \in Int) /\ IsFiniteSet(s \ {x})
    BY <1>2, <1>3, FS_RemoveElement
  <2>2. \A y \in s \ {x} : F[y] \in Int
    BY <2>1
  <2> QED
    BY <1>3, <1>5, <2>1, <2>2, SumRemove, SumType
<1>8. Total(s \ {x}) <= Cardinality(s \ {x})
  BY <1>2, <1>6
<1>9. Cardinality(s \ {x}) = Cardinality(s) - 1 /\ Cardinality(s) \in Nat
  BY <1>3, <1>5, FS_RemoveElement, FS_CardinalityType
<1>10. ~ (Total(s) <= Cardinality(s))
  BY <1>2
<1> HIDE DEF Total
<1> QED
  BY <1>6, <1>7, <1>8, <1>9, <1>10

\* Terms that are zero do not count.
THEOREM SumZeros ==
  ASSUME NEW S, IsFiniteSet(S), NEW T \in SUBSET S,
         NEW F, \A x \in T : F[x] \in Int, \A x \in S \ T : F[x] = 0
  PROVE  SumFunctionOnSet(F, S) = SumFunctionOnSet(F, T)
<1> DEFINE Bad == {s \in SUBSET (S \ T) : SumFunctionOnSet(F, s) # 0}
<1>1. IsFiniteSet(T) /\ IsFiniteSet(S \ T) /\ T \cap (S \ T) = {}
  BY FS_Subset
<1>2. Bad = {}
  <2>1. SUFFICES ASSUME Bad # {} PROVE FALSE
    OBVIOUS
  <2>2. PICK s \in Bad : \A t \in Bad : t \subseteq s => t = s
    <3> HIDE DEF Bad
    <3>1. Bad \subseteq SUBSET (S \ T)
      BY DEF Bad
    <3> QED
      BY <1>1, <2>1, <3>1, LeastSubset
  <2>3. IsFiniteSet(s)
    BY <1>1, <2>2, FS_Subset
  <2>4. s # {}
    BY <2>2, SumEmpty
  <2>5. First(s) \in s /\ s \ {First(s)} \notin Bad
    BY <2>2, <2>4, FirstIn
  <2>6. F[First(s)] = 0 /\ SumFunctionOnSet(F, s \ {First(s)}) = 0
    BY <2>2, <2>5
  <2>7. SumFunctionOnSet(F, s)
           = F[First(s)] + SumFunctionOnSet(F, s \ {First(s)})
    BY <2>3, <2>4, SumFirst
  <2>8. SumFunctionOnSet(F, s) # 0
    BY <2>2
  <2> QED
    BY <2>6, <2>7, <2>8
<1>3. SumFunctionOnSet(F, S \ T) = 0
  BY <1>2
<1>4. SumFunctionOnSet(F, T) \in Int
  BY <1>1, SumType
<1>5. SumFunctionOnSet(F, T \cup (S \ T))
         = SumFunctionOnSet(F, T) + SumFunctionOnSet(F, S \ T)
  <2>1. \A x \in T \cup (S \ T) : F[x] \in Int
    OBVIOUS
  <2> QED
    BY <1>1, <2>1, SumUnion
<1>6. T \cup (S \ T) = S
  OBVIOUS
<1> QED
  BY <1>3, <1>4, <1>5, <1>6
============================================================================
