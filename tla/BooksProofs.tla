---------------------------- MODULE BooksProofs ----------------------------
(***************************************************************************)
(* The ledger's readers keep what they promise: nothing is lost but to a   *)
(* torn write, the console's memo is never older than the request it       *)
(* answers, a bill replaces the priced usage of its own days, and the bars *)
(* of the dashboard add up to its total.  And a stream, cut into reads in  *)
(* any way, meters like a body.                                            *)
(*                                                                         *)
(* What a recursion computes (a sum over a set, a reading of a sequence)   *)
(* is found by induction: of the inputs it would fail for, take a least.   *)
(***************************************************************************)
EXTENDS Books, TLAPS, FiniteSetTheorems, WellFoundedInduction

\* Of a set of subsets of a finite set, one has no other below it.
LEMMA LeastSubset ==
  ASSUME NEW S, IsFiniteSet(S), NEW Bad, \A T \in Bad : T \in SUBSET S, Bad # {}
  PROVE  \E T \in Bad : \A U \in Bad : U \subseteq T => U = T
<1> DEFINE R == StrictSubsetOrdering(S)
           F == FiniteSubsetsOf(S)
<1>1. IsWellFoundedOn(R, F)
  BY FS_StrictSubsetOrderingWellFounded
<1>2. Bad \subseteq F
  BY FS_FiniteSubsetsOfFinite
<1>3. PICK T \in Bad : \A U \in Bad : ~(<<U, T>> \in R)
  <2> HIDE DEF R, F
  <2> QED  BY <1>1, <1>2, WFMin
<1>4. \A U \in Bad : U \subseteq T => U = T
  BY <1>3 DEF StrictSubsetOrdering
<1> QED  BY <1>4

\* Induction over the subsets of a finite set, stated for a set P of subsets:
\* if {} is in P, and P is closed under adding an element, then S is in P.
LEMMA SubsetInduction ==
  ASSUME NEW S, IsFiniteSet(S), NEW P, {} \in P,
         \A T \in SUBSET S : \A x \in S : T \in P => T \cup {x} \in P
  PROVE  S \in P
<1> DEFINE Bad == {T \in SUBSET S : T \notin P}
<1>1. SUFFICES ASSUME Bad # {} PROVE FALSE
  OBVIOUS
<1>2. PICK T \in Bad : \A U \in Bad : U \subseteq T => U = T
  <2>1. \A U \in Bad : U \in SUBSET S
    OBVIOUS
  <2> HIDE DEF Bad
  <2> QED  BY <1>1, <2>1, LeastSubset
<1>3. PICK x \in T : TRUE
  BY <1>2
<1>4. T \ {x} \in SUBSET S /\ x \in S
  BY <1>2
<1>5. T \ {x} \subseteq T /\ T \ {x} # T
  BY <1>3
<1>6. T \ {x} \in P
  BY <1>2, <1>4, <1>5
<1>7. (T \ {x}) \cup {x} = T
  OBVIOUS
<1> QED  BY <1>2, <1>4, <1>6, <1>7

\* The function a sum over a set is read from: it takes the elements of a set
\* in the order CHOOSE gives.
IsSum(g, f, S) ==
  g = [s \in SUBSET S |->
         IF s = {} THEN 0
         ELSE f[CHOOSE x \in s : TRUE] + g[s \ {CHOOSE x \in s : TRUE}]]

LEMMA SumIsChosen ==
  ASSUME NEW f, NEW S
  PROVE  SumFunctionOnSet(f, S) = (CHOOSE g : IsSum(g, f, S))[S]
BY DEF SumFunctionOnSet, FoldFunctionOnSet, MapThenFoldSet, IsSum

\* Two such functions agree wherever both are defined.
LEMMA SumUnique ==
  ASSUME NEW f, NEW S, NEW T, IsFiniteSet(S), NEW g, NEW h,
         IsSum(g, f, S), IsSum(h, f, T), S \subseteq T
  PROVE  \A s \in SUBSET S : g[s] = h[s]
<1> DEFINE Bad == {s \in SUBSET S : g[s] # h[s]}
<1>1. SUFFICES ASSUME Bad # {} PROVE FALSE
  OBVIOUS
<1>2. PICK s \in Bad : \A u \in Bad : u \subseteq s => u = s
  <2>1. \A u \in Bad : u \in SUBSET S
    OBVIOUS
  <2> HIDE DEF Bad
  <2> QED  BY <1>1, <2>1, LeastSubset
<1> DEFINE c == CHOOSE x \in s : TRUE
<1>3. s \in SUBSET S /\ s \in SUBSET T
  BY <1>2
<1>4. s # {}
  BY <1>2, <1>3 DEF IsSum
<1>5. c \in s
  BY <1>4
<1>6. s \ {c} \in SUBSET S /\ s \ {c} \subseteq s /\ s \ {c} # s
  BY <1>3, <1>5
<1>7. g[s \ {c}] = h[s \ {c}]
  BY <1>2, <1>6
<1>8. g[s] = f[c] + g[s \ {c}]
  BY <1>3, <1>4 DEF IsSum
<1>9. h[s] = f[c] + h[s \ {c}]
  BY <1>3, <1>4 DEF IsSum
<1> QED  BY <1>2, <1>7, <1>8, <1>9

\* There is one on every finite set.
LEMMA SumExists ==
  ASSUME NEW f, NEW S, IsFiniteSet(S)
  PROVE  \A T \in SUBSET S : \E g : IsSum(g, f, T)
<1> DEFINE Bad == {s \in SUBSET S : ~\E g : IsSum(g, f, s)}
<1>1. SUFFICES ASSUME Bad # {} PROVE FALSE
  OBVIOUS
<1>2. PICK T \in Bad : \A u \in Bad : u \subseteq T => u = T
  <2>1. \A u \in Bad : u \in SUBSET S
    OBVIOUS
  <2> HIDE DEF Bad
  <2> QED  BY <1>1, <2>1, LeastSubset
<1>3. T \in SUBSET S /\ IsFiniteSet(T)
  BY <1>2, FS_Subset
<1> DEFINE G(s) == CHOOSE g : IsSum(g, f, s)
           c(s) == CHOOSE x \in s : TRUE
           h == [s \in SUBSET T |-> IF s = {} THEN 0 ELSE f[c(s)] + G(s \ {c(s)})[s \ {c(s)}]]
<1>4. ASSUME NEW s \in SUBSET T, s # T
      PROVE  IsSum(G(s), f, s) /\ IsFiniteSet(s)
  <2>1. s \in SUBSET S /\ IsFiniteSet(s)
    BY <1>3, FS_Subset
  <2>2. \E g : IsSum(g, f, s)
    BY <1>2, <1>4, <2>1
  <2> QED  BY <2>1, <2>2
<1>5. ASSUME NEW s \in SUBSET T, s # T
      PROVE  h[s] = G(s)[s]
  <2>1. IsSum(G(s), f, s) /\ IsFiniteSet(s)
    BY <1>4, <1>5
  <2>2. CASE s = {}
    BY <2>1, <2>2 DEF IsSum
  <2>3. CASE s # {}
    <3> DEFINE t == s \ {c(s)}
    <3>1. c(s) \in s
      BY <2>3
    <3>2. t \in SUBSET T /\ t # T /\ t \in SUBSET s
      BY <3>1
    <3>3. IsSum(G(t), f, t) /\ IsFiniteSet(t)
      BY <1>4, <3>2
    <3>4. G(t)[t] = G(s)[t]
      BY <2>1, <3>2, <3>3, SumUnique
    <3>5. G(s)[s] = f[c(s)] + G(s)[t]
      BY <2>1, <2>3 DEF IsSum
    <3>6. h[s] = f[c(s)] + G(t)[t]
      BY <2>3
    <3> QED  BY <3>4, <3>5, <3>6
  <2> QED  BY <2>2, <2>3
<1>6. ASSUME NEW s \in SUBSET T, s # {}
      PROVE  h[s] = f[c(s)] + h[s \ {c(s)}]
  <2>1. c(s) \in s
    BY <1>6
  <2>2. s \ {c(s)} \in SUBSET T /\ s \ {c(s)} # T
    BY <2>1
  <2>3. h[s \ {c(s)}] = G(s \ {c(s)})[s \ {c(s)}]
    BY <1>5, <2>2
  <2>4. h[s] = f[c(s)] + G(s \ {c(s)})[s \ {c(s)}]
    BY <1>6
  <2> QED  BY <2>3, <2>4
<1>7. \A s \in SUBSET T : h[s] = IF s = {} THEN 0 ELSE f[c(s)] + h[s \ {c(s)}]
  <2>1. {} \in SUBSET T => h[{}] = 0
    OBVIOUS
  <2> HIDE DEF h, c
  <2> QED  BY <1>6, <2>1
<1>8. h = [s \in SUBSET T |-> h[s]]
  OBVIOUS
<1>9. h = [s \in SUBSET T |-> IF s = {} THEN 0 ELSE f[c(s)] + h[s \ {c(s)}]]
  <2> HIDE DEF h, c
  <2> QED  BY <1>7, <1>8
<1>10. IsSum(h, f, T)
  <2> HIDE DEF h
  <2> QED  BY <1>9 DEF IsSum
<1> QED  BY <1>2, <1>10

\* The empty sum, and one step of the recursion.
LEMMA SumEmpty ==
  ASSUME NEW f
  PROVE  SumFunctionOnSet(f, {}) = 0
<1> DEFINE g == CHOOSE g : IsSum(g, f, {})
<1>1. IsSum(g, f, {})
  BY SumExists, FS_EmptySet
<1>2. g[{}] = 0
  <2> HIDE DEF g
  <2> QED  BY <1>1 DEF IsSum
<1> QED  BY <1>2, SumIsChosen

LEMMA SumStep ==
  ASSUME NEW f, NEW S, IsFiniteSet(S), S # {}
  PROVE  LET c == CHOOSE x \in S : TRUE
         IN  SumFunctionOnSet(f, S) = f[c] + SumFunctionOnSet(f, S \ {c})
<1> DEFINE c == CHOOSE x \in S : TRUE
           g == CHOOSE g : IsSum(g, f, S)
           h == CHOOSE h : IsSum(h, f, S \ {c})
<1>1. IsSum(g, f, S) /\ IsSum(h, f, S \ {c})
  BY SumExists
<1>2. IsFiniteSet(S \ {c})
  BY FS_RemoveElement
<1>3. SumFunctionOnSet(f, S) = g[S] /\ SumFunctionOnSet(f, S \ {c}) = h[S \ {c}]
  BY SumIsChosen
<1> HIDE DEF g, h
<1>4. h[S \ {c}] = g[S \ {c}]
  BY <1>1, <1>2, SumUnique
<1>5. g[S] = f[c] + g[S \ {c}]
  BY <1>1 DEF IsSum
<1> QED  BY <1>3, <1>4, <1>5

\* Whichever element is taken out: addition does not mind the order.
LEMMA SumTakeOut ==
  ASSUME NEW f, NEW S, IsFiniteSet(S), \A x \in S : f[x] \in Int
  PROVE  /\ SumFunctionOnSet(f, S) \in Int
         /\ \A y \in S : SumFunctionOnSet(f, S) = f[y] + SumFunctionOnSet(f, S \ {y})
<1> DEFINE Sum(s) == SumFunctionOnSet(f, s)
           Good(s) == Sum(s) \in Int /\ \A y \in s : Sum(s) = f[y] + Sum(s \ {y})
           Bad == {s \in SUBSET S : ~Good(s)}
<1>1. SUFFICES ASSUME Bad # {} PROVE FALSE
  OBVIOUS
<1>2. PICK T \in Bad : \A u \in Bad : u \subseteq T => u = T
  <2>1. \A u \in Bad : u \in SUBSET S
    OBVIOUS
  <2> HIDE DEF Bad
  <2> QED  BY <1>1, <2>1, LeastSubset
<1>3. T \in SUBSET S /\ IsFiniteSet(T) /\ ~Good(T)
  BY <1>2, FS_Subset
<1>4. ASSUME NEW s \in SUBSET T, s # T
      PROVE  Good(s)
  <2>1. s \in SUBSET S
    BY <1>3
  <2> QED  BY <1>2, <1>4, <2>1
<1>5. CASE T = {}
  BY <1>3, <1>5, SumEmpty
<1>6. CASE T # {}
  <2> DEFINE c == CHOOSE x \in T : TRUE
  <2>1. c \in T /\ f[c] \in Int
    BY <1>3, <1>6
  <2>2. Sum(T) = f[c] + Sum(T \ {c})
    BY <1>3, <1>6, SumStep
  <2> HIDE DEF c
  <2>3. T \ {c} # T /\ T \ {c} \in SUBSET T
    BY <2>1
  <2>4. Good(T \ {c})
    BY <1>4, <2>3
  <2>5. Sum(T) \in Int
    BY <2>1, <2>2, <2>4
  <2>6. ASSUME NEW y \in T PROVE Sum(T) = f[y] + Sum(T \ {y})
    <3>1. CASE y = c
      BY <2>2, <3>1
    <3>2. CASE y # c
      <4>1. Sum(T \ {c}) = f[y] + Sum((T \ {c}) \ {y})
        BY <2>4, <3>2
      <4>2. Good(T \ {y}) /\ Good((T \ {c}) \ {y})
        BY <1>4, <2>1
      <4>3. Sum(T \ {y}) = f[c] + Sum((T \ {y}) \ {c})
        BY <2>1, <3>2, <4>2
      <4>4. (T \ {y}) \ {c} = (T \ {c}) \ {y}
        OBVIOUS
      <4>5. f[y] \in Int
        BY <1>3
      <4>6. Sum((T \ {c}) \ {y}) \in Int
        BY <4>2
      <4>7. Sum(T \ {y}) = f[c] + Sum((T \ {c}) \ {y})
        BY <4>3, <4>4
      <4>8. Sum(T) = f[c] + (f[y] + Sum((T \ {c}) \ {y}))
        BY <2>2, <4>1
      <4> HIDE DEF Sum, Good
      <4> QED  BY <2>1, <4>5, <4>6, <4>7, <4>8
    <3> QED  BY <3>1, <3>2
  <2> QED  BY <1>3, <2>5, <2>6
<1> QED  BY <1>5, <1>6

LEMMA SumAdd ==
  ASSUME NEW f, NEW S, IsFiniteSet(S), NEW y, y \notin S, f[y] \in Int,
         \A x \in S : f[x] \in Int
  PROVE  SumFunctionOnSet(f, S \cup {y}) = f[y] + SumFunctionOnSet(f, S)
<1>1. IsFiniteSet(S \cup {y})
  BY FS_AddElement
<1>2. (S \cup {y}) \ {y} = S
  OBVIOUS
<1> QED  BY <1>1, <1>2, SumTakeOut

\* A sum depends on the summands only.
LEMMA SumSame ==
  ASSUME NEW f, NEW g, NEW S, IsFiniteSet(S),
         \A x \in S : f[x] \in Int /\ g[x] = f[x]
  PROVE  SumFunctionOnSet(g, S) = SumFunctionOnSet(f, S)
<1> DEFINE P == {T \in SUBSET S : SumFunctionOnSet(g, T) = SumFunctionOnSet(f, T)}
<1>1. {} \in P
  BY SumEmpty
<1>2. ASSUME NEW T \in SUBSET S, NEW x \in S, T \in P
      PROVE  T \cup {x} \in P
  <2>1. CASE x \in T
    <3>1. T \cup {x} = T
      BY <2>1
    <3> QED  BY <1>2, <3>1
  <2>2. CASE x \notin T
    <3>1. IsFiniteSet(T)
      BY FS_Subset
    <3>2. SumFunctionOnSet(g, T \cup {x}) = g[x] + SumFunctionOnSet(g, T)
      BY <2>2, <3>1, SumAdd
    <3>3. SumFunctionOnSet(f, T \cup {x}) = f[x] + SumFunctionOnSet(f, T)
      BY <2>2, <3>1, SumAdd
    <3> QED  BY <1>2, <3>2, <3>3
  <2> QED  BY <2>1, <2>2
<1>3. S \in P
  <2> HIDE DEF P
  <2> QED  BY <1>1, <1>2, SubsetInduction
<1> QED  BY <1>3

\* The sum of a union without overlap.
LEMMA SumUnion ==
  ASSUME NEW f, NEW S, IsFiniteSet(S), NEW T, IsFiniteSet(T), S \cap T = {},
         \A x \in S \cup T : f[x] \in Int
  PROVE  SumFunctionOnSet(f, S \cup T) = SumFunctionOnSet(f, S) + SumFunctionOnSet(f, T)
<1> DEFINE P == {U \in SUBSET T : SumFunctionOnSet(f, S \cup U)
                                    = SumFunctionOnSet(f, S) + SumFunctionOnSet(f, U)}
<1>1. {} \in P
  <2>1. S \cup {} = S
    OBVIOUS
  <2>2. SumFunctionOnSet(f, S) \in Int
    BY SumTakeOut
  <2> QED  BY <2>1, <2>2, SumEmpty
<1>2. ASSUME NEW U \in SUBSET T, NEW x \in T, U \in P
      PROVE  U \cup {x} \in P
  <2>1. CASE x \in U
    <3>1. U \cup {x} = U
      BY <2>1
    <3> QED  BY <1>2, <3>1
  <2>2. CASE x \notin U
    <3>1. IsFiniteSet(U) /\ IsFiniteSet(S \cup U)
      BY FS_Subset, FS_Union
    <3>2. SumFunctionOnSet(f, U \cup {x}) = f[x] + SumFunctionOnSet(f, U)
      BY <2>2, <3>1, SumAdd
    <3>3. x \notin S \cup U /\ S \cup (U \cup {x}) = (S \cup U) \cup {x}
      BY <2>2
    <3>4. SumFunctionOnSet(f, S \cup (U \cup {x})) = f[x] + SumFunctionOnSet(f, S \cup U)
      <4>1. \A z \in S \cup U : f[z] \in Int
        OBVIOUS
      <4>2. f[x] \in Int
        OBVIOUS
      <4> QED  BY <3>1, <3>3, <4>1, <4>2, SumAdd
    <3>5. SumFunctionOnSet(f, S) \in Int /\ SumFunctionOnSet(f, U) \in Int
      BY <3>1, SumTakeOut
    <3>6. SumFunctionOnSet(f, S \cup U) = SumFunctionOnSet(f, S) + SumFunctionOnSet(f, U)
      BY <1>2
    <3>7. f[x] \in Int
      OBVIOUS
    <3> QED  BY <3>2, <3>4, <3>5, <3>6, <3>7
  <2> QED  BY <2>1, <2>2
<1>3. T \in P
  <2> HIDE DEF P
  <2> QED  BY <1>1, <1>2, SubsetInduction
<1> QED  BY <1>3

\* A sum by groups is the sum.
LEMMA SumGroups ==
  ASSUME NEW f, NEW S, IsFiniteSet(S), \A x \in S : f[x] \in Int,
         NEW K, IsFiniteSet(K), NEW key, \A x \in S : key[x] \in K,
         NEW group, \A k \in K : group[k] = {x \in S : key[x] = k},
         NEW g, \A k \in K : g[k] = SumFunctionOnSet(f, group[k])
  PROVE  SumFunctionOnSet(g, K) = SumFunctionOnSet(f, S)
<1> DEFINE In(L) == {x \in S : key[x] \in L}
           P == {L \in SUBSET K : SumFunctionOnSet(g, L) = SumFunctionOnSet(f, In(L))}
<1>1. {} \in P
  <2>1. In({}) = {}
    OBVIOUS
  <2> QED  BY <2>1, SumEmpty
<1>2. \A L : IsFiniteSet(In(L))
  BY FS_Subset
<1>3. \A k \in K : g[k] \in Int
  <2> TAKE k \in K
  <2> DEFINE Of == {x \in S : key[x] = k}
  <2>1. IsFiniteSet(Of) /\ \A x \in Of : f[x] \in Int
    BY FS_Subset
  <2>2. g[k] = SumFunctionOnSet(f, Of)
    OBVIOUS
  <2> HIDE DEF Of
  <2> QED  BY <2>1, <2>2, SumTakeOut
<1>4. ASSUME NEW L \in SUBSET K, NEW k \in K, L \in P
      PROVE  L \cup {k} \in P
  <2>1. CASE k \in L
    <3>1. L \cup {k} = L
      BY <2>1
    <3> QED  BY <1>4, <3>1
  <2>2. CASE k \notin L
    <3> DEFINE Of == {x \in S : key[x] = k}
    <3>1. IsFiniteSet(L) /\ IsFiniteSet(Of)
      BY FS_Subset
    <3>2. SumFunctionOnSet(g, L \cup {k}) = g[k] + SumFunctionOnSet(g, L)
      BY <1>3, <2>2, <3>1, SumAdd
    <3>3. In(L \cup {k}) = In(L) \cup Of /\ In(L) \cap Of = {}
      BY <2>2
    <3>4. SumFunctionOnSet(f, In(L) \cup Of)
            = SumFunctionOnSet(f, In(L)) + SumFunctionOnSet(f, Of)
      <4>1. \A x \in In(L) \cup Of : f[x] \in Int
        OBVIOUS
      <4>2. IsFiniteSet(In(L))
        BY <1>2
      <4> HIDE DEF In, Of
      <4> QED  BY <3>1, <3>3, <4>1, <4>2, SumUnion
    <3>5. SumFunctionOnSet(f, In(L)) \in Int /\ SumFunctionOnSet(f, Of) \in Int
      BY <1>2, <3>1, SumTakeOut
    <3>6. g[k] = SumFunctionOnSet(f, Of)
      OBVIOUS
    <3>7. SumFunctionOnSet(g, L) = SumFunctionOnSet(f, In(L))
      BY <1>4
    <3>8. SumFunctionOnSet(g, L \cup {k}) = SumFunctionOnSet(f, In(L \cup {k}))
      <4>1. In(L \cup {k}) = In(L) \cup Of
        BY <3>3
      <4>2. SumFunctionOnSet(f, In(L \cup {k}))
              = SumFunctionOnSet(f, In(L)) + SumFunctionOnSet(f, Of)
        BY <3>4, <4>1
      <4> HIDE DEF In, Of
      <4> QED  BY <3>2, <3>5, <3>6, <3>7, <4>2
    <3> QED  BY <3>8
  <2> QED  BY <2>1, <2>2
<1>5. K \in P
  <2> HIDE DEF P
  <2> QED  BY <1>1, <1>4, SubsetInduction
<1>6. In(K) = S
  OBVIOUS
<1> QED  BY <1>5, <1>6

\* Larger summands, a larger sum; and equal only if every summand is.
LEMMA SumMonotone ==
  ASSUME NEW f, NEW g, NEW S, IsFiniteSet(S),
         \A x \in S : f[x] \in Int /\ g[x] \in Int /\ f[x] <= g[x]
  PROVE  /\ SumFunctionOnSet(f, S) <= SumFunctionOnSet(g, S)
         /\ SumFunctionOnSet(f, S) = SumFunctionOnSet(g, S) <=> \A x \in S : f[x] = g[x]
<1> DEFINE P == {T \in SUBSET S :
                   /\ SumFunctionOnSet(f, T) <= SumFunctionOnSet(g, T)
                   /\ SumFunctionOnSet(f, T) = SumFunctionOnSet(g, T)
                        <=> \A x \in T : f[x] = g[x]}
<1>1. {} \in P
  BY SumEmpty
<1>2. ASSUME NEW T \in SUBSET S, NEW x \in S, T \in P
      PROVE  T \cup {x} \in P
  <2>1. CASE x \in T
    <3>1. T \cup {x} = T
      BY <2>1
    <3> QED  BY <1>2, <3>1
  <2>2. CASE x \notin T
    <3>1. IsFiniteSet(T)
      BY FS_Subset
    <3>2. SumFunctionOnSet(f, T \cup {x}) = f[x] + SumFunctionOnSet(f, T)
      BY <2>2, <3>1, SumAdd
    <3>3. SumFunctionOnSet(g, T \cup {x}) = g[x] + SumFunctionOnSet(g, T)
      BY <2>2, <3>1, SumAdd
    <3>4. SumFunctionOnSet(f, T) \in Int /\ SumFunctionOnSet(g, T) \in Int
      BY <3>1, SumTakeOut
    <3>5. f[x] \in Int /\ g[x] \in Int /\ f[x] <= g[x]
      OBVIOUS
    <3>6. /\ SumFunctionOnSet(f, T) <= SumFunctionOnSet(g, T)
          /\ SumFunctionOnSet(f, T) = SumFunctionOnSet(g, T) <=> \A z \in T : f[z] = g[z]
      BY <1>2
    <3>7. (\A z \in T \cup {x} : f[z] = g[z]) <=> (\A z \in T : f[z] = g[z]) /\ f[x] = g[x]
      OBVIOUS
    <3>8. /\ SumFunctionOnSet(f, T \cup {x}) <= SumFunctionOnSet(g, T \cup {x})
          /\ SumFunctionOnSet(f, T \cup {x}) = SumFunctionOnSet(g, T \cup {x})
               <=> f[x] = g[x] /\ SumFunctionOnSet(f, T) = SumFunctionOnSet(g, T)
      BY <3>2, <3>3, <3>4, <3>5, <3>6
    <3> QED  BY <3>6, <3>7, <3>8
  <2> QED  BY <2>1, <2>2
<1>3. S \in P
  <2> HIDE DEF P
  <2> QED  BY <1>1, <1>2, SubsetInduction
<1> QED  BY <1>3

-----------------------------------------------------------------------------
(* The invariant. *)

Gots == {"part", "json", "line"}
Piece == [row : {e \in Row : Valid(e)}, got : Gots]
Torn == {i \in DOMAIN file : file[i].got # "line" /\ ~(writing /\ i = Len(file))}

\* The file is rows that were valid when they were appended, the last of them
\* unfinished while the lock is held.
FileOK ==
  /\ provider \in DOMAIN Scripts
  /\ file \in Seq(Piece)
  /\ writing \in BOOLEAN
  /\ tears \in Nat
  /\ writing => Len(file) > 0 /\ file[Len(file)].got = "part"
  /\ \A e \in priced : e.cost \in Int => e \in Row

\* Only what landed is a whole piece, and each other piece was a tear.
LandedOK ==
  /\ landed = {file[i].row.id : i \in {j \in DOMAIN file : file[j].got = "line"}}
  /\ Cardinality(Torn) <= tears

\* A request's key and what was due when it came are of one and the same file,
\* which has only grown since.
AsksOK ==
  /\ asks \in [Viewers -> [open : BOOLEAN, key : Nat, due : SUBSET Names]]
  /\ \A v \in Viewers : asks[v].open =>
       /\ asks[v].key <= Size(file)
       /\ asks[v].due \subseteq WholeLines

\* A memo with rows in it holds what is due to every request that has its key,
\* and, while the file keeps that size, to every request to come.
MemoOK ==
  /\ memo.key \in Nat
  /\ memo.rows # {} =>
       /\ memo.key <= Size(file)
       /\ memo.key = Size(file) => WholeLines \subseteq Ids(memo.rows)
       /\ \A v \in Viewers :
            asks[v].open /\ asks[v].key = memo.key => asks[v].due \subseteq Ids(memo.rows)

BooksInv == FileOK /\ LandedOK /\ AsksOK /\ MemoOK

-----------------------------------------------------------------------------
(* What a reader makes of a file. *)

\* A nonempty set of naturals has a least element.
LEMMA Least ==
  ASSUME NEW T \in SUBSET Nat, T # {}
  PROVE  \E m \in T : \A k \in T : m <= k
<1> DEFINE R == {s \in Nat \X Nat : s[1] < s[2]}
<1>1. IsWellFoundedOn(R, Nat)
  BY NatLessThanWellFounded DEF OpToRel
<1>2. PICK m \in T : \A k \in T : ~(<<k, m>> \in R)
  <2> HIDE DEF R
  <2> QED  BY <1>1, WFMin
<1>3. \A k \in T : ~(k < m)
  BY <1>2
<1> QED  BY <1>3

\* Keeping the first row of an id keeps every id.
LEMMA KeptIds ==
  ASSUME NEW f \in Seq(Piece)
  PROVE  Ids(ReadLive(f)) = {f[i].row.id : i \in Lines(f)}
<1>1. ASSUME NEW i \in Lines(f)
      PROVE  f[i].row.id \in Ids(ReadLive(f))
  <2> DEFINE T == {j \in Lines(f) : f[j].row.id = f[i].row.id}
  <2>1. T \in SUBSET Nat /\ T # {}
    BY DEF Lines
  <2>2. PICK m \in T : \A k \in T : m <= k
    <3> HIDE DEF T
    <3> QED  BY <2>1, Least
  <2>3. FirstOfId(f, m)
    BY <2>2 DEF FirstOfId
  <2>4. f[m].row \in ReadLive(f)
    BY <2>2, <2>3 DEF ReadLive
  <2> QED  BY <2>2, <2>4 DEF Ids
<1> QED  BY <1>1 DEF Ids, ReadLive

\* The rows a reader keeps are valid rows, and finitely many.
LEMMA KeptRows ==
  ASSUME NEW f \in Seq(Piece)
  PROVE  ReadLive(f) \in SUBSET {e \in Row : Valid(e)} /\ IsFiniteSet(ReadLive(f))
<1> DEFINE S == {j \in Lines(f) : FirstOfId(f, j)}
           rowAt == [i \in S |-> f[i].row]
<1>1. S \in SUBSET (1 .. Len(f))
  BY DEF Lines
<1>2. IsFiniteSet(S)
  <2>1. IsFiniteSet(1 .. Len(f))
    BY FS_Interval
  <2> HIDE DEF S
  <2> QED  BY <1>1, <2>1, FS_Subset
<1>3. ReadLive(f) = {rowAt[i] : i \in S}
  BY DEF ReadLive
<1>4. rowAt \in Surjection(S, ReadLive(f))
  <2> HIDE DEF S
  <2> QED  BY <1>3 DEF Surjection
<1>5. IsFiniteSet(ReadLive(f))
  <2> HIDE DEF S, rowAt
  <2> QED  BY <1>2, <1>4, FS_Surjection
<1>6. ReadLive(f) \in SUBSET {e \in Row : Valid(e)}
  <2>1. \A i \in 1 .. Len(f) : f[i] \in Piece
    OBVIOUS
  <2>2. \A i \in S : f[i].row \in {e \in Row : Valid(e)}
    BY <1>1, <2>1 DEF Piece
  <2> HIDE DEF S
  <2> QED  BY <1>3, <2>2
<1> QED  BY <1>5, <1>6

\* A file's size is a number, and a byte more makes it larger.
Slots(f) == {s \in (DOMAIN f) \X (1 .. 3) : s[2] <= Bytes[f[s[1]].got]}

LEMMA SizeIsNat ==
  ASSUME NEW f \in Seq(Piece)
  PROVE  IsFiniteSet(Slots(f)) /\ Size(f) = Cardinality(Slots(f)) /\ Size(f) \in Nat
<1>1. IsFiniteSet((DOMAIN f) \X (1 .. 3))
  <2>1. IsFiniteSet(1 .. Len(f)) /\ IsFiniteSet(1 .. 3)
    <3>1. Len(f) \in Int /\ 1 \in Int /\ 3 \in Int
      OBVIOUS
    <3>2. IsFiniteSet(1 .. Len(f))
      BY <3>1, FS_Interval
    <3>3. IsFiniteSet(1 .. 3)
      BY <3>1, FS_Interval
    <3> QED  BY <3>2, <3>3
  <2>2. DOMAIN f = 1 .. Len(f)
    OBVIOUS
  <2> QED  BY <2>1, <2>2, FS_Product
<1>2. Slots(f) \in SUBSET ((DOMAIN f) \X (1 .. 3))
  BY DEF Slots
<1>3. IsFiniteSet(Slots(f))
  BY <1>1, <1>2, FS_Subset
<1>4. Size(f) = Cardinality(Slots(f))
  BY DEF Size, Slots
<1> QED  BY <1>3, <1>4, FS_CardinalityType

LEMMA SizeGrows ==
  ASSUME NEW f \in Seq(Piece), NEW g \in Seq(Piece), Slots(f) \subseteq Slots(g),
         NEW s \in Slots(g), s \notin Slots(f)
  PROVE  Size(f) < Size(g)
<1>1. Cardinality(Slots(f)) <= Cardinality(Slots(g))
  BY SizeIsNat, FS_Subset
<1>2. Cardinality(Slots(f)) # Cardinality(Slots(g))
  BY SizeIsNat, FS_Subset
<1> QED  BY <1>1, <1>2, SizeIsNat

-----------------------------------------------------------------------------
(* The file's steps. *)

\* A call's row is a row as soon as its price is a number.
LEMMA RowOfIsRow ==
  ASSUME FileOK, NEW u
  PROVE  RowOf(u).cost \in Int => RowOf(u) \in Row
<1> DEFINE c == IF u.got THEN Price(provider, ModelOf(provider, Asked, u), u.usage) ELSE 0
<1>1. RowOf(u) = [id |-> "call", provider |-> provider, start |-> CallTime, end |-> CallTime,
                  tokens |-> TRUE, conf |-> 0, team |-> "(untagged)", cost |-> c]
  BY DEF RowOf
<1>2. provider \in DOMAIN Scripts /\ CallTime \in Nat
  BY BooksAssumption DEF FileOK
<1> HIDE DEF c
<1>3. RowOf(u).cost = c
  BY <1>1
<1>4. ASSUME c \in Int PROVE RowOf(u) \in Row
  <2>1. "call" \in Names /\ "(untagged)" \in Names
    BY BooksAssumption
  <2>2. 0 \in 0 .. 3
    OBVIOUS
  <2>3. \A i, m \in Names, p \in DOMAIN Scripts, t \in Nat, k \in BOOLEAN, z \in 0 .. 3, x \in Int :
          [id |-> i, provider |-> p, start |-> t, end |-> t, tokens |-> k, conf |-> z,
           team |-> m, cost |-> x] \in Row
    BY DEF Row
  <2> QED  BY <1>1, <1>2, <1>4, <2>1, <2>2, <2>3
<1> QED  BY <1>3, <1>4

\* What every step does to the file: it stays as it is or gains a byte, and no
\* whole line is ever lost from it.
FileGrows ==
  /\ file' = file \/ Size(file) < Size(file')
  /\ WholeLines \subseteq WholeLines'

LEMMA RecordStep ==
  ASSUME FileOK, LandedOK, NEW e \in Landable, Record(e)
  PROVE  FileOK' /\ LandedOK' /\ FileGrows
<1> DEFINE p == [row |-> e, got |-> "part"]
           n == Len(file)
<1>1. e \in Row /\ Valid(e)
  <2>1. e.cost \in Int /\ Valid(e)
    BY DEF Record, Valid
  <2>2. CASE e \in priced
    BY <2>1, <2>2 DEF FileOK
  <2>3. CASE e \in Catalogue[provider]
    BY <2>1, <2>3, BooksAssumption DEF FileOK
  <2> QED  BY <2>2, <2>3 DEF Landable
<1>2. p \in Piece /\ file \in Seq(Piece) /\ n \in Nat
  BY <1>1 DEF Piece, Gots, FileOK
<1>3. file' = Append(file, p) /\ ~writing /\ writing' = TRUE
  BY DEF Record
<1> HIDE DEF p
<1>4. /\ file' \in Seq(Piece) /\ Len(file') = n + 1
      /\ \A i \in 1 .. n : file'[i] = file[i]
      /\ file'[n + 1] = p
      /\ DOMAIN file = 1 .. n /\ DOMAIN file' = 1 .. (n + 1)
  BY <1>2, <1>3
<1>5. p.got = "part"
  BY DEF p
<1> HIDE DEF n
<1>6. FileOK'
  BY <1>2, <1>3, <1>4, <1>5 DEF FileOK, Record, callVars
<1>7. LandedOK'
  <2>1. {j \in DOMAIN file' : file'[j].got = "line"} = {j \in DOMAIN file : file[j].got = "line"}
    BY <1>2, <1>4, <1>5
  <2>2. landed' = landed /\ tears' = tears
    BY DEF Record
  <2>3. landed' = {file'[i].row.id : i \in {j \in DOMAIN file' : file'[j].got = "line"}}
    BY <1>2, <1>4, <2>1, <2>2 DEF LandedOK
  <2>4. Torn' = Torn
    BY <1>2, <1>3, <1>4, <1>5 DEF Torn, n
  <2> QED  BY <2>2, <2>3, <2>4 DEF LandedOK
<1>8. FileGrows
  <2>1. Slots(file) \subseteq Slots(file')
    BY <1>2, <1>4 DEF Slots
  <2>2. <<n + 1, 1>> \in Slots(file') /\ <<n + 1, 1>> \notin Slots(file)
    BY <1>2, <1>4, <1>5 DEF Slots, Bytes
  <2>3. Size(file) < Size(file')
    BY <1>2, <1>4, <2>1, <2>2, SizeGrows
  <2>4. \A i \in 1 .. n : file[i].got = "line" /\ Parses(file, i) => Parses(file', i)
    BY <1>2, <1>4 DEF Parses, StartsLine, EndsLine
  <2>5. WholeLines \subseteq WholeLines'
    BY <1>2, <1>4, <2>4 DEF WholeLines, Lines
  <2> QED  BY <2>3, <2>5 DEF FileGrows
<1> QED  BY <1>6, <1>7, <1>8

\* The piece being written becomes  got;  nothing before it changes.
LEMMA LastPiece ==
  ASSUME FileOK, writing, NEW got \in Gots, file' = [file EXCEPT ![Len(file)].got = got]
  PROVE  /\ file' \in Seq(Piece) /\ Len(file') = Len(file)
         /\ Len(file) \in Nat /\ Len(file) > 0
         /\ DOMAIN file = 1 .. Len(file) /\ DOMAIN file' = 1 .. Len(file)
         /\ \A i \in 1 .. Len(file) : i # Len(file) => file'[i] = file[i]
         /\ file'[Len(file)].got = got /\ file'[Len(file)].row = file[Len(file)].row
         /\ file[Len(file)].got = "part"
         /\ FileGrows
<1> DEFINE n == Len(file)
<1>1. file \in Seq(Piece) /\ n \in Nat /\ n > 0 /\ file[n].got = "part" /\ DOMAIN file = 1 .. n
  BY DEF FileOK
<1>2. file[n] \in Piece
  BY <1>1
<1>3. [file[n] EXCEPT !.got = got] \in Piece
  BY <1>2 DEF Piece
<1>4. /\ file' \in Seq(Piece) /\ Len(file') = n /\ DOMAIN file' = 1 .. n
      /\ \A i \in 1 .. n : i # n => file'[i] = file[i]
      /\ file'[n] = [file[n] EXCEPT !.got = got]
  <2>1. file' = [file EXCEPT ![n] = [file[n] EXCEPT !.got = got]]
    OBVIOUS
  <2> HIDE DEF n
  <2> QED  BY <1>1, <1>3, <2>1
<1>5. file'[n].got = got /\ file'[n].row = file[n].row
  BY <1>2, <1>4 DEF Piece
<1> HIDE DEF n
<1>6. FileGrows
  <2>1. CASE got = "part"
    <3>1. [file[n] EXCEPT !.got = "part"] = file[n]
      BY <1>1, <1>2 DEF Piece
    <3>2. file' = file
      BY <1>1, <1>4, <2>1, <3>1
    <3> QED  BY <3>2 DEF FileGrows, WholeLines
  <2>2. CASE got # "part"
    <3>1. Slots(file) \subseteq Slots(file')
      BY <1>1, <1>4, <1>5, <2>2 DEF Slots, Bytes, Gots
    <3>2. <<n, 2>> \in Slots(file') /\ <<n, 2>> \notin Slots(file)
      BY <1>1, <1>4, <1>5, <2>2 DEF Slots, Bytes, Gots
    <3>3. Size(file) < Size(file')
      BY <1>1, <1>4, <3>1, <3>2, SizeGrows
    <3>4. \A i \in 1 .. n : file[i].got = "line" /\ Parses(file, i) => Parses(file', i)
      BY <1>1, <1>4, <1>5 DEF Parses, StartsLine, EndsLine
    <3>5. \A i \in 1 .. n : file[i].got = "line" => file'[i] = file[i]
      BY <1>1, <1>4
    <3>6. WholeLines \subseteq WholeLines'
      BY <1>1, <1>4, <3>4, <3>5 DEF WholeLines, Lines
    <3> QED  BY <3>3, <3>6 DEF FileGrows
  <2> QED  BY <2>1, <2>2
<1> QED  BY <1>1, <1>4, <1>5, <1>6 DEF n

LEMMA WriteEndsStep ==
  ASSUME FileOK, LandedOK, WriteEnds
  PROVE  FileOK' /\ LandedOK' /\ FileGrows
<1> DEFINE n == Len(file)
<1>1. writing /\ file' = [file EXCEPT ![Len(file)].got = "line"] /\ "line" \in Gots
  BY DEF WriteEnds, Gots
<1>2. /\ file' \in Seq(Piece) /\ Len(file') = n
      /\ n \in Nat /\ n > 0
      /\ DOMAIN file = 1 .. n /\ DOMAIN file' = 1 .. n
      /\ \A i \in 1 .. n : i # n => file'[i] = file[i]
      /\ file'[n].got = "line" /\ file'[n].row = file[n].row
      /\ file[n].got = "part"
      /\ FileGrows
  BY <1>1, LastPiece
<1>3. writing' = FALSE /\ tears' = tears /\ landed' = landed \cup {file[n].row.id}
  BY <1>2 DEF WriteEnds, Last
<1> HIDE DEF n
<1>4. FileOK'
  BY <1>2, <1>3 DEF FileOK, WriteEnds, callVars
<1>5. LandedOK'
  <2>1. {j \in DOMAIN file' : file'[j].got = "line"} = {j \in DOMAIN file : file[j].got = "line"} \cup {n}
    BY <1>2
  <2>2. landed' = {file'[i].row.id : i \in {j \in DOMAIN file' : file'[j].got = "line"}}
    <3>1. landed' \subseteq {file'[i].row.id : i \in {j \in DOMAIN file' : file'[j].got = "line"}}
      BY <1>2, <1>3, <2>1 DEF LandedOK
    <3>2. \A i \in {j \in DOMAIN file' : file'[j].got = "line"} : file'[i].row.id \in landed'
      BY <1>2, <1>3, <2>1 DEF LandedOK
    <3> QED  BY <3>1, <3>2
  <2>3. Torn' = Torn
    BY <1>1, <1>2, <1>3 DEF Torn, n
  <2> QED  BY <1>3, <2>2, <2>3 DEF LandedOK
<1> QED  BY <1>2, <1>4, <1>5

LEMMA WriteStopsStep ==
  ASSUME FileOK, LandedOK, WriteStops
  PROVE  FileOK' /\ LandedOK' /\ FileGrows
<1> DEFINE n == Len(file)
<1>1. PICK got \in {"part", "json"} : file' = [file EXCEPT ![Len(file)].got = got]
  BY DEF WriteStops
<1>2. writing /\ got \in Gots
  BY DEF WriteStops, Gots
<1>3. /\ file' \in Seq(Piece) /\ Len(file') = n
      /\ n \in Nat /\ n > 0
      /\ DOMAIN file = 1 .. n /\ DOMAIN file' = 1 .. n
      /\ \A i \in 1 .. n : i # n => file'[i] = file[i]
      /\ file'[n].got = got /\ file'[n].row = file[n].row
      /\ file[n].got = "part"
      /\ FileGrows
  BY <1>1, <1>2, LastPiece
<1>4. writing' = FALSE /\ tears' = tears + 1 /\ landed' = landed
  BY DEF WriteStops
<1> HIDE DEF n
<1>5. FileOK'
  <2>1. tears' \in Nat
    BY <1>4 DEF FileOK
  <2> QED  BY <1>3, <1>4, <2>1 DEF FileOK, WriteStops, callVars
<1>6. LandedOK'
  <2>1. {j \in DOMAIN file' : file'[j].got = "line"} = {j \in DOMAIN file : file[j].got = "line"}
    BY <1>1, <1>3
  <2>2. landed' = {file'[i].row.id : i \in {j \in DOMAIN file' : file'[j].got = "line"}}
    BY <1>3, <1>4, <2>1 DEF LandedOK
  <2>3. Torn' = Torn \cup {n}
    BY <1>1, <1>2, <1>3, <1>4 DEF Torn, n
  <2>4. IsFiniteSet(Torn)
    <3>1. IsFiniteSet(1 .. n)
      BY <1>3, FS_Interval
    <3>2. Torn \in SUBSET (1 .. n)
      BY <1>3 DEF Torn
    <3> QED  BY <3>1, <3>2, FS_Subset
  <2>5. Cardinality(Torn') <= Cardinality(Torn) + 1
    <3>1. Cardinality(Torn) \in Nat
      BY <2>4, FS_CardinalityType
    <3>2. Cardinality(Torn \cup {n}) = IF n \in Torn THEN Cardinality(Torn) ELSE Cardinality(Torn) + 1
      BY <2>4, FS_AddElement
    <3> QED  BY <2>3, <3>1, <3>2
  <2>6. Cardinality(Torn) \in Nat /\ Cardinality(Torn') \in Nat
    BY <2>3, <2>4, FS_AddElement, FS_CardinalityType
  <2>7. Cardinality(Torn') <= tears'
    BY <1>4, <2>5, <2>6 DEF LandedOK, FileOK
  <2> QED  BY <2>2, <2>7 DEF LandedOK
<1> QED  BY <1>3, <1>5, <1>6

LEMMA OtherSteps ==
  ASSUME FileOK, LandedOK, UNCHANGED fileVars, provider' = provider,
         \A e \in priced' : e \in priced \/ \E u : e = RowOf(u)
  PROVE  FileOK' /\ LandedOK' /\ FileGrows
<1>1. file' = file /\ writing' = writing /\ landed' = landed /\ tears' = tears
  BY DEF fileVars
<1>2. \A e \in priced' : e.cost \in Int => e \in Row
  BY RowOfIsRow DEF FileOK
<1>3. FileOK'
  BY <1>1, <1>2 DEF FileOK
<1>4. LandedOK'
  BY <1>1 DEF LandedOK, Torn
<1>5. FileGrows
  BY <1>1 DEF FileGrows, WholeLines
<1> QED  BY <1>3, <1>4, <1>5

LEMMA FileStep ==
  ASSUME FileOK, LandedOK, [Next]_vars
  PROVE  FileOK' /\ LandedOK' /\ FileGrows
<1>1. CASE Relay
  BY <1>1, OtherSteps DEF Relay
<1>2. CASE StreamEnds
  BY <1>2, OtherSteps DEF StreamEnds
<1>3. CASE BodyRead
  <2>1. UNCHANGED fileVars /\ provider' = provider
    BY <1>3 DEF BodyRead
  <2>2. \A e \in priced' : \E u : e = RowOf(u)
    BY <1>3 DEF BodyRead
  <2> QED  BY <2>1, <2>2, OtherSteps
<1>4. CASE \E e \in Landable : Record(e)
  BY <1>4, RecordStep
<1>5. CASE WriteEnds
  BY <1>5, WriteEndsStep
<1>6. CASE WriteStops
  BY <1>6, WriteStopsStep
<1>7. CASE \E v \in Viewers : Ask(v) \/ Answer(v) \/ OpenFails(v)
  BY <1>7, OtherSteps DEF Ask, Answer, OpenFails, callVars
<1>8. CASE UNCHANGED vars
  BY <1>8, OtherSteps DEF vars, callVars
<1> QED  BY <1>1, <1>2, <1>3, <1>4, <1>5, <1>6, <1>7, <1>8 DEF Next

-----------------------------------------------------------------------------
(* The console's requests and its memo. *)

\* Every whole line is kept under its id, and the ids are names.
LEMMA WholeLinesKept ==
  ASSUME FileOK
  PROVE  WholeLines \subseteq Ids(ReadLive(file)) /\ WholeLines \subseteq Names
<1>1. file \in Seq(Piece)
  BY DEF FileOK
<1>2. WholeLines \subseteq Ids(ReadLive(file))
  BY <1>1, KeptIds DEF WholeLines
<1>3. \A i \in Lines(file) : file[i].row.id \in Names
  <2>1. \A i \in 1 .. Len(file) : file[i] \in Piece
    BY <1>1
  <2>2. \A e \in Row : e.id \in Names
    BY DEF Row
  <2> QED  BY <1>1, <2>1, <2>2 DEF Lines, Piece
<1> QED  BY <1>2, <1>3 DEF WholeLines

\* The file grows under a request and under the memo.
LEMMA MemoUnderFile ==
  ASSUME FileOK, FileOK', FileGrows, AsksOK, MemoOK, asks' = asks, memo' = memo
  PROVE  AsksOK' /\ MemoOK'
<1>1. Size(file) \in Nat /\ Size(file') \in Nat
  BY SizeIsNat DEF FileOK
<1>2. Size(file) <= Size(file') /\ (Size(file') = Size(file) => file' = file)
  BY <1>1 DEF FileGrows
<1>3. AsksOK'
  <2>1. \A v \in Viewers : asks[v].key \in Nat
    BY DEF AsksOK
  <2> QED  BY <1>1, <1>2, <2>1 DEF AsksOK, FileGrows
<1>4. MemoOK'
  <2> SUFFICES ASSUME memo.rows # {}
               PROVE  /\ memo.key <= Size(file')
                      /\ memo.key = Size(file') => WholeLines' \subseteq Ids(memo.rows)
    BY DEF MemoOK, Ids
  <2>1. memo.key \in Nat /\ memo.key <= Size(file)
    BY DEF MemoOK
  <2>2. memo.key = Size(file') => file' = file /\ memo.key = Size(file)
    BY <1>1, <1>2, <2>1
  <2> QED  BY <1>1, <1>2, <2>1, <2>2 DEF MemoOK, WholeLines
<1> QED  BY <1>3, <1>4

LEMMA AskStep ==
  ASSUME FileOK, AsksOK, MemoOK, NEW v \in Viewers, Ask(v)
  PROVE  AsksOK' /\ MemoOK'
<1>1. file' = file /\ memo' = memo
  BY DEF Ask, fileVars
<1>2. Size(file) \in Nat /\ WholeLines \subseteq Names
  BY SizeIsNat, WholeLinesKept DEF FileOK
<1>3. asks' = [asks EXCEPT ![v] = [open |-> TRUE, key |-> Size(file), due |-> WholeLines]]
  BY DEF Ask
<1>4. \A w \in Viewers : asks'[w] = IF w = v
                                    THEN [open |-> TRUE, key |-> Size(file), due |-> WholeLines]
                                    ELSE asks[w]
  BY <1>3 DEF AsksOK
<1>5. [open |-> TRUE, key |-> Size(file), due |-> WholeLines]
        \in [open : BOOLEAN, key : Nat, due : SUBSET Names]
  BY <1>2
<1>6. asks' \in [Viewers -> [open : BOOLEAN, key : Nat, due : SUBSET Names]]
  BY <1>3, <1>5 DEF AsksOK
<1>7. WholeLines' = WholeLines /\ Size(file') = Size(file)
  BY <1>1 DEF WholeLines
<1>8. \A w \in Viewers : asks'[w].open =>
        asks'[w].key <= Size(file) /\ asks'[w].due \subseteq WholeLines
  BY <1>2, <1>4 DEF AsksOK
<1>9. AsksOK'
  BY <1>6, <1>7, <1>8 DEF AsksOK
<1>10. MemoOK'
  BY <1>1, <1>4, <1>7 DEF MemoOK
<1> QED  BY <1>9, <1>10

\* What is due to the request is in the memo that answers it.
LEMMA AnswerStep ==
  ASSUME FileOK, AsksOK, MemoOK, NEW v \in Viewers, Answer(v)
  PROVE  AsksOK' /\ MemoOK' /\ asks[v].due \subseteq Ids(memo'.rows)
<1> DEFINE reread == asks[v].key # memo.key \/ memo.rows = {}
           fresh == [key |-> asks[v].key, rows |-> ReadLive(file)]
           closed == [open |-> FALSE, key |-> 0, due |-> {}]
<1>1. /\ file' = file /\ asks[v].open
      /\ memo' = IF reread THEN fresh ELSE memo
      /\ asks' = [asks EXCEPT ![v] = closed]
  BY DEF Answer, fileVars
<1>2. \A w \in Viewers : asks'[w] = IF w = v THEN closed ELSE asks[w]
  BY <1>1 DEF AsksOK
<1>3. Size(file) \in Nat /\ WholeLines \subseteq Ids(ReadLive(file))
  BY SizeIsNat, WholeLinesKept DEF FileOK
<1>4. WholeLines' = WholeLines /\ Size(file') = Size(file)
  BY <1>1 DEF WholeLines
<1>5. AsksOK'
  <2>1. asks' \in [Viewers -> [open : BOOLEAN, key : Nat, due : SUBSET Names]]
    BY <1>1 DEF AsksOK
  <2> QED  BY <1>2, <1>4, <2>1 DEF AsksOK
<1>6. asks[v].key \in Nat /\ asks[v].key <= Size(file) /\ asks[v].due \subseteq WholeLines
  BY <1>1 DEF AsksOK
<1>7. CASE reread
  <2>1. memo'.key = asks[v].key /\ memo'.rows = ReadLive(file)
    BY <1>1, <1>7
  <2>2. \A w \in Viewers : asks'[w].open => asks'[w].due \subseteq Ids(ReadLive(file))
    BY <1>2, <1>3 DEF AsksOK
  <2>3. MemoOK'
    BY <1>3, <1>4, <1>6, <2>1, <2>2 DEF MemoOK
  <2> QED  BY <1>3, <1>5, <1>6, <2>1, <2>3
<1>8. CASE ~reread
  <2>1. memo' = memo /\ memo.rows # {} /\ asks[v].key = memo.key
    BY <1>1, <1>8
  <2>2. MemoOK'
    BY <1>2, <1>4, <2>1 DEF MemoOK
  <2>3. asks[v].due \subseteq Ids(memo.rows)
    BY <1>1, <2>1 DEF MemoOK
  <2> QED  BY <1>5, <2>1, <2>2, <2>3
<1> QED  BY <1>7, <1>8

\* A file that could not be opened leaves no rows, and promises nothing.
LEMMA OpenFailsStep ==
  ASSUME FileOK, AsksOK, MemoOK, NEW v \in Viewers, OpenFails(v)
  PROVE  AsksOK' /\ MemoOK'
<1> DEFINE closed == [open |-> FALSE, key |-> 0, due |-> {}]
<1>1. /\ file' = file /\ asks[v].open
      /\ memo' = [key |-> asks[v].key, rows |-> {}]
      /\ asks' = [asks EXCEPT ![v] = closed]
  BY DEF OpenFails, fileVars
<1>2. \A w \in Viewers : asks'[w] = IF w = v THEN closed ELSE asks[w]
  BY <1>1 DEF AsksOK
<1>3. WholeLines' = WholeLines /\ Size(file') = Size(file)
  BY <1>1 DEF WholeLines
<1>4. AsksOK'
  <2>1. asks' \in [Viewers -> [open : BOOLEAN, key : Nat, due : SUBSET Names]]
    BY <1>1 DEF AsksOK
  <2> QED  BY <1>2, <1>3, <2>1 DEF AsksOK
<1>5. asks[v].key \in Nat /\ asks[v].key <= Size(file)
  BY <1>1 DEF AsksOK
<1>6. memo'.key = asks[v].key /\ memo'.rows = {}
  BY <1>1
<1>7. MemoOK'
  BY <1>3, <1>5, <1>6 DEF MemoOK
<1> QED  BY <1>4, <1>7

LEMMA InitBooks == Init => BooksInv
<1> SUFFICES ASSUME Init PROVE BooksInv
  OBVIOUS
<1>1. file = << >> /\ DOMAIN file = {} /\ Len(file) = 0 /\ file \in Seq(Piece)
  BY DEF Init
<1>2. FileOK
  BY <1>1 DEF Init, FileOK
<1>3. LandedOK
  <2>1. Torn = {}
    BY <1>1 DEF Torn
  <2> QED  BY <1>1, <2>1, FS_EmptySet DEF Init, LandedOK
<1>4. AsksOK
  BY DEF Init, AsksOK
<1>5. MemoOK
  BY DEF Init, MemoOK
<1> QED  BY <1>2, <1>3, <1>4, <1>5 DEF BooksInv

LEMMA BooksStep ==
  ASSUME BooksInv, [Next]_vars
  PROVE  BooksInv'
<1> USE DEF BooksInv
<1>1. FileOK' /\ LandedOK' /\ FileGrows
  BY FileStep
<1>2. CASE asks' = asks /\ memo' = memo
  BY <1>1, <1>2, MemoUnderFile
<1>3. CASE \E v \in Viewers : Ask(v)
  BY <1>1, <1>3, AskStep
<1>4. CASE \E v \in Viewers : Answer(v)
  BY <1>1, <1>4, AnswerStep
<1>5. CASE \E v \in Viewers : OpenFails(v)
  BY <1>1, <1>5, OpenFailsStep
<1>6. \/ asks' = asks /\ memo' = memo
      \/ \E v \in Viewers : Ask(v) \/ Answer(v) \/ OpenFails(v)
  BY DEF Next, vars, Relay, StreamEnds, BodyRead, Record, WriteEnds, WriteStops
<1> QED  BY <1>2, <1>3, <1>4, <1>5, <1>6

\* The files, the requests and the memo the console shares are as described.
THEOREM BooksInvariant == Spec => []BooksInv
<1>1. BooksInv /\ UNCHANGED vars => BooksInv'
  BY BooksStep
<1>2. BooksInv /\ [Next]_vars => BooksInv'
  BY BooksStep
<1> QED  BY InitBooks, <1>2, PTL DEF Spec

\* For any number of concurrent requests, appends, torn writes and failed opens:
\* an answer of the console from a file it could open holds every row that was on
\* a whole line when its request came.
THEOREM FreshCorrect == Spec => AnswersAreFresh
<1> DEFINE Fresh == \A v \in Viewers : Answer(v) => asks[v].due \subseteq Ids(memo'.rows)
<1>1. BooksInv /\ [Next]_vars => [Fresh]_vars
  BY AnswerStep DEF BooksInv
<1>2. Spec => [][Fresh]_vars
  BY <1>1, BooksInvariant, PTL DEF Spec
<1> QED  BY <1>2 DEF AnswersAreFresh

-----------------------------------------------------------------------------
(* What a torn write costs. *)

LEMMA LostOnly ==
  ASSUME FileOK, LandedOK
  PROVE  LostOnlyToTears
<1> DEFINE n == Len(file)
           Lost == landed \ Ids(ReadLive(file))
           lineOf == [x \in Lost |-> CHOOSE i \in 1 .. n : file[i].got = "line" /\ file[i].row.id = x]
           before == [x \in Lost |-> lineOf[x] - 1]
<1>1. file \in Seq(Piece) /\ n \in Nat /\ DOMAIN file = 1 .. n
  BY DEF FileOK
<1>2. ASSUME NEW x \in Lost
      PROVE  /\ lineOf[x] \in 1 .. n /\ file[lineOf[x]].row.id = x
             /\ before[x] \in Torn /\ lineOf[x] = before[x] + 1
  <2>1. \E i \in 1 .. n : file[i].got = "line" /\ file[i].row.id = x
    BY <1>1 DEF LandedOK
  <2>2. lineOf[x] \in 1 .. n /\ file[lineOf[x]].got = "line" /\ file[lineOf[x]].row.id = x
    BY <2>1
  <2>3. PICK i \in 1 .. n : i = lineOf[x]
    BY <2>2
  <2>4. before[x] = i - 1
    BY <2>3
  <2> HIDE DEF lineOf, before
  <2>5. i \notin Lines(file)
    BY <1>1, <2>2, <2>3, KeptIds
  <2>6. ~StartsLine(file, i)
    BY <1>1, <2>2, <2>3, <2>5 DEF Lines, Parses, EndsLine
  <2>7. i - 1 \in 1 .. n /\ file[i - 1].got # "line" /\ i - 1 # n
    BY <1>1, <2>6 DEF StartsLine
  <2>8. i - 1 \in Torn
    BY <1>1, <2>7 DEF Torn
  <2> QED  BY <2>2, <2>3, <2>4, <2>8
<1>3. IsFiniteSet(Torn) /\ Cardinality(Torn) \in Nat
  <2>1. IsFiniteSet(1 .. n)
    BY <1>1, FS_Interval
  <2>2. Torn \in SUBSET (1 .. n)
    BY <1>1 DEF Torn
  <2> QED  BY <2>1, <2>2, FS_Subset, FS_CardinalityType
<1>4. before \in Injection(Lost, Torn)
  <2>1. before \in [Lost -> Torn]
    <3>1. \A x \in Lost : before[x] \in Torn
      BY <1>2
    <3>2. before = [x \in Lost |-> before[x]]
      OBVIOUS
    <3> HIDE DEF before, Lost
    <3> QED  BY <3>1, <3>2
  <2>2. \A x, y \in Lost : before[x] = before[y] => x = y
    <3> HIDE DEF before, lineOf, Lost
    <3> QED  BY <1>2
  <2> HIDE DEF before, Lost
  <2> QED  BY <2>1, <2>2 DEF Injection, IsInjective
<1>5. Cardinality(Lost) <= tears
  <2>1. IsFiniteSet(Lost) /\ Cardinality(Lost) <= Cardinality(Torn)
    <3> HIDE DEF before, Lost
    <3> QED  BY <1>3, <1>4, FS_Injection
  <2>2. Cardinality(Lost) \in Nat
    <3> HIDE DEF Lost
    <3> QED  BY <2>1, FS_CardinalityType
  <2>3. Cardinality(Torn) <= tears /\ tears \in Nat
    BY DEF LandedOK, FileOK
  <2> HIDE DEF Lost
  <2> QED  BY <1>3, <2>1, <2>2, <2>3
<1>6. ASSUME tears = 0, ~writing
      PROVE  ReadStrict(file).ok /\ Ids(ReadStrict(file).rows) = landed
  <2>1. Torn = {}
    BY <1>3, <1>6, FS_EmptySet DEF LandedOK
  <2>2. \A i \in 1 .. n : file[i].got = "line"
    BY <1>1, <1>6, <2>1 DEF Torn
  <2>3. ASSUME NEW i \in 1 .. n PROVE Parses(file, i)
    <3>1. i = 1 \/ i - 1 \in 1 .. n
      BY <1>1
    <3> HIDE DEF n
    <3>2. StartsLine(file, i)
      BY <2>2, <3>1 DEF StartsLine
    <3>3. EndsLine(file, i) /\ file[i].got # "part"
      BY <2>2 DEF EndsLine
    <3> QED  BY <3>2, <3>3 DEF Parses
  <2>4. ~Corrupt(file) /\ Lines(file) = 1 .. n
    BY <1>1, <2>3 DEF Corrupt, Lines
  <2>5. ReadStrict(file) = [ok |-> TRUE, rows |-> ReadLive(file)]
    BY <2>4 DEF ReadStrict
  <2>6. Ids(ReadLive(file)) = landed
    BY <1>1, <2>2, <2>4, KeptIds DEF LandedOK
  <2> QED  BY <2>5, <2>6
<1> QED  BY <1>5, <1>6 DEF LostOnlyToTears

\* For any sequence of appends, torn writes and restarts: the rows missing from
\* what the console reads are no more than the writes that tore.
THEOREM LostCorrect == Spec => []LostOnlyToTears
<1>1. BooksInv => LostOnlyToTears
  BY LostOnly DEF BooksInv
<1> QED  BY <1>1, BooksInvariant, PTL

-----------------------------------------------------------------------------
(* Money. *)

\* A sum of naturals is one.
LEMMA SumNat ==
  ASSUME NEW f, NEW S, IsFiniteSet(S), \A x \in S : f[x] \in Nat
  PROVE  SumFunctionOnSet(f, S) \in Nat
<1> DEFINE P == {T \in SUBSET S : SumFunctionOnSet(f, T) \in Nat}
<1>1. {} \in P
  BY SumEmpty
<1>2. ASSUME NEW T \in SUBSET S, NEW x \in S, T \in P
      PROVE  T \cup {x} \in P
  <2>1. CASE x \in T
    <3>1. T \cup {x} = T
      BY <2>1
    <3> QED  BY <1>2, <3>1
  <2>2. CASE x \notin T
    <3>1. IsFiniteSet(T)
      BY FS_Subset
    <3>2. SumFunctionOnSet(f, T \cup {x}) = f[x] + SumFunctionOnSet(f, T)
      BY <2>2, <3>1, SumAdd
    <3> QED  BY <1>2, <3>2
  <2> QED  BY <2>1, <2>2
<1>3. S \in P
  <2> HIDE DEF P
  <2> QED  BY <1>1, <1>2, SubsetInduction
<1> QED  BY <1>3

\* The sum of sums.
LEMMA SumPlus ==
  ASSUME NEW f, NEW g, NEW h, NEW S, IsFiniteSet(S),
         \A x \in S : f[x] \in Int /\ g[x] \in Int /\ h[x] = f[x] + g[x]
  PROVE  SumFunctionOnSet(h, S) = SumFunctionOnSet(f, S) + SumFunctionOnSet(g, S)
<1> DEFINE P == {T \in SUBSET S : SumFunctionOnSet(h, T)
                                    = SumFunctionOnSet(f, T) + SumFunctionOnSet(g, T)}
<1>1. {} \in P
  BY SumEmpty
<1>2. ASSUME NEW T \in SUBSET S, NEW x \in S, T \in P
      PROVE  T \cup {x} \in P
  <2>1. CASE x \in T
    <3>1. T \cup {x} = T
      BY <2>1
    <3> QED  BY <1>2, <3>1
  <2>2. CASE x \notin T
    <3>1. IsFiniteSet(T)
      BY FS_Subset
    <3>2. f[x] \in Int /\ g[x] \in Int /\ h[x] = f[x] + g[x]
      OBVIOUS
    <3>3. SumFunctionOnSet(f, T \cup {x}) = f[x] + SumFunctionOnSet(f, T)
      BY <2>2, <3>1, SumAdd
    <3>4. SumFunctionOnSet(g, T \cup {x}) = g[x] + SumFunctionOnSet(g, T)
      BY <2>2, <3>1, SumAdd
    <3>5. SumFunctionOnSet(h, T \cup {x}) = h[x] + SumFunctionOnSet(h, T)
      <4>1. \A z \in T \cup {x} : h[z] \in Int
        OBVIOUS
      <4> QED  BY <2>2, <3>1, <4>1, SumAdd
    <3>6. SumFunctionOnSet(f, T) \in Int /\ SumFunctionOnSet(g, T) \in Int
      BY <3>1, SumTakeOut
    <3>7. SumFunctionOnSet(h, T) = SumFunctionOnSet(f, T) + SumFunctionOnSet(g, T)
      BY <1>2
    <3>8. SumFunctionOnSet(h, T \cup {x})
            = SumFunctionOnSet(f, T \cup {x}) + SumFunctionOnSet(g, T \cup {x})
      BY <3>2, <3>3, <3>4, <3>5, <3>6, <3>7
    <3> QED  BY <3>8
  <2> QED  BY <2>1, <2>2
<1>3. S \in P
  <2> HIDE DEF P
  <2> QED  BY <1>1, <1>2, SubsetInduction
<1> QED  BY <1>3

\* The dollars of a set of rows do not depend on the set they are taken from.
Costs(rows) == [e \in rows |-> e.cost]
ValidRows == {e \in Row : Valid(e)}

LEMMA ValidRow ==
  ASSUME NEW e \in ValidRows
  PROVE  /\ e.cost \in Nat /\ e.start \in Nat /\ e.end \in Nat
         /\ e.start <= e.end
BY DEF ValidRows, Row, Valid

LEMMA UsdIs ==
  ASSUME NEW R \in SUBSET ValidRows, IsFiniteSet(R), NEW A \in SUBSET R
  PROVE  /\ Usd(A) = SumFunctionOnSet(Costs(R), A)
         /\ Usd(A) \in Nat
         /\ IsFiniteSet(A)
<1>1. IsFiniteSet(A)
  BY FS_Subset
<1>2. DOMAIN Costs(A) = A
  BY DEF Costs
<1>3. Usd(A) = SumFunctionOnSet(Costs(A), A)
  BY <1>2 DEF Usd, SumFunction, Costs
<1>4. \A e \in A : Costs(R)[e] \in Nat /\ Costs(A)[e] = Costs(R)[e]
  BY ValidRow DEF Costs
<1>5. SumFunctionOnSet(Costs(A), A) = SumFunctionOnSet(Costs(R), A)
  BY <1>1, <1>4, SumSame
<1>6. SumFunctionOnSet(Costs(R), A) \in Nat
  BY <1>1, <1>4, SumNat
<1> QED  BY <1>1, <1>3, <1>5, <1>6

\* The dollars of two sets of rows without a row in common.
LEMMA UsdUnion ==
  ASSUME NEW R \in SUBSET ValidRows, IsFiniteSet(R),
         NEW A \in SUBSET R, NEW B \in SUBSET R, A \cap B = {}
  PROVE  Usd(A \cup B) = Usd(A) + Usd(B)
<1>1. IsFiniteSet(A) /\ IsFiniteSet(B) /\ A \cup B \in SUBSET R
  BY FS_Subset
<1>2. \A e \in A \cup B : Costs(R)[e] \in Int
  BY ValidRow DEF Costs
<1>3. SumFunctionOnSet(Costs(R), A \cup B)
        = SumFunctionOnSet(Costs(R), A) + SumFunctionOnSet(Costs(R), B)
  BY <1>1, <1>2, SumUnion
<1> QED  BY <1>1, <1>3, UsdIs

\* The dollars by groups add up.
LEMMA UsdGroups ==
  ASSUME NEW R \in SUBSET ValidRows, IsFiniteSet(R), NEW A \in SUBSET R,
         NEW K, IsFiniteSet(K), NEW key, \A e \in A : key[e] \in K,
         NEW g, \A k \in K : g[k] = Usd({e \in A : key[e] = k})
  PROVE  SumFunctionOnSet(g, K) = Usd(A)
<1>1. IsFiniteSet(A) /\ Usd(A) = SumFunctionOnSet(Costs(R), A)
  BY UsdIs
<1>2. \A e \in A : Costs(R)[e] \in Int
  BY ValidRow DEF Costs
<1> DEFINE group == [k \in K |-> {e \in A : key[e] = k}]
<1>3. \A k \in K : group[k] = {e \in A : key[e] = k} /\ group[k] \in SUBSET R
  OBVIOUS
<1>4. \A k \in K : g[k] = Usd(group[k])
  BY <1>3
<1> HIDE DEF group
<1>5. \A k \in K : g[k] = SumFunctionOnSet(Costs(R), group[k])
  BY <1>3, <1>4, UsdIs
<1>6. SumFunctionOnSet(g, K) = SumFunctionOnSet(Costs(R), A)
  BY <1>1, <1>2, <1>3, <1>5, SumGroups
<1> QED  BY <1>1, <1>6

\* The days of a bill, as the report steps through them.
LEMMA DaysAreInBucket ==
  ASSUME NEW c \in ValidRows, NEW e \in ValidRows
  PROVE  DayOf(e.start) \in DaysOf(c) <=>
           /\ DayOf(c.start) <= DayOf(e.start)
           /\ DayOf(e.start) < DayOf(c.start) + MaxCoverageDays
           /\ DayOf(e.start) = DayOf(c.start) \/ DayOf(e.start) * DayTicks < c.end
<1> DEFINE day == DayOf(e.start)
           first == DayOf(c.start)
           end == IF c.end > first * DayTicks THEN c.end ELSE (first + 1) * DayTicks
<1>1. DayTicks \in Nat \ {0} /\ MaxCoverageDays \in Nat \ {0}
  BY CalendarAssumption
<1>2. day \in Nat /\ first \in Nat
  BY <1>1, ValidRow DEF DayOf
<1>3. c.end \in Nat
  BY ValidRow
<1>4. DaysOf(c) = {d \in first .. end : d * DayTicks < end /\ d - first < MaxCoverageDays}
  BY DEF DaysOf
<1> HIDE DEF day, first
<1>5. (first + 1) * DayTicks = first * DayTicks + DayTicks
  BY <1>1, <1>2
<1>6. first * DayTicks \in Nat /\ day * DayTicks \in Nat /\ day <= day * DayTicks
  BY <1>1, <1>2
<1>7. first + 1 <= day => (first + 1) * DayTicks <= day * DayTicks
  BY <1>1, <1>2
<1>8. first <= day => first * DayTicks <= day * DayTicks
  BY <1>1, <1>2
<1>9. end \in Nat
  BY <1>3, <1>5, <1>6, <1>1
<1>10. day \in DaysOf(c) <=> /\ first <= day /\ day <= end /\ day * DayTicks < end
                             /\ day < first + MaxCoverageDays
  BY <1>1, <1>2, <1>4, <1>9
<1> DEFINE dp == day * DayTicks
           fp == first * DayTicks
           np == (first + 1) * DayTicks
           last == c.end
           cap == MaxCoverageDays
<1>11. /\ dp \in Nat /\ fp \in Nat /\ np \in Nat /\ fp < np /\ last \in Nat /\ cap \in Nat \ {0}
       /\ day <= dp
       /\ first + 1 <= day => np <= dp
       /\ day = first => fp = dp
       /\ first <= day => fp <= dp
       /\ end = IF last > fp THEN last ELSE np
       /\ day \in DaysOf(c) <=> first <= day /\ day <= end /\ dp < end /\ day < first + cap
  BY <1>1, <1>2, <1>3, <1>5, <1>6, <1>7, <1>8, <1>10
<1> HIDE DEF dp, fp, np, last, end, cap
<1>12. day \in DaysOf(c) <=> first <= day /\ day < first + cap /\ (day = first \/ dp < last)
  <2>1. CASE last > fp
    BY <1>2, <1>11, <2>1
  <2>2. CASE ~(last > fp)
    BY <1>2, <1>11, <2>2
  <2> QED  BY <2>1, <2>2
<1> QED  BY <1>12 DEF day, first, dp, last, cap

\* What the coverage says of a row: some bill has the row's day in its bucket.
LEMMA CoversIsInBucket ==
  ASSUME NEW R \in SUBSET ValidRows, NEW e \in ValidRows
  PROVE  Covers(Coverage(R), e) <=> \E c \in Billed(R) : InBucket(c, e)
<1>1. \A c \in Billed(R) : c \in ValidRows
  BY DEF Billed
<1>2. Covers(Coverage(R), e) <=>
        \E c \in Billed(R) : c.provider = e.provider /\ DayOf(e.start) \in DaysOf(c)
  BY DEF Covers, Coverage
<1>3. \A c \in Billed(R) :
        InBucket(c, e) <=> c.provider = e.provider /\ DayOf(e.start) \in DaysOf(c)
  BY <1>1, DaysAreInBucket DEF InBucket
<1> QED  BY <1>2, <1>3

\* The image of a finite set.
LEMMA FiniteImage ==
  ASSUME NEW S, IsFiniteSet(S), NEW key, NEW K, K = {key[x] : x \in S}
  PROVE  IsFiniteSet(K)
<1> DEFINE f == [x \in S |-> key[x]]
<1>1. f \in Surjection(S, K)
  BY DEF Surjection
<1> HIDE DEF f
<1> QED  BY <1>1, FS_Surjection

\* What the bills leave unaccounted for, summed over every month with metered
\* rows instead of those where it is positive.
Over(rows) ==
  [b \in MeteredBuckets(rows) |->
     IF BilledIn(rows, b) > CoveredIn(rows, b) THEN BilledIn(rows, b) - CoveredIn(rows, b) ELSE 0]

LEMMA MonthsOf ==
  ASSUME NEW R \in SUBSET ValidRows, IsFiniteSet(R)
  PROVE  /\ IsFiniteSet(MeteredBuckets(R))
         /\ \A b \in MeteredBuckets(R) : /\ BilledIn(R, b) \in Nat /\ CoveredIn(R, b) \in Nat
                                         /\ Over(R)[b] \in Nat
<1> DEFINE bucket == [e \in R |-> Bucket(e)]
<1>1. MeteredRows(R) \in SUBSET R /\ Billed(R) \in SUBSET R
  BY DEF MeteredRows, Billed
<1>2. IsFiniteSet(MeteredRows(R))
  BY <1>1, FS_Subset
<1>3. MeteredBuckets(R) = {bucket[e] : e \in MeteredRows(R)}
  BY <1>1 DEF MeteredBuckets
<1>4. IsFiniteSet(MeteredBuckets(R))
  <2> HIDE DEF bucket
  <2> QED  BY <1>2, <1>3, FiniteImage
<1>5. ASSUME NEW b \in MeteredBuckets(R)
      PROVE  BilledIn(R, b) \in Nat /\ CoveredIn(R, b) \in Nat
  <2>1. {e \in Billed(R) : Bucket(e) = b} \in SUBSET R
    BY <1>1
  <2>2. {e \in MeteredRows(R) : Bucket(e) = b /\ Covers(Coverage(R), e)} \in SUBSET R
    BY <1>1
  <2>3. BilledIn(R, b) \in Nat
    BY <2>1, UsdIs DEF BilledIn
  <2>4. CoveredIn(R, b) \in Nat
    BY <2>2, UsdIs DEF CoveredIn
  <2> QED  BY <2>3, <2>4
<1>6. \A b \in MeteredBuckets(R) : Over(R)[b] \in Nat
  BY <1>5 DEF Over
<1> QED  BY <1>4, <1>5, <1>6

LEMMA UnmeteredIs ==
  ASSUME NEW R \in SUBSET ValidRows, IsFiniteSet(R)
  PROVE  /\ Unmetered(R) = SumFunctionOnSet(Over(R), MeteredBuckets(R))
         /\ Unmetered(R) \in Nat
<1> DEFINE MB == MeteredBuckets(R)
           over == {b \in MB : BilledIn(R, b) > CoveredIn(R, b)}
           gap == [b \in over |-> BilledIn(R, b) - CoveredIn(R, b)]
           none == MB \ over
           zero == [b \in none |-> 0]
<1>1. IsFiniteSet(MB) /\ \A b \in MB : BilledIn(R, b) \in Nat /\ CoveredIn(R, b) \in Nat
                                       /\ Over(R)[b] \in Nat
  BY MonthsOf
<1>2. Unmetered(R) = SumFunctionOnSet(gap, over)
  <2>1. DOMAIN gap = over
    OBVIOUS
  <2>2. Unmetered(R) = SumFunction(gap)
    BY DEF Unmetered
  <2> HIDE DEF gap, over
  <2> QED  BY <2>1, <2>2 DEF SumFunction
<1>3. IsFiniteSet(over) /\ IsFiniteSet(none) /\ over \cup none = MB /\ over \cap none = {}
  <2>1. over \in SUBSET MB /\ none \in SUBSET MB
    OBVIOUS
  <2>2. IsFiniteSet(over) /\ IsFiniteSet(none)
    BY <1>1, <2>1, FS_Subset
  <2> QED  BY <2>2
<1>4. \A b \in over : gap[b] \in Int /\ Over(R)[b] = gap[b]
  BY <1>1 DEF Over
<1>5. \A b \in none : Over(R)[b] = 0
  BY <1>1 DEF Over
<1>6. \A b \in over : Over(R)[b] \in Int
  BY <1>1
<1> HIDE DEF gap, over, none
<1>7. SumFunctionOnSet(gap, over) = SumFunctionOnSet(Over(R), over)
  <2>1. \A b \in over : Over(R)[b] \in Int /\ gap[b] = Over(R)[b]
    BY <1>4, <1>6
  <2> QED  BY <1>3, <2>1, SumSame
<1>8. SumFunctionOnSet(Over(R), none) = 0
  <2> DEFINE P == {T \in SUBSET none : SumFunctionOnSet(Over(R), T) = 0}
  <2>1. {} \in P
    BY SumEmpty
  <2>2. ASSUME NEW T \in SUBSET none, NEW b \in none, T \in P
        PROVE  T \cup {b} \in P
    <3>1. CASE b \in T
      <4>1. T \cup {b} = T
        BY <3>1
      <4> QED  BY <2>2, <4>1
    <3>2. CASE b \notin T
      <4>1. IsFiniteSet(T)
        BY <1>3, FS_Subset
      <4>2. SumFunctionOnSet(Over(R), T \cup {b}) = Over(R)[b] + SumFunctionOnSet(Over(R), T)
        BY <1>5, <3>2, <4>1, SumAdd
      <4> QED  BY <1>5, <2>2, <4>2
    <3> QED  BY <3>1, <3>2
  <2>3. none \in P
    <3> HIDE DEF P
    <3> QED  BY <1>3, <2>1, <2>2, SubsetInduction
  <2> QED  BY <2>3
<1>9. SumFunctionOnSet(Over(R), over \cup none)
        = SumFunctionOnSet(Over(R), over) + SumFunctionOnSet(Over(R), none)
  <2>1. \A b \in over \cup none : Over(R)[b] \in Int
    BY <1>1, <1>3
  <2> QED  BY <1>3, <2>1, SumUnion
<1>10. SumFunctionOnSet(Over(R), over) \in Int
  BY <1>3, <1>6, SumTakeOut
<1>11. SumFunctionOnSet(Over(R), MB) \in Nat
  BY <1>1, SumNat
<1> QED  BY <1>2, <1>3, <1>7, <1>8, <1>9, <1>10, <1>11

\* The bars are what can be attributed and what is unmetered.
LEMMA BarsAre ==
  ASSUME NEW R \in SUBSET ValidRows, IsFiniteSet(R)
  PROVE  Bars(R) = Usd(Attributable(R)) + Unmetered(R)
<1> DEFINE A == Attributable(R)
           teamOf == [e \in R |-> e.team]
           teams == {e.team : e \in A}
           U == Unmetered(R)
           extra == IF U > 0 THEN {UnmeteredKey} ELSE {}
           D == teams \cup extra
           spent == [t \in D |-> SpentBy(R, t)]
           bars == [t \in D |-> SpentBy(R, t) + IF t \in extra THEN U ELSE 0]
<1>1. A \in SUBSET R /\ IsFiniteSet(A) /\ Usd(A) \in Nat
  <2>1. A \in SUBSET R
    BY DEF Attributable
  <2> QED  BY <2>1, UsdIs
<1>2. U \in Nat
  BY UnmeteredIs
<1>3. IsFiniteSet(D)
  <2>1. teams = {teamOf[e] : e \in A}
    BY <1>1
  <2>2. IsFiniteSet(teams)
    <3> HIDE DEF teams, teamOf, A
    <3> QED  BY <1>1, <2>1, FiniteImage
  <2>3. IsFiniteSet(extra)
    BY FS_EmptySet, FS_Singleton
  <2> HIDE DEF teams, extra
  <2> QED  BY <2>2, <2>3, FS_Union
<1>4. \A t \in D : SpentBy(R, t) \in Nat
  <2> TAKE t \in D
  <2>1. {e \in A : e.team = t} \in SUBSET R
    BY <1>1
  <2> QED  BY <2>1, UsdIs DEF SpentBy
<1>5. Bars(R) = SumFunctionOnSet(bars, D)
  <2>1. ByTeam(R) = bars
    BY DEF ByTeam
  <2>2. DOMAIN bars = D
    OBVIOUS
  <2> HIDE DEF bars, D
  <2> QED  BY <2>1, <2>2 DEF Bars, SumFunction
<1>6. SumFunctionOnSet(spent, D) = Usd(A)
  <2>1. \A e \in A : teamOf[e] \in D
    BY <1>1
  <2>2. \A t \in D : spent[t] = Usd({e \in A : teamOf[e] = t})
    <3> TAKE t \in D
    <3>1. {e \in A : e.team = t} = {e \in A : teamOf[e] = t}
      BY <1>1
    <3> QED  BY <3>1 DEF SpentBy
  <2> HIDE DEF D, spent, teamOf, A
  <2> QED  BY <1>1, <1>3, <2>1, <2>2, UsdGroups
<1>7. \A t \in D : spent[t] \in Int /\ bars[t] \in Int
                   /\ bars[t] = spent[t] + IF t \in extra THEN U ELSE 0
  BY <1>2, <1>4
<1> HIDE DEF spent, bars
<1>8. CASE U > 0
  <2> DEFINE k == UnmeteredKey
             rest == D \ {k}
  <2>1. extra = {k} /\ k \in D
    BY <1>8
  <2>2. SumFunctionOnSet(bars, D) = bars[k] + SumFunctionOnSet(bars, rest)
    BY <1>3, <1>7, <2>1, SumTakeOut
  <2>3. SumFunctionOnSet(spent, D) = spent[k] + SumFunctionOnSet(spent, rest)
    BY <1>3, <1>7, <2>1, SumTakeOut
  <2>4. IsFiniteSet(rest)
    BY <1>3, FS_RemoveElement
  <2>5. \A t \in rest : spent[t] \in Int /\ bars[t] = spent[t]
    BY <1>7, <2>1
  <2>6. SumFunctionOnSet(bars, rest) = SumFunctionOnSet(spent, rest)
    <3> HIDE DEF rest
    <3> QED  BY <2>4, <2>5, SumSame
  <2>7. SumFunctionOnSet(spent, rest) \in Int
    <3> HIDE DEF rest
    <3> QED  BY <2>4, <2>5, SumTakeOut
  <2>8. bars[k] = spent[k] + U /\ spent[k] \in Int
    BY <1>7, <2>1
  <2> HIDE DEF rest, D, extra
  <2>9. SumFunctionOnSet(bars, D) = SumFunctionOnSet(spent, D) + U
    BY <1>2, <2>2, <2>3, <2>6, <2>7, <2>8
  <2> QED  BY <1>5, <1>6, <2>9
<1>9. CASE ~(U > 0)
  <2>1. extra = {} /\ U = 0
    BY <1>2, <1>9
  <2>2. \A t \in D : spent[t] \in Int /\ bars[t] = spent[t]
    BY <1>7, <2>1
  <2>3. SumFunctionOnSet(bars, D) = SumFunctionOnSet(spent, D)
    <3> HIDE DEF D
    <3> QED  BY <1>3, <2>2, SumSame
  <2> QED  BY <1>1, <1>5, <1>6, <2>1, <2>3
<1> QED  BY <1>8, <1>9

\* The rows that count: the bills, and the metered rows of the other days.
LEMMA TotalIs ==
  ASSUME NEW R \in SUBSET ValidRows, IsFiniteSet(R)
  PROVE  Total(R) = Usd(Billed(R)) + Usd({e \in MeteredRows(R) : ~Covers(Coverage(R), e)})
<1> DEFINE C == Billed(R)
           Mu == {e \in MeteredRows(R) : ~Covers(Coverage(R), e)}
<1>1. Included(R) = C \cup Mu
  BY DEF Included, CountsTowardTotal, Billed, MeteredRows
<1>2. C \in SUBSET R /\ Mu \in SUBSET R /\ C \cap Mu = {}
  BY DEF Billed, MeteredRows
<1> HIDE DEF C, Mu
<1>3. Usd(C \cup Mu) = Usd(C) + Usd(Mu)
  BY <1>2, UsdUnion
<1> QED  BY <1>1, <1>3 DEF Total, C, Mu

\* The arithmetic of the dashboard, for any finite set of valid rows.
LEMMA BarsMeetTotal ==
  ASSUME NEW R \in SUBSET ValidRows, IsFiniteSet(R)
  PROVE  /\ Bars(R) >= Total(R)
         /\ Bars(R) = Total(R) <=> ~CheapMonth(R)
<1> DEFINE MB == MeteredBuckets(R)
           M == MeteredRows(R)
           C == Billed(R)
           Mc == {e \in M : Covers(Coverage(R), e)}
           Mu == {e \in M : ~Covers(Coverage(R), e)}
           In == {c \in C : Bucket(c) \in MB}
           Out == {c \in C : Bucket(c) \notin MB}
           bucket == [e \in R |-> Bucket(e)]
           bil == [b \in MB |-> BilledIn(R, b)]
           cov == [b \in MB |-> CoveredIn(R, b)]
           both == [b \in MB |-> cov[b] + Over(R)[b]]
<1>1. M \in SUBSET R /\ C \in SUBSET R
  BY DEF MeteredRows, Billed
<1>2. Mc \in SUBSET R /\ Mu \in SUBSET R /\ In \in SUBSET R /\ Out \in SUBSET R
  BY <1>1
<1>3. M \cap Out = {}
  BY DEF MeteredRows, Billed
<1>4. IsFiniteSet(MB) /\ \A b \in MB : bil[b] \in Nat /\ cov[b] \in Nat /\ Over(R)[b] \in Nat
  BY MonthsOf
<1>5. Usd(C) = Usd(In) + Usd(Out)
  <2>1. In \cup Out = C /\ In \cap Out = {}
    OBVIOUS
  <2> HIDE DEF In, Out, C
  <2> QED  BY <1>2, <2>1, UsdUnion
<1>6. Usd(M) = Usd(Mc) + Usd(Mu)
  <2>1. Mc \cup Mu = M /\ Mc \cap Mu = {}
    OBVIOUS
  <2> HIDE DEF Mc, Mu, M
  <2> QED  BY <1>2, <2>1, UsdUnion
<1>7. Usd(Attributable(R)) = Usd(M) + Usd(Out)
  <2>1. Attributable(R) = M \cup Out
    BY DEF Attributable, MeteredRows, Billed
  <2> HIDE DEF M, Out
  <2> QED  BY <1>1, <1>2, <1>3, <2>1, UsdUnion
<1>8. SumFunctionOnSet(bil, MB) = Usd(In)
  <2>1. \A e \in In : bucket[e] \in MB
    BY <1>2
  <2>2. \A b \in MB : bil[b] = Usd({e \in In : bucket[e] = b})
    <3> TAKE b \in MB
    <3>1. {e \in C : Bucket(e) = b} = {e \in In : bucket[e] = b}
      BY <1>2
    <3> QED  BY <3>1 DEF BilledIn
  <2> HIDE DEF In, MB, bucket, bil
  <2> QED  BY <1>2, <1>4, <2>1, <2>2, UsdGroups
<1>9. SumFunctionOnSet(cov, MB) = Usd(Mc)
  <2>1. \A e \in Mc : bucket[e] \in MB
    BY <1>2 DEF MeteredBuckets
  <2>2. \A b \in MB : cov[b] = Usd({e \in Mc : bucket[e] = b})
    <3> TAKE b \in MB
    <3>1. {e \in M : Bucket(e) = b /\ Covers(Coverage(R), e)} = {e \in Mc : bucket[e] = b}
      BY <1>2
    <3> QED  BY <3>1 DEF CoveredIn
  <2> HIDE DEF Mc, MB, bucket, cov
  <2> QED  BY <1>2, <1>4, <2>1, <2>2, UsdGroups
<1>10. SumFunctionOnSet(both, MB) = Usd(Mc) + Unmetered(R)
  <2>1. \A b \in MB : cov[b] \in Int /\ Over(R)[b] \in Int /\ both[b] = cov[b] + Over(R)[b]
    BY <1>4
  <2>2. SumFunctionOnSet(both, MB) = SumFunctionOnSet(cov, MB) + SumFunctionOnSet(Over(R), MB)
    <3> HIDE DEF MB, both, cov
    <3> QED  BY <1>4, <2>1, SumPlus
  <2> QED  BY <1>9, <2>2, UnmeteredIs
<1>11. \A b \in MB : /\ bil[b] \in Int /\ both[b] \in Int /\ bil[b] <= both[b]
                     /\ bil[b] = both[b] <=> ~(bil[b] < cov[b])
  BY <1>4 DEF Over
<1>12. /\ Usd(In) <= Usd(Mc) + Unmetered(R)
       /\ Usd(In) = Usd(Mc) + Unmetered(R) <=> \A b \in MB : bil[b] = both[b]
  <2> HIDE DEF MB, bil, both
  <2>1. /\ SumFunctionOnSet(bil, MB) <= SumFunctionOnSet(both, MB)
        /\ SumFunctionOnSet(bil, MB) = SumFunctionOnSet(both, MB) <=> \A b \in MB : bil[b] = both[b]
    BY <1>4, <1>11, SumMonotone
  <2> QED  BY <1>8, <1>10, <2>1
<1>13. CheapMonth(R) <=> \E b \in MB : bil[b] < cov[b]
  <2>1. ASSUME NEW e \in M
        PROVE  Covers(Coverage(R), e) <=> \E c \in Billed(R) : InBucket(c, e)
    BY <1>1, CoversIsInBucket
  <2>2. \A b \in MB : cov[b] = Usd({e \in Replaced(R) : Bucket(e) = b})
    <3> TAKE b \in MB
    <3>1. {e \in M : Bucket(e) = b /\ Covers(Coverage(R), e)} = {e \in Replaced(R) : Bucket(e) = b}
      BY <2>1 DEF Replaced
    <3> QED  BY <3>1 DEF CoveredIn
  <2> QED  BY <2>2 DEF CheapMonth
<1>14. /\ Usd(In) \in Nat /\ Usd(Out) \in Nat /\ Usd(Mc) \in Nat /\ Usd(Mu) \in Nat
       /\ Unmetered(R) \in Nat
  BY <1>2, UsdIs, UnmeteredIs
<1>15. Total(R) = Usd(C) + Usd(Mu)
  BY TotalIs
<1>16. Bars(R) = Usd(Attributable(R)) + Unmetered(R)
  BY BarsAre
<1>17. (\A b \in MB : bil[b] = both[b]) <=> ~CheapMonth(R)
  BY <1>11, <1>13
<1> HIDE DEF In, Out, Mc, Mu, M, C, MB, bil, cov, both
<1>18. /\ Bars(R) >= Total(R)
       /\ Bars(R) = Total(R) <=> Usd(In) = Usd(Mc) + Unmetered(R)
  BY <1>5, <1>6, <1>7, <1>12, <1>14, <1>15, <1>16
<1> QED  BY <1>12, <1>17, <1>18

\* For any ledger and any window: the bars never fall short of the total, and
\* add up to it exactly when no month is billed below what its bills replace.
THEOREM BarsCorrect == Spec => []BarsAddUp
<1>1. ASSUME FileOK PROVE BarsAddUp
  <2>1. ReadLive(file) \in SUBSET ValidRows /\ IsFiniteSet(ReadLive(file))
    BY <1>1, KeptRows DEF FileOK, ValidRows
  <2>2. ASSUME NEW d \in Windows
        PROVE  /\ Window(ReadLive(file), d) \in SUBSET ValidRows
               /\ IsFiniteSet(Window(ReadLive(file), d))
    <3>1. Window(ReadLive(file), d) \in SUBSET ReadLive(file)
      BY DEF Window
    <3> QED  BY <2>1, <3>1, FS_Subset
  <2> QED  BY <2>2, BarsMeetTotal DEF BarsAddUp
<1>2. BooksInv => BarsAddUp
  BY <1>1 DEF BooksInv
<1> QED  BY <1>2, BooksInvariant, PTL

\* One bill more.
LEMMA OneBill ==
  ASSUME NEW before \in SUBSET ValidRows, IsFiniteSet(before),
         NEW b \in ValidRows, b \notin before, IsCostRow(b)
  PROVE  Total(before \cup {b}) = Total(before) + b.cost
           - Usd({e \in MeteredRows(before) :
                    InBucket(b, e) /\ \A c \in Billed(before) : ~InBucket(c, e)})
<1> DEFINE after == before \cup {b}
           New == {e \in MeteredRows(before) :
                     InBucket(b, e) /\ \A c \in Billed(before) : ~InBucket(c, e)}
           Kept == {e \in MeteredRows(before) : ~Covers(Coverage(after), e)}
           Mu == {e \in MeteredRows(before) : ~Covers(Coverage(before), e)}
           C == Billed(before)
<1>1. after \in SUBSET ValidRows /\ IsFiniteSet(after)
  BY FS_AddElement
<1>2. Billed(after) = C \cup {b} /\ MeteredRows(after) = MeteredRows(before)
  BY DEF Billed, MeteredRows
<1>3. \A e \in MeteredRows(before) : e \in ValidRows
  BY DEF MeteredRows
<1>4. \A e \in MeteredRows(before) :
        /\ Covers(Coverage(after), e) <=> \E c \in Billed(after) : InBucket(c, e)
        /\ Covers(Coverage(before), e) <=> \E c \in C : InBucket(c, e)
  BY <1>1, <1>3, CoversIsInBucket
<1>5. Mu = Kept \cup New /\ Kept \cap New = {}
  BY <1>2, <1>4
<1>6. /\ Kept \in SUBSET after /\ New \in SUBSET after /\ Mu \in SUBSET after
      /\ C \in SUBSET after /\ {b} \in SUBSET after /\ C \cap {b} = {}
  BY DEF MeteredRows, Billed
<1>7. Total(after) = Usd(C \cup {b}) + Usd(Kept)
  BY <1>1, <1>2, TotalIs
<1>8. Total(before) = Usd(C) + Usd(Mu)
  BY TotalIs
<1> HIDE DEF after, New, Kept, Mu, C
<1>9. Usd(Mu) = Usd(Kept) + Usd(New)
  BY <1>1, <1>5, <1>6, UsdUnion
<1>10. Usd(C \cup {b}) = Usd(C) + Usd({b})
  BY <1>1, <1>6, UsdUnion
<1>11. Usd({b}) = b.cost
  <2> DEFINE f == Costs({b})
  <2>1. Usd({b}) = SumFunctionOnSet(f, {b})
    <3>1. {b} \in SUBSET ValidRows /\ IsFiniteSet({b})
      BY FS_Singleton
    <3> QED  BY <3>1, UsdIs
  <2>2. f[b] = b.cost /\ b.cost \in Int
    BY ValidRow DEF Costs
  <2> HIDE DEF f
  <2>3. SumFunctionOnSet(f, {} \cup {b}) = f[b] + SumFunctionOnSet(f, {})
    <3>1. IsFiniteSet({}) /\ b \notin {} /\ \A x \in {} : f[x] \in Int
      BY FS_EmptySet
    <3> QED  BY <2>2, <3>1, SumAdd
  <2>4. {} \cup {b} = {b}
    OBVIOUS
  <2> QED  BY <2>1, <2>2, <2>3, <2>4, SumEmpty
<1>12. /\ Usd(Kept) \in Nat /\ Usd(New) \in Nat /\ Usd(C) \in Nat /\ b.cost \in Nat
  BY <1>1, <1>6, UsdIs, ValidRow
<1>13. Total(after) = Total(before) + b.cost - Usd(New)
  BY <1>7, <1>8, <1>9, <1>10, <1>11, <1>12
<1> QED  BY <1>13 DEF after, New

\* For any rows before it: a bill that arrives replaces the priced usage of the
\* days in its bucket that no bill had replaced, and no other.
THEOREM BillCorrect == Spec => BillReplacesOnlyItsDays
<1>1. ASSUME FileOK, FileOK' PROVE BillReplacesItsDays
  <2>1. ReadLive(file) \in SUBSET ValidRows /\ IsFiniteSet(ReadLive(file))
    BY <1>1, KeptRows DEF FileOK, ValidRows
  <2>2. ReadLive(file') \in SUBSET ValidRows
    BY <1>1, KeptRows DEF FileOK, ValidRows
  <2> QED  BY <2>1, <2>2, OneBill DEF BillReplacesItsDays
<1>2. BooksInv /\ BooksInv' => [BillReplacesItsDays]_vars
  BY <1>1 DEF BooksInv
<1> QED  BY <1>2, BooksInvariant, PTL DEF Spec, BillReplacesOnlyItsDays

-----------------------------------------------------------------------------
(* The call: what a reader makes of an answer. *)

\* What a reader makes of the tokens q, one at a time.
Fed(p, s, q) == FoldLeft(LAMBDA t, token : Feed(p, t, token), s, q)

\* A finite set of numbers has a greatest one.
LEMMA MaxIn ==
  ASSUME NEW n \in Nat, NEW s \in SUBSET (1 .. n), s # {}
  PROVE  Max(s) \in s /\ \A y \in s : Max(s) >= y
<1> DEFINE P == {t \in SUBSET s : t = {} \/ \E x \in t : \A y \in t : x >= y}
<1>1. ASSUME NEW t \in SUBSET s, NEW x \in s, t \in P PROVE t \cup {x} \in P
  <2>1. CASE t = {}
    BY <2>1
  <2>2. CASE t # {}
    <3>1. PICK z \in t : \A y \in t : z >= y
      BY <1>1, <2>2
    <3>2. CASE x >= z
      <4>1. \A y \in t \cup {x} : x >= y
        BY <3>1, <3>2
      <4> QED  BY <4>1
    <3>3. CASE ~(x >= z)
      <4>1. \A y \in t \cup {x} : z >= y
        BY <3>1, <3>3
      <4> QED  BY <3>1, <4>1
    <3> QED  BY <3>2, <3>3
  <2> QED  BY <2>1, <2>2
<1>2. IsFiniteSet(s)
  <2>1. IsFiniteSet(1 .. n)
    BY FS_Interval
  <2> QED  BY <2>1, FS_Subset
<1>3. s \in P
  <2>1. {} \in P
    OBVIOUS
  <2> HIDE DEF P
  <2> QED  BY <1>1, <1>2, <2>1, SubsetInduction
<1>4. \E x \in s : \A y \in s : x >= y
  BY <1>3
<1> QED  BY <1>4 DEF Max

\* The function such a reading is taken from: the last token comes last.
IsRead(g, p, s, q, S) ==
  g = [t \in SUBSET S |->
         IF t = {} THEN s
         ELSE Feed(p, g[t \ {Max(t)}], q[Max(t)])]

LEMMA ReadIsChosen ==
  ASSUME NEW p, NEW s, NEW q
  PROVE  Fed(p, s, q) = (CHOOSE g : IsRead(g, p, s, q, DOMAIN q))[DOMAIN q]
BY DEF Fed, FoldLeft, MapThenFoldSet, IsRead

\* Two such functions agree where both are defined and read the same tokens.
Places(S) == \E n \in Nat : S \in SUBSET (1 .. n)
SameTokens(q, r, S) == \A i \in S : r[i] = q[i]

LEMMA ReadUnique ==
  ASSUME NEW p, NEW s, NEW q, NEW r, NEW S, Places(S), NEW T, S \subseteq T,
         SameTokens(q, r, S),
         NEW g, NEW h, IsRead(g, p, s, q, S), IsRead(h, p, s, r, T)
  PROVE  g[S] = h[S]
<1>0. PICK n \in Nat : S \in SUBSET (1 .. n)
  BY DEF Places
<1> DEFINE Bad == {t \in SUBSET S : g[t] # h[t]}
<1>1. IsFiniteSet(S)
  <2>1. IsFiniteSet(1 .. n)
    BY FS_Interval
  <2> QED  BY <1>0, <2>1, FS_Subset
<1>2. SUFFICES ASSUME Bad # {} PROVE FALSE
  OBVIOUS
<1>3. PICK t \in Bad : \A u \in Bad : u \subseteq t => u = t
  <2>1. \A u \in Bad : u \in SUBSET S
    OBVIOUS
  <2> HIDE DEF Bad
  <2> QED  BY <1>1, <1>2, <2>1, LeastSubset
<1> DEFINE m == Max(t)
<1>4. t # {}
  <2>1. {} \in SUBSET S /\ {} \in SUBSET T
    OBVIOUS
  <2>2. g[{}] = s /\ h[{}] = s
    BY <2>1 DEF IsRead
  <2> QED  BY <1>3, <2>2
<1>5. m \in t
  BY <1>0, <1>3, <1>4, MaxIn
<1> HIDE DEF m
<1>6. t \ {m} \in SUBSET S /\ t \ {m} # t /\ t \in SUBSET S /\ t \in SUBSET T
  BY <1>3, <1>5
<1>7. g[t \ {m}] = h[t \ {m}] /\ q[m] = r[m]
  BY <1>3, <1>5, <1>6 DEF SameTokens
<1>8. g[t] = Feed(p, g[t \ {m}], q[m]) /\ h[t] = Feed(p, h[t \ {m}], r[m])
  BY <1>4, <1>6 DEF IsRead, m
<1> QED  BY <1>3, <1>7, <1>8

\* There is one for every set of places.
LEMMA ReadExists ==
  ASSUME NEW p, NEW s, NEW q, NEW n \in Nat
  PROVE  \A S \in SUBSET (1 .. n) : \E g : IsRead(g, p, s, q, S)
<1> DEFINE Bad == {t \in SUBSET (1 .. n) : ~\E g : IsRead(g, p, s, q, t)}
<1>1. SUFFICES ASSUME Bad # {} PROVE FALSE
  OBVIOUS
<1>2. PICK T \in Bad : \A u \in Bad : u \subseteq T => u = T
  <2>1. \A u \in Bad : u \in SUBSET (1 .. n)
    OBVIOUS
  <2>2. IsFiniteSet(1 .. n)
    BY FS_Interval
  <2> HIDE DEF Bad
  <2> QED  BY <1>1, <2>1, <2>2, LeastSubset
<1> DEFINE G(t) == CHOOSE g : IsRead(g, p, s, q, t)
           m(t) == Max(t)
           V(t) == IF t = {} THEN s ELSE Feed(p, G(t \ {m(t)})[t \ {m(t)}], q[m(t)])
           h == [t \in SUBSET T |-> V(t)]
<1>3. T \in SUBSET (1 .. n)
  BY <1>2
<1>4. ASSUME NEW t \in SUBSET T, t # T
      PROVE  IsRead(G(t), p, s, q, t)
  BY <1>2, <1>3, <1>4
<1>5. ASSUME NEW t \in SUBSET T, t # {}
      PROVE  m(t) \in t /\ t \ {m(t)} \in SUBSET T /\ t \ {m(t)} # T
  BY <1>3, <1>5, MaxIn
<1>6. ASSUME NEW t \in SUBSET T, t # T
      PROVE  h[t] = G(t)[t]
  <2> DEFINE u == t \ {m(t)}
  <2>1. IsRead(G(t), p, s, q, t)
    BY <1>4, <1>6
  <2>2. h[t] = V(t)
    OBVIOUS
  <2> HIDE DEF G, h
  <2>3. CASE t = {}
    BY <2>1, <2>2, <2>3 DEF IsRead
  <2>4. CASE t # {}
    <3>1. m(t) \in t /\ u \in SUBSET T /\ u # T /\ u \in SUBSET t /\ u \in SUBSET (1 .. n)
      BY <1>3, <1>5, <2>4
    <3>2. IsRead(G(u), p, s, q, u)
      BY <1>4, <3>1
    <3>3. G(u)[u] = G(t)[u]
      <4>1. Places(u) /\ SameTokens(q, q, u) /\ u \subseteq t
        BY <3>1 DEF Places, SameTokens
      <4> DEFINE a == G(u)
                 b == G(t)
      <4>2. IsRead(a, p, s, q, u) /\ IsRead(b, p, s, q, t)
        BY <2>1, <3>2
      <4> HIDE DEF a, b, u
      <4>3. a[u] = b[u]
        <5>1. Places(u) /\ SameTokens(q, q, u) /\ u \subseteq t
          BY <4>1
        <5>2. IsRead(a, p, s, q, u) /\ IsRead(b, p, s, q, t)
          BY <4>2
        <5> HIDE DEF G, m, V, h, Bad
        <5> QED  BY ONLY <5>1, <5>2, ReadUnique
      <4> QED  BY <4>3 DEF a, b
    <3>4. G(t)[t] = Feed(p, G(t)[u], q[m(t)])
      BY <2>1, <2>4 DEF IsRead
    <3> QED  BY <2>2, <2>4, <3>3, <3>4
  <2> QED  BY <2>3, <2>4
<1>7. ASSUME NEW t \in SUBSET T, t # {}
      PROVE  h[t] = Feed(p, h[t \ {m(t)}], q[m(t)])
  <2>1. h[t \ {m(t)}] = G(t \ {m(t)})[t \ {m(t)}]
    BY <1>5, <1>6, <1>7
  <2>2. h[t] = V(t)
    OBVIOUS
  <2> HIDE DEF h, G, m
  <2> QED  BY <1>7, <2>1, <2>2
<1>8. h[{}] = s
  OBVIOUS
<1>9. h = [t \in SUBSET T |-> h[t]]
  OBVIOUS
<1>10. IsRead(h, p, s, q, T)
  <2> HIDE DEF h
  <2>1. \A t \in SUBSET T :
          h[t] = IF t = {} THEN s ELSE Feed(p, h[t \ {Max(t)}], q[Max(t)])
    BY <1>7, <1>8
  <2> QED  BY <1>9, <2>1 DEF IsRead
<1> QED  BY <1>2, <1>10

\* Reading nothing, and one token more.
LEMMA FedNothing ==
  ASSUME NEW p, NEW s
  PROVE  Fed(p, s, << >>) = s
<1> DEFINE g == CHOOSE g : IsRead(g, p, s, << >>, {})
<1>1. IsRead(g, p, s, << >>, {})
  <2>1. {} \in SUBSET (1 .. 0) /\ 0 \in Nat
    OBVIOUS
  <2> QED  BY <2>1, ReadExists
<1>2. DOMAIN << >> = {}
  OBVIOUS
<1>3. g[{}] = s
  <2> HIDE DEF g
  <2> QED  BY <1>1 DEF IsRead
<1> QED  BY <1>2, <1>3, ReadIsChosen

LEMMA FedOneMore ==
  ASSUME NEW p, NEW s, NEW q, NEW r, NEW n \in Nat,
         DOMAIN q = 1 .. n, DOMAIN r = 1 .. (n + 1), \A i \in 1 .. n : r[i] = q[i]
  PROVE  Fed(p, s, r) = Feed(p, Fed(p, s, q), r[n + 1])
<1> DEFINE g == CHOOSE g : IsRead(g, p, s, q, 1 .. n)
           h == CHOOSE h : IsRead(h, p, s, r, 1 .. (n + 1))
<1>1. IsRead(g, p, s, q, 1 .. n) /\ IsRead(h, p, s, r, 1 .. (n + 1))
  <2>1. \E x : IsRead(x, p, s, q, 1 .. n)
    BY ReadExists
  <2>2. \E x : IsRead(x, p, s, r, 1 .. (n + 1))
    <3>1. n + 1 \in Nat
      OBVIOUS
    <3> QED  BY <3>1, ReadExists
  <2> QED  BY <2>1, <2>2
<1>2. Fed(p, s, q) = g[1 .. n] /\ Fed(p, s, r) = h[1 .. (n + 1)]
  BY ReadIsChosen
<1> HIDE DEF g, h
<1>3. Max(1 .. (n + 1)) = n + 1
  <2> DEFINE m == Max(1 .. (n + 1))
  <2>1. n + 1 \in Nat /\ n + 1 \in 1 .. (n + 1)
    OBVIOUS
  <2>2. m \in 1 .. (n + 1) /\ \A y \in 1 .. (n + 1) : m >= y
    BY <2>1, MaxIn
  <2> HIDE DEF m
  <2>3. m = n + 1
    BY <2>1, <2>2
  <2> QED  BY <2>3 DEF m
<1>4. (1 .. (n + 1)) \ {n + 1} = 1 .. n
  OBVIOUS
<1>5. h[1 .. (n + 1)] = Feed(p, h[1 .. n], r[n + 1])
  <2> DEFINE T == 1 .. (n + 1)
  <2>1. T # {}
    <3>1. n + 1 \in T
      OBVIOUS
    <3> QED  BY <3>1
  <2>2. IsRead(h, p, s, r, T) /\ Max(T) = n + 1 /\ T \ {n + 1} = 1 .. n
    BY <1>1, <1>3, <1>4
  <2> HIDE DEF T
  <2>3. h[T] = Feed(p, h[T \ {Max(T)}], r[Max(T)])
    BY <2>1, <2>2 DEF IsRead
  <2>4. h[T] = Feed(p, h[1 .. n], r[n + 1])
    BY <2>2, <2>3
  <2> QED  BY <2>4 DEF T
<1>6. g[1 .. n] = h[1 .. n]
  <2> DEFINE S == 1 .. n
             T == 1 .. (n + 1)
  <2>1. Places(S) /\ S \subseteq T /\ SameTokens(q, r, S)
    <3>1. S \in SUBSET (1 .. n)
      OBVIOUS
    <3>2. Places(S)
      <4> HIDE DEF S
      <4> QED  BY <3>1 DEF Places
    <3> QED  BY <3>2 DEF SameTokens
  <2>2. IsRead(g, p, s, q, S) /\ IsRead(h, p, s, r, T)
    BY <1>1
  <2> HIDE DEF S, T
  <2>3. g[S] = h[S]
    BY <2>1, <2>2, ReadUnique
  <2> QED  BY <2>3 DEF S
<1> QED  BY <1>2, <1>5, <1>6

-----------------------------------------------------------------------------
(* A stream meters like a body. *)

\* What the reader has learned, and its line.
IsReader(s) == s = [buf |-> s.buf, usage |-> s.usage, model |-> s.model, got |-> s.got]
Meter(s) == [usage |-> s.usage, got |-> s.got]
Told(p, q, k) == Extract(p, Blocks(p, SubSeq(q, 1, k)))

\* A stream as StreamAssumption has it.
IsStream(p, q) ==
  /\ q \in Seq(Range(q))
  /\ \A i \in DOMAIN q : q[i][1] = "head" =>
       /\ i > 1 => q[i - 1] = NL
       /\ i < Len(q) => q[i + 1] = <<"tail", q[i][2]>>
       /\ i + 1 < Len(q) => q[i + 2] = NL
       /\ q[i][2].top \in Block /\ q[i][2].message \in Block
       /\ p = "anthropic" /\ q[i][2].message # NoBlock =>
            q[i][2].message.input > 0 \/ q[i][2].message.read > 0

\* After k tokens the reader's line is what came since the last newline, or what
\* is left of a line too long for it, and then no frame begins in either.
OnLine(buf, q, k) ==
  /\ buf \in Seq(Range(q))
  /\ \E a \in 0 .. k :
       /\ a > 0 => q[a] = NL
       /\ \A i \in (a + 1) .. k : q[i] # NL
       /\ \/ buf = SubSeq(q, a + 1, k)
          \/ k - a > BufLimit /\ \A i \in DOMAIN buf : buf[i][1] # "head"

Reads(p, q, k, s) == IsReader(s) /\ OnLine(s.buf, q, k) /\ Meter(s) = Told(p, q, k)

\* The frames whose lines are complete after k tokens.
Heads(q, k) == {i \in 1 .. (k - 2) : q[i][1] = "head"}
Starts(q, k) == {i \in Heads(q, k) : q[i][2].message # NoBlock}
Deltas(q, k) == {i \in Heads(q, k) : q[i][2].top.output > 0}
Totals(p, q, k) == {i \in Heads(q, k) : Metered(p, q[i][2].top)}

\* What they tell, per provider.
LEMMA ToldTotals ==
  ASSUME NEW p, p # "anthropic", NEW q, IsStream(p, q), NEW k \in 0 .. Len(q)
  PROVE  Told(p, q, k) = IF Totals(p, q, k) = {} THEN [usage |-> NoTokens, got |-> FALSE]
                         ELSE [usage |-> Normal(p, q[Max(Totals(p, q, k))][2].top), got |-> TRUE]
<1> DEFINE u == SubSeq(q, 1, k)
           frames == {i \in 1 .. Len(u) - 2 : u[i][1] = "head"}
           blocks == [i \in DOMAIN u |-> IF i \in frames THEN u[i][2].top ELSE NoBlock]
           said == {i \in DOMAIN blocks : Metered(p, blocks[i])}
<1>1. Len(u) = k /\ DOMAIN u = 1 .. k /\ \A i \in 1 .. k : u[i] = q[i]
  BY DEF IsStream
<1>2. frames = Heads(q, k)
  <2> HIDE DEF u
  <2> QED  BY <1>1 DEF Heads
<1>3. ~Metered(p, NoBlock)
  BY DEF Metered, NoBlock
<1>4. \A i \in DOMAIN u : i \in Heads(q, k) => u[i][2].top = q[i][2].top
  BY <1>1
<1>5. said = Totals(p, q, k) /\ \A i \in said : blocks[i] = q[i][2].top
  <2>1. Heads(q, k) \subseteq DOMAIN u
    <3> HIDE DEF u
    <3> QED  BY <1>1 DEF Heads
  <2> HIDE DEF u
  <2> QED  BY <1>2, <1>3, <1>4, <2>1 DEF Totals
<1>6. Told(p, q, k) = Extract(p, blocks)
  BY DEF Told, Blocks
<1> HIDE DEF blocks
<1>7. Extract(p, blocks) = IF said = {} THEN [usage |-> NoTokens, got |-> FALSE]
                           ELSE [usage |-> Normal(p, blocks[Max(said)]), got |-> TRUE]
  BY DEF Extract
<1>8. said # {} => Max(said) \in said
  <2>1. said \in SUBSET (1 .. k)
    <3> HIDE DEF said
    <3> QED  BY <1>5 DEF Totals, Heads
  <2>2. k \in Nat
    BY DEF IsStream
  <2> HIDE DEF said
  <2> QED  BY <2>1, <2>2, MaxIn
<1> HIDE DEF said
<1> QED  BY <1>5, <1>6, <1>7, <1>8

LEMMA ToldMerge ==
  ASSUME NEW p, p = "anthropic", NEW q, IsStream(p, q), NEW k \in 0 .. Len(q)
  PROVE  LET S == Starts(q, k)
             D == Deltas(q, k)
             o == IF D = {} THEN 0 ELSE q[Max(D)][2].top.output
         IN  Told(p, q, k) =
               [usage |-> [(IF S = {} THEN NoTokens ELSE Normal(p, q[Max(S)][2].message))
                              EXCEPT !.output = o],
                got |-> S # {} \/ D # {}]
<1> DEFINE u == SubSeq(q, 1, k)
           S == Starts(q, k)
           D == Deltas(q, k)
           o == IF D = {} THEN 0 ELSE q[Max(D)][2].top.output
           start == IF S = {} THEN NoBlock ELSE q[Max(S)][2].message
           b == [start EXCEPT !.output = o]
           frames == {i \in 1 .. Len(u) - 2 : u[i][1] = "head"}
           starts == {i \in frames : u[i][2].message # NoBlock}
           deltas == {i \in frames : u[i][2].top.output > 0}
           start_ == IF starts = {} THEN NoBlock ELSE u[Max(starts)][2].message
           o_ == IF deltas = {} THEN 0 ELSE u[Max(deltas)][2].top.output
<1>1. /\ Len(u) = k /\ DOMAIN u = 1 .. k /\ \A i \in 1 .. k : u[i] = q[i]
      /\ k \in Nat /\ DOMAIN q = 1 .. Len(q)
  BY DEF IsStream
<1>2. frames = Heads(q, k) /\ Heads(q, k) \in SUBSET (1 .. k)
  <2> HIDE DEF u
  <2> QED  BY <1>1 DEF Heads
<1>3. starts = S /\ deltas = D /\ S \in SUBSET (1 .. k) /\ D \in SUBSET (1 .. k)
  <2> HIDE DEF u, frames
  <2> QED  BY <1>1, <1>2 DEF Starts, Deltas
<1>4. (S # {} => Max(S) \in S) /\ (D # {} => Max(D) \in D)
  <2> HIDE DEF S, D
  <2> QED  BY <1>1, <1>3, MaxIn
<1>5. start_ = start /\ o_ = o
  <2> HIDE DEF u, starts, deltas, S, D
  <2> QED  BY <1>1, <1>3, <1>4
<1>6. Told(p, q, k) = Extract(p, <<b>>)
  <2>1. Told(p, q, k) = Extract(p, << [start_ EXCEPT !.output = o_] >>)
    BY DEF Told, Blocks
  <2> HIDE DEF start_, o_, start, o
  <2> QED  BY <1>5, <2>1
<1>7. /\ start \in Block /\ o \in Nat
      /\ S = {} => start = NoBlock
      /\ S # {} => start.input > 0 \/ start.read > 0
      /\ D = {} => o = 0
      /\ D # {} => o > 0
  <2>1. ASSUME NEW i \in Heads(q, k)
        PROVE  /\ q[i][2].top \in Block /\ q[i][2].message \in Block
               /\ q[i][2].message # NoBlock => q[i][2].message.input > 0 \/ q[i][2].message.read > 0
    BY <1>1, <1>2 DEF IsStream, Heads
  <2>2. /\ S # {} => Max(S) \in Heads(q, k) /\ q[Max(S)][2].message # NoBlock
        /\ D # {} => Max(D) \in Heads(q, k) /\ q[Max(D)][2].top.output > 0
    BY <1>4 DEF Starts, Deltas
  <2>3. NoBlock \in Block
    BY DEF NoBlock, Block
  <2> HIDE DEF S, D
  <2>4. start \in Block
    BY <2>1, <2>2, <2>3
  <2>5. o \in Nat
    BY <2>1, <2>2 DEF Block
  <2> QED  BY <2>1, <2>2, <2>4, <2>5
<1> HIDE DEF S, D, o, start
<1>8. b \in Block /\ b.output = o /\ b.input = start.input /\ b.read = start.read
      /\ b.w5 = start.w5 /\ b.w1 = start.w1 /\ b.wAll = start.wAll
  BY <1>7 DEF Block
<1>9. Metered(p, b) <=> (S # {} \/ D # {})
  <2> HIDE DEF b
  <2>1. start \in Block => start.input \in Nat /\ start.read \in Nat
    BY DEF Block
  <2> QED  BY <1>7, <1>8, <2>1 DEF Metered, NoBlock
<1>10. Normal(p, b) = [(IF S = {} THEN NoTokens ELSE Normal(p, start)) EXCEPT !.output = o]
  <2> HIDE DEF b
  <2>1. CASE S = {}
    BY <1>7, <1>8, <2>1 DEF Normal, Writes, NoBlock, NoTokens
  <2>2. CASE S # {}
    BY <1>8, <2>2 DEF Normal, Writes
  <2> QED  BY <2>1, <2>2
<1>11. Extract(p, <<b>>) = IF Metered(p, b) THEN [usage |-> Normal(p, b), got |-> TRUE]
                           ELSE [usage |-> NoTokens, got |-> FALSE]
  <2> HIDE DEF b
  <2> DEFINE said == {i \in DOMAIN <<b>> : Metered(p, (<<b>>)[i])}
  <2>1. said = IF Metered(p, b) THEN {1} ELSE {}
    OBVIOUS
  <2>2. Max({1}) = 1
    <3>1. {1} \in SUBSET (1 .. 1) /\ 1 \in Nat /\ {1} # {}
      OBVIOUS
    <3>2. Max({1}) \in {1}
      BY <3>1, MaxIn
    <3> QED  BY <3>2
  <2>3. Extract(p, <<b>>) = IF said = {} THEN [usage |-> NoTokens, got |-> FALSE]
                            ELSE [usage |-> Normal(p, (<<b>>)[Max(said)]), got |-> TRUE]
    BY DEF Extract
  <2>4. (<<b>>)[1] = b
    OBVIOUS
  <2> HIDE DEF said
  <2>5. CASE Metered(p, b)
    <3>1. said = {1} /\ said # {}
      BY <2>1, <2>5
    <3>2. (<<b>>)[Max(said)] = b
      BY <2>2, <2>4, <3>1
    <3> QED  BY <2>3, <2>5, <3>1, <3>2
  <2>6. CASE ~Metered(p, b)
    BY <2>1, <2>3, <2>6
  <2> QED  BY <2>5, <2>6
<1>12. S = {} /\ D = {} => [NoTokens EXCEPT !.output = o] = NoTokens
  BY <1>7 DEF NoTokens
<1>13. Told(p, q, k) =
         [usage |-> [(IF S = {} THEN NoTokens ELSE Normal(p, start)) EXCEPT !.output = o],
          got |-> S # {} \/ D # {}]
  <2> HIDE DEF b
  <2>1. CASE S # {} \/ D # {}
    BY <1>6, <1>9, <1>10, <1>11, <2>1
  <2>2. CASE S = {} /\ D = {}
    BY <1>6, <1>9, <1>11, <1>12, <2>2
  <2> QED  BY <2>1, <2>2
<1>14. S # {} => start = q[Max(S)][2].message
  BY DEF start
<1>15. (IF S = {} THEN NoTokens ELSE Normal(p, start))
         = (IF S = {} THEN NoTokens ELSE Normal(p, q[Max(S)][2].message))
  BY <1>14
<1> QED  BY <1>13, <1>15 DEF S, D, o

\* One token more: a newline after a frame adds it, any other adds nothing.
LEMMA HeadsGrow ==
  ASSUME NEW p, NEW q, IsStream(p, q), NEW k \in Nat, k < Len(q)
  PROVE  /\ k > 0 /\ k - 1 \in DOMAIN q /\ q[k - 1][1] = "head" =>
              q[k + 1] = NL /\ Heads(q, k + 1) = Heads(q, k) \cup {k - 1}
         /\ ~(k > 1 /\ q[k - 1][1] = "head") => Heads(q, k + 1) = Heads(q, k)
<1>1. Len(q) \in Nat /\ DOMAIN q = 1 .. Len(q)
  BY DEF IsStream
<1>2. ASSUME k > 0, k - 1 \in DOMAIN q, q[k - 1][1] = "head"
      PROVE  q[k + 1] = NL
  <2>1. (k - 1) + 1 < Len(q) /\ (k - 1) + 2 = k + 1
    BY <1>1
  <2> QED  BY <1>2, <2>1 DEF IsStream
<1> QED  BY <1>1, <1>2 DEF Heads

LEMMA ToldSame ==
  ASSUME NEW p, NEW q, IsStream(p, q), NEW k \in Nat, k < Len(q),
         Heads(q, k + 1) = Heads(q, k)
  PROVE  Told(p, q, k + 1) = Told(p, q, k)
<1>1. k \in 0 .. Len(q) /\ k + 1 \in 0 .. Len(q)
  BY DEF IsStream
<1>2. /\ Totals(p, q, k + 1) = Totals(p, q, k)
      /\ Starts(q, k + 1) = Starts(q, k) /\ Deltas(q, k + 1) = Deltas(q, k)
  BY DEF Totals, Starts, Deltas
<1>3. CASE p # "anthropic"
  BY <1>1, <1>2, <1>3, ToldTotals
<1>4. CASE p = "anthropic"
  BY <1>1, <1>2, <1>4, ToldMerge
<1> QED  BY <1>3, <1>4

\* The frame that has come last is the one that counts.
LEMMA MaxNew ==
  ASSUME NEW k \in Nat, k > 1, NEW S \in SUBSET (1 .. (k - 2))
  PROVE  S \cup {k - 1} # {} /\ Max(S \cup {k - 1}) = k - 1
<1> DEFINE T == S \cup {k - 1}
<1>1. T \in SUBSET (1 .. k) /\ k - 1 \in T /\ T # {}
  OBVIOUS
<1>2. Max(T) \in T /\ \A y \in T : Max(T) >= y
  <2> HIDE DEF T
  <2> QED  BY <1>1, MaxIn
<1> DEFINE m == Max(T)
<1>3. m \in T /\ m >= k - 1
  BY <1>1, <1>2
<1> HIDE DEF m
<1>4. m = k - 1
  BY <1>3
<1> QED  BY <1>1, <1>4 DEF m

\* What a frame adds to what the reader has learned.
LEMMA ConsumeTotals ==
  ASSUME NEW p, p # "anthropic", NEW s, IsReader(s), NEW line, IsFrame(line)
  PROVE  LET f == line[1][2]
             r == Consume(p, s, line)
         IN  /\ IsReader(r) /\ r.buf = s.buf
             /\ Meter(r) = IF f.top.input > 0 \/ f.top.output > 0
                           THEN [usage |-> Normal(p, f.top), got |-> TRUE] ELSE Meter(s)
<1> DEFINE f == line[1][2]
           t == IF f.model = NoModel THEN s ELSE [s EXCEPT !.model = f.model]
<1>1. IsReader(t) /\ t.buf = s.buf /\ Meter(t) = Meter(s)
  BY DEF IsReader, Meter
<1>2. Consume(p, s, line) = MergeTotals(p, t, f)
  BY DEF Consume
<1> HIDE DEF t, f
<1>3. LET r == MergeTotals(p, t, f)
      IN  /\ IsReader(r) /\ r.buf = t.buf
          /\ Meter(r) = IF f.top.input > 0 \/ f.top.output > 0
                        THEN [usage |-> Normal(p, f.top), got |-> TRUE] ELSE Meter(t)
  BY <1>1 DEF IsReader, Meter, MergeTotals
<1> QED  BY <1>1, <1>2, <1>3 DEF f

IsUsage(u) ==
  u = [input |-> u.input, output |-> u.output, read |-> u.read, w5 |-> u.w5, w1 |-> u.w1]
Starting(f) == f.message.input > 0 \/ f.message.read > 0 \/ f.message.wAll > 0

LEMMA ConsumeMerge ==
  ASSUME NEW p, p = "anthropic", NEW s, IsReader(s), IsUsage(s.usage),
         s.got \in BOOLEAN, NEW line, IsFrame(line)
  PROVE  LET f == line[1][2]
             r == Consume(p, s, line)
         IN  /\ IsReader(r) /\ r.buf = s.buf
             /\ Meter(r) =
                  [usage |-> [(IF Starting(f) THEN Normal(p, f.message) ELSE s.usage)
                                EXCEPT !.output = IF f.top.output > 0 THEN f.top.output
                                                  ELSE s.usage.output],
                   got |-> s.got \/ Starting(f) \/ f.top.output > 0]
<1> DEFINE f == line[1][2]
           t == IF f.model = NoModel THEN s ELSE [s EXCEPT !.model = f.model]
           a == MergeStart(t, f)
           r == MergeDelta(a, f)
           u == IF Starting(f) THEN [Normal(p, f.message) EXCEPT !.output = s.usage.output]
                ELSE s.usage
           out == IF f.top.output > 0 THEN f.top.output ELSE s.usage.output
<1>1. IsReader(t) /\ t.buf = s.buf /\ t.usage = s.usage /\ t.got = s.got
  BY DEF IsReader
<1>2. Consume(p, s, line) = r
  BY DEF Consume
<1> HIDE DEF t, f
<1>3. IsReader(a) /\ a.buf = s.buf /\ a.usage = u /\ a.got = (s.got \/ Starting(f))
  <2>1. f.message.input > 0 \/ f.message.read > 0 \/ f.message.wAll > 0 <=> Starting(f)
    BY DEF Starting
  <2>2. CASE Starting(f)
    BY <1>1, <2>1, <2>2 DEF IsReader, MergeStart
  <2>3. CASE ~Starting(f)
    BY <1>1, <2>1, <2>3 DEF IsReader, MergeStart
  <2> QED  BY <2>2, <2>3
<1>4. IsUsage(u) /\ u.output = s.usage.output
  BY DEF IsUsage, Normal
<1> HIDE DEF a
<1>5. /\ IsReader(r) /\ r.buf = s.buf /\ r.usage = [u EXCEPT !.output = out]
      /\ r.got = (s.got \/ Starting(f) \/ f.top.output > 0)
  <2> HIDE DEF u
  <2>1. CASE f.top.output > 0
    BY <1>3, <2>1 DEF IsReader, MergeDelta
  <2>2. CASE ~(f.top.output > 0)
    <3>1. r = a
      BY <2>2 DEF MergeDelta
    <3>2. [u EXCEPT !.output = out] = u
      BY <1>4, <2>2 DEF IsUsage
    <3> QED  BY <1>3, <2>2, <3>1, <3>2
  <2> QED  BY <2>1, <2>2
<1>6. [u EXCEPT !.output = out]
        = [(IF Starting(f) THEN Normal(p, f.message) ELSE s.usage) EXCEPT !.output = out]
  <2> HIDE DEF out
  <2> QED  BY DEF IsUsage, Normal
<1> HIDE DEF r, u
<1> QED  BY <1>2, <1>5, <1>6 DEF f, Meter

LEMMA MeterGrows ==
  ASSUME NEW p, NEW q, IsStream(p, q), NEW k \in Nat, k > 1, k < Len(q),
         q[k - 1][1] = "head", NEW s, IsReader(s), Meter(s) = Told(p, q, k),
         NEW line, IsFrame(line), line[1] = q[k - 1]
  PROVE  LET r == Consume(p, s, line)
         IN  IsReader(r) /\ r.buf = s.buf /\ Meter(r) = Told(p, q, k + 1)
<1> DEFINE f == q[k - 1][2]
<1>1. /\ Heads(q, k + 1) = Heads(q, k) \cup {k - 1} /\ Heads(q, k) \in SUBSET (1 .. (k - 2))
      /\ k \in 0 .. Len(q) /\ k + 1 \in 0 .. Len(q) /\ k - 1 \in DOMAIN q
  <2>1. Len(q) \in Nat /\ DOMAIN q = 1 .. Len(q)
    BY DEF IsStream
  <2> QED  BY <2>1, HeadsGrow DEF Heads
<1>2. f.top \in Block /\ f.message \in Block
  BY <1>1 DEF IsStream
<1>3. CASE p # "anthropic"
  <2> DEFINE S == Totals(p, q, k)
  <2>1. Metered(p, f.top) <=> f.top.input > 0 \/ f.top.output > 0
    <3> HIDE DEF f
    <3>1. f.top.input \in Nat /\ f.top.output \in Nat
      BY <1>2 DEF Block
    <3>2. Metered(p, f.top) <=> f.top.input # 0 \/ f.top.output # 0
      BY <1>3 DEF Metered
    <3> QED  BY <3>1, <3>2
  <2>2. Totals(p, q, k + 1) = IF Metered(p, f.top) THEN S \cup {k - 1} ELSE S
    BY <1>1 DEF Totals
  <2>3. S \in SUBSET (1 .. (k - 2))
    BY <1>1 DEF Totals
  <2>4. S \cup {k - 1} # {} /\ Max(S \cup {k - 1}) = k - 1
    <3> HIDE DEF S
    <3> QED  BY <2>3, MaxNew
  <2>5. /\ IsReader(Consume(p, s, line)) /\ Consume(p, s, line).buf = s.buf
        /\ Meter(Consume(p, s, line)) = IF Metered(p, f.top)
                                        THEN [usage |-> Normal(p, f.top), got |-> TRUE]
                                        ELSE Meter(s)
    <3> HIDE DEF f
    <3>1. line[1][2] = f
      BY DEF f
    <3> QED  BY <1>3, <2>1, <3>1, ConsumeTotals
  <2>6. Told(p, q, k + 1) = IF Metered(p, f.top)
                            THEN [usage |-> Normal(p, f.top), got |-> TRUE]
                            ELSE Told(p, q, k)
    <3>1. Told(p, q, k + 1) = IF Totals(p, q, k + 1) = {} THEN [usage |-> NoTokens, got |-> FALSE]
             ELSE [usage |-> Normal(p, q[Max(Totals(p, q, k + 1))][2].top), got |-> TRUE]
      BY <1>1, <1>3, ToldTotals
    <3>2. Told(p, q, k) = IF S = {} THEN [usage |-> NoTokens, got |-> FALSE]
             ELSE [usage |-> Normal(p, q[Max(S)][2].top), got |-> TRUE]
      BY <1>1, <1>3, ToldTotals
    <3> HIDE DEF S
    <3> QED  BY <2>2, <2>4, <3>1, <3>2
  <2> HIDE DEF f
  <2> QED  BY <2>5, <2>6
<1>4. CASE p = "anthropic"
  <2> DEFINE S == Starts(q, k)
             D == Deltas(q, k)
             St == Starts(q, k + 1)
             Dt == Deltas(q, k + 1)
             base == IF S = {} THEN NoTokens ELSE Normal(p, q[Max(S)][2].message)
             o == IF D = {} THEN 0 ELSE q[Max(D)][2].top.output
  <2>1. Starting(f) <=> f.message # NoBlock
    <3>1. f.message # NoBlock => f.message.input > 0 \/ f.message.read > 0
      BY <1>1, <1>4 DEF IsStream
    <3> QED  BY <3>1 DEF Starting, NoBlock
  <2>2. St = IF Starting(f) THEN S \cup {k - 1} ELSE S
    BY <1>1, <2>1 DEF Starts
  <2>3. Dt = IF f.top.output > 0 THEN D \cup {k - 1} ELSE D
    BY <1>1 DEF Deltas
  <2>4. S \in SUBSET (1 .. (k - 2)) /\ D \in SUBSET (1 .. (k - 2))
    BY <1>1 DEF Starts, Deltas
  <2>5. /\ S \cup {k - 1} # {} /\ Max(S \cup {k - 1}) = k - 1
        /\ D \cup {k - 1} # {} /\ Max(D \cup {k - 1}) = k - 1
    <3> HIDE DEF S, D
    <3> QED  BY <2>4, MaxNew
  <2>6. Told(p, q, k) = [usage |-> [base EXCEPT !.output = o], got |-> S # {} \/ D # {}]
    BY <1>1, <1>4, ToldMerge
  <2>7. Told(p, q, k + 1) =
          [usage |-> [(IF St = {} THEN NoTokens ELSE Normal(p, q[Max(St)][2].message))
                        EXCEPT !.output = IF Dt = {} THEN 0 ELSE q[Max(Dt)][2].top.output],
           got |-> St # {} \/ Dt # {}]
    BY <1>1, <1>4, ToldMerge
  <2>8. s.usage = [base EXCEPT !.output = o] /\ s.got = (S # {} \/ D # {})
    BY <2>6 DEF Meter
  <2>9. IsUsage(s.usage) /\ s.usage.output = o /\ s.got \in BOOLEAN
    <3>1. IsUsage(base) /\ DOMAIN base = {"input", "output", "read", "w5", "w1"}
      BY DEF IsUsage, NoTokens, Normal
    <3> HIDE DEF base, o, S, D
    <3> QED  BY <2>8, <3>1 DEF IsUsage
  <2>10. /\ IsReader(Consume(p, s, line)) /\ Consume(p, s, line).buf = s.buf
         /\ Meter(Consume(p, s, line)) =
              [usage |-> [(IF Starting(f) THEN Normal(p, f.message) ELSE s.usage)
                            EXCEPT !.output = IF f.top.output > 0 THEN f.top.output
                                              ELSE s.usage.output],
               got |-> s.got \/ Starting(f) \/ f.top.output > 0]
    <3> HIDE DEF f
    <3>1. line[1][2] = f
      BY DEF f
    <3> QED  BY <1>4, <2>9, <3>1, ConsumeMerge
  <2>11. (IF Dt = {} THEN 0 ELSE q[Max(Dt)][2].top.output)
            = IF f.top.output > 0 THEN f.top.output ELSE s.usage.output
    <3> HIDE DEF D, Dt
    <3> QED  BY <2>3, <2>5, <2>9
  <2> DEFINE out == IF f.top.output > 0 THEN f.top.output ELSE s.usage.output
  <2>12. [(IF St = {} THEN NoTokens ELSE Normal(p, q[Max(St)][2].message)) EXCEPT !.output = out]
           = [(IF Starting(f) THEN Normal(p, f.message) ELSE s.usage) EXCEPT !.output = out]
    <3>1. CASE Starting(f)
      <4> HIDE DEF out, S, St
      <4> QED  BY <2>2, <2>5, <3>1
    <3>2. CASE ~Starting(f)
      <4>1. [base EXCEPT !.output = out] = [s.usage EXCEPT !.output = out]
        <5>1. IsUsage(base)
          BY DEF IsUsage, NoTokens, Normal
        <5> HIDE DEF out, o, base
        <5> QED  BY <2>8, <5>1 DEF IsUsage
      <4> HIDE DEF out, S, St
      <4> QED  BY <2>2, <3>2, <4>1
    <3> QED  BY <3>1, <3>2
  <2>13. (St # {} \/ Dt # {}) = (s.got \/ Starting(f) \/ f.top.output > 0)
    <3> HIDE DEF S, St, D, Dt, f
    <3> QED  BY <2>2, <2>3, <2>5, <2>8
  <2> HIDE DEF St, Dt, f
  <2> QED  BY <2>7, <2>10, <2>11, <2>12, <2>13
<1> QED  BY <1>3, <1>4

\* One token of a stream.
LEMMA FeedReads ==
  ASSUME NEW p, NEW q, IsStream(p, q), NEW k \in Nat, k < Len(q),
         BufLimit \in Nat, BufLimit >= 2, NEW s, Reads(p, q, k, s)
  PROVE  Reads(p, q, k + 1, Feed(p, s, q[k + 1]))
<1> DEFINE t == q[k + 1]
           r == Feed(p, s, t)
<1>1. /\ IsReader(s) /\ s.buf \in Seq(Range(q)) /\ Meter(s) = Told(p, q, k)
      /\ Len(q) \in Nat /\ DOMAIN q = 1 .. Len(q)
  BY DEF Reads, OnLine, IsStream
<1>2. PICK a \in 0 .. k :
        /\ a > 0 => q[a] = NL
        /\ \A i \in (a + 1) .. k : q[i] # NL
        /\ \/ s.buf = SubSeq(q, a + 1, k)
           \/ k - a > BufLimit /\ \A i \in DOMAIN s.buf : s.buf[i][1] # "head"
  BY DEF Reads, OnLine
<1>3. \A i \in DOMAIN q : q[i][1] = "head" =>
        /\ i > 1 => q[i - 1] = NL
        /\ i < Len(q) => q[i + 1] = <<"tail", q[i][2]>>
        /\ i + 1 < Len(q) => q[i + 2] = NL
        /\ q[i] # NL /\ <<"tail", q[i][2]>> # NL
  <2>1. NL[1] = "newline" /\ \A f : (<<"tail", f>>)[1] = "tail"
    BY DEF NL
  <2> QED  BY <2>1 DEF IsStream
<1>4. t \in Range(q) /\ k + 1 \in DOMAIN q
  BY <1>1 DEF Range
<1>5. SubSeq(q, a + 1, k) \in Seq(Range(q)) /\ Len(SubSeq(q, a + 1, k)) = k - a
      /\ \A i \in 1 .. (k - a) : SubSeq(q, a + 1, k)[i] = q[a + i]
  BY <1>1 DEF IsStream
<1>6. CASE t # NL
  <2>1. r = [s EXCEPT !.buf = Append(@, t)]
    BY <1>6 DEF Feed
  <2>2. IsReader(r) /\ r.buf = Append(s.buf, t) /\ Meter(r) = Meter(s)
    BY <1>1, <2>1 DEF IsReader, Meter
  <2>3. Told(p, q, k + 1) = Told(p, q, k)
    <3>1. ~(k > 1 /\ q[k - 1][1] = "head")
      <4>1. k > 1 => k - 1 \in DOMAIN q /\ (k - 1) + 1 < Len(q) /\ (k - 1) + 2 = k + 1
        BY <1>1
      <4> QED  BY <1>3, <1>6, <4>1
    <3> QED  BY <3>1, HeadsGrow, ToldSame
  <2>4. OnLine(r.buf, q, k + 1)
    <3>1. r.buf \in Seq(Range(q))
      BY <1>1, <1>4, <2>2
    <3>2. a \in 0 .. (k + 1) /\ (a > 0 => q[a] = NL) /\ \A i \in (a + 1) .. (k + 1) : q[i] # NL
      BY <1>2, <1>6
    <3>3. CASE s.buf = SubSeq(q, a + 1, k)
      <4>1. SubSeq(q, a + 1, k + 1) = Append(SubSeq(q, a + 1, k), q[k + 1])
        BY <1>1 DEF IsStream
      <4>2. r.buf = SubSeq(q, a + 1, k + 1)
        BY <2>2, <3>3, <4>1
      <4> QED  BY <3>1, <3>2, <4>2 DEF OnLine
    <3>4. CASE k - a > BufLimit /\ \A i \in DOMAIN s.buf : s.buf[i][1] # "head"
      <4>1. t[1] # "head"
        <5>1. k \in (a + 1) .. k /\ k + 1 > 1 /\ (k + 1) - 1 = k
          BY <3>4
        <5>2. q[k] # NL
          BY <1>2, <5>1
        <5> QED  BY <1>3, <1>4, <5>1, <5>2
      <4>2. \A i \in DOMAIN r.buf : r.buf[i][1] # "head"
        BY <1>1, <1>4, <2>2, <3>4, <4>1
      <4>3. (k + 1) - a > BufLimit
        BY <3>4
      <4> QED  BY <3>1, <3>2, <4>2, <4>3 DEF OnLine
    <3> QED  BY <1>2, <3>3, <3>4
  <2> QED  BY <1>1, <2>2, <2>3, <2>4 DEF Reads
<1>7. CASE t = NL
  <2> DEFINE c == Consume(p, s, s.buf)
  <2>1. r = [c EXCEPT !.buf = << >>]
    BY <1>7 DEF Feed
  <2>2. ASSUME IsReader(c), Meter(c) = Told(p, q, k + 1)
        PROVE  Reads(p, q, k + 1, r)
    <3> HIDE DEF c
    <3>1. IsReader(r) /\ r.buf = << >> /\ Meter(r) = Meter(c)
      BY <2>1, <2>2 DEF IsReader, Meter
    <3>2. SubSeq(q, (k + 1) + 1, k + 1) = << >> /\ << >> \in Seq(Range(q))
      BY <1>1 DEF IsStream
    <3>3. k + 1 \in 0 .. (k + 1) /\ \A i \in ((k + 1) + 1) .. (k + 1) : q[i] # NL
      OBVIOUS
    <3>4. OnLine(<< >>, q, k + 1)
      BY <1>7, <3>2, <3>3 DEF OnLine
    <3> QED  BY <2>2, <3>1, <3>4 DEF Reads
  <2>3. CASE IsFrame(s.buf)
    <3>1. Len(s.buf) = 2 /\ s.buf[1][1] = "head" /\ 1 \in DOMAIN s.buf
      BY <1>1, <2>3 DEF IsFrame
    <3>2. s.buf = SubSeq(q, a + 1, k)
      BY <1>2, <3>1
    <3>3. k - a = 2 /\ s.buf[1] = q[a + 1]
      BY <1>5, <3>1, <3>2
    <3>4. k > 1 /\ s.buf[1] = q[k - 1]
      BY <1>2, <3>3
    <3> QED  BY <1>1, <2>2, <2>3, <3>1, <3>4, MeterGrows
  <2>4. CASE ~IsFrame(s.buf)
    <3>1. c = s
      BY <2>4 DEF Consume
    <3>2. ~(k > 1 /\ q[k - 1][1] = "head")
      <4>1. SUFFICES ASSUME k > 1, q[k - 1][1] = "head" PROVE FALSE
        OBVIOUS
      <4>2. k - 1 \in DOMAIN q /\ k - 1 < Len(q) /\ (k - 1) + 1 = k
        BY <1>1, <4>1
      <4>3. /\ q[k] = <<"tail", q[k - 1][2]>> /\ q[k] # NL /\ q[k - 1] # NL
            /\ k - 1 > 1 => q[k - 2] = NL
        <5> DEFINE i == k - 1
        <5>1. i \in DOMAIN q /\ q[i][1] = "head" /\ i < Len(q) /\ i + 1 = k /\ i - 1 = k - 2
          BY <4>1, <4>2
        <5> HIDE DEF i
        <5>2. /\ q[k] = <<"tail", q[i][2]>> /\ q[i] # NL /\ <<"tail", q[i][2]>> # NL
              /\ i > 1 => q[k - 2] = NL
          BY <1>3, <5>1
        <5>3. q[k] # NL
          BY <5>2
        <5> QED  BY <5>2, <5>3 DEF i
      <4>4. a = k - 2
        <5>0. a \in 0 .. k /\ (a > 0 => q[a] = NL)
          BY <1>2
        <5>1. a # k
          <6>1. q[k] # NL /\ k > 0
            BY <4>1, <4>3
          <6> QED  BY <5>0, <6>1
        <5>2. a # k - 1
          <6>1. q[k - 1] # NL /\ k - 1 > 0
            BY <4>1, <4>3
          <6> QED  BY <5>0, <6>1
        <5>3. CASE k - 1 > 1
          <6>1. k - 2 \notin (a + 1) .. k
            BY <1>2, <4>3, <5>3
          <6> QED  BY <5>1, <5>2, <5>3, <6>1
        <5>4. CASE ~(k - 1 > 1)
          BY <4>1, <5>1, <5>2, <5>4
        <5> QED  BY <5>3, <5>4
      <4>5. s.buf = SubSeq(q, a + 1, k)
        BY <1>2, <4>4
      <4>6. Len(s.buf) = 2 /\ s.buf[1] = q[k - 1] /\ s.buf[2] = q[k]
        BY <1>5, <4>4, <4>5
      <4> QED  BY <2>4, <4>1, <4>3, <4>6 DEF IsFrame
    <3>3. Told(p, q, k + 1) = Told(p, q, k)
      BY <3>2, HeadsGrow, ToldSame
    <3> QED  BY <1>1, <2>2, <3>1, <3>3
  <2> QED  BY <2>3, <2>4
<1> QED  BY <1>6, <1>7

\* Any number of them, and the check for an overlong line at the end of a write.
LEMMA FedReads ==
  ASSUME NEW p, NEW q, IsStream(p, q), NEW k \in Nat, BufLimit \in Nat, BufLimit >= 2,
         NEW s, Reads(p, q, k, s)
  PROVE  \A n \in Nat : k + n <= Len(q) =>
           Reads(p, q, k + n, Fed(p, s, SubSeq(q, k + 1, k + n)))
<1> DEFINE piece(n) == SubSeq(q, k + 1, k + n)
           Good(n) == Reads(p, q, k + n, Fed(p, s, piece(n)))
           Bad == {n \in Nat : k + n <= Len(q) /\ ~Good(n)}
<1>1. Len(q) \in Nat /\ DOMAIN q = 1 .. Len(q)
  BY DEF IsStream
<1>2. Good(0)
  <2>1. SubSeq(q, k + 1, k) = << >>
    BY <1>1 DEF IsStream
  <2>2. k + 0 = k
    OBVIOUS
  <2> QED  BY <2>1, <2>2, FedNothing
<1>3. ASSUME NEW n \in Nat, k + (n + 1) <= Len(q), Good(n)
      PROVE  Good(n + 1)
  <2>1. /\ DOMAIN piece(n) = 1 .. n /\ DOMAIN piece(n + 1) = 1 .. (n + 1)
        /\ \A i \in 1 .. n : piece(n + 1)[i] = piece(n)[i]
        /\ piece(n + 1)[n + 1] = q[(k + n) + 1]
    BY <1>1, <1>3 DEF IsStream
  <2> DEFINE u == piece(n)
             v == piece(n + 1)
  <2>2. Fed(p, s, v) = Feed(p, Fed(p, s, u), v[n + 1])
    <3> HIDE DEF u, v
    <3>1. DOMAIN u = 1 .. n /\ DOMAIN v = 1 .. (n + 1) /\ \A i \in 1 .. n : v[i] = u[i]
      BY <2>1 DEF u, v
    <3> QED  BY <3>1, FedOneMore
  <2>3. v[n + 1] = q[(k + n) + 1]
    BY <2>1
  <2>4. Reads(p, q, k + n, Fed(p, s, u))
    BY <1>3
  <2> HIDE DEF u, v
  <2>5. k + n \in Nat /\ k + n < Len(q) /\ k + (n + 1) = (k + n) + 1
    BY <1>1, <1>3
  <2>6. Reads(p, q, (k + n) + 1, Feed(p, Fed(p, s, u), q[(k + n) + 1]))
    BY <2>4, <2>5, FeedReads
  <2>7. Reads(p, q, k + (n + 1), Fed(p, s, v))
    BY <2>2, <2>3, <2>5, <2>6
  <2> QED  BY <2>7 DEF v
<1> HIDE DEF Good
<1>4. SUFFICES ASSUME Bad # {} PROVE FALSE
  BY DEF Good
<1>5. PICK n \in Bad : \A i \in Bad : n <= i
  <2>1. Bad \in SUBSET Nat
    OBVIOUS
  <2> HIDE DEF Bad
  <2> QED  BY <1>4, <2>1, Least
<1>6. n \in Nat /\ n # 0 /\ k + n <= Len(q) /\ ~Good(n)
  BY <1>2, <1>5
<1>7. n - 1 \in Nat /\ k + (n - 1) <= Len(q) /\ ~(n <= n - 1) /\ (n - 1) + 1 = n
  BY <1>1, <1>6
<1>8. Good(n - 1)
  BY <1>5, <1>7
<1> QED  BY <1>3, <1>6, <1>7, <1>8

\* A write of any length: the check for an overlong line comes at its end.
LEMMA WriteReads ==
  ASSUME NEW p, NEW q, IsStream(p, q), NEW k \in Nat, BufLimit \in Nat, BufLimit >= 2,
         NEW s, Reads(p, q, k, s), NEW n \in Nat, k + n <= Len(q)
  PROVE  Reads(p, q, k + n, Write(p, s, SubSeq(q, k + 1, k + n)))
<1> DEFINE after == Fed(p, s, SubSeq(q, k + 1, k + n))
           m == k + n
           w == IF Len(after.buf) > BufLimit THEN [after EXCEPT !.buf = << >>] ELSE after
<1>1. Reads(p, q, m, after) /\ m \in Nat /\ m <= Len(q)
  BY FedReads
<1>2. Write(p, s, SubSeq(q, k + 1, k + n)) = w
  BY DEF Write, Fed
<1> HIDE DEF after, m
<1>3. CASE ~(Len(after.buf) > BufLimit)
  BY <1>1, <1>2, <1>3 DEF m
<1>4. CASE Len(after.buf) > BufLimit
  <2>1. w = [after EXCEPT !.buf = << >>] /\ IsReader(after) /\ Meter(after) = Told(p, q, m)
    BY <1>1, <1>4 DEF Reads
  <2>2. IsReader(w) /\ w.buf = << >> /\ Meter(w) = Told(p, q, m)
    BY <2>1 DEF IsReader, Meter
  <2>3. PICK a \in 0 .. m :
          /\ a > 0 => q[a] = NL
          /\ \A i \in (a + 1) .. m : q[i] # NL
          /\ \/ after.buf = SubSeq(q, a + 1, m)
             \/ m - a > BufLimit /\ \A i \in DOMAIN after.buf : after.buf[i][1] # "head"
    BY <1>1 DEF Reads, OnLine
  <2>4. m - a > BufLimit
    <3>1. Len(SubSeq(q, a + 1, m)) = m - a
      BY <1>1 DEF IsStream
    <3> QED  BY <1>4, <2>3, <3>1
  <2>5. << >> \in Seq(Range(q)) /\ \A i \in DOMAIN << >> : (<< >>)[i][1] # "head"
    OBVIOUS
  <2>6. OnLine(<< >>, q, m)
    BY <2>3, <2>4, <2>5 DEF OnLine
  <2> QED  BY <1>2, <2>2, <2>6 DEF Reads, m
<1> QED  BY <1>3, <1>4

-----------------------------------------------------------------------------
\* What is true of the call while its answer streams through.
StreamOK ==
  /\ provider \in DOMAIN Scripts /\ script \in Scripts[provider] /\ sent \in Nat
  /\ sent <= Len(script)
  /\ priced = {} => Reads(provider, script, sent, stream)

\* However an answer of any length is cut into reads, at every point of the relay the
\* reader knows what a body with the complete frames so far would tell.
THEOREM StreamCorrect == Spec => []StreamMetersLikeBody
<1>1. \A p \in DOMAIN Scripts : \A q \in Scripts[p] : IsStream(p, q)
  BY StreamAssumption DEF IsStream
<1>2. Init => StreamOK
  <2> SUFFICES ASSUME Init PROVE StreamOK
    OBVIOUS
  <2>1. provider \in DOMAIN Scripts /\ script \in Scripts[provider] /\ sent = 0 /\ stream = NewStream
    BY DEF Init
  <2>2. IsStream(provider, script) /\ Len(script) \in Nat
    BY <1>1, <2>1 DEF IsStream
  <2>3. IsReader(NewStream) /\ NewStream.buf = << >> /\ Meter(NewStream) = [usage |-> NoTokens, got |-> FALSE]
    BY DEF IsReader, NewStream, Meter
  <2>4. OnLine(<< >>, script, 0)
    <3>1. SubSeq(script, 0 + 1, 0) = << >> /\ << >> \in Seq(Range(script))
      BY <2>2 DEF IsStream
    <3>2. 0 \in 0 .. 0 /\ ~(0 > 0) /\ \A i \in (0 + 1) .. 0 : script[i] # NL
      OBVIOUS
    <3> QED  BY <3>1, <3>2 DEF OnLine
  <2>5. Told(provider, script, 0) = [usage |-> NoTokens, got |-> FALSE]
    <3>1. 0 \in 0 .. Len(script) /\ Heads(script, 0) = {}
      BY <2>2 DEF Heads
    <3>2. Totals(provider, script, 0) = {} /\ Starts(script, 0) = {} /\ Deltas(script, 0) = {}
      BY <3>1 DEF Totals, Starts, Deltas
    <3>3. CASE provider # "anthropic"
      BY <2>2, <3>1, <3>2, <3>3, ToldTotals
    <3>4. CASE provider = "anthropic"
      <4>1. [NoTokens EXCEPT !.output = 0] = NoTokens
        BY DEF NoTokens
      <4> DEFINE S == Starts(script, 0)
                 D == Deltas(script, 0)
      <4>2. Told(provider, script, 0) =
              [usage |-> [(IF S = {} THEN NoTokens ELSE Normal(provider, script[Max(S)][2].message))
                            EXCEPT !.output = IF D = {} THEN 0 ELSE script[Max(D)][2].top.output],
               got |-> S # {} \/ D # {}]
        BY <2>2, <3>1, <3>4, ToldMerge
      <4>3. S = {} /\ D = {}
        BY <3>2
      <4> HIDE DEF S, D
      <4> QED  BY <4>1, <4>2, <4>3
    <3> QED  BY <3>3, <3>4
  <2> QED  BY <2>1, <2>2, <2>3, <2>4, <2>5 DEF StreamOK, Reads
<1>3. StreamOK /\ [Next]_vars => StreamOK'
  <2> SUFFICES ASSUME StreamOK, [Next]_vars PROVE StreamOK'
    OBVIOUS
  <2>1. IsStream(provider, script) /\ Len(script) \in Nat
    BY <1>1 DEF StreamOK, IsStream
  <2>2. CASE Relay
    <3>1. priced = {} /\ priced' = {} /\ provider' = provider /\ script' = script
      BY <2>2 DEF Relay
    <3>2. PICK n \in 1 .. (Len(script) - sent) :
            /\ sent' = sent + n
            /\ stream' = Write(provider, stream, SubSeq(script, sent + 1, sent + n))
      BY <2>2 DEF Relay
    <3>3. n \in Nat /\ sent \in Nat /\ sent + n <= Len(script)
      BY <2>1 DEF StreamOK
    <3>4. Reads(provider, script, sent', stream')
      BY <2>1, <3>1, <3>2, <3>3, WriteReads, StreamAssumption DEF StreamOK
    <3> QED  BY <3>1, <3>2, <3>3, <3>4 DEF StreamOK
  <2>3. CASE StreamEnds
    BY <2>1, <2>3 DEF StreamEnds, StreamOK
  <2>4. CASE BodyRead
    BY <2>4 DEF BodyRead, StreamOK
  <2>5. CASE UNCHANGED callVars
    BY <2>5 DEF callVars, StreamOK
  <2>6. [Next]_vars => Relay \/ StreamEnds \/ BodyRead \/ UNCHANGED callVars
    BY DEF Next, Record, WriteEnds, WriteStops, Ask, Answer, OpenFails, vars
  <2> QED  BY <2>2, <2>3, <2>4, <2>5, <2>6
<1>4. StreamOK => StreamMetersLikeBody
  BY DEF StreamOK, StreamMetersLikeBody, Reads, Meter, Told, Relayed
<1> QED  BY <1>2, <1>3, <1>4, PTL DEF Spec
=============================================================================
