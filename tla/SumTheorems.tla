----------------------------- MODULE SumTheorems -----------------------------
(***************************************************************************)
(* Sums over finite sets, as SumFunctionOnSet of the community modules     *)
(* folds them: the lemmas that the conservation of tokens, items, points   *)
(* and offences rests on. A fold is a recursive function, so its value is  *)
(* found by induction: a set of counterexamples, if there were any, would  *)
(* have one without a smaller one.                                         *)
(***************************************************************************)
EXTENDS Integers, Sequences, FiniteSets, Functions, FiniteSetTheorems, SequenceTheorems, TLAPS

LEMMA SmallestCounterexample ==
    ASSUME NEW S, IsFiniteSet(S), NEW Q, Q \subseteq SUBSET S, Q # {}
    PROVE  \E T \in Q : \A U \in SUBSET T : U # T => U \notin Q
<1>1. IsWellFoundedOn(StrictSubsetOrdering(S), SUBSET S)
  BY FS_StrictSubsetOrderingWellFounded, FS_FiniteSubsetsOfFinite
<1>2. PICK T \in Q : \A U \in Q : <<U, T>> \notin StrictSubsetOrdering(S)
  BY <1>1, WFMin
<1>3. ASSUME NEW U \in SUBSET T, U # T, U \in Q PROVE FALSE
  BY <1>2, <1>3 DEF StrictSubsetOrdering
<1> QED
  BY <1>2, <1>3
-----------------------------------------------------------------------------
\* The recursive function behind the fold: it takes the element that CHOOSE
\* finds, and continues with the others.
Picked(s) == CHOOSE x \in s : TRUE
Others(s) == s \ {Picked(s)}
Unfolds(sum, f, S) ==
    sum = [s \in SUBSET S |-> IF s = {} THEN 0 ELSE f[Picked(s)] + sum[Others(s)]]

LEMMA OthersAreFewer ==
    ASSUME NEW s, s # {}
    PROVE  Picked(s) \in s /\ Others(s) \subseteq s /\ Others(s) # s
BY DEF Picked, Others

\* Two such functions agree where both are defined.
LEMMA SumsAgree ==
    ASSUME NEW f, NEW S, NEW T, IsFiniteSet(S), NEW g, NEW h,
           Unfolds(g, f, S), Unfolds(h, f, T)
    PROVE  \A s \in SUBSET (S \cap T) : g[s] = h[s]
<1> DEFINE Q == {s \in SUBSET (S \cap T) : g[s] # h[s]}
<1> SUFFICES ASSUME Q # {} PROVE FALSE
  OBVIOUS
<1>1. PICK s \in Q : \A u \in SUBSET s : u # s => u \notin Q
  <2>1. Q \subseteq SUBSET S
    OBVIOUS
  <2> HIDE DEF Q
  <2> QED
    BY <2>1, SmallestCounterexample
<1>2. s # {}
  BY <1>1 DEF Unfolds
<1>3. g[Others(s)] = h[Others(s)]
  BY <1>1, <1>2, OthersAreFewer
<1> QED
  BY <1>1, <1>2, <1>3, OthersAreFewer DEF Unfolds

\* There is one for every finite set.
LEMMA SumExists ==
    ASSUME NEW f, NEW S, IsFiniteSet(S)
    PROVE  \E sum : Unfolds(sum, f, S)
<1> DEFINE Q == {T \in SUBSET S : ~ \E sum : Unfolds(sum, f, T)}
<1> SUFFICES ASSUME Q # {} PROVE FALSE
  OBVIOUS
<1>1. PICK T \in Q : \A U \in SUBSET T : U # T => U \notin Q
  <2>1. Q \subseteq SUBSET S
    OBVIOUS
  <2> HIDE DEF Q
  <2> QED
    BY <2>1, SmallestCounterexample
<1> DEFINE Sum(U) == CHOOSE sum : Unfolds(sum, f, U)
           h == [s \in SUBSET T |-> IF s = {} THEN 0 ELSE f[Picked(s)] + Sum(Others(s))[Others(s)]]
<1>2. ASSUME NEW U \in SUBSET T, U # T PROVE Unfolds(Sum(U), f, U) /\ IsFiniteSet(U)
  <2>1. \E sum : Unfolds(sum, f, U)
    BY <1>1, <1>2
  <2> QED
    BY <1>1, <2>1, FS_Subset
<1> HIDE DEF Sum
<1>3. ASSUME NEW s \in SUBSET T, s # {} PROVE h[Others(s)] = Sum(Others(s))[Others(s)]
  <2> DEFINE u == Others(s)
  <2>1. u \in SUBSET T /\ u # T
    BY <1>3, OthersAreFewer
  <2>2. Unfolds(Sum(u), f, u) /\ IsFiniteSet(u)
    BY <1>2, <2>1
  <2>3. CASE u = {}
    BY <2>1, <2>2, <2>3 DEF Unfolds
  <2>4. CASE u # {}
    <3>1. Others(u) \in SUBSET u /\ Others(u) # T /\ Others(u) \in SUBSET T
      BY <2>1, <2>4, OthersAreFewer
    <3>2. Unfolds(Sum(Others(u)), f, Others(u))
      BY <1>2, <3>1
    <3>3. Sum(u)[Others(u)] = Sum(Others(u))[Others(u)]
      BY <2>2, <3>1, <3>2, SumsAgree
    <3> HIDE DEF u
    <3>4. Sum(u)[u] = f[Picked(u)] + Sum(u)[Others(u)]
      BY <2>2, <2>4 DEF Unfolds
    <3>5. h[u] = f[Picked(u)] + Sum(Others(u))[Others(u)]
      BY <2>1, <2>4
    <3> QED
      BY <3>3, <3>4, <3>5 DEF u
  <2> QED
    BY <2>3, <2>4
<1>4. Unfolds(h, f, T)
  BY <1>3 DEF Unfolds
<1> QED
  BY <1>1, <1>4

LEMMA SumUnfolds ==
    ASSUME NEW f, NEW S, IsFiniteSet(S)
    PROVE  \E sum : Unfolds(sum, f, S) /\ SumFunctionOnSet(f, S) = sum[S]
<1>1. PICK sum : Unfolds(sum, f, S)
  BY SumExists
<1> QED
  BY <1>1 DEF SumFunctionOnSet, FoldFunctionOnSet, MapThenFoldSet, Unfolds, Picked, Others
-----------------------------------------------------------------------------
\* What a sum is, element by element.

LEMMA SumEmpty == ASSUME NEW f PROVE SumFunctionOnSet(f, {}) = 0
<1>1. IsFiniteSet({})
  BY FS_EmptySet
<1>2. PICK sum : Unfolds(sum, f, {}) /\ SumFunctionOnSet(f, {}) = sum[{}]
  BY <1>1, SumUnfolds
<1>3. sum[{}] = 0
  BY <1>2 DEF Unfolds
<1> QED
  BY <1>2, <1>3

LEMMA SumPicked ==
    ASSUME NEW f, NEW S, IsFiniteSet(S), S # {}
    PROVE  SumFunctionOnSet(f, S) = f[Picked(S)] + SumFunctionOnSet(f, Others(S))
<1>1. Others(S) \subseteq S /\ IsFiniteSet(Others(S))
  BY OthersAreFewer, FS_Subset
<1>2. PICK g : Unfolds(g, f, S) /\ SumFunctionOnSet(f, S) = g[S]
  BY SumUnfolds
<1>3. PICK h : Unfolds(h, f, Others(S)) /\ SumFunctionOnSet(f, Others(S)) = h[Others(S)]
  BY <1>1, SumUnfolds
<1>4. g[Others(S)] = h[Others(S)]
  BY <1>1, <1>2, <1>3, SumsAgree
<1> QED
  BY <1>2, <1>3, <1>4 DEF Unfolds

LEMMA SumType ==
    ASSUME NEW f, NEW S, IsFiniteSet(S), \A x \in S : f[x] \in Int
    PROVE  SumFunctionOnSet(f, S) \in Int
<1> DEFINE Q == {T \in SUBSET S : SumFunctionOnSet(f, T) \notin Int}
<1> SUFFICES ASSUME Q # {} PROVE FALSE
  OBVIOUS
<1>1. PICK T \in Q : \A U \in SUBSET T : U # T => U \notin Q
  <2>1. Q \subseteq SUBSET S
    OBVIOUS
  <2> HIDE DEF Q
  <2> QED
    BY <2>1, SmallestCounterexample
<1>2. T # {}
  <2>1. {} \notin Q
    <3>1. SumFunctionOnSet(f, {}) = 0
      BY SumEmpty
    <3> QED
      BY <3>1
  <2> HIDE DEF Q
  <2> QED
    BY <1>1, <2>1
<1>3. IsFiniteSet(T)
  BY <1>1, FS_Subset
<1>4. SumFunctionOnSet(f, Others(T)) \in Int
  BY <1>1, <1>2, OthersAreFewer
<1> QED
  BY <1>1, <1>2, <1>3, <1>4, SumPicked, OthersAreFewer

\* It does not matter which element is taken.
LEMMA SumRemove ==
    ASSUME NEW f, NEW S, IsFiniteSet(S), \A x \in S : f[x] \in Int, NEW e \in S
    PROVE  SumFunctionOnSet(f, S) = f[e] + SumFunctionOnSet(f, S \ {e})
<1> DEFINE Sum(T) == SumFunctionOnSet(f, T)
           Q == {T \in SUBSET S : \E x \in T : Sum(T) # f[x] + Sum(T \ {x})}
<1> SUFFICES ASSUME Q # {} PROVE FALSE
  OBVIOUS
<1>1. PICK T \in Q : \A U \in SUBSET T : U # T => U \notin Q
  <2>1. Q \subseteq SUBSET S
    OBVIOUS
  <2> HIDE DEF Q
  <2> QED
    BY <2>1, SmallestCounterexample
<1>2. PICK x \in T : Sum(T) # f[x] + Sum(T \ {x})
  BY <1>1
<1> DEFINE p == Picked(T)
<1>3. p \in T /\ Others(T) = T \ {p}
  BY OthersAreFewer DEF Others
<1>4. IsFiniteSet(T) /\ IsFiniteSet(T \ {x}) /\ IsFiniteSet(T \ {p}) /\ IsFiniteSet(T \ {x, p})
  BY <1>1, FS_Subset
<1>5. Sum(T) = f[p] + Sum(T \ {p})
  BY <1>3, <1>4, SumPicked
<1> HIDE DEF p
<1>6. x # p
  BY <1>2, <1>5
<1>7. Sum(T \ {p}) = f[x] + Sum((T \ {p}) \ {x})
  BY <1>1, <1>3, <1>6
<1>8. Sum(T \ {x}) = f[p] + Sum((T \ {x}) \ {p})
  BY <1>1, <1>3, <1>6
<1>9. (T \ {p}) \ {x} = T \ {x, p} /\ (T \ {x}) \ {p} = T \ {x, p}
  OBVIOUS
<1>10. f[x] \in Int /\ f[p] \in Int /\ Sum(T \ {x, p}) \in Int
  BY <1>1, <1>3, <1>4, SumType
<1> HIDE DEF Sum
<1>11. /\ Sum(T) = f[p] + (f[x] + Sum(T \ {x, p}))
       /\ f[x] + Sum(T \ {x}) = f[x] + (f[p] + Sum(T \ {x, p}))
  BY <1>5, <1>7, <1>8, <1>9
<1> QED
  BY <1>2, <1>10, <1>11

LEMMA SumAdd ==
    ASSUME NEW f, NEW S, IsFiniteSet(S), \A x \in S : f[x] \in Int,
           NEW e, e \notin S, f[e] \in Int
    PROVE  SumFunctionOnSet(f, S \cup {e}) = SumFunctionOnSet(f, S) + f[e]
<1>1. IsFiniteSet(S \cup {e}) /\ (S \cup {e}) \ {e} = S
  BY FS_AddElement
<1>2. SumFunctionOnSet(f, S) \in Int
  BY SumType
<1> QED
  BY <1>1, <1>2, SumRemove

\* Functions with the same values have the same sum.
LEMMA SumEqual ==
    ASSUME NEW f, NEW g, NEW S, IsFiniteSet(S), \A x \in S : f[x] = g[x]
    PROVE  SumFunctionOnSet(f, S) = SumFunctionOnSet(g, S)
<1> DEFINE Q == {T \in SUBSET S : SumFunctionOnSet(f, T) # SumFunctionOnSet(g, T)}
<1> SUFFICES ASSUME Q # {} PROVE FALSE
  OBVIOUS
<1>1. PICK T \in Q : \A U \in SUBSET T : U # T => U \notin Q
  <2>1. Q \subseteq SUBSET S
    OBVIOUS
  <2> HIDE DEF Q
  <2> QED
    BY <2>1, SmallestCounterexample
<1>2. T # {}
  <2>1. SumFunctionOnSet(f, {}) = 0 /\ SumFunctionOnSet(g, {}) = 0
    BY SumEmpty
  <2> QED
    BY <1>1, <2>1
<1>3. IsFiniteSet(T)
  BY <1>1, FS_Subset
<1>4. SumFunctionOnSet(f, Others(T)) = SumFunctionOnSet(g, Others(T))
  BY <1>1, <1>2, OthersAreFewer
<1>5. f[Picked(T)] = g[Picked(T)]
  BY <1>1, <1>2, OthersAreFewer
<1>6. /\ SumFunctionOnSet(f, T) = f[Picked(T)] + SumFunctionOnSet(f, Others(T))
      /\ SumFunctionOnSet(g, T) = g[Picked(T)] + SumFunctionOnSet(g, Others(T))
  BY <1>2, <1>3, SumPicked
<1> QED
  BY <1>1, <1>4, <1>5, <1>6

\* One value changes, and the sum with it.
LEMMA SumChange ==
    ASSUME NEW f, NEW g, NEW S, IsFiniteSet(S), NEW e \in S,
           \A x \in S : f[x] \in Int /\ g[x] \in Int,
           \A x \in S \ {e} : f[x] = g[x]
    PROVE  SumFunctionOnSet(g, S) = SumFunctionOnSet(f, S) - f[e] + g[e]
<1>1. IsFiniteSet(S \ {e})
  BY FS_Subset
<1>2. SumFunctionOnSet(f, S \ {e}) = SumFunctionOnSet(g, S \ {e})
  BY <1>1, SumEqual
<1>3. SumFunctionOnSet(f, S \ {e}) \in Int
  BY <1>1, SumType
<1>4. /\ SumFunctionOnSet(f, S) = f[e] + SumFunctionOnSet(f, S \ {e})
      /\ SumFunctionOnSet(g, S) = g[e] + SumFunctionOnSet(g, S \ {e})
  BY SumRemove
<1> QED
  BY <1>2, <1>3, <1>4

\* A sum of values that are at most k.
LEMMA SumBounded ==
    ASSUME NEW f, NEW S, IsFiniteSet(S), NEW k \in Int, \A x \in S : f[x] \in Int /\ f[x] <= k
    PROVE  SumFunctionOnSet(f, S) <= Cardinality(S) * k
<1> DEFINE Q == {T \in SUBSET S : ~(SumFunctionOnSet(f, T) <= Cardinality(T) * k)}
<1> SUFFICES ASSUME Q # {} PROVE FALSE
  OBVIOUS
<1>1. PICK T \in Q : \A U \in SUBSET T : U # T => U \notin Q
  <2>1. Q \subseteq SUBSET S
    OBVIOUS
  <2> HIDE DEF Q
  <2> QED
    BY <2>1, SmallestCounterexample
<1>2. T # {}
  <2>1. {} \notin Q
    <3>1. SumFunctionOnSet(f, {}) = 0 /\ Cardinality({}) = 0 /\ 0 * k = 0
      BY SumEmpty, FS_EmptySet
    <3> QED
      BY <3>1
  <2> HIDE DEF Q
  <2> QED
    BY <1>1, <2>1
<1>3. PICK e \in T : TRUE
  BY <1>2
<1>4. IsFiniteSet(T) /\ IsFiniteSet(T \ {e})
  BY <1>1, FS_Subset
<1> DEFINE c == Cardinality(T \ {e})
           s == SumFunctionOnSet(f, T \ {e})
<1>5. /\ Cardinality(T) = c + 1 /\ c \in Int
      /\ SumFunctionOnSet(f, T) = f[e] + s /\ s \in Int
  <2>1. Cardinality(T) \in Nat /\ Cardinality(T) = c + 1 /\ c \in Int
    BY <1>4, FS_RemoveElement, FS_CardinalityType
  <2>2. SumFunctionOnSet(f, T) = f[e] + s /\ s \in Int
    BY <1>1, <1>4, SumRemove, SumType
  <2> QED
    BY <2>1, <2>2
<1>6. s <= c * k
  BY <1>1
<1>7. f[e] \in Int /\ f[e] <= k
  BY <1>1
<1>8. ~(SumFunctionOnSet(f, T) <= Cardinality(T) * k)
  BY <1>1
<1> HIDE DEF c, s
<1>9. (c + 1) * k = c * k + k /\ c * k \in Int
  BY <1>5
<1> QED
  BY <1>5, <1>6, <1>7, <1>8, <1>9

\* The sum of natural numbers is one, and none of them exceeds it.
LEMMA SumNat ==
    ASSUME NEW f, NEW S, IsFiniteSet(S), \A x \in S : f[x] \in Nat
    PROVE  /\ SumFunctionOnSet(f, S) \in Nat
           /\ \A e \in S : f[e] <= SumFunctionOnSet(f, S)
<1>1. ASSUME NEW T \in SUBSET S PROVE SumFunctionOnSet(f, T) \in Nat
  <2> DEFINE Q == {U \in SUBSET S : SumFunctionOnSet(f, U) \notin Nat}
  <2> SUFFICES ASSUME Q # {} PROVE FALSE
    BY <1>1
  <2>1. PICK V \in Q : \A U \in SUBSET V : U # V => U \notin Q
    <3>1. Q \subseteq SUBSET S
      OBVIOUS
    <3> HIDE DEF Q
    <3> QED
      BY <3>1, SmallestCounterexample
  <2>2. V # {}
    <3>1. {} \notin Q
      <4>1. SumFunctionOnSet(f, {}) = 0
        BY SumEmpty
      <4> QED
        BY <4>1
    <3> HIDE DEF Q
    <3> QED
      BY <2>1, <3>1
  <2>3. IsFiniteSet(V)
    BY <2>1, FS_Subset
  <2>4. SumFunctionOnSet(f, Others(V)) \in Nat
    BY <2>1, <2>2, OthersAreFewer
  <2> QED
    BY <2>1, <2>2, <2>3, <2>4, SumPicked, OthersAreFewer
<1>2. ASSUME NEW e \in S PROVE f[e] <= SumFunctionOnSet(f, S)
  <2>1. SumFunctionOnSet(f, S) = f[e] + SumFunctionOnSet(f, S \ {e})
    BY SumRemove
  <2>2. f[e] \in Nat /\ SumFunctionOnSet(f, S \ {e}) \in Nat
    BY <1>1
  <2> QED
    BY <2>1, <2>2
<1> QED
  BY <1>1, <1>2

\* Zeros do not count.
LEMMA SumOfZeros ==
    ASSUME NEW f, NEW S, IsFiniteSet(S), \A x \in S : f[x] = 0
    PROVE  SumFunctionOnSet(f, S) = 0
<1>1. /\ SumFunctionOnSet(f, S) \in Nat
      /\ SumFunctionOnSet(f, S) <= Cardinality(S) * 0
      /\ Cardinality(S) \in Nat
  BY SumNat, SumBounded, FS_CardinalityType
<1> QED
  BY <1>1

\* The sum over two sets without a common element.
LEMMA SumOfUnion ==
    ASSUME NEW f, NEW S, NEW T, IsFiniteSet(S), IsFiniteSet(T), S \cap T = {},
           \A x \in S \cup T : f[x] \in Int
    PROVE  SumFunctionOnSet(f, S \cup T) = SumFunctionOnSet(f, S) + SumFunctionOnSet(f, T)
<1> DEFINE Sum(U) == SumFunctionOnSet(f, U)
           Q == {U \in SUBSET T : Sum(S \cup U) # Sum(S) + Sum(U)}
<1> SUFFICES ASSUME Q # {} PROVE FALSE
  OBVIOUS
<1>1. PICK U \in Q : \A V \in SUBSET U : V # U => V \notin Q
  <2>1. Q \subseteq SUBSET T
    OBVIOUS
  <2> HIDE DEF Q
  <2> QED
    BY <2>1, SmallestCounterexample
<1>a. Sum(S) \in Int
  BY SumType
<1>2. U # {}
  <2>1. {} \notin Q
    <3>1. Sum({}) = 0 /\ S \cup {} = S
      BY SumEmpty
    <3> HIDE DEF Sum
    <3> QED
      BY <1>a, <3>1
  <2> HIDE DEF Q
  <2> QED
    BY <1>1, <2>1
<1>3. PICK e \in U : TRUE
  BY <1>2
<1> DEFINE rest == U \ {e}
<1>4. IsFiniteSet(U) /\ IsFiniteSet(S \cup U) /\ IsFiniteSet(rest)
  BY <1>1, FS_Subset, FS_Union
<1>5. Sum(S \cup rest) = Sum(S) + Sum(rest)
  BY <1>1, <1>3
<1>6. Sum(U) = f[e] + Sum(rest) /\ f[e] \in Int /\ Sum(rest) \in Int
  <2>1. (\A x \in U : f[x] \in Int) /\ (\A x \in rest : f[x] \in Int)
    BY <1>1
  <2>2. Sum(U) = f[e] + Sum(rest)
    BY <1>4, <2>1, SumRemove
  <2>3. Sum(rest) \in Int
    BY <1>4, <2>1, SumType
  <2> QED
    BY <2>1, <2>2, <2>3
<1>7. Sum(S \cup U) = f[e] + Sum(S \cup rest)
  <2>1. (S \cup U) \ {e} = S \cup rest
    BY <1>1
  <2>2. Sum(S \cup U) = f[e] + Sum((S \cup U) \ {e})
    BY <1>1, <1>4, SumRemove
  <2> QED
    BY <2>1, <2>2
<1> HIDE DEF Sum, rest
<1> QED
  BY <1>a, <1>1, <1>5, <1>6, <1>7 DEF Sum

\* With natural numbers, a larger set does not have a smaller sum; and the same
\* sum, if only zeros are added.
LEMMA SumOfSubset ==
    ASSUME NEW f, NEW S, IsFiniteSet(S), NEW T \in SUBSET S, \A x \in S : f[x] \in Nat
    PROVE  /\ SumFunctionOnSet(f, T) <= SumFunctionOnSet(f, S)
           /\ (\A x \in S \ T : f[x] = 0) => SumFunctionOnSet(f, T) = SumFunctionOnSet(f, S)
<1>1. IsFiniteSet(T) /\ IsFiniteSet(S \ T) /\ T \cup (S \ T) = S /\ T \cap (S \ T) = {}
  BY FS_Subset
<1>2. SumFunctionOnSet(f, S) = SumFunctionOnSet(f, T) + SumFunctionOnSet(f, S \ T)
  BY <1>1, SumOfUnion
<1>3. SumFunctionOnSet(f, T) \in Nat /\ SumFunctionOnSet(f, S \ T) \in Nat
  BY <1>1, SumNat
<1>4. (\A x \in S \ T : f[x] = 0) => SumFunctionOnSet(f, S \ T) = 0
  BY <1>1, SumOfZeros
<1> QED
  BY <1>2, <1>3, <1>4

\* The summands may be renamed.
LEMMA SumRenamed ==
    ASSUME NEW f, NEW S, IsFiniteSet(S), NEW g, NEW T, NEW b \in Bijection(S, T),
           \A x \in S : f[x] \in Int /\ g[b[x]] = f[x]
    PROVE  SumFunctionOnSet(g, T) = SumFunctionOnSet(f, S)
<1> DEFINE Image(U) == {b[x] : x \in U}
           Q == {U \in SUBSET S : SumFunctionOnSet(g, Image(U)) # SumFunctionOnSet(f, U)}
<1>0. \A x, y \in S : b[x] = b[y] => x = y
  BY DEF Bijection, Injection, IsInjective
<1>a. Image(S) = T /\ IsFiniteSet(T)
  <2>1. Image(S) = T
    BY DEF Bijection, Surjection
  <2>2. IsFiniteSet(T)
    BY FS_Bijection DEF ExistsBijection
  <2> QED
    BY <2>1, <2>2
<1> SUFFICES ASSUME Q # {} PROVE FALSE
  BY <1>a
<1>1. PICK U \in Q : \A V \in SUBSET U : V # U => V \notin Q
  <2>1. Q \subseteq SUBSET S
    OBVIOUS
  <2> HIDE DEF Q
  <2> QED
    BY <2>1, SmallestCounterexample
<1>2. U # {}
  <2>1. SumFunctionOnSet(f, {}) = 0 /\ SumFunctionOnSet(g, {}) = 0 /\ Image({}) = {}
    BY SumEmpty
  <2> QED
    BY <1>1, <2>1
<1>3. PICK e \in U : TRUE
  BY <1>2
<1>4. Image(U \ {e}) = Image(U) \ {b[e]} /\ b[e] \in Image(U)
  BY <1>0, <1>1
<1>5. SumFunctionOnSet(g, Image(U \ {e})) = SumFunctionOnSet(f, U \ {e})
  BY <1>1, <1>3
<1>6. SumFunctionOnSet(f, U) = f[e] + SumFunctionOnSet(f, U \ {e})
  <2>1. IsFiniteSet(U)
    BY <1>1, FS_Subset
  <2> QED
    BY <1>1, <2>1, SumRemove
<1>7. SumFunctionOnSet(g, Image(U)) = g[b[e]] + SumFunctionOnSet(g, Image(U) \ {b[e]})
  <2>1. IsFiniteSet(Image(U))
    <3>1. Image(U) \subseteq T
      BY <1>1, <1>a
    <3> QED
      BY <1>a, <3>1, FS_Subset
  <2>2. \A y \in Image(U) : g[y] \in Int
    BY <1>1
  <2> HIDE DEF Image
  <2> QED
    BY <1>4, <2>1, <2>2, SumRemove
<1>8. g[b[e]] = f[e]
  BY <1>1
<1> HIDE DEF Image
<1>9. SumFunctionOnSet(g, Image(U)) = SumFunctionOnSet(f, U)
  BY <1>4, <1>5, <1>6, <1>7, <1>8
<1> QED
  BY <1>1, <1>9
-----------------------------------------------------------------------------
\* Sums of lists, which grow at the end and are taken from at the head.

LEMMA SumOfEmptyList == SumFunction(<<>>) = 0
BY SumEmpty DEF SumFunction

LEMMA SumOfAppended ==
    ASSUME NEW s \in Seq(Int), NEW x \in Int
    PROVE  SumFunction(Append(s, x)) = SumFunction(s) + x
<1> DEFINE n == Len(s)
           t == Append(s, x)
<1>1. n \in Nat /\ DOMAIN s = 1..n /\ s \in [1..n -> Int]
  OBVIOUS
<1>2. /\ DOMAIN t = (1..n) \cup {n + 1} /\ t[n + 1] = x
      /\ \A i \in 1..n : t[i] = s[i]
  BY <1>1, AppendProperties
<1> HIDE DEF n, t
<1>3. IsFiniteSet(1..n)
  BY <1>1, FS_Interval
<1>4. \A i \in 1..n : t[i] \in Int
  BY <1>1, <1>2
<1>5. SumFunctionOnSet(t, (1..n) \cup {n + 1}) = SumFunctionOnSet(t, 1..n) + t[n + 1]
  <2> DEFINE I == 1..n
             e == n + 1
  <2>1. IsFiniteSet(I) /\ (\A i \in I : t[i] \in Int) /\ e \notin I /\ t[e] \in Int
    BY <1>1, <1>2, <1>3, <1>4
  <2> HIDE DEF I, e
  <2>2. SumFunctionOnSet(t, I \cup {e}) = SumFunctionOnSet(t, I) + t[e]
    BY <2>1, SumAdd
  <2> QED
    BY <2>2 DEF I, e
<1>6. SumFunctionOnSet(t, 1..n) = SumFunctionOnSet(s, 1..n)
  BY <1>2, <1>3, SumEqual
<1> QED
  BY <1>1, <1>2, <1>5, <1>6 DEF SumFunction, t

LEMMA SumOfTail ==
    ASSUME NEW s \in Seq(Int), s # <<>>
    PROVE  SumFunction(s) = Head(s) + SumFunction(Tail(s))
<1> DEFINE n == Len(s)
           t == Tail(s)
           b == [i \in 1..(n - 1) |-> i + 1]
<1>1. n \in Nat \ {0} /\ DOMAIN s = 1..n /\ s \in [1..n -> Int] /\ Head(s) = s[1]
  BY EmptySeq
<1>2. DOMAIN t = 1..(n - 1) /\ \A i \in 1..(n - 1) : t[i] = s[i + 1] /\ t[i] \in Int
  BY <1>1, HeadTailProperties
<1> HIDE DEF n, t
<1>3. IsFiniteSet(1..n) /\ IsFiniteSet(1..(n - 1))
  BY <1>1, FS_Interval
<1>4. b \in Bijection(1..(n - 1), 2..n)
  <2>1. b \in [1..(n - 1) -> 2..n]
    BY <1>1
  <2>2. IsInjective(b)
    BY <1>1 DEF IsInjective
  <2>3. \A j \in 2..n : \E i \in 1..(n - 1) : b[i] = j
    <3>1. ASSUME NEW j \in 2..n PROVE j - 1 \in 1..(n - 1) /\ b[j - 1] = j
      BY <1>1
    <3> QED
      BY <3>1
  <2> QED
    BY <2>1, <2>2, <2>3 DEF Bijection, Injection, Surjection
<1>5. SumFunctionOnSet(s, 2..n) = SumFunctionOnSet(t, 1..(n - 1))
  <2>1. \A i \in 1..(n - 1) : t[i] \in Int /\ s[b[i]] = t[i]
    BY <1>2
  <2> DEFINE I == 1..(n - 1)
             J == 2..n
  <2>2. /\ IsFiniteSet(I) /\ b \in Bijection(I, J)
        /\ \A i \in I : t[i] \in Int /\ s[b[i]] = t[i]
    BY <1>3, <1>4, <2>1
  <2> HIDE DEF b, I, J
  <2>3. SumFunctionOnSet(s, J) = SumFunctionOnSet(t, I)
    BY <2>2, SumRenamed
  <2> QED
    BY <2>3 DEF I, J
<1>6. SumFunctionOnSet(s, 1..n) = s[1] + SumFunctionOnSet(s, 2..n)
  <2>1. 1 \in 1..n /\ (1..n) \ {1} = 2..n /\ \A i \in 1..n : s[i] \in Int
    BY <1>1
  <2> DEFINE I == 1..n
             e == 1
  <2>2. IsFiniteSet(I) /\ e \in I /\ \A i \in I : s[i] \in Int
    BY <1>3, <2>1
  <2>3. I \ {e} = 2..n
    BY <2>1
  <2> HIDE DEF I, e
  <2>4. SumFunctionOnSet(s, I) = s[e] + SumFunctionOnSet(s, I \ {e})
    BY ONLY <2>2, SumRemove
  <2> QED
    BY <2>3, <2>4 DEF I, e
<1> QED
  BY <1>1, <1>2, <1>5, <1>6 DEF SumFunction, t

\* The sum of a list of natural numbers is one, and none of them exceeds it.
LEMMA SumOfNats ==
    ASSUME NEW s \in Seq(Nat)
    PROVE  SumFunction(s) \in Nat /\ \A i \in DOMAIN s : s[i] <= SumFunction(s)
<1>1. IsFiniteSet(DOMAIN s) /\ \A i \in DOMAIN s : s[i] \in Nat
  BY FS_Interval
<1> QED
  BY <1>1, SumNat DEF SumFunction
=============================================================================
