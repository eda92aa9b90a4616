----------------------------- MODULE SumProofs -----------------------------
(***************************************************************************)
(* Facts about sums over finite sets, stated on functions: the provers     *)
(* cannot instantiate a theorem that takes the summand as an operator.     *)
(***************************************************************************)
EXTENDS FiniteSetTheorems, FiniteSetsExt, TLAPS

----------------------------------------------------------------------------
(* Induction without an operator parameter: the least counterexample. *)

\* A set of natural numbers has a least element.
LEMMA LeastNumber ==
  ASSUME NEW N \in SUBSET Nat, N # {}
  PROVE  \E n \in N : \A m \in N : n <= m
  <1> DEFINE Below == OpToRel(<, Nat)
  <1>1. IsWellFoundedOn(Below, Nat)
    BY NatLessThanWellFounded
  <1>2. \A m, n \in Nat : m < n => <<m, n>> \in Below
    BY DEF OpToRel
  <1> HIDE DEF Below
  <1>3. PICK n \in N : \A m \in N : <<m, n>> \notin Below
    BY <1>1, WFMin
  <1>4. \A m \in N : ~(m < n)
    BY <1>2, <1>3
  <1> QED BY <1>4

\* A set of subsets of a finite set has an element that contains no other.
LEMMA LeastSet ==
  ASSUME NEW S, IsFiniteSet(S), NEW T \in SUBSET SUBSET S, T # {}
  PROVE  \E m \in T : \A s \in T : s \subseteq m => s = m
  <1> DEFINE Inside == StrictSubsetOrdering(S)
  <1>1. IsWellFoundedOn(Inside, SUBSET S)
    BY FS_StrictSubsetOrderingWellFounded, FS_FiniteSubsetsOfFinite
  <1>2. \A s, m \in SUBSET S : s \subseteq m /\ s # m => <<s, m>> \in Inside
    BY DEF StrictSubsetOrdering
  <1> HIDE DEF Inside
  <1>3. PICK m \in T : \A s \in T : <<s, m>> \notin Inside
    BY <1>1, WFMin
  <1> QED BY <1>2, <1>3

----------------------------------------------------------------------------
(* The function that MapThenSumSet defines by recursion on the set. *)

Pick(s) == CHOOSE x \in s : TRUE

\* g sums f over the subsets of S.
Sums(g, f, S) ==
    g = [s \in SUBSET S |-> IF s = {} THEN 0 ELSE f[Pick(s)] + g[s \ {Pick(s)}]]

\* The element that is taken out first is one of the set.
LEMMA PickIn ==
  ASSUME NEW s, s # {}
  PROVE  Pick(s) \in s
  BY DEF Pick

\* There is such a function.
LEMMA SumsExist ==
  ASSUME NEW S, IsFiniteSet(S), NEW f, \A x \in S : f[x] \in Int
  PROVE  \E g \in [SUBSET S -> Int] : Sums(g, f, S)
  <1> DEFINE Body(g) == [s \in SUBSET S |->
                           IF s = {} THEN 0 ELSE f[Pick(s)] + g[s \ {Pick(s)}]]
             Upto(g, n) == \A s \in SUBSET S :
                              Cardinality(s) <= n => g[s] = Body(g)[s]
             Bad == {n \in Nat : \A g \in [SUBSET S -> Int] : ~Upto(g, n)}
  <1>1. ASSUME NEW g \in [SUBSET S -> Int]
        PROVE  Body(g) \in [SUBSET S -> Int]
    <2>1. ASSUME NEW s \in SUBSET S, s # {}
          PROVE  f[Pick(s)] + g[s \ {Pick(s)}] \in Int
      <3>1. Pick(s) \in S /\ s \ {Pick(s)} \in SUBSET S
        BY <2>1, PickIn
      <3> QED BY <3>1
    <2> QED BY <2>1
  <1>2. 0 \notin Bad
    <2> DEFINE z == [s \in SUBSET S |-> 0]
    <2>1. z \in [SUBSET S -> Int]
      OBVIOUS
    <2>2. ASSUME NEW s \in SUBSET S, Cardinality(s) <= 0
          PROVE  s = {}
      <3>1. IsFiniteSet(s) /\ Cardinality(s) \in Nat
        BY FS_Subset, FS_CardinalityType
      <3> QED BY <2>2, <3>1, FS_EmptySet
    <2>3. Upto(z, 0)
      BY <2>2
    <2> QED BY <2>1, <2>3
  <1>3. ASSUME NEW n \in Nat, n \notin Bad
        PROVE  n + 1 \notin Bad
    <2>1. PICK g \in [SUBSET S -> Int] : Upto(g, n)
      BY <1>3
    <2> DEFINE h == Body(g)
    <2>2. h \in [SUBSET S -> Int]
      BY <1>1
    <2>3. ASSUME NEW s \in SUBSET S, Cardinality(s) <= n + 1
          PROVE  h[s] = Body(h)[s]
      <3>1. CASE s = {}
        BY <3>1
      <3>2. CASE s # {}
        <4> DEFINE t == s \ {Pick(s)}
        <4>1. t \in SUBSET S /\ Pick(s) \in s
          BY <3>2, PickIn
        <4>2. IsFiniteSet(s) /\ Cardinality(s) \in Nat
          BY FS_Subset, FS_CardinalityType
        <4>3. Cardinality(t) = Cardinality(s) - 1
          BY <4>1, <4>2, FS_RemoveElement
        <4>4. Cardinality(t) <= n
          BY <2>3, <4>2, <4>3
        <4>5. g[t] = h[t]
          BY <2>1, <4>1, <4>4
        <4> QED BY <3>2, <4>5
      <3> QED BY <3>1, <3>2
    <2>4. Upto(h, n + 1)
      BY <2>3
    <2> HIDE DEF h
    <2> QED BY <2>2, <2>4
  <1>4. Bad = {}
    <2> SUFFICES ASSUME Bad # {} PROVE FALSE
      OBVIOUS
    <2>1. PICK n \in Bad : \A m \in Bad : n <= m
      BY LeastNumber
    <2> HIDE DEF Bad
    <2>2. n \in Nat /\ n # 0
      BY <1>2, <2>1 DEF Bad
    <2>3. n - 1 \in Nat /\ n - 1 \notin Bad
      BY <2>1, <2>2
    <2> QED BY <1>3, <2>2, <2>3
  <1>5. Cardinality(S) \in Nat
    BY FS_CardinalityType
  <1>6. PICK g \in [SUBSET S -> Int] : Upto(g, Cardinality(S))
    BY <1>4, <1>5
  <1>7. \A s \in SUBSET S : g[s] = Body(g)[s]
    BY <1>6, FS_Subset
  <1>8. Body(g) \in [SUBSET S -> Int]
    BY <1>1
  <1>9. g = Body(g)
    <2> HIDE DEF Body
    <2> QED BY <1>7, <1>8
  <1> QED BY <1>9 DEF Sums

\* The sum of f over s, a subset of its domain.
SumOf(f, s) ==
    (CHOOSE g \in [SUBSET DOMAIN f -> Int] : Sums(g, f, DOMAIN f))[s]

LEMMA SumOfEquation ==
  ASSUME NEW S, IsFiniteSet(S), NEW f \in [S -> Int], NEW s \in SUBSET S
  PROVE  /\ SumOf(f, s) \in Int
         /\ s = {} => SumOf(f, s) = 0
         /\ s # {} => SumOf(f, s) = f[Pick(s)] + SumOf(f, s \ {Pick(s)})
  <1> DEFINE g == CHOOSE h \in [SUBSET S -> Int] : Sums(h, f, S)
  <1>1. g \in [SUBSET S -> Int] /\ Sums(g, f, S)
    BY SumsExist
  <1>2. DOMAIN f = S
    OBVIOUS
  <1>3. \A t \in SUBSET S : SumOf(f, t) = g[t]
    BY <1>2 DEF SumOf
  <1> HIDE DEF g
  <1>4. g[s] = IF s = {} THEN 0 ELSE f[Pick(s)] + g[s \ {Pick(s)}]
    BY <1>1 DEF Sums
  <1> QED BY <1>1, <1>3, <1>4

\* Any element may be taken out, not only the one the recursion takes.
LEMMA SumRemove ==
  ASSUME NEW S, IsFiniteSet(S), NEW f \in [S -> Int],
         NEW s \in SUBSET S, NEW x \in s
  PROVE  SumOf(f, s) = f[x] + SumOf(f, s \ {x})
  <1> DEFINE Off(t, y) == SumOf(f, t) # f[y] + SumOf(f, t \ {y})
             Bad == {t \in SUBSET S : \E y \in t : Off(t, y)}
  <1>1. Bad = {}
    <2> SUFFICES ASSUME Bad # {} PROVE FALSE
      OBVIOUS
    <2>0. Bad \in SUBSET SUBSET S
      OBVIOUS
    <2>1. PICK m \in Bad : \A t \in Bad : t \subseteq m => t = m
      <3> HIDE DEF Bad
      <3> QED BY <2>0, LeastSet
    <2>2. PICK y \in m : Off(m, y)
      OBVIOUS
    <2> DEFINE p == Pick(m)
               my == m \ {y}
               mp == m \ {p}
    <2>3. m \in SUBSET S /\ p \in m /\ y \in S /\ p \in S
      BY PickIn
    <2>4. SumOf(f, m) = f[p] + SumOf(f, mp)
      BY <2>3, SumOfEquation
    <2>5. p # y
      BY <2>2, <2>4
    <2>6. my \notin Bad /\ mp \notin Bad
      BY <2>1, <2>3
    <2>7. ~Off(my, p) /\ ~Off(mp, y)
      BY <2>3, <2>5, <2>6
    <2>8. mp \ {y} = my \ {p}
      OBVIOUS
    <2>9. /\ SumOf(f, my) = f[p] + SumOf(f, my \ {p})
          /\ SumOf(f, mp) = f[y] + SumOf(f, my \ {p})
      BY <2>7, <2>8
    <2>10. /\ SumOf(f, my \ {p}) \in Int
           /\ f[p] \in Int /\ f[y] \in Int
      BY <2>3, SumOfEquation
    <2>11. SumOf(f, m) = f[y] + SumOf(f, my)
      BY <2>4, <2>9, <2>10
    <2> QED BY <2>2, <2>11
  <1> QED BY <1>1

\* The sum depends only on what f is on the set.
LEMMA SumAgrees ==
  ASSUME NEW S, IsFiniteSet(S), NEW f \in [S -> Int],
         NEW T, IsFiniteSet(T), NEW g \in [T -> Int],
         NEW s \in SUBSET (S \cap T), \A x \in s : f[x] = g[x]
  PROVE  SumOf(f, s) = SumOf(g, s)
  <1> DEFINE Bad == {t \in SUBSET s : SumOf(f, t) # SumOf(g, t)}
  <1>1. IsFiniteSet(s)
    BY FS_Subset
  <1>2. Bad = {}
    <2> SUFFICES ASSUME Bad # {} PROVE FALSE
      OBVIOUS
    <2>0. Bad \in SUBSET SUBSET s
      OBVIOUS
    <2>1. PICK m \in Bad : \A t \in Bad : t \subseteq m => t = m
      <3> HIDE DEF Bad
      <3> QED BY <1>1, <2>0, LeastSet
    <2>2. m \in SUBSET S /\ m \in SUBSET T
      OBVIOUS
    <2>3. m # {}
      BY <2>2, SumOfEquation
    <2> DEFINE p == Pick(m)
    <2>4. p \in m /\ m \ {p} \notin Bad
      BY <2>1, <2>3, PickIn
    <2>5. SumOf(f, m \ {p}) = SumOf(g, m \ {p}) /\ f[p] = g[p]
      BY <2>4
    <2>6. SumOf(f, m) = SumOf(g, m)
      BY <2>2, <2>3, <2>5, SumOfEquation
    <2> QED BY <2>6
  <1> QED BY <1>2

\* A sum of natural numbers is one, and is 0 exactly when all of them are.
LEMMA SumOfNaturals ==
  ASSUME NEW S, IsFiniteSet(S), NEW f \in [S -> Nat], NEW s \in SUBSET S
  PROVE  /\ SumOf(f, s) \in Nat
         /\ SumOf(f, s) = 0 <=> \A x \in s : f[x] = 0
  <1> DEFINE Good(t) == /\ SumOf(f, t) \in Nat
                        /\ SumOf(f, t) = 0 <=> \A x \in t : f[x] = 0
             Bad == {t \in SUBSET S : ~Good(t)}
  <1>1. f \in [S -> Int]
    OBVIOUS
  <1>2. Bad = {}
    <2> SUFFICES ASSUME Bad # {} PROVE FALSE
      OBVIOUS
    <2>0. Bad \in SUBSET SUBSET S
      OBVIOUS
    <2>1. PICK m \in Bad : \A t \in Bad : t \subseteq m => t = m
      <3> HIDE DEF Bad
      <3> QED BY <2>0, LeastSet
    <2>2. m # {}
      BY <1>1, SumOfEquation
    <2> DEFINE p == Pick(m)
    <2>3. p \in m /\ m \ {p} \notin Bad
      BY <2>1, <2>2, PickIn
    <2>4. Good(m \ {p}) /\ f[p] \in Nat
      BY <2>3
    <2>5. SumOf(f, m) = f[p] + SumOf(f, m \ {p})
      BY <1>1, <2>2, SumOfEquation
    <2>6. Good(m)
      <3>1. (\A x \in m : f[x] = 0) <=> f[p] = 0 /\ \A x \in m \ {p} : f[x] = 0
        BY <2>3
      <3> QED BY <2>4, <2>5, <3>1
    <2> QED BY <2>6
  <1> QED BY <1>2

\* Elements that add nothing may be left out.
LEMMA SumExtends ==
  ASSUME NEW S, IsFiniteSet(S), NEW f \in [S -> Int],
         NEW s \in SUBSET S, \A x \in S \ s : f[x] = 0
  PROVE  SumOf(f, S) = SumOf(f, s)
  <1> DEFINE Bad == {t \in SUBSET S : SumOf(f, t) # SumOf(f, t \cap s)}
  <1>1. Bad = {}
    <2> SUFFICES ASSUME Bad # {} PROVE FALSE
      OBVIOUS
    <2>0. Bad \in SUBSET SUBSET S
      OBVIOUS
    <2>1. PICK m \in Bad : \A t \in Bad : t \subseteq m => t = m
      <3> HIDE DEF Bad
      <3> QED BY <2>0, LeastSet
    <2>2. m \in SUBSET S /\ SumOf(f, m) # SumOf(f, m \cap s)
      OBVIOUS
    <2>3. PICK x \in m : x \notin s
      <3>1. m \cap s # m
        BY <2>2
      <3> QED BY <3>1
    <2>4. m \ {x} \notin Bad
      BY <2>1
    <2>5. (m \ {x}) \cap s = m \cap s
      BY <2>3
    <2>6. SumOf(f, m \ {x}) = SumOf(f, m \cap s)
      BY <2>2, <2>4, <2>5
    <2>7. SumOf(f, m) = f[x] + SumOf(f, m \ {x})
      BY <2>2, SumRemove
    <2>8. f[x] = 0 /\ SumOf(f, m \ {x}) \in Int
      BY <2>2, <2>3, SumOfEquation
    <2> QED BY <2>2, <2>6, <2>7, <2>8
  <1>2. S \notin Bad /\ S \cap s = s
    BY <1>1
  <1> QED BY <1>2

\* Two functions that differ at one point have sums that differ by as much.
LEMMA SumOnePoint ==
  ASSUME NEW S, IsFiniteSet(S), NEW f \in [S -> Int], NEW g \in [S -> Int],
         NEW x \in S, \A y \in S \ {x} : f[y] = g[y]
  PROVE  SumOf(g, S) = SumOf(f, S) + (g[x] - f[x])
  <1>1. SumOf(f, S \ {x}) = SumOf(g, S \ {x})
    BY SumAgrees
  <1>2. /\ SumOf(f, S) = f[x] + SumOf(f, S \ {x})
        /\ SumOf(g, S) = g[x] + SumOf(g, S \ {x})
    BY SumRemove
  <1>3. SumOf(f, S \ {x}) \in Int
    BY SumOfEquation
  <1> QED BY <1>1, <1>2, <1>3

\* The function that the recursion defines is the only one that satisfies its
\* equation: whatever satisfies it gives the sum.
LEMMA SumsAreSum ==
  ASSUME NEW T, IsFiniteSet(T), NEW f \in [T -> Int],
         NEW S \in SUBSET T, NEW g, Sums(g, f, S)
  PROVE  g[S] = SumOf(f, S)
  <1> DEFINE Bad == {t \in SUBSET S : g[t] # SumOf(f, t)}
  <1>0. IsFiniteSet(S)
    BY FS_Subset
  <1>1. Bad = {}
    <2> SUFFICES ASSUME Bad # {} PROVE FALSE
      OBVIOUS
    <2>0. Bad \in SUBSET SUBSET S
      OBVIOUS
    <2>1. PICK m \in Bad : \A t \in Bad : t \subseteq m => t = m
      <3> HIDE DEF Bad
      <3> QED BY <2>0, <1>0, LeastSet
    <2> DEFINE p == Pick(m)
    <2>2. g[m] = IF m = {} THEN 0 ELSE f[p] + g[m \ {p}]
      BY DEF Sums
    <2>3. m # {}
      BY <2>2, SumOfEquation
    <2>4. p \in m /\ m \ {p} \notin Bad
      BY <2>1, <2>3, PickIn
    <2>5. g[m \ {p}] = SumOf(f, m \ {p})
      BY <2>4
    <2> QED BY <2>2, <2>3, <2>5, SumOfEquation
  <1> QED BY <1>1

============================================================================
