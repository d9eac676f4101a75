---------------------------- MODULE SumTheorems ----------------------------
(***************************************************************************)
(* What the sum of a function over a finite set is: SumFunctionOnSet is    *)
(* recursive, so that it has a value at all is a theorem about finite sets.*)
(***************************************************************************)
EXTENDS Integers, FiniteSets, Functions, FiniteSetTheorems, WellFoundedInduction, TLAPS

First(s) == CHOOSE e \in s : TRUE

\* it holds the sums of g over the sets of D, each defined by a smaller one.
SumTable(it, g, D) ==
  it = [s \in D |-> IF s = {} THEN 0 ELSE g[First(s)] + it[s \ {First(s)}]]

\* The subsets of S with at most k elements.
UpTo(S, k) == {s \in SUBSET S : Cardinality(s) <= k}

\* A set of subsets of a finite set has a smallest one.
LEMMA LeastSubset ==
  ASSUME NEW S, IsFiniteSet(S), NEW B \in SUBSET SUBSET S, B # {}
  PROVE  \E s \in B : \A t \in B : ~(t \subseteq s /\ t # s)
<1>1. PICK s \in B : \A t \in B : <<t, s>> \notin StrictSubsetOrdering(S)
  BY FS_StrictSubsetOrderingWellFounded, FS_FiniteSubsetsOfFinite, WFMin
<1>2. QED
  BY <1>1 DEF StrictSubsetOrdering

\* A set of natural numbers has a smallest one.
LEMMA LeastNumber ==
  ASSUME NEW T \in SUBSET Nat, NEW n \in T
  PROVE  \E m \in T : \A k \in T : m <= k
<1> DEFINE R == 0 .. n
           B == {0 .. k : k \in {j \in T : j <= n}}
<1>1. B \in SUBSET SUBSET R /\ B # {}
  OBVIOUS
<1>2. IsFiniteSet(R)
  BY FS_Interval
<1> HIDE DEF R, B
<1>3. PICK s \in B : \A t \in B : ~(t \subseteq s /\ t # s)
  BY <1>1, <1>2, LeastSubset
<1> USE DEF R, B
<1>4. PICK m \in T : m <= n /\ s = 0 .. m
  BY <1>3
<1>5. ASSUME NEW k \in T, k < m
      PROVE  FALSE
  <2>1. 0 .. k \in B
    BY <1>4, <1>5
  <2>2. 0 .. k \subseteq s /\ m \in s /\ m \notin 0 .. k
    BY <1>4, <1>5
  <2>3. QED
    BY <1>3, <2>1, <2>2
<1>6. QED
  BY <1>4, <1>5

\* The first element of a set that is not empty is in it; the rest is smaller.
LEMMA FirstRemoved ==
  ASSUME NEW s, IsFiniteSet(s), s # {}
  PROVE  /\ First(s) \in s
         /\ IsFiniteSet(s \ {First(s)})
         /\ Cardinality(s \ {First(s)}) = Cardinality(s) - 1
         /\ Cardinality(s) \in Nat \ {0}
<1>1. First(s) \in s
  BY DEF First
<1>2. QED
  BY <1>1, FS_RemoveElement, FS_CardinalityType, FS_EmptySet

\* The sums over the small subsets of a finite set exist.
LEMMA TableExists ==
  ASSUME NEW g, NEW S, IsFiniteSet(S)
  PROVE  \E it : SumTable(it, g, SUBSET S)
<1> DEFINE Bad == {k \in Nat : ~ \E it : SumTable(it, g, UpTo(S, k))}
<1>1. \A s \in SUBSET S : IsFiniteSet(s) /\ Cardinality(s) \in Nat
  BY FS_Subset, FS_CardinalityType
<1>2. Cardinality(S) \in Nat /\ UpTo(S, Cardinality(S)) = SUBSET S
  BY <1>1, FS_Subset, FS_CardinalityType DEF UpTo
<1>3. SUFFICES ASSUME Cardinality(S) \in Bad PROVE FALSE
  BY <1>2
<1>4. PICK k \in Bad : \A j \in Bad : k <= j
  <2>1. Bad \in SUBSET Nat
    OBVIOUS
  <2> HIDE DEF Bad
  <2>2. QED
    BY <1>3, <2>1, LeastNumber
<1>5. k # 0
  <2>1. \A s \in UpTo(S, 0) : s = {}
    BY <1>1, FS_EmptySet DEF UpTo
  <2>2. SumTable([s \in UpTo(S, 0) |-> 0], g, UpTo(S, 0))
    BY <2>1 DEF SumTable
  <2>3. QED
    BY <2>2
<1>6. k - 1 \in Nat /\ k - 1 \notin Bad
  BY <1>4, <1>5
<1>7. PICK old : SumTable(old, g, UpTo(S, k - 1))
  BY <1>6
<1> DEFINE new == [s \in UpTo(S, k) |->
                     IF s = {} THEN 0 ELSE g[First(s)] + old[s \ {First(s)}]]
<1>8. ASSUME NEW s \in UpTo(S, k), s # {}
      PROVE  new[s \ {First(s)}] = old[s \ {First(s)}]
  <2>1. s \ {First(s)} \in UpTo(S, k - 1)
    BY <1>1, <1>8, FirstRemoved DEF UpTo
  <2>2. UpTo(S, k - 1) \subseteq UpTo(S, k)
    BY <1>1 DEF UpTo
  <2>3. QED
    BY <1>7, <2>1, <2>2 DEF SumTable
<1>9. SumTable(new, g, UpTo(S, k))
  BY <1>8 DEF SumTable
<1>10. QED
  BY <1>4, <1>9

\* SumFunctionOnSet is read from such a table.
LEMMA SumUnfolds ==
  ASSUME NEW g, NEW S, IsFiniteSet(S)
  PROVE  \E it : SumTable(it, g, SUBSET S) /\ SumFunctionOnSet(g, S) = it[S]
<1>1. SumFunctionOnSet(g, S) = (CHOOSE it : SumTable(it, g, SUBSET S))[S]
  BY Zenon DEF SumFunctionOnSet, FoldFunctionOnSet, MapThenFoldSet, SumTable, First
<1>2. QED
  BY <1>1, TableExists

\* The sum of nothing is 0.
LEMMA SumOfNothing ==
  ASSUME NEW g
  PROVE  SumFunctionOnSet(g, {}) = 0
<1>1. PICK it : SumTable(it, g, SUBSET {}) /\ SumFunctionOnSet(g, {}) = it[{}]
  BY SumUnfolds, FS_EmptySet
<1>2. QED
  BY <1>1 DEF SumTable

\* The sum of finitely many natural numbers is a natural number.
LEMMA SumIsNat ==
  ASSUME NEW S, IsFiniteSet(S), NEW g \in [S -> Nat]
  PROVE  SumFunctionOnSet(g, S) \in Nat
<1>1. PICK it : SumTable(it, g, SUBSET S) /\ SumFunctionOnSet(g, S) = it[S]
  BY SumUnfolds
<1> DEFINE Bad == {s \in SUBSET S : it[s] \notin Nat}
<1>2. SUFFICES ASSUME Bad # {} PROVE FALSE
  BY <1>1
<1>3. PICK s \in Bad : \A t \in Bad : ~(t \subseteq s /\ t # s)
  <2>1. Bad \in SUBSET SUBSET S
    OBVIOUS
  <2> HIDE DEF Bad
  <2>2. QED
    BY <1>2, <2>1, LeastSubset
<1>4. s # {}
  BY <1>1 DEF SumTable
<1>5. First(s) \in s
  BY <1>4 DEF First
<1>6. it[s] = g[First(s)] + it[s \ {First(s)}]
  BY <1>1, <1>4 DEF SumTable
<1>7. s \ {First(s)} \notin Bad
  BY <1>3, <1>5
<1>8. QED
  BY <1>5, <1>6, <1>7

\* A sum over a set that is not empty is its first summand and the sum of the rest.
LEMMA SumStep ==
  ASSUME NEW g, NEW S, IsFiniteSet(S), S # {}
  PROVE  SumFunctionOnSet(g, S) = g[First(S)] + SumFunctionOnSet(g, S \ {First(S)})
<1> DEFINE R == S \ {First(S)}
<1>1. PICK it : SumTable(it, g, SUBSET S) /\ SumFunctionOnSet(g, S) = it[S]
  BY SumUnfolds
<1>2. IsFiniteSet(R)
  BY FirstRemoved
<1>3. PICK less : SumTable(less, g, SUBSET R) /\ SumFunctionOnSet(g, R) = less[R]
  BY <1>2, SumUnfolds
<1>4. it[S] = g[First(S)] + it[R]
  BY <1>1 DEF SumTable
<1> DEFINE Bad == {t \in SUBSET R : it[t] # less[t]}
<1>5. Bad = {}
  <2>1. SUFFICES ASSUME Bad # {} PROVE FALSE
    OBVIOUS
  <2>2. PICK t \in Bad : \A u \in Bad : ~(u \subseteq t /\ u # t)
    <3>1. Bad \in SUBSET SUBSET R
      OBVIOUS
    <3> HIDE DEF Bad, R
    <3>2. QED
      BY <1>2, <2>1, <3>1, LeastSubset
  <2>3. t \in SUBSET S /\ t \in SUBSET R
    OBVIOUS
  <2>4. t # {}
    BY <1>1, <1>3 DEF SumTable
  <2>5. First(t) \in t
    BY <2>4 DEF First
  <2>6. /\ it[t] = g[First(t)] + it[t \ {First(t)}]
        /\ less[t] = g[First(t)] + less[t \ {First(t)}]
    BY <1>1, <1>3, <2>3, <2>4 DEF SumTable
  <2>7. t \ {First(t)} \notin Bad
    BY <2>2, <2>5
  <2>8. QED
    BY <2>3, <2>6, <2>7
<1>6. it[R] = less[R]
  BY <1>5
<1>7. QED
  BY <1>1, <1>3, <1>4, <1>6

\* The sum of finitely many integers is an integer.
LEMMA SumIsInt ==
  ASSUME NEW g, NEW S, IsFiniteSet(S), \A x \in S : g[x] \in Int
  PROVE  SumFunctionOnSet(g, S) \in Int
<1> DEFINE Bad == {s \in SUBSET S : SumFunctionOnSet(g, s) \notin Int}
<1>1. SUFFICES ASSUME Bad # {} PROVE FALSE
  OBVIOUS
<1>2. PICK s \in Bad : \A t \in Bad : ~(t \subseteq s /\ t # s)
  <2>1. Bad \in SUBSET SUBSET S
    OBVIOUS
  <2> HIDE DEF Bad
  <2>2. QED
    BY <1>1, <2>1, LeastSubset
<1>3. s # {}
  BY SumOfNothing
<1>4. First(s) \in s /\ IsFiniteSet(s)
  BY <1>3, FS_Subset DEF First
<1>5. SumFunctionOnSet(g, s) = g[First(s)] + SumFunctionOnSet(g, s \ {First(s)})
  BY <1>3, <1>4, SumStep
<1>6. s \ {First(s)} \notin Bad
  BY <1>2, <1>4
<1>7. QED
  BY <1>4, <1>5, <1>6

\* Any summand can be taken out first: a sum has no order.
LEMMA SumRemove ==
  ASSUME NEW g, NEW S, IsFiniteSet(S), \A x \in S : g[x] \in Int, NEW a \in S
  PROVE  SumFunctionOnSet(g, S) = g[a] + SumFunctionOnSet(g, S \ {a})
<1> DEFINE Sum(s) == SumFunctionOnSet(g, s)
           Bad == {s \in SUBSET S : \E e \in s : Sum(s) # g[e] + Sum(s \ {e})}
<1>1. SUFFICES ASSUME Bad # {} PROVE FALSE
  OBVIOUS
<1>2. PICK s \in Bad : \A t \in Bad : ~(t \subseteq s /\ t # s)
  <2>1. Bad \in SUBSET SUBSET S
    OBVIOUS
  <2> HIDE DEF Bad
  <2>2. QED
    BY <1>1, <2>1, LeastSubset
<1>3. PICK e \in s : Sum(s) # g[e] + Sum(s \ {e})
  OBVIOUS
<1> DEFINE f == First(s)
           u == s \ {f}
           v == s \ {e}
           r == u \ {e}
<1>4. f \in s /\ IsFiniteSet(s)
  BY <1>3, FS_Subset DEF First
<1>5. Sum(s) = g[f] + Sum(u)
  BY <1>3, <1>4, SumStep
<1>6. e # f
  BY <1>3, <1>5
<1>7. u \notin Bad /\ v \notin Bad
  BY <1>2, <1>4
<1>8. Sum(u) = g[e] + Sum(r)
  BY <1>6, <1>7
<1>9. Sum(v) = g[f] + Sum(v \ {f})
  BY <1>4, <1>6, <1>7
<1>10. v \ {f} = r
  OBVIOUS
<1>11. Sum(r) \in Int /\ g[e] \in Int /\ g[f] \in Int
  BY <1>4, FS_Subset, SumIsInt
<1>12. Sum(v) = g[f] + Sum(r)
  BY <1>9, <1>10
<1>13. Sum(s) # g[e] + Sum(v)
  BY <1>3
<1>14. QED
  BY <1>5, <1>8, <1>11, <1>12, <1>13

\* The sum only depends on the summands.
LEMMA SumSame ==
  ASSUME NEW g, NEW h, NEW S, IsFiniteSet(S), \A x \in S : g[x] = h[x]
  PROVE  SumFunctionOnSet(g, S) = SumFunctionOnSet(h, S)
<1> DEFINE Bad == {s \in SUBSET S : SumFunctionOnSet(g, s) # SumFunctionOnSet(h, s)}
<1>1. SUFFICES ASSUME Bad # {} PROVE FALSE
  OBVIOUS
<1>2. PICK s \in Bad : \A t \in Bad : ~(t \subseteq s /\ t # s)
  <2>1. Bad \in SUBSET SUBSET S
    OBVIOUS
  <2> HIDE DEF Bad
  <2>2. QED
    BY <1>1, <2>1, LeastSubset
<1>3. s # {}
  BY SumOfNothing
<1>4. First(s) \in s /\ IsFiniteSet(s)
  BY <1>3, FS_Subset DEF First
<1>5. /\ SumFunctionOnSet(g, s) = g[First(s)] + SumFunctionOnSet(g, s \ {First(s)})
      /\ SumFunctionOnSet(h, s) = h[First(s)] + SumFunctionOnSet(h, s \ {First(s)})
  BY <1>3, <1>4, SumStep
<1>6. s \ {First(s)} \notin Bad
  BY <1>2, <1>4
<1>7. QED
  BY <1>4, <1>5, <1>6

\* One summand that grows by d makes the sum grow by d.
LEMMA SumUpdate ==
  ASSUME NEW g, NEW h, NEW S, IsFiniteSet(S), \A x \in S : g[x] \in Int,
         NEW a \in S, NEW d \in Int,
         \A x \in S \ {a} : h[x] = g[x], h[a] = g[a] + d
  PROVE  SumFunctionOnSet(h, S) = SumFunctionOnSet(g, S) + d
<1>1. \A x \in S : h[x] \in Int
  OBVIOUS
<1>2. IsFiniteSet(S \ {a})
  BY FS_RemoveElement
<1>3. SumFunctionOnSet(g, S \ {a}) \in Int
  BY <1>2, SumIsInt
<1>4. SumFunctionOnSet(h, S \ {a}) = SumFunctionOnSet(g, S \ {a})
  BY <1>2, SumSame
<1>5. /\ SumFunctionOnSet(g, S) = g[a] + SumFunctionOnSet(g, S \ {a})
      /\ SumFunctionOnSet(h, S) = h[a] + SumFunctionOnSet(h, S \ {a})
  BY <1>1, SumRemove
<1>6. QED
  BY <1>3, <1>4, <1>5

\* A sum of zeros is 0.
LEMMA SumOfZeros ==
  ASSUME NEW g, NEW S, IsFiniteSet(S), \A x \in S : g[x] = 0
  PROVE  SumFunctionOnSet(g, S) = 0
<1> DEFINE Bad == {s \in SUBSET S : SumFunctionOnSet(g, s) # 0}
<1>1. SUFFICES ASSUME Bad # {} PROVE FALSE
  OBVIOUS
<1>2. PICK s \in Bad : \A t \in Bad : ~(t \subseteq s /\ t # s)
  <2>1. Bad \in SUBSET SUBSET S
    OBVIOUS
  <2> HIDE DEF Bad
  <2>2. QED
    BY <1>1, <2>1, LeastSubset
<1>3. s # {}
  BY SumOfNothing
<1>4. First(s) \in s /\ IsFiniteSet(s)
  BY <1>3, FS_Subset DEF First
<1>5. SumFunctionOnSet(g, s) = g[First(s)] + SumFunctionOnSet(g, s \ {First(s)})
  BY <1>3, <1>4, SumStep
<1>6. s \ {First(s)} \notin Bad
  BY <1>2, <1>4
<1>7. QED
  BY <1>4, <1>5, <1>6

\* A sum over two sets that do not meet is the sum of both sums.
LEMMA SumUnion ==
  ASSUME NEW g, NEW S, NEW T, IsFiniteSet(S), IsFiniteSet(T), S \cap T = {},
         \A x \in S \cup T : g[x] \in Int
  PROVE  SumFunctionOnSet(g, S \cup T) = SumFunctionOnSet(g, S) + SumFunctionOnSet(g, T)
<1> DEFINE Sum(s) == SumFunctionOnSet(g, s)
           Bad == {s \in SUBSET S : Sum(s \cup T) # Sum(s) + Sum(T)}
<1>1. SUFFICES ASSUME Bad # {} PROVE FALSE
  OBVIOUS
<1>2. PICK s \in Bad : \A t \in Bad : ~(t \subseteq s /\ t # s)
  <2>1. Bad \in SUBSET SUBSET S
    OBVIOUS
  <2> HIDE DEF Bad
  <2>2. QED
    BY <1>1, <2>1, LeastSubset
<1>3. Sum(T) \in Int
  BY SumIsInt
<1>4. s # {}
  <2>1. SUFFICES ASSUME s = {} PROVE FALSE
    OBVIOUS
  <2>2. s \cup T = T
    BY <2>1
  <2>3. Sum(s \cup T) = Sum(T) /\ Sum(s) = 0
    BY <2>1, <2>2, SumOfNothing
  <2>4. Sum(s \cup T) # Sum(s) + Sum(T)
    BY <1>2
  <2>5. QED
    BY <1>3, <2>3, <2>4
<1>5. PICK e \in s : TRUE
  BY <1>4
<1>6. IsFiniteSet(s) /\ IsFiniteSet(s \cup T)
  BY FS_Subset, FS_Union
<1>7. (s \cup T) \ {e} = (s \ {e}) \cup T
  OBVIOUS
<1>8. Sum(s \cup T) = g[e] + Sum((s \cup T) \ {e})
  BY <1>6, SumRemove
<1>9. Sum(s) = g[e] + Sum(s \ {e})
  BY <1>6, SumRemove
<1>10. s \ {e} \notin Bad
  BY <1>2
<1>11. Sum(s \ {e}) \in Int /\ g[e] \in Int
  BY <1>6, FS_Subset, SumIsInt
<1>12. Sum((s \ {e}) \cup T) = Sum(s \ {e}) + Sum(T)
  BY <1>10
<1>13. Sum(s \cup T) # Sum(s) + Sum(T)
  BY <1>2
<1>14. Sum(s \cup T) = g[e] + (Sum(s \ {e}) + Sum(T))
  BY <1>7, <1>8, <1>12
<1>15. QED
  BY <1>3, <1>9, <1>11, <1>13, <1>14

\* The members of X in the groups of T.
Members(X, group, T) == {x \in X : group[x] \in T}

\* b holds, for each group of S, the sum of h over the members of that group.
SumsOfGroups(b, S, h, X, group) ==
  \A s \in S : b[s] = SumFunctionOnSet(h, Members(X, group, {s}))

\* Sums by group: if b holds the sum of h over each group of X, then b sums up
\* to the sum of h over the members of all groups.
LEMMA SumOfGroups ==
  ASSUME NEW h, NEW X, IsFiniteSet(X), \A x \in X : h[x] \in Int, NEW group,
         NEW b, NEW S, IsFiniteSet(S), SumsOfGroups(b, S, h, X, group)
  PROVE  SumFunctionOnSet(b, S) = SumFunctionOnSet(h, Members(X, group, S))
<1> DEFINE In(t) == Members(X, group, t)
           Bad == {t \in SUBSET S : SumFunctionOnSet(b, t) # SumFunctionOnSet(h, In(t))}
<1>1. SUFFICES ASSUME Bad # {} PROVE FALSE
  OBVIOUS
<1>2. PICK t \in Bad : \A u \in Bad : ~(u \subseteq t /\ u # t)
  <2>1. Bad \in SUBSET SUBSET S
    OBVIOUS
  <2> HIDE DEF Bad
  <2>2. QED
    BY <1>1, <2>1, LeastSubset
<1>3. t # {}
  <2>1. In({}) = {}
    BY DEF Members
  <2> HIDE DEF In
  <2>2. QED
    BY <1>2, <2>1, SumOfNothing
<1> DEFINE f == First(t)
           r == t \ {f}
           members == Members(X, group, {f})
<1>4. f \in t /\ IsFiniteSet(t)
  BY <1>3, FS_Subset DEF First
<1>5. SumFunctionOnSet(b, t) = b[f] + SumFunctionOnSet(b, r)
  BY <1>3, <1>4, SumStep
<1>6. In(t) = members \cup In(r) /\ members \cap In(r) = {}
  BY <1>4 DEF Members
<1>7. IsFiniteSet(members) /\ IsFiniteSet(In(r))
      /\ \A x \in members \cup In(r) : h[x] \in Int
  BY FS_Subset DEF Members
<1>8. r \notin Bad /\ r \in SUBSET S
  BY <1>2, <1>4
<1>9. SumFunctionOnSet(b, r) = SumFunctionOnSet(h, In(r))
  BY <1>8
<1>10. b[f] = SumFunctionOnSet(h, members)
  BY <1>4 DEF SumsOfGroups
<1>11. SumFunctionOnSet(b, t) # SumFunctionOnSet(h, In(t))
  BY <1>2
<1> HIDE DEF In, f, r, members
<1>12. SumFunctionOnSet(h, members \cup In(r))
         = SumFunctionOnSet(h, members) + SumFunctionOnSet(h, In(r))
  BY <1>6, <1>7, SumUnion
<1>13. QED
  BY <1>5, <1>6, <1>9, <1>10, <1>11, <1>12

\* Where each summand of h is within one of twice that of g, the sums are as close
\* as there are summands.
LEMMA SumWithin ==
  ASSUME NEW g, NEW h, NEW S, IsFiniteSet(S), \A x \in S : g[x] \in Int /\ h[x] \in Int,
         \A x \in S : 2 * g[x] - h[x] \in -1 .. 1
  PROVE  /\ 2 * SumFunctionOnSet(g, S) - SumFunctionOnSet(h, S) \in -Cardinality(S) .. Cardinality(S)
         /\ SumFunctionOnSet(g, S) \in Int /\ SumFunctionOnSet(h, S) \in Int
<1> DEFINE G(t) == SumFunctionOnSet(g, t)
           H(t) == SumFunctionOnSet(h, t)
           Bad == {t \in SUBSET S : ~(2 * G(t) - H(t) \in -Cardinality(t) .. Cardinality(t))}
<1>1. ASSUME NEW t \in SUBSET S
      PROVE  IsFiniteSet(t) /\ Cardinality(t) \in Nat /\ G(t) \in Int /\ H(t) \in Int
  <2>1. IsFiniteSet(t) /\ Cardinality(t) \in Nat
    BY FS_Subset, FS_CardinalityType
  <2>2. QED
    BY <2>1, SumIsInt
<1>2. SUFFICES ASSUME Bad # {} PROVE FALSE
  BY <1>1
<1>3. PICK t \in Bad : \A u \in Bad : ~(u \subseteq t /\ u # t)
  <2>1. Bad \in SUBSET SUBSET S
    OBVIOUS
  <2> HIDE DEF Bad
  <2>2. QED
    BY <1>2, <2>1, LeastSubset
<1>4. t # {}
  <2>1. G({}) = 0 /\ H({}) = 0 /\ Cardinality({}) = 0
    BY SumOfNothing, FS_EmptySet
  <2>2. 2 * G({}) - H({}) \in -Cardinality({}) .. Cardinality({})
    BY <2>1
  <2>3. QED
    BY <1>3, <2>2
<1> DEFINE a == First(t)
           u == t \ {a}
<1>5. a \in t /\ u \in SUBSET S /\ u # t /\ u \subseteq t /\ Cardinality(u) = Cardinality(t) - 1
  BY <1>1, <1>4, FirstRemoved
<1>6. G(t) = g[a] + G(u) /\ H(t) = h[a] + H(u)
  BY <1>1, <1>4, SumStep
<1>7. 2 * G(u) - H(u) \in -Cardinality(u) .. Cardinality(u)
  BY <1>3, <1>5
<1>8. 2 * g[a] - h[a] \in -1 .. 1 /\ g[a] \in Int /\ h[a] \in Int
  BY <1>5
<1>9. G(u) \in Int /\ H(u) \in Int /\ Cardinality(u) \in Nat /\ Cardinality(t) \in Nat
  BY <1>1, <1>5
<1> HIDE DEF G, H, a, u
<1>10. 2 * G(t) - H(t) \in -Cardinality(t) .. Cardinality(t)
  BY <1>5, <1>6, <1>7, <1>8, <1>9
<1>11. QED
  BY <1>3, <1>10

=============================================================================
