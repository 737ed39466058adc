---------------------------- MODULE FoldTheorems ----------------------------
(***************************************************************************)
(* Sums over finite sets and selections from lists, for every size: what   *)
(* the folds of the model compute. The induction they need is stated as a  *)
(* least counterexample, which is a first-order fact: a set of numbers has *)
(* a least element (NatLessThanWellFounded) and a set of subsets of a      *)
(* finite set a minimal one (FS_StrictSubsetOrderingWellFounded).          *)
(***************************************************************************)
EXTENDS Selection, FiniteSetsExt, FiniteSetTheorems, WellFoundedInduction, TLAPS

\* A set of natural numbers that is not empty has a least element.
LEMMA LeastElement ==
  ASSUME NEW T \in SUBSET Nat, T # {}
  PROVE  \E n \in T : \A m \in T : n <= m
<1>1. PICK n \in T : \A m \in T : <<m, n>> \notin OpToRel(<, Nat)
  BY NatLessThanWellFounded, WFMin, Zenon
<1>2. \A m \in T : ~(m < n)
  BY <1>1, Zenon DEF OpToRel
<1> QED BY <1>2

\* A set of subsets of a finite set has a member none of whose subsets with one
\* element less is in it.
LEMMA LeastSubset ==
  ASSUME NEW S, IsFiniteSet(S), NEW T \in SUBSET SUBSET S, T # {}
  PROVE  \E s \in T : \A x \in s : s \ {x} \notin T
<1>1. IsWellFoundedOn(StrictSubsetOrdering(S), SUBSET S)
  BY FS_StrictSubsetOrderingWellFounded, FS_FiniteSubsetsOfFinite
<1>2. PICK s \in T : \A u \in T : <<u, s>> \notin StrictSubsetOrdering(S)
  BY <1>1, WFMin
<1>3. \A x \in s : s \ {x} \notin T
  BY <1>2 DEF StrictSubsetOrdering
<1> QED BY <1>3

\* it is the sum of f over each subset of S.
Adds(it, f, S) ==
  /\ it \in [SUBSET S -> Nat] /\ it[{}] = 0
  /\ \A s \in SUBSET S : \A x \in s : it[s] = f[x] + it[s \ {x}]

\* The sum over the subsets of a finite set exists, in whatever order it is taken.
LEMMA AddsExists ==
  ASSUME NEW S, IsFiniteSet(S), NEW f, \A x \in S : f[x] \in Nat
  PROVE  \E it : Adds(it, f, S)
<1> DEFINE T == {s \in SUBSET S : ~ \E it : Adds(it, f, s)}
<1>1. SUFFICES T = {}
  OBVIOUS
<1>2. SUFFICES ASSUME T # {} PROVE FALSE
  OBVIOUS
<1>3. PICK s \in T : \A x \in s : s \ {x} \notin T
  <2> HIDE DEF T
  <2>1. T \in SUBSET SUBSET S
    BY DEF T
  <2> QED BY <2>1, <1>2, LeastSubset
<1>4. s # {}
  <2>1. Adds([u \in {{}} |-> 0], f, {})
    BY DEF Adds
  <2> QED BY <2>1, <1>3
<1>5. PICK x \in s : TRUE
  BY <1>4
<1>6. PICK it : Adds(it, f, s \ {x})
  BY <1>3, <1>5
<1> DEFINE it2 == [u \in SUBSET s |-> IF x \in u THEN f[x] + it[u \ {x}] ELSE it[u]]
<1>7. x \in S /\ f[x] \in Nat
  BY <1>3, <1>5
<1>8. it2 \in [SUBSET s -> Nat]
  <2>1. ASSUME NEW u \in SUBSET s, x \in u PROVE f[x] + it[u \ {x}] \in Nat
    <3>1. it[u \ {x}] \in Nat
      BY <1>6, u \ {x} \in SUBSET (s \ {x}) DEF Adds
    <3> QED BY <3>1, <1>7
  <2>2. ASSUME NEW u \in SUBSET s, x \notin u PROVE it[u] \in Nat
    BY <2>2, <1>6, u \in SUBSET (s \ {x}) DEF Adds
  <2> QED BY <2>1, <2>2
<1>9. it2[{}] = 0
  BY <1>6 DEF Adds
<1>10. ASSUME NEW u \in SUBSET s, NEW y \in u
       PROVE  it2[u] = f[y] + it2[u \ {y}]
  <2>0. f[y] \in Nat /\ u \ {y} \in SUBSET s
    BY <1>10, <1>3
  <2>1. CASE y = x
    <3>1. it2[u] = f[x] + it[u \ {x}] /\ it2[u \ {x}] = it[u \ {x}]
      BY <2>1
    <3> QED BY <3>1, <2>1
  <2>2. CASE y # x /\ x \notin u
    <3>1. it[u] = f[y] + it[u \ {y}]
      BY <1>6, <2>2, u \in SUBSET (s \ {x}) DEF Adds
    <3>2. it2[u] = it[u] /\ it2[u \ {y}] = it[u \ {y}]
      BY <2>2, <2>0
    <3> QED BY <3>1, <3>2
  <2>3. CASE y # x /\ x \in u
    <3> DEFINE v == u \ {x}
               w == v \ {y}
    <3>1. v \in SUBSET (s \ {x}) /\ y \in v /\ w \in SUBSET (s \ {x})
      BY <2>3
    <3>2. it[v] = f[y] + it[w] /\ it[w] \in Nat
      BY <3>1, <1>6 DEF Adds
    <3>3. (u \ {y}) \ {x} = w /\ x \in u \ {y}
      BY <2>3
    <3>4. it2[u] = f[x] + it[v] /\ it2[u \ {y}] = f[x] + it[w]
      BY <2>3, <3>3, <2>0
    <3> HIDE DEF v, w, it2
    <3> QED BY <3>2, <3>4, <1>7, <2>0
  <2> QED BY <2>1, <2>2, <2>3
<1>11. Adds(it2, f, s)
  BY <1>8, <1>9, <1>10 DEF Adds
<1> QED BY <1>11, <1>3

\* A function built by recursion, one element of the set at a time.
Recurs(it, f, S) ==
  /\ it[{}] = 0
  /\ \A s \in SUBSET S : s # {} =>
       \E x \in s : it[s \ {x}] \in Nat => it[s] = f[x] + it[s \ {x}]

\* What a recursion that takes some element at a time computes is the sum.
LEMMA RecursUnique ==
  ASSUME NEW S, IsFiniteSet(S), NEW f, \A x \in S : f[x] \in Nat,
         NEW it, Adds(it, f, S), NEW jt, Recurs(jt, f, S)
  PROVE  jt[S] = it[S]
<1> DEFINE T == {s \in SUBSET S : jt[s] # it[s]}
<1>1. SUFFICES ASSUME T # {} PROVE FALSE
  OBVIOUS
<1>2. PICK s \in T : \A x \in s : s \ {x} \notin T
  <2> HIDE DEF T
  <2>1. T \in SUBSET SUBSET S
    BY DEF T
  <2> QED BY <2>1, <1>1, LeastSubset
<1>3. s # {}
  BY <1>2 DEF Adds, Recurs
<1>4. PICK x \in s : jt[s \ {x}] \in Nat => jt[s] = f[x] + jt[s \ {x}]
  BY <1>2, <1>3 DEF Recurs
<1>5. jt[s \ {x}] = it[s \ {x}] /\ it[s \ {x}] \in Nat
  BY <1>2, <1>4 DEF Adds
<1>6. it[s] = f[x] + it[s \ {x}]
  BY <1>2, <1>4 DEF Adds
<1> QED BY <1>2, <1>4, <1>5, <1>6

\* The sum is such a recursion.
LEMMA AddsRecurs ==
  ASSUME NEW S, NEW f, NEW it, Adds(it, f, S)
  PROVE  Recurs(it, f, S)
BY DEF Adds, Recurs

\* The sum of f over S.
Total(f, S) == (CHOOSE it : Adds(it, f, S))[S]

\* The total is a natural number, and what every such recursion computes.
LEMMA TotalOf ==
  ASSUME NEW S, IsFiniteSet(S), NEW f, \A x \in S : f[x] \in Nat
  PROVE  /\ Total(f, S) \in Nat
         /\ \A jt : Recurs(jt, f, S) => jt[S] = Total(f, S)
<1> DEFINE it == CHOOSE jt : Adds(jt, f, S)
<1>1. Adds(it, f, S)
  BY AddsExists
<1>2. Total(f, S) = it[S]
  BY DEF Total
<1> HIDE DEF it
<1>3. Total(f, S) \in Nat
  BY <1>1, <1>2 DEF Adds
<1>4. ASSUME NEW jt, Recurs(jt, f, S) PROVE jt[S] = Total(f, S)
  BY <1>1, <1>2, <1>4, RecursUnique
<1> QED BY <1>3, <1>4

\* The total over no elements is 0.
LEMMA TotalEmpty == ASSUME NEW f PROVE Total(f, {}) = 0
<1> DEFINE jt == [s \in SUBSET {} |-> 0]
<1>1. Recurs(jt, f, {})
  BY DEF Recurs
<1>2. IsFiniteSet({})
  BY FS_EmptySet
<1>3. jt[{}] = 0
  OBVIOUS
<1> HIDE DEF jt
<1> QED BY <1>1, <1>2, <1>3, TotalOf

\* Each element counts once in the total.
LEMMA TotalElement ==
  ASSUME NEW S, IsFiniteSet(S), NEW f, \A x \in S : f[x] \in Nat, NEW y \in S
  PROVE  Total(f, S) = f[y] + Total(f, S \ {y})
<1>1. PICK it : Adds(it, f, S)
  BY AddsExists
<1>2. Total(f, S) = it[S]
  BY <1>1, AddsRecurs, TotalOf
<1>3. it[S] = f[y] + it[S \ {y}]
  BY <1>1 DEF Adds
<1>4. Total(f, S \ {y}) = it[S \ {y}]
  <2>1. IsFiniteSet(S \ {y})
    BY FS_RemoveElement
  <2>2. Recurs(it, f, S \ {y})
    <3>1. Recurs(it, f, S)
      BY <1>1, AddsRecurs
    <3> QED BY <3>1 DEF Recurs
  <2> QED BY <2>1, <2>2, TotalOf
<1> QED BY <1>2, <1>3, <1>4

\* The total depends only on what the elements are worth.
LEMMA TotalSame ==
  ASSUME NEW S, IsFiniteSet(S), NEW f, NEW g, \A x \in S : f[x] \in Nat /\ g[x] = f[x]
  PROVE  Total(g, S) = Total(f, S)
<1>1. PICK it : Adds(it, g, S)
  BY AddsExists
<1>2. Recurs(it, g, S)
  BY <1>1, AddsRecurs
<1>3. Recurs(it, f, S)
  BY <1>2 DEF Recurs
<1>4. it[S] = Total(g, S)
  BY <1>2, TotalOf
<1>5. it[S] = Total(f, S)
  BY <1>3, TotalOf
<1> QED BY <1>4, <1>5

\* A part is worth no more than the whole.
LEMMA TotalSubset ==
  ASSUME NEW S, IsFiniteSet(S), NEW f, \A x \in S : f[x] \in Nat, NEW R \in SUBSET S
  PROVE  Total(f, R) <= Total(f, S)
<1> DEFINE T == {s \in SUBSET S : R \subseteq s /\ ~(Total(f, R) <= Total(f, s))}
<1>1. \A s \in SUBSET S : IsFiniteSet(s) /\ Total(f, s) \in Nat
  BY FS_Subset, TotalOf
<1>2. SUFFICES ASSUME T # {} PROVE FALSE
  OBVIOUS
<1>3. PICK s \in T : \A x \in s : s \ {x} \notin T
  <2> HIDE DEF T
  <2>1. T \in SUBSET SUBSET S
    BY DEF T
  <2> QED BY <2>1, <1>2, LeastSubset
<1>4. s # R
  BY <1>1, <1>3
<1>5. PICK x \in s : x \notin R
  BY <1>3, <1>4
<1>6. Total(f, R) <= Total(f, s \ {x})
  BY <1>3, <1>5
<1>7. Total(f, s) = f[x] + Total(f, s \ {x}) /\ f[x] \in Nat
  BY <1>1, <1>3, <1>5, TotalElement
<1>8. Total(f, s \ {x}) \in Nat /\ Total(f, R) \in Nat
  BY <1>1, <1>3
<1> QED BY <1>3, <1>6, <1>7, <1>8

\* Elements that are worth nothing have total 0.
LEMMA TotalZero ==
  ASSUME NEW S, IsFiniteSet(S), NEW f, \A x \in S : f[x] = 0
  PROVE  Total(f, S) = 0
<1> DEFINE T == {s \in SUBSET S : Total(f, s) # 0}
<1>1. SUFFICES ASSUME T # {} PROVE FALSE
  OBVIOUS
<1>2. PICK s \in T : \A x \in s : s \ {x} \notin T
  <2> HIDE DEF T
  <2>1. T \in SUBSET SUBSET S
    BY DEF T
  <2> QED BY <2>1, <1>1, LeastSubset
<1>3. PICK x \in s : TRUE
  BY <1>2, TotalEmpty
<1>4. Total(f, s) = f[x] + Total(f, s \ {x})
  BY <1>2, <1>3, FS_Subset, TotalElement
<1>5. Total(f, s \ {x}) = 0 /\ f[x] = 0
  BY <1>2, <1>3
<1> QED BY <1>2, <1>4, <1>5

\* When one element is worth something else, the total differs by that.
LEMMA TotalChange ==
  ASSUME NEW S, IsFiniteSet(S), NEW f, NEW g, \A x \in S : f[x] \in Nat /\ g[x] \in Nat,
         NEW y \in S, \A x \in S \ {y} : g[x] = f[x]
  PROVE  Total(g, S) + f[y] = Total(f, S) + g[y]
<1>1. IsFiniteSet(S \ {y})
  BY FS_RemoveElement
<1>2. Total(g, S \ {y}) = Total(f, S \ {y}) /\ Total(f, S \ {y}) \in Nat
  BY <1>1, TotalSame, TotalOf
<1>3. /\ Total(f, S) = f[y] + Total(f, S \ {y}) /\ f[y] \in Nat
      /\ Total(g, S) = g[y] + Total(g, S \ {y}) /\ g[y] \in Nat
  BY TotalElement
<1> QED BY <1>2, <1>3

\* When each element is worth at most M more in f than in g, and only those of Z
\* are, the totals differ by at most M for each element of Z.
LEMMA TotalBound ==
  ASSUME NEW S, IsFiniteSet(S), NEW Z, NEW M \in Nat,
         NEW f, NEW g, \A x \in S : f[x] \in Nat /\ g[x] \in Nat,
         \A x \in S : f[x] <= g[x] + (IF x \in Z THEN M ELSE 0)
  PROVE  /\ Cardinality(Z \cap S) \in Nat
         /\ Total(f, S) <= Total(g, S) + M * Cardinality(Z \cap S)
<1> DEFINE T == {s \in SUBSET S : ~(Total(f, s) <= Total(g, s) + M * Cardinality(Z \cap s))}
<1>0. \A s \in SUBSET S : /\ IsFiniteSet(s) /\ IsFiniteSet(Z \cap s)
                          /\ Cardinality(Z \cap s) \in Nat
  BY FS_Subset, FS_CardinalityType
<1>1. SUFFICES ASSUME T # {} PROVE FALSE
  BY <1>0
<1>2. PICK s \in T : \A x \in s : s \ {x} \notin T
  <2> HIDE DEF T
  <2>1. T \in SUBSET SUBSET S
    BY DEF T
  <2> QED BY <2>1, <1>1, LeastSubset
<1>3. s # {}
  <2>1. Cardinality(Z \cap {}) = 0
    BY FS_EmptySet
  <2>2. Total(f, {}) = 0 /\ Total(g, {}) = 0
    BY TotalEmpty
  <2>3. Total(f, {}) <= Total(g, {}) + M * Cardinality(Z \cap {})
    BY <2>1, <2>2
  <2> QED BY <2>3, <1>2
<1>4. PICK x \in s : TRUE
  BY <1>3
<1> DEFINE r == s \ {x}
<1>5. s \in SUBSET S /\ r \in SUBSET S /\ x \in S
  BY <1>2, <1>4
<1>6. Total(f, r) <= Total(g, r) + M * Cardinality(Z \cap r)
  BY <1>2, <1>4, <1>5
<1>7. Total(f, s) = f[x] + Total(f, r) /\ Total(g, s) = g[x] + Total(g, r)
  BY <1>5, <1>0, <1>4, TotalElement
<1>8. Total(f, r) \in Nat /\ Total(g, r) \in Nat
  BY <1>5, <1>0, TotalOf
<1>9. ~(Total(f, s) <= Total(g, s) + M * Cardinality(Z \cap s))
  BY <1>2
<1>10. f[x] \in Nat /\ g[x] \in Nat /\ f[x] <= g[x] + (IF x \in Z THEN M ELSE 0)
  BY <1>5
<1> DEFINE c == Cardinality(Z \cap r)
<1>11. c \in Nat
  BY <1>0, <1>5
<1>12. CASE x \in Z
  <2>1. Z \cap s = (Z \cap r) \cup {x} /\ x \notin Z \cap r
    BY <1>12, <1>4
  <2>2. Cardinality(Z \cap s) = c + 1
    BY <2>1, <1>0, <1>5, FS_AddElement
  <2>3. M * (c + 1) = M * c + M /\ M * c \in Nat
    BY <1>11
  <2> HIDE DEF r, c, T
  <2> QED BY <2>2, <2>3, <1>6, <1>7, <1>8, <1>9, <1>10, <1>12 DEF c
<1>13. CASE x \notin Z
  <2>1. Cardinality(Z \cap s) = c
    <3>1. Z \cap s = Z \cap r
      BY <1>13, <1>4
    <3> QED BY <3>1
  <2>2. M * c \in Nat /\ f[x] <= g[x]
    BY <1>10, <1>11, <1>13
  <2> HIDE DEF r, c, T
  <2>3. ~(f[x] + Total(f, r) <= g[x] + Total(g, r) + M * c)
    BY <2>1, <1>7, <1>9
  <2>4. Total(f, r) <= Total(g, r) + M * c
    BY <1>6 DEF c
  <2> QED BY <2>2, <2>3, <2>4, <1>8, <1>10
<1> QED BY <1>12, <1>13

-----------------------------------------------------------------------------
\* The fold over the indices of s that Keep is, for a prefix of length n.
KeepsUpTo(it, s, K, n) ==
  it = [u \in SUBSET (1..n) |->
          IF u = {} THEN <<>>
          ELSE IF s[Max(u)] \in K
                 THEN Append(it[u \ {Max(u)}], s[Max(u)])
                 ELSE it[u \ {Max(u)}]]

\* The fold takes the last index of a prefix first.
LEMMA MaxOfPrefix ==
  ASSUME NEW n \in Nat \ {0}, NEW u \in SUBSET (1..n), n \in u
  PROVE  Max(u) = n
<1>1. n \in u /\ \A y \in u : n >= y
  OBVIOUS
<1>2. \A x \in u : (\A y \in u : x >= y) => x = n
  OBVIOUS
<1> QED BY <1>1, <1>2 DEF Max

\* The fold over a prefix exists.
LEMMA KeepsUpToExists ==
  ASSUME NEW s, NEW K, NEW n \in Nat
  PROVE  \E it : KeepsUpTo(it, s, K, n)
<1> DEFINE T == {m \in Nat : ~ \E it : KeepsUpTo(it, s, K, m)}
<1>1. SUFFICES ASSUME T # {} PROVE FALSE
  OBVIOUS
<1>2. PICK m \in T : \A k \in T : m <= k
  <2> HIDE DEF T
  <2>1. T \in SUBSET Nat
    BY DEF T
  <2> QED BY <2>1, <1>1, LeastElement
<1>3. m # 0
  <2> DEFINE e == [u \in SUBSET (1..0) |-> <<>>]
  <2>1. KeepsUpTo(e, s, K, 0)
    <3>1. \A u \in SUBSET (1..0) : u = {}
      OBVIOUS
    <3> QED BY <3>1 DEF KeepsUpTo
  <2> QED BY <2>1, <1>2
<1>4. m \in Nat \ {0} /\ m - 1 \in Nat
  BY <1>2, <1>3
<1>5. PICK it : KeepsUpTo(it, s, K, m - 1)
  BY <1>2, <1>4
<1> DEFINE New(u) == IF s[m] \in K THEN Append(it[u \ {m}], s[m]) ELSE it[u \ {m}]
           jt == [u \in SUBSET (1..m) |-> IF m \in u THEN New(u) ELSE it[u]]
<1>6. ASSUME NEW u \in SUBSET (1..m), m \in u
      PROVE  jt[u] = IF s[Max(u)] \in K THEN Append(jt[u \ {Max(u)}], s[Max(u)])
                                        ELSE jt[u \ {Max(u)}]
  <2>1. Max(u) = m
    BY <1>4, <1>6, MaxOfPrefix
  <2>2. jt[u] = New(u) /\ jt[u \ {m}] = it[u \ {m}]
    BY <1>6
  <2> HIDE DEF jt
  <2> QED BY <2>1, <2>2
<1>7. ASSUME NEW u \in SUBSET (1..m), m \notin u, u # {}
      PROVE  jt[u] = IF s[Max(u)] \in K THEN Append(jt[u \ {Max(u)}], s[Max(u)])
                                        ELSE jt[u \ {Max(u)}]
  <2>1. u \in SUBSET (1..(m - 1))
    BY <1>7, <1>4
  <2>2. it[u] = IF s[Max(u)] \in K THEN Append(it[u \ {Max(u)}], s[Max(u)])
                                   ELSE it[u \ {Max(u)}]
    BY <1>5, <1>7, <2>1 DEF KeepsUpTo
  <2>3. jt[u] = it[u] /\ jt[u \ {Max(u)}] = it[u \ {Max(u)}]
    BY <1>7
  <2> HIDE DEF jt
  <2> QED BY <2>2, <2>3
<1>8. jt[{}] = <<>>
  <2>1. it[{}] = <<>>
    BY <1>5 DEF KeepsUpTo
  <2> QED BY <2>1
<1>9. KeepsUpTo(jt, s, K, m)
  <2>1. jt = [u \in SUBSET (1..m) |-> jt[u]]
    OBVIOUS
  <2> HIDE DEF jt
  <2> QED BY <1>6, <1>7, <1>8, <2>1 DEF KeepsUpTo
<1> HIDE DEF jt
<1> QED BY <1>9, <1>2

\* Keep goes through the list from its front.
LEMMA KeepSteps ==
  ASSUME NEW A, NEW s \in Seq(A), NEW K
  PROVE  \E g : /\ Keep(s, K) = g[Len(s)] /\ g[0] = <<>>
                /\ \A i \in 1..Len(s) :
                     g[i] = IF s[i] \in K THEN Append(g[i - 1], s[i]) ELSE g[i - 1]
<1> DEFINE n == Len(s)
           it == CHOOSE jt : KeepsUpTo(jt, s, K, n)
           g == [i \in 0..n |-> it[1..i]]
<1>1. n \in Nat /\ DOMAIN s = 1..n
  OBVIOUS
<1>2. KeepsUpTo(it, s, K, n)
  BY <1>1, KeepsUpToExists
<1>3. Keep(s, K) = it[1..n]
  <2>1. Keep(s, K) = (CHOOSE jt : jt = [u \in SUBSET DOMAIN s |->
          IF u = {} THEN <<>>
          ELSE IF s[Max(u)] \in K
                 THEN Append(jt[u \ {Max(u)}], s[Max(u)])
                 ELSE jt[u \ {Max(u)}]])[DOMAIN s]
    BY DEF Keep, FoldLeft, MapThenFoldSet
  <2> QED BY <2>1, <1>1 DEF KeepsUpTo
<1> HIDE DEF it
<1>4. g[0] = <<>>
  <2>1. it[{}] = <<>> /\ 1..0 = {}
    BY <1>2 DEF KeepsUpTo
  <2> QED BY <2>1, <1>1
<1>5. ASSUME NEW i \in 1..n
      PROVE  g[i] = IF s[i] \in K THEN Append(g[i - 1], s[i]) ELSE g[i - 1]
  <2>1. Max(1..i) = i
    BY MaxOfPrefix
  <2>2. 1..i \in SUBSET (1..n) /\ 1..i # {} /\ (1..i) \ {i} = 1..(i - 1)
    <3>1. i \in Nat /\ i >= 1 /\ i <= n
      BY <1>1
    <3>2. \A j : j \in 1..i => j \in 1..n
      BY <3>1, <1>1
    <3>3. i \in 1..i
      BY <3>1
    <3>4. \A j : j \in (1..i) \ {i} <=> j \in 1..(i - 1)
      BY <3>1
    <3> HIDE DEF n
    <3> QED BY <3>2, <3>3, <3>4
  <2>3. it[1..i] = IF s[i] \in K THEN Append(it[1..(i - 1)], s[i]) ELSE it[1..(i - 1)]
    BY <1>2, <2>1, <2>2 DEF KeepsUpTo
  <2> QED BY <2>3, <1>1
<1> QED
  <2>1. Keep(s, K) = g[n]
    BY <1>1, <1>3
  <2> HIDE DEF g
  <2> QED BY <2>1, <1>4, <1>5

\* t holds the elements of K at the places I of s, each from a place of its own.
Picks(t, s, K, I) ==
  /\ \A k \in DOMAIN t : t[k] \in K /\ \E j \in I : t[k] = s[j]
  /\ \A j \in I : s[j] \in K => \E k \in DOMAIN t : t[k] = s[j]
  /\ \A k, l \in DOMAIN t : k # l =>
       \E a, b \in I : a # b /\ t[k] = s[a] /\ t[l] = s[b]

\* One more place: its element is added when it is in K.
LEMMA PicksMore ==
  ASSUME NEW s, NEW t, NEW K, NEW I, NEW i, i \notin I, Picks(t, s, K, I)
  PROVE  /\ s[i] \notin K => Picks(t, s, K, I \cup {i})
         /\ \A u, n : /\ s[i] \in K
                      /\ DOMAIN u = (DOMAIN t) \cup {n} /\ n \notin DOMAIN t
                      /\ u[n] = s[i] /\ \A k \in DOMAIN t : u[k] = t[k]
                      => Picks(u, s, K, I \cup {i})
<1>1. s[i] \notin K => Picks(t, s, K, I \cup {i})
  BY DEF Picks
<1>2. ASSUME s[i] \in K,
             NEW u, NEW n, DOMAIN u = (DOMAIN t) \cup {n}, n \notin DOMAIN t,
             u[n] = s[i], \A k \in DOMAIN t : u[k] = t[k]
      PROVE  Picks(u, s, K, I \cup {i})
  <2>1. \A k \in DOMAIN u : u[k] \in K /\ \E j \in I \cup {i} : u[k] = s[j]
    BY <1>2 DEF Picks
  <2>2. \A j \in I \cup {i} : s[j] \in K => \E k \in DOMAIN u : u[k] = s[j]
    BY <1>2 DEF Picks
  <2>3. \A k \in DOMAIN t : \E a \in I : a # i /\ u[k] = s[a]
    BY <1>2 DEF Picks
  <2>4. \A k, l \in DOMAIN t : k # l =>
          \E a, b \in I : a # b /\ u[k] = s[a] /\ u[l] = s[b]
    BY <1>2 DEF Picks
  <2>5. ASSUME NEW k \in DOMAIN u, NEW l \in DOMAIN u, k # l
        PROVE  \E a, b \in I \cup {i} : a # b /\ u[k] = s[a] /\ u[l] = s[b]
    <3>1. CASE k \in DOMAIN t /\ l \in DOMAIN t
      BY <2>4, <2>5, <3>1
    <3>2. CASE k = n /\ l \in DOMAIN t
      BY <1>2, <2>3, <3>2
    <3>3. CASE k \in DOMAIN t /\ l = n
      BY <1>2, <2>3, <3>3
    <3> QED BY <1>2, <2>5, <3>1, <3>2, <3>3
  <2> QED BY <2>1, <2>2, <2>5 DEF Picks
<1> QED BY <1>1, <1>2

\* Which elements a selection has, and that it repeats none.
LEMMA PicksSet ==
  ASSUME NEW s, NEW t, NEW K, Picks(t, s, K, DOMAIN s)
  PROVE  /\ ToSet(t) = ToSet(s) \cap K
         /\ IsInjective(s) => IsInjective(t)
<1>1. ToSet(t) = ToSet(s) \cap K
  BY DEF Picks, ToSet
<1>2. IsInjective(s) => IsInjective(t)
  BY DEF Picks, IsInjective
<1> QED BY <1>1, <1>2

\* What a list weighs in all.
Weight(s, w) == Total([i \in DOMAIN s |-> w[s[i]]], DOMAIN s)

\* No elements weigh nothing.
LEMMA WeightEmpty == ASSUME NEW w PROVE Weight(<<>>, w) = 0
<1>1. DOMAIN <<>> = {}
  OBVIOUS
<1> QED BY <1>1, TotalEmpty DEF Weight

\* A weight is a natural number.
LEMMA WeightType ==
  ASSUME NEW A, NEW s \in Seq(A), NEW w \in [A -> Nat]
  PROVE  Weight(s, w) \in Nat
<1>1. IsFiniteSet(DOMAIN s)
  <2>1. DOMAIN s = 1..Len(s) /\ Len(s) \in Nat
    OBVIOUS
  <2> QED BY <2>1, FS_Interval
<1>2. \A i \in DOMAIN s : w[s[i]] \in Nat
  OBVIOUS
<1> QED BY <1>1, <1>2, TotalOf DEF Weight

\* An appended element adds its own weight.
LEMMA WeightAppend ==
  ASSUME NEW A, NEW s \in Seq(A), NEW w \in [A -> Nat], NEW x \in A
  PROVE  Weight(Append(s, x), w) = Weight(s, w) + w[x]
<1> DEFINE t == Append(s, x)
           n == Len(s) + 1
           f == [i \in DOMAIN t |-> w[t[i]]]
           g == [i \in DOMAIN s |-> w[s[i]]]
<1>1. /\ DOMAIN s = 1..Len(s) /\ Len(s) \in Nat /\ t \in Seq(A)
      /\ DOMAIN t = 1..n /\ n \in DOMAIN t /\ t[n] = x
      /\ \A i \in DOMAIN s : i \in DOMAIN t /\ t[i] = s[i]
  OBVIOUS
<1> DEFINE D == DOMAIN t
           E == DOMAIN s
<1>2. IsFiniteSet(D) /\ IsFiniteSet(E)
  BY <1>1, FS_Interval
<1>3. n \in D /\ D \ {n} = E
  BY <1>1
<1>4. \A i \in D : f[i] \in Nat
  BY <1>1
<1>5. \A i \in E : g[i] \in Nat /\ f[i] = g[i]
  BY <1>1
<1>6. f[n] = w[x] /\ w[x] \in Nat
  BY <1>1
<1>7. Weight(t, w) = Total(f, D) /\ Weight(s, w) = Total(g, E)
  BY DEF Weight
<1> HIDE DEF n, f, g, D, E
<1>8. Total(f, D) = f[n] + Total(f, E)
  BY <1>2, <1>3, <1>4, TotalElement
<1>9. Total(f, E) = Total(g, E) /\ Total(g, E) \in Nat
  BY <1>2, <1>5, TotalSame, TotalOf
<1> QED BY <1>6, <1>7, <1>8, <1>9

\* What the list comprehension returns, for every list: the elements of K, each
\* from a place of its own, weighing no more than the list.
LEMMA KeepPicks ==
  ASSUME NEW A, NEW s \in Seq(A), NEW K, NEW w \in [A -> Nat]
  PROVE  /\ Keep(s, K) \in Seq(A)
         /\ Picks(Keep(s, K), s, K, DOMAIN s)
         /\ Weight(Keep(s, K), w) <= Weight(s, w)
<1>1. PICK g : /\ Keep(s, K) = g[Len(s)] /\ g[0] = <<>>
               /\ \A i \in 1..Len(s) :
                    g[i] = IF s[i] \in K THEN Append(g[i - 1], s[i]) ELSE g[i - 1]
  BY KeepSteps
<1> DEFINE v(i) == Weight(SubSeq(s, 1, i), w)
           P(i) == /\ g[i] \in Seq(A) /\ Picks(g[i], s, K, 1..i)
                   /\ Weight(g[i], w) <= v(i)
           T == {i \in 0..Len(s) : ~P(i)}
<1>2. SUFFICES ASSUME T # {} PROVE FALSE
  <2>1. SUFFICES P(Len(s))
    <3>1. SubSeq(s, 1, Len(s)) = s /\ DOMAIN s = 1..Len(s)
      OBVIOUS
    <3> QED BY <3>1, <1>1
  <2> HIDE DEF P
  <2> QED BY <2>1
<1>3. PICK i \in T : \A k \in T : i <= k
  <2> HIDE DEF P
  <2>1. T \in SUBSET Nat
    OBVIOUS
  <2> HIDE DEF T
  <2> QED BY <2>1, <1>2, LeastElement
<1>4. i # 0
  <2>1. SUFFICES ASSUME i = 0 PROVE P(i)
    BY <1>3
  <2>2. SubSeq(s, 1, 0) = <<>>
    OBVIOUS
  <2>3. Picks(<<>>, s, K, 1..0)
    <3>1. 1..0 = {} /\ DOMAIN <<>> = {}
      OBVIOUS
    <3> QED BY <3>1 DEF Picks
  <2>4. g[i] = <<>> /\ v(i) = 0 /\ Weight(<<>>, w) = 0
    BY <2>1, <2>2, <1>1, WeightEmpty
  <2> QED BY <2>1, <2>3, <2>4
<1>5. i \in 1..Len(s) /\ i - 1 \in 0..Len(s)
  BY <1>3, <1>4
<1> DEFINE t == g[i - 1]
<1>6. t \in Seq(A) /\ Picks(t, s, K, 1..(i - 1)) /\ Weight(t, w) <= v(i - 1)
  <2>1. i - 1 \notin T
    BY <1>3, <1>5
  <2> QED BY <2>1, <1>5
<1>7. s[i] \in A /\ w[s[i]] \in Nat /\ Weight(t, w) \in Nat
  BY <1>5, <1>6, WeightType
<1>8. v(i) = v(i - 1) + w[s[i]] /\ v(i - 1) \in Nat
  <2>1. SubSeq(s, 1, i - 1) \in Seq(A)
    BY <1>5
  <2>2. SubSeq(s, 1, i) = Append(SubSeq(s, 1, i - 1), s[i])
    BY <1>5
  <2> QED BY <2>1, <2>2, <1>7, WeightAppend, WeightType
<1> DEFINE I == 1..(i - 1)
           J == 1..i
<1>9. J = I \cup {i} /\ i \notin I
  <2>1. \A k : k \in 1..i <=> k \in 1..(i - 1) \/ k = i
    BY <1>5
  <2>2. i \notin 1..(i - 1)
    BY <1>5
  <2> QED BY <2>1, <2>2
<1>10. Picks(t, s, K, I)
  BY <1>6
<1>11. CASE s[i] \in K
  <2>1. g[i] = Append(t, s[i])
    BY <1>1, <1>5, <1>11
  <2> DEFINE u == Append(t, s[i])
             n == Len(t) + 1
  <2>2. /\ u \in Seq(A) /\ DOMAIN u = (DOMAIN t) \cup {n} /\ n \notin DOMAIN t
        /\ u[n] = s[i] /\ \A k \in DOMAIN t : u[k] = t[k]
    <3>1. /\ u \in Seq(A) /\ DOMAIN u = 1..n /\ DOMAIN t = 1..Len(t) /\ Len(t) \in Nat
          /\ u[n] = s[i] /\ \A k \in 1..Len(t) : u[k] = t[k]
      BY <1>6, <1>7
    <3>2. \A k : k \in 1..n <=> k \in 1..Len(t) \/ k = n
      BY <3>1
    <3>3. n \notin 1..Len(t)
      BY <3>1
    <3> HIDE DEF u, n, t
    <3> QED BY <3>1, <3>2, <3>3
  <2>3. Picks(u, s, K, J)
    <3> HIDE DEF u, n, t, I, J
    <3> QED BY <2>2, <1>10, <1>11, <1>9, PicksMore
  <2>4. Weight(Append(t, s[i]), w) = Weight(t, w) + w[s[i]]
    BY <1>6, <1>7, WeightAppend
  <2>5. Weight(g[i], w) <= v(i)
    <3> HIDE DEF t, v
    <3> QED BY <2>1, <2>4, <1>6, <1>7, <1>8
  <2>6. P(i)
    BY <2>1, <2>2, <2>3, <2>5
  <2> HIDE DEF P
  <2> QED BY <2>6, <1>3
<1>12. CASE s[i] \notin K
  <2>1. g[i] = t
    BY <1>1, <1>5, <1>12
  <2>2. Picks(t, s, K, J)
    <3> HIDE DEF t, I, J
    <3> QED BY <1>10, <1>12, <1>9, PicksMore
  <2>3. Weight(g[i], w) <= v(i)
    <3> HIDE DEF t, v
    <3> QED BY <2>1, <1>6, <1>7, <1>8
  <2>4. P(i)
    BY <2>1, <2>2, <2>3, <1>6
  <2> HIDE DEF P
  <2> QED BY <2>4, <1>3
<1> QED BY <1>11, <1>12

\* A list has as many values as places just when no two places agree.
LEMMA DistinctCount ==
  ASSUME NEW n \in Nat, NEW V, NEW f \in [1..n -> V], NEW T, T = {f[i] : i \in 1..n}
  PROVE  IsFiniteSet(T) /\ (Cardinality(T) = n <=> IsInjective(f))
<1>1. IsFiniteSet(1..n) /\ Cardinality(1..n) = n
  BY FS_Interval
<1>2. f \in Surjection(1..n, T)
  BY DEF Surjection
<1>3. IsFiniteSet(T) /\ (Cardinality(T) = n <=> f \in Injection(1..n, T))
  BY <1>1, <1>2, FS_Surjection
<1> QED BY <1>2, <1>3 DEF Injection, Surjection

-----------------------------------------------------------------------------
\* One record per question.
Unique(records) == \A i, j \in DOMAIN records : records[i].qid = records[j].qid => i = j

\* A list comprehension keeps one record per question, and repeats nothing.
LEMMA KeepUnique ==
  ASSUME NEW A, NEW s \in Seq(A), NEW K
  PROVE  /\ Keep(s, K) \in Seq(A)
         /\ ToSet(Keep(s, K)) = ToSet(s) \cap K
         /\ Unique(s) => Unique(Keep(s, K))
         /\ IsInjective(s) => IsInjective(Keep(s, K))
<1> DEFINE t == Keep(s, K)
           w == [x \in A |-> 0]
<1>1. t \in Seq(A) /\ Picks(t, s, K, DOMAIN s)
  <2>1. w \in [A -> Nat]
    OBVIOUS
  <2> HIDE DEF w
  <2> QED BY <2>1, KeepPicks
<1> HIDE DEF t
<1>2. ASSUME Unique(s), NEW k \in DOMAIN t, NEW l \in DOMAIN t, t[k].qid = t[l].qid
      PROVE  k = l
  <2> SUFFICES ASSUME k # l PROVE FALSE
    OBVIOUS
  <2>1. PICK a \in DOMAIN s, b \in DOMAIN s : a # b /\ t[k] = s[a] /\ t[l] = s[b]
    BY <1>1 DEF Picks
  <2> QED BY <1>2, <2>1 DEF Unique
<1>3. ToSet(t) = ToSet(s) \cap K /\ (IsInjective(s) => IsInjective(t))
  BY <1>1, PicksSet
<1> QED BY <1>1, <1>2, <1>3 DEF t, Unique

\* An appended record adds itself to the list, as a further question or element.
LEMMA AppendUnique ==
  ASSUME NEW A, NEW s \in Seq(A), NEW r \in A
  PROVE  /\ Append(s, r) \in Seq(A)
         /\ ToSet(Append(s, r)) = ToSet(s) \cup {r}
         /\ Unique(s) /\ (\A o \in ToSet(s) : o.qid # r.qid) => Unique(Append(s, r))
         /\ IsInjective(s) /\ r \notin ToSet(s) => IsInjective(Append(s, r))
<1> DEFINE t == Append(s, r)
<1>1. /\ t \in Seq(A) /\ DOMAIN t = 1..(Len(s) + 1) /\ DOMAIN s = 1..Len(s)
      /\ Len(s) \in Nat /\ t[Len(s) + 1] = r /\ \A i \in DOMAIN s : t[i] = s[i]
  OBVIOUS
<1>2. \A i \in DOMAIN t : i \in DOMAIN s \/ i = Len(s) + 1
  BY <1>1
<1>3. DOMAIN s \subseteq DOMAIN t /\ Len(s) + 1 \in DOMAIN t
  BY <1>1
<1> HIDE DEF t
<1>4. ToSet(t) = ToSet(s) \cup {r}
  BY <1>1, <1>2, <1>3 DEF ToSet
<1>5. ASSUME Unique(s), \A o \in ToSet(s) : o.qid # r.qid PROVE Unique(t)
  <2>1. \A i \in DOMAIN s : s[i].qid # r.qid
    BY <1>5 DEF ToSet
  <2> QED BY <1>1, <1>2, <1>5, <2>1 DEF Unique
<1>6. ASSUME IsInjective(s), r \notin ToSet(s) PROVE IsInjective(t)
  <2>1. \A i \in DOMAIN s : s[i] # r
    BY <1>6 DEF ToSet
  <2> QED BY <1>1, <1>2, <1>6, <2>1 DEF IsInjective
<1> QED BY <1>1, <1>4, <1>5, <1>6 DEF t

\* len({r["qid"] for r in records}) == len(records) says just that.
LEMMA UniqueCount ==
  ASSUME NEW A, NEW s \in Seq(A), NEW T, T = {r.qid : r \in ToSet(s)}
  PROVE  IsFiniteSet(T) /\ (Cardinality(T) = Len(s) <=> Unique(s))
<1> DEFINE f == [i \in 1..Len(s) |-> s[i].qid]
           V == {r.qid : r \in A}
<1>1. Len(s) \in Nat /\ DOMAIN s = 1..Len(s) /\ f \in [1..Len(s) -> V]
  OBVIOUS
<1>2. T = {f[i] : i \in 1..Len(s)}
  BY <1>1 DEF ToSet
<1>3. IsInjective(f) <=> Unique(s)
  BY <1>1 DEF IsInjective, Unique
<1> HIDE DEF f, V
<1>4. IsFiniteSet(T) /\ (Cardinality(T) = Len(s) <=> IsInjective(f))
  BY <1>1, <1>2, DistinctCount
<1> QED BY <1>3, <1>4

\* A list has finitely many elements.
LEMMA FiniteList ==
  ASSUME NEW A, NEW s \in Seq(A)
  PROVE  IsFiniteSet(ToSet(s))
<1>1. Len(s) \in Nat /\ s \in [1..Len(s) -> A] /\ ToSet(s) = {s[i] : i \in 1..Len(s)}
  BY DEF ToSet
<1> QED BY <1>1, DistinctCount
=============================================================================
