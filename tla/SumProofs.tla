------------------------------ MODULE SumProofs ------------------------------
(***************************************************************************)
(* The sums that MapThenFoldSet makes over a finite set, as State and Host *)
(* use it for balances and withdrawals.  The induction is on subsets, and  *)
(* is put as the choice of a minimal counterexample.                       *)
(***************************************************************************)
EXTENDS Integers, FiniteSets, Folds, FiniteSetTheorems, TLAPS

Pick(s) == CHOOSE x \in s : TRUE

(* g has the sum of h over every subset of S.                              *)
SumOf(g, h, s) == IF s = {} THEN 0 ELSE h[Pick(s)] + g[s \ {Pick(s)}]
Sums(g, h, S) == g = [s \in SUBSET S |-> SumOf(g, h, s)]

(* A set of subsets of a finite set has a minimal member.                  *)
LEMMA MinimalSubset ==
  ASSUME NEW S, IsFiniteSet(S), NEW T \in SUBSET (SUBSET S), T # {}
  PROVE  \E x \in T : \A y \in T : y \subseteq x => y = x
<1>1. IsWellFoundedOn(StrictSubsetOrdering(S), SUBSET S)
  BY FS_StrictSubsetOrderingWellFounded, FS_FiniteSubsetsOfFinite
<1>2. PICK x \in T : \A y \in T : ~ (<<y, x>> \in StrictSubsetOrdering(S))
  BY <1>1, WFMin
<1>3. ASSUME NEW y \in T, y \subseteq x
      PROVE  y = x
  <2>1. x \in SUBSET S /\ y \in SUBSET S
    OBVIOUS
  <2>2. y # x => <<y, x>> \in StrictSubsetOrdering(S)
    BY <1>3, <2>1 DEF StrictSubsetOrdering
  <2> QED
    BY <1>2, <2>2
<1> QED
  BY <1>3

(* The member that is added first is one of the set.                       *)
LEMMA PickMember ==
  ASSUME NEW s, s # {}
  PROVE  Pick(s) \in s /\ s \ {Pick(s)} \subseteq s /\ s \ {Pick(s)} # s
<1>1. Pick(s) \in s
  BY DEF Pick
<1> QED
  BY <1>1

(* There is one function of sums only.                                     *)
LEMMA SumsUnique ==
  ASSUME NEW S, IsFiniteSet(S), NEW h, NEW g1, NEW g2, Sums(g1, h, S), Sums(g2, h, S)
  PROVE  g1 = g2
<1> DEFINE T == {s \in SUBSET S : g1[s] # g2[s]}
<1>1. ASSUME NEW s \in SUBSET S
      PROVE  g1[s] = SumOf(g1, h, s) /\ g2[s] = SumOf(g2, h, s)
  BY DEF Sums
<1>2. T = {}
  <2> SUFFICES ASSUME T # {} PROVE FALSE
    OBVIOUS
  <2>0. T \in SUBSET (SUBSET S)
    OBVIOUS
  <2>1. PICK s \in T : \A y \in T : y \subseteq s => y = s
    <3> HIDE DEF T
    <3> QED
      BY <2>0, MinimalSubset
  <2>2. s # {}
    BY <1>1 DEF SumOf
  <2>3. s \ {Pick(s)} \in SUBSET S /\ s \ {Pick(s)} \notin T
    BY <2>1, <2>2, PickMember
  <2>4. g1[s \ {Pick(s)}] = g2[s \ {Pick(s)}]
    BY <2>3
  <2> QED
    BY <1>1, <2>2, <2>4 DEF SumOf
<1>3. g1 = [s \in SUBSET S |-> g1[s]] /\ g2 = [s \in SUBSET S |-> g2[s]]
  BY DEF Sums
<1> QED
  BY <1>2, <1>3

(* Sums over the subsets of a subset.                                      *)
LEMMA SumsRestrict ==
  ASSUME NEW S, NEW h, NEW g, Sums(g, h, S), NEW U \in SUBSET S
  PROVE  Sums([s \in SUBSET U |-> g[s]], h, U)
<1> DEFINE r == [s \in SUBSET U |-> g[s]]
<1>1. ASSUME NEW s \in SUBSET U
      PROVE  r[s] = SumOf(r, h, s)
  <2>1. s \in SUBSET S /\ r[s] = g[s] /\ s \ {Pick(s)} \in SUBSET U
    OBVIOUS
  <2>2. r[s \ {Pick(s)}] = g[s \ {Pick(s)}]
    BY <2>1
  <2>3. g[s] = SumOf(g, h, s)
    BY <2>1 DEF Sums
  <2> HIDE DEF r
  <2> QED
    BY <2>1, <2>2, <2>3 DEF SumOf
<1>2. r = [s \in SUBSET U |-> SumOf(r, h, s)]
  <2>1. r = [s \in SUBSET U |-> r[s]]
    OBVIOUS
  <2> HIDE DEF r
  <2> QED
    BY <1>1, <2>1
<1> QED
  BY <1>2 DEF Sums

(* Finite sets have sums.                                                  *)
LEMMA SumsExist ==
  ASSUME NEW S, IsFiniteSet(S), NEW h
  PROVE  \E g : Sums(g, h, S)
<1> DEFINE Bad == {T \in SUBSET S : ~ \E g : Sums(g, h, T)}
           G(T) == CHOOSE g : Sums(g, h, T)
<1>1. Bad = {}
  <2> SUFFICES ASSUME Bad # {} PROVE FALSE
    OBVIOUS
  <2>0. Bad \in SUBSET (SUBSET S)
    OBVIOUS
  <2>1. PICK T \in Bad : \A y \in Bad : y \subseteq T => y = T
    <3> HIDE DEF Bad
    <3> QED
      BY <2>0, MinimalSubset
  <2>2. ASSUME NEW U \in SUBSET T, U # T
        PROVE  Sums(G(U), h, U)
    <3>1. \E g : Sums(g, h, U)
      BY <2>1, <2>2
    <3> QED
      BY <3>1
  <2> DEFINE f == [s \in SUBSET T |-> IF s = T THEN SumOf(G(T \ {Pick(T)}), h, T) ELSE G(s)[s]]
  <2>3. ASSUME NEW U \in SUBSET T, U # T, NEW s \in SUBSET U
        PROVE  G(U)[s] = G(s)[s]
    <3> DEFINE r == [w \in SUBSET s |-> G(U)[w]]
    <3>1. s # T /\ s \in SUBSET T
      BY <2>3
    <3>2. Sums(r, h, s)
      BY <2>2, <2>3, SumsRestrict, ZenonT(40)
    <3>3. Sums(G(s), h, s)
      BY <2>2, <3>1
    <3>4. IsFiniteSet(s)
      BY <3>1, FS_Subset
    <3> HIDE DEF G
    <3>5. r[s] = G(U)[s]
      OBVIOUS
    <3> HIDE DEF r
    <3>6. r = G(s)
      BY <3>2, <3>3, <3>4, SumsUnique
    <3> QED
      BY <3>5, <3>6
  <2>4. ASSUME NEW s \in SUBSET T
        PROVE  f[s] = SumOf(f, h, s)
    <3> DEFINE U == s \ {Pick(s)}
    <3>1. CASE s = {}
      <4>1. CASE T = {}
        BY <3>1, <4>1 DEF SumOf
      <4>2. CASE T # {}
        <5>1. Sums(G({}), h, {}) /\ f[s] = G({})[{}]
          BY <2>2, <3>1, <4>2
        <5>2. G({})[{}] = SumOf(G({}), h, {})
          <6> HIDE DEF G
          <6> QED
            BY <5>1 DEF Sums
        <5> QED
          BY <3>1, <5>1, <5>2 DEF SumOf
      <4> QED
        BY <4>1, <4>2
    <3>2. CASE s # {}
      <4>1. U \in SUBSET s /\ U \in SUBSET T /\ U # T /\ U # s
        BY <3>2, PickMember
      <4>2. f[U] = G(U)[U]
        BY <4>1
      <4>3. CASE s = T
        <5>1. f[s] = h[Pick(s)] + G(U)[U]
          BY <3>2, <4>3 DEF SumOf
        <5> HIDE DEF f, G
        <5> QED
          BY <3>2, <4>2, <5>1 DEF SumOf
      <4>4. CASE s # T
        <5>1. Sums(G(s), h, s) /\ f[s] = G(s)[s]
          BY <2>2, <4>4
        <5>2. G(s)[s] = SumOf(G(s), h, s)
          <6> HIDE DEF G
          <6> QED
            BY <5>1 DEF Sums
        <5>3. G(s)[U] = G(U)[U]
          BY <2>3, <4>1, <4>4
        <5> HIDE DEF f, G
        <5> QED
          BY <3>2, <4>2, <5>1, <5>2, <5>3 DEF SumOf
      <4> QED
        BY <4>3, <4>4
    <3> QED
      BY <3>1, <3>2
  <2>5. f = [s \in SUBSET T |-> f[s]]
    OBVIOUS
  <2> HIDE DEF f
  <2>6. Sums(f, h, T)
    BY <2>4, <2>5 DEF Sums
  <2> QED
    BY <2>1, <2>6
<1> QED
  BY <1>1

(* Sums of integers are integers.                                          *)
LEMMA SumsType ==
  ASSUME NEW S, IsFiniteSet(S), NEW h, \A x \in S : h[x] \in Int, NEW g, Sums(g, h, S),
         NEW s \in SUBSET S
  PROVE  g[s] \in Int
<1> DEFINE T == {u \in SUBSET S : g[u] \notin Int}
<1>1. ASSUME NEW u \in SUBSET S
      PROVE  g[u] = SumOf(g, h, u)
  BY DEF Sums
<1>2. T = {}
  <2> SUFFICES ASSUME T # {} PROVE FALSE
    OBVIOUS
  <2>0. T \in SUBSET (SUBSET S)
    OBVIOUS
  <2>1. PICK u \in T : \A y \in T : y \subseteq u => y = u
    <3> HIDE DEF T
    <3> QED
      BY <2>0, MinimalSubset
  <2>2. u # {}
    BY <1>1 DEF SumOf
  <2>3. u \ {Pick(u)} \in SUBSET S /\ u \ {Pick(u)} \notin T /\ Pick(u) \in S
    BY <2>1, <2>2, PickMember
  <2>4. g[u \ {Pick(u)}] \in Int /\ h[Pick(u)] \in Int
    BY <2>3
  <2> QED
    BY <1>1, <2>2, <2>4 DEF SumOf
<1> QED
  BY <1>2

(* Sums of natural numbers are natural numbers.                            *)
LEMMA SumsNonNegative ==
  ASSUME NEW S, IsFiniteSet(S), NEW h, \A x \in S : h[x] \in Nat, NEW g, Sums(g, h, S),
         NEW s \in SUBSET S
  PROVE  g[s] \in Nat
<1> DEFINE T == {u \in SUBSET S : g[u] \notin Nat}
<1>1. ASSUME NEW u \in SUBSET S
      PROVE  g[u] = SumOf(g, h, u)
  BY DEF Sums
<1>2. T = {}
  <2> SUFFICES ASSUME T # {} PROVE FALSE
    OBVIOUS
  <2>0. T \in SUBSET (SUBSET S)
    OBVIOUS
  <2>1. PICK u \in T : \A y \in T : y \subseteq u => y = u
    <3> HIDE DEF T
    <3> QED
      BY <2>0, MinimalSubset
  <2>2. u # {}
    BY <1>1 DEF SumOf
  <2>3. u \ {Pick(u)} \in SUBSET S /\ u \ {Pick(u)} \notin T /\ Pick(u) \in S
    BY <2>1, <2>2, PickMember
  <2>4. g[u \ {Pick(u)}] \in Nat /\ h[Pick(u)] \in Nat
    BY <2>3
  <2> QED
    BY <1>1, <2>2, <2>4 DEF SumOf
<1> QED
  BY <1>2

(* Two functions that agree outside b: their sums differ by what they      *)
(* differ in b.                                                            *)
LEMMA SumsDiffer ==
  ASSUME NEW S, IsFiniteSet(S), NEW h1, NEW h2, NEW b,
         \A x \in S : h1[x] \in Int /\ h2[x] \in Int,
         \A x \in S : x # b => h2[x] = h1[x],
         NEW g1, Sums(g1, h1, S), NEW g2, Sums(g2, h2, S),
         NEW s \in SUBSET S
  PROVE  g2[s] = g1[s] + (IF b \in s THEN h2[b] - h1[b] ELSE 0)
<1> DEFINE D(u) == IF b \in u THEN h2[b] - h1[b] ELSE 0
           T == {u \in SUBSET S : g2[u] # g1[u] + D(u)}
<1>1. ASSUME NEW u \in SUBSET S
      PROVE  /\ g1[u] = SumOf(g1, h1, u) /\ g2[u] = SumOf(g2, h2, u)
             /\ g1[u] \in Int /\ g2[u] \in Int
  <2>1. g1[u] = SumOf(g1, h1, u) /\ g2[u] = SumOf(g2, h2, u)
    BY DEF Sums
  <2>2. g1[u] \in Int /\ g2[u] \in Int
    BY SumsType
  <2> QED
    BY <2>1, <2>2
<1>2. T = {}
  <2> SUFFICES ASSUME T # {} PROVE FALSE
    OBVIOUS
  <2>0. T \in SUBSET (SUBSET S)
    OBVIOUS
  <2>1. PICK u \in T : \A y \in T : y \subseteq u => y = u
    <3> HIDE DEF T
    <3> QED
      BY <2>0, MinimalSubset
  <2> DEFINE p == Pick(u)
             v == u \ {p}
  <2>2. u # {}
    <3>1. g1[{}] = 0 /\ g2[{}] = 0 /\ D({}) = 0
      BY <1>1 DEF SumOf
    <3>2. g2[{}] = g1[{}] + D({})
      BY <3>1
    <3> HIDE DEF D
    <3>3. {} \notin T
      BY <3>2
    <3> HIDE DEF T
    <3> QED
      BY <3>3
  <2>3. v \in SUBSET S /\ v \notin T /\ p \in S /\ p \in u
    BY <2>1, <2>2, PickMember
  <2>4. g2[v] = g1[v] + D(v) /\ g1[v] \in Int
    BY <1>1, <2>3
  <2>5. g1[u] = h1[p] + g1[v] /\ g2[u] = h2[p] + g2[v]
    BY <1>1, <2>2 DEF SumOf
  <2>6. h1[p] \in Int /\ h2[p] \in Int
    BY <2>3
  <2> HIDE DEF p
  <2>7. CASE p = b
    <3>1. D(v) = 0 /\ D(u) = h2[p] - h1[p]
      BY <2>3, <2>7
    <3> HIDE DEF D, v
    <3>2. g2[u] = g1[u] + D(u)
      BY <2>4, <2>5, <2>6, <3>1
    <3> QED
      BY <2>1, <3>2
  <2>8. CASE p # b
    <3>1. D(v) = D(u) /\ h2[p] = h1[p] /\ D(u) \in Int
      BY <2>3, <2>8
    <3> HIDE DEF D, v
    <3>2. g2[u] = g1[u] + D(u)
      BY <2>4, <2>5, <2>6, <3>1
    <3> QED
      BY <2>1, <3>2
  <2> QED
    BY <2>7, <2>8
<1> QED
  BY <1>2
(* Any member of a set can be the one that is added last.                  *)
LEMMA SumsRemove ==
  ASSUME NEW S, IsFiniteSet(S), NEW h, \A x \in S : h[x] \in Int, NEW g, Sums(g, h, S),
         NEW s \in SUBSET S, NEW x \in s
  PROVE  g[s] = h[x] + g[s \ {x}]
<1> DEFINE T == {u \in SUBSET S : \E y \in u : g[u] # h[y] + g[u \ {y}]}
<1>1. ASSUME NEW u \in SUBSET S
      PROVE  g[u] = SumOf(g, h, u) /\ g[u] \in Int
  BY SumsType DEF Sums
<1>2. T = {}
  <2> SUFFICES ASSUME T # {} PROVE FALSE
    OBVIOUS
  <2>0. T \in SUBSET (SUBSET S)
    OBVIOUS
  <2>1. PICK u \in T : \A v \in T : v \subseteq u => v = u
    <3> HIDE DEF T
    <3> QED
      BY <2>0, MinimalSubset
  <2>2. PICK y \in u : g[u] # h[y] + g[u \ {y}]
    OBVIOUS
  <2> DEFINE p == Pick(u)
             up == u \ {p}
             uy == u \ {y}
             w == u \ {p, y}
  <2>3. p \in u /\ u \in SUBSET S /\ up \in SUBSET S /\ uy \in SUBSET S /\ w \in SUBSET S /\ p \in S /\ y \in S
    BY PickMember
  <2>4. g[u] = h[p] + g[up]
    BY <1>1, <2>3 DEF SumOf
  <2>5. p # y
    BY <2>2, <2>4
  <2>6. up \notin T /\ uy \notin T
    <3>1. up # u /\ uy # u /\ up \subseteq u /\ uy \subseteq u
      BY <2>3
    <3> HIDE DEF up, uy, T
    <3> QED
      BY <2>1, <3>1
  <2>7. y \in up /\ p \in uy /\ up \ {y} = w /\ uy \ {p} = w
    BY <2>3, <2>5
  <2>8. g[up] = h[y] + g[w] /\ g[uy] = h[p] + g[w]
    <3>1. g[up] = h[y] + g[up \ {y}] /\ g[uy] = h[p] + g[uy \ {p}]
      BY <2>3, <2>6, <2>7
    <3> HIDE DEF up, uy, w, p, T
    <3> QED
      BY <2>7, <3>1
  <2>9. /\ h[p] \in Int /\ h[y] \in Int /\ g[w] \in Int
    BY <1>1, <2>3
  <2> HIDE DEF p, up, uy, w
  <2>10. g[u] = h[y] + g[uy]
    BY <2>4, <2>8, <2>9
  <2> QED
    BY <2>2, <2>10 DEF uy
<1> QED
  BY <1>2

(* A sum to which another, over a part of the set, is added.               *)
LEMMA SumsAdd ==
  ASSUME NEW S, IsFiniteSet(S), NEW h1, NEW h2, NEW k, NEW U \in SUBSET S,
         \A x \in S : h1[x] \in Int /\ h2[x] \in Int,
         \A x \in U : k[x] \in Int,
         \A x \in S : h2[x] = h1[x] + (IF x \in U THEN k[x] ELSE 0),
         NEW g1, Sums(g1, h1, S), NEW g2, Sums(g2, h2, S), NEW gk, Sums(gk, k, U),
         NEW s \in SUBSET S
  PROVE  g2[s] = g1[s] + gk[s \cap U]
<1> DEFINE T == {u \in SUBSET S : g2[u] # g1[u] + gk[u \cap U]}
<1>0. IsFiniteSet(U)
  BY FS_Subset
<1>1. ASSUME NEW u \in SUBSET S
      PROVE  /\ g1[u] = SumOf(g1, h1, u) /\ g2[u] = SumOf(g2, h2, u)
             /\ g1[u] \in Int /\ g2[u] \in Int
             /\ u \cap U \in SUBSET U /\ gk[u \cap U] \in Int
  <2>1. g1[u] = SumOf(g1, h1, u) /\ g2[u] = SumOf(g2, h2, u)
    BY DEF Sums
  <2>2. g1[u] \in Int /\ g2[u] \in Int
    BY SumsType
  <2>3. u \cap U \in SUBSET U
    OBVIOUS
  <2> QED
    BY <1>0, <2>1, <2>2, <2>3, SumsType
<1>2. T = {}
  <2> SUFFICES ASSUME T # {} PROVE FALSE
    OBVIOUS
  <2>0. T \in SUBSET (SUBSET S)
    OBVIOUS
  <2>1. PICK u \in T : \A v \in T : v \subseteq u => v = u
    <3> HIDE DEF T
    <3> QED
      BY <2>0, MinimalSubset
  <2>2. u \in SUBSET S /\ g2[u] # g1[u] + gk[u \cap U]
    OBVIOUS
  <2>3. u # {}
    <3> SUFFICES ASSUME u = {} PROVE FALSE
      OBVIOUS
    <3>1. u \cap U = {} /\ {} \in SUBSET U
      OBVIOUS
    <3>2. gk[{}] = 0
      BY <3>1 DEF Sums, SumOf
    <3>3. g1[u] = 0 /\ g2[u] = 0
      BY <1>1, <2>2 DEF SumOf
    <3> QED
      BY <2>2, <3>1, <3>2, <3>3
  <2> DEFINE p == Pick(u)
             v == u \ {p}
  <2>4. p \in u /\ v \in SUBSET S /\ v \subseteq u /\ v # u /\ p \in S
    BY <2>2, <2>3, PickMember
  <2>5. v \notin T
    <3> HIDE DEF v, T
    <3> QED
      BY <2>1, <2>4
  <2>6. g2[v] = g1[v] + gk[v \cap U]
    BY <2>4, <2>5
  <2>7. g1[u] = h1[p] + g1[v] /\ g2[u] = h2[p] + g2[v]
    BY <1>1, <2>2, <2>3 DEF SumOf
  <2>8. gk[u \cap U] = (IF p \in U THEN k[p] ELSE 0) + gk[v \cap U]
    <3>1. gk[v \cap U] \in Int
      BY <1>1, <2>4
    <3>2. CASE p \in U
      <4>1. p \in u \cap U /\ (u \cap U) \ {p} = v \cap U /\ u \cap U \in SUBSET U
        BY <2>4, <3>2
      <4> DEFINE q == u \cap U
      <4>2. q \in SUBSET U /\ p \in q /\ q \ {p} = v \cap U
        BY <4>1
      <4> HIDE DEF q, p, v
      <4>3. gk[q] = k[p] + gk[q \ {p}]
        BY <1>0, <4>2, SumsRemove
      <4> QED
        BY <3>2, <4>2, <4>3 DEF q
    <3>3. CASE p \notin U
      <4>1. u \cap U = v \cap U
        BY <3>3
      <4>2. gk[u \cap U] = gk[v \cap U]
        BY <4>1
      <4> DEFINE c == gk[v \cap U]
      <4> HIDE DEF c
      <4>3. c \in Int => c = 0 + c
        OBVIOUS
      <4> QED
        BY <3>1, <3>3, <4>2, <4>3 DEF c
    <3> QED
      BY <3>2, <3>3
  <2>9. /\ h1[p] \in Int /\ h2[p] = h1[p] + (IF p \in U THEN k[p] ELSE 0) /\ (p \in U => k[p] \in Int)
        /\ g1[v] \in Int /\ gk[v \cap U] \in Int
    BY <1>1, <2>4
  <2> HIDE DEF p, v, T
  <2> QED
    BY <2>2, <2>6, <2>7, <2>8, <2>9
<1>3. s \notin T
  BY <1>2
<1> QED
  BY <1>3

(* The sum of h over S.                                                    *)
SumOver(S, h) == (CHOOSE g : Sums(g, h, S))[S]

(* SumOver is the sum that the function of sums has for the whole set.     *)
LEMMA SumOverSums ==
  ASSUME NEW S, IsFiniteSet(S), NEW h, NEW g, Sums(g, h, S)
  PROVE  SumOver(S, h) = g[S]
<1>1. Sums((CHOOSE q : Sums(q, h, S)), h, S)
  BY Zenon
<1>2. (CHOOSE q : Sums(q, h, S)) = g
  BY <1>1, SumsUnique
<1> QED
  BY <1>2 DEF SumOver

(* The type of a sum.                                                      *)
LEMMA SumOverType ==
  ASSUME NEW S, IsFiniteSet(S), NEW h
  PROVE  /\ (\A x \in S : h[x] \in Int) => SumOver(S, h) \in Int
         /\ (\A x \in S : h[x] \in Nat) => SumOver(S, h) \in Nat
<1>1. PICK g : Sums(g, h, S)
  BY SumsExist
<1>2. SumOver(S, h) = g[S] /\ S \in SUBSET S
  BY <1>1, SumOverSums
<1> QED
  BY <1>1, <1>2, SumsType, SumsNonNegative

(* A sum to which another is added, for the whole set.                     *)
LEMMA SumOverAdd ==
  ASSUME NEW S, IsFiniteSet(S), NEW h1, NEW h2, NEW k, NEW U \in SUBSET S,
         \A x \in S : h1[x] \in Int /\ h2[x] \in Int,
         \A x \in U : k[x] \in Int,
         \A x \in S : h2[x] = h1[x] + (IF x \in U THEN k[x] ELSE 0)
  PROVE  SumOver(S, h2) = SumOver(S, h1) + SumOver(U, k)
<1>1. IsFiniteSet(U)
  BY FS_Subset
<1>2. PICK g1 : Sums(g1, h1, S)
  BY SumsExist
<1>3. PICK g2 : Sums(g2, h2, S)
  BY SumsExist
<1>4. PICK gk : Sums(gk, k, U)
  BY <1>1, SumsExist
<1>5. S \in SUBSET S /\ S \cap U = U
  OBVIOUS
<1>6. ASSUME NEW s \in SUBSET S
      PROVE  g2[s] = g1[s] + gk[s \cap U]
  BY <1>2, <1>3, <1>4, SumsAdd
<1>7. g2[S] = g1[S] + gk[U]
  BY <1>5, <1>6
<1> QED
  BY <1>1, <1>2, <1>3, <1>4, <1>7, SumOverSums

(* One term changes.                                                       *)
LEMMA SumOverDiffer ==
  ASSUME NEW S, IsFiniteSet(S), NEW h1, NEW h2, NEW b \in S,
         \A x \in S : h1[x] \in Int /\ h2[x] \in Int,
         \A x \in S : x # b => h2[x] = h1[x]
  PROVE  SumOver(S, h2) = SumOver(S, h1) + (h2[b] - h1[b])
<1>1. PICK g1 : Sums(g1, h1, S)
  BY SumsExist
<1>2. PICK g2 : Sums(g2, h2, S)
  BY SumsExist
<1>3. ASSUME NEW s \in SUBSET S
      PROVE  g2[s] = g1[s] + (IF b \in s THEN h2[b] - h1[b] ELSE 0)
  BY <1>1, <1>2, SumsDiffer
<1>4. g2[S] = g1[S] + (IF b \in S THEN h2[b] - h1[b] ELSE 0)
  BY <1>3
<1> QED
  BY <1>1, <1>2, <1>4, SumOverSums

(* The same terms have the same sum.                                       *)
LEMMA SumOverSame ==
  ASSUME NEW S, IsFiniteSet(S), NEW h1, NEW h2, \A x \in S : h1[x] \in Int /\ h2[x] = h1[x]
  PROVE  SumOver(S, h2) = SumOver(S, h1)
<1>1. CASE S = {}
  <2>1. PICK g1 : Sums(g1, h1, S)
    BY SumsExist
  <2>2. PICK g2 : Sums(g2, h2, S)
    BY SumsExist
  <2>3. g1[S] = 0 /\ g2[S] = 0
    BY <1>1, <2>1, <2>2 DEF Sums, SumOf
  <2> QED
    BY <2>1, <2>2, <2>3, SumOverSums
<1>2. CASE S # {}
  <2>1. PICK b \in S : TRUE
    BY <1>2
  <2>2. SumOver(S, h2) = SumOver(S, h1) + (h2[b] - h1[b])
    BY <2>1, SumOverDiffer
  <2>3. SumOver(S, h1) \in Int /\ h2[b] - h1[b] = 0
    BY <2>1, SumOverType
  <2> QED
    BY <2>2, <2>3
<1> QED
  BY <1>1, <1>2
==============================================================================
