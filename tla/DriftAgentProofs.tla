-------------------------- MODULE DriftAgentProofs --------------------------
(***************************************************************************)
(* Proofs about DriftAgent for any files, certificates and updates, any    *)
(* number of generations, changes and faults; first of sums over finite    *)
(* sets, then of evaluateTrustStore, then of the agent.                    *)
(***************************************************************************)
EXTENDS DriftAgent, FiniteSetTheorems, WellFoundedInduction, TLAPS
-----------------------------------------------------------------------------
(* Sums over finite sets                                                     *)

(* A set of numbers has a least one: what the proofs below use in place of   *)
(* induction.                                                                *)
LEMMA LeastNumber ==
  ASSUME NEW B \in SUBSET Nat, B # {}
  PROVE  \E m \in B : \A n \in B : m <= n
<1>1. PICK m \in B : \A n \in B : <<n, m>> \notin OpToRel(<, Nat)
  BY NatLessThanWellFounded, WFMin, Zenon
<1>2. \A n \in B : ~(n < m)
  BY <1>1 DEF OpToRel
<1> QED
  BY <1>2

(* Of subsets of a finite set, one contains no other.                        *)
LEMMA LeastSubset ==
  ASSUME NEW S, IsFiniteSet(S), NEW B \in SUBSET (SUBSET S), B # {}
  PROVE  \E T \in B : \A x \in T : T \ {x} \notin B
<1> DEFINE C == {Cardinality(T) : T \in B}
<1>1. \A T \in B : IsFiniteSet(T) /\ Cardinality(T) \in Nat
  BY FS_Subset, FS_CardinalityType
<1>2. C \in SUBSET Nat /\ C # {}
  BY <1>1
<1>3. PICK m \in C : \A n \in C : m <= n
  BY <1>2, LeastNumber
<1>4. PICK T \in B : m = Cardinality(T)
  BY <1>3
<1>5. ASSUME NEW x \in T, T \ {x} \in B PROVE FALSE
  <2>1. Cardinality(T \ {x}) = Cardinality(T) - 1
    BY <1>1, FS_RemoveElement
  <2>2. m <= Cardinality(T \ {x})
    BY <1>3, <1>5
  <2> QED
    BY <1>1, <1>4, <2>1, <2>2
<1> QED
  BY <1>5

(* A sum over a set, taken one element at a time as MapThenSumSet does.      *)
Pick(s) == CHOOSE x \in s : TRUE
IsSum(g, f, S) ==
  g = [s \in SUBSET S |-> IF s = {} THEN 0 ELSE f[Pick(s)] + g[s \ {Pick(s)}]]

(* The element taken is one of the set.                                      *)
LEMMA PickMember == ASSUME NEW s, s # {} PROVE Pick(s) \in s
BY DEF Pick

(* There is a sum.                                                           *)
LEMMA SumExists ==
  ASSUME NEW S, IsFiniteSet(S), NEW f \in [S -> Nat]
  PROVE  \E g : IsSum(g, f, S)
<1> DEFINE Small(n) == {s \in SUBSET S : Cardinality(s) <= n}
           Partial(g, n) ==
             \A s \in Small(n) : g[s] = IF s = {} THEN 0 ELSE f[Pick(s)] + g[s \ {Pick(s)}]
           B == {n \in Nat : ~\E g : Partial(g, n)}
<1>1. \A s \in SUBSET S : IsFiniteSet(s) /\ Cardinality(s) \in Nat
  BY FS_Subset, FS_CardinalityType
<1>2. ASSUME B # {} PROVE FALSE
  <2>1. PICK m \in B : \A n \in B : m <= n
    BY <1>2, LeastNumber
  <2>2. CASE m = 0
    <3>1. Small(0) = {{}}
      BY <1>1, FS_EmptySet
    <3>2. Partial([s \in Small(0) |-> 0], 0)
      BY <3>1
    <3> QED
      BY <2>1, <2>2, <3>2
  <2>3. CASE m # 0
    <3>1. m - 1 \in Nat /\ ~(m <= m - 1)
      BY <2>1, <2>3
    <3>2. PICK g : Partial(g, m - 1)
      BY <2>1, <3>1
    <3> DEFINE h == [s \in Small(m) |-> IF s \in Small(m - 1) THEN g[s]
                                        ELSE f[Pick(s)] + g[s \ {Pick(s)}]]
    <3>3. ASSUME NEW s \in Small(m), s # {}
          PROVE  s \ {Pick(s)} \in Small(m - 1)
      <4>1. Pick(s) \in s
        BY <3>3, PickMember
      <4>2. Cardinality(s \ {Pick(s)}) = Cardinality(s) - 1
        BY <1>1, <4>1, FS_RemoveElement
      <4> QED
        BY <1>1, <4>2, <3>1
    <3>4. ASSUME NEW s \in Small(m)
          PROVE  h[s] = IF s = {} THEN 0 ELSE f[Pick(s)] + h[s \ {Pick(s)}]
      <4>1. Small(m - 1) \subseteq Small(m)
        BY <1>1, <3>1
      <4>2. CASE s = {}
        <5>1. s \in Small(m - 1)
          BY <4>2, <3>1, FS_EmptySet
        <5> QED
          BY <5>1, <4>2, <3>2
      <4>3. CASE s # {}
        <5>1. s \ {Pick(s)} \in Small(m - 1) /\ s \ {Pick(s)} \in Small(m)
          BY <4>3, <3>3, <4>1
        <5>2. h[s \ {Pick(s)}] = g[s \ {Pick(s)}]
          BY <5>1
        <5>3. h[s] = f[Pick(s)] + g[s \ {Pick(s)}]
          BY <4>3, <3>2
        <5> QED
          BY <4>3, <5>2, <5>3
      <4> QED
        BY <4>2, <4>3
    <3>5. Partial(h, m)
      BY <3>4
    <3> QED
      BY <2>1, <3>5
  <2> QED
    BY <2>2, <2>3
<1>3. PICK g : Partial(g, Cardinality(S))
  BY <1>1, <1>2
<1> DEFINE h == [s \in SUBSET S |-> g[s]]
<1>4. \A s \in SUBSET S : s \in Small(Cardinality(S)) /\ s \ {Pick(s)} \in SUBSET S
  BY FS_Subset
<1>5. \A s \in SUBSET S : h[s] = IF s = {} THEN 0 ELSE f[Pick(s)] + h[s \ {Pick(s)}]
  BY <1>3, <1>4
<1>6. h = [s \in SUBSET S |-> IF s = {} THEN 0 ELSE f[Pick(s)] + h[s \ {Pick(s)}]]
  BY <1>5
<1> QED
  BY <1>6 DEF IsSum

(* A sum is a number, and one of no elements is zero.                        *)
LEMMA SumType ==
  ASSUME NEW S, IsFiniteSet(S), NEW f \in [S -> Nat], NEW g, IsSum(g, f, S)
  PROVE  g[{}] = 0 /\ \A s \in SUBSET S : g[s] \in Nat
<1> DEFINE B == {s \in SUBSET S : g[s] \notin Nat}
<1>1. \A s \in SUBSET S : g[s] = IF s = {} THEN 0 ELSE f[Pick(s)] + g[s \ {Pick(s)}]
  BY DEF IsSum
<1>2. ASSUME B # {} PROVE FALSE
  <2>1. PICK s \in B : \A x \in s : s \ {x} \notin B
    BY <1>2, LeastSubset
  <2>2. s \in SUBSET S /\ g[s] \notin Nat
    BY <2>1
  <2>3. s # {}
    BY <1>1, <2>2
  <2>4. Pick(s) \in s
    BY <2>3, PickMember
  <2>5. g[s \ {Pick(s)}] \in Nat /\ f[Pick(s)] \in Nat
    BY <2>1, <2>2, <2>4
  <2>6. g[s] = f[Pick(s)] + g[s \ {Pick(s)}]
    BY <1>1, <2>2, <2>3
  <2> QED
    BY <2>2, <2>5, <2>6
<1> QED
  BY <1>1, <1>2

(* Any element may be taken first.                                           *)
LEMMA SumRemove ==
  ASSUME NEW S, IsFiniteSet(S), NEW f \in [S -> Nat], NEW g, IsSum(g, f, S),
         NEW s \in SUBSET S, NEW x \in s
  PROVE  g[s] = f[x] + g[s \ {x}]
<1> DEFINE B == {t \in SUBSET S : \E y \in t : g[t] # f[y] + g[t \ {y}]}
<1>1. \A t \in SUBSET S : g[t] = IF t = {} THEN 0 ELSE f[Pick(t)] + g[t \ {Pick(t)}]
  BY DEF IsSum
<1>2. ASSUME B # {} PROVE FALSE
  <2>1. PICK t \in B : \A y \in t : t \ {y} \notin B
    BY <1>2, LeastSubset
  <2>2. PICK y \in t : g[t] # f[y] + g[t \ {y}]
    BY <2>1
  <2> DEFINE p == Pick(t)
  <2>3. p \in t /\ g[t] = f[p] + g[t \ {p}]
    BY <1>1, <2>2, PickMember
  <2>4. p # y
    BY <2>2, <2>3
  <2>5. g[t \ {p}] = f[y] + g[(t \ {p}) \ {y}]
    BY <2>1, <2>2, <2>3, <2>4
  <2>6. g[t \ {y}] = f[p] + g[(t \ {y}) \ {p}]
    BY <2>1, <2>2, <2>3, <2>4
  <2>7. (t \ {p}) \ {y} = (t \ {y}) \ {p}
    OBVIOUS
  <2>8. f[p] \in Nat /\ f[y] \in Nat
    BY <2>2, <2>3
  <2>9. g[(t \ {p}) \ {y}] \in Nat
    <3>1. (t \ {p}) \ {y} \in SUBSET S
      OBVIOUS
    <3> QED
      BY <3>1, SumType
  <2>10. g[t] = f[p] + (f[y] + g[(t \ {p}) \ {y}]) /\ g[t \ {y}] = f[p] + g[(t \ {p}) \ {y}]
    BY <2>3, <2>5, <2>6, <2>7
  <2>11. \A m, n, o \in Nat : m + (n + o) = n + (m + o)
    OBVIOUS
  <2> HIDE DEF p
  <2> QED
    BY <2>2, <2>8, <2>9, <2>10, <2>11
<1> QED
  BY <1>2

(* Elements that count for nothing may be left out.                          *)
LEMMA SumSupport ==
  ASSUME NEW S, NEW T, IsFiniteSet(T), S \subseteq T,
         NEW f \in [S -> Nat], NEW h \in [T -> Nat],
         \A x \in T : h[x] = IF x \in S THEN f[x] ELSE 0,
         NEW g, IsSum(g, f, S), NEW k, IsSum(k, h, T)
  PROVE  g[S] = k[T]
<1> DEFINE B == {t \in SUBSET T : k[t] # g[t \cap S]}
<1>1. IsFiniteSet(S)
  BY FS_Subset
<1>2. g[{}] = 0 /\ k[{}] = 0
  BY <1>1, SumType
<1>3. ASSUME B # {} PROVE FALSE
  <2>1. PICK t \in B : \A x \in t : t \ {x} \notin B
    BY <1>3, LeastSubset
  <2>0. t \in SUBSET T /\ k[t] # g[t \cap S]
    BY <2>1
  <2>2. PICK x \in t : TRUE
    <3>1. {} \cap S = {}
      OBVIOUS
    <3> QED
      BY <1>2, <2>0, <3>1
  <2>3. k[t] = h[x] + k[t \ {x}]
    BY <2>0, SumRemove
  <2>4. k[t \ {x}] = g[(t \ {x}) \cap S]
    BY <2>0, <2>1
  <2>5. CASE x \in S
    <3>1. g[t \cap S] = f[x] + g[(t \cap S) \ {x}]
      BY <1>1, <2>5, SumRemove
    <3>2. (t \cap S) \ {x} = (t \ {x}) \cap S
      OBVIOUS
    <3> QED
      BY <2>0, <2>3, <2>4, <2>5, <3>1, <3>2
  <2>6. CASE x \notin S
    <3>1. (t \ {x}) \cap S = t \cap S
      BY <2>6
    <3>2. g[t \cap S] \in Nat
      BY <1>1, SumType
    <3> QED
      BY <2>0, <2>3, <2>4, <2>6, <3>1, <3>2
  <2> QED
    BY <2>5, <2>6
<1>4. k[T] = g[T \cap S]
  BY <1>3
<1>5. T \cap S = S
  OBVIOUS
<1> QED
  BY <1>4, <1>5

(* A sum is zero exactly when every element counts for nothing.              *)
LEMMA SumZero ==
  ASSUME NEW S, IsFiniteSet(S), NEW f \in [S -> Nat], NEW g, IsSum(g, f, S)
  PROVE  g[S] = 0 <=> \A x \in S : f[x] = 0
<1>1. ASSUME NEW x \in S, f[x] # 0 PROVE g[S] # 0
  <2>1. g[S] = f[x] + g[S \ {x}] /\ g[S \ {x}] \in Nat /\ f[x] \in Nat
    BY SumRemove, SumType
  <2> QED
    BY <1>1, <2>1
<1>2. ASSUME \A x \in S : f[x] = 0, g[S] # 0 PROVE FALSE
  <2> DEFINE B == {s \in SUBSET S : g[s] # 0}
  <2>1. PICK s \in B : \A x \in s : s \ {x} \notin B
    BY <1>2, LeastSubset
  <2>2. s \in SUBSET S /\ g[s] # 0
    BY <2>1
  <2>3. PICK x \in s : TRUE
    BY <2>2, SumType
  <2>4. g[s] = f[x] + g[s \ {x}]
    BY <2>2, SumRemove
  <2>5. g[s \ {x}] = 0 /\ f[x] = 0
    BY <1>2, <2>1, <2>2
  <2> QED
    BY <2>2, <2>4, <2>5
<1> QED
  BY <1>1, <1>2
-----------------------------------------------------------------------------
(* evaluateTrustStore                                                        *)

(* A baseline names a certificate once, and a key without one once.          *)
LEMMA SoundRoots ==
  ASSUME NEW roots, Sound(roots)
  PROVE  /\ \A r, s \in roots : r.cert = s.cert /\ r.cert # None => r = s
         /\ \A r, s \in roots : r.cert = None /\ s.cert = None /\ r.spki = s.spki => r = s
         /\ \A r \in roots : r.cert # None => r.cert \in Certs /\ r.spki = SPKI[r.cert]
BY DEF Sound, ValidBaseline, Identity

(* Legacy, removed and observed roots of a key are all there are.            *)
LEMMA RootsOfKey ==
  ASSUME NEW roots, Sound(roots), NEW seen \in SUBSET Certs, NEW k
  PROVE  /\ IsFiniteSet(Candidates(roots, k)) /\ IsFiniteSet(WithKey(seen, k))
         /\ Cardinality(Candidates(roots, k)) \in Nat
         /\ Cardinality(WithKey(seen, k)) \in Nat
         /\ Cardinality(Legacy(roots, k)) \in Nat
         /\ Cardinality(Gone(roots, seen, k)) \in Nat
         /\ Cardinality(WithKey(Exact(roots, seen), k)) \in Nat
         /\ Cardinality(WithKey(Exact(roots, seen), k)) <= Cardinality(WithKey(seen, k))
         /\ Cardinality(Candidates(roots, k)) =
              Cardinality(Legacy(roots, k)) + Cardinality(Gone(roots, seen, k))
                + Cardinality(WithKey(Exact(roots, seen), k))
<1> DEFINE C == Candidates(roots, k)
           L == Legacy(roots, k)
           G == Gone(roots, seen, k)
           P == {r \in C : r.cert # None /\ r.cert \in seen}
           X == WithKey(Exact(roots, seen), k)
           W == WithKey(seen, k)
<1>1. IsFiniteSet(roots) /\ IsFiniteSet(Certs) /\ None \notin Certs
  BY EvalAssumption DEF Sound
<1>2. C \in SUBSET roots /\ L \in SUBSET C /\ G \in SUBSET C /\ P \in SUBSET C
  BY DEF Candidates, Legacy, Gone
<1>3. W \in SUBSET Certs /\ X \in SUBSET W
  BY DEF WithKey, Exact
<1>4. IsFiniteSet(C) /\ IsFiniteSet(W)
  BY <1>1, <1>2, <1>3, FS_Subset
<1>5. IsFiniteSet(L) /\ IsFiniteSet(G) /\ IsFiniteSet(P) /\ IsFiniteSet(X) /\ Cardinality(X) <= Cardinality(W)
  BY <1>2, <1>3, <1>4, FS_Subset
<1>6. Cardinality(P) = Cardinality(X)
  <2> DEFINE f == [r \in P |-> r.cert]
  <2>1. \A r \in P : r.cert \in X
    BY <1>2, SoundRoots DEF WithKey, Exact, Candidates
  <2>2. \A r, s \in P : r.cert = s.cert => r = s
    BY <1>2, SoundRoots
  <2>3. \A c \in X : \E r \in P : r.cert = c
    BY <1>1, SoundRoots DEF WithKey, Exact, Candidates
  <2>4. f \in Bijection(P, X)
    <3> HIDE DEF P, X
    <3>1. f \in [P -> X]
      BY <2>1
    <3>2. \A r, s \in P : f[r] = f[s] => r = s
      BY <2>2
    <3>3. \A c \in X : \E r \in P : f[r] = c
      BY <2>3
    <3> HIDE DEF f
    <3> QED
      BY <3>1, <3>2, <3>3 DEF Bijection, Injection, Surjection, IsInjective
  <2> QED
    BY <1>5, <2>4, FS_Bijection DEF ExistsBijection
<1>7. Cardinality(L \cup G) = Cardinality(L) + Cardinality(G)
  <2>1. L \cap G = {}
    BY DEF Legacy, Gone
  <2>2. Cardinality(L \cup G) = Cardinality(L) + Cardinality(G) - Cardinality(L \cap G)
    BY <1>5, FS_Union
  <2>3. Cardinality(L \cap G) = 0
    BY <2>1, FS_EmptySet, Zenon
  <2>4. Cardinality(L) \in Nat /\ Cardinality(G) \in Nat
    BY <1>5, FS_CardinalityType
  <2> HIDE DEF L, G
  <2> QED
    BY <2>2, <2>3, <2>4
<1>8. Cardinality(C) = Cardinality(L \cup G) + Cardinality(P)
  <2>1. (L \cup G) \cap P = {} /\ C = (L \cup G) \cup P
    BY DEF Legacy, Gone
  <2>2. IsFiniteSet(L \cup G)
    BY <1>5, FS_Union
  <2>3. Cardinality((L \cup G) \cup P) =
          Cardinality(L \cup G) + Cardinality(P) - Cardinality((L \cup G) \cap P)
    BY <1>5, <2>2, FS_Union
  <2>4. Cardinality((L \cup G) \cap P) = 0
    BY <2>1, FS_EmptySet, Zenon
  <2>5. Cardinality(L \cup G) \in Nat /\ Cardinality(P) \in Nat
    BY <1>5, <2>2, FS_CardinalityType
  <2>6. Cardinality(C) = Cardinality((L \cup G) \cup P)
    BY <2>1, Zenon
  <2> HIDE DEF C, L, G, P
  <2> QED
    BY <2>3, <2>4, <2>5, <2>6
<1> QED
  BY <1>4, <1>5, <1>6, <1>7, <1>8, FS_CardinalityType

(* Of each key as many roots are missing as there are certificates too few.  *)
LEMMA MissingOfKey ==
  ASSUME NEW roots, Sound(roots), NEW seen \in SUBSET Certs, NEW k
  PROVE  /\ MissingOf(roots, seen, k) =
              Less(Cardinality(Candidates(roots, k)), Cardinality(WithKey(seen, k)))
         /\ MissingOf(roots, seen, k) \in Nat
<1>1. ASSUME NEW l \in Nat, NEW g \in Nat, NEW x \in Nat, NEW w \in Nat, x <= w
      PROVE  /\ Less(l, w - x) + Less(g, Less(w - x, l)) = Less(l + g + x, w)
             /\ Less(l + g + x, w) \in Nat
  BY <1>1 DEF Less
<1> DEFINE C == Cardinality(Candidates(roots, k))
           l == Cardinality(Legacy(roots, k))
           g == Cardinality(Gone(roots, seen, k))
           x == Cardinality(WithKey(Exact(roots, seen), k))
           w == Cardinality(WithKey(seen, k))
<1>2. l \in Nat /\ g \in Nat /\ x \in Nat /\ w \in Nat /\ x <= w /\ C = l + g + x
  BY RootsOfKey
<1>3. MissingOf(roots, seen, k) = Less(l, w - x) + Less(g, Less(w - x, l))
  BY DEF MissingOf, SubstitutionBudget
<1> HIDE DEF C, l, g, x, w
<1>4. /\ Less(l, w - x) + Less(g, Less(w - x, l)) = Less(l + g + x, w)
      /\ Less(l + g + x, w) \in Nat
  BY <1>1, <1>2
<1> QED
  BY <1>2, <1>3, <1>4 DEF C, w

(* Missing is the sum over all keys there are, those of no root included.    *)
LEMMA MissingIsSum ==
  ASSUME NEW roots, Sound(roots), NEW seen \in SUBSET Certs
  PROVE  /\ Missing(roots, seen) =
              MapThenSumSet(LAMBDA k : Less(Cardinality(Candidates(roots, k)),
                                            Cardinality(WithKey(seen, k))),
                            {SPKI[c] : c \in Certs} \cup {r.spki : r \in roots})
         /\ Missing(roots, seen) \in Nat
         /\ Missing(roots, seen) = 0 <=> \A r \in roots : MissingOf(roots, seen, r.spki) = 0
<1> DEFINE K == {r.spki : r \in roots}
           T == {SPKI[c] : c \in Certs} \cup K
           D(k) == Less(Cardinality(Candidates(roots, k)), Cardinality(WithKey(seen, k)))
           f == [k \in K |-> MissingOf(roots, seen, k)]
           h == [k \in T |-> D(k)]
<1>1. IsFiniteSet(K) /\ IsFiniteSet(T)
  <2>1. [r \in roots |-> r.spki] \in Surjection(roots, K)
    BY DEF Surjection
  <2>2. [c \in Certs |-> SPKI[c]] \in Surjection(Certs, {SPKI[c] : c \in Certs})
    BY DEF Surjection
  <2>3. IsFiniteSet(roots) /\ IsFiniteSet(Certs)
    BY EvalAssumption DEF Sound
  <2> QED
    BY <2>1, <2>2, <2>3, FS_Surjection, FS_Union
<1>2. f \in [K -> Nat] /\ h \in [T -> Nat]
  BY MissingOfKey
<1>3. \A k \in T : h[k] = IF k \in K THEN f[k] ELSE 0
  <2>1. ASSUME NEW k \in T, k \notin K PROVE D(k) = 0
    <3>1. Candidates(roots, k) = {}
      BY <2>1 DEF Candidates
    <3>2. Cardinality(Candidates(roots, k)) = 0 /\ Cardinality(WithKey(seen, k)) \in Nat
      BY <3>1, FS_EmptySet, RootsOfKey
    <3> QED
      BY <3>2 DEF Less
  <2> QED
    BY <2>1, MissingOfKey
<1>4. \E g : g = [s \in SUBSET K |->
                    IF s = {} THEN 0
                    ELSE MissingOf(roots, seen, CHOOSE x \in s : TRUE) + g[s \ {CHOOSE x \in s : TRUE}]]
  <2>1. PICK g : IsSum(g, f, K)
    <3> HIDE DEF f, h, K, T
    <3> QED
      BY <1>1, <1>2, SumExists
  <2>2. \A s \in SUBSET K : s # {} => f[Pick(s)] = MissingOf(roots, seen, Pick(s))
    BY PickMember
  <2>3. g = [s \in SUBSET K |->
              IF s = {} THEN 0 ELSE MissingOf(roots, seen, Pick(s)) + g[s \ {Pick(s)}]]
    BY <2>1, <2>2 DEF IsSum
  <2> QED
    BY <2>3 DEF Pick
<1>5. \E g : g = [s \in SUBSET T |->
                    IF s = {} THEN 0
                    ELSE D(CHOOSE x \in s : TRUE) + g[s \ {CHOOSE x \in s : TRUE}]]
  <2>1. PICK g : IsSum(g, h, T)
    <3> HIDE DEF f, h, K, T
    <3> QED
      BY <1>1, <1>2, SumExists
  <2>2. \A s \in SUBSET T : s # {} => h[Pick(s)] = D(Pick(s))
    BY PickMember
  <2>3. g = [s \in SUBSET T |->
              IF s = {} THEN 0 ELSE D(Pick(s)) + g[s \ {Pick(s)}]]
    BY <2>1, <2>2 DEF IsSum
  <2> QED
    BY <2>3 DEF Pick
<1> DEFINE g == CHOOSE g : g = [s \in SUBSET K |->
                    IF s = {} THEN 0
                    ELSE MissingOf(roots, seen, CHOOSE x \in s : TRUE) + g[s \ {CHOOSE x \in s : TRUE}]]
           i == CHOOSE j : j = [s \in SUBSET T |->
                    IF s = {} THEN 0
                    ELSE D(CHOOSE x \in s : TRUE) + j[s \ {CHOOSE x \in s : TRUE}]]
<1>6. Missing(roots, seen) = g[K]
  BY DEF Missing, MapThenSumSet, MapThenFoldSet
<1>7. MapThenSumSet(LAMBDA k : Less(Cardinality(Candidates(roots, k)),
                                    Cardinality(WithKey(seen, k))), T) = i[T]
  BY DEF MapThenSumSet, MapThenFoldSet
<1>8. g = [s \in SUBSET K |->
            IF s = {} THEN 0
            ELSE MissingOf(roots, seen, CHOOSE x \in s : TRUE) + g[s \ {CHOOSE x \in s : TRUE}]]
  BY <1>4, Zenon
<1>9. i = [s \in SUBSET T |->
            IF s = {} THEN 0
            ELSE D(CHOOSE x \in s : TRUE) + i[s \ {CHOOSE x \in s : TRUE}]]
  BY <1>5, Zenon
<1> HIDE DEF g, i
<1>10. IsSum(g, f, K)
  <2>1. \A s \in SUBSET K : s # {} => f[Pick(s)] = MissingOf(roots, seen, Pick(s))
    BY PickMember
  <2>2. g = [s \in SUBSET K |->
              IF s = {} THEN 0 ELSE MissingOf(roots, seen, Pick(s)) + g[s \ {Pick(s)}]]
    BY <1>8 DEF Pick
  <2> QED
    BY <2>1, <2>2 DEF IsSum
<1>11. IsSum(i, h, T)
  <2>1. \A s \in SUBSET T : s # {} => h[Pick(s)] = D(Pick(s))
    BY PickMember
  <2>2. i = [s \in SUBSET T |-> IF s = {} THEN 0 ELSE D(Pick(s)) + i[s \ {Pick(s)}]]
    BY <1>9 DEF Pick
  <2> QED
    BY <2>1, <2>2 DEF IsSum
<1>12. g[K] = i[T]
  <2> HIDE DEF f, h, D
  <2> QED
    BY <1>1, <1>2, <1>3, <1>10, <1>11, SumSupport
<1>13. g[K] \in Nat
  <2> HIDE DEF f
  <2> QED
    BY <1>1, <1>2, <1>10, SumType
<1>14. g[K] = 0 <=> \A k \in K : f[k] = 0
  <2> HIDE DEF f, K
  <2> QED
    BY <1>1, <1>2, <1>10, SumZero
<1>15. (\A k \in K : f[k] = 0) <=> \A r \in roots : MissingOf(roots, seen, r.spki) = 0
  OBVIOUS
<1> QED
  BY <1>6, <1>7, <1>12, <1>13, <1>14, <1>15

(* Checked roots without drift: each certificate has a root of its own.      *)
LEMMA CleanMeansOneToOne ==
  ASSUME NEW roots, Sound(roots), NEW seen \in SUBSET Certs,
         Unknown(roots, seen) = {}, Reissued(roots, seen) = {}, PolicyChanged(roots, seen) = {},
         \A r \in roots : MissingOf(roots, seen, r.spki) = 0
  PROVE  OneToOne(roots, seen)
<1> DEFINE Lone == seen \ Exact(roots, seen)
<1>1. IsFiniteSet(roots) /\ IsFiniteSet(seen) /\ None \notin Certs
  BY EvalAssumption, FS_Subset DEF Sound
<1>2. ASSUME NEW c \in Lone
      PROVE  /\ c \in LegacyCertificates(roots, seen)
             /\ \E r \in roots : r.cert = None /\ r.spki = SPKI[c]
             /\ {d \in Lone : SPKI[d] = SPKI[c] /\ HashRank[d] < HashRank[c]} = {}
  <2> DEFINE Lower == {d \in Lone : SPKI[d] = SPKI[c] /\ HashRank[d] < HashRank[c]}
             L == Legacy(roots, SPKI[c])
  <2>1. c \in LegacyCertificates(roots, seen)
    BY <1>2 DEF Unknown, Reissued
  <2>2. Cardinality(Lower) < Cardinality(L)
    BY <2>1 DEF LegacyCertificates
  <2>3. IsFiniteSet(Lower) /\ IsFiniteSet(L)
    BY <1>1, FS_Subset DEF Legacy, Candidates
  <2>4. Cardinality(Lower) \in Nat /\ Cardinality(L) \in Nat
    BY <2>3, FS_CardinalityType
  <2>5. L # {}
    BY <2>2, <2>3, <2>4, FS_EmptySet
  <2>6. PICK r \in L : TRUE
    BY <2>5
  <2>7. L = {r}
    BY <2>6, SoundRoots DEF Legacy, Candidates
  <2>8. Cardinality(L) = 1
    BY <2>7, FS_Singleton
  <2>9. Lower = {}
    BY <2>2, <2>3, <2>4, <2>8, FS_EmptySet
  <2>10. r \in roots /\ r.cert = None /\ r.spki = SPKI[c]
    BY <2>6 DEF Legacy, Candidates
  <2> QED
    BY <2>1, <2>9, <2>10
<1>3. \A c, d \in Lone : SPKI[c] = SPKI[d] => c = d
  <2> SUFFICES ASSUME NEW c \in Lone, NEW d \in Lone, SPKI[c] = SPKI[d], c # d PROVE FALSE
    OBVIOUS
  <2>1. HashRank[c] \in Nat /\ HashRank[d] \in Nat /\ HashRank[c] # HashRank[d]
    BY EvalAssumption
  <2>2. ~(HashRank[c] < HashRank[d]) /\ ~(HashRank[d] < HashRank[c])
    BY <1>2
  <2> QED
    BY <2>1, <2>2
<1>4. \A c \in seen : \E r \in roots :
        IF c \in Lone THEN r.cert = None /\ r.spki = SPKI[c] ELSE r.cert = c
  BY <1>2 DEF Exact
<1> DEFINE g == [c \in seen |-> CHOOSE r \in roots :
                    IF c \in Lone THEN r.cert = None /\ r.spki = SPKI[c] ELSE r.cert = c]
<1>5. \A c \in seen : /\ g[c] \in roots
                      /\ IF c \in Lone THEN g[c].cert = None /\ g[c].spki = SPKI[c] ELSE g[c].cert = c
  BY <1>4
<1> HIDE DEF g, Lone
<1>6. \A c \in seen : g[c].spki = SPKI[c]
  BY <1>1, <1>5, SoundRoots
<1>7. \A c, d \in seen : g[c] = g[d] => c = d
  BY <1>1, <1>3, <1>5
<1>8. g \in [seen -> roots]
  BY <1>5 DEF g
<1>9. ASSUME NEW r \in roots PROVE \E c \in seen : g[c] = r
  <2> DEFINE k == r.spki
             W == WithKey(seen, k)
             C == Candidates(roots, k)
             h == [c \in W |-> g[c]]
  <2>1. IsFiniteSet(C) /\ IsFiniteSet(W) /\ Cardinality(C) \in Nat /\ Cardinality(W) \in Nat
    BY RootsOfKey
  <2>2. Less(Cardinality(C), Cardinality(W)) = 0
    BY MissingOfKey
  <2>3. Cardinality(C) <= Cardinality(W)
    BY <2>1, <2>2 DEF Less
  <2>4. h \in [W -> C]
    BY <1>5, <1>6 DEF WithKey, Candidates
  <2>5. \A c, d \in W : h[c] = h[d] => c = d
    BY <1>7 DEF WithKey
  <2>6. h \in Injection(W, C)
    <3> HIDE DEF h, W, C
    <3> QED
      BY <2>4, <2>5 DEF Injection, IsInjective
  <2>7. Cardinality(W) <= Cardinality(C) /\ (Cardinality(W) = Cardinality(C) <=> h \in Surjection(W, C))
    <3> HIDE DEF h, W, C
    <3> QED
      BY <2>1, <2>6, FS_Injection
  <2>8. h \in Surjection(W, C)
    BY <2>1, <2>3, <2>7
  <2>9. r \in C
    BY DEF Candidates
  <2>10. PICK c \in W : h[c] = r
    BY <2>8, <2>9 DEF Surjection
  <2> QED
    BY <2>10 DEF WithKey
<1>10. Cardinality(roots) = Cardinality(seen)
  <2>1. g \in Bijection(seen, roots)
    BY <1>7, <1>8, <1>9 DEF Bijection, Injection, Surjection, IsInjective
  <2> QED
    BY <1>1, <2>1, FS_Bijection DEF ExistsBijection
<1> DEFINE f == [r \in roots |-> CHOOSE c \in seen : g[c] = r]
<1>11. \A r \in roots : f[r] \in seen /\ g[f[r]] = r
  BY <1>9
<1>12. f \in [roots -> seen]
  BY <1>11
<1> HIDE DEF f
<1>13. ASSUME NEW r \in roots PROVE Matches(r, f[r])
  <2>1. CASE f[r] \in Lone
    BY <1>5, <1>11, <2>1 DEF Matches
  <2>2. CASE f[r] \notin Lone
    <3>1. r.cert = f[r] /\ r.cert # None
      BY <1>1, <1>5, <1>11, <2>2
    <3>2. ~OtherPolicy(r, f[r])
      BY <1>11, <3>1 DEF PolicyChanged
    <3> QED
      BY <3>1, <3>2 DEF Matches
  <2> QED
    BY <2>1, <2>2
<1> QED
  BY <1>10, <1>11, <1>12, <1>13 DEF OneToOne

(* And conversely.                                                           *)
LEMMA OneToOneMeansClean ==
  ASSUME NEW roots, Sound(roots), NEW seen \in SUBSET Certs, OneToOne(roots, seen)
  PROVE  /\ Unknown(roots, seen) = {} /\ Reissued(roots, seen) = {} /\ PolicyChanged(roots, seen) = {}
         /\ \A r \in roots : MissingOf(roots, seen, r.spki) = 0
<1>1. IsFiniteSet(roots) /\ IsFiniteSet(seen) /\ None \notin Certs
  BY EvalAssumption, FS_Subset DEF Sound
<1>2. PICK f \in [roots -> seen] : /\ \A r \in roots : Matches(r, f[r])
                                   /\ \A r, s \in roots : f[r] = f[s] => r = s
  BY DEF OneToOne
<1>3. \A c \in seen : \E r \in roots : f[r] = c
  <2>1. f \in Injection(roots, seen)
    BY <1>2 DEF Injection, IsInjective
  <2>2. f \in Surjection(roots, seen)
    BY <1>1, <2>1, FS_Injection DEF OneToOne
  <2> QED
    BY <2>2 DEF Surjection
<1>4. \A r \in roots : SPKI[f[r]] = r.spki
  BY <1>2, SoundRoots DEF Matches
<1>5. Unknown(roots, seen) = {}
  BY <1>3, <1>4 DEF Unknown, Candidates
<1>6. PolicyChanged(roots, seen) = {}
  <2> SUFFICES ASSUME NEW c \in seen, NEW r \in roots, r.cert = c, OtherPolicy(r, c) PROVE FALSE
    BY DEF PolicyChanged
  <2> QED
    BY <1>1, <1>2 DEF Matches
<1>7. ASSUME NEW c \in seen \ Exact(roots, seen) PROVE c \in LegacyCertificates(roots, seen)
  <2> DEFINE Lone == seen \ Exact(roots, seen)
             Lower == {d \in Lone : SPKI[d] = SPKI[c] /\ HashRank[d] < HashRank[c]}
             L == Legacy(roots, SPKI[c])
  <2>1. \A d \in Lone : \E r \in roots : f[r] = d /\ r.cert = None /\ r.spki = SPKI[d]
    BY <1>2, <1>3, <1>4 DEF Exact, Matches
  <2>2. ASSUME NEW d \in Lower PROVE FALSE
    <3>1. d = c
      BY <2>1, SoundRoots
    <3> QED
      BY <3>1, EvalAssumption
  <2>3. Lower = {}
    BY <2>2
  <2>4. L # {} /\ IsFiniteSet(L)
    BY <1>1, <2>1, FS_Subset DEF Legacy, Candidates
  <2>5. Cardinality(Lower) = 0
    BY <2>3, FS_EmptySet, Zenon
  <2>6. Cardinality(L) \in Nat /\ Cardinality(L) # 0
    BY <2>4, FS_EmptySet, FS_CardinalityType
  <2>7. Cardinality(Lower) < Cardinality(L)
    BY <2>5, <2>6
  <2> QED
    BY <2>7 DEF LegacyCertificates
<1>8. Reissued(roots, seen) = {}
  BY <1>7 DEF Reissued
<1>9. ASSUME NEW r \in roots PROVE MissingOf(roots, seen, r.spki) = 0
  <2> DEFINE k == r.spki
             W == WithKey(seen, k)
             C == Candidates(roots, k)
             h == [s \in C |-> f[s]]
  <2>1. IsFiniteSet(C) /\ IsFiniteSet(W) /\ Cardinality(C) \in Nat /\ Cardinality(W) \in Nat
    BY RootsOfKey
  <2>2. h \in [C -> W]
    BY <1>2, <1>4 DEF WithKey, Candidates
  <2>3. \A s, t \in C : h[s] = h[t] => s = t
    BY <1>2 DEF Candidates
  <2>4. h \in Injection(C, W)
    <3> HIDE DEF h, W, C
    <3> QED
      BY <2>2, <2>3 DEF Injection, IsInjective
  <2>5. Cardinality(C) <= Cardinality(W)
    <3> HIDE DEF h, W, C
    <3> QED
      BY <2>1, <2>4, FS_Injection
  <2>6. Less(Cardinality(C), Cardinality(W)) = 0
    BY <2>1, <2>5 DEF Less
  <2> QED
    BY <2>6, MissingOfKey
<1> QED
  BY <1>5, <1>6, <1>8, <1>9

(* The exit code says whether there is drift.                                *)
LEMMA ExitCode ==
  ASSUME NEW roots, Sound(roots), NEW seen \in SUBSET Certs, NEW t
  PROVE  CheckExitCode(Evaluate(roots, seen, t)) = 0
           <=> OneToOne(roots, seen) /\ \A c \in seen : ~(t > NotAfter[c])
<1> DEFINE Sets == {Unknown(roots, seen), PolicyChanged(roots, seen), Reissued(roots, seen),
                    Replaced(roots, seen), Expired(seen, t)}
<1>1. \A A \in Sets : A \in SUBSET seen
  BY DEF Unknown, PolicyChanged, Reissued, Replaced, Expired
<1>2. \A A \in Sets : Cardinality(A) \in Nat /\ (Cardinality(A) = 0 <=> A = {})
  <2>1. IsFiniteSet(seen)
    BY EvalAssumption, FS_Subset
  <2> QED
    BY <1>1, <2>1, FS_Subset, FS_EmptySet, FS_CardinalityType
<1>3. Missing(roots, seen) \in Nat
  BY MissingIsSum
<1>4. CheckExitCode(Evaluate(roots, seen, t)) = 0
        <=> /\ Unknown(roots, seen) = {} /\ PolicyChanged(roots, seen) = {}
            /\ Reissued(roots, seen) = {} /\ Replaced(roots, seen) = {}
            /\ Expired(seen, t) = {} /\ Missing(roots, seen) = 0
  <2> DEFINE u == Cardinality(Unknown(roots, seen))
             p == Cardinality(PolicyChanged(roots, seen))
             q == Cardinality(Reissued(roots, seen))
             s == Cardinality(Replaced(roots, seen))
             e == Cardinality(Expired(seen, t))
             m == Missing(roots, seen)
             x == Evaluate(roots, seen, t)
  <2>1. x.unknown = u /\ x.missing = m /\ x.changed = p + q + s /\ x.expired = e
    BY DEF Evaluate
  <2>2. u \in Nat /\ p \in Nat /\ q \in Nat /\ s \in Nat /\ e \in Nat /\ m \in Nat
    BY <1>2, <1>3
  <2>3. CheckExitCode(x) = 0 <=> u = 0 /\ m = 0 /\ p + q + s = 0 /\ e = 0
    <3> HIDE DEF x, u, p, q, s, e, m
    <3> QED
      BY <2>1, <2>2 DEF CheckExitCode
  <2>4. CheckExitCode(x) = 0 <=> u = 0 /\ m = 0 /\ p = 0 /\ q = 0 /\ s = 0 /\ e = 0
    <3> HIDE DEF x, u, p, q, s, e, m
    <3> QED
      BY <2>2, <2>3
  <2> QED
    BY <1>2, <2>4
<1>5. Replaced(roots, seen) \subseteq Unknown(roots, seen)
  BY DEF Replaced
<1>6. Missing(roots, seen) = 0 <=> \A r \in roots : MissingOf(roots, seen, r.spki) = 0
  BY MissingIsSum
<1>7. Expired(seen, t) = {} <=> \A c \in seen : ~(t > NotAfter[c])
  BY DEF Expired
<1> QED
  BY <1>4, <1>5, <1>6, <1>7, CleanMeansOneToOne, OneToOneMeansClean
-----------------------------------------------------------------------------
(* The agent                                                                 *)

(* What the files hold are certificates.                                     *)
LEMMA ContentsType ==
  ASSUME NEW s, s \in [Index -> {Absent} \cup SUBSET Certs]
  PROVE  /\ Contents(s) \in [Index -> SUBSET Certs]
         /\ Observed(s) \subseteq Certs
         /\ \A i \in Index : Contents(s)[i] \subseteq Observed(s)
         /\ \A i \in Index : Contents(s)[i] = IF s[i] = Absent THEN {} ELSE s[i]
<1>1. \A i \in Index : s[i] = Absent \/ s[i] \in SUBSET Certs
  OBVIOUS
<1>2. Contents(s) \in [Index -> SUBSET Certs]
  BY <1>1 DEF Contents
<1>3. \A i \in Index : Contents(s)[i] = IF s[i] = Absent THEN {} ELSE s[i]
  BY DEF Contents
<1> QED
  BY <1>2, <1>3 DEF Observed

(* The record of a scan that has not begun is one.                           *)
LEMMA NoScanType == NoScan \in Scan
<1>1. 1 \in 1..Len(Paths) + 1
  BY AgentAssumption
<1> QED
  BY <1>1 DEF NoScan, Scan

(* The host in its first state satisfies the inductive invariant.            *)
LEMMA InitAgent == Init => AgentInv
<1> SUFFICES ASSUME Init PROVE AgentInv
  OBVIOUS
<1>1. Len(Paths) \in Nat \ {0} /\ Lifetime \in Nat
  BY AgentAssumption
<1>2. NoBaseline \in Baseline /\ NoBaseline.sequence = 0
  BY DEF NoBaseline, Baseline
<1>3. /\ signed \subseteq Baseline /\ IsFiniteSet(signed)
      /\ artefact \in signed \cup {NoBaseline, Torn}
      /\ key \in File /\ public \in File
      /\ signed # {} => key = "whole"
  <2>1. CASE /\ key = "whole" /\ public = "whole"
             /\ \E roots \in FirstRoots : \E expires \in {0, Lifetime} :
                  artefact = [id |-> 1, sequence |-> 1, previous |-> 0, roots |-> roots, expires |-> expires]
             /\ signed = {artefact}
    <3>1. artefact \in Baseline
      BY <1>1, <2>1 DEF Baseline, Root
    <3> QED
      BY <2>1, <3>1, FS_Singleton DEF File
  <2>2. CASE key = "absent" /\ public = "absent" /\ artefact = NoBaseline /\ signed = {}
    BY <2>2, FS_EmptySet DEF File
  <2> QED
    BY <2>1, <2>2 DEF Init
<1>4. store \in [Index -> {Absent} \cup SUBSET Certs]
  BY AgentAssumption DEF Init
<1>5. scan \in Scan /\ steady \in [Index -> SUBSET Certs]
  BY NoScanType DEF Init, Unscanned
<1>6. signing \in Signing
  BY <1>2 DEF Init, Idle, Signing
<1>7. TypeOK
  BY <1>3, <1>4, <1>5, <1>6 DEF Init, TypeOK
<1>8. KeyOrder
  BY <1>3 DEF Init, Idle, KeyOrder
<1>9. SequenceOrder
  BY <1>2 DEF Init, NoScan, SequenceOrder
<1>10. ScanOrder
  BY <1>1 DEF Init, NoScan, Unscanned, Underway, ScanOrder
<1> QED
  BY <1>7, <1>8, <1>9, <1>10 DEF AgentInv

(* Whatever the files come to hold, the invariant is preserved: baseline,    *)
(* state and scan are left alone, but not what the scan is compared with.    *)
LEMMA HoldStep ==
  ASSUME AgentInv, NEW contents \in [Index -> {Absent} \cup SUBSET Certs], HoldNow(contents)
  PROVE  AgentInv'
<1> USE DEF AgentInv
<1>1. store' = contents /\ UNCHANGED <<now, files, signing, signed, agent>>
  BY DEF HoldNow
<1>2. Contents(store) \in [Index -> SUBSET Certs] /\ Contents(store)' \in [Index -> SUBSET Certs]
  BY <1>1, ContentsType DEF TypeOK, Contents
<1>3. /\ steady' \in [Index -> SUBSET Certs]
      /\ \A i \in Index : steady'[i] \subseteq steady[i] /\ steady'[i] \subseteq Contents(store)'[i]
  BY <1>1, <1>2 DEF HoldNow, TypeOK
<1>4. Underway' = Underway /\ (Underway => ever' = ever \cup Observed(store)')
  BY <1>1 DEF HoldNow, Underway, agent, Observed, Contents
<1>5. TypeOK'
  BY <1>1, <1>3 DEF TypeOK, Scan, files, agent
<1>6. KeyOrder' /\ SequenceOrder'
  BY <1>1 DEF KeyOrder, SequenceOrder, files, agent
<1>7. ScanOrder'
  BY <1>1, <1>3, <1>4 DEF ScanOrder, agent
<1> QED
  BY <1>5, <1>6, <1>7

(* A step of the host preserves the invariant.                               *)
LEMMA HostStep ==
  ASSUME AgentInv,
         \/ \E i \in Index : \E contents \in Updates : ChangeStore(i, contents)
         \/ \E i, j \in Index : Rename(i, j)
         \/ \E b \in signed : PutBack(b)
         \/ Tick
  PROVE  AgentInv'
<1>1. ASSUME NEW i \in Index, NEW contents \in Updates, ChangeStore(i, contents) PROVE AgentInv'
  <2>1. contents \in {Absent} \cup SUBSET Certs
    BY AgentAssumption
  <2>2. [store EXCEPT ![i] = contents] \in [Index -> {Absent} \cup SUBSET Certs]
    BY <2>1 DEF AgentInv, TypeOK
  <2> QED
    BY <1>1, <2>2, HoldStep DEF ChangeStore
<1>2. ASSUME NEW i \in Index, NEW j \in Index, Rename(i, j) PROVE AgentInv'
  <2>1. [store EXCEPT ![j] = store[i], ![i] = Absent] \in [Index -> {Absent} \cup SUBSET Certs]
    BY DEF AgentInv, TypeOK
  <2> QED
    BY <1>2, <2>1, HoldStep DEF Rename
<1>3. ASSUME NEW b \in signed, PutBack(b) PROVE AgentInv'
  BY <1>3 DEF PutBack, agent, AgentInv, TypeOK, Scan, KeyOrder, SequenceOrder, ScanOrder, Contents,
              Observed, Underway
<1>4. CASE Tick
  BY <1>4 DEF Tick, agent, files, AgentInv, TypeOK, Scan, KeyOrder, SequenceOrder, ScanOrder, Contents,
              Observed, Underway
<1> QED
  BY <1>1, <1>2, <1>3, <1>4

(* A generation that is prepared is a baseline like any other.               *)
LEMMA PrepareStep ==
  ASSUME AgentInv, NEW from, from.sequence \in Nat, from.previous \in Int, Prepare(from)
  PROVE  AgentInv'
<1> USE DEF AgentInv
<1>1. PICK roots : /\ roots = {RootEntry(c) : c \in Observed(store)}
                   /\ signing' = [at |-> "key",
                                  baseline |-> [id |-> Cardinality(signed) + 1,
                                                sequence |-> from.sequence, previous |-> from.previous,
                                                roots |-> roots, expires |-> now + Lifetime]]
  BY DEF Prepare
<1>2. roots \in SUBSET Root
  <2>1. Observed(store) \subseteq Certs
    BY ContentsType DEF TypeOK
  <2>2. {RootEntry(c) : c \in Certs} \subseteq Root
    BY Zenon DEF Root
  <2>3. roots \subseteq {RootEntry(c) : c \in Certs}
    BY <1>1, <2>1, Zenon
  <2> QED
    BY <2>2, <2>3, Zenon
<1>3. Cardinality(signed) \in Nat
  BY FS_CardinalityType DEF TypeOK
<1>4. now + Lifetime \in Nat
  BY AgentAssumption DEF TypeOK
<1>5. signing' \in Signing /\ signing'.at = "key"
  BY <1>1, <1>2, <1>3, <1>4 DEF Baseline, Signing
<1>6. UNCHANGED <<store, now, files, signed, agent, steady, ever>>
  BY DEF Prepare
<1> QED
  BY <1>5, <1>6 DEF files, agent, TypeOK, Scan, KeyOrder, SequenceOrder, ScanOrder,
      Contents, Observed, Underway

(* Every step of the baseline command, interrupted or not, preserves the     *)
(* invariant.                                                                *)
LEMMA SignStep == ASSUME AgentInv, Sign PROVE AgentInv'
<1> USE DEF AgentInv
<1>0. Idle \in Signing /\ Idle.at = "idle"
  BY DEF Idle, NoBaseline, Baseline, Signing
<1>1. CASE PrepareNext
  <2>1. artefact \in Baseline
    BY <1>1 DEF PrepareNext, Verified, TypeOK
  <2>2. NextFrom(artefact).sequence \in Nat /\ NextFrom(artefact).previous \in Int
    BY <2>1 DEF NextFrom, Baseline
  <2> QED
    BY <1>1, <2>2, PrepareStep DEF PrepareNext
<1>2. CASE PrepareFirst
  <2>1. FirstOf.sequence \in Nat /\ FirstOf.previous \in Int
    BY DEF FirstOf
  <2> QED
    BY <1>2, <2>1, PrepareStep DEF PrepareFirst
<1>3. CASE SigningEnds
  BY <1>0, <1>3
  DEF SigningEnds, files, agent, TypeOK, Scan, KeyOrder, SequenceOrder, ScanOrder,
      Contents, Observed, Underway
<1>4. ASSUME NEW from, NEW to \in {"private", "public", "publish", "truncate", "write"}, At(from, to)
      PROVE  /\ signing.at = from /\ signing'.at = to /\ signing' \in Signing
             /\ UNCHANGED <<store, now, agent, steady, ever>>
  BY <1>4 DEF At, Step, TypeOK, Signing
<1>5. CASE KeyThere
  BY <1>4, <1>5 DEF KeyThere, files, agent, TypeOK, Scan, KeyOrder, SequenceOrder, ScanOrder,
      Contents, Observed, Underway
<1>6. CASE KeyTorn
  BY <1>0, <1>6 DEF KeyTorn, Ends, Step, files, agent, TypeOK, Scan, KeyOrder, SequenceOrder, ScanOrder,
      Contents, Observed, Underway
<1>7. CASE CreateKey
  BY <1>4, <1>7 DEF CreateKey, File, agent, TypeOK, Scan, KeyOrder, SequenceOrder, ScanOrder,
      Contents, Observed, Underway
<1>8. CASE WriteKey
  BY <1>4, <1>8 DEF WriteKey, File, agent, TypeOK, Scan, KeyOrder, SequenceOrder, ScanOrder,
      Contents, Observed, Underway
<1>9. CASE TruncatePublic
  BY <1>4, <1>9 DEF TruncatePublic, File, agent, TypeOK, Scan, KeyOrder, SequenceOrder, ScanOrder,
      Contents, Observed, Underway
<1>10. CASE WritePublic
  BY <1>4, <1>10 DEF WritePublic, File, agent, TypeOK, Scan, KeyOrder, SequenceOrder, ScanOrder,
      Contents, Observed, Underway
<1>11. CASE TruncateBaseline
  BY <1>4, <1>11 DEF TruncateBaseline, agent, TypeOK, Scan, KeyOrder, SequenceOrder, ScanOrder,
      Contents, Observed, Underway
<1>12. CASE WriteBaseline
  <2>1. signing.at = "write" /\ signing.baseline \in Baseline
    BY <1>12 DEF WriteBaseline, Ends, Step, TypeOK, Signing
  <2>2. signed' \subseteq Baseline /\ IsFiniteSet(signed') /\ signed \subseteq signed' /\ artefact' \in signed'
    BY <1>12, <2>1, FS_AddElement DEF WriteBaseline, TypeOK
  <2>3. signing' = Idle /\ UNCHANGED <<key, public, store, now, agent, steady, ever>>
    BY <1>12 DEF WriteBaseline, Ends, Step
  <2>4. TypeOK'
    BY <1>0, <2>2, <2>3 DEF agent, TypeOK, Scan
  <2>5. KeyOrder'
    BY <2>1, <2>3 DEF KeyOrder
  <2> QED
    BY <2>3, <2>4, <2>5 DEF agent, SequenceOrder, ScanOrder, Contents, Observed, Underway
<1> QED
  BY <1>1, <1>2, <1>3, <1>5, <1>6, <1>7, <1>8, <1>9, <1>10, <1>11, <1>12 DEF Sign

(* What a step of a scan that only reads must keep to.                       *)
LEMMA ReadStep ==
  ASSUME AgentInv, NEW next, Scans(next), next \in Scan, UNCHANGED accepted,
         next.baseline = scan.baseline,
         scan.at = "read", next.at \in {"read", "publish"},
         next.at = "read" => next.next \in Index,
         next.at = "publish" => next.next = Len(Paths) + 1,
         next.seen \subseteq scan.seen \cup Observed(store),
         \A i \in Index : i < next.next => steady[i] \subseteq next.seen,
         next.walk # Bundle =>
           \A i \in Index : Paths[i] = next.walk /\ steady[i] # {} => i \in next.listed,
         next.seen # {} => next.found
  PROVE  AgentInv'
<1> USE DEF AgentInv
<1>1. scan' = next /\ UNCHANGED <<store, now, files, signing, signed, accepted, steady, ever, shown>>
  BY DEF Scans
<1>2. TypeOK'
  BY <1>1 DEF TypeOK, Scan, files
<1>3. KeyOrder' /\ SequenceOrder'
  BY <1>1 DEF KeyOrder, SequenceOrder, files
<1>4. Contents(store)' = Contents(store) /\ Observed(store)' = Observed(store)
  BY <1>1 DEF Contents, Observed
<1>5. Underway /\ Underway'
  BY <1>1 DEF Underway
<1>6. ScanOrder'
  BY <1>1, <1>4, <1>5 DEF ScanOrder
<1> QED
  BY <1>2, <1>3, <1>6

(* A directory is listed with every file in which something stayed, and a    *)
(* file that is read, or passed over, holds nothing else that stayed.        *)
LEMMA LoadStep == ASSUME AgentInv, ListDirectory \/ ReadFile PROVE AgentInv'
<1> USE DEF AgentInv
<1>0. /\ Len(Paths) \in Nat \ {0}
      /\ Contents(store) \in [Index -> SUBSET Certs]
      /\ Observed(store) \subseteq Certs
      /\ \A i \in Index : Contents(store)[i] \subseteq Observed(store)
      /\ \A i \in Index : Contents(store)[i] = IF store[i] = Absent THEN {} ELSE store[i]
      /\ \A i \in Index : steady[i] \subseteq Contents(store)[i]
  BY AgentAssumption, ContentsType DEF TypeOK, ScanOrder
<1> DEFINE i == scan.next
<1>1. scan.at = "read" /\ i \in Index /\ UNCHANGED accepted
  BY DEF ListDirectory, ReadFile, ScanOrder
<1>2. CASE ListDirectory
  <2> DEFINE listed == {j \in Index : Paths[j] = Paths[i] /\ store[j] # Absent}
             next == [scan EXCEPT !.walk = Paths[i], !.listed = listed]
  <2>1. Scans(next)
    BY <1>2 DEF ListDirectory
  <2>2. next \in Scan
    BY <1>1 DEF TypeOK, Scan
  <2>3. /\ next.at = "read" /\ next.next = i /\ next.seen = scan.seen /\ next.found = scan.found
        /\ next.baseline = scan.baseline /\ next.walk = Paths[i] /\ next.listed = listed
    BY <1>1 DEF TypeOK, Scan
  <2>4. \A j \in Index : Paths[j] = Paths[i] /\ steady[j] # {} => j \in listed
    BY <1>0
  <2> HIDE DEF listed, next
  <2> QED
    BY <1>1, <2>1, <2>2, <2>3, <2>4, ReadStep DEF ScanOrder
<1>3. ASSUME NEW contents \in SUBSET Certs, NEW found \in BOOLEAN, Past(i, scan.listed, contents, found),
             steady[i] \subseteq contents, contents \subseteq Observed(store), contents # {} => found
      PROVE  AgentInv'
  <2> DEFINE at == IF i = Len(Paths) THEN "publish" ELSE "read"
             next == [scan EXCEPT !.next = i + 1, !.listed = scan.listed,
                                  !.seen = scan.seen \cup contents,
                                  !.found = scan.found \/ found, !.at = at]
  <2>1. Scans(next)
    BY <1>3 DEF Past, Together
  <2>2. i + 1 \in 1..Len(Paths) + 1
    BY <1>0, <1>1 DEF Index
  <2>3. /\ next.at = at /\ next.next = i + 1 /\ next.seen = scan.seen \cup contents
        /\ next.found = (scan.found \/ found)
        /\ next.baseline = scan.baseline /\ next.walk = scan.walk /\ next.listed = scan.listed
    BY DEF TypeOK, Scan
  <2>4. next \in Scan
    <3>1. at \in {"read", "publish"} /\ (scan.found \/ found) \in BOOLEAN
      OBVIOUS
    <3>2. scan.seen \cup contents \in SUBSET Certs
      BY DEF TypeOK, Scan
    <3> HIDE DEF at
    <3> QED
      BY <2>2, <3>1, <3>2 DEF TypeOK, Scan
  <2>5. (at = "read" => i + 1 \in Index) /\ (at = "publish" => i + 1 = Len(Paths) + 1)
    BY <1>0, <1>1 DEF Index
  <2>6. \A j \in Index : j < i + 1 => steady[j] \subseteq scan.seen \cup contents
    BY <1>1, <1>3 DEF ScanOrder, Index
  <2>7. at \in {"read", "publish"}
    OBVIOUS
  <2> HIDE DEF at, next
  <2> QED
    BY <1>1, <1>3, <2>1, <2>3, <2>4, <2>5, <2>6, <2>7, ReadStep DEF ScanOrder
<1>4. CASE ReadFile
  <2>1. CASE store[i] # Absent /\ Past(i, scan.listed, store[i], TRUE)
    BY <1>0, <1>1, <1>3, <2>1
  <2>2. CASE store[i] = Absent /\ PassOver(i, scan.listed)
    BY <1>0, <1>1, <1>3, <2>2 DEF PassOver
  <2>3. CASE ~ReadsNow(i) /\ Paths[i] = scan.walk /\ PassOver(i, scan.listed)
    <3>1. steady[i] = {}
      BY <1>1, <2>3 DEF ReadsNow, ScanOrder
    <3> QED
      BY <1>3, <2>3, <3>1 DEF PassOver
  <2> QED
    BY <1>4, <2>1, <2>2, <2>3 DEF ReadFile
<1> QED
  BY <1>2, <1>4

(* Every step of the daemon, and its death, preserves the invariant.         *)
LEMMA ServeStep == ASSUME AgentInv, Serve \/ Kill PROVE AgentInv'
<1> USE DEF AgentInv
<1>0. /\ Len(Paths) \in Nat \ {0}
      /\ Contents(store) \in [Index -> SUBSET Certs]
  BY AgentAssumption, ContentsType DEF TypeOK
<1>1. ASSUME NEW from, Begin(from) PROVE AgentInv'
  <2>1. /\ scan' = [NoScan EXCEPT !.at = "load", !.since = now]
        /\ steady' = Contents(store) /\ ever' = Observed(store)
        /\ UNCHANGED <<store, now, files, signing, signed, accepted, shown>>
    BY <1>1 DEF Begin
  <2>2. scan' \in Scan
    BY <2>1, NoScanType DEF Scan, TypeOK
  <2>3. /\ scan'.at = "load" /\ scan'.baseline = NoBaseline /\ scan'.next = 1 /\ scan'.walk = Bundle
        /\ scan'.seen = {}
    BY <2>1 DEF NoScan
  <2>4. TypeOK'
    BY <1>0, <2>1, <2>2 DEF files, TypeOK, Scan
  <2>5. KeyOrder' /\ SequenceOrder'
    BY <2>1, <2>3 DEF files, KeyOrder, SequenceOrder
  <2>6. Contents(store)' = Contents(store) /\ Observed(store)' = Observed(store)
    BY <2>1 DEF Contents, Observed
  <2>7. ScanOrder'
    BY <2>1, <2>3, <2>6 DEF ScanOrder, Index
  <2> QED
    BY <2>4, <2>5, <2>7
<1>2. ASSUME NEW at \in {"verify", "advance", "read", "publish"}, NEW baseline \in signed \cup {NoBaseline},
             Scans([scan EXCEPT !.at = at, !.baseline = baseline]),
             scan.at \in {"load", "verify", "advance"},
             baseline = NoBaseline <=> at = "publish",
             accepted' = IF at = "read" THEN baseline ELSE accepted,
             at = "read" => accepted.sequence <= baseline.sequence
      PROVE  AgentInv'
  <2>1. /\ scan' = [scan EXCEPT !.at = at, !.baseline = baseline]
        /\ UNCHANGED <<store, now, files, signing, signed, steady, ever, shown>>
    BY <1>2 DEF Scans
  <2>2. /\ scan'.at = at /\ scan'.baseline = baseline /\ scan'.next = 1 /\ scan'.walk = Bundle
        /\ scan'.seen = scan.seen /\ scan'.found = scan.found
        /\ scan' \in Scan
    BY <1>2, <2>1 DEF TypeOK, Scan, ScanOrder
  <2>3. accepted' \in signed \cup {NoBaseline}
    BY <1>2 DEF TypeOK
  <2>4. TypeOK'
    BY <2>1, <2>2, <2>3 DEF files, TypeOK, Scan
  <2>5. accepted.sequence \in Nat /\ baseline.sequence \in Nat
    BY <1>2 DEF TypeOK, Baseline, NoBaseline
  <2>6. KeyOrder'
    BY <2>1 DEF files, KeyOrder
  <2>7. SequenceOrder'
    BY <1>2, <2>1, <2>2, <2>5 DEF SequenceOrder, TypeOK
  <2>8. Contents(store)' = Contents(store) /\ Observed(store)' = Observed(store)
    BY <2>1 DEF Contents, Observed
  <2>9. Underway /\ Underway'
    BY <1>2, <2>2 DEF Underway
  <2>10. ScanOrder'
    BY <1>0, <1>2, <2>1, <2>2, <2>8, <2>9 DEF ScanOrder, Index
  <2> QED
    BY <2>4, <2>6, <2>7, <2>10
<1>3. scan.baseline \in signed \cup {NoBaseline} /\ (scan.at \in {"verify", "advance"} => scan.baseline # NoBaseline)
  BY DEF TypeOK, Scan, ScanOrder
<1>4. CASE ReadBaseline
  <2>1. artefact \in signed /\ artefact # NoBaseline
    BY <1>4 DEF ReadBaseline, TypeOK
  <2> QED
    BY <1>2, <1>4, <2>1 DEF ReadBaseline
<1>5. CASE VerifyBaseline
  <2>1. [scan EXCEPT !.at = "advance"] = [scan EXCEPT !.at = "advance", !.baseline = scan.baseline]
    BY DEF TypeOK, Scan
  <2> QED
    BY <1>2, <1>3, <1>5, <2>1 DEF VerifyBaseline
<1>6. CASE AdvanceState
  <2>1. [scan EXCEPT !.at = "read"] = [scan EXCEPT !.at = "read", !.baseline = scan.baseline]
    BY DEF TypeOK, Scan
  <2>2. accepted.sequence <= scan.baseline.sequence
    <3>1. Advances(scan.baseline)
      BY <1>6 DEF AdvanceState
    <3>2. accepted.sequence \in Nat /\ scan.baseline.sequence \in Nat
      BY <1>3 DEF TypeOK, Baseline, NoBaseline
    <3> QED
      BY <3>1, <3>2 DEF Advances, NoBaseline
  <2> QED
    BY <1>2, <1>3, <1>6, <2>1, <2>2 DEF AdvanceState
<1>7. CASE LoadFails
  BY <1>2, <1>7 DEF LoadFails
<1>8. CASE Publish
  <2>1. /\ scan.at = "publish"
        /\ shown' = IF scan.baseline = NoBaseline THEN shown ELSE scan.baseline.sequence
        /\ scan' = [scan EXCEPT !.at = "waiting", !.walk = Bundle, !.listed = {}]
        /\ steady' = Unscanned
        /\ UNCHANGED <<store, now, files, signing, signed, accepted>>
    BY <1>8 DEF Publish
  <2>2. shown' \in Nat /\ shown' <= accepted.sequence
    BY <2>1 DEF TypeOK, Scan, Baseline, SequenceOrder
  <2>3. /\ scan'.at = "waiting" /\ scan'.walk = Bundle /\ scan'.next = scan.next
        /\ scan'.baseline = scan.baseline /\ scan'.seen = scan.seen /\ scan'.found = scan.found
        /\ scan' \in Scan
    BY <2>1 DEF TypeOK, Scan
  <2>4. TypeOK'
    BY <2>1, <2>2, <2>3 DEF files, TypeOK, Scan, Unscanned
  <2>5. KeyOrder' /\ SequenceOrder'
    BY <2>1, <2>2, <2>3 DEF files, KeyOrder, SequenceOrder
  <2>6. ScanOrder'
    BY <2>1, <2>3 DEF ScanOrder, Unscanned, Underway
  <2> QED
    BY <2>4, <2>5, <2>6
<1>9. CASE Kill
  <2>1. scan' = NoScan /\ steady' = Unscanned
        /\ UNCHANGED <<store, now, files, signing, signed, accepted, shown>>
    BY <1>9 DEF Kill
  <2>2. TypeOK'
    BY <2>1, NoScanType DEF files, TypeOK, Scan, Unscanned
  <2>3. KeyOrder' /\ SequenceOrder'
    BY <2>1 DEF files, KeyOrder, SequenceOrder, NoScan
  <2>4. ScanOrder'
    BY <2>1 DEF ScanOrder, NoScan, Unscanned, Underway
  <2> QED
    BY <2>2, <2>3, <2>4
<1> QED
  BY <1>1, <1>4, <1>5, <1>6, <1>7, <1>8, <1>9, LoadStep DEF Serve, Start, Ticker

(* The inductive invariant is preserved by every step.                       *)
LEMMA NextAgent == AgentInv /\ [Next]_vars => AgentInv'
<1>1. AgentInv /\ Next => AgentInv'
  BY HostStep, SignStep, ServeStep DEF Next
<1>2. AgentInv /\ UNCHANGED vars => AgentInv'
  BY DEF vars, files, agent, AgentInv, TypeOK, Scan, KeyOrder, SequenceOrder, ScanOrder, Contents,
         Observed, Underway
<1> QED
  BY <1>1, <1>2

(* A result is published only of the baseline that the state records, which  *)
(* is no older than that of any result before.                               *)
LEMMA ShownStep == AgentInv /\ [Next]_vars => [shown' >= shown]_shown
<1> SUFFICES ASSUME AgentInv, Next, shown' # shown PROVE shown' >= shown
  BY DEF vars, agent
<1>1. Publish
  BY DEF Next, ChangeStore, Rename, HoldNow, PutBack, Tick, Sign, PrepareNext, PrepareFirst, Prepare,
         SigningEnds, KeyThere, KeyTorn, CreateKey, WriteKey, TruncatePublic, WritePublic,
         TruncateBaseline, WriteBaseline, At, Ends, Step, Serve, Start, Ticker, Begin, ReadBaseline,
         VerifyBaseline, AdvanceState, LoadFails, ListDirectory, ReadFile, PassOver, Past, Scans,
         Kill, agent
<1>2. scan.baseline = accepted /\ shown' = accepted.sequence
  BY <1>1 DEF Publish, AgentInv, SequenceOrder
<1> QED
  BY <1>2 DEF AgentInv, SequenceOrder, TypeOK, Baseline, NoBaseline

(* The key, the baseline file, the recorded state and the scan are in step   *)
(* in every reachable state (cmdBaseline, scanTrustStore).                   *)
THEOREM AgentInvariance == Spec => []AgentInv
<1> QED
  BY InitAgent, NextAgent, PTL DEF Spec

(* However often the command is interrupted, the key of every baseline in    *)
(* circulation is kept (loadOrCreateSigningKey, cmdBaseline).                *)
THEOREM KeyNeverLost == Spec => []SignedUnderKeptKey
<1>1. AgentInv => SignedUnderKeptKey
  BY DEF AgentInv, KeyOrder, SignedUnderKeptKey
<1> QED
  BY <1>1, AgentInvariance, PTL

(* However files are replaced, renamed and removed while directories are     *)
(* listed and files read one by one, a scan sees every certificate that      *)
(* stayed in one file and none that was in none (loadTrustStore).            *)
THEOREM ScanFaithful == Spec => []LoadFaithful
<1>1. AgentInv => LoadFaithful
  <2> SUFFICES ASSUME AgentInv, scan.at = "publish", scan.baseline # NoBaseline
               PROVE  /\ \A c \in UNION {steady[i] : i \in Index} : c \in scan.seen
                      /\ scan.seen \subseteq ever
                      /\ scan.seen # {} => scan.found
    BY DEF LoadFaithful
  <2>1. \A i \in Index : i < scan.next
    BY AgentAssumption DEF AgentInv, ScanOrder, Index
  <2> QED
    BY <2>1 DEF AgentInv, ScanOrder, Underway
<1> QED
  BY <1>1, AgentInvariance, PTL

(* The results served never go back to an older baseline, whatever is put    *)
(* back and however often the agent is restarted (scanTrustStore).           *)
THEOREM NeverShowsOlder == Spec => NoStaleBaseline
<1> QED
  BY AgentInvariance, ShownStep, PTL DEF Spec, NoStaleBaseline

(* The first baselines are sound, and so is what the command prepares.       *)
LEMMA InitVerdict == Init => VerdictInv
<1> SUFFICES ASSUME Init PROVE VerdictInv
  OBVIOUS
<1>1. Sound({})
  BY FS_EmptySet DEF Sound, ValidBaseline
<1>2. signing.baseline.roots = {}
  BY DEF Init, Idle, NoBaseline
<1>3. \A b \in signed : Sound(b.roots)
  BY AgentAssumption DEF Init
<1>4. scan.at = "down"
  BY DEF Init, NoScan
<1> QED
  BY <1>1, <1>2, <1>3, <1>4 DEF VerdictInv

(* The roots taken from the certificates of a store are sound.               *)
LEMMA PreparedSound ==
  ASSUME AgentInv, ValidBaseline({RootEntry(c) : c \in Observed(store)})
  PROVE  Sound({RootEntry(c) : c \in Observed(store)})
<1> DEFINE roots == {RootEntry(c) : c \in Observed(store)}
           f == [c \in Observed(store) |-> RootEntry(c)]
<1>1. Observed(store) \subseteq Certs
  BY ContentsType DEF AgentInv, TypeOK
<1>2. IsFiniteSet(Observed(store))
  BY <1>1, EvalAssumption, FS_Subset
<1>3. f \in Surjection(Observed(store), roots)
  BY DEF Surjection
<1>4. IsFiniteSet(roots)
  <2> HIDE DEF f, roots
  <2> QED
    BY <1>2, <1>3, FS_Surjection
<1>5. \A r \in roots : \E c \in Certs : r.cert \in {c, None} /\ r.spki = SPKI[c]
  BY <1>1 DEF RootEntry
<1> HIDE DEF roots
<1> QED
  BY <1>4, <1>5 DEF Sound, roots

(* Every step keeps baselines sound and the result that of the scan.         *)
LEMMA NextVerdict == AgentInv /\ VerdictInv /\ [Next]_vars => VerdictInv'
<1> SUFFICES ASSUME AgentInv, VerdictInv, [Next]_vars PROVE VerdictInv'
  OBVIOUS
<1>1. ASSUME UNCHANGED <<signing, signed, scan, current>> PROVE VerdictInv'
  BY <1>1 DEF VerdictInv
<1>2. ASSUME NEW i \in Index, NEW contents \in Updates, ChangeStore(i, contents) PROVE VerdictInv'
  BY <1>1, <1>2 DEF ChangeStore, HoldNow, agent
<1>3. ASSUME NEW b \in signed, PutBack(b) PROVE VerdictInv'
  BY <1>1, <1>3 DEF PutBack, agent
<1>4. CASE Tick
  BY <1>1, <1>4 DEF Tick, agent
<1>5. ASSUME UNCHANGED <<signed, scan, current>>,
             signing'.baseline \in signed \cup {signing.baseline} \/ Sound(signing'.baseline.roots)
      PROVE  VerdictInv'
  BY <1>5 DEF VerdictInv
<1>6. ASSUME NEW from, Prepare(from) PROVE VerdictInv'
  <2>1. ValidBaseline({RootEntry(c) : c \in Observed(store)})
        /\ signing'.baseline.roots = {RootEntry(c) : c \in Observed(store)}
        /\ UNCHANGED <<signed, scan, current>>
    BY <1>6 DEF Prepare, agent
  <2> QED
    BY <1>5, <2>1, PreparedSound
<1>7. ASSUME NEW from, NEW to, At(from, to)
      PROVE  signing'.baseline = signing.baseline /\ UNCHANGED <<scan, current>>
  BY <1>7 DEF At, Step, agent, AgentInv, TypeOK, Signing
<1>8. CASE Sign
  <2>1. CASE PrepareNext \/ PrepareFirst
    BY <1>6, <2>1 DEF PrepareNext, PrepareFirst
  <2>2. Sound({}) /\ Idle.baseline.roots = {}
    BY FS_EmptySet DEF Idle, NoBaseline, Sound, ValidBaseline
  <2>3. CASE SigningEnds \/ KeyTorn
    <3>1. signing' = Idle /\ UNCHANGED <<signed, scan, current>>
      BY <2>3 DEF SigningEnds, KeyTorn, Ends, Step, agent
    <3> QED
      BY <1>5, <2>2, <3>1
  <2>4. CASE WriteBaseline
    BY <2>2, <2>4 DEF WriteBaseline, Ends, Step, agent, VerdictInv
  <2>5. CASE KeyThere \/ CreateKey \/ WriteKey \/ TruncatePublic \/ WritePublic \/ TruncateBaseline
    BY <1>5, <1>7, <2>5
    DEF KeyThere, CreateKey, WriteKey, TruncatePublic, WritePublic, TruncateBaseline
  <2> QED
    BY <1>8, <2>1, <2>3, <2>4, <2>5 DEF Sign
<1>9. ASSUME UNCHANGED <<signing, signed>>, scan'.at # "waiting" PROVE VerdictInv'
  BY <1>9 DEF VerdictInv
<1>10. CASE Serve
  <2>1. CASE Start \/ Ticker
    BY <1>9, <2>1 DEF Start, Ticker, Begin, NoScan
  <2>2. CASE ReadBaseline \/ VerifyBaseline \/ AdvanceState \/ LoadFails
    BY <1>9, <2>2 DEF ReadBaseline, VerifyBaseline, AdvanceState, LoadFails, Scans, AgentInv, TypeOK, Scan
  <2>3. CASE ListDirectory \/ ReadFile
    BY <1>9, <2>3 DEF ListDirectory, ReadFile, PassOver, Past, Scans, AgentInv, TypeOK, Scan
  <2>4. CASE Publish
    <3>1. /\ current' = Result(scan) /\ UNCHANGED <<signing, signed>>
          /\ scan' = [scan EXCEPT !.at = "waiting", !.walk = Bundle, !.listed = {}]
      BY <2>4 DEF Publish
    <3>2. Result(scan') = Result(scan)
      BY <3>1 DEF Result, AgentInv, TypeOK, Scan
    <3> QED
      BY <3>1, <3>2 DEF VerdictInv
  <2> QED
    BY <1>10, <2>1, <2>2, <2>3, <2>4 DEF Serve
<1>11. CASE Kill
  BY <1>9, <1>11 DEF Kill, NoScan
<1>12. CASE UNCHANGED vars
  BY <1>1, <1>12 DEF vars, agent
<1>13. ASSUME NEW i \in Index, NEW j \in Index, Rename(i, j) PROVE VerdictInv'
  BY <1>1, <1>13 DEF Rename, HoldNow, agent
<1> QED
  BY <1>2, <1>3, <1>4, <1>8, <1>10, <1>11, <1>12, <1>13 DEF Next

(* Every baseline in circulation describes certificates, and the result      *)
(* published is that of the last scan (validateBaseline, cmdServe).          *)
THEOREM VerdictInvariance == Spec => []VerdictInv
<1> QED
  BY AgentInvariance, InitVerdict, NextVerdict, PTL DEF Spec

(* What a published result was made from.                                    *)
LEMMA PublishedResult ==
  ASSUME AgentInv, VerdictInv, Published
  PROVE  /\ Sound(scan.baseline.roots) /\ scan.seen \in SUBSET Certs /\ scan.since \in Nat
         /\ current.result = Evaluate(scan.baseline.roots, scan.seen, scan.since)
<1>1. scan.at = "waiting" /\ current.success /\ current = Result(scan)
  BY DEF Published, VerdictInv
<1>2. scan.baseline # NoBaseline
  BY <1>1 DEF Result, Failure
<1>3. scan.baseline \in signed
  BY <1>2 DEF AgentInv, TypeOK, Scan
<1>4. current.result = Evaluate(scan.baseline.roots, scan.seen, scan.since)
  BY <1>1, <1>2 DEF Result, Failure
<1> QED
  BY <1>3, <1>4 DEF VerdictInv, AgentInv, TypeOK, Scan

(* A scan's verdict is zero exactly when the roots of the baseline and the   *)
(* certificates seen correspond one to one and none has expired, whatever    *)
(* keys, subjects and legacy entries they share (evaluateTrustStore,         *)
(* checkExitCode).                                                           *)
THEOREM VerdictExact == Spec => []DriftSeen
<1>1. AgentInv /\ VerdictInv => DriftSeen
  <2> SUFFICES ASSUME AgentInv, VerdictInv, Published
               PROVE  CheckExitCode(current.result) = 0 <=>
                        /\ OneToOne(scan.baseline.roots, scan.seen)
                        /\ \A c \in scan.seen : scan.since <= NotAfter[c]
    BY DEF DriftSeen
  <2>1. \A c \in scan.seen : NotAfter[c] \in Nat
    BY PublishedResult, EvalAssumption
  <2>2. \A c \in scan.seen : ~(scan.since > NotAfter[c]) <=> scan.since <= NotAfter[c]
    BY <2>1, PublishedResult
  <2> QED
    BY <2>2, PublishedResult, ExitCode
<1> QED
  BY <1>1, AgentInvariance, VerdictInvariance, PTL

(* The removals reported are, summed over the keys, the certificates too few *)
(* for the roots with that key: no sibling hides two removals and none is    *)
(* counted twice (evaluateTrustStore).                                       *)
THEOREM RemovalsExact == Spec => []RemovalsCounted
<1>1. AgentInv /\ VerdictInv => RemovalsCounted
  <2> SUFFICES ASSUME AgentInv, VerdictInv, Published PROVE RemovalsCounted
    BY DEF RemovalsCounted
  <2>1. current.result.missing = Missing(scan.baseline.roots, scan.seen)
    BY PublishedResult DEF Evaluate
  <2> QED
    BY <2>1, PublishedResult, MissingIsSum DEF RemovalsCounted
<1> QED
  BY <1>1, AgentInvariance, VerdictInvariance, PTL
=============================================================================
