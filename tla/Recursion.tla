------------------------------ MODULE Recursion ------------------------------
(***************************************************************************)
(* Induction over the natural numbers and definition by recursion, with a  *)
(* set in place of the predicate and a function in place of the step: the  *)
(* form in which the other proof modules use them.                         *)
(***************************************************************************)
EXTENDS Integers, WellFoundedInduction, TLAPS

\* A set of natural numbers that is not empty has a least element.
LEMMA Least ==
  ASSUME NEW T, T \subseteq Nat, T # {}
  PROVE  \E m \in T : \A k \in T : m <= k
<1> DEFINE R == OpToRel(<, Nat)
<1>1. IsWellFoundedOn(R, Nat)
  BY NatLessThanWellFounded
<1>2. \A a, b \in Nat : <<a, b>> \in R <=> a < b
  BY DEF OpToRel
<1> HIDE DEF R
<1>3. PICK x \in T : \A y \in T : ~(<<y, x>> \in R)
  BY <1>1, WFMin
<1>4. ASSUME NEW k \in T PROVE x <= k
  <2>1. ~(k < x) /\ k \in Nat /\ x \in Nat
    BY <1>2, <1>3
  <2> QED
    BY <2>1
<1> QED
  BY <1>4

\* Induction: a set that holds 0 and with each number the next holds all.
LEMMA Induct ==
  ASSUME NEW P, 0 \in P, \A n \in Nat : n \in P => n + 1 \in P
  PROVE  \A n \in Nat : n \in P
<1> DEFINE T == Nat \ P
<1>1. SUFFICES ASSUME T # {} PROVE FALSE
  OBVIOUS
<1>2. T \subseteq Nat
  OBVIOUS
<1>3. PICK m \in T : \A k \in T : m <= k
  <2> HIDE DEF T
  <2> QED
    BY <1>1, <1>2, Least
<1>4. m \in Nat /\ m # 0
  OBVIOUS
<1>5. m - 1 \in Nat /\ ~(m <= m - 1) /\ (m - 1) + 1 = m
  BY <1>4
<1>6. m - 1 \in P
  BY <1>3, <1>5
<1> QED
  BY <1>5, <1>6

\* g starts with a, and D makes each of its values from the one before.
Follows(g, a, D) == g[0] = a /\ \A n \in Nat : g[n + 1] = D[n][g[n]]

\* Recursion: there is a function that starts with a and goes on with D.
LEMMA Recursion ==
  ASSUME NEW V, NEW a \in V, NEW D \in [Nat -> [V -> V]]
  PROVE  \E g \in [Nat -> V] : Follows(g, a, D)
<1> DEFINE Upto(n, g) == g[0] = a /\ \A i \in 0 .. n - 1 : g[i + 1] = D[i][g[i]]
           P == {n \in Nat : \E g \in [Nat -> V] : Upto(n, g)}
<1>1. 0 \in P
  <2> DEFINE g == [i \in Nat |-> a]
  <2>1. g \in [Nat -> V] /\ Upto(0, g)
    OBVIOUS
  <2> QED
    BY <2>1
<1>2. ASSUME NEW n \in Nat, n \in P PROVE n + 1 \in P
  <2>1. PICK g \in [Nat -> V] : Upto(n, g)
    BY <1>2
  <2> DEFINE v == D[n][g[n]]
             h == [i \in Nat |-> IF i = n + 1 THEN v ELSE g[i]]
  <2>2. v \in V
    OBVIOUS
  <2> HIDE DEF v
  <2>3. h \in [Nat -> V]
    BY <2>2
  <2>4. h[0] = a
    BY <2>1
  <2>5. ASSUME NEW i \in 0 .. (n + 1) - 1 PROVE h[i + 1] = D[i][h[i]]
    <3>1. CASE i = n
      BY <3>1 DEF v
    <3>2. CASE i # n
      <4>1. i \in 0 .. n - 1 /\ i + 1 # n + 1 /\ i # n + 1 /\ i \in Nat /\ i + 1 \in Nat
        BY <3>2
      <4> QED
        BY <2>1, <4>1
    <3> QED
      BY <3>1, <3>2
  <2>6. Upto(n + 1, h)
    BY <2>4, <2>5
  <2> HIDE DEF h, Upto
  <2> QED
    BY <2>3, <2>6
<1>3. \A n \in Nat : n \in P
  <2> HIDE DEF P
  <2> QED
    BY <1>1, <1>2, Induct
<1>4. PICK G \in [Nat -> [Nat -> V]] : \A n \in Nat : Upto(n, G[n])
  <2> DEFINE G == [n \in Nat |-> CHOOSE g \in [Nat -> V] : Upto(n, g)]
  <2>1. ASSUME NEW n \in Nat PROVE G[n] \in [Nat -> V] /\ Upto(n, G[n])
    <3>1. \E g \in [Nat -> V] : Upto(n, g)
      BY <1>3
    <3> HIDE DEF Upto
    <3> QED
      BY <3>1
  <2> HIDE DEF Upto
  <2>2. G \in [Nat -> [Nat -> V]]
    BY <2>1
  <2> QED
    BY <2>1, <2>2
<1> DEFINE f == [n \in Nat |-> G[n][n]]
<1>5. f \in [Nat -> V]
  OBVIOUS
<1>6. ASSUME NEW n \in Nat PROVE f[n + 1] = D[n][f[n]]
  <2> DEFINE g == G[n]
             h == G[n + 1]
             Q == {i \in Nat : i <= n => g[i] = h[i]}
  <2>1. Upto(n, g) /\ Upto(n + 1, h)
    BY <1>4
  <2> HIDE DEF g, h
  <2>2. 0 \in Q
    BY <2>1
  <2>3. ASSUME NEW i \in Nat, i \in Q PROVE i + 1 \in Q
    <3>1. SUFFICES ASSUME i + 1 <= n PROVE g[i + 1] = h[i + 1]
      OBVIOUS
    <3>2. i \in 0 .. n - 1 /\ i \in 0 .. (n + 1) - 1 /\ i <= n
      BY <3>1
    <3>3. g[i + 1] = D[i][g[i]] /\ h[i + 1] = D[i][h[i]] /\ g[i] = h[i]
      BY <2>1, <2>3, <3>2
    <3> QED
      BY <3>3
  <2>4. \A i \in Nat : i \in Q
    <3> HIDE DEF Q
    <3> QED
      BY <2>2, <2>3, Induct
  <2>5. g[n] = h[n]
    BY <2>4
  <2>6. h[n + 1] = D[n][h[n]]
    <3>1. n \in 0 .. (n + 1) - 1
      OBVIOUS
    <3> QED
      BY <2>1, <3>1
  <2> QED
    BY <2>5, <2>6 DEF g, h
<1>7. f[0] = a
  BY <1>4
<1> HIDE DEF f
<1>8. Follows(f, a, D)
  BY <1>6, <1>7 DEF Follows
<1> QED
  BY <1>5, <1>8

\* The same up to N.
FollowsTo(g, a, D, N) == g[0] = a /\ \A n \in 1 .. N : g[n] = D[n][g[n - 1]]

\* Recursion up to N.
LEMMA RecursionTo ==
  ASSUME NEW N \in Nat, NEW V, NEW a \in V, NEW D \in [1 .. N -> [V -> V]]
  PROVE  \E g \in [0 .. N -> V] : FollowsTo(g, a, D, N)
<1> DEFINE E == [n \in Nat |-> IF n + 1 \in 1 .. N THEN D[n + 1] ELSE [v \in V |-> v]]
<1>1. E \in [Nat -> [V -> V]]
  <2>1. [v \in V |-> v] \in [V -> V]
    OBVIOUS
  <2> QED
    BY <2>1
<1>2. PICK G \in [Nat -> V] : Follows(G, a, E)
  <2> HIDE DEF E
  <2> QED
    BY <1>1, Recursion
<1> DEFINE g == [n \in 0 .. N |-> G[n]]
<1>3. g \in [0 .. N -> V]
  OBVIOUS
<1>4. g[0] = a
  BY <1>2 DEF Follows
<1>5. ASSUME NEW n \in 1 .. N PROVE g[n] = D[n][g[n - 1]]
  <2>1. n - 1 \in Nat /\ (n - 1) + 1 = n /\ n - 1 \in 0 .. N /\ n \in 0 .. N
    OBVIOUS
  <2>2. G[n] = E[n - 1][G[n - 1]]
    BY <1>2, <2>1 DEF Follows
  <2>3. E[n - 1] = D[n]
    BY <2>1
  <2> HIDE DEF E
  <2> QED
    BY <2>1, <2>2, <2>3
<1> HIDE DEF g
<1>6. FollowsTo(g, a, D, N)
  BY <1>4, <1>5 DEF FollowsTo
<1> QED
  BY <1>3, <1>6

\* A walk that only goes up, and stands still from M on, ends somewhere: there
\* is a function that says where, from each place.
LEMMA WalkUp ==
  ASSUME NEW M \in Nat, NEW step \in [Nat -> Nat],
         \A x \in Nat : step[x] = x \/ (x < step[x] /\ x < M)
  PROVE  \E g \in [Nat -> Nat] : \A x \in Nat : g[x] = IF step[x] = x THEN x ELSE g[step[x]]
<1> DEFINE V == [Nat -> Nat]
           At(i) == M - 1 - i
           Up(i, u) == [u EXCEPT ![At(i)] = IF step[At(i)] = At(i) THEN At(i) ELSE u[step[At(i)]]]
           D == [i \in Nat |-> [u \in V |-> IF i < M THEN Up(i, u) ELSE u]]
           a == [x \in Nat |-> x]
<1>1. \A i \in Nat : i < M => At(i) \in Nat
  OBVIOUS
<1> HIDE DEF At
<1>2. ASSUME NEW i \in Nat, i < M, NEW u \in V
      PROVE  /\ Up(i, u) \in V
             /\ Up(i, u)[At(i)] = IF step[At(i)] = At(i) THEN At(i) ELSE u[step[At(i)]]
             /\ \A x \in Nat : x # At(i) => Up(i, u)[x] = u[x]
  <2>1. At(i) \in Nat /\ step[At(i)] \in Nat
    BY <1>1, <1>2
  <2> QED
    BY <2>1
<1> HIDE DEF Up
<1>3. D \in [Nat -> [V -> V]] /\ a \in V
  BY <1>2
<1>4. PICK w \in [Nat -> V] : Follows(w, a, D)
  <2> HIDE DEF V, D, a
  <2> QED
    BY <1>3, Recursion
<1>5. /\ w[0] = a
      /\ \A i \in Nat : w[i] \in V /\ (i < M => w[i + 1] = Up(i, w[i]))
  BY <1>4 DEF Follows
<1> DEFINE Good(u, x) == u[x] = IF step[x] = x THEN x ELSE u[step[x]]
           P == {i \in Nat : i <= M => \A x \in Nat : x >= M - i => Good(w[i], x)}
<1>6. 0 \in P
  <2> SUFFICES ASSUME NEW x \in Nat, x >= M PROVE Good(w[0], x)
    OBVIOUS
  <2>1. step[x] = x
    OBVIOUS
  <2> QED
    BY <1>5, <2>1
<1>7. ASSUME NEW i \in Nat, i \in P PROVE i + 1 \in P
  <2> SUFFICES ASSUME i + 1 <= M, NEW x \in Nat, x >= M - (i + 1) PROVE Good(w[i + 1], x)
    OBVIOUS
  <2>1. i < M /\ i <= M /\ At(i) \in Nat /\ (x = At(i) \/ x >= M - i) /\ \A y \in Nat : y > At(i) => y >= M - i
    BY DEF At
  <2>2. \A y \in Nat : y >= M - i => y # At(i) /\ Good(w[i], y)
    BY <1>7, <2>1 DEF At
  <2> DEFINE u == w[i]
             v == w[i + 1]
  <2>3. /\ v[At(i)] = IF step[At(i)] = At(i) THEN At(i) ELSE u[step[At(i)]]
        /\ \A y \in Nat : y # At(i) => v[y] = u[y]
    <3>1. u \in V /\ v = Up(i, u)
      BY <1>5, <2>1
    <3> HIDE DEF u, v, V
    <3> QED
      BY <1>2, <2>1, <3>1
  <2> HIDE DEF u, v
  <2>4. step[x] \in Nat /\ (step[x] = x \/ x < step[x])
    OBVIOUS
  <2>5. CASE x = At(i)
    <3>1. step[x] # x => step[x] # At(i)
      BY <2>5
    <3> QED
      BY <2>3, <2>4, <2>5, <3>1 DEF v
  <2>6. CASE x >= M - i
    <3>1. step[x] >= M - i
      <4>1. \A y \in Nat : y = x \/ x < y => y >= M - i
        BY <2>6
      <4> QED
        BY <2>4, <4>1
    <3>2. v[x] = u[x] /\ v[step[x]] = u[step[x]]
      BY <2>2, <2>3, <2>4, <2>6, <3>1
    <3>3. Good(u, x)
      BY <2>2, <2>6 DEF u
    <3> QED
      BY <3>2, <3>3 DEF v
  <2> QED
    BY <2>1, <2>5, <2>6
<1>8. M \in P
  <2> HIDE DEF P
  <2> QED
    BY <1>6, <1>7, Induct
<1>9. \A x \in Nat : Good(w[M], x)
  <2>1. \A x \in Nat : x >= M - M
    OBVIOUS
  <2> QED
    BY <1>8, <2>1
<1> QED
  BY <1>5, <1>9
=============================================================================
