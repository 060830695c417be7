------------------------- MODULE ConfigureProofs -------------------------
(***************************************************************************)
(* Proofs about what a CMake run computes.                                 *)
(*                                                                         *)
(* The graph that the declarations make, however many there are: a dist    *)
(* tree is made of all the runtime deps, deepest first; what the commands  *)
(* read is waited for; and, set up one after the other, sub-projects       *)
(* cannot wait for each other and find the same packages.                  *)
(*                                                                         *)
(* Feature selection (second half), for every feature      *)
(* table and every sequence of CMake runs.                                 *)
(***************************************************************************)
EXTENDS SubprojectGraph, Features, WellFoundedInduction, TLAPS

-----------------------------------------------------------------------------
(* What list(REMOVE_DUPLICATES) leaves.                                     *)

(* Induction: of the numbers that are not as claimed there is a least one.  *)
LEMMA Least == \A S \in SUBSET Nat : S # {} => \E m \in S : \A k \in S : m <= k
  <1> SUFFICES ASSUME NEW S \in SUBSET Nat, S # {} PROVE \E m \in S : \A k \in S : m <= k
    OBVIOUS
  <1>1. PICK m \in S : \A k \in S : ~ (<<k, m>> \in OpToRel(<, Nat))
    BY NatLessThanWellFounded, WFMin
  <1>2. \A k \in S : ~ (k < m)
    BY <1>1 DEF OpToRel
  <1> QED  BY <1>2

(* One step of Dedup.                                                       *)
Keep(done, x) == IF Contains(done, x) THEN done ELSE Append(done, x)

(* h folds Keep over the sets of the first n positions of l, last one last. *)
IsFold(h, l, n) ==
  h = [s \in SUBSET (1 .. n) |-> IF s = {} THEN << >> ELSE Keep(h[s \ {Max(s)}], l[Max(s)])]

(* The position that such a fold takes last, and that there is one.         *)
LEMMA MaxTop ==
  ASSUME NEW n \in Nat, NEW s \in SUBSET (1 .. n), n \in s
  PROVE  Max(s) = n
  <1> DEFINE x == Max(s)
  <1>1. \A y \in s : n >= y
    OBVIOUS
  <1>2. x \in s /\ x >= n
    BY <1>1 DEF Max
  <1> HIDE DEF x
  <1>3. x \in 1 .. n /\ x = n
    BY <1>2
  <1> QED  BY <1>3 DEF x

LEMMA MaxIn ==
  ASSUME NEW n \in Nat, NEW s \in SUBSET (1 .. n), s # {}
  PROVE  Max(s) \in s
  <1> DEFINE U == {m \in Nat : \A y \in s : m >= y}
  <1>1. n \in U
    OBVIOUS
  <1>2. PICK m \in U : \A k \in U : m <= k
    BY <1>1, Least
  <1>3. m \in s
    <2> SUFFICES ASSUME m \notin s PROVE FALSE
      OBVIOUS
    <2>1. \A y \in s : y \in 1 .. n /\ m >= y /\ m # y
      BY <1>2
    <2>2. m - 1 \in Nat
      <3>1. PICK y \in s : TRUE
        OBVIOUS
      <3> QED  BY <2>1, <3>1
    <2>4. ASSUME NEW y \in s PROVE m - 1 >= y
      <3>1. y \in Nat /\ m >= y /\ m # y /\ m \in Nat
        BY <2>1
      <3> QED  BY ONLY <3>1
    <2>3. m - 1 \in U
      BY <2>2, <2>4
    <2> QED  BY <2>3, <1>2
  <1> QED  BY <1>2, <1>3 DEF Max

(* The fold is defined, for lists of any length.                            *)
LEMMA FoldExists == ASSUME NEW l PROVE \A n \in Nat : \E h : IsFold(h, l, n)
  <1> DEFINE B == {n \in Nat : ~ \E h : IsFold(h, l, n)}
  <1> SUFFICES ASSUME B # {} PROVE FALSE
    OBVIOUS
  <1>1. PICK m \in B : \A k \in B : m <= k
    BY Least
  <1>2. m # 0
    <2> DEFINE h == [s \in SUBSET (1 .. 0) |-> << >>]
    <2>1. SUBSET (1 .. 0) = {{}}
      OBVIOUS
    <2>3. IsFold(h, l, 0)
      BY <2>1 DEF IsFold
    <2> QED  BY <2>3, <1>1
  <1>3. m - 1 \in Nat /\ m - 1 \notin B
    BY <1>1, <1>2
  <1>4. PICK h : IsFold(h, l, m - 1)
    BY <1>3
  <1> DEFINE g == [s \in SUBSET (1 .. m) |-> IF m \in s THEN Keep(h[s \ {m}], l[m]) ELSE h[s]]
  <1>5. ASSUME NEW s \in SUBSET (1 .. m)
        PROVE  g[s] = IF s = {} THEN << >> ELSE Keep(g[s \ {Max(s)}], l[Max(s)])
    <2>1. CASE m \in s
      <3>1. Max(s) = m
        BY <2>1, <1>3, MaxTop
      <3>2. s \ {m} \in SUBSET (1 .. m) /\ m \notin s \ {m}
        OBVIOUS
      <3> QED  BY <3>1, <3>2, <2>1
    <2>2. CASE m \notin s
      <3>1. s \in SUBSET (1 .. m - 1)
        BY <2>2, <1>3
      <3>2. h[s] = IF s = {} THEN << >> ELSE Keep(h[s \ {Max(s)}], l[Max(s)])
        BY <1>4, <3>1 DEF IsFold
      <3>3. s \ {Max(s)} \in SUBSET (1 .. m) /\ m \notin s \ {Max(s)}
        BY <2>2
      <3> QED  BY <3>2, <3>3, <2>2
    <2> QED  BY <2>1, <2>2
  <1>6. IsFold(g, l, m)
    <2> HIDE DEF g
    <2>1. g = [s \in SUBSET (1 .. m) |-> g[s]]
      BY DEF g
    <2> QED  BY <1>5, <2>1 DEF IsFold
  <1> QED  BY <1>1, <1>6

(* Dedup is that fold.                                                      *)
LEMMA DedupIsFold ==
  ASSUME NEW S, NEW l \in Seq(S)
  PROVE  \E h : IsFold(h, l, Len(l)) /\ Dedup(l) = h[1 .. Len(l)]
  <1> DEFINE n == Len(l)
             h == CHOOSE h : IsFold(h, l, n)
  <1>1. IsFold(h, l, n)
    BY FoldExists
  <1>2. Dedup(l) = h[1 .. n]
    <2>1. DOMAIN l = 1 .. n
      OBVIOUS
    <2>2. Dedup(l) = LET f == CHOOSE f : f = [s \in SUBSET (DOMAIN l) |-> IF s = {} THEN << >> ELSE Keep(f[s \ {Max(s)}], l[Max(s)])] IN f[DOMAIN l]
      BY DEF Dedup, FoldLeft, MapThenFoldSet, Keep
    <2> QED  BY <2>1, <2>2 DEF IsFold
  <1> QED  BY <1>1, <1>2

(* d has the first k elements of l, once each, in the order in which they   *)
(* come first.                                                              *)
Deduped(d, l, k) ==
  /\ d \in Seq({l[j] : j \in 1 .. k})
  /\ \A a, b \in 1 .. Len(d) : d[a] = d[b] => a = b
  /\ \A j \in 1 .. k : \E i \in 1 .. Len(d) : d[i] = l[j]
  /\ \A i \in 1 .. Len(d) : \E j \in 1 .. k :
       /\ l[j] = d[i]
       /\ \A a \in 1 .. j - 1 : \E b \in 1 .. i - 1 : d[b] = l[a]

(* Keep has, of one more element, what Dedup promises...                    *)
LEMMA KeepStep ==
  ASSUME NEW l, NEW k \in Nat, NEW d, Deduped(d, l, k)
  PROVE  Deduped(Keep(d, l[k + 1]), l, k + 1)
  <1> DEFINE x == l[k + 1]
             e == Keep(d, x)
             S == {l[j] : j \in 1 .. k}
             T == {l[j] : j \in 1 .. k + 1}
  <1>0. 1 .. k + 1 = 1 .. k \union {k + 1} /\ k + 1 \notin 1 .. k
    OBVIOUS
  <1>1. d \in Seq(T) /\ x \in T /\ d \in Seq(S)
    BY <1>0 DEF Deduped
  <1>2. Len(d) \in Nat /\ DOMAIN d = 1 .. Len(d)
    BY <1>1
  <1>3. CASE Contains(d, x)
    <2>1. e = d
      BY <1>3 DEF Keep
    <2>2. \A j \in 1 .. k + 1 : \E i \in 1 .. Len(d) : d[i] = l[j]
      BY <1>0, <1>3 DEF Contains, Deduped
    <2>3. \A i \in 1 .. Len(d) : \E j \in 1 .. k + 1 :
            /\ l[j] = d[i]
            /\ \A a \in 1 .. j - 1 : \E b \in 1 .. i - 1 : d[b] = l[a]
      BY <1>0 DEF Deduped
    <2> QED  BY <1>1, <2>1, <2>2, <2>3 DEF Deduped
  <1>4. CASE ~ Contains(d, x)
    <2> DEFINE n == Len(d)
    <2>1. e = Append(d, x) /\ \A i \in 1 .. n : d[i] # x
      BY <1>4 DEF Keep, Contains
    <2> HIDE DEF x, e, S, T
    <2>2. /\ n \in Nat /\ e \in Seq(T) /\ Len(e) = n + 1 /\ e[n + 1] = x
          /\ \A i \in 1 .. n : e[i] = d[i]
      BY <1>1, <1>2, <2>1
    <2> HIDE DEF n
    <2>3. 1 .. n + 1 = 1 .. n \union {n + 1} /\ n + 1 \notin 1 .. n
      BY <2>2
    <2>4. \A a, b \in 1 .. n : d[a] = d[b] => a = b
      BY DEF Deduped, n
    <2>5. \A a, b \in 1 .. n + 1 : e[a] = e[b] => a = b
      BY <2>1, <2>2, <2>3, <2>4
    <2>6. \A j \in 1 .. k : \E i \in 1 .. n : d[i] = l[j]
      BY DEF Deduped, n
    <2>7. \A j \in 1 .. k + 1 : \E i \in 1 .. n + 1 : e[i] = l[j]
      BY <1>0, <2>2, <2>3, <2>6 DEF x
    <2>8. ASSUME NEW i \in 1 .. n + 1
          PROVE  \E j \in 1 .. k + 1 :
                   /\ l[j] = e[i]
                   /\ \A a \in 1 .. j - 1 : \E b \in 1 .. i - 1 : e[b] = l[a]
      <3>1. CASE i = n + 1
        <4>1. l[k + 1] = e[i] /\ (k + 1) - 1 = k /\ i - 1 = n /\ k + 1 \in 1 .. k + 1
          BY <2>2, <3>1 DEF x
        <4>2. \A a \in 1 .. k : \E b \in 1 .. n : e[b] = l[a]
          BY <2>2, <2>6
        <4> QED  BY <4>1, <4>2
      <3>2. CASE i \in 1 .. n
        <4>1. PICK j \in 1 .. k : /\ l[j] = d[i]
                                  /\ \A a \in 1 .. j - 1 : \E b \in 1 .. i - 1 : d[b] = l[a]
          BY <3>2 DEF Deduped, n
        <4>2. \A b \in 1 .. i - 1 : e[b] = d[b]
          BY <2>2, <3>2
        <4>3. j \in 1 .. k + 1 /\ e[i] = d[i]
          BY <1>0, <2>2, <3>2
        <4> QED  BY <4>1, <4>2, <4>3
      <3> QED  BY <2>3, <3>1, <3>2
    <2> QED  BY <2>2, <2>5, <2>7, <2>8 DEF Deduped, e, x, T
  <1> QED  BY <1>3, <1>4

(* ... and so Dedup has it of all.                                          *)
LEMMA DedupSpec ==
  ASSUME NEW S, NEW l \in Seq(S)
  PROVE  Deduped(Dedup(l), l, Len(l))
  <1>1. PICK h : IsFold(h, l, Len(l)) /\ Dedup(l) = h[1 .. Len(l)]
    BY DedupIsFold
  <1> DEFINE n == Len(l)
             B == {k \in 0 .. n : ~ Deduped(h[1 .. k], l, k)}
  <1>2. n \in Nat
    OBVIOUS
  <1> HIDE DEF n
  <1> SUFFICES ASSUME B # {} PROVE FALSE
    BY <1>1, <1>2 DEF n
  <1>3. PICK k \in B : \A j \in B : k <= j
    <2>1. B \in SUBSET Nat
      BY <1>2
    <2> HIDE DEF B
    <2> QED  BY <2>1, Least
  <1>4. \A s \in SUBSET (1 .. n) : h[s] = IF s = {} THEN << >> ELSE Keep(h[s \ {Max(s)}], l[Max(s)])
    BY <1>1 DEF IsFold, n
  <1>5. CASE k = 0
    <2>1. 1 .. k = {} /\ {} \in SUBSET (1 .. n)
      BY <1>5
    <2>2. h[1 .. k] = << >>
      BY <1>4, <2>1
    <2>3. Deduped(<< >>, l, 0)
      BY DEF Deduped
    <2> QED  BY <1>3, <1>5, <2>2, <2>3
  <1>6. CASE k # 0
    <2> DEFINE j == k - 1
    <2>1. j \in 0 .. n /\ j + 1 = k /\ j \in Nat /\ k \in 1 .. n /\ j \notin B
      BY <1>2, <1>3, <1>6
    <2>2. Deduped(h[1 .. j], l, j)
      BY <2>1
    <2> HIDE DEF j
    <2>7. k \in Nat /\ k <= n /\ 1 <= k /\ j \in Nat /\ j + 1 = k
      BY <2>1, <1>2
    <2>8. 1 .. k \subseteq 1 .. n /\ k \in 1 .. k
      BY <1>2, <2>7
    <2>9. \A i \in Int : i \in 1 .. k /\ i # k <=> i \in 1 .. j
      BY ONLY <2>7
    <2>10. (1 .. k) \ {k} = 1 .. j
      <3>1. \A i \in 1 .. k : i \in Int
        OBVIOUS
      <3>2. \A i \in 1 .. j : i \in Int
        OBVIOUS
      <3> QED  BY <2>9, <3>1, <3>2
    <2>3. 1 .. k \in SUBSET (1 .. n) /\ k \in 1 .. k /\ 1 .. k # {} /\ (1 .. k) \ {k} = 1 .. j
      BY <2>8, <2>10
    <2>4. Max(1 .. k) = k
      BY <2>1, <2>3, MaxTop
    <2>5. h[1 .. k] = Keep(h[1 .. j], l[k])
      BY <1>4, <2>3, <2>4
    <2>6. Deduped(Keep(h[1 .. j], l[j + 1]), l, j + 1)
      BY <2>1, <2>2, KeepStep
    <2> QED  BY <1>3, <2>1, <2>5, <2>6
  <1> QED  BY <1>5, <1>6

-----------------------------------------------------------------------------
(* What a list of lists, one after the other, is.                           *)

(* f is the first k sequences of ss, one after the other: it has their      *)
(* elements, each after those that come before it in one of them.           *)
Flattened(f, ss, k) ==
  /\ \A i \in 1 .. k : \A j \in 1 .. Len(ss[i]) : \E x \in 1 .. Len(f) : f[x] = ss[i][j]
  /\ \A x \in 1 .. Len(f) : \E i \in 1 .. k : \E j \in 1 .. Len(ss[i]) :
       /\ f[x] = ss[i][j]
       /\ \A m \in 1 .. j - 1 : \E y \in 1 .. x - 1 : f[y] = ss[i][m]

(* One more sequence.                                                       *)
LEMMA FlattenStep ==
  ASSUME NEW S, NEW n \in Nat, NEW ss \in [1 .. n -> Seq(S)], NEW k \in 1 .. n, k # 1,
         NEW f \in Seq(S), Flattened(f, ss, k - 1)
  PROVE  f \o ss[k] \in Seq(S) /\ Flattened(f \o ss[k], ss, k)
  <1> DEFINE t == ss[k]
             a == Len(f)
             b == Len(t)
             g == f \o t
  <1>1. t \in Seq(S)
    OBVIOUS
  <1> HIDE DEF t
  <1>2. /\ a \in Nat /\ b \in Nat /\ g \in Seq(S) /\ Len(g) = a + b
        /\ \A i \in 1 .. a : g[i] = f[i]
        /\ \A j \in 1 .. b : g[a + j] = t[j]
    BY <1>1
  <1>3. 1 .. k = 1 .. k - 1 \union {k}
    OBVIOUS
  <1> HIDE DEF a, b, g
  <1>4. 1 .. a \subseteq 1 .. a + b /\ \A j \in 1 .. b : a + j \in 1 .. a + b
    BY <1>2
  <1>5. /\ \A i \in 1 .. k - 1 : \A j \in 1 .. Len(ss[i]) : \E x \in 1 .. a : f[x] = ss[i][j]
        /\ \A x \in 1 .. a : \E i \in 1 .. k - 1 : \E j \in 1 .. Len(ss[i]) :
             /\ f[x] = ss[i][j]
             /\ \A m \in 1 .. j - 1 : \E y \in 1 .. x - 1 : f[y] = ss[i][m]
    BY DEF Flattened, a
  <1>6. ASSUME NEW i \in 1 .. k, NEW j \in 1 .. Len(ss[i])
        PROVE  \E x \in 1 .. a + b : g[x] = ss[i][j]
    <2>1. CASE i = k
      <3>1. j \in 1 .. b /\ ss[i][j] = t[j]
        BY <2>1 DEF t, b
      <3> QED  BY <1>2, <1>4, <3>1
    <2>2. CASE i \in 1 .. k - 1
      <3>1. PICK x \in 1 .. a : f[x] = ss[i][j]
        BY <1>5, <2>2
      <3> QED  BY <1>2, <1>4, <3>1
    <2> QED  BY <1>3, <2>1, <2>2
  <1>7. ASSUME NEW x \in 1 .. a + b
        PROVE  \E i \in 1 .. k : \E j \in 1 .. Len(ss[i]) :
                 /\ g[x] = ss[i][j]
                 /\ \A m \in 1 .. j - 1 : \E y \in 1 .. x - 1 : g[y] = ss[i][m]
    <2>1. CASE x \in 1 .. a
      <3>1. \A y \in 1 .. x - 1 : y \in 1 .. a
        BY <1>2, <2>1
      <3>2. \A y \in 1 .. x - 1 : g[y] = f[y]
        BY <1>2, <3>1
      <3>3. g[x] = f[x]
        BY <1>2, <2>1
      <3>4. PICK i \in 1 .. k - 1 : \E j \in 1 .. Len(ss[i]) :
              /\ f[x] = ss[i][j]
              /\ \A m \in 1 .. j - 1 : \E y \in 1 .. x - 1 : f[y] = ss[i][m]
        BY <1>5, <2>1
      <3>5. \E j \in 1 .. Len(ss[i]) :
              /\ g[x] = ss[i][j]
              /\ \A m \in 1 .. j - 1 : \E y \in 1 .. x - 1 : g[y] = ss[i][m]
        BY <3>2, <3>3, <3>4
      <3> QED  BY <1>3, <3>5
    <2>2. CASE x \notin 1 .. a
      <3> DEFINE j == x - a
      <3>1. j \in 1 .. b /\ a + j = x
        BY <1>2, <2>2
      <3>2. g[x] = t[j]
        BY <1>2, <3>1
      <3>3. ASSUME NEW m \in 1 .. j - 1 PROVE a + m \in 1 .. x - 1 /\ g[a + m] = t[m]
        <4>1. m \in 1 .. b /\ a + m \in 1 .. x - 1
          BY <1>2, <3>1
        <4> QED  BY <1>2, <4>1
      <3> HIDE DEF j
      <3>4. j \in 1 .. Len(ss[k]) /\ k \in 1 .. k
        BY <3>1 DEF b, t
      <3> QED  BY <3>2, <3>3, <3>4 DEF t
    <2> QED  BY <2>1, <2>2
  <1>8. Flattened(g, ss, k)
    BY <1>2, <1>6, <1>7 DEF Flattened
  <1> QED  BY <1>2, <1>8 DEF t, g

(* h[i] is the first i of n sequences, one after the other.                 *)
IsFlat(h, ss, n) == h = [i \in 1 .. n |-> IF i = 1 THEN ss[i] ELSE h[i - 1] \o ss[i]]

(* It is defined, for any number of sequences.                              *)
LEMMA FlatExists == ASSUME NEW ss PROVE \A n \in Nat : \E h : IsFlat(h, ss, n)
  <1> DEFINE B == {n \in Nat : ~ \E h : IsFlat(h, ss, n)}
  <1> SUFFICES ASSUME B # {} PROVE FALSE
    OBVIOUS
  <1>1. PICK k \in B : \A j \in B : k <= j
    BY Least
  <1>2. k # 0
    <2>1. << >> = [i \in 1 .. 0 |-> IF i = 1 THEN ss[i] ELSE << >>[i - 1] \o ss[i]]
      OBVIOUS
    <2>2. IsFlat(<< >>, ss, 0)
      BY <2>1 DEF IsFlat
    <2> QED  BY <1>1, <2>2
  <1>3. k \in Nat /\ k - 1 \in Nat /\ k - 1 \notin B
    BY <1>1, <1>2
  <1>4. PICK h : IsFlat(h, ss, k - 1)
    BY <1>3
  <1> DEFINE g == [i \in 1 .. k |-> IF i = k THEN IF k = 1 THEN ss[1] ELSE h[k - 1] \o ss[k] ELSE h[i]]
  <1>5. ASSUME NEW i \in 1 .. k
        PROVE  g[i] = IF i = 1 THEN ss[i] ELSE g[i - 1] \o ss[i]
    <2>1. CASE i = k
      <3>1. CASE k = 1
        BY <2>1, <3>1
      <3>2. CASE k # 1
        <4>1. k - 1 \in 1 .. k /\ k - 1 # k
          BY <1>3, <3>2, <2>1
        <4>2. g[k - 1] = h[k - 1]
          BY <4>1
        <4> QED  BY <2>1, <3>2, <4>2
      <3> QED  BY <3>1, <3>2
    <2>2. CASE i # k
      <3>1. i \in 1 .. k - 1 /\ g[i] = h[i]
        BY <1>3, <2>2
      <3>2. h[i] = IF i = 1 THEN ss[i] ELSE h[i - 1] \o ss[i]
        BY <1>4, <3>1 DEF IsFlat
      <3>3. i # 1 => g[i - 1] = h[i - 1]
        <4>1. i # 1 => i - 1 \in 1 .. k /\ i - 1 # k
          BY <3>1, <1>3
        <4> QED  BY <4>1
      <3> QED  BY <3>1, <3>2, <3>3
    <2> QED  BY <2>1, <2>2
  <1>6. g = [i \in 1 .. k |-> g[i]]
    OBVIOUS
  <1> HIDE DEF g
  <1>7. IsFlat(g, ss, k)
    BY <1>5, <1>6 DEF IsFlat
  <1> QED  BY <1>1, <1>7

(* FlattenSeq is the last of them.                                          *)
LEMMA FlattenIsFlat ==
  ASSUME NEW S, NEW n \in Nat, NEW ss \in [1 .. n -> S], n # 0
  PROVE  \E h : IsFlat(h, ss, n) /\ FlattenSeq(ss) = h[n]
  <1> DEFINE h == CHOOSE f : IsFlat(f, ss, n)
  <1>1. IsFlat(h, ss, n)
    BY FlatExists
  <1>2. Len(ss) = n
    OBVIOUS
  <1>3. FlattenSeq(ss) = h[n]
    BY <1>2 DEF FlattenSeq, IsFlat
  <1> QED  BY <1>1, <1>3

(* Any number of sequences.                                                 *)
LEMMA FlattenSpec ==
  ASSUME NEW S, NEW n \in Nat, NEW ss \in [1 .. n -> Seq(S)]
  PROVE  FlattenSeq(ss) \in Seq(S) /\ Flattened(FlattenSeq(ss), ss, n)
  <1>1. CASE n = 0
    <2>1. ss = << >>
      BY <1>1
    <2>2. FlattenSeq(ss) = << >>
      BY <2>1 DEF FlattenSeq
    <2> QED  BY <1>1, <2>2 DEF Flattened
  <1>2. CASE n # 0
    <2>1. PICK f : IsFlat(f, ss, n) /\ FlattenSeq(ss) = f[n]
      BY <1>2, FlattenIsFlat
    <2> DEFINE C == {k \in 1 .. n : ~ (f[k] \in Seq(S) /\ Flattened(f[k], ss, k))}
    <2> SUFFICES ASSUME C # {} PROVE FALSE
      <3>1. n \in 1 .. n
        BY <1>2
      <3> QED  BY <2>1, <3>1
    <2>2. PICK k \in C : \A j \in C : k <= j
      <3>1. C \in SUBSET Nat
        OBVIOUS
      <3> HIDE DEF C
      <3> QED  BY <3>1, Least
    <2>3. k \in 1 .. n /\ f[k] = IF k = 1 THEN ss[k] ELSE f[k - 1] \o ss[k]
      BY <2>1, <2>2 DEF IsFlat
    <2>4. CASE k = 1
      <3>1. f[k] = ss[1] /\ ss[1] \in Seq(S)
        BY <2>3, <2>4
      <3>2. Flattened(ss[1], ss, 1)
        BY <3>1 DEF Flattened
      <3> QED  BY <2>2, <2>4, <3>1, <3>2
    <2>5. CASE k # 1
      <3>1. k - 1 \in 1 .. n /\ ~ (k <= k - 1)
        BY <2>3, <2>5
      <3>2. f[k - 1] \in Seq(S) /\ Flattened(f[k - 1], ss, k - 1)
        BY <2>2, <3>1
      <3> HIDE DEF C
      <3>3. f[k - 1] \o ss[k] \in Seq(S) /\ Flattened(f[k - 1] \o ss[k], ss, k)
        BY <2>3, <2>5, <3>2, FlattenStep
      <3> QED  BY <2>2, <2>3, <2>5, <3>3 DEF C
    <2> QED  BY <2>4, <2>5
  <1> QED  BY <1>1, <1>2

-----------------------------------------------------------------------------
(* What a declaration and an activation compute.                            *)

(* What a runtime dep brings along.                                         *)
With(r) == Append(sub[r].runtime, r)

(* r has what the runtime deps bring along, each after what comes before it *)
(* in one of them.                                                          *)
Gathered(r, runtime, n) ==
  /\ \A i \in 1 .. n : \A j \in 1 .. Len(With(runtime[i])) :
       \E x \in 1 .. Len(r) : r[x] = With(runtime[i])[j]
  /\ \A x \in 1 .. Len(r) : \E i \in 1 .. n : \E j \in 1 .. Len(With(runtime[i])) :
       /\ r[x] = With(runtime[i])[j]
       /\ \A m \in 1 .. j - 1 : \E y \in 1 .. x - 1 : r[y] = With(runtime[i])[m]

(* THEROCK_RUNTIME_DEPS has all of it, once, in order.                      *)
LEMMA RuntimeDepsSpec ==
  ASSUME NEW D, \A r \in D : sub[r].runtime \in Seq(D), NEW n \in Nat, NEW runtime \in [1 .. n -> D],
         NEW R, R = RuntimeDeps(runtime)
  PROVE  /\ R \in Seq(D)
         /\ IsInjective(R) /\ Gathered(R, runtime, n)
  <1> DEFINE ss == [i \in 1 .. n |-> With(runtime[i])]
             l == FlattenSeq(ss)
  <1>1. ss \in [1 .. n -> Seq(D)]
    <2> SUFFICES ASSUME NEW i \in 1 .. n PROVE With(runtime[i]) \in Seq(D)
      OBVIOUS
    <2>1. runtime[i] \in D
      OBVIOUS
    <2> QED  BY <2>1 DEF With
  <1>2. R = Dedup(l)
    <2>1. DOMAIN runtime = 1 .. n
      OBVIOUS
    <2> QED  BY <2>1 DEF RuntimeDeps, With
  <1>3. \A i \in 1 .. n : ss[i] = With(runtime[i])
    OBVIOUS
  <1> HIDE DEF ss
  <1>4. l \in Seq(D) /\ Flattened(l, ss, n)
    BY <1>1, FlattenSpec
  <1> HIDE DEF l
  <1>5. Deduped(R, l, Len(l)) /\ Len(l) \in Nat
    BY <1>2, <1>4, DedupSpec
  <1>6. R \in Seq(D)
    <2>1. {l[j] : j \in 1 .. Len(l)} \subseteq D
      BY <1>4
    <2>2. R \in Seq({l[j] : j \in 1 .. Len(l)})
      BY <1>5 DEF Deduped
    <2> DEFINE E == {l[j] : j \in 1 .. Len(l)}
    <2> HIDE DEF E
    <2>3. R \in Seq(E) /\ E \subseteq D
      BY <2>1, <2>2 DEF E
    <2> QED  BY <2>3
  <1>7. \A a, b \in 1 .. Len(R) : R[a] = R[b] => a = b
    BY <1>5 DEF Deduped
  <1>8. ASSUME NEW i \in 1 .. n, NEW j \in 1 .. Len(With(runtime[i]))
        PROVE  \E x \in 1 .. Len(R) : R[x] = With(runtime[i])[j]
    <2>1. PICK z \in 1 .. Len(l) : l[z] = With(runtime[i])[j]
      BY <1>3, <1>4 DEF Flattened
    <2> QED  BY <1>5, <2>1 DEF Deduped
  <1>9. ASSUME NEW x \in 1 .. Len(R)
        PROVE  \E i \in 1 .. n : \E j \in 1 .. Len(With(runtime[i])) :
                 /\ R[x] = With(runtime[i])[j]
                 /\ \A m \in 1 .. j - 1 : \E y \in 1 .. x - 1 : R[y] = With(runtime[i])[m]
    <2>1. PICK z \in 1 .. Len(l) : /\ l[z] = R[x]
                                   /\ \A a \in 1 .. z - 1 : \E b \in 1 .. x - 1 : R[b] = l[a]
      BY <1>5 DEF Deduped
    <2>2. PICK i \in 1 .. n : \E j \in 1 .. Len(ss[i]) :
            /\ l[z] = ss[i][j]
            /\ \A m \in 1 .. j - 1 : \E y \in 1 .. z - 1 : l[y] = ss[i][m]
      BY <1>4 DEF Flattened
    <2>3. PICK j \in 1 .. Len(ss[i]) :
            /\ l[z] = ss[i][j]
            /\ \A m \in 1 .. j - 1 : \E y \in 1 .. z - 1 : l[y] = ss[i][m]
      BY <2>2
    <2>4. \A m \in 1 .. j - 1 : \E y \in 1 .. x - 1 : R[y] = ss[i][m]
      BY <2>1, <2>3
    <2>5. ss[i] = With(runtime[i]) /\ R[x] = ss[i][j]
      BY <1>3, <2>1, <2>3
    <2>6. \A m \in 1 .. j - 1 : \E y \in 1 .. x - 1 : R[y] = With(runtime[i])[m]
      BY <2>4, <2>5
    <2>7. j \in 1 .. Len(With(runtime[i])) /\ R[x] = With(runtime[i])[j]
      BY <2>5
    <2> QED  BY <2>6, <2>7
  <1>10. Gathered(R, runtime, n)
    BY <1>8, <1>9 DEF Gathered
  <1>11. DOMAIN R = 1 .. Len(R)
    BY <1>6
  <1> QED  BY <1>6, <1>7, <1>10, <1>11 DEF IsInjective

(* A package is found in a dep that provides it, a runtime dep if one does. *)
LEMMA ProviderSpec ==
  ASSUME NEW p, NEW k, sub[p].runtime \in Seq(Proj), sub[p].build \in Seq(Proj)
  PROVE  /\ Provider(p, k) \in ToSet(sub[p].runtime) \union ToSet(sub[p].build) \union {None}
         /\ Provider(p, k) # None => k \in provides[Provider(p, k)]
         /\ \A r \in ToSet(sub[p].runtime) :
              k \in provides[r] => Provider(p, k) \in ToSet(sub[p].runtime)
  <1> DEFINE s == sub[p].runtime
             t == sub[p].build
             ds == s \o t
             I == {i \in 1 .. Len(ds) : k \in provides[ds[i]]}
             i == SelectInSeq(ds, LAMBDA d : k \in provides[d])
  <1>1. i = IF I # {} THEN Min(I) ELSE 0
    BY DEF SelectInSeq
  <1>2. Provider(p, k) = IF i = 0 THEN None ELSE ds[i]
    BY DEF Provider
  <1> HIDE DEF i
  <1>7. s \in Seq(Proj) /\ t \in Seq(Proj)
    OBVIOUS
  <1> HIDE DEF s, t
  <1>3. /\ Len(s) \in Nat /\ Len(t) \in Nat /\ Len(ds) = Len(s) + Len(t) /\ ds \in Seq(Proj)
        /\ \A j \in 1 .. Len(s) : ds[j] = s[j]
        /\ \A j \in 1 .. Len(ds) : j \notin 1 .. Len(s) => j - Len(s) \in 1 .. Len(t) /\ ds[j] = t[j - Len(s)]
    BY <1>7
  <1>4. DOMAIN s = 1 .. Len(s) /\ DOMAIN t = 1 .. Len(t)
    BY <1>7
  <1> HIDE DEF ds
  <1>5. CASE I = {}
    <2>1. Provider(p, k) = None
      BY <1>1, <1>2, <1>5
    <2>2. \A r \in ToSet(s) : k \notin provides[r]
      <3>1. \A j \in 1 .. Len(s) : j \in 1 .. Len(ds)
        BY <1>3
      <3> QED  BY <1>3, <1>4, <1>5, <3>1 DEF ToSet
    <2> QED  BY <2>1, <2>2 DEF s
  <1>6. CASE I # {}
    <2>1. PICK m \in I : \A j \in I : m <= j
      <3>1. I \in SUBSET Nat
        BY <1>3
      <3> HIDE DEF I
      <3> QED  BY <1>6, <3>1, Least
    <2>2. i \in I /\ \A j \in I : i <= j
      BY <1>1, <1>6, <2>1 DEF Min
    <2>3. i \in 1 .. Len(ds) /\ k \in provides[ds[i]] /\ Provider(p, k) = ds[i]
      BY <1>2, <1>3, <2>2
    <2>4. ds[i] \in ToSet(s) \union ToSet(t)
      BY <1>3, <1>4, <2>3 DEF ToSet
    <2>5. ASSUME NEW r \in ToSet(s), k \in provides[r]
          PROVE  ds[i] \in ToSet(s)
      <3>1. PICK j \in 1 .. Len(s) : r = s[j]
        BY <1>4 DEF ToSet
      <3>2. j \in I
        BY <1>3, <2>5, <3>1
      <3>3. i <= j /\ i \in 1 .. Len(s)
        BY <1>3, <2>2, <2>3, <3>1, <3>2
      <3> QED  BY <1>3, <1>4, <3>3 DEF ToSet
    <2> QED  BY <2>3, <2>4, <2>5 DEF s, t
  <1> QED  BY <1>5, <1>6
-----------------------------------------------------------------------------
(* The invariant.                                                           *)

(* Calls give properties to targets one by one, and nothing is activated    *)
(* that is not declared...                                                  *)
ActiveDeclared ==
  /\ sub \in [Proj -> {sub[p] : p \in Proj}] /\ rule \in [Proj -> {rule[p] : p \in Proj}]
  /\ Active \subseteq Declared

(* ... and, in a script, all but the last one declared are activated and    *)
(* wait for activated sub-projects only.                                    *)
OneByOne ==
  scripted =>
    /\ \A p, q \in Declared \ Active : p = q
    /\ \A p \in Active : rule[p].needs \subseteq Active

(* Each of the names in s comes after all the runtime deps that it has in   *)
(* the table t.                                                             *)
InOrder(s, t) ==
  \A i \in 1 .. Len(s) : \A q \in ToSet(t[s[i]].runtime) : \E j \in 1 .. i - 1 : s[j] = q

(* Build deps may be declared later; runtime deps are sub-projects declared *)
(* before, each named once, after all of its own.                           *)
RuntimeOrdered ==
  \A p \in Declared :
    /\ sub[p].build \in Seq(Proj) /\ sub[p].runtime \in Seq(Declared \ {p})
    /\ IsInjective(sub[p].runtime) /\ InOrder(sub[p].runtime, sub)

(* What a sub-project finds the directories of are its runtime deps; what it*)
(* advertises has its own too.                                              *)
DirsCovered ==
  \A p \in Declared : /\ sub[p].private \subseteq ToSet(sub[p].runtime)
                      /\ sub[p].interface \subseteq ToSet(sub[p].runtime) \union {p}

(* What an activation generates is of the properties of that target, which  *)
(* are not set again; and of packages that stay provided.                   *)
RulesKept ==
  /\ provides \in [Proj -> SUBSET Package]
  /\ \A p \in Active :
       /\ rule[p].needs = Needs(p) /\ rule[p].merged = ToSet(sub[p].runtime)
       /\ \A k \in Package :
            /\ rule[p].package[k] \in ToSet(sub[p].runtime) \union ToSet(sub[p].build) \union {None}
            /\ rule[p].package[k] # None => k \in provides[rule[p].package[k]]

(* The inductive invariant behind the theorems.                             *)
IndInv ==
  ActiveDeclared /\ OneByOne /\ Acyclic /\ RuntimeOrdered /\ DirsCovered /\ RulesKept /\ NoEscape

-----------------------------------------------------------------------------
(* The steps.                                                               *)

LEMMA IndInit == Init => IndInv
  BY DEF Init, IndInv, ActiveDeclared, OneByOne, Acyclic, RuntimeOrdered, DirsCovered, RulesKept,
         NoEscape, Active, Declared, Undeclared, Inactive

(* What is said of the properties of the targets alone.                     *)
LEMMA SubSame ==
  ASSUME sub' = sub, RuntimeOrdered, DirsCovered PROVE RuntimeOrdered' /\ DirsCovered'
  <1>1. RuntimeOrdered'
    <2> SUFFICES ASSUME NEW p \in Declared'
                 PROVE  /\ sub'[p].build \in Seq(Proj) /\ sub'[p].runtime \in Seq(Declared' \ {p})
                        /\ IsInjective(sub'[p].runtime) /\ InOrder(sub'[p].runtime, sub')
      BY DEF RuntimeOrdered
    <2>1. p \in Declared /\ Declared' = Declared
      BY DEF Declared
    <2> QED  BY <2>1 DEF RuntimeOrdered
  <1>2. DirsCovered'
    BY DEF DirsCovered, Declared
  <1> QED  BY <1>1, <1>2

(* The lists that a declaration is given.                                   *)
LEMMA ListsAre ==
  ASSUME NEW max \in Nat, NEW l \in Lists(max)
  PROVE  l \in Seq(Proj) /\ l \in [1 .. Len(l) -> Proj] /\ DOMAIN l = 1 .. Len(l)
  <1>1. PICK n \in 0 .. max : l \in [1 .. n -> Proj]
    BY DEF Lists
  <1> QED  BY <1>1

(* A list of some names is one of more.                                     *)
LEMMA SeqMono == ASSUME NEW S, NEW T, S \subseteq T, NEW l \in Seq(S) PROVE l \in Seq(T)
  OBVIOUS

(* The runtime deps of a declaration are in order, each named once, and are *)
(* where the directories come from.                                         *)
LEMMA DeclareRuntime ==
  ASSUME RuntimeOrdered, DirsCovered, NEW runtime \in Lists(MaxRuntime),
         ToSet(runtime) \subseteq Declared, NEW R, R = RuntimeDeps(runtime)
  PROVE  /\ R \in Seq(Declared) /\ IsInjective(R)
         /\ InOrder(R, sub)
         /\ PrivateDirs(runtime) \subseteq ToSet(R)
  <1> DEFINE n == Len(runtime)
  <1>1. n \in Nat /\ runtime \in [1 .. n -> Declared] /\ DOMAIN runtime = 1 .. n
    <2>1. runtime \in [1 .. n -> Proj] /\ n \in Nat /\ DOMAIN runtime = 1 .. n
      BY ListsAre, BoundAssumption
    <2> QED  BY <2>1 DEF ToSet
  <1> DEFINE D == Declared
  <1>2. \A r \in D : sub[r].runtime \in Seq(D)
    <2> SUFFICES ASSUME NEW r \in Declared PROVE sub[r].runtime \in Seq(Declared)
      OBVIOUS
    <2>1. sub[r].runtime \in Seq(Declared \ {r})
      BY DEF RuntimeOrdered
    <2> QED  BY <2>1, SeqMono
  <1>8. n \in Nat /\ runtime \in [1 .. n -> D]
    BY <1>1
  <1> HIDE DEF n, D
  <1>9. R \in Seq(D) /\ IsInjective(R) /\ Gathered(R, runtime, n)
    BY <1>2, <1>8, RuntimeDepsSpec
  <1>3. /\ R \in Seq(Declared) /\ IsInjective(R)
        /\ \A i \in 1 .. n : \A j \in 1 .. Len(With(runtime[i])) :
             \E x \in 1 .. Len(R) : R[x] = With(runtime[i])[j]
        /\ \A x \in 1 .. Len(R) : \E i \in 1 .. n : \E j \in 1 .. Len(With(runtime[i])) :
             /\ R[x] = With(runtime[i])[j]
             /\ \A m \in 1 .. j - 1 : \E y \in 1 .. x - 1 : R[y] = With(runtime[i])[m]
    BY <1>9 DEF D, Gathered
  <1>4. DOMAIN R = 1 .. Len(R)
    BY <1>3
  <1>5. ASSUME NEW r \in Declared
        PROVE  /\ Len(With(r)) = Len(sub[r].runtime) + 1 /\ Len(sub[r].runtime) \in Nat
               /\ With(r)[Len(sub[r].runtime) + 1] = r
               /\ \A m \in 1 .. Len(sub[r].runtime) : With(r)[m] = sub[r].runtime[m]
               /\ ToSet(sub[r].runtime) = {sub[r].runtime[m] : m \in 1 .. Len(sub[r].runtime)}
    <2> DEFINE s == sub[r].runtime
    <2>1. s \in Seq(Declared)
      BY <1>2 DEF D
    <2> HIDE DEF s
    <2>2. /\ Len(Append(s, r)) = Len(s) + 1 /\ Len(s) \in Nat /\ Append(s, r)[Len(s) + 1] = r
          /\ \A m \in 1 .. Len(s) : Append(s, r)[m] = s[m]
          /\ DOMAIN s = 1 .. Len(s)
      BY <2>1
    <2> QED  BY <2>2 DEF With, s, ToSet
  <1>6. ASSUME NEW i \in 1 .. Len(R), NEW q \in ToSet(sub[R[i]].runtime)
        PROVE  \E j \in 1 .. i - 1 : R[j] = q
    <2>1. PICK a \in 1 .. n : \E j \in 1 .. Len(With(runtime[a])) :
            /\ R[i] = With(runtime[a])[j]
            /\ \A m \in 1 .. j - 1 : \E y \in 1 .. i - 1 : R[y] = With(runtime[a])[m]
      BY <1>3
    <2> DEFINE r == runtime[a]
               s == sub[r].runtime
    <2>2. r \in Declared
      BY <1>1
    <2>3. PICK j \in 1 .. Len(With(r)) :
            /\ R[i] = With(r)[j]
            /\ \A m \in 1 .. j - 1 : \E y \in 1 .. i - 1 : R[y] = With(r)[m]
      BY <2>1
    <2> HIDE DEF r
    <2>4. /\ j \in 1 .. Len(s) + 1 /\ Len(s) \in Nat
          /\ \A m \in 1 .. Len(s) : With(r)[m] = s[m]
      BY <1>5, <2>2, <2>3
    <2>5. \E m \in 1 .. j - 1 : m \in 1 .. Len(s) /\ s[m] = q
      <3>1. CASE j = Len(s) + 1
        <4>1. R[i] = r
          BY <1>5, <2>2, <2>3, <3>1
        <4>2. PICK m \in 1 .. Len(s) : s[m] = q
          <5>1. q \in ToSet(s) /\ ToSet(s) = {s[m] : m \in 1 .. Len(s)}
            BY <1>5, <2>2, <4>1
          <5> QED  BY <5>1
        <4>3. m \in 1 .. j - 1
          BY <2>4, <3>1
        <4> QED  BY <4>2, <4>3
      <3>2. CASE j # Len(s) + 1
        <4>1. j \in 1 .. Len(s) /\ R[i] = s[j]
          BY <2>3, <2>4, <3>2
        <4>2. PICK m \in 1 .. j - 1 : s[m] = q
          BY <2>2, <4>1 DEF RuntimeOrdered, InOrder
        <4>3. m \in 1 .. Len(s)
          BY <4>1, <2>4
        <4> QED  BY <4>2, <4>3
      <3> QED  BY <3>1, <3>2
    <2> QED  BY <2>3, <2>4, <2>5
  <1>7. ASSUME NEW x \in PrivateDirs(runtime) PROVE x \in ToSet(R)
    <2>1. PICK d \in ToSet(runtime) : x \in sub[d].interface
      BY DEF PrivateDirs
    <2>2. PICK a \in 1 .. n : d = runtime[a]
      BY <1>1 DEF ToSet
    <2>3. d \in Declared /\ x \in ToSet(sub[d].runtime) \union {d}
      BY <2>1 DEF DirsCovered
    <2>4. \E m \in 1 .. Len(With(d)) : x = With(d)[m]
      <3>1. CASE x = d
        <4>1. Len(sub[d].runtime) + 1 \in 1 .. Len(With(d))
          BY <1>5, <2>3
        <4> QED  BY <1>5, <2>3, <3>1, <4>1
      <3>2. CASE x # d
        <4>1. PICK m \in 1 .. Len(sub[d].runtime) : x = sub[d].runtime[m]
          BY <1>5, <2>3, <3>2
        <4>2. m \in 1 .. Len(With(d)) /\ x = With(d)[m]
          BY <1>5, <2>3, <4>1
        <4> QED  BY <4>2
      <3> QED  BY <3>1, <3>2
    <2>5. \E y \in 1 .. Len(R) : R[y] = x
      BY <1>3, <2>2, <2>4
    <2> QED  BY <1>4, <2>5 DEF ToSet
  <1> QED  BY <1>3, <1>6, <1>7 DEF InOrder

(* A declaration comes when all before it are activated.                    *)
LEMMA DeclareStep ==
  ASSUME IndInv, NEW p \in Proj, NEW build \in Lists(MaxBuild), NEW runtime \in Lists(MaxRuntime),
         NEW tool, NEW parent, NEW prefix, Declare(p, build, runtime, tool, parent, prefix)
  PROVE  IndInv'
  <1>1. /\ sub' \in [Proj -> {sub'[q] : q \in Proj}] /\ rule' = rule /\ scripted' = scripted
        /\ provides' = provides /\ p \notin Declared /\ ToSet(runtime) \subseteq Declared
    BY DEF Declare, IndInv, ActiveDeclared
  <1>2. /\ sub'[p].declared /\ \A q \in Proj \ {p} : sub'[q] = sub[q]
        /\ sub'[p].build = build /\ sub'[p].runtime = RuntimeDeps(runtime)
        /\ sub'[p].private = PrivateDirs(runtime)
        /\ sub'[p].interface = PrivateDirs(runtime) \union {p}
    BY DEF Declare, IndInv, ActiveDeclared
  <1>3. Active' = Active /\ Declared' = Declared \union {p} /\ Declared \subseteq Proj
    BY <1>1, <1>2 DEF Active, Declared
  <1>4. scripted => Declared = Active
    BY DEF Declare
  <1>5. ActiveDeclared' /\ OneByOne' /\ Acyclic' /\ NoEscape'
    BY <1>1, <1>3, <1>4 DEF IndInv, ActiveDeclared, OneByOne, Acyclic, NoEscape
  <1>6. \A q \in Declared : sub'[q] = sub[q] /\ q # p
    BY <1>1, <1>2, <1>3
  <1> DEFINE R == RuntimeDeps(runtime)
  <1>7. /\ R \in Seq(Declared) /\ IsInjective(R)
        /\ InOrder(R, sub)
        /\ PrivateDirs(runtime) \subseteq ToSet(R)
    BY <1>1, DeclareRuntime DEF IndInv
  <1> HIDE DEF R
  <1>8. ASSUME NEW q \in Declared'
        PROVE  /\ sub'[q].build \in Seq(Proj) /\ sub'[q].runtime \in Seq(Declared' \ {q})
               /\ IsInjective(sub'[q].runtime) /\ InOrder(sub'[q].runtime, sub')
    <2> DEFINE s == sub'[q].runtime
    <2>1. /\ s \in Seq(Declared) /\ s \in Seq(Declared' \ {q}) /\ sub'[q].build \in Seq(Proj)
          /\ IsInjective(s) /\ InOrder(s, sub)
      <3>1. CASE q = p
        <4>1. s = R /\ sub'[q].build \in Seq(Proj)
          BY <1>2, <3>1, ListsAre, BoundAssumption DEF R
        <4>2. Declared \subseteq Declared' \ {q}
          BY <1>3, <1>6, <3>1
        <4> HIDE DEF s
        <4>3. s \in Seq(Declared' \ {q})
          BY <1>7, <4>1, <4>2, SeqMono
        <4> QED  BY <1>7, <4>1, <4>3
      <3>2. CASE q # p
        <4>1. q \in Declared /\ sub'[q] = sub[q]
          BY <1>3, <1>6, <3>2
        <4>2. sub[q].runtime \in Seq(Declared \ {q}) /\ sub[q].build \in Seq(Proj)
          BY <4>1 DEF IndInv, RuntimeOrdered
        <4>3. sub[q].runtime \in Seq(Declared) /\ sub[q].runtime \in Seq(Declared' \ {q})
          BY <1>3, <4>2, SeqMono
        <4>4. IsInjective(sub[q].runtime) /\ InOrder(sub[q].runtime, sub)
          BY <4>1 DEF IndInv, RuntimeOrdered
        <4> QED  BY <4>1, <4>2, <4>3, <4>4
      <3> QED  BY <3>1, <3>2
    <2>2. \A i \in 1 .. Len(s) : s[i] \in Declared
      BY <2>1
    <2>3. \A i \in 1 .. Len(s) : sub'[s[i]] = sub[s[i]]
      BY <1>6, <2>2
    <2>4. InOrder(s, sub')
      BY <2>1, <2>3 DEF InOrder
    <2> QED  BY <2>1, <2>4
  <1>9. RuntimeOrdered'
    BY <1>8 DEF RuntimeOrdered
  <1>10. DirsCovered'
    <2> SUFFICES ASSUME NEW q \in Declared'
                 PROVE  /\ sub'[q].private \subseteq ToSet(sub'[q].runtime)
                        /\ sub'[q].interface \subseteq ToSet(sub'[q].runtime) \union {q}
      BY DEF DirsCovered
    <2>1. CASE q = p
      BY <1>2, <1>7, <2>1 DEF R
    <2>2. CASE q # p
      BY <1>3, <1>6, <2>2 DEF IndInv, DirsCovered
    <2> QED  BY <2>1, <2>2
  <1>11. RulesKept'
    <2>1. \A q \in Active : q \in Declared /\ sub'[q] = sub[q]
      BY <1>6 DEF IndInv, ActiveDeclared
    <2>2. \A q \in Active : Needs(q)' = Needs(q)
      BY <2>1 DEF Needs, ToolchainDepends
    <2> QED  BY <1>1, <1>3, <2>1, <2>2 DEF IndInv, RulesKept
  <1> QED  BY <1>5, <1>9, <1>10, <1>11 DEF IndInv

(* What an activation waits for is activated, but for itself; nobody waits  *)
(* for it yet, and its runtime deps found their packages before.            *)
LEMMA ActivateStep ==
  ASSUME IndInv, NEW p \in Proj, NEW ignore, Activate(p, ignore)
  PROVE  IndInv'
  <1>1. /\ rule' \in [Proj -> {rule'[q] : q \in Proj}] /\ sub' = sub /\ scripted' = scripted
        /\ provides' = provides /\ p \in Declared \ Active /\ Needs(p) \subseteq Declared
    BY DEF Activate, IndInv, ActiveDeclared
  <1>2. /\ rule'[p].active /\ rule'[p].needs = Needs(p) /\ \A q \in Proj \ {p} : rule'[q] = rule[q]
        /\ rule'[p].merged = ToSet(sub[p].runtime) /\ rule'[p].ignore = ignore
        /\ \A k \in Package : rule'[p].package[k] = IF k \in ignore THEN None ELSE Provider(p, k)
    BY DEF Activate, IndInv, ActiveDeclared
  <1>3. Active' = Active \union {p} /\ Declared' = Declared
    BY <1>1, <1>2 DEF Active, Declared
  <1>4. ActiveDeclared'
    BY <1>1, <1>3 DEF IndInv, ActiveDeclared
  <1>5. ASSUME scripted PROVE Needs(p) \subseteq Active \union {p}
    BY <1>1, <1>5 DEF IndInv, OneByOne
  <1>6. \A q \in Active : rule'[q] = rule[q] /\ q \in Proj
    BY <1>1, <1>2 DEF Active
  <1>7. OneByOne'
    BY <1>1, <1>2, <1>3, <1>5, <1>6 DEF IndInv, OneByOne
  <1>8. Acyclic'
    <2> SUFFICES ASSUME scripted, NEW S \in SUBSET Active', S # {}
                 PROVE  \E q \in S : rule'[q].needs \intersect S \subseteq {q}
      BY <1>1 DEF Acyclic
    <2>1. CASE S \subseteq {p}
      BY <2>1
    <2>2. CASE ~ (S \subseteq {p})
      <3>1. S \ {p} \in SUBSET Active /\ S \ {p} # {}
        BY <1>3, <2>2
      <3>2. PICK q \in S \ {p} : rule[q].needs \intersect (S \ {p}) \subseteq {q}
        BY <3>1 DEF IndInv, Acyclic
      <3>3. q \in Active /\ p \notin rule[q].needs
        BY <1>1, <3>1, <3>2 DEF IndInv, OneByOne
      <3> QED  BY <1>6, <3>2, <3>3
    <2> QED  BY <2>1, <2>2
  <1>9. RuntimeOrdered' /\ DirsCovered'
    BY <1>1, SubSame DEF IndInv
  <1>10. /\ sub[p].build \in Seq(Proj) /\ sub[p].runtime \in Seq(Declared \ {p})
         /\ sub[p].runtime \in Seq(Proj) /\ ToSet(sub[p].runtime) \subseteq Declared \ {p}
    <2>1. /\ sub[p].build \in Seq(Proj) /\ sub[p].runtime \in Seq(Declared \ {p})
          /\ Declared \ {p} \subseteq Proj
      BY <1>1 DEF IndInv, RuntimeOrdered, Declared
    <2>2. \A i \in DOMAIN sub[p].runtime : sub[p].runtime[i] \in Declared \ {p}
      BY <2>1
    <2> QED  BY <2>1, <2>2, SeqMono DEF ToSet
  <1>11. \A k \in Package :
           /\ Provider(p, k) \in ToSet(sub[p].runtime) \union ToSet(sub[p].build) \union {None}
           /\ Provider(p, k) # None => k \in provides[Provider(p, k)]
           /\ \A r \in ToSet(sub[p].runtime) :
                k \in provides[r] => Provider(p, k) \in ToSet(sub[p].runtime)
    BY <1>10, ProviderSpec
  <1>12. RulesKept'
    <2>1. \A q \in Proj : Needs(q)' = Needs(q)
      BY <1>1 DEF Needs, ToolchainDepends
    <2>2. ASSUME NEW q \in Active'
          PROVE  /\ rule'[q].needs = Needs(q) /\ rule'[q].merged = ToSet(sub[q].runtime)
                 /\ \A k \in Package :
                      /\ rule'[q].package[k]
                           \in ToSet(sub[q].runtime) \union ToSet(sub[q].build) \union {None}
                      /\ rule'[q].package[k] # None => k \in provides[rule'[q].package[k]]
      <3>1. CASE q = p
        BY <1>2, <1>11, <3>1
      <3>2. CASE q # p
        BY <1>3, <1>6, <3>2 DEF IndInv, RulesKept
      <3> QED  BY <3>1, <3>2
    <2>3. Active' \subseteq Proj
      BY <1>3, <1>6
    <2> QED  BY <1>1, <2>1, <2>2, <2>3 DEF IndInv, RulesKept
  <1>13. NoEscape'
    <2> SUFFICES ASSUME scripted, NEW x \in Active', NEW q \in rule'[x].merged \intersect Active',
                        NEW k \in Package, rule'[q].package[k] \in rule'[q].merged,
                        k \notin rule'[x].ignore
                 PROVE  rule'[x].package[k] \in rule'[x].merged
      BY <1>1 DEF NoEscape
    <2>1. CASE x = p
      <3>1. q \in ToSet(sub[p].runtime) /\ q # p
        BY <1>2, <1>10, <2>1
      <3>2. q \in Active /\ rule'[q] = rule[q]
        BY <1>3, <1>6, <3>1
      <3> DEFINE r == rule[q].package[k]
      <3>3. r \in ToSet(sub[q].runtime)
        BY <3>2 DEF IndInv, RulesKept
      <3>4. PICK i \in DOMAIN sub[p].runtime : sub[p].runtime[i] = q
        BY <3>1 DEF ToSet
      <3>5. DOMAIN sub[p].runtime = 1 .. Len(sub[p].runtime)
        BY <1>10
      <3> HIDE DEF r
      <3>6. \E j \in 1 .. i - 1 : sub[p].runtime[j] = r
        <4>1. p \in Declared /\ i \in 1 .. Len(sub[p].runtime)
          BY <1>1, <3>4, <3>5
        <4>2. \A y \in ToSet(sub[q].runtime) : \E j \in 1 .. i - 1 : sub[p].runtime[j] = y
          BY <3>4, <4>1 DEF IndInv, RuntimeOrdered, InOrder
        <4> QED  BY <3>3, <4>2
      <3>7. r \in ToSet(sub[p].runtime)
        BY <3>4, <3>5, <3>6 DEF ToSet
      <3>8. r # None
        BY <1>10, <3>7, BoundAssumption DEF Declared
      <3>9. k \in provides[r]
        <4>1. \A y \in Package : rule[q].package[y] # None => y \in provides[rule[q].package[y]]
          BY <3>2 DEF IndInv, RulesKept
        <4> QED  BY <3>8, <4>1 DEF r
      <3> QED  BY <1>2, <1>11, <2>1, <3>7, <3>9
    <2>2. CASE x # p
      <3>1. x \in Active /\ rule'[x] = rule[x]
        BY <1>3, <1>6, <2>2
      <3>2. q \in Active
        <4>1. rule[x].merged \subseteq rule[x].needs
          BY <3>1 DEF IndInv, RulesKept, Needs
        <4> QED  BY <3>1, <4>1 DEF IndInv, OneByOne
      <3> QED  BY <1>6, <3>1, <3>2 DEF IndInv, NoEscape
    <2> QED  BY <2>1, <2>2
  <1> QED  BY <1>4, <1>7, <1>8, <1>9, <1>12, <1>13 DEF IndInv

(* What is provided stays provided.                                         *)
LEMMA ProvideStep ==
  ASSUME IndInv, NEW p \in Proj, NEW k \in Package, ProvidePackage(p, k)
  PROVE  IndInv'
  <1>1. /\ sub' = sub /\ rule' = rule /\ scripted' = scripted
        /\ provides' \in [Proj -> SUBSET Package]
        /\ \A q \in Proj : provides[q] \subseteq provides'[q]
    BY DEF ProvidePackage, IndInv, RulesKept
  <1>2. Active' = Active /\ Declared' = Declared /\ Active \subseteq Proj
    BY <1>1 DEF Active, Declared
  <1>3. ActiveDeclared' /\ OneByOne' /\ Acyclic' /\ NoEscape' /\ RuntimeOrdered' /\ DirsCovered'
    <2>1. ActiveDeclared' /\ OneByOne' /\ Acyclic' /\ NoEscape'
      BY <1>1, <1>2 DEF IndInv, ActiveDeclared, OneByOne, Acyclic, NoEscape
    <2>2. RuntimeOrdered' /\ DirsCovered'
      BY <1>1, SubSame DEF IndInv
    <2> QED  BY <2>1, <2>2
  <1>4. RulesKept'
    <2>1. \A q \in Proj : Needs(q)' = Needs(q)
      BY <1>1 DEF Needs, ToolchainDepends
    <2>2. ASSUME NEW q \in Active, NEW x \in Package, rule[q].package[x] # None
          PROVE  x \in provides'[rule[q].package[x]]
      <3>1. /\ x \in provides[rule[q].package[x]]
            /\ rule[q].package[x] \in ToSet(sub[q].runtime) \union ToSet(sub[q].build)
        BY <2>2 DEF IndInv, RulesKept
      <3>2. /\ q \in Declared
            /\ sub[q].runtime \in Seq(Declared \ {q}) /\ sub[q].build \in Seq(Proj)
        BY DEF IndInv, ActiveDeclared, RuntimeOrdered
      <3>3. ToSet(sub[q].runtime) \subseteq Proj /\ ToSet(sub[q].build) \subseteq Proj
        <4>1. \A i \in DOMAIN sub[q].runtime : sub[q].runtime[i] \in Declared
          BY <3>2
        <4>2. \A i \in DOMAIN sub[q].build : sub[q].build[i] \in Proj
          BY <3>2
        <4> QED  BY <4>1, <4>2 DEF ToSet, Declared
      <3> QED  BY <1>1, <3>1, <3>3
    <2> QED  BY <1>1, <1>2, <2>1, <2>2 DEF IndInv, RulesKept
  <1> QED  BY <1>3, <1>4 DEF IndInv

LEMMA IndStep == IndInv /\ [Next]_vars => IndInv'
  <1> SUFFICES ASSUME IndInv, [Next]_vars PROVE IndInv'
    OBVIOUS
  <1>1. ASSUME UNCHANGED <<scripted, sub, provides, rule>> PROVE IndInv'
    <2>1. Active' = Active /\ Declared' = Declared /\ \A q : Needs(q)' = Needs(q)
      BY <1>1 DEF Active, Declared, Needs, ToolchainDepends
    <2>2. ActiveDeclared' /\ OneByOne' /\ Acyclic' /\ NoEscape'
      BY <1>1, <2>1 DEF IndInv, ActiveDeclared, OneByOne, Acyclic, NoEscape
    <2>3. RuntimeOrdered' /\ DirsCovered'
      BY <1>1, SubSame DEF IndInv
    <2>4. RulesKept'
      BY <1>1, <2>1 DEF IndInv, RulesKept
    <2> QED  BY <2>2, <2>3, <2>4 DEF IndInv
  <1>2. ASSUME NEW p \in Proj,
               (\E runtime \in Lists(MaxRuntime) : DeclareTooEarly(p, runtime)) \/ ActivateTooEarly(p)
               \/ ActivateUnsupported(p)
        PROVE  IndInv'
    BY <1>1, <1>2 DEF DeclareTooEarly, ActivateTooEarly, ActivateUnsupported
  <1>3. CASE UNCHANGED vars
    BY <1>1, <1>3 DEF vars
  <1> QED  BY <1>2, <1>3, DeclareStep, ProvideStep, ActivateStep DEF Next

-----------------------------------------------------------------------------
(* The theorems.                                                            *)

(* The inductive invariant holds in every reachable state.                  *)
THEOREM Inductive == Spec => []IndInv
  BY IndInit, IndStep, PTL DEF Spec

(* However many sub-projects are declared, completed and activated one      *)
(* after the other, whatever they name as dep and toolchain: ninja finds no *)
(* cycle between two of them.                                               *)
THEOREM NoCycles == Spec => []Acyclic
  <1>1. IndInv => Acyclic
    BY DEF IndInv
  <1> QED  BY <1>1, Inductive, PTL

(* However long the chains of runtime deps are, and in whichever order the  *)
(* calls come: a dist tree is merged from all of them, deepest first.       *)
THEOREM DistTreeClosed == Spec => []RuntimeClosed
  <1>1. IndInv => RuntimeClosed
    <2> SUFFICES ASSUME IndInv, NEW p \in Declared, NEW i \in DOMAIN sub[p].runtime
                 PROVE  LET q == sub[p].runtime[i] IN
                        /\ q # p
                        /\ ToSet(sub[q].runtime) \subseteq ToSet(SubSeq(sub[p].runtime, 1, i - 1))
                        /\ \A j \in 1 .. i - 1 : sub[p].runtime[j] # q
      BY DEF RuntimeClosed
    <2> DEFINE s == sub[p].runtime
    <2>1. /\ s \in Seq(Declared \ {p}) /\ IsInjective(s)
          /\ \A a \in 1 .. Len(s) : \A q \in ToSet(sub[s[a]].runtime) : \E j \in 1 .. a - 1 : s[j] = q
      BY DEF IndInv, RuntimeOrdered, InOrder
    <2> HIDE DEF s
    <2>2. i \in 1 .. Len(s) /\ Len(s) \in Nat /\ DOMAIN s = 1 .. Len(s) /\ s[i] # p
      BY <2>1 DEF s
    <2>3. /\ DOMAIN SubSeq(s, 1, i - 1) = 1 .. i - 1
          /\ \A j \in 1 .. i - 1 : SubSeq(s, 1, i - 1)[j] = s[j]
      BY <2>1, <2>2
    <2>4. \A j \in 1 .. i - 1 : s[j] # s[i]
      BY <2>1, <2>2 DEF IsInjective
    <2>5. ASSUME NEW q \in ToSet(sub[s[i]].runtime) PROVE q \in ToSet(SubSeq(s, 1, i - 1))
      <3>1. PICK j \in 1 .. i - 1 : s[j] = q
        BY <2>1, <2>2
      <3> QED  BY <2>3, <3>1 DEF ToSet
    <2> QED  BY <2>2, <2>4, <2>5 DEF s
  <1> QED  BY <1>1, Inductive, PTL

(* Whichever calls come in whichever order: a sub-project is configured     *)
(* after the dist.stamps of all that its commands read the directories of.  *)
THEOREM ReadsAreWaitedFor == Spec => []DependsCoverReads
  <1>1. IndInv => DependsCoverReads
    BY DEF IndInv, DependsCoverReads, ActiveDeclared, DirsCovered, RulesKept, Needs
  <1> QED  BY <1>1, Inductive, PTL

(* Set up one after the other: a package that a runtime dep found in the    *)
(* super-project is found there by all above it.                            *)
THEOREM PackagesStay == Spec => []NoEscape
  <1>1. IndInv => NoEscape
    BY DEF IndInv
  <1> QED  BY <1>1, Inductive, PTL

-----------------------------------------------------------------------------
(* Feature selection.  The invariant follows the two loops: what the prefix *)
(* of the table that was added has left in the cache and in scope, and what *)
(* the suffix that was finalized has enabled.                               *)

FirstRows(n) == {table[j] : j \in 1 .. n}
Distinct(n) == \A i, j \in 1 .. n : table[i] = table[j] => i = j

Adding ==
  pc = "adding" =>
    /\ added = FirstRows(pos - 1) /\ Distinct(pos - 1)
    /\ enabled = added \intersect On(cache)

Final == pc \in {"finalizing", "done"}

(* Everything in the table is added, and nothing that is on is lost.        *)
Finalizing ==
  Final => /\ pos \in 0 .. N /\ (pc = "done" => pos = 0)
           /\ added = FirstRows(N) /\ Distinct(N)
           /\ added \intersect On(cache) \subseteq enabled

(* The features finalized so far have what they require.  What a step turns *)
(* on comes earlier in an ordered table, and is finalized later.            *)
SuffixClosed ==
  Final /\ Ordered =>
    /\ enabled \subseteq added
    /\ \A i \in pos + 1 .. N : table[i] \in enabled => Requires[table[i]] \subseteq enabled

ClosedSet(S) == \A f \in S : Requires[f] \subseteq S

LeastEnabled ==
  Final => \A S \in SUBSET Feature : On(cache) \subseteq S /\ ClosedSet(S) => enabled \subseteq S

(* What is on is on in the cache or required by something that is on.       *)
Caused ==
  Final => \A f \in enabled : f \in On(cache) \/ \E g \in enabled : f \in Requires[g]

(* -D flags are in the cache until a reset overrides them.                  *)
FlagsKept ==
  /\ reset => forced /\ pc \notin {"idle", "done"}
  /\ ~ forced => \A f \in Feature : asked[f] # "unset" => cache[f] = asked[f]

FeaturesInv == TypeOK /\ Adding /\ Finalizing /\ SuffixClosed /\ LeastEnabled /\ Caused /\ FlagsKept

-----------------------------------------------------------------------------
(* The initial states satisfy the invariant.                                *)
LEMMA FeaturesStart == FeaturesInit => FeaturesInv
<1> SUFFICES ASSUME FeaturesInit PROVE FeaturesInv
  OBVIOUS
<1>1. Len(table) \in Nat
  BY TableAssumption DEF FeaturesInit
<1>2. TypeOK
  <2>1. cache \in [Feature -> Entry] /\ asked \in [Feature -> Entry]
    BY DEF FeaturesInit, Entry
  <2>2. pos \in 0 .. N + 1
    BY <1>1 DEF FeaturesInit, N
  <2>3. added \subseteq {f \in Feature : IsDefined(f)} /\ enabled \subseteq Feature
    BY DEF FeaturesInit
  <2> QED BY <2>1, <2>2, <2>3 DEF FeaturesInit, TypeOK
<1> QED
  BY <1>2 DEF FeaturesInit, FeaturesInv, Adding, Finalizing, Final, SuffixClosed, LeastEnabled, Caused,
              FlagsKept

(* A step keeps the types.                                                  *)
LEMMA FeaturesTypes == TypeOK /\ [FeaturesNext]_featuresVars => TypeOK'
<1> SUFFICES ASSUME TypeOK, [FeaturesNext]_featuresVars PROVE TypeOK'
  OBVIOUS
<1> USE TableAssumption DEF TypeOK, N, Entry, IsDefined
<1>1. ASSUME NEW t \in Tables, NEW flags \in Flags, NEW g \in [Group -> BOOLEAN],
             NEW r \in BOOLEAN, Configure(t, flags, g, r)
      PROVE  TypeOK'
  BY <1>1 DEF Configure, Merge, Flags
<1>2. CASE AddFeature
  <2>1. table[pos] \in Feature
    BY <1>2 DEF AddFeature
  <2>2. Flag(Default(table[pos])) \in {"ON", "OFF"}
    BY DEF Flag
  <2> QED BY <1>2, <2>1, <2>2 DEF AddFeature
<1>3. CASE AddRefused
  BY <1>3 DEF AddRefused
<1>4. CASE StartFinalize
  BY <1>4 DEF StartFinalize
<1>5. CASE Finalize
  <2>1. table[pos] \in Feature
    BY <1>5 DEF Finalize
  <2> QED BY <1>5, <2>1 DEF Finalize
<1>6. CASE Report
  BY <1>6 DEF Report
<1>7. CASE UNCHANGED featuresVars
  BY <1>7 DEF featuresVars
<1> QED BY <1>1, <1>2, <1>3, <1>4, <1>5, <1>6, <1>7 DEF FeaturesNext

(* Adding a feature.                                                        *)
LEMMA AddFeatureStep == FeaturesInv /\ AddFeature => (Adding /\ FlagsKept)'
<1> SUFFICES ASSUME FeaturesInv, AddFeature PROVE (Adding /\ FlagsKept)'
  OBVIOUS
<1> USE TableAssumption DEF FeaturesInv, TypeOK, N, Entry
<1> DEFINE f == table[pos]
<1>1. /\ pos \in 1 .. Len(table) /\ f \in Feature /\ f \notin added
      /\ table' = table /\ pos' = pos + 1 /\ pc' = "adding" /\ added' = added \union {f}
      /\ table \in Seq(Feature)
  BY DEF AddFeature, Addable
<1>3. (added = FirstRows(pos - 1))'
  <2>1. added = {table[j] : j \in 1 .. pos - 1}
    BY <1>1 DEF Adding, AddFeature, FirstRows
  <2>2. 1 .. pos = (1 .. pos - 1) \union {pos} /\ pos' - 1 = pos
    BY <1>1
  <2> QED BY <1>1, <2>1, <2>2 DEF FirstRows
<1>4. Distinct(pos - 1)'
  <2>1. \A j \in 1 .. pos - 1 : table[j] # f
    BY <1>1 DEF Adding, AddFeature, FirstRows
  <2>2. Distinct(pos - 1)
    BY DEF Adding, AddFeature
  <2>3. \A j \in 1 .. pos : j = pos \/ j \in 1 .. pos - 1
    BY <1>1
  <2> QED BY <1>1, <2>1, <2>2, <2>3 DEF Distinct
<1>5. (enabled = added \intersect On(cache))'
  <2>1. \A h \in Feature : h # f => cache'[h] = cache[h]
    BY <1>1 DEF AddFeature
  <2>2. enabled = added \intersect On(cache)
    BY DEF Adding, AddFeature
  <2> QED BY <1>1, <2>1, <2>2 DEF AddFeature, On
<1>6. FlagsKept'
  BY <1>1 DEF FlagsKept, AddFeature
<1> QED BY <1>1, <1>3, <1>4, <1>5, <1>6 DEF Adding

(* A CMake run starts with nothing added.                                   *)
LEMMA ConfigureStep ==
  ASSUME FeaturesInv, NEW t \in Tables, NEW flags \in Flags, NEW g \in [Group -> BOOLEAN],
         NEW r \in BOOLEAN, Configure(t, flags, g, r)
  PROVE  (Adding /\ FlagsKept /\ ~ Final)'
<1>1. pc' = "adding" /\ pos' = 1 /\ added' = {} /\ enabled' = {}
  BY DEF Configure
<1>2. Adding'
  BY <1>1 DEF Adding, FirstRows, Distinct
<1>3. reset' => forced'
  BY DEF Configure, FeaturesInv, FlagsKept
<1>4. \A f \in Feature : asked'[f] # "unset" => cache'[f] = asked'[f]
  BY DEF Configure, Merge
<1> QED BY <1>1, <1>2, <1>3, <1>4 DEF FlagsKept, Final

(* When the last feature is added, no suffix is finalized yet.              *)
LEMMA StartFinalizeStep ==
  FeaturesInv /\ StartFinalize => (Finalizing /\ SuffixClosed /\ LeastEnabled /\ Caused)'
<1> SUFFICES ASSUME FeaturesInv, StartFinalize
             PROVE  (Finalizing /\ SuffixClosed /\ LeastEnabled /\ Caused)'
  OBVIOUS
<1> USE DEF N
<1>1. /\ N \in Nat /\ pos = N + 1 /\ pos' = N /\ pc = "adding" /\ pc' = "finalizing"
      /\ UNCHANGED <<table, cache, added, enabled>>
  BY TableAssumption DEF StartFinalize, FeaturesInv, TypeOK
<1>2. added = FirstRows(N) /\ Distinct(N) /\ enabled = added \intersect On(cache)
  <2>1. pos - 1 = N
    BY <1>1
  <2> QED BY <1>1, <2>1 DEF FeaturesInv, Adding
<1>3. Finalizing'
  BY <1>1, <1>2 DEF Finalizing, FirstRows, Distinct, On
<1>4. SuffixClosed'
  BY <1>1, <1>2 DEF SuffixClosed
<1>5. LeastEnabled' /\ Caused'
  BY <1>1, <1>2 DEF LeastEnabled, Caused, On, ClosedSet
<1> QED BY <1>3, <1>4, <1>5

(* One more feature is finalized.                                           *)
LEMMA FinalizeStep ==
  FeaturesInv /\ Finalize => (Finalizing /\ SuffixClosed /\ LeastEnabled /\ Caused)'
<1> SUFFICES ASSUME FeaturesInv, Finalize
             PROVE  (Finalizing /\ SuffixClosed /\ LeastEnabled /\ Caused)'
  OBVIOUS
<1> DEFINE f == table[pos]
<1> USE DEF N
<1>1. /\ N \in Nat /\ pos \in 1 .. N /\ pos' = pos - 1 /\ Final /\ pc' = "finalizing"
      /\ f \in Feature /\ Requires[f] \subseteq Feature
      /\ UNCHANGED <<table, cache, added>>
  BY TableAssumption DEF Finalize, FeaturesInv, TypeOK, Final
<1>2. enabled' = IF f \in enabled THEN enabled \union Requires[f] ELSE enabled
  BY DEF Finalize
<1>3. Finalizing'
  <2>1. added = FirstRows(N) /\ Distinct(N) /\ added \intersect On(cache) \subseteq enabled
    BY <1>1 DEF FeaturesInv, Finalizing
  <2> QED BY <1>1, <1>2, <2>1 DEF Finalizing, FirstRows, Distinct, On
<1>4. SuffixClosed'
  <2> SUFFICES ASSUME Ordered
               PROVE  /\ enabled' \subseteq added
                      /\ \A i \in pos .. N : table[i] \in enabled'
                                            => Requires[table[i]] \subseteq enabled'
    <3>1. pos' + 1 = pos /\ Len(table)' = Len(table)
      BY <1>1
    <3>2. Ordered' => Ordered
      BY <1>1, <3>1 DEF Ordered
    <3>3. (\A i \in pos .. N : table[i] \in enabled' => Requires[table[i]] \subseteq enabled')
            => (\A i \in pos + 1 .. N : table[i] \in enabled => Requires[table[i]] \subseteq enabled)'
      BY <1>1, <3>1
    <3> QED BY <1>1, <3>2, <3>3 DEF SuffixClosed
  <2>1. Requires[f] \subseteq {table[j] : j \in 1 .. pos - 1}
    BY <1>1 DEF Ordered
  <2>2. added = FirstRows(N) /\ Distinct(N)
    BY <1>1 DEF FeaturesInv, Finalizing
  <2>3. enabled \subseteq added
    BY <1>1 DEF FeaturesInv, SuffixClosed
  <2>4. enabled' \subseteq added
    BY <1>1, <1>2, <2>1, <2>2, <2>3 DEF FirstRows
  <2>5. ASSUME NEW i \in pos .. N, table[i] \in enabled'
        PROVE  Requires[table[i]] \subseteq enabled'
    <3>1. CASE i = pos
      <4>1. f \notin Requires[f]
        BY <1>1, <2>1, <2>2 DEF Distinct
      <4> QED BY <1>2, <2>5, <3>1, <4>1
    <3>2. CASE i \in pos + 1 .. N
      <4>1. table[i] \notin Requires[f]
        BY <1>1, <2>1, <2>2, <3>2 DEF Distinct
      <4>2. table[i] \in enabled
        BY <1>2, <2>5, <4>1
      <4> QED BY <1>1, <1>2, <3>2, <4>2 DEF FeaturesInv, SuffixClosed
    <3> QED BY <1>1, <2>5, <3>1, <3>2
  <2> QED BY <2>4, <2>5
<1>5. LeastEnabled'
  BY <1>1, <1>2 DEF FeaturesInv, LeastEnabled, ClosedSet, On
<1>6. Caused'
  BY <1>1, <1>2 DEF FeaturesInv, Caused, On
<1> QED BY <1>3, <1>4, <1>5, <1>6

(* Every step keeps the invariant.                                          *)
LEMMA FeaturesStep == FeaturesInv /\ [FeaturesNext]_featuresVars => FeaturesInv'
<1> SUFFICES ASSUME FeaturesInv, [FeaturesNext]_featuresVars PROVE FeaturesInv'
  OBVIOUS
<1>1. TypeOK'
  BY FeaturesTypes DEF FeaturesInv
<1>2. ASSUME NEW t \in Tables, NEW flags \in Flags, NEW g \in [Group -> BOOLEAN],
             NEW r \in BOOLEAN, Configure(t, flags, g, r)
      PROVE  FeaturesInv'
  <2>1. (Adding /\ FlagsKept /\ ~ Final)'
    BY <1>2, ConfigureStep
  <2> QED BY <1>1, <2>1 DEF FeaturesInv, Finalizing, SuffixClosed, LeastEnabled, Caused
<1>3. CASE AddFeature
  <2>1. (Adding /\ FlagsKept)' /\ pc' = "adding"
    BY <1>3, AddFeatureStep DEF AddFeature
  <2> QED BY <1>1, <2>1 DEF FeaturesInv, Final, Finalizing, SuffixClosed, LeastEnabled, Caused
<1>4. CASE AddRefused
  <2>1. pc' = "fatal"
    BY <1>4 DEF AddRefused
  <2>2. FlagsKept'
    BY <1>4 DEF FeaturesInv, FlagsKept, AddRefused
  <2> QED BY <1>1, <2>1, <2>2
          DEF FeaturesInv, Adding, Final, Finalizing, SuffixClosed, LeastEnabled, Caused
<1>5. CASE StartFinalize
  <2>1. pc' = "finalizing" /\ FlagsKept'
    BY <1>5 DEF StartFinalize, FeaturesInv, FlagsKept
  <2> QED BY <1>1, <1>5, <2>1, StartFinalizeStep DEF FeaturesInv, Adding
<1>6. CASE Finalize
  <2>1. pc' = "finalizing" /\ FlagsKept'
    BY <1>6 DEF Finalize, FeaturesInv, FlagsKept
  <2> QED BY <1>1, <1>6, <2>1, FinalizeStep DEF FeaturesInv, Adding
<1>7. CASE Report
  <2>1. /\ Final /\ Final' /\ pc' = "done" /\ pos = 0 /\ ~ reset'
        /\ UNCHANGED <<table, cache, asked, forced, added, enabled, pos>>
    BY <1>7 DEF Report, Final
  <2>2. Finalizing'
    BY <2>1 DEF FeaturesInv, Finalizing, FirstRows, Distinct, On, N
  <2>3. SuffixClosed'
    BY <2>1 DEF FeaturesInv, SuffixClosed, Ordered, N
  <2>4. LeastEnabled' /\ Caused'
    BY <2>1 DEF FeaturesInv, LeastEnabled, Caused, ClosedSet, On
  <2>5. FlagsKept' /\ Adding'
    BY <2>1 DEF FeaturesInv, FlagsKept, Adding
  <2> QED BY <1>1, <2>2, <2>3, <2>4, <2>5 DEF FeaturesInv
<1>8. CASE UNCHANGED featuresVars
  <2> USE <1>8 DEF FeaturesInv, featuresVars, N
  <2>1. Adding' /\ FlagsKept'
    BY DEF Adding, FlagsKept, FirstRows, Distinct, On
  <2>2. Finalizing' /\ SuffixClosed'
    BY DEF Finalizing, SuffixClosed, Final, FirstRows, Distinct, On, Ordered
  <2>3. LeastEnabled' /\ Caused'
    BY DEF LeastEnabled, Caused, ClosedSet, Final, On
  <2> QED BY <1>1, <2>1, <2>2, <2>3
<1> QED BY <1>2, <1>3, <1>4, <1>5, <1>6, <1>7, <1>8 DEF FeaturesNext

-----------------------------------------------------------------------------
(* The three loops' facts are an invariant of every sequence of CMake runs. *)
THEOREM FeaturesInductive == FeaturesSpec => []FeaturesInv
BY FeaturesStart, FeaturesStep, PTL DEF FeaturesSpec

(* Variables stay in their domains, and every added feature has a cache     *)
(* entry.                                                                   *)
THEOREM FeaturesTyped == FeaturesSpec => []TypeOK
<1>1. FeaturesInv => TypeOK
  BY DEF FeaturesInv
<1> QED BY <1>1, FeaturesInductive, PTL

(* An ordered table never leaves a feature on and one it requires off.      *)
THEOREM ClosedUnderRequires == FeaturesSpec => []RequirementsOn
<1>1. FeaturesInv => RequirementsOn
  <2> SUFFICES ASSUME FeaturesInv, pc = "done", Ordered, NEW f \in enabled
               PROVE  Requires[f] \subseteq enabled
    BY DEF RequirementsOn
  <2>1. enabled \subseteq FirstRows(N) /\ pos = 0
    BY DEF FeaturesInv, Final, Finalizing, SuffixClosed
  <2>2. PICK i \in 1 .. N : f = table[i]
    BY <2>1 DEF FirstRows
  <2> QED BY <2>1, <2>2 DEF FeaturesInv, Final, SuffixClosed
<1> QED BY <1>1, FeaturesInductive, PTL

(* What is enabled is the least set that has what the cache turns on and is *)
(* closed under REQUIRES, in whatever order the table is.                   *)
THEOREM NothingElseOn == FeaturesSpec => []MinimumOnly
<1>1. FeaturesInv => MinimumOnly
  BY DEF FeaturesInv, LeastEnabled, Final, ClosedSet, MinimumOnly
<1> QED BY <1>1, FeaturesInductive, PTL

(* A run that does not reset does what its -D flags say, whatever runs came *)
(* before it.                                                               *)
THEOREM FlagsObeyed == FeaturesSpec => []UserDecides
<1>1. FeaturesInv => UserDecides
  <2> SUFFICES ASSUME FeaturesInv, pc = "done", ~ forced, NEW f \in added
               PROVE  /\ asked[f] = "ON" => f \in enabled
                      /\ asked[f] = "OFF" /\ f \in enabled
                           => \E g \in enabled : f \in Requires[g]
    BY DEF UserDecides, Obeyed
  <2>1. Final /\ f \in Feature /\ (asked[f] # "unset" => cache[f] = asked[f])
    BY DEF FeaturesInv, TypeOK, FlagsKept, Final
  <2>2. added \intersect On(cache) \subseteq enabled
    BY <2>1 DEF FeaturesInv, Finalizing
  <2>3. f \in enabled => f \in On(cache) \/ \E g \in enabled : f \in Requires[g]
    BY <2>1 DEF FeaturesInv, Caused
  <2> QED BY <2>1, <2>2, <2>3 DEF On
<1> QED BY <1>1, FeaturesInductive, PTL
=============================================================================
