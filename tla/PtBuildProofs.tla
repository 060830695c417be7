---------------------------- MODULE PtBuildProofs ----------------------------
(***************************************************************************)
(* Proofs about ptbuild.py for any number of commands, submodules, refs and*)
(* patches: whatever failed or was killed before, a checkout that completes*)
(* is exact, what is saved is what is local, and it comes back.            *)
(***************************************************************************)
EXTENDS PtBuild, FiniteSetTheorems, SequenceTheorems, TLAPS

-----------------------------------------------------------------------------
(* Histories.                                                               *)

(* What the changes of a history are.                                       *)
Change == Ref \union Shipped \union Local \union {Hipify}
History == Seq(Change)

(* Induction: of the numbers that are not as claimed there is a least one.  *)
LEMMA Least == \A S \in SUBSET Nat : S # {} => \E m \in S : \A k \in S : m <= k
  <1> SUFFICES ASSUME NEW S \in SUBSET Nat, S # {} PROVE \E m \in S : \A k \in S : m <= k
    OBVIOUS
  <1>1. PICK m \in S : \A k \in S : ~ (<<k, m>> \in OpToRel(<, Nat))
    BY NatLessThanWellFounded, WFMin
  <1>2. \A k \in S : ~ (k < m)
    BY <1>1 DEF OpToRel
  <1> QED  BY <1>2

(* Histories that agree in length and everywhere are the same.              *)
LEMMA SameSeq ==
  ASSUME NEW S, NEW s \in Seq(S), NEW t \in Seq(S), Len(s) = Len(t),
         \A i \in 1 .. Len(s) : s[i] = t[i]
  PROVE  s = t
  BY SeqEqual

(* What git finds in both of two histories has a length.                    *)
LEMMA CommonPrefixType ==
  ASSUME NEW a \in Seq(Change), NEW b \in Seq(Change)
  PROVE  LET c == LongestCommonPrefix({a, b}) IN
         /\ c \in CommonPrefixes({a, b}) /\ Len(c) \in Nat /\ Len(c) <= Len(a) /\ Len(c) <= Len(b)
         /\ \A d \in CommonPrefixes({a, b}) : Len(d) <= Len(c)
  <1> DEFINE C == CommonPrefixes({a, b})
             L == {n \in Nat : \A d \in C : Len(d) <= n}
  <1>1. \A d \in C : Len(d) \in Nat /\ Len(d) <= Len(a) /\ Len(d) <= Len(b)
    <2> SUFFICES ASSUME NEW d \in C PROVE Len(d) \in Nat /\ Len(d) <= Len(a) /\ Len(d) <= Len(b)
      OBVIOUS
    <2>1. d \in UNION {Prefixes(s) : s \in {a, b}} /\ \A t \in {a, b} : IsPrefix(d, t)
      BY DEF CommonPrefixes
    <2>2. PICK s \in {a, b} : d \in Prefixes(s)
      BY <2>1
    <2>3. PICK l \in 0 .. Len(s) : d = SubSeq(s, 1, l)
      BY <2>2 DEF Prefixes
    <2>4. d \in Seq(Change)
      BY <2>3
    <2>5. IsPrefix(d, a) /\ IsPrefix(d, b)
      BY <2>1
    <2> QED  BY <2>4, <2>5 DEF IsPrefix
  <1>2. << >> \in C
    <2>1. << >> = SubSeq(a, 1, 0) /\ 0 \in 0 .. Len(a)
      OBVIOUS
    <2>2. << >> \in Prefixes(a)
      BY <2>1 DEF Prefixes
    <2>3. IsPrefix(<< >>, a) /\ IsPrefix(<< >>, b)
      BY DEF IsPrefix
    <2> QED  BY <2>2, <2>3 DEF CommonPrefixes
  <1> HIDE DEF C
  <1>3. Len(a) \in L
    BY <1>1
  <1>4. PICK m \in L : \A k \in L : m <= k
    BY <1>3, Least
  <1>5. \E d \in C : Len(d) = m
    <2> SUFFICES ASSUME \A d \in C : Len(d) # m PROVE FALSE
      OBVIOUS
    <2>1. m \in Nat /\ m # 0
      BY <1>2, <1>4
    <2>2. \A d \in C : Len(d) <= m - 1
      BY <1>1, <1>4, <2>1
    <2>3. m - 1 \in L
      BY <2>1, <2>2
    <2>4. m <= m - 1
      BY <1>4, <2>3
    <2>5. m - 1 < m
      BY ONLY <2>1
    <2> QED  BY <2>1, <2>4, <2>5
  <1>6. \E d \in C : \A e \in C : Len(e) <= Len(d)
    BY <1>4, <1>5
  <1> QED  BY <1>1, <1>6 DEF LongestCommonPrefix, C

(* rev-list gives commits of the second history; of one that continues the  *)
(* first, those that it adds.                                               *)
LEMMA RevListType ==
  ASSUME NEW a \in Seq(Change), NEW b \in Seq(Change)
  PROVE  RevList(a, b) \in Seq(Change)
  <1> DEFINE n == Len(LongestCommonPrefix({a, b}))
  <1>1. n \in Nat /\ n <= Len(b)
    BY CommonPrefixType
  <1> HIDE DEF n
  <1>2. SubSeq(b, n + 1, Len(b)) \in Seq(Change)
    BY <1>1
  <1> QED  BY <1>2 DEF RevList, n

LEMMA RevListPrefix ==
  ASSUME NEW a \in Seq(Change), NEW b \in Seq(Change), IsPrefix(a, b)
  PROVE  RevList(a, b) = SubSeq(b, Len(a) + 1, Len(b))
  <1> DEFINE c == LongestCommonPrefix({a, b})
  <1>1. Len(c) \in Nat /\ Len(c) <= Len(a) /\ \A d \in CommonPrefixes({a, b}) : Len(d) <= Len(c)
    BY CommonPrefixType
  <1>2. a \in CommonPrefixes({a, b})
    <2>1. a = SubSeq(a, 1, Len(a)) /\ Len(a) \in 0 .. Len(a)
      OBVIOUS
    <2>2. a \in Prefixes(a)
      BY <2>1 DEF Prefixes
    <2>3. IsPrefix(a, a)
      BY DEF IsPrefix
    <2> QED  BY <2>2, <2>3 DEF CommonPrefixes
  <1> HIDE DEF c
  <1>3. Len(c) = Len(a)
    BY <1>1, <1>2
  <1> QED  BY <1>3 DEF RevList, c

(* RemoveFirst, for the change at a place before which there is none.       *)
LEMMA RemoveFirstAt ==
  ASSUME NEW s \in Seq(Change), NEW n \in 1 .. Len(s), s[n] = Hipify,
         \A i \in 1 .. n - 1 : s[i] # Hipify
  PROVE  RemoveFirst(s, Hipify) = SubSeq(s, 1, n - 1) \o SubSeq(s, n + 1, Len(s))
  <1> DEFINE I == {i \in 1 .. Len(s) : s[i] = Hipify}
             m == SelectInSeq(s, LAMBDA v : v = Hipify)
  <1>1. n \in I /\ \A i \in I : n <= i
    OBVIOUS
  <1>2. m = Min(I)
    BY <1>1 DEF SelectInSeq
  <1>3. I \subseteq Int /\ I # {}
    BY <1>1
  <1>4. m = n
    <2>1. n \in I /\ \A y \in I : n <= y
      BY <1>1
    <2>2. \A x \in I : (\A y \in I : x <= y) => x = n
      BY <1>1
    <2> HIDE DEF I
    <2> QED  BY <1>2, <2>1, <2>2 DEF Min
  <1> QED  BY <1>1, <1>4 DEF RemoveFirst, RemoveAt

(* A history in parts; without its HIPIFY commit it is the patches.         *)
LEMMA Parts ==
  ASSUME NEW x \in Change, NEW b \in Seq(Change), NEW p \in Seq(Change)
  PROVE  LET s == <<x>> \o b \o <<Hipify>> \o p
             n == Len(b) IN
         /\ s \in Seq(Change) /\ Len(s) = 2 + n + Len(p) /\ n \in Nat /\ Len(p) \in Nat
         /\ s[1] = x /\ s[n + 2] = Hipify
         /\ \A i \in 1 .. n : s[i + 1] = b[i]
         /\ \A i \in 1 .. Len(p) : s[n + 2 + i] = p[i]
  BY DEF Change

LEMMA Plain ==
  ASSUME NEW x \in Change, NEW b \in Seq(Change), NEW p \in Seq(Change)
  PROVE  LET s == <<x>> \o b \o p
             n == Len(b) IN
         /\ s \in Seq(Change) /\ Len(s) = 1 + n + Len(p) /\ n \in Nat /\ Len(p) \in Nat
         /\ s[1] = x
         /\ \A i \in 1 .. n : s[i + 1] = b[i]
         /\ \A i \in 1 .. Len(p) : s[n + 1 + i] = p[i]
  OBVIOUS

LEMMA Drop ==
  ASSUME NEW x \in Ref, NEW b \in Seq(Change), NEW p \in Seq(Change),
         ~ Contains(b, Hipify), ~ Contains(p, Hipify), NEW h \in {<< >>, <<Hipify>>}
  PROVE  RemoveFirst(<<x>> \o b \o h \o p, Hipify) = <<x>> \o b \o p
  <1>0. x \in Change /\ x # Hipify
    BY NameAssumption DEF Change
  <1> DEFINE n == Len(b)
             q == <<x>> \o b \o p
  <1>1. /\ q \in Seq(Change) /\ Len(q) = 1 + n + Len(p) /\ n \in Nat /\ Len(p) \in Nat
        /\ q[1] = x
        /\ \A i \in 1 .. n : q[i + 1] = b[i]
        /\ \A i \in 1 .. Len(p) : q[n + 1 + i] = p[i]
    BY <1>0, Plain
  <1>2. CASE h = << >>
    <2>1. <<x>> \o b \o h \o p = q
      BY <1>0, <1>2
    <2>2. \A i \in 1 .. Len(q) : q[i] # Hipify
      <3> SUFFICES ASSUME NEW i \in 1 .. Len(q) PROVE q[i] # Hipify
        OBVIOUS
      <3>1. CASE i = 1
        BY <3>1, <1>0, <1>1
      <3>2. CASE i \in 2 .. n + 1
        <4>1. i - 1 \in 1 .. n /\ (i - 1) + 1 = i
          BY <3>2, <1>1
        <4>2. q[i] = b[i - 1]
          BY <4>1, <1>1
        <4> QED  BY <4>1, <4>2 DEF Contains
      <3>3. CASE i \in n + 2 .. Len(q)
        <4>1. i - (n + 1) \in 1 .. Len(p) /\ n + 1 + (i - (n + 1)) = i
          BY <3>3, <1>1
        <4>2. q[i] = p[i - (n + 1)]
          BY <4>1, <1>1
        <4> QED  BY <4>1, <4>2 DEF Contains
      <3> QED  BY <3>1, <3>2, <3>3, <1>1
    <2> QED  BY <2>1, <2>2 DEF RemoveFirst
  <1>3. CASE h = <<Hipify>>
    <2> DEFINE s == <<x>> \o b \o <<Hipify>> \o p
    <2>1. /\ s \in Seq(Change) /\ Len(s) = 2 + n + Len(p)
          /\ s[1] = x /\ s[n + 2] = Hipify
          /\ \A i \in 1 .. n : s[i + 1] = b[i]
          /\ \A i \in 1 .. Len(p) : s[n + 2 + i] = p[i]
      BY <1>0, Parts
    <2> HIDE DEF s
    <2>2. \A i \in 1 .. n + 1 : s[i] # Hipify
      <3> SUFFICES ASSUME NEW i \in 1 .. n + 1 PROVE s[i] # Hipify
        OBVIOUS
      <3>1. CASE i = 1
        BY <3>1, <1>0, <2>1
      <3>2. CASE i \in 2 .. n + 1
        <4>1. i - 1 \in 1 .. n /\ (i - 1) + 1 = i
          BY <3>2, <1>1
        <4>2. s[i] = b[i - 1]
          BY <4>1, <2>1
        <4> QED  BY <4>1, <4>2 DEF Contains
      <3> QED  BY <3>1, <3>2, <1>1
    <2>3. n + 2 \in 1 .. Len(s) /\ (n + 2) - 1 = n + 1 /\ (n + 2) + 1 = n + 3
      BY <1>1, <2>1
    <2>4. RemoveFirst(s, Hipify) = SubSeq(s, 1, n + 1) \o SubSeq(s, n + 3, Len(s))
      <3> DEFINE k == n + 2
      <3>1. k \in 1 .. Len(s) /\ s[k] = Hipify /\ \A i \in 1 .. k - 1 : s[i] # Hipify
        BY <2>1, <2>2, <2>3
      <3> HIDE DEF k
      <3>2. RemoveFirst(s, Hipify) = SubSeq(s, 1, k - 1) \o SubSeq(s, k + 1, Len(s))
        BY <2>1, <3>1, RemoveFirstAt
      <3> QED  BY <2>3, <3>2 DEF k
    <2> DEFINE u == SubSeq(s, 1, n + 1)
               v == SubSeq(s, n + 3, Len(s))
    <2>5. /\ u \in Seq(Change) /\ Len(u) = n + 1 /\ \A i \in 1 .. n + 1 : u[i] = s[i]
          /\ v \in Seq(Change) /\ Len(v) = Len(p) /\ \A i \in 1 .. Len(p) : v[i] = s[n + 2 + i]
      BY <1>1, <2>1
    <2> HIDE DEF u, v
    <2>6. /\ u \o v \in Seq(Change) /\ Len(u \o v) = Len(q)
          /\ \A i \in 1 .. n + 1 : (u \o v)[i] = s[i]
          /\ \A i \in 1 .. Len(p) : (u \o v)[n + 1 + i] = p[i]
      <3>0. u \in Seq(Change) /\ v \in Seq(Change)
        BY <2>5
      <3>1. u \o v \in Seq(Change) /\ Len(u \o v) = Len(u) + Len(v)
        BY ONLY <3>0
      <3>2. \A i \in 1 .. n + 1 : (u \o v)[i] = u[i]
        BY <1>1, <2>5
      <3>3. \A i \in 1 .. Len(p) : (u \o v)[n + 1 + i] = v[i]
        BY <1>1, <2>5
      <3>4. \A i \in 1 .. Len(p) : v[i] = p[i]
        BY <2>1, <2>5
      <3>5. Len(u \o v) = Len(q)
        BY <1>1, <2>5, <3>1
      <3>6. \A i \in 1 .. n + 1 : u[i] = s[i]
        BY <2>5
      <3> HIDE DEF q
      <3> QED  BY <3>1, <3>2, <3>3, <3>4, <3>5, <3>6
    <2>7. \A i \in 1 .. Len(q) : (u \o v)[i] = q[i]
      <3> SUFFICES ASSUME NEW i \in 1 .. Len(q) PROVE (u \o v)[i] = q[i]
        OBVIOUS
      <3> HIDE DEF q
      <3>1. CASE i = 1
        <4>1. 1 \in 1 .. n + 1
          BY <1>1
        <4> QED  BY <3>1, <4>1, <1>1, <2>1, <2>6
      <3>2. CASE i \in 2 .. n + 1
        <4>1. i - 1 \in 1 .. n /\ (i - 1) + 1 = i
          BY <3>2, <1>1
        <4>2. s[i] = b[i - 1] /\ q[i] = b[i - 1]
          BY <4>1, <2>1, <1>1
        <4> QED  BY <3>2, <4>2, <2>6
      <3>3. CASE i \in n + 2 .. Len(q)
        <4>1. i - (n + 1) \in 1 .. Len(p) /\ n + 1 + (i - (n + 1)) = i
          BY <3>3, <1>1
        <4> DEFINE k == i - (n + 1)
        <4>2. q[n + 1 + k] = p[k] /\ (u \o v)[n + 1 + k] = p[k] /\ n + 1 + k = i
          <5>1. k \in 1 .. Len(p) /\ n + 1 + k = i
            BY <4>1
          <5> HIDE DEF k
          <5> QED  BY <5>1, <1>1, <2>6
        <4> HIDE DEF k
        <4> QED  BY <4>2
      <3>4. i = 1 \/ i \in 2 .. n + 1 \/ i \in n + 2 .. Len(q)
        BY <1>1
      <3> QED  BY <3>1, <3>2, <3>3, <3>4
    <2>8. u \o v = q
      <3> HIDE DEF q
      <3> QED  BY <1>1, <2>6, <2>7, SameSeq
    <2> QED  BY <1>3, <2>4, <2>8 DEF s, u, v
  <1> QED  BY <1>2, <1>3

(* What a history continues, it starts with.                                *)
LEMMA PrefixAt ==
  ASSUME NEW t \in Seq(Change), NEW s \in Seq(Change), IsPrefix(t, s)
  PROVE  Len(t) <= Len(s) /\ \A i \in 1 .. Len(t) : t[i] = s[i]
  <1>1. Len(t) <= Len(s) /\ SubSeq(t, 1, Len(t)) = SubSeq(s, 1, Len(t))
    BY DEF IsPrefix
  <1>2. \A i \in 1 .. Len(t) : SubSeq(t, 1, Len(t))[i] = t[i] /\ SubSeq(s, 1, Len(t))[i] = s[i]
    BY <1>1
  <1> QED  BY <1>1, <1>2

LEMMA StartsWith ==
  ASSUME NEW x \in Change, NEW s \in Seq(Change), s # << >>, s[1] = x
  PROVE  IsPrefix(<<x>>, s)
  <1>1. Len(s) \in Nat /\ Len(s) >= 1 /\ Len(<<x>>) = 1
    OBVIOUS
  <1> DEFINE u == SubSeq(s, 1, 1)
             v == SubSeq(<<x>>, 1, 1)
  <1>2. u \in Seq(Change) /\ Len(u) = 1 /\ u[1] = x
    BY <1>1
  <1>3. v \in Seq(Change) /\ Len(v) = 1 /\ v[1] = x
    OBVIOUS
  <1> HIDE DEF u, v
  <1>4. v = u
    BY <1>2, <1>3, SameSeq
  <1> QED  BY <1>1, <1>4 DEF IsPrefix, u, v

(* What save-patches saves of a history that the tags divide: all of it     *)
(* except the upstream commit and the HIPIFY commit.                        *)
LEMMA SavedPlain ==
  ASSUME NEW x \in Ref, NEW s \in History, s # << >>, s[1] = x, ~ Contains(s, Hipify)
  PROVE  /\ RevList(<<x>>, s) \in History /\ ~ Contains(RevList(<<x>>, s), Hipify)
         /\ s = <<x>> \o RevList(<<x>>, s)
  <1> USE DEF History
  <1>0. x \in Change
    BY DEF Change
  <1>1. <<x>> \in Seq(Change) /\ IsPrefix(<<x>>, s) /\ Len(<<x>>) = 1
    BY <1>0, StartsWith
  <1> DEFINE b == SubSeq(s, 2, Len(s))
             u == <<x>> \o b
  <1>2. RevList(<<x>>, s) = b
    <2> DEFINE a == <<x>>
    <2>1. a \in Seq(Change) /\ IsPrefix(a, s) /\ Len(a) + 1 = 2
      BY <1>1
    <2> HIDE DEF a
    <2>2. RevList(a, s) = SubSeq(s, Len(a) + 1, Len(s))
      BY <2>1, RevListPrefix
    <2> QED  BY <2>1, <2>2 DEF a
  <1>3. Len(s) \in Nat /\ Len(s) >= 1
    OBVIOUS
  <1>4. b \in Seq(Change) /\ Len(b) = Len(s) - 1 /\ \A i \in 1 .. Len(s) - 1 : b[i] = s[i + 1]
    <2> DEFINE m == Len(s)
    <2>1. m \in Nat /\ m >= 1 /\ m = Len(s)
      BY <1>3
    <2> HIDE DEF m
    <2>2. SubSeq(s, 2, m) \in Seq(Change) /\ Len(SubSeq(s, 2, m)) = m - 1
      BY <2>1
    <2>3. \A i \in 1 .. m - 1 : SubSeq(s, 2, m)[i] = s[i + 1]
      BY <2>1
    <2> QED  BY <2>1, <2>2, <2>3
  <1>5. ~ Contains(b, Hipify)
    <2> HIDE DEF b
    <2>1. \A i \in 1 .. Len(s) - 1 : i + 1 \in 1 .. Len(s)
      BY <1>3
    <2> QED  BY <1>4, <2>1 DEF Contains
  <1>6. s = u
    <2> HIDE DEF b
    <2>1. u \in Seq(Change) /\ Len(u) = Len(s) /\ u[1] = x
          /\ \A i \in 1 .. Len(s) - 1 : u[i + 1] = b[i]
      BY <1>0, <1>3, <1>4
    <2> HIDE DEF u
    <2>2. \A i \in 1 .. Len(s) : s[i] = u[i]
      <3> SUFFICES ASSUME NEW i \in 1 .. Len(s) PROVE s[i] = u[i]
        OBVIOUS
      <3>1. CASE i = 1
        BY <3>1, <2>1
      <3>2. CASE i # 1
        <4>1. i - 1 \in 1 .. Len(s) - 1 /\ (i - 1) + 1 = i
          BY <3>2, <1>3
        <4> QED  BY <4>1, <2>1, <1>4
      <3> QED  BY <3>1, <3>2
    <2> QED  BY <2>1, <2>2, SameSeq
  <1> QED  BY <1>2, <1>4, <1>5, <1>6

LEMMA SavedHipified ==
  ASSUME NEW x \in Ref, NEW s \in History, s # << >>, s[1] = x,
         NEW t \in History, Len(t) >= 2, Last(t) = Hipify, IsPrefix(t, s),
         \A i \in DOMAIN s : s[i] = Hipify => i = Len(t)
  PROVE  LET b == RevList(<<x>>, Front(t))
             p == RevList(t, s) IN
         /\ b \in History /\ p \in History /\ ~ Contains(b, Hipify) /\ ~ Contains(p, Hipify)
         /\ s = <<x>> \o b \o <<Hipify>> \o p
  <1> USE DEF History
  <1> DEFINE n == Len(t)
             f == SubSeq(t, 1, n - 1)
             b == SubSeq(f, 2, n - 1)
             p == SubSeq(s, n + 1, Len(s))
             u == <<x>> \o b \o <<Hipify>> \o p
  <1>0. x \in Change
    BY DEF Change
  <1>1. /\ n \in Nat /\ n >= 2 /\ Len(s) \in Nat /\ n <= Len(s) /\ t[n] = Hipify
        /\ \A i \in 1 .. n : t[i] = s[i]
    BY PrefixAt DEF Last
  <1>2. /\ f \in Seq(Change) /\ Len(f) = n - 1 /\ f # << >>
        /\ \A i \in 1 .. n - 1 : f[i] = s[i]
    <2>1. f \in Seq(Change) /\ Len(f) = n - 1 /\ \A i \in 1 .. n - 1 : f[i] = t[i]
      BY <1>1
    <2> HIDE DEF f, n
    <2> QED  BY <1>1, <2>1
  <1>3. f = Front(t) /\ f[1] = x
    <2> HIDE DEF f
    <2>1. 1 \in 1 .. n - 1
      BY <1>1
    <2>2. f[1] = s[1]
      BY <2>1, <1>2
    <2> QED  BY <2>2 DEF Front, f
  <1>4. /\ b \in Seq(Change) /\ Len(b) = n - 2 /\ \A i \in 1 .. n - 2 : b[i] = s[i + 1]
    <2> HIDE DEF f, n
    <2>1. b \in Seq(Change) /\ Len(b) = n - 2 /\ \A i \in 1 .. n - 2 : b[i] = f[i + 1]
      BY <1>1, <1>2
    <2>2. \A i \in 1 .. n - 2 : i + 1 \in 1 .. n - 1
      BY <1>1
    <2> QED  BY <1>2, <2>1, <2>2
  <1>5. RevList(<<x>>, Front(t)) = b
    <2> DEFINE a == <<x>>
    <2> HIDE DEF f
    <2>1. IsPrefix(a, f)
      BY <1>0, <1>2, <1>3, StartsWith
    <2>2. a \in Seq(Change) /\ Len(a) + 1 = 2
      BY <1>0
    <2> HIDE DEF a
    <2>3. RevList(a, f) = SubSeq(f, Len(a) + 1, Len(f))
      BY <1>2, <2>1, <2>2, RevListPrefix
    <2> QED  BY <1>2, <1>3, <2>2, <2>3 DEF a
  <1>6. RevList(t, s) = p
    BY RevListPrefix
  <1>7. p \in Seq(Change) /\ Len(p) = Len(s) - n /\ \A i \in 1 .. Len(s) - n : p[i] = s[n + i]
    BY <1>1
  <1> HIDE DEF b, p, n
  <1>8. ~ Contains(b, Hipify)
    <2>1. \A i \in 1 .. n - 2 : i + 1 \in DOMAIN s /\ i + 1 # n
      BY <1>1
    <2> QED  BY <1>4, <2>1 DEF Contains, n
  <1>9. ~ Contains(p, Hipify)
    <2>1. \A i \in 1 .. Len(s) - n : n + i \in DOMAIN s /\ n + i # n
      BY <1>1
    <2> QED  BY <1>7, <2>1 DEF Contains, n
  <1>10. s = u
    <2>1. /\ u \in Seq(Change) /\ Len(u) = 2 + Len(b) + Len(p)
          /\ u[1] = x /\ u[Len(b) + 2] = Hipify
          /\ \A i \in 1 .. Len(b) : u[i + 1] = b[i]
          /\ \A i \in 1 .. Len(p) : u[Len(b) + 2 + i] = p[i]
      <3>1. b \in Seq(Change) /\ p \in Seq(Change)
        BY <1>4, <1>7
      <3>2. u[1] = x /\ u[Len(b) + 2] = Hipify
        BY <1>0, <3>1, Parts
      <3>3. \A i \in 1 .. Len(b) : u[i + 1] = b[i]
        BY <1>0, <3>1, Parts
      <3>4. \A i \in 1 .. Len(p) : u[Len(b) + 2 + i] = p[i]
        BY <1>0, <3>1, Parts
      <3>5. u \in Seq(Change)
        BY <1>0, <3>1, Parts
      <3>6. Len(u) = 2 + Len(b) + Len(p)
        BY <1>0, <3>1, Parts
      <3> HIDE DEF u
      <3> QED  BY <3>2, <3>3, <3>4, <3>5, <3>6
    <2>2. Len(b) + 2 = n /\ 2 + Len(b) + Len(p) = Len(s)
      BY <1>1, <1>4, <1>7
    <2> HIDE DEF u
    <2>3. \A i \in 1 .. Len(s) : s[i] = u[i]
      <3> SUFFICES ASSUME NEW i \in 1 .. Len(s) PROVE s[i] = u[i]
        OBVIOUS
      <3>1. CASE i = 1
        BY <3>1, <2>1
      <3>2. CASE i \in 2 .. n - 1
        <4>1. i - 1 \in 1 .. n - 2 /\ (i - 1) + 1 = i
          BY <3>2, <1>1
        <4> QED  BY <4>1, <2>1, <1>4
      <3>3. CASE i = n
        <4>1. n \in 1 .. n
          BY <1>1
        <4> QED  BY <3>3, <4>1, <1>1, <2>1, <2>2
      <3>4. CASE i \in n + 1 .. Len(s)
        <4> DEFINE k == i - n
        <4>1. k \in 1 .. Len(s) - n /\ n + k = i
          BY <3>4, <1>1
        <4> HIDE DEF k
        <4> QED  BY <4>1, <2>1, <2>2, <1>7
      <3>5. i = 1 \/ i \in 2 .. n - 1 \/ i = n \/ i \in n + 1 .. Len(s)
        BY <1>1
      <3> QED  BY <3>1, <3>2, <3>3, <3>4, <3>5
    <2> QED  BY <2>1, <2>2, <2>3, SameSeq
  <1> QED  BY <1>4, <1>5, <1>6, <1>7, <1>8, <1>9, <1>10 DEF u

-----------------------------------------------------------------------------
(* Steps, in the order in which a command takes them.                       *)
Op == {"fetch", "update", "tag", "base", "convert", "commit", "tag hipify", "hipified", "save"}
Step == Op \X Repo

Rank(e) ==
  CASE e[1] = "fetch" -> 0
    [] e[1] = "tag" -> IF e[2] = Root THEN 1 ELSE 3
    [] e[1] = "update" -> 2
    [] e[1] = "base" -> 4
    [] e[1] = "convert" -> 5
    [] e[1] = "commit" -> 6
    [] e[1] = "tag hipify" -> 6
    [] e[1] = "hipified" -> 7
    [] e[1] = "save" -> 8

InOrder(s) ==
  /\ s \in Seq(Step)
  /\ \A i, j \in DOMAIN s : i < j => s[i] # s[j] /\ Rank(s[i]) <= Rank(s[j])

(* A sequence from a function on 1 .. n.                                    *)
LEMMA SeqOfLength ==
  ASSUME NEW S, NEW n \in Nat, NEW f \in [1 .. n -> S]
  PROVE  f \in Seq(S) /\ Len(f) = n /\ DOMAIN f = 1 .. n
  <1>1. f \in Seq(S)
    BY SeqDef
  <1>2. DOMAIN f = 1 .. n
    OBVIOUS
  <1>3. Len(f) = n
    BY <1>1, <1>2, LenProperties
  <1> QED  BY <1>1, <1>2, <1>3

LEMMA RepoIs == Root \in Repo /\ Sub \subseteq Repo /\ Root \notin Sub
  BY NameAssumption DEF Repo

(* The repositories, each once.                                             *)
LEMMA SubmodulesAre ==
  /\ Submodules \in Seq(Sub)
  /\ \A r \in Sub : \E i \in DOMAIN Submodules : Submodules[i] = r
  /\ \A i, j \in DOMAIN Submodules : Submodules[i] = Submodules[j] => i = j
  <1> DEFINE n == Cardinality(Sub)
  <1>1. n \in Nat /\ ExistsBijection(1 .. n, Sub)
    BY FiniteAssumption, FS_CardinalityType
  <1>2. IsFiniteSet(1 .. n) /\ Cardinality(1 .. n) = n
    BY <1>1, FS_Interval
  <1> HIDE DEF n
  <1>3. \E f \in [1 .. n -> Sub] : IsInjective(f)
    BY <1>1 DEF ExistsBijection, Bijection, Injection
  <1>4. Submodules \in [1 .. n -> Sub] /\ IsInjective(Submodules)
    BY <1>3 DEF Submodules, SetToSeq, n
  <1>5. Submodules \in Injection(1 .. n, Sub)
    BY <1>4 DEF Injection
  <1>6. Cardinality(1 .. n) = Cardinality(Sub)
    BY <1>2 DEF n
  <1>7. Submodules \in Surjection(1 .. n, Sub)
    BY <1>5, <1>6, FiniteAssumption, FS_Injection
  <1>8. Submodules \in Seq(Sub) /\ DOMAIN Submodules = 1 .. n
    BY <1>1, <1>4, SeqOfLength
  <1> QED  BY <1>4, <1>7, <1>8 DEF Surjection, IsInjective

LEMMA ReposAre ==
  /\ Repos \in Seq(Repo)
  /\ \A r \in Repo : \E i \in DOMAIN Repos : Repos[i] = r
  /\ \A i, j \in DOMAIN Repos : Repos[i] = Repos[j] => i = j
  <1> DEFINE n == Len(Submodules)
  <1>1. Submodules \in Seq(Sub) /\ n \in Nat /\ DOMAIN Submodules = 1 .. n
        /\ \A i \in 1 .. n : Submodules[i] \in Sub
    BY SubmodulesAre
  <1>2. Submodules \in Seq(Repo) /\ <<Root>> \in Seq(Repo)
    BY <1>1, RepoIs
  <1>3. /\ Repos \in Seq(Repo) /\ DOMAIN Repos = 1 .. n + 1 /\ Repos[1] = Root
        /\ \A i \in 1 .. n : Repos[i + 1] = Submodules[i]
    BY <1>1, <1>2 DEF Repos
  <1> HIDE DEF n
  <1>4. \A i \in 1 .. n + 1 : i # 1 => i - 1 \in 1 .. n /\ Repos[i] = Submodules[i - 1]
    <2> SUFFICES ASSUME NEW i \in 1 .. n + 1, i # 1
                 PROVE  i - 1 \in 1 .. n /\ Repos[i] = Submodules[i - 1]
      OBVIOUS
    <2>1. i - 1 \in 1 .. n /\ (i - 1) + 1 = i
      BY <1>1
    <2> QED  BY <2>1, <1>3
  <1>5. \A r \in Repo : \E i \in DOMAIN Repos : Repos[i] = r
    <2> SUFFICES ASSUME NEW r \in Repo PROVE \E i \in DOMAIN Repos : Repos[i] = r
      OBVIOUS
    <2>1. CASE r = Root
      <3>1. 1 \in DOMAIN Repos
        BY <1>1, <1>3
      <3> QED  BY <2>1, <3>1, <1>3
    <2>2. CASE r \in Sub
      <3>1. PICK i \in 1 .. n : Submodules[i] = r
        BY <2>2, <1>1, SubmodulesAre
      <3>2. i + 1 \in DOMAIN Repos /\ Repos[i + 1] = r
        BY <3>1, <1>1, <1>3
      <3> QED  BY <3>2
    <2> QED  BY <2>1, <2>2 DEF Repo
  <1>6. \A i, j \in 1 .. n + 1 : Repos[i] = Repos[j] => i = j
    <2> SUFFICES ASSUME NEW i \in 1 .. n + 1, NEW j \in 1 .. n + 1, Repos[i] = Repos[j]
                 PROVE  i = j
      OBVIOUS
    <2>1. CASE i = 1
      BY <2>1, <1>1, <1>3, <1>4, RepoIs
    <2>2. CASE j = 1
      BY <2>2, <1>1, <1>3, <1>4, RepoIs
    <2>3. CASE i # 1 /\ j # 1
      <3>1. i - 1 \in 1 .. n /\ j - 1 \in 1 .. n /\ Submodules[i - 1] = Submodules[j - 1]
        BY <2>3, <1>4
      <3>2. i - 1 = j - 1
        BY <3>1, <1>1, SubmodulesAre
      <3> QED  BY <3>2, <1>1
    <2> QED  BY <2>1, <2>2, <2>3
  <1> QED  BY <1>3, <1>5, <1>6

LEMMA Ranks ==
  /\ Rank(<<"fetch", Root>>) = 0 /\ Rank(<<"tag", Root>>) = 1
  /\ \A r \in Sub : Rank(<<"update", r>>) = 2 /\ Rank(<<"tag", r>>) = 3
  /\ \A r \in Repo :
       /\ Rank(<<"base", r>>) = 4 /\ Rank(<<"convert", r>>) = 5 /\ Rank(<<"commit", r>>) = 6
       /\ Rank(<<"tag hipify", r>>) = 6 /\ Rank(<<"hipified", r>>) = 7 /\ Rank(<<"save", r>>) = 8
  <1>1. \A r \in Sub : r # Root
    BY RepoIs
  <1> QED  BY <1>1 DEF Rank

(* Every step of one kind, in the order of the repositories.                *)
LEMMA OneKind ==
  ASSUME NEW S \in SUBSET Repo, NEW s \in Seq(S), NEW op \in Op,
         \A r \in S : \E i \in DOMAIN s : s[i] = r,
         \A i, j \in DOMAIN s : s[i] = s[j] => i = j,
         NEW t \in [DOMAIN s -> Step], \A i \in DOMAIN s : t[i] = <<op, s[i]>>,
         \A q, r \in S : Rank(<<op, q>>) = Rank(<<op, r>>) /\ Rank(<<op, q>>) \in Nat
  PROVE  InOrder(t) /\ ToSet(t) = {op} \X S
  <1> DEFINE n == Len(s)
  <1>1. n \in Nat /\ DOMAIN s = 1 .. n /\ \A i \in 1 .. n : s[i] \in S
    OBVIOUS
  <1>3. t \in [1 .. n -> Step]
    BY <1>1
  <1>4. t \in Seq(Step) /\ DOMAIN t = 1 .. n
    BY <1>1, <1>3, SeqOfLength
  <1>5. \A i \in 1 .. n : t[i] = <<op, s[i]>>
    BY <1>1
  <1> HIDE DEF n
  <1>6. \A i, j \in 1 .. n : i < j => t[i] # t[j] /\ Rank(t[i]) <= Rank(t[j])
    <2> SUFFICES ASSUME NEW i \in 1 .. n, NEW j \in 1 .. n, i < j
                 PROVE  t[i] # t[j] /\ Rank(t[i]) <= Rank(t[j])
      OBVIOUS
    <2>0. i # j /\ i \in DOMAIN s /\ j \in DOMAIN s
      BY <1>1
    <2>1. s[i] # s[j] /\ s[i] \in S /\ s[j] \in S
      BY <2>0, <1>1
    <2>2. t[i] = <<op, s[i]>> /\ t[j] = <<op, s[j]>>
      BY ONLY <1>5, i \in 1 .. n, j \in 1 .. n
    <2>3. t[i] # t[j]
      BY ONLY <2>1, <2>2
    <2>4. Rank(<<op, s[i]>>) = Rank(<<op, s[j]>>) /\ Rank(<<op, s[i]>>) \in Nat
      BY <2>1
    <2>5. Rank(t[i]) <= Rank(t[j])
      BY ONLY <2>2, <2>4
    <2> QED  BY <2>3, <2>5
  <1>7. InOrder(t)
    BY <1>4, <1>6 DEF InOrder
  <1>8. ToSet(t) = {t[i] : i \in 1 .. n}
    BY <1>4 DEF ToSet
  <1>9. {t[i] : i \in 1 .. n} = {op} \X S
    <2>1. \A i \in 1 .. n : t[i] \in {op} \X S
      <3> SUFFICES ASSUME NEW i \in 1 .. n PROVE t[i] \in {op} \X S
        OBVIOUS
      <3>1. t[i] = <<op, s[i]>> /\ s[i] \in S
        BY <1>1, <1>5
      <3> QED  BY ONLY <3>1
    <2>2. \A r \in S : \E i \in 1 .. n : t[i] = <<op, r>>
      <3> SUFFICES ASSUME NEW r \in S PROVE \E i \in 1 .. n : t[i] = <<op, r>>
        OBVIOUS
      <3>1. PICK i \in 1 .. n : s[i] = r
        BY <1>1
      <3>2. t[i] = <<op, s[i]>>
        BY <1>5
      <3> QED  BY <3>1, <3>2
    <2>3. \A e \in {op} \X S : \E r \in S : e = <<op, r>>
      OBVIOUS
    <2>4. {t[i] : i \in 1 .. n} \subseteq {op} \X S
      BY ONLY <2>1
    <2>5. {op} \X S \subseteq {t[i] : i \in 1 .. n}
      <3> SUFFICES ASSUME NEW e \in {op} \X S PROVE e \in {t[i] : i \in 1 .. n}
        OBVIOUS
      <3>1. PICK r \in S : e = <<op, r>>
        BY <2>3
      <3>2. PICK i \in 1 .. n : t[i] = <<op, r>>
        BY <2>2
      <3> QED  BY ONLY <3>1, <3>2, i \in 1 .. n
    <2> QED  BY ONLY <2>4, <2>5
  <1> QED  BY <1>7, <1>8, <1>9

(* One step after another.                                                  *)
LEMMA Concat ==
  ASSUME NEW s, NEW t, InOrder(s), InOrder(t),
         \A e \in ToSet(s), f \in ToSet(t) : e # f /\ Rank(e) <= Rank(f)
  PROVE  InOrder(s \o t) /\ ToSet(s \o t) = ToSet(s) \union ToSet(t)
  <1> DEFINE m == Len(s)
             n == Len(t)
             u == s \o t
  <1>0. s \in Seq(Step) /\ t \in Seq(Step)
    BY DEF InOrder
  <1>1. /\ m \in Nat /\ n \in Nat /\ DOMAIN s = 1 .. m /\ DOMAIN t = 1 .. n
        /\ u \in Seq(Step) /\ DOMAIN u = 1 .. m + n
        /\ \A i \in 1 .. m : u[i] = s[i]
        /\ \A i \in 1 .. n : u[m + i] = t[i]
    BY <1>0
  <1> HIDE DEF m, n, u
  <1>2. \A i \in 1 .. m + n : i \notin 1 .. m => i - m \in 1 .. n /\ u[i] = t[i - m]
    <2> SUFFICES ASSUME NEW i \in 1 .. m + n, i \notin 1 .. m
                 PROVE  i - m \in 1 .. n /\ u[i] = t[i - m]
      OBVIOUS
    <2> DEFINE k == i - m
    <2>1. k \in 1 .. n /\ m + k = i
      BY <1>1
    <2> HIDE DEF k
    <2>2. k \in 1 .. n /\ u[i] = t[k]
      BY <2>1, <1>1
    <2> QED  BY <2>2 DEF k
  <1>3. (\A i \in 1 .. m : s[i] \in ToSet(s)) /\ \A i \in 1 .. n : t[i] \in ToSet(t)
    BY <1>1 DEF ToSet
  <1>4. \A i, j \in 1 .. m + n : i < j => u[i] # u[j] /\ Rank(u[i]) <= Rank(u[j])
    <2> SUFFICES ASSUME NEW i \in 1 .. m + n, NEW j \in 1 .. m + n, i < j
                 PROVE  u[i] # u[j] /\ Rank(u[i]) <= Rank(u[j])
      OBVIOUS
    <2>1. CASE j \in 1 .. m
      <3>1. i \in 1 .. m
        BY <2>1, <1>1
      <3>2. s[i] # s[j] /\ Rank(s[i]) <= Rank(s[j])
        BY <2>1, <3>1, <1>1 DEF InOrder
      <3> QED  BY <2>1, <3>1, <3>2, <1>1
    <2>2. CASE j \notin 1 .. m /\ i \in 1 .. m
      <3>1. u[i] \in ToSet(s) /\ u[j] \in ToSet(t)
        BY <2>2, <1>1, <1>2, <1>3
      <3> QED  BY <3>1
    <2>3. CASE j \notin 1 .. m /\ i \notin 1 .. m
      <3>1. i - m \in 1 .. n /\ j - m \in 1 .. n /\ u[i] = t[i - m] /\ u[j] = t[j - m]
        BY <2>3, <1>2
      <3>2. i - m < j - m
        BY <1>1
      <3>3. t[i - m] # t[j - m] /\ Rank(t[i - m]) <= Rank(t[j - m])
        BY <3>1, <3>2, <1>1 DEF InOrder
      <3> QED  BY <3>1, <3>3
    <2> QED  BY <2>1, <2>2, <2>3
  <1>5. InOrder(u)
    BY <1>1, <1>4 DEF InOrder
  <1>6. ToSet(u) \subseteq ToSet(s) \union ToSet(t)
    <2>1. \A i \in 1 .. m + n : u[i] \in ToSet(s) \union ToSet(t)
      BY <1>1, <1>2, <1>3
    <2> QED  BY <1>1, <2>1 DEF ToSet
  <1>7. ToSet(s) \subseteq ToSet(u)
    <2>1. \A i \in 1 .. m : i \in 1 .. m + n /\ u[i] = s[i]
      BY <1>1
    <2> QED  BY <1>1, <2>1 DEF ToSet
  <1>8. ToSet(t) \subseteq ToSet(u)
    <2>1. \A i \in 1 .. n : m + i \in 1 .. m + n /\ u[m + i] = t[i]
      BY <1>1
    <2> QED  BY <1>1, <2>1 DEF ToSet
  <1> QED  BY <1>5, <1>6, <1>7, <1>8 DEF u

LEMMA Single ==
  ASSUME NEW e \in Step
  PROVE  InOrder(<<e>>) /\ ToSet(<<e>>) = {e}
  <1>1. <<e>> \in Seq(Step) /\ DOMAIN <<e>> = {1} /\ <<e>>[1] = e
    OBVIOUS
  <1> QED  BY <1>1 DEF InOrder, ToSet

LEMMA NoStep == InOrder(<< >>) /\ ToSet(<< >>) = {}
  <1>1. << >> \in Seq(Step) /\ DOMAIN << >> = {}
    OBVIOUS
  <1> QED  BY <1>1 DEF InOrder, ToSet

(* The first of the steps left, and the others.                             *)
LEMMA Rest ==
  ASSUME NEW s, InOrder(s), s # << >>
  PROVE  /\ InOrder(Tail(s)) /\ Head(s) \in ToSet(s)
         /\ ToSet(Tail(s)) = ToSet(s) \ {Head(s)}
         /\ \A e \in ToSet(s) : e # Head(s) => Rank(Head(s)) <= Rank(e)
  <1> DEFINE n == Len(s)
             t == Tail(s)
  <1>0. s \in Seq(Step)
    BY DEF InOrder
  <1>1. /\ n \in Nat /\ n >= 1 /\ DOMAIN s = 1 .. n /\ Head(s) = s[1]
        /\ t \in Seq(Step) /\ DOMAIN t = 1 .. n - 1
        /\ \A i \in 1 .. n - 1 : t[i] = s[i + 1]
    BY <1>0
  <1> HIDE DEF n, t
  <1>2. \A i, j \in 1 .. n : i < j => s[i] # s[j] /\ Rank(s[i]) <= Rank(s[j])
    BY <1>1 DEF InOrder
  <1>3. InOrder(t)
    <2>1. \A i, j \in 1 .. n - 1 : i < j => t[i] # t[j] /\ Rank(t[i]) <= Rank(t[j])
      <3> SUFFICES ASSUME NEW i \in 1 .. n - 1, NEW j \in 1 .. n - 1, i < j
                   PROVE  t[i] # t[j] /\ Rank(t[i]) <= Rank(t[j])
        OBVIOUS
      <3>1. i + 1 \in 1 .. n /\ j + 1 \in 1 .. n /\ i + 1 < j + 1
        BY <1>1
      <3>2. s[i + 1] # s[j + 1] /\ Rank(s[i + 1]) <= Rank(s[j + 1])
        BY <3>1, <1>2
      <3> QED  BY <3>2, <1>1
    <2> QED  BY <1>1, <2>1 DEF InOrder
  <1>4. 1 \in 1 .. n /\ s[1] \in ToSet(s)
    BY <1>1 DEF ToSet
  <1>5. \A i \in 1 .. n : i # 1 => s[i] # s[1] /\ Rank(s[1]) <= Rank(s[i])
                                    /\ i - 1 \in 1 .. n - 1 /\ t[i - 1] = s[i]
    <2> SUFFICES ASSUME NEW i \in 1 .. n, i # 1
                 PROVE  /\ s[i] # s[1] /\ Rank(s[1]) <= Rank(s[i])
                        /\ i - 1 \in 1 .. n - 1 /\ t[i - 1] = s[i]
      OBVIOUS
    <2>1. 1 < i /\ i - 1 \in 1 .. n - 1 /\ (i - 1) + 1 = i
      BY <1>1
    <2> QED  BY <2>1, <1>1, <1>2, <1>4
  <1>6. ToSet(s) = {s[i] : i \in 1 .. n} /\ ToSet(t) = {t[i] : i \in 1 .. n - 1}
    BY <1>1 DEF ToSet
  <1>7. ToSet(t) = ToSet(s) \ {s[1]}
    <2>1. \A i \in 1 .. n - 1 : t[i] \in ToSet(s) \ {s[1]}
      <3> SUFFICES ASSUME NEW i \in 1 .. n - 1 PROVE t[i] \in ToSet(s) \ {s[1]}
        OBVIOUS
      <3>1. i + 1 \in 1 .. n /\ i + 1 # 1
        BY <1>1
      <3> QED  BY <3>1, <1>1, <1>5, <1>6
    <2>2. \A i \in 1 .. n : s[i] # s[1] => s[i] \in ToSet(t)
      BY <1>5, <1>6
    <2> QED  BY <1>6, <2>1, <2>2
  <1>8. \A e \in ToSet(s) : e # s[1] => Rank(s[1]) <= Rank(e)
    BY <1>5, <1>6
  <1> QED  BY <1>1, <1>3, <1>4, <1>7, <1>8 DEF t

(* The stages of a command follow one another.                              *)
Between(s, lo, hi) == InOrder(s) /\ \A e \in ToSet(s) : Rank(e) \in lo .. hi

LEMMA Stages ==
  ASSUME NEW s, NEW t, NEW a \in Nat, NEW b \in Nat, NEW c \in Nat, NEW d \in Nat,
         Between(s, a, b), Between(t, c, d), a <= c, b < c, b <= d
  PROVE  Between(s \o t, a, d) /\ ToSet(s \o t) = ToSet(s) \union ToSet(t)
  <1>1. \A e \in ToSet(s), f \in ToSet(t) : e # f /\ Rank(e) <= Rank(f)
    <2>1. \A e \in ToSet(s), f \in ToSet(t) : Rank(e) \in a .. b /\ Rank(f) \in c .. d
      BY DEF Between
    <2> QED  BY <2>1
  <1>2. InOrder(s) /\ InOrder(t)
    BY DEF Between
  <1>3. InOrder(s \o t) /\ ToSet(s \o t) = ToSet(s) \union ToSet(t)
    BY <1>1, <1>2, Concat
  <1>4. \A e \in ToSet(s) \union ToSet(t) : Rank(e) \in a .. d
    BY DEF Between
  <1> QED  BY <1>3, <1>4 DEF Between

LEMMA EachIs ==
  ASSUME NEW op \in Op, NEW k \in Nat, \A r \in Repo : Rank(<<op, r>>) = k
  PROVE  Between(Each(op), k, k) /\ ToSet(Each(op)) = {op} \X Repo
  <1> DEFINE t == Each(op)
  <1>1. t \in [DOMAIN Repos -> Step] /\ \A i \in DOMAIN Repos : t[i] = <<op, Repos[i]>>
    BY ReposAre DEF Each, Step
  <1> HIDE DEF t
  <1>2. \A q, r \in Repo : Rank(<<op, q>>) = Rank(<<op, r>>) /\ Rank(<<op, q>>) \in Nat
    OBVIOUS
  <1>3. InOrder(t) /\ ToSet(t) = {op} \X Repo
    <2>1. Repo \in SUBSET Repo /\ Repos \in Seq(Repo)
      BY ReposAre
    <2> QED  BY <1>1, <1>2, <2>1, ReposAre, OneKind
  <1>4. \A e \in {op} \X Repo : \E r \in Repo : e = <<op, r>>
    OBVIOUS
  <1>5. \A e \in {op} \X Repo : Rank(e) \in k .. k
    BY <1>4
  <1> QED  BY <1>3, <1>5 DEF Between, t

LEMMA EachSubIs ==
  ASSUME NEW op \in Op, NEW k \in Nat, \A r \in Sub : Rank(<<op, r>>) = k
  PROVE  Between(EachSub(op), k, k) /\ ToSet(EachSub(op)) = {op} \X Sub
  <1> DEFINE t == EachSub(op)
  <1>1. t \in [DOMAIN Submodules -> Step]
        /\ \A i \in DOMAIN Submodules : t[i] = <<op, Submodules[i]>>
    BY SubmodulesAre, RepoIs DEF EachSub, Step
  <1> HIDE DEF t
  <1>2. \A q, r \in Sub : Rank(<<op, q>>) = Rank(<<op, r>>) /\ Rank(<<op, q>>) \in Nat
    OBVIOUS
  <1>3. Sub \in SUBSET Repo
    BY RepoIs
  <1>4. InOrder(t) /\ ToSet(t) = {op} \X Sub
    <2> DEFINE s == Submodules
    <2>1. s \in Seq(Sub) /\ \A r \in Sub : \E i \in DOMAIN s : s[i] = r
      BY SubmodulesAre
    <2>2. \A i, j \in DOMAIN s : s[i] = s[j] => i = j
      BY SubmodulesAre
    <2>3. t \in [DOMAIN s -> Step] /\ \A i \in DOMAIN s : t[i] = <<op, s[i]>>
      BY <1>1
    <2> HIDE DEF s
    <2>4. Sub \in SUBSET Repo /\ s \in Seq(Sub)
      BY <1>3, <2>1
    <2> QED  BY <1>2, <2>1, <2>2, <2>3, <2>4, OneKind
  <1>5. \A e \in {op} \X Sub : \E r \in Sub : e = <<op, r>>
    OBVIOUS
  <1>6. \A e \in {op} \X Sub : Rank(e) \in k .. k
    BY <1>5
  <1> QED  BY <1>4, <1>6 DEF Between, t

LEMMA Nothing ==
  ASSUME NEW a, NEW b
  PROVE  Between(<< >>, a, b) /\ ToSet(<< >>) = {}
  BY NoStep DEF Between

(* The steps of each command.                                               *)
HipifySet == {<<"convert", Root>>} \union {"commit"} \X Repo
CheckoutSet(hipify, patch) ==
  {<<"fetch", Root>>} \union {"update"} \X Sub \union {"tag"} \X Repo
    \union (IF patch THEN {"base", "hipified"} \X Repo ELSE {})
    \union (IF hipify THEN HipifySet ELSE {})

LEMMA SaveIs == InOrder(Each("save")) /\ ToSet(Each("save")) = {"save"} \X Repo
  <1>1. "save" \in Op /\ 8 \in Nat /\ \A r \in Repo : Rank(<<"save", r>>) = 8
    BY Ranks DEF Op
  <1> QED  BY <1>1, EachIs DEF Between

LEMMA HipifyIs == Between(HipifySteps, 5, 6) /\ ToSet(HipifySteps) = HipifySet
  <1>1. "commit" \in Op /\ \A r \in Repo : Rank(<<"commit", r>>) = 6
    BY Ranks DEF Op
  <1>2. Between(Each("commit"), 6, 6) /\ ToSet(Each("commit")) = {"commit"} \X Repo
    BY <1>1, EachIs
  <1> DEFINE e == <<"convert", Root>>
  <1>3. e \in Step /\ Rank(e) = 5
    BY RepoIs, Ranks DEF Step, Op
  <1> HIDE DEF e
  <1>4. Between(<<e>>, 5, 5) /\ ToSet(<<e>>) = {e}
    BY <1>3, Single DEF Between
  <1>5. Between(<<e>> \o Each("commit"), 5, 6)
        /\ ToSet(<<e>> \o Each("commit")) = {e} \union {"commit"} \X Repo
    BY <1>2, <1>4, Stages
  <1> QED  BY <1>5 DEF HipifySteps, HipifySet, e

LEMMA CheckoutIs ==
  ASSUME NEW hipify \in BOOLEAN, NEW patch \in BOOLEAN
  PROVE  InOrder(CheckoutSteps(hipify, patch))
         /\ ToSet(CheckoutSteps(hipify, patch)) = CheckoutSet(hipify, patch)
  <1> DEFINE e == <<"fetch", Root>>
             f == <<"tag", Root>>
             A == IF patch THEN Each("base") ELSE << >>
             B == IF hipify THEN HipifySteps ELSE << >>
             C == IF patch THEN Each("hipified") ELSE << >>
             s == <<e, f>>
  <1>1. Between(s, 0, 1) /\ ToSet(s) = {e, f}
    <2>1. e \in Step /\ f \in Step /\ Rank(e) = 0 /\ Rank(f) = 1 /\ e # f
      BY RepoIs, Ranks DEF Step, Op
    <2> HIDE DEF e, f
    <2>2. s \in Seq(Step) /\ DOMAIN s = {1, 2} /\ s[1] = e /\ s[2] = f
      BY <2>1
    <2> HIDE DEF s
    <2> QED  BY <2>1, <2>2 DEF Between, InOrder, ToSet
  <1> HIDE DEF s
  <1>2. Between(EachSub("update"), 2, 2) /\ ToSet(EachSub("update")) = {"update"} \X Sub
    <2>1. "update" \in Op /\ \A r \in Sub : Rank(<<"update", r>>) = 2
      BY Ranks DEF Op
    <2> QED  BY <2>1, EachSubIs
  <1>3. Between(EachSub("tag"), 3, 3) /\ ToSet(EachSub("tag")) = {"tag"} \X Sub
    <2>1. "tag" \in Op /\ \A r \in Sub : Rank(<<"tag", r>>) = 3
      BY Ranks DEF Op
    <2> QED  BY <2>1, EachSubIs
  <1>4. Between(A, 4, 4) /\ ToSet(A) = IF patch THEN {"base"} \X Repo ELSE {}
    <2>0. "base" \in Op /\ \A r \in Repo : Rank(<<"base", r>>) = 4
      BY Ranks DEF Op
    <2>1. Between(Each("base"), 4, 4) /\ ToSet(Each("base")) = {"base"} \X Repo
      BY <2>0, EachIs
    <2> QED  BY <2>1, Nothing
  <1>5. Between(B, 5, 6) /\ ToSet(B) = IF hipify THEN HipifySet ELSE {}
    BY HipifyIs, Nothing
  <1>6. Between(C, 7, 7) /\ ToSet(C) = IF patch THEN {"hipified"} \X Repo ELSE {}
    <2>0. "hipified" \in Op /\ \A r \in Repo : Rank(<<"hipified", r>>) = 7
      BY Ranks DEF Op
    <2>1. Between(Each("hipified"), 7, 7) /\ ToSet(Each("hipified")) = {"hipified"} \X Repo
      BY <2>0, EachIs
    <2> QED  BY <2>1, Nothing
  <1> HIDE DEF A, B, C
  <1> DEFINE s1 == s \o EachSub("update")
             s2 == s1 \o EachSub("tag")
             s3 == s2 \o A
             s4 == s3 \o B
             s5 == s4 \o C
  <1>7. Between(s1, 0, 2) /\ ToSet(s1) = ToSet(s) \union ToSet(EachSub("update"))
    BY <1>1, <1>2, Stages
  <1> HIDE DEF s1
  <1>8. Between(s2, 0, 3) /\ ToSet(s2) = ToSet(s1) \union ToSet(EachSub("tag"))
    BY <1>7, <1>3, Stages
  <1> HIDE DEF s2
  <1>9. Between(s3, 0, 4) /\ ToSet(s3) = ToSet(s2) \union ToSet(A)
    BY <1>8, <1>4, Stages
  <1> HIDE DEF s3
  <1>10. Between(s4, 0, 6) /\ ToSet(s4) = ToSet(s3) \union ToSet(B)
    BY <1>9, <1>5, Stages
  <1> HIDE DEF s4
  <1>11. Between(s5, 0, 7) /\ ToSet(s5) = ToSet(s4) \union ToSet(C)
    BY <1>10, <1>6, Stages
  <1> HIDE DEF s5
  <1>12. CheckoutSteps(hipify, patch) = s5
    BY DEF CheckoutSteps, s5, s4, s3, s2, s1, s, A, B, C
  <1>13. ToSet(s5) = {e, f} \union {"update"} \X Sub \union {"tag"} \X Sub
                       \union (IF patch THEN {"base"} \X Repo ELSE {})
                       \union (IF hipify THEN HipifySet ELSE {})
                       \union (IF patch THEN {"hipified"} \X Repo ELSE {})
    BY <1>1, <1>2, <1>3, <1>4, <1>5, <1>6, <1>7, <1>8, <1>9, <1>10, <1>11
  <1>14. {"tag"} \X Repo = {f} \union {"tag"} \X Sub
    BY DEF Repo
  <1>15. {"base", "hipified"} \X Repo = {"base"} \X Repo \union {"hipified"} \X Repo
    OBVIOUS
  <1>16. ToSet(s5) = CheckoutSet(hipify, patch)
    <2> HIDE DEF e, f
    <2> QED  BY <1>13, <1>14, <1>15 DEF CheckoutSet, e
  <1> QED  BY <1>11, <1>12, <1>16 DEF Between

-----------------------------------------------------------------------------
(* The invariant.                                                           *)

Pending == ToSet(todo)
Awaits(op, r) == <<op, r>> \in Pending
Unfetched(r) == Awaits("fetch", r) \/ Awaits("update", r)

(* Everything has its type: a history where git names a commit.             *)
TypeOK ==
  /\ head \in [Repo -> History]
  /\ up \in [Repo -> History \union {None}] /\ hip \in [Repo -> History \union {None}]
  /\ dirty \in [Repo -> BOOLEAN]
  /\ am \in [Repo -> {None} \union [orig : History, at : History]]
  /\ dir \in [Ref -> [Repo -> [base : History, hipified : History]]]
  /\ converts \in [Ref -> SUBSET Repo]
  /\ todo \in Seq(Step)
  /\ cmd \in [kind : {"none", "checkout", "hipify", "save"}, ref : Ref,
              hipify : BOOLEAN, patch : BOOLEAN, died : BOOLEAN]
  /\ tree \in [ref : Ref, done : BOOLEAN, whole : BOOLEAN]
  /\ kept \in [Ref -> [Repo -> History \union {None}]]
  /\ given \in Nat

(* The steps left are in order; a hipify tag that is still to be set comes  *)
(* next, and HEAD is the HIPIFY commit.                                     *)
Ordered ==
  /\ InOrder(todo)
  /\ \A i \in DOMAIN todo : todo[i][1] = "tag hipify" =>
       i = 1 /\ Len(head[todo[i][2]]) >= 2 /\ Last(head[todo[i][2]]) = Hipify

(* Which command has which steps.                                           *)
Kinds ==
  /\ \A r \in Repo :
       /\ Awaits("save", r) => cmd.kind = "save" /\ kept[cmd.ref][r] = None
       /\ Awaits("fetch", r) => r = Root
       /\ Awaits("convert", r) => r = Root
       /\ Awaits("update", r) => r # Root
       /\ \A op \in {"fetch", "update", "tag", "base", "hipified"} :
            Awaits(op, r) => cmd.kind = "checkout"
  /\ ~ Idle => cmd.ref = tree.ref
  /\ ~ Idle /\ cmd.kind = "checkout" => ~ tree.done
  /\ tree.whole => tree.done

(* A checkout begins with the upstream commit and tags it.                  *)
Fetched ==
  \A r \in Repo :
    /\ Unfetched(r) => Awaits("tag", r)
    /\ ~ Unfetched(r) => head[r] # << >> /\ head[r][1] = cmd.ref
    /\ ~ Unfetched(r) /\ Awaits("tag", r) => head[r] = <<cmd.ref>>
    /\ ~ Awaits("tag", r) => up[r] = <<cmd.ref>>

Patches(r) == dir[cmd.ref][r]
HipifyNeeded(r) == r \in converts[cmd.ref] /\ ~ Contains(Patches(r).base, Hipify)

(* HIPIFY and the patches after it, if they are no longer awaited.          *)
Built(r) ==
  \E h \in {<< >>, <<Hipify>>} :
    /\ head[r] = <<cmd.ref>> \o Patches(r).base \o h
                   \o (IF Awaits("hipified", r) THEN << >> ELSE Patches(r).hipified)
    /\ h # << >> => hip[r] # None \/ Awaits("tag hipify", r)
    /\ HipifyNeeded(r) => h # << >>

(* What each stage of a checkout with all stages leaves.                    *)
Stage(r) ==
  /\ Awaits("tag", r) => Awaits("base", r)
  /\ Awaits("base", r) => Awaits("convert", Root)
  /\ Awaits("convert", Root) => Awaits("commit", r)
  /\ Awaits("commit", r) \/ Awaits("tag hipify", r) => Awaits("hipified", r)
  /\ ~ Awaits("tag", r) /\ Awaits("base", r) => head[r] = <<cmd.ref>>
  /\ ~ Awaits("base", r) /\ Awaits("commit", r) => head[r] = <<cmd.ref>> \o Patches(r).base
  /\ ~ Awaits("base", r) /\ Patches(r).base # << >> => am[r] = None
  /\ ~ Awaits("convert", Root) /\ Awaits("commit", r) /\ HipifyNeeded(r) => dirty[r]
  /\ ~ Awaits("commit", r) => Built(r)

Staged == cmd.hipify /\ cmd.patch => \A r \in Repo : Stage(r)

InCheckout == ~ Idle /\ cmd.kind = "checkout" => Fetched /\ Staged

(* What a checkout that completed leaves, whatever the developer does next. *)
Tagged == tree.done => \A r \in Repo :
  head[r] # << >> /\ head[r][1] = tree.ref /\ up[r] = <<tree.ref>>

Hipified == tree.whole => \A r \in converts[tree.ref] :
  hip[r] # None \/ (am[r] = None /\ Contains(head[r], Hipify))

(* git am --abort goes back to the same upstream commit.                    *)
Sessions == \A r \in Repo : am[r] # None =>
  am[r].orig # << >> /\ am[r].at # << >> /\ am[r].orig[1] = am[r].at[1]

(* The hipify tag is a HIPIFY commit and has a parent.                      *)
Marks == \A r \in Repo :
  /\ hip[r] # None => Len(hip[r]) >= 2 /\ Last(hip[r]) = Hipify
  /\ dirty[r] => head[r] # << >>

(* What was saved of a whole tree is in the patches directory.              *)
Saved == \A ref \in Ref, r \in Repo : kept[ref][r] # None =>
  /\ ~ Contains(dir[ref][r].base, Hipify) /\ ~ Contains(dir[ref][r].hipified, Hipify)
  /\ \E h \in {<< >>, <<Hipify>>} :
       /\ kept[ref][r] = <<ref>> \o dir[ref][r].base \o h \o dir[ref][r].hipified
       /\ r \in converts[ref] => h # << >>

Inv ==
  /\ TypeOK /\ Ordered /\ Kinds /\ InCheckout /\ Tagged /\ Hipified
  /\ Sessions /\ Marks /\ Saved

-----------------------------------------------------------------------------
(* Steps of a command.                                                      *)

LEMMA NoneIsNoHistory == None \notin History /\ \A ref \in Ref : ref \in Change /\ ref # Hipify
  BY NameAssumption DEF History, Change

LEMMA TagIsNext ==
  ASSUME TypeOK, Ordered, NEW r \in Repo, <<"tag hipify", r>> \in Pending
  PROVE  ~ Idle /\ Head(todo) = <<"tag hipify", r>>
         /\ Len(head[r]) >= 2 /\ Last(head[r]) = Hipify
  <1>0. todo \in Seq(Step) /\ DOMAIN todo = 1 .. Len(todo) /\ Len(todo) \in Nat
    <2>1. todo \in Seq(Step)
      BY DEF TypeOK
    <2> QED  BY ONLY <2>1
  <1>1. PICK i \in 1 .. Len(todo) : todo[i] = <<"tag hipify", r>>
    <2>1. <<"tag hipify", r>> \in ToSet(todo)
      BY DEF Pending
    <2> QED  BY <1>0, <2>1 DEF ToSet
  <1>2. todo[i][1] = "tag hipify" /\ todo[i][2] = r
    <2> DEFINE e == <<"tag hipify", r>>
    <2>1. e[1] = "tag hipify" /\ e[2] = r
      OBVIOUS
    <2>2. todo[i] = e
      BY <1>1
    <2> HIDE DEF e
    <2> QED  BY <2>1, <2>2
  <1>3. i = 1 /\ Len(head[r]) >= 2 /\ Last(head[r]) = Hipify
    BY <1>0, <1>2 DEF Ordered
  <1>5. todo # << >> /\ Head(todo) = todo[1]
    <2>1. todo # << >>
      BY ONLY <1>0, <1>3, i \in 1 .. Len(todo)
    <2> QED  BY ONLY <1>0, <2>1
  <1> QED  BY <1>1, <1>3, <1>5 DEF Idle

(* Nothing that comes before the next step is awaited.                      *)
LEMMA Order ==
  ASSUME TypeOK, Ordered, NEW op, NEW r, At(op, r)
  PROVE  /\ <<op, r>> \in Pending
         /\ \A e \in Pending : e # <<op, r>> => Rank(<<op, r>>) <= Rank(e)
         /\ op # "tag hipify" => \A q \in Repo : <<"tag hipify", q>> \notin Pending
  <1>1. InOrder(todo) /\ todo # << >> /\ Head(todo) = <<op, r>>
    BY DEF Ordered, At, Idle
  <1>2. /\ <<op, r>> \in Pending
        /\ \A e \in Pending : e # <<op, r>> => Rank(<<op, r>>) <= Rank(e)
    BY <1>1, Rest DEF Pending
  <1>3. ASSUME op # "tag hipify", NEW q \in Repo, <<"tag hipify", q>> \in Pending
        PROVE  FALSE
    <2>1. Head(todo) = <<"tag hipify", q>>
      BY <1>3, TagIsNext
    <2>3. <<op, r>> = <<"tag hipify", q>>
      BY <1>1, <2>1
    <2> QED  BY ONLY <1>3, <2>3
  <1> QED  BY <1>2, <1>3

LEMMA Advance ==
  ASSUME TypeOK, Ordered, NEW op, NEW r, At(op, r), todo' = << >> \o Tail(todo)
  PROVE  /\ todo' \in Seq(Step) /\ InOrder(todo')
         /\ Pending' = Pending \ {<<op, r>>}
         /\ <<op, r>> \notin Pending'
         /\ \A o, q : o # op \/ q # r => (<<o, q>> \in Pending' <=> <<o, q>> \in Pending)
         /\ Idle' <=> Pending' = {}
         /\ ~ Idle
         /\ \A i \in DOMAIN todo' : todo'[i][1] # "tag hipify"
  <1>1. InOrder(todo) /\ todo # << >> /\ Head(todo) = <<op, r>> /\ todo \in Seq(Step)
    BY DEF Ordered, At, Idle, TypeOK
  <1>2. todo' = Tail(todo) /\ Tail(todo) \in Seq(Step)
    BY <1>1
  <1>3. InOrder(todo') /\ ToSet(todo') = ToSet(todo) \ {<<op, r>>}
    BY <1>1, <1>2, Rest
  <1>4. ToSet(todo') = {} <=> todo' = << >>
    <2>1. todo' \in Seq(Step)
      BY <1>2
    <2>2. todo' # << >> => todo'[1] \in ToSet(todo')
      BY <2>1 DEF ToSet
    <2> QED  BY <2>2, NoStep
  <1>5. \A i \in DOMAIN todo' : todo'[i][1] # "tag hipify"
    <2> SUFFICES ASSUME NEW i \in DOMAIN todo' PROVE todo'[i][1] # "tag hipify"
      OBVIOUS
    <2>1. i + 1 \in DOMAIN todo /\ i + 1 # 1 /\ todo'[i] = todo[i + 1]
      BY <1>1, <1>2
    <2> QED  BY <2>1 DEF Ordered
  <1>6. Pending' = Pending \ {<<op, r>>}
    BY <1>3 DEF Pending
  <1>7. \A o, q : o # op \/ q # r => (<<o, q>> \in Pending' <=> <<o, q>> \in Pending)
    <2> SUFFICES ASSUME NEW o, NEW q, o # op \/ q # r
                 PROVE  <<o, q>> \in Pending' <=> <<o, q>> \in Pending
      OBVIOUS
    <2>1. <<o, q>> # <<op, r>>
      OBVIOUS
    <2> QED  BY <1>6, <2>1
  <1>8. <<op, r>> \notin Pending'
    BY ONLY <1>6
  <1> QED  BY <1>1, <1>2, <1>3, <1>4, <1>5, <1>6, <1>7, <1>8 DEF Pending, Idle

(* A command that stops leaves nothing to do.                               *)
LEMMA Stopped ==
  ASSUME TypeOK, Kinds, Stop
  PROVE  /\ todo' \in Seq(Step) /\ cmd' \in [kind : {"none", "checkout", "hipify", "save"},
               ref : Ref, hipify : BOOLEAN, patch : BOOLEAN, died : BOOLEAN]
         /\ Ordered' /\ Kinds' /\ InCheckout'
  <1>1. todo' = << >> /\ UNCHANGED tree
    BY DEF Stop
  <1>2. InOrder(todo') /\ Pending' = {} /\ todo' \in Seq(Step) /\ DOMAIN todo' = {}
    BY <1>1, NoStep DEF Pending
  <1>3. Ordered'
    BY <1>2 DEF Ordered
  <1>4. Idle'
    BY <1>1 DEF Idle
  <1>5. Kinds'
    BY <1>1, <1>2, <1>4 DEF Kinds, Awaits
  <1> QED  BY <1>2, <1>3, <1>4, <1>5 DEF InCheckout, Stop, TypeOK

-----------------------------------------------------------------------------
(* Initially, and when a command is given.                                  *)

LEMMA EmptyHistory == << >> \in History
  BY DEF History

LEMMA InitInv == Init => Inv
  <1> SUFFICES ASSUME Init PROVE Inv
    OBVIOUS
  <1>1. PICK ref \in Ref, base \in SetToSeqs(Shipped) :
          dir = [v \in Ref |-> [r \in Repo |->
                  IF v = ref /\ r = Root THEN [base |-> base, hipified |-> << >>] ELSE NoPatches]]
    BY DEF Init
  <1>2. base \in History
    <2>1. Cardinality(Shipped) \in Nat
      BY FiniteAssumption, FS_CardinalityType
    <2>2. base \in [1 .. Cardinality(Shipped) -> Shipped]
      BY DEF SetToSeqs
    <2>3. base \in Seq(Shipped)
      BY <2>1, <2>2, SeqOfLength
    <2> QED  BY <2>3 DEF History, Change
  <1>3. dir \in [Ref -> [Repo -> [base : History, hipified : History]]]
    BY <1>1, <1>2, EmptyHistory DEF NoPatches
  <1>4. todo = << >> /\ Pending = {} /\ Idle /\ DOMAIN todo = {} /\ InOrder(todo)
    BY NoStep DEF Init, Pending, Idle
  <1>5. TypeOK
    <2>1. head \in [Repo -> History]
      BY EmptyHistory DEF Init
    <2>2. converts \in [Ref -> SUBSET Repo]
      BY RepoIs DEF Init
    <2>3. cmd \in [kind : {"none", "checkout", "hipify", "save"}, ref : Ref,
                   hipify : BOOLEAN, patch : BOOLEAN, died : BOOLEAN]
          /\ tree \in [ref : Ref, done : BOOLEAN, whole : BOOLEAN]
      BY DEF Init
    <2>4. kept \in [Ref -> [Repo -> History \union {None}]]
      BY DEF Init, Unsaved
    <2>5. todo \in Seq(Step)
      BY <1>4
    <2> QED  BY <1>3, <2>1, <2>2, <2>3, <2>4, <2>5 DEF TypeOK, Init
  <1>6. Ordered
    BY <1>4 DEF Ordered
  <1>7. Kinds
    BY <1>4 DEF Kinds, Awaits, Init
  <1>8. InCheckout
    BY <1>4 DEF InCheckout
  <1>9. ~ tree.done /\ ~ tree.whole
    BY DEF Init
  <1>10. Tagged /\ Hipified
    BY <1>9 DEF Tagged, Hipified
  <1>11. Sessions /\ Marks
    BY DEF Init, Sessions, Marks
  <1>12. Saved
    BY DEF Init, Saved, Unsaved
  <1> QED  BY <1>5, <1>6, <1>7, <1>8, <1>10, <1>11, <1>12 DEF Inv

(* What stays true because what it is about stays.                          *)
LEMMA Unchanged ==
  ASSUME Inv
  PROVE  /\ UNCHANGED <<kept, dir, converts>> => Saved'
         /\ UNCHANGED am => Sessions'
         /\ UNCHANGED <<hip, dirty, head>> => Marks'
         /\ UNCHANGED <<up, hip, head, am, converts, tree>> => Tagged' /\ Hipified'
  <1>1. Saved /\ Sessions /\ Marks /\ Tagged /\ Hipified
    BY DEF Inv
  <1>2. UNCHANGED <<kept, dir, converts>> => Saved'
    BY <1>1 DEF Saved
  <1>3. UNCHANGED am => Sessions'
    BY <1>1 DEF Sessions
  <1>4. UNCHANGED <<hip, dirty, head>> => Marks'
    BY <1>1 DEF Marks
  <1>5. UNCHANGED <<up, hip, head, am, converts, tree>> => Tagged' /\ Hipified'
    BY <1>1 DEF Tagged, Hipified
  <1> QED  BY <1>2, <1>3, <1>4, <1>5

LEMMA SavedStays ==
  ASSUME Saved, UNCHANGED converts,
         \A ref \in Ref, r \in Repo : kept'[ref][r] # None =>
           kept'[ref][r] = kept[ref][r] /\ dir'[ref][r] = dir[ref][r]
  PROVE  Saved'
  <1> SUFFICES ASSUME NEW ref \in Ref, NEW r \in Repo, kept'[ref][r] # None
               PROVE  /\ ~ Contains(dir'[ref][r].base, Hipify)
                      /\ ~ Contains(dir'[ref][r].hipified, Hipify)
                      /\ \E h \in {<< >>, <<Hipify>>} :
                           /\ kept'[ref][r] = <<ref>> \o dir'[ref][r].base \o h
                                                \o dir'[ref][r].hipified
                           /\ r \in converts[ref] => h # << >>
    BY DEF Saved
  <1>1. kept'[ref][r] = kept[ref][r] /\ dir'[ref][r] = dir[ref][r]
    OBVIOUS
  <1>2. /\ ~ Contains(dir[ref][r].base, Hipify) /\ ~ Contains(dir[ref][r].hipified, Hipify)
        /\ \E h \in {<< >>, <<Hipify>>} :
             /\ kept[ref][r] = <<ref>> \o dir[ref][r].base \o h \o dir[ref][r].hipified
             /\ r \in converts[ref] => h # << >>
    BY <1>1 DEF Saved
  <1> QED  BY <1>1, <1>2

(* A new command has its steps in order and no hipify tag to set.           *)
LEMMA Given ==
  ASSUME NEW s, todo' = s, InOrder(s), NEW S, ToSet(s) = S, NEW r0 \in S,
         \A r \in Repo : <<"tag hipify", r>> \notin S
  PROVE  Ordered' /\ Pending' = S /\ ~ Idle' /\ todo' \in Seq(Step)
  <1>1. InOrder(todo') /\ todo' \in Seq(Step) /\ Pending' = S
    BY DEF InOrder, Pending
  <1>2. \A i \in DOMAIN todo' : todo'[i][1] # "tag hipify"
    <2> SUFFICES ASSUME NEW i \in DOMAIN todo', todo'[i][1] = "tag hipify" PROVE FALSE
      OBVIOUS
    <2> DEFINE e == todo'[i]
    <2>1. e \in Op \X Repo
      <3>1. todo' \in Seq(Step)
        BY <1>1
      <3>2. todo'[i] \in Step
        BY ONLY <3>1, i \in DOMAIN todo'
      <3> QED  BY <3>2 DEF Step
    <2>2. e \in S
      <3>1. S = {todo'[k] : k \in DOMAIN todo'}
        BY DEF ToSet
      <3> QED  BY <3>1
    <2>3. e[1] = "tag hipify"
      OBVIOUS
    <2> HIDE DEF e
    <2>4. PICK op \in Op, r \in Repo : e = <<op, r>>
      BY ONLY <2>1
    <2>5. <<op, r>>[1] = op
      OBVIOUS
    <2>6. op = "tag hipify"
      BY ONLY <2>3, <2>4, <2>5
    <2>7. <<"tag hipify", r>> \notin S
      BY <2>4
    <2> QED  BY ONLY <2>2, <2>4, <2>6, <2>7
  <1>3. todo' # << >>
    BY NoStep
  <1> QED  BY <1>1, <1>2, <1>3 DEF Ordered, Idle

LEMMA CheckoutBegins ==
  ASSUME Inv, NEW ref \in Ref, NEW hipify \in BOOLEAN, NEW patch \in BOOLEAN,
         DoCheckout(ref, hipify, patch)
  PROVE  Inv'
  <1> DEFINE s == CheckoutSteps(hipify, patch)
             S == CheckoutSet(hipify, patch)
  <1>0. /\ todo' = s /\ given' = given + 1
        /\ cmd' = [kind |-> "checkout", ref |-> ref, hipify |-> hipify, patch |-> patch,
                   died |-> FALSE]
        /\ tree' = [ref |-> ref, done |-> FALSE, whole |-> FALSE]
        /\ UNCHANGED <<head, up, hip, dirty, am, dir, converts, kept>>
    BY DEF DoCheckout, Give
  <1>1. InOrder(s) /\ ToSet(s) = S
    BY CheckoutIs
  <1>2. <<"fetch", Root>> \in S /\ \A r \in Repo : <<"tag hipify", r>> \notin S
    BY DEF CheckoutSet, HipifySet
  <1> HIDE DEF s, S
  <1>3. Ordered' /\ Pending' = S /\ ~ Idle' /\ todo' \in Seq(Step)
    BY <1>0, <1>1, <1>2, Given
  <1>4. TypeOK'
    BY <1>0, <1>3 DEF TypeOK, Inv
  <1>5. Kinds'
    <2>1. \A r \in Repo :
            /\ <<"save", r>> \notin S /\ (<<"fetch", r>> \in S => r = Root)
            /\ (<<"convert", r>> \in S => r = Root) /\ (<<"update", r>> \in S => r # Root)
      BY RepoIs DEF S, CheckoutSet, HipifySet
    <2> QED  BY <1>0, <1>3, <2>1 DEF Kinds, Awaits, Idle
  <1>6. Fetched'
    <2>1. \A r \in Repo : (<<"fetch", r>> \in S \/ <<"update", r>> \in S) /\ <<"tag", r>> \in S
      BY DEF S, CheckoutSet, Repo
    <2> QED  BY <1>3, <2>1 DEF Fetched, Unfetched, Awaits
  <1>7. Staged'
    <2> SUFFICES ASSUME hipify, patch PROVE Staged'
      BY <1>0 DEF Staged, Stage
    <2>1. \A r \in Repo : <<"tag", r>> \in S /\ <<"base", r>> \in S /\ <<"convert", Root>> \in S
                          /\ <<"commit", r>> \in S /\ <<"hipified", r>> \in S
      BY DEF S, CheckoutSet, HipifySet
    <2> QED  BY <1>3, <2>1 DEF Staged, Stage, Awaits
  <1>8. InCheckout'
    BY <1>6, <1>7 DEF InCheckout
  <1>9. Tagged' /\ Hipified'
    BY <1>0 DEF Tagged, Hipified
  <1> QED  BY <1>0, <1>3, <1>4, <1>5, <1>8, <1>9, Unchanged DEF Inv

LEMMA HipifyBegins ==
  ASSUME Inv, DoHipify
  PROVE  Inv'
  <1>0. /\ todo' = HipifySteps /\ given' = given + 1
        /\ cmd' = [kind |-> "hipify", ref |-> tree.ref, hipify |-> TRUE, patch |-> FALSE,
                   died |-> FALSE]
        /\ UNCHANGED <<head, up, hip, dirty, am, dir, converts, tree, kept>>
    BY DEF DoHipify, Give
  <1>1. InOrder(HipifySteps) /\ ToSet(HipifySteps) = HipifySet
    BY HipifyIs DEF Between
  <1>2. <<"convert", Root>> \in HipifySet /\ \A r \in Repo : <<"tag hipify", r>> \notin HipifySet
    BY DEF HipifySet
  <1>3. Ordered' /\ Pending' = HipifySet /\ ~ Idle' /\ todo' \in Seq(Step)
    BY <1>0, <1>1, <1>2, Given
  <1>4. TypeOK'
    BY <1>0, <1>3 DEF TypeOK, Inv
  <1>5. Kinds'
    <2>1. \A r \in Repo :
            /\ <<"save", r>> \notin HipifySet /\ <<"fetch", r>> \notin HipifySet
            /\ (<<"convert", r>> \in HipifySet => r = Root) /\ <<"update", r>> \notin HipifySet
            /\ <<"tag", r>> \notin HipifySet /\ <<"base", r>> \notin HipifySet
            /\ <<"hipified", r>> \notin HipifySet
      BY DEF HipifySet
    <2>2. tree.whole => tree.done
      BY DEF Inv, Kinds
    <2> QED  BY <1>0, <1>3, <2>1, <2>2 DEF Kinds, Awaits, Idle
  <1>6. InCheckout'
    BY <1>0 DEF InCheckout
  <1> QED  BY <1>0, <1>3, <1>4, <1>5, <1>6, Unchanged DEF Inv

LEMMA SaveBegins ==
  ASSUME Inv, DoSavePatches
  PROVE  Inv'
  <1>0. /\ todo' = Each("save") /\ given' = given + 1
        /\ cmd' = [kind |-> "save", ref |-> tree.ref, hipify |-> FALSE, patch |-> FALSE,
                   died |-> FALSE]
        /\ kept' = [kept EXCEPT ![tree.ref] = Unsaved]
        /\ UNCHANGED <<head, up, hip, dirty, am, dir, converts, tree>>
    BY DEF DoSavePatches, Give
  <1> DEFINE S == {"save"} \X Repo
  <1>1. InOrder(Each("save")) /\ ToSet(Each("save")) = S
    BY SaveIs
  <1>2. <<"save", Root>> \in S /\ \A r \in Repo : <<"tag hipify", r>> \notin S
    BY RepoIs
  <1> HIDE DEF S
  <1>3. Ordered' /\ Pending' = S /\ ~ Idle' /\ todo' \in Seq(Step)
    BY <1>0, <1>1, <1>2, Given
  <1>4. TypeOK'
    BY <1>0, <1>3 DEF TypeOK, Inv, Unsaved
  <1>5. kept'[tree.ref] = Unsaved /\ \A r \in Repo : kept'[tree.ref][r] = None
    BY <1>0 DEF Inv, TypeOK, Unsaved
  <1>6. Kinds'
    <2>1. \A r \in Repo :
            /\ <<"fetch", r>> \notin S /\ <<"convert", r>> \notin S /\ <<"update", r>> \notin S
            /\ <<"tag", r>> \notin S /\ <<"base", r>> \notin S /\ <<"hipified", r>> \notin S
      BY DEF S
    <2>2. tree.whole => tree.done
      BY DEF Inv, Kinds
    <2> QED  BY <1>0, <1>3, <1>5, <2>1, <2>2 DEF Kinds, Awaits, Idle
  <1>7. InCheckout'
    BY <1>0 DEF InCheckout
  <1>8. Saved'
    <2>1. \A ref \in Ref, r \in Repo : kept'[ref][r] # None => kept'[ref][r] = kept[ref][r]
      BY <1>0, <1>5 DEF Inv, TypeOK
    <2> QED  BY <1>0, <2>1, SavedStays DEF Inv
  <1> QED  BY <1>0, <1>3, <1>4, <1>6, <1>7, <1>8, Unchanged DEF Inv

-----------------------------------------------------------------------------
(* The steps of a checkout.                                                 *)

(* Patches that contain HIPIFY make a history that does.                    *)
LEMMA ContainsPart ==
  ASSUME NEW x \in Ref, NEW b \in History, NEW h \in {<< >>, <<Hipify>>}, NEW p \in History
  PROVE  LET s == <<x>> \o b \o h \o p IN
         /\ s \in History /\ s # << >> /\ s[1] = x
         /\ Contains(b, Hipify) \/ h # << >> => Contains(s, Hipify)
  <1> DEFINE s == <<x>> \o b \o h \o p
  <1>0. x \in Change /\ h \in Seq(Change) /\ b \in Seq(Change) /\ p \in Seq(Change)
    <2>1. Hipify \in Change /\ x \in Change
      BY DEF Change
    <2>2. << >> \in Seq(Change) /\ <<Hipify>> \in Seq(Change)
      BY <2>1
    <2> QED  BY <2>1, <2>2 DEF History
  <1>1. s \in Seq(Change) /\ Len(s) = 1 + Len(b) + Len(h) + Len(p) /\ s[1] = x
    BY <1>0
  <1>2. s # << >>
    <2> HIDE DEF s
    <2>1. Len(b) \in Nat /\ Len(h) \in Nat /\ Len(p) \in Nat
      BY <1>0
    <2> QED  BY <1>1, <2>1
  <1>3. ASSUME Contains(b, Hipify) PROVE Contains(s, Hipify)
    <2>1. PICK i \in 1 .. Len(b) : b[i] = Hipify
      BY <1>3 DEF Contains
    <2>2. s[i + 1] = b[i]
      BY <1>0
    <2>3. i + 1 \in 1 .. Len(s)
      BY <1>0, <1>1
    <2> QED  BY <2>1, <2>2, <2>3 DEF Contains
  <1>4. ASSUME h # << >> PROVE Contains(s, Hipify)
    <2>1. h = <<Hipify>> /\ Len(h) = 1 /\ h[1] = Hipify
      BY <1>4
    <2>2. s[Len(b) + 2] = h[1]
      BY <1>0, <2>1
    <2>3. Len(b) + 2 \in 1 .. Len(s)
      BY <1>0, <1>1, <2>1
    <2> QED  BY <2>1, <2>2, <2>3 DEF Contains
  <1> QED  BY <1>1, <1>2, <1>3, <1>4 DEF History

(* What is built when a tree becomes whole.                                 *)
WholeIsBuilt == ~ tree.whole /\ tree'.whole =>
  /\ Pending' = {} /\ UNCHANGED <<cmd, converts, dir, kept>>
  /\ \A r \in Repo : Built(r)'

(* A checkout that has no step left is as the last step left it.            *)
LEMMA Completed ==
  ASSUME Inv, ~ Idle, cmd.kind = "checkout", UNCHANGED <<cmd, converts, dir, kept>>,
         tree' = IF todo' = << >> /\ cmd.kind = "checkout"
                 THEN [tree EXCEPT !.done = TRUE, !.whole = cmd.hipify /\ cmd.patch] ELSE tree,
         Idle' <=> Pending' = {}, TypeOK', Fetched', Staged'
  PROVE  /\ InCheckout' /\ Tagged' /\ Hipified' /\ WholeIsBuilt
         /\ tree'.ref = cmd.ref /\ (~ Idle' => ~ tree'.done) /\ (tree'.whole => tree'.done)
  <1>0. TypeOK /\ ~ tree.done /\ ~ tree.whole /\ cmd.ref = tree.ref
    BY DEF Inv, Kinds
  <1>1. InCheckout'
    BY DEF InCheckout
  <1>2. CASE todo' # << >>
    <2>1. tree' = tree
      BY <1>2
    <2> QED  BY <1>0, <1>1, <2>1 DEF Tagged, Hipified, WholeIsBuilt
  <1>3. CASE todo' = << >>
    <2>1. Pending' = {}
      BY <1>3 DEF Idle
    <2>2. tree'.ref = cmd.ref /\ tree'.done /\ (tree'.whole <=> cmd.hipify /\ cmd.patch)
      <3>1. tree' = [tree EXCEPT !.done = TRUE, !.whole = cmd.hipify /\ cmd.patch]
        BY <1>3
      <3>2. tree \in [ref : Ref, done : BOOLEAN, whole : BOOLEAN]
        BY <1>0 DEF TypeOK
      <3> QED  BY <1>0, <3>1, <3>2
    <2>3. Tagged'
      <3> SUFFICES ASSUME NEW r \in Repo
                   PROVE  head'[r] # << >> /\ head'[r][1] = tree'.ref /\ up'[r] = <<tree'.ref>>
        BY DEF Tagged
      <3> QED  BY <2>1, <2>2 DEF Fetched, Unfetched, Awaits
    <2>4. Hipified'
      <3> SUFFICES ASSUME tree'.whole, NEW r \in Repo, r \in converts[cmd.ref]
                   PROVE  hip'[r] # None \/ (am'[r] = None /\ Contains(head'[r], Hipify))
        BY <1>0, <2>2 DEF Hipified, TypeOK
      <3>1. Built(r)' /\ (Patches(r)'.base # << >> => am'[r] = None)
        BY <2>1, <2>2 DEF Staged, Stage, Awaits
      <3>2. PICK h \in {<< >>, <<Hipify>>} :
              /\ head'[r] = <<cmd.ref>> \o dir'[cmd.ref][r].base \o h \o dir'[cmd.ref][r].hipified
              /\ h # << >> => hip'[r] # None
              /\ r \in converts[cmd.ref] /\ ~ Contains(dir'[cmd.ref][r].base, Hipify) => h # << >>
        BY <2>1, <3>1 DEF Built, Awaits, HipifyNeeded, Patches
      <3>3. /\ cmd.ref \in Ref /\ dir'[cmd.ref][r].base \in History
            /\ dir'[cmd.ref][r].hipified \in History
        BY <1>0 DEF TypeOK
      <3>4. CASE Contains(dir'[cmd.ref][r].base, Hipify)
        <4>1. Contains(head'[r], Hipify)
          <5> DEFINE b == dir'[cmd.ref][r].base
                     p == dir'[cmd.ref][r].hipified
                     x == cmd.ref
          <5>1. x \in Ref /\ b \in History /\ p \in History /\ Contains(b, Hipify)
            BY <3>3, <3>4
          <5>2. head'[r] = <<x>> \o b \o h \o p
            BY <3>2
          <5> HIDE DEF b, p, x
          <5> DEFINE s == <<x>> \o b \o h \o p
          <5>3. Contains(s, Hipify)
            BY <5>1, ContainsPart
          <5> HIDE DEF s
          <5>4. head'[r] = s
            BY <5>2 DEF s
          <5> QED  BY <5>3, <5>4
        <4>2. dir'[cmd.ref][r].base # << >>
          BY <3>4 DEF Contains
        <4> QED  BY <3>1, <4>1, <4>2 DEF Patches
      <3>5. CASE ~ Contains(dir'[cmd.ref][r].base, Hipify)
        BY <3>2, <3>5
      <3> QED  BY <3>4, <3>5
    <2>5. ASSUME tree'.whole, NEW r \in Repo PROVE Built(r)'
      BY <2>1, <2>2, <2>5 DEF Staged, Stage, Awaits
    <2>6. WholeIsBuilt
      BY <2>1, <2>5 DEF WholeIsBuilt
    <2> QED  BY <1>1, <1>3, <2>2, <2>3, <2>4, <2>6 DEF Idle
  <1> QED  BY <1>2, <1>3

(* The steps of a command stay those of a command of its kind.              *)
LEMMA KindsStay ==
  ASSUME Inv, ~ Idle, UNCHANGED cmd, NEW q \in Repo,
         Pending' \subseteq Pending \union {<<"tag hipify", q>>},
         \A r \in Repo : <<"save", r>> \in Pending' => kept'[cmd.ref][r] = kept[cmd.ref][r],
         tree'.ref = cmd.ref, ~ Idle' /\ cmd.kind = "checkout" => ~ tree'.done,
         tree'.whole => tree'.done
  PROVE  Kinds'
  <1>1. \A op \in Op, r \in Repo : op # "tag hipify" /\ <<op, r>> \in Pending' => <<op, r>> \in Pending
    OBVIOUS
  <1>2. Kinds
    BY DEF Inv
  <1>3. \A r \in Repo :
       /\ Awaits("save", r)' => cmd.kind = "save" /\ kept'[cmd.ref][r] = None
       /\ Awaits("fetch", r)' => r = Root
       /\ Awaits("convert", r)' => r = Root
       /\ Awaits("update", r)' => r # Root
    BY <1>1, <1>2 DEF Kinds, Awaits, Op
  <1>4. \A r \in Repo, op \in {"fetch", "update", "tag", "base", "hipified"} :
            Awaits(op, r)' => cmd.kind = "checkout"
    BY <1>1, <1>2 DEF Kinds, Awaits, Op
  <1> QED  BY <1>3, <1>4 DEF Kinds

(* Where a checkout is when it takes a step.                                *)
LEMMA CheckoutAt ==
  ASSUME Inv, NEW r \in Repo, NEW op \in {"fetch", "update", "tag", "base", "hipified"}, At(op, r)
  PROVE  /\ ~ Idle /\ cmd.kind = "checkout" /\ Fetched /\ Staged
         /\ cmd.ref = tree.ref /\ ~ tree.done /\ ~ tree.whole
         /\ <<op, r>> \in Pending
  <1>1. TypeOK /\ Ordered /\ Kinds /\ InCheckout
    BY DEF Inv
  <1>2. <<op, r>> \in Pending
    BY <1>1, Order
  <1>3. ~ Idle
    BY DEF At
  <1>4. cmd.kind = "checkout"
    BY <1>1, <1>2 DEF Kinds, Awaits
  <1> QED  BY <1>1, <1>2, <1>3, <1>4 DEF Kinds, InCheckout

(* What is done when a stage begins.                                        *)
LEMMA StageAt ==
  ASSUME Inv, NEW r \in Repo, NEW op \in Op, At(op, r)
  PROVE  /\ op = "tag" => <<"fetch", r>> \notin Pending /\ <<"update", r>> \notin Pending
         /\ op \in {"base", "convert", "commit", "hipified"} => \A q \in Repo :
              /\ <<"fetch", q>> \notin Pending /\ <<"update", q>> \notin Pending
              /\ <<"tag", q>> \notin Pending
         /\ op \in {"convert", "commit", "hipified"} => \A q \in Repo : <<"base", q>> \notin Pending
         /\ op \in {"commit", "hipified"} => <<"convert", Root>> \notin Pending
         /\ op = "hipified" => \A q \in Repo : <<"commit", q>> \notin Pending
  <1>1. TypeOK /\ Ordered /\ Kinds
    BY DEF Inv
  <1> DEFINE k == Rank(<<op, r>>)
             G(o, q) == <<o, q>> \in Pending => k <= Rank(<<o, q>>)
  <1>2. \A o, q : o # op => G(o, q)
    <2> SUFFICES ASSUME NEW o, NEW q, o # op, <<o, q>> \in Pending
                 PROVE  Rank(<<op, r>>) <= Rank(<<o, q>>)
      OBVIOUS
    <2>1. <<o, q>> # <<op, r>>
      OBVIOUS
    <2> QED  BY <1>1, <2>1, Order
  <1>3. /\ op = "tag" /\ r = Root => k = 1
        /\ op = "tag" /\ r \in Sub => k = 3
        /\ op = "base" => k = 4
        /\ op = "convert" => k = 5
        /\ op = "commit" => k = 6
        /\ op = "hipified" => k = 7
    BY Ranks
  <1>4. r = Root \/ r \in Sub
    BY DEF Repo
  <1>5. \A q \in Repo : /\ <<"fetch", q>> \in Pending => q = Root /\ Rank(<<"fetch", q>>) = 0
                        /\ <<"update", q>> \in Pending => q \in Sub /\ Rank(<<"update", q>>) = 2
    BY <1>1, Ranks DEF Kinds, Awaits, Repo
  <1>6. \A q \in Repo : /\ Rank(<<"tag", q>>) \in {1, 3} /\ Rank(<<"base", q>>) = 4
                        /\ Rank(<<"commit", q>>) = 6 /\ Rank(<<"convert", Root>>) = 5
    BY Ranks, RepoIs DEF Repo
  <1> HIDE DEF k
  <1>7. ASSUME op \in {"tag", "base", "convert", "commit", "hipified"}
        PROVE  <<"fetch", r>> \notin Pending /\ <<"update", r>> \notin Pending
    <2>1. G("fetch", r) /\ G("update", r)
      BY <1>2, <1>7
    <2> QED  BY <1>3, <1>4, <1>5, <1>7, <2>1, RepoIs
  <1>8. ASSUME op \in {"base", "convert", "commit", "hipified"}, NEW q \in Repo
        PROVE  /\ <<"fetch", q>> \notin Pending /\ <<"update", q>> \notin Pending
               /\ <<"tag", q>> \notin Pending
    <2>1. G("fetch", q) /\ G("update", q) /\ G("tag", q)
      BY <1>2, <1>8
    <2>2. k \in {4, 5, 6, 7}
      BY <1>3, <1>8
    <2>3. Rank(<<"tag", q>>) \in {1, 3}
      BY <1>6
    <2>4. /\ <<"fetch", q>> \in Pending => Rank(<<"fetch", q>>) = 0
          /\ <<"update", q>> \in Pending => Rank(<<"update", q>>) = 2
      BY <1>5
    <2> QED  BY ONLY <2>1, <2>2, <2>3, <2>4
  <1>9. ASSUME op \in {"convert", "commit", "hipified"}, NEW q \in Repo
        PROVE  <<"base", q>> \notin Pending
    <2>1. G("base", q) /\ k \in {5, 6, 7}
      BY <1>2, <1>3, <1>9
    <2>2. Rank(<<"base", q>>) = 4
      BY <1>6
    <2> QED  BY ONLY <2>1, <2>2
  <1>10. ASSUME op \in {"commit", "hipified"}
         PROVE  <<"convert", Root>> \notin Pending
    <2>1. G("convert", Root) /\ k \in {6, 7}
      BY <1>2, <1>3, <1>10
    <2>2. Rank(<<"convert", Root>>) = 5
      BY <1>6
    <2> QED  BY ONLY <2>1, <2>2
  <1>11. ASSUME op = "hipified", NEW q \in Repo
         PROVE  <<"commit", q>> \notin Pending
    <2>1. G("commit", q) /\ k = 7
      BY <1>2, <1>3, <1>11
    <2>2. Rank(<<"commit", q>>) = 6
      BY <1>6
    <2> QED  BY ONLY <2>1, <2>2
  <1> QED  BY <1>7, <1>8, <1>9, <1>10, <1>11

LEMMA FetchStep ==
  ASSUME Inv, NEW r \in Repo, Fetch(r)
  PROVE  Inv' /\ WholeIsBuilt
  <1>1. PICK op \in {"fetch", "update"} : At(op, r)
    BY DEF Fetch
  <1>2. /\ head' = [head EXCEPT ![r] = <<cmd.ref>>] /\ todo' = << >> \o Tail(todo)
        /\ tree' = IF todo' = << >> /\ cmd.kind = "checkout"
                   THEN [tree EXCEPT !.done = TRUE, !.whole = cmd.hipify /\ cmd.patch] ELSE tree
        /\ UNCHANGED <<up, hip, dirty, am, dir, kept, cmd, converts, given>>
    BY DEF Fetch, Continue
  <1>3. TypeOK /\ Ordered
    BY DEF Inv
  <1>4. /\ todo' \in Seq(Step) /\ InOrder(todo')
        /\ Pending' = Pending \ {<<op, r>>}
        /\ \A o, q : o # op \/ q # r => (<<o, q>> \in Pending' <=> <<o, q>> \in Pending)
        /\ Idle' <=> Pending' = {}
        /\ \A i \in DOMAIN todo' : todo'[i][1] # "tag hipify"
    BY <1>1, <1>2, <1>3, Advance
  <1>5. /\ ~ Idle /\ cmd.kind = "checkout" /\ Fetched /\ Staged
        /\ <<op, r>> \in Pending
    BY <1>1, CheckoutAt
  <1>6. head'[r] = <<cmd.ref>> /\ \A q \in Repo : q # r => head'[q] = head[q]
    BY <1>2, <1>3 DEF TypeOK
  <1>7. cmd.ref \in Ref /\ <<cmd.ref>> \in History
    BY <1>3 DEF TypeOK, History, Change
  <1>8. TypeOK'
    <2>1. head' \in [Repo -> History]
      BY <1>2, <1>3, <1>7 DEF TypeOK
    <2>2. tree' \in [ref : Ref, done : BOOLEAN, whole : BOOLEAN]
      BY <1>2, <1>3 DEF TypeOK
    <2> QED  BY <1>2, <1>3, <1>4, <2>1, <2>2 DEF TypeOK
  <1>9. Fetched'
    <2> SUFFICES ASSUME NEW q \in Repo
                 PROVE  /\ Unfetched(q)' => Awaits("tag", q)'
                        /\ ~ Unfetched(q)' => head'[q] # << >> /\ head'[q][1] = cmd.ref
                        /\ ~ Unfetched(q)' /\ Awaits("tag", q)' => head'[q] = <<cmd.ref>>
                        /\ ~ Awaits("tag", q)' => up'[q] = <<cmd.ref>>
      BY <1>2 DEF Fetched
    <2>1. CASE q # r
      <3>1. /\ <<"fetch", q>> \in Pending' <=> <<"fetch", q>> \in Pending
            /\ <<"update", q>> \in Pending' <=> <<"update", q>> \in Pending
            /\ <<"tag", q>> \in Pending' <=> <<"tag", q>> \in Pending
        BY <1>4, <2>1
      <3> QED  BY <1>2, <1>5, <1>6, <2>1, <3>1 DEF Fetched, Unfetched, Awaits
    <2>2. CASE q = r
      <3>0. <<"tag", r>> \in Pending
        BY <1>5 DEF Fetched, Unfetched, Awaits
      <3>1. <<"tag", r>> \in Pending /\ <<"tag", r>> \in Pending'
        BY <1>4, <3>0
      <3>2. head'[q] = <<cmd.ref>> /\ head'[q] # << >> /\ head'[q][1] = cmd.ref
        BY <1>6, <2>2
      <3> QED  BY <2>2, <3>1, <3>2 DEF Unfetched, Awaits
    <2> QED  BY <2>1, <2>2
  <1>10. Staged'
    <2> SUFFICES ASSUME cmd.hipify, cmd.patch PROVE Staged'
      BY <1>2 DEF Staged
    <2>1. \A o \in Op, q \in Repo : o \notin {"fetch", "update"} =>
            (<<o, q>> \in Pending' <=> <<o, q>> \in Pending)
      BY <1>4
    <2>2. <<"tag", r>> \in Pending
      BY <1>5 DEF Fetched, Unfetched, Awaits
    <2>3. <<"base", r>> \in Pending /\ <<"convert", Root>> \in Pending /\ <<"commit", r>> \in Pending
      BY <1>5, <2>2 DEF Staged, Stage, Awaits
    <2>4. \A q \in Repo : /\ (<<"tag", q>> \in Pending' <=> <<"tag", q>> \in Pending)
                          /\ (<<"base", q>> \in Pending' <=> <<"base", q>> \in Pending)
                          /\ (<<"commit", q>> \in Pending' <=> <<"commit", q>> \in Pending)
                          /\ (<<"tag hipify", q>> \in Pending' <=> <<"tag hipify", q>> \in Pending)
                          /\ (<<"hipified", q>> \in Pending' <=> <<"hipified", q>> \in Pending)
                          /\ (<<"convert", Root>> \in Pending' <=> <<"convert", Root>> \in Pending)
      BY <2>1, RepoIs DEF Op
    <2>5. \A q \in Repo : q # r => (Built(q)' <=> Built(q))
      BY <1>2, <1>6, <2>4 DEF Built, Patches, HipifyNeeded, Awaits
    <2> QED  BY <1>2, <1>5, <1>6, <2>2, <2>3, <2>4, <2>5 DEF Staged, Stage, Patches, HipifyNeeded, Awaits
  <1>11. /\ InCheckout' /\ Tagged' /\ Hipified' /\ WholeIsBuilt
         /\ tree'.ref = cmd.ref /\ (~ Idle' => ~ tree'.done) /\ (tree'.whole => tree'.done)
    BY <1>2, <1>4, <1>5, <1>8, <1>9, <1>10, Completed
  <1>12. Ordered'
    BY <1>4 DEF Ordered
  <1>13. Kinds'
    BY <1>2, <1>4, <1>5, <1>11, KindsStay
  <1>14. Marks'
    BY <1>2, <1>6 DEF Marks, Inv
  <1> QED  BY <1>2, <1>8, <1>11, <1>12, <1>13, <1>14, Unchanged DEF Inv

LEMMA TagStep ==
  ASSUME Inv, NEW r \in Repo, TagUpstream(r)
  PROVE  Inv' /\ WholeIsBuilt
  <1>1. At("tag", r)
    BY DEF TagUpstream
  <1>2. /\ up' = [up EXCEPT ![r] = head[r]] /\ todo' = << >> \o Tail(todo)
        /\ tree' = IF todo' = << >> /\ cmd.kind = "checkout"
                   THEN [tree EXCEPT !.done = TRUE, !.whole = cmd.hipify /\ cmd.patch] ELSE tree
        /\ UNCHANGED <<head, hip, dirty, am, dir, kept, cmd, converts, given>>
    BY DEF TagUpstream, Continue
  <1>3. TypeOK /\ Ordered
    BY DEF Inv
  <1>4. /\ todo' \in Seq(Step) /\ InOrder(todo')
        /\ Pending' = Pending \ {<<"tag", r>>}
        /\ <<"tag", r>> \notin Pending'
        /\ \A o, q : o # "tag" \/ q # r => (<<o, q>> \in Pending' <=> <<o, q>> \in Pending)
        /\ Idle' <=> Pending' = {}
        /\ \A i \in DOMAIN todo' : todo'[i][1] # "tag hipify"
    BY <1>1, <1>2, <1>3, Advance
  <1>5. /\ ~ Idle /\ cmd.kind = "checkout" /\ Fetched /\ Staged
        /\ <<"tag", r>> \in Pending
    BY <1>1, CheckoutAt
  <1>6. <<"fetch", r>> \notin Pending /\ <<"update", r>> \notin Pending
    BY <1>1, StageAt DEF Op
  <1>7. head[r] = <<cmd.ref>>
    BY <1>5, <1>6 DEF Fetched, Unfetched, Awaits
  <1>8. up'[r] = <<cmd.ref>> /\ \A q \in Repo : q # r => up'[q] = up[q]
    BY <1>2, <1>3, <1>7 DEF TypeOK
  <1>9. TypeOK'
    <2>1. up' \in [Repo -> History \union {None}]
      BY <1>2, <1>3 DEF TypeOK
    <2>2. tree' \in [ref : Ref, done : BOOLEAN, whole : BOOLEAN]
      BY <1>2, <1>3 DEF TypeOK
    <2> QED  BY <1>2, <1>3, <1>4, <2>1, <2>2 DEF TypeOK
  <1>10. Fetched'
    <2> SUFFICES ASSUME NEW q \in Repo
                 PROVE  /\ Unfetched(q)' => Awaits("tag", q)'
                        /\ ~ Unfetched(q)' => head'[q] # << >> /\ head'[q][1] = cmd.ref
                        /\ ~ Unfetched(q)' /\ Awaits("tag", q)' => head'[q] = <<cmd.ref>>
                        /\ ~ Awaits("tag", q)' => up'[q] = <<cmd.ref>>
      BY <1>2 DEF Fetched
    <2>1. /\ <<"fetch", q>> \in Pending' <=> <<"fetch", q>> \in Pending
          /\ <<"update", q>> \in Pending' <=> <<"update", q>> \in Pending
          /\ q # r => (<<"tag", q>> \in Pending' <=> <<"tag", q>> \in Pending)
      BY <1>4
    <2> QED  BY <1>2, <1>4, <1>5, <1>6, <1>8, <2>1 DEF Fetched, Unfetched, Awaits
  <1>11. Staged'
    <2> SUFFICES ASSUME cmd.hipify, cmd.patch PROVE Staged'
      BY <1>2 DEF Staged
    <2>1. \A q \in Repo : /\ (<<"base", q>> \in Pending' <=> <<"base", q>> \in Pending)
                          /\ (<<"commit", q>> \in Pending' <=> <<"commit", q>> \in Pending)
                          /\ (<<"tag hipify", q>> \in Pending' <=> <<"tag hipify", q>> \in Pending)
                          /\ (<<"hipified", q>> \in Pending' <=> <<"hipified", q>> \in Pending)
                          /\ (<<"convert", Root>> \in Pending' <=> <<"convert", Root>> \in Pending)
                          /\ (<<"tag", q>> \in Pending' => <<"tag", q>> \in Pending)
                          /\ q # r => (<<"tag", q>> \in Pending' <=> <<"tag", q>> \in Pending)
      BY <1>4
    <2>2. \A q \in Repo : Built(q)' <=> Built(q)
      BY <1>2, <2>1 DEF Built, Patches, HipifyNeeded, Awaits
    <2> QED  BY <1>2, <1>5, <1>7, <2>1, <2>2 DEF Staged, Stage, Patches, HipifyNeeded, Awaits
  <1>12. /\ InCheckout' /\ Tagged' /\ Hipified' /\ WholeIsBuilt
         /\ tree'.ref = cmd.ref /\ (~ Idle' => ~ tree'.done) /\ (tree'.whole => tree'.done)
    BY <1>2, <1>4, <1>5, <1>9, <1>10, <1>11, Completed
  <1>13. Ordered'
    BY <1>4 DEF Ordered
  <1>14. Kinds'
    BY <1>2, <1>4, <1>5, <1>12, KindsStay
  <1> QED  BY <1>2, <1>9, <1>12, <1>13, <1>14, Unchanged DEF Inv

(* git am of all patches.                                                   *)
LEMMA ApplyStep ==
  ASSUME Inv, NEW r \in Repo, Apply(r)
  PROVE  Inv' /\ WholeIsBuilt
  <1>1. PICK stage \in {"base", "hipified"} :
          /\ At(stage, r)
          /\ dir[cmd.ref][r][stage] # << >> => am[r] = None
          /\ head' = [head EXCEPT ![r] = @ \o dir[cmd.ref][r][stage]]
          /\ Continue(<< >>)
          /\ UNCHANGED <<up, hip, dirty, am, dir, kept>>
    BY DEF Apply
  <1>2. /\ head' = [head EXCEPT ![r] = head[r] \o dir[cmd.ref][r][stage]] /\ todo' = << >> \o Tail(todo)
        /\ tree' = IF todo' = << >> /\ cmd.kind = "checkout"
                   THEN [tree EXCEPT !.done = TRUE, !.whole = cmd.hipify /\ cmd.patch] ELSE tree
        /\ UNCHANGED <<up, hip, dirty, am, dir, kept, cmd, converts, given>>
    BY <1>1 DEF Continue
  <1>3. TypeOK /\ Ordered
    BY DEF Inv
  <1>4. /\ todo' \in Seq(Step) /\ InOrder(todo')
        /\ Pending' = Pending \ {<<stage, r>>}
        /\ <<stage, r>> \notin Pending'
        /\ \A o, q : o # stage \/ q # r => (<<o, q>> \in Pending' <=> <<o, q>> \in Pending)
        /\ Idle' <=> Pending' = {}
        /\ \A i \in DOMAIN todo' : todo'[i][1] # "tag hipify"
    BY <1>1, <1>2, <1>3, Advance
  <1>5. /\ ~ Idle /\ cmd.kind = "checkout" /\ Fetched /\ Staged
        /\ <<stage, r>> \in Pending
    BY <1>1, CheckoutAt
  <1>6. \A q \in Repo : /\ <<"fetch", q>> \notin Pending /\ <<"update", q>> \notin Pending
                        /\ <<"tag", q>> \notin Pending
    BY <1>1, StageAt DEF Op
  <1> DEFINE b == dir[cmd.ref][r].base
             p == dir[cmd.ref][r].hipified
             x == cmd.ref
  <1>7. /\ x \in Ref /\ b \in Seq(Change) /\ p \in Seq(Change) /\ head[r] \in Seq(Change)
        /\ dir[cmd.ref][r][stage] = IF stage = "base" THEN b ELSE p
    BY <1>3 DEF TypeOK, History
  <1>8. /\ head'[r] = head[r] \o (IF stage = "base" THEN b ELSE p)
        /\ \A q \in Repo : q # r => head'[q] = head[q]
    BY <1>2, <1>3, <1>7 DEF TypeOK
  <1>9. \A q \in Repo : head[q] # << >> /\ head[q][1] = cmd.ref
    BY <1>5, <1>6 DEF Fetched, Unfetched, Awaits
  <1>10. head'[r] \in History /\ head'[r] # << >> /\ head'[r][1] = cmd.ref
    <2> DEFINE a == head[r]
               d == IF stage = "base" THEN b ELSE p
    <2>1. a \in Seq(Change) /\ d \in Seq(Change) /\ a # << >> /\ a[1] = x
      BY <1>7, <1>9
    <2> HIDE DEF a, d, x
    <2>2. a \o d \in Seq(Change) /\ a \o d # << >> /\ (a \o d)[1] = x
      BY <2>1
    <2> QED  BY <1>8, <2>2 DEF a, d, x, History
  <1>11. TypeOK'
    <2>1. head' \in [Repo -> History]
      BY <1>2, <1>3, <1>8, <1>10 DEF TypeOK
    <2>2. tree' \in [ref : Ref, done : BOOLEAN, whole : BOOLEAN]
      BY <1>2, <1>3 DEF TypeOK
    <2> QED  BY <1>2, <1>3, <1>4, <2>1, <2>2 DEF TypeOK
  <1>12. Fetched'
    <2> SUFFICES ASSUME NEW q \in Repo
                 PROVE  /\ Unfetched(q)' => Awaits("tag", q)'
                        /\ ~ Unfetched(q)' => head'[q] # << >> /\ head'[q][1] = cmd.ref
                        /\ ~ Unfetched(q)' /\ Awaits("tag", q)' => head'[q] = <<cmd.ref>>
                        /\ ~ Awaits("tag", q)' => up'[q] = <<cmd.ref>>
      BY <1>2 DEF Fetched
    <2>1. /\ <<"fetch", q>> \notin Pending' /\ <<"update", q>> \notin Pending'
          /\ <<"tag", q>> \notin Pending'
      BY <1>4, <1>6
    <2>2. up[q] = <<cmd.ref>>
      BY <1>5, <1>6 DEF Fetched, Awaits
    <2> QED  BY <1>2, <1>8, <1>9, <1>10, <2>1, <2>2 DEF Unfetched, Awaits
  <1>13. Staged'
    <2> SUFFICES ASSUME cmd.hipify, cmd.patch PROVE Staged'
      BY <1>2 DEF Staged
    <2>1. \A q \in Repo : /\ (<<"commit", q>> \in Pending' <=> <<"commit", q>> \in Pending)
                          /\ (<<"tag hipify", q>> \in Pending' <=> <<"tag hipify", q>> \in Pending)
                          /\ (<<"convert", Root>> \in Pending' <=> <<"convert", Root>> \in Pending)
                          /\ <<"tag", q>> \notin Pending'
                          /\ (q # r => (<<"hipified", q>> \in Pending' <=> <<"hipified", q>> \in Pending))
                          /\ (q # r => (<<"base", q>> \in Pending' <=> <<"base", q>> \in Pending))
      BY <1>1, <1>4, <1>6
    <2>2. \A q \in Repo : q # r => (Built(q)' <=> Built(q))
      BY <1>2, <1>8, <2>1 DEF Built, Patches, HipifyNeeded, Awaits
    <2>3. CASE stage = "base"
      <3>1. /\ <<"base", r>> \in Pending /\ <<"base", r>> \notin Pending'
            /\ <<"hipified", r>> \in Pending' <=> <<"hipified", r>> \in Pending
        BY <1>4, <1>5, <2>3
      <3>2. /\ <<"convert", Root>> \in Pending /\ <<"commit", r>> \in Pending
            /\ <<"hipified", r>> \in Pending /\ head[r] = <<cmd.ref>>
        BY <1>5, <1>6, <3>1 DEF Staged, Stage, Awaits
      <3>3. head'[r] = <<cmd.ref>> \o b /\ (b # << >> => am[r] = None)
        <4>1. dir[cmd.ref][r][stage] = b
          BY <1>7, <2>3
        <4>2. b # << >> => am[r] = None
          BY <1>1, <4>1
        <4>3. head'[r] = head[r] \o b
          BY <1>8, <2>3
        <4> HIDE DEF b
        <4> QED  BY <3>2, <4>2, <4>3
      <3>4. \A q \in Repo : Stage(q)
        BY <1>5 DEF Staged
      <3>5. ASSUME NEW q \in Repo, q # r PROVE Stage(q)'
        <4>1. head'[q] = head[q] /\ (Built(q)' <=> Built(q)) /\ Stage(q)
          BY <1>8, <2>2, <3>4, <3>5
        <4>2. /\ (<<"commit", q>> \in Pending' <=> <<"commit", q>> \in Pending)
              /\ (<<"tag hipify", q>> \in Pending' <=> <<"tag hipify", q>> \in Pending)
              /\ (<<"convert", Root>> \in Pending' <=> <<"convert", Root>> \in Pending)
              /\ <<"tag", q>> \notin Pending' /\ <<"tag", q>> \notin Pending
              /\ (<<"hipified", q>> \in Pending' <=> <<"hipified", q>> \in Pending)
              /\ (<<"base", q>> \in Pending' <=> <<"base", q>> \in Pending)
          BY <1>6, <2>1, <3>5
        <4> QED  BY <1>2, <4>1, <4>2 DEF Stage, Patches, HipifyNeeded, Awaits
      <3>6. Stage(r)'
        <4>1. /\ <<"commit", r>> \in Pending' /\ <<"convert", Root>> \in Pending'
              /\ <<"hipified", r>> \in Pending' /\ <<"tag", r>> \notin Pending'
          BY <2>1, <3>1, <3>2
        <4>2. Patches(r)'.base = b
          BY <1>2 DEF Patches
        <4> HIDE DEF b
        <4> QED  BY <1>2, <3>1, <3>3, <4>1, <4>2 DEF Stage, Awaits
      <3> QED  BY <3>5, <3>6 DEF Staged
    <2>4. CASE stage = "hipified"
      <3>1. /\ <<"hipified", r>> \in Pending /\ <<"hipified", r>> \notin Pending'
            /\ <<"base", r>> \in Pending' <=> <<"base", r>> \in Pending
        BY <1>4, <1>5, <2>4
      <3>2. /\ <<"convert", Root>> \notin Pending
            /\ \A q \in Repo : <<"base", q>> \notin Pending /\ <<"commit", q>> \notin Pending
        BY <1>1, <2>4, StageAt DEF Op
      <3>3. \A q \in Repo : <<"tag hipify", q>> \notin Pending
        BY <1>1, <1>3, <2>4, Order
      <3>4. Built(r)
        BY <1>5, <3>2 DEF Staged, Stage, Awaits
      <3>5. PICK h \in {<< >>, <<Hipify>>} :
              /\ head[r] = <<cmd.ref>> \o b \o h \o << >>
              /\ h # << >> => hip[r] # None
              /\ HipifyNeeded(r) => h # << >>
        BY <3>1, <3>3, <3>4 DEF Built, Awaits, Patches
      <3>6. head'[r] = <<cmd.ref>> \o b \o h \o p
        <4> DEFINE a == <<x>> \o b \o h
        <4>1. a \in Seq(Change)
          <5>1. Hipify \in Change /\ x \in Change
            BY <1>7 DEF Change
          <5>2. << >> \in Seq(Change) /\ <<Hipify>> \in Seq(Change)
            BY <5>1
          <5>3. h \in Seq(Change) /\ <<x>> \in Seq(Change)
            <6>1. h = << >> \/ h = <<Hipify>>
              OBVIOUS
            <6>2. h \in Seq(Change)
              BY ONLY <5>2, <6>1
            <6> QED  BY <5>1, <6>2
          <5> HIDE DEF b, x
          <5> QED  BY <1>7, <5>3
        <4> HIDE DEF a
        <4>2. a \o << >> = a
          BY <4>1
        <4>3. head[r] = a
          BY <3>5, <4>2 DEF a
        <4>4. head'[r] = head[r] \o p
          BY <1>8, <2>4
        <4> QED  BY <4>3, <4>4 DEF a
      <3>7. Built(r)'
        <4>1. /\ head'[r] = <<cmd.ref>> \o b \o h \o (IF <<"hipified", r>> \in Pending' THEN << >> ELSE p)
              /\ h # << >> => hip'[r] # None \/ <<"tag hipify", r>> \in Pending'
              /\ HipifyNeeded(r) => h # << >>
          BY <1>2, <3>1, <3>5, <3>6
        <4> HIDE DEF b, p
        <4>2. Patches(r)'.base = b /\ Patches(r)'.hipified = p /\ (HipifyNeeded(r)' <=> HipifyNeeded(r))
          BY <1>2 DEF Patches, HipifyNeeded, b, p
        <4> QED  BY <1>2, <4>1, <4>2 DEF Built, Awaits
      <3>8. \A q \in Repo : <<"base", q>> \notin Pending' /\ <<"commit", q>> \notin Pending'
                            /\ <<"convert", Root>> \notin Pending' /\ <<"tag hipify", q>> \notin Pending'
        BY <2>1, <3>1, <3>2, <3>3
      <3>9. \A q \in Repo : Built(q)'
        BY <1>5, <2>2, <3>2, <3>7 DEF Staged, Stage, Awaits
      <3>10. \A q \in Repo : dir[cmd.ref][q].base # << >> => am[q] = None
        BY <1>5, <3>2 DEF Staged, Stage, Awaits, Patches
      <3> QED  BY <1>2, <2>1, <3>8, <3>9, <3>10 DEF Staged, Stage, Patches, Awaits
    <2> QED  BY <2>3, <2>4
  <1>14. /\ InCheckout' /\ Tagged' /\ Hipified' /\ WholeIsBuilt
         /\ tree'.ref = cmd.ref /\ (~ Idle' => ~ tree'.done) /\ (tree'.whole => tree'.done)
    BY <1>2, <1>4, <1>5, <1>11, <1>12, <1>13, Completed
  <1>15. Ordered'
    BY <1>4 DEF Ordered
  <1>16. Kinds'
    BY <1>2, <1>4, <1>5, <1>14, KindsStay
  <1>17. Marks'
    BY <1>2, <1>8, <1>10 DEF Marks, Inv
  <1> QED  BY <1>2, <1>11, <1>14, <1>15, <1>16, <1>17, Unchanged DEF Inv

-----------------------------------------------------------------------------
(* HIPIFY, in a checkout or as a command of its own.                        *)

LEMMA AppendKeeps ==
  ASSUME NEW s \in Seq(Change), s # << >>, NEW c \in Change
  PROVE  /\ Append(s, c) # << >> /\ Append(s, c)[1] = s[1] /\ Append(s, c) \in Seq(Change)
         /\ Contains(s, Hipify) => Contains(Append(s, c), Hipify)
  <1> DEFINE u == Append(s, c)
  <1>1. u \in Seq(Change) /\ Len(u) = Len(s) + 1 /\ Len(s) \in Nat /\ Len(s) >= 1
        /\ \A i \in 1 .. Len(s) : u[i] = s[i]
    OBVIOUS
  <1> HIDE DEF u
  <1>2. 1 \in 1 .. Len(s) /\ \A i \in 1 .. Len(s) : i \in 1 .. Len(u)
    BY <1>1
  <1>3. Contains(s, Hipify) => Contains(u, Hipify)
    BY <1>1, <1>2 DEF Contains
  <1>4. u # << >> /\ u[1] = s[1]
    BY <1>1, <1>2
  <1> QED  BY <1>1, <1>3, <1>4 DEF u

(* A history that is continued stays one of that upstream commit.           *)
LEMMA Grown ==
  ASSUME Inv, UNCHANGED <<up, am, converts, tree>>,
         \A q \in Repo : hip[q] # None => hip'[q] # None,
         \A q \in Repo : head'[q] = head[q] \/ \E c \in Change : head'[q] = Append(head[q], c)
  PROVE  Tagged' /\ Hipified'
  <1>1. TypeOK /\ Tagged /\ Hipified /\ Kinds
    BY DEF Inv
  <1>2. ASSUME NEW q \in Repo, head[q] # << >>
        PROVE  /\ head'[q] # << >> /\ head'[q][1] = head[q][1]
               /\ Contains(head[q], Hipify) => Contains(head'[q], Hipify)
    <2>1. head[q] \in Seq(Change)
      BY <1>1 DEF TypeOK, History
    <2>2. CASE head'[q] = head[q]
      BY <1>2, <2>2
    <2>3. CASE \E c \in Change : head'[q] = Append(head[q], c)
      BY <1>2, <2>1, <2>3, AppendKeeps
    <2> QED  BY <2>2, <2>3
  <1>3. Tagged'
    BY <1>1, <1>2 DEF Tagged
  <1>4. Hipified'
    <2> SUFFICES ASSUME tree.whole, NEW q \in converts[tree.ref], hip[q] = None
                 PROVE  am[q] = None /\ Contains(head'[q], Hipify)
      BY <1>1 DEF Hipified, TypeOK
    <2>1. q \in Repo
      BY <1>1 DEF TypeOK
    <2>2. am[q] = None /\ Contains(head[q], Hipify)
      BY <1>1 DEF Hipified
    <2>3. head[q] # << >>
      BY <1>1, <2>1 DEF Tagged, Kinds
    <2> QED  BY <1>2, <2>1, <2>2, <2>3
  <1> QED  BY <1>3, <1>4

LEMMA ConvertStep ==
  ASSUME Inv, Convert
  PROVE  Inv' /\ WholeIsBuilt
  <1>1. At("convert", Root) /\ Root \in Repo
    BY RepoIs DEF Convert
  <1>2. PICK new \in SUBSET {r \in Cloned \intersect converts[cmd.ref] : Last(head[r]) # Hipify} :
       /\ {r \in Cloned \intersect converts[cmd.ref] : ~ Contains(head[r], Hipify)} \subseteq new
       /\ dirty' = [r \in Repo |-> dirty[r] \/ r \in new]
    BY DEF Convert
  <1>3. /\ todo' = << >> \o Tail(todo)
        /\ tree' = IF todo' = << >> /\ cmd.kind = "checkout"
                   THEN [tree EXCEPT !.done = TRUE, !.whole = cmd.hipify /\ cmd.patch] ELSE tree
        /\ UNCHANGED <<head, up, hip, am, dir, kept, cmd, converts, given>>
    BY DEF Convert, Continue
  <1>4. TypeOK /\ Ordered /\ Kinds
    BY DEF Inv
  <1>5. /\ todo' \in Seq(Step) /\ InOrder(todo')
        /\ Pending' = Pending \ {<<"convert", Root>>}
        /\ <<"convert", Root>> \notin Pending'
        /\ \A o, q : o # "convert" \/ q # Root => (<<o, q>> \in Pending' <=> <<o, q>> \in Pending)
        /\ Idle' <=> Pending' = {}
        /\ ~ Idle
        /\ \A i \in DOMAIN todo' : todo'[i][1] # "tag hipify"
    BY <1>1, <1>3, <1>4, Advance
  <1>6. \A q \in Repo : /\ <<"fetch", q>> \notin Pending /\ <<"update", q>> \notin Pending
                        /\ <<"tag", q>> \notin Pending /\ <<"base", q>> \notin Pending
    BY <1>1, StageAt DEF Op
  <1>7. \A q \in Repo : /\ (<<"fetch", q>> \in Pending' <=> <<"fetch", q>> \in Pending)
                        /\ (<<"update", q>> \in Pending' <=> <<"update", q>> \in Pending)
                        /\ (<<"tag", q>> \in Pending' <=> <<"tag", q>> \in Pending)
                        /\ (<<"base", q>> \in Pending' <=> <<"base", q>> \in Pending)
                        /\ (<<"commit", q>> \in Pending' <=> <<"commit", q>> \in Pending)
                        /\ (<<"tag hipify", q>> \in Pending' <=> <<"tag hipify", q>> \in Pending)
                        /\ (<<"hipified", q>> \in Pending' <=> <<"hipified", q>> \in Pending)
    BY <1>5
  <1>8. TypeOK'
    <2>1. dirty' \in [Repo -> BOOLEAN]
      BY <1>2, <1>4 DEF TypeOK
    <2>2. tree' \in [ref : Ref, done : BOOLEAN, whole : BOOLEAN]
      BY <1>3, <1>4 DEF TypeOK
    <2> QED  BY <1>3, <1>4, <1>5, <2>1, <2>2 DEF TypeOK
  <1>9. \A q \in Repo : (dirty[q] => dirty'[q]) /\ (dirty'[q] => dirty[q] \/ q \in Cloned)
    BY <1>2, <1>4 DEF TypeOK
  <1>10. Marks'
    BY <1>3, <1>9 DEF Marks, Inv, Cloned
  <1>11. Ordered'
    BY <1>5 DEF Ordered
  <1>12. CASE cmd.kind = "checkout"
    <2>1. Fetched /\ Staged
      BY <1>5, <1>12 DEF Inv, InCheckout
    <2>2. Fetched'
      BY <1>3, <1>7, <2>1 DEF Fetched, Unfetched, Awaits
    <2>3. Staged'
      <3> SUFFICES ASSUME cmd.hipify, cmd.patch, NEW q \in Repo PROVE Stage(q)'
        BY <1>3 DEF Staged
      <3>1. Stage(q)
        BY <2>1 DEF Staged
      <3>2. Built(q)' <=> Built(q)
        BY <1>3, <1>7 DEF Built, Patches, HipifyNeeded, Awaits
      <3>3. ASSUME <<"commit", q>> \in Pending, HipifyNeeded(q)
            PROVE  dirty'[q]
        <4> DEFINE b == dir[cmd.ref][q].base
                   x == cmd.ref
        <4>1. head[q] = <<x>> \o b
          BY <1>6, <3>1, <3>3 DEF Stage, Awaits, Patches
        <4>2. x \in Change /\ x # Hipify /\ b \in Seq(Change)
          BY <1>4, NoneIsNoHistory DEF TypeOK, History
        <4>3. q \in converts[x] /\ ~ Contains(b, Hipify)
          BY <3>3 DEF HipifyNeeded, Patches
        <4> HIDE DEF b, x
        <4>4. head[q] # << >> /\ ~ Contains(head[q], Hipify)
          <5> DEFINE s == <<x>> \o b
          <5>1. /\ s \in Seq(Change) /\ Len(s) = 1 + Len(b) /\ Len(b) \in Nat /\ s[1] = x
                /\ \A i \in 1 .. Len(b) : s[i + 1] = b[i]
            BY <4>2
          <5> HIDE DEF s
          <5>2. \A i \in 1 .. Len(s) : i # 1 => i - 1 \in 1 .. Len(b) /\ s[i] = b[i - 1]
            <6> SUFFICES ASSUME NEW i \in 1 .. Len(s), i # 1
                         PROVE  i - 1 \in 1 .. Len(b) /\ s[i] = b[i - 1]
              OBVIOUS
            <6>1. i - 1 \in 1 .. Len(b) /\ (i - 1) + 1 = i
              BY <5>1
            <6> QED  BY <5>1, <6>1
          <5>3. ~ Contains(s, Hipify)
            BY <4>2, <4>3, <5>1, <5>2 DEF Contains
          <5>4. s # << >>
            BY <5>1
          <5> QED  BY <4>1, <5>3, <5>4 DEF s
        <4>5. q \in Cloned
          BY <4>4 DEF Cloned
        <4>6. q \in new
          BY <1>2, <4>3, <4>4, <4>5 DEF x
        <4> QED  BY <1>2, <4>6
      <3> QED  BY <1>3, <1>5, <1>6, <1>7, <1>9, <3>1, <3>2, <3>3
               DEF Stage, Patches, HipifyNeeded, Awaits
    <2>4. /\ InCheckout' /\ Tagged' /\ Hipified' /\ WholeIsBuilt
          /\ tree'.ref = cmd.ref /\ (~ Idle' => ~ tree'.done) /\ (tree'.whole => tree'.done)
      BY <1>3, <1>5, <1>8, <1>12, <2>2, <2>3, Completed
    <2>5. Kinds'
      BY <1>1, <1>3, <1>5, <2>4, KindsStay
    <2> QED  BY <1>3, <1>8, <1>10, <1>11, <2>4, <2>5, Unchanged DEF Inv
  <1>13. CASE cmd.kind # "checkout"
    <2>1. tree' = tree
      BY <1>3, <1>13
    <2>2. InCheckout'
      BY <1>3, <1>13 DEF InCheckout
    <2>3. tree.ref = cmd.ref /\ (tree.whole => tree.done)
      BY <1>4, <1>5 DEF Kinds
    <2>4. Kinds'
      BY <1>1, <1>3, <1>5, <1>13, <2>1, <2>3, KindsStay
    <2>5. WholeIsBuilt
      BY <2>1 DEF WholeIsBuilt
    <2> QED  BY <1>3, <1>8, <1>10, <1>11, <2>1, <2>2, <2>4, <2>5, Unchanged DEF Inv
  <1> QED  BY <1>12, <1>13

(* After the HIPIFY commit comes its tag.                                   *)
LEMMA Push ==
  ASSUME TypeOK, Ordered, NEW r \in Repo, At("commit", r)
  PROVE  LET n == <<<<"tag hipify", r>>>> \o Tail(todo) IN
         /\ n \in Seq(Step) /\ InOrder(n) /\ n # << >>
         /\ ToSet(n) = (Pending \ {<<"commit", r>>}) \union {<<"tag hipify", r>>}
         /\ n[1] = <<"tag hipify", r>>
         /\ \A i \in DOMAIN n : i # 1 => n[i][1] # "tag hipify"
  <1> DEFINE e == <<"tag hipify", r>>
             c == <<"commit", r>>
             s == Tail(todo)
             n == <<e>> \o s
  <1>1. InOrder(todo) /\ todo # << >> /\ Head(todo) = c /\ todo \in Seq(Step)
    BY DEF Ordered, At, Idle, TypeOK
  <1>2. e \in Step /\ Rank(e) = 6 /\ Rank(c) = 6 /\ e # c
    BY Ranks DEF Step, Op
  <1>3. e \notin Pending
    <2>1. "commit" # "tag hipify"
      OBVIOUS
    <2> QED  BY <2>1, Order
  <1> HIDE DEF e, c
  <1>4. InOrder(s) /\ ToSet(s) = ToSet(todo) \ {c}
        /\ \A f \in ToSet(todo) : f # c => Rank(c) <= Rank(f)
    <2>1. InOrder(s) /\ ToSet(s) = ToSet(todo) \ {Head(todo)}
      BY <1>1, Rest
    <2>2. \A f \in ToSet(todo) : f # Head(todo) => Rank(Head(todo)) <= Rank(f)
      BY <1>1, Rest
    <2> QED  BY <1>1, <2>1, <2>2
  <1>5. InOrder(<<e>>) /\ ToSet(<<e>>) = {e}
    BY <1>2, Single
  <1>6. \A d \in ToSet(<<e>>), f \in ToSet(s) : d # f /\ Rank(d) <= Rank(f)
    BY <1>2, <1>3, <1>4, <1>5 DEF Pending
  <1>7. InOrder(n) /\ ToSet(n) = {e} \union (ToSet(todo) \ {c})
    BY <1>4, <1>5, <1>6, Concat
  <1>8. /\ s \in Seq(Step) /\ Len(s) \in Nat /\ Len(s) = Len(todo) - 1 /\ DOMAIN todo = 1 .. Len(todo)
        /\ \A k \in 1 .. Len(s) : s[k] = todo[k + 1]
    BY ONLY <1>1
  <1> HIDE DEF s
  <1>9. n \in Seq(Step) /\ n # << >> /\ n[1] = e
        /\ DOMAIN n = 1 .. Len(s) + 1 /\ \A i \in 1 .. Len(s) : n[i + 1] = s[i]
    BY <1>2, <1>8
  <1> HIDE DEF n
  <1>10. \A i \in DOMAIN n : i # 1 => n[i][1] # "tag hipify"
    <2> SUFFICES ASSUME NEW i \in DOMAIN n, i # 1 PROVE n[i][1] # "tag hipify"
      OBVIOUS
    <2>1. i - 1 \in 1 .. Len(s) /\ (i - 1) + 1 = i /\ i \in DOMAIN todo
      BY <1>8, <1>9
    <2>2. n[i] = todo[i]
      BY <1>8, <1>9, <2>1
    <2>3. todo[i][1] = "tag hipify" => i = 1
      BY <2>1 DEF Ordered
    <2> QED  BY <2>2, <2>3
  <1>11. ToSet(n) = (Pending \ {c}) \union {e}
    BY <1>7 DEF Pending
  <1> QED  BY <1>7, <1>9, <1>10, <1>11 DEF n, s, e, c

LEMMA CommitHipifyStep ==
  ASSUME Inv, NEW r \in Repo, CommitHipify(r)
  PROVE  Inv' /\ WholeIsBuilt
  <1>1. At("commit", r)
    BY DEF CommitHipify
  <1>2. /\ head' = [head EXCEPT ![r] = IF dirty[r] THEN Append(head[r], Hipify) ELSE head[r]]
        /\ dirty' = [dirty EXCEPT ![r] = FALSE]
        /\ todo' = (IF dirty[r] THEN <<<<"tag hipify", r>>>> ELSE << >>) \o Tail(todo)
        /\ tree' = IF todo' = << >> /\ cmd.kind = "checkout"
                   THEN [tree EXCEPT !.done = TRUE, !.whole = cmd.hipify /\ cmd.patch] ELSE tree
        /\ UNCHANGED <<up, hip, am, dir, kept, cmd, converts, given>>
    BY DEF CommitHipify, Continue
  <1>3. TypeOK /\ Ordered /\ Kinds /\ Marks /\ ~ Idle
    BY <1>1 DEF Inv, At
  <1>4. <<"commit", r>> \in Pending /\ \A q \in Repo : <<"tag hipify", q>> \notin Pending
    <2>1. "commit" # "tag hipify"
      OBVIOUS
    <2> QED  BY <1>1, <1>3, <2>1, Order
  <1>5. /\ todo' \in Seq(Step) /\ InOrder(todo')
        /\ Pending' = (Pending \ {<<"commit", r>>})
                        \union (IF dirty[r] THEN {<<"tag hipify", r>>} ELSE {})
        /\ Idle' <=> Pending' = {}
        /\ \A i \in DOMAIN todo' : todo'[i][1] = "tag hipify" => dirty[r] /\ i = 1
        /\ dirty[r] => todo'[1] = <<"tag hipify", r>>
    <2>1. CASE dirty[r]
      <3> DEFINE n == <<<<"tag hipify", r>>>> \o Tail(todo)
      <3>1. /\ n \in Seq(Step) /\ InOrder(n) /\ n # << >>
            /\ ToSet(n) = (Pending \ {<<"commit", r>>}) \union {<<"tag hipify", r>>}
            /\ n[1] = <<"tag hipify", r>>
            /\ \A i \in DOMAIN n : i # 1 => n[i][1] # "tag hipify"
        BY <1>1, <1>3, Push
      <3>2. todo' = n
        BY <1>2, <2>1
      <3> HIDE DEF n
      <3>3. Pending' = (Pending \ {<<"commit", r>>}) \union {<<"tag hipify", r>>} /\ ~ Idle'
        BY <3>1, <3>2 DEF Pending, Idle
      <3>4. Pending' # {}
        BY <3>3
      <3> QED  BY <2>1, <3>1, <3>2, <3>3, <3>4
    <2>2. CASE ~ dirty[r]
      <3>1. todo' = << >> \o Tail(todo)
        BY <1>2, <2>2
      <3> QED  BY <1>1, <1>3, <2>2, <3>1, Advance
    <2> QED  BY <2>1, <2>2
  <1>6. \A o, q : o \notin {"commit", "tag hipify"} \/ q # r =>
                    (<<o, q>> \in Pending' <=> <<o, q>> \in Pending)
    <2> SUFFICES ASSUME NEW o, NEW q, o \notin {"commit", "tag hipify"} \/ q # r
                 PROVE  <<o, q>> \in Pending' <=> <<o, q>> \in Pending
      OBVIOUS
    <2>1. <<o, q>> # <<"commit", r>> /\ <<o, q>> # <<"tag hipify", r>>
      OBVIOUS
    <2> QED  BY <1>5, <2>1
  <1>7. <<"commit", r>> \notin Pending' /\ (<<"tag hipify", r>> \in Pending' <=> dirty[r])
    BY <1>4, <1>5
  <1>8. \A q \in Repo : /\ <<"fetch", q>> \notin Pending /\ <<"update", q>> \notin Pending
                        /\ <<"tag", q>> \notin Pending /\ <<"base", q>> \notin Pending
                        /\ <<"convert", Root>> \notin Pending
    BY <1>1, StageAt DEF Op
  <1>9. /\ head'[r] = IF dirty[r] THEN Append(head[r], Hipify) ELSE head[r]
        /\ ~ dirty'[r]
        /\ \A q \in Repo : q # r => head'[q] = head[q] /\ dirty'[q] = dirty[q]
    BY <1>2, <1>3 DEF TypeOK
  <1>10. Hipify \in Change /\ head[r] \in Seq(Change) /\ (dirty[r] => head[r] # << >>)
    BY <1>3 DEF Change, History, TypeOK, Marks
  <1>11. /\ head'[r] \in History /\ (head[r] # << >> => head'[r] # << >> /\ head'[r][1] = head[r][1])
         /\ dirty[r] => Len(head'[r]) >= 2 /\ Last(head'[r]) = Hipify
    <2>1. CASE dirty[r]
      <3> DEFINE a == head[r]
      <3>1. a \in Seq(Change) /\ a # << >>
        BY <1>10, <2>1
      <3> HIDE DEF a
      <3>2. /\ Append(a, Hipify) \in Seq(Change) /\ Append(a, Hipify) # << >>
            /\ Append(a, Hipify)[1] = a[1]
        BY <1>10, <3>1, AppendKeeps
      <3>3. Len(Append(a, Hipify)) >= 2 /\ Last(Append(a, Hipify)) = Hipify
        BY <3>1 DEF Last
      <3>4. head'[r] = Append(a, Hipify)
        BY <1>9, <2>1 DEF a
      <3> QED  BY <3>2, <3>3, <3>4 DEF a, History
    <2>2. CASE ~ dirty[r]
      BY <1>9, <1>10, <2>2 DEF History
    <2> QED  BY <2>1, <2>2
  <1>12. TypeOK'
    <2>1. head' \in [Repo -> History]
      BY <1>2, <1>3, <1>9, <1>11 DEF TypeOK
    <2>2. tree' \in [ref : Ref, done : BOOLEAN, whole : BOOLEAN]
      BY <1>2, <1>3 DEF TypeOK
    <2>3. dirty' \in [Repo -> BOOLEAN]
      BY <1>2, <1>3 DEF TypeOK
    <2> QED  BY <1>2, <1>3, <1>5, <2>1, <2>2, <2>3 DEF TypeOK
  <1>13. Marks'
    <2> SUFFICES ASSUME NEW q \in Repo
                 PROVE  /\ hip[q] # None => Len(hip[q]) >= 2 /\ Last(hip[q]) = Hipify
                        /\ dirty'[q] => head'[q] # << >>
      BY <1>2 DEF Marks
    <2> QED  BY <1>3, <1>9 DEF Marks
  <1>14. Ordered'
    <2>1. ASSUME NEW i \in DOMAIN todo', todo'[i][1] = "tag hipify"
          PROVE  i = 1 /\ Len(head'[todo'[i][2]]) >= 2 /\ Last(head'[todo'[i][2]]) = Hipify
      <3>1. dirty[r] /\ i = 1 /\ todo'[i] = <<"tag hipify", r>>
        BY <1>5, <2>1
      <3>2. <<"tag hipify", r>>[2] = r
        OBVIOUS
      <3>3. todo'[i][2] = r
        BY <3>1, <3>2
      <3> QED  BY <1>11, <3>1, <3>3
    <2> QED  BY <1>5, <2>1 DEF Ordered
  <1>15. Pending' \subseteq Pending \union {<<"tag hipify", r>>}
    BY <1>5
  <1>16. CASE cmd.kind = "checkout"
    <2>1. Fetched /\ Staged
      BY <1>3, <1>16 DEF Inv, InCheckout
    <2>2. Fetched'
      <3> SUFFICES ASSUME NEW q \in Repo
                   PROVE  /\ Unfetched(q)' => Awaits("tag", q)'
                          /\ ~ Unfetched(q)' => head'[q] # << >> /\ head'[q][1] = cmd.ref
                          /\ ~ Unfetched(q)' /\ Awaits("tag", q)' => head'[q] = <<cmd.ref>>
                          /\ ~ Awaits("tag", q)' => up'[q] = <<cmd.ref>>
        BY <1>2 DEF Fetched
      <3>1. /\ <<"fetch", q>> \notin Pending' /\ <<"update", q>> \notin Pending'
            /\ <<"tag", q>> \notin Pending'
        BY <1>6, <1>8
      <3>2. head[q] # << >> /\ head[q][1] = cmd.ref /\ up[q] = <<cmd.ref>>
        BY <1>8, <2>1 DEF Fetched, Unfetched, Awaits
      <3> QED  BY <1>2, <1>9, <1>11, <3>1, <3>2 DEF Unfetched, Awaits
    <2>3. Staged'
      <3> SUFFICES ASSUME cmd.hipify, cmd.patch, NEW q \in Repo PROVE Stage(q)'
        BY <1>2 DEF Staged
      <3>1. Stage(q)
        BY <2>1 DEF Staged
      <3>2. /\ <<"tag", q>> \notin Pending' /\ <<"base", q>> \notin Pending'
            /\ <<"convert", Root>> \notin Pending'
            /\ (<<"hipified", q>> \in Pending' <=> <<"hipified", q>> \in Pending)
        BY <1>6, <1>8
      <3>3. CASE q # r
        <4>1. /\ (<<"commit", q>> \in Pending' <=> <<"commit", q>> \in Pending)
              /\ (<<"tag hipify", q>> \in Pending' <=> <<"tag hipify", q>> \in Pending)
          BY <1>6, <3>3
        <4>2. Built(q)' <=> Built(q)
          BY <1>2, <1>9, <3>2, <3>3, <4>1 DEF Built, Patches, HipifyNeeded, Awaits
        <4> QED  BY <1>2, <1>8, <1>9, <3>1, <3>2, <3>3, <4>1, <4>2
                 DEF Stage, Patches, HipifyNeeded, Awaits
      <3>4. CASE q = r
        <4> DEFINE b == dir[cmd.ref][r].base
                   p == dir[cmd.ref][r].hipified
                   x == cmd.ref
                   h == IF dirty[r] THEN <<Hipify>> ELSE << >>
        <4>1. /\ head[r] = <<x>> \o b /\ (b # << >> => am[r] = None)
              /\ <<"hipified", r>> \in Pending
              /\ HipifyNeeded(r) => dirty[r]
          BY <1>4, <1>8, <3>1, <3>4 DEF Stage, Awaits, Patches
        <4>2. b \in Seq(Change) /\ x \in Change
          BY <1>3, NoneIsNoHistory DEF TypeOK, History
        <4>3. head'[r] = <<x>> \o b \o h \o << >>
          <5> HIDE DEF b, x
          <5>1. CASE dirty[r]
            <6>1. Append(<<x>> \o b, Hipify) = <<x>> \o b \o <<Hipify>> \o << >>
              BY <4>2, <1>10
            <6> QED  BY <1>9, <4>1, <5>1, <6>1
          <5>2. CASE ~ dirty[r]
            <6>1. <<x>> \o b = <<x>> \o b \o << >> \o << >>
              BY <4>2
            <6> QED  BY <1>9, <4>1, <5>2, <6>1
          <5> QED  BY <5>1, <5>2
        <4>4. h # << >> => dirty[r]
          OBVIOUS
        <4>5. dirty[r] => h # << >>
          OBVIOUS
        <4>6. h \in {<< >>, <<Hipify>>}
          OBVIOUS
        <4> HIDE DEF h
        <4>7. Built(r)'
          <5>1. <<"hipified", r>> \in Pending'
            BY <3>2, <3>4, <4>1
          <5>2. Patches(r)'.base = b /\ (HipifyNeeded(r)' <=> HipifyNeeded(r)) /\ cmd' = cmd
            BY <1>2 DEF Patches, HipifyNeeded
          <5>3. h # << >> => hip'[r] # None \/ <<"tag hipify", r>> \in Pending'
            BY <1>7, <4>4
          <5>4. HipifyNeeded(r) => h # << >>
            BY <4>1, <4>5
          <5> HIDE DEF b
          <5> QED  BY <4>3, <4>6, <5>1, <5>2, <5>3, <5>4 DEF Built, Awaits
        <4> QED  BY <1>2, <1>7, <3>2, <3>4, <4>1, <4>7 DEF Stage, Patches, Awaits
      <3> QED  BY <3>3, <3>4
    <2>4. /\ InCheckout' /\ Tagged' /\ Hipified' /\ WholeIsBuilt
          /\ tree'.ref = cmd.ref /\ (~ Idle' => ~ tree'.done) /\ (tree'.whole => tree'.done)
      BY <1>2, <1>3, <1>5, <1>12, <1>16, <2>2, <2>3, Completed
    <2>5. Kinds'
      BY <1>2, <1>3, <1>15, <2>4, KindsStay
    <2> QED  BY <1>2, <1>12, <1>13, <1>14, <2>4, <2>5, Unchanged DEF Inv
  <1>17. CASE cmd.kind # "checkout"
    <2>1. tree' = tree
      BY <1>2, <1>17
    <2>2. InCheckout'
      BY <1>2, <1>17 DEF InCheckout
    <2>3. tree.ref = cmd.ref /\ (tree.whole => tree.done)
      BY <1>3 DEF Kinds
    <2>4. Kinds'
      BY <1>2, <1>3, <1>15, <1>17, <2>1, <2>3, KindsStay
    <2>5. Tagged' /\ Hipified'
      <3>1. \A q \in Repo : head'[q] = head[q] \/ \E c \in Change : head'[q] = Append(head[q], c)
        BY <1>9, <1>10
      <3> QED  BY <1>2, <2>1, <3>1, Grown
    <2>6. WholeIsBuilt
      BY <2>1 DEF WholeIsBuilt
    <2> QED  BY <1>2, <1>12, <1>13, <1>14, <2>2, <2>4, <2>5, <2>6, Unchanged DEF Inv
  <1> QED  BY <1>16, <1>17

LEMMA TagHipifyStep ==
  ASSUME Inv, NEW r \in Repo, TagHipify(r)
  PROVE  Inv' /\ WholeIsBuilt
  <1>1. At("tag hipify", r)
    BY DEF TagHipify
  <1>2. /\ hip' = [hip EXCEPT ![r] = head[r]] /\ todo' = << >> \o Tail(todo)
        /\ tree' = IF todo' = << >> /\ cmd.kind = "checkout"
                   THEN [tree EXCEPT !.done = TRUE, !.whole = cmd.hipify /\ cmd.patch] ELSE tree
        /\ UNCHANGED <<head, up, dirty, am, dir, kept, cmd, converts, given>>
    BY DEF TagHipify, Continue
  <1>3. TypeOK /\ Ordered /\ Kinds /\ Marks
    BY DEF Inv
  <1>4. /\ todo' \in Seq(Step) /\ InOrder(todo')
        /\ Pending' = Pending \ {<<"tag hipify", r>>}
        /\ \A o, q : o # "tag hipify" \/ q # r => (<<o, q>> \in Pending' <=> <<o, q>> \in Pending)
        /\ Idle' <=> Pending' = {}
        /\ ~ Idle
        /\ \A i \in DOMAIN todo' : todo'[i][1] # "tag hipify"
    BY <1>1, <1>2, <1>3, Advance
  <1>5. <<"tag hipify", r>> \in Pending
    BY <1>1, <1>3, Order
  <1>6. Len(head[r]) >= 2 /\ Last(head[r]) = Hipify
    BY <1>3, <1>5, TagIsNext
  <1>7. head[r] \in History /\ head[r] # None
    BY <1>3, NoneIsNoHistory DEF TypeOK
  <1>8. hip'[r] = head[r] /\ \A q \in Repo : q # r => hip'[q] = hip[q]
    BY <1>2, <1>3 DEF TypeOK
  <1>9. \A q \in Repo : hip[q] # None => hip'[q] # None
    BY <1>7, <1>8
  <1>10. TypeOK'
    <2>1. hip' \in [Repo -> History \union {None}]
      BY <1>2, <1>3, <1>7 DEF TypeOK
    <2>2. tree' \in [ref : Ref, done : BOOLEAN, whole : BOOLEAN]
      BY <1>2, <1>3 DEF TypeOK
    <2> QED  BY <1>2, <1>3, <1>4, <2>1, <2>2 DEF TypeOK
  <1>11. Ordered'
    BY <1>4 DEF Ordered
  <1>12. Marks'
    BY <1>2, <1>3, <1>6, <1>8 DEF Marks
  <1>13. \A q \in Repo : /\ (<<"fetch", q>> \in Pending' <=> <<"fetch", q>> \in Pending)
                         /\ (<<"update", q>> \in Pending' <=> <<"update", q>> \in Pending)
                         /\ (<<"tag", q>> \in Pending' <=> <<"tag", q>> \in Pending)
                         /\ (<<"base", q>> \in Pending' <=> <<"base", q>> \in Pending)
                         /\ (<<"commit", q>> \in Pending' <=> <<"commit", q>> \in Pending)
                         /\ (<<"convert", Root>> \in Pending' <=> <<"convert", Root>> \in Pending)
                         /\ (<<"hipified", q>> \in Pending' <=> <<"hipified", q>> \in Pending)
                         /\ (<<"tag hipify", q>> \in Pending' => <<"tag hipify", q>> \in Pending)
                         /\ q # r => (<<"tag hipify", q>> \in Pending' <=> <<"tag hipify", q>> \in Pending)
    BY <1>4
  <1>14. CASE cmd.kind = "checkout"
    <2>1. Fetched /\ Staged
      BY <1>4, <1>14 DEF Inv, InCheckout
    <2>2. Fetched'
      BY <1>2, <1>13, <2>1 DEF Fetched, Unfetched, Awaits
    <2>3. Staged'
      <3> SUFFICES ASSUME cmd.hipify, cmd.patch, NEW q \in Repo PROVE Stage(q)'
        BY <1>2 DEF Staged
      <3>1. Stage(q)
        BY <2>1 DEF Staged
      <3>2. Built(q) => Built(q)'
        <4>1. hip[q] # None \/ <<"tag hipify", q>> \in Pending
                => hip'[q] # None \/ <<"tag hipify", q>> \in Pending'
          BY <1>7, <1>8, <1>9, <1>13
        <4>2. Patches(q)' = Patches(q) /\ (HipifyNeeded(q)' <=> HipifyNeeded(q))
              /\ (<<"hipified", q>> \in Pending' <=> <<"hipified", q>> \in Pending)
          BY <1>2, <1>13 DEF Patches, HipifyNeeded
        <4> QED  BY <1>2, <4>1, <4>2 DEF Built, Awaits
      <3> QED  BY <1>2, <1>13, <3>1, <3>2 DEF Stage, Patches, HipifyNeeded, Awaits
    <2>4. /\ InCheckout' /\ Tagged' /\ Hipified' /\ WholeIsBuilt
          /\ tree'.ref = cmd.ref /\ (~ Idle' => ~ tree'.done) /\ (tree'.whole => tree'.done)
      BY <1>2, <1>4, <1>10, <1>14, <2>2, <2>3, Completed
    <2>5. Kinds'
      BY <1>2, <1>4, <2>4, KindsStay
    <2> QED  BY <1>2, <1>10, <1>11, <1>12, <2>4, <2>5, Unchanged DEF Inv
  <1>15. CASE cmd.kind # "checkout"
    <2>1. tree' = tree
      BY <1>2, <1>15
    <2>2. InCheckout'
      BY <1>2, <1>15 DEF InCheckout
    <2>3. tree.ref = cmd.ref /\ (tree.whole => tree.done)
      BY <1>3, <1>4 DEF Kinds
    <2>4. Kinds'
      BY <1>2, <1>4, <1>15, <2>1, <2>3, KindsStay
    <2>5. Tagged' /\ Hipified'
      BY <1>2, <1>9, <2>1, Grown
    <2>6. WholeIsBuilt
      BY <2>1 DEF WholeIsBuilt
    <2> QED  BY <1>2, <1>10, <1>11, <1>12, <2>2, <2>4, <2>5, <2>6, Unchanged DEF Inv
  <1> QED  BY <1>14, <1>15

-----------------------------------------------------------------------------
(* What interrupts a command.                                               *)

LEMMA DieStep ==
  ASSUME Inv, Die
  PROVE  Inv' /\ WholeIsBuilt
  <1>1. Stop /\ UNCHANGED <<head, up, hip, dirty, am, dir, kept, converts, tree, given>>
    BY DEF Die, Stop
  <1>2. TypeOK /\ Kinds
    BY DEF Inv
  <1>3. /\ todo' \in Seq(Step) /\ cmd' \in [kind : {"none", "checkout", "hipify", "save"},
               ref : Ref, hipify : BOOLEAN, patch : BOOLEAN, died : BOOLEAN]
        /\ Ordered' /\ Kinds' /\ InCheckout'
    BY <1>1, <1>2, Stopped
  <1>4. TypeOK'
    BY <1>1, <1>2, <1>3 DEF TypeOK
  <1>5. WholeIsBuilt
    BY <1>1 DEF WholeIsBuilt
  <1> QED  BY <1>1, <1>3, <1>4, <1>5, Unchanged DEF Inv

(* A conflict.  The checkout is not done: nothing is claimed of its tree.   *)
LEMMA ApplyPartlyStep ==
  ASSUME Inv, NEW r \in Repo, ApplyPartly(r)
  PROVE  Inv' /\ WholeIsBuilt
  <1>1. PICK stage \in {"base", "hipified"} :
          /\ At(stage, r)
          /\ \E k \in 1 .. Len(dir[cmd.ref][r][stage]) :
               LET at == head[r] \o SubSeq(dir[cmd.ref][r][stage], 1, k - 1) IN
                 /\ head' = [head EXCEPT ![r] = at]
                 /\ am' = [am EXCEPT ![r] = [orig |-> head[r], at |-> at]]
          /\ Stop
          /\ UNCHANGED <<up, hip, dirty, dir, kept>>
    BY DEF ApplyPartly
  <1> DEFINE d == dir[cmd.ref][r][stage]
             h == head[r]
  <1>2. TypeOK /\ Kinds /\ Sessions /\ Marks
    BY DEF Inv
  <1>3. d \in Seq(Change) /\ h \in Seq(Change)
    BY <1>2 DEF TypeOK, History
  <1>4. /\ ~ Idle /\ Fetched /\ ~ tree.done /\ ~ tree.whole
    BY <1>1, CheckoutAt
  <1>5. h # << >>
    <2>1. /\ <<"fetch", r>> \notin Pending /\ <<"update", r>> \notin Pending
      BY <1>1, StageAt DEF Op
    <2> QED  BY <1>4, <2>1 DEF Fetched, Unfetched, Awaits
  <1>6. PICK k \in 1 .. Len(d) :
          /\ head' = [head EXCEPT ![r] = h \o SubSeq(d, 1, k - 1)]
          /\ am' = [am EXCEPT ![r] = [orig |-> h, at |-> h \o SubSeq(d, 1, k - 1)]]
    BY <1>1
  <1> DEFINE at == h \o SubSeq(d, 1, k - 1)
  <1>7. at \in Seq(Change) /\ at # << >> /\ at[1] = h[1]
    <2> HIDE DEF d, h
    <2> DEFINE s == SubSeq(d, 1, k - 1)
    <2>1. s \in Seq(Change)
      BY <1>3
    <2> HIDE DEF s
    <2>2. h \o s \in Seq(Change) /\ h \o s # << >> /\ (h \o s)[1] = h[1]
      BY <1>3, <1>5, <2>1
    <2> QED  BY <2>2 DEF s
  <1>8. head' = [head EXCEPT ![r] = at] /\ am' = [am EXCEPT ![r] = [orig |-> h, at |-> at]]
    BY <1>6
  <1> HIDE DEF at
  <1>9. /\ todo' \in Seq(Step) /\ cmd' \in [kind : {"none", "checkout", "hipify", "save"},
               ref : Ref, hipify : BOOLEAN, patch : BOOLEAN, died : BOOLEAN]
        /\ Ordered' /\ Kinds' /\ InCheckout'
    BY <1>1, <1>2, Stopped
  <1>10. UNCHANGED <<up, hip, dirty, dir, kept, converts, tree, given>>
    BY <1>1 DEF Stop
  <1>11. TypeOK'
    <2>1. head' \in [Repo -> History]
      BY <1>2, <1>7, <1>8 DEF TypeOK, History
    <2>2. am' \in [Repo -> {None} \union [orig : History, at : History]]
      BY <1>2, <1>3, <1>7, <1>8 DEF TypeOK, History
    <2> QED  BY <1>2, <1>9, <1>10, <2>1, <2>2 DEF TypeOK
  <1>12. Sessions'
    <2> SUFFICES ASSUME NEW q \in Repo, am'[q] # None
                 PROVE  am'[q].orig # << >> /\ am'[q].at # << >> /\ am'[q].orig[1] = am'[q].at[1]
      BY DEF Sessions
    <2>1. CASE q = r
      <3>1. am'[r] = [orig |-> h, at |-> at]
        BY <1>2, <1>8 DEF TypeOK
      <3> HIDE DEF h
      <3> QED  BY <1>5, <1>7, <2>1, <3>1
    <2>2. CASE q # r
      BY <1>2, <1>8, <2>2 DEF Sessions, TypeOK
    <2> QED  BY <2>1, <2>2
  <1>13. Marks'
    BY <1>2, <1>7, <1>8, <1>10 DEF Marks, TypeOK
  <1>14. Tagged' /\ Hipified' /\ WholeIsBuilt
    BY <1>4, <1>10 DEF Tagged, Hipified, WholeIsBuilt
  <1> QED  BY <1>9, <1>10, <1>11, <1>12, <1>13, <1>14, Unchanged DEF Inv

-----------------------------------------------------------------------------
(* save-patches.                                                            *)

LEMMA RangesType ==
  ASSUME Inv, NEW r \in Repo, up[r] # None
  PROVE  Ranges(r) \in [base : History, hipified : History]
  <1>1. up[r] \in History /\ head[r] \in History /\ hip[r] \in History \union {None}
    BY DEF Inv, TypeOK
  <1>2. RevList(up[r], head[r]) \in History
    BY <1>1, RevListType DEF History
  <1>3. CASE hip[r] = None
    BY <1>2, <1>3, EmptyHistory DEF Ranges
  <1>4. CASE hip[r] # None
    <2>1. hip[r] \in History /\ Len(hip[r]) >= 2
      BY <1>1, <1>4 DEF Inv, Marks
    <2>2. Front(hip[r]) \in History
      <3> DEFINE t == hip[r]
                 n == Len(t) - 1
      <3>1. t \in Seq(Change) /\ n \in 1 .. Len(t)
        BY <2>1 DEF History
      <3> HIDE DEF t, n
      <3>2. SubSeq(t, 1, n) \in Seq(Change)
        BY <3>1
      <3> QED  BY <3>2 DEF Front, t, n, History
    <2>3. RevList(up[r], Front(hip[r])) \in History /\ RevList(hip[r], head[r]) \in History
      BY <1>1, <2>1, <2>2, RevListType DEF History
    <2> QED  BY <1>4, <2>3 DEF Ranges
  <1> QED  BY <1>3, <1>4

(* What is saved of a tree that a checkout completed.                       *)
LEMMA RangesAre ==
  ASSUME Inv, NEW r \in Repo, tree.done, Divided(r)
  PROVE  /\ Found(r) = r /\ up[r] # None /\ head[r][1] = tree.ref
         /\ LET b == Ranges(r).base
                p == Ranges(r).hipified IN
              /\ b \in History /\ p \in History
              /\ ~ Contains(b, Hipify) /\ ~ Contains(p, Hipify)
              /\ \E h \in {<< >>, <<Hipify>>} :
                   /\ head[r] = <<tree.ref>> \o b \o h \o p
                   /\ hip[r] # None \/ Contains(head[r], Hipify) => h # << >>
  <1> DEFINE x == tree.ref
             s == head[r]
             t == hip[r]
  <1>1. x \in Ref /\ s \in History /\ t \in History \union {None}
    BY DEF Inv, TypeOK
  <1>2. s # << >> /\ s[1] = x /\ up[r] = <<x>>
    BY DEF Inv, Tagged
  <1>3. Found(r) = r
    BY <1>2 DEF Found, Cloned
  <1>4. <<x>> \in History /\ up[r] # None
    <2>1. x \in Change
      BY <1>1, NoneIsNoHistory
    <2>2. <<x>> \in History
      BY <2>1 DEF History
    <2> QED  BY <1>2, <2>2, NoneIsNoHistory
  <1>5. CASE t = None
    <2> DEFINE b == RevList(<<x>>, s)
    <2>1. Ranges(r).base = b /\ Ranges(r).hipified = << >>
      BY <1>2, <1>5 DEF Ranges
    <2>2. ~ Contains(s, Hipify)
      BY <1>5 DEF Divided
    <2> HIDE DEF x, s
    <2>3. b \in History /\ ~ Contains(b, Hipify) /\ s = <<x>> \o b
      BY <1>1, <1>2, <2>2, SavedPlain
    <2> HIDE DEF b
    <2>4. <<x>> \o b = <<x>> \o b \o << >> \o << >>
      BY <2>3, <1>4 DEF History
    <2>5. ~ Contains(<< >>, Hipify)
      BY DEF Contains
    <2>6. s = <<x>> \o b \o << >> \o << >>
      BY <2>3, <2>4
    <2> QED  BY <1>2, <1>3, <1>4, <1>5, <2>1, <2>2, <2>3, <2>5, <2>6, EmptyHistory DEF x, s
  <1>6. CASE t # None
    <2> DEFINE b == RevList(<<x>>, Front(t))
               p == RevList(t, s)
    <2>1. Ranges(r).base = b /\ Ranges(r).hipified = p
      BY <1>2, <1>6 DEF Ranges
    <2>2. /\ t \in History /\ Len(t) >= 2 /\ Last(t) = Hipify /\ IsPrefix(t, s)
          /\ \A i \in DOMAIN s : s[i] = Hipify => i = Len(t)
      BY <1>1, <1>6 DEF Divided, Inv, Marks
    <2> HIDE DEF x, s, t
    <2>3. /\ b \in History /\ p \in History /\ ~ Contains(b, Hipify) /\ ~ Contains(p, Hipify)
          /\ s = <<x>> \o b \o <<Hipify>> \o p
      BY <1>1, <1>2, <2>2, SavedHipified
    <2> HIDE DEF b, p
    <2>4. <<Hipify>> # << >>
      OBVIOUS
    <2> QED  BY <1>2, <1>3, <1>4, <2>1, <2>3, <2>4 DEF x, s
  <1> QED  BY <1>5, <1>6

LEMMA SaveRepoStep ==
  ASSUME Inv, NEW r \in Repo, SaveRepo(r)
  PROVE  Inv' /\ WholeIsBuilt
  <1>1. At("save", r) /\ UNCHANGED <<head, up, hip, dirty, am>>
    BY DEF SaveRepo
  <1>2. TypeOK /\ Ordered /\ Kinds /\ Saved /\ Hipified /\ ~ Idle
    BY <1>1 DEF Inv, At
  <1>3. <<"save", r>> \in Pending
    <2>1. "save" # "tag hipify"
      OBVIOUS
    <2> QED  BY <1>1, <1>2, <2>1, Order
  <1>4. cmd.kind = "save" /\ kept[cmd.ref][r] = None /\ cmd.ref = tree.ref
        /\ (tree.whole => tree.done)
    BY <1>2, <1>3 DEF Kinds, Awaits
  <1>5. Found(r) \in Repo /\ cmd.ref \in Ref
    BY <1>2, RepoIs DEF Found, TypeOK
  <1>6. CASE up[Found(r)] = None
    <2>1. /\ dir' = [dir EXCEPT ![cmd.ref][r] = NoPatches]
          /\ UNCHANGED kept /\ Stop
      BY <1>6 DEF SaveRepo
    <2>2. UNCHANGED <<converts, tree, given>>
      BY <2>1 DEF Stop
    <2>3. /\ todo' \in Seq(Step) /\ cmd' \in [kind : {"none", "checkout", "hipify", "save"},
                 ref : Ref, hipify : BOOLEAN, patch : BOOLEAN, died : BOOLEAN]
          /\ Ordered' /\ Kinds' /\ InCheckout'
      BY <1>2, <2>1, Stopped
    <2>4. TypeOK'
      <3>1. NoPatches \in [base : History, hipified : History]
        BY EmptyHistory DEF NoPatches
      <3>2. dir' \in [Ref -> [Repo -> [base : History, hipified : History]]]
        BY <1>2, <2>1, <3>1 DEF TypeOK
      <3> QED  BY <1>1, <1>2, <2>1, <2>2, <2>3, <3>2 DEF TypeOK
    <2>5. Saved'
      <3>1. ASSUME NEW ref \in Ref, NEW q \in Repo, kept[ref][q] # None
            PROVE  dir'[ref][q] = dir[ref][q]
        <4>1. ref # cmd.ref \/ q # r
          BY <1>4, <3>1
        <4> QED  BY <1>2, <2>1, <4>1 DEF TypeOK
      <3>2. UNCHANGED <<kept, converts>>
        BY <2>1, <2>2
      <3> QED  BY <1>2, <3>1, <3>2, SavedStays
    <2>6. WholeIsBuilt
      BY <2>2 DEF WholeIsBuilt
    <2> QED  BY <1>1, <2>2, <2>3, <2>4, <2>5, <2>6, Unchanged DEF Inv
  <1>7. CASE up[Found(r)] # None
    <2> DEFINE k == IF tree.whole /\ Divided(r) THEN head[r] ELSE None
               d == Ranges(Found(r))
    <2>1. /\ dir' = [dir EXCEPT ![cmd.ref][r] = d]
          /\ kept' = [kept EXCEPT ![cmd.ref][r] = k]
          /\ Continue(<< >>)
      BY <1>7 DEF SaveRepo
    <2>2. todo' = << >> \o Tail(todo) /\ UNCHANGED <<cmd, converts, given, tree>>
      BY <1>4, <2>1 DEF Continue
    <2>3. /\ todo' \in Seq(Step) /\ InOrder(todo')
          /\ Pending' = Pending \ {<<"save", r>>}
          /\ <<"save", r>> \notin Pending'
          /\ \A i \in DOMAIN todo' : todo'[i][1] # "tag hipify"
      BY <1>1, <1>2, <2>2, Advance
    <2>4. d \in [base : History, hipified : History]
      BY <1>5, <1>7, RangesType
    <2>5. k \in History \union {None}
      BY <1>2 DEF TypeOK
    <2>6. k # None => k = head[r] /\ tree.whole /\ Divided(r)
      OBVIOUS
    <2>7. Found(r) = r => d = Ranges(r)
      OBVIOUS
    <2> HIDE DEF d, k
    <2>8. TypeOK'
      <3>1. dir' \in [Ref -> [Repo -> [base : History, hipified : History]]]
        BY <1>2, <2>1, <2>4 DEF TypeOK
      <3>2. kept' \in [Ref -> [Repo -> History \union {None}]]
        BY <1>2, <2>1, <2>5 DEF TypeOK
      <3> QED  BY <1>1, <1>2, <2>2, <2>3, <3>1, <3>2 DEF TypeOK
    <2>9. /\ dir'[cmd.ref][r] = d /\ kept'[cmd.ref][r] = k
          /\ \A ref \in Ref, q \in Repo : ref # cmd.ref \/ q # r =>
               dir'[ref][q] = dir[ref][q] /\ kept'[ref][q] = kept[ref][q]
      BY <1>2, <1>5, <2>1 DEF TypeOK
    <2>10. Ordered'
      BY <2>3 DEF Ordered
    <2>11. Kinds'
      <3>1. \A q \in Repo : <<"save", q>> \in Pending' => kept'[cmd.ref][q] = kept[cmd.ref][q]
        BY <1>5, <2>3, <2>9
      <3> QED  BY <1>2, <1>4, <2>2, <2>3, <3>1, KindsStay
    <2>12. InCheckout'
      BY <1>4, <2>2 DEF InCheckout
    <2>13. ASSUME k # None
           PROVE  /\ ~ Contains(d.base, Hipify) /\ ~ Contains(d.hipified, Hipify)
                  /\ \E h \in {<< >>, <<Hipify>>} :
                       /\ k = <<cmd.ref>> \o d.base \o h \o d.hipified
                       /\ r \in converts[cmd.ref] => h # << >>
      <3>1. k = head[r] /\ tree.whole /\ tree.done /\ Divided(r)
        BY <1>4, <2>6, <2>13
      <3>2. Found(r) = r
        BY <3>1, RangesAre
      <3>3. d = Ranges(r)
        BY <2>7, <3>2
      <3>4. /\ ~ Contains(d.base, Hipify) /\ ~ Contains(d.hipified, Hipify)
            /\ \E h \in {<< >>, <<Hipify>>} :
                 /\ head[r] = <<tree.ref>> \o d.base \o h \o d.hipified
                 /\ hip[r] # None \/ Contains(head[r], Hipify) => h # << >>
        BY <3>1, <3>3, RangesAre
      <3>5. r \in converts[cmd.ref] => hip[r] # None \/ Contains(head[r], Hipify)
        BY <1>2, <1>4, <3>1 DEF Hipified
      <3> QED  BY <1>4, <3>1, <3>4, <3>5
    <2>14. Saved'
      <3> SUFFICES ASSUME NEW ref \in Ref, NEW q \in Repo, kept'[ref][q] # None
                   PROVE  /\ ~ Contains(dir'[ref][q].base, Hipify)
                          /\ ~ Contains(dir'[ref][q].hipified, Hipify)
                          /\ \E h \in {<< >>, <<Hipify>>} :
                               /\ kept'[ref][q] = <<ref>> \o dir'[ref][q].base \o h
                                                    \o dir'[ref][q].hipified
                               /\ q \in converts[ref] => h # << >>
        BY <2>2 DEF Saved
      <3>1. CASE ref = cmd.ref /\ q = r
        BY <2>9, <2>13, <3>1
      <3>2. CASE ref # cmd.ref \/ q # r
        <4>1. dir'[ref][q] = dir[ref][q] /\ kept'[ref][q] = kept[ref][q]
          BY <2>9, <3>2
        <4>2. kept[ref][q] # None
          BY <4>1
        <4>3. /\ ~ Contains(dir[ref][q].base, Hipify) /\ ~ Contains(dir[ref][q].hipified, Hipify)
              /\ \E h \in {<< >>, <<Hipify>>} :
                   /\ kept[ref][q] = <<ref>> \o dir[ref][q].base \o h \o dir[ref][q].hipified
                   /\ q \in converts[ref] => h # << >>
          BY <1>2, <4>2 DEF Saved
        <4> QED  BY <4>1, <4>3
      <3> QED  BY <3>1, <3>2
    <2>15. WholeIsBuilt
      BY <2>2 DEF WholeIsBuilt
    <2> QED  BY <1>1, <2>2, <2>8, <2>10, <2>11, <2>12, <2>14, <2>15, Unchanged DEF Inv
  <1> QED  BY <1>6, <1>7

-----------------------------------------------------------------------------
(* The developer.                                                           *)

LEMMA DeveloperCommit ==
  ASSUME Inv, NEW r \in Repo, NEW c \in Local, Commit(r, c)
  PROVE  Inv' /\ WholeIsBuilt
  <1>1. /\ Idle /\ head[r] # << >>
        /\ head' = [head EXCEPT ![r] = Append(head[r], c)]
        /\ UNCHANGED <<up, hip, dirty, am, dir, converts, todo, cmd, tree, kept, given>>
    BY DEF Commit, Cloned
  <1>2. TypeOK /\ Ordered /\ Kinds /\ Marks
    BY DEF Inv
  <1>3. /\ c \in Change /\ head[r] \in Seq(Change)
        /\ head'[r] = Append(head[r], c) /\ \A q \in Repo : q # r => head'[q] = head[q]
    BY <1>1, <1>2 DEF Change, TypeOK, History
  <1>4. head'[r] \in History /\ head'[r] # << >>
    BY <1>1, <1>3, AppendKeeps DEF History
  <1>5. TypeOK'
    <2>1. head' \in [Repo -> History]
      BY <1>1, <1>2, <1>3, <1>4 DEF TypeOK
    <2> QED  BY <1>1, <1>2, <2>1 DEF TypeOK
  <1>6. todo = << >> /\ DOMAIN todo = {}
    BY <1>1 DEF Idle
  <1>7. Ordered'
    BY <1>1, <1>2, <1>6 DEF Ordered
  <1>8. Kinds'
    BY <1>1, <1>2 DEF Kinds, Awaits, Pending, Idle
  <1>9. InCheckout'
    BY <1>1 DEF InCheckout, Idle
  <1>10. Marks'
    BY <1>1, <1>2, <1>3, <1>4 DEF Marks
  <1>11. Tagged' /\ Hipified'
    BY <1>1, <1>3, Grown
  <1>12. WholeIsBuilt
    BY <1>1 DEF WholeIsBuilt
  <1> QED  BY <1>1, <1>5, <1>7, <1>8, <1>9, <1>10, <1>11, <1>12, Unchanged DEF Inv

LEMMA AmAbortStep ==
  ASSUME Inv, NEW r \in Repo, AmAbort(r)
  PROVE  Inv' /\ WholeIsBuilt
  <1>1. /\ Idle /\ am[r] # None
        /\ head' = [head EXCEPT ![r] = IF head[r] = am[r].at THEN am[r].orig ELSE head[r]]
        /\ am' = [am EXCEPT ![r] = None]
        /\ UNCHANGED <<up, hip, dirty, dir, converts, todo, cmd, tree, kept, given>>
    BY DEF AmAbort
  <1>2. TypeOK /\ Ordered /\ Kinds /\ Marks /\ Sessions /\ Tagged /\ Hipified
    BY DEF Inv
  <1>3. /\ head'[r] = IF head[r] = am[r].at THEN am[r].orig ELSE head[r]
        /\ am'[r] = None
        /\ \A q \in Repo : q # r => head'[q] = head[q] /\ am'[q] = am[q]
    BY <1>1, <1>2 DEF TypeOK
  <1>4. am[r] \in [orig : History, at : History]
    BY <1>1, <1>2 DEF TypeOK
  <1>5. /\ head'[r] \in History
        /\ head[r] # << >> => head'[r] # << >> /\ head'[r][1] = head[r][1]
    BY <1>1, <1>2, <1>3, <1>4 DEF TypeOK, Sessions
  <1>6. TypeOK'
    <2>1. head' \in [Repo -> History] /\ am' \in [Repo -> {None} \union [orig : History, at : History]]
      BY <1>1, <1>2, <1>3, <1>5 DEF TypeOK
    <2> QED  BY <1>1, <1>2, <2>1 DEF TypeOK
  <1>7. todo = << >> /\ DOMAIN todo = {}
    BY <1>1 DEF Idle
  <1>8. Ordered'
    BY <1>1, <1>2, <1>7 DEF Ordered
  <1>9. Kinds'
    BY <1>1, <1>2 DEF Kinds, Awaits, Pending, Idle
  <1>10. InCheckout'
    BY <1>1 DEF InCheckout, Idle
  <1>11. Marks'
    BY <1>1, <1>2, <1>3, <1>5 DEF Marks
  <1>12. Sessions'
    BY <1>2, <1>3 DEF Sessions
  <1>13. Tagged'
    BY <1>1, <1>2, <1>3, <1>5 DEF Tagged
  <1>14. Hipified'
    <2> SUFFICES ASSUME tree.whole, NEW q \in converts[tree.ref], hip[q] = None
                 PROVE  am'[q] = None /\ Contains(head'[q], Hipify)
      BY <1>1, <1>2 DEF Hipified, TypeOK
    <2>1. q \in Repo /\ am[q] = None /\ Contains(head[q], Hipify)
      BY <1>2 DEF Hipified, TypeOK
    <2> QED  BY <1>1, <1>3, <2>1
  <1>15. WholeIsBuilt
    BY <1>1 DEF WholeIsBuilt
  <1> QED  BY <1>1, <1>6, <1>8, <1>9, <1>10, <1>11, <1>12, <1>13, <1>14, <1>15, Unchanged DEF Inv

(* Every step keeps the invariant.                                          *)
LEMMA StepInv == Inv /\ [Next]_vars => Inv' /\ WholeIsBuilt
  <1> SUFFICES ASSUME Inv, [Next]_vars PROVE Inv' /\ WholeIsBuilt
    OBVIOUS
  <1>1. ASSUME NEW ref \in Ref, NEW hipify \in BOOLEAN, NEW patch \in BOOLEAN,
               DoCheckout(ref, hipify, patch)
        PROVE  Inv' /\ WholeIsBuilt
    <2>1. ~ tree'.whole
      BY <1>1 DEF DoCheckout
    <2> QED  BY <1>1, <2>1, CheckoutBegins DEF WholeIsBuilt
  <1>2. CASE DoHipify
    <2>1. tree' = tree
      BY <1>2 DEF DoHipify
    <2> QED  BY <1>2, <2>1, HipifyBegins DEF WholeIsBuilt
  <1>3. CASE DoSavePatches
    <2>1. tree' = tree
      BY <1>3 DEF DoSavePatches
    <2> QED  BY <1>3, <2>1, SaveBegins DEF WholeIsBuilt
  <1>4. CASE Convert
    BY <1>4, ConvertStep
  <1>5. CASE Die
    BY <1>5, DieStep
  <1>6. ASSUME NEW r \in Repo,
               \/ Fetch(r) \/ TagUpstream(r) \/ Apply(r) \/ ApplyPartly(r)
               \/ CommitHipify(r) \/ TagHipify(r) \/ SaveRepo(r) \/ AmAbort(r)
               \/ \E c \in Local : Commit(r, c)
        PROVE  Inv' /\ WholeIsBuilt
    BY <1>6, FetchStep, TagStep, ApplyStep, ApplyPartlyStep, CommitHipifyStep, TagHipifyStep,
       SaveRepoStep, AmAbortStep, DeveloperCommit
  <1>7. CASE UNCHANGED vars
    <2>0. UNCHANGED <<head, up, hip, dirty, am, dir, converts, todo, cmd, tree, kept, given>>
      BY <1>7 DEF vars
    <2>1. Inv'
      <3>1. TypeOK' /\ Ordered' /\ Kinds'
        BY <2>0 DEF Inv, TypeOK, Ordered, Kinds, Idle, Awaits, Pending
      <3>2. Fetched' <=> Fetched
        BY <2>0 DEF Fetched, Unfetched, Awaits, Pending
      <3>3. \A r \in Repo : Built(r)' <=> Built(r)
        BY <2>0 DEF Built, Patches, HipifyNeeded, Awaits, Pending
      <3>4. Staged' <=> Staged
        BY <2>0, <3>3 DEF Staged, Stage, Patches, HipifyNeeded, Awaits, Pending
      <3>5. InCheckout'
        BY <2>0, <3>2, <3>4 DEF Inv, InCheckout, Idle
      <3> QED  BY <2>0, <3>1, <3>5, Unchanged DEF Inv
    <2>2. tree' = tree
      BY <1>7 DEF vars
    <2> QED  BY <2>1, <2>2 DEF WholeIsBuilt
  <1> QED  BY <1>1, <1>2, <1>3, <1>4, <1>5, <1>6, <1>7 DEF Next

-----------------------------------------------------------------------------
(* The theorems.                                                            *)

(* Whatever a command was stopped at and whatever the developer did since,  *)
(* ptbuild.py never loses track of what its tags and patches stand for.     *)
THEOREM Inductive == Spec => []Inv
  BY InitInv, StepInv, PTL DEF Spec

(* ptbuild.py:33-37, for any number of submodules, patches and commands: a  *)
(* checkout that completes is as a fresh one, whatever was there before.    *)
THEOREM CheckoutIsExact == Spec => CheckoutExact
  <1> DEFINE A ==
        ~ tree.whole /\ tree'.whole =>
          \A r \in Repo : \E h \in {<< >>, <<Hipify>>} :
            /\ head'[r] = <<cmd.ref>> \o dir[cmd.ref][r].base \o h \o dir[cmd.ref][r].hipified
            /\ r \in converts[cmd.ref] /\ ~ Contains(dir[cmd.ref][r].base, Hipify) => h # << >>
  <1>1. Inv /\ [Next]_vars => [A]_vars
    <2> SUFFICES ASSUME Inv, [Next]_vars, ~ tree.whole /\ tree'.whole, NEW r \in Repo
                 PROVE  \E h \in {<< >>, <<Hipify>>} :
                   /\ head'[r] = <<cmd.ref>> \o dir[cmd.ref][r].base \o h \o dir[cmd.ref][r].hipified
                   /\ r \in converts[cmd.ref] /\ ~ Contains(dir[cmd.ref][r].base, Hipify) => h # << >>
      OBVIOUS
    <2>1. Pending' = {} /\ UNCHANGED <<cmd, converts, dir>> /\ Built(r)'
      BY StepInv DEF WholeIsBuilt
    <2> QED  BY <2>1 DEF Built, Patches, HipifyNeeded, Awaits
  <1> QED  BY <1>1, Inductive, PTL DEF Spec, CheckoutExact

(* save-patches after a checkout that completed: for any history that the   *)
(* hipify tag divides, every commit but the upstream one and the HIPIFY one *)
(* is saved, once and in order.                                             *)
THEOREM SavedIsExact == Spec => SavedExactly
  <1> DEFINE A == \A r \in Repo, ref \in Ref :
        dir'[ref][r] # dir[ref][r] /\ tree.done /\ Divided(r) =>
          <<head[r][1]>> \o dir'[ref][r].base \o dir'[ref][r].hipified
            = RemoveFirst(head[r], Hipify)
  <1>1. Inv /\ [Next]_vars => [A]_vars
    <2> SUFFICES ASSUME Inv, [Next]_vars, NEW r \in Repo, NEW ref \in Ref,
                        dir'[ref][r] # dir[ref][r], tree.done, Divided(r)
                 PROVE  <<head[r][1]>> \o dir'[ref][r].base \o dir'[ref][r].hipified
                          = RemoveFirst(head[r], Hipify)
      OBVIOUS
    <2>1. PICK q \in Repo : SaveRepo(q)
      <3>1. dir' # dir
        OBVIOUS
      <3>2. \/ \E q \in Repo : SaveRepo(q)
            \/ UNCHANGED dir
        BY DEF Next, vars, DoCheckout, DoHipify, DoSavePatches, Convert, Die, Fetch, TagUpstream,
           Apply, ApplyPartly, CommitHipify, TagHipify, AmAbort, Commit
      <3> QED  BY <3>1, <3>2
    <2>2. At("save", q) /\ cmd.ref = tree.ref
      BY <2>1 DEF SaveRepo, At, Inv, Kinds
    <2>3. q = r /\ ref = tree.ref
      <3>1. dir' = [dir EXCEPT ![cmd.ref][q] = NoPatches]
            \/ dir' = [dir EXCEPT ![cmd.ref][q] = Ranges(Found(q))]
        BY <2>1 DEF SaveRepo
      <3> QED  BY <2>2, <3>1 DEF Inv, TypeOK
    <2> DEFINE b == Ranges(r).base
               p == Ranges(r).hipified
    <2>4. /\ Found(r) = r /\ up[r] # None /\ head[r][1] = tree.ref
          /\ b \in History /\ p \in History
          /\ ~ Contains(b, Hipify) /\ ~ Contains(p, Hipify)
          /\ \E h \in {<< >>, <<Hipify>>} : head[r] = <<tree.ref>> \o b \o h \o p
      BY RangesAre
    <2>5. dir' = [dir EXCEPT ![cmd.ref][r] = Ranges(r)]
      BY <2>1, <2>3, <2>4 DEF SaveRepo
    <2>6. dir'[ref][r] = Ranges(r) /\ ref \in Ref
      BY <2>2, <2>3, <2>5 DEF Inv, TypeOK
    <2> HIDE DEF b, p
    <2>7. PICK h \in {<< >>, <<Hipify>>} : head[r] = <<ref>> \o b \o h \o p
      BY <2>3, <2>4
    <2>8. RemoveFirst(<<ref>> \o b \o h \o p, Hipify) = <<ref>> \o b \o p
      BY <2>4, <2>6, Drop DEF History
    <2> QED  BY <2>3, <2>4, <2>6, <2>7, <2>8 DEF b, p
  <1> QED  BY <1>1, Inductive, PTL DEF Spec, SavedExactly

(* The round trip, across any number of commands, failures and developer    *)
(* commits between the save and the later checkout.                         *)
THEOREM RoundTripHolds == Spec => RoundTrip
  <1> DEFINE A ==
        ~ tree.whole /\ tree'.whole =>
          \A r \in Repo : kept[cmd.ref][r] # None =>
            /\ RemoveFirst(head'[r], Hipify) = RemoveFirst(kept[cmd.ref][r], Hipify)
            /\ r \in converts[cmd.ref] => head'[r] = kept[cmd.ref][r]
  <1>1. Inv /\ [Next]_vars => [A]_vars
    <2> SUFFICES ASSUME Inv, [Next]_vars, ~ tree.whole /\ tree'.whole, NEW r \in Repo,
                        kept[cmd.ref][r] # None
                 PROVE  /\ RemoveFirst(head'[r], Hipify) = RemoveFirst(kept[cmd.ref][r], Hipify)
                        /\ r \in converts[cmd.ref] => head'[r] = kept[cmd.ref][r]
      OBVIOUS
    <2>1. Pending' = {} /\ UNCHANGED <<cmd, converts, dir>> /\ Built(r)'
      BY StepInv DEF WholeIsBuilt
    <2> DEFINE x == cmd.ref
               b == dir[x][r].base
               p == dir[x][r].hipified
    <2>2. x \in Ref /\ b \in Seq(Change) /\ p \in Seq(Change)
      BY DEF Inv, TypeOK, History
    <2>3. /\ ~ Contains(b, Hipify) /\ ~ Contains(p, Hipify)
          /\ \E k \in {<< >>, <<Hipify>>} :
               /\ kept[x][r] = <<x>> \o b \o k \o p
               /\ r \in converts[x] => k # << >>
      BY <2>2 DEF Inv, Saved
    <2>4. \E h \in {<< >>, <<Hipify>>} :
            /\ head'[r] = <<x>> \o b \o h \o p
            /\ r \in converts[x] /\ ~ Contains(b, Hipify) => h # << >>
      BY <2>1 DEF Built, Patches, HipifyNeeded, Awaits
    <2> HIDE DEF b, p
    <2>5. PICK k \in {<< >>, <<Hipify>>} :
               /\ kept[x][r] = <<x>> \o b \o k \o p
               /\ r \in converts[x] => k # << >>
      BY <2>3
    <2>6. PICK h \in {<< >>, <<Hipify>>} :
            /\ head'[r] = <<x>> \o b \o h \o p
            /\ r \in converts[x] => h # << >>
      BY <2>3, <2>4
    <2>7. /\ RemoveFirst(<<x>> \o b \o k \o p, Hipify) = <<x>> \o b \o p
          /\ RemoveFirst(<<x>> \o b \o h \o p, Hipify) = <<x>> \o b \o p
      <3> HIDE DEF x
      <3>1. \A g \in {<< >>, <<Hipify>>} : RemoveFirst(<<x>> \o b \o g \o p, Hipify) = <<x>> \o b \o p
        BY <2>2, <2>3, Drop
      <3> QED  BY <3>1
    <2>8. r \in converts[x] => h = k
      BY <2>5, <2>6
    <2> QED  BY <2>5, <2>6, <2>7, <2>8
  <1> QED  BY <1>1, Inductive, PTL DEF Spec, RoundTrip
=============================================================================
