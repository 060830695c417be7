--------------------------- MODULE DistSplitProofs ---------------------------
(***************************************************************************)
(* Proofs about linux_python_dist_split.py for any artifacts, families,    *)
(* names and links without loops, every order of the directory scans and   *)
(* whatever an earlier run left behind: the assert never fails, the devel  *)
(* package reads as the merged install tree and stubs find what they run;  *)
(* and, if no artifact is built for two families, each SONAME is a file.   *)
(***************************************************************************)
EXTENDS DistSplit, FiniteSetTheorems, WellFoundedInduction, TLAPS

-----------------------------------------------------------------------------
(* Chains.                                                                  *)

(* Induction: of the numbers that are not as claimed there is a least one.  *)
LEMMA Least == \A S \in SUBSET Nat : S # {} => \E m \in S : \A k \in S : m <= k
  <1> SUFFICES ASSUME NEW S \in SUBSET Nat, S # {} PROVE \E m \in S : \A k \in S : m <= k
    OBVIOUS
  <1>1. PICK m \in S : \A k \in S : ~ (<<k, m>> \in OpToRel(<, Nat))
    BY NatLessThanWellFounded, WFMin
  <1>2. \A k \in S : ~ (k < m)
    BY <1>1 DEF OpToRel
  <1> QED  BY <1>2

(* h are the first n places that one comes to from x.                       *)
IsTrail(h, next, x, n) == h = [i \in 0 .. n |-> IF i = 0 THEN x ELSE next[h[i - 1]]]

(* There is such a trail, however long.                                     *)
LEMMA TrailExists == ASSUME NEW next, NEW x PROVE \A n \in Nat : \E h : IsTrail(h, next, x, n)
  <1> DEFINE B == {n \in Nat : ~ \E h : IsTrail(h, next, x, n)}
  <1> SUFFICES ASSUME B # {} PROVE FALSE
    OBVIOUS
  <1>1. PICK m \in B : \A k \in B : m <= k
    BY Least
  <1>2. m # 0
    <2> DEFINE h == [i \in 0 .. 0 |-> x]
    <2>1. IsTrail(h, next, x, 0)
      BY DEF IsTrail
    <2> QED  BY <2>1, <1>1
  <1>3. m - 1 \in Nat /\ m - 1 \notin B
    BY <1>1, <1>2
  <1>4. PICK h : IsTrail(h, next, x, m - 1)
    BY <1>3
  <1> DEFINE g == [i \in 0 .. m |-> IF i = m THEN next[h[m - 1]] ELSE h[i]]
  <1>5. ASSUME NEW i \in 0 .. m PROVE g[i] = IF i = 0 THEN x ELSE next[g[i - 1]]
    <2>1. CASE i = m
      BY <2>1, <1>3
    <2>2. CASE i # m
      <3>1. i \in 0 .. m - 1
        BY <2>2, <1>3
      <3>2. h[i] = IF i = 0 THEN x ELSE next[h[i - 1]]
        BY <1>4, <3>1 DEF IsTrail
      <3> QED  BY <3>1, <3>2, <1>3
    <2> QED  BY <2>1, <2>2
  <1>6. IsTrail(g, next, x, m)
    <2> HIDE DEF g
    <2>1. g = [i \in 0 .. m |-> g[i]]
      BY DEF g
    <2> QED  BY <1>5, <2>1 DEF IsTrail
  <1> QED  BY <1>1, <1>6

(* Chase takes the end of such a trail.                                     *)
LEMMA ChaseIsTrail ==
  ASSUME NEW next, NEW x, Cardinality(DOMAIN next) \in Nat
  PROVE  \E h : /\ IsTrail(h, next, x, Cardinality(DOMAIN next))
                /\ Chase(next, x) = h[Cardinality(DOMAIN next)]
  <1> DEFINE n == Cardinality(DOMAIN next)
             h == CHOOSE h : IsTrail(h, next, x, n)
  <1>1. IsTrail(h, next, x, n)
    BY TrailExists
  <1>2. Chase(next, x) = h[n]
    BY DEF Chase, IsTrail
  <1> QED  BY <1>1, <1>2

(* Wherever one is, one of the places has no next place, or one elsewhere.  *)
Ending(next, D) == \A S \in SUBSET D : S # {} => \E y \in S : next[y] = y \/ next[y] \notin S

LEMMA TrailIn ==
  ASSUME NEW D, NEW next \in [D -> D], NEW x \in D, NEW n \in Nat, NEW h, IsTrail(h, next, x, n)
  PROVE  /\ h \in [0 .. n -> D] /\ h[0] = x
         /\ \A i \in 0 .. n : i # n => i + 1 \in 0 .. n /\ h[i + 1] = next[h[i]]
  <1>1. /\ h = [i \in 0 .. n |-> h[i]] /\ h[0] = x
        /\ \A i \in 0 .. n : i # 0 => h[i] = next[h[i - 1]]
    BY DEF IsTrail
  <1>2. \A i \in 0 .. n : i # n => i + 1 \in 0 .. n /\ i + 1 # 0 /\ (i + 1) - 1 = i
    OBVIOUS
  <1>3. \A i \in 0 .. n : i # n => i + 1 \in 0 .. n /\ h[i + 1] = next[h[i]]
    BY <1>1, <1>2
  <1> DEFINE B == {i \in 0 .. n : h[i] \notin D}
  <1>4. B = {}
    <2> SUFFICES ASSUME B # {} PROVE FALSE
      OBVIOUS
    <2>1. B \in SUBSET Nat
      OBVIOUS
    <2>2. PICK i \in B : \A j \in B : i <= j
      <3> HIDE DEF B
      <3> QED  BY <2>1, Least
    <2>3. i # 0 /\ i - 1 \in 0 .. n /\ i - 1 \notin B
      BY <2>2, <1>1
    <2> QED  BY <2>2, <2>3, <1>1
  <1> QED  BY <1>1, <1>3, <1>4

(* A trail never leaves a place that is its own next one.                   *)
LEMMA TrailStays ==
  ASSUME NEW D, NEW next \in [D -> D], NEW x \in D, NEW n \in Nat, NEW h, IsTrail(h, next, x, n),
         NEW m \in 0 .. n, next[h[m]] = h[m]
  PROVE  h[n] = h[m]
  <1> DEFINE B == {i \in m .. n : h[i] # h[m]}
  <1>1. B = {}
    <2> SUFFICES ASSUME B # {} PROVE FALSE
      OBVIOUS
    <2>1. B \in SUBSET Nat
      OBVIOUS
    <2>2. PICK i \in B : \A j \in B : i <= j
      <3> HIDE DEF B
      <3> QED  BY <2>1, Least
    <2>3. i # m /\ i - 1 \in m .. n /\ i - 1 \notin B /\ i - 1 \in 0 .. n /\ i - 1 # n /\ (i - 1) + 1 = i
      BY <2>2
    <2>4. h[i] = next[h[i - 1]]
      BY <2>3, TrailIn
    <2> QED  BY <2>2, <2>3, <2>4
  <1> QED  BY <1>1

(* A trail as long as there are places has come to the end: of two visits   *)
(* to one place, the places between would have no end.                      *)
LEMMA TrailEnds ==
  ASSUME NEW D, IsFiniteSet(D), NEW next \in [D -> D], Ending(next, D), NEW x \in D,
         NEW h, IsTrail(h, next, x, Cardinality(D))
  PROVE  next[h[Cardinality(D)]] = h[Cardinality(D)]
  <1> DEFINE n == Cardinality(D)
  <1>1. n \in Nat
    BY FS_CardinalityType
  <1>2. IsTrail(h, next, x, n)
    OBVIOUS
  <1>3. IsFiniteSet(0 .. n) /\ Cardinality(0 .. n) > n
    <2>1. IsFiniteSet(0 .. n) /\ Cardinality(0 .. n) = IF 0 > n THEN 0 ELSE n - 0 + 1
      BY <1>1, FS_Interval
    <2> QED  BY <1>1, <2>1
  <1> HIDE DEF n
  <1>4. /\ h \in [0 .. n -> D]
        /\ \A i \in 0 .. n : i # n => i + 1 \in 0 .. n /\ h[i + 1] = next[h[i]]
    BY <1>1, <1>2, TrailIn
  <1>5. PICK i, j \in 0 .. n : i # j /\ h[i] = h[j]
    BY <1>1, <1>3, <1>4, FS_PigeonHole DEF n
  <1>6. ASSUME NEW a \in 0 .. n, NEW b \in 0 .. n, a < b, h[a] = h[b]
        PROVE  next[h[n]] = h[n]
    <2> DEFINE S == {y \in D : \E c \in 0 .. n : a <= c /\ c <= b /\ y = h[c]}
    <2>2. S \in SUBSET D /\ h[a] \in S
      BY <1>1, <1>4, <1>6
    <2>3. ASSUME NEW y \in S PROVE next[y] \in S
      <3>1. PICK c \in 0 .. n : a <= c /\ c <= b /\ y = h[c]
        OBVIOUS
      <3>2. PICK d \in 0 .. n : a <= d /\ d <= b /\ d # n /\ y = h[d] /\ d + 1 <= b
        <4>1. CASE c = b
          <5>1. a <= a /\ a <= b /\ a # n /\ a + 1 <= b /\ y = h[a]
            BY <1>1, <1>6, <3>1, <4>1
          <5> QED  BY <5>1
        <4>2. CASE c # b
          <5>1. c # n /\ c + 1 <= b
            BY <1>1, <1>6, <3>1, <4>2
          <5> QED  BY <3>1, <5>1
        <4> QED  BY <4>1, <4>2
      <3>3. d + 1 \in 0 .. n /\ next[y] = h[d + 1] /\ a <= d + 1
        BY <1>1, <1>4, <3>2
      <3>4. next[y] \in D
        BY <1>4, <3>3
      <3> QED  BY <3>2, <3>3, <3>4
    <2>4. PICK y \in S : next[y] = y
      <3> HIDE DEF S
      <3> QED  BY <2>2, <2>3 DEF Ending
    <2>5. PICK c \in 0 .. n : y = h[c]
      OBVIOUS
    <2>6. h[n] = h[c]
      <3>1. next[h[c]] = h[c] /\ c \in 0 .. n
        BY <2>4, <2>5
      <3> QED  BY <3>1, <1>1, <1>2, TrailStays
    <2> QED  BY <2>4, <2>5, <2>6
  <1>7. i < j \/ j < i
    BY <1>5
  <1> QED  BY <1>5, <1>6, <1>7 DEF n

(* What Chase computes: the end of the way from x, which is also that from  *)
(* the next place, and x where that is its own next place.                  *)
LEMMA ChaseSpec ==
  ASSUME NEW D, IsFiniteSet(D), NEW next \in [D -> D], Ending(next, D), NEW x \in D
  PROVE  /\ Chase(next, x) \in D /\ next[Chase(next, x)] = Chase(next, x)
         /\ Chase(next, next[x]) = Chase(next, x)
         /\ next[x] = x => Chase(next, x) = x
  <1> DEFINE n == Cardinality(D)
  <1>1. n \in Nat /\ DOMAIN next = D
    BY FS_CardinalityType
  <1>2. PICK h : IsTrail(h, next, x, n) /\ Chase(next, x) = h[n]
    BY <1>1, ChaseIsTrail
  <1>3. PICK g : IsTrail(g, next, next[x], n) /\ Chase(next, next[x]) = g[n]
    BY <1>1, ChaseIsTrail
  <1>4. next[h[n]] = h[n]
    BY <1>2, TrailEnds
  <1>5. n # 0
    BY FS_EmptySet
  <1> HIDE DEF n
  <1>6. /\ h \in [0 .. n -> D] /\ h[0] = x
        /\ \A i \in 0 .. n : i # n => i + 1 \in 0 .. n /\ h[i + 1] = next[h[i]]
    BY <1>1, <1>2, TrailIn
  <1>7. /\ g \in [0 .. n -> D] /\ g[0] = next[x]
        /\ \A i \in 0 .. n : i # n => i + 1 \in 0 .. n /\ g[i + 1] = next[g[i]]
    BY <1>1, <1>3, TrailIn
  <1>8. g[n - 1] = h[n]
    <2> DEFINE B == {i \in 0 .. n - 1 : g[i] # h[i + 1]}
    <2>1. B = {}
      <3> SUFFICES ASSUME B # {} PROVE FALSE
        OBVIOUS
      <3>1. B \in SUBSET Nat
        OBVIOUS
      <3>2. PICK i \in B : \A j \in B : i <= j
        <4> HIDE DEF B
        <4> QED  BY <3>1, Least
      <3>3. i \in 0 .. n /\ i # n /\ 0 \in 0 .. n /\ 0 # n
        BY <1>1, <1>5
      <3>4. h[i + 1] = next[h[i]] /\ h[0 + 1] = next[h[0]]
        BY <1>6, <3>3
      <3>5. i # 0
        BY <1>6, <1>7, <3>2, <3>4
      <3>6. i - 1 \in 0 .. n - 1 /\ i - 1 \notin B /\ (i - 1) + 1 = i /\ i - 1 \in 0 .. n /\ i - 1 # n
        BY <1>1, <3>2, <3>5
      <3>7. g[i] = next[g[i - 1]] /\ g[i - 1] = h[i]
        BY <1>7, <3>6
      <3> QED  BY <3>2, <3>4, <3>7
    <2>2. n - 1 \in 0 .. n - 1 /\ (n - 1) + 1 = n
      BY <1>1, <1>5
    <2> QED  BY <2>1, <2>2
  <1>9. g[n] = next[g[n - 1]]
    <2>1. n - 1 \in 0 .. n /\ n - 1 # n /\ (n - 1) + 1 = n
      BY <1>1, <1>5
    <2> QED  BY <1>7, <2>1
  <1>10. next[x] = x => h[n] = x
    <2>1. 0 \in 0 .. n /\ n \in 0 .. n
      BY <1>1
    <2> QED  BY <1>1, <1>2, <1>6, <2>1, TrailStays
  <1>11. h[n] \in D
    BY <1>1, <1>6
  <1> QED  BY <1>2, <1>3, <1>4, <1>8, <1>9, <1>10, <1>11

-----------------------------------------------------------------------------
(* Names, links and artifacts, which no step changes.                       *)

(* Links are without loops, and what artifacts share, but for the families  *)
(* of one artifact, is nothing.                                             *)
Static ==
  /\ \A n \in Path : entry[n] \in Entries(n)
  /\ \A S \in (SUBSET Path) \ {{}} : \E n \in S : entry[n].to \notin S
  /\ has \in [Artifact -> SUBSET Path]
  /\ \A a, b \in Artifact : Origin(a) = Origin(b) => has[a] = has[b]
  /\ \A a, b \in Artifact : \A n \in has[a] \intersect has[b] : Origin(a) = Origin(b)

LEMMA NoneIsNowhere ==
  /\ None \notin Path /\ \A k \in Packages, n \in Path : None # <<k, n>>
  /\ IsFiniteSet(Path) /\ IsFiniteSet(Path \union {None})
  <1>1. IsFiniteSet(Path \union {None})
    BY ArtifactAssumption, FS_AddElement
  <1> QED  BY <1>1, ArtifactAssumption

(* What an entry may be.                                                    *)
LEMMA EntryIs ==
  ASSUME Static, NEW n \in Path
  PROVE  /\ entry[n].kind = "link" => entry[n].to \in Path /\ entry[n].to # n
         /\ entry[n].kind # "link" => entry[n].to = None
         /\ entry[n].soname # None => entry[n].kind = "so"
         /\ entry[n].near => entry[n].kind = "link" /\ entry[n].to.dir = n.dir
  BY DEF Static, Entries, File, Lib, Link

(* A link next to its target has another name.                              *)
LEMMA NearNames ==
  ASSUME Static, NEW n \in Path, entry[n].near
  PROVE  entry[n].to \in Path /\ entry[n].to.name # n.name
  BY EntryIs, ArtifactAssumption

(* Induction along links: there are none that lead on for ever.             *)
LEMMA LinksEnd ==
  ASSUME Static, NEW B \in SUBSET Path, \A n \in B : entry[n].to \in B
  PROVE  B = {}
  BY DEF Static

(* One after the other of the links in S, and where they lead.              *)
HopsIn(S) ==
  [m \in Path \union {None} |-> IF m = None \/ m \notin S THEN None
                                ELSE IF entry[m].kind = "link" THEN entry[m].to ELSE m]
EndIn(S, n) == Chase(HopsIn(S), n)

LEMMA EndInSpec ==
  ASSUME Static, NEW S \in SUBSET Path, NEW n \in Path \union {None}
  PROVE  /\ n = None \/ n \notin S => EndIn(S, n) = None
         /\ n \in S /\ entry[n].kind # "link" => EndIn(S, n) = n
         /\ n \in S /\ entry[n].kind = "link" => EndIn(S, n) = EndIn(S, entry[n].to)
         /\ EndIn(S, n) # None => EndIn(S, n) \in S /\ entry[EndIn(S, n)].kind # "link"
  <1> DEFINE D == Path \union {None}
             next == HopsIn(S)
  <1>1. next \in [D -> D]
    BY EntryIs DEF HopsIn
  <1>2. Ending(next, D)
    <2> SUFFICES ASSUME NEW T \in SUBSET D, T # {} PROVE \E y \in T : next[y] = y \/ next[y] \notin T
      BY DEF Ending
    <2>1. CASE None \in T
      <3>1. next[None] = None
        BY DEF HopsIn
      <3> QED  BY <2>1, <3>1
    <2>2. CASE None \notin T
      <3>1. T \in (SUBSET Path) \ {{}}
        BY <2>2
      <3>2. PICK y \in T : entry[y].to \notin T
        BY <3>1 DEF Static
      <3>3. next[y] = y \/ next[y] \notin T
        BY <2>2, <3>2 DEF HopsIn
      <3> QED  BY <3>3
    <2> QED  BY <2>1, <2>2
  <1>3. IsFiniteSet(D)
    BY NoneIsNowhere
  <1>4. \A x \in D : next[x] = IF x = None \/ x \notin S THEN None
                               ELSE IF entry[x].kind = "link" THEN entry[x].to ELSE x
    BY DEF HopsIn
  <1> HIDE DEF next, D
  <1>5. \A x \in D : /\ Chase(next, x) \in D /\ next[Chase(next, x)] = Chase(next, x)
                     /\ Chase(next, next[x]) = Chase(next, x)
                     /\ next[x] = x => Chase(next, x) = x
    BY <1>1, <1>2, <1>3, ChaseSpec
  <1>6. n \in D /\ None \in D
    BY DEF D
  <1>7. \A x \in D : EndIn(S, x) = Chase(next, x)
    BY DEF EndIn, next
  <1>8. n = None \/ n \notin S => EndIn(S, n) = None
    <2> SUFFICES ASSUME n = None \/ n \notin S PROVE EndIn(S, n) = None
      OBVIOUS
    <2>1. next[n] = None /\ next[None] = None
      BY <1>4, <1>6
    <2>2. Chase(next, None) = None /\ Chase(next, n) = Chase(next, None)
      BY <1>5, <1>6, <2>1
    <2> QED  BY <1>6, <1>7, <2>2
  <1>9. n \in S => n # None
    BY NoneIsNowhere
  <1>10. n \in S /\ entry[n].kind # "link" => EndIn(S, n) = n
    BY <1>4, <1>5, <1>6, <1>7, <1>9
  <1>11. n \in S /\ entry[n].kind = "link" => EndIn(S, n) = EndIn(S, entry[n].to)
    <2> SUFFICES ASSUME n \in S, entry[n].kind = "link" PROVE EndIn(S, n) = EndIn(S, entry[n].to)
      OBVIOUS
    <2>1. next[n] = entry[n].to /\ entry[n].to \in D
      BY <1>4, <1>6, <1>9, EntryIs DEF D
    <2> QED  BY <1>5, <1>6, <1>7, <2>1
  <1>12. EndIn(S, n) # None => EndIn(S, n) \in S /\ entry[EndIn(S, n)].kind # "link"
    <2> SUFFICES ASSUME EndIn(S, n) # None
                 PROVE  EndIn(S, n) \in S /\ entry[EndIn(S, n)].kind # "link"
      OBVIOUS
    <2> DEFINE e == EndIn(S, n)
    <2>1. e \in D /\ next[e] = e /\ e # None
      BY <1>5, <1>6, <1>7
    <2> HIDE DEF e
    <2>2. e \in S
      BY <1>4, <2>1
    <2>3. entry[e].kind # "link"
      <3>1. e \in Path
        BY <2>2
      <3> QED  BY <1>4, <2>1, <2>2, <3>1, EntryIs
    <2> QED  BY <2>2, <2>3 DEF e
  <1> QED  BY <1>8, <1>10, <1>11, <1>12

(* Resolving a name in an artifact, ...                                     *)
LEMMA ResolveIs == \A a, n : Resolve(a, n) = EndIn(has[a], n)
  BY DEF Resolve, Hop, EndIn, HopsIn

LEMMA ResolveSpec ==
  ASSUME Static, NEW a \in Artifact, NEW n \in Path
  PROVE  /\ n \notin has[a] => Resolve(a, n) = None
         /\ n \in has[a] /\ entry[n].kind # "link" => Resolve(a, n) = n
         /\ n \in has[a] /\ entry[n].kind = "link" => Resolve(a, n) = Resolve(a, entry[n].to)
         /\ Resolve(a, n) # None => /\ n \in has[a] /\ Resolve(a, n) \in has[a]
                                    /\ Resolve(a, n) \in Path
                                    /\ entry[Resolve(a, n)].kind # "link"
  <1>1. has[a] \in SUBSET Path
    BY DEF Static
  <1> QED  BY <1>1, EndInSpec, ResolveIs

(* ... which is the same for all families of it.                            *)
LEMMA ResolveSame == \A a, b, n : has[a] = has[b] => Resolve(a, n) = Resolve(b, n)
  BY ResolveIs

(* In the merged tree it leads where it leads in an artifact, if anywhere.  *)
Everywhere == {n \in Path : \E a \in Artifact : n \in has[a]}

LEMMA InTreeIs == ASSUME Static PROVE \A n : InTree(n) = EndIn(Everywhere, n)
  <1>1. [m \in Path \union {None} |-> HopInTree(m)] = HopsIn(Everywhere)
    <2>1. ASSUME NEW m \in Path \union {None} PROVE HopInTree(m) = HopsIn(Everywhere)[m]
      BY NoneIsNowhere DEF HopInTree, HopsIn, Everywhere
    <2>2. HopsIn(Everywhere) = [m \in Path \union {None} |-> HopsIn(Everywhere)[m]]
      BY DEF HopsIn
    <2> QED  BY <2>1, <2>2
  <1> QED  BY <1>1 DEF InTree, EndIn

LEMMA InTreeSpec ==
  ASSUME Static, NEW n \in Path
  PROVE  /\ n \notin Everywhere => InTree(n) = None
         /\ n \in Everywhere /\ entry[n].kind # "link" => InTree(n) = n
         /\ n \in Everywhere /\ entry[n].kind = "link" => InTree(n) = InTree(entry[n].to)
         /\ InTree(n) # None => InTree(n) \in Everywhere /\ entry[InTree(n)].kind # "link"
  <1>1. Everywhere \in SUBSET Path
    BY DEF Everywhere
  <1> QED  BY <1>1, EndInSpec, InTreeIs

LEMMA ResolveInTree ==
  ASSUME Static, NEW a \in Artifact
  PROVE  \A n \in Path : Resolve(a, n) # None => InTree(n) = Resolve(a, n)
  <1> DEFINE B == {n \in Path : Resolve(a, n) # None /\ InTree(n) # Resolve(a, n)}
  <1>1. ASSUME NEW n \in B PROVE entry[n].to \in B
    <2>1. n \in has[a] /\ n \in Everywhere
      BY ResolveSpec DEF Everywhere
    <2>2. entry[n].kind = "link"
      BY <2>1, ResolveSpec, InTreeSpec
    <2>3. Resolve(a, n) = Resolve(a, entry[n].to) /\ InTree(n) = InTree(entry[n].to)
      BY <2>1, <2>2, ResolveSpec, InTreeSpec
    <2> QED  BY <2>2, <2>3, EntryIs
  <1>2. B \in SUBSET Path
    OBVIOUS
  <1> HIDE DEF B
  <1>3. B = {}
    BY <1>1, <1>2, LinksEnd
  <1> QED  BY <1>3 DEF B

-----------------------------------------------------------------------------
(* The invariant.                                                           *)

Content ==
  {Absent, Old, Directory}
  \union {Copy(a, n) : a \in Artifact, n \in Path}
  \union {Stub(n) : n \in Path} \union {Symlink(n) : n \in Path}
  \union {Back(at) : at \in Packages \X Path}

Typed ==
  /\ materialized \in [Path -> (Packages \X Path) \union {None}]
  /\ pkg \in [Packages -> [Path -> Content]]

(* The packages that are not begun.                                         *)
Ahead == {queue[i] : i \in 2 .. Len(queue)}

(* The devel package is the last one.                                       *)
Waterfall ==
  /\ queue \in Seq(Packages)
  /\ \A i, j \in 1 .. Len(queue) : queue[i] = queue[j] => i = j
  /\ queue # << >> => queue[Len(queue)] = "devel" /\ todo \subseteq Names(Head(queue))
  /\ queue = << >> => todo = {}

(* The loop over the catalog of package k has been at n.                    *)
Visited(k, n) ==
  /\ k \notin Ahead /\ n \in Names(k)
  /\ queue # << >> /\ k = Head(queue) => n \notin todo

(* What a runtime package has of artifact a: files and links to files, and  *)
(* of libraries the SONAME only; ...                                        *)
Keeps(a, n) ==
  LET file == Resolve(a, n) IN
  /\ n \in has[a] /\ file # None /\ entry[file].kind # "dir"
  /\ entry[file].kind = "so" => entry[file].soname = n.name

(* ... as what; ...                                                         *)
Value(a, n) ==
  IF entry[n].kind = "link" /\ entry[Resolve(a, n)].kind = "exe" THEN Stub(entry[n].to)
  ELSE Copy(a, Resolve(a, n))

(* ... and the name m that n is rotated with.                               *)
Turns(a, n, m) ==
  /\ Resolve(a, n) # None /\ entry[Resolve(a, n)].kind = "so"
  /\ entry[n].near /\ m = entry[n].to

(* What n is recorded to be is there, under the name m.                     *)
Shows(a, k, m, n) ==
  /\ Keeps(a, m) /\ pkg[k][m] = Value(a, m)
  /\ m = n \/ Turns(a, m, n)
IsAt(k, m, n) ==
  /\ materialized[n] = <<k, m>> /\ materialized[m] = <<k, m>> /\ Visited(k, m)
  /\ \E a \in Catalog(k) : Shows(a, k, m, n)
Placed ==
  \A n \in Path : materialized[n] # None => \E k \in Packages \ {"devel"}, m \in Path : IsAt(k, m, n)

(* No name is left out that a runtime package keeps, ...                    *)
Kept ==
  \A k \in Packages \ {"devel"} : \A a \in Catalog(k) : \A n \in Path :
    Visited(k, n) /\ Keeps(a, n) => materialized[n] # None

(* ... and the names of an artifact are all in one package.                 *)
Together ==
  \A a \in Artifact : \A m, n \in has[a] : \A j, k \in Packages : \A x, y \in Path :
    materialized[m] = <<j, x>> /\ materialized[n] = <<k, y>> => j = k

(* Runtime packages have no links, and record what they have.               *)
Recorded ==
  \A k \in Packages \ {"devel"} : \A n \in Path :
    /\ pkg[k][n].is \notin {"link", "back"}
    /\ pkg[k][n].is \in {"copy", "stub"} => materialized[n] = <<k, n>>

(* The target of a link that was rotated is recorded.                       *)
Rotated ==
  \A k \in Packages : \A a \in Artifact : \A m, n \in Path :
    materialized[n] = <<k, n>> /\ Turns(a, n, m) => materialized[m] # None

(* What the devel package has of n.                                         *)
InDevel(n) ==
  IF entry[n].kind = "dir" THEN pkg["devel"][n] = Directory
  ELSE IF materialized[n] # None THEN pkg["devel"][n] = Back(materialized[n])
  ELSE IF entry[n].kind = "link" THEN pkg["devel"][n] = Symlink(entry[n].to)
  ELSE \E a \in Artifact : n \in has[a] /\ pkg["devel"][n] = Copy(a, n)
DevelLast ==
  "devel" \notin Ahead => \A n \in Path :
    IF Visited("devel", n) THEN InDevel(n) ELSE pkg["devel"][n] = Absent

Inv ==
  /\ ~ failed /\ Static /\ Typed /\ Waterfall /\ Placed /\ Kept /\ Together /\ Recorded
  /\ Rotated /\ DevelLast

-----------------------------------------------------------------------------
(* Catalogs.                                                                *)

LEMMA CatalogIs ==
  /\ \A k : Catalog(k) \subseteq Artifact
  /\ Catalog("devel") = Artifact
  /\ \A k : k \notin {"core", "devel"} => Catalog(k) = {a \in Artifact : LibrariesFilter(k, a)}
  /\ Catalog("core") = {a \in Artifact : CoreFilter(a)}
  BY DEF Catalog

LEMMA NamesIs ==
  \A k, n : n \in Names(k) <=> /\ \E a \in Catalog(k) : n \in has[a]
                               /\ k = "core" => entry[n].kind # "cmake"
  BY DEF Names

(* An artifact of the core package is of no other runtime package.          *)
LEMMA CoreApart ==
  ASSUME NEW k, k \notin {"core", "devel"}, NEW a \in Catalog("core"), NEW b \in Catalog(k)
  PROVE  a.name # b.name
  BY CatalogIs DEF CoreFilter, LibrariesFilter

LEMMA OnePackage ==
  ASSUME NEW j, NEW k, j # "devel", k # "devel", NEW a \in Catalog(j), a \in Catalog(k)
  PROVE  j = k
  <1>1. CASE j = "core" \/ k = "core"
    BY <1>1, CoreApart
  <1>2. CASE j # "core" /\ k # "core"
    BY <1>2, CatalogIs DEF LibrariesFilter
  <1> QED  BY <1>1, <1>2

(* What one family of an artifact keeps, the others do as well.             *)
LEMMA KeepsSame ==
  ASSUME Static, NEW a \in Artifact, NEW b \in Artifact, NEW n \in has[a] \intersect has[b]
  PROVE  /\ has[a] = has[b] /\ a.name = b.name
         /\ \A m : Resolve(a, m) = Resolve(b, m)
         /\ \A m : Keeps(a, m) <=> Keeps(b, m)
         /\ \A m, x : Turns(a, m, x) <=> Turns(b, m, x)
  <1>1. has[a] = has[b] /\ a.name = b.name
    BY DEF Static, Origin
  <1> QED  BY <1>1, ResolveSame DEF Keeps, Turns

(* What a link is rotated with is of the same artifact.                     *)
LEMMA TurnsIn ==
  ASSUME Static, NEW a \in Artifact, NEW n \in Path, NEW m, Turns(a, n, m)
  PROVE  /\ n \in has[a] /\ m \in has[a] /\ m \in Path /\ m # n
         /\ Resolve(a, m) = Resolve(a, n) /\ Resolve(a, n) \in Path
         /\ entry[n].kind = "link" /\ entry[n].to = m
  BY ResolveSpec, EntryIs DEF Turns

-----------------------------------------------------------------------------
(* The first state.                                                         *)

LEMMA Concatenated ==
  ASSUME NEW S, NEW s \in Seq(S), NEW t \in Seq(S)
  PROVE  /\ s \o t \in Seq(S) /\ Len(s \o t) = Len(s) + Len(t)
         /\ \A i \in 1 .. Len(s) : (s \o t)[i] = s[i]
         /\ \A i \in 1 .. Len(t) : (s \o t)[Len(s) + i] = t[i]
  OBVIOUS

LEMMA PackagesFinite == IsFiniteSet(Families) /\ IsFiniteSet(Packages)
  <1> DEFINE T == {a.family : a \in Artifact}
  <1>1. IsFiniteSet(T)
    <2> DEFINE f == [a \in Artifact |-> a.family]
    <2>1. f \in Surjection(Artifact, T)
      BY DEF Surjection
    <2> HIDE DEF f, T
    <2> QED  BY <2>1, ArtifactAssumption, FS_Surjection
  <1>2. Families \in SUBSET T
    BY DEF Families
  <1> HIDE DEF T
  <1>3. IsFiniteSet(Families)
    BY <1>1, <1>2, FS_Subset
  <1>4. Packages = (Families \union {"devel"}) \union {"core"}
    BY DEF Packages
  <1>5. IsFiniteSet(Families \union {"devel"})
    BY <1>3, FS_AddElement
  <1> QED  BY <1>3, <1>4, <1>5, FS_AddElement

LEMMA WaterfallStarts ==
  ASSUME NEW order \in SetToSeqs(Families), queue = <<"core">> \o order \o <<"devel">>,
         todo = Names("core")
  PROVE  Waterfall /\ Ahead = Packages \ {"core"} /\ queue # << >> /\ Head(queue) = "core"
  <1> DEFINE n == Cardinality(Families)
  <1>1. IsFiniteSet(Families)
    BY PackagesFinite
  <1>2. n \in Nat
    BY <1>1, FS_CardinalityType
  <1>3. /\ order \in [1 .. n -> Families]
        /\ \A i, j \in 1 .. n : i # j => order[i] # order[j]
    BY DEF SetToSeqs
  <1>4. \A f \in Families : \E i \in 1 .. n : order[i] = f
    <2>1. order \in Injection(1 .. n, Families)
      BY <1>3 DEF Injection, IsInjective
    <2>2. Cardinality(1 .. n) = n
      BY <1>2, FS_Interval
    <2>3. order \in Surjection(1 .. n, Families)
      BY <1>1, <2>1, <2>2, FS_Injection
    <2> QED  BY <2>3 DEF Surjection
  <1> HIDE DEF n
  <1>5. order \in Seq(Packages) /\ Len(order) = n
    BY <1>2, <1>3 DEF Packages
  <1>6. /\ queue \in Seq(Packages) /\ Len(queue) = n + 2
        /\ queue[1] = "core" /\ queue[n + 2] = "devel"
        /\ \A i \in 1 .. n : queue[i + 1] = order[i]
    <2> DEFINE c == <<"core">>
               d == <<"devel">>
    <2>1. /\ c \in Seq(Packages) /\ d \in Seq(Packages) /\ Len(c) = 1 /\ Len(d) = 1
          /\ c[1] = "core" /\ d[1] = "devel"
      BY DEF Packages
    <2>2. queue = c \o order \o d
      OBVIOUS
    <2> HIDE DEF c, d
    <2> DEFINE e == c \o order
    <2>3. /\ e \in Seq(Packages) /\ Len(e) = 1 + n
          /\ \A i \in 1 .. 1 : e[i] = c[i]
          /\ \A i \in 1 .. n : e[1 + i] = order[i]
      <3>1. /\ e \in Seq(Packages) /\ Len(e) = Len(c) + Len(order)
            /\ \A i \in 1 .. Len(c) : e[i] = c[i]
            /\ \A i \in 1 .. Len(order) : e[Len(c) + i] = order[i]
        <4>1. c \in Seq(Packages) /\ order \in Seq(Packages)
          BY <1>5, <2>1
        <4> QED  BY ONLY <4>1, Concatenated
      <3> QED  BY <1>5, <2>1, <3>1
    <2>4. queue = e \o d
      BY <2>2
    <2> HIDE DEF e
    <2>5. /\ queue \in Seq(Packages) /\ Len(queue) = Len(e) + 1
          /\ \A i \in 1 .. Len(e) : queue[i] = e[i]
          /\ \A i \in 1 .. 1 : queue[Len(e) + i] = d[i]
      <3>1. /\ queue \in Seq(Packages) /\ Len(queue) = Len(e) + Len(d)
            /\ \A i \in 1 .. Len(e) : queue[i] = e[i]
            /\ \A i \in 1 .. Len(d) : queue[Len(e) + i] = d[i]
        <4>1. e \in Seq(Packages) /\ d \in Seq(Packages)
          BY <2>1, <2>3
        <4> QED  BY ONLY <4>1, <2>4, Concatenated
      <3> QED  BY <2>1, <3>1
    <2>6. Len(e) = n + 1 /\ Len(e) + 1 = n + 2 /\ \A i \in 1 .. n : 1 + i = i + 1 /\ i + 1 \in 1 .. n + 1
      BY <1>2, <2>3
    <2>7. 1 \in 1 .. Len(e) /\ e[1] = "core" /\ queue[Len(e) + 1] = d[1]
      BY <1>2, <2>1, <2>3, <2>5, <2>6
    <2> QED  BY <2>1, <2>3, <2>5, <2>6, <2>7
  <1>7. \A i \in 1 .. n + 2 : i = 1 \/ i = n + 2 \/ (i - 1 \in 1 .. n /\ (i - 1) + 1 = i)
    BY <1>2
  <1>8. Families \intersect {"core", "devel"} = {}
    BY ArtifactAssumption DEF Families
  <1>9. \A i \in 1 .. n + 2 :
          IF i = 1 THEN queue[i] = "core" ELSE IF i = n + 2 THEN queue[i] = "devel"
          ELSE i - 1 \in 1 .. n /\ queue[i] = order[i - 1] /\ queue[i] \in Families
    BY <1>2, <1>3, <1>6, <1>7
  <1>10. \A i, j \in 1 .. n + 2 : queue[i] = queue[j] => i = j
    <2> SUFFICES ASSUME NEW i \in 1 .. n + 2, NEW j \in 1 .. n + 2, queue[i] = queue[j] PROVE i = j
      OBVIOUS
    <2>1. CASE queue[i] \in Families
      <3>1. order[i - 1] = order[j - 1] /\ i - 1 \in 1 .. n /\ j - 1 \in 1 .. n
        BY <1>8, <1>9, <2>1
      <3>2. i - 1 = j - 1
        BY <1>3, <3>1
      <3> QED  BY <1>2, <3>2
    <2>2. CASE queue[i] \notin Families
      <3>1. queue[j] \notin Families
        BY <2>2
      <3>2. (i = 1 \/ i = n + 2) /\ (j = 1 \/ j = n + 2)
        BY <1>9, <2>2, <3>1
      <3>3. queue[1] # queue[n + 2]
        BY ONLY <1>6
      <3> QED  BY ONLY <3>2, <3>3, queue[i] = queue[j]
    <2> QED  BY <2>1, <2>2
  <1>11. Waterfall
    <2>1. queue # << >> /\ Head(queue) = "core" /\ queue[Len(queue)] = "devel"
      BY <1>2, <1>6
    <2> QED  BY <1>6, <1>10, <2>1 DEF Waterfall
  <1>12. Ahead = Packages \ {"core"}
    <2>1. ASSUME NEW k \in Ahead PROVE k \in Packages \ {"core"}
      <3>1. PICK i \in 2 .. n + 2 : k = queue[i]
        BY <1>6 DEF Ahead
      <3>2. i \in 1 .. n + 2 /\ i # 1
        BY <1>2
      <3> QED  BY <1>8, <1>9, <3>1, <3>2 DEF Packages
    <2>2. ASSUME NEW k \in Packages \ {"core"} PROVE k \in Ahead
      <3>1. CASE k = "devel"
        BY <1>2, <1>6, <3>1 DEF Ahead
      <3>2. CASE k \in Families
        <4>1. PICK i \in 1 .. n : order[i] = k
          BY <1>4, <3>2
        <4>2. i + 1 \in 2 .. n + 2 /\ queue[i + 1] = k
          BY <1>2, <1>6, <4>1
        <4> QED  BY <1>6, <4>2 DEF Ahead
      <3> QED  BY <3>1, <3>2 DEF Packages
    <2> QED  BY <2>1, <2>2
  <1> QED  BY <1>2, <1>6, <1>11, <1>12

LEMMA StaticStarts == Init => Static
  <1> SUFFICES ASSUME Init PROVE Static
    OBVIOUS
  <1>1. PICK owner \in [Path -> {Origin(a) : a \in Artifact} \union {None}] :
          has = [a \in Artifact |-> {n \in Path : owner[n] = Origin(a)}]
    BY DEF Init
  <1>2. /\ \A n \in Path : entry[n] \in Entries(n)
        /\ \A S \in (SUBSET Path) \ {{}} : \E n \in S : entry[n].to \notin S
    BY DEF Init
  <1>3. has \in [Artifact -> SUBSET Path]
    BY <1>1
  <1>4. \A a, b \in Artifact : Origin(a) = Origin(b) => has[a] = has[b]
    BY <1>1
  <1>5. ASSUME NEW a \in Artifact, NEW b \in Artifact, NEW n \in has[a] \intersect has[b]
        PROVE  Origin(a) = Origin(b)
    <2>1. owner[n] = Origin(a) /\ owner[n] = Origin(b)
      BY <1>1
    <2> QED  BY <2>1
  <1> QED  BY <1>2, <1>3, <1>4, <1>5 DEF Static

LEMMA InitInv == Init => Inv
  <1> SUFFICES ASSUME Init PROVE Inv
    OBVIOUS
  <1>1. Static
    BY StaticStarts
  <1>2. PICK order \in SetToSeqs(Families) : queue = <<"core">> \o order \o <<"devel">>
    BY DEF Init
  <1>3. Waterfall /\ Ahead = Packages \ {"core"} /\ queue # << >> /\ Head(queue) = "core"
    BY <1>2, WaterfallStarts DEF Init
  <1>4. PICK before \in {Absent, Old} :
          pkg = [k \in Packages |-> [n \in Path |-> IF k = "core" THEN Absent ELSE before]]
    BY DEF Init
  <1>5. ~ failed /\ materialized = [n \in Path |-> None] /\ todo = Names("core")
    BY DEF Init
  <1>6. Typed
    BY <1>4, <1>5 DEF Typed, Content
  <1>7. ASSUME NEW k \in Packages, NEW n PROVE ~ Visited(k, n)
    <2>1. CASE k # "core"
      BY <1>3, <2>1 DEF Visited
    <2>2. CASE k = "core"
      <3> QED  BY <1>3, <1>5, <2>2 DEF Visited
    <2> QED  BY <2>1, <2>2
  <1>8. Placed /\ Kept /\ Together /\ Rotated
    <2>1. \A k \in Packages, n \in Path : None # <<k, n>>
      BY NoneIsNowhere
    <2>2. \A a \in Artifact : has[a] \subseteq Path
      BY <1>1 DEF Static
    <2>3. Together
      BY <1>5, <2>1, <2>2 DEF Together
    <2> QED  BY <1>5, <1>7, <2>1, <2>3 DEF Placed, Kept, Rotated
  <1>9. Recorded
    BY <1>4 DEF Recorded, Absent, Old
  <1>10. DevelLast
    BY <1>3 DEF DevelLast, Packages
  <1> QED  BY <1>1, <1>3, <1>5, <1>6, <1>8, <1>9, <1>10 DEF Inv

-----------------------------------------------------------------------------
(* The steps.                                                               *)

LEMMA SameStatic ==
  ASSUME UNCHANGED <<entry, has>>
  PROVE  /\ Static => Static'
         /\ \A a, n : Resolve(a, n)' = Resolve(a, n)
         /\ \A a, n : Keeps(a, n)' <=> Keeps(a, n)
         /\ \A a, n : Value(a, n)' = Value(a, n)
         /\ \A a, n, m : Turns(a, n, m)' <=> Turns(a, n, m)
         /\ \A k : Names(k)' = Names(k)
  <1>1. \A a, n : Resolve(a, n)' = Resolve(a, n)
    BY DEF Resolve, Hop
  <1>2. Static => Static'
    BY DEF Static
  <1>3. \A k : Names(k)' = Names(k)
    BY DEF Names
  <1>4. \A a, n : Keeps(a, n)' <=> Keeps(a, n)
    BY <1>1 DEF Keeps
  <1>5. \A a, n : Value(a, n)' = Value(a, n)
    BY <1>1 DEF Value
  <1>6. \A a, n, m : Turns(a, n, m)' <=> Turns(a, n, m)
    BY <1>1 DEF Turns
  <1> QED  BY <1>1, <1>2, <1>3, <1>4, <1>5, <1>6

(* Where the waterfall is.                                                  *)
LEMMA QueueIs ==
  ASSUME Waterfall, queue # << >>
  PROVE  /\ Len(queue) \in Nat \ {0} /\ Head(queue) = queue[1] /\ Head(queue) \in Packages
         /\ Head(queue) \notin Ahead
         /\ Head(queue) = "devel" => Len(queue) = 1
         /\ Head(queue) # "devel" => "devel" \in Ahead
         /\ Len(queue) = 1 => Ahead = {} /\ Head(queue) = "devel"
  <1>1. queue \in Seq(Packages) /\ Len(queue) \in Nat \ {0}
    BY DEF Waterfall
  <1> DEFINE l == Len(queue)
  <1>2. /\ l \in Nat \ {0} /\ Head(queue) = queue[1] /\ queue[1] \in Packages
    BY <1>1
  <1>3. queue[l] = "devel" /\ \A i, j \in 1 .. l : queue[i] = queue[j] => i = j
    BY DEF Waterfall
  <1>4. Ahead = {queue[i] : i \in 2 .. l}
    BY DEF Ahead
  <1> HIDE DEF l
  <1>5. 1 \in 1 .. l /\ l \in 1 .. l /\ \A i \in 2 .. l : i \in 1 .. l /\ i # 1
    BY <1>2
  <1>6. queue[1] \notin Ahead
    BY <1>3, <1>4, <1>5
  <1>7. queue[1] = "devel" => l = 1
    BY <1>3, <1>5
  <1>8. queue[1] # "devel" => "devel" \in Ahead
    <2> SUFFICES ASSUME queue[1] # "devel" PROVE "devel" \in Ahead
      OBVIOUS
    <2>1. l # 1
      BY <1>3
    <2>2. l \in 2 .. l
      BY <1>2, <2>1
    <2> QED  BY <1>3, <1>4, <2>2
  <1>9. l = 1 => Ahead = {}
    BY <1>4
  <1> QED  BY <1>2, <1>3, <1>6, <1>7, <1>8, <1>9 DEF l

(* A turn of the loop visits one more name.                                 *)
LEMMA VisitedGrows ==
  ASSUME Waterfall, NEW n \in todo, todo' = todo \ {n}, UNCHANGED <<entry, has, queue>>
  PROVE  /\ queue # << >> /\ n \in Names(Head(queue)) /\ Waterfall' /\ Ahead' = Ahead
         /\ ~ Visited(Head(queue), n)
         /\ \A k, m : Visited(k, m)' <=> Visited(k, m) \/ (k = Head(queue) /\ m = n)
  <1>1. queue # << >> /\ todo \subseteq Names(Head(queue))
    BY DEF Waterfall
  <1>2. Ahead' = Ahead /\ Head(queue)' = Head(queue) /\ \A k : Names(k)' = Names(k)
    BY SameStatic DEF Ahead
  <1>3. Head(queue) \notin Ahead
    BY <1>1, QueueIs
  <1>4. Waterfall'
    BY <1>1, <1>2 DEF Waterfall
  <1>5. \A k, m : Visited(k, m)' <=> Visited(k, m) \/ (k = Head(queue) /\ m = n)
    BY <1>1, <1>2, <1>3 DEF Visited
  <1> QED  BY <1>1, <1>2, <1>4, <1>5 DEF Visited

(* What a turn for a runtime package does.                                  *)
LEMMA LibEffect ==
  ASSUME Static, Typed, NEW a \in Artifact, NEW n \in has[a], VisitLib(a, n)
  PROVE  \/ /\ UNCHANGED <<materialized, failed>>
            /\ pkg' = pkg \/ (materialized[n] = None /\ Put(n, Directory))
            /\ materialized[n] # None \/ ~ Keeps(a, n)
         \/ /\ Keeps(a, n) /\ materialized[n] = None /\ UNCHANGED failed
            /\ Put(n, Value(a, n))
            /\ materialized' = [m \in Path |-> IF m = n \/ Turns(a, n, m) THEN Here(n)
                                               ELSE materialized[m]]
            /\ \A m \in Path : Turns(a, n, m) => materialized[m] = None
         \/ /\ Keeps(a, n) /\ materialized[n] = None
            /\ \E m \in Path : Turns(a, n, m) /\ materialized[m] # None
  <1> DEFINE f == Resolve(a, n)
             to == entry[n].to
             here == [m \in Path |-> IF m = n \/ Turns(a, n, m) THEN Here(n) ELSE materialized[m]]
  <1>1. n \in Path /\ materialized = [m \in Path |-> materialized[m]]
    BY DEF Static, Typed
  <1>2. CASE materialized[n] # None
    BY <1>2 DEF VisitLib
  <1>3. CASE materialized[n] = None /\ entry[n].kind # "link"
    <2>1. f = n
      BY <1>1, <1>3, ResolveSpec
    <2>2. ~ entry[n].near
      BY <1>1, <1>3, EntryIs
    <2>3. LibFile(a, n)
      BY <1>3 DEF VisitLib
    <2>4. CASE entry[n].kind = "dir"
      BY <1>3, <2>1, <2>3, <2>4 DEF LibFile, Keeps
    <2>5. CASE entry[n].kind = "so" /\ entry[n].soname # n.name
      BY <1>3, <2>1, <2>3, <2>5 DEF LibFile, Keeps
    <2>6. CASE entry[n].kind # "dir" /\ ~ (entry[n].kind = "so" /\ entry[n].soname # n.name)
      <3>1. Keeps(a, n) /\ Value(a, n) = Copy(a, n) /\ \A m : ~ Turns(a, n, m)
        BY <1>1, <1>3, <2>1, <2>2, <2>6, NoneIsNowhere DEF Keeps, Value, Turns
      <3>2. Put(n, Copy(a, n)) /\ materialized' = [materialized EXCEPT ![n] = Here(n)] /\ UNCHANGED failed
        BY <2>3, <2>6 DEF LibFile
      <3>3. materialized' = here
        BY <1>1, <3>1, <3>2
      <3> QED  BY <1>3, <3>1, <3>2, <3>3
    <2> QED  BY <2>4, <2>5, <2>6
  <1>4. CASE materialized[n] = None /\ entry[n].kind = "link"
    <2>1. LibSymlink(a, n, f)
      BY <1>4 DEF VisitLib
    <2> HIDE DEF f
    <2>2. CASE f = None \/ entry[f].kind = "dir"
      BY <2>1, <2>2 DEF LibSymlink, Keeps, f
    <2>3. CASE f # None /\ entry[f].kind = "so"
      <3>1. LibSo(a, n, f)
        BY <2>1, <2>3 DEF LibSymlink
      <3>2. CASE entry[f].soname # n.name
        BY <3>1, <2>3, <3>2 DEF LibSo, Keeps, f
      <3>3. CASE entry[f].soname = n.name
        <4>1. Keeps(a, n) /\ Value(a, n) = Copy(a, f)
          BY <2>3, <3>3 DEF Keeps, Value, f
        <4>2. \A m : Turns(a, n, m) <=> entry[n].near /\ m = to
          BY <2>3 DEF Turns, f
        <4>3. to \in Path
          BY <1>1, <1>4, EntryIs
        <4>4. CASE entry[n].near /\ materialized[to] # None
          BY <1>4, <4>1, <4>2, <4>3, <4>4
        <4>5. CASE ~ (entry[n].near /\ materialized[to] # None)
          <5>1. /\ materialized' = [m \in Path |-> IF m = n \/ (entry[n].near /\ m = to)
                                                   THEN Here(n) ELSE materialized[m]]
                /\ Put(n, Copy(a, f)) /\ UNCHANGED failed
            BY <3>1, <3>3, <4>5 DEF LibSo
          <5>2. materialized' = here
            BY <4>2, <5>1
          <5>3. \A m \in Path : Turns(a, n, m) => materialized[m] = None
            BY <4>2, <4>5
          <5> QED  BY <1>4, <4>1, <5>1, <5>2, <5>3
        <4> QED  BY <4>4, <4>5
      <3> QED  BY <3>2, <3>3
    <2>4. CASE f # None /\ entry[f].kind \notin {"dir", "so"}
      <3>1. Keeps(a, n) /\ \A m : ~ Turns(a, n, m)
        BY <2>4 DEF Keeps, Turns, f
      <3>2. Value(a, n) = IF entry[f].kind = "exe" THEN Stub(entry[n].to) ELSE Copy(a, f)
        BY <1>4 DEF Value, f
      <3>3. /\ Put(n, IF entry[f].kind = "exe" THEN Stub(entry[n].to) ELSE Copy(a, f))
            /\ materialized' = [materialized EXCEPT ![n] = Here(n)]
            /\ UNCHANGED failed
        BY <2>1, <2>4 DEF LibSymlink
      <3>4. materialized' = here
        BY <1>1, <3>1, <3>3
      <3> QED  BY <1>4, <3>1, <3>2, <3>3, <3>4
    <2> QED  BY <2>2, <2>3, <2>4
  <1> QED  BY <1>2, <1>3, <1>4

(* A link that is rotated comes before its target: a package that had       *)
(* recorded the target, has it as this link's library or as another's, but  *)
(* a library has one SONAME.                                                *)
LEMMA AssertHolds ==
  ASSUME Static, Placed, NEW a \in Artifact, NEW n \in has[a], Keeps(a, n), materialized[n] = None,
         NEW to \in Path, Turns(a, n, to)
  PROVE  materialized[to] = None
  <1> SUFFICES ASSUME materialized[to] # None PROVE FALSE
    OBVIOUS
  <1>1. PICK k \in Packages \ {"devel"}, m \in Path : IsAt(k, m, to)
    BY DEF Placed
  <1>2. PICK b \in Catalog(k) : Shows(b, k, m, to)
    BY <1>1 DEF IsAt
  <1>3. b \in Artifact /\ Keeps(b, m) /\ (m = to \/ Turns(b, m, to)) /\ n \in Path
    BY <1>2, CatalogIs DEF Shows, Static
  <1>4. to \in has[a] /\ Resolve(a, to) = Resolve(a, n) /\ to # n
    BY <1>3, TurnsIn
  <1>5. m \in has[b]
    BY <1>3 DEF Keeps
  <1>6. to \in has[b]
    BY <1>3, <1>5, TurnsIn
  <1>7. \A x : Resolve(b, x) = Resolve(a, x)
    BY <1>3, <1>4, <1>6, KeepsSame
  <1>8. Resolve(b, m) = Resolve(b, to)
    BY <1>3, TurnsIn
  <1>9. entry[Resolve(a, n)].kind = "so" /\ entry[Resolve(a, n)].soname = n.name
    BY DEF Turns, Keeps
  <1>10. entry[Resolve(a, n)].soname = m.name
    BY <1>3, <1>4, <1>7, <1>8, <1>9 DEF Keeps
  <1>11. m = n
    <2>1. to.dir = n.dir /\ to.name # n.name
      BY <1>3, EntryIs, NearNames DEF Turns
    <2>2. m # to
      BY <1>9, <1>10, <2>1
    <2>3. to.dir = m.dir
      BY <1>3, <2>2, EntryIs DEF Turns
    <2> QED  BY <1>3, <1>9, <1>10, <2>1, <2>3, ArtifactAssumption
  <1> QED  BY <1>1, <1>11, NoneIsNowhere DEF IsAt

(* What is at a place stays there as long as nothing is put over it.        *)
LEMMA AtStays ==
  ASSUME UNCHANGED <<entry, has>>, NEW k \in Packages, NEW m \in Path, NEW n \in Path, IsAt(k, m, n),
         pkg'[k][m] = pkg[k][m], materialized'[n] = materialized[n],
         materialized'[m] = materialized[m], Visited(k, m)'
  PROVE  IsAt(k, m, n)'
  <1>1. PICK a \in Catalog(k) : Shows(a, k, m, n)
    BY DEF IsAt
  <1>2. Shows(a, k, m, n)'
    BY <1>1, SameStatic DEF Shows
  <1> QED  BY <1>2 DEF IsAt

(* An artifact that is being sorted into one runtime package has no name in *)
(* another: that one would have kept this name too.                         *)
LEMMA NoneElsewhere ==
  ASSUME Inv, queue # << >>, NEW a \in Catalog(Head(queue)), Head(queue) # "devel",
         NEW n \in has[a], Keeps(a, n), materialized[n] = None,
         NEW m \in has[a], NEW j \in Packages, NEW x \in Path, materialized[m] = <<j, x>>
  PROVE  j = Head(queue)
  <1> DEFINE k == Head(queue)
  <1> SUFFICES ASSUME j # k PROVE FALSE
    OBVIOUS
  <1>1. a \in Artifact /\ m \in Path /\ n \in Path /\ Static
    BY CatalogIs DEF Inv, Static
  <1>2. materialized[m] # None
    BY NoneIsNowhere
  <1>3. PICK i \in Packages \ {"devel"}, y \in Path : IsAt(i, y, m)
    BY <1>1, <1>2 DEF Inv, Placed
  <1>4. i = j
    BY <1>3 DEF IsAt
  <1>5. PICK c \in Catalog(i) : Shows(c, i, y, m)
    BY <1>3 DEF IsAt
  <1>6. c \in Artifact /\ m \in has[c]
    BY <1>1, <1>5, CatalogIs, TurnsIn DEF Shows, Keeps
  <1>7. has[c] = has[a] /\ c.name = a.name /\ Keeps(c, n)
    BY <1>1, <1>6, KeepsSame
  <1>8. i # "core"
    BY <1>4, <1>5, <1>7, CoreApart
  <1>9. Visited(i, n)
    <2>1. i \notin Ahead
      BY <1>3 DEF IsAt, Visited
    <2>2. n \in Names(i)
      BY <1>5, <1>7, <1>8, NamesIs
    <2> QED  BY <1>4, <2>1, <2>2 DEF Visited
  <1> QED  BY <1>1, <1>3, <1>5, <1>7, <1>9 DEF Inv, Kept

LEMMA LibStep ==
  ASSUME Inv, NEW n \in todo, NEW a \in Catalog(Head(queue)), n \in has[a], Head(queue) # "devel",
         VisitLib(a, n), todo' = todo \ {n}, UNCHANGED <<entry, has, queue>>
  PROVE  Inv'
  <1> DEFINE k == Head(queue)
  <1>1. /\ queue # << >> /\ n \in Names(k) /\ Waterfall' /\ Ahead' = Ahead /\ ~ Visited(k, n)
        /\ \A j, m : Visited(j, m)' <=> Visited(j, m) \/ (j = k /\ m = n)
    BY VisitedGrows DEF Inv
  <1>2. k \in Packages /\ k # "devel" /\ "devel" \in Ahead'
    BY <1>1, QueueIs DEF Inv
  <1>3. a \in Artifact /\ n \in Path /\ Static /\ Static' /\ Typed
    BY CatalogIs, SameStatic DEF Inv, Static
  <1>4. DevelLast'
    BY <1>2 DEF DevelLast
  <1>5. pkg \in [Packages -> [Path -> Content]]
    BY DEF Inv, Typed
  <1>6. CASE /\ UNCHANGED <<materialized, failed>>
             /\ pkg' = pkg \/ (materialized[n] = None /\ Put(n, Directory))
             /\ materialized[n] # None \/ ~ Keeps(a, n)
    <2>1. /\ pkg' \in [Packages -> [Path -> Content]]
          /\ \A j \in Packages, m \in Path :
               pkg'[j][m] = pkg[j][m] \/ (j = k /\ m = n /\ materialized[n] = None /\ pkg'[j][m] = Directory)
      <3>1. CASE pkg' = pkg
        BY <1>5, <3>1
      <3>2. CASE materialized[n] = None /\ Put(n, Directory)
        BY <1>2, <1>3, <1>5, <3>2 DEF Put, Content
      <3> QED  BY <1>6, <3>1, <3>2
    <2>2. Typed'
      BY <1>6, <2>1 DEF Inv, Typed
    <2>3. Placed'
      <3> SUFFICES ASSUME NEW x \in Path, materialized[x] # None
                   PROVE  \E j \in Packages \ {"devel"}, m \in Path : IsAt(j, m, x)'
        BY <1>6 DEF Placed
      <3>1. PICK j \in Packages \ {"devel"}, m \in Path : IsAt(j, m, x)
        BY DEF Inv, Placed
      <3>2. materialized[m] # None /\ Visited(j, m)
        BY <3>1, NoneIsNowhere DEF IsAt
      <3>3. pkg'[j][m] = pkg[j][m] /\ Visited(j, m)'
        BY <1>1, <2>1, <3>2
      <3> QED  BY <1>6, <3>1, <3>3, AtStays
    <2>4. Kept'
      <3> SUFFICES ASSUME NEW j \in Packages \ {"devel"}, NEW b \in Catalog(j), NEW m \in Path,
                          Visited(j, m)', Keeps(b, m)
                   PROVE  materialized[m] # None
        BY <1>6, SameStatic DEF Kept
      <3>1. CASE Visited(j, m)
        BY <3>1 DEF Inv, Kept
      <3>2. CASE j = k /\ m = n
        <4>1. b \in Artifact /\ n \in has[b]
          BY <3>2, CatalogIs DEF Keeps
        <4>2. Keeps(a, n)
          BY <1>3, <3>2, <4>1, KeepsSame
        <4> QED  BY <1>6, <3>2, <4>2
      <3> QED  BY <1>1, <3>1, <3>2
    <2>5. Together'
      BY <1>6 DEF Inv, Together
    <2>6. Recorded'
      BY <1>6, <2>1 DEF Inv, Recorded, Directory
    <2>7. Rotated'
      BY <1>6, SameStatic DEF Inv, Rotated
    <2> QED  BY <1>1, <1>3, <1>4, <1>6, <2>2, <2>3, <2>4, <2>5, <2>6, <2>7 DEF Inv
  <1>7. CASE /\ Keeps(a, n) /\ materialized[n] = None /\ UNCHANGED failed
             /\ Put(n, Value(a, n))
             /\ materialized' = [m \in Path |-> IF m = n \/ Turns(a, n, m) THEN Here(n)
                                                ELSE materialized[m]]
             /\ \A m \in Path : Turns(a, n, m) => materialized[m] = None
    <2> DEFINE New(m) == m = n \/ Turns(a, n, m)
    <2>1. \A m \in Path : New(m) => materialized[m] = None /\ m \in has[a]
      BY <1>3, <1>7, TurnsIn
    <2>2. \A m \in Path : materialized'[m] = IF New(m) THEN <<k, n>> ELSE materialized[m]
      BY <1>7 DEF Here
    <2>3. <<k, n>> \in Packages \X Path /\ <<k, n>> # None
      BY <1>2, <1>3, NoneIsNowhere
    <2>4. Value(a, n) \in Content /\ Value(a, n).is \in {"copy", "stub"}
      <3>1. Resolve(a, n) \in Path
        BY <1>3, <1>7, ResolveSpec DEF Keeps
      <3>2. entry[n].kind = "link" => entry[n].to \in Path
        BY <1>3, EntryIs
      <3> QED  BY <1>3, <3>1, <3>2 DEF Value, Content, Stub, Copy
    <2>5. /\ pkg' \in [Packages -> [Path -> Content]] /\ pkg'[k][n] = Value(a, n)
          /\ \A j \in Packages, m \in Path : j # k \/ m # n => pkg'[j][m] = pkg[j][m]
      BY <1>2, <1>3, <1>5, <1>7, <2>4 DEF Put
    <2>6. Typed'
      BY <1>7, <2>3, <2>5 DEF Inv, Typed, Here
    <2>7. \A m \in Path : materialized[m] # None => ~ New(m) /\ materialized'[m] = materialized[m]
      BY <2>1, <2>2
    <2>8. \A m \in Path : New(m) \/ materialized[m] # None => materialized'[m] # None
      BY <2>2, <2>3
    <2> HIDE DEF New
    <2>9. New(n) /\ \A m : Turns(a, n, m) => New(m)
      BY DEF New
    <2>10. Placed'
      <3> SUFFICES ASSUME NEW x \in Path, materialized'[x] # None
                   PROVE  \E j \in Packages \ {"devel"}, m \in Path : IsAt(j, m, x)'
        BY DEF Placed
      <3>1. CASE New(x)
        <4>1. Keeps(a, n)' /\ Value(a, n)' = Value(a, n) /\ (n = x \/ Turns(a, n, x)')
          BY <1>7, <3>1, SameStatic DEF New
        <4>2. Shows(a, k, n, x)'
          BY <2>5, <4>1 DEF Shows
        <4>3. materialized'[x] = <<k, n>> /\ materialized'[n] = <<k, n>> /\ Visited(k, n)'
          BY <1>1, <1>3, <2>2, <2>9, <3>1
        <4>4. IsAt(k, n, x)'
          BY <4>2, <4>3 DEF IsAt
        <4> QED  BY <1>2, <1>3, <4>4
      <3>2. CASE ~ New(x)
        <4>1. materialized[x] # None
          BY <2>2, <3>2
        <4>2. PICK j \in Packages \ {"devel"}, m \in Path : IsAt(j, m, x)
          BY <4>1 DEF Inv, Placed
        <4>3. materialized[m] # None /\ Visited(j, m)
          BY <4>2, NoneIsNowhere DEF IsAt
        <4>4. m # n /\ materialized'[m] = materialized[m] /\ materialized'[x] = materialized[x]
          BY <2>7, <2>9, <4>1, <4>3
        <4>5. pkg'[j][m] = pkg[j][m] /\ Visited(j, m)'
          BY <1>1, <2>5, <4>3, <4>4
        <4> QED  BY <4>2, <4>4, <4>5, AtStays
      <3> QED  BY <3>1, <3>2
    <2>11. Kept'
      <3> SUFFICES ASSUME NEW j \in Packages \ {"devel"}, NEW b \in Catalog(j), NEW m \in Path,
                          Visited(j, m)', Keeps(b, m)
                   PROVE  materialized'[m] # None
        BY SameStatic DEF Kept
      <3>1. CASE Visited(j, m)
        BY <2>8, <3>1 DEF Inv, Kept
      <3>2. CASE j = k /\ m = n
        BY <2>8, <2>9, <3>2
      <3> QED  BY <1>1, <3>1, <3>2
    <2>12. ASSUME NEW b \in Artifact, NEW m \in has[b], NEW x \in has[b], New(m), ~ New(x),
                  NEW j \in Packages, NEW y \in Path, materialized[x] = <<j, y>>
           PROVE  j = k
      <3>1. m \in Path /\ x \in Path
        BY <1>3 DEF Static
      <3>2. m \in has[a] \intersect has[b]
        BY <2>1, <2>12, <3>1
      <3>3. x \in has[a]
        BY <1>3, <3>2, KeepsSame
      <3> QED  BY <1>1, <1>7, <2>12, <3>3, NoneElsewhere
    <2>13. Together'
      <3> SUFFICES ASSUME NEW b \in Artifact, NEW m \in has[b], NEW x \in has[b], NEW i \in Packages,
                          NEW j \in Packages, NEW y \in Path, NEW z \in Path,
                          materialized'[m] = <<i, y>>, materialized'[x] = <<j, z>>
                   PROVE  i = j
        BY DEF Together
      <3>1. m \in Path /\ x \in Path
        BY <1>3 DEF Static
      <3>2. CASE New(m) /\ New(x)
        BY <2>2, <3>1, <3>2
      <3>3. CASE New(m) /\ ~ New(x)
        <4>1. materialized[x] = <<j, z>> /\ i = k
          BY <2>2, <3>1, <3>3
        <4> QED  BY <2>12, <3>3, <4>1
      <3>4. CASE ~ New(m) /\ New(x)
        <4>1. materialized[m] = <<i, y>> /\ j = k
          BY <2>2, <3>1, <3>4
        <4> QED  BY <2>12, <3>4, <4>1
      <3>5. CASE ~ New(m) /\ ~ New(x)
        <4>1. materialized[m] = <<i, y>> /\ materialized[x] = <<j, z>>
          BY <2>2, <3>1, <3>5
        <4> QED  BY <4>1 DEF Inv, Together
      <3> QED  BY <3>2, <3>3, <3>4, <3>5
    <2>14. Recorded'
      <3> SUFFICES ASSUME NEW j \in Packages \ {"devel"}, NEW m \in Path
                   PROVE  /\ pkg'[j][m].is \notin {"link", "back"}
                          /\ pkg'[j][m].is \in {"copy", "stub"} => materialized'[m] = <<j, m>>
        BY DEF Recorded
      <3>1. CASE j = k /\ m = n
        BY <1>3, <2>2, <2>4, <2>5, <2>9, <3>1
      <3>2. CASE j # k \/ m # n
        <4>1. pkg'[j][m] = pkg[j][m]
          BY <2>5, <3>2
        <4>2. /\ pkg[j][m].is \notin {"link", "back"}
              /\ pkg[j][m].is \in {"copy", "stub"} => materialized[m] = <<j, m>>
          BY DEF Inv, Recorded
        <4>3. materialized[m] = <<j, m>> => materialized'[m] = <<j, m>>
          BY <2>7, NoneIsNowhere
        <4> QED  BY <4>1, <4>2, <4>3
      <3> QED  BY <3>1, <3>2
    <2>15. Rotated'
      <3> SUFFICES ASSUME NEW j \in Packages, NEW b \in Artifact, NEW m \in Path, NEW x \in Path,
                          materialized'[x] = <<j, x>>, Turns(b, x, m)
                   PROVE  materialized'[m] # None
        BY SameStatic DEF Rotated
      <3>1. CASE x = n
        <4>1. n \in has[b]
          BY <1>3, <3>1, TurnsIn
        <4>2. Turns(a, n, m)
          BY <1>3, <3>1, <4>1, KeepsSame
        <4> QED  BY <2>8, <2>9, <4>2
      <3>2. CASE x # n
        <4>1. ~ New(x)
          BY <2>2, <3>2
        <4>2. materialized[m] # None
          BY <2>2, <4>1 DEF Inv, Rotated
        <4> QED  BY <2>8, <4>2
      <3> QED  BY <3>1, <3>2
    <2> QED  BY <1>1, <1>3, <1>4, <1>7, <2>6, <2>10, <2>11, <2>13, <2>14, <2>15 DEF Inv
  <1>8. ~ (/\ Keeps(a, n) /\ materialized[n] = None
           /\ \E m \in Path : Turns(a, n, m) /\ materialized[m] # None)
    BY <1>3, AssertHolds DEF Inv
  <1> QED  BY <1>3, <1>6, <1>7, <1>8, LibEffect

LEMMA DevelStep ==
  ASSUME Inv, NEW n \in todo, NEW a \in Catalog(Head(queue)), n \in has[a], Head(queue) = "devel",
         VisitDevel(a, n), todo' = todo \ {n}, UNCHANGED <<entry, has, queue>>
  PROVE  Inv'
  <1>1. /\ queue # << >> /\ n \in Names("devel") /\ Waterfall' /\ Ahead' = Ahead
        /\ \A j, m : Visited(j, m)' <=> Visited(j, m) \/ (j = "devel" /\ m = n)
    BY VisitedGrows DEF Inv
  <1>2. Ahead = {} /\ "devel" \in Packages
    BY <1>1, QueueIs DEF Inv, Packages
  <1>3. a \in Artifact /\ n \in Path /\ Static /\ Static' /\ Typed
    BY CatalogIs, SameStatic DEF Inv, Static
  <1>4. UNCHANGED <<materialized, failed>>
    BY DEF VisitDevel
  <1> DEFINE what == IF entry[n].kind = "dir" THEN Directory
                     ELSE IF materialized[n] # None THEN Back(materialized[n])
                     ELSE IF entry[n].kind = "link" THEN Symlink(entry[n].to)
                     ELSE Copy(a, n)
  <1>5. what \in Content
    BY <1>3, EntryIs DEF Typed, Content
  <1>6. pkg' = [pkg EXCEPT !["devel"][n] = what]
    BY DEF VisitDevel, Put
  <1> HIDE DEF what
  <1>7. /\ pkg' \in [Packages -> [Path -> Content]] /\ pkg'["devel"][n] = what
        /\ \A j \in Packages, m \in Path : j # "devel" \/ m # n => pkg'[j][m] = pkg[j][m]
    BY <1>2, <1>3, <1>5, <1>6 DEF Typed
  <1>8. Typed'
    BY <1>3, <1>4, <1>7 DEF Typed
  <1>9. Placed'
    <2> SUFFICES ASSUME NEW x \in Path, materialized[x] # None
                 PROVE  \E j \in Packages \ {"devel"}, m \in Path : IsAt(j, m, x)'
      BY <1>4 DEF Placed
    <2>1. PICK j \in Packages \ {"devel"}, m \in Path : IsAt(j, m, x)
      BY DEF Inv, Placed
    <2>2. pkg'[j][m] = pkg[j][m] /\ Visited(j, m)'
      BY <1>1, <1>7, <2>1 DEF IsAt
    <2> QED  BY <1>4, <2>1, <2>2, AtStays
  <1>10. Kept'
    BY <1>1, <1>4, SameStatic DEF Inv, Kept
  <1>11. Together' /\ Rotated'
    BY <1>4, SameStatic DEF Inv, Together, Rotated
  <1>12. Recorded'
    BY <1>4, <1>7 DEF Inv, Recorded
  <1>13. DevelLast'
    <2> SUFFICES ASSUME NEW m \in Path
                 PROVE  IF Visited("devel", m)' THEN InDevel(m)' ELSE pkg'["devel"][m] = Absent
      BY DEF DevelLast
    <2>1. CASE m = n
      <3>1. InDevel(n)'
        BY <1>3, <1>4, <1>7 DEF InDevel, what
      <3> QED  BY <1>1, <2>1, <3>1
    <2>2. CASE m # n
      <3>1. pkg'["devel"][m] = pkg["devel"][m]
        BY <1>2, <1>7, <2>2
      <3>2. InDevel(m) => InDevel(m)'
        BY <1>4, <3>1 DEF InDevel
      <3>3. IF Visited("devel", m) THEN InDevel(m) ELSE pkg["devel"][m] = Absent
        BY <1>2 DEF Inv, DevelLast
      <3> QED  BY <1>1, <2>2, <3>1, <3>2, <3>3
    <2> QED  BY <2>1, <2>2
  <1> QED  BY <1>1, <1>3, <1>4, <1>8, <1>9, <1>10, <1>11, <1>12, <1>13 DEF Inv

LEMMA Tailed ==
  ASSUME NEW S, NEW s \in Seq(S), Len(s) > 1
  PROVE  /\ Tail(s) \in Seq(S) /\ Len(Tail(s)) = Len(s) - 1 /\ Tail(s) # << >>
         /\ Head(s) = s[1] /\ Head(Tail(s)) = Tail(s)[1]
         /\ \A i \in 1 .. Len(s) - 1 : Tail(s)[i] = s[i + 1]
  <1>1. Len(s) \in Nat /\ s # << >>
    OBVIOUS
  <1>2. Tail(s) \in Seq(S) /\ Len(Tail(s)) = Len(s) - 1
    BY <1>1
  <1>3. \A i \in 1 .. Len(s) - 1 : Tail(s)[i] = s[i + 1]
    BY <1>1
  <1>4. Tail(s) # << >>
    <2>1. Len(s) - 1 > 0
      BY <1>1
    <2>2. ASSUME NEW u \in Seq(S), Len(u) > 0 PROVE u # << >>
      BY <2>2
    <2> QED  BY ONLY <1>2, <2>1, <2>2
  <1> QED  BY <1>1, <1>2, <1>3, <1>4

(* What a loop begins with nothing visited changes only what was not begun. *)
LEMMA NextPackageStep == Inv /\ NextPackage => Inv'
  <1> SUFFICES ASSUME Inv, NextPackage PROVE Inv'
    OBVIOUS
  <1> PICK t, k : t = Tail(queue) /\ k = Head(t)
    OBVIOUS
  <1>1. /\ Waterfall /\ queue \in Seq(Packages) /\ Len(queue) > 1 /\ todo = {}
        /\ queue' = t /\ todo' = Names(k) /\ UNCHANGED <<entry, has, materialized, failed>>
        /\ pkg' = [pkg EXCEPT ![k] = [n \in Path |-> Absent]]
    BY DEF NextPackage, Inv, Waterfall
  <1> DEFINE l == Len(queue)
  <1>2. /\ l \in Nat /\ l > 1 /\ t \in Seq(Packages) /\ Len(t) = l - 1 /\ k = t[1] /\ t # << >>
        /\ \A i \in 1 .. l - 1 : t[i] = queue[i + 1]
    <2>1. Len(queue) \in Nat
      BY <1>1
    <2> QED  BY <1>1, <2>1, Tailed
  <1>3. /\ queue[l] = "devel" /\ \A i, j \in 1 .. l : queue[i] = queue[j] => i = j
        /\ Ahead = {queue[i] : i \in 2 .. l} /\ Head(queue) = queue[1]
    BY <1>1, <1>2 DEF Waterfall, Ahead
  <1>4. Ahead' = {t[i] : i \in 2 .. l - 1}
    BY <1>1, <1>2 DEF Ahead
  <1> HIDE DEF l
  <1>5. 1 \in 1 .. l /\ 2 \in 1 .. l /\ 2 \in 2 .. l /\ 1 \in 1 .. l - 1 /\ 1 + 1 = 2
    BY <1>2
  <1>6. k = queue[2] /\ k \in Ahead /\ k # Head(queue) /\ k \in Packages
    BY <1>2, <1>3, <1>5
  <1>7. \A i \in 2 .. l - 1 : i + 1 \in 3 .. l /\ i \in 1 .. l - 1
    BY <1>2
  <1>8. \A i \in 3 .. l : i - 1 \in 2 .. l - 1 /\ (i - 1) + 1 = i /\ i # 2 /\ i \in 1 .. l /\ i \in 2 .. l
    BY <1>2
  <1>9. Ahead' = Ahead \ {k}
    <2>1. ASSUME NEW j \in Ahead' PROVE j \in Ahead \ {k}
      <3>1. PICK i \in 2 .. l - 1 : j = t[i]
        BY <1>4
      <3>2. j = queue[i + 1] /\ i + 1 \in 3 .. l
        BY <1>2, <1>7, <3>1
      <3> QED  BY <1>3, <1>5, <1>6, <1>8, <3>2
    <2>2. ASSUME NEW j \in Ahead, j # k PROVE j \in Ahead'
      <3>1. PICK i \in 2 .. l : j = queue[i]
        BY <1>3
      <3>2. i \in 3 .. l
        BY <1>2, <1>6, <2>2, <3>1
      <3>3. i - 1 \in 2 .. l - 1 /\ t[i - 1] = queue[i]
        BY <1>2, <1>7, <1>8, <3>2
      <3> QED  BY <1>4, <3>1, <3>3
    <2> QED  BY <2>1, <2>2
  <1>10. Waterfall'
    <2>1. \A i, j \in 1 .. l - 1 : t[i] = t[j] => i = j
      <3> SUFFICES ASSUME NEW i \in 1 .. l - 1, NEW j \in 1 .. l - 1, t[i] = t[j] PROVE i = j
        OBVIOUS
      <3>1. i + 1 \in 1 .. l /\ j + 1 \in 1 .. l /\ queue[i + 1] = queue[j + 1]
        BY <1>2
      <3>2. i + 1 = j + 1
        BY <1>3, <3>1
      <3> QED  BY <3>2
    <2>2. t[l - 1] = "devel"
      <3>1. l - 1 \in 1 .. l - 1 /\ (l - 1) + 1 = l
        BY <1>2
      <3> QED  BY <1>2, <1>3, <3>1
    <2>3. Names(k)' = Names(k)
      BY <1>1, SameStatic
    <2> QED  BY <1>1, <1>2, <2>1, <2>2, <2>3 DEF Waterfall
  <1>11. \A j, n : Visited(j, n)' <=> Visited(j, n)
    <2> SUFFICES ASSUME NEW j, NEW n PROVE Visited(j, n)' <=> Visited(j, n)
      OBVIOUS
    <2>1. Names(j)' = Names(j) /\ queue' # << >> /\ Head(queue') = k
      BY <1>1, <1>2, SameStatic
    <2>2. CASE j = k
      <3>1. ~ Visited(j, n)
        BY <1>6, <2>2 DEF Visited
      <3>2. ~ Visited(j, n)'
        BY <1>1, <2>1, <2>2 DEF Visited
      <3> QED  BY <3>1, <3>2
    <2>3. CASE j # k
      BY <1>1, <1>9, <2>1, <2>3 DEF Visited
    <2> QED  BY <2>2, <2>3
  <1>12. /\ pkg' \in [Packages -> [Path -> Content]]
         /\ \A n \in Path : pkg'[k][n] = Absent
         /\ \A j \in Packages : j # k => pkg'[j] = pkg[j]
    <2>1. pkg \in [Packages -> [Path -> Content]]
      BY DEF Inv, Typed
    <2>2. [n \in Path |-> Absent] \in [Path -> Content]
      BY DEF Content
    <2> QED  BY <1>1, <1>6, <2>1, <2>2
  <1>13. Typed'
    BY <1>1, <1>12 DEF Inv, Typed
  <1>14. Placed'
    <2> SUFFICES ASSUME NEW x \in Path, materialized[x] # None
                 PROVE  \E j \in Packages \ {"devel"}, m \in Path : IsAt(j, m, x)'
      BY <1>1 DEF Placed
    <2>1. PICK j \in Packages \ {"devel"}, m \in Path : IsAt(j, m, x)
      BY DEF Inv, Placed
    <2>2. Visited(j, m) /\ j # k
      BY <1>6, <2>1 DEF IsAt, Visited
    <2>3. pkg'[j][m] = pkg[j][m] /\ Visited(j, m)'
      BY <1>11, <1>12, <2>2
    <2> QED  BY <1>1, <2>1, <2>3, AtStays
  <1>15. Kept'
    BY <1>1, <1>11, SameStatic DEF Inv, Kept
  <1>16. Together' /\ Rotated'
    BY <1>1, SameStatic DEF Inv, Together, Rotated
  <1>17. Recorded'
    <2> SUFFICES ASSUME NEW j \in Packages \ {"devel"}, NEW m \in Path
                 PROVE  /\ pkg'[j][m].is \notin {"link", "back"}
                        /\ pkg'[j][m].is \in {"copy", "stub"} => materialized[m] = <<j, m>>
      BY <1>1 DEF Recorded
    <2>1. CASE j = k
      <3>1. pkg'[j][m] = Absent
        BY <1>12, <2>1
      <3> QED  BY <3>1 DEF Absent
    <2>2. CASE j # k
      BY <1>12, <2>2 DEF Inv, Recorded
    <2> QED  BY <2>1, <2>2
  <1>18. DevelLast'
    <2> SUFFICES ASSUME "devel" \notin Ahead', NEW m \in Path
                 PROVE  IF Visited("devel", m)' THEN InDevel(m)' ELSE pkg'["devel"][m] = Absent
      BY DEF DevelLast
    <2>1. k = "devel"
      <3>1. l \in 2 .. l
        BY <1>2
      <3>2. "devel" \in Ahead
        BY <1>3, <3>1
      <3> QED  BY <1>9, <3>2
    <2>2. ~ Visited("devel", m)
      BY <1>6, <2>1 DEF Visited
    <2> QED  BY <1>11, <1>12, <2>1, <2>2
  <1>19. Static' /\ ~ failed'
    BY <1>1, SameStatic DEF Inv
  <1> QED  BY <1>10, <1>13, <1>14, <1>15, <1>16, <1>17, <1>18, <1>19 DEF Inv

(* A step that leaves files and records and what was visited alone.         *)
LEMMA QuietStep ==
  ASSUME Inv, UNCHANGED <<entry, has, materialized, pkg, failed>>, Waterfall',
         \A k, n : Visited(k, n)' <=> Visited(k, n),
         "devel" \in Ahead => "devel" \in Ahead'
  PROVE  Inv'
  <1>1. Static' /\ Typed' /\ ~ failed'
    BY SameStatic DEF Inv, Typed
  <1>2. Placed'
    <2> SUFFICES ASSUME NEW x \in Path, materialized[x] # None
                 PROVE  \E j \in Packages \ {"devel"}, m \in Path : IsAt(j, m, x)'
      BY DEF Placed
    <2>1. PICK j \in Packages \ {"devel"}, m \in Path : IsAt(j, m, x)
      BY DEF Inv, Placed
    <2>2. Visited(j, m)'
      BY <2>1 DEF IsAt
    <2> QED  BY <2>1, <2>2, AtStays
  <1>3. Kept'
    BY SameStatic DEF Inv, Kept
  <1>4. Together' /\ Rotated' /\ Recorded'
    BY SameStatic DEF Inv, Together, Rotated, Recorded
  <1>5. DevelLast'
    BY DEF Inv, DevelLast, InDevel
  <1> QED  BY <1>1, <1>2, <1>3, <1>4, <1>5 DEF Inv

LEMMA FinishStep == Inv /\ Finish => Inv'
  <1> SUFFICES ASSUME Inv, Finish PROVE Inv'
    OBVIOUS
  <1>1. /\ todo = {} /\ Len(queue) = 1 /\ queue' = << >> /\ Waterfall /\ queue # << >>
        /\ UNCHANGED <<entry, has, todo, materialized, pkg, failed>>
    BY DEF Finish, Inv
  <1>2. Ahead = {}
    BY <1>1, QueueIs
  <1>3. Waterfall' /\ Ahead' = {}
    BY <1>1 DEF Waterfall, Ahead
  <1>4. \A k, n : Visited(k, n)' <=> Visited(k, n)
    BY <1>1, <1>2, <1>3, SameStatic DEF Visited
  <1> QED  BY <1>1, <1>2, <1>3, <1>4, QuietStep

LEMMA InvStep == Inv /\ [Next]_vars => Inv'
  <1> SUFFICES ASSUME Inv, [Next]_vars PROVE Inv'
    OBVIOUS
  <1>1. ASSUME NEW n \in Path, Visit(n) PROVE Inv'
    <2>1. PICK a \in Catalog(Head(queue)) :
            n \in has[a] /\ IF Head(queue) = "devel" THEN VisitDevel(a, n) ELSE VisitLib(a, n)
      BY <1>1 DEF Visit
    <2>2. n \in todo /\ todo' = todo \ {n} /\ UNCHANGED <<entry, has, queue>>
      BY <1>1 DEF Visit
    <2>3. CASE Head(queue) = "devel"
      BY <2>1, <2>2, <2>3, DevelStep
    <2>4. CASE Head(queue) # "devel"
      BY <2>1, <2>2, <2>4, LibStep
    <2> QED  BY <2>3, <2>4
  <1>2. CASE UNCHANGED vars
    <2>1. UNCHANGED <<entry, has, queue, todo, materialized, pkg, failed>>
      BY <1>2 DEF vars
    <2>2. \A k, n : Visited(k, n)' <=> Visited(k, n)
      BY <2>1, SameStatic DEF Visited, Ahead
    <2>3. Waterfall' /\ Ahead' = Ahead
      BY <2>1, SameStatic DEF Inv, Waterfall, Ahead
    <2> QED  BY <2>1, <2>2, <2>3, QuietStep
  <1> QED  BY <1>1, <1>2, NextPackageStep, FinishStep DEF Next

(* The invariant holds in every reachable state.                            *)
THEOREM Inductive == Spec => []Inv
  BY InitInv, InvStep, PTL DEF Spec

-----------------------------------------------------------------------------
(* The assert of maybe_materialize_lib_so never fails.                      *)
THEOREM AssertNeverFails == Spec => []NeverAsserts
  BY Inductive, PTL DEF Inv, NeverAsserts

-----------------------------------------------------------------------------
(* What there is at the end, when every loop has been at every name.        *)

LEMMA AllVisited ==
  ASSUME Inv, Done
  PROVE  Ahead = {} /\ \A k, n : Visited(k, n) <=> n \in Names(k)
  <1>1. Ahead = {}
    BY DEF Done, Ahead
  <1> QED  BY <1>1 DEF Done, Visited

LEMMA ContentIs ==
  ASSUME NEW c \in Content
  PROVE  /\ c.is \in {"link", "stub"} => c.to \in Path
         /\ c.is = "back" => c.at \in Packages \X Path
  BY DEF Content, Absent, Old, Directory, Copy, Stub, Symlink, Back

LEMMA ValueIs ==
  \A a, n : /\ Value(a, n).is \in {"copy", "stub"}
            /\ Value(a, n) = Stub(entry[n].to) \/ Value(a, n) = Copy(a, Resolve(a, n))
            /\ Value(a, n).is = "stub" <=>
                 entry[n].kind = "link" /\ entry[Resolve(a, n)].kind = "exe"
            /\ Value(a, n).is = "stub" => Value(a, n) = Stub(entry[n].to)
  BY DEF Value, Copy, Stub

(* A file of a runtime package is what it keeps of one of its artifacts.    *)
LEMMA LibHas ==
  ASSUME Inv, NEW k \in Packages \ {"devel"}, NEW n \in Path, pkg[k][n].is \in {"copy", "stub"}
  PROVE  materialized[n] = <<k, n>> /\ \E a \in Catalog(k) : Keeps(a, n) /\ pkg[k][n] = Value(a, n)
  <1>1. materialized[n] = <<k, n>>
    BY DEF Inv, Recorded
  <1>2. materialized[n] # None
    BY <1>1, NoneIsNowhere
  <1>3. PICK j \in Packages \ {"devel"}, m \in Path : IsAt(j, m, n)
    BY <1>2 DEF Inv, Placed
  <1>4. j = k /\ m = n
    BY <1>1, <1>3 DEF IsAt
  <1> QED  BY <1>1, <1>3, <1>4 DEF IsAt, Shows

(* Links of the devel package lead to other names, or to another package.   *)
LEMMA DevelHas ==
  ASSUME Inv, Done, NEW n \in Path
  PROVE  LET what == pkg["devel"][n] IN
         \/ what.is = "link" /\ entry[n].kind = "link" /\ what.to = entry[n].to
         \/ what.is = "back" /\ what.at[1] # "devel"
         \/ what.is \notin {"link", "stub", "back"}
  <1>1. IF Visited("devel", n) THEN InDevel(n) ELSE pkg["devel"][n] = Absent
    BY AllVisited DEF Inv, DevelLast
  <1>2. CASE materialized[n] # None /\ pkg["devel"][n] = Back(materialized[n])
    <2>1. PICK j \in Packages \ {"devel"}, m \in Path : IsAt(j, m, n)
      BY <1>2 DEF Inv, Placed
    <2>2. materialized[n][1] # "devel"
      BY <2>1 DEF IsAt
    <2> QED  BY <1>2, <2>2 DEF Back
  <1>3. CASE entry[n].kind = "link" /\ pkg["devel"][n] = Symlink(entry[n].to)
    BY <1>3 DEF Symlink
  <1>4. CASE \/ pkg["devel"][n] \in {Absent, Directory}
             \/ \E a \in Artifact : pkg["devel"][n] = Copy(a, n)
    <2>1. pkg["devel"][n].is \in {"nothing", "dir", "copy"}
      <3>1. CASE pkg["devel"][n] = Absent
        BY <3>1 DEF Absent
      <3>2. CASE pkg["devel"][n] = Directory
        BY <3>2 DEF Directory
      <3>3. CASE \E a \in Artifact : pkg["devel"][n] = Copy(a, n)
        BY <3>3 DEF Copy
      <3> QED  BY <1>4, <3>1, <3>2, <3>3
    <2> QED  BY <2>1
  <1> QED  BY <1>1, <1>2, <1>3, <1>4 DEF InDevel

(* Where one comes from a place to the next.                                *)
LEMMA PlacesEnd ==
  ASSUME Inv, Done
  PROVE  LET next == [at \in Packages \X Path |-> Onward(at)] IN
         /\ IsFiniteSet(Packages \X Path)
         /\ next \in [Packages \X Path -> Packages \X Path]
         /\ Ending(next, Packages \X Path)
  <1> DEFINE D == Packages \X Path
             next == [at \in D |-> Onward(at)]
  <1>1. pkg \in [Packages -> [Path -> Content]] /\ Static
    BY DEF Inv, Typed
  <1>2. IsFiniteSet(D)
    <2>1. IsFiniteSet(Packages)
      BY PackagesFinite
    <2> QED  BY <2>1, NoneIsNowhere, FS_Product
  <1>3. \A k \in Packages, n \in Path :
          /\ <<k, n>> \in D
          /\ next[<<k, n>>] = IF pkg[k][n].is \in {"link", "stub"} THEN <<k, pkg[k][n].to>>
                              ELSE IF pkg[k][n].is = "back" THEN pkg[k][n].at ELSE <<k, n>>
    BY DEF Onward
  <1>4. \A at \in D : at = <<at[1], at[2]>> /\ at[1] \in Packages /\ at[2] \in Path
    OBVIOUS
  <1>5. next \in [D -> D]
    <2>1. ASSUME NEW k \in Packages, NEW n \in Path PROVE Onward(<<k, n>>) \in D
      <3>1. pkg[k][n] \in Content
        BY <1>1
      <3>2. /\ pkg[k][n].is \in {"link", "stub"} => pkg[k][n].to \in Path
            /\ pkg[k][n].is = "back" => pkg[k][n].at \in D
        BY <3>1, ContentIs
      <3>3. Onward(<<k, n>>) = IF pkg[k][n].is \in {"link", "stub"} THEN <<k, pkg[k][n].to>>
                               ELSE IF pkg[k][n].is = "back" THEN pkg[k][n].at ELSE <<k, n>>
        BY DEF Onward
      <3> HIDE DEF next
      <3> QED  BY <3>2, <3>3
    <2>2. ASSUME NEW at \in D PROVE Onward(at) \in D
      BY <1>4, <2>1
    <2> QED  BY <2>2
  <1> HIDE DEF next, D
  <1>6. ASSUME NEW T \in SUBSET D, T # {} PROVE \E y \in T : next[y] = y \/ next[y] \notin T
    <2>1. CASE \E k \in Packages \ {"devel"}, n \in Path : <<k, n>> \in T
      <3> DEFINE S == {n \in Path : \E k \in Packages \ {"devel"} : <<k, n>> \in T}
      <3>1. S \in (SUBSET Path) \ {{}}
        BY <2>1
      <3>2. PICK n \in S : entry[n].to \notin S
        BY <1>1, <3>1 DEF Static
      <3>3. PICK k \in Packages \ {"devel"} : <<k, n>> \in T
        BY <3>2
      <3>4. pkg[k][n].is \notin {"link", "back"} /\ n \in Path
        BY <3>2 DEF Inv, Recorded
      <3>5. CASE pkg[k][n].is = "stub"
        <4>1. PICK a \in Catalog(k) : pkg[k][n] = Value(a, n)
          BY <3>4, <3>5, LibHas
        <4>2. pkg[k][n].to = entry[n].to /\ entry[n].kind = "link"
          BY <3>5, <4>1, ValueIs DEF Stub
        <4>3. next[<<k, n>>] = <<k, entry[n].to>>
          BY <1>3, <3>4, <3>5, <4>2
        <4>4. entry[n].to \in Path
          BY <1>1, <3>4, <4>2, EntryIs
        <4>5. <<k, entry[n].to>> \notin T
          BY <3>2, <4>4
        <4> QED  BY <3>3, <4>3, <4>5
      <3>6. CASE pkg[k][n].is # "stub"
        <4>1. next[<<k, n>>] = <<k, n>>
          BY <1>3, <3>4, <3>6
        <4> QED  BY <3>3, <4>1
      <3> QED  BY <3>5, <3>6
    <2>2. CASE \A k \in Packages \ {"devel"}, n \in Path : <<k, n>> \notin T
      <3>1. \A at \in T : at = <<"devel", at[2]>> /\ at[2] \in Path
        BY <1>4, <2>2
      <3> DEFINE S == {n \in Path : <<"devel", n>> \in T}
      <3>2. S \in (SUBSET Path) \ {{}}
        <4>1. PICK at \in T : TRUE
          BY <1>6
        <4>2. at[2] \in S
          BY <3>1
        <4> QED  BY <4>2
      <3>3. PICK n \in S : entry[n].to \notin S
        BY <1>1, <3>2 DEF Static
      <3>4. n \in Path /\ <<"devel", n>> \in T /\ "devel" \in Packages
        BY <3>3 DEF Packages
      <3>5. CASE pkg["devel"][n].is = "link" /\ pkg["devel"][n].to = entry[n].to /\ entry[n].kind = "link"
        <4>1. next[<<"devel", n>>] = <<"devel", entry[n].to>>
          BY <1>3, <3>4, <3>5
        <4>2. entry[n].to \in Path
          BY <1>1, <3>4, <3>5, EntryIs
        <4>3. <<"devel", entry[n].to>> \notin T
          BY <3>3, <4>2
        <4> QED  BY <3>4, <4>1, <4>3
      <3>6. CASE pkg["devel"][n].is = "back" /\ pkg["devel"][n].at[1] # "devel"
        <4>1. next[<<"devel", n>>] = pkg["devel"][n].at
          BY <1>3, <3>4, <3>6
        <4>2. pkg["devel"][n].at \notin T
          BY <3>1, <3>6
        <4> QED  BY <3>4, <4>1, <4>2
      <3>7. CASE pkg["devel"][n].is \notin {"link", "stub", "back"}
        <4>1. next[<<"devel", n>>] = <<"devel", n>>
          BY <1>3, <3>4, <3>7
        <4> QED  BY <3>4, <4>1
      <3> QED  BY <3>4, <3>5, <3>6, <3>7, DevelHas
    <2> QED  BY <2>1, <2>2
  <1>7. Ending(next, D)
    BY <1>6 DEF Ending
  <1> QED  BY <1>2, <1>5, <1>7 DEF next, D

LEMMA EndsSpec ==
  ASSUME Inv, Done, NEW k \in Packages, NEW n \in Path
  PROVE  /\ pkg[k][n].is \in {"link", "stub"} => Ends(k, n) = Ends(k, pkg[k][n].to)
         /\ pkg[k][n].is = "back" => Ends(k, n) = Ends(pkg[k][n].at[1], pkg[k][n].at[2])
         /\ pkg[k][n].is \notin {"link", "stub", "back"} => Ends(k, n) = pkg[k][n]
  <1> DEFINE D == Packages \X Path
             next == [at \in D |-> Onward(at)]
  <1>1. IsFiniteSet(D) /\ next \in [D -> D] /\ Ending(next, D)
    BY PlacesEnd
  <1>2. next[<<k, n>>] = IF pkg[k][n].is \in {"link", "stub"} THEN <<k, pkg[k][n].to>>
                         ELSE IF pkg[k][n].is = "back" THEN pkg[k][n].at ELSE <<k, n>>
    BY DEF Onward
  <1>3. \A j, m : Ends(j, m) = LET end == Chase(next, <<j, m>>) IN pkg[end[1]][end[2]]
    BY DEF Ends
  <1>4. \A at \in D : at = <<at[1], at[2]>>
    OBVIOUS
  <1>5. <<k, n>> \in D
    OBVIOUS
  <1> HIDE DEF next, D
  <1>6. /\ Chase(next, next[<<k, n>>]) = Chase(next, <<k, n>>)
        /\ next[<<k, n>>] = <<k, n>> => Chase(next, <<k, n>>) = <<k, n>>
    BY <1>1, <1>5, ChaseSpec
  <1>7. next[<<k, n>>] \in D
    BY <1>1, <1>5
  <1>8. CASE pkg[k][n].is \in {"link", "stub"}
    BY <1>2, <1>3, <1>6, <1>8
  <1>9. CASE pkg[k][n].is = "back"
    <2>1. pkg[k][n].at = <<pkg[k][n].at[1], pkg[k][n].at[2]>>
      BY <1>2, <1>4, <1>7, <1>9
    <2>2. Chase(next, <<k, n>>) = Chase(next, <<pkg[k][n].at[1], pkg[k][n].at[2]>>)
      BY <1>2, <1>6, <1>9, <2>1
    <2> QED  BY <1>3, <1>9, <2>2
  <1>10. CASE pkg[k][n].is \notin {"link", "stub", "back"}
    BY <1>2, <1>3, <1>6, <1>10
  <1> QED  BY <1>8, <1>9, <1>10

(* What a runtime package keeps of its artifacts is recorded to be where a  *)
(* runtime package shows it.                                                *)
LEMMA IsKept ==
  ASSUME Inv, Done, NEW k \in Packages \ {"devel"}, NEW a \in Catalog(k), NEW n \in Path,
         Keeps(a, n), entry[Resolve(a, n)].kind # "cmake"
  PROVE  /\ n \in has[a]
         /\ \E j \in Packages \ {"devel"}, m \in Path : \E b \in Catalog(j) :
              materialized[n] = <<j, m>> /\ Shows(b, j, m, n)
  <1>1. a \in Artifact /\ Static /\ n \in has[a]
    BY CatalogIs DEF Inv, Keeps
  <1>2. n \in Names(k)
    <2>1. entry[n].kind # "cmake"
      BY <1>1, ResolveSpec
    <2> QED  BY <1>1, <2>1, NamesIs
  <1>3. Visited(k, n)
    BY <1>2, AllVisited
  <1>4. materialized[n] # None
    BY <1>3 DEF Inv, Kept
  <1>5. PICK j \in Packages \ {"devel"}, m \in Path : IsAt(j, m, n)
    BY <1>4 DEF Inv, Placed
  <1> QED  BY <1>1, <1>5 DEF IsAt

(* ... at its own name, if it is not a library's.                           *)
LEMMA OwnName ==
  ASSUME Static, NEW a \in Artifact, NEW b \in Artifact, NEW n \in Path, NEW m \in Path, NEW j,
         n \in has[a], Keeps(a, n), Shows(b, j, m, n)
  PROVE  /\ m = n /\ n \in has[b] /\ has[a] = has[b] /\ Resolve(a, n) = Resolve(b, n)
         /\ Origin(a) = Origin(b) /\ pkg[j][n] = Value(b, n)
  <1>1. Keeps(b, m) /\ pkg[j][m] = Value(b, m) /\ (m = n \/ Turns(b, m, n))
    BY DEF Shows
  <1>2. CASE Turns(b, m, n)
    <2>1. n \in has[b] /\ n # m /\ Resolve(b, n) = Resolve(b, m) /\ entry[Resolve(b, m)].kind = "so"
      BY <1>2, TurnsIn DEF Turns
    <2>2. Resolve(a, n) = Resolve(b, n)
      BY <2>1, KeepsSame
    <2>3. entry[Resolve(b, m)].soname = m.name /\ entry[Resolve(b, m)].soname = n.name
      BY <1>1, <2>1, <2>2 DEF Keeps
    <2> QED  BY <1>2, <2>3, NearNames DEF Turns
  <1>3. CASE m = n
    <2>1. n \in has[b]
      BY <1>1, <1>3 DEF Keeps
    <2>2. Resolve(a, n) = Resolve(b, n) /\ has[a] = has[b]
      BY <2>1, KeepsSame
    <2>3. Origin(a) = Origin(b)
      BY <2>1 DEF Static
    <2> QED  BY <1>1, <1>3, <2>1, <2>2, <2>3
  <1> QED  BY <1>1, <1>2, <1>3

-----------------------------------------------------------------------------
(* Links to executables.                                                    *)

Runs(k, n) ==
  \A a \in Catalog(k) :
    Keeps(a, n) /\ pkg[k][n] = Value(a, n) /\ entry[Resolve(a, n)].kind = "exe" =>
      \E b \in Catalog(k) : has[b] = has[a] /\ Ends(k, n) = Copy(b, Resolve(a, n))

LEMMA AllRun ==
  ASSUME Inv, Done, NEW k \in Packages \ {"devel"}
  PROVE  \A n \in Path : Runs(k, n)
  <1> DEFINE B == {n \in Path : ~ Runs(k, n)}
  <1>1. ASSUME NEW n \in B PROVE entry[n].to \in B
    <2>1. PICK a \in Catalog(k) :
            /\ Keeps(a, n) /\ pkg[k][n] = Value(a, n) /\ entry[Resolve(a, n)].kind = "exe"
            /\ ~ \E b \in Catalog(k) : has[b] = has[a] /\ Ends(k, n) = Copy(b, Resolve(a, n))
      BY DEF Runs
    <2>2. n \in Path /\ a \in Artifact /\ Static /\ n \in has[a] /\ Resolve(a, n) # None
      BY <2>1, CatalogIs DEF Inv, Keeps
    <2>3. entry[n].kind = "link"
      <3> SUFFICES ASSUME entry[n].kind # "link" PROVE FALSE
        OBVIOUS
      <3>1. pkg[k][n] = Copy(a, Resolve(a, n))
        BY <2>1 DEF Value
      <3>2. pkg[k][n].is \notin {"link", "stub", "back"}
        BY <3>1 DEF Copy
      <3>3. Ends(k, n) = pkg[k][n]
        BY <2>2, <3>2, EndsSpec
      <3> QED  BY <2>1, <3>1, <3>3
    <2> DEFINE to == entry[n].to
    <2>4. to \in Path /\ Resolve(a, to) = Resolve(a, n)
      BY <2>2, <2>3, EntryIs, ResolveSpec
    <2>5. pkg[k][n] = Stub(to)
      BY <2>1, <2>3 DEF Value
    <2>6. pkg[k][n].is = "stub" /\ pkg[k][n].to = to
      BY <2>5 DEF Stub
    <2>7. Ends(k, n) = Ends(k, to) /\ materialized[n] = <<k, n>>
      BY <2>2, <2>6, EndsSpec, LibHas
    <2> HIDE DEF to
    <2>8. to \in has[a] /\ Keeps(a, to)
      <3>1. to \in has[a]
        BY <2>2, <2>4, ResolveSpec
      <3> QED  BY <2>1, <2>2, <2>4, <3>1 DEF Keeps
    <2>9. PICK j \in Packages \ {"devel"}, m \in Path : \E b \in Catalog(j) :
            materialized[to] = <<j, m>> /\ Shows(b, j, m, to)
      BY <2>1, <2>4, <2>8, IsKept
    <2>10. PICK b \in Catalog(j) : Shows(b, j, m, to)
      BY <2>9
    <2>11. j = k
      BY <2>2, <2>7, <2>8, <2>9 DEF Inv, Together
    <2>12. b \in Artifact
      BY CatalogIs
    <2>13. /\ has[a] = has[b] /\ Resolve(a, to) = Resolve(b, to) /\ pkg[k][to] = Value(b, to) /\ m = to
      BY <2>2, <2>4, <2>8, <2>10, <2>11, <2>12, OwnName
    <2>14. Keeps(b, to)
      BY <2>10, <2>13 DEF Shows
    <2>15. ~ Runs(k, to)
      <3> SUFFICES ASSUME Runs(k, to) PROVE FALSE
        OBVIOUS
      <3>1. PICK c \in Catalog(k) : has[c] = has[b] /\ Ends(k, to) = Copy(c, Resolve(b, to))
        BY <2>1, <2>4, <2>10, <2>11, <2>13, <2>14 DEF Runs
      <3> QED  BY <2>1, <2>4, <2>7, <2>13, <3>1
    <2> QED  BY <2>4, <2>15 DEF to
  <1>2. B \in SUBSET Path
    OBVIOUS
  <1> HIDE DEF B
  <1>3. B = {}
    BY <1>1, <1>2, LinksEnd DEF Inv
  <1> QED  BY <1>3 DEF B

LEMMA StubsEnd == Inv => StubsRun
  <1> SUFFICES ASSUME Inv, Done, NEW k \in Packages \ {"devel"}, NEW n \in Path,
                      pkg[k][n].is = "stub"
               PROVE  \E a \in Catalog(k) : \E exe \in has[a] :
                        entry[exe].kind = "exe" /\ Ends(k, n) = Copy(a, exe)
    BY DEF StubsRun
  <1>1. PICK a \in Catalog(k) : Keeps(a, n) /\ pkg[k][n] = Value(a, n)
    BY LibHas
  <1>2. entry[Resolve(a, n)].kind = "exe"
    BY <1>1, ValueIs
  <1>3. PICK b \in Catalog(k) : has[b] = has[a] /\ Ends(k, n) = Copy(b, Resolve(a, n))
    BY <1>1, <1>2, AllRun DEF Runs
  <1>4. Resolve(a, n) \in has[a]
    <2>1. a \in Artifact /\ Static /\ Resolve(a, n) # None
      BY <1>1, CatalogIs DEF Inv, Keeps
    <2> QED  BY <2>1, ResolveSpec
  <1> QED  BY <1>2, <1>3, <1>4

(* The stub that stands for a link to an executable, which                  *)
(* maybe_materialize_lib_symlink writes, finds that executable in its own   *)
(* package.                                                                 *)
THEOREM StubsFindExe == Spec => []StubsRun
  BY StubsEnd, Inductive, PTL

-----------------------------------------------------------------------------
(* The devel package.                                                       *)

ReadsAsTree(n) ==
  LET m == InTree(n) IN
  IF m = None THEN Ends("devel", n) = Absent
  ELSE IF entry[m].kind = "dir" THEN Ends("devel", n) = Directory
  ELSE \E a \in Artifact : m \in has[a] /\ Ends("devel", n) = Copy(a, m)

(* A name that a runtime package has reads as it does there.                *)
LEMMA BackReads ==
  ASSUME Inv, Done, NEW n \in Path, materialized[n] # None,
         pkg["devel"][n] = Back(materialized[n])
  PROVE  ReadsAsTree(n)
  <1>1. PICK k \in Packages \ {"devel"}, m \in Path : IsAt(k, m, n)
    BY DEF Inv, Placed
  <1>2. PICK a \in Catalog(k) : Shows(a, k, m, n)
    BY <1>1 DEF IsAt
  <1>3. a \in Artifact /\ Static /\ "devel" \in Packages
    BY CatalogIs DEF Inv, Packages
  <1> DEFINE f == Resolve(a, m)
  <1>4. /\ m \in has[a] /\ f # None /\ entry[f].kind # "dir"
        /\ pkg[k][m] = Value(a, m)
    BY <1>2 DEF Shows, Keeps
  <1>5. f \in has[a] /\ Resolve(a, n) = f
    BY <1>2, <1>3, <1>4, ResolveSpec, TurnsIn DEF Shows
  <1>6. InTree(n) = f
    BY <1>3, <1>4, <1>5, ResolveInTree
  <1>7. Ends("devel", n) = Ends(k, m)
    <2>1. pkg["devel"][n].is = "back" /\ pkg["devel"][n].at = <<k, m>>
      BY <1>1 DEF IsAt, Back
    <2> QED  BY <1>3, <2>1, EndsSpec
  <1>8. \E b \in Artifact : f \in has[b] /\ Ends(k, m) = Copy(b, f)
    <2>1. CASE pkg[k][m].is = "stub"
      <3>1. entry[f].kind = "exe"
        BY <1>4, <2>1, ValueIs
      <3>2. PICK b \in Catalog(k) : has[b] = has[a] /\ Ends(k, m) = Copy(b, f)
        BY <1>2, <1>4, <3>1, AllRun DEF Runs, Shows
      <3> QED  BY <1>5, <3>2, CatalogIs
    <2>2. CASE pkg[k][m].is # "stub"
      <3>1. pkg[k][m] = Copy(a, f)
        BY <1>4, <2>2, ValueIs DEF Stub
      <3>2. pkg[k][m].is \notin {"link", "stub", "back"}
        BY <3>1 DEF Copy
      <3>3. Ends(k, m) = Copy(a, f)
        BY <3>1, <3>2, EndsSpec
      <3> QED  BY <1>3, <1>5, <3>3
    <2> QED  BY <2>1, <2>2
  <1> HIDE DEF f
  <1> QED  BY <1>4, <1>6, <1>7, <1>8 DEF ReadsAsTree

LEMMA AllReadAsTree ==
  ASSUME Inv, Done
  PROVE  \A n \in Path : ReadsAsTree(n)
  <1> DEFINE B == {n \in Path : ~ ReadsAsTree(n)}
  <1>1. ASSUME NEW n \in B PROVE entry[n].to \in B
    <2>1. n \in Path /\ ~ ReadsAsTree(n) /\ Static /\ "devel" \in Packages
      BY DEF Inv, Packages
    <2>2. IF Visited("devel", n) THEN InDevel(n) ELSE pkg["devel"][n] = Absent
      BY <2>1, AllVisited DEF Inv, DevelLast
    <2>3. Visited("devel", n) <=> n \in Everywhere
      BY <2>1, AllVisited, NamesIs, CatalogIs DEF Everywhere
    <2>4. n \in Everywhere
      <3> SUFFICES ASSUME n \notin Everywhere PROVE FALSE
        OBVIOUS
      <3>1. pkg["devel"][n] = Absent /\ InTree(n) = None
        BY <2>1, <2>2, <2>3, InTreeSpec
      <3>2. Ends("devel", n) = Absent
        BY <2>1, <3>1, EndsSpec DEF Absent
      <3> QED  BY <2>1, <3>1, <3>2 DEF ReadsAsTree
    <2>5. InDevel(n) /\ n # None
      BY <2>1, <2>2, <2>3, <2>4, NoneIsNowhere
    <2>6. CASE entry[n].kind = "dir"
      <3>1. pkg["devel"][n] = Directory /\ InTree(n) = n
        BY <2>1, <2>4, <2>5, <2>6, InTreeSpec DEF InDevel
      <3>2. Ends("devel", n) = Directory
        BY <2>1, <3>1, EndsSpec DEF Directory
      <3> QED  BY <2>1, <2>5, <2>6, <3>1, <3>2 DEF ReadsAsTree
    <2>7. CASE entry[n].kind # "dir" /\ materialized[n] # None
      BY <2>1, <2>5, <2>7, BackReads DEF InDevel
    <2>8. CASE entry[n].kind = "link" /\ materialized[n] = None
      <3>1. pkg["devel"][n] = Symlink(entry[n].to)
        BY <2>5, <2>8 DEF InDevel
      <3>2. pkg["devel"][n].is = "link" /\ pkg["devel"][n].to = entry[n].to
        BY <3>1 DEF Symlink
      <3>3. Ends("devel", n) = Ends("devel", entry[n].to)
        BY <2>1, <3>2, EndsSpec
      <3>4. InTree(n) = InTree(entry[n].to) /\ entry[n].to \in Path
        BY <2>1, <2>4, <2>8, InTreeSpec, EntryIs
      <3>5. ~ ReadsAsTree(entry[n].to)
        BY <2>1, <3>3, <3>4 DEF ReadsAsTree
      <3> QED  BY <3>4, <3>5
    <2>9. CASE entry[n].kind \notin {"dir", "link"} /\ materialized[n] = None
      <3>1. PICK a \in Artifact : n \in has[a] /\ pkg["devel"][n] = Copy(a, n)
        BY <2>5, <2>9 DEF InDevel
      <3>2. InTree(n) = n
        BY <2>1, <2>4, <2>9, InTreeSpec
      <3>3. pkg["devel"][n].is = "copy"
        BY <3>1 DEF Copy
      <3>4. Ends("devel", n) = Copy(a, n)
        BY <2>1, <3>1, <3>3, EndsSpec
      <3> QED  BY <2>1, <2>5, <2>9, <3>1, <3>2, <3>4 DEF ReadsAsTree
    <2> QED  BY <2>6, <2>7, <2>8, <2>9
  <1>2. B \in SUBSET Path
    OBVIOUS
  <1> HIDE DEF B
  <1>3. B = {}
    BY <1>1, <1>2, LinksEnd DEF Inv
  <1> QED  BY <1>3 DEF B

LEMMA DevelReads == Inv => DevelIsTheTree
  BY AllReadAsTree DEF DevelIsTheTree, ReadsAsTree

(* Through the devel package, which has links back to what is in an earlier *)
(* one (materialize_devel_file), every name reads as it does in the merged  *)
(* install tree.                                                            *)
THEOREM DevelReadsAsTree == Spec => []DevelIsTheTree
  BY DevelReads, Inductive, PTL

-----------------------------------------------------------------------------
(* SONAMEs.  No two families of one artifact are built.                     *)
OneFamilyEach ==
  \A a, b \in Artifact : Origin(a) = Origin(b) => a = b

LEMMA SonameIs ==
  ASSUME Static, NEW a \in Artifact, NEW lib \in has[a], NEW n \in SonamePaths(a, lib)
  PROVE  /\ lib \in Path /\ lib # None /\ entry[lib].kind = "so" /\ Resolve(a, lib) = lib
         /\ n \in Path /\ n \in has[a] /\ entry[lib].soname = n.name /\ Resolve(a, n) = lib
  <1>1. lib \in Path /\ n \in Path /\ n \in has[a] /\ entry[lib].soname = n.name /\ Resolve(a, n) = lib
    BY DEF Static, SonamePaths
  <1>2. n.name # None
    BY <1>1, ArtifactAssumption
  <1>3. entry[lib].kind = "so"
    BY <1>1, <1>2, EntryIs
  <1> QED  BY <1>1, <1>3, ResolveSpec, NoneIsNowhere

LEMMA SonameKept ==
  ASSUME OneFamilyEach, Inv, Done, NEW k \in Packages \ {"devel"}, NEW a \in Catalog(k),
         NEW lib \in has[a], NEW s \in SonamePaths(a, lib)
  PROVE  pkg[k][s] = Copy(a, lib) /\ materialized[s] = <<k, s>>
  <1>1. a \in Artifact /\ Static
    BY CatalogIs DEF Inv
  <1>2. /\ lib \in Path /\ lib # None /\ entry[lib].kind = "so"
        /\ s \in Path /\ s \in has[a] /\ entry[lib].soname = s.name /\ Resolve(a, s) = lib
    BY <1>1, SonameIs
  <1>3. Keeps(a, s)
    BY <1>2 DEF Keeps
  <1>4. PICK j \in Packages \ {"devel"}, m \in Path : \E b \in Catalog(j) :
          materialized[s] = <<j, m>> /\ Shows(b, j, m, s)
    BY <1>2, <1>3, IsKept
  <1>5. PICK b \in Catalog(j) : Shows(b, j, m, s)
    BY <1>4
  <1>6. m = s /\ pkg[j][s] = Value(b, s) /\ Origin(a) = Origin(b) /\ b \in Artifact
    <2>1. b \in Artifact
      BY CatalogIs
    <2> QED  BY <1>1, <1>2, <1>3, <1>5, <2>1, OwnName
  <1>7. a = b
    BY <1>1, <1>6 DEF OneFamilyEach
  <1>8. j = k
    BY <1>7, OnePackage
  <1>9. pkg[k][s] = Copy(a, lib)
    BY <1>2, <1>6, <1>7, <1>8 DEF Value
  <1> QED  BY <1>4, <1>6, <1>8, <1>9

LEMMA SonamesKept == OneFamilyEach => (Inv => SonamesThere)
  BY SonameKept DEF SonamesThere

(* What the dynamic linker looks for is a real file in every runtime        *)
(* package, if no artifact is built for two families: with two, the second  *)
(* libraries package leaves out what the first has recorded                 *)
(* (maybe_materialize_lib_symlink, materialize_lib_file).                   *)
THEOREM SonamesFound ==
  ASSUME OneFamilyEach
  PROVE  Spec => []SonamesThere
  <1>1. Inv => SonamesThere
    BY SonamesKept
  <1> QED  BY <1>1, Inductive, PTL

LEMMA OneIsKept == OneFamilyEach => (Inv => OneCopy)
  <1> SUFFICES ASSUME OneFamilyEach, Inv, Done, NEW k \in Packages \ {"devel"},
                      NEW a \in Catalog(k), NEW lib \in has[a],
                      NEW s \in SonamePaths(a, lib), s = lib \/ (entry[s].near /\ entry[s].to = lib)
               PROVE  {at \in Packages \X Path : pkg[at[1]][at[2]] = Copy(a, lib)}
                        = {k} \X SonamePaths(a, lib)
    BY DEF OneCopy
  <1>1. a \in Artifact /\ Static
    BY CatalogIs DEF Inv
  <1>2. /\ lib \in Path /\ entry[lib].kind = "so" /\ lib # None /\ Resolve(a, lib) = lib
        /\ s \in Path /\ Resolve(a, s) = lib
    BY <1>1, SonameIs
  <1>3. \A n \in SonamePaths(a, lib) : n \in Path /\ pkg[k][n] = Copy(a, lib) /\ materialized[n] = <<k, n>>
    BY <1>1, SonameIs, SonameKept
  <1>4. materialized[lib] # None
    <2>1. CASE s = lib
      BY <1>2, <1>3, <2>1, NoneIsNowhere
    <2>2. CASE entry[s].near /\ entry[s].to = lib
      <3>1. Turns(a, s, lib)
        BY <1>2, <2>2 DEF Turns
      <3> QED  BY <1>1, <1>2, <1>3, <3>1 DEF Inv, Rotated
    <2> QED  BY <2>1, <2>2
  <1>5. ASSUME NEW p \in Packages, NEW n \in Path, pkg[p][n] = Copy(a, lib)
        PROVE  p = k /\ n \in SonamePaths(a, lib)
    <2>1. pkg[p][n].is = "copy"
      BY <1>5 DEF Copy
    <2>2. CASE p # "devel"
      <3>1. PICK b \in Catalog(p) : Keeps(b, n) /\ pkg[p][n] = Value(b, n)
        BY <2>1, <2>2, LibHas
      <3>2. Value(b, n) = Copy(b, Resolve(b, n))
        BY <2>1, <3>1, ValueIs DEF Stub
      <3>3. b = a /\ Resolve(b, n) = lib
        BY <1>5, <3>1, <3>2 DEF Copy
      <3>4. n \in has[a] /\ entry[lib].soname = n.name
        BY <1>2, <3>1, <3>3 DEF Keeps
      <3>5. n \in SonamePaths(a, lib)
        BY <3>3, <3>4 DEF SonamePaths
      <3>6. p = k
        BY <2>2, <3>1, <3>3, OnePackage
      <3> QED  BY <3>5, <3>6
    <2>3. CASE p = "devel"
      <3>1. InDevel(n)
        BY <1>5, <2>1, <2>3, AllVisited DEF Inv, DevelLast, Absent
      <3>2. PICK b \in Artifact : pkg["devel"][n] = Copy(b, n) /\ materialized[n] = None
        BY <2>1, <2>3, <3>1 DEF InDevel, Directory, Back, Symlink
      <3>3. n = lib
        BY <1>5, <2>3, <3>2 DEF Copy
      <3> QED  BY <1>4, <3>2, <3>3
    <2> QED  BY <2>2, <2>3
  <1> DEFINE copies == {at \in Packages \X Path : pkg[at[1]][at[2]] = Copy(a, lib)}
  <1>6. ASSUME NEW at \in copies PROVE at \in {k} \X SonamePaths(a, lib)
    <2>1. at[1] \in Packages /\ at[2] \in Path /\ at = <<at[1], at[2]>> /\ pkg[at[1]][at[2]] = Copy(a, lib)
      OBVIOUS
    <2>2. at[1] = k /\ at[2] \in SonamePaths(a, lib)
      BY <1>5, <2>1
    <2> QED  BY <2>1, <2>2
  <1>7. ASSUME NEW at \in {k} \X SonamePaths(a, lib) PROVE at \in copies
    <2>1. at = <<k, at[2]>> /\ at[1] = k /\ at[2] \in SonamePaths(a, lib)
      OBVIOUS
    <2>2. at[2] \in Path /\ pkg[at[1]][at[2]] = Copy(a, lib)
      BY <1>3, <2>1
    <2> QED  BY <2>1, <2>2
  <1> QED  BY <1>6, <1>7

(* A library with a SONAME of its own, or of a link next to it, is a file   *)
(* only where the linker looks for it: devel links back there, also by the  *)
(* name that was rotated.                                                   *)
THEOREM OneCopyOnly ==
  ASSUME OneFamilyEach
  PROVE  Spec => []OneCopy
  <1>1. Inv => OneCopy
    BY OneIsKept
  <1> QED  BY <1>1, Inductive, PTL
=============================================================================
